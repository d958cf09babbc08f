------------------------------- MODULE Config -------------------------------
(***************************************************************************)
(* pkg/config/config.go as operators on what a process finds when it       *)
(* starts: its environment, the .env file, config.yaml and Google Secret   *)
(* Manager.  A name of an environment stands for all its spellings: every  *)
(* comparison ignores case.                                                *)
(***************************************************************************)
EXTENDS Integers

CONSTANTS
    Absent,         \* a variable that is not there
    Unset,          \* "" or a nil pointer
    Blank,          \* a text of spaces
    Garbage,        \* a text strconv.Atoi and zap's levels reject
    Missing         \* a secret the Secret Manager does not have

(* w.env, w.dotenv : variable -> text or Absent; w.file : key of           *)
(* config.yaml -> value, and whether the file can be read and parsed (a    *)
(* file that is not there can: it is empty); w.manager : secret -> payload *)
(* or Missing.                                                             *)

-----------------------------------------------------------------------------
resolveConfigValString(env, file, fallback) ==
    IF env # Unset THEN env ELSE IF file # Unset THEN file ELSE fallback

(* An environment variable that does not parse is passed over in silence.  *)
resolveConfigValInt(env, file, fallback) ==
    IF env \notin {Unset, Garbage} THEN env
    ELSE IF file # Unset THEN file ELSE fallback

(* os.Getenv does not tell a variable that is not there from an empty one. *)
Text(x) == IF x = Absent THEN Unset ELSE x

(* The first resolution of APP_ENV decides whether .env is loaded, which   *)
(* never replaces a variable, not even an empty one, but may set APP_ENV.  *)
LoadsDotenv(w) ==
    resolveConfigValString(Text(w.env.APP_ENV), w.file.environment, "development")
        = "development"

Getenv(w, k) ==
    Text(IF LoadsDotenv(w) /\ w.env[k] = Absent THEN w.dotenv[k] ELSE w.env[k])

Environment(w) ==
    resolveConfigValString(Getenv(w, "APP_ENV"), w.file.environment, "development")

(* selectSecretProvider.                                                   *)
UsesSecretManager(w) == Environment(w) \in {"production", "prod", "staging"}
HasProvider(w) == UsesSecretManager(w) => Getenv(w, "GCP_PROJECT") # Unset

(* provider.Get: a missing secret is an error of the Secret Manager and an *)
(* empty text of the environment.                                          *)
Get(w, k)      == IF UsesSecretManager(w) THEN w.manager[k] ELSE Getenv(w, k)
GetFails(w, k) == ~HasProvider(w) \/ Get(w, k) = Missing

(* Mutant: the environment variable is a fallback everywhere.              *)
TokenSecretAnywhere(w) ==
    IF Get(w, "TOKEN_SECRET") = Unset THEN Getenv(w, "TOKEN_SECRET")
    ELSE Get(w, "TOKEN_SECRET")

(* The fallback is off in production and staging, by those names only.     *)
TokenSecret(w) ==
    IF Get(w, "TOKEN_SECRET") = Unset /\ Environment(w) \notin {"production", "staging"}
    THEN Getenv(w, "TOKEN_SECRET") ELSE Get(w, "TOKEN_SECRET")

(* Load.                                                                   *)
Loads(w) == /\ w.file.readable
            /\ ~GetFails(w, "TOKEN_SECRET")
            /\ TokenSecret(w) # Unset

(* logger.New.                                                             *)
LogLevel(w) == resolveConfigValString(Getenv(w, "LOG_LEVEL"), w.file.logLevel, "info")
LoggerStarts(w) == LogLevel(w) \notin {Garbage, Blank}

AccessTokenTTL(w) ==
    resolveConfigValInt(Getenv(w, "ACCESS_TOKEN_TTL_SECONDS"), w.file.accessTTL, 900)
RefreshTokenTTL(w) ==
    resolveConfigValInt(Getenv(w, "REFRESH_TOKEN_TTL_SECONDS"), w.file.refreshTTL, 259200)

(* The constructors main calls with the configuration: NewTokenManager and *)
(* auth.NewService.                                                        *)
Wires(w, secret) ==
    secret # Blank /\ AccessTokenTTL(w) > 0 /\ RefreshTokenTTL(w) > 0

(* InitAdmin: ResolveOptionalSecret, then ResolveSecret; seedAdmin trims   *)
(* both.                                                                   *)
EmailGiven(w)    == Get(w, "ADMIN_EMAIL") # Unset
HasAdmin(w)      == Get(w, "ADMIN_EMAIL") \notin {Unset, Blank}
PasswordFails(w) == GetFails(w, "ADMIN_PASSWORD") \/ Get(w, "ADMIN_PASSWORD") = Unset
HasPassword(w)   == Get(w, "ADMIN_PASSWORD") # Blank
=============================================================================
