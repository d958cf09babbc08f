----------------------------- MODULE MCStartup -----------------------------
(* Instances of Startup for TLC: the plan of seeder.go or a short one, and *)
(* some deployments.                                                       *)
EXTENDS Startup, TLC

ASSUME SeedPlanAssumption == GoodPlan(SeedPlan, LinksOf(SeedPlan), EndsOf(SeedPlan))

ShortPlan  == <<Row("", "users:read")>>
              \o RoleWithLinks("admin", <<"users:read">>)
              \o RoleWithLinks("viewer", <<>>)
ShortLinks == LinksOf(ShortPlan)
ShortEnds  == EndsOf(ShortPlan)

Vars == {"APP_ENV", "GCP_PROJECT", "TOKEN_SECRET", "ADMIN_EMAIL", "ADMIN_PASSWORD",
         "ACCESS_TOKEN_TTL_SECONDS", "REFRESH_TOKEN_TTL_SECONDS", "LOG_LEVEL"}
Nowhere == [k \in Vars |-> Absent]
Empty   == [k \in Vars |-> Missing]
ConfigYaml == [readable |-> TRUE, environment |-> "development", logLevel |-> "info",
               accessTTL |-> 900, refreshTTL |-> 259200]

(* docker-compose: everything in .env, a TTL that does not parse.          *)
Local == [env |-> Nowhere,
          dotenv |-> [Nowhere EXCEPT !["TOKEN_SECRET"] = "s1",
                        !["ACCESS_TOKEN_TTL_SECONDS"] = Garbage],
          file |-> ConfigYaml, manager |-> Empty]

Secrets(token, email) ==
    [Empty EXCEPT !["TOKEN_SECRET"] = token, !["ADMIN_EMAIL"] = email,
                  !["ADMIN_PASSWORD"] = "pw"]

(* Kubernetes: the environment names a project, and may hold a token       *)
(* secret it should not use.                                               *)
Cloud(name, token, email) ==
    [env |-> [Nowhere EXCEPT !["APP_ENV"] = name, !["GCP_PROJECT"] = "p1",
                             !["TOKEN_SECRET"] = "s2"],
     dotenv |-> Nowhere, file |-> ConfigYaml, manager |-> Secrets(token, email)]

Worlds ==
    {Local, [Local EXCEPT !.dotenv["ADMIN_EMAIL"] = Blank, !.dotenv["ADMIN_PASSWORD"] = "pw"],
     [Local EXCEPT !.dotenv["ADMIN_EMAIL"] = "root", !.dotenv["ADMIN_PASSWORD"] = Blank],
     [Local EXCEPT !.dotenv["APP_ENV"] = "production"],
     [Local EXCEPT !.env["ACCESS_TOKEN_TTL_SECONDS"] = 0],
     [Local EXCEPT !.env["TOKEN_SECRET"] = Unset],
     [Local EXCEPT !.env["LOG_LEVEL"] = Garbage],
     [Local EXCEPT !.file.readable = FALSE],
     Cloud("production", "s1", "root"), Cloud("production", Unset, "root"),
     Cloud("staging", Missing, "root"), Cloud("staging", Blank, Unset),
     Cloud("prod", Unset, Unset), Cloud("production", "s1", Missing)}

MCInit == StartupInit /\ world \in Worlds
MCSpec == MCInit /\ [][StartupNext]_startVars /\ StartupFairness

(* The first start of a deployment, with nothing going wrong.              *)
NoAdminInit == StartupInit /\ world = Cloud("production", "s1", Missing)
NoAdminSpec == NoAdminInit /\ [][StartupNext]_startVars
=============================================================================
