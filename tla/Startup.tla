------------------------------ MODULE Startup ------------------------------
(***************************************************************************)
(* The replicas of the service from main's first line to listening: load   *)
(* the configuration, connect (pkg/postgres/postgres.go), migrate, seed,   *)
(* wire.  A step that fails ends the process (log.Fatal); the platform     *)
(* starts it again.  While a replica serves, its users routes change the   *)
(* rows the seeder looks for.                                              *)
(***************************************************************************)
EXTENDS Seeder

dbConnectAttempts == 3

StartupInit == /\ rep = [r \in Replicas |-> Fresh]
               /\ stored = {}
               /\ users = [u \in UserIds |-> NoAccount]
               /\ trouble = 0

-----------------------------------------------------------------------------
(* The configuration and, with its level, the logger.                      *)
LoadConfig(r) ==
    /\ At(r, "load")
    /\ \E o \in SecretOutcomes :
         /\ Call(o)
         /\ IF Erred(o) \/ ~Loads(world) \/ ~LoggerStarts(world)
            THEN Exit(r) ELSE Go(r, "connect")
    /\ UNCHANGED <<world, stored, users>>

(* Mutant: one attempt too many.                                           *)
LastAttemptLate(r) == rep[r].tries = dbConnectAttempts

LastAttempt(r) == rep[r].tries + 1 = dbConnectAttempts

(* One attempt of Connect.                                                 *)
Connect(r) ==
    /\ At(r, "connect")
    /\ \E o \in Outcomes("postgres") :
         /\ Call(o)
         /\ IF ~Erred(o) THEN rep' = [rep EXCEPT ![r] = [Fresh EXCEPT !.pc = "migrate"]]
            ELSE IF LastAttempt(r) THEN Exit(r)
            ELSE rep' = [rep EXCEPT ![r].tries = @ + 1]
    /\ UNCHANGED <<world, stored, users>>

(* AutoMigrate; what it does to the schema is gorm's.                      *)
Migrate(r) ==
    /\ At(r, "migrate")
    /\ \E o \in Outcomes("postgres") :
         /\ Call(o)
         /\ IF Erred(o) THEN Exit(r) ELSE Go(r, "email")
    /\ UNCHANGED <<world, stored, users>>

(* The rest of main: constructors that look at the configuration, then the *)
(* listener.                                                               *)
Wire(r) ==
    /\ At(r, "wire")
    /\ IF Wires(world, TokenSecret(world)) THEN Go(r, "serving") ELSE Exit(r)
    /\ UNCHANGED <<world, stored, users, trouble>>

Restart(r) == /\ At(r, "exited")
              /\ rep' = [rep EXCEPT ![r] = Fresh]
              /\ UNCHANGED <<world, stored, users, trouble>>

Crash(r) == /\ ~At(r, "exited") /\ trouble < MaxTrouble
            /\ trouble' = trouble + 1
            /\ Exit(r)
            /\ UNCHANGED <<world, stored, users>>

-----------------------------------------------------------------------------
(* The users routes of a serving replica, a statement at a time: their own *)
(* steps are UsersService's.                                               *)
DeleteUser(u) == /\ users[u].st = "live"
                 /\ users' = [users EXCEPT ![u].st = "deleted"]

(* The UPDATE writes a whole copy: any email the index lets in.            *)
UpdateUser(u) ==
    /\ users[u].st = "live"
    /\ \E active, named \in BOOLEAN :
         /\ named => Holders \subseteq {u}
         /\ users' = [users EXCEPT ![u].active = active, ![u].named = named]

(* The first of a user under the configured email: an INSERT, or the       *)
(* UPDATE of a user that had another one.                                  *)
CreateUser(u) ==
    /\ u \in Unused /\ u = NewId /\ Holders = {}
    /\ \E active, roled \in BOOLEAN :
         users' = [users EXCEPT ![u] = NewAccount(active, roled)]

(* Create's second INSERT.                                                 *)
GiveRole(u) == /\ users[u].st # "absent"
               /\ users' = [users EXCEPT ![u].roled = TRUE]

(* Without a configured email there is no row to speak of.  Bound: the     *)
(* routes leave a row with the email, or an id for the next.               *)
Administer ==
    /\ HasAdmin(world)
    /\ \E r \in Replicas : At(r, "serving")
    /\ \E u \in UserIds :
         DeleteUser(u) \/ UpdateUser(u) \/ CreateUser(u) \/ GiveRole(u)
    /\ \E u \in UserIds : users'[u].named \/ users'[u].st = "absent"
    /\ UNCHANGED <<world, rep, stored, trouble>>

-----------------------------------------------------------------------------
Advance(r) == LoadConfig(r) \/ Connect(r) \/ Migrate(r) \/ SeedStep(r) \/ Wire(r) \/ Restart(r)

StartupNext == (\E r \in Replicas : Advance(r) \/ Crash(r)) \/ Administer

(* Whatever the processes find when they start.                            *)
StartupSpec == StartupInit /\ [][StartupNext]_startVars

(* Calls return and the platform restarts what exited.                     *)
StartupFairness == \A r \in Replicas : WF_startVars(Advance(r))

-----------------------------------------------------------------------------
(* Properties.                                                             *)

StartupTypeOK ==
    /\ rep \in [Replicas -> Process]
    /\ \A r \in Replicas : rep[r].tries < dbConnectAttempts
    /\ stored \subseteq Items
    /\ users \in [UserIds -> UserRow]
    /\ trouble \in 0 .. MaxTrouble

(* Whatever crashed and whoever seeded, the tables hold a prefix of the    *)
(* plan: no link without its role and permission (no foreign key says so)  *)
(* and nothing left out behind a replica's back (seeder.go:78-110).        *)
StoredIsPrefix ==
    \E n \in 0 .. Len(Plan) : stored = {Plan[i] : i \in 1 .. n}

(* A replica that serves found or made the whole plan and, if an email is  *)
(* configured, a user it found or made under it, which has the admin role; *)
(* although the replica may have restarted from anywhere, other replicas   *)
(* seed at the same time, and the routes of those that serve rename,       *)
(* delete and create users in between.  (The routes may take the email     *)
(* from that user afterwards, service.go:143-145, but not the role.)       *)
ServingSeeded ==
    \A r \in Replicas : At(r, "serving") =>
        /\ stored = Items
        /\ HasAdmin(world) => /\ rep[r].user \in UserIds
                              /\ users[rep[r].user].st # "absent"
                              /\ users[rep[r].user].roled

(* No start brings a deleted user back, also when the row was deleted      *)
(* after the seeder had read it (postgres.go:111-120, user.go:11).         *)
DeletedAdminStays ==
    [][\A u \in UserIds : users[u].st = "deleted" =>
         users'[u] = [users[u] EXCEPT !.roled = users'[u].roled]]_startVars

(* Once the user with the configured email is deleted, no replica that has *)
(* not looked it up yet comes to serve: the seeder's INSERT meets the      *)
(* deleted row on every start (seeder.go:122-135).                         *)
Early == Stages \ {"give", "activate", "assign", "wire", "serving"}
EmailBuried == \E u \in Holders : users[u].st = "deleted"
DeletedAdminBlocksStarts ==
    \A r \in Replicas :
        [](HasAdmin(world) /\ EmailBuried /\ rep[r].pc \in Early => []~At(r, "serving"))

(* In production and staging the service signs tokens with the secret of   *)
(* the Secret Manager or does not serve (config.go:160-169).               *)
SecretFromManager ==
    \A r \in Replicas :
        At(r, "serving") /\ Environment(world) \in {"production", "staging"} =>
            /\ TokenSecret(world) = world.manager["TOKEN_SECRET"]
            /\ TokenSecret(world) \notin {Unset, Blank, Missing}

(* A configuration the service can start with.                             *)
Startable == /\ Loads(world) /\ LoggerStarts(world)
             /\ Wires(world, TokenSecret(world))
             /\ ~GetFails(world, "ADMIN_EMAIL")
             /\ EmailGiven(world) => ~PasswordFails(world)
             /\ HasAdmin(world) => HasPassword(world)

(* Once failures stop, every replica serves in the end, whatever state an  *)
(* earlier start left the tables in and although replicas that seed at the *)
(* same time make each other give up; unless the user with the configured  *)
(* email is deleted, which no start can then use again, or the routes take *)
(* the email away from users for ever, each time after another replica's   *)
(* INSERT met it.                                                          *)
StartsInTheEnd ==
    /\ Startable /\ []~EmailBuried
    /\ <>[][\A u \in UserIds : users[u].named => users'[u].named]_startVars
    => \A r \in Replicas : <>[]At(r, "serving")

(* config.go:246 says ResolveOptionalSecret "returns (value, false) when   *)
(* the secret is missing": a missing ADMIN_EMAIL by itself never ends a    *)
(* start.                                                                  *)
OptionalSecretMayBeMissing ==
    [][\A r \in Replicas :
         /\ At(r, "email") /\ UNCHANGED trouble
         /\ HasProvider(world) /\ Get(world, "ADMIN_EMAIL") \in {Unset, Missing}
         => rep'[r].pc # "exited"]_startVars
=============================================================================
