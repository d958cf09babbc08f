--------------------------- MODULE StartupProofs ---------------------------
(***************************************************************************)
(* Proofs about Startup for every configuration, any number of replicas,   *)
(* failures and crashes, and every plan.                                   *)
(***************************************************************************)
EXTENDS Startup, TLAPS

(* The first n items of the plan.                                          *)
Made(n) == {Plan[i] : i \in 1 .. n}

(* A replica has a row to go on with.                                      *)
HasRow(r) == rep[r].user \in UserIds /\ users[rep[r].user].st # "absent"

(* What a replica has done at each stage: the plan up to its position, all *)
(* of it once it looks the admin user up, the user before the role, the    *)
(* configuration before everything else.                                   *)
AfterPlan == {"lookup", "create", "give", "activate", "assign", "wire", "serving"}
Progressed(r) ==
    /\ Made(rep[r].pos - 1) \subseteq stored
    /\ At(r, "insert") => rep[r].pos <= Len(Plan)
    /\ rep[r].pc \in AfterPlan => rep[r].pos = Len(Plan) + 1
    /\ rep[r].pc \in {"give", "activate", "assign"} => HasRow(r)
    /\ rep[r].pc \in {"wire", "serving"} /\ HasAdmin(world) =>
         HasRow(r) /\ users[rep[r].user].roled
    /\ rep[r].pc \notin {"load", "exited"} => Loads(world)
    /\ At(r, "serving") => Wires(world, TokenSecret(world))

(* The unique index.                                                       *)
EmailOnce == \A u, v \in UserIds : users[u].named /\ users[v].named => u = v

SInv == /\ StartupTypeOK
        /\ StoredIsPrefix
        /\ EmailOnce
        /\ \A r \in Replicas : Progressed(r)

-----------------------------------------------------------------------------
(* Making the next item of a prefix leaves a prefix: either another        *)
(* replica is ahead and has made it, or it is the first one missing.       *)
LEMMA PrefixGrows ==
    ASSUME NEW S, NEW n \in 0 .. Len(Plan), S = Made(n),
           NEW pos \in 1 .. Len(Plan), Made(pos - 1) \subseteq S
    PROVE  /\ \E m \in 0 .. Len(Plan) : S \cup {Plan[pos]} = Made(m)
           /\ Made(pos) \subseteq S \cup {Plan[pos]}
<1>0. Len(Plan) \in Nat
  BY PlanAssumption
<1>1. Made(pos) = Made(pos - 1) \cup {Plan[pos]}
  BY <1>0 DEF Made
<1>2. CASE pos <= n
  <2>1. S \cup {Plan[pos]} = Made(n)
    BY <1>0, <1>2 DEF Made
  <2> QED BY <1>1, <2>1
<1>3. CASE n <= pos - 1
  <2>1. Made(n) \subseteq Made(pos - 1)
    BY <1>0, <1>3 DEF Made
  <2>2. S \cup {Plan[pos]} = Made(pos)
    BY <1>1, <2>1
  <2> QED BY <1>0, <1>1, <2>2
<1> QED BY <1>0, <1>2, <1>3

(* What every step does to the users, what every step of a replica does to *)
(* the state it shares, and to its own process.                            *)
UsersKept ==
    /\ users' \in [UserIds -> UserRow] /\ EmailOnce'
    /\ \A u \in UserIds : users[u].st # "absent" =>
         users'[u].st # "absent" /\ (users[u].roled => users'[u].roled)
Shared ==
    /\ world' = world /\ trouble' \in 0 .. MaxTrouble
    /\ stored \subseteq stored' /\ StoredIsPrefix'
    /\ UsersKept
Moved(r, x) == /\ x \in Process /\ x.tries < dbConnectAttempts
               /\ rep' = [rep EXCEPT ![r] = x]
               /\ Progressed(r)'

(* Such a step keeps what the other replicas rely on.                      *)
LEMMA StepKeeps ==
    ASSUME SInv, NEW r \in Replicas, NEW x, Shared, Moved(r, x)
    PROVE  SInv'
<1>1. rep' \in [Replicas -> Process] /\ rep'[r] = x
      /\ \A q \in Replicas \ {r} : rep'[q] = rep[q]
  BY DEF SInv, StartupTypeOK, Moved
<1>2. stored' \subseteq Items
  BY PlanAssumption DEF Shared, StoredIsPrefix, Items
<1>3. StartupTypeOK'
  BY <1>1, <1>2 DEF SInv, StartupTypeOK, Shared, UsersKept, Moved
<1>4. ASSUME NEW q \in Replicas, q # r PROVE Progressed(q)'
  BY <1>1, <1>4 DEF SInv, Progressed, HasRow, At, Shared, UsersKept
<1>5. \A q \in Replicas : Progressed(q)'
  BY <1>4 DEF Moved
<1> QED BY <1>3, <1>5 DEF SInv, Shared, UsersKept

(* A row that appears or changes, within the unique index.                 *)
LEMMA RowChanges ==
    ASSUME SInv, NEW u \in UserIds, NEW row \in UserRow,
           users' = [users EXCEPT ![u] = row],
           row.st # "absent", row.named => Holders \subseteq {u},
           users[u].st # "absent" /\ users[u].roled => row.roled
    PROVE  UsersKept /\ users'[u] = row
<1>1. /\ users \in [UserIds -> UserRow] /\ users' \in [UserIds -> UserRow]
      /\ users'[u] = row /\ \A v \in UserIds \ {u} : users'[v] = users[v]
  BY DEF SInv, StartupTypeOK
<1>2. EmailOnce'
  BY <1>1 DEF SInv, EmailOnce, Holders
<1> QED BY <1>1, <1>2 DEF UsersKept

(* An exited process has nothing to rely on.                               *)
LEMMA ExitMoves ==
    ASSUME SInv, NEW r \in Replicas, Exit(r)
    PROVE  Moved(r, [Fresh EXCEPT !.pc = "exited"])
<1> DEFINE x == [Fresh EXCEPT !.pc = "exited"]
<1>1. x.pc = "exited" /\ x.pos = 1 /\ x.tries = 0 /\ x \in Process
  BY PlanAssumption DEF Fresh, Process, Stages
<1>2. rep' = [rep EXCEPT ![r] = x] /\ rep'[r] = x
  BY DEF Exit, SInv, StartupTypeOK
<1>3. Made(0) = {}
  BY DEF Made
<1> HIDE DEF x
<1>4. Progressed(r)'
  BY <1>1, <1>2, <1>3 DEF Progressed, At, AfterPlan
<1> QED BY <1>1, <1>2, <1>4 DEF Moved, dbConnectAttempts, x

(* A step that only moves a process leaves the rest as it was.             *)
LEMMA Unchanged ==
    ASSUME SInv, UNCHANGED <<world, stored, users>>, trouble' \in 0 .. MaxTrouble
    PROVE  Shared
  BY DEF SInv, StartupTypeOK, StoredIsPrefix, EmailOnce, Shared, UsersKept

(* A call counts its failure.                                              *)
LEMMA CallCounts ==
    ASSUME SInv, NEW o, Call(o)
    PROVE  trouble' \in 0 .. MaxTrouble
  BY MaxTroubleAssumption DEF SInv, StartupTypeOK, Call

(* A process that goes on keeps its position.                              *)
LEMMA StageMoves ==
    ASSUME SInv, NEW r \in Replicas, NEW pc \in Stages, NEW u \in UserIds \cup {NoUser},
           rep' = [rep EXCEPT ![r] = [rep[r] EXCEPT !.pc = pc, !.user = u]], Shared,
           pc = "insert" => rep[r].pos <= Len(Plan),
           pc \in AfterPlan => rep[r].pos = Len(Plan) + 1,
           pc \in {"give", "activate", "assign"} => u \in UserIds /\ users'[u].st # "absent",
           pc \in {"wire", "serving"} /\ HasAdmin(world) =>
             u \in UserIds /\ users'[u].st # "absent" /\ users'[u].roled,
           pc \notin {"load", "exited"} => Loads(world),
           pc = "serving" => Wires(world, TokenSecret(world))
    PROVE  SInv'
<1> DEFINE x == [rep[r] EXCEPT !.pc = pc, !.user = u]
<1>1. rep[r] \in Process /\ rep[r].tries < dbConnectAttempts /\ Progressed(r)
  BY DEF SInv, StartupTypeOK
<1>2. /\ x \in Process /\ x.tries = rep[r].tries /\ x.pos = rep[r].pos /\ x.pc = pc
      /\ x.user = u /\ rep' = [rep EXCEPT ![r] = x] /\ rep'[r] = x
  BY <1>1 DEF Process, SInv, StartupTypeOK
<1> HIDE DEF x
<1>3. Made(x.pos - 1) \subseteq stored'
  BY <1>1, <1>2 DEF Progressed, Shared
<1>4. Progressed(r)'
  BY <1>2, <1>3 DEF Progressed, HasRow, At, Shared
<1>5. Moved(r, x)
  BY <1>1, <1>2, <1>4 DEF Moved
<1> QED BY <1>5, StepKeeps

(* With the row it has, or none.                                           *)
LEMMA GoMoves ==
    ASSUME SInv, NEW r \in Replicas, NEW pc \in Stages, Go(r, pc), Shared,
           pc = "insert" => rep[r].pos <= Len(Plan),
           pc \in AfterPlan => rep[r].pos = Len(Plan) + 1,
           pc \in {"give", "activate", "assign"} => HasRow(r),
           pc \in {"wire", "serving"} /\ HasAdmin(world) =>
             HasRow(r) /\ users'[rep[r].user].roled,
           pc \notin {"load", "exited"} => Loads(world),
           pc = "serving" => Wires(world, TokenSecret(world))
    PROVE  SInv'
<1>1. rep \in [Replicas -> Process] /\ rep[r] \in Process
  BY DEF SInv, StartupTypeOK
<1>2. /\ rep[r].user \in UserIds \cup {NoUser}
      /\ rep' = [rep EXCEPT ![r] = [rep[r] EXCEPT !.pc = pc, !.user = rep[r].user]]
  BY <1>1 DEF Go, Process
<1>3. HasRow(r) => rep[r].user \in UserIds /\ users'[rep[r].user].st # "absent"
  BY DEF HasRow, Shared, UsersKept
<1> QED BY <1>2, <1>3, StageMoves

(* With a row it found or made.                                            *)
LEMMA GoWithMoves ==
    ASSUME SInv, NEW r \in Replicas, NEW u \in UserIds,
           NEW pc \in {"give", "activate", "assign"}, GoWith(r, u, pc), Shared,
           users'[u].st # "absent", rep[r].pos = Len(Plan) + 1, Loads(world)
    PROVE  SInv'
<1>1. rep \in [Replicas -> Process] /\ rep[r] \in Process /\ pc \in Stages
  BY DEF SInv, StartupTypeOK, Stages
<1>2. rep' = [rep EXCEPT ![r] = [rep[r] EXCEPT !.pc = pc, !.user = u]]
  BY <1>1 DEF GoWith, Process
<1> QED BY <1>1, <1>2, StageMoves

(* Exiting keeps the invariant, whatever was made before.                  *)
LEMMA ExitKeeps ==
    ASSUME SInv, NEW r \in Replicas, Exit(r), Shared
    PROVE  SInv'
  BY ExitMoves, StepKeeps

-----------------------------------------------------------------------------
(* One lemma per group of actions.                                         *)

(* main before the seeder.                                                 *)
LEMMA BootKeeps ==
    ASSUME SInv, NEW r \in Replicas, LoadConfig(r) \/ Connect(r) \/ Migrate(r)
    PROVE  SInv'
<1>1. CASE LoadConfig(r)
  <2>1. PICK o \in SecretOutcomes :
          /\ Call(o)
          /\ Exit(r) \/ (Loads(world) /\ Go(r, "connect"))
    BY <1>1 DEF LoadConfig
  <2>2. Shared
    BY <1>1, <2>1, CallCounts, Unchanged DEF LoadConfig
  <2>3. Go(r, "connect") /\ Loads(world) => SInv'
    BY <2>2, GoMoves DEF Stages, AfterPlan
  <2> QED BY <2>1, <2>2, <2>3, ExitKeeps
<1>2. CASE Connect(r)
  <2> DEFINE m == [Fresh EXCEPT !.pc = "migrate"]
             x == [rep[r] EXCEPT !.tries = @ + 1]
  <2>1. PICK o \in Outcomes("postgres") :
          /\ Call(o)
          /\ IF ~Erred(o) THEN rep' = [rep EXCEPT ![r] = m]
             ELSE IF LastAttempt(r) THEN Exit(r)
             ELSE rep' = [rep EXCEPT ![r].tries = @ + 1]
    BY <1>2 DEF Connect
  <2>2. Shared
    BY <1>2, <2>1, CallCounts, Unchanged DEF Connect
  <2>3. /\ rep \in [Replicas -> Process] /\ rep[r].tries < dbConnectAttempts
        /\ Progressed(r) /\ rep[r].pc = "connect" /\ Loads(world)
    BY <1>2 DEF SInv, StartupTypeOK, Connect, At, Progressed
  <2>4. CASE rep' = [rep EXCEPT ![r] = m]
    <3>1. m.pc = "migrate" /\ m.pos = 1 /\ m.tries = 0 /\ m \in Process
      BY PlanAssumption DEF Fresh, Process, Stages
    <3>2. rep'[r] = m /\ Made(0) = {}
      BY <2>3, <2>4 DEF Made
    <3> HIDE DEF m
    <3>3. Progressed(r)'
      BY <2>2, <2>3, <3>1, <3>2 DEF Progressed, At, AfterPlan, Shared
    <3>4. Moved(r, m)
      BY <2>4, <3>1, <3>3 DEF Moved, dbConnectAttempts
    <3> QED BY <2>2, <3>4, StepKeeps
  <2>5. CASE ~LastAttempt(r) /\ rep' = [rep EXCEPT ![r].tries = @ + 1]
    <3>0. rep' = [rep EXCEPT ![r] = x]
      BY <2>5
    <3>1. /\ rep'[r] = x /\ x \in Process
          /\ x.pc = "connect" /\ x.pos = rep[r].pos /\ x.tries < dbConnectAttempts
      <4>1. rep[r] \in Process /\ rep[r].tries \in Nat /\ rep[r].tries + 1 < 3
        BY <2>3, <2>5 DEF Process, LastAttempt, dbConnectAttempts
      <4>2. x \in Process /\ x.pc = "connect" /\ x.pos = rep[r].pos
            /\ x.tries = rep[r].tries + 1
        BY <2>3, <4>1 DEF Process
      <4> QED BY <2>3, <3>0, <4>1, <4>2 DEF dbConnectAttempts
    <3> HIDE DEF x
    <3>2. Made(x.pos - 1) \subseteq stored'
      BY <2>2, <2>3, <3>1 DEF Progressed, Shared
    <3>3. Progressed(r)'
      BY <2>2, <2>3, <3>1, <3>2 DEF Progressed, At, AfterPlan, Shared
    <3>4. Moved(r, x)
      BY <3>0, <3>1, <3>3 DEF Moved
    <3> QED BY <2>2, <3>4, StepKeeps
  <2> QED BY <2>1, <2>2, <2>4, <2>5, ExitKeeps
<1>3. CASE Migrate(r)
  <2>1. PICK o \in Outcomes("postgres") :
          Call(o) /\ IF Erred(o) THEN Exit(r) ELSE Go(r, "email")
    BY <1>3 DEF Migrate
  <2>2. Shared
    BY <1>3, <2>1, CallCounts, Unchanged DEF Migrate
  <2>3. Loads(world)
    BY <1>3 DEF SInv, Progressed, Migrate, At
  <2>4. Go(r, "email") => SInv'
    BY <2>2, <2>3, GoMoves DEF Stages, AfterPlan
  <2> QED BY <2>1, <2>2, <2>4, ExitKeeps
<1> QED BY <1>1, <1>2, <1>3

(* main after the seeder, and the ends of a process.                       *)
LEMMA EndsKeep ==
    ASSUME SInv, NEW r \in Replicas, Wire(r) \/ Restart(r) \/ Crash(r)
    PROVE  SInv'
<1>1. CASE Wire(r)
  <2>1. Shared
    BY <1>1, Unchanged DEF Wire, SInv, StartupTypeOK
  <2>2. /\ rep[r].pos = Len(Plan) + 1 /\ Loads(world)
        /\ HasAdmin(world) => HasRow(r) /\ users[rep[r].user].roled
    BY <1>1 DEF SInv, Progressed, Wire, At, AfterPlan
  <2>3. HasAdmin(world) => users'[rep[r].user].roled
    BY <1>1, <2>2 DEF Wire
  <2>4. Go(r, "serving") /\ Wires(world, TokenSecret(world)) => SInv'
    BY <2>1, <2>2, <2>3, GoMoves DEF Stages
  <2> QED BY <1>1, <2>1, <2>4, ExitKeeps DEF Wire
<1>2. CASE Restart(r)
  <2>1. Shared
    BY <1>2, Unchanged DEF Restart, SInv, StartupTypeOK
  <2>2. Fresh.pc = "load" /\ Fresh.pos = 1 /\ Fresh.tries = 0 /\ Fresh \in Process
    BY PlanAssumption DEF Fresh, Process, Stages
  <2>3. rep' = [rep EXCEPT ![r] = Fresh] /\ rep'[r] = Fresh /\ Made(0) = {}
    BY <1>2 DEF Restart, SInv, StartupTypeOK, Made
  <2>4. Progressed(r)'
    BY <2>2, <2>3 DEF Progressed, At, AfterPlan
  <2>5. Moved(r, Fresh)
    BY <2>2, <2>3, <2>4 DEF Moved, dbConnectAttempts
  <2> QED BY <2>1, <2>5, StepKeeps
<1>3. CASE Crash(r)
  <2>1. trouble' \in 0 .. MaxTrouble
    BY <1>3, MaxTroubleAssumption DEF Crash, SInv, StartupTypeOK
  <2> QED BY <1>3, <2>1, Unchanged, ExitKeeps DEF Crash
<1> QED BY <1>1, <1>2, <1>3

(* The steps of the seeder that only read, or decide.                      *)
LEMMA ReadKeeps ==
    ASSUME SInv, NEW r \in Replicas,
           \/ ResolveEmail(r) \/ ResolvePassword(r) \/ PlanDone(r) \/ LookupAdmin(r)
    PROVE  SInv'
<1>1. CASE ResolveEmail(r)
  <2>1. PICK o \in SecretOutcomes :
          /\ Call(o)
          /\ \/ Exit(r) \/ Go(r, "password") \/ Go(r, "seed")
    BY <1>1 DEF ResolveEmail
  <2>2. Shared
    BY <1>1, <2>1, CallCounts, Unchanged DEF ResolveEmail
  <2>3. Loads(world)
    BY <1>1 DEF SInv, Progressed, ResolveEmail, At
  <2>4. (Go(r, "password") => SInv') /\ (Go(r, "seed") => SInv')
    BY <2>2, <2>3, GoMoves DEF Stages, AfterPlan
  <2> QED BY <2>1, <2>2, <2>4, ExitKeeps
<1>2. CASE ResolvePassword(r)
  <2>1. PICK o \in SecretOutcomes : Call(o) /\ (Exit(r) \/ Go(r, "seed"))
    BY <1>2 DEF ResolvePassword
  <2>2. Shared
    BY <1>2, <2>1, CallCounts, Unchanged DEF ResolvePassword
  <2>3. Loads(world)
    BY <1>2 DEF SInv, Progressed, ResolvePassword, At
  <2>4. Go(r, "seed") => SInv'
    BY <2>2, <2>3, GoMoves DEF Stages, AfterPlan
  <2> QED BY <2>1, <2>2, <2>4, ExitKeeps
<1>3. CASE PlanDone(r)
  <2>1. Shared
    BY <1>3, Unchanged DEF PlanDone, SInv, StartupTypeOK
  <2>2. Loads(world) /\ rep[r].pos = Len(Plan) + 1
    <3>1. Loads(world) /\ rep[r] \in Process
      BY <1>3 DEF SInv, StartupTypeOK, Progressed, PlanDone, At
    <3> QED BY <1>3, <3>1, PlanAssumption DEF Process, PlanDone
  <2>3. ~HasAdmin(world) /\ Go(r, "wire") => SInv'
    BY <2>1, <2>2, GoMoves DEF Stages
  <2>4. Go(r, "lookup") => SInv'
    BY <2>1, <2>2, GoMoves DEF Stages
  <2> QED BY <1>3, <2>1, <2>3, <2>4, ExitKeeps DEF PlanDone
<1>4. CASE LookupAdmin(r)
  <2>1. PICK o \in Outcomes("postgres") :
          /\ Call(o)
          /\ \/ Exit(r) \/ Go(r, "create")
             \/ \E u \in ByEmail : GoWith(r, u, AfterLookup(u))
    BY <1>4 DEF LookupAdmin
  <2>2. Shared
    BY <1>4, <2>1, CallCounts, Unchanged DEF LookupAdmin
  <2>3. Loads(world) /\ rep[r].pos = Len(Plan) + 1
    BY <1>4 DEF SInv, Progressed, LookupAdmin, At, AfterPlan
  <2>4. ASSUME NEW u \in ByEmail, GoWith(r, u, AfterLookup(u)) PROVE SInv'
    <3>1. u \in UserIds /\ users'[u].st # "absent"
      BY <1>4 DEF ByEmail, Holders, LookupAdmin
    <3>2. AfterLookup(u) \in {"give", "activate", "assign"}
      BY DEF AfterLookup
    <3> QED BY <2>2, <2>3, <2>4, <3>1, <3>2, GoWithMoves
  <2>5. Go(r, "create") => SInv'
    BY <2>2, <2>3, GoMoves DEF Stages
  <2> QED BY <2>1, <2>2, <2>4, <2>5, ExitKeeps
<1> QED BY <1>1, <1>2, <1>3, <1>4

(* The next item of the plan is there: the process moves on.               *)
LEMMA ForwardKeeps ==
    ASSUME SInv, NEW r \in Replicas, Shared, Loads(world),
           rep[r].pos <= Len(Plan), Made(rep[r].pos) \subseteq stored',
           Forward(r, After(rep[r].pos))
    PROVE  SInv'
<1> DEFINE x == [rep[r] EXCEPT !.pc = "seed", !.pos = rep[r].pos + 1]
<1>1. /\ rep \in [Replicas -> Process] /\ rep[r] \in Process
      /\ rep[r].pos \in Nat /\ rep[r].tries < dbConnectAttempts /\ Len(Plan) \in Nat
  BY PlanAssumption DEF SInv, StartupTypeOK, Process
<1>2. rep' = [rep EXCEPT ![r] = x] /\ rep'[r] = x
  BY <1>1 DEF Forward, After, Process
<1>3. x.pc = "seed" /\ x.pos = rep[r].pos + 1 /\ x.tries = rep[r].tries /\ x \in Process
  <2>1. rep[r].pos + 1 \in 1 .. Len(Plan) + 1 /\ "seed" \in Stages
    BY <1>1 DEF Stages
  <2> QED BY <1>1, <2>1 DEF Process
<1> HIDE DEF x
<1>4. x.pos - 1 = rep[r].pos
  BY <1>1, <1>3
<1>5. Made(x.pos - 1) \subseteq stored'
  BY <1>4
<1>6. Progressed(r)'
  BY <1>2, <1>3, <1>5 DEF Progressed, At, AfterPlan, Shared
<1>7. Moved(r, x)
  BY <1>1, <1>2, <1>3, <1>6 DEF Moved
<1> QED BY <1>7, StepKeeps

(* The item at the replica's position, when it is or becomes a row.        *)
LEMMA ItemMade ==
    ASSUME SInv, NEW r \in Replicas, rep[r].pos <= Len(Plan),
           UNCHANGED <<world, users>>, trouble' \in 0 .. MaxTrouble,
           stored' = stored \/ stored' = stored \cup {Item(r)}
    PROVE  /\ Shared
           /\ Item(r) \in stored' => Made(rep[r].pos) \subseteq stored'
<1> DEFINE pos == rep[r].pos
<1>1. pos \in 1 .. Len(Plan) /\ Made(pos - 1) \subseteq stored /\ Item(r) = Plan[pos]
  BY PlanAssumption DEF SInv, StartupTypeOK, Progressed, Process, Item
<1>2. PICK n \in 0 .. Len(Plan) : stored = Made(n)
  BY DEF SInv, StoredIsPrefix, Made
<1> HIDE DEF pos
<1>3. /\ \E m \in 0 .. Len(Plan) : stored \cup {Plan[pos]} = Made(m)
      /\ Made(pos) \subseteq stored \cup {Plan[pos]}
  <2>1. pos \in 1 .. Len(Plan) /\ Made(pos - 1) \subseteq stored
    BY <1>1
  <2> QED BY <1>2, <2>1, PrefixGrows
<1>4. StoredIsPrefix'
  BY <1>1, <1>2, <1>3 DEF StoredIsPrefix, Made
<1>5. Shared
  BY <1>4 DEF Shared, UsersKept, EmailOnce, SInv, StartupTypeOK
<1> QED BY <1>1, <1>3, <1>5 DEF pos

(* The plan: FirstOrCreate and linkRolePermissions.                        *)
LEMMA PlanKeeps ==
    ASSUME SInv, NEW r \in Replicas, FindItem(r) \/ InsertItem(r) \/ LinkItem(r)
    PROVE  SInv'
<1>0. rep[r].pos <= Len(Plan) /\ Loads(world)
  BY DEF SInv, Progressed, FindItem, InsertItem, LinkItem, Planned, At
<1>1. CASE FindItem(r)
  <2>1. PICK o \in Outcomes("postgres") :
          /\ Call(o)
          /\ IF Erred(o) THEN Exit(r)
             ELSE IF Item(r) \in stored THEN Forward(r, Found(rep[r].pos))
             ELSE Go(r, "insert")
    BY <1>1 DEF FindItem
  <2>2. UNCHANGED <<world, stored, users>> /\ trouble' \in 0 .. MaxTrouble
    BY <1>1, <2>1, CallCounts DEF FindItem
  <2>3. Shared /\ (Item(r) \in stored => Made(rep[r].pos) \subseteq stored')
    BY <1>0, <2>2, ItemMade
  <2>4. Item(r) \in stored /\ Forward(r, Found(rep[r].pos)) => SInv'
    BY <1>0, <2>3, ForwardKeeps DEF Found
  <2>5. Go(r, "insert") => SInv'
    BY <1>0, <2>3, GoMoves DEF Stages, AfterPlan
  <2> QED BY <2>1, <2>3, <2>4, <2>5, ExitKeeps
<1>2. ASSUME InsertItem(r) \/ LinkItem(r) PROVE SInv'
  <2>1. PICK o \in Outcomes("postgres") :
          /\ Call(o)
          /\ stored' = IF Applied(o) THEN stored \cup {Item(r)} ELSE stored
          /\ Exit(r) \/ (~Erred(o) /\ Forward(r, After(rep[r].pos)))
    BY <1>2 DEF InsertItem, LinkItem
  <2>2. UNCHANGED <<world, users>> /\ trouble' \in 0 .. MaxTrouble
    BY <1>2, <2>1, CallCounts DEF InsertItem, LinkItem
  <2>3. Shared /\ (Item(r) \in stored' => Made(rep[r].pos) \subseteq stored')
    BY <1>0, <2>1, <2>2, ItemMade
  <2>4. ~Erred(o) => Item(r) \in stored'
    BY <2>1 DEF Erred, Applied
  <2> QED BY <1>0, <2>1, <2>3, <2>4, ForwardKeeps, ExitKeeps
<1> QED BY <1>1, <1>2

(* The writes on the admin user's row.                                     *)
LEMMA AdminKeeps ==
    ASSUME SInv, NEW r \in Replicas, CreateAdmin(r) \/ AssignAdmin(r) \/ ActivateAdmin(r)
    PROVE  SInv'
<1>0. /\ Loads(world) /\ rep[r].pos = Len(Plan) + 1 /\ users \in [UserIds -> UserRow]
      /\ rep[r].pc \in {"give", "activate", "assign"} => HasRow(r)
  BY DEF SInv, StartupTypeOK, Progressed, CreateAdmin, AssignAdmin, ActivateAdmin, At,
         AfterPlan
<1>1. ASSUME trouble' \in 0 .. MaxTrouble, UNCHANGED <<world, stored>>, UsersKept
      PROVE  Shared
  BY <1>1 DEF Shared, SInv, StoredIsPrefix
<1>2. ASSUME users' = users PROVE UsersKept
  BY <1>0, <1>2 DEF UsersKept, SInv, EmailOnce
<1>3. CASE CreateAdmin(r)
  <2> DEFINE row == NewAccount(TRUE, FALSE)
  <2>1. PICK o \in Outcomes("postgres") :
          /\ Call(o)
          /\ \/ UNCHANGED users /\ Exit(r)
             \/ /\ Holders = {} /\ Unused # {}
                /\ users' = [users EXCEPT ![NewId] = row]
                /\ Exit(r) \/ GoWith(r, NewId, "give")
    BY <1>3 DEF CreateAdmin
  <2>2. trouble' \in 0 .. MaxTrouble /\ UNCHANGED <<world, stored>>
    BY <1>3, <2>1, CallCounts DEF CreateAdmin
  <2>3. row \in UserRow /\ row.st # "absent" /\ row.named
    BY DEF NewAccount, UserRow
  <2> HIDE DEF row
  <2>4. CASE UNCHANGED users /\ Exit(r)
    BY <1>1, <1>2, <2>2, <2>4, ExitKeeps
  <2>5. CASE /\ Holders = {} /\ Unused # {}
             /\ users' = [users EXCEPT ![NewId] = row]
             /\ Exit(r) \/ GoWith(r, NewId, "give")
    <3>1. NewId \in UserIds /\ users[NewId].st = "absent"
      BY <2>5 DEF NewId, Unused
    <3>2. UsersKept /\ users'[NewId] = row
      BY <2>3, <2>5, <3>1, RowChanges
    <3> QED BY <1>0, <1>1, <2>2, <2>3, <2>5, <3>1, <3>2, ExitKeeps, GoWithMoves
  <2> QED BY <2>1, <2>4, <2>5
<1>4. CASE AssignAdmin(r)
  <2> DEFINE u == rep[r].user
             row == [users[u] EXCEPT !.roled = TRUE]
  <2>1. PICK o \in Outcomes("postgres") :
          /\ Call(o)
          /\ users' = [users EXCEPT ![u].roled = @ \/ Applied(o)]
          /\ Exit(r) \/ (~Erred(o) /\ (Go(r, "assign") \/ Go(r, "wire")))
    BY <1>4 DEF AssignAdmin
  <2>2. u \in UserIds /\ users[u].st # "absent" /\ users[u] \in UserRow /\ HasRow(r)
    BY <1>0, <1>4 DEF AssignAdmin, HasRow
  <2>3. /\ row \in UserRow /\ row.st = users[u].st /\ row.named = users[u].named
        /\ row.roled
    BY <2>2 DEF UserRow
  <2>4. /\ Applied(o) => users' = [users EXCEPT ![u] = row]
        /\ ~Applied(o) => users' = users
    <3>1. users[u].roled \in BOOLEAN
      BY <2>2 DEF UserRow
    <3>2. users[u] = [users[u] EXCEPT !.roled = users[u].roled]
      BY <2>2 DEF UserRow
    <3>3. users' = [users EXCEPT ![u] = [users[u] EXCEPT !.roled = users[u].roled \/ Applied(o)]]
      BY <1>0, <2>1, <2>2
    <3>4. Applied(o) => (users[u].roled \/ Applied(o)) = TRUE
      BY DEF Applied
    <3>5. ~Applied(o) => (users[u].roled \/ Applied(o)) = users[u].roled
      BY <3>1 DEF Applied
    <3> QED BY <1>0, <2>2, <3>2, <3>3, <3>4, <3>5
  <2> HIDE DEF row
  <2>5. row.named => Holders \subseteq {u}
    BY <2>2, <2>3 DEF Holders, SInv, EmailOnce
  <2>6. UsersKept /\ (Applied(o) => users'[u] = row)
    BY <1>2, <2>2, <2>3, <2>4, <2>5, RowChanges
  <2>7. Shared
    BY <1>1, <1>4, <2>1, <2>6, CallCounts DEF AssignAdmin
  <2>8. ~Erred(o) => users'[rep[r].user].roled
    BY <2>3, <2>6 DEF Erred, Applied
  <2>9. ~Erred(o) /\ (Go(r, "assign") \/ Go(r, "wire")) => SInv'
    BY <1>0, <2>2, <2>7, <2>8, GoMoves DEF Stages
  <2> QED BY <2>1, <2>7, <2>9, ExitKeeps
<1>5. CASE ActivateAdmin(r)
  <2> DEFINE u == rep[r].user
             row == [users[u] EXCEPT !.active = TRUE, !.named = TRUE]
  <2>1. PICK o \in Outcomes("postgres") :
          /\ Call(o)
          /\ \/ users' = users
             \/ /\ Holders \subseteq {u}
                /\ users' = [users EXCEPT ![u].active = TRUE, ![u].named = TRUE]
          /\ Exit(r) \/ Go(r, "assign")
    BY <1>5 DEF ActivateAdmin
  <2>2. u \in UserIds /\ users[u].st # "absent" /\ users[u] \in UserRow /\ HasRow(r)
    BY <1>0, <1>5 DEF ActivateAdmin, At, HasRow
  <2>3. row \in UserRow /\ row.st = users[u].st /\ row.roled = users[u].roled
    BY <2>2 DEF UserRow
  <2>4. users' = users \/ (Holders \subseteq {u} /\ users' = [users EXCEPT ![u] = row])
    BY <1>0, <2>1, <2>2
  <2> HIDE DEF row
  <2>5. UsersKept
    BY <1>2, <2>2, <2>3, <2>4, RowChanges
  <2>6. Shared
    BY <1>1, <1>5, <2>1, <2>5, CallCounts DEF ActivateAdmin
  <2>7. Go(r, "assign") => SInv'
    BY <1>0, <2>2, <2>6, GoMoves DEF Stages
  <2> QED BY <2>1, <2>6, <2>7, ExitKeeps
<1> QED BY <1>3, <1>4, <1>5

(* What the users routes do to a row.                                      *)
LEMMA RoutesKeep ==
    ASSUME SInv, NEW u \in UserIds,
           DeleteUser(u) \/ UpdateUser(u) \/ CreateUser(u) \/ GiveRole(u)
    PROVE  UsersKept
<1>1. /\ users \in [UserIds -> UserRow] /\ users[u] \in UserRow
      /\ users[u].named => Holders \subseteq {u}
  BY DEF SInv, StartupTypeOK, EmailOnce, Holders
<1>2. CASE DeleteUser(u)
  <2> DEFINE row == [users[u] EXCEPT !.st = "deleted"]
  <2>1. users' = [users EXCEPT ![u] = row]
    BY <1>1, <1>2 DEF DeleteUser
  <2>2. /\ row \in UserRow /\ row.st = "deleted"
        /\ row.named = users[u].named /\ row.roled = users[u].roled
    BY <1>1 DEF UserRow
  <2> HIDE DEF row
  <2> QED BY <1>1, <2>1, <2>2, RowChanges
<1>3. CASE UpdateUser(u)
  <2>1. PICK active \in BOOLEAN, named \in BOOLEAN :
          /\ named => Holders \subseteq {u}
          /\ users' = [users EXCEPT ![u].active = active, ![u].named = named]
    BY <1>3 DEF UpdateUser
  <2> DEFINE row == [users[u] EXCEPT !.active = active, !.named = named]
  <2>2. users' = [users EXCEPT ![u] = row] /\ users[u].st = "live"
    BY <1>1, <1>3, <2>1 DEF UpdateUser
  <2>3. /\ row \in UserRow /\ row.st = users[u].st
        /\ row.named = named /\ row.roled = users[u].roled
    BY <1>1 DEF UserRow
  <2> HIDE DEF row
  <2> QED BY <2>1, <2>2, <2>3, RowChanges
<1>4. CASE CreateUser(u)
  <2>1. PICK active \in BOOLEAN, roled \in BOOLEAN :
          users' = [users EXCEPT ![u] = NewAccount(active, roled)]
    BY <1>4 DEF CreateUser
  <2>2. NewAccount(active, roled) \in UserRow /\ NewAccount(active, roled).st # "absent"
    BY DEF NewAccount, UserRow
  <2> QED BY <1>4, <2>1, <2>2, RowChanges DEF CreateUser, Unused
<1>5. CASE GiveRole(u)
  <2> DEFINE row == [users[u] EXCEPT !.roled = TRUE]
  <2>1. users' = [users EXCEPT ![u] = row] /\ users[u].st # "absent"
    BY <1>1, <1>5 DEF GiveRole
  <2>2. row \in UserRow /\ row.st = users[u].st /\ row.named = users[u].named /\ row.roled
    BY <1>1 DEF UserRow
  <2> HIDE DEF row
  <2> QED BY <1>1, <2>1, <2>2, RowChanges
<1> QED BY <1>2, <1>3, <1>4, <1>5

(* They keep what the replicas rely on.                                    *)
LEMMA AdministerKeeps ==
    ASSUME SInv, Administer
    PROVE  SInv'
<1>1. UNCHANGED <<world, rep, stored, trouble>> /\ UsersKept
  BY RoutesKeep DEF Administer
<1>2. StartupTypeOK' /\ StoredIsPrefix' /\ EmailOnce'
  BY <1>1 DEF SInv, StartupTypeOK, StoredIsPrefix, UsersKept
<1>3. \A r \in Replicas : Progressed(r)'
  BY <1>1 DEF SInv, Progressed, HasRow, At, UsersKept
<1> QED BY <1>2, <1>3 DEF SInv

-----------------------------------------------------------------------------
(* The invariant, and what follows from it.                                *)

(* The first start finds empty tables.                                     *)
LEMMA StartupStarts == StartupInit => SInv
<1> SUFFICES ASSUME StartupInit PROVE SInv
  OBVIOUS
<1>1. /\ Fresh.pc = "load" /\ Fresh.pos = 1 /\ Fresh.tries = 0 /\ Fresh \in Process
      /\ Made(0) = {}
  BY PlanAssumption DEF Fresh, Process, Stages, Made
<1>2. rep \in [Replicas -> Process] /\ \A r \in Replicas : rep[r] = Fresh
  BY <1>1 DEF StartupInit
<1>3. users \in [UserIds -> UserRow] /\ EmailOnce
  BY DEF StartupInit, NoAccount, UserRow, EmailOnce
<1>4. StartupTypeOK
  BY <1>1, <1>2, <1>3, MaxTroubleAssumption DEF StartupInit, StartupTypeOK, dbConnectAttempts
<1>5. StoredIsPrefix
  BY <1>1, PlanAssumption DEF StartupInit, StoredIsPrefix, Made
<1>6. \A r \in Replicas : Progressed(r)
  BY <1>1, <1>2 DEF Progressed, At, AfterPlan
<1> QED BY <1>3, <1>4, <1>5, <1>6 DEF SInv

(* Every step keeps the invariant.                                         *)
LEMMA StartupKeeps == SInv /\ [StartupNext]_startVars => SInv'
<1>1. ASSUME SInv, NEW r \in Replicas, Advance(r) \/ Crash(r) PROVE SInv'
  BY <1>1, BootKeeps, EndsKeep, ReadKeeps, PlanKeeps, AdminKeeps DEF Advance, SeedStep
<1>2. ASSUME SInv, UNCHANGED startVars PROVE SInv'
  BY <1>2 DEF startVars, SInv, StartupTypeOK, StoredIsPrefix, EmailOnce, Progressed,
              HasRow, At
<1> QED BY <1>1, <1>2, AdministerKeeps DEF StartupNext

(* The invariant, of every start of every replica.                         *)
THEOREM StartupInvariant == StartupSpec => []SInv
  BY StartupStarts, StartupKeeps, PTL DEF StartupSpec

(* Variables of the start-up keep their types: a position in the plan      *)
(* never passes its end, connecting never starts a fourth attempt          *)
(* (postgres.go:32-55).                                                    *)
THEOREM StartupTypeCorrect == StartupSpec => []StartupTypeOK
<1>1. SInv => StartupTypeOK
  BY DEF SInv
<1> QED BY <1>1, StartupInvariant, PTL

(* The tables hold a prefix of the plan whatever crashed and whoever       *)
(* seeded (seeder.go:78-110).                                              *)
THEOREM PrefixStored == StartupSpec => []StoredIsPrefix
<1>1. SInv => StoredIsPrefix
  BY DEF SInv
<1> QED BY <1>1, StartupInvariant, PTL

(* A replica that serves found or made the whole plan and, if an email is  *)
(* configured, a user under it that has the admin role ever since,         *)
(* whatever the routes of other replicas did to users meanwhile            *)
(* (seeder.go:78-147).                                                     *)
THEOREM SeededBeforeServing == StartupSpec => []ServingSeeded
<1>1. SInv => ServingSeeded
  <2> SUFFICES ASSUME SInv, NEW r \in Replicas, At(r, "serving")
               PROVE  /\ stored = Items
                      /\ HasAdmin(world) => HasRow(r) /\ users[rep[r].user].roled
    BY DEF ServingSeeded, HasRow
  <2>1. Progressed(r) /\ rep[r].pos = Len(Plan) + 1 /\ Len(Plan) \in Nat
    BY PlanAssumption DEF SInv, Progressed, At, AfterPlan
  <2>2. rep[r].pos - 1 = Len(Plan)
    BY <2>1
  <2>3. Items \subseteq stored /\ stored \subseteq Items
    BY <2>1, <2>2 DEF Progressed, Made, Items, SInv, StartupTypeOK
  <2> QED BY <2>1, <2>3 DEF Progressed, At
<1> QED BY <1>1, StartupInvariant, PTL

(* In production and staging tokens are signed with the secret of the      *)
(* Secret Manager or not at all (config.go:160-169).                       *)
THEOREM ManagerSecretOnly == StartupSpec => []SecretFromManager
<1>1. SInv => SecretFromManager
  <2> SUFFICES ASSUME SInv, NEW r \in Replicas, At(r, "serving"),
                      Environment(world) \in {"production", "staging"}
               PROVE  /\ TokenSecret(world) = world.manager["TOKEN_SECRET"]
                      /\ TokenSecret(world) \notin {Unset, Blank, Missing}
    BY DEF SecretFromManager
  <2>1. Loads(world) /\ Wires(world, TokenSecret(world))
    BY DEF SInv, Progressed, At
  <2>2. TokenSecret(world) = Get(world, "TOKEN_SECRET") /\ UsesSecretManager(world)
    BY DEF TokenSecret, UsesSecretManager
  <2> QED BY <2>1, <2>2 DEF Loads, Wires, GetFails, Get
<1> QED BY <1>1, StartupInvariant, PTL

(* A deleted row keeps its state, and the world never changes.             *)
StaysAsDeleted(u) == users[u].st = "deleted" =>
    users'[u] = [users[u] EXCEPT !.roled = users'[u].roled]
LEMMA DeletedRowKept ==
    ASSUME SInv, [StartupNext]_startVars
    PROVE  world' = world /\ \A u \in UserIds : StaysAsDeleted(u)
<1>0. users \in [UserIds -> UserRow]
  BY DEF SInv, StartupTypeOK
<1>1. world' = world
  BY DEF StartupNext, startVars, Advance, Administer, LoadConfig, Connect, Migrate, Wire,
         Restart, Crash, SeedStep, ResolveEmail, ResolvePassword, FindItem, InsertItem,
         LinkItem, PlanDone, LookupAdmin, CreateAdmin, AssignAdmin, ActivateAdmin
<1>2. ASSUME NEW u \in UserIds, users[u].st = "deleted" PROVE StaysAsDeleted(u)
  <2>0. users[u] \in UserRow
    BY <1>0
  <2>1. CASE users' = users
    BY <1>2, <2>0, <2>1 DEF StaysAsDeleted, UserRow
  <2>2. ASSUME NEW v \in UserIds, NEW row, users' = [users EXCEPT ![v] = row], v # u
        PROVE  StaysAsDeleted(u)
    <3>1. users'[u] = users[u]
      BY <1>0, <2>2
    <3> QED BY <2>0, <3>1 DEF StaysAsDeleted, UserRow
  <2>3. ASSUME NEW v, NEW b, users' = [users EXCEPT ![v].roled = b]
        PROVE  StaysAsDeleted(u)
    <3>1. users'[u] = IF u = v THEN [users[u] EXCEPT !.roled = b] ELSE users[u]
      BY <1>0, <2>3
    <3> QED BY <2>0, <3>1 DEF StaysAsDeleted, UserRow
  <2>4. ASSUME NEW r \in Replicas, CreateAdmin(r) \/ AssignAdmin(r) \/ ActivateAdmin(r)
        PROVE  StaysAsDeleted(u)
    <3>1. CASE CreateAdmin(r)
      <4>1. \/ users' = users
            \/ /\ Unused # {}
               /\ users' = [users EXCEPT ![NewId] = NewAccount(TRUE, FALSE)]
        BY <3>1 DEF CreateAdmin
      <4>2. CASE users' = [users EXCEPT ![NewId] = NewAccount(TRUE, FALSE)]
                 /\ Unused # {}
        <5>1. NewId \in UserIds /\ users[NewId].st = "absent"
          BY <4>2 DEF NewId, Unused
        <5>2. users'[u] = users[u]
          BY <1>0, <1>2, <4>2, <5>1
        <5> QED BY <2>0, <5>2 DEF StaysAsDeleted, UserRow
      <4> QED BY <2>1, <4>1, <4>2
    <3>2. CASE AssignAdmin(r)
      BY <2>3, <3>2 DEF AssignAdmin
    <3>3. CASE ActivateAdmin(r)
      <4>1. \/ users' = users
            \/ /\ users[rep[r].user].st = "live"
               /\ users' = [users EXCEPT ![rep[r].user].active = TRUE,
                                         ![rep[r].user].named = TRUE]
        BY <3>3 DEF ActivateAdmin
      <4>2. CASE /\ users[rep[r].user].st = "live"
                 /\ users' = [users EXCEPT ![rep[r].user].active = TRUE,
                                           ![rep[r].user].named = TRUE]
        <5>1. users'[u] = users[u]
          BY <1>0, <1>2, <4>2
        <5> QED BY <2>0, <5>1 DEF StaysAsDeleted, UserRow
      <4> QED BY <2>1, <4>1, <4>2
    <3> QED BY <2>4, <3>1, <3>2, <3>3
  <2>5. CASE Administer
    <3>1. PICK v \in UserIds : DeleteUser(v) \/ UpdateUser(v) \/ CreateUser(v) \/ GiveRole(v)
      BY <2>5 DEF Administer
    <3>2. CASE GiveRole(v)
      BY <2>3, <3>2 DEF GiveRole
    <3>3. ASSUME DeleteUser(v) \/ UpdateUser(v) \/ CreateUser(v) PROVE StaysAsDeleted(u)
      <4>1. v # u
        BY <1>2, <3>3 DEF DeleteUser, UpdateUser, CreateUser, Unused
      <4>2. users'[u] = users[u]
        BY <1>0, <3>3, <4>1 DEF DeleteUser, UpdateUser, CreateUser
      <4> QED BY <2>0, <4>2 DEF StaysAsDeleted, UserRow
    <3> QED BY <3>1, <3>2, <3>3
  <2>6. CASE UNCHANGED startVars
    BY <2>1, <2>6 DEF startVars
  <2>7. ASSUME NEW r \in Replicas,
               ~(CreateAdmin(r) \/ AssignAdmin(r) \/ ActivateAdmin(r)), Advance(r) \/ Crash(r)
        PROVE  users' = users
    BY <2>7 DEF Advance, LoadConfig, Connect, Migrate, Wire, Restart, Crash, SeedStep,
           ResolveEmail, ResolvePassword, FindItem, InsertItem, LinkItem, PlanDone,
           LookupAdmin
  <2> QED BY <2>1, <2>4, <2>5, <2>6, <2>7 DEF StartupNext
<1> QED BY <1>1, <1>2 DEF StaysAsDeleted

(* No start brings a deleted user back (postgres.go:111-120).              *)
THEOREM AdminStaysDeleted == StartupSpec => DeletedAdminStays
<1>1. SInv /\ [StartupNext]_startVars =>
        [\A u \in UserIds : users[u].st = "deleted" =>
           users'[u] = [users[u] EXCEPT !.roled = users'[u].roled]]_startVars
  BY DeletedRowKept DEF StaysAsDeleted
<1> QED BY <1>1, StartupInvariant, PTL DEF StartupSpec, DeletedAdminStays

(* A replica that has not looked the deleted admin user up yet.            *)
Blocked(r) == HasAdmin(world) /\ EmailBuried /\ rep[r].pc \in Early

(* It never gets past the INSERT: it exits and starts again.               *)
LEMMA BlockedStays ==
    ASSUME NEW r \in Replicas, SInv, [StartupNext]_startVars, Blocked(r)
    PROVE  Blocked(r)'
<1>0. PICK u \in UserIds : users[u].named /\ users[u].st = "deleted"
  BY DEF Blocked, EmailBuried, Holders
<1>1. /\ HasAdmin(world)' /\ EmailBuried'
      /\ rep \in [Replicas -> Process] /\ HasAdmin(world)
      /\ Holders # {} /\ ByEmail = {} /\ rep[r].pc \in Early
  <2>1. users[u] \in UserRow /\ users'[u] = [users[u] EXCEPT !.roled = users'[u].roled]
    BY <1>0, DeletedRowKept DEF StaysAsDeleted, SInv, StartupTypeOK
  <2>2. users'[u].named /\ users'[u].st = "deleted"
    BY <1>0, <2>1 DEF UserRow
  <2>3. ByEmail = {}
    BY <1>0 DEF ByEmail, Holders, SInv, EmailOnce
  <2> QED BY <1>0, <2>2, <2>3, DeletedRowKept DEF Blocked, EmailBuried, Holders, SInv,
             StartupTypeOK
<1>2. ASSUME NEW q \in Replicas, q # r, Advance(q) \/ Crash(q) PROVE rep'[r] = rep[r]
  BY <1>1, <1>2 DEF Advance, LoadConfig, Connect, Migrate, Wire,
         Restart, Crash, SeedStep, ResolveEmail, ResolvePassword, FindItem, InsertItem,
         LinkItem, PlanDone, LookupAdmin, CreateAdmin, AssignAdmin, ActivateAdmin,
         Exit, Go, GoWith, Forward
<1>3. rep[r] \in Process
  BY <1>1
<1>4. ASSUME Exit(r) PROVE rep'[r].pc = "exited"
  BY <1>1, <1>4 DEF Exit, Fresh
<1>5. ASSUME NEW pc, Go(r, pc) PROVE rep'[r].pc = pc
  BY <1>1, <1>3, <1>5 DEF Go, Process
<1>6. ASSUME NEW pos, Forward(r, pos) PROVE rep'[r].pc = "seed"
  BY <1>1, <1>3, <1>6 DEF Forward, Process
<1>7. ASSUME LoadConfig(r) \/ Connect(r) \/ Migrate(r) \/ Restart(r) \/ Crash(r)
      PROVE  rep'[r].pc \in {"load", "exited", "connect", "migrate", "email"}
  <2>1. Connect(r) => rep'[r].pc \in {"exited", "connect", "migrate"}
    BY <1>1, <1>3, <1>4 DEF Connect, Process, Fresh, At
  <2>2. Restart(r) => rep'[r].pc = "load"
    BY <1>1 DEF Restart, Fresh
  <2> QED BY <1>4, <1>5, <1>7, <2>1, <2>2 DEF LoadConfig, Migrate, Crash
<1>8. ASSUME \/ ResolveEmail(r) \/ ResolvePassword(r) \/ FindItem(r) \/ InsertItem(r)
             \/ LinkItem(r) \/ PlanDone(r) \/ LookupAdmin(r) \/ CreateAdmin(r)
      PROVE  rep'[r].pc \in {"exited", "password", "seed", "insert", "lookup", "create"}
  BY <1>1, <1>4, <1>5, <1>6, <1>8
     DEF ResolveEmail, ResolvePassword, FindItem, InsertItem, LinkItem, PlanDone,
         LookupAdmin, CreateAdmin
<1>9. ~Wire(r) /\ ~AssignAdmin(r) /\ ~ActivateAdmin(r)
  BY <1>1 DEF Wire, AssignAdmin, ActivateAdmin, At, Early
<1>10. rep'[r].pc \in Early
  <2>1. ASSUME Advance(r) \/ Crash(r) PROVE rep'[r].pc \in Early
    BY <1>7, <1>8, <1>9, <2>1 DEF Advance, SeedStep, Early, Stages
  <2>2. ASSUME Administer \/ UNCHANGED startVars PROVE rep'[r].pc \in Early
    BY <1>1, <2>2 DEF Administer, startVars
  <2> QED BY <1>1, <1>2, <2>1, <2>2 DEF StartupNext
<1> QED BY <1>1, <1>10 DEF Blocked

(* Once the admin user is deleted, a replica that has not looked it up yet *)
(* never serves: the seeder's INSERT meets the deleted row on every start  *)
(* (seeder.go:122-135).                                                    *)
THEOREM DeletedAdminBlocks == StartupSpec => DeletedAdminBlocksStarts
<1> SUFFICES ASSUME NEW r \in Replicas
             PROVE  StartupSpec =>
                      [](HasAdmin(world) /\ EmailBuried /\ rep[r].pc \in Early
                           => []~At(r, "serving"))
  BY DEF DeletedAdminBlocksStarts
<1>1. SInv /\ [StartupNext]_startVars /\ Blocked(r) => Blocked(r)'
  BY BlockedStays
<1>2. Blocked(r) => ~At(r, "serving")
  BY DEF Blocked, At, Early
<1>3. HasAdmin(world) /\ EmailBuried /\ rep[r].pc \in Early => Blocked(r)
  BY DEF Blocked
<1> QED BY <1>1, <1>2, <1>3, StartupInvariant, PTL DEF StartupSpec

=============================================================================
