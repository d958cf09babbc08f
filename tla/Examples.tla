------------------------------ MODULE Examples ------------------------------
(***************************************************************************)
(* The example routes: a request passes the rate limiter of its client and *)
(* then inserts an example, or reads one (ExampleGet changes nothing).     *)
(* The limiter is the same for the other groups of api/rest/routes.go, so  *)
(* an admitted request that does not insert stands for those too.          *)
(***************************************************************************)
EXTENDS RateLimiter, ExampleRepository

exampleVars == <<limiterVars, repoVars>>

ExamplesInit == LimiterInit /\ RepoInit

-----------------------------------------------------------------------------
Limit(p) == Middleware(p) /\ UNCHANGED repoVars

(* c.Next() reaches ExamplePost.                                           *)
ExamplePost(p) == /\ lim[p].pc = "admitted"
                  /\ BeginInsert(p)
                  /\ UNCHANGED limiterVars

Insert(p) == InsertStep(p) /\ UNCHANGED limiterVars

(* The answer: 429, the stored example, or that of a route that only reads *)
Answer(p) == /\ Leave(p)
             /\ IF ins[p].pc = "idle" THEN UNCHANGED repoVars ELSE EndInsert(p)

Proceed(p) == Limit(p) \/ Insert(p) \/ Answer(p)

ExamplesNext ==
    \/ \E p \in Procs : \/ \E c \in Clients : Enter(p, c) /\ UNCHANGED repoVars
                        \/ ExamplePost(p)
                        \/ Proceed(p)
    \/ Time /\ UNCHANGED repoVars

(* Every sleeping goroutine wakes up.                                      *)
ExamplesSpec == /\ ExamplesInit /\ [][ExamplesNext]_exampleVars
                /\ \A c \in Clients : WF_exampleVars(Evict(c) /\ UNCHANGED repoVars)

-----------------------------------------------------------------------------
(* Properties.                                                             *)

ExamplesTypeOK == LimiterTypeOK /\ RepoTypeOK

(* A stored limiter is removed in the end, also when the goroutine of      *)
(* another limiter of the same client removed one before (ratelimit.go:47).*)
LimiterEvicted == \A c \in Clients : limiters[c] # NoLimiter ~> limiters[c] = NoLimiter
=============================================================================
