---------------------------- MODULE RateLimiter ----------------------------
(***************************************************************************)
(* pkg/middleware/ratelimit.go: one token bucket per client address in a   *)
(* sync.Map, created on the first request and deleted by a goroutine that  *)
(* slept ten minutes.  Looking a limiter up and storing a new one are two  *)
(* steps, and the goroutine deletes by key, whatever is stored there then. *)
(***************************************************************************)
EXTENDS Requests, Naturals

CONSTANTS
    Clients,            \* c.ClientIP()
    NoClient,
    Limiters,           \* *rate.Limiter values, more than can be in use
    NoLimiter,
    Burst,              \* cfg.RateLimitBurst
    MaxEvictors         \* bound: eviction goroutines and requests of a client

ASSUME LimiterAssumptions ==
    /\ NoClient \notin Clients
    /\ NoLimiter \notin Limiters
    /\ IsFiniteSet(Clients) /\ IsFiniteSet(Limiters)
    /\ Cardinality(Limiters) > Cardinality(Clients) + Cardinality(Procs)
    /\ Burst \in Nat

VARIABLES
    limiters,           \* [Clients -> Limiters or NoLimiter], r.limiters
    tokens,             \* [Limiters -> 0 .. Burst]
    evictors,           \* [Clients -> Nat], sleeping goroutines
    lim,                \* [Procs -> state of the middleware]
    granted             \* [Clients -> Nat], requests admitted since a token
                        \* was last refilled or the limiter evicted: history

limiterVars == <<limiters, tokens, evictors, lim, granted>>

LimiterState == [pc : {"out", "lookup", "missed", "holding", "admitted", "refused"},
                 client : Clients \cup {NoClient}, held : Limiters \cup {NoLimiter}]
Outside == [pc |-> "out", client |-> NoClient, held |-> NoLimiter]

LimiterInit == /\ limiters = [c \in Clients |-> NoLimiter]
               /\ tokens   = [l \in Limiters |-> Burst]
               /\ evictors = [c \in Clients |-> 0]
               /\ lim      = [p \in Procs |-> Outside]
               /\ granted  = [c \in Clients |-> 0]

-----------------------------------------------------------------------------
RequestsOf(c) == {p \in Procs : lim[p].client = c}
MayStore(c) == {p \in RequestsOf(c) : lim[p].pc \in {"lookup", "missed"}}
InUse == {limiters[c] : c \in Clients} \cup {lim[p].held : p \in Procs}

(* rate.NewLimiter: a pointer no one holds; which one does not matter.     *)
New == CHOOSE l \in Limiters : l \notin InUse

(* The bound: a request may yet start one more eviction goroutine.         *)
Enter(p, c) == /\ lim[p].pc = "out"
               /\ evictors[c] + Cardinality(MayStore(c)) < MaxEvictors
               /\ lim' = [lim EXCEPT ![p] = [@ EXCEPT !.pc = "lookup", !.client = c]]
               /\ UNCHANGED <<limiters, tokens, evictors, granted>>

(* limiters.Load(key).                                                     *)
GetLimiter(p) ==
    /\ lim[p].pc = "lookup"
    /\ LET found == limiters[lim[p].client]
       IN lim' = [lim EXCEPT ![p] =
                    IF found = NoLimiter THEN [@ EXCEPT !.pc = "missed"]
                    ELSE [@ EXCEPT !.pc = "holding", !.held = found]]
    /\ UNCHANGED <<limiters, tokens, evictors, granted>>

(* Mutant: the new limiter is returned but not stored.                     *)
ForgetLimiter(p) ==
    /\ lim[p].pc = "missed"
    /\ LET l == New IN
         /\ tokens' = [tokens EXCEPT ![l] = Burst]
         /\ lim' = [lim EXCEPT ![p] = [@ EXCEPT !.pc = "holding", !.held = l]]
    /\ UNCHANGED <<limiters, evictors, granted>>

(* Mutant: nothing ever evicts a limiter.                                  *)
StoreWithoutEvictor(p) ==
    /\ lim[p].pc = "missed"
    /\ LET l == New IN
         /\ limiters' = [limiters EXCEPT ![lim[p].client] = l]
         /\ tokens' = [tokens EXCEPT ![l] = Burst]
         /\ lim' = [lim EXCEPT ![p] = [@ EXCEPT !.pc = "holding", !.held = l]]
    /\ UNCHANGED <<evictors, granted>>

(* A new limiter, full, replaces whatever was stored since the miss.       *)
StoreLimiter(p) ==
    /\ lim[p].pc = "missed"
    /\ LET l == New IN
         /\ limiters' = [limiters EXCEPT ![lim[p].client] = l]
         /\ tokens' = [tokens EXCEPT ![l] = Burst]
         /\ lim' = [lim EXCEPT ![p] = [@ EXCEPT !.pc = "holding", !.held = l]]
    /\ evictors' = [evictors EXCEPT ![lim[p].client] = @ + 1]
    /\ UNCHANGED granted

(* Mutant: one request more than there are tokens.                         *)
HasTokenOrDebt(l) == tokens[l] >= 0

HasToken(l) == tokens[l] > 0

(* limiter.Allow(), on the limiter in hand rather than the one in the map. *)
Allow(p) ==
    /\ lim[p].pc = "holding"
    /\ LET l == lim[p].held
           c == lim[p].client
           ok == HasToken(l)
       IN /\ tokens' = IF ok THEN [tokens EXCEPT ![l] = @ - 1] ELSE tokens
          /\ granted' = IF ok THEN [granted EXCEPT ![c] = @ + 1] ELSE granted
          /\ lim' = [lim EXCEPT ![p] = [@ EXCEPT !.held = NoLimiter,
                       !.pc = IF ok THEN "admitted" ELSE "refused"]]
    /\ UNCHANGED <<limiters, evictors>>

Leave(p) == /\ lim[p].pc \in {"admitted", "refused"}
            /\ lim' = [lim EXCEPT ![p] = Outside]
            /\ UNCHANGED <<limiters, tokens, evictors, granted>>

(* A goroutine wakes up and deletes the key.                               *)
Evict(c) == /\ evictors[c] > 0
            /\ evictors' = [evictors EXCEPT ![c] = @ - 1]
            /\ limiters' = [limiters EXCEPT ![c] = NoLimiter]
            /\ granted'  = [granted EXCEPT ![c] = 0]
            /\ UNCHANGED <<tokens, lim>>

(* Time passes: a limiter someone can still use gains a token.             *)
Refill(c, l) ==
    /\ l \in {limiters[c]} \cup {lim[p].held : p \in RequestsOf(c)}
    /\ l # NoLimiter /\ tokens[l] < Burst
    /\ tokens' = [tokens EXCEPT ![l] = @ + 1]
    /\ granted' = [granted EXCEPT ![c] = 0]
    /\ UNCHANGED <<limiters, evictors, lim>>

-----------------------------------------------------------------------------
Middleware(p) == GetLimiter(p) \/ StoreLimiter(p) \/ Allow(p)
Time == \E c \in Clients : Evict(c) \/ \E l \in Limiters : Refill(c, l)

LimiterTypeOK ==
    /\ limiters \in [Clients -> Limiters \cup {NoLimiter}]
    /\ tokens \in [Limiters -> 0 .. Burst]
    /\ evictors \in [Clients -> Nat]
    /\ lim \in [Procs -> LimiterState]
    /\ granted \in [Clients -> Nat]

(* However the first requests of a client race for its limiter, while no   *)
(* token is refilled and nothing evicted it is admitted at most Burst      *)
(* times per goroutine, plus once per goroutine that still held an evicted *)
(* limiter; a race costs a bounded number of extra bursts, not the limit   *)
(* (ratelimit.go:26-52).                                                   *)
BurstBounded ==
    \A c \in Clients : granted[c] <= Cardinality(Procs) * (Burst + 1)
=============================================================================
