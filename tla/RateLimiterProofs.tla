------------------------- MODULE RateLimiterProofs -------------------------
(***************************************************************************)
(* Proofs about RateLimiter for any number of goroutines, clients and any  *)
(* burst: the types of its variables, and how many requests of a client    *)
(* pass between two evictions or refills.                                  *)
(***************************************************************************)
EXTENDS RateLimiter, FiniteSetTheorems, TLAPS

(* Fewer limiters are in use than there are.                               *)
LEMMA NewIsFree ==
    ASSUME LimiterTypeOK
    PROVE  New \in Limiters /\ New \notin InUse
<1> DEFINE held == [p \in Procs |-> lim[p].held]
           A == {limiters[c] : c \in Clients}
           B == {lim[p].held : p \in Procs}
<1>1. limiters \in Surjection(Clients, A)
  BY DEF LimiterTypeOK, Surjection
<1>2. held \in Surjection(Procs, B)
  BY DEF Surjection
<1>3. /\ IsFiniteSet(A) /\ IsFiniteSet(B)
      /\ Cardinality(A) <= Cardinality(Clients) /\ Cardinality(B) <= Cardinality(Procs)
  BY <1>1, <1>2, LimiterAssumptions, ProcsAssumption, FS_Surjection
<1> HIDE DEF A, B
<1>4. /\ IsFiniteSet(A \cup B)
      /\ Cardinality(A \cup B) <= Cardinality(Clients) + Cardinality(Procs)
  <2>1. Cardinality(A) \in Nat /\ Cardinality(B) \in Nat /\ Cardinality(A \cap B) \in Nat
        /\ Cardinality(Clients) \in Nat /\ Cardinality(Procs) \in Nat
    BY <1>3, FS_CardinalityType, FS_Intersection, LimiterAssumptions, ProcsAssumption
  <2>2. /\ IsFiniteSet(A \cup B)
        /\ Cardinality(A \cup B) = Cardinality(A) + Cardinality(B) - Cardinality(A \cap B)
    BY <1>3, FS_Union
  <2> QED BY <1>3, <2>1, <2>2
<1>5. ~(Limiters \subseteq A \cup B)
  <2> SUFFICES ASSUME Limiters \subseteq A \cup B PROVE FALSE
    OBVIOUS
  <2>1. Cardinality(Limiters) <= Cardinality(A \cup B)
    BY <1>4, FS_Subset
  <2>2. /\ Cardinality(Limiters) \in Nat /\ Cardinality(A \cup B) \in Nat
        /\ Cardinality(Clients) + Cardinality(Procs) \in Nat
    BY <1>4, FS_CardinalityType, LimiterAssumptions, ProcsAssumption
  <2> QED BY <1>4, <2>1, <2>2, LimiterAssumptions
<1>6. InUse = A \cup B
  BY DEF InUse, A, B
<1> QED BY <1>5, <1>6 DEF New

(* What a request inside the middleware has in hand.                       *)
LInv == /\ LimiterTypeOK
        /\ \A p \in Procs : /\ lim[p].pc # "out" => lim[p].client \in Clients
                            /\ lim[p].pc = "holding" => lim[p].held \in Limiters
                            /\ lim[p].pc # "holding" => lim[p].held = NoLimiter

(* The steps of the limiter, a request that enters and leaves included.    *)
LEMMA LimiterKeeps ==
    ASSUME LInv,
           \/ \E p \in Procs : \/ Middleware(p) \/ Leave(p)
                               \/ \E c \in Clients : Enter(p, c)
           \/ Time
    PROVE  LInv'
<1>0. /\ limiters \in [Clients -> Limiters \cup {NoLimiter}]
      /\ tokens \in [Limiters -> 0 .. Burst]
      /\ evictors \in [Clients -> Nat]
      /\ lim \in [Procs -> LimiterState]
      /\ granted \in [Clients -> Nat]
      /\ Burst \in Nat /\ NoLimiter \notin Limiters
      /\ \A p \in Procs : /\ lim[p].pc # "out" => lim[p].client \in Clients
                          /\ lim[p].pc = "holding" => lim[p].held \in Limiters
                          /\ lim[p].pc # "holding" => lim[p].held = NoLimiter
  BY LimiterAssumptions DEF LInv, LimiterTypeOK
<1>a. ASSUME NEW p \in Procs, NEW x \in LimiterState, lim' = [lim EXCEPT ![p] = x],
             x.pc # "out" => x.client \in Clients,
             x.pc = "holding" => x.held \in Limiters,
             x.pc # "holding" => x.held = NoLimiter
      PROVE  /\ lim' \in [Procs -> LimiterState]
             /\ \A q \in Procs : /\ lim'[q].pc # "out" => lim'[q].client \in Clients
                                 /\ lim'[q].pc = "holding" => lim'[q].held \in Limiters
                                 /\ lim'[q].pc # "holding" => lim'[q].held = NoLimiter
  BY <1>0, <1>a
<1>1. ASSUME NEW p \in Procs, NEW c \in Clients, Enter(p, c) PROVE LInv'
  <2> DEFINE x == [lim[p] EXCEPT !.pc = "lookup", !.client = c]
  <2>1. /\ lim' = [lim EXCEPT ![p] = x]
        /\ UNCHANGED <<limiters, tokens, evictors, granted>>
    BY <1>1 DEF Enter
  <2>2. x \in LimiterState /\ x.pc = "lookup" /\ x.client = c /\ x.held = NoLimiter
    <3>1. lim[p] \in LimiterState /\ lim[p].held = NoLimiter
      BY <1>0, <1>1 DEF Enter
    <3> QED BY <3>1 DEF LimiterState
  <2> HIDE DEF x
  <2> QED BY <1>0, <1>a, <2>1, <2>2 DEF LInv, LimiterTypeOK
<1>2. ASSUME NEW p \in Procs, GetLimiter(p) PROVE LInv'
  <2> DEFINE found == limiters[lim[p].client]
             x == IF found = NoLimiter THEN [lim[p] EXCEPT !.pc = "missed"]
                  ELSE [lim[p] EXCEPT !.pc = "holding", !.held = found]
  <2>1. /\ UNCHANGED <<limiters, tokens, evictors, granted>>
        /\ lim' = [lim EXCEPT ![p] = x]
        /\ lim[p] \in LimiterState /\ lim[p].client \in Clients
        /\ lim[p].held = NoLimiter
    BY <1>0, <1>2 DEF GetLimiter
  <2>2. found \in Limiters \cup {NoLimiter}
    BY <1>0, <2>1
  <2> HIDE DEF found
  <2>3. /\ x \in LimiterState /\ x.client \in Clients
        /\ x.pc = "holding" => x.held \in Limiters
        /\ x.pc # "holding" => x.held = NoLimiter
    <3>1. CASE found = NoLimiter
      <4>1. x = [lim[p] EXCEPT !.pc = "missed"]
        BY <3>1
      <4> HIDE DEF x
      <4> QED BY <2>1, <4>1 DEF LimiterState
    <3>2. CASE found # NoLimiter
      <4>1. x = [lim[p] EXCEPT !.pc = "holding", !.held = found]
        BY <3>2
      <4> HIDE DEF x
      <4> QED BY <2>1, <2>2, <3>2, <4>1 DEF LimiterState
    <3> QED BY <3>1, <3>2
  <2> HIDE DEF x
  <2> QED BY <1>0, <1>a, <2>1, <2>3 DEF LInv, LimiterTypeOK
<1>3. ASSUME NEW p \in Procs, StoreLimiter(p) PROVE LInv'
  <2> DEFINE c == lim[p].client
             x == [lim[p] EXCEPT !.pc = "holding", !.held = New]
  <2>1. /\ limiters' = [limiters EXCEPT ![c] = New]
        /\ tokens' = [tokens EXCEPT ![New] = Burst]
        /\ lim' = [lim EXCEPT ![p] = x]
        /\ evictors' = [evictors EXCEPT ![c] = @ + 1] /\ granted' = granted
        /\ c \in Clients /\ lim[p] \in LimiterState
    BY <1>0, <1>3 DEF StoreLimiter
  <2>2. New \in Limiters /\ Burst \in 0 .. Burst
    BY <1>0, NewIsFree DEF LInv
  <2>3. /\ x \in LimiterState /\ x.client \in Clients /\ x.held \in Limiters
        /\ x.pc = "holding"
    BY <2>1, <2>2 DEF LimiterState
  <2> HIDE DEF c, x
  <2>4. /\ limiters' \in [Clients -> Limiters \cup {NoLimiter}]
        /\ tokens' \in [Limiters -> 0 .. Burst] /\ granted' \in [Clients -> Nat]
    BY <1>0, <2>1, <2>2
  <2>5. evictors[c] + 1 \in Nat
    BY <1>0, <2>1
  <2>6. evictors' \in [Clients -> Nat]
    BY <1>0, <2>1, <2>5
  <2> QED BY <1>a, <2>1, <2>3, <2>4, <2>6 DEF LInv, LimiterTypeOK
<1>4. ASSUME NEW p \in Procs, Allow(p) PROVE LInv'
  <2> DEFINE c == lim[p].client
             l == lim[p].held
             x == [lim[p] EXCEPT !.held = NoLimiter,
                                 !.pc = IF HasToken(l) THEN "admitted" ELSE "refused"]
  <2>1. /\ tokens' = IF HasToken(l) THEN [tokens EXCEPT ![l] = @ - 1] ELSE tokens
        /\ granted' = IF HasToken(l) THEN [granted EXCEPT ![c] = @ + 1] ELSE granted
        /\ lim' = [lim EXCEPT ![p] = x] /\ UNCHANGED <<limiters, evictors>>
        /\ c \in Clients /\ l \in Limiters /\ lim[p] \in LimiterState
    BY <1>0, <1>4 DEF Allow
  <2>2. x \in LimiterState /\ x.client \in Clients /\ x.pc # "holding"
        /\ x.held = NoLimiter
    BY <2>1 DEF LimiterState
  <2> HIDE DEF c, l, x
  <2>3. granted[c] + 1 \in Nat /\ (HasToken(l) => tokens[l] - 1 \in 0 .. Burst)
    BY <1>0, <2>1 DEF HasToken
  <2>4. granted' \in [Clients -> Nat] /\ tokens' \in [Limiters -> 0 .. Burst]
    BY <1>0, <2>1, <2>3
  <2> QED BY <1>0, <1>a, <2>1, <2>2, <2>4 DEF LInv, LimiterTypeOK
<1>5. ASSUME NEW p \in Procs, Leave(p) PROVE LInv'
  <2>1. Outside \in LimiterState /\ Outside.pc = "out" /\ Outside.held = NoLimiter
    BY DEF LimiterState, Outside
  <2> QED BY <1>0, <1>5, <1>a, <2>1 DEF Leave, LInv, LimiterTypeOK
<1>6. ASSUME NEW c \in Clients, Evict(c) PROVE LInv'
  <2>1. evictors[c] - 1 \in Nat
    BY <1>0, <1>6 DEF Evict
  <2>2. /\ limiters' \in [Clients -> Limiters \cup {NoLimiter}]
        /\ evictors' \in [Clients -> Nat] /\ granted' \in [Clients -> Nat]
        /\ UNCHANGED <<tokens, lim>>
    BY <1>0, <1>6, <2>1 DEF Evict
  <2> QED BY <1>0, <2>2 DEF LInv, LimiterTypeOK
<1>7. ASSUME NEW c \in Clients, NEW l \in Limiters, Refill(c, l) PROVE LInv'
  <2>1. tokens[l] + 1 \in 0 .. Burst
    BY <1>0, <1>7 DEF Refill
  <2>2. /\ tokens' \in [Limiters -> 0 .. Burst] /\ granted' \in [Clients -> Nat]
        /\ UNCHANGED <<limiters, evictors, lim>>
    BY <1>0, <1>7, <2>1 DEF Refill
  <2> QED BY <1>0, <2>2 DEF LInv, LimiterTypeOK
<1> QED BY <1>1, <1>2, <1>3, <1>4, <1>5, <1>6, <1>7 DEF Middleware, Time

(* No client has a limiter at the start.                                   *)
LEMMA LimiterStarts == LimiterInit => LInv
<1> SUFFICES ASSUME LimiterInit PROVE LInv
  OBVIOUS
<1>1. Outside \in LimiterState /\ Outside.pc = "out"
      /\ Outside.held = NoLimiter /\ Burst \in 0 .. Burst
  BY LimiterAssumptions DEF LimiterState, Outside
<1> QED BY <1>1 DEF LimiterInit, LInv, LimiterTypeOK
-----------------------------------------------------------------------------
(***************************************************************************)
(* How often a client is admitted.  A ledger of client c explains every    *)
(* admission it counts by a slot of a goroutine q: <<q, k>> is the k-th    *)
(* token of the limiter q stored, <<q, 0>> the one admission by a limiter  *)
(* which was no longer in the map when the count began.  A goroutine       *)
(* stores at most once while nothing is evicted, since a miss needs an     *)
(* empty entry of the map and no store leaves one.                         *)
(***************************************************************************)
Slots == Procs \X (0 .. Burst)

(* own[q] is the limiter q stored, as long as it is still that limiter.    *)
Owned(own) == {own[q] : q \in Procs}

(* The map is empty until a goroutine has stored, and has a stored limiter *)
(* from then on.                                                           *)
MapEntry(c, stored, own) ==
    /\ limiters[c] = NoLimiter => stored = {}
    /\ limiters[c] # NoLimiter => limiters[c] \in Owned(own)

(* The slots of a goroutine that are still free.                           *)
FreeSlots(c, q, spent, stored, own) ==
    /\ q \notin stored => /\ own[q] = NoLimiter
                          /\ \A k \in 1 .. Burst : <<q, k>> \notin spent
    /\ lim[q].client = c /\ lim[q].pc = "missed" => q \notin stored
    /\ lim[q].client = c /\ lim[q].pc = "holding" /\ lim[q].held \notin Owned(own)
         => <<q, 0>> \notin spent
    /\ own[q] # NoLimiter => \A k \in 1 .. tokens[own[q]] : <<q, k>> \notin spent

(* A limiter has one owner and is used by one client.                      *)
Separate(c, q, own) ==
    own[q] # NoLimiter =>
        /\ \A r \in Procs \ {q} : own[r] # own[q]
        /\ \A d \in Clients \ {c} : limiters[d] # own[q]
        /\ \A r \in Procs : lim[r].client # c => lim[r].held # own[q]

Ledger(c, spent, stored, own) ==
    /\ granted[c] <= Cardinality(spent)
    /\ MapEntry(c, stored, own)
    /\ \A q \in Procs : FreeSlots(c, q, spent, stored, own) /\ Separate(c, q, own)

HasLedger(c) ==
    \E spent \in SUBSET Slots, stored \in SUBSET Procs,
       own \in [Procs -> Limiters \cup {NoLimiter}] : Ledger(c, spent, stored, own)

BInv == LInv /\ \A c \in Clients : HasLedger(c)

-----------------------------------------------------------------------------
(* There are Burst + 1 slots for each goroutine.                           *)
LEMMA SlotsCounted ==
    /\ IsFiniteSet(Slots) /\ Cardinality(Slots) = Cardinality(Procs) * (Burst + 1)
    /\ \A spent \in SUBSET Slots :
         /\ IsFiniteSet(spent) /\ Cardinality(spent) \in Nat
         /\ Cardinality(spent) <= Cardinality(Slots)
<1>1. /\ IsFiniteSet(0 .. Burst) /\ Cardinality(0 .. Burst) = Burst + 1
  BY LimiterAssumptions, FS_Interval
<1>2. /\ IsFiniteSet(Slots) /\ Cardinality(Slots) = Cardinality(Procs) * (Burst + 1)
  BY <1>1, ProcsAssumption, FS_Product DEF Slots
<1>3. ASSUME NEW spent \in SUBSET Slots
      PROVE  /\ IsFiniteSet(spent) /\ Cardinality(spent) \in Nat
             /\ Cardinality(spent) <= Cardinality(Slots)
  BY <1>2, FS_Subset, FS_CardinalityType
<1> QED BY <1>2, <1>3

(* A ledger has no more entries than slots.                                *)
LEMMA LedgerBounds == BInv => BurstBounded
<1> SUFFICES ASSUME BInv, NEW c \in Clients
             PROVE  granted[c] <= Cardinality(Procs) * (Burst + 1)
  BY DEF BurstBounded
<1>1. PICK spent \in SUBSET Slots : granted[c] <= Cardinality(spent)
  BY DEF BInv, HasLedger, Ledger
<1>2. granted[c] \in Nat
  BY DEF BInv, LInv, LimiterTypeOK
<1>3. Cardinality(Slots) \in Nat
  BY SlotsCounted, FS_CardinalityType
<1> QED BY <1>1, <1>2, <1>3, SlotsCounted

(* Nothing stored, nothing spent: the ledger of a fresh count.             *)
LEMMA FreshLedger ==
    \A c \in Clients : granted[c] = 0 /\ limiters[c] = NoLimiter => HasLedger(c)
<1> SUFFICES ASSUME NEW c \in Clients, granted[c] = 0, limiters[c] = NoLimiter
             PROVE  HasLedger(c)
  OBVIOUS
<1> DEFINE own == [q \in Procs |-> NoLimiter]
<1>1. Cardinality({}) = 0
  BY FS_EmptySet
<1>2. Ledger(c, {}, {}, own)
  BY <1>1 DEF Ledger, MapEntry, FreeSlots, Separate, Owned
<1>3. own \in [Procs -> Limiters \cup {NoLimiter}]
  OBVIOUS
<1> QED BY <1>2, <1>3 DEF HasLedger

LEMMA LedgersStart == LimiterInit => BInv
<1> SUFFICES ASSUME LimiterInit PROVE BInv
  OBVIOUS
<1>1. \A c \in Clients : granted[c] = 0 /\ limiters[c] = NoLimiter
  BY DEF LimiterInit
<1> QED BY <1>1, LimiterStarts, FreshLedger DEF BInv

-----------------------------------------------------------------------------
(* A request that has no limiter in hand changes no ledger by entering the *)
(* middleware or leaving it.                                               *)
LEMMA PassingKeepsLedgers ==
    ASSUME BInv, NEW p \in Procs, Leave(p) \/ \E c \in Clients : Enter(p, c)
    PROVE  BInv'
<1>1. LInv /\ LInv'
  BY LimiterKeeps DEF BInv
<1>2. /\ UNCHANGED <<limiters, tokens, granted>>
      /\ lim'[p].pc \notin {"missed", "holding"}
      /\ lim'[p].held = NoLimiter
      /\ \A q \in Procs \ {p} : lim'[q] = lim[q]
  <2>1. lim \in [Procs -> LimiterState]
    BY <1>1 DEF LInv, LimiterTypeOK
  <2>2. CASE Leave(p)
    BY <2>1, <2>2 DEF Leave, Outside
  <2>3. CASE \E c \in Clients : Enter(p, c)
    <3>1. PICK c \in Clients : Enter(p, c)
      BY <2>3
    <3>2. lim[p] \in LimiterState /\ lim[p].held = NoLimiter
      BY <1>1, <2>1, <3>1 DEF LInv, Enter
    <3> QED BY <2>1, <3>1, <3>2 DEF Enter, LimiterState
  <2> QED BY <2>2, <2>3
<1>3. ASSUME NEW c \in Clients PROVE HasLedger(c)'
  <2>1. PICK spent \in SUBSET Slots, stored \in SUBSET Procs,
             own \in [Procs -> Limiters \cup {NoLimiter}] : Ledger(c, spent, stored, own)
    BY DEF BInv, HasLedger
  <2>2. MapEntry(c, stored, own)'
    BY <1>2, <2>1 DEF Ledger, MapEntry, Owned
  <2>3. ASSUME NEW q \in Procs
        PROVE  FreeSlots(c, q, spent, stored, own)' /\ Separate(c, q, own)'
    <3>1. FreeSlots(c, q, spent, stored, own)'
      BY <1>2, <2>1 DEF Ledger, FreeSlots, Owned
    <3>2. Separate(c, q, own)'
      BY <1>2, <2>1 DEF Ledger, Separate
    <3> QED BY <3>1, <3>2
  <2>4. Ledger(c, spent, stored, own)'
    BY <1>2, <2>1, <2>2, <2>3 DEF Ledger
  <2> QED BY <2>4 DEF HasLedger, Slots
<1> QED BY <1>1, <1>3 DEF BInv

(* A limiter found in the map is one some goroutine stored; a miss means   *)
(* that none has stored yet.                                               *)
LEMMA LookupKeepsLedgers ==
    ASSUME BInv, NEW p \in Procs, GetLimiter(p)
    PROVE  BInv'
<1>1. LInv /\ LInv'
  BY LimiterKeeps DEF BInv, Middleware
<1> DEFINE b == lim[p].client
<1>2. /\ UNCHANGED <<limiters, tokens, granted>> /\ b \in Clients
      /\ lim'[p].client = b
      /\ limiters[b] = NoLimiter => lim'[p].pc = "missed" /\ lim'[p].held = NoLimiter
      /\ limiters[b] # NoLimiter => lim'[p].pc = "holding" /\ lim'[p].held = limiters[b]
      /\ \A q \in Procs \ {p} : lim'[q] = lim[q]
  <2>1. lim[p] \in LimiterState /\ lim \in [Procs -> LimiterState] /\ lim[p].held = NoLimiter
        /\ b \in Clients
    BY <1>1 DEF LInv, LimiterTypeOK, GetLimiter
  <2>2. CASE limiters[b] = NoLimiter
    <3>1. lim' = [lim EXCEPT ![p] = [@ EXCEPT !.pc = "missed"]]
      BY <2>2 DEF GetLimiter
    <3> QED BY <2>1, <2>2, <3>1 DEF LimiterState, GetLimiter
  <2>3. CASE limiters[b] # NoLimiter
    <3>1. lim' = [lim EXCEPT ![p] = [@ EXCEPT !.pc = "holding", !.held = limiters[b]]]
      BY <2>3 DEF GetLimiter
    <3> QED BY <2>1, <2>3, <3>1 DEF LimiterState, GetLimiter
  <2> QED BY <2>2, <2>3
<1> HIDE DEF b
<1>3. ASSUME NEW c \in Clients PROVE HasLedger(c)'
  <2>1. PICK spent \in SUBSET Slots, stored \in SUBSET Procs,
             own \in [Procs -> Limiters \cup {NoLimiter}] : Ledger(c, spent, stored, own)
    BY DEF BInv, HasLedger
  <2>2. MapEntry(c, stored, own) /\ MapEntry(c, stored, own)'
    BY <1>2, <2>1 DEF Ledger, MapEntry, Owned
  <2>3. ASSUME NEW q \in Procs
        PROVE  FreeSlots(c, q, spent, stored, own)' /\ Separate(c, q, own)'
    <3>1. FreeSlots(c, q, spent, stored, own)'
      <4>1. CASE q # p
        BY <1>2, <2>1, <4>1 DEF Ledger, FreeSlots, Owned
      <4>2. CASE q = p
        BY <1>2, <2>1, <2>2, <4>2 DEF Ledger, FreeSlots, MapEntry
      <4> QED BY <4>1, <4>2
    <3>2. Separate(c, q, own)'
      <4> SUFFICES ASSUME own[q] # NoLimiter, NEW r \in Procs, lim'[r].client # c
                   PROVE  lim'[r].held # own[q]
        BY <1>2, <2>1 DEF Ledger, Separate
      <4> QED BY <1>2, <2>1 DEF Ledger, Separate
    <3> QED BY <3>1, <3>2
  <2>4. Ledger(c, spent, stored, own)'
    BY <1>2, <2>1, <2>2, <2>3 DEF Ledger
  <2> QED BY <2>4 DEF HasLedger, Slots
<1> QED BY <1>1, <1>3 DEF BInv
(* Storing a limiter uses up the only store of the goroutine: it missed,   *)
(* so it had not stored yet.  The new limiter may be one that was dropped; *)
(* nobody uses that one any more, and whoever stored it loses nothing.     *)
LEMMA StoreKeepsLedgers ==
    ASSUME BInv, NEW p \in Procs, StoreLimiter(p)
    PROVE  BInv'
<1>1. LInv /\ LInv'
  BY LimiterKeeps DEF BInv, Middleware
<1>2. PICK l \in Limiters : l = New
  BY <1>1, NewIsFree DEF LInv
<1>3. /\ \A c \in Clients : limiters[c] # l
      /\ \A q \in Procs : lim[q].held # l
  BY <1>1, <1>2, NewIsFree DEF LInv, InUse
<1>b. PICK b \in Clients : b = lim[p].client
  BY <1>1 DEF LInv, StoreLimiter
<1>4. /\ granted' = granted /\ b \in Clients /\ lim[p].pc = "missed"
      /\ limiters' = [limiters EXCEPT ![b] = l] /\ tokens' = [tokens EXCEPT ![l] = Burst]
      /\ lim'[p].client = b /\ lim'[p].pc = "holding" /\ lim'[p].held = l
      /\ \A q \in Procs \ {p} : lim'[q] = lim[q]
      /\ limiters \in [Clients -> Limiters \cup {NoLimiter}]
      /\ tokens \in [Limiters -> 0 .. Burst] /\ l # NoLimiter
  <2>1. /\ lim[p] \in LimiterState /\ lim \in [Procs -> LimiterState] /\ b \in Clients
        /\ limiters \in [Clients -> Limiters \cup {NoLimiter}]
        /\ tokens \in [Limiters -> 0 .. Burst] /\ NoLimiter \notin Limiters
    BY <1>1, <1>b, LimiterAssumptions DEF LInv, LimiterTypeOK, StoreLimiter
  <2>2. lim' = [lim EXCEPT ![p] = [@ EXCEPT !.pc = "holding", !.held = l]]
    BY <1>2 DEF StoreLimiter
  <2> QED BY <1>2, <1>b, <2>1, <2>2 DEF LimiterState, StoreLimiter
<1>5. ASSUME NEW c \in Clients PROVE HasLedger(c)'
  <2>1. PICK spent \in SUBSET Slots, stored \in SUBSET Procs,
             own \in [Procs -> Limiters \cup {NoLimiter}] : Ledger(c, spent, stored, own)
    BY DEF BInv, HasLedger
  <2> DEFINE stored2 == IF c = b THEN stored \cup {p} ELSE stored
             own2 == [q \in Procs |-> IF c = b /\ q = p THEN l
                                      ELSE IF own[q] = l THEN NoLimiter ELSE own[q]]
  <2>2. stored2 \in SUBSET Procs /\ own2 \in [Procs -> Limiters \cup {NoLimiter}]
    BY <2>1
  <2>3. /\ \A q \in Procs : c = b /\ q = p => own2[q] = l
        /\ \A q \in Procs : ~(c = b /\ q = p) =>
              /\ own[q] = l => own2[q] = NoLimiter
              /\ own[q] # l => own2[q] = own[q]
        /\ \A q \in Procs : ~(c = b /\ q = p) => own2[q] # l
    BY <1>4, <2>1
  <2>4. \A q \in Procs : q \in stored2 <=> q \in stored \/ (c = b /\ q = p)
    OBVIOUS
  <2>5. \A x \in Limiters \cup {NoLimiter} :
           x # l /\ x # NoLimiter => (x \in Owned(own2) => x \in Owned(own))
    BY <2>3 DEF Owned
  <2>6. \A x \in Limiters \cup {NoLimiter} :
           x # l /\ (c = b => own[p] # x) => (x \in Owned(own) => x \in Owned(own2))
    BY <2>3 DEF Owned
  <2> HIDE DEF stored2, own2
  <2>7. c = b => p \notin stored /\ own[p] = NoLimiter /\ \A k \in 1 .. Burst : <<p, k>> \notin spent
    BY <1>4, <1>b, <2>1 DEF Ledger, FreeSlots
  <2>8. MapEntry(c, stored2, own2)'
    <3>1. CASE c = b
      <4>1. limiters'[c] = l /\ l \in Owned(own2)
        BY <1>4, <2>3, <3>1 DEF Owned
      <4> QED BY <1>4, <4>1 DEF MapEntry, Owned
    <3>2. CASE c # b
      <4>1. limiters'[c] = limiters[c] /\ limiters[c] \in Limiters \cup {NoLimiter}
        BY <1>4, <3>2
      <4>2. stored2 = stored
        BY <3>2 DEF stored2
      <4>3. limiters[c] # NoLimiter => limiters[c] \in Owned(own2)
        BY <1>3, <2>1, <2>6, <3>2, <4>1 DEF Ledger, MapEntry
      <4> QED BY <2>1, <4>1, <4>2, <4>3 DEF Ledger, MapEntry, Owned
    <3> QED BY <3>1, <3>2
  <2>9. ASSUME NEW q \in Procs
        PROVE  FreeSlots(c, q, spent, stored2, own2)' /\ Separate(c, q, own2)'
    <3>1. FreeSlots(c, q, spent, stored, own) /\ Separate(c, q, own)
      BY <2>1 DEF Ledger
    <3>2. FreeSlots(c, q, spent, stored2, own2)'
      <4>1. q \notin stored2 => own2[q] = NoLimiter /\ \A k \in 1 .. Burst : <<q, k>> \notin spent
        BY <2>3, <2>4, <3>1 DEF FreeSlots
      <4>2. lim'[q].client = c /\ lim'[q].pc = "missed" => q \notin stored2
        BY <1>4, <2>4, <3>1 DEF FreeSlots
      <4>3. ASSUME lim'[q].client = c, lim'[q].pc = "holding", lim'[q].held \notin Owned(own2)
            PROVE  <<q, 0>> \notin spent
        <5>1. q # p
          BY <1>4, <2>3, <4>3 DEF Owned
        <5>2. lim[q].client = c /\ lim[q].pc = "holding" /\ lim'[q].held = lim[q].held
              /\ lim[q].held \in Limiters
          BY <1>1, <1>4, <4>3, <5>1 DEF LInv
        <5>3. lim[q].held \notin Owned(own)
          BY <1>3, <1>4, <2>6, <2>7, <4>3, <5>2, LimiterAssumptions
        <5> QED BY <3>1, <5>2, <5>3 DEF FreeSlots
      <4>4. ASSUME own2[q] # NoLimiter, NEW k \in 1 .. tokens'[own2[q]]
            PROVE  <<q, k>> \notin spent
        <5>1. CASE c = b /\ q = p
          <6>1. tokens'[own2[q]] = Burst
            BY <1>4, <2>3, <5>1
          <6> QED BY <2>7, <4>4, <5>1, <6>1
        <5>2. CASE ~(c = b /\ q = p)
          <6>1. own2[q] = own[q] /\ own[q] # l /\ own[q] \in Limiters
            BY <2>1, <2>3, <4>4, <5>2
          <6>2. tokens'[own2[q]] = tokens[own[q]]
            BY <1>4, <6>1
          <6> QED BY <3>1, <4>4, <6>1, <6>2 DEF FreeSlots
        <5> QED BY <5>1, <5>2
      <4>5. (Owned(own2))' = Owned(own2)
        BY DEF Owned
      <4> QED BY <4>1, <4>2, <4>3, <4>4, <4>5 DEF FreeSlots
    <3>3. Separate(c, q, own2)'
      <4> SUFFICES ASSUME own2[q] # NoLimiter
                   PROVE  /\ \A r \in Procs \ {q} : own2[r] # own2[q]
                          /\ \A d \in Clients \ {c} : limiters'[d] # own2[q]
                          /\ \A r \in Procs : lim'[r].client # c => lim'[r].held # own2[q]
        BY DEF Separate
      <4>1. CASE c = b /\ q = p
        BY <1>3, <1>4, <2>3, <4>1
      <4>2. CASE ~(c = b /\ q = p)
        <5>1. own2[q] = own[q] /\ own[q] # l
          BY <2>3, <4>2
        <5>2. \A r \in Procs \ {q} : own2[r] # own2[q]
          BY <2>3, <3>1, <5>1 DEF Separate
        <5>3. /\ \A d \in Clients \ {c} : limiters'[d] # own2[q]
              /\ \A r \in Procs : lim'[r].client # c => lim'[r].held # own2[q]
          BY <1>4, <3>1, <5>1 DEF Separate
        <5> QED BY <5>2, <5>3
      <4> QED BY <4>1, <4>2
    <3> QED BY <3>2, <3>3
  <2>10. Ledger(c, spent, stored2, own2)'
    BY <1>4, <2>1, <2>8, <2>9 DEF Ledger
  <2> QED BY <2>2, <2>10 DEF HasLedger, Slots
<1> QED BY <1>1, <1>5 DEF BInv
(* An admission takes a slot that was free: of the limiter's owner, or the *)
(* one of the goroutine whose limiter nobody owns.                         *)
LEMMA AllowKeepsLedgers ==
    ASSUME BInv, NEW p \in Procs, Allow(p)
    PROVE  BInv'
<1>1. LInv /\ LInv'
  BY LimiterKeeps DEF BInv, Middleware
<1>2. PICK b \in Clients, l \in Limiters : b = lim[p].client /\ l = lim[p].held
  BY <1>1 DEF LInv, Allow
<1>3. /\ UNCHANGED limiters /\ lim[p].pc = "holding"
      /\ \A q \in Procs \ {p} : lim'[q] = lim[q]
      /\ lim'[p].pc \notin {"missed", "holding"}
      /\ lim'[p].client = b /\ lim'[p].held = NoLimiter
      /\ \/ tokens' = tokens /\ granted' = granted
         \/ /\ tokens[l] > 0 /\ tokens' = [tokens EXCEPT ![l] = @ - 1]
            /\ granted' = [granted EXCEPT ![b] = @ + 1]
      /\ tokens \in [Limiters -> 0 .. Burst] /\ granted \in [Clients -> Nat]
      /\ Burst \in Nat /\ NoLimiter \notin Limiters
  <2>1. /\ lim[p] \in LimiterState /\ lim \in [Procs -> LimiterState]
        /\ tokens \in [Limiters -> 0 .. Burst] /\ granted \in [Clients -> Nat]
        /\ Burst \in Nat /\ NoLimiter \notin Limiters
    BY <1>1, LimiterAssumptions DEF LInv, LimiterTypeOK
  <2>2. PICK answer \in {"admitted", "refused"} :
          lim' = [lim EXCEPT ![p] = [@ EXCEPT !.held = NoLimiter, !.pc = answer]]
    BY DEF Allow
  <2>3. /\ lim'[p].pc = answer /\ lim'[p].held = NoLimiter /\ lim'[p].client = b
        /\ \A q \in Procs \ {p} : lim'[q] = lim[q]
    BY <1>2, <2>1, <2>2 DEF LimiterState
  <2> QED BY <1>2, <2>1, <2>3 DEF Allow, HasToken
<1>4. /\ \A m \in Limiters : tokens'[m] <= tokens[m] /\ tokens[m] \in Nat /\ tokens'[m] \in Nat
  <2>1. tokens' \in [Limiters -> 0 .. Burst]
    BY <1>1 DEF LInv, LimiterTypeOK
  <2> QED BY <1>3, <2>1
(* No admission of c: fewer tokens, the same ledger.                       *)
<1>5. ASSUME NEW c \in Clients, granted'[c] = granted[c] PROVE HasLedger(c)'
  <2>1. PICK spent \in SUBSET Slots, stored \in SUBSET Procs,
             own \in [Procs -> Limiters \cup {NoLimiter}] : Ledger(c, spent, stored, own)
    BY DEF BInv, HasLedger
  <2>2. MapEntry(c, stored, own)'
    BY <1>3, <2>1 DEF Ledger, MapEntry, Owned
  <2>3. ASSUME NEW q \in Procs
        PROVE  FreeSlots(c, q, spent, stored, own)' /\ Separate(c, q, own)'
    <3>1. FreeSlots(c, q, spent, stored, own) /\ Separate(c, q, own)
      BY <2>1 DEF Ledger
    <3>2. ASSUME own[q] # NoLimiter, NEW k \in 1 .. tokens'[own[q]]
          PROVE  <<q, k>> \notin spent
      <4>1. k \in 1 .. tokens[own[q]]
        BY <1>4, <2>1, <3>2
      <4> QED BY <3>1, <3>2, <4>1 DEF FreeSlots
    <3>3. FreeSlots(c, q, spent, stored, own)'
      BY <1>3, <3>1, <3>2 DEF FreeSlots, Owned
    <3>4. Separate(c, q, own)'
      BY <1>3, <3>1 DEF Separate
    <3> QED BY <3>3, <3>4
  <2>4. Ledger(c, spent, stored, own)'
    BY <1>5, <2>1, <2>2, <2>3 DEF Ledger
  <2> QED BY <2>4 DEF HasLedger, Slots
<1>6. ASSUME granted'[b] # granted[b] PROVE HasLedger(b)'
  <2>1. PICK spent \in SUBSET Slots, stored \in SUBSET Procs,
             own \in [Procs -> Limiters \cup {NoLimiter}] : Ledger(b, spent, stored, own)
    BY DEF BInv, HasLedger
  <2>2. PICK t \in 1 .. Burst : t = tokens[l]
    BY <1>3, <1>6
  <2>3. /\ tokens' = [tokens EXCEPT ![l] = t - 1] /\ granted'[b] = granted[b] + 1
    BY <1>3, <1>6, <2>2
  <2>4. \A q \in Procs : FreeSlots(b, q, spent, stored, own) /\ Separate(b, q, own)
    BY <2>1 DEF Ledger
  <2>5. PICK o \in Procs, s \in 0 .. Burst :
             /\ <<o, s>> \notin spent
             /\ \/ own[o] = l /\ s = t
                \/ o = p /\ s = 0 /\ l \notin Owned(own)
    <3>1. CASE l \in Owned(own)
      <4>1. PICK o \in Procs : own[o] = l
        BY <3>1 DEF Owned
      <4>2. t \in 1 .. tokens[own[o]]
        BY <2>2, <4>1
      <4>3. <<o, t>> \notin spent
        BY <1>3, <2>4, <4>1, <4>2 DEF FreeSlots
      <4> QED BY <2>2, <4>1, <4>3
    <3>2. CASE l \notin Owned(own)
      <4>1. <<p, 0>> \notin spent
        BY <1>2, <1>3, <2>4, <3>2 DEF FreeSlots
      <4>2. 0 \in 0 .. Burst
        BY <1>3
      <4> QED BY <3>2, <4>1, <4>2
    <3> QED BY <3>1, <3>2
  <2>6. PICK spent2 : spent2 = spent \cup {<<o, s>>}
    OBVIOUS
  <2>7. spent2 \in SUBSET Slots
    BY <2>6 DEF Slots
  <2>8. granted'[b] <= Cardinality(spent2)
    <3>1. IsFiniteSet(spent) /\ Cardinality(spent) \in Nat
      BY SlotsCounted
    <3>2. Cardinality(spent2) = Cardinality(spent) + 1
      BY <2>5, <2>6, <3>1, FS_AddElement
    <3>3. granted[b] \in Nat /\ granted[b] <= Cardinality(spent)
      BY <1>3, <2>1 DEF Ledger
    <3> QED BY <2>3, <3>1, <3>2, <3>3
  <2>9. MapEntry(b, stored, own)'
    BY <1>3, <2>1 DEF Ledger, MapEntry, Owned
  <2>10. ASSUME NEW q \in Procs
         PROVE  FreeSlots(b, q, spent2, stored, own)' /\ Separate(b, q, own)'
    <3>1. FreeSlots(b, q, spent, stored, own) /\ Separate(b, q, own)
      BY <2>4
    <3>2. ASSUME q \notin stored
          PROVE  own[q] = NoLimiter /\ \A k \in 1 .. Burst : <<q, k>> \notin spent2
      <4>1. own[q] = NoLimiter /\ \A k \in 1 .. Burst : <<q, k>> \notin spent
        BY <3>1, <3>2 DEF FreeSlots
      <4> QED BY <1>3, <2>5, <2>6, <4>1
    <3>3. ASSUME lim'[q].client = b, lim'[q].pc = "holding", lim'[q].held \notin Owned(own)
          PROVE  <<q, 0>> \notin spent2
      <4>1. q # p /\ lim'[q] = lim[q]
        BY <1>3, <3>3
      <4>2. <<q, 0>> \notin spent
        BY <3>1, <3>3, <4>1 DEF FreeSlots
      <4> QED BY <2>2, <2>5, <2>6, <4>1, <4>2
    <3>4. ASSUME own[q] # NoLimiter, NEW k \in 1 .. tokens'[own[q]]
          PROVE  <<q, k>> \notin spent2
      <4>1. k \in 1 .. tokens[own[q]] /\ k \in Nat /\ k >= 1
        BY <1>4, <2>1, <3>4
      <4>2. <<q, k>> \notin spent
        BY <3>1, <3>4, <4>1 DEF FreeSlots
      <4>3. own[q] = l => k < t
        BY <1>3, <2>2, <2>3, <3>4
      <4> QED BY <2>2, <2>5, <2>6, <4>1, <4>2, <4>3
    <3>5. FreeSlots(b, q, spent2, stored, own)'
      BY <1>3, <3>1, <3>2, <3>3, <3>4 DEF FreeSlots, Owned
    <3>6. Separate(b, q, own)'
      BY <1>3, <3>1 DEF Separate
    <3> QED BY <3>5, <3>6
  <2>11. Ledger(b, spent2, stored, own)'
    BY <2>8, <2>9, <2>10 DEF Ledger
  <2> QED BY <2>7, <2>11 DEF HasLedger, Slots
<1>7. \A c \in Clients : HasLedger(c)'
  <2>1. \A c \in Clients : c # b => granted'[c] = granted[c]
    BY <1>3
  <2> QED BY <1>5, <1>6, <2>1
<1> QED BY <1>1, <1>7 DEF BInv

(* An eviction starts the count of its client afresh.                      *)
LEMMA EvictKeepsLedgers ==
    ASSUME BInv, NEW b \in Clients, Evict(b)
    PROVE  BInv'
<1>1. LInv /\ LInv'
  BY LimiterKeeps DEF BInv, Time
<1>2. /\ UNCHANGED <<tokens, lim>>
      /\ limiters' = [limiters EXCEPT ![b] = NoLimiter] /\ granted' = [granted EXCEPT ![b] = 0]
      /\ limiters \in [Clients -> Limiters \cup {NoLimiter}] /\ granted \in [Clients -> Nat]
  BY <1>1 DEF LInv, LimiterTypeOK, Evict
<1>3. HasLedger(b)'
  <2>1. granted'[b] = 0 /\ limiters'[b] = NoLimiter
    BY <1>2
  <2>2. (\A c \in Clients : granted[c] = 0 /\ limiters[c] = NoLimiter => HasLedger(c))'
    BY FreshLedger, PTL
  <2> QED BY <2>1, <2>2
<1>4. ASSUME NEW c \in Clients, c # b PROVE HasLedger(c)'
  <2>1. PICK spent \in SUBSET Slots, stored \in SUBSET Procs,
             own \in [Procs -> Limiters \cup {NoLimiter}] : Ledger(c, spent, stored, own)
    BY DEF BInv, HasLedger
  <2>2. limiters'[c] = limiters[c] /\ granted'[c] = granted[c]
    BY <1>2, <1>4
  <2>3. MapEntry(c, stored, own)'
    BY <2>1, <2>2 DEF Ledger, MapEntry, Owned
  <2>4. ASSUME NEW q \in Procs
        PROVE  FreeSlots(c, q, spent, stored, own)' /\ Separate(c, q, own)'
    <3>1. FreeSlots(c, q, spent, stored, own) /\ Separate(c, q, own)
      BY <2>1 DEF Ledger
    <3>2. FreeSlots(c, q, spent, stored, own)'
      BY <1>2, <3>1 DEF FreeSlots, Owned
    <3>3. Separate(c, q, own)'
      BY <1>2, <3>1 DEF Separate
    <3> QED BY <3>2, <3>3
  <2>5. Ledger(c, spent, stored, own)'
    BY <2>1, <2>2, <2>3, <2>4 DEF Ledger
  <2> QED BY <2>5 DEF HasLedger, Slots
<1> QED BY <1>1, <1>3, <1>4 DEF BInv

(* A refill starts the count of its client afresh, and its limiter is in   *)
(* no ledger of another client.                                            *)
LEMMA RefillKeepsLedgers ==
    ASSUME BInv, NEW b \in Clients, NEW l \in Limiters, Refill(b, l)
    PROVE  BInv'
<1>1. LInv /\ LInv'
  BY LimiterKeeps DEF BInv, Time
<1>2. /\ UNCHANGED <<limiters, lim>>
      /\ tokens' = [tokens EXCEPT ![l] = @ + 1] /\ granted' = [granted EXCEPT ![b] = 0]
      /\ tokens \in [Limiters -> 0 .. Burst] /\ granted \in [Clients -> Nat]
      /\ l = limiters[b] \/ \E r \in Procs : lim[r].client = b /\ lim[r].held = l
  BY <1>1 DEF LInv, LimiterTypeOK, Refill, RequestsOf
<1>3. ASSUME NEW c \in Clients PROVE HasLedger(c)'
  <2>1. PICK spent \in SUBSET Slots, stored \in SUBSET Procs,
             own \in [Procs -> Limiters \cup {NoLimiter}] : Ledger(c, spent, stored, own)
    BY DEF BInv, HasLedger
  <2>2. MapEntry(c, stored, own)'
    BY <1>2, <2>1 DEF Ledger, MapEntry, Owned
  <2>3. \A q \in Procs : FreeSlots(c, q, spent, stored, own) /\ Separate(c, q, own)
    BY <2>1 DEF Ledger
  <2>4. \A q \in Procs : Separate(c, q, own)'
    BY <1>2, <2>3 DEF Separate
  <2>5. CASE c = b
    <3>1. granted'[c] <= Cardinality({})
      BY <1>2, <2>5, FS_EmptySet
    <3>2. \A q \in Procs : FreeSlots(c, q, {}, stored, own)'
      BY <1>2, <2>3 DEF FreeSlots
    <3>3. Ledger(c, {}, stored, own)'
      BY <2>2, <2>4, <3>1, <3>2 DEF Ledger
    <3> QED BY <3>3 DEF HasLedger, Slots
  <2>6. CASE c # b
    <3>1. granted'[c] = granted[c]
      BY <1>2, <2>6
    <3>2. ASSUME NEW q \in Procs PROVE FreeSlots(c, q, spent, stored, own)'
      <4>1. FreeSlots(c, q, spent, stored, own)
        BY <2>3
      <4>2. own[q] # NoLimiter => own[q] # l /\ tokens'[own[q]] = tokens[own[q]]
        BY <1>2, <2>3, <2>6 DEF Separate
      <4> QED BY <1>2, <4>1, <4>2 DEF FreeSlots, Owned
    <3>3. Ledger(c, spent, stored, own)'
      BY <2>1, <2>2, <2>4, <3>1, <3>2 DEF Ledger
    <3> QED BY <3>3 DEF HasLedger, Slots
  <2> QED BY <2>5, <2>6
<1> QED BY <1>1, <1>3 DEF BInv

(* Every step of the limiter.                                              *)
LEMMA LedgersKept ==
    ASSUME BInv,
           \/ \E p \in Procs : \/ Middleware(p) \/ Leave(p)
                               \/ \E c \in Clients : Enter(p, c)
           \/ Time
    PROVE  BInv'
BY PassingKeepsLedgers, LookupKeepsLedgers, StoreKeepsLedgers, AllowKeepsLedgers,
   EvictKeepsLedgers, RefillKeepsLedgers DEF Middleware, Time
=============================================================================
