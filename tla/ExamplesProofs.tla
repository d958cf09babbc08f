--------------------------- MODULE ExamplesProofs ---------------------------
(***************************************************************************)
(* Proofs about Examples for any number of goroutines, clients and ids:    *)
(* what the example repository guarantees although its counter is read     *)
(* twice, whatever the rate limiter lets through.                          *)
(***************************************************************************)
EXTENDS Examples, RateLimiterProofs

(* Inserts which have yet to add to the counter.                           *)
Adding == {p \in Procs : ins[p].pc = "add"}

(* The counter is ahead of the ids answered and taken, an insert's id of   *)
(* the ids answered before it began, its key of its id.                    *)
Ordered(p) ==
    /\ ins[p].floor <= answered
    /\ ins[p].pc = "id" => ins[p].floor < idIncrement
    /\ ins[p].pc \in {"key", "store", "done"} =>
         ins[p].floor < ins[p].id /\ ins[p].id <= idIncrement
    /\ ins[p].pc \in {"store", "done"} =>
         ins[p].id <= ins[p].key /\ ins[p].key <= idIncrement

(* An insert no other overlaps sees the same counter twice.                *)
Solitary(p) ==
    ins[p].alone =>
        /\ \A q \in Procs \ {p} : ins[q].pc = "idle"
        /\ ins[p].pc \in {"key", "store", "done"} => ins[p].id = idIncrement
        /\ ins[p].pc \in {"store", "done"} => ins[p].key = ins[p].id
        /\ ins[p].pc = "done" => exampleStorage[ins[p].id] = ins[p].id

(* A lone insert was answered before any insert under way began.           *)
LoneFirst ==
    \A i \in lone : /\ i <= answered
                    /\ \A p \in Procs : ins[p].pc # "idle" => i <= ins[p].floor

RInv == /\ RepoTypeOK
        /\ idIncrement + Cardinality(Adding) <= MaxId
        /\ answered <= idIncrement
        /\ \A p \in Procs : Ordered(p) /\ Solitary(p)
        /\ LoneFirst
        /\ StoredForGood

-----------------------------------------------------------------------------
(* The repository starts with two examples of its own.                     *)
LEMMA RepoStarts == RepoInit => RInv
<1> SUFFICES ASSUME RepoInit PROVE RInv
  OBVIOUS
<1>1. MaxId \in Nat /\ MaxId >= 2 /\ NoInsert \in InsertState
  BY MaxIdAssumption DEF NoInsert, InsertState
<1>2. ins = [p \in Procs |-> NoInsert] /\ \A p \in Procs : ins[p] = NoInsert
  BY DEF RepoInit
<1>3. RepoTypeOK
  BY <1>1, <1>2 DEF RepoInit, RepoTypeOK
<1>4. Adding = {} /\ Cardinality(Adding) = 0
  BY <1>2, FS_EmptySet DEF Adding, NoInsert
<1>5. \A p \in Procs : Ordered(p) /\ Solitary(p)
  BY <1>2 DEF RepoInit, NoInsert, Ordered, Solitary
<1>6. LoneFirst /\ StoredForGood
  BY <1>1, <1>2 DEF RepoInit, NoInsert, LoneFirst, StoredForGood
<1> QED BY <1>1, <1>3, <1>4, <1>5, <1>6 DEF RInv, RepoInit

(* Adding to the counter, which leaves room for the others that will.      *)
LEMMA AddKeeps ==
    ASSUME RInv, NEW p \in Procs, AddOne(p)
    PROVE  RInv'
<1> DEFINE x == [ins[p] EXCEPT !.pc = "id"]
<1>1. /\ ins \in [Procs -> InsertState] /\ ins[p] \in InsertState /\ ins[p].pc = "add"
      /\ idIncrement \in Nat /\ idIncrement >= 2 /\ answered \in Nat /\ answered <= idIncrement
      /\ MaxId \in Nat /\ answered >= 2
  BY MaxIdAssumption DEF RInv, RepoTypeOK, AddOne
<1>2. /\ x \in InsertState /\ x.pc = "id" /\ x.floor = ins[p].floor /\ x.alone = ins[p].alone
      /\ ins' = [ins EXCEPT ![p] = x] /\ ins'[p] = x
      /\ \A q \in Procs \ {p} : ins'[q] = ins[q]
  BY <1>1 DEF InsertState, AddOne
<1> HIDE DEF x
<1>3. /\ Adding' = Adding \ {p} /\ p \in Adding /\ Adding \subseteq Procs
  BY <1>1, <1>2 DEF Adding
<1>4. /\ Cardinality(Adding') = Cardinality(Adding) - 1
      /\ Cardinality(Adding) \in Nat /\ Cardinality(Adding') \in Nat
  <2>1. IsFiniteSet(Adding)
    BY <1>3, ProcsAssumption, FS_Subset
  <2> QED BY <1>3, <2>1, FS_RemoveElement, FS_CardinalityType
<1>5. /\ idIncrement' = idIncrement + 1 /\ idIncrement' \in 2 .. MaxId
      /\ UNCHANGED <<exampleStorage, answered, lone>>
      /\ idIncrement' + Cardinality(Adding') <= MaxId
  BY <1>1, <1>4 DEF RInv, AddOne
<1>6. RepoTypeOK'
  BY <1>1, <1>2, <1>5 DEF RInv, RepoTypeOK
<1>7. ASSUME NEW q \in Procs PROVE Ordered(q)' /\ Solitary(q)'
  <2>1. Ordered(q) /\ Solitary(q) /\ Solitary(p) /\ Ordered(p)
        /\ ins[q] \in InsertState
    BY <1>1 DEF RInv
  <2>2. CASE q = p
    BY <1>1, <1>2, <1>5, <2>1, <2>2 DEF Ordered, Solitary, InsertState
  <2>3. CASE q # p
    <3>1. Ordered(q)'
      BY <1>1, <1>2, <1>5, <2>1, <2>3, MaxIdAssumption DEF Ordered, InsertState
    <3>2. ~ins[q].alone
      BY <1>1, <2>1, <2>3 DEF Solitary
    <3> QED BY <1>2, <2>3, <3>1, <3>2 DEF Solitary
  <2> QED BY <2>2, <2>3
<1>8. LoneFirst' /\ StoredForGood'
  BY <1>1, <1>2, <1>5 DEF RInv, LoneFirst, StoredForGood
<1> QED BY <1>1, <1>5, <1>6, <1>7, <1>8 DEF RInv

(* Both loads of the counter.                                              *)
LEMMA LoadKeeps ==
    ASSUME RInv, NEW p \in Procs, LoadId(p) \/ LoadKey(p)
    PROVE  RInv'
<1> DEFINE x == IF ins[p].pc = "id" THEN [ins[p] EXCEPT !.pc = "key", !.id = idIncrement]
                ELSE [ins[p] EXCEPT !.pc = "store", !.key = idIncrement]
<1>1. /\ ins \in [Procs -> InsertState] /\ ins[p] \in InsertState
      /\ ins[p].pc \in {"id", "key"} /\ idIncrement \in 2 .. MaxId
      /\ answered \in 2 .. MaxId /\ MaxId \in Nat
      /\ UNCHANGED <<idIncrement, exampleStorage, answered, lone>>
  BY MaxIdAssumption DEF RInv, RepoTypeOK, LoadId, LoadKey
<1>2. /\ x.floor = ins[p].floor /\ x.alone = ins[p].alone /\ x \in InsertState
      /\ ins[p].pc = "id" => x.pc = "key" /\ x.id = idIncrement
      /\ ins[p].pc = "key" => x.pc = "store" /\ x.key = idIncrement /\ x.id = ins[p].id
  <2>1. idIncrement \in 0 .. MaxId
    BY <1>1
  <2>2. CASE ins[p].pc = "id"
    <3>1. x = [ins[p] EXCEPT !.pc = "key", !.id = idIncrement]
      BY <2>2
    <3> HIDE DEF x
    <3> QED BY <1>1, <2>1, <2>2, <3>1 DEF InsertState
  <2>3. CASE ins[p].pc = "key"
    <3>1. x = [ins[p] EXCEPT !.pc = "store", !.key = idIncrement]
      BY <2>3
    <3> HIDE DEF x
    <3> QED BY <1>1, <2>1, <2>3, <3>1 DEF InsertState
  <2> QED BY <1>1, <2>2, <2>3
<1>3. /\ ins' = [ins EXCEPT ![p] = x] /\ ins'[p] = x
      /\ \A q \in Procs \ {p} : ins'[q] = ins[q]
  BY <1>1 DEF LoadId, LoadKey
<1> HIDE DEF x
<1>4. RepoTypeOK'
  BY <1>1, <1>2, <1>3 DEF RInv, RepoTypeOK
<1>5. Adding' = Adding
  BY <1>1, <1>2, <1>3 DEF Adding
<1>6. ASSUME NEW q \in Procs PROVE Ordered(q)' /\ Solitary(q)'
  <2>1. Ordered(q) /\ Solitary(q) /\ Solitary(p) /\ ins[q] \in InsertState
    BY <1>1 DEF RInv
  <2>2. CASE q = p
    <3>1. Ordered(q)'
      BY <1>1, <1>2, <1>3, <2>1, <2>2 DEF Ordered, InsertState
    <3>2. Solitary(q)'
      BY <1>1, <1>2, <1>3, <2>1, <2>2 DEF Solitary
    <3> QED BY <3>1, <3>2
  <2>3. CASE q # p
    <3>1. ~ins[q].alone
      BY <1>1, <2>1, <2>3 DEF Solitary
    <3> QED BY <1>1, <1>3, <2>1, <2>3, <3>1 DEF Ordered, Solitary
  <2> QED BY <2>2, <2>3
<1>7. LoneFirst' /\ StoredForGood'
  BY <1>1, <1>2, <1>3 DEF RInv, LoneFirst, StoredForGood
<1> QED BY <1>1, <1>4, <1>5, <1>6, <1>7 DEF RInv

(* Storing hits no id of a lone insert: the key is larger than all of them.*)
LEMMA StoreKeeps ==
    ASSUME RInv, NEW p \in Procs, StoreExample(p)
    PROVE  RInv'
<1> DEFINE x == [ins[p] EXCEPT !.pc = "done"]
           key == ins[p].key
           id == ins[p].id
<1>1. /\ ins \in [Procs -> InsertState] /\ ins[p] \in InsertState /\ ins[p].pc = "store"
      /\ idIncrement \in 2 .. MaxId /\ answered \in 2 .. MaxId /\ MaxId \in Nat
      /\ exampleStorage \in [1 .. MaxId -> 0 .. MaxId] /\ lone \subseteq 1 .. MaxId
      /\ UNCHANGED <<idIncrement, answered, lone>>
      /\ Ordered(p) /\ Solitary(p)
  BY MaxIdAssumption DEF RInv, RepoTypeOK, StoreExample
<1>2. /\ x.floor = ins[p].floor /\ x.alone = ins[p].alone /\ x \in InsertState
      /\ x.pc = "done" /\ x.id = id /\ x.key = key
      /\ ins' = [ins EXCEPT ![p] = x] /\ ins'[p] = x
      /\ \A q \in Procs \ {p} : ins'[q] = ins[q]
  BY <1>1 DEF InsertState, StoreExample
<1>3. /\ id \in Nat /\ key \in Nat /\ ins[p].floor \in Nat /\ ins[p].floor < id
      /\ id <= key /\ key <= idIncrement /\ key \in 1 .. MaxId /\ id \in 0 .. MaxId
  BY <1>1 DEF Ordered, InsertState
<1>4. exampleStorage' = [exampleStorage EXCEPT ![key] = id]
  BY DEF StoreExample
<1> HIDE DEF x, key, id
<1>5. RepoTypeOK'
  BY <1>1, <1>2, <1>3, <1>4 DEF RInv, RepoTypeOK
<1>6. Adding' = Adding
  BY <1>1, <1>2 DEF Adding
<1>7. ASSUME NEW q \in Procs PROVE Ordered(q)' /\ Solitary(q)'
  <2>1. Ordered(q) /\ Solitary(q) /\ ins[q] \in InsertState
    BY <1>1 DEF RInv
  <2>2. CASE q = p
    <3>1. Ordered(q)'
      BY <1>1, <1>2, <1>3, <2>1, <2>2 DEF Ordered
    <3>2. Solitary(q)'
      <4> SUFFICES ASSUME ins[p].alone
                   PROVE  /\ \A r \in Procs \ {p} : ins[r].pc = "idle"
                          /\ id = idIncrement /\ key = id /\ exampleStorage'[id] = id
        BY <1>1, <1>2, <2>2 DEF Solitary
      <4>1. (\A r \in Procs \ {p} : ins[r].pc = "idle") /\ id = idIncrement /\ key = id
        BY <1>1 DEF Solitary, key, id
      <4> QED BY <1>1, <1>3, <1>4, <4>1
    <3> QED BY <3>1, <3>2
  <2>3. CASE q # p
    <3>1. ~ins[q].alone
      BY <1>1, <2>1, <2>3 DEF Solitary
    <3> QED BY <1>1, <1>2, <2>1, <2>3, <3>1 DEF Ordered, Solitary
  <2> QED BY <2>2, <2>3
<1>8. LoneFirst'
  BY <1>1, <1>2 DEF RInv, LoneFirst
<1>9. StoredForGood'
  <2>1. \A i \in lone : i < key
    BY <1>1, <1>3 DEF RInv, LoneFirst
  <2> QED BY <1>1, <1>3, <1>4, <2>1 DEF RInv, StoredForGood
<1> QED BY <1>1, <1>5, <1>6, <1>7, <1>8, <1>9 DEF RInv

(* A new insert, after which no insert is alone but perhaps itself.        *)
LEMMA BeginKeeps ==
    ASSUME RInv, NEW p \in Procs, BeginInsert(p)
    PROVE  RInv'
<1> DEFINE x == [NoInsert EXCEPT !.pc = "add", !.floor = answered, !.alone = Inserting = {}]
<1>1. /\ ins \in [Procs -> InsertState] /\ ins[p].pc = "idle"
      /\ idIncrement \in 2 .. MaxId /\ answered \in 2 .. MaxId /\ MaxId \in Nat
      /\ UNCHANGED <<idIncrement, exampleStorage, answered, lone>>
      /\ idIncrement + Cardinality({q \in Inserting : ins[q].pc = "add"}) < MaxId
  BY MaxIdAssumption DEF RInv, RepoTypeOK, BeginInsert
<1>2. /\ x \in InsertState /\ x.pc = "add" /\ x.floor = answered
      /\ x.alone = (Inserting = {})
  <2> DEFINE solo == Inserting = {}
  <2>1. solo \in BOOLEAN /\ answered \in 0 .. MaxId /\ 0 \in 0 .. MaxId
    BY <1>1
  <2>2. x = [NoInsert EXCEPT !.pc = "add", !.floor = answered, !.alone = solo]
    OBVIOUS
  <2> HIDE DEF solo, x
  <2>3. /\ x \in InsertState /\ x.pc = "add" /\ x.floor = answered /\ x.alone = solo
    BY <2>1, <2>2 DEF InsertState, NoInsert
  <2> QED BY <2>3 DEF solo
<1>3. ins' = [q \in Procs |-> IF q = p THEN x ELSE [ins[q] EXCEPT !.alone = FALSE]]
  BY DEF BeginInsert
<1> HIDE DEF x
<1>4. ASSUME NEW q \in Procs, q # p
      PROVE  /\ ins'[q] \in InsertState /\ ins'[q].alone = FALSE
             /\ ins'[q].pc = ins[q].pc /\ ins'[q].id = ins[q].id
             /\ ins'[q].key = ins[q].key /\ ins'[q].floor = ins[q].floor
  <2>1. ins[q] \in InsertState /\ ins'[q] = [ins[q] EXCEPT !.alone = FALSE]
    BY <1>1, <1>3, <1>4
  <2> QED BY <2>1 DEF InsertState
<1>5. ins'[p] = x
  BY <1>3
<1>6. RepoTypeOK'
  <2>1. ins' \in [Procs -> InsertState]
    BY <1>2, <1>3, <1>4, <1>5
  <2> QED BY <1>1, <2>1 DEF RInv, RepoTypeOK
<1>7. /\ idIncrement' + Cardinality(Adding') <= MaxId
  <2>1. Adding' = Adding \cup {p} /\ p \notin Adding /\ Adding \subseteq Procs
    BY <1>1, <1>2, <1>4, <1>5 DEF Adding
  <2>2. Adding = {q \in Inserting : ins[q].pc = "add"}
    BY DEF Adding, Inserting
  <2>3. IsFiniteSet(Adding)
    BY <2>1, ProcsAssumption, FS_Subset
  <2>4. Cardinality(Adding') = Cardinality(Adding) + 1 /\ Cardinality(Adding) \in Nat
    BY <2>1, <2>3, FS_AddElement, FS_CardinalityType
  <2> QED BY <1>1, <2>2, <2>4
<1>8. ASSUME NEW q \in Procs PROVE Ordered(q)' /\ Solitary(q)'
  <2>1. Ordered(q)
    BY DEF RInv
  <2>2. CASE q = p
    <3>1. x.alone => \A r \in Procs \ {p} : ins'[r].pc = "idle"
      BY <1>2, <1>4 DEF Inserting
    <3> QED BY <1>1, <1>2, <1>5, <2>2, <3>1 DEF Ordered, Solitary
  <2>3. CASE q # p
    <3>1. Ordered(q)'
      BY <1>1, <1>4, <2>1, <2>3 DEF Ordered
    <3> QED BY <1>4, <2>3, <3>1 DEF Solitary
  <2> QED BY <2>2, <2>3
<1>9. LoneFirst' /\ StoredForGood'
  BY <1>1, <1>2, <1>4, <1>5 DEF RInv, LoneFirst, StoredForGood
<1> QED BY <1>1, <1>6, <1>7, <1>8, <1>9 DEF RInv

(* An answered insert, lone if no other was under way.                     *)
LEMMA EndKeeps ==
    ASSUME RInv, NEW p \in Procs, EndInsert(p)
    PROVE  RInv'
<1>1. /\ ins \in [Procs -> InsertState] /\ ins[p] \in InsertState /\ ins[p].pc = "done"
      /\ idIncrement \in 2 .. MaxId /\ answered \in 2 .. MaxId /\ MaxId \in Nat
      /\ exampleStorage \in [1 .. MaxId -> 0 .. MaxId] /\ lone \subseteq 1 .. MaxId
      /\ UNCHANGED <<idIncrement, exampleStorage>>
      /\ Ordered(p) /\ Solitary(p)
  BY MaxIdAssumption DEF RInv, RepoTypeOK, EndInsert
<1>2. /\ NoInsert \in InsertState /\ NoInsert.pc = "idle" /\ NoInsert.floor = 0
      /\ NoInsert.alone = FALSE
  BY <1>1 DEF InsertState, NoInsert
<1>3. /\ ins' = [ins EXCEPT ![p] = NoInsert] /\ ins'[p] = NoInsert
      /\ \A q \in Procs \ {p} : ins'[q] = ins[q]
  BY <1>1 DEF EndInsert
<1>4. /\ ins[p].id \in 1 .. MaxId /\ ins[p].id <= idIncrement
      /\ ins[p].floor \in Nat /\ ins[p].floor < ins[p].id
  BY <1>1 DEF Ordered, InsertState
<1>5. /\ answered' \in 2 .. MaxId /\ answered <= answered' /\ answered' <= idIncrement
      /\ ins[p].id <= answered'
  BY <1>1, <1>4 DEF EndInsert, RInv
<1>6. /\ lone' \subseteq lone \cup {ins[p].id} /\ lone' \subseteq 1 .. MaxId
      /\ ins[p].id \in lone' => ins[p].alone \/ ins[p].id \in lone
  BY <1>1, <1>4 DEF EndInsert
<1>7. RepoTypeOK'
  BY <1>1, <1>2, <1>3, <1>5, <1>6 DEF RInv, RepoTypeOK
<1>8. Adding' = Adding
  BY <1>1, <1>2, <1>3 DEF Adding
<1>9. ASSUME NEW q \in Procs PROVE Ordered(q)' /\ Solitary(q)'
  <2>1. Ordered(q) /\ Solitary(q) /\ ins[q] \in InsertState
    BY <1>1 DEF RInv
  <2>2. CASE q = p
    BY <1>1, <1>2, <1>3, <1>5, <2>2 DEF Ordered, Solitary
  <2>3. CASE q # p
    <3>1. ~ins[q].alone
      BY <1>1, <2>1, <2>3 DEF Solitary
    <3>2. Ordered(q)'
      BY <1>1, <1>3, <1>5, <2>1, <2>3 DEF Ordered, InsertState
    <3> QED BY <1>3, <2>3, <3>1, <3>2 DEF Solitary
  <2> QED BY <2>2, <2>3
<1>10. LoneFirst'
  <2> SUFFICES ASSUME NEW i \in lone'
               PROVE  /\ i <= answered'
                      /\ \A q \in Procs : ins'[q].pc # "idle" => i <= ins'[q].floor
    BY DEF LoneFirst
  <2>1. CASE i \in lone
    <3>1. i \in Nat /\ i <= answered /\ answered \in Nat /\ answered' \in Nat
      BY <1>1, <1>5, <2>1 DEF RInv, LoneFirst
    <3> QED BY <1>2, <1>3, <1>5, <2>1, <3>1 DEF RInv, LoneFirst
  <2>2. CASE i \notin lone
    <3>1. i = ins[p].id /\ ins[p].alone
      BY <1>6, <2>2
    <3>2. \A q \in Procs : ins'[q].pc = "idle"
      BY <1>1, <1>2, <1>3, <3>1 DEF Solitary
    <3> QED BY <1>5, <3>1, <3>2
  <2> QED BY <2>1, <2>2
<1>11. StoredForGood'
  BY <1>1, <1>6 DEF RInv, StoredForGood, Solitary
<1> QED BY <1>1, <1>5, <1>7, <1>8, <1>9, <1>10, <1>11 DEF RInv

-----------------------------------------------------------------------------
(* Every step of the routes keeps the invariant: a step of the limiter     *)
(* does not touch the repository.                                          *)
LEMMA RepoKeeps == RInv /\ [ExamplesNext]_exampleVars => RInv'
<1>1. ASSUME RInv, UNCHANGED repoVars PROVE RInv'
  BY <1>1 DEF repoVars, RInv, RepoTypeOK, Adding, Ordered, Solitary, LoneFirst, StoredForGood
<1>2. ASSUME RInv, NEW p \in Procs, ExamplePost(p) \/ Proceed(p) PROVE RInv'
  BY <1>1, <1>2, AddKeeps, LoadKeeps, StoreKeeps, BeginKeeps, EndKeeps
     DEF ExamplePost, Proceed, Limit, Insert, InsertStep, Answer
<1> QED BY <1>1, <1>2 DEF ExamplesNext, exampleVars

(* The ledgers of the limiter, in every step of the routes.                *)
LEMMA RoutesKeepLedgers == BInv /\ [ExamplesNext]_exampleVars => BInv'
<1>1. ASSUME BInv, UNCHANGED limiterVars PROVE BInv'
  <2>1. /\ UNCHANGED <<limiters, tokens, evictors, lim, granted>>
        /\ LInv'
    BY <1>1 DEF limiterVars, BInv, LInv, LimiterTypeOK
  <2>2. ASSUME NEW c \in Clients PROVE HasLedger(c)'
    <3>1. PICK spent \in SUBSET Slots, stored \in SUBSET Procs,
               own \in [Procs -> Limiters \cup {NoLimiter}] : Ledger(c, spent, stored, own)
      BY <1>1 DEF BInv, HasLedger
    <3>2. Ledger(c, spent, stored, own)'
      BY <2>1, <3>1 DEF Ledger, MapEntry, FreeSlots, Separate, Owned
    <3> QED BY <3>2 DEF HasLedger, Slots
  <2> QED BY <2>1, <2>2 DEF BInv
<1>2. ASSUME BInv, NEW p \in Procs, ExamplePost(p) \/ Proceed(p) PROVE BInv'
  BY <1>1, <1>2, LedgersKept DEF ExamplePost, Proceed, Limit, Insert, Answer
<1> QED BY <1>1, <1>2, LedgersKept DEF ExamplesNext, exampleVars

(* The invariant of the repository behind the limiter.                     *)
THEOREM RepoInvariant == ExamplesSpec => []RInv
<1>1. ExamplesInit => RInv
  BY RepoStarts DEF ExamplesInit
<1> QED BY <1>1, RepoKeeps, PTL DEF ExamplesSpec

(* A request that began after another was answered gets a larger id        *)
(* (inmemory.go:57-58).                                                    *)
THEOREM LaterIdsLarger == ExamplesSpec => []LaterIdsGrow
<1>1. RInv => LaterIdsGrow
  BY DEF RInv, Ordered, LaterIdsGrow, RepoTypeOK, InsertState
<1> QED BY <1>1, RepoInvariant, PTL

(* An example never hides under a smaller key than its id, and a lone one  *)
(* keeps its place (inmemory.go:57-60).                                    *)
THEOREM LoneExamplesKept == ExamplesSpec => []StoredForGood
<1>1. RInv => StoredForGood
  BY DEF RInv
<1> QED BY <1>1, RepoInvariant, PTL

(* In every state the admissions of each client have a ledger.             *)
THEOREM LedgersInvariant == ExamplesSpec => []BInv
<1>1. ExamplesInit => BInv
  BY LedgersStart DEF ExamplesInit
<1> QED BY <1>1, RoutesKeepLedgers, PTL DEF ExamplesSpec

(* However requests race for a client's limiter, between two evictions or  *)
(* refills it is admitted at most Burst + 1 times per goroutine            *)
(* (ratelimit.go:26-52).                                                   *)
THEOREM BurstsBounded == ExamplesSpec => []BurstBounded
BY LedgerBounds, LedgersInvariant, PTL

(* Variables of the example routes keep their types: a bucket never runs   *)
(* below zero nor over its burst, and the counter stays in its bound.      *)
THEOREM ExamplesTypeCorrect == ExamplesSpec => []ExamplesTypeOK
<1>1. BInv /\ RInv => ExamplesTypeOK
  BY DEF BInv, LInv, RInv, ExamplesTypeOK
<1> QED BY <1>1, LedgersInvariant, RepoInvariant, PTL
=============================================================================
