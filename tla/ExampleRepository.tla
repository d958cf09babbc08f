------------------------- MODULE ExampleRepository -------------------------
(***************************************************************************)
(* internal/domain/example/repository/inmemory.go: a sync.Map of examples  *)
(* and an atomic counter.  Insert adds to the counter, loads it for the    *)
(* example's id and loads it again for the key, so that inserts which      *)
(* overlap may share an id or store an example under another key.          *)
(***************************************************************************)
EXTENDS Requests, Naturals

CONSTANT MaxId          \* bound of the counter

ASSUME MaxIdAssumption == MaxId \in Nat /\ MaxId >= 2

VARIABLES
    idIncrement,
    exampleStorage,     \* [1 .. MaxId -> id of the stored example, 0 for none]
    ins,                \* [Procs -> state of Insert]
    answered,           \* the largest id a finished request was answered with
    lone                \* ids of inserts no other overlapped: both history

repoVars == <<idIncrement, exampleStorage, ins, answered, lone>>

(* floor is the value of answered when the request began, alone that no    *)
(* other insert has been under way since.                                  *)
InsertState == [pc : {"idle", "add", "id", "key", "store", "done"},
                id : 0 .. MaxId, key : 0 .. MaxId, floor : 0 .. MaxId, alone : BOOLEAN]
NoInsert == [pc |-> "idle", id |-> 0, key |-> 0, floor |-> 0, alone |-> FALSE]

(* NewInMemoryRepository stores two examples.                              *)
RepoInit == /\ idIncrement = 2
            /\ exampleStorage = [k \in 1 .. MaxId |-> IF k <= 2 THEN k ELSE 0]
            /\ ins = [p \in Procs |-> NoInsert]
            /\ answered = 2
            /\ lone = {1, 2}

Inserting == {p \in Procs : ins[p].pc # "idle"}

-----------------------------------------------------------------------------
(* Service.Create.  The bound: the counter stays within MaxId.             *)
BeginInsert(p) ==
    /\ ins[p].pc = "idle"
    /\ idIncrement + Cardinality({q \in Inserting : ins[q].pc = "add"}) < MaxId
    /\ ins' = [q \in Procs |->
         IF q = p THEN [NoInsert EXCEPT !.pc = "add", !.floor = answered,
                                        !.alone = Inserting = {}]
         ELSE [ins[q] EXCEPT !.alone = FALSE]]
    /\ UNCHANGED <<idIncrement, exampleStorage, answered, lone>>

AddOne(p) == /\ ins[p].pc = "add"
             /\ idIncrement' = idIncrement + 1
             /\ ins' = [ins EXCEPT ![p].pc = "id"]
             /\ UNCHANGED <<exampleStorage, answered, lone>>

(* Mutant: the id is the counter's value before the addition.              *)
LoadOldId(p) == /\ ins[p].pc = "id"
                /\ ins' = [ins EXCEPT ![p] = [@ EXCEPT !.pc = "key", !.id = idIncrement - 1]]
                /\ UNCHANGED <<idIncrement, exampleStorage, answered, lone>>

LoadId(p) == /\ ins[p].pc = "id"
             /\ ins' = [ins EXCEPT ![p] = [@ EXCEPT !.pc = "key", !.id = idIncrement]]
             /\ UNCHANGED <<idIncrement, exampleStorage, answered, lone>>

(* Mutant: the examples are kept from key 0.                               *)
LoadOffsetKey(p) ==
    /\ ins[p].pc = "key"
    /\ ins' = [ins EXCEPT ![p] = [@ EXCEPT !.pc = "store", !.key = idIncrement - 1]]
    /\ UNCHANGED <<idIncrement, exampleStorage, answered, lone>>

LoadKey(p) == /\ ins[p].pc = "key"
              /\ ins' = [ins EXCEPT ![p] = [@ EXCEPT !.pc = "store", !.key = idIncrement]]
              /\ UNCHANGED <<idIncrement, exampleStorage, answered, lone>>

StoreExample(p) ==
    /\ ins[p].pc = "store"
    /\ exampleStorage' = [exampleStorage EXCEPT ![ins[p].key] = ins[p].id]
    /\ ins' = [ins EXCEPT ![p].pc = "done"]
    /\ UNCHANGED <<idIncrement, answered, lone>>

EndInsert(p) ==
    /\ ins[p].pc = "done"
    /\ answered' = IF ins[p].id > answered THEN ins[p].id ELSE answered
    /\ lone' = IF ins[p].alone THEN lone \cup {ins[p].id} ELSE lone
    /\ ins' = [ins EXCEPT ![p] = NoInsert]
    /\ UNCHANGED <<idIncrement, exampleStorage>>

-----------------------------------------------------------------------------
InsertStep(p) == AddOne(p) \/ LoadId(p) \/ LoadKey(p) \/ StoreExample(p)

RepoTypeOK ==
    /\ idIncrement \in 2 .. MaxId
    /\ exampleStorage \in [1 .. MaxId -> 0 .. MaxId]
    /\ ins \in [Procs -> InsertState]
    /\ answered \in 2 .. MaxId
    /\ lone \subseteq 1 .. MaxId

(* A request that began after another was answered gets a larger id: only  *)
(* requests that overlap can share one (inmemory.go:57-58).                *)
LaterIdsGrow ==
    \A p \in Procs : ins[p].pc \in {"key", "store", "done"} => ins[p].id > ins[p].floor

(* An example never hides under a smaller key than its id, so no insert    *)
(* overwrites an example that was stored under its own id before it began; *)
(* an insert that overlaps no other is found under its id for good, and so *)
(* are the two examples the repository starts with (inmemory.go:57-60).    *)
StoredForGood ==
    /\ \A k \in 1 .. MaxId : exampleStorage[k] <= k
    /\ \A i \in lone : exampleStorage[i] = i
=============================================================================
