------------------------------- MODULE MCAuth -------------------------------
(* Instances of AuthService for TLC.                                       *)
EXTENDS AuthService, TLC

CONSTANT w1

MCRolePerms == [r \in Roles |-> {w1}]
(* A user who was deactivated while he held a refresh token; the sessions   *)
(* from before have expired.                                               *)
DeactivatedInit ==
    /\ users = [u \in Users |-> [st |-> "live", email |-> CHOOSE e \in Emails : TRUE,
                                 active |-> FALSE, ver |-> 0]]
    /\ userRoles = [u \in Users |-> {}]
    /\ sessions = [u \in Users |-> NoSession]
    /\ \E t \in Tokens, u \in Users :
         /\ refresh = [x \in Tokens |-> IF x = t THEN [uid |-> u, ver |-> 0]
                                        ELSE NoRecord]
         /\ issued = {t}
         /\ access = {[uid |-> u, ver |-> 0]}
    /\ req = [p \in Procs |-> Idle]

MCFairSpec == (Init \/ DeactivatedInit) /\ [][Next]_vars /\ Fairness

Symmetry == Permutations(Procs) \cup Permutations(Tokens)
=============================================================================
