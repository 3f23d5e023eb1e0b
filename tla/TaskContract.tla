---------------------------- MODULE TaskContract ----------------------------
(***************************************************************************)
(* What the task service promises, without queues, leases, handlers or     *)
(* polls: a task waits, is being submitted under one account, is generated *)
(* under the same account, and ends once and for all; a client may cancel  *)
(* it only while it waits; accounts and spaces never hold more tasks than  *)
(* their concurrency.                                                      *)
(***************************************************************************)
EXTENDS Integers, FiniteSets

CONSTANTS Task, Account, Space, SpaceOf, AccountCapacity, SpaceCapacity, Nobody

VARIABLES
    phase,   \* where a task stands, as a client can tell
    holder   \* the account a task occupies a slot of

contractVars == <<phase, holder>>

Final == {"COMPLETED", "FAILED", "CANCELED"}
Phase == {"ABSENT", "WAITING", "SUBMITTING", "GENERATING"} \cup Final

OnAccount(a) == {t \in Task : holder[t] = a}
OnSpace(s) == {t \in Task : \E a \in Account : SpaceOf[a] = s /\ holder[t] = a}

Init ==
    /\ phase = [t \in Task |-> "ABSENT"]
    /\ holder = [t \in Task |-> Nobody]

Create(t) ==
    /\ phase[t] = "ABSENT"
    /\ phase' = [phase EXCEPT ![t] = "WAITING"]
    /\ UNCHANGED holder

Cancel(t) ==
    /\ phase[t] = "WAITING"
    /\ phase' = [phase EXCEPT ![t] = "CANCELED"]
    /\ UNCHANGED holder

Assign(t, a) ==
    /\ phase[t] = "WAITING"
    /\ Cardinality(OnAccount(a)) < AccountCapacity
    /\ Cardinality(OnSpace(SpaceOf[a])) < SpaceCapacity
    /\ phase' = [phase EXCEPT ![t] = "SUBMITTING"]
    /\ holder' = [holder EXCEPT ![t] = a]

Submitted(t) ==
    /\ phase[t] = "SUBMITTING"
    /\ phase' = [phase EXCEPT ![t] = "GENERATING"]
    /\ UNCHANGED holder

\* A failed submission or generation may be tried again, from the start.
GiveBack(t) ==
    /\ phase[t] \in {"SUBMITTING", "GENERATING"}
    /\ phase' = [phase EXCEPT ![t] = "WAITING"]
    /\ holder' = [holder EXCEPT ![t] = Nobody]

End(t, outcome) ==
    /\ outcome = "COMPLETED" => phase[t] = "GENERATING"
    /\ phase[t] \in {"SUBMITTING", "GENERATING"}
    /\ phase' = [phase EXCEPT ![t] = outcome]
    /\ holder' = [holder EXCEPT ![t] = Nobody]

Next ==
    \E t \in Task :
      \/ Create(t) \/ Cancel(t) \/ Submitted(t) \/ GiveBack(t)
      \/ \E a \in Account : Assign(t, a)
      \/ \E outcome \in {"COMPLETED", "FAILED"} : End(t, outcome)

Spec == Init /\ [][Next]_contractVars
=============================================================================
