----------------------------- MODULE MCOverrun ------------------------------
(* The instance of the pipeline whose leases are overrun, and one of the   *)
(* credits of an account: the initial state picks the one that runs.       *)
EXTENDS MCTaskLifecycle, CreditSettlement

CONSTANT j1

VARIABLE side \* the one that runs: "tasks" or "credits"

MCPriceOf == [j \in Job |-> 1]
MCQuoteOf == [j \in Job |-> IF j = j1 THEN 2 ELSE 1]

OverrunInit ==
    /\ side \in {"tasks", "credits"}
    /\ Init /\ CreditInit

TasksOverrun == side = "tasks" /\ Next /\ UNCHANGED <<side, creditVars>>
CreditsMove == side = "credits" /\ CreditNext /\ UNCHANGED <<side, vars>>

OverrunNext == TasksOverrun \/ CreditsMove

OverrunSpec == OverrunInit /\ [][OverrunNext]_<<side, vars, creditVars>>
=============================================================================
