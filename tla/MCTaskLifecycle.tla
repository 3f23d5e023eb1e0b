-------------------------- MODULE MCTaskLifecycle --------------------------
(* Instances of TaskLifecycle for TLC.                                     *)
EXTENDS TaskLifecycleContract, TLC

CONSTANTS t1, t2, a1, a2, s1, OnlyTyped

MCSpaceOf == [a \in Account |-> s1]
MCTyped == IF OnlyTyped THEN Task ELSE {t1}
MCRetryLimit == [c \in {"PROVIDER_MODERATION_ERROR"} |-> 1]

\* Workers and syncers are interchangeable, and so are accounts of one space.
Interchangeable == Permutations(Worker) \cup Permutations(Syncer) \cup Permutations(Account)
=============================================================================
