---------------------------- MODULE TaskCreation ----------------------------
(***************************************************************************)
(* create_task with its idempotency key.  Several processes serve the API, *)
(* a client may repeat a request while the first one is still served, and  *)
(* the unique key of tasks.idempotency_key decides.  MySQL runs with       *)
(* REPEATABLE READ: a plain SELECT sees the rows that were committed when  *)
(* the transaction first read; an INSERT meets committed and uncommitted   *)
(* rows alike, and waits for the latter.                                   *)
(*                                                                         *)
(* A request is its key and its digest (request_hash, over the whole body  *)
(* with the quoted cost).                                                  *)
(***************************************************************************)
EXTENDS Integers, FiniteSets

CONSTANTS
    Key,       \* idempotency keys
    Digest,    \* hashes of requests
    Server,    \* create_task calls that are served at a time
    MaxUuid    \* bound: calls, each has a task_uuid of its own

ASSUME CreationAssumption == MaxUuid \in Nat

VARIABLES
    created,  \* committed rows of tasks: key, digest, uuid
    waiting,  \* committed rows of task_queue, by uuid
    call,     \* create_task of a server
    calls,    \* number of calls, the task_uuid of the last one
    answered  \* history: the key and digest of a request and what it was told

creationVars == <<created, waiting, call, calls, answered>>

Idle == [stage |-> "idle", row |-> [key |-> "none", digest |-> "none", uuid |-> 0], seen |-> {}]

Conflict == 0 \* an answer with status 409, in place of a task

CreationInit ==
    /\ created = {}
    /\ waiting = {}
    /\ call = [v \in Server |-> Idle]
    /\ calls = 0
    /\ answered = {}

OfKey(rows, key) == {r \in rows : r.key = key}

\* A client is told a task or a conflict, and the call ends.
Answer(v, what) ==
    /\ answered' = answered \cup {[key |-> call[v].row.key, digest |-> call[v].row.digest, told |-> what]}
    /\ call' = [call EXCEPT ![v] = Idle]

\* The task of a row, if it was created by the same request.
Judged(v, r) == IF r.digest = call[v].row.digest THEN r.uuid ELSE Conflict

\* A request arrives; the transaction begins with the SELECT of the key.
Post(v, k, d) ==
    /\ call[v].stage = "idle" /\ calls < MaxUuid
    /\ calls' = calls + 1
    /\ call' = [call EXCEPT ![v] =
                  [stage |-> "selected", row |-> [key |-> k, digest |-> d, uuid |-> calls'],
                   seen |-> OfKey(created, k)]]
    /\ UNCHANGED <<created, waiting, answered>>

\* It found the task of an earlier call.
AnswerExisting(v) ==
    /\ call[v].stage = "selected"
    /\ \E r \in call[v].seen : Answer(v, Judged(v, r))
    /\ UNCHANGED <<created, waiting, calls>>

\* Rows that transactions in progress have inserted.
Uncommitted(key) == {v \in Server : call[v].stage = "inserted" /\ call[v].row.key = key}

\* Mutant of InsertTask: the key is not unique in the database.
InsertTaskUnlocked(v) ==
    /\ call[v].stage = "selected" /\ call[v].seen = {}
    /\ call' = [call EXCEPT ![v].stage = "inserted"]
    /\ UNCHANGED <<created, waiting, calls, answered>>

\* The INSERT of the flush; it waits while another one of the key is open.
InsertTask(v) ==
    /\ call[v].stage = "selected" /\ call[v].seen = {}
    /\ Uncommitted(call[v].row.key) = {} /\ OfKey(created, call[v].row.key) = {}
    /\ call' = [call EXCEPT ![v].stage = "inserted"]
    /\ UNCHANGED <<created, waiting, calls, answered>>

\* IntegrityError: the transaction is rolled back.
InsertIsDuplicate(v) ==
    /\ call[v].stage = "selected" /\ call[v].seen = {}
    /\ OfKey(created, call[v].row.key) # {}
    /\ call' = [call EXCEPT ![v].stage = "repeats"]
    /\ UNCHANGED <<created, waiting, calls, answered>>

\* Mutant of Repeated: the SELECT after the rollback sees the old snapshot.
RepeatedInSnapshot(v) == call[v].seen

Repeated(v) == OfKey(created, call[v].row.key)

\* The second SELECT, in a new transaction.
AnswerRepeated(v) ==
    /\ call[v].stage = "repeats"
    /\ \/ \E r \in Repeated(v) : Answer(v, Judged(v, r))
       \/ Repeated(v) = {} /\ Answer(v, Conflict)
    /\ UNCHANGED <<created, waiting, calls>>

\* Task, queue row and event are committed together.
CommitTask(v) ==
    /\ call[v].stage = "inserted"
    /\ created' = created \cup {call[v].row}
    /\ waiting' = waiting \cup {call[v].row.uuid}
    /\ call' = [call EXCEPT ![v].stage = "committed"]
    /\ UNCHANGED <<calls, answered>>

\* load_task_view of the own task.
AnswerCreated(v) ==
    /\ call[v].stage = "committed"
    /\ Answer(v, call[v].row.uuid)
    /\ UNCHANGED <<created, waiting, calls>>

\* The process ends, the connection breaks, a deadlock picks the call (two
\* that waited for a row that was rolled back): nothing of an open
\* transaction stays, and the client hears nothing it can rely on.
CallBreaks(v) ==
    /\ call[v].stage # "idle"
    /\ call' = [call EXCEPT ![v] = Idle]
    /\ UNCHANGED <<created, waiting, calls, answered>>

CreationNext ==
    \E v \in Server :
      \/ \E k \in Key, d \in Digest : Post(v, k, d)
      \/ AnswerExisting(v)
      \/ InsertTask(v)
      \/ InsertIsDuplicate(v)
      \/ AnswerRepeated(v)
      \/ CommitTask(v)
      \/ AnswerCreated(v)
      \/ CallBreaks(v)

CreationSpecification == CreationInit /\ [][CreationNext]_creationVars

-----------------------------------------------------------------------------
(* Properties.                                                             *)

CreationTypeOK ==
    /\ created \subseteq [key : Key, digest : Digest, uuid : 1 .. calls]
    /\ waiting = {r.uuid : r \in created}
    /\ \A v \in Server :
         /\ call[v].stage \in {"idle", "selected", "inserted", "committed", "repeats"}
         /\ call[v].seen \subseteq OfKey(created, call[v].row.key)
         /\ call[v].stage = "committed" => call[v].row \in created
         /\ call[v].stage = "inserted" =>
              Uncommitted(call[v].row.key) = {v} /\ OfKey(created, call[v].row.key) = {}

(* A key names one task.  However requests overlap, break and are          *)
(* repeated, no key has two tasks; every client that posted the request of *)
(* the task is told that task and nobody is told another's; and a conflict *)
(* is only told to a client whose key belongs to a different request.      *)
OneTaskPerKey ==
    /\ \A r, s \in created : r.key = s.key => r = s
    /\ \A a \in answered :
         IF a.told = Conflict
         THEN \E r \in created : r.key = a.key /\ r.digest # a.digest
         ELSE [key |-> a.key, digest |-> a.digest, uuid |-> a.told] \in created
=============================================================================
