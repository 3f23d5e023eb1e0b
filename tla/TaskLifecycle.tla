--------------------------- MODULE TaskLifecycle ---------------------------
(***************************************************************************)
(* The life of a generation task: worker processes take task rows from a   *)
(* leased queue table, reserve an account and a slot of its space, submit  *)
(* to the upstream provider and record the answer; syncer processes lease  *)
(* submitted tasks, poll the provider and settle them; the public API      *)
(* creates and cancels tasks.  Each action is one committed database       *)
(* transaction (or one upstream call between two of them), so everything   *)
(* two processes can do between the transactions of a third is explored.   *)
(*                                                                         *)
(* Time is abstracted to what it decides: a lease either still protects    *)
(* its holder or has run out, and a row that is due "later" may be picked  *)
(* at any later moment.  Credits appear as amounts reserved; the wallet    *)
(* balance is not a variable here, so what depends on it is a choice.      *)
(***************************************************************************)
EXTENDS Integers, FiniteSets, Functions

CONSTANTS
    Task,            \* tasks that clients may create
    Account,         \* rows of the account pool
    Space,           \* rows of spaces
    Worker,          \* worker processes (worker.py)
    Syncer,          \* syncer processes (syncer.py)
    Nobody,          \* a NULL foreign key or lease owner
    SpaceOf,         \* the space an account belongs to
    Typed,           \* tasks with a typed input schema and a mode
    AccountCapacity, \* Account.max_concurrency
    SpaceCapacity,   \* Space.max_concurrency
    WorkerConcurrency, \* settings.worker_concurrency
    Estimate,        \* estimated_credit_cost of a task
    ApiCost,         \* costs the provider may report for an accepted task
    MaxSubmit,       \* settings.worker_max_submit_attempts
    MaxOutage,       \* settings.upstream_outage_max_submit_attempts
    RetryLimit,      \* PROVIDER_RESULT_RETRY_LIMITS: failure code -> limit
    MaxAttempts,     \* bound: number of claims of one task explored
    Errors,          \* error codes an upstream call may raise
    LeaseOverrun,    \* may a lease run out under a live handler?
    LostAnswers,     \* may Generate succeed upstream while the answer is lost?
    FinishMayAbort   \* may the transaction of a finish_submit_* fail?

(* TRANSIENT stands for every retryable error without an effect of its own  *)
(* (timeouts, network and server errors, the PRE_SUBMIT_* and MEDIA_* state *)
(* errors, WORKER_INTERNAL_ERROR) and REJECTED for every other error with   *)
(* retryable=False.                                                        *)
ErrorCode == {"TRANSIENT", "REJECTED", "UPSTREAM_PROVIDER_UNAVAILABLE",
              "UPSTREAM_UNAUTHORIZED", "UPSTREAM_RATE_LIMITED",
              "PRE_SUBMIT_LOW_BALANCE", "ACCOUNT_SUSPENDED"}

ASSUME CapacityAssumption ==
    /\ AccountCapacity \in Nat \ {0}
    /\ SpaceCapacity \in Nat \ {0}
    /\ WorkerConcurrency \in Nat \ {0}

ASSUME CostAssumption == Estimate \in Nat /\ ApiCost \subseteq Nat

ASSUME BudgetAssumption ==
    /\ MaxSubmit \in Nat /\ MaxOutage \in Nat
    /\ MaxAttempts \in Nat \ {0}
    /\ RetryLimit \in [DOMAIN RetryLimit -> Nat]

ASSUME RowAssumption ==
    /\ SpaceOf \in [Account -> Space]
    /\ Typed \subseteq Task
    /\ Errors \subseteq ErrorCode
    /\ Nobody \notin Worker \cup Syncer \cup Account

ASSUME FiniteAssumption == IsFiniteSet(Task) /\ IsFiniteSet(Account)

ASSUME FaultAssumption ==
    LeaseOverrun \in BOOLEAN /\ LostAnswers \in BOOLEAN /\ FinishMayAbort \in BOOLEAN

VARIABLES
    task,      \* rows of tasks
    queue,     \* rows of task_queue
    account,   \* rows of accounts
    slots,     \* Space.active_tasks
    handler,   \* handle_assignment coroutines, by task and attempt_no
    poll,      \* sync_one coroutines, by syncer and task
    generation \* history: under which account the provider accepted an attempt

vars == <<task, queue, account, slots, handler, poll, generation>>

-----------------------------------------------------------------------------
(* Rows and their vocabularies.                                            *)

Attempt == 1 .. MaxAttempts
Waiting == {"QUEUED", "WAITING_ACCOUNT", "RETRY_WAIT"}
InFlight == {"RESOLVING_MEDIA", "SUBMITTING"}
Upstream == {"UPSTREAM_QUEUED", "RUNNING"}
Terminal == {"COMPLETED", "FAILED", "CANCELED"}
Status == {"ABSENT"} \cup Waiting \cup InFlight \cup Upstream \cup Terminal

TaskRow == [status : Status,
            account : Account \cup {Nobody},
            reserved : Nat,               \* reserved_credit_cost
            attempts : 0 .. MaxAttempts,  \* submit_attempts
            upstreamId : 0 .. MaxAttempts, \* the attempt whose generation it is
            nextSync : BOOLEAN,           \* next_sync_at IS NOT NULL
            syncOwner : Syncer \cup {Nobody},
            syncLive : BOOLEAN,           \* sync_lease_until >= now
            retries : [DOMAIN RetryLimit -> Nat]] \* retry events by reason

QueueRow == [status : {"ABSENT", "READY", "RETRY_WAIT", "LEASED", "DONE"},
             owner : Worker \cup {Nobody},
             live : BOOLEAN]              \* lease_until >= now

(* TOKEN_EXPIRED and PENDING_VALIDATION pause polling and are PAUSED here; *)
(* COOLDOWN, LOW_BALANCE_DISABLED and TOKEN_EXPIRING only keep new tasks   *)
(* away and are PARKED.                                                    *)
AccountStatus == {"ACTIVE", "PAUSED", "PARKED", "MANUAL_DISABLED"}

AccountRow == [status : AccountStatus,
               unauthorized : BOOLEAN,    \* last_error_code
               active : Nat,              \* active_tasks
               reserved : Nat]            \* reserved_credits

HandlerRow == [pc : {"idle", "validate", "media", "submit", "accepted",
                     "failing", "orphaned"},
               worker : Worker \cup {Nobody},
               account : Account \cup {Nobody},
               cost : Nat,                \* cost to reserve once submitted
               error : ErrorCode \cup {"none"}]

PollRow == [pc : {"idle", "claimed", "polling"}, tracked : 0 .. MaxAttempts]

NoHandler == [pc |-> "idle", worker |-> Nobody, account |-> Nobody,
              cost |-> 0, error |-> "none"]
NoPoll == [pc |-> "idle", tracked |-> 0]

Init ==
    /\ task = [t \in Task |->
                 [status |-> "ABSENT", account |-> Nobody, reserved |-> 0,
                  attempts |-> 0, upstreamId |-> 0, nextSync |-> FALSE,
                  syncOwner |-> Nobody, syncLive |-> FALSE,
                  retries |-> [c \in DOMAIN RetryLimit |-> 0]]]
    /\ queue = [t \in Task |-> [status |-> "ABSENT", owner |-> Nobody, live |-> FALSE]]
    /\ account = [a \in Account |-> [status |-> "ACTIVE", unauthorized |-> FALSE,
                                     active |-> 0, reserved |-> 0]]
    /\ slots = [s \in Space |-> 0]
    /\ handler = [t \in Task |-> [n \in Attempt |-> NoHandler]]
    /\ poll = [y \in Syncer |-> [t \in Task |-> NoPoll]]
    /\ generation = [t \in Task |-> [n \in Attempt |-> Nobody]]

-----------------------------------------------------------------------------
(* Helpers shared by several transactions.                                 *)

\* Mutant of Minus: the decrement forgets its floor.
MinusUnfloored(value, amount) == value - amount

\* max(value - amount, 0): every counter is decremented with a floor.
Minus(value, amount) == IF value > amount THEN value - amount ELSE 0

\* Take one slot of an account and reserve credits.
Charged(row, credits) ==
    [row EXCEPT !.active = @ + 1, !.reserved = @ + credits]

\* Give them back; ReleaseSlot gives back the slot of the account's space.
Released(row, credits) ==
    [row EXCEPT !.active = Minus(@, 1), !.reserved = Minus(@, credits)]

ReleaseSlot(a) == slots' = [slots EXCEPT ![SpaceOf[a]] = Minus(@, 1)]

Requeued == [status |-> "RETRY_WAIT", owner |-> Nobody, live |-> FALSE]
Finished == [status |-> "DONE", owner |-> Nobody, live |-> FALSE]

Running(w) == {h \in Task \X Attempt :
                 /\ handler[h[1]][h[2]].worker = w
                 /\ handler[h[1]][h[2]].pc \notin {"idle", "orphaned"}}

-----------------------------------------------------------------------------
(* Public API.                                                             *)

CreateTask(t) ==
    /\ task[t].status = "ABSENT"
    /\ task' = [task EXCEPT ![t].status = "QUEUED"]
    /\ queue' = [queue EXCEPT ![t].status = "READY"]
    /\ UNCHANGED <<account, slots, handler, poll, generation>>

\* Mutant of CancelTask: the queue row is left selectable.
CancelTaskOnly(t) ==
    /\ task[t].status \in Waiting
    /\ task' = [task EXCEPT ![t].status = "CANCELED"]
    /\ UNCHANGED <<queue, account, slots, handler, poll, generation>>

\* Mutant of CancelTask: a task may also be canceled while it is in flight.
CancelTaskInFlight(t) ==
    /\ task[t].status \in Waiting \cup InFlight
    /\ task' = [task EXCEPT ![t].status = "CANCELED"]
    /\ queue' = [queue EXCEPT ![t] = Finished]
    /\ UNCHANGED <<account, slots, handler, poll, generation>>

CancelTask(t) ==
    /\ task[t].status \in Waiting
    /\ task' = [task EXCEPT ![t].status = "CANCELED"]
    /\ queue' = [queue EXCEPT ![t] = Finished]
    /\ UNCHANGED <<account, slots, handler, poll, generation>>

-----------------------------------------------------------------------------
(* Worker: claiming.  The branch of claim_and_assign that closes a queue   *)
(* row whose task is not waiting is left out: QueueTaskAgree shows that no *)
(* such row is ever selected.                                              *)

Claimable(w, t) ==
    /\ Cardinality(Running(w)) < WorkerConcurrency
    /\ queue[t].status \in {"READY", "RETRY_WAIT"}
    /\ ~queue[t].live
    /\ task[t].status \in Waiting

\* Mutant of Assignable: the recheck under the lock is dropped for the
\* account's own slots.
AssignableOverAccount(a) ==
    account[a].status = "ACTIVE" /\ slots[SpaceOf[a]] < SpaceCapacity

Assignable(a) ==
    /\ account[a].status = "ACTIVE"
    /\ account[a].active < AccountCapacity
    /\ slots[SpaceOf[a]] < SpaceCapacity

\* A typed task has media assets to resolve before it is submitted.
FirstStatus(t) == IF t \in Typed THEN "RESOLVING_MEDIA" ELSE "SUBMITTING"

\* An account was found: reserve it and start a handler for a new attempt.
ClaimAndAssign(w, t, a) ==
    LET n == task[t].attempts + 1 IN
    /\ Claimable(w, t)
    /\ Assignable(a)
    /\ n \in Attempt
    /\ task' = [task EXCEPT ![t] =
                  [@ EXCEPT !.status = FirstStatus(t), !.account = a,
                            !.reserved = Estimate, !.attempts = n]]
    /\ queue' = [queue EXCEPT ![t] = [status |-> "LEASED", owner |-> w, live |-> TRUE]]
    /\ account' = [account EXCEPT ![a] = Charged(@, Estimate)]
    /\ slots' = [slots EXCEPT ![SpaceOf[a]] = @ + 1]
    /\ handler' = [handler EXCEPT ![t][n] =
                     [pc |-> "validate", worker |-> w, account |-> a,
                      cost |-> Estimate, error |-> "none"]]
    /\ UNCHANGED <<poll, generation>>

\* No account qualifies, can fund the task, or is free of a row lock.
ClaimFindsNoAccount(w, t) ==
    /\ Claimable(w, t)
    /\ task' = [task EXCEPT ![t].status = "WAITING_ACCOUNT"]
    /\ queue' = [queue EXCEPT ![t] = Requeued]
    /\ UNCHANGED <<account, slots, handler, poll, generation>>

-----------------------------------------------------------------------------
(* Worker: one handle_assignment coroutine, step by step.                  *)

Fail(t, n, code) ==
    handler' = [handler EXCEPT ![t][n] = [@ EXCEPT !.pc = "failing", !.error = code]]

Goto(t, n, pc) == handler' = [handler EXCEPT ![t][n].pc = pc]

\* Mutant of AfterRefresh: submission does not wait for the media.
AfterRefreshSkipsMedia(t) == "submit"

AfterRefresh(t) == IF t \in Typed THEN "media" ELSE "submit"

\* The snapshot of validate_account is recorded on the account row.
Refreshed(a, status, unauthorized) ==
    account' = [account EXCEPT ![a] =
                  [@ EXCEPT !.status = status, !.unauthorized = unauthorized]]

\* apply_pre_submit_balance_refresh on the answer of validate_account.
PreSubmitRefresh(t, n) ==
    LET h == handler[t][n]
        status == account[h.account].status
        rowsUsable == task[t].status \in InFlight /\ status = "ACTIVE"
    IN
    /\ h.pc = "validate"
    /\ \/ \* the task, the account's status or its token has changed
          /\ Fail(t, n, "TRANSIENT")
          /\ UNCHANGED account
       \/ \* the balance covers every reservation of the account
          /\ rowsUsable
          /\ Refreshed(h.account, status, FALSE)
          /\ Goto(t, n, AfterRefresh(t))
       \/ \* it does not, or the call failed for no fault of the credential
          /\ rowsUsable
          /\ Refreshed(h.account, status, FALSE)
          /\ \E code \in Errors \cap {"TRANSIENT", "UPSTREAM_PROVIDER_UNAVAILABLE",
                                   "UPSTREAM_RATE_LIMITED"} : Fail(t, n, code)
       \/ /\ rowsUsable
          /\ "PRE_SUBMIT_LOW_BALANCE" \in Errors
          /\ Refreshed(h.account, "PARKED", FALSE)
          /\ Fail(t, n, "PRE_SUBMIT_LOW_BALANCE")
       \/ \* the credential is rejected, or knows no user
          /\ rowsUsable
          /\ \E code \in Errors \cap {"UPSTREAM_UNAUTHORIZED", "REJECTED"} :
               /\ Refreshed(h.account, "PAUSED", code = "UPSTREAM_UNAUTHORIZED")
               /\ Fail(t, n, code)
    /\ UNCHANGED <<task, queue, slots, poll, generation>>

\* Every media asset resolved: mark_submission_ready, or its state error.
MarkSubmissionReady(t, n) ==
    /\ handler[t][n].pc = "media"
    /\ IF task[t].status = "RESOLVING_MEDIA"
       THEN /\ task' = [task EXCEPT ![t].status = "SUBMITTING"]
            /\ Goto(t, n, "submit")
       ELSE /\ Fail(t, n, "TRANSIENT")
            /\ UNCHANGED task
    /\ UNCHANGED <<queue, account, slots, poll, generation>>

\* Media resolution or Generate raised before the provider accepted anything.
UpstreamRaises(t, n, code) ==
    /\ handler[t][n].pc \in {"media", "submit"}
    /\ code # "PRE_SUBMIT_LOW_BALANCE"
    /\ Fail(t, n, code)
    /\ UNCHANGED <<task, queue, account, slots, poll, generation>>

\* The provider accepts Generate and reports its cost.
GenerateAccepted(t, n, cost) ==
    /\ handler[t][n].pc = "submit"
    /\ generation' = [generation EXCEPT ![t][n] = handler[t][n].account]
    /\ handler' = [handler EXCEPT ![t][n] = [@ EXCEPT !.pc = "accepted", !.cost = cost]]
    /\ UNCHANGED <<task, queue, account, slots, poll>>

\* The provider accepts Generate but the answer times out or is cut.
GenerateAnswerLost(t, n) ==
    /\ LostAnswers
    /\ handler[t][n].pc = "submit"
    /\ generation' = [generation EXCEPT ![t][n] = handler[t][n].account]
    /\ Fail(t, n, "TRANSIENT")
    /\ UNCHANGED <<task, queue, account, slots, poll>>

\* Mutant of FinishSubmitSuccess: the provider's cost is stored on the task
\* but not carried to the account's reservation.
FinishSubmitSuccessOnTask(t, n) ==
    /\ handler[t][n].pc = "accepted"
    /\ IF task[t].status = "SUBMITTING"
       THEN /\ task' = [task EXCEPT ![t] =
                          [@ EXCEPT !.status = "UPSTREAM_QUEUED",
                                    !.reserved = handler[t][n].cost,
                                    !.upstreamId = n, !.nextSync = TRUE]]
            /\ queue' = [queue EXCEPT ![t] = Finished]
       ELSE UNCHANGED <<task, queue>>
    /\ handler' = [handler EXCEPT ![t][n] = NoHandler]
    /\ UNCHANGED <<account, slots, poll, generation>>

FinishSubmitSuccess(t, n) ==
    LET h == handler[t][n]
        delta == h.cost - task[t].reserved
    IN
    /\ h.pc = "accepted"
    /\ IF task[t].status = "SUBMITTING"
       THEN /\ account' = [account EXCEPT ![h.account].reserved = Minus(@ + delta, 0)]
            /\ task' = [task EXCEPT ![t] =
                          [@ EXCEPT !.status = "UPSTREAM_QUEUED", !.reserved = h.cost,
                                    !.upstreamId = n, !.nextSync = TRUE]]
            /\ queue' = [queue EXCEPT ![t] = Finished]
       ELSE UNCHANGED <<account, task, queue>>
    /\ handler' = [handler EXCEPT ![t][n] = NoHandler]
    /\ UNCHANGED <<slots, poll, generation>>

\* submit_retry_delay_seconds: is there a retry left for this error?
SubmitRetryLeft(code, attempts) ==
    /\ code \notin {"REJECTED", "UPSTREAM_UNAUTHORIZED"}
    /\ attempts < IF code = "UPSTREAM_PROVIDER_UNAVAILABLE" THEN MaxOutage ELSE MaxSubmit

\* Account status after a failed submission.
StatusAfterError(code, status) ==
    CASE code = "ACCOUNT_SUSPENDED" -> "MANUAL_DISABLED"
      [] code = "UPSTREAM_UNAUTHORIZED" -> "PAUSED"
      [] code \in {"UPSTREAM_RATE_LIMITED", "PRE_SUBMIT_LOW_BALANCE"} -> "PARKED"
      [] OTHER -> status

FinishSubmitFailure(t, n) ==
    LET h == handler[t][n]
        retryable == SubmitRetryLeft(h.error, task[t].attempts)
    IN
    /\ h.pc = "failing"
    /\ IF task[t].status \in InFlight
       THEN /\ account' = [account EXCEPT ![h.account] =
                  [Released(@, task[t].reserved) EXCEPT
                     !.status = StatusAfterError(h.error, account[h.account].status),
                     !.unauthorized = (h.error = "UPSTREAM_UNAUTHORIZED")]]
            /\ ReleaseSlot(h.account)
            /\ task' = [task EXCEPT ![t] =
                          [@ EXCEPT !.status = IF retryable THEN "RETRY_WAIT" ELSE "FAILED",
                                    !.reserved = 0]]
            /\ queue' = [queue EXCEPT ![t] = IF retryable THEN Requeued ELSE Finished]
       ELSE UNCHANGED <<account, slots, task, queue>>
    /\ handler' = [handler EXCEPT ![t][n] = NoHandler]
    /\ UNCHANGED <<poll, generation>>

\* The transaction of finish_submit_* fails: handle_assignment ends with the
\* exception before lease_stop.set(), and its renewal coroutine lives on.
FinishAborts(t, n) ==
    /\ FinishMayAbort
    /\ handler[t][n].pc \in {"accepted", "failing"}
    /\ Goto(t, n, "orphaned")
    /\ UNCHANGED <<task, queue, account, slots, poll, generation>>

-----------------------------------------------------------------------------
(* Leases, crashes and recovery.                                           *)

\* Mutant of Renewing: handle_assignment starts no renewal coroutine.
RenewingNothing(t) == {}

\* Handlers whose renewal coroutine still extends the lease of t.
Renewing(t) == {n \in Attempt : /\ handler[t][n].pc # "idle"
                                /\ handler[t][n].worker = queue[t].owner}

LeaseRunsOut(t) ==
    /\ queue[t].status = "LEASED" /\ queue[t].live
    /\ LeaseOverrun \/ Renewing(t) = {}
    /\ queue' = [queue EXCEPT ![t].live = FALSE]
    /\ UNCHANGED <<task, account, slots, handler, poll, generation>>

\* renew_assignment_lease: it does not ask whether the lease had run out.
RenewLease(t) ==
    /\ queue[t].status = "LEASED" /\ ~queue[t].live
    /\ Renewing(t) # {}
    /\ queue' = [queue EXCEPT ![t].live = TRUE]
    /\ UNCHANGED <<task, account, slots, handler, poll, generation>>

\* An orphaned renewal coroutine ends when the row is no longer its own.
RenewalEnds(t, n) ==
    /\ handler[t][n].pc = "orphaned"
    /\ n \notin Renewing(t) \/ queue[t].status # "LEASED"
    /\ handler' = [handler EXCEPT ![t][n] = NoHandler]
    /\ UNCHANGED <<task, queue, account, slots, poll, generation>>

\* A worker process dies with all its coroutines.  A restarted worker has a
\* fresh id; an id without coroutines is as good as a fresh one.
WorkerCrash(w) ==
    /\ \E t \in Task, n \in Attempt : handler[t][n].worker = w
    /\ handler' = [t \in Task |-> [n \in Attempt |->
                     IF handler[t][n].worker = w THEN NoHandler ELSE handler[t][n]]]
    /\ UNCHANGED <<task, queue, account, slots, poll, generation>>

\* Mutant of RecoverExpiredLease: whatever the lease was lost in is requeued.
RecoverByRequeueing(t) ==
    LET a == task[t].account IN
    /\ queue[t].status = "LEASED" /\ ~queue[t].live
    /\ task[t].status \in InFlight
    /\ task' = [task EXCEPT ![t] = [@ EXCEPT !.status = "RETRY_WAIT", !.reserved = 0]]
    /\ queue' = [queue EXCEPT ![t] = Requeued]
    /\ account' = [account EXCEPT ![a] = Released(@, task[t].reserved)]
    /\ ReleaseSlot(a)
    /\ UNCHANGED <<handler, poll, generation>>

\* Mutant of RecoverExpiredLease: a lease lost in SUBMITTING is skipped.
RecoverResolvingOnly(t) ==
    /\ task[t].status = "RESOLVING_MEDIA"
    /\ RecoverByRequeueing(t)

\* recover_expired_leases, for one of the rows it selects.  Its branches for
\* other statuses are left out: QueueTaskAgree shows that none is LEASED.
RecoverExpiredLease(t) ==
    LET a == task[t].account IN
    /\ queue[t].status = "LEASED" /\ ~queue[t].live
    /\ \/ /\ task[t].status = "RESOLVING_MEDIA"
          /\ task' = [task EXCEPT ![t] = [@ EXCEPT !.status = "RETRY_WAIT", !.reserved = 0]]
          /\ queue' = [queue EXCEPT ![t] = Requeued]
       \/ /\ task[t].status = "SUBMITTING"
          /\ task[t].upstreamId = 0
          /\ task' = [task EXCEPT ![t] = [@ EXCEPT !.status = "FAILED", !.reserved = 0]]
          /\ queue' = [queue EXCEPT ![t] = Finished]
    /\ account' = [account EXCEPT ![a] = Released(@, task[t].reserved)]
    /\ ReleaseSlot(a)
    /\ UNCHANGED <<handler, poll, generation>>

-----------------------------------------------------------------------------
(* Syncer.                                                                 *)

SyncDue(t) ==
    LET a == task[t].account IN
    /\ task[t].status \in Upstream
    /\ task[t].nextSync
    /\ task[t].syncOwner = Nobody \/ ~task[t].syncLive
    /\ account[a].status # "PAUSED" /\ ~account[a].unauthorized

\* One batch at a time: syncer_loop gathers a batch before it claims again.
ClaimSyncBatch(y, batch) ==
    /\ \A t \in Task : poll[y][t].pc = "idle"
    /\ batch # {}
    /\ \A t \in batch : SyncDue(t)
    /\ task' = [t \in Task |-> IF t \in batch
                                 THEN [task[t] EXCEPT !.syncOwner = y, !.syncLive = TRUE]
                                 ELSE task[t]]
    /\ poll' = [poll EXCEPT ![y] = [t \in Task |->
                  IF t \in batch THEN [pc |-> "claimed", tracked |-> 0] ELSE NoPoll]]
    /\ UNCHANGED <<queue, account, slots, handler, generation>>

LoadSyncItem(y, t) ==
    /\ poll[y][t].pc = "claimed"
    /\ task[t].syncOwner = y
    /\ task[t].status \in Upstream
    /\ poll' = [poll EXCEPT ![y][t] =
                  [pc |-> "polling", tracked |-> task[t].upstreamId]]
    /\ UNCHANGED <<task, queue, account, slots, handler, generation>>

EndPoll(y, t) == poll' = [poll EXCEPT ![y][t] = NoPoll]

\* Mutant of SyncReleased: the lease is ended but its owner is not cleared.
SyncExpired(row) == [row EXCEPT !.syncLive = FALSE]

SyncReleased(row) == [row EXCEPT !.syncOwner = Nobody, !.syncLive = FALSE]

\* The fence of apply_poll_result.
ResultApplies(y, t) ==
    /\ poll[y][t].pc = "polling"
    /\ task[t].syncOwner = y
    /\ task[t].status \in Upstream

\* A result, or an error, of a syncer that has lost its lease is dropped.
PollDropped(y, t) ==
    /\ poll[y][t].pc # "idle"
    /\ task[t].syncOwner # y
    /\ EndPoll(y, t)
    /\ UNCHANGED <<task, queue, account, slots, handler, generation>>

PollStillRunning(y, t, status) ==
    /\ ResultApplies(y, t)
    /\ task' = [task EXCEPT ![t] = [SyncReleased(@) EXCEPT !.status = status]]
    /\ EndPoll(y, t)
    /\ UNCHANGED <<queue, account, slots, handler, generation>>

\* The slot and the reservation go back; a completed task may leave the
\* account below the threshold.
PollCompleted(y, t, low) ==
    LET a == task[t].account
        status == IF low /\ account[a].status # "MANUAL_DISABLED"
                  THEN "PARKED" ELSE account[a].status
    IN
    /\ ResultApplies(y, t)
    /\ task' = [task EXCEPT ![t] =
                  [SyncReleased(@) EXCEPT !.status = "COMPLETED", !.nextSync = FALSE]]
    /\ account' = [account EXCEPT ![a] =
                     [Released(@, task[t].reserved) EXCEPT !.status = status]]
    /\ ReleaseSlot(a)
    /\ EndPoll(y, t)
    /\ UNCHANGED <<queue, handler, generation>>

\* Mutants of PollRetried: the retry keeps the id of the failed generation,
\* or leaves the task scheduled for polling.
PollRetriedKeeps(y, t, code, id, next) ==
    LET a == task[t].account IN
    /\ ResultApplies(y, t)
    /\ task[t].retries[code] < RetryLimit[code]
    /\ task' = [task EXCEPT ![t] =
                  [SyncReleased(@) EXCEPT !.status = "RETRY_WAIT", !.reserved = 0,
                                          !.upstreamId = id, !.nextSync = next,
                                          !.retries[code] = task[t].retries[code] + 1]]
    /\ queue' = [queue EXCEPT ![t] = Requeued]
    /\ account' = [account EXCEPT ![a] = Released(@, task[t].reserved)]
    /\ ReleaseSlot(a)
    /\ EndPoll(y, t)
    /\ UNCHANGED <<handler, generation>>

PollRetriedKeepsId(y, t, code) == PollRetriedKeeps(y, t, code, task[t].upstreamId, FALSE)

PollRetriedScheduled(y, t, code) == PollRetriedKeeps(y, t, code, 0, TRUE)

\* A failure the provider may not repeat: once per code the task goes back
\* to the queue, its generation forgotten.
PollRetried(y, t, code) ==
    LET a == task[t].account IN
    /\ ResultApplies(y, t)
    /\ task[t].retries[code] < RetryLimit[code]
    /\ task' = [task EXCEPT ![t] =
                  [SyncReleased(@) EXCEPT !.status = "RETRY_WAIT", !.reserved = 0,
                                          !.upstreamId = 0, !.nextSync = FALSE,
                                          !.retries[code] = task[t].retries[code] + 1]]
    /\ queue' = [queue EXCEPT ![t] = Requeued]
    /\ account' = [account EXCEPT ![a] = Released(@, task[t].reserved)]
    /\ ReleaseSlot(a)
    /\ EndPoll(y, t)
    /\ UNCHANGED <<handler, generation>>

\* `code` is a retryable failure whose limit is used up, or any other one.
PollFailed(y, t, code) ==
    LET a == task[t].account IN
    /\ ResultApplies(y, t)
    /\ code \in DOMAIN RetryLimit => task[t].retries[code] >= RetryLimit[code]
    /\ task' = [task EXCEPT ![t] =
                  [SyncReleased(@) EXCEPT !.status = "FAILED", !.nextSync = FALSE]]
    /\ account' = [account EXCEPT ![a] = Released(@, task[t].reserved)]
    /\ ReleaseSlot(a)
    /\ EndPoll(y, t)
    /\ UNCHANGED <<queue, handler, generation>>

\* apply_poll_error: fenced by the lease owner alone, not by the status.
ApplyPollError(y, t, code) ==
    LET a == task[t].account
        paused == IF account[a].status = "MANUAL_DISABLED" THEN "MANUAL_DISABLED" ELSE "PAUSED"
    IN
    /\ \/ poll[y][t].pc = "polling"
       \/ /\ poll[y][t].pc = "claimed"   \* load_sync_item found no credential
          /\ code = "TRANSIENT"
    /\ task[t].syncOwner = y
    /\ task' = [task EXCEPT ![t] = [SyncReleased(@) EXCEPT !.nextSync = TRUE]]
    /\ CASE code = "ACCOUNT_SUSPENDED" ->
              account' = [account EXCEPT ![a] =
                            [@ EXCEPT !.status = "MANUAL_DISABLED", !.unauthorized = FALSE]]
         [] code = "UPSTREAM_UNAUTHORIZED" ->
              account' = [account EXCEPT ![a] =
                            [@ EXCEPT !.status = paused, !.unauthorized = TRUE]]
         [] OTHER -> UNCHANGED account
    /\ EndPoll(y, t)
    /\ UNCHANGED <<queue, slots, handler, generation>>

SyncLeaseRunsOut(t) ==
    /\ task[t].syncOwner # Nobody /\ task[t].syncLive
    /\ task' = [task EXCEPT ![t].syncLive = FALSE]
    /\ UNCHANGED <<queue, account, slots, handler, poll, generation>>

SyncerCrash(y) ==
    /\ \E t \in Task : poll[y][t].pc # "idle"
    /\ poll' = [poll EXCEPT ![y] = [t \in Task |-> NoPoll]]
    /\ UNCHANGED <<task, queue, account, slots, handler, generation>>

\* Mutants of FailTimedOut: the sync lease survives the task, or the scan
\* passes over tasks that a syncer has leased.
FailTimedOutLeased(t) ==
    LET a == task[t].account IN
    /\ task[t].status = "RUNNING"
    /\ task' = [task EXCEPT ![t] = [@ EXCEPT !.status = "FAILED", !.nextSync = FALSE]]
    /\ account' = [account EXCEPT ![a] = Released(@, task[t].reserved)]
    /\ ReleaseSlot(a)
    /\ UNCHANGED <<queue, handler, poll, generation>>

FailTimedOutUnleased(t) ==
    /\ task[t].syncOwner = Nobody
    /\ FailTimedOutLeased(t)

\* fail_timed_out_tasks, for one of the rows it selects.
FailTimedOut(t) ==
    LET a == task[t].account IN
    /\ task[t].status = "RUNNING"
    /\ task' = [task EXCEPT ![t] =
                  [SyncReleased(@) EXCEPT !.status = "FAILED", !.nextSync = FALSE]]
    /\ account' = [account EXCEPT ![a] = Released(@, task[t].reserved)]
    /\ ReleaseSlot(a)
    /\ UNCHANGED <<queue, handler, poll, generation>>

-----------------------------------------------------------------------------
(* The rest of the account pool: the operator's requests, token reports,   *)
(* guards, validation and renewal, by what they do to the columns above.   *)

\* patch_account with MANUAL_DISABLED, or the quarantine of a failing login.
ManualDisable(a) ==
    /\ account' = [account EXCEPT ![a].status = "MANUAL_DISABLED"]
    /\ UNCHANGED <<task, queue, slots, handler, poll, generation>>

\* patch_account with ACTIVE, whatever the status was.
ManualEnable(a) ==
    /\ account' = [account EXCEPT ![a].status = "PAUSED"]
    /\ UNCHANGED <<task, queue, slots, handler, poll, generation>>

\* A new token waits for its validation; a disabled account stays disabled.
TokenReported(a) ==
    /\ Refreshed(a, IF account[a].status = "MANUAL_DISABLED"
                    THEN "MANUAL_DISABLED" ELSE "PAUSED", FALSE)
    /\ UNCHANGED <<task, queue, slots, handler, poll, generation>>

EnforceAccountGuard(a, status) ==
    /\ account[a].status # "MANUAL_DISABLED"
    /\ status \in {"PARKED", "PAUSED"}
    /\ account' = [account EXCEPT ![a].status = status]
    /\ UNCHANGED <<task, queue, slots, handler, poll, generation>>

\* What a call with the account's token may say of the token.
Answers == IF "UPSTREAM_UNAUTHORIZED" \in Errors THEN BOOLEAN ELSE {FALSE}

\* validate_account, or a renewal: only a serving account is surely cleared
\* of its last error, and only a rejected one gets a new one.
AccountValidated(a, status, unauthorized) ==
    /\ account[a].status # "MANUAL_DISABLED"
    /\ \/ status = "ACTIVE" /\ ~unauthorized
       \/ status = "PARKED" /\ (unauthorized => account[a].unauthorized)
       \/ status = "PAUSED"
    /\ Refreshed(a, status, unauthorized)
    /\ UNCHANGED <<task, queue, slots, handler, poll, generation>>

\* refresh_account_balance: a balance, or a failure that leaves the status;
\* a rejected credential expires even a disabled account.
RefreshBalance(a, status, unauthorized) ==
    /\ \/ status = "PAUSED"
       \/ /\ status = "MANUAL_DISABLED" <=> account[a].status = "MANUAL_DISABLED"
          /\ ~unauthorized
    /\ Refreshed(a, status, unauthorized)
    /\ UNCHANGED <<task, queue, slots, handler, poll, generation>>

-----------------------------------------------------------------------------

WorkerStep(t, n) ==
    \/ PreSubmitRefresh(t, n)
    \/ MarkSubmissionReady(t, n)
    \/ \E code \in Errors : UpstreamRaises(t, n, code)
    \/ \E cost \in ApiCost : GenerateAccepted(t, n, cost)
    \/ GenerateAnswerLost(t, n)
    \/ FinishSubmitSuccess(t, n)
    \/ FinishSubmitFailure(t, n)
    \/ FinishAborts(t, n)
    \/ RenewalEnds(t, n)

SyncerStep(y, t) ==
    \/ LoadSyncItem(y, t)
    \/ PollDropped(y, t)
    \/ PollStillRunning(y, t, "RUNNING")
    \/ PollStillRunning(y, t, task[t].status)
    \/ \E low \in BOOLEAN : PollCompleted(y, t, low)
    \/ \E code \in DOMAIN RetryLimit : PollRetried(y, t, code)
    \/ \E code \in DOMAIN RetryLimit \cup {"UPSTREAM_GENERATION_FAILED"} :
         PollFailed(y, t, code)
    \/ \E code \in Errors \cap {"TRANSIENT", "UPSTREAM_UNAUTHORIZED",
                                "ACCOUNT_SUSPENDED"} : ApplyPollError(y, t, code)

LeaseStep(t) ==
    \/ LeaseRunsOut(t)
    \/ RenewLease(t)
    \/ RecoverExpiredLease(t)
    \/ SyncLeaseRunsOut(t)
    \/ FailTimedOut(t)

AccountStep(a) ==
    \/ ManualDisable(a)
    \/ ManualEnable(a)
    \/ TokenReported(a)
    \/ \E status \in {"PARKED", "PAUSED"} : EnforceAccountGuard(a, status)
    \/ \E status \in AccountStatus, unauthorized \in Answers :
         \/ AccountValidated(a, status, unauthorized)
         \/ RefreshBalance(a, status, unauthorized)

Next ==
    \/ \E t \in Task : CreateTask(t) \/ CancelTask(t) \/ LeaseStep(t)
    \/ \E w \in Worker, t \in Task :
         ClaimFindsNoAccount(w, t) \/ \E a \in Account : ClaimAndAssign(w, t, a)
    \/ \E t \in Task, n \in Attempt : WorkerStep(t, n)
    \/ \E w \in Worker : WorkerCrash(w)
    \/ \E y \in Syncer, batch \in SUBSET Task : ClaimSyncBatch(y, batch)
    \/ \E y \in Syncer, t \in Task : SyncerStep(y, t)
    \/ \E y \in Syncer : SyncerCrash(y)
    \/ \E a \in Account : AccountStep(a)

Spec == Init /\ [][Next]_vars
-----------------------------------------------------------------------------
(* Properties.                                                             *)

TypeOK ==
    /\ task \in [Task -> TaskRow]
    /\ queue \in [Task -> QueueRow]
    /\ account \in [Account -> AccountRow]
    /\ slots \in [Space -> Nat]
    /\ handler \in [Task -> [Attempt -> HandlerRow]]
    /\ poll \in [Syncer -> [Task -> PollRow]]
    /\ generation \in [Task -> [Attempt -> Account \cup {Nobody}]]

Agree(status, row) ==
    /\ row.status = "LEASED" <=> status \in InFlight
    /\ row.status \in {"READY", "RETRY_WAIT"} <=> status \in Waiting
    /\ row.status = "LEASED" <=> row.owner # Nobody
    /\ row.live => row.status = "LEASED"

(* The queue row and the task row are written by different transactions of *)
(* seven functions and always tell the same story: a task is leased exactly *)
(* while it is in flight, and selectable exactly while it waits.           *)
QueueTaskAgree == \A t \in Task : Agree(task[t].status, queue[t])

\* Tasks that hold a slot of their account and of its space.
Holders(a) == {t \in Task : task[t].status \in InFlight \cup Upstream /\ task[t].account = a}

(* Account.active_tasks and Space.active_tasks, maintained by increments   *)
(* and floored decrements in eight transactions of two programs, count the *)
(* tasks that hold a slot.                                                 *)
SlotsConserved ==
    /\ \A a \in Account : account[a].active = Cardinality(Holders(a))
    /\ \A s \in Space :
         slots[s] = SumFunctionOnSet([a \in Account |-> Cardinality(Holders(a))],
                                     {a \in Account : SpaceOf[a] = s})

(* Account.reserved_credits is the sum of what its tasks reserve, although *)
(* the reservation changes when the provider reports another cost.         *)
ReservationsConserved ==
    \A a \in Account :
      account[a].reserved = SumFunctionOnSet([t \in Task |-> task[t].reserved], Holders(a))

(* What an attempt takes is given back once: no slot and no credit leaks.  *)
ResourcesConserved == SlotsConserved /\ ReservationsConserved

(* No account or space carries more tasks than its concurrency allows,     *)
(* counted on the tasks themselves and not on the counters.                *)
WithinCapacity ==
    /\ \A a \in Account : Cardinality(Holders(a)) <= AccountCapacity
    /\ \A s \in Space :
         Cardinality({t \in Task : \E a \in Account : SpaceOf[a] = s /\ t \in Holders(a)})
           <= SpaceCapacity

(* While leases outlive their handlers' pauses, a running handler is the   *)
(* current attempt of its task, drives it under a live lease of its own    *)
(* process, and names the account the task is charged to.                  *)
HandlerOwnsTask ==
    \A t \in Task, n \in Attempt :
      LET h == handler[t][n] IN
      h.pc # "idle" =>
        /\ task[t].attempts = n
        /\ queue[t].status = "LEASED" /\ queue[t].live
        /\ queue[t].owner = h.worker
        /\ task[t].account = h.account
        /\ h.pc = "validate" => task[t].status = FirstStatus(t)
        /\ h.pc = "media" => task[t].status = "RESOLVING_MEDIA"
        /\ h.pc \in {"submit", "accepted"} => task[t].status = "SUBMITTING"

(* recover_expired_leases is documented to take over "without risking an   *)
(* upstream double submit": no two attempts of a task are ever between     *)
(* their decision to submit and the end of their submission.               *)
NoConcurrentSubmit ==
    \A t \in Task, m, n \in Attempt :
      /\ handler[t][m].pc \in {"submit", "accepted"}
      /\ handler[t][n].pc \in {"submit", "accepted"}
      => m = n

(* A poll whose lease still protects it has read the generation the task   *)
(* tracks now: a late answer about a forgotten generation is never applied *)
(* to the generation that replaced it.                                     *)
PollTracksGeneration ==
    \A y \in Syncer, t \in Task :
      poll[y][t].pc # "idle" /\ task[t].syncOwner = y =>
        /\ task[t].status \in Upstream
        /\ poll[y][t].pc = "polling" => poll[y][t].tracked = task[t].upstreamId

(* A task the provider works on is polled, and later settled, under the    *)
(* account that submitted it; a task that waits or is being submitted      *)
(* tracks no generation, so that a lease lost in SUBMITTING is always      *)
(* recovered.                                                              *)
TracksAcceptedGeneration ==
    \A t \in Task :
      /\ task[t].status \in Upstream =>
           /\ task[t].upstreamId # 0
           /\ generation[t][task[t].upstreamId] = task[t].account
      /\ task[t].status \in Waiting \cup InFlight => task[t].upstreamId = 0

(* Only a task the provider works on is scheduled for polling or leased by *)
(* a syncer, and every such task is scheduled.                             *)
SyncScheduleAgrees ==
    \A t \in Task :
      /\ task[t].nextSync <=> task[t].status \in Upstream
      /\ task[t].syncOwner # Nobody => task[t].status \in Upstream

(* A finished task stays as it is: no late handler, poll, poll error or    *)
(* lease recovery reopens, reschedules or relabels it.                     *)
TerminalFrozen ==
    [][\A t \in Task : task[t].status \in Terminal =>
         task'[t] = task[t] /\ queue'[t] = queue[t]]_vars

(* An attempt whose media are still being resolved has submitted nothing,  *)
(* and a later attempt has not begun: what recovery relies on.             *)
ResolvingBeforeSubmit ==
    \A t \in Task :
      /\ task[t].status \in InFlight => task[t].attempts \in Attempt
      /\ task[t].status = "RESOLVING_MEDIA" =>
           /\ t \in Typed
           /\ generation[t][task[t].attempts] = Nobody
           /\ handler[t][task[t].attempts].pc \notin {"submit", "accepted"}
      /\ \A n \in Attempt : n > task[t].attempts =>
           generation[t][n] = Nobody /\ handler[t][n].pc = "idle"

(* A lease whose handler died is recovered without a second submission of  *)
(* what the provider already accepted: only an attempt that never reached  *)
(* Generate goes back to the queue.                                        *)
RecoveryNeverResubmits ==
    [][\A t \in Task :
         /\ task[t].status \in InFlight
         /\ task'[t].status = "RETRY_WAIT"
         /\ handler' = handler
         => generation[t][task[t].attempts] = Nobody]_vars

(* submit_retry_delay_seconds retries a "pre-generation submission         *)
(* failure": an attempt the worker requeues was not accepted upstream.     *)
RetriesArePreGeneration ==
    [][\A t \in Task :
         task[t].status \in InFlight /\ task'[t].status = "RETRY_WAIT"
         => generation[t][task[t].attempts] = Nobody]_vars

(* "MANUAL_DISABLED isolation": a disabled account returns to the pool, or  *)
(* to the automatic repair of expired tokens, only by an operator's request. *)
ManualDisableKept ==
    [][\A a \in Account :
         account[a].status = "MANUAL_DISABLED" /\ account'[a].status # "MANUAL_DISABLED"
         => \/ ManualEnable(a)
            \/ \E unauthorized \in BOOLEAN : RefreshBalance(a, "PAUSED", unauthorized)]_vars

-----------------------------------------------------------------------------
(* Fairness: worker_loop and syncer_loop poll forever, coroutines are      *)
(* scheduled, upstream calls have timeouts, leases run out and the         *)
(* recovery and timeout scans repeat.  Nothing obliges a client, an        *)
(* operator or a crash to act, nor the provider to finish a generation.    *)

Fairness ==
    /\ \A t \in Task, n \in Attempt : WF_vars(WorkerStep(t, n))
    /\ \A t \in Task : WF_vars(LeaseRunsOut(t)) /\ WF_vars(RecoverExpiredLease(t))
    /\ \A t \in Task : WF_vars(SyncLeaseRunsOut(t)) /\ WF_vars(FailTimedOut(t))
    /\ \A y \in Syncer, t \in Task : WF_vars(SyncerStep(y, t))

FairSpec == Spec /\ Fairness

(* However its worker fares, a leased task leaves the lease: it is         *)
(* submitted, requeued or failed.                                          *)
LeaseEnds == \A t \in Task : queue[t].status = "LEASED" ~> queue[t].status # "LEASED"

(* recover_expired_leases recovers "abandoned queue leases": a leased task *)
(* without a handler that could still finish it is eventually recovered.   *)
AbandonedLeaseRecovered ==
    \A t \in Task :
      /\ queue[t].status = "LEASED"
      /\ \A n \in Attempt : handler[t][n].pc \in {"idle", "orphaned"}
      ~> queue[t].status # "LEASED"

(* A task the provider reported as running does not run for ever.          *)
RunningEnds == \A t \in Task : task[t].status = "RUNNING" ~> task[t].status # "RUNNING"

(* Neither a lease nor a running generation holds a task for ever.         *)
TasksMoveOn == LeaseEnds /\ RunningEnds
=============================================================================
