------------------------ MODULE TaskLifecycleProofs -------------------------
(***************************************************************************)
(* Theorems about TaskLifecycle, for every number of tasks, accounts,      *)
(* workers, syncers and attempts, every capacity and every retry limit.    *)
(* First rows, schedules, sync leases, polls and the finality of finished  *)
(* tasks, whatever happens to worker leases; then the attempts of workers, *)
(* some of which rely on leases that are not overrun, and say so.          *)
(***************************************************************************)
EXTENDS TaskLifecycle, TLAPS

(* A function stays in its type when one place gets a value of the type. *)
LEMMA Updated ==
    ASSUME NEW S, NEW T, NEW f \in [S -> T], NEW x, NEW v, x \in S => v \in T
    PROVE  [f EXCEPT ![x] = v] \in [S -> T]
  OBVIOUS

(* A floored decrement is a natural number. *)
LEMMA MinusNat ==
    /\ \A v, c \in Nat : Minus(v, c) \in Nat
    /\ \A v \in Int : Minus(v, 0) \in Nat
  BY DEF Minus

LEMMA ReleasedType ==
    ASSUME NEW r \in AccountRow, NEW c \in Nat
    PROVE  Released(r, c) \in AccountRow
<1> DEFINE n == Minus(r.active, 1)
           d == Minus(r.reserved, c)
<1>1. r.active \in Nat /\ r.reserved \in Nat
  BY DEF AccountRow
<1>2. n \in Nat /\ d \in Nat
  BY <1>1, MinusNat
<1>3. Released(r, c) = [r EXCEPT !.active = n, !.reserved = d]
  BY DEF Released
<1> HIDE DEF n, d
<1>4. [r EXCEPT !.active = n, !.reserved = d] \in AccountRow
  BY <1>2 DEF AccountRow
<1> QED BY <1>3, <1>4

LEMMA ChargedType ==
    ASSUME NEW r \in AccountRow, NEW c \in Nat
    PROVE  Charged(r, c) \in AccountRow
<1> DEFINE n == r.active + 1
           d == r.reserved + c
<1>1. n \in Nat /\ d \in Nat
  BY DEF AccountRow
<1>2. Charged(r, c) = [r EXCEPT !.active = n, !.reserved = d]
  BY DEF Charged
<1> HIDE DEF n, d
<1>3. [r EXCEPT !.active = n, !.reserved = d] \in AccountRow
  BY <1>1 DEF AccountRow
<1> QED BY <1>2, <1>3

LEMMA AccountTypes ==
    ASSUME NEW r \in AccountRow
    PROVE  /\ \A s \in AccountStatus : [r EXCEPT !.status = s] \in AccountRow
           /\ \A c \in Nat : [r EXCEPT !.reserved = c] \in AccountRow
           /\ \A s \in AccountStatus, b \in BOOLEAN :
                [r EXCEPT !.status = s, !.unauthorized = b] \in AccountRow
           /\ \A n, c \in Nat : [r EXCEPT !.active = n, !.reserved = c] \in AccountRow
  BY DEF AccountRow, AccountStatus

LEMMA TaskTypes ==
    ASSUME NEW r \in TaskRow
    PROVE  /\ SyncReleased(r) \in TaskRow
           /\ \A s \in Status : [r EXCEPT !.status = s] \in TaskRow
           /\ \A b \in BOOLEAN : [r EXCEPT !.nextSync = b] \in TaskRow
           /\ \A s \in Status, b \in BOOLEAN :
                [r EXCEPT !.status = s, !.nextSync = b] \in TaskRow
           /\ \A s \in Status, c \in Nat :
                [r EXCEPT !.status = s, !.reserved = c] \in TaskRow
           /\ \A y \in Syncer :
                [r EXCEPT !.syncOwner = y, !.syncLive = TRUE] \in TaskRow
  BY DEF TaskRow, SyncReleased

LEMMA AssignedTaskType ==
    ASSUME NEW r \in TaskRow, NEW s \in Status, NEW a \in Account, NEW c \in Nat,
           NEW n \in 0 .. MaxAttempts
    PROVE  [r EXCEPT !.status = s, !.account = a, !.reserved = c, !.attempts = n] \in TaskRow
  BY DEF TaskRow

LEMMA SubmittedTaskType ==
    ASSUME NEW r \in TaskRow, NEW s \in Status, NEW c \in Nat, NEW n \in 0 .. MaxAttempts,
           NEW b \in BOOLEAN
    PROVE  [r EXCEPT !.status = s, !.reserved = c, !.upstreamId = n, !.nextSync = b] \in TaskRow
  BY DEF TaskRow

LEMMA QueueTypes ==
    /\ \A r \in QueueRow : [r EXCEPT !.status = "READY"] \in QueueRow
    /\ \A r \in QueueRow, b \in BOOLEAN : [r EXCEPT !.live = b] \in QueueRow
    /\ Requeued \in QueueRow /\ Finished \in QueueRow
  BY DEF QueueRow, Requeued, Finished

LEMMA HandlerTypes ==
    ASSUME NEW h \in HandlerRow
    PROVE  /\ \A p \in {"media", "submit", "orphaned"} : [h EXCEPT !.pc = p] \in HandlerRow
           /\ \A e \in ErrorCode : [h EXCEPT !.pc = "failing", !.error = e] \in HandlerRow
           /\ \A c \in Nat : [h EXCEPT !.pc = "accepted", !.cost = c] \in HandlerRow
           /\ NoHandler \in HandlerRow
  BY DEF HandlerRow, NoHandler

LEMMA PollTypes ==
    ASSUME NEW n \in 0 .. MaxAttempts, NEW p \in {"idle", "claimed", "polling"}
    PROVE  [pc |-> p, tracked |-> n] \in PollRow
  BY DEF PollRow

LEMMA AttemptType == Attempt \subseteq 0 .. MaxAttempts /\ 0 \in 0 .. MaxAttempts
  BY BudgetAssumption DEF Attempt

-----------------------------------------------------------------------------
(* Type correctness, action by action.                                     *)

LEMMA InitTypeOK == Init => TypeOK
<1> SUFFICES ASSUME Init PROVE TypeOK
  OBVIOUS
<1>1. task \in [Task -> TaskRow]
  BY AttemptType, BudgetAssumption DEF Init, TaskRow, Status
<1>2. account \in [Account -> AccountRow]
  BY DEF Init, AccountRow, AccountStatus
<1>3. handler \in [Task -> [Attempt -> HandlerRow]]
  BY DEF Init, HandlerRow, NoHandler
<1>4. poll \in [Syncer -> [Task -> PollRow]]
  BY AttemptType DEF Init, PollRow, NoPoll
<1> QED BY <1>1, <1>2, <1>3, <1>4 DEF Init, TypeOK, QueueRow

LEMMA ReleaseSlotType ==
    ASSUME TypeOK, NEW a, ReleaseSlot(a)
    PROVE  slots' \in [Space -> Nat]
<1>1. SpaceOf[a] \in Space => Minus(slots[SpaceOf[a]], 1) \in Nat
  BY MinusNat DEF TypeOK
<1> QED BY <1>1, Updated DEF TypeOK, ReleaseSlot

LEMMA EndPollType ==
    ASSUME TypeOK, NEW y \in Syncer, NEW t \in Task, EndPoll(y, t)
    PROVE  poll' \in [Syncer -> [Task -> PollRow]]
  BY PollTypes, AttemptType DEF TypeOK, EndPoll, NoPoll

(* A handler row is replaced by one of its type. *)
LEMMA HandlerUpdated ==
    ASSUME TypeOK, NEW t \in Task, NEW n \in Attempt, NEW h \in HandlerRow,
           handler' = [handler EXCEPT ![t][n] = h]
    PROVE  handler' \in [Task -> [Attempt -> HandlerRow]]
  BY DEF TypeOK

LEMMA FailType ==
    ASSUME TypeOK, NEW t \in Task, NEW n \in Attempt, NEW code \in ErrorCode, Fail(t, n, code)
    PROVE  handler' \in [Task -> [Attempt -> HandlerRow]]
<1>1. handler[t][n] \in HandlerRow
  BY DEF TypeOK
<1>2. [handler[t][n] EXCEPT !.pc = "failing", !.error = code] \in HandlerRow
  BY <1>1, HandlerTypes
<1> QED BY <1>2, HandlerUpdated DEF Fail

LEMMA GotoType ==
    ASSUME TypeOK, NEW t \in Task, NEW n \in Attempt,
           NEW p \in {"media", "submit", "orphaned"}, Goto(t, n, p)
    PROVE  handler' \in [Task -> [Attempt -> HandlerRow]]
<1>1. handler[t][n] \in HandlerRow
  BY DEF TypeOK
<1>2. [handler[t][n] EXCEPT !.pc = p] \in HandlerRow
  BY <1>1, HandlerTypes
<1> QED BY <1>2, HandlerUpdated DEF Goto

LEMMA RefreshedType ==
    ASSUME TypeOK, NEW a, NEW s \in AccountStatus, NEW b \in BOOLEAN, Refreshed(a, s, b)
    PROVE  account' \in [Account -> AccountRow]
<1>1. a \in Account => [account[a] EXCEPT !.status = s, !.unauthorized = b] \in AccountRow
  BY AccountTypes DEF TypeOK
<1> QED BY <1>1, Updated DEF TypeOK, Refreshed

LEMMA ApiTypeOK ==
    ASSUME TypeOK, NEW t \in Task, CreateTask(t) \/ CancelTask(t)
    PROVE  TypeOK'
<1>1. task[t] \in TaskRow /\ queue[t] \in QueueRow
  BY DEF TypeOK
<1>2. /\ [task[t] EXCEPT !.status = "QUEUED"] \in TaskRow
      /\ [task[t] EXCEPT !.status = "CANCELED"] \in TaskRow
  <2>1. "QUEUED" \in Status /\ "CANCELED" \in Status
    BY DEF Status, Waiting, Terminal
  <2> QED BY <1>1, <2>1, TaskTypes
<1>3. [queue[t] EXCEPT !.status = "READY"] \in QueueRow /\ Finished \in QueueRow
  BY <1>1, QueueTypes
<1>4. CASE CreateTask(t)
  BY <1>2, <1>3, <1>4, Updated DEF TypeOK, CreateTask
<1>5. CASE CancelTask(t)
  BY <1>2, <1>3, <1>5, Updated DEF TypeOK, CancelTask
<1> QED BY <1>4, <1>5

LEMMA ClaimTypeOK ==
    ASSUME TypeOK, NEW w \in Worker, NEW t \in Task, NEW a \in Account,
           ClaimAndAssign(w, t, a)
    PROVE  TypeOK'
<1> DEFINE n == task[t].attempts + 1
           status == FirstStatus(t)
           row == [task[t] EXCEPT !.status = status, !.account = a,
                                  !.reserved = Estimate, !.attempts = n]
           started == [pc |-> "validate", worker |-> w, account |-> a,
                       cost |-> Estimate, error |-> "none"]
<1>1. task[t] \in TaskRow /\ account[a] \in AccountRow
  BY DEF TypeOK
<1>2. n \in Attempt /\ status \in Status
  BY DEF ClaimAndAssign, FirstStatus, Status, InFlight
<1>3. task' \in [Task -> TaskRow]
  <2>1. task' = [task EXCEPT ![t] = row]
    BY DEF ClaimAndAssign
  <2> HIDE DEF n, status
  <2>2. row \in TaskRow
    BY <1>1, <1>2, AssignedTaskType, AttemptType, CostAssumption
  <2> HIDE DEF row
  <2> QED BY <2>1, <2>2, Updated DEF TypeOK
<1>4. account' \in [Account -> AccountRow]
  BY <1>1, ChargedType, CostAssumption, Updated DEF TypeOK, ClaimAndAssign
<1>5. handler' \in [Task -> [Attempt -> HandlerRow]]
  <2>1. handler' = [handler EXCEPT ![t][n] = started]
    BY DEF ClaimAndAssign
  <2>2. started \in HandlerRow
    BY CostAssumption DEF HandlerRow
  <2> HIDE DEF n, started
  <2> QED BY <1>2, <2>1, <2>2, HandlerUpdated
<1>6. queue' \in [Task -> QueueRow]
  <2>1. [status |-> "LEASED", owner |-> w, live |-> TRUE] \in QueueRow
    BY DEF QueueRow
  <2> QED BY <2>1, Updated DEF TypeOK, ClaimAndAssign
<1>7. slots' \in [Space -> Nat]
  <2>1. slots[SpaceOf[a]] + 1 \in Nat
    BY RowAssumption DEF TypeOK
  <2>2. slots' = [slots EXCEPT ![SpaceOf[a]] = slots[SpaceOf[a]] + 1]
    BY DEF ClaimAndAssign
  <2> QED BY <2>1, <2>2, Updated DEF TypeOK
<1> QED BY <1>3, <1>4, <1>5, <1>6, <1>7 DEF TypeOK, ClaimAndAssign

LEMMA NoAccountTypeOK ==
    ASSUME TypeOK, NEW w \in Worker, NEW t \in Task, ClaimFindsNoAccount(w, t)
    PROVE  TypeOK'
<1>1. [task[t] EXCEPT !.status = "WAITING_ACCOUNT"] \in TaskRow
  <2>1. task[t] \in TaskRow /\ "WAITING_ACCOUNT" \in Status
    BY DEF TypeOK, Status, Waiting
  <2> QED BY <2>1, TaskTypes
<1>2. Requeued \in QueueRow
  BY QueueTypes DEF QueueRow, Requeued
<1> QED BY <1>1, <1>2, Updated DEF TypeOK, ClaimFindsNoAccount

LEMMA RefreshTypeOK ==
    ASSUME TypeOK, NEW t \in Task, NEW n \in Attempt, PreSubmitRefresh(t, n)
    PROVE  TypeOK'
<1> DEFINE h == handler[t][n]
           Gone == Fail(t, n, "TRANSIENT") /\ UNCHANGED account
           Passed(s) == Refreshed(h.account, s, FALSE) /\ Goto(t, n, AfterRefresh(t))
           Stopped(s, b, code) == Refreshed(h.account, s, b) /\ Fail(t, n, code)
<1>1. UNCHANGED <<task, queue, slots, poll, generation>>
  BY DEF PreSubmitRefresh
<1>2. \/ Gone
      \/ Passed("ACTIVE")
      \/ \E code \in ErrorCode, s \in AccountStatus, b \in BOOLEAN : Stopped(s, b, code)
  BY RowAssumption DEF PreSubmitRefresh, AccountStatus
<1>3. CASE Gone
  BY <1>1, <1>3, FailType DEF TypeOK, ErrorCode
<1>4. CASE Passed("ACTIVE")
  <2>1. AfterRefresh(t) \in {"media", "submit", "orphaned"}
    BY DEF AfterRefresh
  <2>2. handler' \in [Task -> [Attempt -> HandlerRow]]
    BY <1>4, <2>1, GotoType
  <2>3. account' \in [Account -> AccountRow]
    BY <1>4, RefreshedType DEF AccountStatus
  <2> QED BY <1>1, <2>2, <2>3 DEF TypeOK
<1>5. ASSUME NEW code \in ErrorCode, NEW s \in AccountStatus, NEW b \in BOOLEAN,
             Stopped(s, b, code)
      PROVE  TypeOK'
  <2>1. handler' \in [Task -> [Attempt -> HandlerRow]]
    BY <1>5, FailType
  <2>2. account' \in [Account -> AccountRow]
    BY <1>5, RefreshedType
  <2> QED BY <1>1, <2>1, <2>2 DEF TypeOK
<1> QED BY <1>2, <1>3, <1>4, <1>5, Zenon

LEMMA MediaTypeOK ==
    ASSUME TypeOK, NEW t \in Task, NEW n \in Attempt, MarkSubmissionReady(t, n)
    PROVE  TypeOK'
<1>1. CASE task' = [task EXCEPT ![t].status = "SUBMITTING"] /\ Goto(t, n, "submit")
  <2>1. [task[t] EXCEPT !.status = "SUBMITTING"] \in TaskRow
    <3>1. task[t] \in TaskRow /\ "SUBMITTING" \in Status
      BY DEF TypeOK, Status, InFlight
    <3> QED BY <3>1, TaskTypes
  <2>2. task' \in [Task -> TaskRow]
    BY <1>1, <2>1, Updated DEF TypeOK
  <2>3. handler' \in [Task -> [Attempt -> HandlerRow]]
    BY <1>1, GotoType
  <2> QED BY <2>2, <2>3 DEF TypeOK, MarkSubmissionReady
<1>2. CASE Fail(t, n, "TRANSIENT") /\ UNCHANGED task
  <2>1. handler' \in [Task -> [Attempt -> HandlerRow]]
    BY <1>2, FailType DEF ErrorCode
  <2> QED BY <1>2, <2>1 DEF TypeOK, MarkSubmissionReady
<1> QED BY <1>1, <1>2 DEF MarkSubmissionReady

LEMMA GenerateTypeOK ==
    ASSUME TypeOK, NEW t \in Task, NEW n \in Attempt,
           \/ \E code \in Errors : UpstreamRaises(t, n, code)
           \/ \E cost \in ApiCost : GenerateAccepted(t, n, cost)
           \/ GenerateAnswerLost(t, n)
    PROVE  TypeOK'
<1>1. handler[t][n] \in HandlerRow /\ handler[t][n].account \in Account \cup {Nobody}
  BY DEF TypeOK, HandlerRow
<1>2. CASE \E code \in Errors : UpstreamRaises(t, n, code)
  BY <1>2, FailType, RowAssumption DEF TypeOK, UpstreamRaises
<1>3. generation' = [generation EXCEPT ![t][n] = handler[t][n].account]
      => generation' \in [Task -> [Attempt -> Account \cup {Nobody}]]
  BY <1>1 DEF TypeOK
<1>4. ASSUME NEW cost \in ApiCost, GenerateAccepted(t, n, cost)
      PROVE  TypeOK'
  <2>1. [handler[t][n] EXCEPT !.pc = "accepted", !.cost = cost] \in HandlerRow
    BY <1>1, HandlerTypes, CostAssumption
  <2>2. handler' \in [Task -> [Attempt -> HandlerRow]]
    BY <1>4, <2>1, HandlerUpdated DEF GenerateAccepted
  <2> QED BY <1>3, <1>4, <2>2 DEF TypeOK, GenerateAccepted
<1>5. CASE GenerateAnswerLost(t, n)
  <2>1. handler' \in [Task -> [Attempt -> HandlerRow]]
    BY <1>5, FailType DEF GenerateAnswerLost, ErrorCode
  <2> QED BY <1>3, <1>5, <2>1 DEF TypeOK, GenerateAnswerLost
<1> QED BY <1>2, <1>4, <1>5

(* The handler of a finished or aborted attempt. *)
LEMMA NoHandlerType ==
    ASSUME TypeOK, NEW t \in Task, NEW n \in Attempt,
           handler' = [handler EXCEPT ![t][n] = NoHandler]
    PROVE  handler' \in [Task -> [Attempt -> HandlerRow]]
  BY HandlerUpdated DEF HandlerRow, NoHandler

LEMMA SuccessTypeOK ==
    ASSUME TypeOK, NEW t \in Task, NEW n \in Attempt, FinishSubmitSuccess(t, n)
    PROVE  TypeOK'
<1> DEFINE h == handler[t][n]
           a == h.account
           charge == Minus(account[a].reserved + (h.cost - task[t].reserved), 0)
           row == [task[t] EXCEPT !.status = "UPSTREAM_QUEUED", !.reserved = h.cost,
                                  !.upstreamId = n, !.nextSync = TRUE]
<1>1. handler' \in [Task -> [Attempt -> HandlerRow]]
  BY NoHandlerType DEF FinishSubmitSuccess
<1>2. CASE task[t].status = "SUBMITTING"
  <2>1. /\ task[t] \in TaskRow /\ h.cost \in Nat /\ task[t].reserved \in Nat
        /\ "UPSTREAM_QUEUED" \in Status
    BY DEF TypeOK, TaskRow, HandlerRow, Status, Upstream
  <2>2. task' \in [Task -> TaskRow]
    <3>1. row \in TaskRow
      BY <2>1, SubmittedTaskType, AttemptType
    <3>2. task' = [task EXCEPT ![t] = row]
      BY <1>2 DEF FinishSubmitSuccess
    <3> HIDE DEF row
    <3> QED BY <3>1, <3>2, Updated DEF TypeOK
  <2>3. account' \in [Account -> AccountRow]
    <3>1. a \in Account => charge \in Nat
      <4>1. a \in Account => account[a].reserved \in Nat
        BY DEF TypeOK, AccountRow
      <4>2. a \in Account => account[a].reserved + (h.cost - task[t].reserved) \in Int
        BY <2>1, <4>1
      <4> QED BY <4>2, MinusNat
    <3>2. account' = [account EXCEPT ![a].reserved = charge]
      BY <1>2 DEF FinishSubmitSuccess
    <3> HIDE DEF charge
    <3> DEFINE charged == [account[a] EXCEPT !.reserved = charge]
    <3>3. a \in Account => charged \in AccountRow
      BY <3>1, AccountTypes DEF TypeOK
    <3>4. account' = [account EXCEPT ![a] = charged]
      BY <3>2
    <3> HIDE DEF charged
    <3> QED BY <3>3, <3>4, Updated DEF TypeOK
  <2>4. queue' \in [Task -> QueueRow]
    BY <1>2, QueueTypes, Updated DEF TypeOK, FinishSubmitSuccess
  <2> QED BY <1>1, <2>2, <2>3, <2>4 DEF TypeOK, FinishSubmitSuccess
<1>3. CASE task[t].status # "SUBMITTING"
  BY <1>1, <1>3 DEF TypeOK, FinishSubmitSuccess
<1> QED BY <1>2, <1>3

LEMMA FailureTypeOK ==
    ASSUME TypeOK, NEW t \in Task, NEW n \in Attempt, FinishSubmitFailure(t, n)
    PROVE  TypeOK'
<1> DEFINE h == handler[t][n]
           a == h.account
           retryable == SubmitRetryLeft(h.error, task[t].attempts)
           taskStatus == IF retryable THEN "RETRY_WAIT" ELSE "FAILED"
           status == StatusAfterError(h.error, account[a].status)
           released == Released(account[a], task[t].reserved)
           unauthorized == h.error = "UPSTREAM_UNAUTHORIZED"
<1>1. handler' \in [Task -> [Attempt -> HandlerRow]]
  BY NoHandlerType DEF FinishSubmitFailure
<1>2. CASE task[t].status \in InFlight
  <2>1. task[t] \in TaskRow /\ task[t].reserved \in Nat /\ taskStatus \in Status
    BY DEF TypeOK, TaskRow, Status, Waiting, Terminal
  <2>2. task' \in [Task -> TaskRow]
    <3>1. task' = [task EXCEPT ![t] = [task[t] EXCEPT !.status = taskStatus, !.reserved = 0]]
      BY <1>2 DEF FinishSubmitFailure
    <3> HIDE DEF taskStatus
    <3>2. [task[t] EXCEPT !.status = taskStatus, !.reserved = 0] \in TaskRow
      BY <2>1, TaskTypes
    <3> QED BY <3>1, <3>2, Updated DEF TypeOK
  <2>3. account' \in [Account -> AccountRow]
    <3>1. account' = [account EXCEPT ![a] =
                        [released EXCEPT !.status = status, !.unauthorized = unauthorized]]
      BY <1>2 DEF FinishSubmitFailure
    <3>2. ASSUME a \in Account
          PROVE  released \in AccountRow /\ status \in AccountStatus
      <4>1. account[a] \in AccountRow
        BY <3>2 DEF TypeOK
      <4> QED BY <2>1, <4>1, ReleasedType DEF StatusAfterError, AccountStatus, AccountRow
    <3> HIDE DEF released, status
    <3>3. a \in Account => [released EXCEPT !.status = status,
                                            !.unauthorized = unauthorized] \in AccountRow
      BY <3>2, AccountTypes
    <3> QED BY <3>1, <3>3, Updated DEF TypeOK
  <2>4. queue' \in [Task -> QueueRow]
    <3>1. (IF retryable THEN Requeued ELSE Finished) \in QueueRow
      BY QueueTypes
    <3> QED BY <1>2, <3>1, Updated DEF TypeOK, FinishSubmitFailure
  <2>5. slots' \in [Space -> Nat]
    BY <1>2, ReleaseSlotType DEF FinishSubmitFailure
  <2> QED BY <1>1, <2>2, <2>3, <2>4, <2>5 DEF TypeOK, FinishSubmitFailure
<1>3. CASE task[t].status \notin InFlight
  BY <1>1, <1>3 DEF TypeOK, FinishSubmitFailure
<1> QED BY <1>2, <1>3

LEMMA LeaseTypeOK ==
    ASSUME TypeOK, NEW t \in Task,
           LeaseRunsOut(t) \/ RenewLease(t) \/ SyncLeaseRunsOut(t)
    PROVE  TypeOK'
<1>1. CASE LeaseRunsOut(t) \/ RenewLease(t)
  <2>1. \A b \in BOOLEAN : [queue[t] EXCEPT !.live = b] \in QueueRow
    BY QueueTypes DEF TypeOK
  <2>2. queue' \in [Task -> QueueRow]
    BY <1>1, <2>1, Updated DEF TypeOK, LeaseRunsOut, RenewLease
  <2> QED BY <1>1, <2>2 DEF TypeOK, LeaseRunsOut, RenewLease
<1>2. CASE SyncLeaseRunsOut(t)
  <2>1. [task[t] EXCEPT !.syncLive = FALSE] \in TaskRow
    BY DEF TypeOK, TaskRow
  <2> QED BY <1>2, <2>1, Updated DEF TypeOK, SyncLeaseRunsOut
<1> QED BY <1>1, <1>2

LEMMA HandlerEndsTypeOK ==
    ASSUME TypeOK, NEW t \in Task, NEW n \in Attempt,
           RenewalEnds(t, n) \/ FinishAborts(t, n)
    PROVE  TypeOK'
<1>1. CASE RenewalEnds(t, n)
  BY <1>1, NoHandlerType DEF TypeOK, RenewalEnds
<1>2. CASE FinishAborts(t, n)
  BY <1>2, GotoType DEF TypeOK, FinishAborts
<1> QED BY <1>1, <1>2

LEMMA CrashTypeOK ==
    ASSUME TypeOK, NEW w \in Worker, WorkerCrash(w)
    PROVE  TypeOK'
<1>1. NoHandler \in HandlerRow
  BY DEF HandlerRow, NoHandler
<1>2. handler' \in [Task -> [Attempt -> HandlerRow]]
  BY <1>1 DEF TypeOK, WorkerCrash
<1> QED BY <1>2 DEF TypeOK, WorkerCrash

(* The four transactions that end a task's stay on its account. *)
LEMMA AccountReleasedType ==
    ASSUME TypeOK, NEW t \in Task, NEW a,
           account' = [account EXCEPT ![a] = Released(@, task[t].reserved)]
    PROVE  account' \in [Account -> AccountRow]
<1>1. task[t].reserved \in Nat
  BY DEF TypeOK, TaskRow
<1>2. a \in Account => Released(account[a], task[t].reserved) \in AccountRow
  BY <1>1, ReleasedType DEF TypeOK
<1> QED BY <1>2, Updated DEF TypeOK

LEMMA RecoverTypeOK ==
    ASSUME TypeOK, NEW t \in Task, RecoverExpiredLease(t)
    PROVE  TypeOK'
<1>1. account' \in [Account -> AccountRow] /\ slots' \in [Space -> Nat]
  BY AccountReleasedType, ReleaseSlotType DEF RecoverExpiredLease
<1>2. \A s \in Status : [task[t] EXCEPT !.status = s, !.reserved = 0] \in TaskRow
  BY TaskTypes DEF TypeOK
<1>3. "RETRY_WAIT" \in Status /\ "FAILED" \in Status
  BY DEF Status, Waiting, Terminal
<1>4. task' \in [Task -> TaskRow]
  <2>1. PICK s \in Status :
          task' = [task EXCEPT ![t] = [task[t] EXCEPT !.status = s, !.reserved = 0]]
    BY <1>3 DEF RecoverExpiredLease
  <2> QED BY <1>2, <2>1, Updated DEF TypeOK
<1>5. queue' \in [Task -> QueueRow]
  BY QueueTypes, Updated DEF TypeOK, RecoverExpiredLease
<1> QED BY <1>1, <1>4, <1>5 DEF TypeOK, RecoverExpiredLease

LEMMA ClaimSyncTypeOK ==
    ASSUME TypeOK, NEW y \in Syncer, NEW batch \in SUBSET Task, ClaimSyncBatch(y, batch)
    PROVE  TypeOK'
<1>1. \A t \in Task : [task[t] EXCEPT !.syncOwner = y, !.syncLive = TRUE] \in TaskRow
  BY TaskTypes DEF TypeOK
<1>2. task' \in [Task -> TaskRow]
  BY <1>1 DEF TypeOK, ClaimSyncBatch
<1>3. [pc |-> "claimed", tracked |-> 0] \in PollRow /\ NoPoll \in PollRow
  BY AttemptType DEF PollRow, NoPoll
<1>4. poll' \in [Syncer -> [Task -> PollRow]]
  BY <1>3 DEF TypeOK, ClaimSyncBatch
<1> QED BY <1>2, <1>4 DEF TypeOK, ClaimSyncBatch

LEMMA PollEndsTypeOK ==
    ASSUME TypeOK, NEW y \in Syncer, NEW t \in Task,
           \/ LoadSyncItem(y, t)
           \/ PollDropped(y, t)
           \/ SyncerCrash(y)
    PROVE  TypeOK'
<1>1. CASE LoadSyncItem(y, t)
  <2>1. [pc |-> "polling", tracked |-> task[t].upstreamId] \in PollRow
    BY DEF TypeOK, TaskRow, PollRow
  <2>2. poll' \in [Syncer -> [Task -> PollRow]]
    BY <1>1, <2>1 DEF TypeOK, LoadSyncItem
  <2> QED BY <1>1, <2>2 DEF TypeOK, LoadSyncItem
<1>2. CASE PollDropped(y, t)
  BY <1>2, EndPollType DEF TypeOK, PollDropped
<1>3. CASE SyncerCrash(y)
  <2>1. NoPoll \in PollRow
    BY AttemptType DEF PollRow, NoPoll
  <2> QED BY <1>3, <2>1 DEF TypeOK, SyncerCrash
<1> QED BY <1>1, <1>2, <1>3

LEMMA StillRunningTypeOK ==
    ASSUME TypeOK, NEW y \in Syncer, NEW t \in Task, NEW s \in Status,
           PollStillRunning(y, t, s)
    PROVE  TypeOK'
<1>1. [SyncReleased(task[t]) EXCEPT !.status = s] \in TaskRow
  <2>1. SyncReleased(task[t]) \in TaskRow
    BY TaskTypes DEF TypeOK
  <2> QED BY <2>1, TaskTypes
<1>2. task' \in [Task -> TaskRow]
  BY <1>1, Updated DEF TypeOK, PollStillRunning
<1>3. poll' \in [Syncer -> [Task -> PollRow]]
  BY EndPollType DEF PollStillRunning
<1> QED BY <1>2, <1>3 DEF TypeOK, PollStillRunning

(* A settled task: its lease is cleared, its status and schedule set. *)
LEMMA SettledTaskType ==
    ASSUME TypeOK, NEW t \in Task, NEW s \in Status, NEW b \in BOOLEAN,
           task' = [task EXCEPT ![t] = [SyncReleased(@) EXCEPT !.status = s, !.nextSync = b]]
    PROVE  task' \in [Task -> TaskRow]
<1>1. SyncReleased(task[t]) \in TaskRow
  BY TaskTypes DEF TypeOK
<1>2. [SyncReleased(task[t]) EXCEPT !.status = s, !.nextSync = b] \in TaskRow
  BY <1>1, TaskTypes
<1> QED BY <1>2, Updated DEF TypeOK

LEMMA CompletedTypeOK ==
    ASSUME TypeOK, NEW y \in Syncer, NEW t \in Task, NEW low \in BOOLEAN,
           PollCompleted(y, t, low)
    PROVE  TypeOK'
<1> DEFINE a == task[t].account
           status == IF low /\ account[a].status # "MANUAL_DISABLED"
                     THEN "PARKED" ELSE account[a].status
           released == Released(account[a], task[t].reserved)
<1>1. task' \in [Task -> TaskRow]
  BY SettledTaskType DEF PollCompleted, Status, Terminal
<1>2. a \in Account => released \in AccountRow /\ status \in AccountStatus
  <2>1. task[t].reserved \in Nat
    BY DEF TypeOK, TaskRow
  <2>2. ASSUME a \in Account PROVE account[a] \in AccountRow
    BY <2>2 DEF TypeOK
  <2> QED BY <2>1, <2>2, ReleasedType DEF AccountRow, AccountStatus
<1>3. account' \in [Account -> AccountRow]
  <2> DEFINE row == [released EXCEPT !.status = status]
  <2>1. account' = [account EXCEPT ![a] = row]
    BY DEF PollCompleted
  <2> HIDE DEF released, status
  <2>2. a \in Account => row \in AccountRow
    BY <1>2, AccountTypes
  <2> HIDE DEF row
  <2> QED BY <2>1, <2>2, Updated DEF TypeOK
<1>4. slots' \in [Space -> Nat] /\ poll' \in [Syncer -> [Task -> PollRow]]
  BY ReleaseSlotType, EndPollType DEF PollCompleted
<1> QED BY <1>1, <1>3, <1>4 DEF TypeOK, PollCompleted

LEMMA RetriedTypeOK ==
    ASSUME TypeOK, NEW y \in Syncer, NEW t \in Task, NEW code \in DOMAIN RetryLimit,
           PollRetried(y, t, code)
    PROVE  TypeOK'
<1> DEFINE count == task[t].retries[code] + 1
           free == SyncReleased(task[t])
           row == [free EXCEPT !.status = "RETRY_WAIT", !.reserved = 0, !.upstreamId = 0,
                               !.nextSync = FALSE, !.retries[code] = count]
<1>1. free \in TaskRow
  BY TaskTypes DEF TypeOK
<1>2. count \in Nat
  BY DEF TypeOK, TaskRow
<1>3. row \in TaskRow
  <2>1. "RETRY_WAIT" \in Status /\ 0 \in 0 .. MaxAttempts
    BY AttemptType DEF Status, Waiting
  <2> HIDE DEF count, free
  <2>2. [free.retries EXCEPT ![code] = count] \in [DOMAIN RetryLimit -> Nat]
    BY <1>1, <1>2 DEF TaskRow
  <2> QED BY <1>1, <2>1, <2>2 DEF TaskRow
<1>4. task' \in [Task -> TaskRow]
  <2>1. task' = [task EXCEPT ![t] = row]
    BY DEF PollRetried
  <2> HIDE DEF row
  <2> QED BY <1>3, <2>1, Updated DEF TypeOK
<1>5. account' \in [Account -> AccountRow] /\ slots' \in [Space -> Nat]
  BY AccountReleasedType, ReleaseSlotType DEF PollRetried
<1>6. queue' \in [Task -> QueueRow] /\ poll' \in [Syncer -> [Task -> PollRow]]
  BY QueueTypes, Updated, EndPollType DEF TypeOK, PollRetried
<1> QED BY <1>4, <1>5, <1>6 DEF TypeOK, PollRetried

LEMMA FailedTypeOK ==
    ASSUME TypeOK, NEW t \in Task,
           \/ FailTimedOut(t)
           \/ \E y \in Syncer, code \in DOMAIN RetryLimit \cup {"UPSTREAM_GENERATION_FAILED"} :
                PollFailed(y, t, code)
    PROVE  TypeOK'
<1>1. task' \in [Task -> TaskRow]
  BY SettledTaskType DEF FailTimedOut, PollFailed, Status, Terminal
<1>2. account' \in [Account -> AccountRow] /\ slots' \in [Space -> Nat]
  BY AccountReleasedType, ReleaseSlotType DEF FailTimedOut, PollFailed
<1>3. poll' \in [Syncer -> [Task -> PollRow]]
  BY EndPollType DEF TypeOK, FailTimedOut, PollFailed
<1> QED BY <1>1, <1>2, <1>3 DEF TypeOK, FailTimedOut, PollFailed

LEMMA PollErrorTypeOK ==
    ASSUME TypeOK, NEW y \in Syncer, NEW t \in Task, NEW code \in ErrorCode,
           ApplyPollError(y, t, code)
    PROVE  TypeOK'
<1> DEFINE a == task[t].account
<1>1. task' \in [Task -> TaskRow]
  <2>1. SyncReleased(task[t]) \in TaskRow
    BY TaskTypes DEF TypeOK
  <2>2. [SyncReleased(task[t]) EXCEPT !.nextSync = TRUE] \in TaskRow
    BY <2>1, TaskTypes
  <2> QED BY <2>2, Updated DEF TypeOK, ApplyPollError
<1>2. \/ UNCHANGED account
      \/ \E s \in AccountStatus, b \in BOOLEAN : Refreshed(a, s, b)
  BY DEF ApplyPollError, Refreshed, AccountStatus
<1>3. account' \in [Account -> AccountRow]
  <2>1. CASE UNCHANGED account
    BY <2>1 DEF TypeOK
  <2>2. ASSUME NEW s \in AccountStatus, NEW b \in BOOLEAN, Refreshed(a, s, b)
        PROVE  account' \in [Account -> AccountRow]
    BY <2>2, RefreshedType
  <2> QED BY <1>2, <2>1, <2>2
<1>4. poll' \in [Syncer -> [Task -> PollRow]]
  BY EndPollType DEF ApplyPollError
<1> QED BY <1>1, <1>3, <1>4 DEF TypeOK, ApplyPollError

LEMMA AccountStepTypeOK ==
    ASSUME TypeOK, NEW a \in Account, AccountStep(a)
    PROVE  TypeOK'
<1>1. account[a] \in AccountRow
  BY DEF TypeOK
<1>2. \A s \in AccountStatus, u \in BOOLEAN :
        /\ [account[a] EXCEPT !.status = s] \in AccountRow
        /\ [account[a] EXCEPT !.status = s, !.unauthorized = u] \in AccountRow
  BY <1>1, AccountTypes DEF AccountStatus
<1>3. account' \in [Account -> AccountRow]
  <2>1. ASSUME NEW s \in AccountStatus,
               account' = [account EXCEPT ![a] = [account[a] EXCEPT !.status = s]]
        PROVE  account' \in [Account -> AccountRow]
    BY <1>2, <2>1, Updated DEF TypeOK
  <2>2. ASSUME NEW s \in AccountStatus, NEW u \in BOOLEAN, Refreshed(a, s, u)
        PROVE  account' \in [Account -> AccountRow]
    <3>1. account' = [account EXCEPT ![a] =
                        [account[a] EXCEPT !.status = s, !.unauthorized = u]]
      BY <2>2 DEF Refreshed
    <3> QED BY <1>2, <3>1, Updated DEF TypeOK
  <2>3. CASE ManualDisable(a) \/ ManualEnable(a)
    BY <2>1, <2>3 DEF ManualDisable, ManualEnable, AccountStatus
  <2>4. CASE TokenReported(a)
    BY <2>2, <2>4 DEF TokenReported, AccountStatus
  <2>5. ASSUME NEW s \in {"PARKED", "PAUSED"}, EnforceAccountGuard(a, s)
        PROVE  account' \in [Account -> AccountRow]
    BY <2>1, <2>5 DEF EnforceAccountGuard, AccountStatus
  <2>6. ASSUME NEW s \in AccountStatus, NEW u \in Answers,
               AccountValidated(a, s, u) \/ RefreshBalance(a, s, u)
        PROVE  account' \in [Account -> AccountRow]
    BY <2>2, <2>6 DEF AccountValidated, RefreshBalance, Answers
  <2> QED BY <2>3, <2>4, <2>5, <2>6 DEF AccountStep
<1> QED BY <1>3 DEF TypeOK, AccountStep, ManualDisable, ManualEnable,
           EnforceAccountGuard, TokenReported, AccountValidated, RefreshBalance

LEMMA NextTypeOK == TypeOK /\ [Next]_vars => TypeOK'
<1> SUFFICES ASSUME TypeOK, [Next]_vars PROVE TypeOK'
  OBVIOUS
<1>1. ASSUME NEW t \in Task, CreateTask(t) \/ CancelTask(t)
      PROVE  TypeOK'
  BY <1>1, ApiTypeOK
<1>2. ASSUME NEW t \in Task, LeaseStep(t)
      PROVE  TypeOK'
  BY <1>2, LeaseTypeOK, RecoverTypeOK, FailedTypeOK DEF LeaseStep
<1>3. ASSUME NEW w \in Worker, NEW t \in Task,
             ClaimFindsNoAccount(w, t) \/ \E a \in Account : ClaimAndAssign(w, t, a)
      PROVE  TypeOK'
  BY <1>3, NoAccountTypeOK, ClaimTypeOK
<1>4. ASSUME NEW t \in Task, NEW n \in Attempt, WorkerStep(t, n)
      PROVE  TypeOK'
  BY <1>4, RefreshTypeOK, MediaTypeOK, GenerateTypeOK, SuccessTypeOK, FailureTypeOK,
     HandlerEndsTypeOK DEF WorkerStep
<1>5. ASSUME NEW w \in Worker, WorkerCrash(w)
      PROVE  TypeOK'
  BY <1>5, CrashTypeOK
<1>6. ASSUME NEW y \in Syncer, NEW batch \in SUBSET Task, ClaimSyncBatch(y, batch)
      PROVE  TypeOK'
  BY <1>6, ClaimSyncTypeOK
<1>7. ASSUME NEW y \in Syncer, NEW t \in Task, SyncerStep(y, t)
      PROVE  TypeOK'
  <2>1. "RUNNING" \in Status /\ task[t].status \in Status
    BY DEF TypeOK, TaskRow, Status, Upstream
  <2>2. CASE LoadSyncItem(y, t) \/ PollDropped(y, t)
    BY <2>2, PollEndsTypeOK
  <2>3. CASE PollStillRunning(y, t, "RUNNING") \/ PollStillRunning(y, t, task[t].status)
    BY <2>1, <2>3, StillRunningTypeOK
  <2>4. CASE \E low \in BOOLEAN : PollCompleted(y, t, low)
    BY <2>4, CompletedTypeOK
  <2>5. CASE \E code \in DOMAIN RetryLimit : PollRetried(y, t, code)
    BY <2>5, RetriedTypeOK
  <2>6. CASE \E code \in DOMAIN RetryLimit \cup {"UPSTREAM_GENERATION_FAILED"} :
               PollFailed(y, t, code)
    BY <2>6, FailedTypeOK
  <2>7. CASE \E code \in Errors : ApplyPollError(y, t, code)
    BY <2>7, PollErrorTypeOK, RowAssumption
  <2> QED BY <1>7, <2>2, <2>3, <2>4, <2>5, <2>6, <2>7 DEF SyncerStep
<1>8. ASSUME NEW y \in Syncer, NEW t \in Task, SyncerCrash(y)
      PROVE  TypeOK'
  BY <1>8, PollEndsTypeOK
<1>9. ASSUME NEW y \in Syncer, SyncerCrash(y)
      PROVE  TypeOK'
  BY <1>8, <1>9 DEF SyncerCrash
<1>10. ASSUME NEW a \in Account, AccountStep(a)
      PROVE  TypeOK'
  BY <1>10, AccountStepTypeOK
<1>11. CASE UNCHANGED vars
  BY <1>11 DEF TypeOK, vars
<1> QED BY <1>1, <1>2, <1>3, <1>4, <1>5, <1>6, <1>7, <1>9, <1>10, <1>11 DEF Next

(* Every reachable state is well typed: counters never go negative, and no *)
(* row names an attempt, an owner or a generation that does not exist.     *)
THEOREM TypeCorrect == Spec => []TypeOK
<1>1. Init => TypeOK
  BY InitTypeOK
<1>2. TypeOK /\ [Next]_vars => TypeOK'
  BY NextTypeOK
<1> QED BY <1>1, <1>2, PTL DEF Spec

-----------------------------------------------------------------------------
(* The queue row agrees with the task row.  The invariant is inductive     *)
(* together with the types: a transaction writes the rows of one task, and *)
(* writes both of them whenever it changes what they say.                  *)

LEMMA Vocabulary ==
    /\ \A s \in InFlight : s \notin Waiting /\ s \notin Upstream /\ s \notin Terminal
    /\ \A s \in Waiting : s \notin Upstream /\ s \notin Terminal
    /\ \A s \in Upstream : s \notin Terminal
    /\ "ABSENT" \notin InFlight \cup Waiting \cup Upstream \cup Terminal
  BY DEF InFlight, Waiting, Upstream, Terminal

LEMMA RowsThatAgree ==
    /\ \A s \in Waiting : Agree(s, Requeued)
    /\ \A s \in Upstream \cup Terminal : Agree(s, Finished)
    /\ \A s \in InFlight, w \in Worker :
         Agree(s, [status |-> "LEASED", owner |-> w, live |-> TRUE])
  BY RowAssumption DEF Agree, Requeued, Finished, InFlight, Waiting, Upstream, Terminal

(* A step that gives task t the status s and its queue row the value q. *)
Rewrites(t, s, q) ==
    \A u \in Task :
      /\ task'[u].status = IF u = t THEN s ELSE task[u].status
      /\ queue'[u] = IF u = t THEN q ELSE queue[u]

LEMMA RewritesAgree ==
    ASSUME QueueTaskAgree, NEW t, NEW s, NEW q, Rewrites(t, s, q), Agree(s, q)
    PROVE  QueueTaskAgree'
  BY DEF QueueTaskAgree, Rewrites

(* A step that moves no task between the groups of statuses, or no row. *)
KeepsStory ==
    \A u \in Task :
      /\ queue'[u] = queue[u]
      /\ \/ task'[u].status = task[u].status
         \/ {task[u].status, task'[u].status} \subseteq InFlight
         \/ /\ task[u].status \in Upstream
            /\ task'[u].status \in Upstream \cup Terminal

LEMMA KeepsStoryAgree ==
    ASSUME QueueTaskAgree, KeepsStory
    PROVE  QueueTaskAgree'
<1> SUFFICES ASSUME NEW u \in Task
             PROVE  Agree(task'[u].status, queue'[u])
  BY DEF QueueTaskAgree
<1>1. Agree(task[u].status, queue[u])
  BY DEF QueueTaskAgree
<1> QED BY <1>1 DEF KeepsStory, Agree, InFlight, Waiting, Upstream, Terminal

LEMMA ApiRewrites ==
    ASSUME TypeOK, QueueTaskAgree, NEW t \in Task, CreateTask(t) \/ CancelTask(t)
    PROVE  QueueTaskAgree'
<1>1. CASE CreateTask(t)
  <2>1. Rewrites(t, "QUEUED", [queue[t] EXCEPT !.status = "READY"])
    BY <1>1 DEF Rewrites, CreateTask, TypeOK, TaskRow
  <2>2. queue[t] \in QueueRow /\ Agree("ABSENT", queue[t])
    BY <1>1 DEF CreateTask, QueueTaskAgree, TypeOK
  <2>3. Agree("QUEUED", [queue[t] EXCEPT !.status = "READY"])
    BY <2>2 DEF Agree, QueueRow, InFlight, Waiting
  <2> QED BY <2>1, <2>3, RewritesAgree
<1>2. CASE CancelTask(t)
  <2>1. Rewrites(t, "CANCELED", Finished)
    BY <1>2 DEF Rewrites, CancelTask, TypeOK, TaskRow
  <2> QED BY <2>1, RewritesAgree, RowsThatAgree DEF Terminal
<1> QED BY <1>1, <1>2

LEMMA ClaimRewrites ==
    ASSUME TypeOK, QueueTaskAgree, NEW w \in Worker, NEW t \in Task,
           ClaimFindsNoAccount(w, t) \/ \E a \in Account : ClaimAndAssign(w, t, a)
    PROVE  QueueTaskAgree'
<1>1. CASE ClaimFindsNoAccount(w, t)
  <2>1. Rewrites(t, "WAITING_ACCOUNT", Requeued)
    BY <1>1 DEF Rewrites, ClaimFindsNoAccount, TypeOK, TaskRow
  <2> QED BY <2>1, RewritesAgree, RowsThatAgree DEF Waiting
<1>2. ASSUME NEW a \in Account, ClaimAndAssign(w, t, a)
      PROVE  QueueTaskAgree'
  <2> DEFINE s == FirstStatus(t)
             q == [status |-> "LEASED", owner |-> w, live |-> TRUE]
  <2>1. Rewrites(t, s, q)
    <3> DEFINE row == [task[t] EXCEPT !.status = s, !.account = a, !.reserved = Estimate,
                                      !.attempts = task[t].attempts + 1]
    <3>1. task' = [task EXCEPT ![t] = row] /\ queue' = [queue EXCEPT ![t] = q]
      BY <1>2 DEF ClaimAndAssign
    <3>2. row.status = s
      BY DEF TypeOK, TaskRow
    <3> HIDE DEF row, s, q
    <3> QED BY <3>1, <3>2 DEF Rewrites, TypeOK
  <2>2. Agree(s, q)
    BY RowsThatAgree DEF FirstStatus, InFlight
  <2> HIDE DEF s, q
  <2> QED BY <2>1, <2>2, RewritesAgree
<1> QED BY <1>1, <1>2

LEMMA FinishRewrites ==
    ASSUME TypeOK, QueueTaskAgree, NEW t \in Task, NEW n \in Attempt,
           FinishSubmitSuccess(t, n) \/ FinishSubmitFailure(t, n)
    PROVE  QueueTaskAgree'
<1>1. CASE UNCHANGED <<task, queue>>
  BY <1>1, KeepsStoryAgree DEF KeepsStory
<1>2. CASE FinishSubmitSuccess(t, n) /\ task[t].status = "SUBMITTING"
  <2>1. Rewrites(t, "UPSTREAM_QUEUED", Finished)
    BY <1>2 DEF Rewrites, FinishSubmitSuccess, TypeOK, TaskRow
  <2> QED BY <2>1, RewritesAgree, RowsThatAgree DEF Upstream
<1>3. CASE FinishSubmitFailure(t, n) /\ task[t].status \in InFlight
  <2> DEFINE retryable == SubmitRetryLeft(handler[t][n].error, task[t].attempts)
  <2>1. CASE retryable
    <3>1. /\ task' = [task EXCEPT ![t] = [task[t] EXCEPT !.status = "RETRY_WAIT", !.reserved = 0]]
          /\ queue' = [queue EXCEPT ![t] = Requeued]
      BY <1>3, <2>1 DEF FinishSubmitFailure
    <3>2. Rewrites(t, "RETRY_WAIT", Requeued)
      BY <3>1 DEF Rewrites, TypeOK, TaskRow
    <3> QED BY <3>2, RewritesAgree, RowsThatAgree DEF Waiting
  <2>2. CASE ~retryable
    <3>1. /\ task' = [task EXCEPT ![t] = [task[t] EXCEPT !.status = "FAILED", !.reserved = 0]]
          /\ queue' = [queue EXCEPT ![t] = Finished]
      BY <1>3, <2>2 DEF FinishSubmitFailure
    <3>2. Rewrites(t, "FAILED", Finished)
      BY <3>1 DEF Rewrites, TypeOK, TaskRow
    <3> QED BY <3>2, RewritesAgree, RowsThatAgree DEF Terminal
  <2> QED BY <2>1, <2>2
<1> QED BY <1>1, <1>2, <1>3 DEF FinishSubmitSuccess, FinishSubmitFailure

LEMMA LeaseRewrites ==
    ASSUME TypeOK, QueueTaskAgree, NEW t \in Task, LeaseStep(t)
    PROVE  QueueTaskAgree'
<1>1. CASE LeaseRunsOut(t) \/ RenewLease(t)
  <2>1. PICK b \in BOOLEAN : Rewrites(t, task[t].status, [queue[t] EXCEPT !.live = b])
    BY <1>1 DEF Rewrites, LeaseRunsOut, RenewLease, TypeOK
  <2>2. Agree(task[t].status, [queue[t] EXCEPT !.live = b])
    BY <1>1 DEF QueueTaskAgree, Agree, LeaseRunsOut, RenewLease, TypeOK, QueueRow
  <2> QED BY <2>1, <2>2, RewritesAgree
<1>2. CASE RecoverExpiredLease(t)
  <2>1. CASE task[t].status = "RESOLVING_MEDIA"
    <3>1. Rewrites(t, "RETRY_WAIT", Requeued)
      BY <1>2, <2>1 DEF Rewrites, RecoverExpiredLease, TypeOK, TaskRow
    <3> QED BY <3>1, RewritesAgree, RowsThatAgree DEF Waiting
  <2>2. CASE task[t].status = "SUBMITTING"
    <3>1. Rewrites(t, "FAILED", Finished)
      BY <1>2, <2>2 DEF Rewrites, RecoverExpiredLease, TypeOK, TaskRow
    <3> QED BY <3>1, RewritesAgree, RowsThatAgree DEF Terminal
  <2> QED BY <1>2, <2>1, <2>2 DEF RecoverExpiredLease
<1>3. CASE SyncLeaseRunsOut(t)
  <2>1. KeepsStory
    BY <1>3 DEF KeepsStory, SyncLeaseRunsOut, TypeOK, TaskRow
  <2> QED BY <2>1, KeepsStoryAgree
<1>4. CASE FailTimedOut(t)
  <2>1. KeepsStory
    BY <1>4 DEF KeepsStory, FailTimedOut, SyncReleased, TypeOK, TaskRow, Upstream, Terminal
  <2> QED BY <2>1, KeepsStoryAgree
<1> QED BY <1>1, <1>2, <1>3, <1>4 DEF LeaseStep

LEMMA HandlerKeepsStory ==
    ASSUME TypeOK, NEW t \in Task, NEW n \in Attempt,
           \/ PreSubmitRefresh(t, n)
           \/ MarkSubmissionReady(t, n)
           \/ \E code \in Errors : UpstreamRaises(t, n, code)
           \/ \E cost \in ApiCost : GenerateAccepted(t, n, cost)
           \/ GenerateAnswerLost(t, n)
           \/ FinishAborts(t, n)
           \/ RenewalEnds(t, n)
    PROVE  KeepsStory
<1>1. CASE MarkSubmissionReady(t, n)
  BY <1>1 DEF KeepsStory, MarkSubmissionReady, TypeOK, TaskRow, InFlight
<1>2. CASE UNCHANGED <<task, queue>>
  BY <1>2 DEF KeepsStory
<1> QED BY <1>1, <1>2 DEF PreSubmitRefresh, UpstreamRaises, GenerateAccepted,
           GenerateAnswerLost, FinishAborts, RenewalEnds

LEMMA SyncerRewrites ==
    ASSUME TypeOK, QueueTaskAgree, NEW y \in Syncer, NEW t \in Task, SyncerStep(y, t)
    PROVE  QueueTaskAgree'
<1>1. CASE LoadSyncItem(y, t) \/ PollDropped(y, t)
  BY <1>1, KeepsStoryAgree DEF KeepsStory, LoadSyncItem, PollDropped
<1>2. CASE PollStillRunning(y, t, "RUNNING") \/ PollStillRunning(y, t, task[t].status)
  <2>1. KeepsStory
    BY <1>2 DEF KeepsStory, PollStillRunning, ResultApplies, SyncReleased, TypeOK,
       TaskRow, Upstream
  <2> QED BY <2>1, KeepsStoryAgree
<1>3. CASE \E low \in BOOLEAN : PollCompleted(y, t, low)
  <2>1. KeepsStory
    BY <1>3 DEF KeepsStory, PollCompleted, ResultApplies, SyncReleased, TypeOK,
       TaskRow, Terminal
  <2> QED BY <2>1, KeepsStoryAgree
<1>4. ASSUME NEW code \in DOMAIN RetryLimit, PollRetried(y, t, code)
      PROVE  QueueTaskAgree'
  <2>1. Rewrites(t, "RETRY_WAIT", Requeued)
    BY <1>4 DEF Rewrites, PollRetried, SyncReleased, TypeOK, TaskRow
  <2> QED BY <2>1, RewritesAgree, RowsThatAgree DEF Waiting
<1>5. ASSUME NEW code, PollFailed(y, t, code)
      PROVE  QueueTaskAgree'
  <2>1. KeepsStory
    BY <1>5 DEF KeepsStory, PollFailed, ResultApplies, SyncReleased, TypeOK,
       TaskRow, Terminal
  <2> QED BY <2>1, KeepsStoryAgree
<1>6. ASSUME NEW code, ApplyPollError(y, t, code)
      PROVE  QueueTaskAgree'
  <2>1. KeepsStory
    BY <1>6 DEF KeepsStory, ApplyPollError, SyncReleased, TypeOK, TaskRow
  <2> QED BY <2>1, KeepsStoryAgree
<1> QED BY <1>1, <1>2, <1>3, <1>4, <1>5, <1>6 DEF SyncerStep

LEMMA NextQueueTaskAgree == TypeOK /\ QueueTaskAgree /\ [Next]_vars => QueueTaskAgree'
<1> SUFFICES ASSUME TypeOK, QueueTaskAgree, [Next]_vars
             PROVE  QueueTaskAgree'
  OBVIOUS
<1>1. ASSUME NEW t \in Task, CreateTask(t) \/ CancelTask(t) \/ LeaseStep(t)
      PROVE  QueueTaskAgree'
  BY <1>1, ApiRewrites, LeaseRewrites
<1>2. ASSUME NEW w \in Worker, NEW t \in Task,
             ClaimFindsNoAccount(w, t) \/ \E a \in Account : ClaimAndAssign(w, t, a)
      PROVE  QueueTaskAgree'
  BY <1>2, ClaimRewrites
<1>3. ASSUME NEW t \in Task, NEW n \in Attempt, WorkerStep(t, n)
      PROVE  QueueTaskAgree'
  BY <1>3, FinishRewrites, HandlerKeepsStory, KeepsStoryAgree DEF WorkerStep
<1>4. ASSUME NEW y \in Syncer, NEW t \in Task, SyncerStep(y, t)
      PROVE  QueueTaskAgree'
  BY <1>4, SyncerRewrites
<1>5. ASSUME NEW y \in Syncer, NEW batch \in SUBSET Task, ClaimSyncBatch(y, batch)
      PROVE  QueueTaskAgree'
  <2>1. KeepsStory
    BY <1>5 DEF KeepsStory, ClaimSyncBatch, TypeOK, TaskRow
  <2> QED BY <2>1, KeepsStoryAgree
<1>6. CASE \/ \E w \in Worker : WorkerCrash(w)
           \/ \E y \in Syncer : SyncerCrash(y)
           \/ \E a \in Account : AccountStep(a)
           \/ UNCHANGED vars
  <2>1. KeepsStory
    BY <1>6 DEF KeepsStory, WorkerCrash, SyncerCrash, AccountStep, ManualDisable,
       ManualEnable, EnforceAccountGuard, TokenReported,
       AccountValidated, RefreshBalance, Refreshed, vars
  <2> QED BY <2>1, KeepsStoryAgree
<1> QED BY <1>1, <1>2, <1>3, <1>4, <1>5, <1>6 DEF Next

(* The queue row of a task agrees with the task row in every reachable     *)
(* state, even when leases run out under live handlers: no task is lost    *)
(* between the tables, and no finished task can be claimed.                *)
THEOREM QueueAgreesWithTasks == Spec => []QueueTaskAgree
<1>1. Init => QueueTaskAgree
  BY DEF Init, QueueTaskAgree, Agree, InFlight, Waiting
<1>2. TypeOK /\ QueueTaskAgree /\ [Next]_vars => QueueTaskAgree'
  BY NextQueueTaskAgree
<1> QED BY <1>1, <1>2, TypeCorrect, PTL DEF Spec

-----------------------------------------------------------------------------
(* The syncer.                                                             *)

-----------------------------------------------------------------------------
(* The sync schedule agrees with the status.                               *)

Scheduled(row) ==
    /\ row.nextSync <=> row.status \in Upstream
    /\ row.syncOwner # Nobody => row.status \in Upstream

LEMMA SyncScheduleByTask == SyncScheduleAgrees <=> \A t \in Task : Scheduled(task[t])
  BY DEF SyncScheduleAgrees, Scheduled

(* A step that replaces the row of one task, if any. *)
LEMMA OneTask ==
    ASSUME TypeOK, SyncScheduleAgrees, NEW t \in Task, NEW row,
           task' = [task EXCEPT ![t] = row], Scheduled(row)
    PROVE  SyncScheduleAgrees'
  BY DEF TypeOK, SyncScheduleAgrees, Scheduled

LEMMA ApiSchedule ==
    ASSUME TypeOK, SyncScheduleAgrees, NEW t \in Task, CreateTask(t) \/ CancelTask(t)
    PROVE  SyncScheduleAgrees'
<1>1. PICK s \in {"QUEUED", "CANCELED"} :
        task' = [task EXCEPT ![t] = [task[t] EXCEPT !.status = s]]
  BY DEF CreateTask, CancelTask
<1>2. task[t].status \notin Upstream
  BY DEF CreateTask, CancelTask, Upstream, Waiting
<1>3. Scheduled([task[t] EXCEPT !.status = s])
  BY <1>2 DEF TypeOK, TaskRow, SyncScheduleAgrees, Scheduled, Upstream
<1> QED BY <1>1, <1>3, OneTask

LEMMA ClaimSchedule ==
    ASSUME TypeOK, SyncScheduleAgrees, NEW w \in Worker, NEW t \in Task,
           ClaimFindsNoAccount(w, t) \/ \E a \in Account : ClaimAndAssign(w, t, a)
    PROVE  SyncScheduleAgrees'
<1>1. CASE ClaimFindsNoAccount(w, t)
  BY <1>1 DEF TypeOK, TaskRow, SyncScheduleAgrees, ClaimFindsNoAccount, Claimable,
     Upstream, Waiting
<1>2. ASSUME NEW a \in Account, ClaimAndAssign(w, t, a)
      PROVE  SyncScheduleAgrees'
  <2> DEFINE s == FirstStatus(t)
             row == [task[t] EXCEPT !.status = s, !.account = a, !.reserved = Estimate,
                                    !.attempts = task[t].attempts + 1]
  <2>1. task' = [task EXCEPT ![t] = row]
    BY <1>2 DEF ClaimAndAssign
  <2>2. /\ row.status = s /\ row.nextSync = task[t].nextSync
        /\ row.syncOwner = task[t].syncOwner
    BY DEF TypeOK, TaskRow
  <2>3. s \notin Upstream /\ task[t].status \notin Upstream
    BY <1>2 DEF ClaimAndAssign, Claimable, FirstStatus, Upstream, Waiting
  <2>4. Scheduled(task[t])
    BY SyncScheduleByTask
  <2> HIDE DEF s, row
  <2>5. Scheduled(row)
    BY <2>2, <2>3, <2>4 DEF Scheduled
  <2> QED BY <2>1, <2>5, OneTask
<1> QED BY <1>1, <1>2

LEMMA WorkerSchedule ==
    ASSUME TypeOK, SyncScheduleAgrees, NEW t \in Task, NEW n \in Attempt, WorkerStep(t, n)
    PROVE  SyncScheduleAgrees'
<1>1. CASE UNCHANGED task
  BY <1>1 DEF SyncScheduleAgrees
<1>2. CASE task[t].status = "RESOLVING_MEDIA" /\ MarkSubmissionReady(t, n)
  <2> DEFINE row == [task[t] EXCEPT !.status = "SUBMITTING"]
  <2>1. task' = [task EXCEPT ![t] = row]
    BY <1>2 DEF MarkSubmissionReady
  <2>2. Scheduled(row)
    BY <1>2 DEF TypeOK, TaskRow, SyncScheduleAgrees, Scheduled, Upstream
  <2> HIDE DEF row
  <2> QED BY <2>1, <2>2, OneTask
<1>3. CASE task[t].status = "SUBMITTING" /\ FinishSubmitSuccess(t, n)
  <2> DEFINE row == [task[t] EXCEPT !.status = "UPSTREAM_QUEUED",
                                    !.reserved = handler[t][n].cost,
                                    !.upstreamId = n, !.nextSync = TRUE]
  <2>1. task' = [task EXCEPT ![t] = row]
    BY <1>3 DEF FinishSubmitSuccess
  <2>2. row.status = "UPSTREAM_QUEUED" /\ row.nextSync = TRUE
    BY DEF TypeOK, TaskRow
  <2> HIDE DEF row
  <2>3. Scheduled(row)
    BY <2>2 DEF Scheduled, Upstream
  <2> QED BY <2>1, <2>3, OneTask
<1>4. CASE task[t].status \in InFlight /\ FinishSubmitFailure(t, n)
  <2>1. PICK s \in {"RETRY_WAIT", "FAILED"} :
          task' = [task EXCEPT ![t] = [task[t] EXCEPT !.status = s, !.reserved = 0]]
    BY <1>4 DEF FinishSubmitFailure
  <2> QED BY <1>4, <2>1 DEF TypeOK, TaskRow, SyncScheduleAgrees, InFlight, Upstream
<1> QED BY <1>1, <1>2, <1>3, <1>4 DEF WorkerStep, PreSubmitRefresh, MarkSubmissionReady,
           UpstreamRaises, GenerateAccepted, GenerateAnswerLost, FinishSubmitSuccess,
           FinishSubmitFailure, FinishAborts, RenewalEnds

LEMMA LeaseSchedule ==
    ASSUME TypeOK, SyncScheduleAgrees, NEW t \in Task, LeaseStep(t)
    PROVE  SyncScheduleAgrees'
<1>1. CASE LeaseRunsOut(t) \/ RenewLease(t)
  BY <1>1 DEF SyncScheduleAgrees, LeaseRunsOut, RenewLease
<1>2. CASE RecoverExpiredLease(t)
  <2>1. PICK s \in {"RETRY_WAIT", "FAILED"} :
          task' = [task EXCEPT ![t] = [task[t] EXCEPT !.status = s, !.reserved = 0]]
    BY <1>2 DEF RecoverExpiredLease
  <2>2. task[t].status \notin Upstream
    BY <1>2 DEF RecoverExpiredLease, Upstream
  <2> QED BY <2>1, <2>2 DEF TypeOK, TaskRow, SyncScheduleAgrees, Upstream
<1>3. CASE SyncLeaseRunsOut(t)
  BY <1>3 DEF TypeOK, TaskRow, SyncScheduleAgrees, SyncLeaseRunsOut
<1>4. CASE FailTimedOut(t)
  BY <1>4 DEF TypeOK, TaskRow, SyncScheduleAgrees, FailTimedOut, SyncReleased, Upstream
<1> QED BY <1>1, <1>2, <1>3, <1>4 DEF LeaseStep

LEMMA SyncerSchedule ==
    ASSUME TypeOK, SyncScheduleAgrees, NEW y \in Syncer, NEW t \in Task, SyncerStep(y, t)
    PROVE  SyncScheduleAgrees'
<1>1. CASE LoadSyncItem(y, t) \/ PollDropped(y, t)
  BY <1>1 DEF SyncScheduleAgrees, LoadSyncItem, PollDropped
<1>2. ASSUME NEW s \in {"RUNNING", task[t].status}, PollStillRunning(y, t, s)
      PROVE  SyncScheduleAgrees'
  BY <1>2 DEF TypeOK, TaskRow, SyncScheduleAgrees, PollStillRunning, ResultApplies,
     SyncReleased, Upstream
<1>3. CASE \E low \in BOOLEAN : PollCompleted(y, t, low)
  BY <1>3 DEF TypeOK, TaskRow, SyncScheduleAgrees, PollCompleted, SyncReleased, Upstream
<1>4. ASSUME NEW code \in DOMAIN RetryLimit, PollRetried(y, t, code)
      PROVE  SyncScheduleAgrees'
  BY <1>4 DEF TypeOK, TaskRow, SyncScheduleAgrees, PollRetried, SyncReleased, Upstream
<1>5. ASSUME NEW code, PollFailed(y, t, code)
      PROVE  SyncScheduleAgrees'
  BY <1>5 DEF TypeOK, TaskRow, SyncScheduleAgrees, PollFailed, SyncReleased, Upstream
<1>6. ASSUME NEW code, ApplyPollError(y, t, code)
      PROVE  SyncScheduleAgrees'
  <2>1. task[t].status \in Upstream
    BY <1>6, RowAssumption DEF SyncScheduleAgrees, ApplyPollError
  <2> QED BY <1>6, <2>1 DEF TypeOK, TaskRow, SyncScheduleAgrees, ApplyPollError, SyncReleased
<1> QED BY <1>1, <1>2, <1>3, <1>4, <1>5, <1>6 DEF SyncerStep

LEMMA NextSchedule == TypeOK /\ SyncScheduleAgrees /\ [Next]_vars => SyncScheduleAgrees'
<1> SUFFICES ASSUME TypeOK, SyncScheduleAgrees, [Next]_vars
             PROVE  SyncScheduleAgrees'
  OBVIOUS
<1>1. ASSUME NEW y \in Syncer, NEW batch \in SUBSET Task, ClaimSyncBatch(y, batch)
      PROVE  SyncScheduleAgrees'
  BY <1>1 DEF TypeOK, TaskRow, SyncScheduleAgrees, ClaimSyncBatch, SyncDue
<1>2. CASE \/ \E w \in Worker : WorkerCrash(w)
           \/ \E y \in Syncer : SyncerCrash(y)
           \/ \E a \in Account : AccountStep(a)
           \/ UNCHANGED vars
  BY <1>2 DEF SyncScheduleAgrees, WorkerCrash, SyncerCrash, AccountStep, ManualDisable,
     ManualEnable, EnforceAccountGuard, TokenReported,
       AccountValidated, RefreshBalance, Refreshed, vars
<1> QED BY <1>1, <1>2, ApiSchedule, LeaseSchedule, ClaimSchedule, WorkerSchedule,
           SyncerSchedule DEF Next

(* A task is scheduled for polling exactly while the provider works on it, *)
(* and a syncer owns no other task, whatever becomes of worker leases.     *)
THEOREM ScheduleCorrect == Spec => []SyncScheduleAgrees
<1>1. Init => SyncScheduleAgrees
  BY DEF Init, SyncScheduleAgrees, Upstream
<1>2. TypeOK /\ SyncScheduleAgrees /\ [Next]_vars => SyncScheduleAgrees'
  BY NextSchedule
<1> QED BY <1>1, <1>2, TypeCorrect, PTL DEF Spec

-----------------------------------------------------------------------------
(* Finished tasks are frozen.  Each transaction writes the rows of one     *)
(* task, and the guards, with the two agreements, exclude finished tasks.  *)

Frozen == \A t \in Task : task[t].status \in Terminal =>
            task'[t] = task[t] /\ queue'[t] = queue[t]

OthersUntouched(t) ==
    \A u \in Task : u # t => task'[u] = task[u] /\ queue'[u] = queue[u]

LEMMA UnfinishedTask ==
    ASSUME NEW t, OthersUntouched(t), task[t].status \notin Terminal
    PROVE  Frozen
  BY DEF Frozen, OthersUntouched

LEMMA RowsUnchanged ==
    ASSUME UNCHANGED <<task, queue>>
    PROVE  Frozen
  BY DEF Frozen

LEMMA ApiFrozen ==
    ASSUME TypeOK, NEW t \in Task, CreateTask(t) \/ CancelTask(t)
    PROVE  Frozen
<1>1. OthersUntouched(t)
  BY DEF OthersUntouched, TypeOK, CreateTask, CancelTask
<1>2. task[t].status \notin Terminal
  BY DEF CreateTask, CancelTask, Waiting, Terminal
<1> QED BY <1>1, <1>2, UnfinishedTask

LEMMA ClaimFrozen ==
    ASSUME TypeOK, NEW w \in Worker, NEW t \in Task,
           ClaimFindsNoAccount(w, t) \/ \E a \in Account : ClaimAndAssign(w, t, a)
    PROVE  Frozen
<1>1. OthersUntouched(t)
  BY DEF OthersUntouched, TypeOK, ClaimFindsNoAccount, ClaimAndAssign
<1>2. task[t].status \notin Terminal
  BY DEF ClaimFindsNoAccount, ClaimAndAssign, Claimable, Waiting, Terminal
<1> QED BY <1>1, <1>2, UnfinishedTask

LEMMA WorkerFrozen ==
    ASSUME TypeOK, NEW t \in Task, NEW n \in Attempt, WorkerStep(t, n)
    PROVE  Frozen
<1>1. CASE UNCHANGED <<task, queue>>
  BY <1>1, RowsUnchanged
<1>2. CASE task[t].status = "RESOLVING_MEDIA" /\ MarkSubmissionReady(t, n)
  <2>1. OthersUntouched(t)
    BY <1>2 DEF OthersUntouched, TypeOK, MarkSubmissionReady
  <2> QED BY <1>2, <2>1, UnfinishedTask DEF Terminal
<1>3. CASE task[t].status = "SUBMITTING" /\ FinishSubmitSuccess(t, n)
  <2>1. OthersUntouched(t)
    BY <1>3 DEF OthersUntouched, TypeOK, FinishSubmitSuccess
  <2> QED BY <1>3, <2>1, UnfinishedTask DEF Terminal
<1>4. CASE task[t].status \in InFlight /\ FinishSubmitFailure(t, n)
  <2>1. OthersUntouched(t)
    BY <1>4 DEF OthersUntouched, TypeOK, FinishSubmitFailure
  <2> QED BY <1>4, <2>1, UnfinishedTask DEF InFlight, Terminal
<1> QED BY <1>1, <1>2, <1>3, <1>4 DEF WorkerStep, PreSubmitRefresh, MarkSubmissionReady,
           UpstreamRaises, GenerateAccepted, GenerateAnswerLost, FinishSubmitSuccess,
           FinishSubmitFailure, FinishAborts, RenewalEnds

LEMMA LeaseFrozen ==
    ASSUME TypeOK, QueueTaskAgree, SyncScheduleAgrees, NEW t \in Task, LeaseStep(t)
    PROVE  Frozen
<1>1. OthersUntouched(t)
  BY DEF OthersUntouched, TypeOK, LeaseStep, LeaseRunsOut, RenewLease, RecoverExpiredLease,
     SyncLeaseRunsOut, FailTimedOut
<1>2. task[t].status \notin Terminal
  BY DEF LeaseStep, LeaseRunsOut, RenewLease, RecoverExpiredLease, SyncLeaseRunsOut,
     FailTimedOut, QueueTaskAgree, Agree, SyncScheduleAgrees, InFlight, Upstream, Terminal
<1> QED BY <1>1, <1>2, UnfinishedTask

LEMMA SyncerFrozen ==
    ASSUME TypeOK, SyncScheduleAgrees, NEW y \in Syncer, NEW t \in Task, SyncerStep(y, t)
    PROVE  Frozen
<1>1. CASE LoadSyncItem(y, t) \/ PollDropped(y, t)
  BY <1>1, RowsUnchanged DEF LoadSyncItem, PollDropped
<1>2. CASE task[t].syncOwner = y /\ OthersUntouched(t)
  <2>1. task[t].status \in Upstream
    BY <1>2, RowAssumption DEF SyncScheduleAgrees
  <2> QED BY <1>2, <2>1, UnfinishedTask, Vocabulary
<1>3. ASSUME NEW s, PollStillRunning(y, t, s)
      PROVE  task[t].syncOwner = y /\ OthersUntouched(t)
  BY <1>3 DEF PollStillRunning, ResultApplies, OthersUntouched, TypeOK
<1>4. ASSUME NEW low, PollCompleted(y, t, low)
      PROVE  task[t].syncOwner = y /\ OthersUntouched(t)
  BY <1>4 DEF PollCompleted, ResultApplies, OthersUntouched, TypeOK
<1>5. ASSUME NEW code, PollRetried(y, t, code)
      PROVE  task[t].syncOwner = y /\ OthersUntouched(t)
  BY <1>5 DEF PollRetried, ResultApplies, OthersUntouched, TypeOK
<1>6. ASSUME NEW code, PollFailed(y, t, code)
      PROVE  task[t].syncOwner = y /\ OthersUntouched(t)
  BY <1>6 DEF PollFailed, ResultApplies, OthersUntouched, TypeOK
<1>7. ASSUME NEW code, ApplyPollError(y, t, code)
      PROVE  task[t].syncOwner = y /\ OthersUntouched(t)
  BY <1>7 DEF ApplyPollError, OthersUntouched, TypeOK
<1> QED BY <1>1, <1>2, <1>3, <1>4, <1>5, <1>6, <1>7 DEF SyncerStep

LEMMA NextFrozen ==
    TypeOK /\ QueueTaskAgree /\ SyncScheduleAgrees /\ [Next]_vars => Frozen
<1> SUFFICES ASSUME TypeOK, QueueTaskAgree, SyncScheduleAgrees, [Next]_vars
             PROVE  Frozen
  OBVIOUS
<1>1. ASSUME NEW y \in Syncer, NEW batch \in SUBSET Task, ClaimSyncBatch(y, batch)
      PROVE  Frozen
  BY <1>1, Vocabulary DEF Frozen, ClaimSyncBatch, SyncDue
<1>2. CASE \/ \E w \in Worker : WorkerCrash(w)
           \/ \E y \in Syncer : SyncerCrash(y)
           \/ \E a \in Account : AccountStep(a)
           \/ UNCHANGED vars
  BY <1>2, RowsUnchanged DEF WorkerCrash, SyncerCrash, AccountStep, ManualDisable,
     ManualEnable, EnforceAccountGuard, TokenReported,
       AccountValidated, RefreshBalance, Refreshed, vars
<1> QED BY <1>1, <1>2, ApiFrozen, LeaseFrozen, ClaimFrozen, WorkerFrozen, SyncerFrozen
    DEF Next

(* A finished task stays as it is under every interleaving of late         *)
(* handlers, late polls, poll errors, timeouts and lease recoveries.       *)
THEOREM FinishedTasksFrozen == Spec => TerminalFrozen
<1>1. TypeOK /\ QueueTaskAgree /\ SyncScheduleAgrees /\ [Next]_vars => [Frozen]_vars
  BY NextFrozen
<1> QED BY <1>1, TypeCorrect, QueueAgreesWithTasks, ScheduleCorrect, PTL
    DEF Spec, TerminalFrozen, Frozen

-----------------------------------------------------------------------------
(* A poll under a lease of its own knows the generation it polls.          *)

(* A step that starts no poll of t by y, and either keeps what the poll    *)
(* relies on or takes the lease away.                                      *)
KeepsPoll(y, t) ==
    /\ poll'[y][t] = poll[y][t] \/ poll'[y][t].pc = "idle"
    /\ \/ /\ task'[t].syncOwner = task[t].syncOwner
          /\ task'[t].upstreamId = task[t].upstreamId
          /\ task[t].status \in Upstream => task'[t].status \in Upstream
       \/ task'[t].syncOwner # y

LEMMA KeepsPollFresh ==
    ASSUME PollTracksGeneration,
           \A y \in Syncer, t \in Task : KeepsPoll(y, t)
    PROVE  PollTracksGeneration'
  BY DEF PollTracksGeneration, KeepsPoll

(* A step on task t that leaves polls alone, and that t's lease survives   *)
(* only if the task keeps its generation.                                  *)
LEMMA TaskStepFresh ==
    ASSUME PollTracksGeneration, NEW t \in Task, UNCHANGED poll, OthersUntouched(t),
           \/ /\ task'[t].syncOwner = task[t].syncOwner
              /\ task'[t].upstreamId = task[t].upstreamId
              /\ task[t].status \in Upstream => task'[t].status \in Upstream
           \/ task'[t].syncOwner = Nobody
    PROVE  PollTracksGeneration'
<1>1. \A y \in Syncer, u \in Task : KeepsPoll(y, u)
  BY RowAssumption DEF KeepsPoll, OthersUntouched
<1> QED BY <1>1, KeepsPollFresh

LEMMA ApiFresh ==
    ASSUME TypeOK, PollTracksGeneration, NEW t \in Task, CreateTask(t) \/ CancelTask(t)
    PROVE  PollTracksGeneration'
<1>1. OthersUntouched(t) /\ UNCHANGED poll
  BY DEF OthersUntouched, TypeOK, CreateTask, CancelTask
<1>2. task[t].status \notin Upstream
  BY DEF CreateTask, CancelTask, Waiting, Upstream
<1>3. /\ task'[t].syncOwner = task[t].syncOwner
      /\ task'[t].upstreamId = task[t].upstreamId
  BY DEF TypeOK, TaskRow, CreateTask, CancelTask
<1> QED BY <1>1, <1>2, <1>3, TaskStepFresh

LEMMA ClaimFresh ==
    ASSUME TypeOK, PollTracksGeneration, NEW w \in Worker, NEW t \in Task,
           ClaimFindsNoAccount(w, t) \/ \E a \in Account : ClaimAndAssign(w, t, a)
    PROVE  PollTracksGeneration'
<1>1. OthersUntouched(t) /\ UNCHANGED poll
  BY DEF OthersUntouched, TypeOK, ClaimFindsNoAccount, ClaimAndAssign
<1>2. task[t].status \notin Upstream
  BY DEF ClaimFindsNoAccount, ClaimAndAssign, Claimable, Waiting, Upstream
<1>3. /\ task'[t].syncOwner = task[t].syncOwner
      /\ task'[t].upstreamId = task[t].upstreamId
  <2>1. CASE ClaimFindsNoAccount(w, t)
    BY <2>1 DEF TypeOK, TaskRow, ClaimFindsNoAccount
  <2>2. ASSUME NEW a \in Account, ClaimAndAssign(w, t, a)
        PROVE  /\ task'[t].syncOwner = task[t].syncOwner
               /\ task'[t].upstreamId = task[t].upstreamId
    <3> DEFINE s == FirstStatus(t)
               row == [task[t] EXCEPT !.status = s, !.account = a, !.reserved = Estimate,
                                      !.attempts = task[t].attempts + 1]
    <3>1. task' = [task EXCEPT ![t] = row]
      BY <2>2 DEF ClaimAndAssign
    <3>2. row.syncOwner = task[t].syncOwner /\ row.upstreamId = task[t].upstreamId
      BY DEF TypeOK, TaskRow
    <3> HIDE DEF s, row
    <3> QED BY <3>1, <3>2 DEF TypeOK
  <2> QED BY <2>1, <2>2
<1> QED BY <1>1, <1>2, <1>3, TaskStepFresh

LEMMA WorkerFresh ==
    ASSUME TypeOK, SyncScheduleAgrees, PollTracksGeneration,
           NEW t \in Task, NEW n \in Attempt, WorkerStep(t, n)
    PROVE  PollTracksGeneration'
<1>1. UNCHANGED poll
  BY DEF WorkerStep, PreSubmitRefresh, MarkSubmissionReady, UpstreamRaises, GenerateAccepted,
     GenerateAnswerLost, FinishSubmitSuccess, FinishSubmitFailure, FinishAborts, RenewalEnds
<1>2. CASE UNCHANGED task
  BY <1>1, <1>2 DEF PollTracksGeneration
<1>3. CASE task[t].status \in InFlight /\ OthersUntouched(t)
           /\ task'[t].syncOwner = task[t].syncOwner
  <2>1. task[t].syncOwner = Nobody
    BY <1>3, Vocabulary DEF SyncScheduleAgrees
  <2> QED BY <1>1, <1>3, <2>1, TaskStepFresh
<1>4. CASE task[t].status = "RESOLVING_MEDIA" /\ MarkSubmissionReady(t, n)
  <2>1. OthersUntouched(t) /\ task'[t].syncOwner = task[t].syncOwner
    BY <1>4 DEF OthersUntouched, TypeOK, TaskRow, MarkSubmissionReady
  <2> QED BY <1>3, <1>4, <2>1 DEF InFlight
<1>5. CASE task[t].status = "SUBMITTING" /\ FinishSubmitSuccess(t, n)
  <2> DEFINE row == [task[t] EXCEPT !.status = "UPSTREAM_QUEUED",
                                    !.reserved = handler[t][n].cost,
                                    !.upstreamId = n, !.nextSync = TRUE]
  <2>1. OthersUntouched(t)
    BY <1>5 DEF OthersUntouched, TypeOK, FinishSubmitSuccess
  <2>2. task' = [task EXCEPT ![t] = row]
    BY <1>5 DEF FinishSubmitSuccess
  <2>3. row.syncOwner = task[t].syncOwner
    BY DEF TypeOK, TaskRow
  <2> HIDE DEF row
  <2>4. task'[t].syncOwner = task[t].syncOwner
    BY <2>2, <2>3 DEF TypeOK
  <2> QED BY <1>3, <1>5, <2>1, <2>4 DEF InFlight
<1>6. CASE task[t].status \in InFlight /\ FinishSubmitFailure(t, n)
  <2>1. OthersUntouched(t)
    BY <1>6 DEF OthersUntouched, TypeOK, FinishSubmitFailure
  <2>2. PICK s \in {"RETRY_WAIT", "FAILED"} :
          task' = [task EXCEPT ![t] = [task[t] EXCEPT !.status = s, !.reserved = 0]]
    BY <1>6 DEF FinishSubmitFailure
  <2>3. task'[t].syncOwner = task[t].syncOwner
    BY <2>2 DEF TypeOK, TaskRow
  <2> QED BY <1>3, <1>6, <2>1, <2>3
<1> QED BY <1>2, <1>4, <1>5, <1>6 DEF WorkerStep, PreSubmitRefresh, MarkSubmissionReady,
           UpstreamRaises, GenerateAccepted, GenerateAnswerLost, FinishSubmitSuccess,
           FinishSubmitFailure, FinishAborts, RenewalEnds

LEMMA LeaseFresh ==
    ASSUME TypeOK, SyncScheduleAgrees, PollTracksGeneration, NEW t \in Task, LeaseStep(t)
    PROVE  PollTracksGeneration'
<1>1. OthersUntouched(t) /\ UNCHANGED poll
  BY DEF OthersUntouched, TypeOK, LeaseStep, LeaseRunsOut, RenewLease, RecoverExpiredLease,
     SyncLeaseRunsOut, FailTimedOut
<1>2. CASE LeaseRunsOut(t) \/ RenewLease(t)
  BY <1>2 DEF PollTracksGeneration, LeaseRunsOut, RenewLease
<1>3. CASE RecoverExpiredLease(t)
  <2>1. PICK s \in {"RETRY_WAIT", "FAILED"} :
          task' = [task EXCEPT ![t] = [task[t] EXCEPT !.status = s, !.reserved = 0]]
    BY <1>3 DEF RecoverExpiredLease
  <2>2. task'[t].syncOwner = task[t].syncOwner
    BY <2>1 DEF TypeOK, TaskRow
  <2>3. task[t].syncOwner = Nobody
    BY <1>3 DEF RecoverExpiredLease, SyncScheduleAgrees, Upstream
  <2> QED BY <1>1, <2>2, <2>3, TaskStepFresh
<1>4. CASE SyncLeaseRunsOut(t)
  <2>1. /\ task'[t].syncOwner = task[t].syncOwner
        /\ task'[t].upstreamId = task[t].upstreamId
        /\ task'[t].status = task[t].status
    BY <1>4 DEF TypeOK, TaskRow, SyncLeaseRunsOut
  <2> QED BY <1>1, <2>1, TaskStepFresh
<1>5. CASE FailTimedOut(t)
  <2>1. task'[t].syncOwner = Nobody
    BY <1>5 DEF TypeOK, TaskRow, FailTimedOut, SyncReleased
  <2> QED BY <1>1, <2>1, TaskStepFresh
<1> QED BY <1>2, <1>3, <1>4, <1>5 DEF LeaseStep

(* A poll that ends takes its lease with it. *)
LEMMA EndedPollFresh ==
    ASSUME TypeOK, PollTracksGeneration, NEW y \in Syncer, NEW t \in Task,
           EndPoll(y, t), OthersUntouched(t), task'[t].syncOwner = Nobody
    PROVE  PollTracksGeneration'
<1>1. ASSUME NEW x \in Syncer, NEW u \in Task
      PROVE  KeepsPoll(x, u)
  <2>1. poll'[x][u] = poll[x][u] \/ poll'[x][u].pc = "idle"
    BY DEF EndPoll, NoPoll, TypeOK
  <2> QED BY <2>1, RowAssumption DEF KeepsPoll, OthersUntouched
<1> QED BY <1>1, KeepsPollFresh

LEMMA SyncerFresh ==
    ASSUME TypeOK, PollTracksGeneration, NEW y \in Syncer, NEW t \in Task, SyncerStep(y, t)
    PROVE  PollTracksGeneration'
<1>1. CASE LoadSyncItem(y, t)
  BY <1>1 DEF PollTracksGeneration, LoadSyncItem, TypeOK
<1>2. CASE PollDropped(y, t)
  BY <1>2 DEF PollTracksGeneration, PollDropped, EndPoll, NoPoll, TypeOK
<1>3. ASSUME NEW s, PollStillRunning(y, t, s)
      PROVE  PollTracksGeneration'
  <2>1. task'[t].syncOwner = Nobody /\ OthersUntouched(t)
    BY <1>3 DEF PollStillRunning, SyncReleased, OthersUntouched, TypeOK, TaskRow
  <2> QED BY <1>3, <2>1, EndedPollFresh DEF PollStillRunning
<1>4. ASSUME NEW low, PollCompleted(y, t, low)
      PROVE  PollTracksGeneration'
  <2>1. task'[t].syncOwner = Nobody /\ OthersUntouched(t)
    BY <1>4 DEF PollCompleted, SyncReleased, OthersUntouched, TypeOK, TaskRow
  <2> QED BY <1>4, <2>1, EndedPollFresh DEF PollCompleted
<1>5. ASSUME NEW code \in DOMAIN RetryLimit, PollRetried(y, t, code)
      PROVE  PollTracksGeneration'
  <2>1. task'[t].syncOwner = Nobody /\ OthersUntouched(t)
    BY <1>5 DEF PollRetried, SyncReleased, OthersUntouched, TypeOK, TaskRow
  <2> QED BY <1>5, <2>1, EndedPollFresh DEF PollRetried
<1>6. ASSUME NEW code, PollFailed(y, t, code)
      PROVE  PollTracksGeneration'
  <2>1. task'[t].syncOwner = Nobody /\ OthersUntouched(t)
    BY <1>6 DEF PollFailed, SyncReleased, OthersUntouched, TypeOK, TaskRow
  <2> QED BY <1>6, <2>1, EndedPollFresh DEF PollFailed
<1>7. ASSUME NEW code, ApplyPollError(y, t, code)
      PROVE  PollTracksGeneration'
  <2>1. task'[t].syncOwner = Nobody /\ OthersUntouched(t)
    BY <1>7 DEF ApplyPollError, SyncReleased, OthersUntouched, TypeOK, TaskRow
  <2> QED BY <1>7, <2>1, EndedPollFresh DEF ApplyPollError
<1> QED BY <1>1, <1>2, <1>3, <1>4, <1>5, <1>6, <1>7 DEF SyncerStep

LEMMA NextFresh ==
    TypeOK /\ SyncScheduleAgrees /\ PollTracksGeneration /\ [Next]_vars
    => PollTracksGeneration'
<1> SUFFICES ASSUME TypeOK, SyncScheduleAgrees, PollTracksGeneration, [Next]_vars
             PROVE  PollTracksGeneration'
  OBVIOUS
<1>1. ASSUME NEW y \in Syncer, NEW batch \in SUBSET Task, ClaimSyncBatch(y, batch)
      PROVE  PollTracksGeneration'
  <2> SUFFICES ASSUME NEW x \in Syncer, NEW t \in Task,
                      poll'[x][t].pc # "idle", task'[t].syncOwner = x
               PROVE  /\ task'[t].status \in Upstream
                      /\ poll'[x][t].pc = "polling" => poll'[x][t].tracked = task'[t].upstreamId
    BY DEF PollTracksGeneration
  <2>1. CASE x = y
    BY <1>1, <2>1 DEF ClaimSyncBatch, SyncDue, NoPoll, TypeOK, TaskRow
  <2>2. CASE x # y
    BY <1>1, <2>2 DEF PollTracksGeneration, ClaimSyncBatch, TypeOK, TaskRow
  <2> QED BY <2>1, <2>2
<1>2. ASSUME NEW y \in Syncer, SyncerCrash(y)
      PROVE  PollTracksGeneration'
  BY <1>2 DEF PollTracksGeneration, SyncerCrash, NoPoll, TypeOK
<1>3. CASE \/ \E w \in Worker : WorkerCrash(w)
           \/ \E a \in Account : AccountStep(a)
           \/ UNCHANGED vars
  BY <1>3 DEF PollTracksGeneration, WorkerCrash, AccountStep, ManualDisable,
     ManualEnable, EnforceAccountGuard, TokenReported,
       AccountValidated, RefreshBalance, Refreshed, vars
<1> QED BY <1>1, <1>2, <1>3, ApiFresh, LeaseFresh, ClaimFresh, WorkerFresh, SyncerFresh
    DEF Next

(* A late answer about a generation that a task has given up is never      *)
(* applied to the generation that replaced it.                             *)
THEOREM PollsAreFresh == Spec => []PollTracksGeneration
<1>1. Init => PollTracksGeneration
  BY DEF Init, PollTracksGeneration, NoPoll
<1>2. TypeOK /\ SyncScheduleAgrees /\ PollTracksGeneration /\ [Next]_vars
      => PollTracksGeneration'
  BY NextFresh
<1> QED BY <1>1, <1>2, TypeCorrect, ScheduleCorrect, PTL DEF Spec

-----------------------------------------------------------------------------
(***************************************************************************)
(* The worker's side.  While no lease runs out under a live handler, a     *)
(* handler is the one attempt of its task that may submit; and whatever    *)
(* leases do, recovery requeues only attempts that submitted nothing.      *)
(***************************************************************************)

(* What HandlerOwnsTask says of one handler.  Owning is to hold the lease  *)
(* and the row; being at a step is to find the status of that step.        *)
Owns(t, n) ==
    /\ task[t].attempts = n
    /\ queue[t].status = "LEASED" /\ queue[t].live
    /\ queue[t].owner = handler[t][n].worker
    /\ task[t].account = handler[t][n].account

AtItsStep(t, n) ==
    /\ handler[t][n].pc = "validate" => task[t].status = FirstStatus(t)
    /\ handler[t][n].pc = "media" => task[t].status = "RESOLVING_MEDIA"
    /\ handler[t][n].pc \in {"submit", "accepted"} => task[t].status = "SUBMITTING"

LEMMA HandlerOwnsTaskByHandler ==
    HandlerOwnsTask <=>
      \A t \in Task, n \in Attempt :
        handler[t][n].pc # "idle" => Owns(t, n) /\ AtItsStep(t, n)
  BY DEF HandlerOwnsTask, Owns, AtItsStep

(* A task that is not leased has no handler at work, and a leased one at   *)
(* most the handler of its current attempt.                                *)
LEMMA UnleasedIdle ==
    ASSUME HandlerOwnsTask, NEW t \in Task,
           queue[t].status # "LEASED" \/ ~queue[t].live
    PROVE  \A n \in Attempt : handler[t][n].pc = "idle"
  BY DEF HandlerOwnsTask

LEMMA OnlyCurrent ==
    ASSUME HandlerOwnsTask, NEW t \in Task, NEW n \in Attempt, handler[t][n].pc # "idle"
    PROVE  \A m \in Attempt : m # n => handler[t][m].pc = "idle"
  BY DEF HandlerOwnsTask

(* Frames: what a step leaves alone. *)
SameRows(t) ==
    /\ task'[t].attempts = task[t].attempts
    /\ task'[t].account = task[t].account
    /\ task'[t].status = task[t].status
    /\ queue'[t] = queue[t]

LEMMA SameRowsOwned ==
    ASSUME HandlerOwnsTask,
           \A t \in Task, n \in Attempt :
             handler'[t][n].pc # "idle" => SameRows(t) /\ handler'[t][n] = handler[t][n]
    PROVE  HandlerOwnsTask'
<1> SUFFICES ASSUME NEW t \in Task, NEW n \in Attempt, handler'[t][n].pc # "idle"
             PROVE  (Owns(t, n) /\ AtItsStep(t, n))'
  BY DEF HandlerOwnsTask, Owns, AtItsStep
<1>1. SameRows(t) /\ handler'[t][n] = handler[t][n]
  OBVIOUS
<1>2. Owns(t, n) /\ AtItsStep(t, n)
  BY <1>1, HandlerOwnsTaskByHandler
<1> QED BY <1>1, <1>2 DEF SameRows, Owns, AtItsStep

(* A step of a task without handlers, handlers left alone. *)
LEMMA IdleTaskOwned ==
    ASSUME HandlerOwnsTask, NEW t \in Task, UNCHANGED handler,
           \A n \in Attempt : handler[t][n].pc = "idle",
           \A u \in Task : u # t => SameRows(u)
    PROVE  HandlerOwnsTask'
  BY SameRowsOwned

(* A step of one handler that stays on its rows, or ends. *)
LEMMA HandlerStepOwned ==
    ASSUME TypeOK, HandlerOwnsTask, NEW t \in Task, NEW n \in Attempt, NEW h \in HandlerRow,
           handler' = [handler EXCEPT ![t][n] = h],
           \A u \in Task : u # t => SameRows(u),
           h.pc # "idle" => (Owns(t, n) /\ AtItsStep(t, n))',
           handler[t][n].pc # "idle"
    PROVE  HandlerOwnsTask'
<1> SUFFICES ASSUME NEW u \in Task, NEW m \in Attempt, handler'[u][m].pc # "idle"
             PROVE  (Owns(u, m) /\ AtItsStep(u, m))'
  BY DEF HandlerOwnsTask, Owns, AtItsStep
<1>1. CASE u = t /\ m = n
  <2>1. handler'[t][n] = h
    BY DEF TypeOK
  <2> QED BY <1>1, <2>1
<1>2. CASE u = t /\ m # n
  <2>1. handler'[u][m] = handler[u][m]
    BY <1>2 DEF TypeOK
  <2> QED BY <1>2, <2>1, OnlyCurrent
<1>3. CASE u # t
  <2>1. handler'[u][m] = handler[u][m] /\ SameRows(u)
    BY <1>3 DEF TypeOK
  <2>2. Owns(u, m) /\ AtItsStep(u, m)
    BY <2>1, HandlerOwnsTaskByHandler
  <2> QED BY <2>1, <2>2 DEF SameRows, Owns, AtItsStep
<1> QED BY <1>1, <1>2, <1>3

-----------------------------------------------------------------------------
(* One step per action.                                                    *)

LEMMA ApiOwned ==
    ASSUME TypeOK, QueueTaskAgree, HandlerOwnsTask, NEW t \in Task,
           CreateTask(t) \/ CancelTask(t)
    PROVE  HandlerOwnsTask'
<1>1. queue[t].status # "LEASED"
  BY Vocabulary DEF QueueTaskAgree, Agree, CreateTask, CancelTask
<1>2. UNCHANGED handler /\ \A u \in Task : u # t => SameRows(u)
  BY DEF SameRows, TypeOK, CreateTask, CancelTask
<1> QED BY <1>1, <1>2, UnleasedIdle, IdleTaskOwned

LEMMA ClaimOwned ==
    ASSUME TypeOK, QueueTaskAgree, HandlerOwnsTask, NEW w \in Worker, NEW t \in Task,
           ClaimFindsNoAccount(w, t) \/ \E a \in Account : ClaimAndAssign(w, t, a)
    PROVE  HandlerOwnsTask'
<1>1. \A n \in Attempt : handler[t][n].pc = "idle"
  <2>1. queue[t].status # "LEASED"
    BY DEF ClaimFindsNoAccount, ClaimAndAssign, Claimable
  <2> QED BY <2>1, UnleasedIdle
<1>2. \A u \in Task : u # t => SameRows(u)
  BY DEF SameRows, TypeOK, ClaimFindsNoAccount, ClaimAndAssign
<1>3. CASE ClaimFindsNoAccount(w, t)
  BY <1>1, <1>2, <1>3, IdleTaskOwned DEF ClaimFindsNoAccount
<1>4. ASSUME NEW a \in Account, ClaimAndAssign(w, t, a)
      PROVE  HandlerOwnsTask'
  <2> DEFINE n == task[t].attempts + 1
             s == FirstStatus(t)
             row == [task[t] EXCEPT !.status = s, !.account = a, !.reserved = Estimate,
                                    !.attempts = n]
             started == [pc |-> "validate", worker |-> w, account |-> a,
                         cost |-> Estimate, error |-> "none"]
  <2>1. n \in Attempt /\ task' = [task EXCEPT ![t] = row]
    BY <1>4 DEF ClaimAndAssign
  <2>2. handler' = [handler EXCEPT ![t][n] = started]
    BY <1>4 DEF ClaimAndAssign
  <2>3. queue'[t] = [status |-> "LEASED", owner |-> w, live |-> TRUE]
    BY <1>4 DEF ClaimAndAssign, TypeOK
  <2>4. row.status = s /\ row.account = a /\ row.attempts = n
    BY DEF TypeOK, TaskRow
  <2> HIDE DEF n, s, row
  <2>5. task'[t].status = s /\ task'[t].account = a /\ task'[t].attempts = n
    BY <2>1, <2>4 DEF TypeOK
  <2> SUFFICES ASSUME NEW u \in Task, NEW m \in Attempt, handler'[u][m].pc # "idle"
               PROVE  (Owns(u, m) /\ AtItsStep(u, m))'
    BY DEF HandlerOwnsTask, Owns, AtItsStep
  <2>6. CASE u = t /\ m = n
    <3>1. handler'[t][n] = started
      BY <2>1, <2>2 DEF TypeOK
    <3> QED BY <2>3, <2>5, <2>6, <3>1 DEF Owns, AtItsStep, s
  <2>7. CASE u = t /\ m # n
    BY <1>1, <2>2, <2>7 DEF TypeOK
  <2>8. CASE u # t
    <3>1. handler'[u][m] = handler[u][m] /\ SameRows(u)
      BY <1>2, <2>2, <2>8 DEF TypeOK
    <3>2. Owns(u, m) /\ AtItsStep(u, m)
      BY <3>1, HandlerOwnsTaskByHandler
    <3> QED BY <3>1, <3>2 DEF SameRows, Owns, AtItsStep
  <2> QED BY <2>6, <2>7, <2>8
<1> QED BY <1>3, <1>4

(* A handler that fails, or is orphaned, is at no step but keeps its rows. *)
LEMMA StoppedOwned ==
    ASSUME TypeOK, HandlerOwnsTask, NEW t \in Task, NEW n \in Attempt, NEW h \in HandlerRow,
           handler[t][n].pc # "idle", handler' = [handler EXCEPT ![t][n] = h],
           h.pc \in {"failing", "orphaned"}, h.worker = handler[t][n].worker,
           h.account = handler[t][n].account, UNCHANGED <<task, queue>>
    PROVE  HandlerOwnsTask'
<1>1. Owns(t, n)
  BY HandlerOwnsTaskByHandler
<1>2. handler'[t][n] = h /\ \A u \in Task : SameRows(u)
  BY DEF TypeOK, SameRows
<1>3. (Owns(t, n) /\ AtItsStep(t, n))'
  BY <1>1, <1>2 DEF Owns, AtItsStep
<1> QED BY <1>2, <1>3, HandlerStepOwned

LEMMA FailOwned ==
    ASSUME TypeOK, HandlerOwnsTask, NEW t \in Task, NEW n \in Attempt, NEW code \in ErrorCode,
           handler[t][n].pc # "idle", Fail(t, n, code), UNCHANGED <<task, queue>>
    PROVE  HandlerOwnsTask'
<1> DEFINE h == [handler[t][n] EXCEPT !.pc = "failing", !.error = code]
<1>1. handler[t][n] \in HandlerRow
  BY DEF TypeOK
<1>2. /\ h \in HandlerRow /\ h.pc = "failing"
      /\ h.worker = handler[t][n].worker /\ h.account = handler[t][n].account
  BY <1>1 DEF HandlerRow
<1>3. handler' = [handler EXCEPT ![t][n] = h]
  BY DEF Fail
<1> HIDE DEF h
<1> QED BY <1>2, <1>3, StoppedOwned

(* A handler that goes on to the step whose status the task has. *)
LEMMA GotoOwned ==
    ASSUME TypeOK, HandlerOwnsTask, NEW t \in Task, NEW n \in Attempt,
           NEW p \in {"media", "submit", "orphaned"},
           handler[t][n].pc # "idle", Goto(t, n, p),
           \A u \in Task : u # t => SameRows(u),
           task'[t].attempts = task[t].attempts, task'[t].account = task[t].account,
           queue'[t] = queue[t],
           p = "media" => task'[t].status = "RESOLVING_MEDIA",
           p = "submit" => task'[t].status = "SUBMITTING"
    PROVE  HandlerOwnsTask'
<1> DEFINE h == [handler[t][n] EXCEPT !.pc = p]
<1>1. handler[t][n] \in HandlerRow
  BY DEF TypeOK
<1>2. /\ h \in HandlerRow /\ h.pc = p
      /\ h.worker = handler[t][n].worker /\ h.account = handler[t][n].account
  BY <1>1 DEF HandlerRow
<1>3. handler' = [handler EXCEPT ![t][n] = h]
  BY DEF Goto
<1> HIDE DEF h
<1>4. handler'[t][n] = h
  BY <1>3 DEF TypeOK
<1>5. Owns(t, n)
  BY HandlerOwnsTaskByHandler
<1>6. (Owns(t, n) /\ AtItsStep(t, n))'
  BY <1>2, <1>4, <1>5 DEF Owns, AtItsStep
<1> QED BY <1>2, <1>3, <1>6, HandlerStepOwned

LEMMA RefreshOwned ==
    ASSUME TypeOK, HandlerOwnsTask, NEW t \in Task, NEW n \in Attempt, PreSubmitRefresh(t, n)
    PROVE  HandlerOwnsTask'
<1>1. handler[t][n].pc = "validate" /\ UNCHANGED <<task, queue>>
  BY DEF PreSubmitRefresh
<1>2. CASE \E code \in ErrorCode : Fail(t, n, code)
  BY <1>1, <1>2, FailOwned
<1>3. CASE Goto(t, n, AfterRefresh(t))
  <2>1. task[t].status = FirstStatus(t)
    BY <1>1 DEF HandlerOwnsTask
  <2>2. /\ AfterRefresh(t) \in {"media", "submit", "orphaned"}
        /\ AfterRefresh(t) = "media" => task[t].status = "RESOLVING_MEDIA"
        /\ AfterRefresh(t) = "submit" => task[t].status = "SUBMITTING"
    BY <2>1 DEF AfterRefresh, FirstStatus
  <2>3. \A u \in Task : SameRows(u)
    BY <1>1 DEF SameRows
  <2> QED BY <1>1, <1>3, <2>2, <2>3, GotoOwned DEF SameRows
<1> QED BY <1>2, <1>3, RowAssumption DEF PreSubmitRefresh, ErrorCode

LEMMA MediaOwned ==
    ASSUME TypeOK, HandlerOwnsTask, NEW t \in Task, NEW n \in Attempt, MarkSubmissionReady(t, n)
    PROVE  HandlerOwnsTask'
<1>1. handler[t][n].pc = "media" /\ UNCHANGED queue
  BY DEF MarkSubmissionReady
<1>2. CASE Fail(t, n, "TRANSIENT") /\ UNCHANGED task
  BY <1>1, <1>2, FailOwned DEF ErrorCode
<1>3. CASE task' = [task EXCEPT ![t].status = "SUBMITTING"] /\ Goto(t, n, "submit")
  <2>1. \A u \in Task : u # t => SameRows(u)
    BY <1>1, <1>3 DEF SameRows, TypeOK
  <2>2. /\ task'[t].attempts = task[t].attempts /\ task'[t].account = task[t].account
        /\ task'[t].status = "SUBMITTING"
    BY <1>3 DEF TypeOK, TaskRow
  <2> QED BY <1>1, <1>3, <2>1, <2>2, GotoOwned
<1> QED BY <1>2, <1>3 DEF MarkSubmissionReady

LEMMA GenerateOwned ==
    ASSUME TypeOK, HandlerOwnsTask, NEW t \in Task, NEW n \in Attempt,
           \/ \E code \in Errors : UpstreamRaises(t, n, code)
           \/ \E cost \in ApiCost : GenerateAccepted(t, n, cost)
           \/ GenerateAnswerLost(t, n)
    PROVE  HandlerOwnsTask'
<1>1. CASE \E code \in Errors : UpstreamRaises(t, n, code)
  BY <1>1, FailOwned, RowAssumption DEF UpstreamRaises
<1>2. CASE GenerateAnswerLost(t, n)
  BY <1>2, FailOwned DEF GenerateAnswerLost, ErrorCode
<1>3. ASSUME NEW cost \in ApiCost, GenerateAccepted(t, n, cost)
      PROVE  HandlerOwnsTask'
  <2> DEFINE h == [handler[t][n] EXCEPT !.pc = "accepted", !.cost = cost]
  <2>1. handler[t][n] \in HandlerRow /\ handler[t][n].pc = "submit"
    BY <1>3 DEF TypeOK, GenerateAccepted
  <2>2. /\ h \in HandlerRow /\ h.pc = "accepted"
        /\ h.worker = handler[t][n].worker /\ h.account = handler[t][n].account
    BY <2>1, CostAssumption DEF HandlerRow
  <2>3. handler' = [handler EXCEPT ![t][n] = h] /\ UNCHANGED <<task, queue>>
    BY <1>3 DEF GenerateAccepted
  <2> HIDE DEF h
  <2>4. handler'[t][n] = h /\ \A u \in Task : SameRows(u)
    BY <2>3 DEF TypeOK, SameRows
  <2>5. Owns(t, n) /\ AtItsStep(t, n)
    BY <2>1, HandlerOwnsTaskByHandler
  <2>6. (Owns(t, n) /\ AtItsStep(t, n))'
    BY <2>1, <2>2, <2>3, <2>4, <2>5 DEF Owns, AtItsStep
  <2> QED BY <2>1, <2>2, <2>3, <2>4, <2>6, HandlerStepOwned
<1> QED BY <1>1, <1>2, <1>3

LEMMA FinishOwned ==
    ASSUME TypeOK, HandlerOwnsTask, NEW t \in Task, NEW n \in Attempt,
           FinishSubmitSuccess(t, n) \/ FinishSubmitFailure(t, n) \/ RenewalEnds(t, n)
    PROVE  HandlerOwnsTask'
<1>1. handler[t][n].pc # "idle" /\ handler' = [handler EXCEPT ![t][n] = NoHandler]
  BY DEF FinishSubmitSuccess, FinishSubmitFailure, RenewalEnds
<1>2. \A u \in Task : u # t => SameRows(u)
  BY DEF SameRows, TypeOK, FinishSubmitSuccess, FinishSubmitFailure, RenewalEnds
<1>3. NoHandler \in HandlerRow /\ NoHandler.pc = "idle"
  BY DEF HandlerRow, NoHandler
<1> QED BY <1>1, <1>2, <1>3, HandlerStepOwned

LEMMA AbortOwned ==
    ASSUME TypeOK, HandlerOwnsTask, NEW t \in Task, NEW n \in Attempt, FinishAborts(t, n)
    PROVE  HandlerOwnsTask'
<1>1. \A u \in Task : SameRows(u)
  BY DEF SameRows, FinishAborts
<1> QED BY <1>1, GotoOwned DEF FinishAborts, SameRows

(* No lease runs out under a live handler, so what a lease that has run    *)
(* out, or was never given, allows is done to idle tasks only.             *)
LEMMA LeaseOwned ==
    ASSUME ~LeaseOverrun, TypeOK, QueueTaskAgree, HandlerOwnsTask,
           NEW t \in Task, LeaseStep(t)
    PROVE  HandlerOwnsTask'
<1>1. CASE LeaseRunsOut(t)
  <2>1. \A n \in Attempt : handler[t][n].pc = "idle"
    <3>1. Renewing(t) = {}
      BY <1>1 DEF LeaseRunsOut
    <3> QED BY <3>1 DEF HandlerOwnsTask, Renewing
  <2>2. UNCHANGED handler /\ \A u \in Task : u # t => SameRows(u)
    BY <1>1 DEF SameRows, TypeOK, LeaseRunsOut
  <2> QED BY <2>1, <2>2, IdleTaskOwned
<1>2. CASE RenewLease(t) \/ RecoverExpiredLease(t)
  <2>1. \A n \in Attempt : handler[t][n].pc = "idle"
    BY <1>2, UnleasedIdle DEF RenewLease, RecoverExpiredLease
  <2>2. UNCHANGED handler /\ \A u \in Task : u # t => SameRows(u)
    BY <1>2 DEF SameRows, TypeOK, RenewLease, RecoverExpiredLease
  <2> QED BY <2>1, <2>2, IdleTaskOwned
<1>3. CASE SyncLeaseRunsOut(t)
  <2>1. UNCHANGED handler /\ \A u \in Task : SameRows(u)
    BY <1>3 DEF SameRows, TypeOK, TaskRow, SyncLeaseRunsOut
  <2> QED BY <2>1, SameRowsOwned
<1>4. CASE FailTimedOut(t)
  <2>1. queue[t].status # "LEASED"
    BY <1>4 DEF FailTimedOut, QueueTaskAgree, Agree, InFlight
  <2>2. UNCHANGED handler /\ \A u \in Task : u # t => SameRows(u)
    BY <1>4 DEF SameRows, TypeOK, FailTimedOut
  <2> QED BY <2>1, <2>2, UnleasedIdle, IdleTaskOwned
<1> QED BY <1>1, <1>2, <1>3, <1>4 DEF LeaseStep

LEMMA SyncerOwned ==
    ASSUME TypeOK, QueueTaskAgree, HandlerOwnsTask, NEW y \in Syncer, NEW t \in Task,
           SyncerStep(y, t)
    PROVE  HandlerOwnsTask'
<1>1. CASE LoadSyncItem(y, t) \/ PollDropped(y, t)
  <2>1. UNCHANGED handler /\ \A u \in Task : SameRows(u)
    BY <1>1 DEF SameRows, LoadSyncItem, PollDropped
  <2> QED BY <2>1, SameRowsOwned
<1>2. CASE ResultApplies(y, t) /\ UNCHANGED handler /\ \A u \in Task : u # t => SameRows(u)
  <2>1. queue[t].status # "LEASED"
    BY <1>2, Vocabulary DEF ResultApplies, QueueTaskAgree, Agree
  <2> QED BY <1>2, <2>1, UnleasedIdle, IdleTaskOwned
<1>3. ASSUME NEW s, PollStillRunning(y, t, s)
      PROVE  HandlerOwnsTask'
  BY <1>2, <1>3 DEF PollStillRunning, SameRows, TypeOK
<1>4. ASSUME NEW low, PollCompleted(y, t, low)
      PROVE  HandlerOwnsTask'
  BY <1>2, <1>4 DEF PollCompleted, SameRows, TypeOK
<1>5. ASSUME NEW code, PollRetried(y, t, code)
      PROVE  HandlerOwnsTask'
  BY <1>2, <1>5 DEF PollRetried, SameRows, TypeOK
<1>6. ASSUME NEW code, PollFailed(y, t, code)
      PROVE  HandlerOwnsTask'
  BY <1>2, <1>6 DEF PollFailed, SameRows, TypeOK
<1>7. ASSUME NEW code, ApplyPollError(y, t, code)
      PROVE  HandlerOwnsTask'
  <2>1. UNCHANGED handler /\ \A u \in Task : SameRows(u)
    BY <1>7 DEF ApplyPollError, SyncReleased, SameRows, TypeOK, TaskRow
  <2> QED BY <2>1, SameRowsOwned
<1> QED BY <1>1, <1>3, <1>4, <1>5, <1>6, <1>7 DEF SyncerStep

LEMMA CrashOwned ==
    ASSUME TypeOK, HandlerOwnsTask, NEW w \in Worker, WorkerCrash(w)
    PROVE  HandlerOwnsTask'
<1>1. \A t \in Task : SameRows(t)
  BY DEF SameRows, WorkerCrash
<1>2. \A t \in Task, n \in Attempt :
        handler'[t][n].pc # "idle" => handler'[t][n] = handler[t][n]
  BY DEF WorkerCrash, NoHandler
<1> QED BY <1>1, <1>2, SameRowsOwned

LEMMA NextOwned ==
    ASSUME ~LeaseOverrun
    PROVE  TypeOK /\ QueueTaskAgree /\ HandlerOwnsTask /\ [Next]_vars => HandlerOwnsTask'
<1> SUFFICES ASSUME TypeOK, QueueTaskAgree, HandlerOwnsTask, [Next]_vars
             PROVE  HandlerOwnsTask'
  OBVIOUS
<1>1. ASSUME NEW t \in Task, NEW n \in Attempt, WorkerStep(t, n)
      PROVE  HandlerOwnsTask'
  BY <1>1, RefreshOwned, MediaOwned, GenerateOwned, FinishOwned, AbortOwned DEF WorkerStep
<1>2. ASSUME NEW y \in Syncer, NEW batch \in SUBSET Task, ClaimSyncBatch(y, batch)
      PROVE  HandlerOwnsTask'
  <2>1. UNCHANGED handler /\ \A u \in Task : SameRows(u)
    BY <1>2 DEF ClaimSyncBatch, SameRows, TypeOK, TaskRow
  <2> QED BY <2>1, SameRowsOwned
<1>3. CASE \/ \E y \in Syncer : SyncerCrash(y)
           \/ \E a \in Account : AccountStep(a)
           \/ UNCHANGED vars
  <2>1. UNCHANGED handler /\ \A u \in Task : SameRows(u)
    BY <1>3 DEF SameRows, SyncerCrash, AccountStep, ManualDisable, ManualEnable,
       EnforceAccountGuard, TokenReported,
       AccountValidated, RefreshBalance, Refreshed, vars
  <2> QED BY <2>1, SameRowsOwned
<1> QED BY <1>1, <1>2, <1>3, ApiOwned, LeaseOwned, ClaimOwned, CrashOwned, SyncerOwned DEF Next

(* While no lease runs out under a live handler, every handler is the      *)
(* current attempt of its task and acts on the rows it was given.          *)
THEOREM HandlersOwnTheirTasks ==
    ASSUME ~LeaseOverrun
    PROVE  Spec => []HandlerOwnsTask
<1>1. Init => HandlerOwnsTask
  BY DEF Init, HandlerOwnsTask, NoHandler
<1>2. TypeOK /\ QueueTaskAgree /\ HandlerOwnsTask /\ [Next]_vars => HandlerOwnsTask'
  BY NextOwned
<1> QED BY <1>1, <1>2, TypeCorrect, QueueAgreesWithTasks, PTL DEF Spec

(* Then no two attempts of a task are ever submitting at the same time:    *)
(* what recover_expired_leases promises rests on lease renewal alone.      *)
THEOREM SubmissionsAreExclusive ==
    ASSUME ~LeaseOverrun
    PROVE  Spec => []NoConcurrentSubmit
<1>1. HandlerOwnsTask => NoConcurrentSubmit
  BY DEF HandlerOwnsTask, NoConcurrentSubmit
<1> QED BY <1>1, HandlersOwnTheirTasks, PTL

-----------------------------------------------------------------------------
(* Recovery requeues only attempts that submitted nothing.  A task row is  *)
(* RESOLVING_MEDIA only before its current attempt submits, even if other, *)
(* older attempts are still at work: an old attempt can move the row on,   *)
(* but never back.                                                         *)

(* A step that begins no attempt of t and takes t's row no step back. *)
RowAdvances(t) ==
    /\ task'[t].attempts = task[t].attempts
    /\ task'[t].status \in InFlight => task[t].status \in InFlight
    /\ task'[t].status = "RESOLVING_MEDIA" => task[t].status = "RESOLVING_MEDIA"

(* A step after which an attempt has submitted only if it had before, was  *)
(* submitting, or does so when the row says that it may.                   *)
AttemptAdvances(t, n) ==
    /\ handler[t][n].pc = "idle" => handler'[t][n].pc = "idle"
    /\ generation'[t][n] = generation[t][n] \/ handler[t][n].pc = "submit"
    /\ handler'[t][n].pc \in {"submit", "accepted"} =>
         \/ handler[t][n].pc \in {"submit", "accepted"}
         \/ task'[t].status # "RESOLVING_MEDIA"
         \/ t \notin Typed

LEMMA AdvancesResolving ==
    ASSUME TypeOK, ResolvingBeforeSubmit,
           \A t \in Task : RowAdvances(t) /\ \A n \in Attempt : AttemptAdvances(t, n)
    PROVE  ResolvingBeforeSubmit'
<1> SUFFICES ASSUME NEW t \in Task
             PROVE  /\ task'[t].status \in InFlight => task'[t].attempts \in Attempt
                    /\ task'[t].status = "RESOLVING_MEDIA" =>
                         /\ t \in Typed
                         /\ generation'[t][task'[t].attempts] = Nobody
                         /\ handler'[t][task'[t].attempts].pc \notin {"submit", "accepted"}
                    /\ \A n \in Attempt : n > task'[t].attempts =>
                         generation'[t][n] = Nobody /\ handler'[t][n].pc = "idle"
  BY DEF ResolvingBeforeSubmit
<1> DEFINE k == task[t].attempts
<1>1. RowAdvances(t) /\ \A n \in Attempt : AttemptAdvances(t, n)
  OBVIOUS
<1>2. task'[t].attempts = k
  BY <1>1 DEF RowAdvances
<1>3. task'[t].status \in InFlight => k \in Attempt
  BY <1>1 DEF RowAdvances, ResolvingBeforeSubmit
<1>4. ASSUME task'[t].status = "RESOLVING_MEDIA"
      PROVE  /\ t \in Typed
             /\ generation'[t][k] = Nobody
             /\ handler'[t][k].pc \notin {"submit", "accepted"}
  <2>1. task[t].status = "RESOLVING_MEDIA" /\ k \in Attempt
    BY <1>1, <1>4 DEF RowAdvances, ResolvingBeforeSubmit, InFlight
  <2>2. /\ t \in Typed /\ generation[t][k] = Nobody
        /\ handler[t][k].pc \notin {"submit", "accepted"}
    BY <2>1 DEF ResolvingBeforeSubmit
  <2> QED BY <1>1, <1>4, <2>1, <2>2 DEF AttemptAdvances
<1>5. ASSUME NEW n \in Attempt, n > k
      PROVE  generation'[t][n] = Nobody /\ handler'[t][n].pc = "idle"
  <2>1. generation[t][n] = Nobody /\ handler[t][n].pc = "idle"
    BY <1>5 DEF ResolvingBeforeSubmit
  <2> QED BY <1>1, <2>1 DEF AttemptAdvances
<1> QED BY <1>2, <1>3, <1>4, <1>5

(* Steps that touch neither handlers nor the history. *)
LEMMA RowsAdvance ==
    ASSUME TypeOK, ResolvingBeforeSubmit, UNCHANGED <<handler, generation>>,
           \A t \in Task : RowAdvances(t)
    PROVE  ResolvingBeforeSubmit'
<1>1. \A t \in Task, n \in Attempt : AttemptAdvances(t, n)
  BY DEF AttemptAdvances
<1> QED BY <1>1, AdvancesResolving

LEMMA ClaimResolving ==
    ASSUME TypeOK, ResolvingBeforeSubmit, NEW w \in Worker, NEW t \in Task, NEW a \in Account,
           ClaimAndAssign(w, t, a)
    PROVE  ResolvingBeforeSubmit'
<1> DEFINE k == task[t].attempts + 1
           s == FirstStatus(t)
           row == [task[t] EXCEPT !.status = s, !.account = a, !.reserved = Estimate,
                                  !.attempts = k]
           started == [pc |-> "validate", worker |-> w, account |-> a,
                       cost |-> Estimate, error |-> "none"]
<1>1. /\ k \in Attempt /\ task' = [task EXCEPT ![t] = row]
      /\ handler' = [handler EXCEPT ![t][k] = started]
      /\ generation' = generation
  BY DEF ClaimAndAssign
<1>2. row.status = s /\ row.attempts = k
  BY DEF TypeOK, TaskRow
<1>3. task[t].attempts \in Nat /\ k > task[t].attempts
  BY BudgetAssumption DEF TypeOK, TaskRow
<1>4. generation[t][k] = Nobody
  BY <1>1, <1>3 DEF ResolvingBeforeSubmit
<1>5. s = "RESOLVING_MEDIA" => t \in Typed
  BY DEF FirstStatus
<1>6. started.pc = "validate"
  OBVIOUS
<1>7. \A n \in Attempt : n > k =>
        n # k /\ generation[t][n] = Nobody /\ handler[t][n].pc = "idle"
  BY <1>3, BudgetAssumption DEF ResolvingBeforeSubmit, Attempt
<1> HIDE DEF k, s, row, started
<1>8. task'[t].status = s /\ task'[t].attempts = k /\ handler'[t][k] = started
  BY <1>1, <1>2 DEF TypeOK
<1>9. \A n \in Attempt : n # k => handler'[t][n] = handler[t][n]
  BY <1>1 DEF TypeOK
<1>10. \A u \in Task : u # t => task'[u] = task[u] /\ handler'[u] = handler[u]
  BY <1>1 DEF TypeOK
<1> SUFFICES ASSUME NEW u \in Task
             PROVE  /\ task'[u].status \in InFlight => task'[u].attempts \in Attempt
                    /\ task'[u].status = "RESOLVING_MEDIA" =>
                         /\ u \in Typed
                         /\ generation'[u][task'[u].attempts] = Nobody
                         /\ handler'[u][task'[u].attempts].pc \notin {"submit", "accepted"}
                    /\ \A n \in Attempt : n > task'[u].attempts =>
                         generation'[u][n] = Nobody /\ handler'[u][n].pc = "idle"
  BY DEF ResolvingBeforeSubmit
<1>11. CASE u = t
  BY <1>1, <1>4, <1>5, <1>6, <1>7, <1>8, <1>9, <1>11
<1>12. CASE u # t
  BY <1>1, <1>10, <1>12 DEF ResolvingBeforeSubmit
<1> QED BY <1>11, <1>12

(* A handler stops, or moves to a step it is entitled to. *)
LEMMA HandlerAdvances ==
    ASSUME TypeOK, NEW t \in Task, NEW n \in Attempt, NEW h \in HandlerRow,
           handler' = [handler EXCEPT ![t][n] = h], handler[t][n].pc # "idle",
           h.pc \in {"submit", "accepted"} =>
             \/ handler[t][n].pc \in {"submit", "accepted"}
             \/ task'[t].status # "RESOLVING_MEDIA"
             \/ t \notin Typed,
           \A u \in Task, m \in Attempt :
             \/ generation'[u][m] = generation[u][m]
             \/ handler[u][m].pc = "submit"
    PROVE  \A u \in Task, m \in Attempt : AttemptAdvances(u, m)
<1> SUFFICES ASSUME NEW u \in Task, NEW m \in Attempt
             PROVE  AttemptAdvances(u, m)
  OBVIOUS
<1>1. CASE u = t /\ m = n
  <2>1. handler'[t][n] = h
    BY DEF TypeOK
  <2> QED BY <1>1, <2>1 DEF AttemptAdvances
<1>2. CASE ~(u = t /\ m = n)
  <2>1. handler'[u][m] = handler[u][m]
    BY <1>2 DEF TypeOK
  <2> QED BY <2>1 DEF AttemptAdvances
<1> QED BY <1>1, <1>2

LEMMA WorkerResolving ==
    ASSUME TypeOK, ResolvingBeforeSubmit, NEW t \in Task, NEW n \in Attempt, WorkerStep(t, n)
    PROVE  ResolvingBeforeSubmit'
<1> DEFINE h == handler[t][n]
           Kept == \A u \in Task, m \in Attempt : generation'[u][m] = generation[u][m]
<1>1. h \in HandlerRow
  BY DEF TypeOK
<1>2. \A u \in Task : RowAdvances(u)
  <2>1. CASE UNCHANGED task
    BY <2>1 DEF RowAdvances
  <2>2. CASE task[t].status = "RESOLVING_MEDIA"
             /\ task' = [task EXCEPT ![t].status = "SUBMITTING"]
    BY <2>2 DEF RowAdvances, TypeOK, TaskRow, InFlight
  <2>3. CASE task[t].status = "SUBMITTING" /\ FinishSubmitSuccess(t, n)
    <3> DEFINE row == [task[t] EXCEPT !.status = "UPSTREAM_QUEUED", !.reserved = h.cost,
                                      !.upstreamId = n, !.nextSync = TRUE]
    <3>1. task' = [task EXCEPT ![t] = row]
      BY <2>3 DEF FinishSubmitSuccess
    <3>2. row.status = "UPSTREAM_QUEUED" /\ row.attempts = task[t].attempts
      BY DEF TypeOK, TaskRow
    <3> HIDE DEF row
    <3> QED BY <3>1, <3>2 DEF RowAdvances, TypeOK, InFlight
  <2>4. CASE task[t].status \in InFlight /\ FinishSubmitFailure(t, n)
    <3>1. PICK s \in {"RETRY_WAIT", "FAILED"} :
            task' = [task EXCEPT ![t] = [task[t] EXCEPT !.status = s, !.reserved = 0]]
      BY <2>4 DEF FinishSubmitFailure
    <3> QED BY <3>1 DEF RowAdvances, TypeOK, TaskRow, InFlight
  <2> QED BY <2>1, <2>2, <2>3, <2>4 DEF WorkerStep, PreSubmitRefresh, MarkSubmissionReady,
             UpstreamRaises, GenerateAccepted, GenerateAnswerLost, FinishSubmitSuccess,
             FinishSubmitFailure, FinishAborts, RenewalEnds
<1>3. ASSUME h.pc # "idle", NEW code \in ErrorCode, Fail(t, n, code),
             Kept \/ (h.pc = "submit" /\ generation' = [generation EXCEPT ![t][n] = h.account])
      PROVE  \A u \in Task, m \in Attempt : AttemptAdvances(u, m)
  <2> DEFINE g == [h EXCEPT !.pc = "failing", !.error = code]
  <2>1. g \in HandlerRow /\ g.pc = "failing"
    BY <1>1 DEF HandlerRow
  <2>2. handler' = [handler EXCEPT ![t][n] = g]
    BY <1>3 DEF Fail
  <2>3. \A u \in Task, m \in Attempt :
          generation'[u][m] = generation[u][m] \/ handler[u][m].pc = "submit"
    BY <1>3 DEF TypeOK
  <2> HIDE DEF g
  <2> QED BY <1>3, <2>1, <2>2, <2>3, HandlerAdvances
<1>4. ASSUME h.pc # "idle", NEW p \in {"media", "submit", "orphaned"}, Goto(t, n, p), Kept,
             p = "submit" => task'[t].status # "RESOLVING_MEDIA" \/ t \notin Typed
      PROVE  \A u \in Task, m \in Attempt : AttemptAdvances(u, m)
  <2> DEFINE g == [h EXCEPT !.pc = p]
  <2>1. g \in HandlerRow /\ g.pc = p
    BY <1>1 DEF HandlerRow
  <2>2. handler' = [handler EXCEPT ![t][n] = g]
    BY <1>4 DEF Goto
  <2> HIDE DEF g
  <2> QED BY <1>4, <2>1, <2>2, HandlerAdvances
<1>5. CASE PreSubmitRefresh(t, n)
  <2>1. h.pc # "idle" /\ Kept
    BY <1>5 DEF PreSubmitRefresh
  <2>2. \/ \E code \in ErrorCode : Fail(t, n, code)
        \/ Goto(t, n, AfterRefresh(t))
    BY <1>5, RowAssumption DEF PreSubmitRefresh, ErrorCode
  <2>3. CASE \E code \in ErrorCode : Fail(t, n, code)
    BY <1>2, <1>3, <2>1, <2>3, AdvancesResolving
  <2>4. CASE Goto(t, n, AfterRefresh(t))
    <3>1. /\ AfterRefresh(t) \in {"media", "submit", "orphaned"}
          /\ AfterRefresh(t) = "submit" => t \notin Typed
      BY DEF AfterRefresh
    <3> QED BY <1>2, <1>4, <2>1, <2>4, <3>1, AdvancesResolving
  <2> QED BY <2>2, <2>3, <2>4
<1>6. CASE MarkSubmissionReady(t, n)
  <2>1. h.pc # "idle" /\ Kept
    BY <1>6 DEF MarkSubmissionReady
  <2>2. CASE task' = [task EXCEPT ![t].status = "SUBMITTING"] /\ Goto(t, n, "submit")
    <3>1. task'[t].status # "RESOLVING_MEDIA"
      BY <2>2 DEF TypeOK, TaskRow
    <3> QED BY <1>2, <1>4, <2>1, <2>2, <3>1, AdvancesResolving
  <2>3. CASE Fail(t, n, "TRANSIENT")
    BY <1>2, <1>3, <2>1, <2>3, AdvancesResolving DEF ErrorCode
  <2> QED BY <1>6, <2>2, <2>3 DEF MarkSubmissionReady
<1>7. CASE \E code \in Errors : UpstreamRaises(t, n, code)
  BY <1>2, <1>3, <1>7, AdvancesResolving, RowAssumption DEF UpstreamRaises
<1>8. CASE GenerateAnswerLost(t, n)
  BY <1>2, <1>3, <1>8, AdvancesResolving DEF GenerateAnswerLost, ErrorCode
<1>9. ASSUME NEW cost \in ApiCost, GenerateAccepted(t, n, cost)
      PROVE  ResolvingBeforeSubmit'
  <2> DEFINE g == [h EXCEPT !.pc = "accepted", !.cost = cost]
  <2>1. h.pc = "submit" /\ g \in HandlerRow
    BY <1>1, <1>9, CostAssumption DEF GenerateAccepted, HandlerRow
  <2>2. handler' = [handler EXCEPT ![t][n] = g]
    BY <1>9 DEF GenerateAccepted
  <2>3. \A u \in Task, m \in Attempt :
          generation'[u][m] = generation[u][m] \/ handler[u][m].pc = "submit"
    BY <1>9, <2>1 DEF GenerateAccepted, TypeOK
  <2> HIDE DEF g
  <2> QED BY <1>2, <2>1, <2>2, <2>3, HandlerAdvances, AdvancesResolving
<1>10. CASE FinishSubmitSuccess(t, n) \/ FinishSubmitFailure(t, n) \/ RenewalEnds(t, n)
  <2>1. h.pc # "idle" /\ Kept /\ handler' = [handler EXCEPT ![t][n] = NoHandler]
    BY <1>10 DEF FinishSubmitSuccess, FinishSubmitFailure, RenewalEnds
  <2>2. NoHandler \in HandlerRow /\ NoHandler.pc = "idle"
    BY DEF HandlerRow, NoHandler
  <2> QED BY <1>2, <2>1, <2>2, HandlerAdvances, AdvancesResolving
<1>11. CASE FinishAborts(t, n)
  <2>1. h.pc # "idle" /\ Kept /\ Goto(t, n, "orphaned")
    BY <1>11 DEF FinishAborts
  <2> QED BY <1>2, <1>4, <2>1, AdvancesResolving
<1> QED BY <1>5, <1>6, <1>7, <1>8, <1>9, <1>10, <1>11 DEF WorkerStep

LEMMA LeaseResolving ==
    ASSUME TypeOK, ResolvingBeforeSubmit, NEW t \in Task, LeaseStep(t)
    PROVE  ResolvingBeforeSubmit'
<1>1. UNCHANGED <<handler, generation>>
  BY DEF LeaseStep, LeaseRunsOut, RenewLease, RecoverExpiredLease, SyncLeaseRunsOut, FailTimedOut
<1>2. CASE LeaseRunsOut(t) \/ RenewLease(t)
  <2>1. \A u \in Task : RowAdvances(u)
    BY <1>2 DEF RowAdvances, LeaseRunsOut, RenewLease
  <2> QED BY <1>1, <2>1, RowsAdvance
<1>3. CASE RecoverExpiredLease(t)
  <2>1. PICK s \in {"RETRY_WAIT", "FAILED"} :
          task' = [task EXCEPT ![t] = [task[t] EXCEPT !.status = s, !.reserved = 0]]
    BY <1>3 DEF RecoverExpiredLease
  <2>2. \A u \in Task : RowAdvances(u)
    BY <2>1 DEF RowAdvances, TypeOK, TaskRow, InFlight
  <2> QED BY <1>1, <2>2, RowsAdvance
<1>4. CASE SyncLeaseRunsOut(t)
  <2>1. \A u \in Task : RowAdvances(u)
    BY <1>4 DEF RowAdvances, SyncLeaseRunsOut, TypeOK, TaskRow
  <2> QED BY <1>1, <2>1, RowsAdvance
<1>5. CASE FailTimedOut(t)
  <2>1. \A u \in Task : RowAdvances(u)
    BY <1>5 DEF RowAdvances, FailTimedOut, SyncReleased, TypeOK, TaskRow, InFlight
  <2> QED BY <1>1, <2>1, RowsAdvance
<1> QED BY <1>2, <1>3, <1>4, <1>5 DEF LeaseStep

LEMMA SyncerResolving ==
    ASSUME TypeOK, ResolvingBeforeSubmit, NEW y \in Syncer, NEW t \in Task, SyncerStep(y, t)
    PROVE  ResolvingBeforeSubmit'
<1>1. UNCHANGED <<handler, generation>>
  BY DEF SyncerStep, LoadSyncItem, PollDropped, PollStillRunning, PollCompleted, PollRetried,
     PollFailed, ApplyPollError
<1>2. CASE LoadSyncItem(y, t) \/ PollDropped(y, t)
  BY <1>1, <1>2, RowsAdvance DEF RowAdvances, LoadSyncItem, PollDropped
<1>3. ASSUME NEW s \in {"RUNNING", task[t].status}, PollStillRunning(y, t, s)
      PROVE  \A u \in Task : RowAdvances(u)
  BY <1>3 DEF RowAdvances, PollStillRunning, SyncReleased, TypeOK, TaskRow, InFlight
<1>4. ASSUME NEW low, PollCompleted(y, t, low)
      PROVE  \A u \in Task : RowAdvances(u)
  BY <1>4 DEF RowAdvances, PollCompleted, SyncReleased, TypeOK, TaskRow, InFlight
<1>5. ASSUME NEW code \in DOMAIN RetryLimit, PollRetried(y, t, code)
      PROVE  \A u \in Task : RowAdvances(u)
  BY <1>5 DEF RowAdvances, PollRetried, SyncReleased, TypeOK, TaskRow, InFlight
<1>6. ASSUME NEW code, PollFailed(y, t, code)
      PROVE  \A u \in Task : RowAdvances(u)
  BY <1>6 DEF RowAdvances, PollFailed, SyncReleased, TypeOK, TaskRow, InFlight
<1>7. ASSUME NEW code, ApplyPollError(y, t, code)
      PROVE  \A u \in Task : RowAdvances(u)
  BY <1>7 DEF RowAdvances, ApplyPollError, SyncReleased, TypeOK, TaskRow
<1> QED BY <1>1, <1>2, <1>3, <1>4, <1>5, <1>6, <1>7, RowsAdvance DEF SyncerStep

LEMMA NextResolving ==
    TypeOK /\ ResolvingBeforeSubmit /\ [Next]_vars => ResolvingBeforeSubmit'
<1> SUFFICES ASSUME TypeOK, ResolvingBeforeSubmit, [Next]_vars
             PROVE  ResolvingBeforeSubmit'
  OBVIOUS
<1>1. ASSUME NEW t \in Task, CreateTask(t) \/ CancelTask(t)
      PROVE  ResolvingBeforeSubmit'
  <2>1. PICK s \in {"QUEUED", "CANCELED"} :
          task' = [task EXCEPT ![t] = [task[t] EXCEPT !.status = s]]
    BY <1>1 DEF CreateTask, CancelTask
  <2>2. UNCHANGED <<handler, generation>>
    BY <1>1 DEF CreateTask, CancelTask
  <2>3. \A u \in Task : RowAdvances(u)
    BY <2>1 DEF RowAdvances, TypeOK, TaskRow, InFlight
  <2> QED BY <2>2, <2>3, RowsAdvance
<1>2. ASSUME NEW w \in Worker, NEW t \in Task, ClaimFindsNoAccount(w, t)
      PROVE  ResolvingBeforeSubmit'
  <2>1. UNCHANGED <<handler, generation>> /\ \A u \in Task : RowAdvances(u)
    BY <1>2 DEF RowAdvances, ClaimFindsNoAccount, TypeOK, TaskRow, InFlight
  <2> QED BY <2>1, RowsAdvance
<1>3. ASSUME NEW w \in Worker, WorkerCrash(w)
      PROVE  ResolvingBeforeSubmit'
  <2>1. \A t \in Task, n \in Attempt :
          handler'[t][n] = handler[t][n] \/ handler'[t][n].pc = "idle"
    BY <1>3 DEF WorkerCrash, NoHandler
  <2>2. \A t \in Task : RowAdvances(t) /\ \A n \in Attempt : AttemptAdvances(t, n)
    BY <1>3, <2>1 DEF RowAdvances, AttemptAdvances, WorkerCrash
  <2> QED BY <2>2, AdvancesResolving
<1>4. ASSUME NEW y \in Syncer, NEW batch \in SUBSET Task, ClaimSyncBatch(y, batch)
      PROVE  ResolvingBeforeSubmit'
  <2>1. UNCHANGED <<handler, generation>> /\ \A t \in Task : RowAdvances(t)
    BY <1>4 DEF RowAdvances, ClaimSyncBatch, TypeOK, TaskRow
  <2> QED BY <2>1, RowsAdvance
<1>5. CASE \/ \E y \in Syncer : SyncerCrash(y)
           \/ \E a \in Account : AccountStep(a)
           \/ UNCHANGED vars
  <2>1. UNCHANGED <<handler, generation>> /\ \A t \in Task : RowAdvances(t)
    BY <1>5 DEF RowAdvances, SyncerCrash, AccountStep, ManualDisable, ManualEnable,
       EnforceAccountGuard, TokenReported,
       AccountValidated, RefreshBalance, Refreshed, vars
  <2> QED BY <2>1, RowsAdvance
<1> QED BY <1>1, <1>2, <1>3, <1>4, <1>5, ClaimResolving, WorkerResolving, LeaseResolving,
           SyncerResolving DEF Next

(* Whatever leases do, a task row says RESOLVING_MEDIA only while its      *)
(* current attempt has submitted nothing.                                  *)
THEOREM ResolvingIsBeforeSubmit == Spec => []ResolvingBeforeSubmit
<1>1. Init => ResolvingBeforeSubmit
  BY DEF Init, ResolvingBeforeSubmit, InFlight, NoHandler
<1>2. TypeOK /\ ResolvingBeforeSubmit /\ [Next]_vars => ResolvingBeforeSubmit'
  BY NextResolving
<1> QED BY <1>1, <1>2, TypeCorrect, PTL DEF Spec

SafeRequeue ==
    \A t \in Task :
      /\ task[t].status \in InFlight
      /\ task'[t].status = "RETRY_WAIT"
      /\ handler' = handler
      => generation[t][task[t].attempts] = Nobody

LEMMA NextSafeRequeue ==
    TypeOK /\ SyncScheduleAgrees /\ ResolvingBeforeSubmit /\ [Next]_vars => SafeRequeue
<1> SUFFICES ASSUME TypeOK, SyncScheduleAgrees, ResolvingBeforeSubmit, [Next]_vars,
                    NEW t \in Task, task[t].status \in InFlight,
                    task'[t].status = "RETRY_WAIT", handler' = handler
             PROVE  task[t].status = "RESOLVING_MEDIA"
  BY DEF SafeRequeue, ResolvingBeforeSubmit
<1>1. task[t].status # "RETRY_WAIT" /\ task' # task
  BY DEF InFlight
<1>2. ASSUME NEW u \in Task, CreateTask(u) \/ CancelTask(u)
      PROVE  FALSE
  BY <1>2 DEF CreateTask, CancelTask, TypeOK, TaskRow, InFlight, Waiting
<1>3. ASSUME NEW u \in Task, LeaseStep(u)
      PROVE  task[t].status = "RESOLVING_MEDIA"
  <2>1. CASE LeaseRunsOut(u) \/ RenewLease(u)
    BY <1>1, <2>1 DEF LeaseRunsOut, RenewLease
  <2>2. CASE RecoverExpiredLease(u)
    BY <1>1, <2>2 DEF RecoverExpiredLease, TypeOK, TaskRow
  <2>3. CASE SyncLeaseRunsOut(u)
    BY <1>1, <2>3 DEF SyncLeaseRunsOut, TypeOK, TaskRow
  <2>4. CASE FailTimedOut(u)
    BY <1>1, <2>4 DEF FailTimedOut, SyncReleased, TypeOK, TaskRow
  <2> QED BY <1>3, <2>1, <2>2, <2>3, <2>4 DEF LeaseStep
<1>4. ASSUME NEW w \in Worker, NEW u \in Task,
             ClaimFindsNoAccount(w, u) \/ \E a \in Account : ClaimAndAssign(w, u, a)
      PROVE  FALSE
  <2>1. CASE u # t
    BY <1>1, <1>4, <2>1 DEF ClaimFindsNoAccount, ClaimAndAssign, TypeOK
  <2>2. CASE u = t
    BY <1>4, <2>2, Vocabulary DEF ClaimFindsNoAccount, ClaimAndAssign, Claimable
  <2> QED BY <2>1, <2>2
<1>5. ASSUME NEW u \in Task, NEW n \in Attempt, WorkerStep(u, n)
      PROVE  FALSE
  <2>1. CASE FinishSubmitSuccess(u, n) \/ FinishSubmitFailure(u, n)
    <3>1. handler'[u][n] = NoHandler /\ handler[u][n].pc # "idle"
      BY <2>1 DEF FinishSubmitSuccess, FinishSubmitFailure, TypeOK
    <3> QED BY <3>1 DEF NoHandler
  <2>2. CASE MarkSubmissionReady(u, n)
    BY <1>1, <2>2 DEF MarkSubmissionReady, TypeOK, TaskRow
  <2> QED BY <1>1, <1>5, <2>1, <2>2 DEF WorkerStep, PreSubmitRefresh, UpstreamRaises,
             GenerateAccepted, GenerateAnswerLost, FinishAborts, RenewalEnds
<1>6. ASSUME NEW y \in Syncer, NEW batch \in SUBSET Task, ClaimSyncBatch(y, batch)
      PROVE  FALSE
  BY <1>1, <1>6 DEF ClaimSyncBatch, TypeOK, TaskRow
<1>7. ASSUME NEW y \in Syncer, NEW u \in Task, SyncerStep(y, u)
      PROVE  FALSE
  <2>1. CASE LoadSyncItem(y, u) \/ PollDropped(y, u)
    BY <1>1, <2>1 DEF LoadSyncItem, PollDropped
  <2>2. CASE task[u].syncOwner = y /\ \A v \in Task : v # u => task'[v] = task[v]
    <3>1. task[u].status \in Upstream
      BY <2>2, RowAssumption DEF SyncScheduleAgrees
    <3> QED BY <1>1, <2>2, <3>1, Vocabulary
  <2>3. ASSUME NEW s, PollStillRunning(y, u, s)
        PROVE  FALSE
    BY <2>2, <2>3 DEF PollStillRunning, ResultApplies, TypeOK
  <2>4. ASSUME NEW low, PollCompleted(y, u, low)
        PROVE  FALSE
    BY <2>2, <2>4 DEF PollCompleted, ResultApplies, TypeOK
  <2>5. ASSUME NEW code, PollRetried(y, u, code)
        PROVE  FALSE
    BY <2>2, <2>5 DEF PollRetried, ResultApplies, TypeOK
  <2>6. ASSUME NEW code, PollFailed(y, u, code)
        PROVE  FALSE
    BY <2>2, <2>6 DEF PollFailed, ResultApplies, TypeOK
  <2>7. ASSUME NEW code, ApplyPollError(y, u, code)
        PROVE  FALSE
    BY <2>2, <2>7 DEF ApplyPollError, TypeOK
  <2> QED BY <1>7, <2>1, <2>3, <2>4, <2>5, <2>6, <2>7 DEF SyncerStep
<1>8. CASE \/ \E w \in Worker : WorkerCrash(w)
           \/ \E y \in Syncer : SyncerCrash(y)
           \/ \E a \in Account : AccountStep(a)
           \/ UNCHANGED vars
  BY <1>1, <1>8 DEF WorkerCrash, SyncerCrash, AccountStep, ManualDisable, ManualEnable,
     EnforceAccountGuard, TokenReported,
       AccountValidated, RefreshBalance, Refreshed, vars
<1> QED BY <1>2, <1>3, <1>4, <1>5, <1>6, <1>7, <1>8 DEF Next

(* recover_expired_leases requeues only attempts that never reached the    *)
(* provider, even when leases run out under live handlers.                 *)
THEOREM RecoveryIsSafe == Spec => RecoveryNeverResubmits
<1>1. TypeOK /\ SyncScheduleAgrees /\ ResolvingBeforeSubmit /\ [Next]_vars
      => [SafeRequeue]_vars
  BY NextSafeRequeue
<1> QED BY <1>1, TypeCorrect, ScheduleCorrect, ResolvingIsBeforeSubmit, PTL
    DEF Spec, RecoveryNeverResubmits, SafeRequeue

-----------------------------------------------------------------------------
(* A submission that fails was not accepted, if no answer is lost and no   *)
(* lease runs out under a live handler.                                    *)

BeforeAnswer == {"validate", "media", "submit", "failing"}

(* A handler still short of an accepted answer has no generation upstream. *)
NothingAccepted ==
    \A t \in Task, n \in Attempt :
      handler[t][n].pc \in BeforeAnswer => generation[t][n] = Nobody

(* A step after which an attempt is short of an answer only if it was, and *)
(* then without a new generation.                                          *)
StaysUnaccepted(t, n) ==
    handler'[t][n].pc \in BeforeAnswer =>
      handler[t][n].pc \in BeforeAnswer /\ generation'[t][n] = generation[t][n]

LEMMA UnacceptedStay ==
    ASSUME NothingAccepted, \A t \in Task, n \in Attempt : StaysUnaccepted(t, n)
    PROVE  NothingAccepted'
  BY DEF NothingAccepted, StaysUnaccepted

LEMMA SameHandlersUnaccepted ==
    ASSUME NothingAccepted, UNCHANGED <<handler, generation>>
    PROVE  NothingAccepted'
  BY DEF NothingAccepted

(* One handler moves; the history is kept unless the handler is answered.  *)
LEMMA HandlerUnaccepted ==
    ASSUME TypeOK, NothingAccepted, NEW t \in Task, NEW n \in Attempt, NEW h \in HandlerRow,
           handler' = [handler EXCEPT ![t][n] = h],
           handler[t][n].pc \in BeforeAnswer \/ h.pc \notin BeforeAnswer,
           \/ generation' = generation
           \/ /\ h.pc \notin BeforeAnswer
              /\ \E a \in Account : generation' = [generation EXCEPT ![t][n] = a]
    PROVE  NothingAccepted'
<1> SUFFICES ASSUME NEW u \in Task, NEW m \in Attempt
             PROVE  StaysUnaccepted(u, m)
  BY UnacceptedStay
<1>1. CASE u = t /\ m = n
  <2>1. handler'[t][n] = h
    BY DEF TypeOK
  <2> QED BY <1>1, <2>1 DEF StaysUnaccepted
<1>2. CASE ~(u = t /\ m = n)
  <2>1. handler'[u][m] = handler[u][m] /\ generation'[u][m] = generation[u][m]
    BY <1>2 DEF TypeOK
  <2> QED BY <2>1 DEF StaysUnaccepted
<1> QED BY <1>1, <1>2

LEMMA WorkerUnaccepted ==
    ASSUME ~LostAnswers, TypeOK, NothingAccepted, NEW t \in Task, NEW n \in Attempt,
           WorkerStep(t, n)
    PROVE  NothingAccepted'
<1>1. handler[t][n] \in HandlerRow
  BY DEF TypeOK
<1>2. ASSUME NEW code \in ErrorCode, Fail(t, n, code), generation' = generation,
             handler[t][n].pc \in BeforeAnswer
      PROVE  NothingAccepted'
  <2> DEFINE h == [handler[t][n] EXCEPT !.pc = "failing", !.error = code]
  <2>1. h \in HandlerRow
    BY <1>1 DEF HandlerRow
  <2>2. handler' = [handler EXCEPT ![t][n] = h]
    BY <1>2 DEF Fail
  <2> HIDE DEF h
  <2> QED BY <1>2, <2>1, <2>2, HandlerUnaccepted
<1>3. ASSUME NEW p \in {"media", "submit", "orphaned"}, Goto(t, n, p),
             generation' = generation, handler[t][n].pc \in BeforeAnswer \/ p = "orphaned"
      PROVE  NothingAccepted'
  <2> DEFINE h == [handler[t][n] EXCEPT !.pc = p]
  <2>1. h \in HandlerRow /\ h.pc = p
    BY <1>1 DEF HandlerRow
  <2>2. handler' = [handler EXCEPT ![t][n] = h]
    BY <1>3 DEF Goto
  <2> HIDE DEF h
  <2> QED BY <1>3, <2>1, <2>2, HandlerUnaccepted DEF BeforeAnswer
<1>4. CASE PreSubmitRefresh(t, n)
  <2>1. generation' = generation /\ handler[t][n].pc \in BeforeAnswer
    BY <1>4 DEF PreSubmitRefresh, BeforeAnswer
  <2>2. \/ \E code \in ErrorCode : Fail(t, n, code)
        \/ Goto(t, n, AfterRefresh(t))
    BY <1>4, RowAssumption DEF PreSubmitRefresh, ErrorCode
  <2>3. AfterRefresh(t) \in {"media", "submit", "orphaned"}
    BY DEF AfterRefresh
  <2> QED BY <1>2, <1>3, <2>1, <2>2, <2>3
<1>5. CASE MarkSubmissionReady(t, n)
  <2>1. generation' = generation /\ handler[t][n].pc \in BeforeAnswer
    BY <1>5 DEF MarkSubmissionReady, BeforeAnswer
  <2>2. Fail(t, n, "TRANSIENT") \/ Goto(t, n, "submit")
    BY <1>5 DEF MarkSubmissionReady
  <2> QED BY <1>2, <1>3, <2>1, <2>2 DEF ErrorCode
<1>6. CASE \E code \in Errors : UpstreamRaises(t, n, code)
  BY <1>2, <1>6, RowAssumption DEF UpstreamRaises, BeforeAnswer
<1>7. ASSUME NEW cost \in ApiCost, GenerateAccepted(t, n, cost)
      PROVE  NothingAccepted'
  <2> DEFINE h == [handler[t][n] EXCEPT !.pc = "accepted", !.cost = cost]
  <2>1. handler[t][n].pc = "submit" /\ h \in HandlerRow /\ h.pc \notin BeforeAnswer
    BY <1>1, <1>7, CostAssumption DEF GenerateAccepted, HandlerRow, BeforeAnswer
  <2>2. handler' = [handler EXCEPT ![t][n] = h]
    BY <1>7 DEF GenerateAccepted
  <2>3. generation' = [generation EXCEPT ![t][n] = handler[t][n].account]
    BY <1>7 DEF GenerateAccepted
  <2> HIDE DEF h
  <2>4. ASSUME NEW u \in Task, NEW m \in Attempt
        PROVE  StaysUnaccepted(u, m)
    <3>1. CASE u = t /\ m = n
      BY <2>1, <2>2, <3>1 DEF StaysUnaccepted, TypeOK
    <3>2. CASE ~(u = t /\ m = n)
      BY <2>2, <2>3, <3>2 DEF StaysUnaccepted, TypeOK
    <3> QED BY <3>1, <3>2
  <2> QED BY <2>4, UnacceptedStay
<1>8. CASE FinishSubmitSuccess(t, n) \/ FinishSubmitFailure(t, n) \/ RenewalEnds(t, n)
  <2>1. generation' = generation /\ handler' = [handler EXCEPT ![t][n] = NoHandler]
    BY <1>8 DEF FinishSubmitSuccess, FinishSubmitFailure, RenewalEnds
  <2>2. NoHandler \in HandlerRow /\ NoHandler.pc \notin BeforeAnswer
    BY DEF HandlerRow, NoHandler, BeforeAnswer
  <2> QED BY <2>1, <2>2, HandlerUnaccepted
<1>9. CASE FinishAborts(t, n)
  <2>1. generation' = generation /\ Goto(t, n, "orphaned")
    BY <1>9 DEF FinishAborts
  <2> QED BY <1>3, <2>1
<1> QED BY <1>4, <1>5, <1>6, <1>7, <1>8, <1>9 DEF WorkerStep, GenerateAnswerLost

(* A new attempt has no history: ResolvingBeforeSubmit.                    *)
LEMMA ClaimUnaccepted ==
    ASSUME TypeOK, ResolvingBeforeSubmit, NothingAccepted, NEW w \in Worker, NEW t \in Task,
           NEW a \in Account, ClaimAndAssign(w, t, a)
    PROVE  NothingAccepted'
<1> DEFINE k == task[t].attempts + 1
           started == [pc |-> "validate", worker |-> w, account |-> a,
                       cost |-> Estimate, error |-> "none"]
<1>1. /\ k \in Attempt /\ handler' = [handler EXCEPT ![t][k] = started]
      /\ generation' = generation
  BY DEF ClaimAndAssign
<1>2. task[t].attempts \in Nat /\ k > task[t].attempts
  BY BudgetAssumption DEF TypeOK, TaskRow
<1>3. generation[t][k] = Nobody
  BY <1>1, <1>2 DEF ResolvingBeforeSubmit
<1> HIDE DEF k, started
<1> SUFFICES ASSUME NEW u \in Task, NEW m \in Attempt, handler'[u][m].pc \in BeforeAnswer
             PROVE  generation[u][m] = Nobody
  BY <1>1 DEF NothingAccepted
<1>4. CASE u = t /\ m = k
  BY <1>3, <1>4
<1>5. CASE ~(u = t /\ m = k)
  <2>1. handler'[u][m] = handler[u][m]
    BY <1>1, <1>5 DEF TypeOK
  <2> QED BY <2>1 DEF NothingAccepted
<1> QED BY <1>4, <1>5

LEMMA NextUnaccepted ==
    ASSUME ~LostAnswers
    PROVE  TypeOK /\ ResolvingBeforeSubmit /\ NothingAccepted /\ [Next]_vars
           => NothingAccepted'
<1> SUFFICES ASSUME TypeOK, ResolvingBeforeSubmit, NothingAccepted, [Next]_vars
             PROVE  NothingAccepted'
  OBVIOUS
<1>1. ASSUME NEW w \in Worker, WorkerCrash(w)
      PROVE  NothingAccepted'
  <2>1. \A t \in Task, n \in Attempt : StaysUnaccepted(t, n)
    BY <1>1 DEF StaysUnaccepted, WorkerCrash, NoHandler, BeforeAnswer
  <2> QED BY <2>1, UnacceptedStay
<1>2. ASSUME NEW t \in Task,
             CreateTask(t) \/ CancelTask(t) \/ \E w \in Worker : ClaimFindsNoAccount(w, t)
      PROVE  NothingAccepted'
  BY <1>2, SameHandlersUnaccepted DEF CreateTask, CancelTask, ClaimFindsNoAccount
<1>3. ASSUME NEW t \in Task, LeaseStep(t) \/ \E y \in Syncer : SyncerStep(y, t)
      PROVE  NothingAccepted'
  BY <1>3, SameHandlersUnaccepted
     DEF LeaseStep, LeaseRunsOut, RenewLease, RecoverExpiredLease, SyncLeaseRunsOut,
         FailTimedOut, SyncerStep, LoadSyncItem, PollDropped, PollStillRunning,
         PollCompleted, PollRetried, PollFailed, ApplyPollError
<1>4. CASE \/ \E y \in Syncer, batch \in SUBSET Task : ClaimSyncBatch(y, batch)
           \/ \E y \in Syncer : SyncerCrash(y)
           \/ \E a \in Account : AccountStep(a)
           \/ UNCHANGED vars
  BY <1>4, SameHandlersUnaccepted
     DEF ClaimSyncBatch, SyncerCrash, AccountStep, ManualDisable, ManualEnable,
         EnforceAccountGuard, TokenReported, AccountValidated, RefreshBalance, Refreshed, vars
<1> QED BY <1>1, <1>2, <1>3, <1>4, ClaimUnaccepted, WorkerUnaccepted DEF Next

RequeuedUnsubmitted ==
    \A t \in Task :
      task[t].status \in InFlight /\ task'[t].status = "RETRY_WAIT"
      => generation[t][task[t].attempts] = Nobody

LEMMA NextRequeues ==
    TypeOK /\ SyncScheduleAgrees /\ ResolvingBeforeSubmit /\ HandlerOwnsTask
    /\ NothingAccepted /\ [Next]_vars => RequeuedUnsubmitted
<1> SUFFICES ASSUME TypeOK, SyncScheduleAgrees, ResolvingBeforeSubmit, HandlerOwnsTask,
                    NothingAccepted, [Next]_vars,
                    NEW t \in Task, task[t].status \in InFlight,
                    task'[t].status = "RETRY_WAIT"
             PROVE  generation[t][task[t].attempts] = Nobody
  BY DEF RequeuedUnsubmitted
<1>1. CASE handler' = handler
  BY <1>1, NextSafeRequeue DEF SafeRequeue
<1>2. ASSUME NEW u \in Task, NEW n \in Attempt, FinishSubmitFailure(u, n)
      PROVE  generation[t][task[t].attempts] = Nobody
  <2>1. u = t
    <3>1. u # t => task'[t] = task[t]
      BY <1>2 DEF FinishSubmitFailure, TypeOK
    <3> QED BY <3>1 DEF InFlight
  <2>2. handler[t][n].pc = "failing"
    BY <1>2, <2>1 DEF FinishSubmitFailure
  <2>3. task[t].attempts = n
    BY <2>2 DEF HandlerOwnsTask
  <2> QED BY <2>2, <2>3 DEF NothingAccepted, BeforeAnswer
<1>3. ASSUME NEW u \in Task, NEW n \in Attempt, WorkerStep(u, n), ~FinishSubmitFailure(u, n)
      PROVE  FALSE
  <2>1. CASE UNCHANGED task
    BY <2>1 DEF InFlight
  <2>2. CASE MarkSubmissionReady(u, n)
    BY <2>2 DEF MarkSubmissionReady, TypeOK, TaskRow, InFlight
  <2>3. CASE FinishSubmitSuccess(u, n)
    <3>1. CASE task[u].status # "SUBMITTING"
      BY <2>3, <3>1 DEF FinishSubmitSuccess, InFlight
    <3>2. CASE task[u].status = "SUBMITTING"
      <4> DEFINE row == [task[u] EXCEPT !.status = "UPSTREAM_QUEUED",
                                        !.reserved = handler[u][n].cost,
                                        !.upstreamId = n, !.nextSync = TRUE]
      <4>1. task' = [task EXCEPT ![u] = row]
        BY <2>3, <3>2 DEF FinishSubmitSuccess
      <4>2. row.status = "UPSTREAM_QUEUED"
        BY DEF TypeOK, TaskRow
      <4> HIDE DEF row
      <4> QED BY <4>1, <4>2 DEF TypeOK, InFlight
    <3> QED BY <3>1, <3>2
  <2> QED BY <1>3, <2>1, <2>2, <2>3 DEF WorkerStep, PreSubmitRefresh, UpstreamRaises,
             GenerateAccepted, GenerateAnswerLost, FinishAborts, RenewalEnds
<1>4. ASSUME NEW w \in Worker, NEW u \in Task, NEW a \in Account, ClaimAndAssign(w, u, a)
      PROVE  FALSE
  <2>1. CASE u # t
    BY <1>4, <2>1 DEF ClaimAndAssign, TypeOK, InFlight
  <2>2. CASE u = t
    BY <1>4, <2>2, Vocabulary DEF ClaimAndAssign, Claimable
  <2> QED BY <2>1, <2>2
<1>5. ASSUME NEW w \in Worker, WorkerCrash(w)
      PROVE  FALSE
  BY <1>5 DEF WorkerCrash, InFlight
<1>6. CASE \/ \E u \in Task : CreateTask(u) \/ CancelTask(u) \/ LeaseStep(u)
           \/ \E u \in Task, w \in Worker : ClaimFindsNoAccount(w, u)
           \/ \E y \in Syncer, u \in Task : SyncerStep(y, u)
           \/ \E y \in Syncer, batch \in SUBSET Task : ClaimSyncBatch(y, batch)
           \/ \E y \in Syncer : SyncerCrash(y)
           \/ \E a \in Account : AccountStep(a)
           \/ UNCHANGED vars
  <2>1. ASSUME NEW u \in Task, CreateTask(u) \/ CancelTask(u) \/ LeaseStep(u)
        PROVE  handler' = handler
    BY <2>1 DEF CreateTask, CancelTask, LeaseStep, LeaseRunsOut, RenewLease,
       RecoverExpiredLease, SyncLeaseRunsOut, FailTimedOut
  <2>2. ASSUME NEW y \in Syncer, NEW u \in Task, SyncerStep(y, u)
        PROVE  handler' = handler
    BY <2>2 DEF SyncerStep, LoadSyncItem, PollDropped, PollStillRunning, PollCompleted,
       PollRetried, PollFailed, ApplyPollError
  <2>3. ASSUME \/ \E u \in Task, w \in Worker : ClaimFindsNoAccount(w, u)
               \/ \E y \in Syncer, batch \in SUBSET Task : ClaimSyncBatch(y, batch)
               \/ \E y \in Syncer : SyncerCrash(y)
               \/ UNCHANGED vars
        PROVE  handler' = handler
    BY <2>3 DEF ClaimFindsNoAccount, ClaimSyncBatch, SyncerCrash, vars
  <2>4. ASSUME NEW a \in Account, AccountStep(a)
        PROVE  handler' = handler
    BY <2>4 DEF AccountStep, ManualDisable, ManualEnable, EnforceAccountGuard,
       TokenReported, AccountValidated, RefreshBalance, Refreshed
  <2>5. handler' = handler
    BY <1>6, <2>1, <2>2, <2>3, <2>4
  <2> QED BY <1>1, <2>5
<1> QED BY <1>2, <1>3, <1>4, <1>5, <1>6 DEF Next

(* With no lost answer and no overrun, a retried submission never was      *)
(* accepted: "pre-generation" is right.  What retry_after_generation shows *)
(* violated is so because of lost answers alone.                           *)
THEOREM RetriesPrecedeGeneration ==
    ASSUME ~LostAnswers, ~LeaseOverrun
    PROVE  Spec => RetriesArePreGeneration
<1>1. Init => NothingAccepted
  BY DEF Init, NothingAccepted, NoHandler, BeforeAnswer
<1>2. TypeOK /\ ResolvingBeforeSubmit /\ NothingAccepted /\ [Next]_vars => NothingAccepted'
  BY NextUnaccepted
<1>3. TypeOK /\ SyncScheduleAgrees /\ ResolvingBeforeSubmit /\ HandlerOwnsTask
      /\ NothingAccepted /\ [Next]_vars => [RequeuedUnsubmitted]_vars
  BY NextRequeues
<1> QED BY <1>1, <1>2, <1>3, TypeCorrect, ScheduleCorrect, ResolvingIsBeforeSubmit,
           HandlersOwnTheirTasks, PTL DEF Spec, RetriesArePreGeneration, RequeuedUnsubmitted
=============================================================================
