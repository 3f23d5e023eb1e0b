------------------- MODULE TaskLifecycleAccountingProofs --------------------
(***************************************************************************)
(* What the rows of TaskLifecycle account for, while no lease runs out     *)
(* under a live handler: the slots of accounts and spaces, counted on the  *)
(* tasks themselves, stay within their concurrency; a task the provider    *)
(* works on is the one its account submitted; what an account has in use   *)
(* and reserved is what its tasks hold; and the pipeline as a whole keeps  *)
(* the contract that TaskContract states.                                  *)
(***************************************************************************)
EXTENDS TaskLifecycleProofs, TaskLifecycleContract, SumLemmas

Holding == InFlight \cup Upstream

SpaceHolders(s) == {t \in Task : \E a \in Account : SpaceOf[a] = s /\ t \in Holders(a)}

(* The counters count the tasks that hold a slot.  A task that holds one   *)
(* names an account, or else nobody would get the slot back.               *)
Counted ==
    /\ \A t \in Task : task[t].status \in Holding => task[t].account \in Account
    /\ \A a \in Account :
         account[a].active = Cardinality(Holders(a)) /\ account[a].active <= AccountCapacity
    /\ \A s \in Space : slots[s] = Cardinality(SpaceHolders(s)) /\ slots[s] <= SpaceCapacity

LEMMA HoldersFinite ==
    /\ \A a \in Account : IsFiniteSet(Holders(a)) /\ Cardinality(Holders(a)) \in Nat
    /\ \A s \in Space : IsFiniteSet(SpaceHolders(s)) /\ Cardinality(SpaceHolders(s)) \in Nat
<1>1. \A S \in SUBSET Task : IsFiniteSet(S) /\ Cardinality(S) \in Nat
  BY FiniteAssumption, FS_Subset, FS_CardinalityType
<1> QED BY <1>1 DEF Holders, SpaceHolders

LEMMA CountedIsWithin == Counted => WithinCapacity
<1> SUFFICES ASSUME Counted PROVE WithinCapacity
  OBVIOUS
<1>1. \A a \in Account : Cardinality(Holders(a)) <= AccountCapacity
  BY DEF Counted
<1>2. \A s \in Space : Cardinality(SpaceHolders(s)) <= SpaceCapacity
  BY DEF Counted
<1> QED BY <1>1, <1>2 DEF WithinCapacity, SpaceHolders

-----------------------------------------------------------------------------
(* What a step may do to the slots: nothing, take one, or give one back.   *)

SameHolding(t) ==
    /\ task'[t].status \in Holding <=> task[t].status \in Holding
    /\ task[t].status \in Holding => task'[t].account = task[t].account

LEMMA SameHolders ==
    ASSUME \A t \in Task : SameHolding(t)
    PROVE  /\ \A a \in Account : Holders(a)' = Holders(a)
           /\ \A s \in Space : SpaceHolders(s)' = SpaceHolders(s)
<1>1. \A a \in Account : Holders(a)' = Holders(a)
  BY DEF SameHolding, Holders, Holding
<1> QED BY <1>1 DEF SpaceHolders

LEMMA KeepsSlots ==
    ASSUME Counted, \A t \in Task : SameHolding(t),
           \A a \in Account : account'[a].active = account[a].active, slots' = slots
    PROVE  Counted'
  BY SameHolders DEF Counted, SameHolding

(* The counters of one account and of its space change by the same amount. *)
Recounted(a, n, k) ==
    /\ \A b \in Account : account'[b].active = IF b = a THEN n ELSE account[b].active
    /\ \A s \in Space : slots'[s] = IF s = SpaceOf[a] THEN k ELSE slots[s]

LEMMA TakesSlot ==
    ASSUME Counted, NEW t \in Task, NEW a \in Account,
           task[t].status \notin Holding,
           task'[t].status \in Holding, task'[t].account = a,
           \A u \in Task \ {t} : SameHolding(u),
           account[a].active < AccountCapacity, slots[SpaceOf[a]] < SpaceCapacity,
           Recounted(a, account[a].active + 1, slots[SpaceOf[a]] + 1)
    PROVE  Counted'
<1>1. \A b \in Account : Holders(b)' = IF b = a THEN Holders(b) \cup {t} ELSE Holders(b)
  BY DEF SameHolding, Holders, Holding
<1>2. \A s \in Space : SpaceHolders(s)' = IF s = SpaceOf[a] THEN SpaceHolders(s) \cup {t}
                                                            ELSE SpaceHolders(s)
  BY <1>1 DEF SpaceHolders
<1>3. \A b \in Account : t \notin Holders(b)
  BY DEF Holders, Holding
<1>4. \A s \in Space : t \notin SpaceHolders(s)
  BY <1>3 DEF SpaceHolders
<1>5. Cardinality(Holders(a) \cup {t}) = Cardinality(Holders(a)) + 1
  BY <1>3, HoldersFinite, FS_AddElement
<1>6. SpaceOf[a] \in Space
  BY RowAssumption
<1>7. Cardinality(SpaceHolders(SpaceOf[a]) \cup {t}) = Cardinality(SpaceHolders(SpaceOf[a])) + 1
  BY <1>4, <1>6, HoldersFinite, FS_AddElement
<1>8. ASSUME NEW b \in Account
      PROVE  account'[b].active = Cardinality(Holders(b)') /\ account'[b].active <= AccountCapacity
  <2>1. CASE b = a
    <3>1. Holders(b)' = Holders(a) \cup {t} /\ account'[b].active = account[a].active + 1
      BY <1>1, <2>1 DEF Recounted
    <3> QED BY <1>5, <3>1, HoldersFinite, CapacityAssumption DEF Counted
  <2>2. CASE b # a
    <3>1. Holders(b)' = Holders(b) /\ account'[b].active = account[b].active
      BY <1>1, <2>2 DEF Recounted
    <3> QED BY <3>1 DEF Counted
  <2> QED BY <2>1, <2>2
<1>9. ASSUME NEW s \in Space
      PROVE  slots'[s] = Cardinality(SpaceHolders(s)') /\ slots'[s] <= SpaceCapacity
  <2>1. CASE s = SpaceOf[a]
    <3>1. SpaceHolders(s)' = SpaceHolders(s) \cup {t} /\ slots'[s] = slots[s] + 1
      BY <1>2, <2>1 DEF Recounted
    <3> QED BY <1>6, <1>7, <2>1, <3>1, HoldersFinite, CapacityAssumption DEF Counted
  <2>2. CASE s # SpaceOf[a]
    <3>1. SpaceHolders(s)' = SpaceHolders(s) /\ slots'[s] = slots[s]
      BY <1>2, <2>2 DEF Recounted
    <3> QED BY <3>1 DEF Counted
  <2> QED BY <2>1, <2>2
<1>10. \A u \in Task : task'[u].status \in Holding => task'[u].account \in Account
  BY DEF Counted, SameHolding
<1> QED BY <1>8, <1>9, <1>10 DEF Counted

LEMMA GivesSlotBack ==
    ASSUME Counted, NEW t \in Task, NEW a \in Account,
           task[t].status \in Holding, task[t].account = a,
           task'[t].status \notin Holding,
           \A u \in Task \ {t} : SameHolding(u),
           Recounted(a, Minus(account[a].active, 1), Minus(slots[SpaceOf[a]], 1))
    PROVE  Counted'
<1>1. \A b \in Account : Holders(b)' = IF b = a THEN Holders(b) \ {t} ELSE Holders(b)
  BY DEF SameHolding, Holders, Holding
<1>2. t \in Holders(a) /\ \A b \in Account \ {a} : t \notin Holders(b)
  BY DEF Holders, Holding
<1>3. SpaceOf[a] \in Space /\ t \in SpaceHolders(SpaceOf[a])
  BY <1>2, RowAssumption DEF SpaceHolders
<1>4. ASSUME NEW s \in Space
      PROVE  SpaceHolders(s)' = IF s = SpaceOf[a] THEN SpaceHolders(s) \ {t} ELSE SpaceHolders(s)
  <2>1. SpaceHolders(s)' = {u \in Task : \E b \in Account : SpaceOf[b] = s /\ u \in Holders(b)'}
    BY DEF SpaceHolders
  <2>2. \A b \in Account : t \notin Holders(b)'
    BY <1>1, <1>2
  <2>3. s # SpaceOf[a] => t \notin SpaceHolders(s)
    BY <1>2 DEF SpaceHolders
  <2>4. \A u \in Task \ {t} : u \in SpaceHolders(s)' <=> u \in SpaceHolders(s)
    BY <1>1, <2>1 DEF SpaceHolders
  <2>5. t \notin SpaceHolders(s)'
    BY <2>1, <2>2
  <2>6. SpaceHolders(s) \subseteq Task /\ SpaceHolders(s)' \subseteq Task
    BY <2>1 DEF SpaceHolders
  <2> QED BY <2>3, <2>4, <2>5, <2>6
<1>5. Cardinality(Holders(a) \ {t}) = Cardinality(Holders(a)) - 1
  BY <1>2, HoldersFinite, FS_RemoveElement
<1>6. Cardinality(SpaceHolders(SpaceOf[a]) \ {t}) = Cardinality(SpaceHolders(SpaceOf[a])) - 1
  BY <1>3, HoldersFinite, FS_RemoveElement
<1>7. Cardinality(Holders(a)) # 0 /\ Cardinality(SpaceHolders(SpaceOf[a])) # 0
  BY <1>2, <1>3, HoldersFinite, FS_EmptySet
<1>8. ASSUME NEW b \in Account
      PROVE  account'[b].active = Cardinality(Holders(b)') /\ account'[b].active <= AccountCapacity
  <2>1. CASE b = a
    <3>1. Holders(b)' = Holders(a) \ {t} /\ account'[b].active = Minus(account[a].active, 1)
      BY <1>1, <2>1 DEF Recounted
    <3> QED BY <1>5, <1>7, <3>1, HoldersFinite, CapacityAssumption DEF Counted, Minus
  <2>2. CASE b # a
    <3>1. Holders(b)' = Holders(b) /\ account'[b].active = account[b].active
      BY <1>1, <2>2 DEF Recounted
    <3> QED BY <3>1 DEF Counted
  <2> QED BY <2>1, <2>2
<1>9. ASSUME NEW s \in Space
      PROVE  slots'[s] = Cardinality(SpaceHolders(s)') /\ slots'[s] <= SpaceCapacity
  <2>1. CASE s = SpaceOf[a]
    <3>1. SpaceHolders(s)' = SpaceHolders(s) \ {t} /\ slots'[s] = Minus(slots[s], 1)
      BY <1>4, <2>1 DEF Recounted
    <3> QED BY <1>6, <1>7, <2>1, <3>1, HoldersFinite, CapacityAssumption DEF Counted, Minus
  <2>2. CASE s # SpaceOf[a]
    <3>1. SpaceHolders(s)' = SpaceHolders(s) /\ slots'[s] = slots[s]
      BY <1>4, <2>2 DEF Recounted
    <3> QED BY <3>1 DEF Counted
  <2> QED BY <2>1, <2>2
<1>10. \A u \in Task : task'[u].status \in Holding => task'[u].account \in Account
  BY DEF Counted, SameHolding
<1> QED BY <1>8, <1>9, <1>10 DEF Counted

-----------------------------------------------------------------------------
(* What the actions do to the counters and to the row of a task.           *)

LEMMA OneRow ==
    ASSUME TypeOK, NEW t \in Task, NEW row, task' = [task EXCEPT ![t] = row]
    PROVE  task'[t] = row /\ \A u \in Task \ {t} : task'[u] = task[u] /\ SameHolding(u)
  BY DEF TypeOK, SameHolding

LEMMA SameActive ==
    ASSUME TypeOK, NEW a, NEW r, account' = [account EXCEPT ![a] = r],
           a \in Account => r.active = account[a].active
    PROVE  \A b \in Account : account'[b].active = account[b].active
  BY DEF TypeOK

LEMMA RowsOfAccount ==
    ASSUME NEW r \in AccountRow, NEW s, NEW b, NEW c
    PROVE  /\ [r EXCEPT !.status = s].active = r.active
           /\ [r EXCEPT !.status = s, !.unauthorized = b].active = r.active
           /\ [r EXCEPT !.reserved = c].active = r.active
           /\ Charged(r, c).active = r.active + 1
           /\ Released(r, c).active = Minus(r.active, 1)
           /\ [Released(r, c) EXCEPT !.status = s].active = Minus(r.active, 1)
           /\ [Released(r, c) EXCEPT !.status = s, !.unauthorized = b].active = Minus(r.active, 1)
<1> DEFINE n == Minus(r.active, 1)
           d == Minus(r.reserved, c)
           u == r.active + 1
           v == r.reserved + c
<1>1. Released(r, c) = [r EXCEPT !.active = n, !.reserved = d]
  BY DEF Released
<1>2. Charged(r, c) = [r EXCEPT !.active = u, !.reserved = v]
  BY DEF Charged
<1> HIDE DEF n, d, u, v
<1>3. [r EXCEPT !.active = u, !.reserved = v].active = u
  BY DEF AccountRow
<1>4. /\ [r EXCEPT !.active = n, !.reserved = d].active = n
      /\ [[r EXCEPT !.active = n, !.reserved = d] EXCEPT !.status = s].active = n
      /\ [[r EXCEPT !.active = n, !.reserved = d] EXCEPT !.status = s, !.unauthorized = b].active = n
  BY DEF AccountRow
<1>5. /\ [r EXCEPT !.status = s].active = r.active
      /\ [r EXCEPT !.status = s, !.unauthorized = b].active = r.active
      /\ [r EXCEPT !.reserved = c].active = r.active
  BY DEF AccountRow
<1> QED BY <1>1, <1>2, <1>3, <1>4, <1>5 DEF n, u

LEMMA SlotReturned ==
    ASSUME TypeOK, NEW a \in Account, NEW r, r.active = Minus(account[a].active, 1),
           account' = [account EXCEPT ![a] = r], ReleaseSlot(a)
    PROVE  Recounted(a, Minus(account[a].active, 1), Minus(slots[SpaceOf[a]], 1))
  BY RowAssumption DEF TypeOK, ReleaseSlot, Recounted

(* A row that ends its hold, and gives its slot back.                      *)
LEMMA RowReleased ==
    ASSUME TypeOK, Counted, NEW t \in Task, NEW row, NEW r,
           task[t].status \in Holding, row.status \notin Holding,
           task' = [task EXCEPT ![t] = row],
           account' = [account EXCEPT ![task[t].account] = r],
           r.active = Minus(account[task[t].account].active, 1),
           ReleaseSlot(task[t].account)
    PROVE  Counted'
<1>1. PICK a \in Account : a = task[t].account
  BY DEF Counted
<1>2. Recounted(a, Minus(account[a].active, 1), Minus(slots[SpaceOf[a]], 1))
  BY <1>1, SlotReturned
<1> QED BY <1>1, <1>2, OneRow, GivesSlotBack

(* A row that keeps its hold or its lack of one.                           *)
LEMMA RowKept ==
    ASSUME TypeOK, Counted, NEW t \in Task, NEW row, task' = [task EXCEPT ![t] = row],
           row.status \in Holding <=> task[t].status \in Holding,
           row.account = task[t].account,
           \A b \in Account : account'[b].active = account[b].active, slots' = slots
    PROVE  Counted'
<1>1. \A u \in Task : SameHolding(u)
  BY OneRow DEF SameHolding
<1> QED BY <1>1, KeepsSlots

LEMMA RowsKept ==
    ASSUME TypeOK, Counted, task' = task, slots' = slots,
           \A b \in Account : account'[b].active = account[b].active
    PROVE  Counted'
<1>1. \A u \in Task : SameHolding(u)
  BY DEF SameHolding
<1> QED BY <1>1, KeepsSlots

(* The row of a task after the assignments of an action.                   *)
LEMMA RowsOfTask ==
    ASSUME NEW r \in TaskRow, NEW s, NEW c, NEW n, NEW b, NEW a, NEW f
    PROVE  /\ [r EXCEPT !.status = s].status = s /\ [r EXCEPT !.status = s].account = r.account
           /\ [r EXCEPT !.status = s, !.reserved = c].status = s
           /\ [r EXCEPT !.status = s, !.account = a, !.reserved = c, !.attempts = n].status = s
           /\ [r EXCEPT !.status = s, !.account = a, !.reserved = c, !.attempts = n].account = a
           /\ [r EXCEPT !.status = s, !.reserved = c, !.upstreamId = n, !.nextSync = b].status = s
           /\ [r EXCEPT !.status = s, !.reserved = c, !.upstreamId = n, !.nextSync = b].account = r.account
           /\ [SyncReleased(r) EXCEPT !.status = s].status = s
           /\ [SyncReleased(r) EXCEPT !.status = s].account = r.account
           /\ [SyncReleased(r) EXCEPT !.status = s, !.nextSync = b].status = s
           /\ [SyncReleased(r) EXCEPT !.nextSync = b].status = r.status
           /\ [SyncReleased(r) EXCEPT !.nextSync = b].account = r.account
           /\ [SyncReleased(r) EXCEPT !.status = s, !.reserved = c, !.upstreamId = n,
                                     !.nextSync = b, !.retries = f].status = s
           /\ [r EXCEPT !.syncLive = b].status = r.status
           /\ [r EXCEPT !.syncLive = b].account = r.account
  BY DEF TaskRow, SyncReleased

-----------------------------------------------------------------------------
(* One lemma for the actions of each kind.                                 *)

LEMMA HoldingWords ==
    /\ \A s \in Waiting \cup Terminal \cup {"ABSENT"} : s \notin Holding
    /\ \A s \in InFlight \cup Upstream : s \in Holding
    /\ {"QUEUED", "WAITING_ACCOUNT", "RETRY_WAIT"} = Waiting
    /\ {"COMPLETED", "FAILED", "CANCELED"} = Terminal
    /\ {"RESOLVING_MEDIA", "SUBMITTING"} = InFlight
    /\ {"UPSTREAM_QUEUED", "RUNNING"} = Upstream
  BY DEF Holding, InFlight, Upstream, Waiting, Terminal

LEMMA StatusRewritten ==
    ASSUME TypeOK, Counted, NEW t \in Task, NEW s,
           task' = [task EXCEPT ![t] = [task[t] EXCEPT !.status = s]],
           s \in Holding <=> task[t].status \in Holding, UNCHANGED <<account, slots>>
    PROVE  Counted'
<1>1. PICK row : row = [task[t] EXCEPT !.status = s]
  OBVIOUS
<1>2. row.status = s /\ row.account = task[t].account
  BY <1>1, RowsOfTask DEF TypeOK
<1>3. task' = [task EXCEPT ![t] = row]
  BY <1>1
<1> QED BY <1>2, <1>3, RowKept

LEMMA ApiCounted ==
    ASSUME TypeOK, Counted, NEW t \in Task, CreateTask(t) \/ CancelTask(t)
    PROVE  Counted'
<1>0. task[t] \in TaskRow
  BY DEF TypeOK
<1>1. PICK s \in {"QUEUED", "CANCELED"} : task' = [task EXCEPT ![t] = [task[t] EXCEPT !.status = s]]
  BY DEF CreateTask, CancelTask
<1>2. task[t].status \notin Holding /\ s \notin Holding
  BY HoldingWords DEF CreateTask, CancelTask
<1>3. UNCHANGED <<account, slots>>
  BY DEF CreateTask, CancelTask
<1> QED BY <1>1, <1>2, <1>3, StatusRewritten

LEMMA ClaimCounted ==
    ASSUME TypeOK, Counted, NEW w \in Worker, NEW t \in Task,
           ClaimFindsNoAccount(w, t) \/ \E a \in Account : ClaimAndAssign(w, t, a)
    PROVE  Counted'
<1>0. task[t] \in TaskRow /\ task[t].status \notin Holding
  BY HoldingWords DEF TypeOK, ClaimFindsNoAccount, ClaimAndAssign, Claimable
<1>1. CASE ClaimFindsNoAccount(w, t)
  <2>1. task' = [task EXCEPT ![t] = [task[t] EXCEPT !.status = "WAITING_ACCOUNT"]]
        /\ UNCHANGED <<account, slots>>
    BY <1>1 DEF ClaimFindsNoAccount
  <2>2. "WAITING_ACCOUNT" \notin Holding
    BY HoldingWords
  <2> QED BY <1>0, <2>1, <2>2, StatusRewritten
<1>2. ASSUME NEW a \in Account, ClaimAndAssign(w, t, a)
      PROVE  Counted'
  <2>1. PICK row : row = [task[t] EXCEPT !.status = FirstStatus(t), !.account = a,
                            !.reserved = Estimate, !.attempts = task[t].attempts + 1]
    OBVIOUS
  <2>2. task' = [task EXCEPT ![t] = row]
    BY <1>2, <2>1 DEF ClaimAndAssign
  <2>3. row.status = FirstStatus(t) /\ row.account = a
    BY <1>0, <2>1, RowsOfTask
  <2>4. row.status \in Holding
    BY <2>3, HoldingWords DEF FirstStatus
  <2>5. Recounted(a, account[a].active + 1, slots[SpaceOf[a]] + 1)
    <3>1. account' = [account EXCEPT ![a] = Charged(account[a], Estimate)]
          /\ slots' = [slots EXCEPT ![SpaceOf[a]] = slots[SpaceOf[a]] + 1]
      BY <1>2 DEF ClaimAndAssign
    <3>2. Charged(account[a], Estimate).active = account[a].active + 1
      BY RowsOfAccount DEF TypeOK
    <3> QED BY <3>1, <3>2, RowAssumption DEF TypeOK, Recounted
  <2>6. account[a].active < AccountCapacity /\ slots[SpaceOf[a]] < SpaceCapacity
    BY <1>2 DEF ClaimAndAssign, Assignable
  <2> QED BY <1>0, <2>2, <2>3, <2>4, <2>5, <2>6, OneRow, TakesSlot
<1> QED BY <1>1, <1>2

LEMMA RefreshCounted ==
    ASSUME TypeOK, Counted, NEW t \in Task, NEW n \in Attempt, PreSubmitRefresh(t, n)
    PROVE  Counted'
<1>1. task' = task /\ slots' = slots
  BY DEF PreSubmitRefresh
<1>2. CASE UNCHANGED account
  BY <1>1, <1>2, RowsKept
<1>3. ASSUME NEW s, NEW b, Refreshed(handler[t][n].account, s, b)
      PROVE  Counted'
  BY <1>1, <1>3, RowsOfAccount, SameActive, RowsKept DEF Refreshed, TypeOK
<1> QED BY <1>2, <1>3 DEF PreSubmitRefresh

LEMMA SuccessCounted ==
    ASSUME TypeOK, Counted, NEW t \in Task, NEW n \in Attempt, FinishSubmitSuccess(t, n)
    PROVE  Counted'
<1>0. task[t] \in TaskRow /\ slots' = slots
  BY DEF TypeOK, FinishSubmitSuccess
<1>1. CASE task[t].status = "SUBMITTING"
  <2> DEFINE h == handler[t][n]
  <2>1. PICK row : /\ task' = [task EXCEPT ![t] = row]
                   /\ row = [task[t] EXCEPT !.status = "UPSTREAM_QUEUED", !.reserved = h.cost,
                                           !.upstreamId = n, !.nextSync = TRUE]
    BY <1>1 DEF FinishSubmitSuccess
  <2>2. PICK c : account' = [account EXCEPT ![h.account] = [account[h.account] EXCEPT !.reserved = c]]
    BY <1>1 DEF FinishSubmitSuccess
  <2>3. \A b \in Account : account'[b].active = account[b].active
    BY <2>2, RowsOfAccount, SameActive DEF TypeOK
  <2>4. row.status = "UPSTREAM_QUEUED" /\ row.account = task[t].account
    BY <1>0, <2>1, RowsOfTask
  <2>5. row.status \in Holding /\ task[t].status \in Holding
    BY <1>1, <2>4, HoldingWords
  <2> QED BY <1>0, <2>1, <2>3, <2>4, <2>5, RowKept
<1>2. CASE task[t].status # "SUBMITTING"
  BY <1>0, <1>2, RowsKept DEF FinishSubmitSuccess
<1> QED BY <1>1, <1>2

LEMMA FailureCounted ==
    ASSUME TypeOK, HandlerOwnsTask, Counted, NEW t \in Task, NEW n \in Attempt,
           FinishSubmitFailure(t, n)
    PROVE  Counted'
<1>1. CASE task[t].status \in InFlight
  <2>1. PICK a \in Account : a = task[t].account
    BY <1>1 DEF Counted, Holding
  <2>2. handler[t][n].account = a
    BY <2>1 DEF HandlerOwnsTask, FinishSubmitFailure
  <2> DEFINE e == handler[t][n].error
             status == StatusAfterError(e, account[a].status)
  <2>3. PICK r : /\ account' = [account EXCEPT ![a] = r]
                 /\ r = [Released(account[a], task[t].reserved) EXCEPT
                           !.status = status, !.unauthorized = (e = "UPSTREAM_UNAUTHORIZED")]
    BY <1>1, <2>2 DEF FinishSubmitFailure
  <2> HIDE DEF status
  <2>4. PICK s \in {"RETRY_WAIT", "FAILED"} :
          task' = [task EXCEPT ![t] = [task[t] EXCEPT !.status = s, !.reserved = 0]]
    BY <1>1 DEF FinishSubmitFailure
  <2>5. PICK row : row = [task[t] EXCEPT !.status = s, !.reserved = 0]
    OBVIOUS
  <2>6. r.active = Minus(account[a].active, 1) /\ row.status = s
    BY <2>3, <2>5, RowsOfAccount, RowsOfTask DEF TypeOK
  <2>7. ReleaseSlot(a)
    BY <1>1, <2>2 DEF FinishSubmitFailure
  <2>8. task[t].status \in Holding /\ row.status \notin Holding
    BY <1>1, <2>4, <2>6, HoldingWords
  <2> QED BY <2>1, <2>3, <2>4, <2>6, <2>7, <2>8, <2>5, RowReleased
<1>2. CASE task[t].status \notin InFlight
  BY <1>2, RowsKept DEF FinishSubmitFailure
<1> QED BY <1>1, <1>2

LEMMA WorkerCounted ==
    ASSUME TypeOK, HandlerOwnsTask, Counted, NEW t \in Task, NEW n \in Attempt, WorkerStep(t, n)
    PROVE  Counted'
<1>1. CASE MarkSubmissionReady(t, n)
  <2>1. CASE task[t].status = "RESOLVING_MEDIA"
    <3>1. task' = [task EXCEPT ![t] = [task[t] EXCEPT !.status = "SUBMITTING"]] /\ UNCHANGED <<account, slots>>
      BY <1>1, <2>1 DEF MarkSubmissionReady
    <3>2. "SUBMITTING" \in Holding /\ "RESOLVING_MEDIA" \in Holding
      BY HoldingWords
    <3> QED BY <2>1, <3>1, <3>2, StatusRewritten
  <2>2. CASE task[t].status # "RESOLVING_MEDIA"
    BY <1>1, <2>2, RowsKept DEF MarkSubmissionReady
  <2> QED BY <2>1, <2>2
<1>2. CASE UNCHANGED <<task, account, slots>>
  BY <1>2, RowsKept
<1>3. CASE \/ \E code \in Errors : UpstreamRaises(t, n, code)
           \/ \E cost \in ApiCost : GenerateAccepted(t, n, cost)
           \/ GenerateAnswerLost(t, n) \/ FinishAborts(t, n) \/ RenewalEnds(t, n)
  BY <1>2, <1>3 DEF UpstreamRaises, GenerateAccepted, GenerateAnswerLost, FinishAborts, RenewalEnds
<1> QED BY <1>1, <1>3, RefreshCounted, SuccessCounted, FailureCounted DEF WorkerStep

LEMMA LeaseCounted ==
    ASSUME TypeOK, Counted, NEW t \in Task, LeaseStep(t)
    PROVE  Counted'
<1>0. task[t] \in TaskRow
  BY DEF TypeOK
<1>1. CASE LeaseRunsOut(t) \/ RenewLease(t)
  BY <1>1, RowsKept DEF LeaseRunsOut, RenewLease
<1>2. CASE RecoverExpiredLease(t)
  <2>0. PICK s \in {"RETRY_WAIT", "FAILED"} :
          task' = [task EXCEPT ![t] = [task[t] EXCEPT !.status = s, !.reserved = 0]]
    BY <1>2 DEF RecoverExpiredLease
  <2>1. PICK row : /\ task' = [task EXCEPT ![t] = row]
                   /\ row = [task[t] EXCEPT !.status = s, !.reserved = 0]
    BY <2>0
  <2>2. task[t].status \in Holding /\ row.status = s
    BY <1>0, <1>2, <2>1, RowsOfTask, HoldingWords DEF RecoverExpiredLease
  <2>3. task[t].account \in Account
    BY <2>2 DEF Counted
  <2>4. PICK r : /\ account' = [account EXCEPT ![task[t].account] = r]
                 /\ r = Released(account[task[t].account], task[t].reserved)
    BY <1>2 DEF RecoverExpiredLease
  <2>5. r.active = Minus(account[task[t].account].active, 1)
    BY <2>3, <2>4, RowsOfAccount DEF TypeOK
  <2>6. ReleaseSlot(task[t].account) /\ row.status \notin Holding
    BY <1>2, <2>1, <2>2, HoldingWords DEF RecoverExpiredLease
  <2> QED BY <2>1, <2>2, <2>4, <2>5, <2>6, RowReleased
<1>3. CASE SyncLeaseRunsOut(t)
  <2>1. task' = [task EXCEPT ![t] = [task[t] EXCEPT !.syncLive = FALSE]] /\ UNCHANGED <<account, slots>>
    BY <1>3 DEF SyncLeaseRunsOut
  <2> QED BY <1>0, <2>1, RowsOfTask, RowKept
<1>4. CASE FailTimedOut(t)
  <2>1. PICK row : /\ task' = [task EXCEPT ![t] = row]
                   /\ row = [SyncReleased(task[t]) EXCEPT !.status = "FAILED", !.nextSync = FALSE]
    BY <1>4 DEF FailTimedOut
  <2>2. task[t].status \in Holding /\ row.status \notin Holding
    BY <1>0, <1>4, <2>1, RowsOfTask, HoldingWords DEF FailTimedOut
  <2>3. task[t].account \in Account
    BY <2>2 DEF Counted
  <2>4. PICK r : /\ account' = [account EXCEPT ![task[t].account] = r]
                 /\ r = Released(account[task[t].account], task[t].reserved)
    BY <1>4 DEF FailTimedOut
  <2>5. r.active = Minus(account[task[t].account].active, 1) /\ ReleaseSlot(task[t].account)
    BY <1>4, <2>3, <2>4, RowsOfAccount DEF TypeOK, FailTimedOut
  <2> QED BY <2>1, <2>2, <2>4, <2>5, RowReleased
<1> QED BY <1>1, <1>2, <1>3, <1>4 DEF LeaseStep

(* A settled poll: the task leaves the provider and gives its slot back.   *)
LEMMA SettledCounted ==
    ASSUME TypeOK, Counted, NEW t \in Task, NEW row, NEW r, NEW s \in Waiting \cup Terminal,
           task[t].status \in Upstream, row.status = s,
           task' = [task EXCEPT ![t] = row],
           account' = [account EXCEPT ![task[t].account] = r],
           task[t].account \in Account => r.active = Minus(account[task[t].account].active, 1),
           ReleaseSlot(task[t].account)
    PROVE  Counted'
<1>1. task[t].status \in Holding /\ row.status \notin Holding
  BY HoldingWords
<1>2. task[t].account \in Account
  BY <1>1 DEF Counted
<1> QED BY <1>1, <1>2, RowReleased

LEMMA PollErrorCounted ==
    ASSUME TypeOK, Counted, NEW y \in Syncer, NEW t \in Task, NEW code, ApplyPollError(y, t, code)
    PROVE  Counted'
<1>1. PICK row : /\ task' = [task EXCEPT ![t] = row]
                 /\ row = [SyncReleased(task[t]) EXCEPT !.nextSync = TRUE]
  BY DEF ApplyPollError
<1>2. row.status = task[t].status /\ row.account = task[t].account
  BY <1>1, RowsOfTask DEF TypeOK
<1>3. \/ UNCHANGED account
      \/ \E s, b : account' = [account EXCEPT ![task[t].account] =
                               [account[task[t].account] EXCEPT !.status = s, !.unauthorized = b]]
  BY DEF ApplyPollError
<1>4. \A b \in Account : account'[b].active = account[b].active
  <2>1. CASE UNCHANGED account
    BY <2>1
  <2>2. ASSUME NEW s, NEW b,
               account' = [account EXCEPT ![task[t].account] =
                             [account[task[t].account] EXCEPT !.status = s, !.unauthorized = b]]
        PROVE  \A c \in Account : account'[c].active = account[c].active
    BY <2>2, RowsOfAccount, SameActive DEF TypeOK
  <2> QED BY <1>3, <2>1, <2>2
<1>5. slots' = slots
  BY DEF ApplyPollError
<1> QED BY <1>1, <1>2, <1>4, <1>5, RowKept

LEMMA PollSettledCounted ==
    ASSUME TypeOK, Counted, NEW y \in Syncer, NEW t \in Task,
           \/ \E low \in BOOLEAN : PollCompleted(y, t, low)
           \/ \E code \in DOMAIN RetryLimit : PollRetried(y, t, code)
           \/ \E code : PollFailed(y, t, code)
    PROVE  Counted'
<1> DEFINE a == task[t].account
<1>0. task[t] \in TaskRow /\ (a \in Account => account[a] \in AccountRow)
  BY DEF TypeOK
<1>1. task[t].status \in Upstream /\ ReleaseSlot(a)
  BY DEF PollCompleted, PollRetried, PollFailed, ResultApplies
<1>2. ASSUME NEW low \in BOOLEAN, PollCompleted(y, t, low)
      PROVE  Counted'
  <2>1. PICK row : /\ task' = [task EXCEPT ![t] = row]
                   /\ row = [SyncReleased(task[t]) EXCEPT !.status = "COMPLETED", !.nextSync = FALSE]
    BY <1>2 DEF PollCompleted
  <2>2. PICK s, r : /\ account' = [account EXCEPT ![a] = r]
                    /\ r = [Released(account[a], task[t].reserved) EXCEPT !.status = s]
    BY <1>2 DEF PollCompleted
  <2>3. row.status = "COMPLETED" /\ (a \in Account => r.active = Minus(account[a].active, 1))
    BY <1>0, <2>1, <2>2, RowsOfTask, RowsOfAccount
  <2> QED BY <1>1, <2>1, <2>2, <2>3, HoldingWords, SettledCounted
<1>3. ASSUME NEW code \in DOMAIN RetryLimit, PollRetried(y, t, code)
      PROVE  Counted'
  <2>1. PICK f : task' = [task EXCEPT ![t] =
                   [SyncReleased(task[t]) EXCEPT !.status = "RETRY_WAIT", !.reserved = 0,
                                               !.upstreamId = 0, !.nextSync = FALSE, !.retries = f]]
    <3>1. SyncReleased(task[t]).retries = task[t].retries
      BY <1>0 DEF TaskRow, SyncReleased
    <3> QED BY <1>3, <3>1 DEF PollRetried
  <2>2. PICK row : /\ task' = [task EXCEPT ![t] = row]
                   /\ row = [SyncReleased(task[t]) EXCEPT !.status = "RETRY_WAIT", !.reserved = 0,
                                               !.upstreamId = 0, !.nextSync = FALSE, !.retries = f]
    BY <2>1
  <2>3. PICK r : /\ account' = [account EXCEPT ![a] = r]
                 /\ r = Released(account[a], task[t].reserved)
    BY <1>3 DEF PollRetried
  <2>4. row.status = "RETRY_WAIT" /\ (a \in Account => r.active = Minus(account[a].active, 1))
    BY <1>0, <2>2, <2>3, RowsOfTask, RowsOfAccount
  <2> QED BY <1>1, <2>2, <2>3, <2>4, HoldingWords, SettledCounted
<1>4. ASSUME NEW code, PollFailed(y, t, code)
      PROVE  Counted'
  <2>1. PICK row : /\ task' = [task EXCEPT ![t] = row]
                   /\ row = [SyncReleased(task[t]) EXCEPT !.status = "FAILED", !.nextSync = FALSE]
    BY <1>4 DEF PollFailed
  <2>2. PICK r : /\ account' = [account EXCEPT ![a] = r]
                 /\ r = Released(account[a], task[t].reserved)
    BY <1>4 DEF PollFailed
  <2>3. row.status = "FAILED" /\ (a \in Account => r.active = Minus(account[a].active, 1))
    BY <1>0, <2>1, <2>2, RowsOfTask, RowsOfAccount
  <2> QED BY <1>1, <2>1, <2>2, <2>3, HoldingWords, SettledCounted
<1> QED BY <1>2, <1>3, <1>4

LEMMA SyncerCounted ==
    ASSUME TypeOK, Counted, NEW y \in Syncer, NEW t \in Task, SyncerStep(y, t)
    PROVE  Counted'
<1>1. CASE LoadSyncItem(y, t) \/ PollDropped(y, t)
  BY <1>1, RowsKept DEF LoadSyncItem, PollDropped
<1>2. ASSUME NEW s \in {"RUNNING", task[t].status}, PollStillRunning(y, t, s)
      PROVE  Counted'
  <2>1. PICK row : /\ task' = [task EXCEPT ![t] = row]
                   /\ row = [SyncReleased(task[t]) EXCEPT !.status = s]
    BY <1>2 DEF PollStillRunning
  <2>2. row.status = s /\ row.account = task[t].account
    BY <2>1, RowsOfTask DEF TypeOK
  <2>3. row.status \in Holding /\ task[t].status \in Holding
    BY <1>2, <2>2, HoldingWords DEF PollStillRunning, ResultApplies
  <2> QED BY <1>2, <2>1, <2>2, <2>3, RowKept DEF PollStillRunning
<1> QED BY <1>1, <1>2, PollSettledCounted, PollErrorCounted DEF SyncerStep

LEMMA BatchCounted ==
    ASSUME TypeOK, Counted, NEW y \in Syncer, NEW batch \in SUBSET Task, ClaimSyncBatch(y, batch)
    PROVE  Counted'
<1>1. \A u \in Task : SameHolding(u)
  BY DEF ClaimSyncBatch, SameHolding, TypeOK, TaskRow
<1> QED BY <1>1, KeepsSlots DEF ClaimSyncBatch

LEMMA AccountCounted ==
    ASSUME TypeOK, Counted, NEW a \in Account, AccountStep(a)
    PROVE  Counted'
<1>1. task' = task /\ slots' = slots
  BY DEF AccountStep, ManualDisable, ManualEnable, TokenReported, EnforceAccountGuard,
     AccountValidated, RefreshBalance
<1>2. \/ \E s : account' = [account EXCEPT ![a] = [account[a] EXCEPT !.status = s]]
      \/ \E s, b : account' = [account EXCEPT ![a] =
                               [account[a] EXCEPT !.status = s, !.unauthorized = b]]
  BY DEF AccountStep, ManualDisable, ManualEnable, TokenReported, EnforceAccountGuard,
     AccountValidated, RefreshBalance, Refreshed
<1>3. \A b \in Account : account'[b].active = account[b].active
  <2>1. ASSUME NEW s, account' = [account EXCEPT ![a] = [account[a] EXCEPT !.status = s]]
        PROVE  \A b \in Account : account'[b].active = account[b].active
    BY <2>1, RowsOfAccount, SameActive DEF TypeOK
  <2>2. ASSUME NEW s, NEW u,
               account' = [account EXCEPT ![a] = [account[a] EXCEPT !.status = s, !.unauthorized = u]]
        PROVE  \A b \in Account : account'[b].active = account[b].active
    BY <2>2, RowsOfAccount, SameActive DEF TypeOK
  <2> QED BY <1>2, <2>1, <2>2
<1> QED BY <1>1, <1>3, RowsKept

LEMMA NextCounted == TypeOK /\ HandlerOwnsTask /\ Counted /\ [Next]_vars => Counted'
<1> SUFFICES ASSUME TypeOK, HandlerOwnsTask, Counted, [Next]_vars
             PROVE  Counted'
  OBVIOUS
<1>1. CASE \/ \E w \in Worker : WorkerCrash(w)
           \/ \E y \in Syncer : SyncerCrash(y)
           \/ UNCHANGED vars
  BY <1>1, RowsKept DEF WorkerCrash, SyncerCrash, vars
<1> QED BY <1>1, ApiCounted, LeaseCounted, ClaimCounted, WorkerCounted, BatchCounted,
           SyncerCounted, AccountCounted DEF Next

LEMMA InitCounted == Init => Counted
<1> SUFFICES ASSUME Init PROVE Counted
  OBVIOUS
<1>1. \A t \in Task : task[t].status \notin Holding
  BY HoldingWords DEF Init
<1>2. \A a \in Account : Holders(a) = {} /\ account[a].active = 0
  BY <1>1 DEF Init, Holders, Holding
<1>3. \A s \in Space : SpaceHolders(s) = {} /\ slots[s] = 0
  BY <1>2 DEF Init, SpaceHolders
<1> QED BY <1>1, <1>2, <1>3, FS_EmptySet, CapacityAssumption DEF Counted

(* While no lease runs out under a live handler, no account and no space   *)
(* ever carries more tasks than its concurrency, counted on the tasks:     *)
(* claim_and_assign may trust the counters that seven other transactions   *)
(* keep with floored decrements.                                           *)
THEOREM CapacityIsKept ==
    ASSUME ~LeaseOverrun
    PROVE  Spec => []WithinCapacity
<1>1. TypeOK /\ HandlerOwnsTask /\ Counted /\ [Next]_vars => Counted'
  BY NextCounted
<1> QED BY <1>1, InitCounted, CountedIsWithin, HandlersOwnTheirTasks, TypeCorrect, PTL DEF Spec

-----------------------------------------------------------------------------
(* Which generation a task tracks.  Before it is submitted a row tracks    *)
(* none, and a handler that was accepted knows under which account.        *)

Early == {"ABSENT"} \cup Waiting \cup InFlight

RowTracks(t) ==
    /\ task[t].status \in Upstream =>
         task[t].upstreamId # 0 /\ generation[t][task[t].upstreamId] = task[t].account
    /\ task[t].status \in Early => task[t].upstreamId = 0

Recorded ==
    \A t \in Task, n \in Attempt :
      handler[t][n].pc = "accepted" => generation[t][n] = handler[t][n].account

Tracking == Recorded /\ \A t \in Task : RowTracks(t)

LEMMA TrackingSuffices == Tracking => TracksAcceptedGeneration
  BY DEF Tracking, RowTracks, Early, TracksAcceptedGeneration

LEMMA StatusWords ==
    /\ \A s \in Early : s \notin Upstream /\ s \notin Terminal
    /\ \A s \in Upstream \cup Terminal : s \notin Early
    /\ \A s \in Terminal : s \notin Upstream
    /\ Waiting \cup InFlight \subseteq Early
  BY Vocabulary DEF Early, Waiting, InFlight, Upstream, Terminal

(* What a step may do to a row, generations left alone: it ends, is put    *)
(* back without a generation, or keeps the one it has.                     *)
RowKeepsTrack(t) ==
    \/ task'[t].status \in Terminal
    \/ task'[t].status \in Early /\ task'[t].upstreamId = 0
    \/ /\ task'[t].status \in Upstream /\ task[t].status \in Upstream
       /\ task'[t].upstreamId = task[t].upstreamId /\ task'[t].account = task[t].account

LEMMA RowsKeepTrack ==
    ASSUME \A t \in Task : RowTracks(t), \A t \in Task : RowKeepsTrack(t), UNCHANGED generation
    PROVE  \A t \in Task : RowTracks(t)'
  BY StatusWords DEF RowTracks, RowKeepsTrack

LEMMA SameRowKeeps ==
    ASSUME TypeOK, NEW t \in Task, RowTracks(t), task'[t] = task[t] PROVE RowKeepsTrack(t)
<1>1. task[t].status \in Early \cup Upstream \cup Terminal
  BY DEF TypeOK, TaskRow, Status, Early
<1> QED BY <1>1 DEF RowTracks, RowKeepsTrack

(* The row of one task is replaced.                                        *)
LEMMA OneRowKeeps ==
    ASSUME TypeOK, \A u \in Task : RowTracks(u), UNCHANGED generation,
           NEW t \in Task, NEW row, task' = [task EXCEPT ![t] = row],
           \/ row.status \in Terminal
           \/ row.status \in Early /\ row.upstreamId = 0
           \/ /\ row.status \in Upstream /\ task[t].status \in Upstream
              /\ row.upstreamId = task[t].upstreamId /\ row.account = task[t].account
    PROVE  \A u \in Task : RowTracks(u)'
<1>1. RowKeepsTrack(t)
  BY OneRow DEF RowKeepsTrack
<1>2. \A u \in Task \ {t} : RowKeepsTrack(u)
  BY OneRow, SameRowKeeps
<1> QED BY <1>1, <1>2, RowsKeepTrack

(* Handlers change, and those that were accepted were so before.           *)
LEMMA StillRecorded ==
    ASSUME Recorded, UNCHANGED generation,
           \A t \in Task, n \in Attempt :
             handler'[t][n].pc = "accepted" => handler'[t][n] = handler[t][n]
    PROVE  Recorded'
  BY DEF Recorded

LEMMA TrackOfTask ==
    ASSUME NEW r \in TaskRow, NEW s, NEW c, NEW n, NEW b, NEW a, NEW f
    PROVE  /\ [r EXCEPT !.status = s].upstreamId = r.upstreamId
           /\ [r EXCEPT !.status = s, !.reserved = c].upstreamId = r.upstreamId
           /\ [r EXCEPT !.status = s, !.account = a, !.reserved = c, !.attempts = n].upstreamId = r.upstreamId
           /\ [r EXCEPT !.status = s, !.reserved = c, !.upstreamId = n, !.nextSync = b].upstreamId = n
           /\ [SyncReleased(r) EXCEPT !.status = s].upstreamId = r.upstreamId
           /\ [SyncReleased(r) EXCEPT !.nextSync = b].upstreamId = r.upstreamId
           /\ [SyncReleased(r) EXCEPT !.status = s, !.reserved = c, !.upstreamId = n,
                                     !.nextSync = b, !.retries = f].upstreamId = n
           /\ [r EXCEPT !.syncLive = b].upstreamId = r.upstreamId
  BY DEF TaskRow, SyncReleased

LEMMA ApiTracks ==
    ASSUME TypeOK, Tracking, NEW t \in Task, CreateTask(t) \/ CancelTask(t)
    PROVE  Tracking'
<1>1. PICK s \in {"QUEUED", "CANCELED"} : /\ task' = [task EXCEPT ![t] = [task[t] EXCEPT !.status = s]]
                                          /\ s = "QUEUED" => task[t].status = "ABSENT"
  BY DEF CreateTask, CancelTask
<1>2. PICK row : row = [task[t] EXCEPT !.status = s]
  OBVIOUS
<1>3. row.status = s /\ row.upstreamId = task[t].upstreamId
  BY <1>2, RowsOfTask, TrackOfTask DEF TypeOK
<1>4. row.status \in Terminal \/ (row.status \in Early /\ row.upstreamId = 0)
  BY <1>1, <1>3 DEF Tracking, RowTracks, Early, Terminal, Waiting
<1>5. UNCHANGED <<handler, generation>>
  BY DEF CreateTask, CancelTask
<1>6. \A u \in Task : RowTracks(u)'
  BY <1>1, <1>2, <1>4, <1>5, OneRowKeeps DEF Tracking
<1> QED BY <1>5, <1>6, StillRecorded DEF Tracking

LEMMA ClaimTracks ==
    ASSUME TypeOK, Tracking, NEW w \in Worker, NEW t \in Task,
           ClaimFindsNoAccount(w, t) \/ \E a \in Account : ClaimAndAssign(w, t, a)
    PROVE  Tracking'
<1>0. task[t] \in TaskRow /\ task[t].status \in Waiting /\ task[t].upstreamId = 0
  BY DEF TypeOK, ClaimFindsNoAccount, ClaimAndAssign, Claimable, Tracking, RowTracks, Early
<1>1. CASE ClaimFindsNoAccount(w, t)
  <2>1. PICK row : /\ task' = [task EXCEPT ![t] = row]
                   /\ row = [task[t] EXCEPT !.status = "WAITING_ACCOUNT"]
    BY <1>1 DEF ClaimFindsNoAccount
  <2>2. row.status \in Early /\ row.upstreamId = 0
    BY <1>0, <2>1, RowsOfTask, TrackOfTask DEF Early, Waiting
  <2>3. UNCHANGED <<handler, generation>>
    BY <1>1 DEF ClaimFindsNoAccount
  <2> QED BY <2>1, <2>2, <2>3, OneRowKeeps, StillRecorded DEF Tracking
<1>2. ASSUME NEW a \in Account, ClaimAndAssign(w, t, a)
      PROVE  Tracking'
  <2> DEFINE n == task[t].attempts + 1
             started == [pc |-> "validate", worker |-> w, account |-> a,
                         cost |-> Estimate, error |-> "none"]
  <2>1. PICK row : /\ task' = [task EXCEPT ![t] = row]
                   /\ row = [task[t] EXCEPT !.status = FirstStatus(t), !.account = a,
                                           !.reserved = Estimate, !.attempts = n]
    BY <1>2 DEF ClaimAndAssign
  <2>2. row.status \in Early /\ row.upstreamId = 0
    BY <1>0, <2>1, RowsOfTask, TrackOfTask DEF FirstStatus, Early, InFlight
  <2>3. handler' = [handler EXCEPT ![t][n] = started] /\ UNCHANGED generation
    BY <1>2 DEF ClaimAndAssign
  <2>4. started.pc # "accepted"
    OBVIOUS
  <2> HIDE DEF started
  <2>5. \A u \in Task, m \in Attempt :
          handler'[u][m].pc = "accepted" => handler'[u][m] = handler[u][m]
    BY <2>3, <2>4 DEF TypeOK
  <2> QED BY <2>1, <2>2, <2>3, <2>5, OneRowKeeps, StillRecorded DEF Tracking
<1> QED BY <1>1, <1>2

(* A handler goes on, without an answer of the provider.                   *)
LEMMA HandlerMoves ==
    ASSUME TypeOK, Recorded, UNCHANGED generation, NEW t \in Task, NEW n \in Attempt,
           NEW h, h.pc # "accepted", handler' = [handler EXCEPT ![t][n] = h]
    PROVE  Recorded'
<1>1. \A u \in Task, m \in Attempt :
        handler'[u][m].pc = "accepted" => handler'[u][m] = handler[u][m]
  BY DEF TypeOK
<1> QED BY <1>1, StillRecorded

LEMMA FailMoves ==
    ASSUME TypeOK, Recorded, UNCHANGED generation, NEW t \in Task, NEW n \in Attempt,
           \/ \E code : Fail(t, n, code)
           \/ \E pc \in {"media", "submit", "orphaned"} : Goto(t, n, pc)
           \/ handler' = [handler EXCEPT ![t][n] = NoHandler]
    PROVE  Recorded'
<1>0. handler[t][n] \in HandlerRow
  BY DEF TypeOK
<1>1. ASSUME NEW code, Fail(t, n, code)
      PROVE  Recorded'
  <2>1. PICK h : h = [handler[t][n] EXCEPT !.pc = "failing", !.error = code]
    OBVIOUS
  <2>2. handler' = [handler EXCEPT ![t][n] = h] /\ h.pc = "failing"
    BY <1>0, <1>1, <2>1 DEF Fail, HandlerRow
  <2> QED BY <2>2, HandlerMoves
<1>2. ASSUME NEW pc \in {"media", "submit", "orphaned"}, Goto(t, n, pc)
      PROVE  Recorded'
  <2>1. PICK h : h = [handler[t][n] EXCEPT !.pc = pc]
    OBVIOUS
  <2>2. handler' = [handler EXCEPT ![t][n] = h] /\ h.pc = pc
    BY <1>0, <1>2, <2>1 DEF Goto, HandlerRow
  <2> QED BY <2>2, HandlerMoves
<1>3. CASE handler' = [handler EXCEPT ![t][n] = NoHandler]
  <2>1. NoHandler.pc # "accepted"
    BY DEF NoHandler
  <2> QED BY <1>3, <2>1, HandlerMoves
<1> QED BY <1>1, <1>2, <1>3

(* The provider accepts a generation of a task that is being submitted.    *)
LEMMA GenerateTracks ==
    ASSUME TypeOK, HandlerOwnsTask, Tracking, NEW t \in Task, NEW n \in Attempt,
           (\E cost \in ApiCost : GenerateAccepted(t, n, cost)) \/ GenerateAnswerLost(t, n)
    PROVE  Tracking'
<1> DEFINE a == handler[t][n].account
<1>0. handler[t][n] \in HandlerRow
  BY DEF TypeOK
<1>1. /\ task' = task /\ handler[t][n].pc = "submit"
      /\ generation' = [generation EXCEPT ![t][n] = a]
  BY DEF GenerateAccepted, GenerateAnswerLost
<1>2. task[t].status \notin Upstream
  BY <1>1 DEF HandlerOwnsTask, Upstream
<1>3. \A u \in Task : u # t => generation'[u] = generation[u]
  BY <1>1 DEF TypeOK
<1>4. \A u \in Task : RowTracks(u)'
  BY <1>1, <1>2, <1>3 DEF Tracking, RowTracks
<1>5. generation'[t][n] = a /\ \A m \in Attempt \ {n} : generation'[t][m] = generation[t][m]
  BY <1>1 DEF TypeOK
<1>6. PICK h : handler' = [handler EXCEPT ![t][n] = h] /\ h.account = a
  <2>1. ASSUME NEW cost \in ApiCost, GenerateAccepted(t, n, cost)
        PROVE  \E h : handler' = [handler EXCEPT ![t][n] = h] /\ h.account = a
    <3>1. PICK h : h = [handler[t][n] EXCEPT !.pc = "accepted", !.cost = cost]
      OBVIOUS
    <3>2. handler' = [handler EXCEPT ![t][n] = h] /\ h.account = a
      BY <1>0, <2>1, <3>1 DEF GenerateAccepted, HandlerRow
    <3> QED BY <3>2
  <2>2. ASSUME GenerateAnswerLost(t, n)
        PROVE  \E h : handler' = [handler EXCEPT ![t][n] = h] /\ h.account = a
    <3>1. PICK h : h = [handler[t][n] EXCEPT !.pc = "failing", !.error = "TRANSIENT"]
      OBVIOUS
    <3>2. handler' = [handler EXCEPT ![t][n] = h] /\ h.account = a
      BY <1>0, <2>2, <3>1 DEF GenerateAnswerLost, Fail, HandlerRow
    <3> QED BY <3>2
  <2> QED BY <2>1, <2>2
<1>7. ASSUME NEW u \in Task, NEW m \in Attempt, handler'[u][m].pc = "accepted"
      PROVE  generation'[u][m] = handler'[u][m].account
  <2>1. CASE u = t /\ m = n
    <3>1. handler'[t][n] = h
      BY <1>6 DEF TypeOK
    <3> QED BY <1>5, <1>6, <2>1, <3>1
  <2>2. CASE ~(u = t /\ m = n)
    <3>1. handler'[u][m] = handler[u][m]
      BY <1>6, <2>2 DEF TypeOK
    <3>2. generation'[u][m] = generation[u][m]
      BY <1>3, <1>5, <2>2
    <3> QED BY <1>7, <3>1, <3>2 DEF Tracking, Recorded
  <2> QED BY <2>1, <2>2
<1> QED BY <1>4, <1>7 DEF Tracking, Recorded

LEMMA SuccessTracks ==
    ASSUME TypeOK, HandlerOwnsTask, Tracking, NEW t \in Task, NEW n \in Attempt,
           FinishSubmitSuccess(t, n)
    PROVE  Tracking'
<1>0. task[t] \in TaskRow
  BY DEF TypeOK
<1>1. handler' = [handler EXCEPT ![t][n] = NoHandler] /\ UNCHANGED generation
  BY DEF FinishSubmitSuccess
<1>2. Recorded'
  BY <1>1, FailMoves DEF Tracking
<1>3. CASE task[t].status = "SUBMITTING"
  <2>1. PICK row : /\ task' = [task EXCEPT ![t] = row]
                   /\ row = [task[t] EXCEPT !.status = "UPSTREAM_QUEUED", !.reserved = handler[t][n].cost,
                                           !.upstreamId = n, !.nextSync = TRUE]
    BY <1>3 DEF FinishSubmitSuccess
  <2>2. row.status = "UPSTREAM_QUEUED" /\ row.upstreamId = n /\ row.account = task[t].account
    BY <1>0, <2>1, RowsOfTask, TrackOfTask
  <2>3. n # 0 /\ generation[t][n] = task[t].account
    BY BudgetAssumption DEF Tracking, Recorded, HandlerOwnsTask, FinishSubmitSuccess, Attempt
  <2>4. RowTracks(t)'
    <3>1. task'[t] = row
      BY <2>1, OneRow
    <3> QED BY <1>1, <2>2, <2>3, <3>1, HoldingWords, StatusWords DEF RowTracks
  <2>5. \A u \in Task \ {t} : RowTracks(u)'
    BY <1>1, <2>1, OneRow DEF Tracking, RowTracks
  <2> QED BY <1>2, <2>4, <2>5 DEF Tracking
<1>4. CASE task[t].status # "SUBMITTING"
  BY <1>1, <1>2, <1>4 DEF FinishSubmitSuccess, Tracking, RowTracks
<1> QED BY <1>3, <1>4

LEMMA WorkerTracks ==
    ASSUME TypeOK, HandlerOwnsTask, Tracking, NEW t \in Task, NEW n \in Attempt, WorkerStep(t, n)
    PROVE  Tracking'
<1>0. task[t] \in TaskRow
  BY DEF TypeOK
<1>1. CASE FinishSubmitFailure(t, n)
  <2>1. handler' = [handler EXCEPT ![t][n] = NoHandler] /\ UNCHANGED generation
    BY <1>1 DEF FinishSubmitFailure
  <2>2. Recorded'
    BY <2>1, FailMoves DEF Tracking
  <2>3. CASE task[t].status \in InFlight
    <3>1. PICK s \in {"RETRY_WAIT", "FAILED"} :
            task' = [task EXCEPT ![t] = [task[t] EXCEPT !.status = s, !.reserved = 0]]
      BY <1>1, <2>3 DEF FinishSubmitFailure
    <3>2. PICK row : row = [task[t] EXCEPT !.status = s, !.reserved = 0]
      OBVIOUS
    <3>3. row.status = s /\ row.upstreamId = 0
      BY <1>0, <2>3, <3>2, RowsOfTask, TrackOfTask DEF Tracking, RowTracks, Early
    <3>4. s \in Early \/ s \in Terminal
      BY DEF Early, Waiting, Terminal
    <3>5. \A u \in Task : RowTracks(u)'
      BY <2>1, <3>1, <3>2, <3>3, <3>4, OneRowKeeps DEF Tracking
    <3> QED BY <2>2, <3>5 DEF Tracking
  <2>4. CASE task[t].status \notin InFlight
    BY <1>1, <2>1, <2>2, <2>4 DEF FinishSubmitFailure, Tracking, RowTracks
  <2> QED BY <2>3, <2>4
<1>2. CASE MarkSubmissionReady(t, n)
  <2>1. UNCHANGED generation
    BY <1>2 DEF MarkSubmissionReady
  <2>2. Recorded'
    BY <1>2, <2>1, FailMoves DEF MarkSubmissionReady, Tracking
  <2>3. CASE task[t].status = "RESOLVING_MEDIA"
    <3>1. PICK row : /\ task' = [task EXCEPT ![t] = row]
                     /\ row = [task[t] EXCEPT !.status = "SUBMITTING"]
      BY <1>2, <2>3 DEF MarkSubmissionReady
    <3>2. row.status \in Early /\ row.upstreamId = 0
      BY <1>0, <2>3, <3>1, RowsOfTask, TrackOfTask DEF Tracking, RowTracks, Early, InFlight
    <3>3. \A u \in Task : RowTracks(u)'
      BY <2>1, <3>1, <3>2, OneRowKeeps DEF Tracking
    <3> QED BY <2>2, <3>3 DEF Tracking
  <2>4. CASE task[t].status # "RESOLVING_MEDIA"
    BY <1>2, <2>1, <2>2, <2>4 DEF MarkSubmissionReady, Tracking, RowTracks
  <2> QED BY <2>3, <2>4
<1>3. CASE \/ PreSubmitRefresh(t, n) \/ \E code \in Errors : UpstreamRaises(t, n, code)
           \/ FinishAborts(t, n) \/ RenewalEnds(t, n)
  <2>1. UNCHANGED <<task, generation>>
    BY <1>3 DEF PreSubmitRefresh, UpstreamRaises, FinishAborts, RenewalEnds
  <2>2. \/ \E code : Fail(t, n, code)
        \/ \E pc \in {"media", "submit", "orphaned"} : Goto(t, n, pc)
        \/ handler' = [handler EXCEPT ![t][n] = NoHandler]
    BY <1>3 DEF PreSubmitRefresh, UpstreamRaises, FinishAborts, RenewalEnds, AfterRefresh
  <2>3. Recorded'
    BY <2>1, <2>2, FailMoves DEF Tracking
  <2> QED BY <2>1, <2>3 DEF Tracking, RowTracks
<1> QED BY <1>1, <1>2, <1>3, GenerateTracks, SuccessTracks DEF WorkerStep

(* Steps that leave handlers and generations alone.                        *)
LEMMA RowStepTracks ==
    ASSUME TypeOK, Tracking, UNCHANGED <<handler, generation>>,
           \A u \in Task : RowTracks(u)'
    PROVE  Tracking'
  BY StillRecorded DEF Tracking

LEMMA LeaseTracks ==
    ASSUME TypeOK, Tracking, NEW t \in Task, LeaseStep(t)
    PROVE  Tracking'
<1>0. task[t] \in TaskRow /\ UNCHANGED <<handler, generation>>
  BY DEF TypeOK, LeaseStep, LeaseRunsOut, RenewLease, RecoverExpiredLease, SyncLeaseRunsOut, FailTimedOut
<1>1. CASE LeaseRunsOut(t) \/ RenewLease(t)
  BY <1>0, <1>1, RowStepTracks DEF LeaseRunsOut, RenewLease, Tracking, RowTracks
<1>2. CASE RecoverExpiredLease(t)
  <2>1. PICK s \in {"RETRY_WAIT", "FAILED"} :
          task' = [task EXCEPT ![t] = [task[t] EXCEPT !.status = s, !.reserved = 0]]
    BY <1>2 DEF RecoverExpiredLease
  <2>2. PICK row : row = [task[t] EXCEPT !.status = s, !.reserved = 0]
    OBVIOUS
  <2>3. task[t].status \in Early
    BY <1>2 DEF RecoverExpiredLease, Early, InFlight
  <2>4. row.status = s /\ row.upstreamId = 0
    BY <1>0, <2>2, <2>3, RowsOfTask, TrackOfTask DEF Tracking, RowTracks
  <2>5. s \in Early \/ s \in Terminal
    BY DEF Early, Waiting, Terminal
  <2>6. \A u \in Task : RowTracks(u)'
    BY <1>0, <2>1, <2>2, <2>4, <2>5, OneRowKeeps DEF Tracking
  <2> QED BY <1>0, <2>6, RowStepTracks
<1>3. CASE SyncLeaseRunsOut(t)
  <2>1. PICK row : /\ task' = [task EXCEPT ![t] = row]
                   /\ row = [task[t] EXCEPT !.syncLive = FALSE]
    BY <1>3 DEF SyncLeaseRunsOut
  <2>2. row.status = task[t].status /\ row.account = task[t].account /\ row.upstreamId = task[t].upstreamId
    BY <1>0, <2>1, RowsOfTask, TrackOfTask
  <2>3. task[t].status \in Early \cup Upstream \cup Terminal
    BY <1>0 DEF TaskRow, Status, Early
  <2>4. task[t].status \in Early => task[t].upstreamId = 0
    BY DEF Tracking, RowTracks
  <2>5. \A u \in Task : RowTracks(u)'
    BY <1>0, <2>1, <2>2, <2>3, <2>4, OneRowKeeps DEF Tracking
  <2> QED BY <1>0, <2>5, RowStepTracks
<1>4. CASE FailTimedOut(t)
  <2>1. PICK row : /\ task' = [task EXCEPT ![t] = row]
                   /\ row = [SyncReleased(task[t]) EXCEPT !.status = "FAILED", !.nextSync = FALSE]
    BY <1>4 DEF FailTimedOut
  <2>2. row.status \in Terminal
    BY <1>0, <2>1, RowsOfTask DEF Terminal
  <2>3. \A u \in Task : RowTracks(u)'
    BY <1>0, <2>1, <2>2, OneRowKeeps DEF Tracking
  <2> QED BY <1>0, <2>3, RowStepTracks
<1> QED BY <1>1, <1>2, <1>3, <1>4 DEF LeaseStep

LEMMA SyncerTracks ==
    ASSUME TypeOK, Tracking, NEW y \in Syncer, NEW t \in Task, SyncerStep(y, t)
    PROVE  Tracking'
<1>0. task[t] \in TaskRow /\ UNCHANGED <<handler, generation>>
  BY DEF TypeOK, SyncerStep, LoadSyncItem, PollDropped, PollStillRunning, PollCompleted,
     PollRetried, PollFailed, ApplyPollError
<1>1. CASE LoadSyncItem(y, t) \/ PollDropped(y, t)
  BY <1>0, <1>1, RowStepTracks DEF LoadSyncItem, PollDropped, Tracking, RowTracks
<1>2. ASSUME NEW row, task' = [task EXCEPT ![t] = row],
             \/ row.status \in Terminal
             \/ row.status \in Early /\ row.upstreamId = 0
             \/ /\ row.status \in Upstream /\ task[t].status \in Upstream
                /\ row.upstreamId = task[t].upstreamId /\ row.account = task[t].account
      PROVE  Tracking'
  BY <1>0, <1>2, OneRowKeeps, RowStepTracks DEF Tracking
<1>3. ASSUME NEW s \in {"RUNNING", task[t].status}, PollStillRunning(y, t, s)
      PROVE  Tracking'
  <2>1. PICK row : /\ task' = [task EXCEPT ![t] = row]
                   /\ row = [SyncReleased(task[t]) EXCEPT !.status = s]
    BY <1>3 DEF PollStillRunning
  <2>2. row.status = s /\ row.account = task[t].account /\ row.upstreamId = task[t].upstreamId
    BY <1>0, <2>1, RowsOfTask, TrackOfTask
  <2>3. s \in Upstream /\ task[t].status \in Upstream
    BY <1>3 DEF PollStillRunning, ResultApplies, Upstream
  <2> QED BY <1>2, <2>1, <2>2, <2>3
<1>4. CASE \E low \in BOOLEAN : PollCompleted(y, t, low)
  <2>1. PICK row : /\ task' = [task EXCEPT ![t] = row]
                   /\ row = [SyncReleased(task[t]) EXCEPT !.status = "COMPLETED", !.nextSync = FALSE]
    BY <1>4 DEF PollCompleted
  <2>2. row.status \in Terminal
    BY <1>0, <2>1, RowsOfTask DEF Terminal
  <2> QED BY <1>2, <2>1, <2>2
<1>5. ASSUME NEW code \in DOMAIN RetryLimit, PollRetried(y, t, code)
      PROVE  Tracking'
  <2>1. PICK f : task' = [task EXCEPT ![t] =
                   [SyncReleased(task[t]) EXCEPT !.status = "RETRY_WAIT", !.reserved = 0,
                                               !.upstreamId = 0, !.nextSync = FALSE, !.retries = f]]
    <3>1. SyncReleased(task[t]).retries = task[t].retries
      BY <1>0 DEF TaskRow, SyncReleased
    <3> QED BY <1>5, <3>1 DEF PollRetried
  <2>2. PICK row : row = [SyncReleased(task[t]) EXCEPT !.status = "RETRY_WAIT", !.reserved = 0,
                                               !.upstreamId = 0, !.nextSync = FALSE, !.retries = f]
    OBVIOUS
  <2>3. row.status = "RETRY_WAIT" /\ row.upstreamId = 0
    BY <1>0, <2>2, RowsOfTask, TrackOfTask
  <2>4. row.status \in Early
    BY <2>3 DEF Early, Waiting
  <2> QED BY <1>2, <2>1, <2>2, <2>3, <2>4
<1>6. ASSUME NEW code, PollFailed(y, t, code)
      PROVE  Tracking'
  <2>1. PICK row : /\ task' = [task EXCEPT ![t] = row]
                   /\ row = [SyncReleased(task[t]) EXCEPT !.status = "FAILED", !.nextSync = FALSE]
    BY <1>6 DEF PollFailed
  <2>2. row.status \in Terminal
    BY <1>0, <2>1, RowsOfTask DEF Terminal
  <2> QED BY <1>2, <2>1, <2>2
<1>7. ASSUME NEW code, ApplyPollError(y, t, code)
      PROVE  Tracking'
  <2>1. PICK row : /\ task' = [task EXCEPT ![t] = row]
                   /\ row = [SyncReleased(task[t]) EXCEPT !.nextSync = TRUE]
    BY <1>7 DEF ApplyPollError
  <2>2. row.status = task[t].status /\ row.account = task[t].account /\ row.upstreamId = task[t].upstreamId
    BY <1>0, <2>1, RowsOfTask, TrackOfTask
  <2>3. task[t].status \in Early \cup Upstream \cup Terminal
    BY <1>0 DEF TaskRow, Status, Early
  <2>4. task[t].status \in Early => task[t].upstreamId = 0
    BY DEF Tracking, RowTracks
  <2> QED BY <1>2, <2>1, <2>2, <2>3, <2>4
<1> QED BY <1>1, <1>3, <1>4, <1>5, <1>6, <1>7 DEF SyncerStep

LEMMA BatchTracks ==
    ASSUME TypeOK, Tracking, NEW y \in Syncer, NEW batch \in SUBSET Task, ClaimSyncBatch(y, batch)
    PROVE  Tracking'
<1>1. \A u \in Task : /\ task'[u].status = task[u].status /\ task'[u].account = task[u].account
                      /\ task'[u].upstreamId = task[u].upstreamId
  BY DEF ClaimSyncBatch, TypeOK, TaskRow
<1>2. UNCHANGED <<handler, generation>>
  BY DEF ClaimSyncBatch
<1>3. \A u \in Task : RowTracks(u)'
  BY <1>1, <1>2 DEF Tracking, RowTracks
<1> QED BY <1>2, <1>3, RowStepTracks

LEMMA CrashTracks ==
    ASSUME TypeOK, Tracking, NEW w \in Worker, WorkerCrash(w) PROVE Tracking'
<1>1. UNCHANGED <<task, generation>>
  BY DEF WorkerCrash
<1>2. \A t \in Task, n \in Attempt :
        handler'[t][n].pc = "accepted" => handler'[t][n] = handler[t][n]
  BY DEF WorkerCrash, NoHandler
<1> QED BY <1>1, <1>2, StillRecorded DEF Tracking, RowTracks

LEMMA NextTracks == TypeOK /\ HandlerOwnsTask /\ Tracking /\ [Next]_vars => Tracking'
<1> SUFFICES ASSUME TypeOK, HandlerOwnsTask, Tracking, [Next]_vars
             PROVE  Tracking'
  OBVIOUS
<1>1. CASE \/ \E y \in Syncer : SyncerCrash(y)
           \/ \E a \in Account : AccountStep(a)
           \/ UNCHANGED vars
  <2>1. UNCHANGED <<task, handler, generation>>
    BY <1>1 DEF SyncerCrash, AccountStep, ManualDisable, ManualEnable, TokenReported,
       EnforceAccountGuard, AccountValidated, RefreshBalance, vars
  <2> QED BY <2>1 DEF Tracking, Recorded, RowTracks
<1> QED BY <1>1, ApiTracks, LeaseTracks, ClaimTracks, WorkerTracks, CrashTracks, BatchTracks,
           SyncerTracks DEF Next

(* While no lease runs out under a live handler, a generation is polled    *)
(* and settled under the account that submitted it, and no task that waits *)
(* or is being submitted tracks one (finish_submit_success, claim_and_     *)
(* assign and the recovery of lost submissions rest on it).                *)
THEOREM GenerationsAreTracked ==
    ASSUME ~LeaseOverrun
    PROVE  Spec => []TracksAcceptedGeneration
<1>1. Init => Tracking
  BY StatusWords DEF Init, Tracking, Recorded, RowTracks, NoHandler, Early, Upstream
<1>2. TypeOK /\ HandlerOwnsTask /\ Tracking /\ [Next]_vars => Tracking'
  BY NextTracks
<1> QED BY <1>1, <1>2, TrackingSuffices, HandlersOwnTheirTasks, TypeCorrect, PTL DEF Spec

-----------------------------------------------------------------------------
(* Nothing leaks.                                                          *)

-----------------------------------------------------------------------------
(* What the counters of a space and of an account add up to.               *)

(* The slots of a space are those of its accounts.                         *)
LEMMA SpacesAddUp ==
    ASSUME TypeOK, Counted PROVE SlotsConserved
<1>1. ASSUME NEW s \in Space
      PROVE  slots[s] = SumFunctionOnSet([a \in Account |-> Cardinality(Holders(a))],
                                         {a \in Account : SpaceOf[a] = s})
  <2> DEFINE S == {a \in Account : SpaceOf[a] = s}
             H == [a \in Account |-> Holders(a)]
             f == [a \in Account |-> Cardinality(Holders(a))]
  <2>1. S \subseteq Account /\ IsFiniteSet(S)
    BY FiniteAssumption, FS_Subset
  <2>2. \A a \in S : IsFiniteSet(H[a]) /\ f[a] = Cardinality(H[a])
    BY HoldersFinite
  <2>3. \A a, b \in S : a # b => H[a] \cap H[b] = {}
    BY DEF Holders
  <2>4. UNION {H[a] : a \in S} = SpaceHolders(s)
    BY DEF SpaceHolders, Holders
  <2> HIDE DEF S, H, f
  <2>5. SumFunctionOnSet(f, S) = Cardinality(UNION {H[a] : a \in S})
    BY <2>1, <2>2, <2>3, SumOfCardinalities
  <2>6. slots[s] = SumFunctionOnSet(f, S)
    BY <2>4, <2>5 DEF Counted
  <2> QED BY <2>6 DEF f, S
<1> QED BY <1>1 DEF SlotsConserved, Counted

(* What a row owes an account.                                             *)
OwedBy(row, a) ==
    IF row.status \in Holding /\ row.account = a THEN row.reserved ELSE 0

Owed(a) == SumFunctionOnSet([t \in Task |-> OwedBy(task[t], a)], Task)

Reservations == \A a \in Account : account[a].reserved = Owed(a)

LEMMA OwedIsNatural ==
    ASSUME NEW row \in TaskRow, NEW a PROVE OwedBy(row, a) \in Nat
  BY DEF OwedBy, TaskRow

LEMMA ReservationsAddUp ==
    ASSUME TypeOK, Reservations PROVE ReservationsConserved
<1> SUFFICES ASSUME NEW a \in Account
             PROVE  account[a].reserved = SumFunctionOnSet([t \in Task |-> task[t].reserved], Holders(a))
  BY DEF ReservationsConserved
<1> DEFINE H == Holders(a)
           f == [t \in Task |-> OwedBy(task[t], a)]
           g == [t \in Task |-> task[t].reserved]
<1>1. H \subseteq Task /\ IsFiniteSet(H) /\ IsFiniteSet(Task \ H)
  BY HoldersFinite, FiniteAssumption, FS_Subset DEF Holders
<1>2. \A t \in Task : f[t] \in Nat
  BY OwedIsNatural DEF TypeOK
<1>3. (\A t \in H : f[t] = g[t]) /\ (\A t \in Task \ H : f[t] = 0)
  BY DEF Holders, Holding, OwedBy
<1>4. SumFunctionOnSet(f, Task) = account[a].reserved
  BY DEF Reservations, Owed
<1> HIDE DEF H, f, g
<1>5. H \cup (Task \ H) = Task /\ H \cap (Task \ H) = {}
  BY <1>1
<1>6. SumFunctionOnSet(f, H \cup (Task \ H)) = SumFunctionOnSet(f, H) + SumFunctionOnSet(f, Task \ H)
  BY <1>1, <1>2, <1>5, SumOfUnion
<1>7. SumFunctionOnSet(f, H) = SumFunctionOnSet(g, H) /\ SumFunctionOnSet(f, H) \in Int
  BY <1>1, <1>2, <1>3, SumAgrees, SumIsInteger
<1>8. SumFunctionOnSet(f, Task \ H) = 0
  BY <1>1, <1>3, SumOfZeros
<1>9. SumFunctionOnSet(f, Task) = SumFunctionOnSet(f, H) + SumFunctionOnSet(f, Task \ H)
  BY <1>5, <1>6
<1>10. account[a].reserved = SumFunctionOnSet(g, H)
  BY <1>4, <1>7, <1>8, <1>9
<1> QED BY <1>10 DEF g, H

-----------------------------------------------------------------------------
(* What a step may do to the reservations.                                 *)

(* The row of one task changes, and its account by as much.                *)
LEMMA DebtMoves ==
    ASSUME TypeOK, Reservations, NEW t \in Task, NEW row \in TaskRow,
           task' = [task EXCEPT ![t] = row],
           \A a \in Account :
             account'[a].reserved = account[a].reserved - OwedBy(task[t], a) + OwedBy(row, a)
    PROVE  Reservations'
<1> SUFFICES ASSUME NEW a \in Account
             PROVE  account'[a].reserved = SumFunctionOnSet([u \in Task |-> OwedBy(task'[u], a)], Task)
  BY DEF Reservations, Owed, OwedBy
<1> DEFINE f == [u \in Task |-> OwedBy(task[u], a)]
           g == [u \in Task |-> OwedBy(task'[u], a)]
<1>1. task'[t] = row /\ \A u \in Task \ {t} : task'[u] = task[u]
  BY OneRow
<1>2. \A u \in Task : f[u] \in Int /\ g[u] \in Int
  BY <1>1, OwedIsNatural DEF TypeOK
<1>3. (\A u \in Task \ {t} : f[u] = g[u]) /\ f[t] = OwedBy(task[t], a) /\ g[t] = OwedBy(row, a)
  BY <1>1
<1>4. account[a].reserved = SumFunctionOnSet(f, Task)
  BY DEF Reservations, Owed
<1> HIDE DEF f, g
<1>5. SumFunctionOnSet(g, Task) = SumFunctionOnSet(f, Task) - f[t] + g[t]
  BY <1>2, <1>3, FiniteAssumption, SumDiffers
<1>6. account'[a].reserved = SumFunctionOnSet(g, Task)
  BY <1>3, <1>4, <1>5
<1> QED BY <1>6 DEF g

(* An account has reserved at least what any of its tasks owes.            *)
LEMMA DebtIsCovered ==
    ASSUME TypeOK, Reservations, NEW t \in Task, NEW a \in Account
    PROVE  /\ OwedBy(task[t], a) \in Nat /\ account[a].reserved \in Nat
           /\ OwedBy(task[t], a) <= account[a].reserved
<1> DEFINE f == [u \in Task |-> OwedBy(task[u], a)]
<1>1. \A u \in Task : f[u] \in Nat
  BY OwedIsNatural DEF TypeOK
<1>2. account[a].reserved = SumFunctionOnSet(f, Task) /\ f[t] = OwedBy(task[t], a)
  BY DEF Reservations, Owed
<1> HIDE DEF f
<1>3. SumFunctionOnSet(f, Task) = f[t] + SumFunctionOnSet(f, Task \ {t})
  BY <1>1, FiniteAssumption, SumTakes
<1>4. SumFunctionOnSet(f, Task \ {t}) \in Nat
  BY <1>1, FiniteAssumption, FS_Subset, SumIsNatural
<1>5. f[t] \in Nat
  BY <1>1
<1> QED BY <1>2, <1>3, <1>4, <1>5

LEMMA SameDebts ==
    ASSUME Reservations, \A t \in Task : \A a \in Account : OwedBy(task'[t], a) = OwedBy(task[t], a),
           \A a \in Account : account'[a].reserved = account[a].reserved
    PROVE  Reservations'
<1> SUFFICES ASSUME NEW a \in Account
             PROVE  account'[a].reserved = SumFunctionOnSet([u \in Task |-> OwedBy(task'[u], a)], Task)
  BY DEF Reservations, Owed, OwedBy
<1>1. [u \in Task |-> OwedBy(task'[u], a)] = [u \in Task |-> OwedBy(task[u], a)]
  OBVIOUS
<1> QED BY <1>1 DEF Reservations, Owed

(* A row that keeps its reservation, or its lack of one.                   *)
LEMMA DebtKept ==
    ASSUME TypeOK, Reservations, NEW t \in Task, NEW row, task' = [task EXCEPT ![t] = row],
           row.status \in Holding <=> task[t].status \in Holding,
           row.account = task[t].account,
           row.reserved = task[t].reserved,
           \A a \in Account : account'[a].reserved = account[a].reserved
    PROVE  Reservations'
<1>1. task'[t] = row /\ \A u \in Task \ {t} : task'[u] = task[u]
  BY OneRow
<1>2. \A u \in Task : \A a \in Account : OwedBy(task'[u], a) = OwedBy(task[u], a)
  BY <1>1 DEF OwedBy
<1> QED BY <1>2, SameDebts

(* A row that ends its hold, and gives its credits back.                   *)
LEMMA DebtEnds ==
    ASSUME TypeOK, Counted, Reservations, NEW t \in Task, NEW row \in TaskRow, NEW r,
           task[t].status \in Holding, row.status \notin Holding,
           task' = [task EXCEPT ![t] = row],
           account' = [account EXCEPT ![task[t].account] = r],
           r.reserved = Minus(account[task[t].account].reserved, task[t].reserved)
    PROVE  Reservations'
<1>1. PICK a \in Account : a = task[t].account
  BY DEF Counted
<1>2. /\ OwedBy(task[t], a) = task[t].reserved
      /\ \A b \in Account : OwedBy(row, b) = 0 /\ (b # a => OwedBy(task[t], b) = 0)
  BY <1>1 DEF OwedBy
<1>3. /\ OwedBy(task[t], a) \in Nat /\ account[a].reserved \in Nat
      /\ OwedBy(task[t], a) <= account[a].reserved
  BY DebtIsCovered
<1>4. r.reserved = account[a].reserved - OwedBy(task[t], a)
  BY <1>1, <1>2, <1>3 DEF Minus
<1>5. account'[a] = r /\ \A b \in Account \ {a} : account'[b] = account[b]
  BY <1>1 DEF TypeOK
<1>6. ASSUME NEW b \in Account
      PROVE  account'[b].reserved = account[b].reserved - OwedBy(task[t], b) + OwedBy(row, b)
  <2>1. account[b].reserved \in Nat
    BY DebtIsCovered
  <2>2. CASE b = a
    BY <1>2, <1>3, <1>4, <1>5, <2>2
  <2>3. CASE b # a
    BY <1>2, <1>5, <2>1, <2>3
  <2> QED BY <2>2, <2>3
<1> QED BY <1>6, DebtMoves

-----------------------------------------------------------------------------
(* The rows after the assignments of an action.                            *)

LEMMA SameReserved ==
    ASSUME TypeOK, NEW a, NEW r, account' = [account EXCEPT ![a] = r],
           a \in Account => r.reserved = account[a].reserved
    PROVE  \A b \in Account : account'[b].reserved = account[b].reserved
  BY DEF TypeOK

LEMMA ReservedOfAccount ==
    ASSUME NEW r \in AccountRow, NEW s, NEW b, NEW c
    PROVE  /\ [r EXCEPT !.status = s].reserved = r.reserved
           /\ [r EXCEPT !.status = s, !.unauthorized = b].reserved = r.reserved
           /\ [r EXCEPT !.reserved = c].reserved = c
           /\ Charged(r, c).reserved = r.reserved + c
           /\ Released(r, c).reserved = Minus(r.reserved, c)
           /\ [Released(r, c) EXCEPT !.status = s].reserved = Minus(r.reserved, c)
           /\ [Released(r, c) EXCEPT !.status = s, !.unauthorized = b].reserved = Minus(r.reserved, c)
<1> DEFINE n == Minus(r.active, 1)
           d == Minus(r.reserved, c)
           u == r.active + 1
           v == r.reserved + c
<1>1. Released(r, c) = [r EXCEPT !.active = n, !.reserved = d]
  BY DEF Released
<1>2. Charged(r, c) = [r EXCEPT !.active = u, !.reserved = v]
  BY DEF Charged
<1> HIDE DEF n, d, u, v
<1>3. [r EXCEPT !.active = u, !.reserved = v].reserved = v
  BY DEF AccountRow
<1>4. /\ [r EXCEPT !.active = n, !.reserved = d].reserved = d
      /\ [[r EXCEPT !.active = n, !.reserved = d] EXCEPT !.status = s].reserved = d
      /\ [[r EXCEPT !.active = n, !.reserved = d] EXCEPT !.status = s, !.unauthorized = b].reserved = d
  BY DEF AccountRow
<1>5. /\ [r EXCEPT !.status = s].reserved = r.reserved
      /\ [r EXCEPT !.status = s, !.unauthorized = b].reserved = r.reserved
      /\ [r EXCEPT !.reserved = c].reserved = c
  BY DEF AccountRow
<1> QED BY <1>1, <1>2, <1>3, <1>4, <1>5 DEF d, v

LEMMA ReservedOfTask ==
    ASSUME NEW r \in TaskRow, NEW s, NEW c, NEW n, NEW b, NEW a
    PROVE  /\ [r EXCEPT !.status = s].reserved = r.reserved
           /\ [r EXCEPT !.status = s, !.account = a, !.reserved = c, !.attempts = n].reserved = c
           /\ [r EXCEPT !.status = s, !.reserved = c, !.upstreamId = n, !.nextSync = b].reserved = c
           /\ [SyncReleased(r) EXCEPT !.status = s].reserved = r.reserved
           /\ [SyncReleased(r) EXCEPT !.nextSync = b].reserved = r.reserved
           /\ [r EXCEPT !.syncLive = b].reserved = r.reserved
  BY DEF TaskRow, SyncReleased

-----------------------------------------------------------------------------
(* One lemma for the actions of each kind.                                 *)

LEMMA RestKeepsDebts ==
    ASSUME TypeOK, Reservations, task' = task,
           \A b \in Account : account'[b].reserved = account[b].reserved
    PROVE  Reservations'
<1>1. \A t \in Task : \A a \in Account : OwedBy(task'[t], a) = OwedBy(task[t], a)
  OBVIOUS
<1> QED BY <1>1, SameDebts

LEMMA StatusKeepsDebts ==
    ASSUME TypeOK, Reservations, NEW t \in Task, NEW s,
           task' = [task EXCEPT ![t] = [task[t] EXCEPT !.status = s]],
           s \in Holding <=> task[t].status \in Holding, UNCHANGED account
    PROVE  Reservations'
<1>1. PICK row : row = [task[t] EXCEPT !.status = s]
  OBVIOUS
<1>2. row.status = s /\ row.account = task[t].account /\ row.reserved = task[t].reserved
  BY <1>1, RowsOfTask, ReservedOfTask DEF TypeOK
<1>3. task' = [task EXCEPT ![t] = row]
  BY <1>1
<1> QED BY <1>2, <1>3, DebtKept

LEMMA ApiKeepsDebts ==
    ASSUME TypeOK, Reservations, NEW t \in Task, CreateTask(t) \/ CancelTask(t)
    PROVE  Reservations'
<1>1. PICK s \in {"QUEUED", "CANCELED"} : task' = [task EXCEPT ![t] = [task[t] EXCEPT !.status = s]]
  BY DEF CreateTask, CancelTask
<1>2. task[t].status \notin Holding /\ s \notin Holding
  BY HoldingWords DEF CreateTask, CancelTask
<1>3. UNCHANGED account
  BY DEF CreateTask, CancelTask
<1> QED BY <1>1, <1>2, <1>3, StatusKeepsDebts

LEMMA ClaimKeepsDebts ==
    ASSUME TypeOK, TypeOK', Reservations, NEW w \in Worker, NEW t \in Task,
           ClaimFindsNoAccount(w, t) \/ \E a \in Account : ClaimAndAssign(w, t, a)
    PROVE  Reservations'
<1>0. task[t] \in TaskRow /\ task[t].status \notin Holding
  BY HoldingWords DEF TypeOK, ClaimFindsNoAccount, ClaimAndAssign, Claimable
<1>1. CASE ClaimFindsNoAccount(w, t)
  <2>1. task' = [task EXCEPT ![t] = [task[t] EXCEPT !.status = "WAITING_ACCOUNT"]]
        /\ UNCHANGED account
    BY <1>1 DEF ClaimFindsNoAccount
  <2>2. "WAITING_ACCOUNT" \notin Holding
    BY HoldingWords
  <2> QED BY <1>0, <2>1, <2>2, StatusKeepsDebts
<1>2. ASSUME NEW a \in Account, ClaimAndAssign(w, t, a)
      PROVE  Reservations'
  <2>1. PICK row : row = [task[t] EXCEPT !.status = FirstStatus(t), !.account = a,
                            !.reserved = Estimate, !.attempts = task[t].attempts + 1]
    OBVIOUS
  <2>2. task' = [task EXCEPT ![t] = row]
    BY <1>2, <2>1 DEF ClaimAndAssign
  <2>3. row.status = FirstStatus(t) /\ row.account = a /\ row.reserved = Estimate
    BY <1>0, <2>1, RowsOfTask, ReservedOfTask
  <2>4. row.status \in Holding
    BY <2>3, HoldingWords DEF FirstStatus
  <2>5. row \in TaskRow
    BY <2>2, OneRow DEF TypeOK
  <2>6. account' = [account EXCEPT ![a] = Charged(account[a], Estimate)]
    BY <1>2 DEF ClaimAndAssign
  <2>7. Charged(account[a], Estimate).reserved = account[a].reserved + Estimate
    BY ReservedOfAccount DEF TypeOK
  <2>8. ASSUME NEW b \in Account
        PROVE  account'[b].reserved = account[b].reserved - OwedBy(task[t], b) + OwedBy(row, b)
    <3>1. account[b].reserved \in Nat /\ OwedBy(task[t], b) = 0
      BY <1>0, DebtIsCovered DEF OwedBy
    <3>2. OwedBy(row, b) = IF b = a THEN Estimate ELSE 0
      BY <2>3, <2>4 DEF OwedBy
    <3>3. account'[b].reserved = IF b = a THEN account[a].reserved + Estimate ELSE account[b].reserved
      BY <2>6, <2>7 DEF TypeOK
    <3> QED BY <3>1, <3>2, <3>3, CostAssumption
  <2> QED BY <2>2, <2>5, <2>8, DebtMoves
<1> QED BY <1>1, <1>2

LEMMA RefreshKeepsDebts ==
    ASSUME TypeOK, Reservations, NEW t \in Task, NEW n \in Attempt, PreSubmitRefresh(t, n)
    PROVE  Reservations'
<1>1. task' = task
  BY DEF PreSubmitRefresh
<1>2. CASE UNCHANGED account
  BY <1>1, <1>2, RestKeepsDebts
<1>3. ASSUME NEW s, NEW b, Refreshed(handler[t][n].account, s, b)
      PROVE  Reservations'
  BY <1>1, <1>3, ReservedOfAccount, SameReserved, RestKeepsDebts DEF Refreshed, TypeOK
<1> QED BY <1>2, <1>3 DEF PreSubmitRefresh

(* The provider's cost replaces the estimate, on the task and its account. *)
LEMMA SuccessKeepsDebts ==
    ASSUME TypeOK, TypeOK', HandlerOwnsTask, Counted, Reservations,
           NEW t \in Task, NEW n \in Attempt, FinishSubmitSuccess(t, n)
    PROVE  Reservations'
<1>0. task[t] \in TaskRow /\ handler[t][n] \in HandlerRow
  BY DEF TypeOK
<1>1. CASE task[t].status = "SUBMITTING"
  <2>1. task[t].status \in Holding /\ task[t].reserved \in Nat
    BY <1>0, <1>1, HoldingWords DEF TaskRow
  <2>2. PICK a \in Account : a = task[t].account /\ handler[t][n].account = a
    BY <2>1 DEF Counted, HandlerOwnsTask, FinishSubmitSuccess
  <2>3. PICK cost \in Nat : cost = handler[t][n].cost
    BY <1>0 DEF HandlerRow
  <2>4. PICK row : /\ task' = [task EXCEPT ![t] = row]
                   /\ row = [task[t] EXCEPT !.status = "UPSTREAM_QUEUED", !.reserved = cost,
                                           !.upstreamId = n, !.nextSync = TRUE]
    BY <1>1, <2>3 DEF FinishSubmitSuccess
  <2>5. /\ row.status = "UPSTREAM_QUEUED" /\ row.account = a /\ row.reserved = cost
        /\ row \in TaskRow /\ row.status \in Holding
    <3>1. row.status = "UPSTREAM_QUEUED" /\ row.account = a /\ row.reserved = cost
      BY <1>0, <2>2, <2>4, RowsOfTask, ReservedOfTask
    <3>2. row \in TaskRow
      BY <2>4, OneRow DEF TypeOK
    <3> QED BY <3>1, <3>2, HoldingWords
  <2>6. PICK c : /\ c = Minus(account[a].reserved + (cost - task[t].reserved), 0)
                 /\ account' = [account EXCEPT ![a] = [account[a] EXCEPT !.reserved = c]]
    BY <1>1, <2>2, <2>3 DEF FinishSubmitSuccess
  <2>7. OwedBy(task[t], a) = task[t].reserved /\ OwedBy(row, a) = cost
    BY <2>1, <2>2, <2>5 DEF OwedBy
  <2>8. c = account[a].reserved - OwedBy(task[t], a) + OwedBy(row, a)
    <3>1. account[a].reserved \in Nat /\ task[t].reserved <= account[a].reserved
      BY <2>7, DebtIsCovered
    <3> QED BY <2>1, <2>3, <2>6, <2>7, <3>1 DEF Minus
  <2>9. ASSUME NEW b \in Account
        PROVE  account'[b].reserved = account[b].reserved - OwedBy(task[t], b) + OwedBy(row, b)
    <3>1. CASE b = a
      <4>1. account'[a].reserved = c
        BY <2>6, ReservedOfAccount DEF TypeOK
      <4> QED BY <2>8, <3>1, <4>1
    <3>2. CASE b # a
      <4>1. OwedBy(task[t], b) = 0 /\ OwedBy(row, b) = 0 /\ account'[b] = account[b]
        BY <2>2, <2>5, <2>6, <3>2 DEF OwedBy, TypeOK
      <4>2. account[b].reserved \in Nat
        BY DebtIsCovered
      <4> QED BY <4>1, <4>2
    <3> QED BY <3>1, <3>2
  <2> QED BY <2>4, <2>5, <2>9, DebtMoves
<1>2. CASE task[t].status # "SUBMITTING"
  BY <1>2, RestKeepsDebts DEF FinishSubmitSuccess
<1> QED BY <1>1, <1>2

LEMMA FailureKeepsDebts ==
    ASSUME TypeOK, TypeOK', HandlerOwnsTask, Counted, Reservations,
           NEW t \in Task, NEW n \in Attempt, FinishSubmitFailure(t, n)
    PROVE  Reservations'
<1>1. CASE task[t].status \in InFlight
  <2>1. PICK a \in Account : a = task[t].account
    BY <1>1 DEF Counted, Holding
  <2>2. handler[t][n].account = a
    BY <2>1 DEF HandlerOwnsTask, FinishSubmitFailure
  <2> DEFINE e == handler[t][n].error
             status == StatusAfterError(e, account[a].status)
  <2>3. PICK r : /\ account' = [account EXCEPT ![a] = r]
                 /\ r = [Released(account[a], task[t].reserved) EXCEPT
                           !.status = status, !.unauthorized = (e = "UPSTREAM_UNAUTHORIZED")]
    BY <1>1, <2>2 DEF FinishSubmitFailure
  <2> HIDE DEF status
  <2>4. PICK s \in {"RETRY_WAIT", "FAILED"} :
          task' = [task EXCEPT ![t] = [task[t] EXCEPT !.status = s, !.reserved = 0]]
    BY <1>1 DEF FinishSubmitFailure
  <2>5. PICK row : row = [task[t] EXCEPT !.status = s, !.reserved = 0]
    OBVIOUS
  <2>6. r.reserved = Minus(account[a].reserved, task[t].reserved) /\ row.status = s
    BY <2>3, <2>5, ReservedOfAccount, RowsOfTask DEF TypeOK
  <2>7. row \in TaskRow
    BY <2>4, <2>5, OneRow DEF TypeOK
  <2>8. task[t].status \in Holding /\ row.status \notin Holding
    BY <1>1, <2>4, <2>6, HoldingWords
  <2> QED BY <2>1, <2>3, <2>4, <2>5, <2>6, <2>7, <2>8, DebtEnds
<1>2. CASE task[t].status \notin InFlight
  BY <1>2, RestKeepsDebts DEF FinishSubmitFailure
<1> QED BY <1>1, <1>2

LEMMA WorkerKeepsDebts ==
    ASSUME TypeOK, TypeOK', HandlerOwnsTask, Counted, Reservations,
           NEW t \in Task, NEW n \in Attempt, WorkerStep(t, n)
    PROVE  Reservations'
<1>1. CASE MarkSubmissionReady(t, n)
  <2>1. CASE task[t].status = "RESOLVING_MEDIA"
    <3>1. task' = [task EXCEPT ![t] = [task[t] EXCEPT !.status = "SUBMITTING"]] /\ UNCHANGED account
      BY <1>1, <2>1 DEF MarkSubmissionReady
    <3>2. "SUBMITTING" \in Holding /\ "RESOLVING_MEDIA" \in Holding
      BY HoldingWords
    <3> QED BY <2>1, <3>1, <3>2, StatusKeepsDebts
  <2>2. CASE task[t].status # "RESOLVING_MEDIA"
    BY <1>1, <2>2, RestKeepsDebts DEF MarkSubmissionReady
  <2> QED BY <2>1, <2>2
<1>2. CASE UNCHANGED <<task, account>>
  BY <1>2, RestKeepsDebts
<1>3. CASE \/ \E code \in Errors : UpstreamRaises(t, n, code)
           \/ \E cost \in ApiCost : GenerateAccepted(t, n, cost)
           \/ GenerateAnswerLost(t, n) \/ FinishAborts(t, n) \/ RenewalEnds(t, n)
  BY <1>2, <1>3 DEF UpstreamRaises, GenerateAccepted, GenerateAnswerLost, FinishAborts, RenewalEnds
<1> QED BY <1>1, <1>3, RefreshKeepsDebts, SuccessKeepsDebts, FailureKeepsDebts DEF WorkerStep

LEMMA LeaseKeepsDebts ==
    ASSUME TypeOK, TypeOK', Counted, Reservations, NEW t \in Task, LeaseStep(t)
    PROVE  Reservations'
<1>0. task[t] \in TaskRow
  BY DEF TypeOK
<1>1. CASE LeaseRunsOut(t) \/ RenewLease(t)
  BY <1>1, RestKeepsDebts DEF LeaseRunsOut, RenewLease
<1>2. CASE RecoverExpiredLease(t)
  <2>0. PICK s \in {"RETRY_WAIT", "FAILED"} :
          task' = [task EXCEPT ![t] = [task[t] EXCEPT !.status = s, !.reserved = 0]]
    BY <1>2 DEF RecoverExpiredLease
  <2>1. PICK row : /\ task' = [task EXCEPT ![t] = row]
                   /\ row = [task[t] EXCEPT !.status = s, !.reserved = 0]
    BY <2>0
  <2>2. /\ task[t].status \in Holding /\ row.status \notin Holding /\ row \in TaskRow
    <3>1. row.status = s
      BY <1>0, <2>1, RowsOfTask
    <3>2. row \in TaskRow
      BY <2>1, OneRow DEF TypeOK
    <3> QED BY <1>2, <3>1, <3>2, HoldingWords DEF RecoverExpiredLease
  <2>3. task[t].account \in Account
    BY <2>2 DEF Counted
  <2>4. PICK r : /\ account' = [account EXCEPT ![task[t].account] = r]
                 /\ r = Released(account[task[t].account], task[t].reserved)
    BY <1>2 DEF RecoverExpiredLease
  <2>5. r.reserved = Minus(account[task[t].account].reserved, task[t].reserved)
    BY <2>3, <2>4, ReservedOfAccount DEF TypeOK
  <2> QED BY <2>1, <2>2, <2>4, <2>5, DebtEnds
<1>3. CASE SyncLeaseRunsOut(t)
  <2>1. task' = [task EXCEPT ![t] = [task[t] EXCEPT !.syncLive = FALSE]] /\ UNCHANGED account
    BY <1>3 DEF SyncLeaseRunsOut
  <2>2. PICK row : row = [task[t] EXCEPT !.syncLive = FALSE]
    OBVIOUS
  <2>3. /\ row.status = task[t].status /\ row.account = task[t].account
        /\ row.reserved = task[t].reserved
    BY <1>0, <2>2, RowsOfTask, ReservedOfTask
  <2> QED BY <2>1, <2>2, <2>3, DebtKept
<1>4. CASE FailTimedOut(t)
  <2>1. PICK row : /\ task' = [task EXCEPT ![t] = row]
                   /\ row = [SyncReleased(task[t]) EXCEPT !.status = "FAILED", !.nextSync = FALSE]
    BY <1>4 DEF FailTimedOut
  <2>2. task[t].status \in Holding /\ row.status \notin Holding /\ row \in TaskRow
    <3>1. row.status = "FAILED"
      BY <1>0, <2>1, RowsOfTask
    <3>2. row \in TaskRow
      BY <2>1, OneRow DEF TypeOK
    <3> QED BY <1>4, <3>1, <3>2, HoldingWords DEF FailTimedOut
  <2>3. task[t].account \in Account
    BY <2>2 DEF Counted
  <2>4. PICK r : /\ account' = [account EXCEPT ![task[t].account] = r]
                 /\ r = Released(account[task[t].account], task[t].reserved)
    BY <1>4 DEF FailTimedOut
  <2>5. r.reserved = Minus(account[task[t].account].reserved, task[t].reserved)
    BY <2>3, <2>4, ReservedOfAccount DEF TypeOK
  <2> QED BY <2>1, <2>2, <2>4, <2>5, DebtEnds
<1> QED BY <1>1, <1>2, <1>3, <1>4 DEF LeaseStep

(* A settled poll.                                                         *)
LEMMA PollSettlesDebts ==
    ASSUME TypeOK, TypeOK', Counted, Reservations, NEW y \in Syncer, NEW t \in Task,
           \/ \E low \in BOOLEAN : PollCompleted(y, t, low)
           \/ \E code \in DOMAIN RetryLimit : PollRetried(y, t, code)
           \/ \E code : PollFailed(y, t, code)
    PROVE  Reservations'
<1> DEFINE a == task[t].account
<1>0. task[t] \in TaskRow
  BY DEF TypeOK
<1>1. task[t].status \in Holding
  BY HoldingWords DEF PollCompleted, PollRetried, PollFailed, ResultApplies
<1>2. a \in Account /\ account[a] \in AccountRow
  BY <1>1 DEF Counted, TypeOK
<1>3. PICK row : /\ task' = [task EXCEPT ![t] = row]
                 /\ \/ row = [SyncReleased(task[t]) EXCEPT !.status = "COMPLETED", !.nextSync = FALSE]
                    \/ row = [SyncReleased(task[t]) EXCEPT !.status = "FAILED", !.nextSync = FALSE]
                    \/ \E f : row = [SyncReleased(task[t]) EXCEPT
                                       !.status = "RETRY_WAIT", !.reserved = 0, !.upstreamId = 0,
                                       !.nextSync = FALSE, !.retries = f]
  <2>1. CASE \E low \in BOOLEAN : PollCompleted(y, t, low)
    BY <2>1 DEF PollCompleted
  <2>2. CASE \E code : PollFailed(y, t, code)
    BY <2>2 DEF PollFailed
  <2>3. ASSUME NEW code \in DOMAIN RetryLimit, PollRetried(y, t, code)
        PROVE  \E f : task' = [task EXCEPT ![t] =
                   [SyncReleased(task[t]) EXCEPT !.status = "RETRY_WAIT", !.reserved = 0,
                                               !.upstreamId = 0, !.nextSync = FALSE, !.retries = f]]
    <3>1. SyncReleased(task[t]).retries = task[t].retries
      BY <1>0 DEF TaskRow, SyncReleased
    <3> QED BY <2>3, <3>1 DEF PollRetried
  <2> QED BY <2>1, <2>2, <2>3
<1>4. row.status \in {"COMPLETED", "FAILED", "RETRY_WAIT"}
  <2>1. CASE row = [SyncReleased(task[t]) EXCEPT !.status = "COMPLETED", !.nextSync = FALSE]
    BY <1>0, <2>1, RowsOfTask
  <2>2. CASE row = [SyncReleased(task[t]) EXCEPT !.status = "FAILED", !.nextSync = FALSE]
    BY <1>0, <2>2, RowsOfTask
  <2>3. ASSUME NEW f,
               row = [SyncReleased(task[t]) EXCEPT
                        !.status = "RETRY_WAIT", !.reserved = 0, !.upstreamId = 0,
                        !.nextSync = FALSE, !.retries = f]
        PROVE  row.status = "RETRY_WAIT"
    BY <1>0, <2>3, RowsOfTask
  <2> QED BY <1>3, <2>1, <2>2, <2>3
<1>5. row \in TaskRow /\ row.status \notin Holding
  BY <1>3, <1>4, OneRow, HoldingWords DEF TypeOK
<1>6. PICK r : /\ account' = [account EXCEPT ![a] = r]
               /\ \/ r = Released(account[a], task[t].reserved)
                  \/ \E s : r = [Released(account[a], task[t].reserved) EXCEPT !.status = s]
  BY DEF PollCompleted, PollRetried, PollFailed
<1>7. r.reserved = Minus(account[a].reserved, task[t].reserved)
  <2>1. CASE r = Released(account[a], task[t].reserved)
    BY <1>2, <2>1, ReservedOfAccount
  <2>2. ASSUME NEW s, r = [Released(account[a], task[t].reserved) EXCEPT !.status = s]
        PROVE  r.reserved = Minus(account[a].reserved, task[t].reserved)
    BY <1>2, <2>2, ReservedOfAccount
  <2> QED BY <1>6, <2>1, <2>2
<1> QED BY <1>1, <1>3, <1>5, <1>6, <1>7, DebtEnds

LEMMA PollErrorKeepsDebts ==
    ASSUME TypeOK, Reservations, NEW y \in Syncer, NEW t \in Task, NEW code, ApplyPollError(y, t, code)
    PROVE  Reservations'
<1>1. PICK row : /\ task' = [task EXCEPT ![t] = row]
                 /\ row = [SyncReleased(task[t]) EXCEPT !.nextSync = TRUE]
  BY DEF ApplyPollError
<1>2. /\ row.status = task[t].status /\ row.account = task[t].account
      /\ row.reserved = task[t].reserved
  BY <1>1, RowsOfTask, ReservedOfTask DEF TypeOK
<1>3. \/ UNCHANGED account
      \/ \E s, b : account' = [account EXCEPT ![task[t].account] =
                               [account[task[t].account] EXCEPT !.status = s, !.unauthorized = b]]
  BY DEF ApplyPollError
<1>4. \A b \in Account : account'[b].reserved = account[b].reserved
  <2>1. CASE UNCHANGED account
    BY <2>1
  <2>2. ASSUME NEW s, NEW b,
               account' = [account EXCEPT ![task[t].account] =
                             [account[task[t].account] EXCEPT !.status = s, !.unauthorized = b]]
        PROVE  \A c \in Account : account'[c].reserved = account[c].reserved
    BY <2>2, ReservedOfAccount, SameReserved DEF TypeOK
  <2> QED BY <1>3, <2>1, <2>2
<1> QED BY <1>1, <1>2, <1>4, DebtKept

LEMMA SyncerKeepsDebts ==
    ASSUME TypeOK, TypeOK', Counted, Reservations, NEW y \in Syncer, NEW t \in Task, SyncerStep(y, t)
    PROVE  Reservations'
<1>1. CASE LoadSyncItem(y, t) \/ PollDropped(y, t)
  BY <1>1, RestKeepsDebts DEF LoadSyncItem, PollDropped
<1>2. ASSUME NEW s \in {"RUNNING", task[t].status}, PollStillRunning(y, t, s)
      PROVE  Reservations'
  <2>1. PICK row : /\ task' = [task EXCEPT ![t] = row]
                   /\ row = [SyncReleased(task[t]) EXCEPT !.status = s]
    BY <1>2 DEF PollStillRunning
  <2>2. row.status = s /\ row.account = task[t].account /\ row.reserved = task[t].reserved
    BY <2>1, RowsOfTask, ReservedOfTask DEF TypeOK
  <2>3. row.status \in Holding /\ task[t].status \in Holding
    BY <1>2, <2>2, HoldingWords DEF PollStillRunning, ResultApplies
  <2> QED BY <1>2, <2>1, <2>2, <2>3, DebtKept DEF PollStillRunning
<1> QED BY <1>1, <1>2, PollSettlesDebts, PollErrorKeepsDebts DEF SyncerStep

LEMMA BatchKeepsDebts ==
    ASSUME TypeOK, Reservations, NEW y \in Syncer, NEW batch \in SUBSET Task, ClaimSyncBatch(y, batch)
    PROVE  Reservations'
<1>1. \A u \in Task : /\ task'[u].status = task[u].status /\ task'[u].account = task[u].account
                      /\ task'[u].reserved = task[u].reserved
  BY DEF ClaimSyncBatch, TypeOK, TaskRow
<1>2. \A u \in Task : \A a \in Account : OwedBy(task'[u], a) = OwedBy(task[u], a)
  BY <1>1 DEF OwedBy
<1> QED BY <1>2, SameDebts DEF ClaimSyncBatch

LEMMA AccountKeepsDebts ==
    ASSUME TypeOK, Reservations, NEW a \in Account, AccountStep(a)
    PROVE  Reservations'
<1>1. task' = task
  BY DEF AccountStep, ManualDisable, ManualEnable, TokenReported, EnforceAccountGuard,
     AccountValidated, RefreshBalance
<1>2. \/ \E s : account' = [account EXCEPT ![a] = [account[a] EXCEPT !.status = s]]
      \/ \E s, b : account' = [account EXCEPT ![a] =
                               [account[a] EXCEPT !.status = s, !.unauthorized = b]]
  BY DEF AccountStep, ManualDisable, ManualEnable, TokenReported, EnforceAccountGuard,
     AccountValidated, RefreshBalance, Refreshed
<1>3. \A b \in Account : account'[b].reserved = account[b].reserved
  <2>1. ASSUME NEW s, account' = [account EXCEPT ![a] = [account[a] EXCEPT !.status = s]]
        PROVE  \A b \in Account : account'[b].reserved = account[b].reserved
    BY <2>1, ReservedOfAccount, SameReserved DEF TypeOK
  <2>2. ASSUME NEW s, NEW u,
               account' = [account EXCEPT ![a] = [account[a] EXCEPT !.status = s, !.unauthorized = u]]
        PROVE  \A b \in Account : account'[b].reserved = account[b].reserved
    BY <2>2, ReservedOfAccount, SameReserved DEF TypeOK
  <2> QED BY <1>2, <2>1, <2>2
<1> QED BY <1>1, <1>3, RestKeepsDebts

LEMMA NextKeepsDebts ==
    TypeOK /\ TypeOK' /\ HandlerOwnsTask /\ Counted /\ Reservations /\ [Next]_vars => Reservations'
<1> SUFFICES ASSUME TypeOK, TypeOK', HandlerOwnsTask, Counted, Reservations, [Next]_vars
             PROVE  Reservations'
  OBVIOUS
<1>1. CASE \/ \E w \in Worker : WorkerCrash(w)
           \/ \E y \in Syncer : SyncerCrash(y)
           \/ UNCHANGED vars
  BY <1>1, RestKeepsDebts DEF WorkerCrash, SyncerCrash, vars
<1> QED BY <1>1, ApiKeepsDebts, LeaseKeepsDebts, ClaimKeepsDebts, WorkerKeepsDebts,
           BatchKeepsDebts, SyncerKeepsDebts, AccountKeepsDebts DEF Next

LEMMA InitKeepsDebts == Init => Reservations
<1> SUFFICES ASSUME Init, NEW a \in Account PROVE account[a].reserved = Owed(a)
  BY DEF Reservations
<1> DEFINE f == [t \in Task |-> OwedBy(task[t], a)]
<1>1. \A t \in Task : f[t] = 0
  BY HoldingWords DEF Init, OwedBy
<1> HIDE DEF f
<1>2. SumFunctionOnSet(f, Task) = 0
  BY <1>1, FiniteAssumption, SumOfZeros
<1> QED BY <1>2 DEF Owed, f, Init

(* While no lease runs out under a live handler, what an attempt takes is  *)
(* given back once, by whichever of the finishing, polling, recovering and *)
(* expiring transactions ends it: the slots of an account and of its space *)
(* are the tasks that hold one, and the credits an account has reserved    *)
(* are the sum of what those tasks reserve.  None of the floors of the     *)
(* decrements is ever reached.                                             *)
THEOREM NothingLeaks ==
    ASSUME ~LeaseOverrun
    PROVE  Spec => []ResourcesConserved
<1>1. TypeOK /\ HandlerOwnsTask /\ Counted /\ [Next]_vars => Counted'
  BY NextCounted
<1>2. TypeOK /\ TypeOK' /\ HandlerOwnsTask /\ Counted /\ Reservations /\ [Next]_vars => Reservations'
  BY NextKeepsDebts
<1>3. TypeOK /\ Counted /\ Reservations => ResourcesConserved
  BY SpacesAddUp, ReservationsAddUp DEF ResourcesConserved
<1> QED BY <1>1, <1>2, <1>3, InitCounted, InitKeepsDebts, HandlersOwnTheirTasks, TypeCorrect, PTL DEF Spec

-----------------------------------------------------------------------------
(* The contract of the tasks, one action of it at a time.                  *)

Phases == [t \in Task |-> PhaseOf(task[t].status)]
SlotHolders == [t \in Task |-> HolderOf(t)]

\* The steps of the contract that assign no account, and the invisible ones.
Allowed ==
    \/ \E t \in Task :
         \/ Contract!Create(t) \/ Contract!Cancel(t) \/ Contract!Submitted(t) \/ Contract!GiveBack(t)
         \/ \E outcome \in {"COMPLETED", "FAILED"} : Contract!End(t, outcome)
    \/ UNCHANGED <<Phases, SlotHolders>>

\* How the statuses look to a client.
LEMMA PhaseWords ==
    /\ \A s \in Waiting : PhaseOf(s) = "WAITING"
    /\ \A s \in InFlight : PhaseOf(s) = "SUBMITTING"
    /\ \A s \in Upstream : PhaseOf(s) = "GENERATING"
    /\ \A s \in Terminal \cup {"ABSENT"} : PhaseOf(s) = s
  BY DEF PhaseOf, Waiting, InFlight, Upstream, Terminal

\* The row of one task changes.
LEMMA OneTaskMoves ==
    ASSUME TypeOK, NEW t \in Task, NEW row, task' = [task EXCEPT ![t] = row]
    PROVE  /\ Phases' = [Phases EXCEPT ![t] = PhaseOf(row.status)]
           /\ SlotHolders' = [SlotHolders EXCEPT
                                ![t] = IF row.status \in Holding THEN row.account ELSE Nobody]
<1>1. task'[t] = row /\ \A u \in Task \ {t} : task'[u] = task[u]
  BY OneRow
<1>2. \A u \in Task : Phases'[u] = IF u = t THEN PhaseOf(row.status) ELSE Phases[u]
  BY <1>1 DEF Phases, PhaseOf
<1>3. \A u \in Task : SlotHolders'[u] = IF u = t THEN IF row.status \in Holding THEN row.account ELSE Nobody
                                      ELSE SlotHolders[u]
  BY <1>1 DEF SlotHolders, HolderOf, Holding
<1>4. Phases' \in [Task -> {Phases'[u] : u \in Task}] /\ SlotHolders' \in [Task -> {SlotHolders'[u] : u \in Task}]
  BY DEF Phases, SlotHolders
<1> QED BY <1>2, <1>3 DEF Phases, SlotHolders

\* The rows change in nothing a client can tell.
LEMMA NothingMoves ==
    ASSUME \A t \in Task : /\ PhaseOf(task'[t].status) = PhaseOf(task[t].status)
                           /\ task'[t].status \in Holding <=> task[t].status \in Holding
                           /\ task[t].status \in Holding => task'[t].account = task[t].account
    PROVE  Allowed
<1>1. Phases' = Phases
  BY DEF Phases, PhaseOf
<1>2. SlotHolders' = SlotHolders
  BY DEF SlotHolders, HolderOf, Holding
<1> QED BY <1>1, <1>2 DEF Allowed

\* A row keeps its phase and its account.
LEMMA PhaseKept ==
    ASSUME TypeOK, NEW t \in Task, NEW row, task' = [task EXCEPT ![t] = row],
           PhaseOf(row.status) = PhaseOf(task[t].status),
           row.status \in Holding <=> task[t].status \in Holding,
           row.account = task[t].account
    PROVE  Allowed
<1>1. task'[t] = row /\ \A u \in Task \ {t} : task'[u] = task[u]
  BY OneRow
<1>2. \A u \in Task : /\ PhaseOf(task'[u].status) = PhaseOf(task[u].status)
                      /\ task'[u].status \in Holding <=> task[u].status \in Holding
                      /\ task[u].status \in Holding => task'[u].account = task[u].account
  BY <1>1
<1> QED BY <1>2, NothingMoves

\* A row that holds no slot, before and after.
LEMMA OffTheAccounts ==
    ASSUME TypeOK, NEW t \in Task, NEW row, task' = [task EXCEPT ![t] = row],
           \/ task[t].status = "ABSENT" /\ row.status \in Waiting
           \/ task[t].status \in Waiting /\ row.status \in Waiting \cup {"CANCELED"}
    PROVE  Allowed
<1>1. task[t].status \notin Holding /\ row.status \notin Holding
  BY HoldingWords DEF Terminal
<1>2. /\ Phases' = [Phases EXCEPT ![t] = PhaseOf(row.status)]
      /\ SlotHolders' = [SlotHolders EXCEPT ![t] = Nobody]
  BY <1>1, OneTaskMoves
<1>3. SlotHolders' = SlotHolders
  BY <1>1, <1>2 DEF SlotHolders, HolderOf, Holding
<1>4. Phases[t] = PhaseOf(task[t].status)
  BY DEF Phases
<1>5. CASE task[t].status = "ABSENT" /\ row.status \in Waiting
  <2>1. Phases[t] = "ABSENT" /\ PhaseOf(row.status) = "WAITING"
    BY <1>4, <1>5, PhaseWords
  <2>2. Contract!Create(t)
    BY <1>2, <1>3, <2>1 DEF Contract!Create, Phases, SlotHolders
  <2> QED BY <2>2 DEF Allowed
<1>6. CASE task[t].status \in Waiting /\ row.status \in Waiting
  <2>1. Phases' = Phases
    BY <1>2, <1>4, <1>6, PhaseWords DEF Phases
  <2> QED BY <1>3, <2>1 DEF Allowed
<1>7. CASE task[t].status \in Waiting /\ row.status = "CANCELED"
  <2>1. Phases[t] = "WAITING" /\ PhaseOf(row.status) = "CANCELED"
    BY <1>4, <1>7, PhaseWords DEF Terminal
  <2>2. Contract!Cancel(t)
    BY <1>2, <1>3, <2>1 DEF Contract!Cancel, Phases, SlotHolders
  <2> QED BY <2>2 DEF Allowed
<1> QED BY <1>5, <1>6, <1>7

\* An attempt or a generation ends and gives up its slot.
LEMMA SlotGivenBack ==
    ASSUME TypeOK, NEW t \in Task, NEW row, task' = [task EXCEPT ![t] = row],
           task[t].status \in Holding,
           row.status \in Waiting \cup {"COMPLETED", "FAILED"},
           row.status = "COMPLETED" => task[t].status \in Upstream
    PROVE  Allowed
<1>1. row.status \notin Holding
  BY HoldingWords DEF Terminal
<1>2. /\ Phases' = [Phases EXCEPT ![t] = PhaseOf(row.status)]
      /\ SlotHolders' = [SlotHolders EXCEPT ![t] = Nobody]
  BY <1>1, OneTaskMoves
<1>3. /\ Phases[t] \in {"SUBMITTING", "GENERATING"}
      /\ task[t].status \in Upstream => Phases[t] = "GENERATING"
  BY PhaseWords DEF Phases, Holding
<1>4. CASE row.status \in Waiting
  <2>1. PhaseOf(row.status) = "WAITING"
    BY <1>4, PhaseWords
  <2>2. Contract!GiveBack(t)
    BY <1>2, <1>3, <2>1 DEF Contract!GiveBack, Phases, SlotHolders
  <2> QED BY <2>2 DEF Allowed
<1>5. CASE row.status \in {"COMPLETED", "FAILED"}
  <2>1. PhaseOf(row.status) = row.status
    BY <1>5, PhaseWords DEF Terminal
  <2>2. Contract!End(t, row.status)
    BY <1>2, <1>3, <1>5, <2>1 DEF Contract!End, Phases, SlotHolders
  <2> QED BY <1>5, <2>2 DEF Allowed
<1> QED BY <1>4, <1>5

LEMMA RowsStay ==
    ASSUME task' = task PROVE Allowed
<1>1. \A t \in Task : task'[t] = task[t]
  OBVIOUS
<1> QED BY <1>1, NothingMoves

-----------------------------------------------------------------------------
(* One lemma for the steps of each kind.                                   *)

LEMMA ApiIsAllowed ==
    ASSUME TypeOK, NEW t \in Task, CreateTask(t) \/ CancelTask(t)
    PROVE  Allowed
<1>1. PICK s \in {"QUEUED", "CANCELED"} :
        /\ task' = [task EXCEPT ![t] = [task[t] EXCEPT !.status = s]]
        /\ \/ s = "QUEUED" /\ task[t].status = "ABSENT"
           \/ s = "CANCELED" /\ task[t].status \in Waiting
  BY DEF CreateTask, CancelTask
<1>2. PICK row : row = [task[t] EXCEPT !.status = s]
  OBVIOUS
<1>3. row.status = s
  BY <1>2, RowsOfTask DEF TypeOK
<1> QED BY <1>1, <1>2, <1>3, OffTheAccounts DEF Waiting

LEMMA EmptyClaimIsAllowed ==
    ASSUME TypeOK, NEW w \in Worker, NEW t \in Task, ClaimFindsNoAccount(w, t)
    PROVE  Allowed
<1>1. task[t] \in TaskRow /\ task[t].status \in Waiting
  BY DEF TypeOK, ClaimFindsNoAccount, Claimable
<1>2. PICK row : /\ task' = [task EXCEPT ![t] = row]
                 /\ row = [task[t] EXCEPT !.status = "WAITING_ACCOUNT"]
  BY DEF ClaimFindsNoAccount
<1>3. row.status \in Waiting
  BY <1>1, <1>2, RowsOfTask, HoldingWords
<1> QED BY <1>1, <1>2, <1>3, OffTheAccounts

\* What a handler does: media, submission, success and failure.
LEMMA WorkerIsAllowed ==
    ASSUME TypeOK, NEW t \in Task, NEW n \in Attempt, WorkerStep(t, n)
    PROVE  Allowed
<1>0. task[t] \in TaskRow
  BY DEF TypeOK
<1>1. CASE MarkSubmissionReady(t, n) /\ task[t].status = "RESOLVING_MEDIA"
  <2>1. PICK row : /\ task' = [task EXCEPT ![t] = row]
                   /\ row = [task[t] EXCEPT !.status = "SUBMITTING"]
    BY <1>1 DEF MarkSubmissionReady
  <2>2. row.status = "SUBMITTING" /\ row.account = task[t].account
    BY <1>0, <2>1, RowsOfTask
  <2> QED BY <1>1, <2>1, <2>2, HoldingWords, PhaseWords, PhaseKept
<1>2. CASE FinishSubmitSuccess(t, n) /\ task[t].status = "SUBMITTING"
  <2>1. PICK row : /\ task' = [task EXCEPT ![t] = row]
                   /\ row = [task[t] EXCEPT !.status = "UPSTREAM_QUEUED",
                                           !.reserved = handler[t][n].cost,
                                           !.upstreamId = n, !.nextSync = TRUE]
    BY <1>2 DEF FinishSubmitSuccess
  <2>2. row.status = "UPSTREAM_QUEUED" /\ row.account = task[t].account
    BY <1>0, <2>1, RowsOfTask
  <2>3. row.status \in Holding /\ task[t].status \in Holding
    BY <1>2, <2>2, HoldingWords
  <2>4. Phases[t] = "SUBMITTING" /\ PhaseOf(row.status) = "GENERATING"
    BY <1>2, <2>2, HoldingWords, PhaseWords DEF Phases
  <2>5. /\ Phases' = [Phases EXCEPT ![t] = "GENERATING"]
        /\ SlotHolders' = [SlotHolders EXCEPT ![t] = task[t].account]
    BY <2>1, <2>2, <2>3, <2>4, OneTaskMoves
  <2>6. SlotHolders' = SlotHolders
    BY <2>3, <2>5 DEF SlotHolders, HolderOf, Holding
  <2>7. Contract!Submitted(t)
    BY <2>4, <2>5, <2>6 DEF Contract!Submitted, Phases, SlotHolders
  <2> QED BY <2>7 DEF Allowed
<1>3. CASE FinishSubmitFailure(t, n) /\ task[t].status \in InFlight
  <2>1. PICK s \in {"RETRY_WAIT", "FAILED"} :
          task' = [task EXCEPT ![t] = [task[t] EXCEPT !.status = s, !.reserved = 0]]
    BY <1>3 DEF FinishSubmitFailure
  <2>2. PICK row : row = [task[t] EXCEPT !.status = s, !.reserved = 0]
    OBVIOUS
  <2>3. row.status = s
    BY <1>0, <2>2, RowsOfTask
  <2>4. task[t].status \in Holding /\ row.status \in Waiting \cup {"COMPLETED", "FAILED"}
        /\ row.status # "COMPLETED"
    BY <1>3, <2>3, HoldingWords DEF Waiting
  <2> QED BY <2>1, <2>2, <2>4, SlotGivenBack
<1>4. CASE UNCHANGED task
  BY <1>4, RowsStay
<1>5. CASE \/ PreSubmitRefresh(t, n)
           \/ \E code \in Errors : UpstreamRaises(t, n, code)
           \/ \E cost \in ApiCost : GenerateAccepted(t, n, cost)
           \/ GenerateAnswerLost(t, n) \/ FinishAborts(t, n) \/ RenewalEnds(t, n)
  BY <1>4, <1>5 DEF PreSubmitRefresh, UpstreamRaises, GenerateAccepted, GenerateAnswerLost,
     FinishAborts, RenewalEnds
<1>6. CASE \/ MarkSubmissionReady(t, n) /\ task[t].status # "RESOLVING_MEDIA"
           \/ FinishSubmitSuccess(t, n) /\ task[t].status # "SUBMITTING"
           \/ FinishSubmitFailure(t, n) /\ task[t].status \notin InFlight
  BY <1>4, <1>6 DEF MarkSubmissionReady, FinishSubmitSuccess, FinishSubmitFailure
<1> QED BY <1>1, <1>2, <1>3, <1>5, <1>6 DEF WorkerStep

LEMMA LeaseIsAllowed ==
    ASSUME TypeOK, NEW t \in Task, LeaseStep(t)
    PROVE  Allowed
<1>0. task[t] \in TaskRow
  BY DEF TypeOK
<1>1. CASE LeaseRunsOut(t) \/ RenewLease(t)
  BY <1>1, RowsStay DEF LeaseRunsOut, RenewLease
<1>2. CASE RecoverExpiredLease(t)
  <2>1. PICK s \in {"RETRY_WAIT", "FAILED"} :
          task' = [task EXCEPT ![t] = [task[t] EXCEPT !.status = s, !.reserved = 0]]
    BY <1>2 DEF RecoverExpiredLease
  <2>2. PICK row : row = [task[t] EXCEPT !.status = s, !.reserved = 0]
    OBVIOUS
  <2>3. row.status = s
    BY <1>0, <2>2, RowsOfTask
  <2>4. task[t].status \in Holding /\ row.status \in Waiting \cup {"COMPLETED", "FAILED"}
        /\ row.status # "COMPLETED"
    BY <1>2, <2>3, HoldingWords DEF Waiting, RecoverExpiredLease
  <2> QED BY <2>1, <2>2, <2>4, SlotGivenBack
<1>3. CASE SyncLeaseRunsOut(t)
  <2>1. PICK row : /\ task' = [task EXCEPT ![t] = row]
                   /\ row = [task[t] EXCEPT !.syncLive = FALSE]
    BY <1>3 DEF SyncLeaseRunsOut
  <2>2. row.status = task[t].status /\ row.account = task[t].account
    BY <1>0, <2>1, RowsOfTask
  <2> QED BY <2>1, <2>2, PhaseKept
<1>4. CASE FailTimedOut(t)
  <2>1. PICK row : /\ task' = [task EXCEPT ![t] = row]
                   /\ row = [SyncReleased(task[t]) EXCEPT !.status = "FAILED", !.nextSync = FALSE]
    BY <1>4 DEF FailTimedOut
  <2>2. row.status = "FAILED" /\ task[t].status \in Holding
    BY <1>0, <1>4, <2>1, RowsOfTask, HoldingWords DEF FailTimedOut
  <2> QED BY <2>1, <2>2, SlotGivenBack
<1> QED BY <1>1, <1>2, <1>3, <1>4 DEF LeaseStep

LEMMA SyncerIsAllowed ==
    ASSUME TypeOK, NEW y \in Syncer, NEW t \in Task, SyncerStep(y, t)
    PROVE  Allowed
<1>0. task[t] \in TaskRow
  BY DEF TypeOK
<1>1. CASE LoadSyncItem(y, t) \/ PollDropped(y, t)
  BY <1>1, RowsStay DEF LoadSyncItem, PollDropped
<1>2. ASSUME NEW s \in {"RUNNING", task[t].status}, PollStillRunning(y, t, s)
      PROVE  Allowed
  <2>1. PICK row : /\ task' = [task EXCEPT ![t] = row]
                   /\ row = [SyncReleased(task[t]) EXCEPT !.status = s]
    BY <1>2 DEF PollStillRunning
  <2>2. row.status = s /\ row.account = task[t].account
    BY <1>0, <2>1, RowsOfTask
  <2>3. row.status \in Upstream /\ task[t].status \in Upstream
    BY <1>2, <2>2, HoldingWords DEF PollStillRunning, ResultApplies
  <2>4. row.status \in Holding /\ task[t].status \in Holding
        /\ PhaseOf(row.status) = PhaseOf(task[t].status)
    BY <2>3, HoldingWords, PhaseWords
  <2> QED BY <2>1, <2>2, <2>4, PhaseKept
<1>3. ASSUME NEW low, PollCompleted(y, t, low)
      PROVE  Allowed
  <2>1. PICK row : /\ task' = [task EXCEPT ![t] = row]
                   /\ row = [SyncReleased(task[t]) EXCEPT !.status = "COMPLETED", !.nextSync = FALSE]
    BY <1>3 DEF PollCompleted
  <2>2. row.status = "COMPLETED" /\ task[t].status \in Upstream /\ task[t].status \in Holding
    BY <1>0, <1>3, <2>1, RowsOfTask, HoldingWords DEF PollCompleted, ResultApplies
  <2> QED BY <2>1, <2>2, SlotGivenBack
<1>4. ASSUME NEW code \in DOMAIN RetryLimit, PollRetried(y, t, code)
      PROVE  Allowed
  <2>1. PICK f : task' = [task EXCEPT ![t] =
                   [SyncReleased(task[t]) EXCEPT !.status = "RETRY_WAIT", !.reserved = 0,
                                               !.upstreamId = 0, !.nextSync = FALSE, !.retries = f]]
    <3>1. SyncReleased(task[t]).retries = task[t].retries
      BY <1>0 DEF TaskRow, SyncReleased
    <3> QED BY <1>4, <3>1 DEF PollRetried
  <2>2. PICK row : /\ task' = [task EXCEPT ![t] = row]
                   /\ row = [SyncReleased(task[t]) EXCEPT !.status = "RETRY_WAIT", !.reserved = 0,
                                               !.upstreamId = 0, !.nextSync = FALSE, !.retries = f]
    BY <2>1
  <2>3. row.status = "RETRY_WAIT"
    BY <1>0, <2>2, RowsOfTask
  <2>4. row.status \in Waiting /\ task[t].status \in Holding
    BY <1>4, <2>3, HoldingWords DEF PollRetried, ResultApplies
  <2> QED BY <2>2, <2>3, <2>4, SlotGivenBack
<1>5. ASSUME NEW code, PollFailed(y, t, code)
      PROVE  Allowed
  <2>1. PICK row : /\ task' = [task EXCEPT ![t] = row]
                   /\ row = [SyncReleased(task[t]) EXCEPT !.status = "FAILED", !.nextSync = FALSE]
    BY <1>5 DEF PollFailed
  <2>2. row.status = "FAILED" /\ task[t].status \in Holding
    BY <1>0, <1>5, <2>1, RowsOfTask, HoldingWords DEF PollFailed, ResultApplies
  <2> QED BY <2>1, <2>2, SlotGivenBack
<1>6. ASSUME NEW code, ApplyPollError(y, t, code)
      PROVE  Allowed
  <2>1. PICK row : /\ task' = [task EXCEPT ![t] = row]
                   /\ row = [SyncReleased(task[t]) EXCEPT !.nextSync = TRUE]
    BY <1>6 DEF ApplyPollError
  <2>2. row.status = task[t].status /\ row.account = task[t].account
    BY <1>0, <2>1, RowsOfTask
  <2> QED BY <2>1, <2>2, PhaseKept
<1> QED BY <1>1, <1>2, <1>3, <1>4, <1>5, <1>6 DEF SyncerStep

LEMMA BatchIsAllowed ==
    ASSUME TypeOK, NEW y \in Syncer, NEW batch \in SUBSET Task, ClaimSyncBatch(y, batch)
    PROVE  Allowed
<1>1. \A u \in Task : task'[u].status = task[u].status /\ task'[u].account = task[u].account
  BY DEF ClaimSyncBatch, TypeOK, TaskRow
<1> QED BY <1>1, NothingMoves

LEMMA NextIsAllowed ==
    ASSUME TypeOK, [Next]_vars,
           ~ \E w \in Worker, t \in Task, a \in Account : ClaimAndAssign(w, t, a)
    PROVE  Allowed
<1>1. CASE \/ \E w \in Worker : WorkerCrash(w)
           \/ \E y \in Syncer : SyncerCrash(y)
           \/ \E a \in Account : AccountStep(a)
           \/ UNCHANGED vars
  <2>1. task' = task
    BY <1>1 DEF WorkerCrash, SyncerCrash, vars, AccountStep, ManualDisable, ManualEnable,
       TokenReported, EnforceAccountGuard, AccountValidated, RefreshBalance
  <2> QED BY <2>1, RowsStay
<1> QED BY <1>1, ApiIsAllowed, LeaseIsAllowed, EmptyClaimIsAllowed, WorkerIsAllowed, BatchIsAllowed,
           SyncerIsAllowed DEF Next

-----------------------------------------------------------------------------
(* The step that assigns an account, and what is counted when it does.     *)

\* A waiting task enters submission under the account it is assigned to.
LEMMA AssignmentMoves ==
    ASSUME TypeOK, NEW w \in Worker, NEW t \in Task, NEW a \in Account, ClaimAndAssign(w, t, a)
    PROVE  /\ Phases[t] = "WAITING" /\ t \notin Holders(a)
           /\ Phases' = [Phases EXCEPT ![t] = "SUBMITTING"]
           /\ SlotHolders' = [SlotHolders EXCEPT ![t] = a]
<1>1. task[t] \in TaskRow /\ task[t].status \in Waiting
  BY DEF TypeOK, ClaimAndAssign, Claimable
<1>2. PICK row : row = [task[t] EXCEPT !.status = FirstStatus(t), !.account = a,
                          !.reserved = Estimate, !.attempts = task[t].attempts + 1]
  OBVIOUS
<1>3. task' = [task EXCEPT ![t] = row]
  BY <1>2 DEF ClaimAndAssign
<1>4. row.status = FirstStatus(t) /\ row.account = a
  BY <1>1, <1>2, RowsOfTask
<1>5. row.status \in InFlight /\ row.status \in Holding
  BY <1>4, HoldingWords DEF FirstStatus
<1>6. /\ Phases' = [Phases EXCEPT ![t] = "SUBMITTING"]
      /\ SlotHolders' = [SlotHolders EXCEPT ![t] = a]
  BY <1>3, <1>4, <1>5, OneTaskMoves, PhaseWords
<1>7. Phases[t] = "WAITING"
  BY <1>1, PhaseWords DEF Phases
<1>8. t \notin Holders(a)
  BY <1>1, HoldingWords DEF Holders, Holding
<1> QED BY <1>6, <1>7, <1>8

\* The contract and the model count with the same Cardinality.
LEMMA SizesAgree == \A S : Contract!Cardinality(S) = Cardinality(S)
BY DEF Cardinality, Contract!Cardinality

\* What the contract counts are the tasks that hold a slot.
LEMMA SlotsAreHeld ==
    ASSUME NEW a \in Account
    PROVE  /\ Contract!OnAccount(a) = Holders(a)
           /\ Contract!OnSpace(SpaceOf[a]) = SpaceHolders(SpaceOf[a])
<1>1. \A b \in Account : {t \in Task : SlotHolders[t] = b} = Holders(b)
  BY RowAssumption DEF SlotHolders, HolderOf, Holders
<1>2. \A t \in Task, b \in Account : SlotHolders[t] = b <=> t \in Holders(b)
  BY <1>1
<1>3. Contract!OnAccount(a) = Holders(a)
  BY <1>1 DEF Contract!OnAccount, SlotHolders
<1>4. Contract!OnSpace(SpaceOf[a]) = SpaceHolders(SpaceOf[a])
  BY <1>2 DEF Contract!OnSpace, SlotHolders, SpaceHolders
<1> QED BY <1>3, <1>4

\* With exact counters the guard of the claim is that of the contract.
LEMMA AssignmentIsAllowed ==
    ASSUME TypeOK, Counted, NEW w \in Worker, NEW t \in Task, NEW a \in Account,
           ClaimAndAssign(w, t, a)
    PROVE  Contract!Assign(t, a)
<1>1. /\ account[a].active < AccountCapacity /\ slots[SpaceOf[a]] < SpaceCapacity
      /\ SpaceOf[a] \in Space
  BY RowAssumption DEF ClaimAndAssign, Assignable
<1>2. /\ Cardinality(Holders(a)) < AccountCapacity
      /\ Cardinality(SpaceHolders(SpaceOf[a])) < SpaceCapacity
  BY <1>1 DEF Counted
<1>3. /\ Contract!Cardinality(Contract!OnAccount(a)) < AccountCapacity
      /\ Contract!Cardinality(Contract!OnSpace(SpaceOf[a])) < SpaceCapacity
  BY <1>2, SlotsAreHeld, SizesAgree
<1> QED BY <1>3, AssignmentMoves DEF Contract!Assign, Phases, SlotHolders

LEMMA InitIsAllowed == Init => Contract!Init
<1> SUFFICES ASSUME Init PROVE Contract!Init
  OBVIOUS
<1>1. \A t \in Task : task[t].status = "ABSENT" /\ "ABSENT" \notin Holding
  BY HoldingWords DEF Init
<1>2. \A t \in Task : PhaseOf(task[t].status) = "ABSENT" /\ HolderOf(t) = Nobody
  BY <1>1, PhaseWords DEF HolderOf, Holding
<1> QED BY <1>2 DEF Contract!Init

(* While no lease runs out under a live handler, the transactions of the   *)
(* API, the workers and the syncers are, to a client, the steps of         *)
(* TaskContract: a task is given to an account with a free slot in it and  *)
(* its space, moves on in order, is canceled only while it waits and ends  *)
(* once.                                                                   *)
THEOREM ContractIsKept ==
    ASSUME ~LeaseOverrun
    PROVE  Spec => ImplementsContract
<1>1. TypeOK /\ HandlerOwnsTask /\ Counted /\ [Next]_vars => Counted'
  BY NextCounted
<1>2. TypeOK /\ Counted /\ [Next]_vars => [Contract!Next]_(Contract!contractVars)
  <2>1. SUFFICES ASSUME TypeOK, Counted, [Next]_vars
                 PROVE  Contract!Next \/ UNCHANGED <<Phases, SlotHolders>>
    BY DEF Contract!contractVars, Phases, SlotHolders
  <2>2. CASE Allowed
    BY <2>2 DEF Allowed, Contract!Next
  <2>3. CASE \E w \in Worker, t \in Task, a \in Account : ClaimAndAssign(w, t, a)
    BY <2>1, <2>3, AssignmentIsAllowed DEF Contract!Next
  <2> QED BY <2>1, <2>2, <2>3, NextIsAllowed
<1>3. Init => Contract!Init
  BY InitIsAllowed
<1> QED BY <1>1, <1>2, <1>3, InitCounted, HandlersOwnTheirTasks, TypeCorrect, PTL
        DEF Spec, ImplementsContract, Contract!Spec

-----------------------------------------------------------------------------
(* What is left of the contract when leases are overrun.                   *)

\* The two instances of the contract differ in their capacities alone.
LEMMA AllowedKeepsCourse == Allowed => Course!Next \/ UNCHANGED <<Phases, SlotHolders>>
<1> SUFFICES ASSUME Allowed PROVE Course!Next \/ UNCHANGED <<Phases, SlotHolders>>
  OBVIOUS
<1>1. ASSUME NEW t \in Task
      PROVE  /\ Contract!Create(t) => Course!Create(t)
             /\ Contract!Cancel(t) => Course!Cancel(t)
             /\ Contract!Submitted(t) => Course!Submitted(t)
             /\ Contract!GiveBack(t) => Course!GiveBack(t)
             /\ \A outcome : Contract!End(t, outcome) => Course!End(t, outcome)
  BY DEF Contract!Create, Contract!Cancel, Contract!Submitted, Contract!GiveBack, Contract!End,
         Course!Create, Course!Cancel, Course!Submitted, Course!GiveBack, Course!End
<1> QED BY <1>1 DEF Allowed, Course!Next

\* An account that a waiting task may be assigned to does not hold all tasks.
LEMMA AssignmentKeepsCourse ==
    ASSUME TypeOK, NEW w \in Worker, NEW t \in Task, NEW a \in Account, ClaimAndAssign(w, t, a)
    PROVE  Course!Assign(t, a)
<1>1. /\ SlotHolders[t] \notin Account
      /\ Course!OnAccount(a) = {u \in Task : SlotHolders[u] = a}
      /\ Course!OnSpace(SpaceOf[a]) = {u \in Task : \E b \in Account : SpaceOf[b] = SpaceOf[a] /\ SlotHolders[u] = b}
  <2>1. task[t].status \notin Holding
    BY HoldingWords DEF ClaimAndAssign, Claimable
  <2> QED BY <2>1, RowAssumption DEF SlotHolders, HolderOf, Holding, Course!OnAccount, Course!OnSpace
<1>2. ASSUME NEW S \in SUBSET (Task \ {t})
      PROVE  Cardinality(S) < Cardinality(Task)
  <2>1. IsFiniteSet(Task \ {t}) /\ Cardinality(Task \ {t}) = Cardinality(Task) - 1
    BY FiniteAssumption, FS_RemoveElement
  <2>2. Cardinality(S) <= Cardinality(Task \ {t}) /\ Cardinality(S) \in Nat
    BY <2>1, FS_Subset, FS_CardinalityType
  <2>3. Cardinality(Task) \in Nat
    BY FiniteAssumption, FS_CardinalityType
  <2> QED BY <2>1, <2>2, <2>3
<1>3. /\ Course!OnAccount(a) \in SUBSET (Task \ {t})
      /\ Course!OnSpace(SpaceOf[a]) \in SUBSET (Task \ {t})
  BY <1>1
<1>4. \A S : Course!Cardinality(S) = Cardinality(S)
  BY DEF Cardinality, Course!Cardinality
<1>5. /\ Course!Cardinality(Course!OnAccount(a)) < Cardinality(Task)
      /\ Course!Cardinality(Course!OnSpace(SpaceOf[a])) < Cardinality(Task)
  BY <1>2, <1>3, <1>4
<1> QED BY <1>5, AssignmentMoves DEF Course!Assign, Phases, SlotHolders

(* Also when leases are overrun, answers lost and handlers aborted: a task *)
(* waits, is submitted and generated under one account, and ends once; no  *)
(* late handler, poll or recovery takes it anywhere else.                  *)
THEOREM CourseIsKept == Spec => TasksKeepTheirCourse
<1>1. TypeOK /\ [Next]_vars => [Course!Next]_(Course!contractVars)
  <2>1. SUFFICES ASSUME TypeOK, [Next]_vars
                 PROVE  Course!Next \/ UNCHANGED <<Phases, SlotHolders>>
    BY DEF Course!contractVars, Phases, SlotHolders
  <2>2. CASE \E w \in Worker, t \in Task, a \in Account : ClaimAndAssign(w, t, a)
    BY <2>1, <2>2, AssignmentKeepsCourse DEF Course!Next
  <2> QED BY <2>1, <2>2, NextIsAllowed, AllowedKeepsCourse
<1>2. Init => Course!Init
  BY InitIsAllowed DEF Contract!Init, Course!Init
<1> QED BY <1>1, <1>2, TypeCorrect, PTL DEF Spec, TasksKeepTheirCourse, Course!Spec
=============================================================================
