# Verification of the video task service

TLA+ specifications, TLC model checks and TLAPS proofs for the service in
`src/api/src/video_task_service`: a FastAPI application, worker processes,
syncer processes and several validators, which share one MySQL database and
drive an upstream generation provider with a pool of accounts.  Paths below are
relative to that directory unless they start with `src/`.

## Inventory

All state that matters is in database rows; processes hold a lease on a row, do
something slow outside any transaction, and come back to write.  The isolation
level is REPEATABLE READ, rows that are written are read `FOR UPDATE`, and every
`async with session_factory() as session, session.begin()` block is one
transaction.  What is hard everywhere is what happens *between* two
transactions of one actor.

| Component | State it keeps | Operations | What makes it correct |
|---|---|---|---|
| Task API (`api/tasks.py`) | `tasks`, `task_queue` | create (idempotency key), cancel | a key names one task; only a waiting task is canceled, for good |
| Worker (`worker.py`) | queue lease, `tasks.status`, slots and reservations of account and space | claim, pre-submit balance refresh, media resolution, submit, finish, renew lease, recover leases | one attempt at a time; slots and credits conserved; an accepted submission is never repeated; leases end |
| Task polling (`syncer.py` 189-691, 1560-1632) | sync lease, schedule, settlement | claim a batch, poll, apply result or error, time out | answers about an old generation are never applied; finished tasks are frozen; running tasks end |
| Account pool (`api/accounts.py`, `account_session_import.py`, `syncer.py` 1402-1557) | `accounts.status`, token, balance, version | patch, token report, balance refresh, validate, guards, delete | an operator's decision stands; stale validations are dropped |
| Protocol renewal (`syncer.py` 753-1399, `protocol_renewal.py`) | `account_renewal_sessions` | claim, renew, keep alive, retry, fall back | one renewal at a time; a result for another version is dropped; every failing renewal falls back to a login |
| Login jobs (`api/login_jobs.py`, `login_dispatch.py`) | `account_login_jobs` | claim, heartbeat, token, fail, expire | one active job per account; budgets; quarantine of failing accounts |
| Credit settlement (`worker.py` 810-932, `syncer.py` 343-400, `api/accounts.py` 977-1080) | balances, reservations, ledger | refresh, settle, time out, import | a charge reaches the local balance once |
| Cookie import (`cookie_importer.py` and others) | import batches and items | claim, import, fail, refresh the batch | every item ends; a batch ends when its items do |
| Registration (`registration_*.py`, `api/registration_*.py`) | jobs, records, parents | claim, heartbeat, report, validate, settle | one owner per job; bounded retries; exhausted parents stay exhausted |
| Project mailbox claims (`project_mailbox_claims.py`) | claims | claim with an idempotency key | a mailbox is given to a project at most once |
| Mailbox validation (`mailbox_validator.py`) | mailbox status, lease | claim, validate, write back | an operator's decision and a newer lease stand |
| Task creation (`api/tasks.py` 115-213) | unique key on `tasks.idempotency_key` | create | concurrent calls with one key: one task, and every client is told the right one |
| Admission (`schemas.py`, `pricing.py`, the builders) | none | validate, price, build | who is accepted can be priced and built |
| Media (`worker.py` 935-1248, `upstream.py`) | `task_media_assets`, media host circuits | reuse, download, check, upload | what is submitted was uploaded by that account and is within the limits; a host is shut out only for what it did |
| Account roster (`api/accounts.py` 85-239, 640-774) | accounts, export receipts | add, export, delete one, delete in bulk | nothing in use and nothing that was not exported is deleted |
| Request pacing (`protocol_renewal.py` 60-109) | a lock and two deadlines per process | acquire, block | requests keep their distance, nobody waits for ever |
| Verification codes, statistics, catalog | derived | read | - |
| Scripts, migrations, web console | - | - | - |

Workers and syncers never call each other: they meet in the rows of `tasks`,
`task_queue`, `accounts` and `spaces`.  The API, the login jobs, the renewal,
the guards and an operator write the same account rows.  `PROJECT.json` lists
every component with its status, and under `hazards` the places where this goes
wrong in ways a unit test hardly reaches.

## Modules

| Module | Models | Proofs in |
|---|---|---|
| `TaskLifecycle` | worker, task polling, cancellation, the part of the account pool they share | `TaskLifecycleProofs`, `TaskLifecycleAccountingProofs` |
| `TaskContract`, `TaskLifecycleContract` | what a client may rely on; the mapping of the rows to it | `TaskLifecycleAccountingProofs` |
| `AccountRenewal` | protocol renewal, login jobs, validation, around one token | `AccountRenewalProofs` |
| `ProtocolGate` | pacing of the requests of the renewals of one process | `AccountProofs` |
| `CreditSettlement` | wallet, copied balance, refreshes and charges of one account | `TaskRequestProofs` |
| `Registration` | registrations, their validation and their parents | `RegistrationProofs` |
| `MailboxPool` | import, validation and claims of mailboxes | `RegistrationProofs` |
| `CookieImport`, `CookieArchive` | the import of sessions, and the reading of an archive | `AccountProofs` |
| `TaskCreation` | create_task with its idempotency key | `TaskRequestProofs` |
| `Admission` | schemas, prices and builders against each other | `TaskRequestProofs` |
| `MediaResolution`, `HostCircuit` | the media of an attempt, the circuit of a host | `TaskRequestProofs` |
| `AccountRoster` | addition, export and deletion of accounts | `AccountProofs` |
| `SumLemmas` | no part of the program: facts about sums over finite sets, and induction | - |
| `MCTaskLifecycle`, `MCOverrun`, `MCAccountRenewal`, `MCServices`, `MCRequests` | instances for TLC | `CompositionProofs` |

`MCServices` extends the pipeline with the components around it, and
`MCRequests` extends that with what happens to one request and with the roster;
`MCOverrun` adds the credits of an account to a pipeline with overruns.
These components meet in database rows that each module abstracts in its own
way, so an instance does not run them in lockstep: a variable `part`, chosen by
the initial state, says which of them runs, and the others rest in their initial
state.  One run then asks one kind of question (safety, liveness) of all of
them, and a counterexample names its part.  In a part that rests no fair action
is enabled, hence the fairness of one part obliges nothing in another.

Where two components do compete for the same row, they are in one module: the
pipeline and every other writer of an account's status (`TaskLifecycle`), the
two drivers of a token with the pipeline and operators (`AccountRenewal`), the
submissions, completions, timeouts and refreshes of any kind that write or stamp
a balance (`CreditSettlement`),
mailbox validation with claims of projects and registrations (`MailboxPool`).

## TaskLifecycle: state and actions

| Variable | Code |
|---|---|
| `task` | a row of `tasks`: status, account, reservation, `submit_attempts`, upstream id, schedule, sync lease, and the retry events that `apply_poll_result` counts |
| `queue` | a row of `task_queue`: status, lease owner, whether `lease_until` lies in the future |
| `account` | status, whether `last_error_code` is UPSTREAM_UNAUTHORIZED, `active_tasks`, `reserved_credits` |
| `slots` | `spaces.active_tasks` |
| `handler[t][n]` | the `handle_assignment` coroutine of attempt n of task t: where it stands between two transactions, with the `Assignment` it carries |
| `poll[y][t]` | the `sync_one` coroutine of syncer y for task t and the generation id it has loaded |
| `generation` | history: the account under which the provider accepted attempt n |

| Action | Code |
|---|---|
| `CreateTask`, `CancelTask` | `api/tasks.py` create_task, cancel_task |
| `ClaimAndAssign`, `ClaimFindsNoAccount` | the two outcomes of claim_and_assign |
| `PreSubmitRefresh` | validate_account, then apply_pre_submit_balance_refresh |
| `MarkSubmissionReady`, `UpstreamRaises`, `GenerateAccepted`, `GenerateAnswerLost` | media resolution and the Generate call |
| `FinishSubmitSuccess`, `FinishSubmitFailure`, `FinishAborts` | finish_submit_*, and the failure of their transaction |
| `LeaseRunsOut`, `RenewLease`, `RenewalEnds`, `RecoverExpiredLease`, `WorkerCrash` | leases and recovery |
| `ClaimSyncBatch`, `LoadSyncItem`, `Poll...`, `ApplyPollError`, `SyncLeaseRunsOut`, `SyncerCrash`, `FailTimedOut` | the syncer |
| `ManualDisable`, `ManualEnable`, `TokenReported`, `EnforceAccountGuard`, `AccountValidated`, `RefreshBalance` | every other writer of an account's status, by its effect |

Abstractions, each an over-approximation of the code:

- *Time.*  A lease is live or not; a delay (`available_at`, `next_sync_at`) may
  have passed at any moment.
- *Funds.*  Whether a balance covers a task is a choice; what is reserved is a
  number.
- *Selection.*  Claims take any eligible row in place of the first by priority;
  a scan of several rows is one action per row, except the claim of a sync batch,
  which one syncer does for several tasks at once.
- *Statuses of accounts.*  TOKEN_EXPIRED and PENDING_VALIDATION, which pause
  polling, are PAUSED; COOLDOWN, LOW_BALANCE_DISABLED and TOKEN_EXPIRING are
  PARKED.
- *Left out.*  Media asset rows (see MediaResolution), TaskAttempt, TaskEvent and ledger rows, the
  legacy status SUBMIT_UNKNOWN (no code writes it), spaces that are not ACTIVE,
  and branches of claim_and_assign and recover_expired_leases for queue rows
  that QueueTaskAgree proves impossible.

Three constants switch faults on: `LeaseOverrun` (a lease runs out although its
handler still runs: a stalled event loop or a database outage longer than 30 s),
`LostAnswers` (Generate succeeds but its answer is lost), `FinishMayAbort` (a
finishing transaction raises).

`TaskContract` is what a client may rely on: a task waits, is submitted under one
account, generated under the same one, and ends once; accounts and spaces never
hold more than their concurrency.  `TaskLifecycleContract` maps the rows to it.

## AccountRenewal: state and actions

An account needs a valid token.  A syncer renews it over the provider's session
protocol while it can; a desktop worker logs in with the password when it must;
what a desktop reports is validated by a syncer.  The claim of login jobs is
where the two drivers meet.

| Variable | Code |
|---|---|
| `account` | a row of `accounts`: status, which side of its deadlines the token is on, whether the balance was ever synchronised, the balance, whether the last error is UPSTREAM_UNAUTHORIZED |
| `seen` | `accounts.version`, which only grows and is only compared for equality: the syncers that have read the current one |
| `renewal` | a row of `account_renewal_sessions`: status, attempts, `claimed_account_version` (current or old), lease, grace period, retry delay, and how long ago the session was confirmed |
| `job`, `failures` | the last row of `account_login_jobs`, and the count of the failed ones that the quarantine reads |
| `handler[s][a]` | the `renew_protocol_account` coroutine of a syncer: claimed, loaded, answered |
| `view` | the read view of a claim of renewals: under REPEATABLE READ its subquery on `account_login_jobs` does not see a job leased after the transaction's first read |
| `validator` | the account a syncer validates |
| `based` | history: which running renewals were loaded since the stored token was stored |

| Action | Code |
|---|---|
| `LoginClaim` | claim_login_jobs: expires stale jobs, decides on a renewal for each candidate (lease it, wait for the protocol, or fall back), then activates accounts within the budget |
| `ReportLoginToken`, `FailLoginJob` | the reports of a desktop |
| `OpenRenewalView`, `ClaimRenewalBatch` | claim_protocol_renewal_batch: recovery of stale leases, choice of candidates, leases |
| `LoadRenewal`, `SessionAnswers`, `StoreRenewedToken`, `KeepSessionAlive`, `FailRenewal`, `DropStaleResult` | load, upstream call, and the outcomes of one renewal |
| `EnforceAccountGuards`, `StartValidation`, `DropValidation`, `RejectToken`, `AcceptToken`, `SyncerCrash` | guards and validation |
| `SyncAccount`, `UpdateAccountToken`, `ImportSession`, `DisableAccount`, `EnableAccount` | operators and the import tools: POST /sync, PUT /token, upsert_cookie_session_account, PATCH |
| `BalanceRefreshed`, `BalanceRefreshFails` | refresh_account_balance, with a balance or with an error |
| `ImportLedger` | import_account_ledger |
| `TaskCounts`, `SubmissionFails`, `PollFails`, `TaskSettles`, `TaskReadsBalance` | what the task pipeline writes to an account |
| `TokenAges`, ... `BackoffEnds` | a deadline passes |

Abstractions: an action is one committed transaction; a time is the side of its
deadline it is on; the order in which candidates are taken is a choice (the code
sorts by urgency); a heartbeat keeps a lease live and is therefore no step;
COOLDOWN, which a claim treats as LOW_BALANCE_DISABLED, is that status here.
A row in FALLBACK forgets the attempts, the version and the grace period of the
round that failed, which stay in the table but are not looked at again.
A balance refresh of an operator reads the version, asks the provider and
commits only at that version, so no step of another that matters comes in
between: the request is one action, which finds any balance or any error.
`Writers` says who else writes the account in an instance.
Left out: accounts with COOKIE_SESSION credentials (an imported session of a
login by password is in), deletion, request pacing and event rows.

## The other components: state and actions

### CreditSettlement

| State | Code |
|---|---|
| `wallet` | the provider's balance (external: it charges when it accepts a generation and refunds one that fails) |
| `credits`, `enabled` | `accounts.balance_credits`, whether the account is ACTIVE |
| `job` | a task: waiting, cleared by a refresh, charged, recorded, settled; its reservation; whether `balance_synced_at > upstream_submitted_at` |
| `refresh` | every other refresh: a renewal, a validation, a request of an operator, a report, an import; whether `accounts.version` left the one it began with |
| `doubt` | history: what the copy may have missed |

| Action | Code |
|---|---|
| `AssignJob`, `ReadWallet`, `RefreshBeforeSubmit`, `RefuseRefresh`, `ReleaseJob` | the claim, the refresh before a submission, its refusals, and the failure before anything was accepted |
| `ProviderAccepts`, `RecordSubmission`, `LoseSubmission` | the submission: the charge, finish_submit_success, or an answer that never came |
| `SettleJob`, `FailJob`, `TimeOutJob` | apply_poll_result, and fail_timed_out_tasks, which ends a charged task at no cost |
| `ProviderRefunds`, `ProviderRefundsLate` | the provider gives a charge back, also of a generation that the service gave up |
| `BeginRefresh`, `RefresherReads`, `RefreshSucceeds` | a renewal, a validation or refresh_account_balance, which write at the version they have read |
| `BalanceReported` | report_login_token, sync_account, upsert_cookie_session_account, which compare no version |
| `RefreshFails` | refresh_account_balance and validate_account with an error: `balance_synced_at` is stamped, no balance is written |
| `LedgerImported`, `RefreshDropped`, `AccountChanges` | import_account_ledger, a refresh without effect, other writes of the account |

A refresh reads the wallet outside its transaction, and the times it and a
submission compare (`balance_synced_at > upstream_submitted_at`) are taken before
the transactions that store them.  So when a charge, or the recording of one,
falls between the reading and the commit of a refresh, either time may be the
later one (`Older`); what was recorded before the reading is older.  The copy is
then in doubt until a refresh that no submission overlaps.  BalanceAgrees names
everything else that breaks it: a stamp without a balance, which makes the next
completion skip its deduction; a charge given up because its answer was lost,
its task timed out or its failure was noticed before the refund; a refund that
the copy does not hear of; an unknown cost; a ledger.  ClearedIsFunded says when
a clearance may rest on an old snapshot.  Three things are assumed: a price is
at most its quote (`CreditAssumption`), a worker keeps the lease of its task as
long as it lives (TaskLifecycle has the overruns), and nobody else fills or
spends the wallet.

### Registration

| State | Code |
|---|---|
| `record` | a row of `registration_records`: status, lease and age up to the job's deadline, version, attempts, number of its settlement |
| `parent` | a row of `parent_accounts`: status, counters, streak, sequence |
| `check` | a validation under way and the version it claimed |

Actions: `ClaimRegistration`, `Heartbeat`, `ReportFailure`, `ReportSession`,
`ExpireRegistration`, `ClaimForCheck`, `CheckSucceeds`, `CheckFails`, `CheckDropped`,
`RevalidateRegistration`, `PromoteRegistration`, `DeleteParent`, and time.  Nothing
in the repository starts `registration_validation_loop`, and its routes are not
mounted: its safety is modelled, no liveness is claimed.

### MailboxPool

| State | Code |
|---|---|
| `mailbox` | a row of `mailboxes`; a row that is deleted and imported again is another one with the same email |
| `copies` | the copies of rows a validator holds while it asks the provider |
| `claims` | `project_mailbox_claims` and the tombstones of registrations |
| `validated` | history: the rows a validation found valid |

Actions: `ImportMailbox`, `RevalidateMailbox`, `DisableMailbox`, `DeleteMailbox`,
`ClaimMailboxes`, `FlushCopies`, `ValidatorDies`, `ClaimMailbox`, and time.  The flush of a
validator writes its copies without looking at the rows: a final answer may
overwrite an operator's decision (DisabledMailboxStays says no more can), and a
row deleted in the meantime makes the UPDATE of the whole batch fail.

### CookieImport and CookieArchive

| State | Code |
|---|---|
| `item`, `batch` | `account_cookie_import_items`, the status of `account_cookie_import_batches` |
| `accounts` | the login names with an account |
| `import` | the `_process_and_apply` coroutines, each with the attempt it claimed, and a success between its first read and its commit |
| `upserts` | history: committed upserts of an item |

Actions: `PersistBatch`, `ClaimItems`, `ProcessItem`, `UpsertAccount`, `CommitSuccess`,
`ApplyFailure`, `DropImport`, `ImporterDies`, `ItemFallsDue`.  A success is two
steps, because its plain SELECT of the account (`cookie_importer.py:327`) opens the
view through which it later reads the statuses of the batch.  Any exception in a
transaction ends the importer's process; the limit of attempts is not applied
when an expired lease is claimed again, which is why the model bounds these
losses (`MaxLosses`).  CookieArchive is the
reading of an archive as a function of its directory: which entries are checked,
in which order, and which become items.

### ProtocolGate

`renewer` is a renewal of one syncer process, `line` and `holder` the asyncio lock,
which is FIFO and whose holder sleeps; `untilNext` and `blocked` are the two
deadlines, counted down from now.  `TakeLock`, `Wake` and `Refuse` are acquire,
`AnswerTooMany` is block, called while others wait or sleep.

### TaskCreation

`created` and `waiting` are the committed rows of `tasks` and `task_queue`; `call` is
a create_task with the rows its first SELECT saw.  `Post`, `InsertTask`,
`InsertIsDuplicate`, `AnswerRepeated`, `CommitTask`, `CallBreaks`: an INSERT waits for
uncommitted rows with its key, then meets the unique index; the rollback that
follows ends the old view, which is what lets the second SELECT see the winner.

### Admission

`request` is one typed request.  `Admitted` is TaskCreate with the input schemas,
`IsPriced` the price tables, `IsBuilt` what the builders refuse; they are three
translations of three pieces of code, compared by TLC on about 9,500 requests, every
model with every mode and type, each field at and around its limits, and by a
theorem on all.

### MediaResolution and HostCircuit

| State | Code |
|---|---|
| `media` | a task with its references: status, attempt, progress |
| `asset` | `task_media_assets` of every attempt |
| `resolver` | resolve_assignment_media of an attempt, which goes on after its lease is lost |
| `sent` | history: what was handed to a builder and submitted |
| `circuit`, `downloads`, `outcomes` | `MediaHostCircuitState`, requests under way, history of their ends |

Actions: `AssignMedia`, `InitializeMedia` (with the reuse of earlier uploads),
`StartDownload`, `MediaArrives`, `MediaFails`, `GatherMedia`, `ResolutionFails`;
`DownloadStarts`, `DownloadFails`, `DownloadSucceeds`, `DownloadIsDropped` (an error, such as MEDIA_TOO_LARGE,
that counts neither way).  Of a source its kind and its length are kept.

### AccountRoster

`roster` are the accounts, `using` and `used` those that an open transaction or a
committed row refers to (a foreign key with ON DELETE RESTRICT), `receipts` the
signed receipts of exports, `operator` a deletion between its checks.
`ExportCredentials`, `StartBulkDelete`, `StartDelete`, `LockSelection`, `DeleteSelected`
are the operator's; `StartUse`, `CommitUse`, `EndTasks` the rest of the service.  A
receipt binds a selection of accounts and not their credentials, which may
change between the export and the deletion.  Login names are left out.

## Runs

Every bound that is not a setting of the program is named where it is declared:
`MaxAttempts` of TaskLifecycle (claims of one task), `Balances`, `MaxLosses`,
`MaxRows`, `MaxVersion`, `MaxOutcomes`, `MaxTime`, `MaxUuid`, `MaxAccounts`, `MaxReceipts`,
`MaxDate` and the sets of actors.

| Run | Instance | Shows |
|---|---|---|
| `lifecycle` | `MCServices`: 2 tasks (one typed), 1 account of capacity 1, 2 workers, all errors, 3 attempts (a failure is retried once, an outage twice), lost answers, crashes; or 3 registrations of one parent with 2 validators; or about 1,800 archives; or 2 items, 1 mailbox, 3 renewals | counters and reservations exact, handlers own their tasks, submissions exclusive, tracked generations accepted, TaskContract implemented, capacities included; parents are what their history says; an archive is safe when accepted |
| `overrun` | `MCOverrun`: 1 task, 2 accounts, 2 syncers, 3 attempts, leases may be overrun, finishes may abort; or 2 tasks and a refresh of any kind on one account's credits | what holds all the same: types, row agreement, fresh polls, schedule, frozen outcomes, safe recovery, and the course that TaskContract gives a task, its capacities aside (TasksKeepTheirCourse); the balance agrees and clearances are funded |
| `services` | `MCRequests`, fair: 1 task of 2 attempts; 2 items and 2 importers, of which one may die; 1 mailbox in 2 rows, 2 validators, 2 projects; 3 renewals at the gate; 9,500 requests; 5 pairs of media tasks; 4 outcomes of a host; 3 calls with one key; 2 accounts and 1 receipt | tasks, items, mailboxes and renewals move on; imports, claims, creations, media, circuits and deletions are safe |
| `renewal` | `MCAccountRenewal`: 1 account, 2 syncers, desktops, task pipeline, balance refreshes, ledgers; one attempt per round (the next attempts are in `renewal_served`, and in the theorem for any number) | rows consistent, no newer token lost, late reports refused, quarantine kept, the login waits for the protocol |
| `renewal_served` | 1 syncer, desktops that claim two jobs, operators with their balance refreshes; two attempts; fair | an expired account is served |
| `double_submit` | as `overrun` | **violated**: NoConcurrentSubmit |
| `retry_after_generation` | lost answers | **violated**: RetriesArePreGeneration |
| `abandoned_lease` | fair, aborted finish | **violated**: AbandonedLeaseRecovered |
| `manual_disable` | a rejected credential | **violated**: ManualDisableKept |
| `renewal_starved` | desktops that claim one job (the default of the API) | **violated**: ExpiredIsServed |
| `unmeasured_balance` | the first validation of an account fails | **violated**: FirstBalanceIsRead |
| `batch_stuck` | 2 importers end the last two items of a batch | **violated**: DecidedWhenDone |

*Why the bounds suffice.*  Two tasks compete for a slot and are polled in one
batch; two attempts let a late actor meet its successor, three are needed for the
exclusion of submissions (the counterexample of `double_submit` has three).  Two
accounts in `overrun` let a later attempt run under another account than the
one it supersedes.  A balance of 1 at a threshold of 1, charged down to 0, makes every
comparison go both ways.  Two rows of one email are what a re-import is; three
settlements are one more than the streak; two items are what a batch decides
about; two tasks of different models fill and use one cache; one account races
all writers of a token, since its rows meet those of another only in the budget
of activations and in a batch, which the proofs cover for any number.

*Symmetry.*  Workers, syncers and accounts of one space are interchangeable:
nothing in the safety properties or the configuration names one of them, so
symmetry is used with safety, and never with liveness.

*Deadlock* is not checked in `lifecycle` and `services`: a batch that is imported,
an archive that is read or a parent that is exhausted leaves nothing to do.

*Fairness.*  `worker_loop`, `syncer_loop`, `cookie_import_loop` and `run_validator`
poll for ever and coroutines are scheduled, so the steps of a handler, a poll or
an import, the lapse of a lease nobody renews, recovery and the timeout scan are
weakly fair.  Upstream calls end because the HTTP client has timeouts, and sleeps
at the gate end.  Deadlines pass.  Nothing obliges a client, an operator, a
crash, a claim of tasks or the provider.  In AccountRenewal claims and the steps
of a coroutine are weakly fair, the commit of a claim of renewals strongly,
because a syncer may crash again and again between the two reads of a claim but
not every time.  Nothing obliges a desktop to report, nor the task pipeline.

*What the properties exempt, and why.*  NewerTokenKept would hold without the
comparison of versions when only the lease is at stake, because a report resets
the row.  QuarantineKept exempts EnableAccount; SubmissionFails, whose case is the
finding of `manual_disable`; and BalanceRefreshFails when the provider refuses
the token: refresh_account_balance compares only the version
(`api/accounts.py:1036`) and makes a disabled account TOKEN_EXPIRED
(`api/accounts.py:1067-1069`), from where a login or a new token can take it back
to the pool.  ExpiredIsServed exempts an account whose balance is refreshed or
imported for ever: each time the version leaves the one that a renewal was
claimed at, its result is dropped and the round begins anew.  AdmittedIsServed names what hailuo-03 admits in
vain: tier 768P, more than five images, videos, and audio without an image pass
its schema (`schemas.py`) and are refused by `h3.py` after media was uploaded.
SubmittedMediaFit exempts audio of Seedance 2.0 that a task of Seedance 2.5 left
in the account's cache: it is probed only when downloaded (`worker.py:1195`), so
up to 30 seconds pass, although `src/api/docs/seedance-2-request-guide.md` limits
it to 15.

*Met while modelling, and outside these properties.*  A late record_media_ready
of a superseded attempt overwrites the progress of the task.
finish_submit_success does not increment `accounts.version`.  A balance refresh or a validation that
fails stamps `balance_synced_at` all the same (`api/accounts.py:1070`,
`syncer.py:1514`), so charges submitted before it are never deducted, and a task
that times out is settled at no cost although it was charged
(`syncer.py:625`); BalanceAgrees names both.  An import of a
ledger without `creditsCheckedAt` overwrites a newer balance, although
`src/api/README.md` says it applies only when it is not earlier.  After an
overrun lease, finish_submit_failure of the superseded attempt gives back the
slot of its own assignment's account (`worker.py:689-741` compares no attempt),
and the counters of slots drift below what is in use.

The violations are disagreements between a text of the repository and the code;
`PROJECT.json` quotes the text and says where the code departs from it.
`lifecycle` and the proofs of HandlerOwnsTask, NoConcurrentSubmit, WithinCapacity
(which ImplementsContract includes), ResourcesConserved, TracksAcceptedGeneration
and ImplementsContract state the assumption (`LeaseOverrun` is FALSE) under which
the first one cannot happen; RetriesPrecedeGeneration proves that the second one
needs a lost answer.

Operators called "mutant" are broken variants of the definition that follows
them; each property is known to fail when its variant is put in.  They are not
part of the specification.

## Proofs

Every property of the passing runs but liveness is proved: for every number of
tasks, accounts, spaces, workers, syncers, validators, checkers, importers,
servers, renewals, operators and attempts, and for all limits.

| Module | Theorem | Argument |
|---|---|---|
| `TaskLifecycleProofs` | `TypeCorrect` | inductive; one lemma per row type, one per action |
| | `QueueAgreesWithTasks` | inductive over TypeOK: every action that moves a status across the borders of Waiting and InFlight writes the queue row of the same task |
| | `ScheduleCorrect` | inductive over TypeOK and QueueTaskAgree |
| | `FinishedTasksFrozen` | an owner of a sync lease implies a status in Upstream, which is what keeps apply_poll_error, that checks the owner alone, away from finished tasks |
| | `PollsAreFresh` | inductive: whoever changes the upstream id or the status clears the owner, and an owner returns only by claiming, which a syncer does with no poll outstanding |
| | `HandlersOwnTheirTasks` | inductive, assuming `~LeaseOverrun`: a lease with a renewing handler does not run out, and no other transaction touches a leased task |
| | `SubmissionsAreExclusive` | from HandlerOwnsTask: both attempts are `submit_attempts` |
| | `ResolvingIsBeforeSubmit` | inductive, also under overruns: no step of a later attempt exists, and a typed attempt leaves RESOLVING_MEDIA before Generate |
| | `RecoveryIsSafe` | from ResolvingBeforeSubmit: the only status that recovery requeues has no generation |
| | `RetriesPrecedeGeneration` | assuming `~LeaseOverrun` and `~LostAnswers`; `NothingAccepted`: a handler that is short of an accepted answer has no generation upstream, which a lost answer breaks and nothing else |
| `TaskLifecycleAccountingProofs` | `CapacityIsKept` | assuming `~LeaseOverrun`; the invariant `Counted` says that each counter is the cardinality of its holders and is never over its limit: a step takes a slot, gives one back, or keeps the set of holders; the floors of the decrements are never reached |
| | `NothingLeaks` | the same, and `Reservations`: the credits an account has reserved are the sum of what its holders owe.  A step changes the debt of one task, so the sum by the difference; hence no decrement is cut off at 0 |
| | `GenerationsAreTracked` | assuming `~LeaseOverrun`; the invariant `Tracking` relates a submitting handler's account to the account under which its attempt was accepted |
| | `ContractIsKept` | assuming `~LeaseOverrun`: initial states map to initial states, and each transaction is a step of TaskContract for the task it is about and leaves what the others show alone, or is a stutter |
| | `CourseIsKept` | the same without any hypothesis on leases or faults, for the contract without its capacities |
| `TaskRequestProofs` | `KeysNameOneTask`, `CreationTypeCorrect` | an uncommitted insertion is alone with its key and excludes committed rows with it; what a call has seen stays committed |
| | `TheAdmittedAreServed` | no induction, but all values of all fields: one lemma per family of models, which takes the checks of its schema apart and shows that its price table has the row and that none of the refusals of its builder applies |
| | `SubmissionsFitTheirTask` | `MediaInvariant`: a READY row was uploaded by its own account, and its sound was probed for some family; a handler works for the account of its rows and holds only uploads of it, and of references that were not reused only such as fit its own family; a task keeps its references and its family |
| | `MediaTypeCorrect` | `MediaProgress` beside `MediaInvariant`: an attempt that has not begun has no rows, and a resolving one has as many as its task has references, each of its own account |
| | `HostsAreShutOutDeservedly` | `RemembersTheLast`: what the circuit remembers are the last outcomes of the host, all failures and within one window, and what came just before them is a success, a trial or too old; so a threshold of remembered failures is one of outcomes |
| | `CopiesOfTheBalanceAgree`, `ClearedTasksAreFunded` | `CreditInvariant`: a task reserves at least its price until it is settled, what is charged came out of the wallet, and the view of any refresh that has not committed is the wallet, or lacks at most what is charged, unless `doubt` says otherwise; the sums move by one term |
| `RegistrationProofs` | `EmailsGivenOnce`, `ClaimsAreValidated` | `PoolInv` adds that an active row is a validated one: only a flush makes a row active, and of the row it copied |
| | `DisabledMailboxesStay` | action property, over the type invariant: a flush is the only step of a validator that writes a status, and the final answer the only one that reopens |
| | `ParentsFollowTheirHistory` | `HistoryOf`: the settlements of a parent are as many as the numbers 1 up to its sequence, and so no two of one number; the streak of an active parent is the length of the last run of poor ones; a settlement adds the next number, everything else leaves the settled rows alone |
| | `DeadlinesEndLeases` | inductive, with the same invariant: the lease of a running job is at most its deadline |
| `AccountProofs` | `RosterIsSound`, `DeletionsAreSafe` | a locked selection is present, shares no account with another one, nothing begins to use it, and what used it before was seen under the locks; a bulk call is backed by a receipt that covers its selection |
| | `ArchivesAreSafe` | the reader stops at the first check that raises, so an archive without a fault raises at none: by the least position of a fault, over archives of any length |
| | `SessionsAreAppliedOnce`, `BatchReportsAreTrue` | `ImportInvariant`: an upsert needs the claim of its item, which ends with its commit; `ViewsAreOld`: the view of a success may miss items that have ended since, but none that is still to be tried, so it decides no batch too early |
| | `GateKeepsThePace` | `Pacing`: the deadline of the interval and the time since the last request add up to the interval, and a cooldown is never shorter than what the provider asked for; a request leaves only when both deadlines have passed |
| | `GateTypeCorrect` | those who ask are the waiters and the sleeper: whoever takes the lock leaves the line, whoever asks again joins it after its answer; a lemma on sequences without repetition says what the line holds then |
| `AccountRenewalProofs` | `RenewalRowsAreConsistent` | `RenewalInvariant` with `AttemptLeft`: an answer that keeps a due token leaves an attempt for its retry, as long as its coroutine owns the row; all that a claim of login jobs does to one account is a chain of steps of `MayFollow` |
| | `RenewalNeverOverwrites` | `ReadersAreBased`: a coroutine that has read the current version was loaded since the token was stored, for every write of a token changes the version |
| | `LoginsReportInTime`, `DisabledStaysDisabled`, `ProtocolGoesFirst` | action properties from the same invariant, one lemma per action |
| `CompositionProofs` | `ServicesTypeCorrect`, `RequestsTypeCorrect` | a step of an instance is a step of the part that runs and leaves the others alone, so each part is a behaviour of its own specification, and what the theorems above say of it holds in the instance; `MediaHasItsPart` because the media have rows only in their part |

*Assumptions.*  Nothing but the named assumptions on the constants in each
module: limits are naturals (or positive), sets that sums and counts run over are
finite (tasks and accounts, jobs, records, emails, items), "nobody" is nobody,
a request has the fields of a typed one (`RequestAssumption`), an archive is a
sequence of entries (`ArchiveLimits`), a task has a family and finitely many
references (`MediaAssumption`), a price is at most its quote (`CreditAssumption`).
TLC evaluates all of them in the runs.  `~LeaseOverrun` is a hypothesis of
seven theorems, whose proofs use HandlerOwnsTask; `double_submit` shows what
happens without it.  Of ImplementsContract the course of a task needs no such
hypothesis, and `overrun` checks that part (CourseIsKept); the capacities do:
with two tasks TLC finds an overrun after which a stale failure gives back the
slot of another attempt.

*Sums.*  `SumFunctionOnSet` of the community modules is a recursion over a set.
The induction theorems of the library take an operator, which the installed
provers cannot instantiate; `SumLemmas` states induction with the property as a
SET (of subsets of a finite set, or of naturals) and derives it from
well-founded minimality, and then: a sum is a natural, moves by one term when
one term changes, and is monotone.  The lemmas about least and last positions
in `AccountProofs` and `TaskRequestProofs` come from the same place.

*Model-checked only.*  Liveness (TasksMoveOn, ItemEnds, PendingIsTakenUp,
AsksAreAnswered, ExpiredIsServed): fairness and ENABLED are beyond the proof
system.

## Not modelled

- *Verification codes, statistics, catalog, monitoring*: read-only queries and
  text extraction; no state beyond rows that are modelled.
- *Web console, operator scripts, migrations*: they hold no state of the service
  or run once beside it.
- *Upstream client*: GraphQL documents, uploads and the checks of addresses are
  pure I/O; the classes of its errors are in TaskLifecycle.
- *Account administration*: the import of a ledger, the audit of addresses;
  logins by COOKIE_SESSION; login names in AccountRoster.
- *Registration*: monitoring, the export of cookies, the settings of the pool, and
  the manual recording of an invitation's result on a parent.
- *Prices and payloads*: which amount and which document, as opposed to whether
  there is one.
- *Row locks below transactions*: cancel_task locks a task and then its queue row,
  claims and recovery the other way round.  A deadlock is resolved by InnoDB,
  which aborts one of the transactions; the models have the abort.
- *Delays*: the length of retry delays and the order of candidates; any eligible
  row may be taken at any time after it was made to wait.
