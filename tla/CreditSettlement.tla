-------------------------- MODULE CreditSettlement --------------------------
(***************************************************************************)
(* The credits of one account of the pool.  The provider keeps the wallet  *)
(* and charges a generation when it accepts it; the service keeps a copy   *)
(* of the balance, which workers refresh before every submission, which    *)
(* renewals, validations, operators and desktops refresh at any time, and  *)
(* which the completion of a task reduces, unless a refresh since its      *)
(* submission already did.                                                 *)
(*                                                                         *)
(* Every refresh reads the wallet first and writes it in a transaction of  *)
(* its own, which stamps a time taken just before that transaction.  The   *)
(* clock is modelled by what it decides: whether balance_synced_at >       *)
(* upstream_submitted_at.                                                  *)
(*                                                                         *)
(* A worker keeps the lease of its task as long as it lives: TaskLifecycle *)
(* has the overruns.  Nobody else spends or fills the wallet.              *)
(*                                                                         *)
(* Where a task is in its life, what a failure becomes and the other       *)
(* statuses of an account are TaskLifecycle's and AccountRenewal's; of     *)
(* them only what moves credits is kept here.                              *)
(***************************************************************************)
EXTENDS Integers, FiniteSets, Functions

CONSTANTS
    Job,        \* tasks that the account may serve
    Refresher,  \* renewals, validations, operators and desktops that may overlap
    PriceOf,    \* what the provider charges for a generation
    QuoteOf,    \* what a task reserves: refresh_task_credit_quote
    Deposit,    \* credits in the wallet at the start
    LowCredits  \* settings.low_balance_threshold

\* The quote is never below the price: pricing.py copies the provider's rules.
ASSUME CreditAssumption ==
    /\ IsFiniteSet(Job) /\ Job \cap Refresher = {}
    /\ PriceOf \in [Job -> Nat] /\ QuoteOf \in [Job -> Nat]
    /\ \A j \in Job : PriceOf[j] <= QuoteOf[j]
    /\ Deposit \in Nat /\ LowCredits \in Nat

VARIABLES
    wallet,   \* the provider's balance
    credits,  \* accounts.balance_credits
    enabled,  \* accounts.status = 'ACTIVE'
    job,      \* tasks with their workers and generations
    refresh,  \* refreshes that are not a worker's
    doubt     \* history: how the copy may have been spoiled

creditVars == <<wallet, credits, enabled, job, refresh, doubt>>

-----------------------------------------------------------------------------

\* The stages of its worker, of its generation, and its ends.
JobRow == [stage : {"waiting", "assigned", "read", "poor", "refused", "cleared",
                    "charged", "recorded", "refunded",
                    "done", "failed"},
           seen : 0 .. Deposit, \* the wallet its worker read
           held : Nat,          \* its part of accounts.reserved_credits
           synced : BOOLEAN]    \* balance_synced_at > upstream_submitted_at, once charged

RefreshRow == [stage : {"idle", "claimed", "read"},
               seen : 0 .. Deposit,
               moved : BOOLEAN] \* accounts.version left the one it began with

\* moved: readers (a refresh or a task) since whose read the wallet changed.
\* pending: readers that read while a charge was not recorded.
\* ended: tasks since whose read a charged generation gave its reservation back.
DoubtRow == [balance : BOOLEAN, clearance : BOOLEAN,
             moved : SUBSET (Job \cup Refresher), pending : SUBSET (Job \cup Refresher),
             ended : SUBSET Job]

NoRefresh == [stage |-> "idle", seen |-> 0, moved |-> FALSE]

CreditInit ==
    /\ wallet = Deposit /\ credits = Deposit
    /\ enabled = (Deposit >= LowCredits)
    /\ job = [j \in Job |-> [stage |-> "waiting", seen |-> 0, held |-> 0, synced |-> FALSE]]
    /\ refresh = [r \in Refresher |-> NoRefresh]
    /\ doubt = [balance |-> FALSE, clearance |-> FALSE, moved |-> {}, pending |-> {}, ended |-> {}]

InStage(stages) == {j \in Job : job[j].stage \in stages}

\* accounts.reserved_credits (TaskLifecycle: ReservationsConserved).
ReservedCredits == SumFunctionOnSet([j \in Job |-> job[j].held], Job)

\* Generations that were charged, and whether the next settlement skips them.
Sent == InStage({"charged", "recorded"})

\* accounts.version was increased.
VersionMoved == [r \in Refresher |-> [refresh[r] EXCEPT !.moved = refresh[r].stage # "idle"]]
VersionMoves == refresh' = VersionMoved

\* The wallet changes, or a charge loses its reservation, under every reader.
Readers == InStage({"read"}) \cup {r \in Refresher : refresh[r].stage = "read"}
WalletMoves == [doubt EXCEPT !.moved = Readers]
ReservationEnds == [doubt EXCEPT !.ended = InStage({"read"})]

\* A reader reads the wallet; it has written what it read, or never will.
Recall(reader) ==
    [doubt EXCEPT !.pending = IF InStage({"charged"}) = {} THEN @ ELSE @ \cup {reader}]
Forget(reader) ==
    [doubt EXCEPT !.moved = @ \ {reader}, !.pending = @ \ {reader}, !.ended = @ \ {reader}]

\* A submission overlapped what the reader does between its read and now.
Overlapped(reader) == reader \in doubt.moved \cup doubt.pending

\* What a stamp of the reader is later than.  It and the time of a submission
\* are taken before the transactions that store them, in either order if the
\* two overlap; a submission recorded before the read is older.
Older(reader) == IF Overlapped(reader) THEN SUBSET Sent ELSE {Sent}

Stamped(rows, older) ==
    [j \in Job |-> IF rows[j].stage \in {"charged", "recorded"}
                   THEN [rows[j] EXCEPT !.synced = j \in older] ELSE rows[j]]

-----------------------------------------------------------------------------
(* Workers: worker.py.                                                     *)

\* claim_and_assign, for the account and its credits.
AssignJob(j) ==
    /\ job[j].stage = "waiting"
    /\ enabled
    /\ credits - ReservedCredits >= QuoteOf[j]
    /\ job' = [job EXCEPT ![j] = [@ EXCEPT !.stage = "assigned", !.held = QuoteOf[j]]]
    /\ VersionMoves
    /\ UNCHANGED <<wallet, credits, enabled, doubt>>

\* upstream.validate_account, before the transaction.
ReadWallet(j) ==
    /\ job[j].stage = "assigned"
    /\ job' = [job EXCEPT ![j] = [@ EXCEPT !.stage = "read", !.seen = wallet]]
    /\ doubt' = Recall(j)
    /\ UNCHANGED <<wallet, credits, enabled, refresh>>

\* Mutant of IsFunded: a task only looks at its own reservation.
IsFundedAlone(j) == job[j].seen >= job[j].held

IsFunded(j) == job[j].seen >= ReservedCredits

\* apply_pre_submit_balance_refresh, with a balance
RefreshBeforeSubmit(j) ==
    /\ job[j].stage = "read"
    /\ enabled
    /\ LET low == job[j].seen < LowCredits
           passes == ~low /\ IsFunded(j)
           next == IF low THEN "poor" ELSE IF passes THEN "cleared" ELSE "refused"
       IN
       /\ \E older \in Older(j) :
            job' = Stamped([job EXCEPT ![j] = [@ EXCEPT !.stage = next, !.seen = 0]], older)
       /\ enabled' = ~low
       /\ doubt' = [Forget(j) EXCEPT
                      !.balance = Overlapped(j),
                      !.clearance = IF passes THEN j \in doubt.moved \cap doubt.ended ELSE @]
    /\ credits' = job[j].seen
    /\ VersionMoves
    /\ UNCHANGED wallet

\* apply_pre_submit_balance_refresh without a balance, for a disabled account
\* or for another token: nothing is stamped, the token may be called expired.
RefuseRefresh(j) ==
    /\ job[j].stage = "read"
    /\ job' = [job EXCEPT ![j] = [@ EXCEPT !.stage = "refused", !.seen = 0]]
    /\ enabled' \in {enabled, FALSE}
    /\ refresh' \in {refresh, VersionMoved}
    /\ doubt' = Forget(j)
    /\ UNCHANGED <<wallet, credits>>

\* finish_submit_failure or recover_expired_leases, before the provider
\* accepted anything: the task waits for another try or fails.
ReleaseJob(j) ==
    /\ job[j].stage \in {"assigned", "read", "poor", "refused", "cleared"}
    /\ \E stage \in {"waiting", "failed"} :
         job' = [job EXCEPT ![j] = [@ EXCEPT !.stage = stage, !.held = 0, !.seen = 0]]
    /\ enabled' = (enabled /\ job[j].stage # "poor")
    /\ VersionMoves
    /\ doubt' = Forget(j)
    /\ UNCHANGED <<wallet, credits>>

\* The provider accepts and charges a generation that the wallet can pay.
ProviderAccepts(j) ==
    /\ job[j].stage = "cleared"
    /\ wallet >= PriceOf[j]
    /\ wallet' = wallet - PriceOf[j]
    /\ job' = [job EXCEPT ![j] = [@ EXCEPT !.stage = "charged", !.synced = FALSE]]
    /\ doubt' = WalletMoves
    /\ UNCHANGED <<credits, enabled, refresh>>

\* finish_submit_success; it leaves accounts.version alone.
RecordSubmission(j) ==
    /\ job[j].stage = "charged"
    /\ \E cost \in {QuoteOf[j], PriceOf[j]} :
         job' = [job EXCEPT ![j] = [@ EXCEPT !.stage = "recorded", !.held = cost]]
    /\ UNCHANGED <<wallet, credits, enabled, refresh, doubt>>

\* A charged generation is given up, so that its charge never reaches the copy.
GivesUp(j, stage) ==
    /\ job' = [job EXCEPT ![j] = [@ EXCEPT !.stage = stage, !.held = 0, !.synced = FALSE]]
    /\ doubt' = [ReservationEnds EXCEPT !.balance = @ \/ ~job[j].synced]
    /\ VersionMoves
    /\ UNCHANGED <<wallet, credits, enabled>>

\* The answer is lost: recover_expired_leases fails the task, or
\* finish_submit_failure sends it again.
LoseSubmission(j) ==
    /\ job[j].stage = "charged"
    /\ \E stage \in {"waiting", "failed"} : GivesUp(j, stage)

-----------------------------------------------------------------------------
(* The end of a generation: syncer.py.                                     *)

\* Mutant of SettledCredits: the copy is always reduced.
SettledCreditsAlways(j, cost) == IF credits < cost THEN 0 ELSE credits - cost

SettledCredits(j, cost) ==
    IF job[j].synced THEN credits
    ELSE IF credits < cost THEN 0 ELSE credits - cost

\* apply_poll_result with COMPLETE; a provider that reports no cost leaves
\* the reservation to be settled.
SettleJob(j, cost) ==
    /\ job[j].stage = "recorded"
    /\ cost \in {PriceOf[j], job[j].held}
    /\ job' = [job EXCEPT ![j] = [@ EXCEPT !.stage = "done", !.held = 0, !.synced = FALSE]]
    /\ credits' = SettledCredits(j, cost)
    /\ enabled' = (enabled /\ credits' >= LowCredits)
    /\ VersionMoves
    /\ doubt' = [ReservationEnds EXCEPT
                   !.balance = @ \/ (~job[j].synced /\ (cost # PriceOf[j] \/ credits < cost))]
    /\ UNCHANGED wallet

\* A generation fails: the provider gives its charge back.
ProviderRefunds(j) ==
    /\ job[j].stage = "recorded"
    /\ wallet' = wallet + PriceOf[j]
    /\ job' = [job EXCEPT ![j] = [@ EXCEPT !.stage = "refunded", !.synced = FALSE]]
    /\ doubt' = [WalletMoves EXCEPT !.balance = @ \/ job[j].synced]
    /\ UNCHANGED <<credits, enabled, refresh>>

\* The task ends unsettled, after the refund of its charge or before it.
EndsUnsettled(j, stage) ==
    \/ job[j].stage = "recorded" /\ GivesUp(j, stage)
    \/ /\ job[j].stage = "refunded"
       /\ job' = [job EXCEPT ![j] = [@ EXCEPT !.stage = stage, !.held = 0]]
       /\ VersionMoves
       /\ UNCHANGED <<wallet, credits, enabled, doubt>>

\* fail_timed_out_tasks: the task fails at no cost, its generation runs on.
TimeOutJob(j) == EndsUnsettled(j, "failed")

\* apply_poll_result with a failure, retried or not; the copy stays.
FailJob(j) == \E stage \in {"waiting", "failed"} : EndsUnsettled(j, stage)

\* A generation that was given up fails and is given back as well: what is
\* not in the wallet and not in a task's generation was spent on such ones.
ProviderRefundsLate(j) ==
    /\ wallet + PriceOf[j]
         + SumFunctionOnSet(PriceOf, InStage({"charged", "recorded", "done"})) <= Deposit
    /\ wallet' = wallet + PriceOf[j]
    /\ doubt' = [WalletMoves EXCEPT !.balance = TRUE]
    /\ UNCHANGED <<credits, enabled, job, refresh>>

-----------------------------------------------------------------------------
(* The other refreshes: syncer.py, api/accounts.py, api/login_jobs.py.     *)

\* The version is read: claim_protocol_renewal_batch, validate_account,
\* refresh_account_balance.  A desktop reads none.
BeginRefresh(r) ==
    /\ refresh[r].stage = "idle"
    /\ refresh' = [refresh EXCEPT ![r].stage = "claimed"]
    /\ UNCHANGED <<wallet, credits, enabled, job, doubt>>

\* The provider is asked for the balance.
RefresherReads(r) ==
    /\ refresh[r].stage = "claimed"
    /\ refresh' = [refresh EXCEPT ![r] = [@ EXCEPT !.stage = "read", !.seen = wallet]]
    /\ doubt' = Recall(r)
    /\ UNCHANGED <<wallet, credits, enabled, job>>

\* The balance is written and stamped; the account serves tasks only if that
\* is enough, and not while it is disabled or its token awaits validation.
StoresBalance(r) ==
    /\ credits' = refresh[r].seen
    /\ enabled' \in {FALSE, refresh[r].seen >= LowCredits}
    /\ \E older \in Older(r) : job' = Stamped(job, older)
    /\ refresh' = [VersionMoved EXCEPT ![r] = NoRefresh]
    /\ doubt' = [Forget(r) EXCEPT !.balance = Overlapped(r)]
    /\ UNCHANGED wallet

\* apply_protocol_renewal_success, validate_account, refresh_account_balance
RefreshSucceeds(r) ==
    /\ refresh[r].stage = "read" /\ ~refresh[r].moved
    /\ StoresBalance(r)

\* report_token, sync_account and the import of a session look at no version.
BalanceReported(r) == refresh[r].stage = "read" /\ StoresBalance(r)

\* refresh_account_balance and validate_account stamp a balance that they did
\* not get, and may call the token expired.
RefreshFails(r) ==
    /\ refresh[r].stage = "read" /\ ~refresh[r].moved
    /\ enabled' \in {enabled, FALSE}
    /\ \E older \in Older(r) : job' = Stamped(job, older)
    /\ refresh' = [VersionMoved EXCEPT ![r] = NoRefresh]
    /\ doubt' = [Forget(r) EXCEPT !.balance = @ \/ job' # job]
    /\ UNCHANGED <<wallet, credits>>

\* import_account_ledger writes a balance that someone read before,
\* with the time of that reading or none.
LedgerImported(r) ==
    /\ refresh[r].stage = "read"
    /\ credits' = refresh[r].seen
    /\ \E older \in Older(r) \cup {{}} : job' = Stamped(job, older)
    /\ refresh' = [VersionMoved EXCEPT ![r] = NoRefresh]
    /\ doubt' = [Forget(r) EXCEPT !.balance = TRUE]
    /\ UNCHANGED <<wallet, enabled>>

\* A refresh ends without a stamp: the version moved, the answer was lost, or
\* a renewal brought a token only (its new status is one of AccountChanges).
RefreshDropped(r) ==
    /\ refresh[r].stage # "idle"
    /\ refresh' = [refresh EXCEPT ![r] = NoRefresh]
    /\ doubt' = Forget(r)
    /\ UNCHANGED <<wallet, credits, enabled, job>>

\* Everyone else who writes the account: PATCH, the guards, failing tasks, a
\* ledger whose balance is missing or older than the copy.
AccountChanges ==
    /\ enabled' \in BOOLEAN
    /\ refresh' \in {refresh, VersionMoved}
    /\ UNCHANGED <<wallet, credits, job, doubt>>

-----------------------------------------------------------------------------

CreditStep(j) ==
    \/ AssignJob(j)
    \/ ReadWallet(j)
    \/ RefreshBeforeSubmit(j)
    \/ RefuseRefresh(j)
    \/ ReleaseJob(j)
    \/ ProviderAccepts(j)
    \/ RecordSubmission(j)
    \/ LoseSubmission(j)
    \/ \E cost \in {PriceOf[j], QuoteOf[j]} : SettleJob(j, cost)
    \/ ProviderRefunds(j)
    \/ TimeOutJob(j)
    \/ FailJob(j)
    \/ ProviderRefundsLate(j)

RefreshStep(r) ==
    \/ BeginRefresh(r)
    \/ RefresherReads(r)
    \/ RefreshSucceeds(r)
    \/ BalanceReported(r)
    \/ RefreshFails(r)
    \/ LedgerImported(r)
    \/ RefreshDropped(r)

CreditNext ==
    \/ \E j \in Job : CreditStep(j)
    \/ \E r \in Refresher : RefreshStep(r)
    \/ AccountChanges

CreditSpec == CreditInit /\ [][CreditNext]_creditVars

-----------------------------------------------------------------------------
(* Properties.                                                             *)

(* Rows have their types.                                                  *)
CreditTypeOK ==
    /\ wallet \in 0 .. Deposit /\ credits \in 0 .. Deposit
    /\ enabled \in BOOLEAN
    /\ job \in [Job -> JobRow]
    /\ refresh \in [Refresher -> RefreshRow]
    /\ doubt \in DoubtRow

\* Charges that the wallet has seen and the copy has not.
Unsettled == {j \in Sent : ~job[j].synced}

(* However refreshes, retries, timeouts and completions interleave, every  *)
(* charge reaches the copy exactly once: it is the wallet plus what is yet *)
(* to be settled.  These break it, until the next refresh ends it that no  *)
(* submission overlaps:                                                    *)
(*   - a refresh that a charge or its recording overlapped;                *)
(*   - a refresh or a validation that failed and stamped its time all the  *)
(*     same, with a charge that the copy lacks (or no longer lacks);       *)
(*   - a generation given up before the copy had its charge: its answer    *)
(*     was lost, its task timed out, or it failed before the refund;       *)
(*   - the refund of a charge that the copy had, or of one given up;       *)
(*   - a cost the provider did not report, or above the copy;              *)
(*   - a ledger that an operator imported.                                 *)
BalanceAgrees ==
    ~doubt.balance => credits = wallet + SumFunctionOnSet(PriceOf, Unsettled)

(* "Comparing the refreshed balance with all current reservations keeps    *)
(* concurrent assignments from submitting more work than the account can   *)
(* fund": the wallet can pay for all tasks that were cleared together.     *)
(* The snapshot of a clearance may be old; that harms only when, under it, *)
(* a generation is charged and one ends.                                   *)
ClearedIsFunded ==
    ~doubt.clearance => SumFunctionOnSet(PriceOf, InStage({"cleared"})) <= wallet
=============================================================================
