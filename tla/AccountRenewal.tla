---------------------------- MODULE AccountRenewal -------------------------
(***************************************************************************)
(* How an account keeps a usable token.  Two drivers replace it: a syncer  *)
(* renews it over the provider's session protocol (syncer.py, with a lease *)
(* on the row of account_renewal_sessions), and a desktop login worker     *)
(* logs in with the password (api/login_jobs.py, with a leased job).  The  *)
(* claim of login jobs decides between them.  A token a desktop reports is *)
(* then validated by a syncer.  Operators and the task pipeline write the  *)
(* same account rows at any moment.                                        *)
(*                                                                         *)
(* An action is one committed transaction.  Account.version only grows and *)
(* is only compared for equality, so it is represented by who has read the *)
(* current one: every write that increments it empties "seen".  Times are  *)
(* represented by the side of each deadline they are on.  Of all the jobs  *)
(* of an account only the last one can be active, so one row stands for    *)
(* them: it is FINISHED (SUCCEEDED, FAILED or none yet) when no job is     *)
(* active, and FAILED rows count in "failures".                            *)
(***************************************************************************)
EXTENDS Integers, FiniteSets, FiniteSetsExt

CONSTANTS
    Account,         \* accounts with credential_source PASSWORD
    Syncer,          \* syncer processes (syncer.py)
    Nobody,          \* NULL, or no account
    Balances,        \* bound: balances the provider and the desktop may report
    LowBalance,      \* settings.low_balance_threshold
    CreditTarget,    \* settings.login_active_credit_target
    MaxActivations,  \* settings.login_activation_max_in_flight
    ClaimLimit,      \* min(limit of a claim, login_job_max_batch_size)
    MaxFailures,     \* settings.login_job_max_account_failures
    MaxStalled,      \* settings.login_job_stalled_max_account_failures
    MaxAttempts,     \* settings.protocol_renewal_max_attempts
    BatchSize,       \* settings.protocol_renewal_batch_size
    Writers          \* who else writes accounts: "tasks", "operators",
                     \* "balances" (their refreshes), "ledgers"

ASSUME RenewalLimits ==
    /\ Balances \subseteq Nat /\ LowBalance \in Nat /\ CreditTarget \in Nat
    /\ MaxActivations \in Nat \ {0} /\ ClaimLimit \in Nat \ {0}
    /\ MaxFailures \in Nat \ {0} /\ MaxStalled \in 1 .. MaxFailures
    /\ MaxAttempts \in Nat \ {0} /\ BatchSize \in Nat \ {0}

ASSUME RenewalNulls == Nobody \notin Account \cup Syncer \cup Balances

VARIABLES
    account,   \* rows of accounts
    seen,      \* who has read the current Account.version
    renewal,   \* rows of account_renewal_sessions
    job,       \* the last row of account_login_jobs of an account
    failures,  \* the FAILED rows among all of them, counted by class
    handler,   \* renew_protocol_account coroutines, by syncer and account
    view,      \* the read view of a renewal claim: accounts it sees with a job
    validator, \* the account a syncer validates
    based      \* history: renewals loaded since the stored token was stored

vars == <<account, seen, renewal, job, failures, handler, view, validator,
          based>>

-----------------------------------------------------------------------------
(* Rows.                                                                   *)

AccountStatus == {"PENDING_VALIDATION", "ACTIVE", "TOKEN_EXPIRING",
                  "TOKEN_EXPIRED", "LOW_BALANCE_DISABLED", "MANUAL_DISABLED"}

Life == {"NONE", "FRESH", "DUE", "EXPIRED"} \* NONE: no token is stored

AccountRow == [status : AccountStatus,
               life : Life,            \* token_expires_at against now
               synced : BOOLEAN,       \* balance_synced_at IS NOT NULL
               credits : Nat,
               unauthorized : BOOLEAN] \* last_error_code

RenewalRow ==
    [status : {"ABSENT", "IDLE", "PENDING", "RUNNING", "RETRY", "FALLBACK"},
     attempts : 0 .. MaxAttempts,
     claimed : {"NONE", "CURRENT", "OLD"}, \* claimed_account_version
     owner : Syncer \cup {Nobody},
     live : BOOLEAN,                       \* lease_until > now
     grace : {"NONE", "OPEN", "OVER"},     \* fallback_after
     ready : BOOLEAN,                      \* retry_after is NULL or reached
     client : BOOLEAN,                     \* client_reported_at > cutoff
     refreshed : {"NOW", "AGED", "STALE"}] \* session_refreshed_at

JobType == {"ACTIVATE_NEW", "RENEW_TOKEN", "REFRESH_SESSION"}
ActiveJob == {"LEASED", "VALIDATING"}

\* A finished row keeps only what later claims look at.
JobRow == [status : {"FINISHED"} \cup ActiveJob,
           type : JobType,
           live : BOOLEAN,    \* lease, or validation deadline, not reached
           current : BOOLEAN, \* claimed_token_refreshed_at is the account's
           blocked : BOOLEAN] \* retry_after > now

NoRow == [status |-> "ABSENT", attempts |-> 0, claimed |-> "NONE",
          owner |-> Nobody, live |-> FALSE, grace |-> "NONE", ready |-> TRUE,
          client |-> FALSE, refreshed |-> "STALE"]

Finished(blocked) ==
    [status |-> "FINISHED", type |-> "ACTIVATE_NEW", live |-> FALSE,
     current |-> FALSE, blocked |-> blocked]

NoView == [open |-> FALSE, busy |-> {}]

NewRow == [NoRow EXCEPT !.status = "IDLE", !.client = TRUE, !.refreshed = "NOW"]

Init ==
    /\ account = [a \in Account |->
                    [status |-> "PENDING_VALIDATION", life |-> "NONE",
                     synced |-> FALSE, credits |-> 0, unauthorized |-> FALSE]]
    /\ seen = [a \in Account |-> {}]
    /\ renewal = [a \in Account |-> NoRow]
    /\ job = [a \in Account |-> Finished(FALSE)]
    /\ failures = [a \in Account |-> [k \in JobType |-> [all |-> 0, stalled |-> 0]]]
    /\ handler = [s \in Syncer |-> [a \in Account |-> "idle"]]
    /\ view = [s \in Syncer |-> NoView]
    /\ validator = [s \in Syncer |-> Nobody]
    /\ based = [a \in Account |-> {}]

-----------------------------------------------------------------------------
(* Helpers.                                                                *)

\* Account.version += 1, as the readers of the old version notice it.
Outdated(row) == [row EXCEPT !.claimed = IF @ = "CURRENT" THEN "OLD" ELSE @]

Bump(a) == seen' = [seen EXCEPT ![a] = {}]

\* Mutant of Reset: the attempts of the last round are kept.
ResetKeepsAttempts(row) ==
    [row EXCEPT !.status = "IDLE", !.claimed = "NONE", !.owner = Nobody,
                !.live = FALSE, !.grace = "NONE", !.ready = TRUE]

Reset(row) ==
    [row EXCEPT !.status = "IDLE", !.attempts = 0, !.claimed = "NONE",
                !.owner = Nobody, !.live = FALSE, !.grace = "NONE",
                !.ready = TRUE]

\* The round failed.  Its attempts, version and grace period stay in the row
\* and nobody looks at them again: it leaves this status only by a Reset.
Fallback(row) == [Reset(row) EXCEPT !.status = "FALLBACK"]

Stored(row) == row.status # "ABSENT"
Confirmed(row) == row.client \/ row.refreshed # "STALE"

RenewalBalance(acc) == ~acc.synced \/ acc.credits > 0
KnownLow(acc) == acc.synced /\ acc.credits < LowBalance

\* token_refreshed_at = now: the token an active job was claimed under is gone.
Superseded(row) == [row EXCEPT !.current = FALSE]

\* Everything of one account that a claim of login jobs may write.
Rows(a) == [account |-> account[a], seen |-> seen[a], renewal |-> renewal[a],
            job |-> job[a], failures |-> failures[a]]

Bumped(r) == [r EXCEPT !.seen = {}, !.renewal = Outdated(@)]

-----------------------------------------------------------------------------
(* Login jobs.  Error codes are classed as the code classes them: INFRA    *)
(* for the login worker's own infrastructure, STALLED, and OTHER.          *)

ErrorClass == {"INFRA", "STALLED", "OTHER"}

\* A FAILED row is added.  A count is only compared with its limit minus
\* one, so it need not grow beyond that.
CountFailure(counts, type, class) ==
    [counts EXCEPT ![type] =
       [all |-> IF class = "INFRA" THEN @.all ELSE Min({@.all + 1, MaxFailures - 1}),
        stalled |-> IF class = "STALLED" THEN Min({@.stalled + 1, MaxStalled - 1})
                                         ELSE @.stalled]]

Quarantined(counts, class, retryable) ==
    /\ class # "INFRA"
    /\ \/ ~retryable
       \/ class = "STALLED" /\ counts.stalled + 1 >= MaxStalled
       \/ class = "OTHER" /\ counts.all + 1 >= MaxFailures

\* The last error of an account is one of its login; "out": it is quarantined.
WithLoginError(acc, out) ==
    [acc EXCEPT !.status = IF out THEN "MANUAL_DISABLED" ELSE @, !.unauthorized = FALSE]

Failed(r, class, out) ==
    Bumped([r EXCEPT
      !.job = Finished(~out),
      !.failures = CountFailure(@, r.job.type, class),
      !.account = WithLoginError(@, out)])

LoginFailed(r, class, retryable) ==
    Failed(r, class, Quarantined(r.failures[r.job.type], class, retryable))

Expire(r) ==
    IF r.job.status \in ActiveJob /\ ~r.job.live
    THEN LoginFailed(r, IF r.job.status = "LEASED" THEN "INFRA" ELSE "STALLED", TRUE)
    ELSE r

\* lease_account; a password that cannot be decrypted disables the account.
Leased(r, type, readable) ==
    IF readable
    THEN [r EXCEPT !.job = [status |-> "LEASED", type |-> type, live |-> TRUE,
                            current |-> TRUE, blocked |-> FALSE]]
    ELSE Bumped([r EXCEPT !.account = WithLoginError(@, TRUE)])

RenewalDue(r) ==
    /\ r.account.life # "NONE"
    /\ r.account.status \notin {"PENDING_VALIDATION", "MANUAL_DISABLED"}
    /\ RenewalBalance(r.account)
    /\ \/ r.account.status \in {"TOKEN_EXPIRED", "TOKEN_EXPIRING"}
       \/ r.account.unauthorized
       \/ r.account.life \in {"DUE", "EXPIRED"}
       \/ Stored(r.renewal) /\ ~r.renewal.client
    /\ r.job.status \notin ActiveJob
    /\ ~r.job.blocked

Activatable(r) ==
    /\ r.account.life = "NONE"
    /\ r.account.status \in {"PENDING_VALIDATION", "TOKEN_EXPIRED"}
    /\ ~KnownLow(r.account)
    /\ r.job.status \notin ActiveJob
    /\ ~r.job.blocked

\* Mutants of LatchCloses: a login is due as soon as the token is, or never
\* while the session's client reports.
LatchClosesNever(row) == FALSE
LatchClosesAlways(row) == Stored(row) /\ row.client

\* The protocol still has its chance: no login job is handed out.
LatchCloses(row) == Stored(row) /\ row.client /\ row.status # "FALLBACK"

\* A due account: held by a running renewal, latched for one, or leased.
ClaimRenewal(r, readable) ==
    LET row == r.renewal
        refresh == Stored(row) /\ ~row.client
        closed == IF row.grace = "OVER" THEN Fallback(row) ELSE row
    IN CASE refresh /\ row.status = "RUNNING" /\ row.live -> r
         [] LatchCloses(closed) ->
              [r EXCEPT !.renewal =
                 IF closed.status = "IDLE"
                 THEN [closed EXCEPT !.status = "PENDING", !.attempts = 0,
                                     !.grace = "OPEN", !.ready = TRUE]
                 ELSE closed]
         [] OTHER ->
              Leased([r EXCEPT !.renewal = closed],
                     IF refresh THEN "REFRESH_SESSION" ELSE "RENEW_TOKEN",
                     readable)

ActiveCredits(rows) ==
    MapThenSumSet(LAMBDA a : rows[a].account.credits,
                  {a \in Account : rows[a].account.status = "ACTIVE"})

Activating(rows) ==
    {a \in Account : rows[a].job.status \in ActiveJob
                     /\ rows[a].job.type = "ACTIVATE_NEW"}

ActivationBudget(rows) ==
    IF ActiveCredits(rows) < CreditTarget
    THEN Max({0, MaxActivations - Cardinality(Activating(rows))})
    ELSE 0

\* A lane of the claim kept for an activation.
Reservation(rows) ==
    IF ActivationBudget(rows) > 0 /\ Activating(rows) = {} THEN 1 ELSE 0

\* As many members of a set as a limit allows.
Limited(set, limit) == kSubset(Min({limit, Cardinality(set)}), set)

\* The renewals: at most what the reservation leaves of the limit.
Renewals(rows, readable) ==
    LET due == {a \in Account : RenewalDue(rows[a])} IN
    {[a \in Account |-> IF a \in chosen THEN ClaimRenewal(rows[a], a \in readable)
                                        ELSE rows[a]] :
       chosen \in Limited(due, Max({0, ClaimLimit - Reservation(rows)}))}

\* The activations, with what the renewals leased have left of the limit.
Activations(rows, served, readable) ==
    LET leased == {a \in Account : served[a].job # rows[a].job}
        left == Min({ClaimLimit - Cardinality(leased), ActivationBudget(rows)})
    IN {[a \in Account |-> IF a \in chosen
                          THEN Leased(served[a], "ACTIVATE_NEW", a \in readable)
                          ELSE served[a]] :
          chosen \in Limited({a \in Account : Activatable(rows[a])}, left)}

\* POST /claim: time jobs out, then renewals, then activations.  Which of
\* the eligible rows come first (ORDER BY) is a choice.
LoginClaim ==
    \E readable \in SUBSET Account, rows \in {[a \in Account |-> Expire(Rows(a))]} :
    \E served \in Renewals(rows, readable) :
    \E final \in Activations(rows, served, readable) :
      /\ account' = [a \in Account |-> final[a].account]
      /\ seen' = [a \in Account |-> final[a].seen]
      /\ renewal' = [a \in Account |-> final[a].renewal]
      /\ job' = [a \in Account |-> final[a].job]
      /\ failures' = [a \in Account |-> final[a].failures]
      /\ UNCHANGED <<handler, view, validator, based>>

\* check_active_lease for the worker that holds the lease.
LeaseHeld(a) == job[a].status = "LEASED" /\ job[a].live

\* Mutant of ReportAccepted: a token stored since the claim is overwritten.
ReportAcceptedAlways(a) == LeaseHeld(a) /\ account[a].status # "MANUAL_DISABLED"

\* Mutant of ReportAccepted: a disabled account takes the token.
ReportAcceptedDisabled(a) == LeaseHeld(a) /\ job[a].current

ReportAccepted(a) ==
    /\ LeaseHeld(a)
    /\ account[a].status # "MANUAL_DISABLED"
    /\ job[a].current

\* A token is stored, with the balance that came with it, if any.
WithToken(acc, status, life, balance) ==
    [acc EXCEPT !.status = status, !.life = life, !.unauthorized = FALSE,
                !.synced = @ \/ balance # Nobody,
                !.credits = IF balance = Nobody THEN @ ELSE balance]

\* POST /{job}/token.  A repeated or conflicting report changes nothing.
ReportLoginToken(a) ==
    /\ ReportAccepted(a)
    /\ \E row \in {NoRow, NewRow}, balance \in Balances \cup {Nobody} :
         /\ account' = [account EXCEPT ![a] =
                          WithToken(@, "PENDING_VALIDATION", "FRESH", balance)]
         /\ renewal' = [renewal EXCEPT ![a] = row]
    /\ Bump(a)
    /\ based' = [based EXCEPT ![a] = {}]
    /\ job' = [job EXCEPT ![a] = [@ EXCEPT !.status = "VALIDATING", !.live = TRUE,
                                           !.current = FALSE]]
    /\ UNCHANGED <<failures, handler, view, validator>>

\* POST /{job}/fail.
FailLoginJob(a) ==
    /\ LeaseHeld(a)
    /\ \E class \in ErrorClass, retryable \in BOOLEAN :
         LET r == LoginFailed(Rows(a), class, retryable)
         IN /\ account' = [account EXCEPT ![a] = r.account]
            /\ renewal' = [renewal EXCEPT ![a] = r.renewal]
            /\ job' = [job EXCEPT ![a] = r.job]
            /\ failures' = [failures EXCEPT ![a] = r.failures]
    /\ Bump(a)
    /\ UNCHANGED <<handler, view, validator, based>>

-----------------------------------------------------------------------------
(* Syncer: protocol renewal.                                               *)

Idle(s) == /\ \A a \in Account : handler[s][a] = "idle"
           /\ ~view[s].open
           /\ validator[s] = Nobody

\* The locking read of the candidates evaluates its EXISTS subquery on
\* account_login_jobs in a read view; the rows are locked after that.
OpenRenewalView(s) ==
    /\ Idle(s)
    /\ view' = [view EXCEPT ![s] =
         [open |-> TRUE, busy |-> {a \in Account : job[a].status \in ActiveJob}]]
    /\ UNCHANGED <<account, seen, renewal, job, failures, handler, validator,
                   based>>

\* A RUNNING row whose lease ran out is given back, or given up.
Recovered(row) ==
    IF row.status = "RUNNING" /\ ~row.live
    THEN IF row.attempts >= MaxAttempts \/ row.grace = "OVER"
         THEN Fallback(row)
         ELSE [row EXCEPT !.status = "RETRY", !.owner = Nobody, !.live = FALSE,
                          !.ready = (row.grace # "NONE")]
    ELSE row

\* renewal_ready and keepalive_ready with the filters of both.
Candidate(s, a) ==
    LET row == renewal[a]
        acc == account[a]
    IN /\ acc.life # "NONE"
       /\ acc.status \notin {"PENDING_VALIDATION", "MANUAL_DISABLED"}
       /\ RenewalBalance(acc)
       /\ Stored(row) /\ Confirmed(row) /\ row.ready
       /\ IF acc.life = "FRESH"
          THEN row.status \in {"IDLE", "RETRY"} /\ row.refreshed # "NOW"
          ELSE row.status \in {"IDLE", "PENDING", "RETRY"}
       /\ a \notin view[s].busy

Claimed(s, row, keepalive) ==
    LET fresh == IF row.claimed = "OLD" THEN Reset(row) ELSE row
        due == IF ~keepalive /\ fresh.grace = "NONE"
               THEN [fresh EXCEPT !.grace = "OPEN"]
               ELSE fresh
    IN IF ~keepalive /\ due.grace = "OVER"
       THEN Fallback(due)
       ELSE [due EXCEPT !.status = "RUNNING", !.attempts = @ + 1,
                        !.claimed = "CURRENT", !.owner = s, !.live = TRUE,
                        !.ready = TRUE]

\* claim_protocol_renewal_batch.  Sessions do not flush before a query, so
\* a row recovered here is not a candidate before the next claim.
ClaimRenewalBatch(s) ==
    /\ view[s].open
    /\ \E batch \in Limited({a \in Account : Candidate(s, a)}, BatchSize) :
         /\ renewal' = [a \in Account |->
                          IF a \in batch
                          THEN Claimed(s, renewal[a], account[a].life = "FRESH")
                          ELSE Recovered(renewal[a])]
         /\ handler' = [handler EXCEPT ![s] =
                          [a \in Account |->
                             IF a \in batch /\ renewal'[a].status = "RUNNING"
                             THEN "claimed" ELSE "idle"]]
    /\ view' = [view EXCEPT ![s] = NoView]
    /\ UNCHANGED <<account, seen, job, failures, validator, based>>

Owned(s, a) == renewal[a].status = "RUNNING" /\ renewal[a].owner = s

\* load_protocol_renewal_item.
LoadRenewal(s, a) ==
    /\ handler[s][a] = "claimed"
    /\ IF Owned(s, a) /\ account[a].life # "NONE"
       THEN /\ handler' = [handler EXCEPT ![s][a] = "loaded"]
            /\ seen' = [seen EXCEPT ![a] = @ \cup {s}]
            /\ based' = [based EXCEPT ![a] = @ \cup {s}]
       ELSE /\ handler' = [handler EXCEPT ![s][a] = "idle"]
            /\ UNCHANGED <<seen, based>>
    /\ UNCHANGED <<account, renewal, job, failures, view, validator>>

\* The coroutine ends: what it read is forgotten.
EndRenewal(s, a) ==
    /\ handler' = [handler EXCEPT ![s][a] = "idle"]
    /\ based' = [based EXCEPT ![a] = @ \ {s}]

\* Mutant of ItemCurrent: any running renewal may store its result.
ItemRunning(s, a) == renewal[a].status = "RUNNING"

\* The fence of both apply functions.
ItemCurrent(s, a) == Owned(s, a) /\ s \in seen[a]

\* PROTOCOL_RESULT_STALE: the row is released, the result dropped.
DropStaleResult(s, a) ==
    /\ handler[s][a] \in {"loaded", "alive", "unrotated"}
    /\ ~ItemCurrent(s, a)
    /\ renewal' = [renewal EXCEPT ![a] = IF @.owner = s THEN Reset(@) ELSE @]
    /\ seen' = [seen EXCEPT ![a] = @ \ {s}]
    /\ EndRenewal(s, a)
    /\ UNCHANGED <<account, job, failures, view, validator>>

\* apply_protocol_renewal_success: get-session returned a new token beyond
\* the renewal window and the provider validated it with a balance.
StoreRenewedToken(s, a) ==
    /\ handler[s][a] = "loaded"
    /\ ItemCurrent(s, a)
    /\ \E balance \in Balances :
         LET status == IF account[a].status = "MANUAL_DISABLED" THEN "MANUAL_DISABLED"
                       ELSE IF balance < LowBalance THEN "LOW_BALANCE_DISABLED"
                       ELSE "ACTIVE"
         IN account' = [account EXCEPT ![a] = WithToken(@, status, "FRESH", balance)]
    /\ Bump(a)
    /\ renewal' = [renewal EXCEPT ![a] = [Reset(@) EXCEPT !.refreshed = "NOW"]]
    /\ job' = [job EXCEPT ![a] = Superseded(@)]
    /\ handler' = [handler EXCEPT ![s][a] = "idle"]
    /\ based' = [based EXCEPT ![a] = {}]
    /\ UNCHANGED <<failures, view, validator>>

\* get-session answered with the stored token, which is still good.  Whether
\* it is due, and another answer worth waiting for, is decided before the
\* transaction.  (An item that is outdated by then is dropped all the same.)
SessionAnswers(s, a) ==
    /\ handler[s][a] = "loaded"
    /\ ItemCurrent(s, a)
    /\ account[a].life # "EXPIRED"
    /\ account[a].life = "DUE" => renewal[a].attempts < MaxAttempts
    /\ handler' = [handler EXCEPT ![s][a] =
                     IF account[a].life = "FRESH" THEN "alive" ELSE "unrotated"]
    /\ UNCHANGED <<account, seen, renewal, job, failures, view, validator, based>>

\* apply_protocol_session_keepalive: the session lives, the token is kept.
KeepSessionAlive(s, a) ==
    /\ handler[s][a] \in {"alive", "unrotated"}
    /\ ItemCurrent(s, a)
    /\ renewal' = [renewal EXCEPT ![a] =
         IF handler[s][a] = "unrotated"
         THEN [@ EXCEPT !.status = "RETRY", !.ready = FALSE, !.owner = Nobody,
                        !.live = FALSE, !.claimed = "CURRENT", !.refreshed = "NOW"]
         ELSE [Reset(@) EXCEPT !.refreshed = "NOW"]]
    /\ seen' = [seen EXCEPT ![a] = @ \ {s}]
    /\ EndRenewal(s, a)
    /\ UNCHANGED <<account, job, failures, view, validator>>

\* Mutant of GivenUp: only errors that cannot be retried end the round.
GivenUpByError(row, retryable) == ~retryable

GivenUp(row, retryable) ==
    ~retryable \/ row.attempts >= MaxAttempts \/ row.grace = "OVER"

\* apply_protocol_renewal_failure: a protocol, validation or internal error.
\* "late": the retry would come after the grace period.
FailRenewal(s, a) ==
    /\ handler[s][a] # "idle"
    /\ \E retryable, late \in BOOLEAN :
         /\ late => retryable /\ renewal[a].grace = "OPEN"
         /\ renewal' = [renewal EXCEPT ![a] =
              IF ~Owned(s, a) THEN @
              ELSE IF @.claimed = "OLD" THEN Reset(@)
              ELSE IF GivenUp(@, retryable) \/ late THEN Fallback(@)
              ELSE [@ EXCEPT !.status = "RETRY", !.owner = Nobody,
                             !.live = FALSE, !.ready = FALSE]]
    /\ seen' = [seen EXCEPT ![a] = @ \ {s}]
    /\ EndRenewal(s, a)
    /\ UNCHANGED <<account, job, failures, view, validator>>

\* The syncer process dies; its successor has another id and holds nothing.
SyncerCrash(s) ==
    /\ handler' = [handler EXCEPT ![s] = [a \in Account |-> "idle"]]
    /\ view' = [view EXCEPT ![s] = NoView]
    /\ validator' = [validator EXCEPT ![s] = Nobody]
    /\ seen' = [a \in Account |-> seen[a] \ {s}]
    /\ based' = [a \in Account |-> based[a] \ {s}]
    /\ UNCHANGED <<account, renewal, job, failures>>

-----------------------------------------------------------------------------
(* Syncer: guards and validation.                                          *)

Renewable(row) == Stored(row) /\ row.status # "FALLBACK" /\ Confirmed(row)

\* The five updates of enforce_account_guards, in their order, on one row.
Guarded(acc, row, near) ==
    LET pool == {"ACTIVE", "TOKEN_EXPIRING"}
        expired == acc.life = "EXPIRED"
    IN CASE expired /\ acc.status \in pool \cup {"TOKEN_EXPIRED"} /\ Renewable(row) ->
              "TOKEN_EXPIRING"
         [] expired /\ acc.status \in pool /\ ~Renewable(row) -> "TOKEN_EXPIRED"
         [] ~expired /\ acc.status = "ACTIVE" /\ acc.credits < LowBalance ->
              "LOW_BALANCE_DISABLED"
         [] ~expired /\ acc.status = "ACTIVE" /\ acc.credits >= LowBalance
            /\ acc.life = "DUE" /\ near -> "TOKEN_EXPIRING"
         [] OTHER -> acc.status

\* "near": the accounts whose token, due but not expired, is inside the
\* token guard.
EnforceAccountGuards ==
    /\ \E near \in SUBSET {a \in Account : account[a].life = "DUE"} :
         account' = [a \in Account |->
                       [account[a] EXCEPT !.status =
                          Guarded(account[a], renewal[a], a \in near)]]
    /\ UNCHANGED <<seen, renewal, job, failures, handler, view, validator,
                   based>>

\* validate_account: the row is read, the provider asked.
StartValidation(s, a) ==
    /\ Idle(s)
    /\ account[a].status = "PENDING_VALIDATION" /\ account[a].life # "NONE"
    /\ validator' = [validator EXCEPT ![s] = a]
    /\ seen' = [seen EXCEPT ![a] = @ \cup {s}]
    /\ UNCHANGED <<account, renewal, job, failures, handler, view, based>>

\* Mutant of ValidationCurrent: the answer is applied to whatever the
\* account has become.
ValidationAnyVersion(s, a) == TRUE

ValidationCurrent(s, a) ==
    s \in seen[a] /\ account[a].status = "PENDING_VALIDATION"

\* The provider could not be asked, or the account changed meanwhile.
DropValidation(s, a) ==
    /\ validator[s] = a
    /\ validator' = [validator EXCEPT ![s] = Nobody]
    /\ seen' = [seen EXCEPT ![a] = @ \ {s}]
    /\ UNCHANGED <<account, renewal, job, failures, handler, view, based>>

Validating(a) == job[a].status = "VALIDATING"

\* The balance is stamped as synchronised before the answer is looked at.
StampedUnread(acc) == [acc EXCEPT !.synced = TRUE]

\* The answer is an error.
RejectToken(s, a) ==
    /\ validator[s] = a
    /\ ValidationCurrent(s, a)
    /\ validator' = [validator EXCEPT ![s] = Nobody]
    /\ \E unauthorized \in BOOLEAN :
         account' = [account EXCEPT ![a] =
                       [StampedUnread(@) EXCEPT !.status = "TOKEN_EXPIRED",
                                                !.unauthorized = unauthorized]]
    /\ Bump(a)
    /\ renewal' = [renewal EXCEPT ![a] = Outdated(@)]
    /\ IF Validating(a)
       THEN /\ job' = [job EXCEPT ![a] = Finished(TRUE)]
            /\ failures' = [failures EXCEPT ![a] = CountFailure(@, job[a].type, "OTHER")]
       ELSE UNCHANGED <<job, failures>>
    /\ UNCHANGED <<handler, view, based>>

\* account_status_for_balance: the status of a token that has this balance.
\* "near": it is inside the token guard.
StatusForBalance(status, life, balance, near) ==
    CASE status = "MANUAL_DISABLED" -> "MANUAL_DISABLED"
      [] status # "MANUAL_DISABLED" /\ life = "EXPIRED" -> "TOKEN_EXPIRED"
      [] status # "MANUAL_DISABLED" /\ life # "EXPIRED" /\ balance < LowBalance ->
           "LOW_BALANCE_DISABLED"
      [] status # "MANUAL_DISABLED" /\ life = "DUE" /\ balance >= LowBalance /\ near ->
           "TOKEN_EXPIRING"
      [] OTHER -> "ACTIVE"

\* The answer is a balance.
AcceptToken(s, a) ==
    /\ validator[s] = a
    /\ ValidationCurrent(s, a)
    /\ validator' = [validator EXCEPT ![s] = Nobody]
    /\ \E balance \in Balances, near \in BOOLEAN :
         LET status == StatusForBalance("PENDING_VALIDATION", account[a].life, balance, near)
         IN account' = [account EXCEPT ![a] =
                          [@ EXCEPT !.status = status, !.synced = TRUE,
                                    !.credits = balance,
                                    !.unauthorized = account[a].unauthorized /\ status # "ACTIVE"]]
    /\ Bump(a)
    /\ renewal' = [renewal EXCEPT ![a] = Outdated(@)]
    /\ job' = [job EXCEPT ![a] = IF Validating(a) THEN Finished(FALSE) ELSE @]
    /\ UNCHANGED <<failures, handler, view, based>>

-----------------------------------------------------------------------------
(* The task pipeline and operators write the same rows.                    *)

\* A transaction of theirs changed the account: its row is acc, its version
\* is another.
Write(a, acc) ==
    /\ account' = [account EXCEPT ![a] = acc]
    /\ renewal' = [renewal EXCEPT ![a] = Outdated(@)]
    /\ Bump(a)
    /\ UNCHANGED <<job, failures, handler, view, validator, based>>

\* Claims and releases only count tasks and reservations, but increment the
\* version, as a PATCH without manual_status does.
TaskCounts(a) ==
    /\ account[a].life # "NONE"
    /\ Write(a, account[a])

\* finish_submit_failure, and a refresh before a submission that fails: what
\* the error does to the account.  The first does it even to a disabled one.
\* COOLDOWN is treated like LOW_BALANCE_DISABLED everywhere here.
SubmissionFails(a) ==
    /\ account[a].life # "NONE"
    /\ \E status \in {account[a].status, "TOKEN_EXPIRED", "LOW_BALANCE_DISABLED",
                      "MANUAL_DISABLED"}, unauthorized \in BOOLEAN :
         /\ unauthorized => status = "TOKEN_EXPIRED"
         /\ Write(a, [account[a] EXCEPT !.status = status,
                                        !.unauthorized = unauthorized])

\* apply_poll_error: the account is suspended, or its token is refused.
PollFails(a) ==
    /\ account[a].life # "NONE"
    /\ \E suspended \in BOOLEAN :
         Write(a, [account[a] EXCEPT
           !.status = IF suspended \/ @ = "MANUAL_DISABLED" THEN "MANUAL_DISABLED"
                                                           ELSE "TOKEN_EXPIRED",
           !.unauthorized = ~suspended])

\* apply_poll_result charges a completed task.
TaskSettles(a) ==
    /\ account[a].life # "NONE"
    /\ \E left \in 0 .. account[a].credits :
         Write(a, [account[a] EXCEPT !.credits = left,
                     !.status = IF left < LowBalance /\ @ # "MANUAL_DISABLED"
                                THEN "LOW_BALANCE_DISABLED" ELSE @])

\* apply_pre_submit_balance_refresh reads the wallet of an active account.
TaskReadsBalance(a) ==
    /\ account[a].status = "ACTIVE" /\ account[a].life # "NONE"
    /\ \E balance \in Balances :
         Write(a, [account[a] EXCEPT !.credits = balance, !.synced = TRUE,
                     !.unauthorized = FALSE,
                     !.status = IF balance < LowBalance
                                THEN "LOW_BALANCE_DISABLED" ELSE @])

\* What all ways to store a token have in common: every driver that started
\* from the old one is superseded.
StoreToken(a, acc, row) ==
    /\ account' = [account EXCEPT ![a] = acc]
    /\ renewal' = [renewal EXCEPT ![a] = row]
    /\ Bump(a)
    /\ based' = [based EXCEPT ![a] = {}]
    /\ job' = [job EXCEPT ![a] = Superseded(@)]
    /\ UNCHANGED <<failures, handler, view, validator>>

\* The new token awaits its validation, unless the account is disabled.
Awaiting(acc, life, balance) ==
    WithToken(acc, IF acc.status = "MANUAL_DISABLED" THEN "MANUAL_DISABLED"
                                                    ELSE "PENDING_VALIDATION",
              life, balance)

\* POST /sync: with the session of the desktop, or without one.
SyncAccount(a) ==
    \E row \in {NoRow, NewRow}, life \in {"FRESH", "DUE"}, balance \in Balances \cup {Nobody} :
      StoreToken(a, Awaiting(account[a], life, balance), row)

\* PUT /token: the stored session stays, its state is reset.
UpdateAccountToken(a) ==
    \E life \in {"FRESH", "DUE"} :
      StoreToken(a, Awaiting(account[a], life, Nobody),
                 IF Stored(renewal[a]) THEN Reset(renewal[a]) ELSE NoRow)

\* upsert_cookie_session_account: a session imported for this login brings a
\* token and a balance that were just read.
ImportSession(a) ==
    \E life \in {"FRESH", "DUE"}, balance \in Balances, near \in BOOLEAN :
      StoreToken(a, WithToken(account[a],
                              StatusForBalance(account[a].status, life, balance, near),
                              life, balance),
                 NewRow)

\* import_account_ledger: a balance, and when it was read, if known; one that
\* is missing or older than the copy only moves the version.
ImportLedger(a) ==
    \/ Write(a, account[a])
    \/ \E balance \in Balances, checked \in BOOLEAN :
         Write(a, [account[a] EXCEPT !.credits = balance, !.synced = checked])

\* POST /refresh-balance with the token whose version the request has read:
\* no step of another comes between that reading and this one.
BalanceRefreshed(a) ==
    /\ account[a].life # "NONE"
    /\ \E balance \in Balances, near \in BOOLEAN :
         /\ near => account[a].life = "DUE"
         /\ Write(a, [account[a] EXCEPT
              !.status = StatusForBalance(@, account[a].life, balance, near),
              !.credits = balance, !.synced = TRUE, !.unauthorized = FALSE])

\* The provider gives no balance, or refuses the token, even of a disabled
\* account; the time is stamped all the same.
BalanceRefreshFails(a) ==
    /\ account[a].life # "NONE"
    /\ \E refused \in BOOLEAN, unauthorized \in BOOLEAN :
         /\ unauthorized => refused
         /\ Write(a, [StampedUnread(account[a]) EXCEPT
              !.status = IF refused THEN "TOKEN_EXPIRED" ELSE @,
              !.unauthorized = unauthorized])

\* PATCH with manual_status.
DisableAccount(a) ==
    /\ Write(a, [account[a] EXCEPT !.status = "MANUAL_DISABLED"])

EnableAccount(a) ==
    /\ Write(a, [account[a] EXCEPT !.status = "PENDING_VALIDATION"])

-----------------------------------------------------------------------------
(* Time passes.                                                            *)

Elapse == UNCHANGED <<seen, failures, handler, view, validator, based>>

TokenAges(a) ==
    /\ account[a].life \in {"FRESH", "DUE"}
    /\ account' = [account EXCEPT ![a].life = IF @ = "FRESH" THEN "DUE" ELSE "EXPIRED"]
    /\ Elapse /\ UNCHANGED <<renewal, job>>

RenewalTimePasses(a, row) ==
    /\ row # renewal[a]
    /\ renewal' = [renewal EXCEPT ![a] = row]
    /\ Elapse /\ UNCHANGED <<account, job>>

RenewalLeaseEnds(a) == RenewalTimePasses(a, [renewal[a] EXCEPT !.live = FALSE])

RetryDue(a) == RenewalTimePasses(a, [renewal[a] EXCEPT !.ready = TRUE])

GraceEnds(a) ==
    /\ renewal[a].grace = "OPEN"
    /\ RenewalTimePasses(a, [renewal[a] EXCEPT !.grace = "OVER"])

\* The client's report is the older of the two confirmations, or the same.
SessionAges(a) ==
    \E client \in BOOLEAN, refreshed \in {"AGED", "STALE"} :
      /\ Stored(renewal[a])
      /\ client => renewal[a].client
      /\ refreshed = "AGED" => renewal[a].refreshed # "STALE"
      /\ refreshed = "STALE" => ~client
      /\ RenewalTimePasses(a, [renewal[a] EXCEPT !.client = client,
                                                 !.refreshed = refreshed])

\* The end of a lease, or of the time a validation may take.
JobDeadline(a) ==
    /\ job[a].live
    /\ job' = [job EXCEPT ![a].live = FALSE]
    /\ Elapse /\ UNCHANGED <<account, renewal>>

BackoffEnds(a) ==
    /\ job[a].blocked
    /\ job' = [job EXCEPT ![a].blocked = FALSE]
    /\ Elapse /\ UNCHANGED <<account, renewal>>

Tick(a) == \/ TokenAges(a) \/ RenewalLeaseEnds(a) \/ RetryDue(a) \/ GraceEnds(a)
           \/ SessionAges(a) \/ JobDeadline(a) \/ BackoffEnds(a)

-----------------------------------------------------------------------------
RenewalStep(s, a) ==
    \/ LoadRenewal(s, a) \/ DropStaleResult(s, a) \/ StoreRenewedToken(s, a)
    \/ SessionAnswers(s, a) \/ KeepSessionAlive(s, a) \/ FailRenewal(s, a)

ValidationStep(s, a) ==
    StartValidation(s, a) \/ DropValidation(s, a) \/ RejectToken(s, a)
    \/ AcceptToken(s, a)

TaskStep(a) ==
    TaskCounts(a) \/ SubmissionFails(a) \/ PollFails(a) \/ TaskSettles(a)
    \/ TaskReadsBalance(a)

OperatorStep(a) ==
    \/ SyncAccount(a) \/ UpdateAccountToken(a) \/ ImportSession(a)
    \/ DisableAccount(a) \/ EnableAccount(a)

BalanceStep(a) == BalanceRefreshed(a) \/ BalanceRefreshFails(a)

Next ==
    \/ LoginClaim
    \/ EnforceAccountGuards
    \/ \E a \in Account :
         \/ ReportLoginToken(a) \/ FailLoginJob(a)
         \/ "operators" \in Writers /\ OperatorStep(a)
         \/ "balances" \in Writers /\ BalanceStep(a)
         \/ "ledgers" \in Writers /\ ImportLedger(a)
         \/ "tasks" \in Writers /\ TaskStep(a)
         \/ Tick(a)
    \/ \E s \in Syncer :
         \/ OpenRenewalView(s) \/ ClaimRenewalBatch(s) \/ SyncerCrash(s)
         \/ \E a \in Account : RenewalStep(s, a) \/ ValidationStep(s, a)

Spec == Init /\ [][Next]_vars

\* The loops of the syncers and the desktops that poll for work never stop
\* for good, and every deadline passes.  A syncer may crash again and again
\* but in the end a claim it began is committed.
FairSpec ==
    /\ Spec
    /\ WF_vars(LoginClaim)
    /\ \A a \in Account :
         /\ WF_vars(RenewalLeaseEnds(a)) /\ WF_vars(RetryDue(a))
         /\ WF_vars(GraceEnds(a)) /\ WF_vars(BackoffEnds(a))
    /\ \A s \in Syncer :
         /\ WF_vars(OpenRenewalView(s)) /\ SF_vars(ClaimRenewalBatch(s))
         /\ WF_vars(\E a \in Account : RenewalStep(s, a) \/ ValidationStep(s, a))

-----------------------------------------------------------------------------
(* Properties.                                                             *)

\* Every row and every coroutine has the shape the code gives it.
TypeOK ==
    /\ account \in [Account -> AccountRow]
    /\ seen \in [Account -> SUBSET Syncer]
    /\ renewal \in [Account -> RenewalRow]
    /\ job \in [Account -> JobRow]
    /\ failures \in [Account -> [JobType -> [all : 0 .. MaxFailures - 1,
                                             stalled : 0 .. MaxStalled - 1]]]
    /\ handler \in [Syncer -> [Account -> {"idle", "claimed", "loaded", "alive", "unrotated"}]]
    /\ view \in [Syncer -> [open : BOOLEAN, busy : SUBSET Account]]
    /\ validator \in [Syncer -> Account \cup {Nobody}]
    /\ based \in [Account -> SUBSET Syncer]

\* Rows have their types; and a row of account_renewal_sessions is leased
\* exactly while it is RUNNING, remembers the version it was claimed at, waits
\* for the protocol only within a grace period, with all its attempts, and
\* never starts more than max_attempts rounds.
RowConsistent(row) ==
    /\ row.status = "RUNNING" <=> row.owner # Nobody
    /\ row.status = "RUNNING" => row.claimed # "NONE" /\ row.attempts > 0
    /\ row.status = "PENDING" => row.grace # "NONE" /\ row.attempts = 0
    /\ row.status = "IDLE" => row.attempts = 0 /\ row.claimed = "NONE"
    /\ row.status = "RETRY" => row.attempts < MaxAttempts

RowsAreConsistent == TypeOK /\ \A a \in Account : RowConsistent(renewal[a])

\* A renewal stores its token only over the token it was computed from: no
\* token reported, stored or renewed since is lost.
NewerTokenKept ==
    [][\A s \in Syncer, a \in Account :
         StoreRenewedToken(s, a) => s \in based[a]]_vars

\* A login job stores its token only over the token it was claimed under,
\* and never gives a disabled account back to the pool.
ReportsAreTimely ==
    [][\A a \in Account :
         job[a].status = "LEASED" /\ job'[a].status = "VALIDATING" =>
           /\ job[a].current
           /\ account[a].status # "MANUAL_DISABLED"]_vars

\* A quarantined or disabled account leaves that state by PATCH, by
\* finish_submit_failure (see ManualDisableKept of the module TaskLifecycle),
\* or by a balance refresh of an operator whose token the provider refuses,
\* which says that it expired (accounts.py:1067-1069); nobody else takes it
\* back: no report, validation, renewal, poll, import or guard.
QuarantineKept ==
    [][\A a \in Account :
         /\ account[a].status = "MANUAL_DISABLED"
         /\ account'[a].status # "MANUAL_DISABLED"
         => \/ EnableAccount(a) \/ SubmissionFails(a)
            \/ BalanceRefreshFails(a) /\ account'[a].status = "TOKEN_EXPIRED"]_vars

\* A login by password is handed out for a stored session only after the
\* protocol failed for good or its grace period ended.
LoginIsTheFallback ==
    [][\A a \in Account :
         /\ job[a].status \notin ActiveJob
         /\ job'[a].status = "LEASED" /\ job'[a].type = "RENEW_TOKEN"
         => renewal'[a].status \in {"ABSENT", "FALLBACK"}]_vars

OutOfPool(a) ==
    /\ account[a].life = "EXPIRED"
    /\ account[a].status \in {"TOKEN_EXPIRED", "TOKEN_EXPIRING"}
    /\ RenewalBalance(account[a])
    /\ job[a].status \notin ActiveJob

BalanceWrites(a) ==
    \/ "balances" \in Writers /\ BalanceStep(a)
    \/ "ledgers" \in Writers /\ ImportLedger(a)

\* An account out of the pool because its token expired is renewed by one of
\* the two drivers, or a desktop is asked to, unless it is disabled or has
\* no balance to renew for: neither kind of login job starves the other
\* (api/README.md:462-463).  Only a balance that is refreshed or imported
\* again and again can outdate every renewal.
ExpiredIsServed ==
    \A a \in Account :
      \/ []<><<BalanceWrites(a)>>_vars
      \/ OutOfPool(a) ~> ~OutOfPool(a)

\* A balance counts as synchronised from its first reading on, not before:
\* an account whose balance is unknown keeps the right to be renewed
\* (api/README.md:486).
FirstBalanceIsRead ==
    [][\A a \in Account :
         ~account[a].synced /\ account'[a].synced => account'[a].credits \in Balances]_vars
=============================================================================
