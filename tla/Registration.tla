---------------------------- MODULE Registration ----------------------------
(***************************************************************************)
(* Traceable registrations.  A client claims a registration under the      *)
(* first active parent, keeps it alive with heartbeats up to a deadline    *)
(* and reports a result once; validators expire registrations whose client *)
(* is gone, validate reported sessions with the provider and settle them   *)
(* on the parent, which is exhausted by a streak of poor settlements;      *)
(* operators ask for another validation or promote a success to an account *)
(* of the pool.                                                            *)
(*                                                                         *)
(* Every record is of another mailbox (MailboxPool: NeverGivenTwice).      *)
(* A repeated claim or report with a known key changes nothing.            *)
(***************************************************************************)
EXTENDS Integers, FiniteSets

CONSTANTS
    Record,        \* registration records that clients may claim
    Parent,        \* parent accounts, in the order of their ids
    Checker,       \* processes that run registration_validation_loop
    NoChecker,     \* a NULL lease owner
    JobLease,      \* settings.registration_job_lease_seconds
    JobTimeout,    \* settings.registration_job_timeout_seconds
    CheckAttempts, \* settings.registration_validation_max_attempts
    Streak,        \* PARENT_EXHAUSTION_STREAK
    MaxVersion     \* bound: validations and revalidations of one record

ASSUME RegistrationAssumption ==
    /\ IsFiniteSet(Record)
    /\ Parent \subseteq Nat \ {0}
    /\ NoChecker \notin Checker
    /\ {JobLease, JobTimeout, CheckAttempts, Streak} \subseteq Nat \ {0}
    /\ MaxVersion \in Nat

VARIABLES
    record,  \* rows of registration_records
    parent,  \* rows of parent_accounts
    check    \* _process_and_apply coroutines: the version each claimed, 0 for none

registrationVars == <<record, parent, check>>

-----------------------------------------------------------------------------

Reported == {"COOKIE_REPORTED", "VALIDATING", "VALIDATION_RETRY_WAIT"}
RecordStatus == {"ABSENT", "RUNNING", "FAILED", "SUCCEEDED", "VALIDATION_FAILED"} \cup Reported

\* A running record never lives longer than this.
Horizon == IF JobLease < JobTimeout THEN JobTimeout ELSE JobLease

RecordRow == [status : RecordStatus,
              parent : Parent \cup {0},
              age : 0 .. Horizon,        \* now - started_at, while it runs
              lease : Nat,               \* lease_expires_at - started_at, likewise
              staged : BOOLEAN,          \* session_ciphertext IS NOT NULL
              attempts : 0 .. MaxVersion,
              owner : Checker \cup {NoChecker},
              due : BOOLEAN,             \* validation_lease_until or retry_after <= now
              version : 0 .. MaxVersion, \* claims and revalidations since the report
              sequence : Nat,            \* parent_settlement_sequence
              low : BOOLEAN,             \* awarded_points < 8000
              promoted : BOOLEAN]        \* account_id IS NOT NULL

ParentRow == [status : {"ACTIVE", "EXHAUSTED", "DELETED"},
              success : Nat,   \* invite_success_count
              failure : Nat,   \* invite_failure_count
              sequence : Nat,  \* successful_settlement_sequence
              streak : 0 .. Streak] \* consecutive_150_count

RegistrationInit ==
    /\ record = [r \in Record |->
                   [status |-> "ABSENT", parent |-> 0, age |-> 0, lease |-> 0,
                    staged |-> FALSE, attempts |-> 0, owner |-> NoChecker, due |-> FALSE,
                    version |-> 0, sequence |-> 0, low |-> FALSE, promoted |-> FALSE]]
    /\ parent = [p \in Parent |-> [status |-> "ACTIVE", success |-> 0, failure |-> 0,
                                   sequence |-> 0, streak |-> 0]]
    /\ check = [c \in Checker |-> [r \in Record |-> 0]]

-----------------------------------------------------------------------------
(* Clients: registration_records.py.                                       *)

\* claim_registration_job: the first active parent, which it locks.
ClaimRegistration(r, p) ==
    /\ record[r].status = "ABSENT"
    /\ parent[p].status = "ACTIVE"
    /\ \A q \in Parent : parent[q].status = "ACTIVE" => p <= q
    /\ record' = [record EXCEPT ![r] =
                    [@ EXCEPT !.status = "RUNNING", !.parent = p, !.lease = JobLease]]
    /\ UNCHANGED <<parent, check>>

\* Mutant of Extended: the deadline does not bound the lease.
ExtendedFreely(row) == row.age + JobLease

Extended(row) ==
    IF row.age + JobLease < JobTimeout THEN row.age + JobLease ELSE JobTimeout

\* heartbeat_registration_job: at the instant its lease ends it still counts.
Heartbeat(r) ==
    /\ record[r].status = "RUNNING"
    /\ record[r].lease >= record[r].age /\ JobTimeout > record[r].age
    /\ record' = [record EXCEPT ![r].lease = Extended(record[r])]
    /\ UNCHANGED <<parent, check>>

Stopped(row, status) == [row EXCEPT !.status = status, !.age = 0, !.lease = 0]

CountFailure(p) == parent' = [parent EXCEPT ![p].failure = @ + 1]

\* record_registration_result with FAILED.
ReportFailure(r) ==
    /\ record[r].status = "RUNNING"
    /\ record' = [record EXCEPT ![r] = Stopped(@, "FAILED")]
    /\ CountFailure(record[r].parent)
    /\ UNCHANGED check

\* record_registration_result with REGISTERED and the claimed email; the
\* lease is not looked at.
ReportSession(r) ==
    /\ record[r].status = "RUNNING"
    /\ record' = [record EXCEPT ![r] =
                    [Stopped(@, "COOKIE_REPORTED") EXCEPT !.staged = TRUE, !.due = TRUE]]
    /\ UNCHANGED <<parent, check>>

-----------------------------------------------------------------------------
(* Validators: registration_validator.py.                                  *)

\* Mutant of ExpireRegistration: the scan trusts the lease alone.
ExpireAnyRegistration(r) ==
    /\ record[r].parent # 0 /\ record[r].status \notin {"FAILED", "SUCCEEDED"}
    /\ record[r].lease <= record[r].age
    /\ record' = [record EXCEPT ![r] = Stopped(@, "FAILED")]
    /\ UNCHANGED <<parent, check>>

\* expire_timed_out_registrations, for one of the rows it selects.
ExpireRegistration(r) ==
    /\ record[r].status = "RUNNING"
    /\ record[r].lease <= record[r].age
    /\ record' = [record EXCEPT ![r] = Stopped(@, "FAILED")]
    /\ CountFailure(record[r].parent)
    /\ UNCHANGED check

Checkable(r) ==
    \/ record[r].status = "COOKIE_REPORTED"
    \/ record[r].status \in {"VALIDATION_RETRY_WAIT", "VALIDATING"} /\ record[r].due

\* claim_registrations.  Its branch for a record without a session is left
\* out: RegistrationTypeOK shows that none is ever selected.
ClaimForCheck(c, rows) ==
    /\ \A r \in Record : check[c][r] = 0
    /\ rows # {} /\ rows \subseteq {r \in Record : Checkable(r)}
    /\ \A r \in rows : record[r].version < MaxVersion
    /\ record' = [r \in Record |->
                    IF r \notin rows THEN record[r]
                    ELSE [record[r] EXCEPT !.status = "VALIDATING", !.owner = c, !.due = FALSE,
                                           !.attempts = @ + 1, !.version = @ + 1]]
    /\ check' = [check EXCEPT ![c] =
                   [r \in Record |-> IF r \in rows THEN record[r].version + 1 ELSE 0]]
    /\ UNCHANGED parent

\* Mutant of CheckMatches: any record that is being validated will do.
CheckMatchesLoosely(c, r) == check[c][r] # 0 /\ record[r].staged

\* _claim_matches
CheckMatches(c, r) ==
    /\ record[r].status = "VALIDATING"
    /\ record[r].owner = c
    /\ record[r].version = check[c][r]

EndCheck(c, r) == check' = [check EXCEPT ![c][r] = 0]

\* Mutant of Settled: a good settlement does not end the streak.
SettledForgiving(row, low) ==
    LET streak == IF low THEN row.streak + 1 ELSE row.streak IN
    [row EXCEPT !.success = @ + 1,
                !.sequence = @ + 1,
                !.streak = IF row.status = "ACTIVE" THEN streak ELSE @,
                !.status = IF row.status = "ACTIVE" /\ streak >= Streak THEN "EXHAUSTED" ELSE @]

\* settle_success
Settled(row, low) ==
    LET streak == IF low THEN row.streak + 1 ELSE 0 IN
    [row EXCEPT !.success = @ + 1,
                !.sequence = @ + 1,
                !.streak = IF row.status = "ACTIVE" THEN streak ELSE @,
                !.status = IF row.status = "ACTIVE" /\ streak >= Streak THEN "EXHAUSTED" ELSE @]

\* apply_registration_validation_success
CheckSucceeds(c, r, low) ==
    LET p == record[r].parent IN
    /\ check[c][r] # 0
    /\ CheckMatches(c, r)
    /\ parent' = [parent EXCEPT ![p] = Settled(@, low)]
    /\ record' = [record EXCEPT ![r] =
                    [@ EXCEPT !.status = "SUCCEEDED", !.owner = NoChecker, !.due = FALSE,
                              !.sequence = parent[p].sequence + 1, !.low = low]]
    /\ EndCheck(c, r)

\* apply_registration_validation_failure
CheckFails(c, r, retryable) ==
    LET again == retryable /\ record[r].attempts < CheckAttempts IN
    /\ check[c][r] # 0
    /\ CheckMatches(c, r)
    /\ record' = [record EXCEPT ![r] =
                    [@ EXCEPT !.status = IF again THEN "VALIDATION_RETRY_WAIT"
                                         ELSE "VALIDATION_FAILED",
                              !.staged = retryable, !.owner = NoChecker, !.due = FALSE]]
    /\ EndCheck(c, r)
    /\ UNCHANGED parent

\* Either finds that the claim is no longer its own, or its process dies.
CheckDropped(c, r) ==
    /\ check[c][r] # 0
    /\ EndCheck(c, r)
    /\ UNCHANGED <<record, parent>>

-----------------------------------------------------------------------------
(* Operators: api/registration_records.py, api/parent_accounts.py.         *)

RevalidateRegistration(r) ==
    /\ record[r].status = "VALIDATION_FAILED" /\ record[r].staged
    /\ record[r].version < MaxVersion
    /\ record' = [record EXCEPT ![r] =
                    [@ EXCEPT !.status = "COOKIE_REPORTED", !.attempts = 0, !.due = TRUE,
                              !.owner = NoChecker, !.version = record[r].version + 1]]
    /\ UNCHANGED <<parent, check>>

\* promote_registration, when its token is fresh, the target space active
\* and no account has the login; another call replays the promotion.
PromoteRegistration(r) ==
    /\ record[r].status = "SUCCEEDED" /\ record[r].staged
    /\ ~record[r].promoted
    /\ record' = [record EXCEPT ![r] = [@ EXCEPT !.promoted = TRUE, !.staged = FALSE]]
    /\ UNCHANGED <<parent, check>>

\* Mutant of DeleteParent: records do not restrict it.
DeleteParentAlways(p) ==
    /\ parent[p].status # "DELETED"
    /\ parent' = [parent EXCEPT ![p].status = "DELETED"]
    /\ UNCHANGED <<record, check>>

\* delete_parent_account; a record restricts it.
DeleteParent(p) ==
    /\ parent[p].status # "DELETED"
    /\ \A r \in Record : record[r].parent # p
    /\ parent' = [parent EXCEPT ![p].status = "DELETED"]
    /\ UNCHANGED <<record, check>>

-----------------------------------------------------------------------------
(* Time.                                                                   *)

RegistrationAges(r) ==
    /\ record[r].status = "RUNNING"
    /\ record[r].age < Horizon
    /\ record' = [record EXCEPT ![r].age = @ + 1]
    /\ UNCHANGED <<parent, check>>

CheckFallsDue(r) ==
    /\ record[r].status \in {"VALIDATING", "VALIDATION_RETRY_WAIT"} /\ ~record[r].due
    /\ record' = [record EXCEPT ![r].due = TRUE]
    /\ UNCHANGED <<parent, check>>

RegistrationNext ==
    \/ \E r \in Record, p \in Parent : ClaimRegistration(r, p)
    \/ \E r \in Record :
         \/ Heartbeat(r) \/ ReportFailure(r) \/ ReportSession(r)
         \/ ExpireRegistration(r) \/ RevalidateRegistration(r) \/ PromoteRegistration(r)
         \/ RegistrationAges(r) \/ CheckFallsDue(r)
    \/ \E c \in Checker, rows \in SUBSET Record : ClaimForCheck(c, rows)
    \/ \E c \in Checker, r \in Record :
         \/ \E outcome \in BOOLEAN : CheckSucceeds(c, r, outcome) \/ CheckFails(c, r, outcome)
         \/ CheckDropped(c, r)
    \/ \E p \in Parent : DeleteParent(p)

RegistrationSpec == RegistrationInit /\ [][RegistrationNext]_registrationVars

-----------------------------------------------------------------------------
(* Properties.                                                             *)

(* Rows have their types; a record keeps its session while it is validated, *)
(* so that the claim never meets one without; a record names a parent that *)
(* still has its row.                                                      *)
RegistrationTypeOK ==
    /\ record \in [Record -> RecordRow]
    /\ parent \in [Parent -> ParentRow]
    /\ check \in [Checker -> [Record -> 0 .. MaxVersion]]
    /\ \A r \in Record :
         /\ record[r].status \in Reported => record[r].staged
         /\ record[r].status # "ABSENT" <=> record[r].parent # 0
         /\ record[r].parent # 0 => parent[record[r].parent].status # "DELETED"

Of(p) == {r \in Record : record[r].parent = p}
Ended(p, status) == {r \in Of(p) : record[r].status = status}

(* However reports, expiry, validations and revalidations of one record    *)
(* race, it is counted on its parent once, as a failure or as a success,   *)
(* and the settlements of a parent are numbered without a gap.             *)
CountersMatchHistory ==
    \A p \in Parent :
      /\ parent[p].failure = Cardinality(Ended(p, "FAILED"))
      /\ parent[p].success = Cardinality(Ended(p, "SUCCEEDED"))
      /\ parent[p].success = parent[p].sequence
      /\ {record[r].sequence : r \in Ended(p, "SUCCEEDED")} = 1 .. parent[p].sequence

\* The settlements numbered k and later, up to a streak, were all poor.
PoorFrom(p, k) ==
    \A j \in k .. (k + Streak - 1) : \E r \in Ended(p, "SUCCEEDED") :
      record[r].sequence = j /\ record[r].low

(* A parent is exhausted exactly when a streak of its settlements, in the  *)
(* order in which they were settled, were poor; a better one in between    *)
(* starts anew.                                                            *)
StreakDecides ==
    \A p \in Parent :
      parent[p].status = "EXHAUSTED" <=> \E k \in 1 .. parent[p].sequence : PoorFrom(p, k)

(* A client that keeps sending heartbeats does not keep its registration:  *)
(* once the deadline has passed the expiry scan selects it, also when a    *)
(* heartbeat arrived in the instant its lease ended.                       *)
DeadlineEndsLease ==
    \A r \in Record :
      record[r].status = "RUNNING" /\ record[r].age = Horizon => record[r].lease <= record[r].age

(* What is written of a parent, its counters and whether it is exhausted,  *)
(* is what its settled registrations and their order say.                  *)
HistoryDecides == CountersMatchHistory /\ StreakDecides
=============================================================================
