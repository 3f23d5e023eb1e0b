------------------------ MODULE AccountRenewalProofs ------------------------
(***************************************************************************)
(* What the two drivers of a token never do to each other, for any number  *)
(* of accounts and syncers and any limits. The invariant relates a renewal *)
(* coroutine to the rows it will write: while it has read the current      *)
(* version it was computed from the stored token, and an attempt it may    *)
(* still postpone is not the last one.                                     *)
(***************************************************************************)
EXTENDS AccountRenewal, TLAPS

Running == {"loaded", "alive", "unrotated"}

\* A coroutine that was loaded found a token, and none is ever removed.
LoadedHasToken ==
    \A s \in Syncer, a \in Account : handler[s][a] \in Running => account[a].life # "NONE"

\* Who has read the current version was loaded since the token was stored.
ReadersAreBased ==
    \A s \in Syncer, a \in Account : handler[s][a] \in Running /\ s \in seen[a] => s \in based[a]

\* An answer that keeps the token of a due account comes before the last attempt.
AttemptLeft ==
    \A s \in Syncer, a \in Account :
        handler[s][a] = "unrotated" /\ Owned(s, a) => renewal[a].attempts < MaxAttempts

ViewsAreIdle ==
    \A s \in Syncer, a \in Account : view[s].open => handler[s][a] = "idle"

RenewalInvariant ==
    /\ RowsAreConsistent
    /\ LoadedHasToken
    /\ ReadersAreBased
    /\ AttemptLeft
    /\ ViewsAreIdle

Counts == [JobType -> [all : 0 .. MaxFailures - 1, stalled : 0 .. MaxStalled - 1]]

-----------------------------------------------------------------------------
(* Operators on rows.                                                      *)

RowOK(row) == row \in RenewalRow /\ RowConsistent(row)

LEMMA MinOfTwo ==
    ASSUME NEW i \in Nat, NEW j \in Nat PROVE Min({i, j}) \in 0 .. j
<1>1. CASE i <= j
  BY <1>1 DEF Min
<1>2. CASE j <= i
  BY <1>2 DEF Min
<1> QED BY <1>1, <1>2

LEMMA OutdatedOK ==
    ASSUME NEW row, RowOK(row)
    PROVE  /\ RowOK(Outdated(row))
           /\ Outdated(row).status = row.status
           /\ Outdated(row).owner = row.owner
           /\ Outdated(row).attempts = row.attempts
  BY DEF RowOK, RowConsistent, RenewalRow, Outdated

LEMMA LimitsOK ==
    MaxAttempts \in Nat /\ MaxAttempts > 0 /\ 0 \in 0 .. MaxAttempts
  BY RenewalLimits

LEMMA ResetOK ==
    ASSUME NEW row, RowOK(row), NEW r \in {"NOW", "AGED", "STALE"}
    PROVE  /\ RowOK(Reset(row)) /\ Reset(row).owner = Nobody /\ Reset(row).status = "IDLE"
           /\ RowOK([Reset(row) EXCEPT !.refreshed = r])
           /\ [Reset(row) EXCEPT !.refreshed = r].owner = Nobody
           /\ [Reset(row) EXCEPT !.refreshed = r].status = "IDLE"
<1>1. /\ Reset(row) \in RenewalRow /\ Reset(row).owner = Nobody /\ Reset(row).status = "IDLE"
      /\ Reset(row).attempts = 0 /\ Reset(row).claimed = "NONE"
  BY LimitsOK DEF RowOK, RenewalRow, Reset
<1> DEFINE new == [Reset(row) EXCEPT !.refreshed = r]
<1>2. /\ new \in RenewalRow /\ new.owner = Nobody /\ new.status = "IDLE"
      /\ new.attempts = 0 /\ new.claimed = "NONE"
  BY <1>1 DEF RenewalRow
<1> HIDE DEF new
<1>3. RowOK(Reset(row)) /\ RowOK(new)
  BY <1>1, <1>2 DEF RowOK, RowConsistent
<1> QED BY <1>1, <1>2, <1>3 DEF new

LEMMA FallbackOK ==
    ASSUME NEW row, RowOK(row)
    PROVE  /\ RowOK(Fallback(row)) /\ Fallback(row).owner = Nobody
           /\ Fallback(row).status = "FALLBACK" /\ Fallback(row).client = row.client
<1> DEFINE base == Reset(row)
<1>1. base \in RenewalRow /\ base.owner = Nobody
  BY ResetOK DEF RowOK
<1>2. base.client = row.client
  BY DEF RowOK, RenewalRow, Reset
<1>3. Fallback(row) = [base EXCEPT !.status = "FALLBACK"]
  BY DEF Fallback
<1> HIDE DEF base
<1>4. /\ Fallback(row) \in RenewalRow /\ Fallback(row).owner = Nobody
      /\ Fallback(row).status = "FALLBACK" /\ Fallback(row).client = row.client
  BY <1>1, <1>2, <1>3 DEF RenewalRow
<1> QED BY <1>4 DEF RowOK, RowConsistent

LEMMA NewRowsOK ==
    RowOK(NoRow) /\ RowOK(NewRow) /\ NoRow.owner = Nobody /\ NewRow.owner = Nobody
<1>1. NoRow \in RenewalRow /\ NoRow.status = "ABSENT" /\ NoRow.owner = Nobody
      /\ NoRow.attempts = 0 /\ NoRow.claimed = "NONE"
  BY LimitsOK DEF RenewalRow, NoRow
<1>2. NewRow \in RenewalRow /\ NewRow.status = "IDLE" /\ NewRow.owner = Nobody
      /\ NewRow.attempts = 0 /\ NewRow.claimed = "NONE"
  BY <1>1 DEF RenewalRow, NewRow
<1> QED BY <1>1, <1>2 DEF RowOK, RowConsistent

LEMMA RecoveredOK ==
    ASSUME NEW row, RowOK(row)
    PROVE  /\ RowOK(Recovered(row))
           /\ Recovered(row) = row \/ Recovered(row).owner = Nobody
<1>1. CASE ~(row.status = "RUNNING" /\ ~row.live)
  BY <1>1 DEF Recovered
<1>2. CASE row.status = "RUNNING" /\ ~row.live /\ (row.attempts >= MaxAttempts \/ row.grace = "OVER")
  BY <1>2, FallbackOK DEF Recovered
<1>3. CASE row.status = "RUNNING" /\ ~row.live /\ ~(row.attempts >= MaxAttempts \/ row.grace = "OVER")
  <2> DEFINE ready == row.grace # "NONE"
             retry == [row EXCEPT !.status = "RETRY", !.owner = Nobody, !.live = FALSE, !.ready = ready]
  <2>1. Recovered(row) = retry
    BY <1>3, Zenon DEF Recovered
  <2>3. ready \in BOOLEAN
    OBVIOUS
  <2> HIDE DEF ready
  <2>2. row \in RenewalRow /\ row.attempts < MaxAttempts
    BY <1>3, LimitsOK DEF RowOK, RenewalRow
  <2>4. retry \in RenewalRow /\ retry.status = "RETRY" /\ retry.owner = Nobody
    BY <2>2, <2>3 DEF RenewalRow
  <2>5. retry.attempts = row.attempts
    BY <2>2 DEF RenewalRow
  <2> HIDE DEF retry
  <2> QED BY <2>1, <2>2, <2>4, <2>5 DEF RowOK, RowConsistent
<1> QED BY <1>1, <1>2, <1>3

LEMMA ClaimedOK ==
    ASSUME NEW s \in Syncer, NEW row, RowOK(row), NEW keepalive \in BOOLEAN,
           row.status \in {"IDLE", "PENDING", "RETRY"}
    PROVE  /\ RowOK(Claimed(s, row, keepalive))
           /\ Claimed(s, row, keepalive).owner \in {s, Nobody}
<1> DEFINE fresh == IF row.claimed = "OLD" THEN Reset(row) ELSE row
           due == IF ~keepalive /\ fresh.grace = "NONE" THEN [fresh EXCEPT !.grace = "OPEN"] ELSE fresh
           run == [due EXCEPT !.status = "RUNNING", !.attempts = @ + 1, !.claimed = "CURRENT",
                              !.owner = s, !.live = TRUE, !.ready = TRUE]
<1>1. RowOK(fresh) /\ fresh.status \in {"IDLE", "PENDING", "RETRY"}
  BY ResetOK
<1> HIDE DEF fresh
<1>2. RowOK(due) /\ due.attempts < MaxAttempts
  BY <1>1, RenewalLimits DEF RowOK, RowConsistent, RenewalRow
<1> HIDE DEF due
<1>3. /\ run \in RenewalRow /\ run.status = "RUNNING" /\ run.owner = s
      /\ run.claimed = "CURRENT" /\ run.attempts > 0
  <2> DEFINE n == due.attempts + 1
  <2>1. n \in 0 .. MaxAttempts /\ n > 0
    BY <1>2, LimitsOK DEF RowOK, RenewalRow
  <2>2. run = [due EXCEPT !.status = "RUNNING", !.attempts = n, !.claimed = "CURRENT",
                          !.owner = s, !.live = TRUE, !.ready = TRUE]
    BY Zenon
  <2> HIDE DEF n, run
  <2> QED BY <1>2, <2>1, <2>2 DEF RowOK, RenewalRow
<1> HIDE DEF run
<1>4. CASE ~keepalive /\ due.grace = "OVER"
  <2>1. Claimed(s, row, keepalive) = Fallback(due)
    BY <1>4 DEF Claimed, due, fresh
  <2> QED BY <1>2, <2>1, FallbackOK
<1>5. CASE ~(~keepalive /\ due.grace = "OVER")
  <2>1. Claimed(s, row, keepalive) = run
    BY <1>5 DEF Claimed, due, fresh, run
  <2>2. s # Nobody
    BY RenewalNulls
  <2> QED BY <1>3, <2>1, <2>2 DEF RowOK, RowConsistent
<1> QED BY <1>4, <1>5

-----------------------------------------------------------------------------
(* What the transactions of login jobs do to the rows of one account.      *)

Bundle == [account : AccountRow, seen : SUBSET Syncer, renewal : RenewalRow,
           job : JobRow, failures : Counts]

BundleOK(r) == r \in Bundle /\ RowOK(r.renewal)

GoneToLogin == {"ABSENT", "FALLBACK"}

\* From the rows r, the rows f may follow: a disabled account stays disabled,
\* no renewal begins, and no job, but one that is leased, and for a stored
\* session only if the protocol is out of it.
MayFollow(r, f) ==
    /\ BundleOK(f)
    /\ f.account.life = r.account.life
    /\ r.account.status = "MANUAL_DISABLED" => f.account.status = "MANUAL_DISABLED"
    /\ f.seen \subseteq r.seen
    /\ f.renewal.owner # Nobody =>
         /\ r.renewal.status = "RUNNING"
         /\ f.renewal.owner = r.renewal.owner /\ f.renewal.attempts = r.renewal.attempts
    /\ r.renewal.status \in GoneToLogin => f.renewal.status \in GoneToLogin
    /\ \/ f.job = r.job
       \/ f.job.status = "FINISHED"
       \/ f.job.status = "LEASED"
          /\ (f.job.type = "RENEW_TOKEN" => f.renewal.status \in GoneToLogin)

LEMMA FollowsItself ==
    ASSUME NEW r, BundleOK(r) PROVE MayFollow(r, r)
  BY DEF MayFollow, BundleOK, RowOK, RowConsistent

LEMMA FollowsTwice ==
    ASSUME NEW r, NEW g, NEW f, MayFollow(r, g), MayFollow(g, f) PROVE MayFollow(r, f)
<1>1. g.renewal.status = "RUNNING" <=> g.renewal.owner # Nobody
  BY DEF MayFollow, BundleOK, RowOK, RowConsistent
<1> QED BY <1>1 DEF MayFollow

LEMMA FinishedOK ==
    ASSUME NEW withheld \in BOOLEAN
    PROVE  Finished(withheld) \in JobRow /\ Finished(withheld).status = "FINISHED"
  BY DEF Finished, JobRow, JobType

LEMMA CountsOK ==
    ASSUME NEW counts \in Counts, NEW type \in JobType, NEW class \in ErrorClass
    PROVE  CountFailure(counts, type, class) \in Counts
<1> DEFINE i == IF class = "INFRA" THEN counts[type].all ELSE Min({counts[type].all + 1, MaxFailures - 1})
           j == IF class = "STALLED" THEN Min({counts[type].stalled + 1, MaxStalled - 1})
                                     ELSE counts[type].stalled
<1>1. /\ counts[type].all \in 0 .. MaxFailures - 1 /\ counts[type].stalled \in 0 .. MaxStalled - 1
      /\ MaxFailures \in Nat /\ MaxFailures > 0 /\ MaxStalled \in Nat /\ MaxStalled > 0
  BY RenewalLimits DEF Counts
<1>2. /\ counts[type].all + 1 \in Nat /\ MaxFailures - 1 \in Nat
      /\ counts[type].stalled + 1 \in Nat /\ MaxStalled - 1 \in Nat
  BY <1>1
<1>3. Min({counts[type].all + 1, MaxFailures - 1}) \in 0 .. MaxFailures - 1
  BY <1>2, MinOfTwo, Zenon
<1>4. Min({counts[type].stalled + 1, MaxStalled - 1}) \in 0 .. MaxStalled - 1
  BY <1>2, MinOfTwo, Zenon
<1>5. i \in 0 .. MaxFailures - 1 /\ j \in 0 .. MaxStalled - 1
  BY <1>1, <1>3, <1>4
<1>6. CountFailure(counts, type, class) = [counts EXCEPT ![type] = [all |-> i, stalled |-> j]]
  BY DEF CountFailure
<1> HIDE DEF i, j
<1> QED BY <1>5, <1>6 DEF Counts

LEMMA WithLoginErrorOK ==
    ASSUME NEW acc \in AccountRow, NEW out \in BOOLEAN
    PROVE  /\ WithLoginError(acc, out) \in AccountRow
           /\ WithLoginError(acc, out).life = acc.life
           /\ acc.status = "MANUAL_DISABLED" => WithLoginError(acc, out).status = "MANUAL_DISABLED"
  BY DEF WithLoginError, AccountRow, AccountStatus

LEMMA BumpedOK ==
    ASSUME NEW r, BundleOK(r)
    PROVE  /\ BundleOK(Bumped(r)) /\ Bumped(r).account = r.account /\ Bumped(r).job = r.job
           /\ Bumped(r).seen = {} /\ Bumped(r).renewal = Outdated(r.renewal)
  BY OutdatedOK DEF BundleOK, Bundle, Bumped, RowOK

LEMMA FailedOK ==
    ASSUME NEW r, BundleOK(r), NEW class \in ErrorClass, NEW out \in BOOLEAN
    PROVE  /\ MayFollow(r, Failed(r, class, out))
           /\ Failed(r, class, out).job.status = "FINISHED"
           /\ Failed(r, class, out).seen = {}
<1> DEFINE acc == WithLoginError(r.account, out)
           counts == CountFailure(r.failures, r.job.type, class)
           ended == Finished(~out)
           old == [r EXCEPT !.job = ended, !.failures = counts, !.account = acc]
<1>1. r \in Bundle /\ RowOK(r.renewal)
  BY DEF BundleOK
<1>2. /\ acc \in AccountRow /\ acc.life = r.account.life
      /\ r.account.status = "MANUAL_DISABLED" => acc.status = "MANUAL_DISABLED"
  BY <1>1, WithLoginErrorOK DEF Bundle
<1>3. counts \in Counts
  BY <1>1, CountsOK DEF Bundle, JobRow
<1>4. ended \in JobRow /\ ended.status = "FINISHED"
  BY FinishedOK
<1>5. Failed(r, class, out) = Bumped(old)
  BY Zenon DEF Failed
<1> HIDE DEF acc, counts, ended
<1>6. BundleOK(old) /\ old.account = acc /\ old.job = ended /\ old.renewal = r.renewal
  BY <1>1, <1>2, <1>3, <1>4 DEF Bundle, BundleOK
<1> HIDE DEF old
<1>7. /\ BundleOK(Bumped(old)) /\ Bumped(old).account = acc /\ Bumped(old).job = ended
      /\ Bumped(old).seen = {} /\ Bumped(old).renewal = Outdated(r.renewal)
  BY <1>6, BumpedOK
<1>8. /\ Outdated(r.renewal).status = r.renewal.status /\ Outdated(r.renewal).owner = r.renewal.owner
      /\ Outdated(r.renewal).attempts = r.renewal.attempts
      /\ r.renewal.status = "RUNNING" <=> r.renewal.owner # Nobody
  BY <1>1, OutdatedOK DEF RowOK, RowConsistent
<1>9. MayFollow(r, Bumped(old))
  BY <1>2, <1>4, <1>7, <1>8 DEF MayFollow
<1> QED BY <1>4, <1>5, <1>7, <1>9

LEMMA LoginFailedOK ==
    ASSUME NEW r, BundleOK(r), NEW class \in ErrorClass, NEW retryable \in BOOLEAN
    PROVE  /\ MayFollow(r, LoginFailed(r, class, retryable))
           /\ LoginFailed(r, class, retryable).job.status = "FINISHED"
           /\ LoginFailed(r, class, retryable).seen = {}
<1>1. Quarantined(r.failures[r.job.type], class, retryable) \in BOOLEAN
  BY DEF Quarantined
<1> QED BY <1>1, FailedOK DEF LoginFailed

LEMMA ExpireOK ==
    ASSUME NEW r, BundleOK(r)
    PROVE  MayFollow(r, Expire(r))
<1> DEFINE class == IF r.job.status = "LEASED" THEN "INFRA" ELSE "STALLED"
<1>1. CASE r.job.status \in ActiveJob /\ ~r.job.live
  <2>1. Expire(r) = LoginFailed(r, class, TRUE)
    BY <1>1 DEF Expire
  <2>2. class \in ErrorClass
    BY DEF ErrorClass
  <2> HIDE DEF class
  <2> QED BY <2>1, <2>2, LoginFailedOK
<1>2. CASE ~(r.job.status \in ActiveJob /\ ~r.job.live)
  BY <1>2, FollowsItself DEF Expire
<1> QED BY <1>1, <1>2

LEMMA LeasedOK ==
    ASSUME NEW r, BundleOK(r), NEW type \in JobType, NEW readable \in BOOLEAN,
           type = "RENEW_TOKEN" => r.renewal.status \in GoneToLogin
    PROVE  MayFollow(r, Leased(r, type, readable))
<1>1. r \in Bundle /\ RowOK(r.renewal)
      /\ (r.renewal.status = "RUNNING" <=> r.renewal.owner # Nobody)
  BY DEF BundleOK, RowOK, RowConsistent
<1>2. CASE readable
  <2> DEFINE leased == [status |-> "LEASED", type |-> type, live |-> TRUE,
                        current |-> TRUE, blocked |-> FALSE]
             f == [r EXCEPT !.job = leased]
  <2>1. Leased(r, type, readable) = f
    BY <1>2 DEF Leased
  <2>2. leased \in JobRow /\ leased.status = "LEASED" /\ leased.type = type
    BY DEF JobRow, ActiveJob
  <2> HIDE DEF leased
  <2>3. /\ f \in Bundle /\ f.account = r.account /\ f.seen = r.seen
        /\ f.renewal = r.renewal /\ f.job = leased
    BY <1>1, <2>2 DEF Bundle
  <2> HIDE DEF f
  <2> QED BY <1>1, <2>1, <2>2, <2>3 DEF MayFollow, BundleOK
<1>3. CASE ~readable
  <2> DEFINE acc == WithLoginError(r.account, TRUE)
             old == [r EXCEPT !.account = acc]
  <2>1. Leased(r, type, readable) = Bumped(old)
    BY <1>3, Zenon DEF Leased
  <2>2. /\ acc \in AccountRow /\ acc.life = r.account.life
        /\ r.account.status = "MANUAL_DISABLED" => acc.status = "MANUAL_DISABLED"
    BY <1>1, WithLoginErrorOK DEF Bundle
  <2> HIDE DEF acc
  <2>3. BundleOK(old) /\ old.account = acc /\ old.job = r.job /\ old.renewal = r.renewal
    BY <1>1, <2>2 DEF Bundle, BundleOK
  <2> HIDE DEF old
  <2>4. /\ BundleOK(Bumped(old)) /\ Bumped(old).account = acc /\ Bumped(old).job = r.job
        /\ Bumped(old).seen = {} /\ Bumped(old).renewal = Outdated(r.renewal)
    BY <2>3, BumpedOK
  <2>5. /\ Outdated(r.renewal).status = r.renewal.status /\ Outdated(r.renewal).owner = r.renewal.owner
        /\ Outdated(r.renewal).attempts = r.renewal.attempts
    BY <1>1, OutdatedOK
  <2> QED BY <1>1, <2>1, <2>2, <2>4, <2>5 DEF MayFollow
<1> QED BY <1>2, <1>3

\* The decision between the protocol and a login.
LEMMA ClaimRenewalOK ==
    ASSUME NEW r, BundleOK(r), NEW readable \in BOOLEAN
    PROVE  MayFollow(r, ClaimRenewal(r, readable))
<1> DEFINE row == r.renewal
           refresh == Stored(row) /\ ~row.client
           closed == IF row.grace = "OVER" THEN Fallback(row) ELSE row
           pending == [closed EXCEPT !.status = "PENDING", !.attempts = 0, !.grace = "OPEN", !.ready = TRUE]
           latched == IF closed.status = "IDLE" THEN pending ELSE closed
           type == IF refresh THEN "REFRESH_SESSION" ELSE "RENEW_TOKEN"
           given == [r EXCEPT !.renewal = closed]
           held == [r EXCEPT !.renewal = latched]
<1>1. r \in Bundle /\ RowOK(row)
  BY DEF BundleOK
<1>2. /\ RowOK(closed) /\ closed.client = row.client
      /\ closed.owner # Nobody => closed = row
      /\ row.status \in GoneToLogin => closed.status \in GoneToLogin
  BY <1>1, FallbackOK DEF GoneToLogin
<1>3. row.status = "RUNNING" <=> row.owner # Nobody
  BY <1>1 DEF RowOK, RowConsistent
<1> HIDE DEF closed
<1>4. CASE refresh /\ row.status = "RUNNING" /\ row.live
  <2>1. ~LatchCloses(closed)
    BY <1>2, <1>4 DEF LatchCloses
  <2>2. ClaimRenewal(r, readable) = r
    BY <1>4, <2>1 DEF ClaimRenewal, closed
  <2> QED BY <2>2, FollowsItself
<1>5. CASE LatchCloses(closed)
  <2>1. ~(refresh /\ row.status = "RUNNING" /\ row.live)
    BY <1>2, <1>5 DEF LatchCloses
  <2>2. ClaimRenewal(r, readable) = held
    BY <1>5, <2>1 DEF ClaimRenewal, closed
  <2>3. closed.status \notin GoneToLogin
    BY <1>5 DEF LatchCloses, Stored, GoneToLogin
  <2>4. pending \in RenewalRow /\ pending.status = "PENDING" /\ pending.owner = closed.owner
        /\ pending.attempts = 0 /\ pending.grace = "OPEN"
    BY <1>2, LimitsOK DEF RowOK, RenewalRow
  <2>5. RowOK(latched) /\ (latched.owner # Nobody => latched = row)
    <3> HIDE DEF pending
    <3> QED BY <1>2, <2>4 DEF RowOK, RowConsistent
  <2> HIDE DEF latched
  <2>6. /\ held \in Bundle /\ held.account = r.account /\ held.seen = r.seen
        /\ held.renewal = latched /\ held.job = r.job
    BY <1>1, <2>5 DEF Bundle, RowOK
  <2> HIDE DEF held
  <2> QED BY <1>2, <1>3, <2>2, <2>3, <2>5, <2>6 DEF MayFollow, BundleOK
<1>6. CASE ~(refresh /\ row.status = "RUNNING" /\ row.live) /\ ~LatchCloses(closed)
  <2>1. ClaimRenewal(r, readable) = Leased(given, type, readable)
    BY <1>6 DEF ClaimRenewal, closed
  <2>2. type \in JobType /\ (type = "RENEW_TOKEN" => closed.status \in GoneToLogin)
    BY <1>2, <1>6 DEF JobType, LatchCloses, Stored, GoneToLogin, closed, Fallback
  <2>3. /\ BundleOK(given) /\ given.account = r.account /\ given.seen = r.seen
        /\ given.renewal = closed /\ given.job = r.job
    BY <1>1, <1>2 DEF Bundle, BundleOK, RowOK
  <2> HIDE DEF given, type
  <2>4. MayFollow(r, given)
    BY <1>2, <1>3, <2>3 DEF MayFollow
  <2>5. MayFollow(given, Leased(given, type, readable))
    BY <2>2, <2>3, LeasedOK
  <2> QED BY <2>1, <2>4, <2>5, FollowsTwice
<1> QED BY <1>4, <1>5, <1>6

-----------------------------------------------------------------------------
(* Steps.                                                                  *)

HandlerState == {"idle", "claimed", "loaded", "alive", "unrotated"}

LEMMA ShapeOK ==
    ASSUME RenewalInvariant, NEW a \in Account
    PROVE  /\ account[a] \in AccountRow /\ account[a].credits \in Nat
           /\ seen[a] \subseteq Syncer /\ based[a] \subseteq Syncer
           /\ RowOK(renewal[a]) /\ job[a] \in JobRow /\ failures[a] \in Counts
           /\ BundleOK(Rows(a))
  BY DEF RenewalInvariant, RowsAreConsistent, TypeOK, RowOK, Counts, BundleOK, Bundle, Rows, AccountRow

\* Every step but the loading of a renewal and the answer of its session
\* starts nothing that may write over a token, and gives nobody a version or
\* a row anew who might.
LEMMA InvariantKept ==
    ASSUME RenewalInvariant,
           account' \in [Account -> AccountRow],
           seen' \in [Account -> SUBSET Syncer],
           renewal' \in [Account -> RenewalRow],
           \A a \in Account : RowConsistent(renewal'[a]),
           job' \in [Account -> JobRow],
           failures' \in [Account -> Counts],
           handler' \in [Syncer -> [Account -> HandlerState]],
           view' \in [Syncer -> [open : BOOLEAN, busy : SUBSET Account]],
           validator' \in [Syncer -> Account \cup {Nobody}],
           based' \in [Account -> SUBSET Syncer],
           \A s \in Syncer, a \in Account :
              /\ handler'[s][a] \in {handler[s][a], "idle", "claimed"}
              /\ view'[s].open => handler'[s][a] = "idle"
              /\ handler'[s][a] \in Running /\ s \in seen'[a] =>
                   s \in seen[a] /\ (s \in based[a] => s \in based'[a])
              /\ handler'[s][a] \in Running /\ renewal'[a].owner = s =>
                   Owned(s, a) /\ renewal'[a].attempts = renewal[a].attempts,
           \A a \in Account : account[a].life # "NONE" => account'[a].life # "NONE"
    PROVE  RenewalInvariant'
<1>1. TypeOK'
  BY DEF TypeOK, HandlerState, Counts
<1>2. RowsAreConsistent'
  BY <1>1 DEF RowsAreConsistent
<1>3. ViewsAreIdle'
  BY DEF ViewsAreIdle
<1>4. LoadedHasToken'
  BY DEF RenewalInvariant, LoadedHasToken, Running
<1>5. ReadersAreBased'
  BY DEF RenewalInvariant, ReadersAreBased, Running
<1>6. AttemptLeft'
  <2> SUFFICES ASSUME NEW s \in Syncer, NEW a \in Account,
                      handler'[s][a] = "unrotated", Owned(s, a)'
               PROVE  renewal'[a].attempts < MaxAttempts
    BY DEF AttemptLeft
  <2>1. handler[s][a] = "unrotated" /\ renewal'[a].owner = s /\ handler'[s][a] \in Running
    BY DEF Owned, Running
  <2>2. Owned(s, a) /\ renewal'[a].attempts = renewal[a].attempts
    BY <2>1
  <2> QED BY <2>1, <2>2 DEF RenewalInvariant, AttemptLeft
<1> QED BY <1>2, <1>3, <1>4, <1>5, <1>6 DEF RenewalInvariant

\* A step that replaces the rows of one account and at most ends coroutines.
Elsewhere(a) ==
    /\ account' = [account EXCEPT ![a] = account'[a]]
    /\ seen' = [seen EXCEPT ![a] = seen'[a]]
    /\ renewal' = [renewal EXCEPT ![a] = renewal'[a]]
    /\ job' = [job EXCEPT ![a] = job'[a]]
    /\ failures' = [failures EXCEPT ![a] = failures'[a]]
    /\ based' = [based EXCEPT ![a] = based'[a]]

Here(a) ==
    /\ account'[a] \in AccountRow
    /\ seen'[a] \subseteq seen[a]
    /\ RowOK(renewal'[a])
    /\ job'[a] \in JobRow
    /\ failures'[a] \in Counts
    /\ based'[a] \subseteq Syncer
    /\ account[a].life # "NONE" => account'[a].life # "NONE"
    /\ renewal'[a].owner # Nobody =>
         renewal'[a].owner = renewal[a].owner /\ renewal'[a].attempts = renewal[a].attempts

Coroutines(a) ==
    /\ handler' \in [Syncer -> [Account -> HandlerState]]
    /\ \A s \in Syncer, b \in Account : handler'[s][b] \in {handler[s][b], "idle"}
    /\ validator' \in [Syncer -> Account \cup {Nobody}]
    /\ view' = view
    /\ \A s \in Syncer : handler'[s][a] \in Running /\ s \in seen'[a] /\ s \in based[a] => s \in based'[a]

LEMMA OneAccount ==
    ASSUME RenewalInvariant, NEW a \in Account, Elsewhere(a), Here(a), Coroutines(a)
    PROVE  RenewalInvariant'
<1>1. TypeOK /\ \A b \in Account : RowOK(renewal[b])
  BY ShapeOK DEF RenewalInvariant, RowsAreConsistent
<1>2. /\ account' \in [Account -> AccountRow]
      /\ seen' \in [Account -> SUBSET Syncer]
      /\ renewal' \in [Account -> RenewalRow]
      /\ job' \in [Account -> JobRow]
      /\ failures' \in [Account -> Counts]
      /\ view' \in [Syncer -> [open : BOOLEAN, busy : SUBSET Account]]
      /\ based' \in [Account -> SUBSET Syncer]
  <2>1. account' \in [Account -> AccountRow] /\ job' \in [Account -> JobRow]
    BY <1>1 DEF TypeOK, Elsewhere, Here
  <2>2. seen' \in [Account -> SUBSET Syncer] /\ based' \in [Account -> SUBSET Syncer]
    BY <1>1 DEF TypeOK, Elsewhere, Here
  <2>3. renewal' \in [Account -> RenewalRow]
    BY <1>1 DEF TypeOK, Elsewhere, Here, RowOK
  <2>4. failures' \in [Account -> Counts] /\ view' \in [Syncer -> [open : BOOLEAN, busy : SUBSET Account]]
    BY <1>1 DEF TypeOK, Elsewhere, Here, Counts, Coroutines
  <2> QED BY <2>1, <2>2, <2>3, <2>4
<1>3. \A b \in Account \ {a} : /\ renewal'[b] = renewal[b] /\ account'[b] = account[b]
                                 /\ seen'[b] = seen[b] /\ based'[b] = based[b]
  BY <1>1 DEF TypeOK, Elsewhere
<1>4. \A b \in Account : RowConsistent(renewal'[b])
  BY <1>1, <1>3 DEF RowOK, Here
<1>5. \A s \in Syncer : s # Nobody
  BY RenewalNulls
<1>6. ASSUME NEW s \in Syncer, NEW b \in Account
      PROVE  /\ handler'[s][b] \in {handler[s][b], "idle", "claimed"}
             /\ view'[s].open => handler'[s][b] = "idle"
             /\ handler'[s][b] \in Running /\ s \in seen'[b] =>
                  s \in seen[b] /\ (s \in based[b] => s \in based'[b])
             /\ handler'[s][b] \in Running /\ renewal'[b].owner = s =>
                  Owned(s, b) /\ renewal'[b].attempts = renewal[b].attempts
  <2>1. view[s].open => handler[s][b] = "idle"
    BY DEF RenewalInvariant, ViewsAreIdle
  <2>2. renewal'[b].owner = s => renewal[b].owner = s /\ renewal'[b].attempts = renewal[b].attempts
    BY <1>3, <1>5 DEF Here
  <2>3. renewal[b].owner = s => renewal[b].status = "RUNNING"
    BY <1>1, <1>5 DEF RowOK, RowConsistent
  <2>4. handler'[s][b] \in Running /\ s \in seen'[b] =>
          s \in seen[b] /\ (s \in based[b] => s \in based'[b])
    BY <1>3 DEF Here, Coroutines
  <2> QED BY <2>1, <2>2, <2>3, <2>4 DEF Owned, Coroutines
<1>7. \A b \in Account : account[b].life # "NONE" => account'[b].life # "NONE"
  BY <1>3 DEF Here
<1> QED BY <1>2, <1>4, <1>6, <1>7, InvariantKept DEF Coroutines

\* What a step promises: the bodies of ReportsAreTimely, QuarantineKept and
\* LoginIsTheFallback.
Promised ==
    \A a \in Account :
      /\ job[a].status = "LEASED" /\ job'[a].status = "VALIDATING" =>
           job[a].current /\ account[a].status # "MANUAL_DISABLED"
      /\ account[a].status = "MANUAL_DISABLED" /\ account'[a].status # "MANUAL_DISABLED" =>
           \/ EnableAccount(a) \/ SubmissionFails(a)
           \/ BalanceRefreshFails(a) /\ account'[a].status = "TOKEN_EXPIRED"
      /\ /\ job[a].status \notin ActiveJob
         /\ job'[a].status = "LEASED" /\ job'[a].type = "RENEW_TOKEN"
         => renewal'[a].status \in GoneToLogin

LEMMA QuietStep ==
    ASSUME \A b \in Account : job'[b].status \in {job[b].status, "FINISHED"},
           \A b \in Account : account[b].status = "MANUAL_DISABLED" =>
                               account'[b].status = "MANUAL_DISABLED"
    PROVE  Promised
  BY DEF Promised, ActiveJob

LEMMA QuietOnOne ==
    ASSUME RenewalInvariant, NEW a \in Account, Elsewhere(a),
           job'[a].status \in {job[a].status, "FINISHED"},
           account[a].status = "MANUAL_DISABLED" => account'[a].status = "MANUAL_DISABLED"
    PROVE  Promised
<1>1. TypeOK
  BY DEF RenewalInvariant, RowsAreConsistent
<1>2. \A b \in Account : job'[b].status \in {job[b].status, "FINISHED"}
  BY <1>1 DEF TypeOK, Elsewhere
<1>3. \A b \in Account : account[b].status = "MANUAL_DISABLED" => account'[b].status = "MANUAL_DISABLED"
  BY <1>1 DEF TypeOK, Elsewhere
<1> QED BY <1>2, <1>3, QuietStep

LEMMA CoroutinesStay ==
    ASSUME RenewalInvariant, NEW a \in Account, UNCHANGED <<handler, view>>,
           validator' \in [Syncer -> Account \cup {Nobody}],
           seen'[a] = {} \/ UNCHANGED based
    PROVE  Coroutines(a)
  BY DEF RenewalInvariant, RowsAreConsistent, TypeOK, Coroutines, HandlerState

LEMMA InitOK == Init => RenewalInvariant
<1> SUFFICES ASSUME Init PROVE RenewalInvariant
  OBVIOUS
<1>1. /\ account \in [Account -> AccountRow] /\ seen \in [Account -> SUBSET Syncer]
      /\ based \in [Account -> SUBSET Syncer]
  BY DEF Init, AccountRow, AccountStatus, Life
<1>2. renewal \in [Account -> RenewalRow] /\ \A a \in Account : RowConsistent(renewal[a])
  <2>1. NoRow \in RenewalRow /\ RowConsistent(NoRow)
    BY NewRowsOK DEF RowOK
  <2> QED BY <2>1 DEF Init
<1>3. job \in [Account -> JobRow]
  BY FinishedOK DEF Init
<1>4. failures \in [Account -> Counts]
  BY RenewalLimits DEF Init, Counts
<1>5. /\ handler \in [Syncer -> [Account -> HandlerState]]
      /\ view \in [Syncer -> [open : BOOLEAN, busy : SUBSET Account]]
      /\ validator \in [Syncer -> Account \cup {Nobody}]
  BY DEF Init, HandlerState, NoView
<1>6. \A s \in Syncer, a \in Account : handler[s][a] = "idle"
  BY DEF Init
<1>7. RowsAreConsistent
  BY <1>1, <1>2, <1>3, <1>4, <1>5 DEF RowsAreConsistent, TypeOK, HandlerState, Counts
<1>8. LoadedHasToken /\ ReadersAreBased /\ AttemptLeft /\ ViewsAreIdle
  BY <1>6 DEF LoadedHasToken, ReadersAreBased, AttemptLeft, ViewsAreIdle, Running
<1> QED BY <1>7, <1>8 DEF RenewalInvariant

-----------------------------------------------------------------------------
(* Login jobs.                                                             *)

LEMMA LoginClaimFollows ==
    ASSUME RenewalInvariant, LoginClaim
    PROVE  \A a \in Account : MayFollow(Rows(a), Rows(a)')
<1> DEFINE Written(final) ==
      /\ account' = [a \in Account |-> final[a].account]
      /\ seen' = [a \in Account |-> final[a].seen]
      /\ renewal' = [a \in Account |-> final[a].renewal]
      /\ job' = [a \in Account |-> final[a].job]
      /\ failures' = [a \in Account |-> final[a].failures]
      /\ UNCHANGED <<handler, view, validator, based>>
<1>1. PICK readable \in SUBSET Account, rows \in {[a \in Account |-> Expire(Rows(a))]} :
        \E served \in Renewals(rows, readable) :
        \E final \in Activations(rows, served, readable) : Written(final)
  BY DEF LoginClaim
<1>2. PICK served \in Renewals(rows, readable) :
        \E final \in Activations(rows, served, readable) : Written(final)
  BY <1>1
<1>3. PICK final \in Activations(rows, served, readable) : Written(final)
  BY <1>2
<1>4. PICK chosen : served = [a \in Account |-> IF a \in chosen
                                  THEN ClaimRenewal(rows[a], a \in readable) ELSE rows[a]]
  BY <1>3 DEF Renewals
<1>5. PICK active : final = [a \in Account |-> IF a \in active
                                  THEN Leased(served[a], "ACTIVATE_NEW", a \in readable) ELSE served[a]]
  BY <1>3 DEF Activations
<1> SUFFICES ASSUME NEW a \in Account PROVE MayFollow(Rows(a), Rows(a)')
  OBVIOUS
<1>6. (a \in readable) \in BOOLEAN /\ "ACTIVATE_NEW" \in JobType
  BY DEF JobType
<1>7. MayFollow(Rows(a), rows[a])
  BY <1>1, ShapeOK, ExpireOK
<1>8. MayFollow(rows[a], served[a])
  <2>1. BundleOK(rows[a])
    BY <1>7 DEF MayFollow
  <2>2. CASE a \in chosen
    BY <1>4, <1>6, <2>1, <2>2, ClaimRenewalOK
  <2>3. CASE a \notin chosen
    BY <1>4, <2>1, <2>3, FollowsItself
  <2> QED BY <2>2, <2>3
<1>9. MayFollow(served[a], final[a])
  <2>1. BundleOK(served[a])
    BY <1>8 DEF MayFollow
  <2>2. CASE a \in active
    BY <1>5, <1>6, <2>1, <2>2, LeasedOK
  <2>3. CASE a \notin active
    BY <1>5, <2>1, <2>3, FollowsItself
  <2> QED BY <2>2, <2>3
<1>10. MayFollow(Rows(a), final[a])
  BY <1>7, <1>8, <1>9, FollowsTwice
<1>11. final[a] = Rows(a)'
  <2>1. final[a] \in Bundle
    BY <1>10 DEF MayFollow, BundleOK
  <2>2. final[a] = [account |-> final[a].account, seen |-> final[a].seen, renewal |-> final[a].renewal,
                    job |-> final[a].job, failures |-> final[a].failures]
    BY <2>1 DEF Bundle
  <2> QED BY <1>3, <2>2 DEF Rows
<1> QED BY <1>10, <1>11

LEMMA LoginClaimOK ==
    ASSUME RenewalInvariant, LoginClaim PROVE RenewalInvariant' /\ Promised
<1>1. \A a \in Account :
        /\ BundleOK(Rows(a)') /\ MayFollow(Rows(a), Rows(a)')
        /\ Rows(a)'.account = account'[a] /\ Rows(a)'.seen = seen'[a] /\ Rows(a)'.renewal = renewal'[a]
        /\ Rows(a)'.job = job'[a] /\ Rows(a)'.failures = failures'[a]
        /\ Rows(a).account = account[a] /\ Rows(a).seen = seen[a] /\ Rows(a).renewal = renewal[a]
        /\ Rows(a).job = job[a]
  BY LoginClaimFollows DEF MayFollow, Rows
<1>2. UNCHANGED <<handler, view, validator, based>>
  BY DEF LoginClaim
<1>3. \A a \in Account : /\ account'[a] \in AccountRow /\ seen'[a] \in SUBSET Syncer
                          /\ renewal'[a] \in RenewalRow /\ RowConsistent(renewal'[a])
                          /\ job'[a] \in JobRow /\ failures'[a] \in Counts
  BY <1>1 DEF BundleOK, Bundle, RowOK
<1>4. /\ account' = [a \in Account |-> account'[a]] /\ seen' = [a \in Account |-> seen'[a]]
      /\ renewal' = [a \in Account |-> renewal'[a]] /\ job' = [a \in Account |-> job'[a]]
      /\ failures' = [a \in Account |-> failures'[a]]
  BY DEF LoginClaim
<1>5. /\ account' \in [Account -> AccountRow] /\ seen' \in [Account -> SUBSET Syncer]
      /\ renewal' \in [Account -> RenewalRow] /\ job' \in [Account -> JobRow]
      /\ failures' \in [Account -> Counts]
  BY <1>3, <1>4
<1>6. TypeOK
  BY DEF RenewalInvariant, RowsAreConsistent
<1>7. ASSUME NEW s \in Syncer, NEW a \in Account
      PROVE  /\ handler'[s][a] \in {handler[s][a], "idle", "claimed"}
             /\ view'[s].open => handler'[s][a] = "idle"
             /\ handler'[s][a] \in Running /\ s \in seen'[a] =>
                  s \in seen[a] /\ (s \in based[a] => s \in based'[a])
             /\ handler'[s][a] \in Running /\ renewal'[a].owner = s =>
                  Owned(s, a) /\ renewal'[a].attempts = renewal[a].attempts
  <2>1. seen'[a] \subseteq seen[a]
        /\ (renewal'[a].owner # Nobody => /\ renewal[a].status = "RUNNING"
                                          /\ renewal'[a].owner = renewal[a].owner
                                          /\ renewal'[a].attempts = renewal[a].attempts)
    BY <1>1 DEF MayFollow
  <2>2. view[s].open => handler[s][a] = "idle"
    BY DEF RenewalInvariant, ViewsAreIdle
  <2>3. s # Nobody
    BY RenewalNulls
  <2> QED BY <1>2, <2>1, <2>2, <2>3 DEF Owned
<1>8. \A a \in Account : account[a].life # "NONE" => account'[a].life # "NONE"
  BY <1>1 DEF MayFollow
<1>9. RenewalInvariant'
  BY <1>2, <1>3, <1>5, <1>6, <1>7, <1>8, InvariantKept DEF TypeOK, HandlerState
<1>10. Promised
  <2>1. \A a \in Account :
          /\ account[a].status = "MANUAL_DISABLED" => account'[a].status = "MANUAL_DISABLED"
          /\ \/ job'[a] = job[a]
             \/ job'[a].status = "FINISHED"
             \/ job'[a].status = "LEASED"
                /\ (job'[a].type = "RENEW_TOKEN" => renewal'[a].status \in GoneToLogin)
    BY <1>1 DEF MayFollow
  <2> QED BY <2>1 DEF Promised, ActiveJob
<1> QED BY <1>9, <1>10

LEMMA WithTokenOK ==
    ASSUME NEW acc \in AccountRow, NEW status \in AccountStatus, NEW life \in Life,
           NEW balance \in Balances \cup {Nobody}
    PROVE  /\ WithToken(acc, status, life, balance) \in AccountRow
           /\ WithToken(acc, status, life, balance).status = status
           /\ WithToken(acc, status, life, balance).life = life
<1> DEFINE synced == acc.synced \/ balance # Nobody
           credits == IF balance = Nobody THEN acc.credits ELSE balance
<1>1. synced \in BOOLEAN /\ credits \in Nat
  BY RenewalLimits DEF AccountRow
<1>2. WithToken(acc, status, life, balance) =
        [acc EXCEPT !.status = status, !.life = life, !.unauthorized = FALSE,
                    !.synced = synced, !.credits = credits]
  BY Zenon DEF WithToken
<1> HIDE DEF synced, credits
<1> QED BY <1>1, <1>2 DEF AccountRow

LEMMA ReportOK ==
    ASSUME RenewalInvariant, NEW a \in Account, ReportLoginToken(a)
    PROVE  RenewalInvariant' /\ Promised
<1>1. PICK row \in {NoRow, NewRow}, balance \in Balances \cup {Nobody} :
        /\ account' = [account EXCEPT ![a] = WithToken(@, "PENDING_VALIDATION", "FRESH", balance)]
        /\ renewal' = [renewal EXCEPT ![a] = row]
  BY DEF ReportLoginToken
<1> DEFINE acc == WithToken(account[a], "PENDING_VALIDATION", "FRESH", balance)
           jobrow == [job[a] EXCEPT !.status = "VALIDATING", !.live = TRUE, !.current = FALSE]
<1>2. acc \in AccountRow /\ acc.life = "FRESH" /\ acc.status = "PENDING_VALIDATION"
  BY ShapeOK, WithTokenOK DEF AccountStatus, Life
<1>3. RowOK(row) /\ row.owner = Nobody
  BY NewRowsOK
<1>4. jobrow \in JobRow /\ jobrow.status = "VALIDATING"
  BY ShapeOK DEF JobRow, ActiveJob
<1>5. /\ account' = [account EXCEPT ![a] = acc] /\ job' = [job EXCEPT ![a] = jobrow]
      /\ seen' = [seen EXCEPT ![a] = {}] /\ based' = [based EXCEPT ![a] = {}]
      /\ UNCHANGED <<failures, handler, view, validator>>
  BY <1>1 DEF ReportLoginToken, Bump
<1>6. job[a].current /\ account[a].status # "MANUAL_DISABLED" /\ job[a].status = "LEASED"
  BY DEF ReportLoginToken, ReportAccepted, LeaseHeld
<1>7. TypeOK
  BY DEF RenewalInvariant, RowsAreConsistent
<1> HIDE DEF acc, jobrow
<1>8. /\ Elsewhere(a) /\ account'[a] = acc /\ renewal'[a] = row /\ job'[a] = jobrow
      /\ seen'[a] = {} /\ based'[a] = {} /\ failures'[a] = failures[a]
  BY <1>1, <1>5, <1>7 DEF TypeOK, Elsewhere
<1>9. Here(a)
  BY <1>2, <1>3, <1>4, <1>8, ShapeOK DEF Here
<1>10. Coroutines(a)
  BY <1>5, <1>7, <1>8, CoroutinesStay DEF TypeOK
<1>11. Promised
  <2>1. \A b \in Account \ {a} : job'[b] = job[b] /\ account'[b] = account[b]
    BY <1>5, <1>7 DEF TypeOK
  <2> QED BY <1>4, <1>6, <1>8, <2>1 DEF Promised, ActiveJob
<1> QED BY <1>8, <1>9, <1>10, <1>11, OneAccount

LEMMA FailLoginOK ==
    ASSUME RenewalInvariant, NEW a \in Account, FailLoginJob(a)
    PROVE  RenewalInvariant' /\ Promised
<1>1. PICK class \in ErrorClass, retryable \in BOOLEAN :
         LET r == LoginFailed(Rows(a), class, retryable)
         IN /\ account' = [account EXCEPT ![a] = r.account]
            /\ renewal' = [renewal EXCEPT ![a] = r.renewal]
            /\ job' = [job EXCEPT ![a] = r.job]
            /\ failures' = [failures EXCEPT ![a] = r.failures]
  BY DEF FailLoginJob
<1> DEFINE r == LoginFailed(Rows(a), class, retryable)
<1>2. MayFollow(Rows(a), r) /\ r.job.status = "FINISHED"
  BY ShapeOK, LoginFailedOK
<1>3. /\ account' = [account EXCEPT ![a] = r.account] /\ renewal' = [renewal EXCEPT ![a] = r.renewal]
      /\ job' = [job EXCEPT ![a] = r.job] /\ failures' = [failures EXCEPT ![a] = r.failures]
      /\ seen' = [seen EXCEPT ![a] = {}]
      /\ UNCHANGED <<handler, view, validator, based>>
  BY <1>1 DEF FailLoginJob, Bump
<1> HIDE DEF r
<1>4. /\ r.account \in AccountRow /\ RowOK(r.renewal) /\ r.job \in JobRow /\ r.failures \in Counts
      /\ r.account.life = account[a].life
      /\ account[a].status = "MANUAL_DISABLED" => r.account.status = "MANUAL_DISABLED"
      /\ r.renewal.owner # Nobody => r.renewal.owner = renewal[a].owner
                                     /\ r.renewal.attempts = renewal[a].attempts
  BY <1>2 DEF MayFollow, BundleOK, Bundle, Rows
<1>5. TypeOK
  BY DEF RenewalInvariant, RowsAreConsistent
<1>6. /\ Elsewhere(a) /\ account'[a] = r.account /\ renewal'[a] = r.renewal /\ job'[a] = r.job
      /\ seen'[a] = {} /\ based'[a] = based[a] /\ failures'[a] = r.failures
  BY <1>3, <1>5 DEF TypeOK, Elsewhere
<1>7. Here(a)
  BY <1>4, <1>6, ShapeOK DEF Here
<1>8. Coroutines(a)
  BY <1>3, <1>5, <1>6, CoroutinesStay DEF TypeOK
<1>9. Promised
  BY <1>2, <1>4, <1>6, QuietOnOne
<1> QED BY <1>6, <1>7, <1>8, <1>9, OneAccount

-----------------------------------------------------------------------------
(* The task pipeline, operators and time.                                  *)

\* Write gives its account a row of its own, and a new version.
LEMMA WriteOK ==
    ASSUME RenewalInvariant, NEW a \in Account, NEW acc \in AccountRow, Write(a, acc),
           account[a].life # "NONE" => acc.life # "NONE"
    PROVE  /\ RenewalInvariant'
           /\ (\/ account[a].status = "MANUAL_DISABLED" => acc.status = "MANUAL_DISABLED"
               \/ EnableAccount(a)
               \/ SubmissionFails(a)
               \/ BalanceRefreshFails(a) /\ acc.status = "TOKEN_EXPIRED") => Promised
<1>1. TypeOK
  BY DEF RenewalInvariant, RowsAreConsistent
<1>2. /\ account' = [account EXCEPT ![a] = acc]
      /\ renewal' = [renewal EXCEPT ![a] = Outdated(renewal[a])]
      /\ seen' = [seen EXCEPT ![a] = {}]
      /\ UNCHANGED <<job, failures, handler, view, validator, based>>
  BY DEF Write, Bump
<1>3. /\ Elsewhere(a) /\ account'[a] = acc /\ renewal'[a] = Outdated(renewal[a])
      /\ job'[a] = job[a] /\ seen'[a] = {} /\ based'[a] = based[a] /\ failures'[a] = failures[a]
  BY <1>1, <1>2 DEF TypeOK, Elsewhere
<1>4. /\ RowOK(Outdated(renewal[a])) /\ Outdated(renewal[a]).owner = renewal[a].owner
      /\ Outdated(renewal[a]).attempts = renewal[a].attempts
  BY ShapeOK, OutdatedOK
<1>5. Here(a)
  BY <1>3, <1>4, ShapeOK DEF Here
<1>6. Coroutines(a)
  BY <1>1, <1>2, <1>3, CoroutinesStay DEF TypeOK
<1>7. ASSUME \/ account[a].status = "MANUAL_DISABLED" => acc.status = "MANUAL_DISABLED"
             \/ EnableAccount(a)
             \/ SubmissionFails(a)
             \/ BalanceRefreshFails(a) /\ acc.status = "TOKEN_EXPIRED"
      PROVE  Promised
  <2>1. \A b \in Account \ {a} : account'[b] = account[b]
    BY <1>1, <1>2 DEF TypeOK
  <2>2. \A b \in Account : job'[b] = job[b]
    BY <1>2
  <2> QED BY <1>3, <1>7, <2>1, <2>2 DEF Promised, ActiveJob
<1> QED BY <1>3, <1>5, <1>6, <1>7, OneAccount

LEMMA TaskOK ==
    ASSUME RenewalInvariant, NEW a \in Account, TaskStep(a)
    PROVE  RenewalInvariant' /\ Promised
<1>1. account[a] \in AccountRow
  BY ShapeOK
<1>2. CASE TaskCounts(a)
  BY <1>1, <1>2, WriteOK DEF TaskCounts
<1>3. CASE SubmissionFails(a)
  <2>1. PICK status \in {account[a].status, "TOKEN_EXPIRED", "LOW_BALANCE_DISABLED", "MANUAL_DISABLED"},
             unauthorized \in BOOLEAN :
          Write(a, [account[a] EXCEPT !.status = status, !.unauthorized = unauthorized])
    BY <1>3 DEF SubmissionFails
  <2> DEFINE acc == [account[a] EXCEPT !.status = status, !.unauthorized = unauthorized]
  <2>2. acc \in AccountRow /\ acc.life = account[a].life
    BY <1>1 DEF AccountRow, AccountStatus
  <2> HIDE DEF acc
  <2> QED BY <1>3, <2>1, <2>2, WriteOK DEF acc
<1>4. CASE TaskSettles(a)
  <2>1. PICK left \in 0 .. account[a].credits :
          Write(a, [account[a] EXCEPT !.credits = left,
                     !.status = IF left < LowBalance /\ @ # "MANUAL_DISABLED"
                                THEN "LOW_BALANCE_DISABLED" ELSE @])
    BY <1>4 DEF TaskSettles
  <2> DEFINE status == IF left < LowBalance /\ account[a].status # "MANUAL_DISABLED"
                       THEN "LOW_BALANCE_DISABLED" ELSE account[a].status
             acc == [account[a] EXCEPT !.credits = left, !.status = status]
  <2>2. status \in AccountStatus /\ (account[a].status = "MANUAL_DISABLED" => status = "MANUAL_DISABLED")
    BY <1>1 DEF AccountRow, AccountStatus
  <2>3. Write(a, acc)
    BY <2>1
  <2>4. left \in Nat
    BY <1>1 DEF AccountRow
  <2> HIDE DEF status
  <2>5. acc \in AccountRow /\ acc.life = account[a].life /\ acc.status = status
    BY <1>1, <2>2, <2>4 DEF AccountRow
  <2> HIDE DEF acc
  <2> QED BY <2>2, <2>3, <2>5, WriteOK
<1>5. CASE TaskReadsBalance(a)
  <2>1. PICK balance \in Balances :
          Write(a, [account[a] EXCEPT !.credits = balance, !.synced = TRUE, !.unauthorized = FALSE,
                     !.status = IF balance < LowBalance THEN "LOW_BALANCE_DISABLED" ELSE @])
    BY <1>5 DEF TaskReadsBalance
  <2> DEFINE status == IF balance < LowBalance THEN "LOW_BALANCE_DISABLED" ELSE account[a].status
             acc == [account[a] EXCEPT !.credits = balance, !.synced = TRUE, !.unauthorized = FALSE,
                                       !.status = status]
  <2>2. status \in AccountStatus /\ balance \in Nat /\ account[a].status # "MANUAL_DISABLED"
    BY <1>1, <1>5, RenewalLimits DEF AccountRow, AccountStatus, TaskReadsBalance
  <2>3. Write(a, acc)
    BY <2>1
  <2> HIDE DEF status
  <2>4. acc \in AccountRow /\ acc.life = account[a].life
    BY <1>1, <2>2 DEF AccountRow
  <2> HIDE DEF acc
  <2> QED BY <2>2, <2>3, <2>4, WriteOK
<1>6. CASE PollFails(a)
  <2>1. PICK suspended \in BOOLEAN :
          Write(a, [account[a] EXCEPT
            !.status = IF suspended \/ @ = "MANUAL_DISABLED" THEN "MANUAL_DISABLED"
                                                            ELSE "TOKEN_EXPIRED",
            !.unauthorized = ~suspended])
    BY <1>6 DEF PollFails
  <2> DEFINE status == IF suspended \/ account[a].status = "MANUAL_DISABLED" THEN "MANUAL_DISABLED"
                       ELSE "TOKEN_EXPIRED"
             acc == [account[a] EXCEPT !.status = status, !.unauthorized = ~suspended]
  <2>2. status \in AccountStatus /\ (account[a].status = "MANUAL_DISABLED" => status = "MANUAL_DISABLED")
    BY DEF AccountStatus
  <2>3. Write(a, acc)
    BY <2>1
  <2> HIDE DEF status
  <2>4. acc \in AccountRow /\ acc.life = account[a].life /\ acc.status = status
    BY <1>1, <2>2 DEF AccountRow
  <2> HIDE DEF acc
  <2> QED BY <2>2, <2>3, <2>4, WriteOK
<1> QED BY <1>2, <1>3, <1>4, <1>5, <1>6 DEF TaskStep

LEMMA StoreTokenOK ==
    ASSUME RenewalInvariant, NEW a \in Account, NEW row, RowOK(row), row.owner = Nobody,
           NEW acc \in AccountRow, acc.life # "NONE",
           account[a].status = "MANUAL_DISABLED" => acc.status = "MANUAL_DISABLED",
           StoreToken(a, acc, row)
    PROVE  RenewalInvariant' /\ Promised
<1>1. TypeOK
  BY DEF RenewalInvariant, RowsAreConsistent
<1> DEFINE jobrow == Superseded(job[a])
<1>5. jobrow \in JobRow /\ jobrow.status = job[a].status
  BY ShapeOK DEF JobRow, Superseded
<1>6. /\ account' = [account EXCEPT ![a] = acc] /\ renewal' = [renewal EXCEPT ![a] = row]
      /\ job' = [job EXCEPT ![a] = jobrow]
      /\ seen' = [seen EXCEPT ![a] = {}] /\ based' = [based EXCEPT ![a] = {}]
      /\ UNCHANGED <<failures, handler, view, validator>>
  BY DEF StoreToken, Bump
<1> HIDE DEF jobrow
<1>7. /\ Elsewhere(a) /\ account'[a] = acc /\ renewal'[a] = row /\ job'[a] = jobrow
      /\ seen'[a] = {} /\ based'[a] = {} /\ failures'[a] = failures[a]
  BY <1>1, <1>6 DEF TypeOK, Elsewhere
<1>8. Here(a)
  BY <1>5, <1>7, ShapeOK DEF Here
<1>9. Coroutines(a)
  BY <1>1, <1>6, <1>7, CoroutinesStay DEF TypeOK
<1>10. Promised
  BY <1>5, <1>7, QuietOnOne
<1> QED BY <1>7, <1>8, <1>9, <1>10, OneAccount

\* The row of an account whose new token awaits validation.
LEMMA AwaitingOK ==
    ASSUME NEW acc \in AccountRow, NEW life \in {"FRESH", "DUE"},
           NEW balance \in Balances \cup {Nobody}
    PROVE  /\ Awaiting(acc, life, balance) \in AccountRow
           /\ Awaiting(acc, life, balance).life # "NONE"
           /\ (acc.status = "MANUAL_DISABLED" =>
                Awaiting(acc, life, balance).status = "MANUAL_DISABLED")
<1> DEFINE status == IF acc.status = "MANUAL_DISABLED" THEN "MANUAL_DISABLED"
                     ELSE "PENDING_VALIDATION"
<1>1. status \in AccountStatus /\ life \in Life
      /\ (acc.status = "MANUAL_DISABLED" => status = "MANUAL_DISABLED")
  BY DEF AccountStatus, Life
<1>2. Awaiting(acc, life, balance) = WithToken(acc, status, life, balance)
  BY DEF Awaiting
<1> HIDE DEF status
<1> QED BY <1>1, <1>2, WithTokenOK

LEMMA StatusForBalanceOK ==
    ASSUME NEW status \in AccountStatus, NEW life, NEW balance, NEW near
    PROVE  /\ StatusForBalance(status, life, balance, near) \in AccountStatus
           /\ (status = "MANUAL_DISABLED" =>
                StatusForBalance(status, life, balance, near) = "MANUAL_DISABLED")
<1>1. CASE status = "MANUAL_DISABLED"
  BY <1>1 DEF StatusForBalance, AccountStatus
<1>2. CASE status # "MANUAL_DISABLED"
  BY <1>2 DEF StatusForBalance, AccountStatus
<1> QED BY <1>1, <1>2

LEMMA OperatorOK ==
    ASSUME RenewalInvariant, NEW a \in Account, OperatorStep(a)
    PROVE  RenewalInvariant' /\ Promised
<1>1. account[a] \in AccountRow /\ RowOK(renewal[a])
  BY ShapeOK
<1>2. CASE SyncAccount(a)
  BY <1>1, <1>2, NewRowsOK, AwaitingOK, StoreTokenOK DEF SyncAccount
<1>3. CASE UpdateAccountToken(a)
  <2> DEFINE row == IF Stored(renewal[a]) THEN Reset(renewal[a]) ELSE NoRow
  <2>1. RowOK(row) /\ row.owner = Nobody
    BY <1>1, NewRowsOK, ResetOK
  <2>2. PICK life \in {"FRESH", "DUE"} : StoreToken(a, Awaiting(account[a], life, Nobody), row)
    BY <1>3 DEF UpdateAccountToken
  <2> HIDE DEF row
  <2> QED BY <1>1, <2>1, <2>2, AwaitingOK, StoreTokenOK
<1>6. CASE ImportSession(a)
  <2>1. PICK life \in {"FRESH", "DUE"}, balance \in Balances, near \in BOOLEAN :
          StoreToken(a, WithToken(account[a], StatusForBalance(account[a].status, life, balance, near),
                                  life, balance), NewRow)
    BY <1>6 DEF ImportSession
  <2> DEFINE status == StatusForBalance(account[a].status, life, balance, near)
             acc == WithToken(account[a], status, life, balance)
  <2>2. account[a].status \in AccountStatus /\ life \in Life
    BY <1>1 DEF AccountRow, Life
  <2>3. status \in AccountStatus /\ (account[a].status = "MANUAL_DISABLED" => status = "MANUAL_DISABLED")
    BY <2>2, StatusForBalanceOK
  <2>4. StoreToken(a, acc, NewRow)
    BY <2>1
  <2> HIDE DEF status
  <2>5. acc \in AccountRow /\ acc.status = status /\ acc.life = life
    BY <1>1, <2>2, <2>3, WithTokenOK
  <2> HIDE DEF acc
  <2> QED BY <2>3, <2>4, <2>5, NewRowsOK, StoreTokenOK
<1>4. CASE DisableAccount(a)
  <2> DEFINE acc == [account[a] EXCEPT !.status = "MANUAL_DISABLED"]
  <2>1. acc \in AccountRow /\ acc.life = account[a].life /\ acc.status = "MANUAL_DISABLED"
    BY <1>1 DEF AccountRow, AccountStatus
  <2>2. Write(a, acc)
    BY <1>4 DEF DisableAccount
  <2> HIDE DEF acc
  <2> QED BY <2>1, <2>2, WriteOK
<1>5. CASE EnableAccount(a)
  <2> DEFINE acc == [account[a] EXCEPT !.status = "PENDING_VALIDATION"]
  <2>1. acc \in AccountRow /\ acc.life = account[a].life
    BY <1>1 DEF AccountRow, AccountStatus
  <2>2. Write(a, acc)
    BY <1>5 DEF EnableAccount
  <2> HIDE DEF acc
  <2> QED BY <1>5, <2>1, <2>2, WriteOK
<1> QED BY <1>2, <1>3, <1>4, <1>5, <1>6 DEF OperatorStep

\* A balance that an operator refreshed or imported.
LEMMA BalanceOK ==
    ASSUME RenewalInvariant, NEW a \in Account, BalanceStep(a) \/ ImportLedger(a)
    PROVE  RenewalInvariant' /\ Promised
<1>1. account[a] \in AccountRow
  BY ShapeOK
<1>2. CASE Write(a, account[a])
  BY <1>1, <1>2, WriteOK
<1>3. CASE \E balance \in Balances, checked \in BOOLEAN :
             Write(a, [account[a] EXCEPT !.credits = balance, !.synced = checked])
  <2>1. PICK balance \in Balances, checked \in BOOLEAN :
          Write(a, [account[a] EXCEPT !.credits = balance, !.synced = checked])
    BY <1>3
  <2> DEFINE acc == [account[a] EXCEPT !.credits = balance, !.synced = checked]
  <2>2. acc \in AccountRow /\ acc.life = account[a].life /\ acc.status = account[a].status
    BY <1>1, RenewalLimits DEF AccountRow
  <2> HIDE DEF acc
  <2> QED BY <2>1, <2>2, WriteOK DEF acc
<1>4. CASE BalanceRefreshed(a)
  <2>1. PICK balance \in Balances, near \in BOOLEAN :
          Write(a, [account[a] EXCEPT
            !.status = StatusForBalance(@, account[a].life, balance, near),
            !.credits = balance, !.synced = TRUE, !.unauthorized = FALSE])
    BY <1>4 DEF BalanceRefreshed
  <2> DEFINE status == StatusForBalance(account[a].status, account[a].life, balance, near)
             acc == [account[a] EXCEPT !.status = status, !.credits = balance, !.synced = TRUE,
                                       !.unauthorized = FALSE]
  <2>2. account[a].status \in AccountStatus /\ balance \in Nat
    BY <1>1, RenewalLimits DEF AccountRow
  <2>3. status \in AccountStatus /\ (account[a].status = "MANUAL_DISABLED" => status = "MANUAL_DISABLED")
    BY <2>2, StatusForBalanceOK
  <2>4. Write(a, acc)
    BY <2>1
  <2> HIDE DEF status
  <2>5. acc \in AccountRow /\ acc.life = account[a].life /\ acc.status = status
    BY <1>1, <2>2, <2>3 DEF AccountRow
  <2> HIDE DEF acc
  <2> QED BY <2>3, <2>4, <2>5, WriteOK
<1>5. CASE BalanceRefreshFails(a)
  <2>1. PICK refused \in BOOLEAN, unauthorized \in BOOLEAN :
          Write(a, [StampedUnread(account[a]) EXCEPT
            !.status = IF refused THEN "TOKEN_EXPIRED" ELSE @, !.unauthorized = unauthorized])
    BY <1>5 DEF BalanceRefreshFails
  <2> DEFINE status == IF refused THEN "TOKEN_EXPIRED" ELSE account[a].status
             acc == [account[a] EXCEPT !.synced = TRUE, !.status = status,
                                       !.unauthorized = unauthorized]
  <2>2. status \in AccountStatus /\ status \in {"TOKEN_EXPIRED", account[a].status}
    BY <1>1 DEF AccountStatus, AccountRow
  <2>3. Write(a, acc)
    BY <1>1, <2>1 DEF StampedUnread, AccountRow
  <2> HIDE DEF status
  <2>4. acc \in AccountRow /\ acc.life = account[a].life /\ acc.status = status
    BY <1>1, <2>2 DEF AccountRow
  <2> HIDE DEF acc
  <2>5. \/ account[a].status = "MANUAL_DISABLED" => acc.status = "MANUAL_DISABLED"
        \/ BalanceRefreshFails(a) /\ acc.status = "TOKEN_EXPIRED"
    BY <1>5, <2>2, <2>4
  <2> QED BY <2>3, <2>4, <2>5, WriteOK
<1> QED BY <1>2, <1>3, <1>4, <1>5 DEF BalanceStep, ImportLedger

\* Time changes one row, and nobody's reading of it.
LEMMA TimeOK ==
    ASSUME RenewalInvariant, NEW a \in Account, Elapse,
           NEW acc \in AccountRow, account' = [account EXCEPT ![a] = acc],
           acc.status = account[a].status, account[a].life # "NONE" => acc.life # "NONE",
           NEW row, RowOK(row), renewal' = [renewal EXCEPT ![a] = row],
           row.owner = renewal[a].owner, row.attempts = renewal[a].attempts,
           NEW jobrow \in JobRow, job' = [job EXCEPT ![a] = jobrow], jobrow.status = job[a].status
    PROVE  RenewalInvariant' /\ Promised
<1>1. TypeOK
  BY DEF RenewalInvariant, RowsAreConsistent
<1>2. UNCHANGED <<seen, failures, handler, view, validator, based>>
  BY DEF Elapse
<1>3. /\ Elsewhere(a) /\ account'[a] = acc /\ renewal'[a] = row /\ job'[a] = jobrow
      /\ seen'[a] = seen[a] /\ based'[a] = based[a] /\ failures'[a] = failures[a]
  BY <1>1, <1>2 DEF TypeOK, Elsewhere
<1>4. Here(a)
  BY <1>3, ShapeOK DEF Here
<1>5. Coroutines(a)
  BY <1>1, <1>2, CoroutinesStay DEF TypeOK
<1>6. Promised
  BY <1>3, QuietOnOne
<1> QED BY <1>3, <1>4, <1>5, <1>6, OneAccount

LEMMA RenewalTimeOK ==
    ASSUME RenewalInvariant, NEW a \in Account, NEW row, RowOK(row),
           RenewalTimePasses(a, row),
           row.owner = renewal[a].owner, row.attempts = renewal[a].attempts
    PROVE  RenewalInvariant' /\ Promised
<1>1. /\ account' = [account EXCEPT ![a] = account[a]] /\ renewal' = [renewal EXCEPT ![a] = row]
      /\ job' = [job EXCEPT ![a] = job[a]] /\ Elapse
  BY DEF RenewalTimePasses, RenewalInvariant, RowsAreConsistent, TypeOK
<1>2. account[a] \in AccountRow /\ job[a] \in JobRow
  BY ShapeOK
<1> QED BY <1>1, <1>2, TimeOK

LEMMA TickOK ==
    ASSUME RenewalInvariant, NEW a \in Account, Tick(a)
    PROVE  RenewalInvariant' /\ Promised
<1>1. account[a] \in AccountRow /\ job[a] \in JobRow /\ RowOK(renewal[a]) /\ TypeOK
  BY ShapeOK DEF RenewalInvariant, RowsAreConsistent
<1>2. /\ account = [account EXCEPT ![a] = account[a]] /\ renewal = [renewal EXCEPT ![a] = renewal[a]]
      /\ job = [job EXCEPT ![a] = job[a]]
  BY <1>1 DEF TypeOK
<1>3. CASE TokenAges(a)
  <2> DEFINE life == IF account[a].life = "FRESH" THEN "DUE" ELSE "EXPIRED"
             acc == [account[a] EXCEPT !.life = life]
  <2>1. life \in Life /\ life # "NONE"
    BY DEF Life
  <2>2. account' = [account EXCEPT ![a] = acc] /\ Elapse /\ UNCHANGED <<renewal, job>>
    BY <1>1, <1>3 DEF TokenAges, TypeOK
  <2> HIDE DEF life
  <2>3. acc \in AccountRow /\ acc.life = life /\ acc.status = account[a].status
    BY <1>1, <2>1 DEF AccountRow
  <2>4. renewal' = [renewal EXCEPT ![a] = renewal[a]] /\ job' = [job EXCEPT ![a] = job[a]]
    BY <1>2, <2>2
  <2> HIDE DEF acc
  <2> QED BY <1>1, <2>1, <2>2, <2>3, <2>4, TimeOK
<1>4. CASE RenewalLeaseEnds(a)
  <2> DEFINE row == [renewal[a] EXCEPT !.live = FALSE]
  <2>1. RowOK(row) /\ row.owner = renewal[a].owner /\ row.attempts = renewal[a].attempts
    BY <1>1 DEF RowOK, RowConsistent, RenewalRow
  <2>2. RenewalTimePasses(a, row)
    BY <1>4 DEF RenewalLeaseEnds
  <2> HIDE DEF row
  <2> QED BY <2>1, <2>2, RenewalTimeOK
<1>5. CASE RetryDue(a)
  <2> DEFINE row == [renewal[a] EXCEPT !.ready = TRUE]
  <2>1. RowOK(row) /\ row.owner = renewal[a].owner /\ row.attempts = renewal[a].attempts
    BY <1>1 DEF RowOK, RowConsistent, RenewalRow
  <2>2. RenewalTimePasses(a, row)
    BY <1>5 DEF RetryDue
  <2> HIDE DEF row
  <2> QED BY <2>1, <2>2, RenewalTimeOK
<1>6. CASE GraceEnds(a)
  <2> DEFINE row == [renewal[a] EXCEPT !.grace = "OVER"]
  <2>1. RowOK(row) /\ row.owner = renewal[a].owner /\ row.attempts = renewal[a].attempts
    BY <1>1 DEF RowOK, RowConsistent, RenewalRow
  <2>2. RenewalTimePasses(a, row)
    BY <1>6 DEF GraceEnds
  <2> HIDE DEF row
  <2> QED BY <2>1, <2>2, RenewalTimeOK
<1>7. CASE SessionAges(a)
  <2>1. PICK client \in BOOLEAN, refreshed \in {"AGED", "STALE"} :
          RenewalTimePasses(a, [renewal[a] EXCEPT !.client = client, !.refreshed = refreshed])
    BY <1>7 DEF SessionAges
  <2> DEFINE row == [renewal[a] EXCEPT !.client = client, !.refreshed = refreshed]
  <2>2. RowOK(row) /\ row.owner = renewal[a].owner /\ row.attempts = renewal[a].attempts
    BY <1>1 DEF RowOK, RowConsistent, RenewalRow
  <2>3. RenewalTimePasses(a, row)
    BY <2>1
  <2> HIDE DEF row
  <2> QED BY <2>2, <2>3, RenewalTimeOK
<1>8. CASE JobDeadline(a) \/ BackoffEnds(a)
  <2>1. PICK jobrow \in {[job[a] EXCEPT !.live = FALSE], [job[a] EXCEPT !.blocked = FALSE]} :
          job' = [job EXCEPT ![a] = jobrow] /\ Elapse /\ UNCHANGED <<account, renewal>>
    BY <1>1, <1>8 DEF JobDeadline, BackoffEnds, TypeOK
  <2>2. jobrow \in JobRow /\ jobrow.status = job[a].status
    BY <1>1 DEF JobRow
  <2>3. account' = [account EXCEPT ![a] = account[a]] /\ renewal' = [renewal EXCEPT ![a] = renewal[a]]
    BY <1>2, <2>1
  <2> QED BY <1>1, <2>1, <2>2, <2>3, TimeOK
<1> QED BY <1>3, <1>4, <1>5, <1>6, <1>7, <1>8 DEF Tick

-----------------------------------------------------------------------------
(* Protocol renewal.                                                       *)

\* A step that touches no account and no job.
LEMMA PromisedAnyway ==
    ASSUME UNCHANGED <<account, job>> PROVE Promised
  BY QuietStep

LEMMA OpenViewOK ==
    ASSUME RenewalInvariant, NEW s \in Syncer, OpenRenewalView(s)
    PROVE  RenewalInvariant' /\ Promised
<1>1. TypeOK /\ RowsAreConsistent /\ ViewsAreIdle
  BY DEF RenewalInvariant, RowsAreConsistent
<1>2. /\ UNCHANGED <<account, seen, renewal, job, failures, handler, validator, based>>
      /\ \A a \in Account : handler[s][a] = "idle"
  BY DEF OpenRenewalView, Idle
<1>3. view' \in [Syncer -> [open : BOOLEAN, busy : SUBSET Account]]
      /\ \A t \in Syncer \ {s} : view'[t] = view[t]
  BY <1>1 DEF OpenRenewalView, TypeOK
<1>4. \A t \in Syncer, a \in Account : view'[t].open => handler[t][a] = "idle"
  BY <1>1, <1>2, <1>3 DEF ViewsAreIdle
<1>5. TypeOK' /\ RowsAreConsistent'
  BY <1>1, <1>2, <1>3 DEF RowsAreConsistent, TypeOK
<1>6. LoadedHasToken' /\ ReadersAreBased' /\ AttemptLeft' /\ ViewsAreIdle'
  BY <1>2, <1>4 DEF RenewalInvariant, LoadedHasToken, ReadersAreBased, AttemptLeft, ViewsAreIdle, Owned
<1> QED BY <1>2, <1>5, <1>6, PromisedAnyway DEF RenewalInvariant

LEMMA ClaimBatchOK ==
    ASSUME RenewalInvariant, NEW s \in Syncer, ClaimRenewalBatch(s)
    PROVE  RenewalInvariant' /\ Promised
<1>1. TypeOK /\ ViewsAreIdle
  BY DEF RenewalInvariant, RowsAreConsistent
<1>2. PICK batch \in Limited({a \in Account : Candidate(s, a)}, BatchSize) :
         /\ renewal' = [a \in Account |->
                          IF a \in batch
                          THEN Claimed(s, renewal[a], account[a].life = "FRESH")
                          ELSE Recovered(renewal[a])]
         /\ handler' = [handler EXCEPT ![s] =
                          [a \in Account |->
                             IF a \in batch /\ renewal'[a].status = "RUNNING"
                             THEN "claimed" ELSE "idle"]]
  BY DEF ClaimRenewalBatch
<1>3. /\ view' = [view EXCEPT ![s] = NoView]
      /\ UNCHANGED <<account, seen, job, failures, validator, based>>
  BY DEF ClaimRenewalBatch
<1>4. \A a \in batch : a \in Account => renewal[a].status \in {"IDLE", "PENDING", "RETRY"}
  BY <1>2 DEF Limited, kSubset, Candidate
<1>5. ASSUME NEW a \in Account
      PROVE  RowOK(renewal'[a]) /\ (renewal'[a] = renewal[a] \/ renewal'[a].owner \in {s, Nobody})
  <2>1. RowOK(renewal[a]) /\ (account[a].life = "FRESH") \in BOOLEAN
    BY ShapeOK
  <2>2. CASE a \in batch
    BY <1>2, <1>4, <2>1, <2>2, ClaimedOK
  <2>3. CASE a \notin batch
    BY <1>2, <2>1, <2>3, RecoveredOK
  <2> QED BY <2>2, <2>3
<1>6. \A a \in Account : handler'[s][a] \in {"idle", "claimed"}
  BY <1>1, <1>2 DEF TypeOK
<1>7. \A t \in Syncer \ {s} : handler'[t] = handler[t] /\ view'[t] = view[t]
  BY <1>1, <1>2, <1>3 DEF TypeOK
<1>8. ~view'[s].open
  BY <1>1, <1>3 DEF TypeOK, NoView
<1>9. ASSUME NEW t \in Syncer, NEW a \in Account
      PROVE  /\ handler'[t][a] \in {handler[t][a], "idle", "claimed"}
             /\ view'[t].open => handler'[t][a] = "idle"
             /\ handler'[t][a] \in Running /\ t \in seen'[a] =>
                  t \in seen[a] /\ (t \in based[a] => t \in based'[a])
             /\ handler'[t][a] \in Running /\ renewal'[a].owner = t =>
                  Owned(t, a) /\ renewal'[a].attempts = renewal[a].attempts
  <2>1. CASE t = s
    BY <1>6, <1>8, <2>1 DEF Running
  <2>2. CASE t # s
    <3>1. t # Nobody /\ RowConsistent(renewal[a])
      BY RenewalNulls DEF RenewalInvariant, RowsAreConsistent
    <3> QED BY <1>1, <1>3, <1>5, <1>7, <2>2, <3>1 DEF Owned, RowConsistent, ViewsAreIdle
  <2> QED BY <2>1, <2>2
<1>10. renewal' \in [Account -> RenewalRow] /\ \A a \in Account : RowConsistent(renewal'[a])
  <2>1. renewal' = [a \in Account |-> renewal'[a]]
    BY <1>2
  <2> QED BY <1>5, <2>1 DEF RowOK
<1>11. handler' \in [Syncer -> [Account -> HandlerState]]
       /\ view' \in [Syncer -> [open : BOOLEAN, busy : SUBSET Account]]
  BY <1>1, <1>2, <1>3 DEF TypeOK, HandlerState, NoView
<1>12. RenewalInvariant'
  BY <1>1, <1>3, <1>9, <1>10, <1>11, InvariantKept DEF TypeOK, Counts
<1> QED BY <1>3, <1>12, PromisedAnyway

\* The two steps that go on with a renewal: its coroutine has read the row,
\* or has its answer.
LEMMA CoroutineGoesOn ==
    ASSUME RenewalInvariant, NEW s \in Syncer, NEW a \in Account, NEW next \in Running,
           handler' = [handler EXCEPT ![s][a] = next],
           seen' \in [Account -> SUBSET Syncer], based' \in [Account -> SUBSET Syncer],
           \A t \in Syncer, b \in Account :
              ~(t = s /\ b = a) => (t \in seen'[b] <=> t \in seen[b]) /\ (t \in based'[b] <=> t \in based[b]),
           s \in based'[a], account[a].life # "NONE", handler[s][a] # "idle",
           next = "unrotated" => renewal[a].attempts < MaxAttempts,
           UNCHANGED <<account, renewal, job, failures, view, validator>>
    PROVE  RenewalInvariant' /\ Promised
<1>1. TypeOK /\ RowsAreConsistent
  BY DEF RenewalInvariant, RowsAreConsistent
<1>2. handler' \in [Syncer -> [Account -> HandlerState]]
  BY <1>1 DEF TypeOK, HandlerState, Running
<1>3. handler'[s][a] = next
      /\ \A t \in Syncer, b \in Account : ~(t = s /\ b = a) => handler'[t][b] = handler[t][b]
  BY <1>1 DEF TypeOK
<1>4. TypeOK' /\ RowsAreConsistent'
  BY <1>1, <1>2 DEF TypeOK, RowsAreConsistent, HandlerState
<1>5. LoadedHasToken'
  BY <1>3 DEF RenewalInvariant, LoadedHasToken
<1>6. ReadersAreBased'
  BY <1>3 DEF RenewalInvariant, ReadersAreBased
<1>7. AttemptLeft'
  BY <1>3 DEF RenewalInvariant, AttemptLeft, Owned
<1>8. ViewsAreIdle'
  BY <1>3 DEF RenewalInvariant, ViewsAreIdle
<1> QED BY <1>4, <1>5, <1>6, <1>7, <1>8, PromisedAnyway DEF RenewalInvariant

\* A renewal ends: its row is released, or left to who has it.
LEMMA RenewalEnds ==
    ASSUME RenewalInvariant, NEW s \in Syncer, NEW a \in Account, NEW row, RowOK(row),
           row.owner # Nobody => row.owner = renewal[a].owner /\ row.attempts = renewal[a].attempts,
           renewal' = [renewal EXCEPT ![a] = row], seen' = [seen EXCEPT ![a] = seen[a] \ {s}],
           EndRenewal(s, a), UNCHANGED <<account, job, failures, view, validator>>
    PROVE  RenewalInvariant' /\ Promised
<1>1. TypeOK
  BY DEF RenewalInvariant, RowsAreConsistent
<1>2. /\ handler' = [handler EXCEPT ![s][a] = "idle"]
      /\ based' = [based EXCEPT ![a] = based[a] \ {s}]
  BY DEF EndRenewal
<1>3. /\ Elsewhere(a) /\ account'[a] = account[a] /\ renewal'[a] = row /\ job'[a] = job[a]
      /\ seen'[a] = seen[a] \ {s} /\ based'[a] = based[a] \ {s} /\ failures'[a] = failures[a]
  BY <1>1, <1>2 DEF TypeOK, Elsewhere
<1>4. Here(a)
  BY <1>3, ShapeOK DEF Here
<1>5. Coroutines(a)
  <2>1. handler' \in [Syncer -> [Account -> HandlerState]] /\ handler'[s][a] = "idle"
        /\ \A t \in Syncer, b \in Account : handler'[t][b] \in {handler[t][b], "idle"}
    BY <1>1, <1>2 DEF TypeOK, HandlerState
  <2> QED BY <1>1, <1>3, <2>1 DEF Coroutines, TypeOK, Running
<1> QED BY <1>3, <1>4, <1>5, OneAccount, PromisedAnyway

LEMMA LoadOK ==
    ASSUME RenewalInvariant, NEW s \in Syncer, NEW a \in Account, LoadRenewal(s, a)
    PROVE  RenewalInvariant' /\ Promised
<1>1. TypeOK /\ handler[s][a] = "claimed"
      /\ UNCHANGED <<account, renewal, job, failures, view, validator>>
  BY DEF RenewalInvariant, RowsAreConsistent, LoadRenewal
<1>2. CASE Owned(s, a) /\ account[a].life # "NONE"
  <2>1. /\ handler' = [handler EXCEPT ![s][a] = "loaded"]
        /\ seen' = [seen EXCEPT ![a] = seen[a] \cup {s}]
        /\ based' = [based EXCEPT ![a] = based[a] \cup {s}]
    BY <1>2 DEF LoadRenewal
  <2>2. /\ seen' \in [Account -> SUBSET Syncer] /\ based' \in [Account -> SUBSET Syncer]
        /\ s \in based'[a]
        /\ \A t \in Syncer, b \in Account :
              ~(t = s /\ b = a) => (t \in seen'[b] <=> t \in seen[b]) /\ (t \in based'[b] <=> t \in based[b])
    BY <1>1, <2>1 DEF TypeOK
  <2>3. "loaded" \in Running
    BY DEF Running
  <2> QED BY <1>1, <1>2, <2>1, <2>2, <2>3, CoroutineGoesOn
<1>3. CASE ~(Owned(s, a) /\ account[a].life # "NONE")
  <2>1. handler' = [handler EXCEPT ![s][a] = "idle"] /\ UNCHANGED <<seen, based>>
    BY <1>3 DEF LoadRenewal
  <2>2. handler' \in [Syncer -> [Account -> HandlerState]]
        /\ \A t \in Syncer, b \in Account : handler'[t][b] \in {handler[t][b], "idle"}
    BY <1>1, <2>1 DEF TypeOK, HandlerState
  <2>3. Coroutines(a)
    BY <1>1, <2>1, <2>2 DEF TypeOK, Coroutines
  <2>4. Elsewhere(a) /\ Here(a)
    BY <1>1, <2>1, ShapeOK DEF TypeOK, Elsewhere, Here
  <2> QED BY <1>1, <2>3, <2>4, OneAccount, PromisedAnyway
<1> QED BY <1>2, <1>3

LEMMA SessionAnswersOK ==
    ASSUME RenewalInvariant, NEW s \in Syncer, NEW a \in Account, SessionAnswers(s, a)
    PROVE  RenewalInvariant' /\ Promised
<1> DEFINE next == IF account[a].life = "FRESH" THEN "alive" ELSE "unrotated"
<1>1. /\ TypeOK /\ LoadedHasToken /\ ReadersAreBased
      /\ handler[s][a] = "loaded" /\ s \in seen[a] /\ account[a].life # "EXPIRED"
      /\ account[a].life = "DUE" => renewal[a].attempts < MaxAttempts
      /\ UNCHANGED <<account, seen, renewal, job, failures, view, validator, based>>
      /\ handler' = [handler EXCEPT ![s][a] = next]
  BY DEF RenewalInvariant, RowsAreConsistent, SessionAnswers, ItemCurrent
<1>2. account[a].life # "NONE" /\ s \in based[a]
  BY <1>1 DEF LoadedHasToken, ReadersAreBased, Running
<1>3. account[a].life \in Life
  BY ShapeOK DEF AccountRow
<1>4. next \in Running /\ (next = "unrotated" => renewal[a].attempts < MaxAttempts)
  BY <1>1, <1>2, <1>3 DEF Running, Life
<1> HIDE DEF next
<1> QED BY <1>1, <1>2, <1>4, CoroutineGoesOn DEF TypeOK

LEMMA DropStaleOK ==
    ASSUME RenewalInvariant, NEW s \in Syncer, NEW a \in Account, DropStaleResult(s, a)
    PROVE  RenewalInvariant' /\ Promised
<1> DEFINE row == IF renewal[a].owner = s THEN Reset(renewal[a]) ELSE renewal[a]
<1>1. RowOK(row) /\ (row.owner # Nobody => row = renewal[a])
  BY ShapeOK, ResetOK
<1>2. renewal' = [renewal EXCEPT ![a] = row]
  BY DEF DropStaleResult
<1> HIDE DEF row
<1> QED BY <1>1, <1>2, RenewalEnds DEF DropStaleResult

LEMMA StoreRenewedOK ==
    ASSUME RenewalInvariant, NEW s \in Syncer, NEW a \in Account, StoreRenewedToken(s, a)
    PROVE  RenewalInvariant' /\ Promised
<1>1. PICK balance \in Balances :
         LET status == IF account[a].status = "MANUAL_DISABLED" THEN "MANUAL_DISABLED"
                       ELSE IF balance < LowBalance THEN "LOW_BALANCE_DISABLED"
                       ELSE "ACTIVE"
         IN account' = [account EXCEPT ![a] = WithToken(@, status, "FRESH", balance)]
  BY DEF StoreRenewedToken
<1> DEFINE status == IF account[a].status = "MANUAL_DISABLED" THEN "MANUAL_DISABLED"
                     ELSE IF balance < LowBalance THEN "LOW_BALANCE_DISABLED"
                     ELSE "ACTIVE"
           acc == WithToken(account[a], status, "FRESH", balance)
           row == [Reset(renewal[a]) EXCEPT !.refreshed = "NOW"]
           jobrow == Superseded(job[a])
<1>2. /\ account' = [account EXCEPT ![a] = acc] /\ renewal' = [renewal EXCEPT ![a] = row]
      /\ job' = [job EXCEPT ![a] = jobrow] /\ seen' = [seen EXCEPT ![a] = {}]
      /\ handler' = [handler EXCEPT ![s][a] = "idle"] /\ based' = [based EXCEPT ![a] = {}]
      /\ UNCHANGED <<failures, view, validator>>
  BY <1>1 DEF StoreRenewedToken, Bump
<1>3. /\ status \in AccountStatus /\ "FRESH" \in Life
      /\ account[a].status = "MANUAL_DISABLED" => status = "MANUAL_DISABLED"
  BY DEF AccountStatus, Life
<1> HIDE DEF status
<1>4. acc \in AccountRow /\ acc.status = status /\ acc.life = "FRESH"
  BY <1>3, ShapeOK, WithTokenOK
<1>5. RowOK(row) /\ row.owner = Nobody
  BY ShapeOK, ResetOK
<1>6. jobrow \in JobRow /\ jobrow.status = job[a].status
  BY ShapeOK DEF JobRow, Superseded
<1> HIDE DEF acc, row, jobrow
<1>7. TypeOK
  BY DEF RenewalInvariant, RowsAreConsistent
<1>8. /\ Elsewhere(a) /\ account'[a] = acc /\ renewal'[a] = row /\ job'[a] = jobrow
      /\ seen'[a] = {} /\ based'[a] = {} /\ failures'[a] = failures[a]
  BY <1>2, <1>7 DEF TypeOK, Elsewhere
<1>9. Here(a)
  BY <1>4, <1>5, <1>6, <1>8, ShapeOK DEF Here
<1>10. Coroutines(a)
  <2>1. handler' \in [Syncer -> [Account -> HandlerState]]
        /\ \A t \in Syncer, b \in Account : handler'[t][b] \in {handler[t][b], "idle"}
    BY <1>2, <1>7 DEF TypeOK, HandlerState
  <2> QED BY <1>2, <1>7, <1>8, <2>1 DEF Coroutines, TypeOK
<1>11. Promised
  BY <1>3, <1>4, <1>6, <1>8, QuietOnOne
<1> QED BY <1>8, <1>9, <1>10, <1>11, OneAccount

LEMMA KeepAliveOK ==
    ASSUME RenewalInvariant, NEW s \in Syncer, NEW a \in Account, KeepSessionAlive(s, a)
    PROVE  RenewalInvariant' /\ Promised
<1>1. RowOK(renewal[a]) /\ Owned(s, a) /\ AttemptLeft
  BY ShapeOK DEF KeepSessionAlive, ItemCurrent, RenewalInvariant
<1> DEFINE retry == [renewal[a] EXCEPT !.status = "RETRY", !.ready = FALSE, !.owner = Nobody,
                        !.live = FALSE, !.claimed = "CURRENT", !.refreshed = "NOW"]
           kept == [Reset(renewal[a]) EXCEPT !.refreshed = "NOW"]
<1>2. RowOK(kept) /\ kept.owner = Nobody
  BY <1>1, ResetOK
<1>3. retry \in RenewalRow /\ retry.status = "RETRY" /\ retry.owner = Nobody
      /\ retry.attempts = renewal[a].attempts
  BY <1>1 DEF RowOK, RenewalRow
<1>4. renewal' = [renewal EXCEPT ![a] = IF handler[s][a] = "unrotated" THEN retry ELSE kept]
  BY DEF KeepSessionAlive
<1> HIDE DEF retry, kept
<1>5. CASE handler[s][a] = "unrotated"
  <2>1. RowOK(retry)
    BY <1>1, <1>3, <1>5 DEF RowOK, RowConsistent, AttemptLeft
  <2>2. renewal' = [renewal EXCEPT ![a] = retry]
    BY <1>4, <1>5
  <2> QED BY <1>3, <2>1, <2>2, RenewalEnds DEF KeepSessionAlive
<1>6. CASE handler[s][a] # "unrotated"
  <2>1. renewal' = [renewal EXCEPT ![a] = kept]
    BY <1>4, <1>6
  <2> QED BY <1>2, <2>1, RenewalEnds DEF KeepSessionAlive
<1> QED BY <1>5, <1>6

LEMMA FailRenewalOK ==
    ASSUME RenewalInvariant, NEW s \in Syncer, NEW a \in Account, FailRenewal(s, a)
    PROVE  RenewalInvariant' /\ Promised
<1>1. PICK retryable \in BOOLEAN, late \in BOOLEAN :
         renewal' = [renewal EXCEPT ![a] =
              IF ~Owned(s, a) THEN @
              ELSE IF @.claimed = "OLD" THEN Reset(@)
              ELSE IF GivenUp(@, retryable) \/ late THEN Fallback(@)
              ELSE [@ EXCEPT !.status = "RETRY", !.owner = Nobody,
                             !.live = FALSE, !.ready = FALSE]]
  BY DEF FailRenewal
<1> DEFINE retry == [renewal[a] EXCEPT !.status = "RETRY", !.owner = Nobody,
                             !.live = FALSE, !.ready = FALSE]
           row == IF ~Owned(s, a) THEN renewal[a]
                  ELSE IF renewal[a].claimed = "OLD" THEN Reset(renewal[a])
                  ELSE IF GivenUp(renewal[a], retryable) \/ late THEN Fallback(renewal[a])
                  ELSE retry
<1>2. RowOK(renewal[a])
  BY ShapeOK
<1>3. retry \in RenewalRow /\ retry.status = "RETRY" /\ retry.owner = Nobody
      /\ retry.attempts = renewal[a].attempts
  BY <1>2 DEF RowOK, RenewalRow
<1>4. renewal' = [renewal EXCEPT ![a] = row]
  BY <1>1, Zenon
<1>5. RowOK(row) /\ (row.owner # Nobody => row = renewal[a])
  <2> HIDE DEF retry
  <2>1. ~GivenUp(renewal[a], retryable) => RowOK(retry)
    BY <1>2, <1>3, LimitsOK DEF GivenUp, RowOK, RowConsistent, RenewalRow
  <2>2. RowOK(Reset(renewal[a])) /\ Reset(renewal[a]).owner = Nobody
    BY <1>2, ResetOK
  <2>3. RowOK(Fallback(renewal[a])) /\ Fallback(renewal[a]).owner = Nobody
    BY <1>2, FallbackOK
  <2> QED BY <1>2, <1>3, <2>1, <2>2, <2>3, Zenon
<1> HIDE DEF row
<1> QED BY <1>4, <1>5, RenewalEnds DEF FailRenewal

LEMMA CrashOK ==
    ASSUME RenewalInvariant, NEW s \in Syncer, SyncerCrash(s)
    PROVE  RenewalInvariant' /\ Promised
<1>1. TypeOK /\ ViewsAreIdle /\ RowsAreConsistent
  BY DEF RenewalInvariant, RowsAreConsistent
<1>2. /\ handler' = [handler EXCEPT ![s] = [a \in Account |-> "idle"]]
      /\ view' = [view EXCEPT ![s] = NoView]
      /\ validator' = [validator EXCEPT ![s] = Nobody]
      /\ seen' = [a \in Account |-> seen[a] \ {s}]
      /\ based' = [a \in Account |-> based[a] \ {s}]
      /\ UNCHANGED <<account, renewal, job, failures>>
  BY DEF SyncerCrash
<1>3. /\ handler' \in [Syncer -> [Account -> HandlerState]]
      /\ \A a \in Account : handler'[s][a] = "idle"
      /\ \A t \in Syncer \ {s} : handler'[t] = handler[t] /\ view'[t] = view[t]
      /\ view' \in [Syncer -> [open : BOOLEAN, busy : SUBSET Account]]
      /\ validator' \in [Syncer -> Account \cup {Nobody}]
  BY <1>1, <1>2 DEF TypeOK, HandlerState, NoView
<1>4. /\ seen' \in [Account -> SUBSET Syncer] /\ based' \in [Account -> SUBSET Syncer]
      /\ \A a \in Account : seen'[a] = seen[a] \ {s} /\ based'[a] = based[a] \ {s}
  BY <1>1, <1>2 DEF TypeOK
<1>5. ASSUME NEW t \in Syncer, NEW a \in Account
      PROVE  /\ handler'[t][a] \in {handler[t][a], "idle", "claimed"}
             /\ view'[t].open => handler'[t][a] = "idle"
             /\ handler'[t][a] \in Running /\ t \in seen'[a] =>
                  t \in seen[a] /\ (t \in based[a] => t \in based'[a])
             /\ handler'[t][a] \in Running /\ renewal'[a].owner = t =>
                  Owned(t, a) /\ renewal'[a].attempts = renewal[a].attempts
  <2>1. CASE t = s
    BY <1>3, <2>1 DEF Running
  <2>2. CASE t # s
    <3>1. t # Nobody /\ RowConsistent(renewal[a])
      BY RenewalNulls DEF RenewalInvariant, RowsAreConsistent
    <3> QED BY <1>1, <1>2, <1>3, <1>4, <2>2, <3>1 DEF Owned, RowConsistent, ViewsAreIdle
  <2> QED BY <2>1, <2>2
<1>6. RenewalInvariant'
  BY <1>1, <1>2, <1>3, <1>4, <1>5, InvariantKept DEF TypeOK, RowsAreConsistent, Counts
<1> QED BY <1>2, <1>6, PromisedAnyway

-----------------------------------------------------------------------------
(* Guards and validation.                                                  *)

LEMMA GuardsOK ==
    ASSUME RenewalInvariant, EnforceAccountGuards PROVE RenewalInvariant' /\ Promised
<1>1. TypeOK /\ ViewsAreIdle /\ RowsAreConsistent
  BY DEF RenewalInvariant, RowsAreConsistent
<1>2. PICK near \in SUBSET Account :
         account' = [a \in Account |->
                       [account[a] EXCEPT !.status =
                          Guarded(account[a], renewal[a], a \in near)]]
  BY DEF EnforceAccountGuards
<1>3. UNCHANGED <<seen, renewal, job, failures, handler, view, validator, based>>
  BY DEF EnforceAccountGuards
<1>4. ASSUME NEW a \in Account
      PROVE  /\ account'[a] \in AccountRow /\ account'[a].life = account[a].life
             /\ account[a].status = "MANUAL_DISABLED" => account'[a].status = "MANUAL_DISABLED"
  <2> DEFINE status == Guarded(account[a], renewal[a], a \in near)
  <2>1. account[a] \in AccountRow
    BY ShapeOK
  <2>2. /\ status \in AccountStatus
        /\ account[a].status = "MANUAL_DISABLED" => status = "MANUAL_DISABLED"
    BY <2>1 DEF Guarded, AccountRow, AccountStatus
  <2>3. account'[a] = [account[a] EXCEPT !.status = status]
    BY <1>2
  <2> HIDE DEF status
  <2> QED BY <2>1, <2>2, <2>3 DEF AccountRow
<1>5. account' \in [Account -> AccountRow]
  <2>1. account' = [a \in Account |-> account'[a]]
    BY <1>2
  <2> QED BY <1>4, <2>1
<1>6. ASSUME NEW t \in Syncer, NEW a \in Account
      PROVE  /\ view'[t].open => handler'[t][a] = "idle"
             /\ handler'[t][a] \in Running /\ renewal'[a].owner = t =>
                  Owned(t, a) /\ renewal'[a].attempts = renewal[a].attempts
  <2>1. t # Nobody /\ RowConsistent(renewal[a])
    BY RenewalNulls DEF RenewalInvariant, RowsAreConsistent
  <2> QED BY <1>1, <1>3, <2>1 DEF Owned, RowConsistent, ViewsAreIdle
<1>7. RenewalInvariant'
  BY <1>1, <1>3, <1>4, <1>5, <1>6, InvariantKept DEF TypeOK, RowsAreConsistent, HandlerState, Counts
<1>8. Promised
  BY <1>3, <1>4, QuietStep
<1> QED BY <1>7, <1>8

LEMMA StartValidationOK ==
    ASSUME RenewalInvariant, NEW s \in Syncer, NEW a \in Account, StartValidation(s, a)
    PROVE  RenewalInvariant' /\ Promised
<1>1. TypeOK /\ ViewsAreIdle /\ RowsAreConsistent
  BY DEF RenewalInvariant, RowsAreConsistent
<1>2. /\ UNCHANGED <<account, renewal, job, failures, handler, view, based>>
      /\ \A b \in Account : handler[s][b] = "idle"
  BY DEF StartValidation, Idle
<1>3. /\ validator' \in [Syncer -> Account \cup {Nobody}] /\ seen' \in [Account -> SUBSET Syncer]
      /\ \A t \in Syncer \ {s}, b \in Account : t \in seen'[b] => t \in seen[b]
  BY <1>1 DEF StartValidation, TypeOK
<1>4. ASSUME NEW t \in Syncer, NEW b \in Account
      PROVE  /\ view'[t].open => handler'[t][b] = "idle"
             /\ handler'[t][b] \in Running /\ t \in seen'[b] =>
                  t \in seen[b] /\ (t \in based[b] => t \in based'[b])
             /\ handler'[t][b] \in Running /\ renewal'[b].owner = t =>
                  Owned(t, b) /\ renewal'[b].attempts = renewal[b].attempts
  <2>1. t # Nobody /\ RowConsistent(renewal[b])
    BY RenewalNulls DEF RenewalInvariant, RowsAreConsistent
  <2>2. CASE t = s
    BY <1>2, <2>2 DEF Running
  <2>3. CASE t # s
    BY <1>1, <1>2, <1>3, <2>1, <2>3 DEF Owned, RowConsistent, ViewsAreIdle
  <2> QED BY <2>2, <2>3
<1>5. RenewalInvariant'
  BY <1>1, <1>2, <1>3, <1>4, InvariantKept DEF TypeOK, RowsAreConsistent, HandlerState, Counts
<1> QED BY <1>2, <1>5, PromisedAnyway

LEMMA DropValidationOK ==
    ASSUME RenewalInvariant, NEW s \in Syncer, NEW a \in Account, DropValidation(s, a)
    PROVE  RenewalInvariant' /\ Promised
<1>1. TypeOK
  BY DEF RenewalInvariant, RowsAreConsistent
<1>2. /\ UNCHANGED <<account, renewal, job, failures, handler, view, based>>
      /\ validator' \in [Syncer -> Account \cup {Nobody}]
      /\ seen' = [seen EXCEPT ![a] = seen[a] \ {s}]
  BY <1>1 DEF DropValidation, TypeOK
<1>3. Elsewhere(a) /\ Here(a)
  BY <1>1, <1>2, ShapeOK DEF TypeOK, Elsewhere, Here
<1>4. Coroutines(a)
  BY <1>2, CoroutinesStay
<1> QED BY <1>2, <1>3, <1>4, OneAccount, PromisedAnyway

\* What both verdicts of a validation have in common.
LEMMA VerdictOK ==
    ASSUME RenewalInvariant, NEW s \in Syncer, NEW a \in Account,
           account[a].status = "PENDING_VALIDATION",
           NEW acc \in AccountRow, acc.life = account[a].life,
           NEW jobrow \in JobRow, jobrow.status \in {job[a].status, "FINISHED"},
           NEW counts \in Counts,
           account' = [account EXCEPT ![a] = acc], Bump(a),
           renewal' = [renewal EXCEPT ![a] = Outdated(@)],
           job' = [job EXCEPT ![a] = jobrow], failures' = [failures EXCEPT ![a] = counts],
           validator' = [validator EXCEPT ![s] = Nobody], UNCHANGED <<handler, view, based>>
    PROVE  RenewalInvariant' /\ Promised
<1>1. TypeOK
  BY DEF RenewalInvariant, RowsAreConsistent
<1>2. seen' = [seen EXCEPT ![a] = {}] /\ validator' \in [Syncer -> Account \cup {Nobody}]
  BY <1>1 DEF Bump, TypeOK
<1>3. /\ Elsewhere(a) /\ account'[a] = acc /\ renewal'[a] = Outdated(renewal[a]) /\ job'[a] = jobrow
      /\ seen'[a] = {} /\ based'[a] = based[a] /\ failures'[a] = counts
  BY <1>1, <1>2 DEF TypeOK, Elsewhere
<1>4. /\ RowOK(Outdated(renewal[a])) /\ Outdated(renewal[a]).owner = renewal[a].owner
      /\ Outdated(renewal[a]).attempts = renewal[a].attempts
  BY ShapeOK, OutdatedOK
<1>5. Here(a)
  BY <1>3, <1>4, ShapeOK DEF Here
<1>6. Coroutines(a)
  BY <1>2, CoroutinesStay
<1>7. Promised
  BY <1>3, QuietOnOne
<1> QED BY <1>3, <1>5, <1>6, <1>7, OneAccount

LEMMA RejectOK ==
    ASSUME RenewalInvariant, NEW s \in Syncer, NEW a \in Account, RejectToken(s, a)
    PROVE  RenewalInvariant' /\ Promised
<1>1. PICK unauthorized \in BOOLEAN :
         account' = [account EXCEPT ![a] =
                       [StampedUnread(@) EXCEPT !.status = "TOKEN_EXPIRED",
                                                !.unauthorized = unauthorized]]
  BY DEF RejectToken
<1> DEFINE acc == [StampedUnread(account[a]) EXCEPT !.status = "TOKEN_EXPIRED",
                                                    !.unauthorized = unauthorized]
           jobrow == IF Validating(a) THEN Finished(TRUE) ELSE job[a]
           counts == IF Validating(a) THEN CountFailure(failures[a], job[a].type, "OTHER") ELSE failures[a]
<1>2. acc \in AccountRow /\ acc.life = account[a].life
  BY ShapeOK DEF AccountRow, AccountStatus, StampedUnread
<1>3. jobrow \in JobRow /\ jobrow.status \in {job[a].status, "FINISHED"}
  BY ShapeOK, FinishedOK
<1>4. counts \in Counts
  BY ShapeOK, CountsOK DEF JobRow, ErrorClass
<1>5. TypeOK
  BY DEF RenewalInvariant, RowsAreConsistent
<1>6. job' = [job EXCEPT ![a] = jobrow] /\ failures' = [failures EXCEPT ![a] = counts]
  <2>1. CASE Validating(a)
    BY <2>1 DEF RejectToken
  <2>2. CASE ~Validating(a)
    BY <1>5, <2>2 DEF RejectToken, TypeOK
  <2> QED BY <2>1, <2>2
<1>7. account' = [account EXCEPT ![a] = acc]
  BY <1>1, Zenon
<1> HIDE DEF acc, jobrow, counts
<1> QED BY <1>2, <1>3, <1>4, <1>6, <1>7, VerdictOK DEF RejectToken, ValidationCurrent

LEMMA AcceptOK ==
    ASSUME RenewalInvariant, NEW s \in Syncer, NEW a \in Account, AcceptToken(s, a)
    PROVE  RenewalInvariant' /\ Promised
<1>1. PICK balance \in Balances, near \in BOOLEAN :
         LET status == StatusForBalance("PENDING_VALIDATION", account[a].life, balance, near)
         IN account' = [account EXCEPT ![a] =
                          [@ EXCEPT !.status = status, !.synced = TRUE,
                                    !.credits = balance,
                                    !.unauthorized = account[a].unauthorized /\ status # "ACTIVE"]]
  BY DEF AcceptToken
<1> DEFINE status == StatusForBalance("PENDING_VALIDATION", account[a].life, balance, near)
           unauthorized == account[a].unauthorized /\ status # "ACTIVE"
           acc == [account[a] EXCEPT !.status = status, !.synced = TRUE,
                                    !.credits = balance, !.unauthorized = unauthorized]
           jobrow == IF Validating(a) THEN Finished(FALSE) ELSE job[a]
<1>2. status \in AccountStatus /\ unauthorized \in BOOLEAN /\ balance \in Nat
  <2>1. status \in AccountStatus
    BY StatusForBalanceOK DEF AccountStatus
  <2>2. unauthorized \in BOOLEAN
    OBVIOUS
  <2> QED BY <2>1, <2>2, RenewalLimits
<1>3. account' = [account EXCEPT ![a] = acc]
  BY <1>1, Zenon
<1> HIDE DEF status, unauthorized
<1>4. acc \in AccountRow /\ acc.life = account[a].life
  BY <1>2, ShapeOK DEF AccountRow
<1>5. jobrow \in JobRow /\ jobrow.status \in {job[a].status, "FINISHED"} /\ failures[a] \in Counts
  BY ShapeOK, FinishedOK
<1>6. job' = [job EXCEPT ![a] = jobrow] /\ failures' = [failures EXCEPT ![a] = failures[a]]
  BY DEF AcceptToken, RenewalInvariant, RowsAreConsistent, TypeOK
<1>7. /\ account[a].status = "PENDING_VALIDATION" /\ Bump(a)
      /\ renewal' = [renewal EXCEPT ![a] = Outdated(@)]
      /\ validator' = [validator EXCEPT ![s] = Nobody] /\ UNCHANGED <<handler, view, based>>
  BY DEF AcceptToken, ValidationCurrent
<1> HIDE DEF acc, jobrow
<1> QED BY <1>3, <1>4, <1>5, <1>6, <1>7, VerdictOK

-----------------------------------------------------------------------------
(* The theorems.                                                           *)

LEMMA StepOK ==
    ASSUME RenewalInvariant, [Next]_vars PROVE RenewalInvariant' /\ Promised
<1>1. CASE UNCHANGED vars
  <2>1. RenewalInvariant'
    BY <1>1 DEF vars, RenewalInvariant, RowsAreConsistent, TypeOK, LoadedHasToken, ReadersAreBased,
                AttemptLeft, Owned, ViewsAreIdle
  <2> QED BY <1>1, <2>1, PromisedAnyway DEF vars
<1>2. CASE LoginClaim \/ EnforceAccountGuards
  BY <1>2, LoginClaimOK, GuardsOK
<1>3. ASSUME NEW a \in Account,
             \/ ReportLoginToken(a) \/ FailLoginJob(a)
             \/ OperatorStep(a) \/ BalanceStep(a) \/ ImportLedger(a)
             \/ TaskStep(a) \/ Tick(a)
      PROVE  RenewalInvariant' /\ Promised
  BY <1>3, ReportOK, FailLoginOK, OperatorOK, BalanceOK, TaskOK, TickOK
<1>4. ASSUME NEW s \in Syncer, OpenRenewalView(s) \/ ClaimRenewalBatch(s) \/ SyncerCrash(s)
      PROVE  RenewalInvariant' /\ Promised
  BY <1>4, OpenViewOK, ClaimBatchOK, CrashOK
<1>5. ASSUME NEW s \in Syncer, NEW a \in Account, RenewalStep(s, a)
      PROVE  RenewalInvariant' /\ Promised
  BY <1>5, LoadOK, DropStaleOK, StoreRenewedOK, SessionAnswersOK, KeepAliveOK, FailRenewalOK
     DEF RenewalStep
<1>6. ASSUME NEW s \in Syncer, NEW a \in Account, ValidationStep(s, a)
      PROVE  RenewalInvariant' /\ Promised
  BY <1>6, StartValidationOK, DropValidationOK, RejectOK, AcceptOK DEF ValidationStep
<1> QED BY <1>1, <1>2, <1>3, <1>4, <1>5, <1>6 DEF Next

\* The invariant holds in every reachable state.
LEMMA InvariantHolds == Spec => []RenewalInvariant
<1>1. RenewalInvariant /\ [Next]_vars => RenewalInvariant'
  BY StepOK
<1> QED BY InitOK, <1>1, PTL DEF Spec

\* A row of account_renewal_sessions is leased exactly while it runs, waits
\* with all its attempts, and never starts a round beyond the last, whatever
\* claims, failures, stale answers and writes of others do to it
\* (protocol_renewal.py, and the claim of login jobs).
THEOREM RenewalRowsAreConsistent == Spec => []RowsAreConsistent
<1>1. RenewalInvariant => RowsAreConsistent
  BY DEF RenewalInvariant
<1> QED BY InvariantHolds, <1>1, PTL

\* apply_protocol_renewal_success stores a token only over the one it was
\* computed from, however many syncers, desktops and operators store others
\* in the meantime: the version it has read is the fence.
THEOREM RenewalNeverOverwrites == Spec => NewerTokenKept
<1>1. RenewalInvariant => \A s \in Syncer, a \in Account : StoreRenewedToken(s, a) => s \in based[a]
  BY DEF RenewalInvariant, ReadersAreBased, StoreRenewedToken, ItemCurrent, Running
<1> QED BY InvariantHolds, <1>1, PTL DEF NewerTokenKept

\* report_login_token accepts only a token computed from the stored one, and
\* only for an account nobody has disabled since.
THEOREM LoginsReportInTime == Spec => ReportsAreTimely
<1>1. RenewalInvariant /\ [Next]_vars =>
        \A a \in Account :
          job[a].status = "LEASED" /\ job'[a].status = "VALIDATING" =>
            /\ job[a].current
            /\ account[a].status # "MANUAL_DISABLED"
  BY StepOK DEF Promised
<1> QED BY InvariantHolds, <1>1, PTL DEF Spec, ReportsAreTimely

\* No renewal, login, validation, poll, guard, import or settled task takes an
\* account out of MANUAL_DISABLED: PATCH does, and finish_submit_failure, and
\* the balance refresh of an operator whose token the provider refuses, which
\* makes it TOKEN_EXPIRED.
THEOREM DisabledStaysDisabled == Spec => QuarantineKept
<1>1. RenewalInvariant /\ [Next]_vars =>
        \A a \in Account :
          /\ account[a].status = "MANUAL_DISABLED"
          /\ account'[a].status # "MANUAL_DISABLED"
          => \/ EnableAccount(a) \/ SubmissionFails(a)
             \/ BalanceRefreshFails(a) /\ account'[a].status = "TOKEN_EXPIRED"
  BY StepOK DEF Promised
<1> QED BY InvariantHolds, <1>1, PTL DEF Spec, QuarantineKept

\* claim_login_jobs hands out a login for a stored session only once the
\* protocol is out of it, in the same transaction or before.
THEOREM ProtocolGoesFirst == Spec => LoginIsTheFallback
<1>1. RenewalInvariant /\ [Next]_vars =>
        \A a \in Account :
          /\ job[a].status \notin ActiveJob
          /\ job'[a].status = "LEASED" /\ job'[a].type = "RENEW_TOKEN"
          => renewal'[a].status \in {"ABSENT", "FALLBACK"}
  BY StepOK DEF Promised, GoneToLogin
<1> QED BY InvariantHolds, <1>1, PTL DEF Spec, LoginIsTheFallback
=============================================================================
