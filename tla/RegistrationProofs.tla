------------------------- MODULE RegistrationProofs -------------------------
(***************************************************************************)
(* Mailboxes and what is registered with them, for any number of emails,   *)
(* projects, keys, validators, parents and records: what is given away     *)
(* from the pool of mailboxes, and how the history of a parent decides     *)
(* whether it may register another account.                                *)
(***************************************************************************)
EXTENDS MailboxPool, Registration, FiniteSetTheorems, TLAPS

-----------------------------------------------------------------------------
(* Claims of mailboxes.                                                    *)

(* A mailbox that is offered was validated, the row of now and no earlier  *)
(* one: this is why a claim need not look at the validation.               *)
ActiveIsValidated ==
    \A m \in Email : mailbox[m].status = "ACTIVE" => <<m, mailbox[m].row>> \in validated

PoolInv == MailboxTypeOK /\ ActiveIsValidated /\ NeverGivenTwice /\ OnlyValidatedAreGiven

-----------------------------------------------------------------------------
(* Rows.                                                                   *)

RowOK(m, r) ==
    /\ r \in MailboxRow
    /\ r.live => r.owner # NoValidator
    /\ r.status # "ABSENT" => r.row # 0

LEMMA RowsOK ==
    ASSUME MailboxTypeOK, NEW m \in Email PROVE RowOK(m, mailbox[m])
  BY DEF MailboxTypeOK, RowOK

LEMMA UnleasedOK ==
    ASSUME MailboxTypeOK, NEW m \in Email, NEW due \in BOOLEAN,
           NEW status \in {"ABSENT", "PENDING_VALIDATION", "ACTIVE", "INVALID", "MANUAL_DISABLED"},
           mailbox[m].status # "ABSENT"
    PROVE  /\ RowOK(m, Unleased(m, status, due))
           /\ Unleased(m, status, due).status = status
           /\ Unleased(m, status, due).row = mailbox[m].row
<1>1. RowOK(m, mailbox[m])
  BY RowsOK
<1> QED BY <1>1, MailboxAssumption DEF RowOK, Unleased, MailboxRow

(* A step that replaces rows, in which whatever becomes active was         *)
(* validated, keeps the invariant.                                         *)
LEMMA RowsChange ==
    ASSUME PoolInv, mailbox' \in [Email -> MailboxRow],
           \A m \in Email : RowOK(m, mailbox'[m]),
           \A m \in Email : mailbox'[m].status = "ACTIVE" =>
              \/ mailbox[m].status = "ACTIVE" /\ mailbox'[m].row = mailbox[m].row
              \/ <<m, mailbox'[m].row>> \in validated',
           copies' \in [Validator -> [Email -> 0 .. MaxRows]],
           claims' = claims, validated \subseteq validated',
           validated' \subseteq Email \X (1 .. MaxRows)
    PROVE  PoolInv'
<1>1. MailboxTypeOK'
  BY DEF PoolInv, MailboxTypeOK, RowOK, MailboxRow, MailboxClaim
<1>2. ActiveIsValidated'
  BY DEF PoolInv, ActiveIsValidated
<1>3. NeverGivenTwice' /\ OnlyValidatedAreGiven'
  BY DEF PoolInv, NeverGivenTwice, OnlyValidatedAreGiven
<1> QED BY <1>1, <1>2, <1>3 DEF PoolInv

(* A step that replaces the row of one email.                              *)
LEMMA OneRowChanges ==
    ASSUME PoolInv, NEW m \in Email, NEW r, RowOK(m, r), mailbox' = [mailbox EXCEPT ![m] = r],
           r.status = "ACTIVE" => mailbox[m].status = "ACTIVE" /\ r.row = mailbox[m].row,
           UNCHANGED <<copies, claims, validated>>
    PROVE  PoolInv'
<1>1. mailbox \in [Email -> MailboxRow]
  BY DEF PoolInv, MailboxTypeOK
<1>2. mailbox' \in [Email -> MailboxRow]
  BY <1>1 DEF RowOK
<1>3. \A h \in Email : RowOK(h, mailbox'[h])
  BY <1>1, RowsOK DEF PoolInv, RowOK
<1>4. \A h \in Email : mailbox'[h].status = "ACTIVE" =>
         mailbox[h].status = "ACTIVE" /\ mailbox'[h].row = mailbox[h].row
  BY <1>1
<1> QED BY <1>2, <1>3, <1>4, RowsChange DEF PoolInv, MailboxTypeOK

-----------------------------------------------------------------------------
(* The steps.                                                              *)

LEMMA OperatorKeeps ==
    ASSUME PoolInv, NEW m \in Email, OperatorStep(m) PROVE PoolInv'
<1>0. mailbox[m] \in MailboxRow /\ MailboxTypeOK
  BY DEF PoolInv, MailboxTypeOK
<1>1. CASE ImportMailbox(m)
  <2>1. PICK u : u = Unleased(m, "PENDING_VALIDATION", TRUE)
    OBVIOUS
  <2>2. PICK r : r = [u EXCEPT !.row = mailbox[m].row + 1]
    OBVIOUS
  <2>3. mailbox' = [mailbox EXCEPT ![m] = r] /\ UNCHANGED <<copies, claims, validated>>
    BY <1>1, <2>1, <2>2 DEF ImportMailbox
  <2>4. u \in MailboxRow /\ ~u.live /\ u.status = "PENDING_VALIDATION" /\ u.row = mailbox[m].row
    BY <1>0, <2>1 DEF Unleased, MailboxRow
  <2>5. mailbox[m].row + 1 \in 1 .. MaxRows
    BY <1>0, <1>1, <2>4, MailboxAssumption DEF ImportMailbox, MailboxRow
  <2>6. RowOK(m, r) /\ r.status # "ACTIVE"
    BY <2>2, <2>4, <2>5, MailboxAssumption DEF RowOK, MailboxRow
  <2> QED BY <2>3, <2>6, OneRowChanges
<1>2. CASE RevalidateMailbox(m)
  BY <1>0, <1>2, UnleasedOK, OneRowChanges DEF RevalidateMailbox
<1>3. CASE DisableMailbox(m)
  BY <1>0, <1>3, UnleasedOK, OneRowChanges DEF DisableMailbox
<1>4. CASE DeleteMailbox(m)
  BY <1>0, <1>4, UnleasedOK, OneRowChanges DEF DeleteMailbox
<1> QED BY <1>1, <1>2, <1>3, <1>4 DEF OperatorStep

LEMMA TimeKeeps ==
    ASSUME PoolInv, NEW m \in Email, ValidationLeaseEnds(m) \/ ValidationFallsDue(m)
    PROVE  PoolInv'
<1>0. mailbox[m] \in MailboxRow /\ RowOK(m, mailbox[m])
  BY RowsOK DEF PoolInv, RowOK
<1>1. CASE ValidationLeaseEnds(m)
  <2>1. PICK r : r = [mailbox[m] EXCEPT !.live = FALSE]
    OBVIOUS
  <2>2. mailbox' = [mailbox EXCEPT ![m] = r]
    BY <1>1, <2>1 DEF ValidationLeaseEnds
  <2>3. RowOK(m, r) /\ r.status = mailbox[m].status /\ r.row = mailbox[m].row
    BY <1>0, <2>1 DEF RowOK, MailboxRow
  <2> QED BY <1>1, <2>2, <2>3, OneRowChanges DEF ValidationLeaseEnds
<1>2. CASE ValidationFallsDue(m)
  <2>1. PICK r : r = [mailbox[m] EXCEPT !.due = TRUE]
    OBVIOUS
  <2>2. mailbox' = [mailbox EXCEPT ![m] = r]
    BY <1>2, <2>1 DEF ValidationFallsDue
  <2>3. RowOK(m, r) /\ r.status = mailbox[m].status /\ r.row = mailbox[m].row
    BY <1>0, <2>1 DEF RowOK, MailboxRow
  <2> QED BY <1>2, <2>2, <2>3, OneRowChanges DEF ValidationFallsDue
<1> QED BY <1>1, <1>2

LEMMA ClaimOfValidatorKeeps ==
    ASSUME PoolInv, NEW v \in Validator, ClaimMailboxes(v) PROVE PoolInv'
<1>1. PICK taken \in SUBSET Email :
         /\ mailbox' = [m \in Email |-> IF m \in taken
                                        THEN [mailbox[m] EXCEPT !.owner = v, !.live = TRUE]
                                        ELSE mailbox[m]]
         /\ copies' = [copies EXCEPT ![v] =
                         [m \in Email |-> IF m \in taken THEN mailbox[m].row ELSE 0]]
  BY DEF ClaimMailboxes, kSubset
<1>2. mailbox \in [Email -> MailboxRow] /\ copies \in [Validator -> [Email -> 0 .. MaxRows]]
  BY DEF PoolInv, MailboxTypeOK
<1>3. ASSUME NEW m \in Email
      PROVE  RowOK(m, mailbox'[m]) /\ mailbox'[m].status = mailbox[m].status
                                   /\ mailbox'[m].row = mailbox[m].row
  <2>1. RowOK(m, mailbox[m]) /\ mailbox[m] \in MailboxRow
    BY RowsOK DEF PoolInv, RowOK
  <2>2. [mailbox[m] EXCEPT !.owner = v, !.live = TRUE] \in MailboxRow
    BY <2>1 DEF MailboxRow
  <2> QED BY <1>1, <2>1, <2>2, MailboxAssumption DEF RowOK, MailboxRow
<1>4. mailbox' \in [Email -> MailboxRow]
  BY <1>1, <1>3 DEF RowOK
<1>5. copies' \in [Validator -> [Email -> 0 .. MaxRows]]
  <2>1. \A m \in Email : mailbox[m].row \in 0 .. MaxRows /\ 0 \in 0 .. MaxRows
    BY <1>2, MailboxAssumption DEF MailboxRow
  <2> QED BY <1>1, <1>2, <2>1
<1>6. UNCHANGED <<claims, validated>>
  BY DEF ClaimMailboxes
<1> QED BY <1>3, <1>4, <1>5, <1>6, RowsChange DEF PoolInv, MailboxTypeOK

LEMMA EmptiedCopies ==
    ASSUME MailboxTypeOK, NEW v \in Validator
    PROVE  [copies EXCEPT ![v] = [m \in Email |-> 0]] \in [Validator -> [Email -> 0 .. MaxRows]]
<1>1. 0 \in 0 .. MaxRows
  BY MailboxAssumption
<1> QED BY <1>1 DEF MailboxTypeOK

LEMMA FlushKeeps ==
    ASSUME PoolInv, NEW v \in Validator,
           NEW answers \in [CopiesOf(v) -> ValidationAnswers], FlushCopies(v, answers)
    PROVE  PoolInv'
<1>1. MailboxTypeOK /\ CopiesOf(v) \subseteq Email /\ claims' = claims
  BY DEF PoolInv, CopiesOf, FlushCopies
<1>2. copies' \in [Validator -> [Email -> 0 .. MaxRows]]
  BY <1>1, EmptiedCopies DEF FlushCopies
<1>3. ASSUME NEW m \in CopiesOf(v)
      PROVE  /\ mailbox'[m] = Flushed(m, answers[m]) /\ RowOK(m, mailbox'[m])
             /\ mailbox'[m].row = mailbox[m].row /\ copies[v][m] = mailbox[m].row
             /\ mailbox'[m].status \in {mailbox[m].status, answers[m]}
             /\ answers[m] \in ValidationAnswers
  <2>1. /\ mailbox'[m] = Flushed(m, answers[m]) /\ m \in Email
        /\ mailbox[m].status # "ABSENT" /\ mailbox[m].row = copies[v][m]
    BY <1>1 DEF FlushCopies, StillThere
  <2>2. answers[m] \in ValidationAnswers /\ RowOK(m, mailbox[m])
    BY <1>1, RowsOK
  <2>3. CASE answers[m] = "PENDING_VALIDATION"
    <3>1. Flushed(m, answers[m]) = Unleased(m, mailbox[m].status, FALSE)
      BY <2>3 DEF Flushed
    <3>2. mailbox[m].status \in {"ABSENT", "PENDING_VALIDATION", "ACTIVE", "INVALID", "MANUAL_DISABLED"}
      BY <2>2 DEF RowOK, MailboxRow
    <3>3. PICK s \in {"ABSENT", "PENDING_VALIDATION", "ACTIVE", "INVALID", "MANUAL_DISABLED"} :
            s = mailbox[m].status
      BY <3>2
    <3>4. /\ RowOK(m, Unleased(m, s, FALSE))
          /\ Unleased(m, s, FALSE).status = s /\ Unleased(m, s, FALSE).row = mailbox[m].row
      BY <1>1, <2>1, UnleasedOK
    <3> QED BY <2>1, <2>2, <3>1, <3>3, <3>4
  <2>4. CASE answers[m] # "PENDING_VALIDATION"
    <3>1. answers[m] \in {"ACTIVE", "INVALID"}
      BY <2>2, <2>4 DEF ValidationAnswers
    <3>2. Flushed(m, answers[m]) = Unleased(m, answers[m], TRUE)
      BY <2>4 DEF Flushed
    <3> QED BY <1>1, <2>1, <2>2, <3>1, <3>2, UnleasedOK
  <2> QED BY <2>3, <2>4
<1>4. \A m \in Email \ CopiesOf(v) : mailbox'[m] = mailbox[m]
  BY DEF FlushCopies
<1>5. \A m \in Email : RowOK(m, mailbox'[m])
  BY <1>1, <1>3, <1>4, RowsOK DEF RowOK
<1>6. mailbox' \in [Email -> MailboxRow]
  <2>1. mailbox' = [m \in Email |-> IF m \in CopiesOf(v) THEN Flushed(m, answers[m]) ELSE mailbox[m]]
    BY DEF FlushCopies
  <2> QED BY <1>5, <2>1 DEF RowOK
<1>7. validated' = validated \cup
        {<<m, copies[v][m]>> : m \in {h \in CopiesOf(v) : answers[h] = "ACTIVE"}}
  BY DEF FlushCopies
<1>8. \A m \in Email : mailbox'[m].status = "ACTIVE" =>
         \/ mailbox[m].status = "ACTIVE" /\ mailbox'[m].row = mailbox[m].row
         \/ <<m, mailbox'[m].row>> \in validated'
  BY <1>3, <1>4, <1>7
<1>9. validated' \subseteq Email \X (1 .. MaxRows)
  <2>1. \A m \in CopiesOf(v) : copies[v][m] \in 1 .. MaxRows
    BY <1>1, MailboxAssumption DEF CopiesOf, MailboxTypeOK
  <2> QED BY <1>1, <1>7, <2>1 DEF MailboxTypeOK
<1> QED BY <1>1, <1>2, <1>5, <1>6, <1>7, <1>8, <1>9, RowsChange

LEMMA ValidatorDeathKeeps ==
    ASSUME PoolInv, NEW v \in Validator, ValidatorDies(v) PROVE PoolInv'
<1>1. /\ copies' \in [Validator -> [Email -> 0 .. MaxRows]]
      /\ UNCHANGED <<mailbox, claims, validated>>
  BY EmptiedCopies DEF PoolInv, ValidatorDies
<1> QED BY <1>1, RowsOK, RowsChange DEF PoolInv, MailboxTypeOK, RowOK

LEMMA ValidationClaimKeeps ==
    ASSUME PoolInv, NEW project \in Project, NEW key \in ClaimKey, NEW m \in Email,
           NEW registration \in BOOLEAN, ClaimMailbox(project, key, m, registration)
    PROVE  PoolInv'
<1>1. PICK c : c = [project |-> project, key |-> key, email |-> m,
                    row |-> mailbox[m].row, registration |-> registration]
  OBVIOUS
<1>2. claims' = claims \cup {c} /\ UNCHANGED <<mailbox, copies, validated>>
  BY <1>1 DEF ClaimMailbox
<1>3. /\ <<m, mailbox[m].row>> \in validated /\ RowOK(m, mailbox[m])
      /\ mailbox[m].status = "ACTIVE"
  BY RowsOK DEF PoolInv, ClaimMailbox, ActiveIsValidated
<1>4. c \in MailboxClaim
  BY <1>1, <1>3, MailboxAssumption DEF MailboxClaim, RowOK, MailboxRow
<1>5. /\ \A d \in claims : d.project = c.project => d.email # c.email /\ d.key # c.key
      /\ c.registration => \A d \in claims : d.registration => d.email # c.email
  BY <1>1 DEF ClaimMailbox, Unclaimed
<1>6. NeverGivenTwice'
  BY <1>2, <1>5 DEF PoolInv, NeverGivenTwice
<1>7. OnlyValidatedAreGiven'
  <2>1. <<c.email, c.row>> \in validated
    BY <1>1, <1>3
  <2> QED BY <1>2, <2>1 DEF PoolInv, OnlyValidatedAreGiven
<1>8. MailboxTypeOK'
  BY <1>2, <1>4 DEF PoolInv, MailboxTypeOK
<1>9. ActiveIsValidated'
  BY <1>2 DEF PoolInv, ActiveIsValidated
<1> QED BY <1>6, <1>7, <1>8, <1>9 DEF PoolInv

-----------------------------------------------------------------------------
(* The theorems.                                                           *)

LEMMA PoolInitOK == MailboxInit => PoolInv
  BY MailboxAssumption DEF MailboxInit, PoolInv, MailboxTypeOK, MailboxRow, ActiveIsValidated,
     NeverGivenTwice, OnlyValidatedAreGiven

LEMMA PoolNextOK == PoolInv /\ [MailboxNext]_mailboxVars => PoolInv'
<1> SUFFICES ASSUME PoolInv, [MailboxNext]_mailboxVars PROVE PoolInv'
  OBVIOUS
<1>1. CASE UNCHANGED mailboxVars
  BY <1>1 DEF mailboxVars, PoolInv, MailboxTypeOK, ActiveIsValidated, NeverGivenTwice,
     OnlyValidatedAreGiven
<1>2. CASE MailboxNext
  BY <1>2, OperatorKeeps, TimeKeeps, ClaimOfValidatorKeeps, FlushKeeps, ValidatorDeathKeeps, ValidationClaimKeeps
     DEF MailboxNext, ValidatorStep
<1> QED BY <1>1, <1>2

(* The rows of mailboxes, the copies validators hold and the claims keep   *)
(* their types, and only what was validated is active, although            *)
(* mailbox_validator.py flushes copies of rows that changed meanwhile.     *)
THEOREM PoolInvariant == MailboxSpec => []PoolInv
  BY PoolInitOK, PoolNextOK, PTL DEF MailboxSpec

(* An email goes to a project at most once and is registered at most once, *)
(* whatever operators delete and import again (project_mailbox_claims.py). *)
THEOREM EmailsGivenOnce == MailboxSpec => []NeverGivenTwice
<1>1. PoolInv => NeverGivenTwice
  BY DEF PoolInv
<1> QED BY <1>1, PoolInvariant, PTL

(* Every claim got a row that a validator had found valid, although        *)
(* mailbox_validator.py writes its copies back without a fence.            *)
THEOREM ClaimsAreValidated == MailboxSpec => []OnlyValidatedAreGiven
<1>1. PoolInv => OnlyValidatedAreGiven
  BY DEF PoolInv
<1> QED BY <1>1, PoolInvariant, PTL

-----------------------------------------------------------------------------
(* A disabled mailbox.                                                     *)

\* How a disabled mailbox may be left.
LeavesDisabled(m) ==
    mailbox[m].status = "MANUAL_DISABLED" /\ mailbox'[m].status # "MANUAL_DISABLED" =>
      \/ RevalidateMailbox(m) \/ DeleteMailbox(m)
      \/ /\ \E v \in Validator : StillThere(v, m)
         /\ mailbox'[m].status \in {"ACTIVE", "INVALID"}

LEMMA UnleasedStatus ==
    ASSUME MailboxTypeOK, NEW m \in Email, NEW s, NEW d \in BOOLEAN
    PROVE  Unleased(m, s, d).status = s
  BY DEF Unleased, MailboxTypeOK, MailboxRow

LEMMA OperatorsMayReopen ==
    ASSUME MailboxTypeOK, NEW k \in Email, NEW m \in Email, OperatorStep(k)
    PROVE  LeavesDisabled(m)
<1>1. CASE k = m
  <2>1. CASE ImportMailbox(k) \/ RevalidateMailbox(k) \/ DeleteMailbox(k)
    BY <1>1, <2>1 DEF LeavesDisabled, ImportMailbox
  <2>2. CASE DisableMailbox(k)
    <3>1. mailbox'[m] = Unleased(m, "MANUAL_DISABLED", TRUE)
      BY <1>1, <2>2 DEF DisableMailbox, MailboxTypeOK
    <3>2. Unleased(m, "MANUAL_DISABLED", TRUE).status = "MANUAL_DISABLED"
      BY UnleasedStatus
    <3> QED BY <3>1, <3>2 DEF LeavesDisabled
  <2> QED BY <2>1, <2>2 DEF OperatorStep
<1>2. CASE k # m
  <2>1. mailbox'[m] = mailbox[m]
    BY <1>2 DEF MailboxTypeOK, OperatorStep, ImportMailbox, RevalidateMailbox, DisableMailbox, DeleteMailbox
  <2> QED BY <2>1 DEF LeavesDisabled
<1> QED BY <1>1, <1>2

LEMMA AnswersMayReopen ==
    ASSUME MailboxTypeOK, NEW v \in Validator, NEW m \in Email,
           NEW answers \in [CopiesOf(v) -> ValidationAnswers], FlushCopies(v, answers)
    PROVE  LeavesDisabled(m)
<1>1. CASE m \in CopiesOf(v)
  <2>1. StillThere(v, m) /\ mailbox'[m] = Flushed(m, answers[m]) /\ answers[m] \in ValidationAnswers
    BY <1>1 DEF FlushCopies
  <2>2. mailbox'[m].status = IF answers[m] = "PENDING_VALIDATION" THEN mailbox[m].status ELSE answers[m]
    <3>1. CASE answers[m] = "PENDING_VALIDATION"
      BY <2>1, <3>1, UnleasedStatus DEF Flushed
    <3>2. CASE answers[m] # "PENDING_VALIDATION"
      BY <2>1, <3>2, UnleasedStatus DEF Flushed
    <3> QED BY <3>1, <3>2
  <2> QED BY <2>1, <2>2 DEF LeavesDisabled, ValidationAnswers
<1>2. CASE m \notin CopiesOf(v)
  BY <1>2 DEF FlushCopies, LeavesDisabled
<1> QED BY <1>1, <1>2

(* patch_mailbox alone disables a mailbox; what reopens it is a request of *)
(* an operator or the final answer of a validation that was under way, and *)
(* never a failed validation, a claim, a lease or a delay that ends.       *)
THEOREM DisabledMailboxesStay == MailboxSpec => DisabledMailboxStays
<1>1. MailboxTypeOK /\ [MailboxNext]_mailboxVars => [\A m \in Email : LeavesDisabled(m)]_mailboxVars
  <2> SUFFICES ASSUME MailboxTypeOK, MailboxNext, NEW m \in Email
               PROVE  LeavesDisabled(m)
    OBVIOUS
  <2>1. ASSUME NEW k \in Email, ValidationLeaseEnds(k) \/ ValidationFallsDue(k)
        PROVE  LeavesDisabled(m)
    <3>0. mailbox[k] \in MailboxRow
      BY DEF MailboxTypeOK
    <3>1. PICK row : /\ mailbox' = [mailbox EXCEPT ![k] = row]
                     /\ \/ row = [mailbox[k] EXCEPT !.live = FALSE]
                        \/ row = [mailbox[k] EXCEPT !.due = TRUE]
      BY <2>1 DEF ValidationLeaseEnds, ValidationFallsDue
    <3>2. row.status = mailbox[k].status
      BY <3>0, <3>1 DEF MailboxRow
    <3>3. mailbox'[m].status = mailbox[m].status
      BY <3>1, <3>2 DEF MailboxTypeOK
    <3> QED BY <3>3 DEF LeavesDisabled
  <2>2. ASSUME NEW v \in Validator, ClaimMailboxes(v)
        PROVE  LeavesDisabled(m)
    <3>1. \/ mailbox'[m] = mailbox[m]
          \/ mailbox'[m] = [mailbox[m] EXCEPT !.owner = v, !.live = TRUE]
      BY <2>2 DEF ClaimMailboxes
    <3>2. [mailbox[m] EXCEPT !.owner = v, !.live = TRUE].status = mailbox[m].status
      BY DEF MailboxTypeOK, MailboxRow
    <3> QED BY <3>1, <3>2 DEF LeavesDisabled
  <2>3. CASE UNCHANGED mailbox
    BY <2>3 DEF LeavesDisabled
  <2>4. ASSUME NEW v \in Validator, ValidatorDies(v)
        PROVE  LeavesDisabled(m)
    BY <2>3, <2>4 DEF ValidatorDies
  <2>5. ASSUME NEW project \in Project, NEW key \in ClaimKey, NEW k \in Email, NEW registration \in BOOLEAN,
               ClaimMailbox(project, key, k, registration)
        PROVE  LeavesDisabled(m)
    BY <2>3, <2>5 DEF ClaimMailbox
  <2> QED BY <2>1, <2>2, <2>4, <2>5, OperatorsMayReopen, AnswersMayReopen DEF MailboxNext, ValidatorStep
<1>2. PoolInv => MailboxTypeOK
  BY DEF PoolInv
<1> QED BY <1>1, <1>2, PoolInvariant, PTL DEF MailboxSpec, DisabledMailboxStays, LeavesDisabled

-----------------------------------------------------------------------------
(* Histories of parents.                                                   *)

-----------------------------------------------------------------------------
(* The invariant, one conjunct for the records and one for each parent.    *)

\* What the counters of one record are bounded by.
RecordIsBounded(row) ==
    /\ row.attempts <= row.version
    /\ row.status = "RUNNING" => row.lease <= Horizon

RecordsAreBounded == \A r \in Record : RecordIsBounded(record[r])

Settlements(p) == Ended(p, "SUCCEEDED")

\* CountersMatchHistory, for one parent.
CountsMatch(p) ==
    /\ parent[p].failure = Cardinality(Ended(p, "FAILED"))
    /\ parent[p].success = Cardinality(Settlements(p))
    /\ parent[p].success = parent[p].sequence
    /\ {record[r].sequence : r \in Settlements(p)} = 1 .. parent[p].sequence

\* What the streak of an active parent counts: its last settlements, all
\* poor, back to one that was not.
StreakCounts(p) ==
    parent[p].status = "ACTIVE" =>
      /\ parent[p].streak < Streak /\ parent[p].streak <= parent[p].sequence
      /\ \A r \in Settlements(p) :
           /\ record[r].sequence > parent[p].sequence - parent[p].streak => record[r].low
           /\ record[r].sequence = parent[p].sequence - parent[p].streak => ~record[r].low

\* StreakDecides, for one parent.
ExhaustedByStreak(p) ==
    parent[p].status = "EXHAUSTED" <=> \E k \in 1 .. parent[p].sequence : PoorFrom(p, k)

HistoryOf(p) == CountsMatch(p) /\ StreakCounts(p) /\ ExhaustedByStreak(p)

RegistrationInvariant ==
    /\ RegistrationTypeOK
    /\ RecordsAreBounded
    /\ \A p \in Parent : HistoryOf(p)

\* The history of a parent says what the two properties say of it.
LEMMA HistoriesDecide ==
    ASSUME RegistrationInvariant PROVE HistoryDecides
  BY DEF RegistrationInvariant, HistoryOf, CountsMatch, ExhaustedByStreak, Settlements,
         HistoryDecides, CountersMatchHistory, StreakDecides

-----------------------------------------------------------------------------
(* Steps that settle nothing.                                              *)

\* The row of a record in the state that follows says of its settlement
\* what it said, or it says of both states that there is none.
SameEnd(old, new) ==
    \/ /\ new.status = old.status /\ new.parent = old.parent
       /\ new.sequence = old.sequence /\ new.low = old.low
    \/ {old.status, new.status} \cap {"SUCCEEDED", "FAILED"} = {}

\* A parent whose row and whose settlements are kept keeps its history.
LEMMA HistoryKeeps ==
    ASSUME NEW p \in Parent, HistoryOf(p), parent'[p] = parent[p],
           \A r \in Record : SameEnd(record[r], record'[r])
    PROVE  HistoryOf(p)'
<1>1. Ended(p, "FAILED")' = Ended(p, "FAILED")
  BY DEF Ended, Of, SameEnd
<1>2. Settlements(p)' = Settlements(p)
  BY DEF Settlements, Ended, Of, SameEnd
<1>3. \A r \in Settlements(p) :
        record'[r].sequence = record[r].sequence /\ record'[r].low = record[r].low
  BY DEF Settlements, Ended, Of, SameEnd
<1>4. {record'[r].sequence : r \in Settlements(p)'} = {record[r].sequence : r \in Settlements(p)}
  BY <1>2, <1>3
<1>5. CountsMatch(p)'
  BY <1>1, <1>2, <1>4 DEF HistoryOf, CountsMatch
<1>6. StreakCounts(p)'
  BY <1>2, <1>3 DEF HistoryOf, StreakCounts
<1>7. \A k : PoorFrom(p, k)' <=> PoorFrom(p, k)
  BY <1>2, <1>3 DEF PoorFrom, Settlements
<1>8. ExhaustedByStreak(p)'
  BY <1>7 DEF HistoryOf, ExhaustedByStreak
<1> QED BY <1>5, <1>6, <1>8 DEF HistoryOf

\* What the type invariant says of one row besides its type.
RowIsSound(row) ==
    /\ row \in RecordRow
    /\ RecordIsBounded(row)
    /\ row.status \in Reported => row.staged
    /\ row.status # "ABSENT" <=> row.parent # 0

\* A step that writes one row and settles nothing.
LEMMA RowKeeps ==
    ASSUME RegistrationInvariant, NEW r \in Record, NEW row, RowIsSound(row),
           record' = [record EXCEPT ![r] = row], SameEnd(record[r], row),
           row.parent = record[r].parent \/ parent[row.parent].status # "DELETED",
           parent' = parent, check' \in [Checker -> [Record -> 0 .. MaxVersion]]
    PROVE  RegistrationInvariant'
<1>1. record'[r] = row /\ \A q \in Record \ {r} : record'[q] = record[q]
  BY DEF RegistrationInvariant, RegistrationTypeOK
<1>2. RegistrationTypeOK'
  <2>1. record' \in [Record -> RecordRow]
    BY DEF RegistrationInvariant, RegistrationTypeOK, RowIsSound
  <2>2. parent' \in [Parent -> ParentRow]
    BY DEF RegistrationInvariant, RegistrationTypeOK
  <2>3. ASSUME NEW q \in Record
        PROVE  /\ record'[q].status \in Reported => record'[q].staged
               /\ record'[q].status # "ABSENT" <=> record'[q].parent # 0
               /\ record'[q].parent # 0 => parent'[record'[q].parent].status # "DELETED"
    BY <1>1 DEF RegistrationInvariant, RegistrationTypeOK, RowIsSound
  <2> QED BY <2>1, <2>2, <2>3 DEF RegistrationTypeOK
<1>3. RecordsAreBounded'
  BY <1>1 DEF RegistrationInvariant, RecordsAreBounded, RowIsSound
<1>4. \A q \in Record : SameEnd(record[q], record'[q])
  BY <1>1 DEF SameEnd
<1>5. \A p \in Parent : HistoryOf(p)'
  BY <1>4, HistoryKeeps DEF RegistrationInvariant
<1> QED BY <1>2, <1>3, <1>5 DEF RegistrationInvariant

LEMMA RowsAreSound ==
    ASSUME RegistrationInvariant, NEW r \in Record
    PROVE  RowIsSound(record[r])
  BY DEF RegistrationInvariant, RegistrationTypeOK, RecordsAreBounded, RowIsSound

LEMMA HorizonIsBound ==
    /\ Horizon \in Nat /\ JobLease \in Nat /\ JobTimeout \in Nat
    /\ JobLease <= Horizon /\ JobTimeout <= Horizon
  BY RegistrationAssumption DEF Horizon

LEMMA ClaimKeepsHistories ==
    ASSUME RegistrationInvariant, NEW r \in Record, NEW p \in Parent, ClaimRegistration(r, p)
    PROVE  RegistrationInvariant'
<1> DEFINE old == record[r]
            row == [old EXCEPT !.status = "RUNNING", !.parent = p, !.lease = JobLease]
<1>1. RowIsSound(old) /\ old.status = "ABSENT"
  BY RowsAreSound DEF ClaimRegistration
<1>2. p # 0 /\ JobLease \in Nat /\ JobLease <= Horizon
  BY RegistrationAssumption, HorizonIsBound
<1>3. /\ row \in RecordRow
      /\ row.status = "RUNNING" /\ row.parent = p /\ row.lease = JobLease
      /\ row.attempts = old.attempts /\ row.version = old.version
  BY <1>1, <1>2 DEF RowIsSound, RecordRow, RecordStatus
<1>4. record' = [record EXCEPT ![r] = row]
  BY DEF ClaimRegistration
<1> HIDE DEF row
<1>5. RowIsSound(row)
  BY <1>1, <1>2, <1>3 DEF RowIsSound, RecordIsBounded, Reported
<1>6. SameEnd(old, row)
  BY <1>1, <1>3 DEF SameEnd
<1>7. parent[row.parent].status # "DELETED" /\ parent' = parent /\ check' = check
  BY <1>3 DEF ClaimRegistration
<1> QED
  BY <1>4, <1>5, <1>6, <1>7, RowKeeps DEF RegistrationInvariant, RegistrationTypeOK

LEMMA HeartbeatKeepsHistories ==
    ASSUME RegistrationInvariant, NEW r \in Record, Heartbeat(r)
    PROVE  RegistrationInvariant'
<1> DEFINE old == record[r]
<1>1. RowIsSound(old) /\ old.status = "RUNNING"
  BY RowsAreSound DEF Heartbeat
<1>2. PICK lease \in Nat : lease = Extended(old) /\ lease <= Horizon
  BY <1>1, HorizonIsBound DEF RowIsSound, RecordRow, Extended
<1> DEFINE row == [old EXCEPT !.lease = lease]
<1>3. /\ row \in RecordRow /\ row.lease = lease
      /\ row.status = old.status /\ row.parent = old.parent
      /\ row.attempts = old.attempts /\ row.version = old.version
      /\ row.sequence = old.sequence /\ row.low = old.low
  BY <1>1, <1>2 DEF RowIsSound, RecordRow
<1>4. record' = [record EXCEPT ![r] = row]
  BY <1>2 DEF Heartbeat
<1> HIDE DEF row
<1>5. RowIsSound(row) /\ SameEnd(old, row)
  BY <1>1, <1>2, <1>3 DEF RowIsSound, RecordIsBounded, Reported, SameEnd
<1> QED
  BY <1>3, <1>4, <1>5, RowKeeps DEF Heartbeat, RegistrationInvariant, RegistrationTypeOK

LEMMA ReportKeepsHistories ==
    ASSUME RegistrationInvariant, NEW r \in Record, ReportSession(r)
    PROVE  RegistrationInvariant'
<1> DEFINE old == record[r]
            row == [old EXCEPT !.status = "COOKIE_REPORTED", !.age = 0, !.lease = 0,
                               !.staged = TRUE, !.due = TRUE]
<1>1. RowIsSound(old) /\ old.status = "RUNNING"
  BY RowsAreSound DEF ReportSession
<1>2. 0 \in 0 .. Horizon
  BY HorizonIsBound
<1>3. /\ row \in RecordRow /\ row.status = "COOKIE_REPORTED" /\ row.staged
      /\ row.parent = old.parent
      /\ row.attempts = old.attempts /\ row.version = old.version
  BY <1>1, <1>2 DEF RowIsSound, RecordRow, RecordStatus, Reported
<1>4. record' = [record EXCEPT ![r] = row]
  BY <1>1 DEF ReportSession, Stopped, RowIsSound, RecordRow
<1> HIDE DEF row
<1>5. RowIsSound(row)
  BY <1>1, <1>3 DEF RowIsSound, RecordIsBounded, Reported
<1>6. SameEnd(old, row)
  BY <1>1, <1>3 DEF SameEnd
<1> QED
  BY <1>3, <1>4, <1>5, <1>6, RowKeeps DEF ReportSession, RegistrationInvariant, RegistrationTypeOK

LEMMA RevalidationKeepsHistories ==
    ASSUME RegistrationInvariant, NEW r \in Record, RevalidateRegistration(r)
    PROVE  RegistrationInvariant'
<1> DEFINE old == record[r]
<1>1. RowIsSound(old) /\ old.status = "VALIDATION_FAILED" /\ old.staged
  BY RowsAreSound DEF RevalidateRegistration
<1>2. PICK version \in 0 .. MaxVersion : version = record[r].version + 1
  BY <1>1, RegistrationAssumption DEF RowIsSound, RecordRow, RevalidateRegistration
<1>. PICK none \in 0 .. MaxVersion : none = 0
  BY RegistrationAssumption
<1> DEFINE row == [old EXCEPT !.status = "COOKIE_REPORTED", !.attempts = none, !.due = TRUE,
                               !.owner = NoChecker, !.version = version]
<1>3. /\ row \in RecordRow /\ row.status = "COOKIE_REPORTED" /\ row.staged
      /\ row.parent = old.parent
      /\ row.attempts = none /\ row.version = version
  BY <1>1, <1>2 DEF RowIsSound, RecordRow, RecordStatus, Reported
<1>4. record' = [record EXCEPT ![r] = row]
  BY <1>2 DEF RevalidateRegistration
<1> HIDE DEF row
<1>5. RowIsSound(row)
  BY <1>1, <1>2, <1>3 DEF RowIsSound, RecordIsBounded, Reported
<1>6. SameEnd(old, row)
  BY <1>1, <1>3 DEF SameEnd
<1> QED
  BY <1>3, <1>4, <1>5, <1>6, RowKeeps
  DEF RevalidateRegistration, RegistrationInvariant, RegistrationTypeOK

LEMMA PromotionKeepsHistories ==
    ASSUME RegistrationInvariant, NEW r \in Record, PromoteRegistration(r)
    PROVE  RegistrationInvariant'
<1> DEFINE old == record[r]
            row == [old EXCEPT !.promoted = TRUE, !.staged = FALSE]
<1>1. RowIsSound(old) /\ old.status = "SUCCEEDED"
  BY RowsAreSound DEF PromoteRegistration
<1>3. /\ row \in RecordRow
      /\ row.status = old.status /\ row.parent = old.parent
      /\ row.attempts = old.attempts /\ row.version = old.version
      /\ row.sequence = old.sequence /\ row.low = old.low
  BY <1>1 DEF RowIsSound, RecordRow
<1>4. record' = [record EXCEPT ![r] = row]
  BY DEF PromoteRegistration
<1> HIDE DEF row
<1>5. RowIsSound(row) /\ SameEnd(old, row)
  BY <1>1, <1>3 DEF RowIsSound, RecordIsBounded, Reported, SameEnd
<1> QED
  BY <1>3, <1>4, <1>5, RowKeeps DEF PromoteRegistration, RegistrationInvariant, RegistrationTypeOK

LEMMA AgeKeepsHistories ==
    ASSUME RegistrationInvariant, NEW r \in Record, RegistrationAges(r)
    PROVE  RegistrationInvariant'
<1> DEFINE old == record[r]
<1>1. RowIsSound(old)
  BY RowsAreSound
<1>2. PICK age \in 0 .. Horizon : age = record[r].age + 1
  BY <1>1, HorizonIsBound DEF RowIsSound, RecordRow, RegistrationAges
<1> DEFINE row == [old EXCEPT !.age = age]
<1>3. /\ row \in RecordRow /\ row.lease = old.lease /\ row.staged = old.staged
      /\ row.status = old.status /\ row.parent = old.parent
      /\ row.attempts = old.attempts /\ row.version = old.version
      /\ row.sequence = old.sequence /\ row.low = old.low
  BY <1>1, <1>2 DEF RowIsSound, RecordRow
<1>4. record' = [record EXCEPT ![r] = row]
  BY <1>2 DEF RegistrationAges
<1> HIDE DEF row
<1>5. RowIsSound(row) /\ SameEnd(old, row)
  BY <1>1, <1>3 DEF RowIsSound, RecordIsBounded, SameEnd
<1> QED
  BY <1>3, <1>4, <1>5, RowKeeps DEF RegistrationAges, RegistrationInvariant, RegistrationTypeOK

LEMMA DueKeepsHistories ==
    ASSUME RegistrationInvariant, NEW r \in Record, CheckFallsDue(r)
    PROVE  RegistrationInvariant'
<1> DEFINE old == record[r]
            row == [old EXCEPT !.due = TRUE]
<1>1. RowIsSound(old)
  BY RowsAreSound
<1>3. /\ row \in RecordRow /\ row.lease = old.lease /\ row.staged = old.staged
      /\ row.status = old.status /\ row.parent = old.parent
      /\ row.attempts = old.attempts /\ row.version = old.version
      /\ row.sequence = old.sequence /\ row.low = old.low
  BY <1>1 DEF RowIsSound, RecordRow
<1>4. record' = [record EXCEPT ![r] = row]
  BY DEF CheckFallsDue
<1> HIDE DEF row
<1>5. RowIsSound(row) /\ SameEnd(old, row)
  BY <1>1, <1>3 DEF RowIsSound, RecordIsBounded, SameEnd
<1> QED
  BY <1>3, <1>4, <1>5, RowKeeps DEF CheckFallsDue, RegistrationInvariant, RegistrationTypeOK

\* A claim that is given up names no version.
LEMMA ChecksEnd ==
    ASSUME RegistrationInvariant, NEW c \in Checker, NEW r \in Record, EndCheck(c, r)
    PROVE  check' \in [Checker -> [Record -> 0 .. MaxVersion]]
<1>1. 0 \in 0 .. MaxVersion
  BY RegistrationAssumption
<1> QED BY <1>1 DEF RegistrationInvariant, RegistrationTypeOK, EndCheck

LEMMA FailedCheckKeepsHistories ==
    ASSUME RegistrationInvariant, NEW c \in Checker, NEW r \in Record,
           NEW retryable \in BOOLEAN, CheckFails(c, r, retryable)
    PROVE  RegistrationInvariant'
<1> DEFINE old == record[r]
<1>1. RowIsSound(old) /\ old.status = "VALIDATING"
  BY RowsAreSound DEF CheckFails, CheckMatches
<1>2. PICK status \in {"VALIDATION_RETRY_WAIT", "VALIDATION_FAILED"} :
        /\ status = IF retryable /\ record[r].attempts < CheckAttempts
                    THEN "VALIDATION_RETRY_WAIT" ELSE "VALIDATION_FAILED"
        /\ status = "VALIDATION_RETRY_WAIT" => retryable
  OBVIOUS
<1> DEFINE row == [old EXCEPT !.status = status, !.staged = retryable,
                               !.owner = NoChecker, !.due = FALSE]
<1>3. /\ row \in RecordRow /\ row.status = status /\ row.staged = retryable
      /\ row.parent = old.parent
      /\ row.attempts = old.attempts /\ row.version = old.version
  BY <1>1 DEF RowIsSound, RecordRow, RecordStatus, Reported
<1>4. record' = [record EXCEPT ![r] = row]
  BY <1>2 DEF CheckFails
<1> HIDE DEF row
<1>5. RowIsSound(row)
  BY <1>1, <1>2, <1>3 DEF RowIsSound, RecordIsBounded, Reported
<1>6. SameEnd(old, row)
  BY <1>1, <1>3 DEF SameEnd
<1> QED
  BY <1>3, <1>4, <1>5, <1>6, ChecksEnd, RowKeeps DEF CheckFails

\* A check that has lost its claim writes nothing.
LEMMA DroppedCheckKeepsHistories ==
    ASSUME RegistrationInvariant, NEW c \in Checker, NEW r \in Record, CheckDropped(c, r)
    PROVE  RegistrationInvariant'
<1>1. record' = record /\ parent' = parent /\ check' \in [Checker -> [Record -> 0 .. MaxVersion]]
  BY ChecksEnd DEF CheckDropped
<1>2. \A p \in Parent : HistoryOf(p)'
  BY <1>1, HistoryKeeps DEF RegistrationInvariant, SameEnd
<1>3. RegistrationTypeOK' /\ RecordsAreBounded'
  BY <1>1 DEF RegistrationInvariant, RegistrationTypeOK, RecordsAreBounded
<1> QED BY <1>2, <1>3 DEF RegistrationInvariant
-----------------------------------------------------------------------------
(* A claim of rows for validation writes many of them.                     *)

\* One row of the claim.
Claimed(row, c, attempts, version) ==
    [row EXCEPT !.status = "VALIDATING", !.owner = c, !.due = FALSE,
                !.attempts = attempts, !.version = version]

LEMMA CheckerClaimRow ==
    ASSUME NEW row, RowIsSound(row), NEW c \in Checker,
           NEW attempts \in 0 .. MaxVersion, NEW version \in 0 .. MaxVersion,
           attempts <= version, row.status \in Reported
    PROVE  /\ RowIsSound(Claimed(row, c, attempts, version))
           /\ Claimed(row, c, attempts, version).status = "VALIDATING"
           /\ Claimed(row, c, attempts, version).parent = row.parent
<1> DEFINE new == Claimed(row, c, attempts, version)
<1>1. /\ new \in RecordRow /\ new.status = "VALIDATING" /\ new.parent = row.parent
      /\ new.staged = row.staged /\ new.attempts = attempts /\ new.version = version
  BY DEF RowIsSound, RecordRow, RecordStatus, Reported, Claimed
<1> HIDE DEF new
<1>2. RowIsSound(new)
  BY <1>1 DEF RowIsSound, RecordIsBounded, Reported
<1> QED BY <1>1, <1>2 DEF new

LEMMA CheckClaimKeepsHistories ==
    ASSUME RegistrationInvariant, NEW c \in Checker, NEW rows \in SUBSET Record,
           ClaimForCheck(c, rows)
    PROVE  RegistrationInvariant'
<1>1. ASSUME NEW r \in rows
      PROVE  /\ RowIsSound(record'[r])
             /\ record'[r].status = "VALIDATING" /\ record'[r].parent = record[r].parent
             /\ record[r].status \in Reported
             /\ record[r].version + 1 \in 0 .. MaxVersion
  <2>1. RowIsSound(record[r]) /\ r \in Record
    BY RowsAreSound
  <2>2. record[r].status \in Reported
    BY <2>1 DEF ClaimForCheck, Checkable, Reported
  <2>5. /\ record[r].version \in Nat /\ record[r].version < MaxVersion
        /\ record[r].attempts \in Nat /\ record[r].attempts <= record[r].version
    <3>1. record[r].version < MaxVersion
      BY DEF ClaimForCheck
    <3> QED BY <2>1, <3>1 DEF RowIsSound, RecordIsBounded, RecordRow
  <2>6. PICK attempts \in 0 .. MaxVersion : attempts = record[r].attempts + 1
    BY <2>5, RegistrationAssumption
  <2>3. PICK version \in 0 .. MaxVersion :
          version = record[r].version + 1 /\ attempts <= version
    BY <2>5, <2>6, RegistrationAssumption
  <2>4. record'[r] = Claimed(record[r], c, attempts, version)
    BY <2>1, <2>3, <2>6 DEF ClaimForCheck, Claimed, RowIsSound, RecordRow
  <2> HIDE DEF Claimed
  <2> QED BY <2>1, <2>2, <2>3, <2>4, <2>5, CheckerClaimRow
<1>2. ASSUME NEW r \in Record, r \notin rows PROVE record'[r] = record[r]
  BY <1>2 DEF ClaimForCheck
<1>3. \A r \in Record : RowIsSound(record'[r]) /\ record'[r].parent = record[r].parent
  BY <1>1, <1>2, RowsAreSound
<1>4. \A r \in Record : SameEnd(record[r], record'[r])
  BY <1>1, <1>2 DEF SameEnd, Reported
<1>5. parent' = parent
  BY DEF ClaimForCheck
<1>6. check' \in [Checker -> [Record -> 0 .. MaxVersion]]
  <2>1. [r \in Record |-> IF r \in rows THEN record[r].version + 1 ELSE 0]
          \in [Record -> 0 .. MaxVersion]
    BY <1>1, RegistrationAssumption
  <2> QED BY <2>1 DEF ClaimForCheck, RegistrationInvariant, RegistrationTypeOK
<1>7. RegistrationTypeOK' /\ RecordsAreBounded'
  <2>1. record' \in [Record -> RecordRow]
    <3>1. record' = [r \in Record |-> record'[r]]
      BY DEF ClaimForCheck
    <3>2. \A r \in Record : record'[r] \in RecordRow
      BY <1>3 DEF RowIsSound
    <3> QED BY <3>1, <3>2
  <2> QED
    BY <1>3, <1>5, <1>6, <2>1
    DEF RegistrationInvariant, RegistrationTypeOK, RecordsAreBounded, RowIsSound
<1>8. \A p \in Parent : HistoryOf(p)'
  BY <1>4, <1>5, HistoryKeeps DEF RegistrationInvariant
<1> QED BY <1>7, <1>8 DEF RegistrationInvariant

-----------------------------------------------------------------------------
(* A failure is counted once, by the report or by the expiry.              *)

LEMMA RecordsAreFinite ==
    ASSUME NEW p, NEW status PROVE IsFiniteSet(Ended(p, status))
  BY RegistrationAssumption, FS_Subset DEF Ended, Of

LEMMA FailureKeepsHistories ==
    ASSUME RegistrationInvariant, NEW r \in Record, record[r].status = "RUNNING",
           record' = [record EXCEPT ![r] = Stopped(record[r], "FAILED")],
           CountFailure(record[r].parent), check' = check
    PROVE  RegistrationInvariant'
<1> DEFINE old == record[r]
            row == Stopped(old, "FAILED")
<1>0. PICK o \in Parent : o = record[r].parent
  BY RowsAreSound DEF RowIsSound, RecordRow
<1>1. RowIsSound(old) /\ parent[o].status # "DELETED" /\ parent[o] \in ParentRow
  BY <1>0, RowsAreSound DEF RegistrationInvariant, RegistrationTypeOK, RowIsSound, RecordRow
<1>2. 0 \in 0 .. Horizon
  BY HorizonIsBound
<1>3. /\ row \in RecordRow /\ row.status = "FAILED" /\ row.parent = o
      /\ row.attempts = old.attempts /\ row.version = old.version
  BY <1>0, <1>1, <1>2 DEF RowIsSound, RecordRow, RecordStatus, Stopped
<1>4. record' = [record EXCEPT ![r] = row]
  OBVIOUS
<1> HIDE DEF row
<1>5. RowIsSound(row)
  BY <1>0, <1>1, <1>3 DEF RowIsSound, RecordIsBounded, Reported
<1>6. record'[r] = row /\ \A q \in Record \ {r} : record'[q] = record[q]
  BY <1>4 DEF RegistrationInvariant, RegistrationTypeOK
<1>7. PICK n \in Nat : n = parent[o].failure + 1
  BY <1>1 DEF ParentRow
<1> DEFINE counted == [parent[o] EXCEPT !.failure = n]
<1>8. /\ counted \in ParentRow /\ counted.failure = n
      /\ counted.status = parent[o].status /\ counted.success = parent[o].success
      /\ counted.sequence = parent[o].sequence /\ counted.streak = parent[o].streak
  BY <1>1, <1>7 DEF ParentRow
<1>9. parent' = [parent EXCEPT ![o] = counted]
  BY <1>0, <1>1, <1>7 DEF CountFailure, RegistrationInvariant, RegistrationTypeOK
<1> HIDE DEF counted
<1>10. /\ parent' \in [Parent -> ParentRow]
       /\ parent'[o] = counted /\ \A p \in Parent \ {o} : parent'[p] = parent[p]
  BY <1>1, <1>8, <1>9 DEF RegistrationInvariant, RegistrationTypeOK
<1>11. RegistrationTypeOK' /\ RecordsAreBounded'
  <2>1. record' \in [Record -> RecordRow]
    BY <1>3, <1>4 DEF RegistrationInvariant, RegistrationTypeOK
  <2>2. ASSUME NEW q \in Record
        PROVE  /\ RecordIsBounded(record'[q])
               /\ record'[q].status \in Reported => record'[q].staged
               /\ record'[q].status # "ABSENT" <=> record'[q].parent # 0
               /\ record'[q].parent # 0 => parent'[record'[q].parent].status # "DELETED"
    <3>1. RowIsSound(record'[q]) /\ record'[q].parent = record[q].parent
      BY <1>0, <1>3, <1>5, <1>6, RowsAreSound
    <3>2. record[q].parent # 0 =>
            record[q].parent \in Parent /\ parent[record[q].parent].status # "DELETED"
      BY DEF RegistrationInvariant, RegistrationTypeOK, RecordRow
    <3> QED BY <1>8, <1>10, <3>1, <3>2 DEF RowIsSound
  <2> QED
    BY <1>10, <2>1, <2>2
    DEF RegistrationInvariant, RegistrationTypeOK, RecordsAreBounded
<1>12. ASSUME NEW p \in Parent, p # o PROVE HistoryOf(p)'
  <2>1. Ended(p, "FAILED")' = Ended(p, "FAILED") /\ Settlements(p)' = Settlements(p)
    BY <1>0, <1>3, <1>6, <1>12 DEF Settlements, Ended, Of
  <2>2. r \notin Settlements(p)
    BY DEF Settlements, Ended
  <2>3. \A q \in Settlements(p) : q \in Record /\ record'[q] = record[q]
    BY <1>6, <2>2 DEF Settlements, Ended, Of
  <2>4. {record'[q].sequence : q \in Settlements(p)'} = {record[q].sequence : q \in Settlements(p)}
    BY <2>1, <2>3
  <2>5. CountsMatch(p)'
    BY <1>10, <1>12, <2>1, <2>4 DEF RegistrationInvariant, HistoryOf, CountsMatch
  <2>6. StreakCounts(p)'
    BY <1>10, <1>12, <2>1, <2>3 DEF RegistrationInvariant, HistoryOf, StreakCounts
  <2>7. \A k : PoorFrom(p, k)' <=> PoorFrom(p, k)
    BY <2>1, <2>3 DEF PoorFrom, Settlements
  <2>8. ExhaustedByStreak(p)'
    BY <1>10, <1>12, <2>7 DEF RegistrationInvariant, HistoryOf, ExhaustedByStreak
  <2> QED BY <2>5, <2>6, <2>8 DEF HistoryOf
<1>13. HistoryOf(o)'
  <2> USE <1>0, <1>1
  <2>1. /\ Ended(o, "FAILED")' = Ended(o, "FAILED") \cup {r} /\ r \notin Ended(o, "FAILED")
        /\ Settlements(o)' = Settlements(o) /\ r \notin Settlements(o)
    BY <1>3, <1>6 DEF Settlements, Ended, Of
  <2>2. Cardinality(Ended(o, "FAILED")') = Cardinality(Ended(o, "FAILED")) + 1
    BY <2>1, RecordsAreFinite, FS_AddElement
  <2>3. \A q \in Settlements(o) : q \in Record /\ record'[q] = record[q]
    BY <1>6, <2>1 DEF Settlements, Ended, Of
  <2>4. {record'[q].sequence : q \in Settlements(o)'} = {record[q].sequence : q \in Settlements(o)}
    BY <2>1, <2>3
  <2>5. CountsMatch(o)'
    BY <1>7, <1>8, <1>10, <2>1, <2>2, <2>4 DEF RegistrationInvariant, HistoryOf, CountsMatch
  <2>9. /\ parent'[o].status = parent[o].status /\ parent'[o].streak = parent[o].streak
        /\ parent'[o].sequence = parent[o].sequence
    BY <1>8, <1>10
  <2>6. StreakCounts(o)'
    <3>1. StreakCounts(o)
      BY DEF RegistrationInvariant, HistoryOf
    <3>2. Settlements(o)' = Settlements(o)
      BY <2>1
    <3>3. \A q \in Settlements(o) : 
            record'[q].low = record[q].low /\ record'[q].sequence = record[q].sequence
      BY <2>3
    <3> QED BY ONLY <3>1, <3>2, <3>3, <2>9 DEF StreakCounts
  <2>7. \A k : PoorFrom(o, k)' <=> PoorFrom(o, k)
    BY <2>1, <2>3 DEF PoorFrom, Settlements
  <2>8. ExhaustedByStreak(o)'
    BY <1>8, <1>10, <2>7 DEF RegistrationInvariant, HistoryOf, ExhaustedByStreak
  <2> QED BY <2>5, <2>6, <2>8 DEF HistoryOf
<1> QED BY <1>11, <1>12, <1>13 DEF RegistrationInvariant
-----------------------------------------------------------------------------
(* A settlement gets the next number.                                      *)

\* What the parent's history says once settlement m of record r, poor or
\* not, is added to it.
Settles(p, r, m, low) ==
    /\ m = parent[p].sequence + 1
    /\ Settlements(p)' = Settlements(p) \cup {r} /\ r \notin Settlements(p)
    /\ Ended(p, "FAILED")' = Ended(p, "FAILED")
    /\ record'[r].sequence = m /\ record'[r].low = low
    /\ \A q \in Settlements(p) :
         record'[q].sequence = record[q].sequence /\ record'[q].low = record[q].low
    /\ parent'[p] = Settled(parent[p], low)

\* The row of the parent that settled.
LEMMA SettledRow ==
    ASSUME NEW row \in ParentRow, NEW low \in BOOLEAN,
           row.status = "ACTIVE" => row.streak < Streak
    PROVE  LET new == Settled(row, low)
               streak == IF low THEN row.streak + 1 ELSE 0
           IN  /\ new \in ParentRow
               /\ new.success = row.success + 1 /\ new.sequence = row.sequence + 1
               /\ new.failure = row.failure
               /\ row.status = "ACTIVE" =>
                    /\ new.streak = streak
                    /\ new.status = IF streak >= Streak THEN "EXHAUSTED" ELSE "ACTIVE"
               /\ row.status # "ACTIVE" => new.status = row.status
<1> DEFINE streak == IF low THEN row.streak + 1 ELSE 0
<1>1. /\ row.success \in Nat /\ row.sequence \in Nat /\ row.failure \in Nat
      /\ row.streak \in 0 .. Streak /\ row.status \in {"ACTIVE", "EXHAUSTED", "DELETED"}
  BY DEF ParentRow
<1>2. PICK success \in Nat : success = row.success + 1
  BY <1>1
<1>3. PICK sequence \in Nat : sequence = row.sequence + 1
  BY <1>1
<1>4. PICK s \in 0 .. Streak : s = IF row.status = "ACTIVE" THEN streak ELSE row.streak
  BY <1>1, RegistrationAssumption
<1>5. PICK status \in {"ACTIVE", "EXHAUSTED", "DELETED"} :
        status = IF row.status = "ACTIVE" /\ streak >= Streak THEN "EXHAUSTED" ELSE row.status
  BY <1>1
<1>6. Settled(row, low) = [row EXCEPT !.success = success, !.sequence = sequence,
                                      !.streak = s, !.status = status]
  BY <1>2, <1>3, <1>4, <1>5 DEF Settled, ParentRow
<1>7. LET new == [row EXCEPT !.success = success, !.sequence = sequence,
                             !.streak = s, !.status = status]
      IN  /\ new \in ParentRow
          /\ new.success = success /\ new.sequence = sequence
          /\ new.failure = row.failure /\ new.streak = s /\ new.status = status
  BY DEF ParentRow
<1>8. /\ Settled(row, low) \in ParentRow
      /\ Settled(row, low).success = success /\ Settled(row, low).sequence = sequence
      /\ Settled(row, low).failure = row.failure /\ Settled(row, low).streak = s
      /\ Settled(row, low).status = status
  BY <1>6, <1>7
<1>9. /\ row.status = "ACTIVE" =>
            s = streak /\ status = IF streak >= Streak THEN "EXHAUSTED" ELSE "ACTIVE"
      /\ row.status # "ACTIVE" => status = row.status
  BY <1>4, <1>5
<1> QED BY <1>2, <1>3, <1>8, <1>9

\* The counters stay those of the history.
LEMMA SettlementIsCounted ==
    ASSUME NEW p \in Parent, NEW r \in Record, NEW m, NEW low \in BOOLEAN,
           Settles(p, r, m, low), HistoryOf(p), parent[p] \in ParentRow
    PROVE  CountsMatch(p)'
<1>1. /\ parent[p].sequence \in Nat /\ m = parent[p].sequence + 1
      /\ parent[p].status = "ACTIVE" => parent[p].streak < Streak
  BY DEF ParentRow, Settles, HistoryOf, StreakCounts
<1>2. /\ parent'[p].success = parent[p].success + 1
      /\ parent'[p].sequence = m /\ parent'[p].failure = parent[p].failure
  BY <1>1, SettledRow DEF Settles
<1>3. Cardinality(Settlements(p)') = Cardinality(Settlements(p)) + 1
  BY RecordsAreFinite, FS_AddElement DEF Settlements, Settles
<1>4. {record'[q].sequence : q \in Settlements(p)'}
        = {record[q].sequence : q \in Settlements(p)} \cup {m}
  BY DEF Settles
<1>5. {record[q].sequence : q \in Settlements(p)} = 1 .. parent[p].sequence
  BY DEF HistoryOf, CountsMatch
<1>6. (1 .. parent[p].sequence) \cup {m} = 1 .. m
  BY <1>1
<1> QED
  BY <1>1, <1>2, <1>3, <1>4, <1>5, <1>6 DEF HistoryOf, CountsMatch, Settles

\* The numbers of what was settled before.
LEMMA EarlierIsNumbered ==
    ASSUME NEW p \in Parent, HistoryOf(p)
    PROVE  /\ \A q \in Settlements(p) : record[q].sequence \in 1 .. parent[p].sequence
           /\ \A j \in 1 .. parent[p].sequence :
                \E q \in Settlements(p) : record[q].sequence = j
<1>1. {record[q].sequence : q \in Settlements(p)} = 1 .. parent[p].sequence
  BY DEF HistoryOf, CountsMatch
<1> QED BY <1>1

\* The streak goes on or starts anew.
LEMMA StreakGoesOn ==
    ASSUME NEW p \in Parent, NEW r \in Record, NEW m, NEW low \in BOOLEAN,
           Settles(p, r, m, low), HistoryOf(p), parent[p] \in ParentRow,
           parent[p].status # "DELETED"
    PROVE  StreakCounts(p)'
<1> SUFFICES ASSUME parent'[p].status = "ACTIVE" PROVE StreakCounts(p)'
  BY DEF StreakCounts
<1> DEFINE seq == parent[p].sequence
            s == parent[p].streak
<1>1. /\ seq \in Nat /\ s \in Nat /\ m = seq + 1 /\ Streak \in Nat \ {0}
      /\ parent[p].status \in {"ACTIVE", "EXHAUSTED", "DELETED"}
      /\ parent[p].status = "ACTIVE" => s < Streak /\ s <= seq
  BY RegistrationAssumption DEF ParentRow, Settles, HistoryOf, StreakCounts
<1>2. /\ parent[p].status = "ACTIVE" /\ parent'[p].sequence = m
      /\ parent'[p].streak = IF low THEN s + 1 ELSE 0
      /\ (IF low THEN s + 1 ELSE 0) < Streak
  <2>1. Settled(parent[p], low) = parent'[p]
    BY DEF Settles
  <2>2. parent[p].status = "ACTIVE"
    BY <1>1, <2>1, SettledRow
  <2>3. /\ parent'[p].sequence = m
        /\ parent'[p].streak = IF low THEN s + 1 ELSE 0
        /\ "ACTIVE" = IF (IF low THEN s + 1 ELSE 0) >= Streak THEN "EXHAUSTED" ELSE "ACTIVE"
    BY <1>1, <2>1, <2>2, SettledRow
  <2> QED BY <1>1, <2>2, <2>3
<1>3. \A q \in Settlements(p) :
        /\ record[q].sequence \in 1 .. seq
        /\ record[q].sequence > seq - s => record[q].low
        /\ record[q].sequence = seq - s => ~record[q].low
  BY <1>2, EarlierIsNumbered DEF HistoryOf, StreakCounts
<1>4. ASSUME NEW q \in Settlements(p)'
      PROVE  /\ record'[q].sequence > m - parent'[p].streak => record'[q].low
             /\ record'[q].sequence = m - parent'[p].streak => ~record'[q].low
  <2>1. CASE q = r
    BY <1>1, <1>2, <2>1 DEF Settles
  <2>2. CASE q # r
    <3>1. /\ q \in Settlements(p) /\ record'[q].sequence = record[q].sequence
          /\ record'[q].low = record[q].low
      BY <2>2 DEF Settles
    <3> QED BY <1>1, <1>2, <1>3, <3>1
  <2> QED BY <2>1, <2>2
<1> QED BY <1>1, <1>2, <1>4 DEF StreakCounts

\* The parent is exhausted when, and only when, this completes a streak.
LEMMA StreakExhausts ==
    ASSUME NEW p \in Parent, NEW r \in Record, NEW m, NEW low \in BOOLEAN,
           Settles(p, r, m, low), HistoryOf(p), parent[p] \in ParentRow,
           parent[p].status # "DELETED"
    PROVE  ExhaustedByStreak(p)'
<1> DEFINE seq == parent[p].sequence
            s == parent[p].streak
            streak == IF low THEN s + 1 ELSE 0
<1>1. /\ seq \in Nat /\ s \in Nat /\ m = seq + 1 /\ Streak \in Nat \ {0}
      /\ parent[p].status \in {"ACTIVE", "EXHAUSTED"}
      /\ parent[p].status = "ACTIVE" => s < Streak /\ s <= seq
  BY RegistrationAssumption DEF ParentRow, Settles, HistoryOf, StreakCounts
<1>2. /\ parent'[p].sequence = m
      /\ parent[p].status = "ACTIVE" =>
           parent'[p].status = IF streak >= Streak THEN "EXHAUSTED" ELSE "ACTIVE"
      /\ parent[p].status # "ACTIVE" => parent'[p].status = parent[p].status
  <2>1. Settled(parent[p], low) = parent'[p]
    BY DEF Settles
  <2> QED BY <1>1, <2>1, SettledRow
<1>3. /\ \A q \in Settlements(p) : record[q].sequence \in 1 .. seq
      /\ \A j \in 1 .. seq : \E q \in Settlements(p) : record[q].sequence = j
  BY EarlierIsNumbered
<1>4. /\ \A q \in Settlements(p) :
           record'[q].sequence = record[q].sequence /\ record'[q].low = record[q].low
      /\ record'[r].sequence = m /\ record'[r].low = low
      /\ Settlements(p)' = Settlements(p) \cup {r}
  BY DEF Settles
<1>5. \A k : PoorFrom(p, k) <=>
        \A j \in k .. (k + Streak - 1) : \E q \in Settlements(p) :
          record[q].sequence = j /\ record[q].low
  BY DEF PoorFrom, Settlements
<1>6. \A k : PoorFrom(p, k)' <=>
        \A j \in k .. (k + Streak - 1) : \E q \in Settlements(p)' :
          record'[q].sequence = j /\ record'[q].low
  BY DEF PoorFrom, Settlements
<1>7. \A k : PoorFrom(p, k) => PoorFrom(p, k)'
  BY <1>4, <1>5, <1>6
\* What is poor now was poor before, but for the settlement just made.
<1>8. ASSUME NEW k \in Nat, PoorFrom(p, k)', NEW j \in k .. (k + Streak - 1), j # m
      PROVE  \E q \in Settlements(p) : record[q].sequence = j /\ record[q].low
  BY <1>4, <1>6, <1>8
<1>9. ASSUME NEW k \in 1 .. m, PoorFrom(p, k)', ~PoorFrom(p, k)
      PROVE  k = m - Streak + 1 /\ low
  <2>1. PICK j \in k .. (k + Streak - 1) :
          ~\E q \in Settlements(p) : record[q].sequence = j /\ record[q].low
    BY <1>5, <1>9
  <2>2. j = m
    BY <1>1, <1>8, <1>9, <2>1
  <2>3. PICK q \in Settlements(p)' : record'[q].sequence = m /\ record'[q].low
    BY <1>6, <1>9, <2>1, <2>2
  <2>4. q = r /\ low
    BY <1>1, <1>3, <1>4, <2>3
  <2>5. k + Streak - 1 \in k .. (k + Streak - 1)
    BY <1>1
  <2>6. PICK q2 \in Settlements(p)' : record'[q2].sequence = k + Streak - 1
    BY <1>6, <1>9, <2>5
  <2>7. k + Streak - 1 <= m
    BY <1>1, <1>3, <1>4, <2>6
  <2> QED BY <1>1, <2>1, <2>2, <2>4, <2>7
<1>10. CASE parent[p].status = "EXHAUSTED"
  <2>1. PICK k \in 1 .. seq : PoorFrom(p, k)
    BY <1>10 DEF HistoryOf, ExhaustedByStreak
  <2>2. k \in 1 .. m /\ PoorFrom(p, k)'
    BY <1>1, <1>7, <2>1
  <2> QED BY <1>2, <1>10, <2>2 DEF ExhaustedByStreak
<1>11. CASE parent[p].status = "ACTIVE"
  <2>1. \A k \in 1 .. seq : ~PoorFrom(p, k)
    BY <1>11 DEF HistoryOf, ExhaustedByStreak
  <2>2. ~PoorFrom(p, m)
    <3>1. m \in m .. (m + Streak - 1)
      BY <1>1
    <3> QED BY <1>1, <1>3, <1>5, <3>1
  <2>3. \A k \in 1 .. m : ~PoorFrom(p, k)
    BY <1>1, <2>1, <2>2
  <2>4. \A q \in Settlements(p) :
          /\ record[q].sequence > seq - s => record[q].low
          /\ record[q].sequence = seq - s => ~record[q].low
    BY <1>11 DEF HistoryOf, StreakCounts
  <2>5. CASE low /\ s + 1 >= Streak
    <3>1. s + 1 = Streak
      BY <1>1, <1>11, <2>5
    <3>2. PICK k \in 1 .. m : k = m - Streak + 1
      BY <1>1, <1>11, <3>1
    <3>3. ASSUME NEW j \in k .. (k + Streak - 1)
          PROVE  \E q \in Settlements(p)' : record'[q].sequence = j /\ record'[q].low
      <4>1. CASE j = m
        BY <1>4, <2>5, <4>1
      <4>2. CASE j # m
        <5>2. k \in Int /\ k >= 1 /\ k = seq - s + 1 /\ k + Streak - 1 = seq + 1
          BY <1>1, <3>1, <3>2
        <5>3. j \in Int /\ k <= j /\ j <= k + Streak - 1 /\ j # seq + 1
          BY <1>1, <4>2, <5>2
        <5>1. j \in 1 .. seq /\ j > seq - s
          BY <1>1, <5>2, <5>3
        <5> QED BY <1>3, <1>4, <2>4, <5>1
      <4> QED BY <4>1, <4>2
    <3>4. PoorFrom(p, k)'
      BY <1>6, <3>3
    <3> QED BY <1>2, <1>11, <2>5, <3>4 DEF ExhaustedByStreak
  <2>6. CASE ~(low /\ s + 1 >= Streak)
    <3>1. parent'[p].status = "ACTIVE"
      BY <1>1, <1>2, <1>11, <2>6
    <3>2. ASSUME NEW k \in 1 .. m, PoorFrom(p, k)' PROVE FALSE
      <4>1. k = m - Streak + 1 /\ low
        BY <1>9, <2>3, <3>2
      <4>2. s + 1 < Streak
        BY <1>1, <2>6, <4>1
      <4>3. seq - s \in k .. (k + Streak - 1) /\ seq - s # m
        BY <1>1, <1>11, <4>1, <4>2
      <4>4. PICK q \in Settlements(p) : record[q].sequence = seq - s /\ record[q].low
        BY <1>8, <3>2, <4>3
      <4> QED BY <2>4, <4>4
    <3> QED BY <1>2, <3>1, <3>2 DEF ExhaustedByStreak
  <2> QED BY <2>5, <2>6
<1> QED BY <1>1, <1>10, <1>11

\* apply_registration_validation_success, all of it.
LEMMA SuccessKeepsHistories ==
    ASSUME RegistrationInvariant, NEW c \in Checker, NEW r \in Record, NEW low \in BOOLEAN,
           CheckSucceeds(c, r, low)
    PROVE  RegistrationInvariant'
<1> DEFINE old == record[r]
<1>0. PICK o \in Parent : o = record[r].parent
  BY RowsAreSound DEF RowIsSound, RecordRow, CheckSucceeds, CheckMatches
<1>1. /\ RowIsSound(old) /\ old.status = "VALIDATING"
      /\ parent[o].status # "DELETED" /\ parent[o] \in ParentRow /\ HistoryOf(o)
  BY <1>0, RowsAreSound, RegistrationAssumption
  DEF RegistrationInvariant, RegistrationTypeOK, CheckSucceeds, CheckMatches
<1>2. PICK m \in Nat : m = parent[o].sequence + 1
  BY <1>1 DEF ParentRow
<1> DEFINE row == [old EXCEPT !.status = "SUCCEEDED", !.owner = NoChecker, !.due = FALSE,
                               !.sequence = m, !.low = low]
<1>3. /\ row \in RecordRow /\ row.status = "SUCCEEDED" /\ row.parent = o
      /\ row.attempts = old.attempts /\ row.version = old.version
      /\ row.sequence = m /\ row.low = low
  BY <1>0, <1>1, <1>2 DEF RowIsSound, RecordRow, RecordStatus
<1>4. record' = [record EXCEPT ![r] = row]
  BY <1>0, <1>2 DEF CheckSucceeds
<1> HIDE DEF row
<1>5. RowIsSound(row)
  BY <1>0, <1>1, <1>3 DEF RowIsSound, RecordIsBounded, Reported
<1>6. record'[r] = row /\ \A q \in Record \ {r} : record'[q] = record[q]
  BY <1>4 DEF RegistrationInvariant, RegistrationTypeOK
<1>7. /\ Settled(parent[o], low) \in ParentRow
      /\ Settled(parent[o], low).status # "DELETED"
  BY <1>1, SettledRow DEF HistoryOf, StreakCounts, ParentRow
<1>8. parent' = [parent EXCEPT ![o] = Settled(parent[o], low)]
  BY <1>0 DEF CheckSucceeds
<1>9. /\ parent' \in [Parent -> ParentRow]
      /\ parent'[o] = Settled(parent[o], low)
      /\ \A p \in Parent \ {o} : parent'[p] = parent[p]
  BY <1>7, <1>8 DEF RegistrationInvariant, RegistrationTypeOK
<1>10. RegistrationTypeOK' /\ RecordsAreBounded'
  <2>1. record' \in [Record -> RecordRow]
    BY <1>3, <1>4 DEF RegistrationInvariant, RegistrationTypeOK
  <2>2. ASSUME NEW q \in Record
        PROVE  /\ RecordIsBounded(record'[q])
               /\ record'[q].status \in Reported => record'[q].staged
               /\ record'[q].status # "ABSENT" <=> record'[q].parent # 0
               /\ record'[q].parent # 0 => parent'[record'[q].parent].status # "DELETED"
    <3>1. RowIsSound(record'[q]) /\ record'[q].parent = record[q].parent
      BY <1>0, <1>3, <1>5, <1>6, RowsAreSound
    <3>2. record[q].parent # 0 =>
            record[q].parent \in Parent /\ parent[record[q].parent].status # "DELETED"
      BY DEF RegistrationInvariant, RegistrationTypeOK, RecordRow
    <3> QED BY <1>7, <1>9, <3>1, <3>2 DEF RowIsSound
  <2>3. check' \in [Checker -> [Record -> 0 .. MaxVersion]]
    BY ChecksEnd DEF CheckSucceeds
  <2> QED
    BY <1>9, <2>1, <2>2, <2>3
    DEF RegistrationTypeOK, RecordsAreBounded
<1>11. ASSUME NEW p \in Parent, p # o PROVE HistoryOf(p)'
  <2>1. Ended(p, "FAILED")' = Ended(p, "FAILED") /\ Settlements(p)' = Settlements(p)
    BY <1>0, <1>3, <1>6, <1>11 DEF Settlements, Ended, Of
  <2>2. r \notin Settlements(p)
    BY <1>1 DEF Settlements, Ended
  <2>3. \A q \in Settlements(p) : q \in Record /\ record'[q] = record[q]
    BY <1>6, <2>2 DEF Settlements, Ended, Of
  <2>4. {record'[q].sequence : q \in Settlements(p)'} = {record[q].sequence : q \in Settlements(p)}
    BY <2>1, <2>3
  <2>5. CountsMatch(p)'
    BY <1>9, <1>11, <2>1, <2>4 DEF RegistrationInvariant, HistoryOf, CountsMatch
  <2>6. StreakCounts(p)'
    BY <1>9, <1>11, <2>1, <2>3 DEF RegistrationInvariant, HistoryOf, StreakCounts
  <2>7. \A k : PoorFrom(p, k)' <=> PoorFrom(p, k)
    BY <2>1, <2>3 DEF PoorFrom, Settlements
  <2>8. ExhaustedByStreak(p)'
    BY <1>9, <1>11, <2>7 DEF RegistrationInvariant, HistoryOf, ExhaustedByStreak
  <2> QED BY <2>5, <2>6, <2>8 DEF HistoryOf
<1>12. Settles(o, r, m, low)
  <2>1. /\ Settlements(o)' = Settlements(o) \cup {r} /\ r \notin Settlements(o)
        /\ Ended(o, "FAILED")' = Ended(o, "FAILED")
    BY <1>0, <1>1, <1>3, <1>6 DEF Settlements, Ended, Of
  <2>2. \A q \in Settlements(o) : record'[q] = record[q]
    BY <1>6, <2>1 DEF Settlements, Ended, Of
  <2> QED BY <1>2, <1>3, <1>6, <1>9, <2>1, <2>2 DEF Settles
<1>13. HistoryOf(o)'
  BY <1>1, <1>12, SettlementIsCounted, StreakGoesOn, StreakExhausts DEF HistoryOf
<1> QED BY <1>10, <1>11, <1>13 DEF RegistrationInvariant

-----------------------------------------------------------------------------
(* A parent that is deleted has no registrations, and so no history.       *)

LEMMA DeletionKeepsHistories ==
    ASSUME RegistrationInvariant, NEW p \in Parent, DeleteParent(p)
    PROVE  RegistrationInvariant'
<1>1. /\ record' = record /\ check' = check
      /\ parent' = [parent EXCEPT ![p].status = "DELETED"]
      /\ \A r \in Record : record[r].parent # p
  BY DEF DeleteParent
<1>2. parent[p] \in ParentRow /\ parent \in [Parent -> ParentRow]
  BY DEF RegistrationInvariant, RegistrationTypeOK
<1>3. /\ parent' \in [Parent -> ParentRow]
      /\ parent'[p] = [parent[p] EXCEPT !.status = "DELETED"]
      /\ \A q \in Parent \ {p} : parent'[q] = parent[q]
  BY <1>1, <1>2 DEF ParentRow
<1>4. /\ parent'[p].status = "DELETED"
      /\ parent'[p].success = parent[p].success /\ parent'[p].failure = parent[p].failure
      /\ parent'[p].sequence = parent[p].sequence /\ parent'[p].streak = parent[p].streak
  BY <1>2, <1>3 DEF ParentRow
<1>5. RegistrationTypeOK' /\ RecordsAreBounded'
  BY <1>1, <1>3 DEF RegistrationInvariant, RegistrationTypeOK, RecordsAreBounded
<1>6. ASSUME NEW q \in Parent, q # p PROVE HistoryOf(q)'
  BY <1>1, <1>3, <1>6, HistoryKeeps DEF RegistrationInvariant, SameEnd
<1>7. HistoryOf(p)'
  <2>1. \A status : Ended(p, status) = {} /\ Ended(p, status)' = {}
    BY <1>1 DEF Ended, Of
  <2>2. CountsMatch(p)
    BY DEF RegistrationInvariant, HistoryOf
  <2>3. CountsMatch(p)'
    BY <1>4, <2>1, <2>2 DEF CountsMatch, Settlements
  <2>4. 1 .. parent'[p].sequence = {}
    BY <2>1, <2>3 DEF CountsMatch, Settlements
  <2>5. StreakCounts(p)' /\ ExhaustedByStreak(p)'
    BY <1>4, <2>4 DEF StreakCounts, ExhaustedByStreak
  <2> QED BY <2>3, <2>5 DEF HistoryOf
<1> QED BY <1>5, <1>6, <1>7 DEF RegistrationInvariant

-----------------------------------------------------------------------------
LEMMA RegistrationStarts ==
    RegistrationInit => RegistrationInvariant
<1> SUFFICES ASSUME RegistrationInit PROVE RegistrationInvariant
  OBVIOUS
<1>1. PICK none \in 0 .. Horizon : none = 0
  BY HorizonIsBound
<1>2. PICK unclaimed \in 0 .. MaxVersion : unclaimed = 0
  BY RegistrationAssumption
<1>3. PICK streak \in 0 .. Streak : streak = 0
  BY RegistrationAssumption
<1>4. record \in [Record -> RecordRow]
  BY <1>1, <1>2 DEF RegistrationInit, RecordRow, RecordStatus
<1>5. parent \in [Parent -> ParentRow]
  BY <1>3 DEF RegistrationInit, ParentRow
<1>6. check \in [Checker -> [Record -> 0 .. MaxVersion]]
  BY <1>2 DEF RegistrationInit
<1>7. \A r \in Record :
        /\ record[r].status = "ABSENT" /\ record[r].parent = 0
        /\ record[r].attempts = 0 /\ record[r].version = 0
  BY DEF RegistrationInit
<1>8. \A p \in Parent :
        /\ parent[p].status = "ACTIVE" /\ parent[p].success = 0 /\ parent[p].failure = 0
        /\ parent[p].sequence = 0 /\ parent[p].streak = 0
  BY DEF RegistrationInit
<1>9. RegistrationTypeOK /\ RecordsAreBounded
  BY <1>4, <1>5, <1>6, <1>7
  DEF RegistrationTypeOK, RecordsAreBounded, RecordIsBounded, Reported
<1>10. ASSUME NEW p \in Parent PROVE HistoryOf(p)
  <2>1. Ended(p, "FAILED") = {} /\ Settlements(p) = {}
    BY <1>7 DEF Settlements, Ended, Of
  <2>2. Cardinality({}) = 0
    BY FS_EmptySet
  <2>5. {record[r].sequence : r \in {}} = 1 .. 0
    OBVIOUS
  <2>3. CountsMatch(p)
    BY <1>8, <2>1, <2>2, <2>5 DEF CountsMatch
  <2>4. StreakCounts(p) /\ ExhaustedByStreak(p)
    BY <1>8, <2>1, RegistrationAssumption DEF StreakCounts, ExhaustedByStreak
  <2> QED BY <2>3, <2>4 DEF HistoryOf
<1> QED BY <1>9, <1>10 DEF RegistrationInvariant

LEMMA RegistrationGoesOn ==
    RegistrationInvariant /\ [RegistrationNext]_registrationVars => RegistrationInvariant'
<1> SUFFICES ASSUME RegistrationInvariant, [RegistrationNext]_registrationVars
              PROVE  RegistrationInvariant'
  OBVIOUS
<1>1. CASE \E r \in Record, p \in Parent : ClaimRegistration(r, p)
  BY <1>1, ClaimKeepsHistories
<1>2. ASSUME NEW r \in Record,
             \/ Heartbeat(r) \/ ReportFailure(r) \/ ReportSession(r)
             \/ ExpireRegistration(r) \/ RevalidateRegistration(r) \/ PromoteRegistration(r)
             \/ RegistrationAges(r) \/ CheckFallsDue(r)
      PROVE  RegistrationInvariant'
  <2>1. CASE ReportFailure(r) \/ ExpireRegistration(r)
    BY <2>1, FailureKeepsHistories DEF ReportFailure, ExpireRegistration
  <2> QED
    BY <1>2, <2>1, HeartbeatKeepsHistories, ReportKeepsHistories, RevalidationKeepsHistories,
       PromotionKeepsHistories, AgeKeepsHistories, DueKeepsHistories
<1>3. CASE \E c \in Checker, rows \in SUBSET Record : ClaimForCheck(c, rows)
  BY <1>3, CheckClaimKeepsHistories
<1>4. ASSUME NEW c \in Checker, NEW r \in Record,
             \/ \E outcome \in BOOLEAN : CheckSucceeds(c, r, outcome) \/ CheckFails(c, r, outcome)
             \/ CheckDropped(c, r)
      PROVE  RegistrationInvariant'
  BY <1>4, SuccessKeepsHistories, FailedCheckKeepsHistories, DroppedCheckKeepsHistories
<1>5. CASE \E p \in Parent : DeleteParent(p)
  BY <1>5, DeletionKeepsHistories
<1>6. CASE UNCHANGED registrationVars
  <2>1. record' = record /\ parent' = parent /\ check' = check
    BY <1>6 DEF registrationVars
  <2>2. \A p \in Parent : HistoryOf(p)'
    BY <2>1, HistoryKeeps DEF RegistrationInvariant, SameEnd
  <2>3. RegistrationTypeOK' /\ RecordsAreBounded'
    BY <2>1 DEF RegistrationInvariant, RegistrationTypeOK, RecordsAreBounded
  <2> QED BY <2>2, <2>3 DEF RegistrationInvariant
<1> QED
  BY <1>1, <1>2, <1>3, <1>4, <1>5, <1>6 DEF RegistrationNext

(* A parent's counters and whether it is exhausted are what its settled    *)
(* registrations say: however reports, expiry and validations of a record  *)
(* race, it is counted once (registration_records.py,                      *)
(* registration_validator.py), settlements are numbered without a gap, and *)
(* exactly a streak of poor ones exhausts (settle_success).                *)
THEOREM ParentsFollowTheirHistory == RegistrationSpec => []HistoryDecides
<1>1. RegistrationInvariant => HistoryDecides
  BY HistoriesDecide
<1> QED
  BY <1>1, RegistrationStarts, RegistrationGoesOn, PTL DEF RegistrationSpec

(* A registration whose deadline has passed is always one that the expiry  *)
(* scan selects: no heartbeat extends a lease past it.                     *)
THEOREM DeadlinesEndLeases == RegistrationSpec => []DeadlineEndsLease
<1>1. RegistrationInvariant => DeadlineEndsLease
  BY DEF RegistrationInvariant, RecordsAreBounded, RecordIsBounded, DeadlineEndsLease
<1> QED
  BY <1>1, RegistrationStarts, RegistrationGoesOn, PTL DEF RegistrationSpec
=============================================================================
