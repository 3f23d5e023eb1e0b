---------------------------- MODULE MailboxPool ----------------------------
(***************************************************************************)
(* The pool of mailboxes.  Operators import, disable, revalidate and       *)
(* delete mailboxes; validator processes lease the ones that await         *)
(* validation, ask the provider about copies of the rows and write the     *)
(* copies back in one transaction; projects and registrations claim active *)
(* mailboxes for good.                                                     *)
(*                                                                         *)
(* A mailbox is named by its email.  A row that is deleted and imported    *)
(* again is another row with the same email.  Versions are left out: only  *)
(* an operator's patch compares them, and it can always be repeated with   *)
(* the current one.                                                        *)
(***************************************************************************)
EXTENDS Integers, FiniteSets, FiniteSetsExt

CONSTANTS
    Email,
    Project,
    ClaimKey,        \* idempotency keys of claims
    Validator,       \* mailbox_validator processes
    NoValidator,     \* a NULL lease owner
    ValidationBatch, \* settings.mailbox_validation_batch_size
    MaxRows          \* bound: how often one email is imported

ASSUME MailboxAssumption ==
    /\ IsFiniteSet(Email)
    /\ NoValidator \notin Validator
    /\ ValidationBatch \in Nat \ {0} /\ MaxRows \in Nat

VARIABLES
    mailbox,   \* rows of mailboxes
    copies,    \* the copies a validator holds: email -> row, 0 for none
    claims,    \* rows of project_mailbox_claims
    validated  \* history: the rows that a validation found valid

mailboxVars == <<mailbox, copies, claims, validated>>

-----------------------------------------------------------------------------

MailboxRow == [row : 0 .. MaxRows,   \* the latest row with this email
               status : {"ABSENT", "PENDING_VALIDATION", "ACTIVE", "INVALID",
                         "MANUAL_DISABLED"},
               owner : Validator \cup {NoValidator},
               live : BOOLEAN,       \* validation_lease_until >= now
               due : BOOLEAN]        \* next_validation_at IS NULL or <= now

\* A claim keeps the email when its mailbox is deleted (ON DELETE SET NULL).
MailboxClaim == [project : Project, key : ClaimKey, email : Email, row : 1 .. MaxRows,
                 registration : BOOLEAN]

MailboxInit ==
    /\ mailbox = [m \in Email |-> [row |-> 0, status |-> "ABSENT", owner |-> NoValidator,
                                   live |-> FALSE, due |-> FALSE]]
    /\ copies = [v \in Validator |-> [m \in Email |-> 0]]
    /\ claims = {}
    /\ validated = {}

-----------------------------------------------------------------------------
(* Operators: api/mailboxes.py.                                            *)

Unleased(m, status, due) ==
    [mailbox[m] EXCEPT !.status = status, !.owner = NoValidator, !.live = FALSE, !.due = due]

ImportMailbox(m) ==
    /\ mailbox[m].status = "ABSENT"
    /\ mailbox[m].row < MaxRows
    /\ mailbox' = [mailbox EXCEPT ![m] =
                     [Unleased(m, "PENDING_VALIDATION", TRUE) EXCEPT !.row = mailbox[m].row + 1]]
    /\ UNCHANGED <<copies, claims, validated>>

\* revalidate_mailbox, whatever the status; patch_mailbox asks for the same.
RevalidateMailbox(m) ==
    /\ mailbox[m].status # "ABSENT"
    /\ mailbox' = [mailbox EXCEPT ![m] = Unleased(m, "PENDING_VALIDATION", TRUE)]
    /\ UNCHANGED <<copies, claims, validated>>

\* patch_mailbox with MANUAL_DISABLED
DisableMailbox(m) ==
    /\ mailbox[m].status # "ABSENT"
    /\ mailbox' = [mailbox EXCEPT ![m] = Unleased(m, "MANUAL_DISABLED", TRUE)]
    /\ UNCHANGED <<copies, claims, validated>>

DeleteMailbox(m) ==
    /\ mailbox[m].status # "ABSENT"
    /\ mailbox' = [mailbox EXCEPT ![m] = Unleased(m, "ABSENT", FALSE)]
    /\ UNCHANGED <<copies, claims, validated>>

-----------------------------------------------------------------------------
(* Validators: mailbox_validator.py.                                       *)

\* Mutant of AwaitsValidation: only rows that were never leased.
AwaitsValidationUnleased(m) ==
    /\ mailbox[m].status = "PENDING_VALIDATION"
    /\ mailbox[m].due
    /\ mailbox[m].owner = NoValidator

AwaitsValidation(m) ==
    /\ mailbox[m].status = "PENDING_VALIDATION"
    /\ mailbox[m].due
    /\ ~mailbox[m].live

NoCopies(v) == \A m \in Email : copies[v][m] = 0

\* claim_mailboxes: the oldest due rows, up to the size of a batch.
ClaimMailboxes(v) ==
    LET waiting == {m \in Email : AwaitsValidation(m)} IN
    /\ NoCopies(v)
    /\ waiting # {}
    /\ \E taken \in kSubset(IF Cardinality(waiting) < ValidationBatch
                            THEN Cardinality(waiting) ELSE ValidationBatch, waiting) :
         /\ mailbox' = [m \in Email |->
                          IF m \in taken
                          THEN [mailbox[m] EXCEPT !.owner = v, !.live = TRUE]
                          ELSE mailbox[m]]
         /\ copies' = [copies EXCEPT ![v] =
                         [m \in Email |-> IF m \in taken THEN mailbox[m].row ELSE 0]]
    /\ UNCHANGED <<claims, validated>>

\* Mutant of Flushed: the whole copy is written, not what changed in it.
FlushedWhole(m, answer) == Unleased(m, answer, answer # "PENDING_VALIDATION")

\* What the UPDATE of a copy does to the row: the columns that the answer
\* changed in the copy.  A copy was taken in PENDING_VALIDATION, so a transient
\* failure leaves the status alone; a final answer empties next_validation_at.
Flushed(m, answer) ==
    IF answer = "PENDING_VALIDATION"
    THEN Unleased(m, mailbox[m].status, FALSE)
    ELSE Unleased(m, answer, TRUE)

CopiesOf(v) == {m \in Email : copies[v][m] # 0}

\* Mutant of StillThere: the row is found by its email.
StillThereByEmail(v, m) == mailbox[m].status # "ABSENT" /\ copies[v][m] # 0

\* The UPDATE matches a row.
StillThere(v, m) == mailbox[m].status # "ABSENT" /\ mailbox[m].row = copies[v][m]

\* validate_claimed_mailbox for every copy, then the flush of run_validator:
\* no fence but the existence of the rows.
FlushCopies(v, answers) ==
    /\ ~NoCopies(v)
    /\ \A m \in CopiesOf(v) : StillThere(v, m)
    /\ mailbox' = [m \in Email |-> IF m \in CopiesOf(v) THEN Flushed(m, answers[m]) ELSE mailbox[m]]
    /\ validated' = validated \cup {<<m, copies[v][m]>> : m \in {h \in CopiesOf(v) : answers[h] = "ACTIVE"}}
    /\ copies' = [copies EXCEPT ![v] = [m \in Email |-> 0]]
    /\ UNCHANGED claims

\* The process dies; it always does when a row of its batch was deleted.
ValidatorDies(v) ==
    /\ ~NoCopies(v)
    /\ copies' = [copies EXCEPT ![v] = [m \in Email |-> 0]]
    /\ UNCHANGED <<mailbox, claims, validated>>

ValidationLeaseEnds(m) ==
    /\ mailbox[m].live
    /\ mailbox' = [mailbox EXCEPT ![m].live = FALSE]
    /\ UNCHANGED <<copies, claims, validated>>

ValidationFallsDue(m) ==
    /\ mailbox[m].status # "ABSENT" /\ ~mailbox[m].due
    /\ mailbox' = [mailbox EXCEPT ![m].due = TRUE]
    /\ UNCHANGED <<copies, claims, validated>>

-----------------------------------------------------------------------------
(* Claims: project_mailbox_claims.py, and claim_registration_job as far as *)
(* it takes a mailbox.  Both lock the row of the project first.            *)

\* Mutant of Unclaimed: tombstones are compared by row.
UnclaimedRow(project, m, registration) ==
    /\ \A c \in claims : c.project = project => <<c.email, c.row>> # <<m, mailbox[m].row>>
    /\ registration => \A c \in claims : c.registration => c.email # m

\* Tombstones of the project, and for a registration those of all others.
Unclaimed(project, m, registration) ==
    /\ \A c \in claims : c.project = project => c.email # m
    /\ registration => \A c \in claims : c.registration => c.email # m

\* A known key of the project replays its claim and changes nothing.
ClaimMailbox(project, key, m, registration) ==
    /\ \A c \in claims : c.project = project => c.key # key
    /\ mailbox[m].status = "ACTIVE"
    /\ Unclaimed(project, m, registration)
    /\ claims' = claims \cup {[project |-> project, key |-> key, email |-> m,
                               row |-> mailbox[m].row, registration |-> registration]}
    /\ UNCHANGED <<mailbox, copies, validated>>

-----------------------------------------------------------------------------

ValidationAnswers == {"ACTIVE", "INVALID", "PENDING_VALIDATION"}

OperatorStep(m) ==
    \/ ImportMailbox(m)
    \/ RevalidateMailbox(m)
    \/ DisableMailbox(m)
    \/ DeleteMailbox(m)

ValidatorStep(v) ==
    \/ ClaimMailboxes(v)
    \/ \E answers \in [CopiesOf(v) -> ValidationAnswers] : FlushCopies(v, answers)
    \/ ValidatorDies(v)

MailboxNext ==
    \/ \E m \in Email : OperatorStep(m) \/ ValidationLeaseEnds(m) \/ ValidationFallsDue(m)
    \/ \E v \in Validator : ValidatorStep(v)
    \/ \E project \in Project, key \in ClaimKey, m \in Email, registration \in BOOLEAN :
         ClaimMailbox(project, key, m, registration)

MailboxSpec == MailboxInit /\ [][MailboxNext]_mailboxVars

-----------------------------------------------------------------------------
(* Properties.                                                             *)

(* Rows and claims have their types; only a row of the pool is leased.     *)
MailboxTypeOK ==
    /\ mailbox \in [Email -> MailboxRow]
    /\ copies \in [Validator -> [Email -> 0 .. MaxRows]]
    /\ claims \subseteq MailboxClaim
    /\ validated \subseteq Email \X (1 .. MaxRows)
    /\ \A m \in Email : mailbox[m].live => mailbox[m].owner # NoValidator
    /\ \A m \in Email : mailbox[m].status # "ABSENT" => mailbox[m].row # 0

(* An email goes to a project at most once and is registered at most once, *)
(* although mailboxes are deleted and imported again and claims are        *)
(* repeated; a key names one claim of a project.                           *)
NeverGivenTwice ==
    \A c, d \in claims :
      /\ c.project = d.project /\ (c.email = d.email \/ c.key = d.key) => c = d
      /\ c.registration /\ d.registration /\ c.email = d.email => c = d

(* What is given away was validated, it and not an earlier row of its      *)
(* email, although validations are written back without a fence.           *)
OnlyValidatedAreGiven ==
    \A c \in claims : <<c.email, c.row>> \in validated

(* A mailbox that an operator disabled stays so until an operator asks for *)
(* it or deletes it, except for the final answer of a validation that was  *)
(* under way when it was disabled; a failed validation never reopens it.   *)
DisabledMailboxStays ==
    [][\A m \in Email :
         mailbox[m].status = "MANUAL_DISABLED" /\ mailbox'[m].status # "MANUAL_DISABLED" =>
           \/ RevalidateMailbox(m) \/ DeleteMailbox(m)
           \/ /\ \E v \in Validator : StillThere(v, m)
              /\ mailbox'[m].status \in {"ACTIVE", "INVALID"}]_mailboxVars

(* run_validator repeats and its calls time out; leases and delays end.    *)
MailboxFairness ==
    /\ \A v \in Validator : WF_mailboxVars(ClaimMailboxes(v))
    /\ \A v \in Validator : WF_mailboxVars(ValidatorStep(v))
    /\ \A m \in Email : WF_mailboxVars(ValidationLeaseEnds(m))
    /\ \A m \in Email : WF_mailboxVars(ValidationFallsDue(m))

UnderValidation(m) == \E v \in Validator : StillThere(v, m)

(* A mailbox that awaits validation is taken up by a validator, also when  *)
(* an earlier one died with it.                                            *)
PendingIsTakenUp ==
    \A m \in Email :
      mailbox[m].status = "PENDING_VALIDATION" /\ ~UnderValidation(m)
        ~> mailbox[m].status # "PENDING_VALIDATION" \/ UnderValidation(m)
=============================================================================
