--------------------------- MODULE AccountRoster ---------------------------
(***************************************************************************)
(* Accounts come and go: operators add them, export their credentials, and *)
(* delete them, one by one or in bulk with the receipt of an export, while *)
(* workers and desktops go on using them.                                  *)
(*                                                                         *)
(* A transaction that deletes locks the rows of its selection and decides  *)
(* by what it reads under these locks.  Whoever adds a row that refers to  *)
(* an account (a task, an attempt, an asset, an entry of the credit        *)
(* ledger, a login job) holds a lock on the account until it commits, as   *)
(* the foreign key demands; such rows are never removed.                   *)
(***************************************************************************)
EXTENDS Integers, FiniteSets, Sequences

CONSTANTS
    Operator,     \* deleting calls of the API in progress
    ReceiptLife,  \* ACCOUNT_EXPORT_RECEIPT_TTL_SECONDS
    MaxAccounts,  \* bound: accounts that are ever created
    MaxReceipts,  \* bound: receipts of different exports
    MaxDate       \* bound: the last instant

ASSUME RosterAssumption == {ReceiptLife, MaxAccounts, MaxReceipts, MaxDate} \subseteq Nat

VARIABLES
    date,
    roster,   \* accounts ever created: whether they have active tasks or reservations
    using,    \* accounts that an open transaction adds a referring row to
    used,     \* accounts that a committed row refers to, ON DELETE RESTRICT
    receipts, \* signed receipts: a selection and the instant it expires
    operator, \* the deletion a call is about
    deleted,  \* history: accounts that were deleted, and how
    refused   \* history: whether the database ever refused a deletion

rosterVars == <<date, roster, using, used, receipts, operator, deleted, refused>>

NoCall == [stage |-> "idle", selection |-> {}, bulk |-> FALSE, checked |-> 0, seen |-> {}]

RosterInit ==
    /\ date = 0
    /\ roster = <<>>
    /\ using = {} /\ used = {}
    /\ receipts = {}
    /\ operator = [o \in Operator |-> NoCall]
    /\ deleted = {}
    /\ refused = FALSE

Present == DOMAIN roster \ {d.account : d \in deleted}

\* Rows that a deleting transaction has locked.
LockedRows == UNION {operator[o].selection : o \in {p \in Operator : operator[p].stage = "locked"}}

DatePasses ==
    /\ date < MaxDate
    /\ date' = date + 1
    /\ UNCHANGED <<roster, using, used, receipts, operator, deleted, refused>>

\* add_account; each has an id and a uuid of its own, whatever its name.
AddAccount ==
    /\ Len(roster) < MaxAccounts
    /\ roster' = Append(roster, FALSE)
    /\ UNCHANGED <<date, using, used, receipts, operator, deleted, refused>>

\* claim_and_assign counts a task on the account and refers to it; a login
\* job, or an attempt that was counted before, only refers to it.
StartUse(a, counts) ==
    /\ a \in Present \ (LockedRows \cup using)
    /\ using' = using \cup {a}
    /\ roster' = [roster EXCEPT ![a] = @ \/ counts]
    /\ UNCHANGED <<date, used, receipts, operator, deleted, refused>>

CommitUse(a) ==
    /\ a \in using
    /\ using' = using \ {a}
    /\ used' = used \cup {a}
    /\ UNCHANGED <<date, roster, receipts, operator, deleted, refused>>

\* The last task of the account ends and its reservation with it.
EndTasks(a) ==
    /\ a \in used \ (LockedRows \cup using)
    /\ roster[a]
    /\ roster' = [roster EXCEPT ![a] = FALSE]
    /\ UNCHANGED <<date, using, used, receipts, operator, deleted, refused>>

-----------------------------------------------------------------------------
(* Export and deletion.                                                    *)

\* export_account_credentials answers for a selection without missing
\* accounts only.
ExportCredentials(selection) ==
    /\ selection # {} /\ selection \subseteq Present
    /\ receipts' = receipts \cup {[selection |-> selection, expires |-> date + ReceiptLife]}
    /\ Cardinality(receipts') <= MaxReceipts
    /\ UNCHANGED <<date, roster, using, used, operator, deleted, refused>>

\* Mutant of Covers: the receipt is of some export.
CoversAny(r, selection) == r.expires >= date

\* verify_account_export_receipt: count and hash of the selection.
Covers(r, selection) == r.selection = selection /\ r.expires >= date

\* bulk_delete_accounts has verified the receipt; the selection may name
\* accounts that are gone by now.
StartBulkDelete(o, selection) ==
    /\ operator[o].stage = "idle"
    /\ \E r \in receipts : Covers(r, selection)
    /\ operator' = [operator EXCEPT ![o] =
                      [NoCall EXCEPT !.stage = "verified", !.selection = selection,
                                     !.bulk = TRUE, !.checked = date]]
    /\ UNCHANGED <<date, roster, using, used, receipts, deleted, refused>>

\* delete_account
StartDelete(o, a) ==
    /\ operator[o].stage = "idle"
    /\ operator' = [operator EXCEPT ![o] =
                      [NoCall EXCEPT !.stage = "verified", !.selection = {a}, !.checked = date]]
    /\ UNCHANGED <<date, roster, using, used, receipts, deleted, refused>>

\* classify_account_deletions: the SELECT FOR UPDATE waits for whoever uses
\* or deletes a selected account; its view of history begins after that.
LockSelection(o) ==
    LET there == operator[o].selection \cap Present IN
    /\ operator[o].stage = "verified"
    /\ there \cap (using \cup LockedRows) = {}
    /\ operator' = [operator EXCEPT ![o].stage = "locked", ![o].selection = there, ![o].seen = used]
    /\ UNCHANGED <<date, roster, using, used, receipts, deleted, refused>>

\* Mutant of Deletable: what has no tasks now is deleted.
DeletableWhenIdle(o) == {a \in operator[o].selection : ~roster[a]}

\* Outcome DELETABLE: neither tasks nor reservations nor history.
Deletable(o) == {a \in operator[o].selection : ~roster[a] /\ a \notin operator[o].seen}

\* The deletion, which foreign keys may refuse as a whole; protected accounts
\* of a bulk are skipped, a protected one alone is a conflict.
DeleteSelected(o) ==
    /\ operator[o].stage = "locked"
    /\ IF Deletable(o) \cap used = {}
       THEN /\ deleted' = deleted \cup
                 {[account |-> a, bulk |-> operator[o].bulk, checked |-> operator[o].checked] :
                    a \in Deletable(o)}
            /\ UNCHANGED refused
       ELSE refused' = TRUE /\ UNCHANGED deleted
    /\ operator' = [operator EXCEPT ![o] = NoCall]
    /\ UNCHANGED <<date, roster, using, used, receipts>>

RosterNext ==
    \/ DatePasses
    \/ AddAccount
    \/ \E a \in 1 .. MaxAccounts :
         \/ StartUse(a, TRUE) \/ StartUse(a, FALSE)
         \/ CommitUse(a)
         \/ EndTasks(a)
    \/ \E selection \in SUBSET DOMAIN roster : ExportCredentials(selection)
    \/ \E o \in Operator :
         \/ \E selection \in SUBSET DOMAIN roster : StartBulkDelete(o, selection)
         \/ \E a \in DOMAIN roster : StartDelete(o, a)
         \/ LockSelection(o)
         \/ DeleteSelected(o)

RosterSpecification == RosterInit /\ [][RosterNext]_rosterVars

-----------------------------------------------------------------------------
(* Properties.                                                             *)

(* A deletion takes what is unused, whole, and with its credentials in     *)
(* hand: no account is deleted that a task or a login job refers to or is  *)
(* about to, the view by which accounts are sorted out is never older than *)
(* their locks, so that the database refuses no batch, and what is deleted *)
(* in bulk was in a selection exported at most ReceiptLife before the call *)
(* was checked.                                                            *)
DeletionIsSafe ==
    /\ ~refused
    /\ \A d \in deleted :
         /\ d.account \notin used \cup using /\ ~roster[d.account]
         /\ d.bulk => \E r \in receipts :
                        /\ d.account \in r.selection
                        /\ d.checked \in (r.expires - ReceiptLife) .. r.expires
=============================================================================
