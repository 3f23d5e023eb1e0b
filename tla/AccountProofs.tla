--------------------------- MODULE AccountProofs ----------------------------
(***************************************************************************)
(* The administration of accounts, for any number of accounts, calls,      *)
(* exports, archives, importers, batches, items and instants: deletions    *)
(* are safe, an archive is accepted only if all of it is, and its sessions *)
(* are imported once. The invariants of the transactions say what the      *)
(* locks of an open transaction protect: until it commits, what it has     *)
(* read and selected is what its last statement meets. The last part is    *)
(* about the gate at which the renewals of accounts wait for the provider. *)
(***************************************************************************)
EXTENDS AccountRoster, CookieArchive, CookieImport, ProtocolGate, SumLemmas, SequenceTheorems

-----------------------------------------------------------------------------
(* Deletions are safe.                                                     *)

Receipt == [selection : SUBSET Nat, expires : Nat]

Call == [stage : {"idle", "verified", "locked"}, selection : SUBSET Nat,
         bulk : BOOLEAN, checked : Nat, seen : SUBSET Nat]

Deletion == [account : Nat, bulk : BOOLEAN, checked : Nat]

RosterShape ==
    /\ date \in Nat
    /\ roster \in Seq(BOOLEAN)
    /\ receipts \subseteq Receipt
    /\ \A r \in receipts : r.expires <= date + ReceiptLife
    /\ operator \in [Operator -> Call]
    /\ deleted \subseteq Deletion
    /\ \A d \in deleted : d.account \in DOMAIN roster

\* Rows that refer to an account keep it.
ReferencesKeep == using \cup used \subseteq Present

\* What a locked selection protects.
LocksHold ==
    \A o \in Operator : operator[o].stage = "locked" =>
        /\ operator[o].selection \subseteq Present
        /\ operator[o].selection \cap using = {}
        /\ operator[o].selection \cap used \subseteq operator[o].seen
        /\ \A p \in Operator \ {o} : operator[p].stage = "locked" =>
             operator[o].selection \cap operator[p].selection = {}

Backed(selection, checked) ==
    \E r \in receipts :
        /\ selection \subseteq r.selection
        /\ checked \in (r.expires - ReceiptLife) .. r.expires

CallsAreBacked ==
    \A o \in Operator : operator[o].stage # "idle" /\ operator[o].bulk =>
        Backed(operator[o].selection, operator[o].checked)

RosterInvariant ==
    /\ RosterShape
    /\ ReferencesKeep
    /\ LocksHold
    /\ CallsAreBacked
    /\ DeletionIsSafe

LEMMA Initially == RosterInit => RosterInvariant
  BY DEF RosterInit, NoCall, RosterInvariant, RosterShape, ReferencesKeep, LocksHold,
         CallsAreBacked, DeletionIsSafe, Present, Call, Deletion, Receipt

-----------------------------------------------------------------------------
(* Accounts and those who use them.                                        *)

LEMMA DateKeeps ==
    ASSUME RosterInvariant, DatePasses PROVE RosterInvariant'
<1>1. RosterShape'
  BY RosterAssumption DEF RosterInvariant, RosterShape, DatePasses, Receipt
<1>2. ReferencesKeep' /\ LocksHold' /\ CallsAreBacked' /\ DeletionIsSafe'
  BY DEF RosterInvariant, DatePasses, ReferencesKeep, LocksHold, CallsAreBacked, Backed,
         DeletionIsSafe, Present
<1> QED BY <1>1, <1>2 DEF RosterInvariant

LEMMA AppendExtends ==
    ASSUME NEW S, NEW s \in Seq(S), NEW e \in S
    PROVE  /\ Append(s, e) \in Seq(S)
           /\ DOMAIN s \subseteq DOMAIN Append(s, e)
           /\ \A i \in DOMAIN s : Append(s, e)[i] = s[i]
<1>1. Append(s, e) \in Seq(S) /\ Len(Append(s, e)) = Len(s) + 1
  BY AppendProperties
<1>2. Len(s) \in Nat /\ DOMAIN s = 1 .. Len(s) /\ DOMAIN Append(s, e) = 1 .. Len(Append(s, e))
  BY <1>1, LenProperties
<1>3. \A i \in 1 .. Len(s) : Append(s, e)[i] = s[i]
  BY AppendProperties
<1> QED BY <1>1, <1>2, <1>3

LEMMA AddKeeps ==
    ASSUME RosterInvariant, AddAccount PROVE RosterInvariant'
<1>1. /\ roster \in Seq(BOOLEAN)
      /\ UNCHANGED <<date, using, used, receipts, operator, deleted, refused>>
  BY DEF RosterInvariant, RosterShape, AddAccount
<1>2. /\ roster' \in Seq(BOOLEAN)
      /\ DOMAIN roster \subseteq DOMAIN roster'
      /\ \A a \in DOMAIN roster : roster'[a] = roster[a]
  <2>1. roster' = Append(roster, FALSE)
    BY DEF AddAccount
  <2>2. FALSE \in BOOLEAN
    OBVIOUS
  <2>3. roster' \in Seq(BOOLEAN)
    BY <1>1, <2>1, <2>2, AppendExtends
  <2>4. DOMAIN roster \subseteq DOMAIN roster' /\ \A a \in DOMAIN roster : roster'[a] = roster[a]
    BY <1>1, <2>1, <2>2, AppendExtends
  <2> QED BY <2>3, <2>4
<1>3. Present \subseteq Present'
  BY <1>1, <1>2 DEF Present
<1>4. RosterShape'
  BY <1>1, <1>2 DEF RosterInvariant, RosterShape
<1>5. ReferencesKeep' /\ LocksHold'
  BY <1>1, <1>3 DEF RosterInvariant, ReferencesKeep, LocksHold
<1>6. CallsAreBacked' /\ DeletionIsSafe'
  BY <1>1, <1>2 DEF RosterInvariant, RosterShape, CallsAreBacked, Backed, DeletionIsSafe
<1> QED BY <1>4, <1>5, <1>6 DEF RosterInvariant

LEMMA ExceptKeeps ==
    ASSUME NEW S, NEW s \in Seq(S), NEW i \in DOMAIN s, NEW e \in S
    PROVE  /\ [s EXCEPT ![i] = e] \in Seq(S)
           /\ DOMAIN [s EXCEPT ![i] = e] = DOMAIN s
           /\ \A j \in DOMAIN s \ {i} : [s EXCEPT ![i] = e][j] = s[j]
           /\ [s EXCEPT ![i] = e][i] = e
  BY LenProperties, ExceptSeq

\* What changes the tasks of one account that is there.
LEMMA TasksChange ==
    ASSUME RosterInvariant, NEW a \in Present, NEW counts \in BOOLEAN,
           roster' = [roster EXCEPT ![a] = counts]
    PROVE  /\ roster' \in Seq(BOOLEAN)
           /\ DOMAIN roster' = DOMAIN roster
           /\ \A d \in deleted : roster'[d.account] = roster[d.account]
<1>1. roster \in Seq(BOOLEAN) /\ a \in DOMAIN roster
      /\ \A d \in deleted : d.account # a /\ d.account \in DOMAIN roster
  BY DEF RosterInvariant, RosterShape, Present
<1>2. roster' \in Seq(BOOLEAN)
  BY <1>1, ExceptKeeps
<1>3. DOMAIN roster' = DOMAIN roster /\ \A j \in DOMAIN roster \ {a} : roster'[j] = roster[j]
  BY <1>1, ExceptKeeps
<1> QED BY <1>1, <1>2, <1>3

LEMMA UseKeeps ==
    ASSUME RosterInvariant, NEW a, NEW counts \in BOOLEAN, StartUse(a, counts)
    PROVE  RosterInvariant'
<1>1. /\ a \in Present \ (LockedRows \cup using)
      /\ using' = using \cup {a}
      /\ roster' = [roster EXCEPT ![a] = roster[a] \/ counts]
      /\ UNCHANGED <<date, used, receipts, operator, deleted, refused>>
  BY DEF StartUse
<1>2. roster \in Seq(BOOLEAN) /\ a \in DOMAIN roster /\ (roster[a] \/ counts) \in BOOLEAN
  BY <1>1 DEF RosterInvariant, RosterShape, Present
<1>3. /\ roster' \in Seq(BOOLEAN)
      /\ DOMAIN roster' = DOMAIN roster
      /\ \A d \in deleted : roster'[d.account] = roster[d.account]
  BY <1>1, <1>2, TasksChange, Zenon
<1>4. Present' = Present
  BY <1>1, <1>3 DEF Present
<1>5. RosterShape'
  BY <1>1, <1>3 DEF RosterInvariant, RosterShape
<1>6. ReferencesKeep' /\ LocksHold'
  BY <1>1, <1>4 DEF RosterInvariant, ReferencesKeep, LocksHold, LockedRows
<1>7. CallsAreBacked' /\ DeletionIsSafe'
  BY <1>1, <1>3 DEF RosterInvariant, CallsAreBacked, Backed, DeletionIsSafe, Present
<1> QED BY <1>5, <1>6, <1>7 DEF RosterInvariant

LEMMA RosterCommitKeeps ==
    ASSUME RosterInvariant, NEW a, CommitUse(a) PROVE RosterInvariant'
<1>1. RosterShape' /\ ReferencesKeep' /\ LocksHold'
  BY DEF RosterInvariant, CommitUse, RosterShape, ReferencesKeep, LocksHold, Present
<1>2. CallsAreBacked' /\ DeletionIsSafe'
  BY DEF RosterInvariant, CommitUse, CallsAreBacked, Backed, DeletionIsSafe
<1> QED BY <1>1, <1>2 DEF RosterInvariant

LEMMA EndKeeps ==
    ASSUME RosterInvariant, NEW a, EndTasks(a) PROVE RosterInvariant'
<1>1. /\ a \in used
      /\ roster' = [roster EXCEPT ![a] = FALSE]
      /\ UNCHANGED <<date, using, used, receipts, operator, deleted, refused>>
  BY DEF EndTasks
<1>2. a \in Present /\ FALSE \in BOOLEAN
  BY <1>1 DEF RosterInvariant, ReferencesKeep
<1>3. /\ roster' \in Seq(BOOLEAN)
      /\ DOMAIN roster' = DOMAIN roster
      /\ \A d \in deleted : roster'[d.account] = roster[d.account]
  BY <1>1, <1>2, TasksChange, Zenon
<1>4. Present' = Present
  BY <1>1, <1>3 DEF Present
<1>5. RosterShape'
  BY <1>1, <1>3 DEF RosterInvariant, RosterShape
<1>6. ReferencesKeep' /\ LocksHold'
  BY <1>1, <1>4 DEF RosterInvariant, ReferencesKeep, LocksHold
<1>7. CallsAreBacked' /\ DeletionIsSafe'
  BY <1>1, <1>3 DEF RosterInvariant, CallsAreBacked, Backed, DeletionIsSafe
<1> QED BY <1>5, <1>6, <1>7 DEF RosterInvariant

-----------------------------------------------------------------------------
(* Exports and deletions.                                                  *)

LEMMA ExportKeeps ==
    ASSUME RosterInvariant, NEW selection \in SUBSET DOMAIN roster, ExportCredentials(selection)
    PROVE  RosterInvariant'
<1> DEFINE r == [selection |-> selection, expires |-> date + ReceiptLife]
<1>1. /\ receipts' = receipts \cup {r}
      /\ UNCHANGED <<date, roster, using, used, operator, deleted, refused>>
  BY DEF ExportCredentials
<1>2. DOMAIN roster \subseteq Nat
  BY LenProperties DEF RosterInvariant, RosterShape
<1>3. r \in Receipt /\ r.expires <= date + ReceiptLife
  BY <1>2, RosterAssumption DEF RosterInvariant, RosterShape, Receipt
<1>4. RosterShape'
  BY <1>1, <1>3 DEF RosterInvariant, RosterShape
<1>5. ReferencesKeep' /\ LocksHold'
  BY <1>1 DEF RosterInvariant, ReferencesKeep, LocksHold, Present
<1>6. CallsAreBacked' /\ DeletionIsSafe'
  BY <1>1 DEF RosterInvariant, CallsAreBacked, Backed, DeletionIsSafe
<1> QED BY <1>4, <1>5, <1>6 DEF RosterInvariant

\* A call that holds no lock yet changes nothing but itself.
LEMMA CallStarts ==
    ASSUME RosterInvariant, NEW o \in Operator, NEW call \in Call, call.stage = "verified",
           operator' = [operator EXCEPT ![o] = call],
           UNCHANGED <<date, roster, using, used, receipts, deleted, refused>>,
           call.bulk => Backed(call.selection, call.checked)
    PROVE  RosterInvariant'
<1>1. operator \in [Operator -> Call]
  BY DEF RosterInvariant, RosterShape
<1>2. operator' \in [Operator -> Call]
  BY <1>1
<1>3. operator'[o] = call /\ \A p \in Operator \ {o} : operator'[p] = operator[p]
  BY <1>1
<1>4. RosterShape'
  BY <1>2 DEF RosterInvariant, RosterShape
<1>5. ReferencesKeep' /\ DeletionIsSafe'
  BY DEF RosterInvariant, ReferencesKeep, DeletionIsSafe, Present
<1>6. LocksHold'
  BY <1>3 DEF RosterInvariant, LocksHold, Present
<1>7. CallsAreBacked'
  BY <1>3 DEF RosterInvariant, CallsAreBacked, Backed
<1> QED BY <1>4, <1>5, <1>6, <1>7 DEF RosterInvariant

LEMMA BulkStarts ==
    ASSUME RosterInvariant, NEW o \in Operator, NEW selection \in SUBSET DOMAIN roster,
           StartBulkDelete(o, selection)
    PROVE  RosterInvariant'
<1> DEFINE call == [NoCall EXCEPT !.stage = "verified", !.selection = selection,
                                  !.bulk = TRUE, !.checked = date]
<1>1. PICK r \in receipts : Covers(r, selection)
  BY DEF StartBulkDelete
<1>2. /\ date \in Nat /\ r.expires \in Nat /\ r.expires <= date + ReceiptLife
      /\ DOMAIN roster \subseteq Nat
  BY LenProperties DEF RosterInvariant, RosterShape, Receipt
<1>3. selection \subseteq r.selection /\ date \in (r.expires - ReceiptLife) .. r.expires
  BY <1>1, <1>2, RosterAssumption DEF Covers
<1>4. Backed(selection, date)
  BY <1>3 DEF Backed
<1>5. call \in Call /\ call.stage = "verified" /\ call.selection = selection /\ call.checked = date
  BY <1>2 DEF Call, NoCall
<1>6. operator' = [operator EXCEPT ![o] = call]
      /\ UNCHANGED <<date, roster, using, used, receipts, deleted, refused>>
  BY DEF StartBulkDelete
<1> HIDE DEF call
<1> QED BY <1>4, <1>5, <1>6, CallStarts

LEMMA SingleStarts ==
    ASSUME RosterInvariant, NEW o \in Operator, NEW a \in DOMAIN roster, StartDelete(o, a)
    PROVE  RosterInvariant'
<1> DEFINE call == [NoCall EXCEPT !.stage = "verified", !.selection = {a}, !.checked = date]
<1>1. date \in Nat /\ a \in Nat
  BY LenProperties DEF RosterInvariant, RosterShape
<1>2. call \in Call /\ call.stage = "verified" /\ call.bulk = FALSE
  BY <1>1 DEF Call, NoCall
<1>3. operator' = [operator EXCEPT ![o] = call]
      /\ UNCHANGED <<date, roster, using, used, receipts, deleted, refused>>
  BY DEF StartDelete
<1> HIDE DEF call
<1> QED BY <1>2, <1>3, CallStarts

\* Locks are granted on rows nobody uses or has locked, and the history is
\* read after that.
LEMMA LockKeeps ==
    ASSUME RosterInvariant, NEW o \in Operator, LockSelection(o) PROVE RosterInvariant'
<1> DEFINE there == operator[o].selection \cap Present
<1>1. /\ operator[o].stage = "verified"
      /\ there \cap (using \cup LockedRows) = {}
      /\ operator' = [operator EXCEPT ![o].stage = "locked", ![o].selection = there, ![o].seen = used]
      /\ UNCHANGED <<date, roster, using, used, receipts, deleted, refused>>
  BY DEF LockSelection
<1>2. operator \in [Operator -> Call] /\ used \subseteq Nat
  BY LenProperties DEF RosterInvariant, RosterShape, ReferencesKeep, Present
<1>3. /\ operator'[o].stage = "locked" /\ operator'[o].selection = there
      /\ operator'[o].seen = used /\ operator'[o].bulk = operator[o].bulk
      /\ operator'[o].checked = operator[o].checked
      /\ \A p \in Operator \ {o} : operator'[p] = operator[p]
  BY <1>1, <1>2 DEF Call
<1>4. operator' \in [Operator -> Call]
  <2> DEFINE call == [operator[o] EXCEPT !.stage = "locked", !.selection = there, !.seen = used]
  <2>1. call \in Call
    BY <1>2 DEF Call
  <2>2. operator' = [operator EXCEPT ![o] = call]
    BY <1>1, <1>2
  <2> HIDE DEF call
  <2> QED BY <1>2, <2>1, <2>2
<1>5. RosterShape'
  BY <1>1, <1>4 DEF RosterInvariant, RosterShape
<1>6. ReferencesKeep' /\ DeletionIsSafe'
  BY <1>1 DEF RosterInvariant, ReferencesKeep, DeletionIsSafe, Present
<1>7. \A p \in Operator \ {o} : operator[p].stage = "locked" => there \cap operator[p].selection = {}
  BY <1>1 DEF LockedRows
<1>8. there \subseteq Present /\ there \cap using = {} /\ there \cap used \subseteq used
  BY <1>1
<1>9. Present' = Present
  BY <1>1 DEF Present
<1>10. LocksHold'
  <2> HIDE DEF there
  <2>1. \A p \in Operator \ {o} : operator'[p].stage = "locked" =>
           /\ operator[p].stage = "locked" /\ operator'[p] = operator[p]
           /\ operator[p].selection \cap there = {}
    BY <1>3, <1>7
  <2>2. UNCHANGED <<using, used>>
    BY <1>1
  <2>3. ASSUME NEW p \in Operator, operator'[p].stage = "locked"
        PROVE  /\ operator'[p].selection \subseteq Present
               /\ operator'[p].selection \cap using = {}
               /\ operator'[p].selection \cap used \subseteq operator'[p].seen
    BY <1>3, <1>8, <2>1, <2>3 DEF RosterInvariant, LocksHold
  <2>4. ASSUME NEW p \in Operator, operator'[p].stage = "locked",
               NEW q \in Operator \ {p}, operator'[q].stage = "locked"
        PROVE  operator'[p].selection \cap operator'[q].selection = {}
    <3>1. CASE p = o
      BY <1>3, <2>1, <2>4, <3>1
    <3>2. CASE q = o
      BY <1>3, <2>1, <2>4, <3>2
    <3>3. CASE p # o /\ q # o
      BY <2>1, <2>4, <3>3 DEF RosterInvariant, LocksHold
    <3> QED BY <3>1, <3>2, <3>3
  <2> QED BY <1>9, <2>2, <2>3, <2>4 DEF LocksHold
<1>11. CallsAreBacked'
  BY <1>1, <1>3 DEF RosterInvariant, CallsAreBacked, Backed
<1> QED BY <1>5, <1>6, <1>10, <1>11 DEF RosterInvariant

LEMMA DeleteKeeps ==
    ASSUME RosterInvariant, NEW o \in Operator, DeleteSelected(o) PROVE RosterInvariant'
<1> DEFINE gone == {[account |-> a, bulk |-> operator[o].bulk, checked |-> operator[o].checked] :
                      a \in Deletable(o)}
<1>1. /\ operator[o].stage = "locked"
      /\ operator' = [operator EXCEPT ![o] = NoCall]
      /\ UNCHANGED <<date, roster, using, used, receipts>>
  BY DEF DeleteSelected
<1>2. operator[o] \in Call /\ operator \in [Operator -> Call] /\ DOMAIN roster \subseteq Nat
  BY LenProperties DEF RosterInvariant, RosterShape
<1>3. Deletable(o) \subseteq operator[o].selection /\ operator[o].selection \subseteq Present
  BY <1>1 DEF RosterInvariant, LocksHold, Deletable
<1>4. Deletable(o) \cap (used \cup using) = {} /\ \A a \in Deletable(o) : ~roster[a]
  BY <1>1 DEF RosterInvariant, LocksHold, Deletable
<1>5. deleted' = deleted \cup gone /\ UNCHANGED refused
  BY <1>4 DEF DeleteSelected
<1>6. \A d \in gone : /\ d \in Deletion /\ d.account \in Deletable(o)
                       /\ d.bulk = operator[o].bulk /\ d.checked = operator[o].checked
  BY <1>2, <1>3 DEF Call, Deletion, Present
<1>7. /\ operator'[o] = NoCall /\ \A p \in Operator \ {o} : operator'[p] = operator[p]
      /\ operator' \in [Operator -> Call]
  BY <1>1, <1>2 DEF Call, NoCall
<1>8. RosterShape'
  BY <1>1, <1>3, <1>5, <1>6, <1>7 DEF RosterInvariant, RosterShape, Present
<1>9. \A a \in Present \ Deletable(o) : a \in Present'
  BY <1>1, <1>5, <1>6 DEF Present
<1>10. ReferencesKeep'
  BY <1>1, <1>4, <1>9 DEF RosterInvariant, ReferencesKeep
<1>11. LocksHold'
  <2> SUFFICES ASSUME NEW p \in Operator, operator'[p].stage = "locked"
               PROVE  /\ operator'[p].selection \subseteq Present'
                      /\ operator'[p].selection \cap using' = {}
                      /\ operator'[p].selection \cap used' \subseteq operator'[p].seen
                      /\ \A q \in Operator \ {p} : operator'[q].stage = "locked" =>
                           operator'[p].selection \cap operator'[q].selection = {}
    BY DEF LocksHold
  <2>1. p # o /\ operator'[p] = operator[p] /\ operator[p].stage = "locked"
    BY <1>7 DEF NoCall
  <2>2. operator[p].selection \subseteq Present /\ operator[p].selection \cap operator[o].selection = {}
    BY <1>1, <2>1 DEF RosterInvariant, LocksHold
  <2>3. operator'[p].selection \subseteq Present'
    BY <1>3, <1>9, <2>1, <2>2
  <2>4. \A q \in Operator \ {p} : operator'[q].stage = "locked" =>
           operator'[q] = operator[q]
    BY <1>7 DEF NoCall
  <2> QED BY <1>1, <2>1, <2>3, <2>4 DEF RosterInvariant, LocksHold
<1>12. CallsAreBacked'
  BY <1>1, <1>7 DEF RosterInvariant, CallsAreBacked, Backed, NoCall
<1>13. operator[o].bulk => Backed(operator[o].selection, operator[o].checked)
  BY <1>1 DEF RosterInvariant, CallsAreBacked
<1>14. DeletionIsSafe'
  <2>1. \A d \in gone : d.account \notin used \cup using /\ ~roster[d.account]
    BY <1>4, <1>6
  <2>2. \A d \in gone : d.bulk => \E r \in receipts :
           d.account \in r.selection /\ d.checked \in (r.expires - ReceiptLife) .. r.expires
    BY <1>3, <1>6, <1>13 DEF Backed
  <2> HIDE DEF gone
  <2> QED BY <1>1, <1>5, <2>1, <2>2 DEF RosterInvariant, DeletionIsSafe
<1> QED BY <1>8, <1>10, <1>11, <1>12, <1>14 DEF RosterInvariant

-----------------------------------------------------------------------------
(* The theorem.                                                            *)

LEMMA StepKeeps ==
    ASSUME RosterInvariant, [RosterNext]_rosterVars PROVE RosterInvariant'
<1>1. CASE DatePasses
  BY <1>1, DateKeeps
<1>2. CASE AddAccount
  BY <1>2, AddKeeps
<1>3. ASSUME NEW a \in 1 .. MaxAccounts, StartUse(a, TRUE) \/ StartUse(a, FALSE) PROVE RosterInvariant'
  BY <1>3, UseKeeps
<1>4. ASSUME NEW a \in 1 .. MaxAccounts, CommitUse(a) PROVE RosterInvariant'
  BY <1>4, RosterCommitKeeps
<1>5. ASSUME NEW a \in 1 .. MaxAccounts, EndTasks(a) PROVE RosterInvariant'
  BY <1>5, EndKeeps
<1>6. ASSUME NEW selection \in SUBSET DOMAIN roster, ExportCredentials(selection) PROVE RosterInvariant'
  BY <1>6, ExportKeeps
<1>7. ASSUME NEW o \in Operator, NEW selection \in SUBSET DOMAIN roster, StartBulkDelete(o, selection)
      PROVE  RosterInvariant'
  BY <1>7, BulkStarts
<1>8. ASSUME NEW o \in Operator, NEW a \in DOMAIN roster, StartDelete(o, a) PROVE RosterInvariant'
  BY <1>8, SingleStarts
<1>9. ASSUME NEW o \in Operator, LockSelection(o) PROVE RosterInvariant'
  BY <1>9, LockKeeps
<1>10. ASSUME NEW o \in Operator, DeleteSelected(o) PROVE RosterInvariant'
  BY <1>10, DeleteKeeps
<1>11. CASE UNCHANGED rosterVars
  BY <1>11 DEF rosterVars, RosterInvariant, RosterShape, ReferencesKeep, LocksHold, CallsAreBacked,
               Backed, DeletionIsSafe, Present
<1> QED BY <1>1, <1>2, <1>3, <1>4, <1>5, <1>6, <1>7, <1>8, <1>9, <1>10, <1>11 DEF RosterNext

(* Locks, references and receipts keep what they stand for.  This is about *)
(* api/accounts.py: what a deleting transaction has read under its locks   *)
(* stays true until it commits.                                            *)
THEOREM RosterIsSound == RosterSpecification => []RosterInvariant
<1>1. RosterInvariant /\ [RosterNext]_rosterVars => RosterInvariant'
  BY StepKeeps
<1> QED BY Initially, <1>1, PTL DEF RosterSpecification

(* However deletions, exports, logins and tasks interleave, no account is  *)
(* deleted that anything refers to or begins to, the database refuses no   *)
(* deletion, and what is deleted in bulk was in a selection exported at    *)
(* most ReceiptLife earlier: classify_account_deletions,                   *)
(* bulk_delete_accounts and verify_account_export_receipt.                 *)
THEOREM DeletionsAreSafe == RosterSpecification => []DeletionIsSafe
<1>1. RosterInvariant => DeletionIsSafe
  BY DEF RosterInvariant
<1> QED BY RosterIsSound, <1>1, PTL

-----------------------------------------------------------------------------
(* Archives are accepted whole.                                            *)

\* Where the checks find no fault, none of them raises.
LEMMA NoFaultNoRaise ==
    ASSUME NEW checks, NEW n \in Nat, Len(checks) = n,
           \A k \in 1 .. n : checks[k][1] => checks[k][2] # "none",
           FirstFault(checks) = "none"
    PROVE  \A k \in 1 .. n : ~ checks[k][1]
<1> DEFINE I == {k \in 1 .. Len(checks) : checks[k][1]}
<1>1. SUFFICES ASSUME I # {} PROVE FALSE
  OBVIOUS
<1>2. I \subseteq Nat
  OBVIOUS
<1>3. PICK m \in I : \A k \in I : m <= k
  <2> HIDE DEF I
  <2> QED
    BY <1>1, <1>2, SmallestOfNaturals
<1>4. Min(I) \in I
  BY <1>3 DEF Min
<1>5. Min(I) # 0 /\ checks[Min(I)][2] # "none"
  BY <1>4
<1>6. FirstFault(checks) = checks[Min(I)][2]
  BY <1>1, <1>5 DEF FirstFault, SelectInSeq
<1> QED
  BY <1>5, <1>6

\* An entry without a fault passed every check.
LEMMA EntriesAreSafe ==
    ASSUME NEW e, EntryFault(e) = "none"
    PROVE  ~ Unsafe(e)
<1> DEFINE checks == << <<e.path = "unsafe", "ARCHIVE_UNSAFE_PATH">>,
                  <<e.link, "ARCHIVE_SYMLINK_ENTRY">>,
                  <<e.encrypted, "ARCHIVE_ENCRYPTED_ENTRY">>,
                  <<IsBomb(e), "ARCHIVE_COMPRESSION_RATIO">>,
                  <<e.suffix = "zip", "ARCHIVE_NESTED_ARCHIVE">>,
                  <<~IsIgnored(e) /\ e.path = "deep", "ARCHIVE_UNSAFE_PATH">>,
                  <<~IsIgnored(e) /\ e.size > MaxEntrySize, "ARCHIVE_ENTRY_TOO_LARGE">> >>
<1>1. FirstFault(checks) = "none"
  BY DEF EntryFault
<1>2. Len(checks) = 7 /\ \A k \in 1 .. 7 : checks[k][1] => checks[k][2] # "none"
  OBVIOUS
<1>3. \A k \in 1 .. 7 : ~ checks[k][1]
  <2> HIDE DEF checks
  <2> QED
    BY <1>1, <1>2, NoFaultNoRaise
<1>4. ~ checks[1][1] /\ ~ checks[2][1] /\ ~ checks[3][1] /\ ~ checks[4][1] /\ ~ checks[5][1]
  <2> HIDE DEF checks
  <2> QED
    BY <1>3
<1> QED
  BY <1>4 DEF Unsafe
\* A session file without a fault has the cookies of a login, alive.
LEMMA SessionsCanLogIn ==
    ASSUME NEW e, SessionFault(e) = "none"
    PROVE  \A name \in {"token", "data"} :
             \E c \in ToSet(e.cookies) : c.name = name /\ c.wellFormed /\ ~ c.expired
<1> DEFINE checks == << <<e.document = "noJson", "ENTRY_JSON_INVALID">>,
                  <<e.document = "wrongUrl", "ENTRY_URL_INVALID">>,
                  <<e.document = "noCookies", "ENTRY_COOKIES_INVALID">>,
                  <<\E i \in Live(e) : ~e.cookies[i].wellFormed, "COOKIE_ENTRY_INVALID">>,
                  <<Cardinality(Live(e)) > MaxCookies, "COOKIE_COUNT_EXCEEDED">>,
                  <<\E i, j \in Live(e) : i # j /\ e.cookies[i] = e.cookies[j], "COOKIE_DUPLICATE_KEY">>,
                  <<"token" \notin Names(e), "COOKIE_SESSION_TOKEN_MISSING">>,
                  <<"data" \notin Names(e), "COOKIE_SESSION_DATA_MISSING">> >>
<1>1. FirstFault(checks) = "none"
  BY DEF SessionFault
<1>2. Len(checks) = 8 /\ \A k \in 1 .. 8 : checks[k][1] => checks[k][2] # "none"
  OBVIOUS
<1>3. ~ checks[4][1] /\ ~ checks[7][1] /\ ~ checks[8][1]
  <2> HIDE DEF checks
  <2>1. \A k \in 1 .. 8 : ~ checks[k][1]
    BY <1>1, <1>2, NoFaultNoRaise
  <2> QED
    BY <2>1
<1>4. /\ \A i \in Live(e) : e.cookies[i].wellFormed
      /\ {"token", "data"} \subseteq Names(e)
  BY <1>3
<1>5. SUFFICES ASSUME NEW name \in {"token", "data"}
               PROVE  \E c \in ToSet(e.cookies) : c.name = name /\ c.wellFormed /\ ~ c.expired
  OBVIOUS
<1>6. PICK i \in Live(e) : e.cookies[i].name = name
  BY <1>4, <1>5 DEF Names
<1>7. e.cookies[i] \in ToSet(e.cookies) /\ ~ e.cookies[i].expired
  BY DEF Live, ToSet
<1> QED
  BY <1>4, <1>6, <1>7

\* An archive without a fault has no entry with one, is small and has sessions.
LEMMA ArchivesAreChecked ==
    ASSUME NEW entries \in Seq(ArchiveEntries), ArchiveFault(entries) = "none"
    PROVE  /\ \A k \in DOMAIN entries : EntryFault(entries[k]) = "none"
           /\ ~ (Len(entries) > MaxEntries) /\ ~ (Expanded(entries) > MaxExpandedSize)
           /\ SessionFiles(entries) # {}
<1> DEFINE I == {i \in 1 .. Len(entries) : EntryFault(entries[i]) # "none"}
           first == SelectInSeq(entries, LAMBDA e : EntryFault(e) # "none")
           fault == IF first = 0 THEN "none" ELSE EntryFault(entries[first])
           checks == << <<entries = <<>>, "ARCHIVE_EMPTY">>,
                  <<Len(entries) > MaxEntries, "ARCHIVE_TOO_MANY_ENTRIES">>,
                  <<fault # "none", fault>>,
                  <<Expanded(entries) > MaxExpandedSize, "ARCHIVE_EXPANDED_TOO_LARGE">>,
                  <<SessionFiles(entries) = {}, "ARCHIVE_NO_JSON_ENTRIES">> >>
<1>1. FirstFault(checks) = "none"
  BY DEF ArchiveFault
<1>2. ~ (Len(entries) > MaxEntries) /\ fault = "none"
      /\ ~ (Expanded(entries) > MaxExpandedSize) /\ SessionFiles(entries) # {}
  <2> HIDE DEF first, fault
  <2>1. Len(checks) = 5 /\ \A k \in 1 .. 5 : checks[k][1] => checks[k][2] # "none"
    <3>1. Len(checks) = 5
      OBVIOUS
    <3>2. checks[3][1] => checks[3][2] # "none"
      OBVIOUS
    <3>3. /\ checks[1][2] # "none" /\ checks[2][2] # "none"
          /\ checks[4][2] # "none" /\ checks[5][2] # "none"
      OBVIOUS
    <3>4. \A k \in 1 .. 5 : k \in {1, 2, 3, 4, 5}
      OBVIOUS
    <3> HIDE DEF checks
    <3> QED
      BY <3>1, <3>2, <3>3, <3>4
  <2>2. ~ checks[2][1] /\ ~ checks[3][1] /\ ~ checks[4][1] /\ ~ checks[5][1]
    <3> HIDE DEF checks
    <3>1. \A k \in 1 .. 5 : ~ checks[k][1]
      BY <1>1, <2>1, NoFaultNoRaise
    <3> QED
      BY <3>1
  <2> QED
    BY <2>2
<1>3. I = {}
  <2>1. SUFFICES ASSUME I # {} PROVE FALSE
    OBVIOUS
  <2>2. I \subseteq Nat
    OBVIOUS
  <2>3. PICK m \in I : \A k \in I : m <= k
    <3> HIDE DEF I
    <3> QED
      BY <2>1, <2>2, SmallestOfNaturals
  <2>4. Min(I) \in I
    BY <2>3 DEF Min
  <2>5. first = Min(I)
    BY <2>1 DEF SelectInSeq
  <2> HIDE DEF first
  <2> QED
    BY <1>2, <2>4, <2>5
<1>4. DOMAIN entries = 1 .. Len(entries)
  OBVIOUS
<1> QED
  BY <1>2, <1>3, <1>4

(* ArchiveBoundaryHolds, for every archive and all limits: what            *)
(* cookie_import_archive.py accepts has no unsafe entry, an ignored one    *)
(* neither, is within the limits, and has sessions that can log in.        *)
THEOREM ArchivesAreSafe == ArchiveInit => ArchiveBoundaryHolds
<1>1. SUFFICES ASSUME ArchiveInit, ArchiveFault(archive) = "none"
               PROVE  /\ \A e \in ToSet(archive) : ~ Unsafe(e)
                      /\ Len(archive) <= MaxEntries /\ Expanded(archive) <= MaxExpandedSize
                      /\ SessionFiles(archive) # {}
                      /\ \A k \in SessionFiles(archive) :
                           ParsedItems(archive)[k].error = "none" =>
                             \A name \in {"token", "data"} :
                               \E c \in ToSet(ParsedItems(archive)[k].file.cookies) :
                                 c.name = name /\ c.wellFormed /\ ~ c.expired
  BY DEF ArchiveBoundaryHolds
<1>2. archive \in Seq(ArchiveEntries)
  BY <1>1, ArchiveLimits DEF ArchiveInit
<1>3. /\ \A k \in DOMAIN archive : EntryFault(archive[k]) = "none"
      /\ ~ (Len(archive) > MaxEntries) /\ ~ (Expanded(archive) > MaxExpandedSize)
      /\ SessionFiles(archive) # {}
  BY <1>1, <1>2, ArchivesAreChecked
<1>4. \A e \in ToSet(archive) : ~ Unsafe(e)
  BY <1>3, EntriesAreSafe DEF ToSet
<1>5. ASSUME NEW k \in SessionFiles(archive), ParsedItems(archive)[k].error = "none"
      PROVE  \A name \in {"token", "data"} :
               \E c \in ToSet(ParsedItems(archive)[k].file.cookies) :
                 c.name = name /\ c.wellFormed /\ ~ c.expired
  <2>1. ParsedItems(archive)[k] = [file |-> archive[k], error |-> SessionFault(archive[k])]
    BY <1>5 DEF ParsedItems
  <2> QED
    BY <1>5, <2>1, SessionsCanLogIn
<1>6. Len(archive) \in Nat /\ Expanded(archive) \in Nat /\ {MaxEntries, MaxExpandedSize} \subseteq Nat
  <2>1. Len(archive) \in Nat /\ DOMAIN archive = 1 .. Len(archive) /\ IsFiniteSet(DOMAIN archive)
    BY <1>2, FS_Interval
  <2>2. ASSUME NEW k \in DOMAIN archive PROVE archive[k].size \in Nat
    <3>1. archive[k] \in ArchiveEntries
      BY <1>2, <2>1, <2>2
    <3> QED
      BY <3>1 DEF ArchiveEntries
  <2> QED
    BY <2>1, <2>2, SumIsNatural, ArchiveLimits DEF Expanded
<1> QED
  BY <1>3, <1>4, <1>5, <1>6

-----------------------------------------------------------------------------
(* Sessions are imported once, and batches report what was done.           *)

\* An item waits for its archive, and only for it.
ArchivesBring ==
    \A i \in Item : item[i].status = "ABSENT" <=> batch[BatchOf[i]] = "ABSENT"

\* What the lock of a success protects, and what its view may have missed:
\* items that ended since, but none that is still to be tried.
ViewsAreOld ==
    \A p \in Importer, i \in Item : import[p][i].stage = "applying" =>
        /\ ClaimMatches(p, i)
        /\ Unfinished(BatchOf[i], item) \ {i} \subseteq import[p][i].seen

ImportedHaveAccounts ==
    \A i \in Item : item[i].status \in Imported => LoginOf[i] \in accounts

ImportInvariant ==
    /\ ImportTypeOK
    /\ ArchivesBring
    /\ ViewsAreOld
    /\ ImportedHaveAccounts
    /\ ImportedOnce
    /\ BatchesReportTruly

-----------------------------------------------------------------------------
LEMMA ImportInitially == ImportInit => ImportInvariant
<1> SUFFICES ASSUME ImportInit PROVE ImportInvariant
  OBVIOUS
<1>1. ImportTypeOK
  BY ImportAssumption DEF ImportInit, ImportTypeOK, ItemRow, ImportRow, NoImport, ItemActive, ItemEnded, Imported
<1>2. ArchivesBring /\ ViewsAreOld /\ ImportedHaveAccounts
  BY ImportAssumption DEF ImportInit, ArchivesBring, ViewsAreOld, ImportedHaveAccounts, NoImport, Imported
<1>3. ImportedOnce /\ BatchesReportTruly
  BY DEF ImportInit, ImportedOnce, BatchesReportTruly, BatchEndIsTrue, FailuresDecide, Imported, BatchEnded
<1> QED BY <1>1, <1>2, <1>3 DEF ImportInvariant

LEMMA PersistKeeps ==
    ASSUME ImportInvariant, NEW b \in Batch, PersistBatch(b) PROVE ImportInvariant'
<1>1. /\ item \in [Item -> ItemRow] /\ BatchOf \in [Item -> Batch]
      /\ batch \in [Batch -> {"ABSENT", "QUEUED", "RUNNING"} \cup BatchEnded]
  BY ImportAssumption DEF ImportInvariant, ImportTypeOK
<1>2. /\ batch[b] = "ABSENT"
      /\ \A i \in Entries(b) : item[i].status = "ABSENT"
      /\ batch' = [batch EXCEPT ![b] = IF Entries(b) \subseteq Unreadable THEN "FAILED" ELSE "QUEUED"]
      /\ Entries(b) # {}
  BY <1>1, ImportAssumption DEF PersistBatch, ImportInvariant, ArchivesBring, Entries
<1>3. /\ item' \in [Item -> ItemRow]
      /\ \A i \in Item \ Entries(b) : item'[i] = item[i]
      /\ \A i \in Entries(b) : /\ item'[i].status = IF i \in Unreadable THEN "FAILED" ELSE "QUEUED"
                               /\ item'[i].staged = (i \notin Unreadable)
                               /\ item'[i].owner = item[i].owner
  BY <1>1 DEF PersistBatch, ItemRow, ItemActive, ItemEnded, Imported, Entries
<1>4. UNCHANGED <<accounts, import, losses, upserts>>
  BY DEF PersistBatch
<1>5. ImportTypeOK'
  <2>1. batch' \in [Batch -> {"ABSENT", "QUEUED", "RUNNING"} \cup BatchEnded]
    BY <1>1, <1>2 DEF BatchEnded
  <2>2. \A i \in Item : item'[i].staged <=> item'[i].status \in ItemActive
    BY <1>3 DEF ImportInvariant, ImportTypeOK, ItemActive
  <2> QED BY <1>3, <1>4, <2>1, <2>2 DEF ImportInvariant, ImportTypeOK
<1>6. ArchivesBring'
  BY <1>1, <1>2, <1>3 DEF ImportInvariant, ArchivesBring, Entries
<1>7. ViewsAreOld'
  <2> SUFFICES ASSUME NEW p \in Importer, NEW i \in Item, import'[p][i].stage = "applying"
               PROVE  /\ ClaimMatches(p, i)'
                      /\ (Unfinished(BatchOf[i], item) \ {i} \subseteq import[p][i].seen)'
    BY DEF ViewsAreOld
  <2>1. ClaimMatches(p, i) /\ Unfinished(BatchOf[i], item) \ {i} \subseteq import[p][i].seen
    BY <1>4 DEF ImportInvariant, ViewsAreOld
  <2>2. i \notin Entries(b) /\ BatchOf[i] # b
    BY <1>2, <2>1 DEF ClaimMatches, Entries
  <2>3. \A j \in Entries(BatchOf[i]) : item'[j] = item[j]
    BY <1>3, <2>2 DEF Entries
  <2> QED BY <1>3, <1>4, <2>1, <2>2, <2>3 DEF ClaimMatches, Unfinished
<1>8. ImportedHaveAccounts' /\ ImportedOnce'
  BY <1>2, <1>3, <1>4 DEF ImportInvariant, ImportedHaveAccounts, ImportedOnce, Imported, Entries
<1>9. BatchesReportTruly'
  <2>1. \A c \in Batch \ {b} : batch'[c] = batch[c] /\ \A i \in Entries(c) : item'[i] = item[i]
    BY <1>1, <1>2, <1>3 DEF Entries
  <2>2. batch'[b] = IF Entries(b) \subseteq Unreadable THEN "FAILED" ELSE "QUEUED"
    BY <1>1, <1>2
  <2>3. BatchEndIsTrue'
    BY <1>2, <1>3, <2>1, <2>2 DEF ImportInvariant, BatchesReportTruly, BatchEndIsTrue, BatchEnded, Imported
  <2>4. FailuresDecide'
    BY <1>2, <1>3, <2>1, <2>2 DEF ImportInvariant, BatchesReportTruly, FailuresDecide
  <2> QED BY <2>3, <2>4 DEF BatchesReportTruly
<1> QED BY <1>5, <1>6, <1>7, <1>8, <1>9 DEF ImportInvariant

\* The row that a claim and a success leave.
ClaimedBy(r, p, m, n) ==
    [r EXCEPT !.status = "RUNNING", !.owner = p, !.due = FALSE, !.attempts = m, !.version = n]

ImportedAs(r, status, n) ==
    [r EXCEPT !.status = status, !.staged = FALSE, !.owner = NoImporter, !.due = FALSE, !.version = n]

LEMMA ClaimedRow ==
    ASSUME NEW r \in ItemRow, NEW p \in Importer, NEW m \in Nat, NEW n \in Nat
    PROVE  LET q == ClaimedBy(r, p, m, n) IN
           q \in ItemRow /\ q.status = "RUNNING" /\ q.staged = r.staged
BY DEF ClaimedBy, ItemRow, ItemActive

LEMMA ImportedRow ==
    ASSUME NEW r \in ItemRow, NEW status \in Imported, NEW n \in Nat
    PROVE  LET q == ImportedAs(r, status, n) IN
           q \in ItemRow /\ q.status = status /\ q.staged = FALSE
BY DEF ImportedAs, ItemRow, ItemEnded

LEMMA FailedRows ==
    ASSUME NEW r \in ItemRow, NEW again \in BOOLEAN
    PROVE  /\ FailedRow(r, again) \in ItemRow
           /\ FailedRow(r, again).status = IF again THEN "RETRY_WAIT" ELSE "FAILED"
           /\ FailedRow(r, again).staged = again
<1> DEFINE status == IF again THEN "RETRY_WAIT" ELSE "FAILED"
           n == r.version + 1
<1>1. n \in Nat /\ status \in ItemActive \cup ItemEnded
  BY DEF ItemRow, ItemActive, ItemEnded
<1>2. FailedRow(r, again) = [r EXCEPT !.status = status, !.staged = again, !.owner = NoImporter,
                                      !.due = FALSE, !.version = n]
  BY Zenon DEF FailedRow
<1> HIDE DEF n
<1>3. [r EXCEPT !.status = status, !.staged = again, !.owner = NoImporter, !.due = FALSE, !.version = n] \in ItemRow
  <2> HIDE DEF status
  <2> QED BY <1>1 DEF ItemRow
<1> QED BY <1>2, <1>3 DEF ItemRow

LEMMA ClaimKeeps ==
    ASSUME ImportInvariant, NEW p \in Importer, ClaimItems(p) PROVE ImportInvariant'
<1>1. /\ item \in [Item -> ItemRow] /\ BatchOf \in [Item -> Batch]
      /\ batch \in [Batch -> {"ABSENT", "QUEUED", "RUNNING"} \cup BatchEnded]
      /\ import \in [Importer -> [Item -> ImportRow]]
  BY ImportAssumption DEF ImportInvariant, ImportTypeOK
<1>2. Selection \subseteq Item /\ \A i \in Selection : item[i].status \in ItemActive /\ ~Locked(i)
  BY DEF Selection, Selectable, ItemActive
<1>3. /\ item' \in [Item -> ItemRow]
      /\ \A i \in Item \ Selection : item'[i] = item[i]
      /\ \A i \in Selection : item'[i].status = "RUNNING" /\ item'[i].staged = item[i].staged
  <2> DEFINE taken(i) == [item[i] EXCEPT !.status = "RUNNING", !.owner = p, !.due = FALSE,
                                         !.attempts = @ + 1, !.version = @ + 1]
  <2>1. item' = [i \in Item |-> IF i \notin Selection THEN item[i] ELSE taken(i)]
    BY DEF ClaimItems
  <2>2. \A i \in Item : taken(i) \in ItemRow /\ taken(i).status = "RUNNING" /\ taken(i).staged = item[i].staged
    <3> TAKE i \in Item
    <3>1. PICK r \in ItemRow : r = item[i]
      BY <1>1
    <3>2. PICK m \in Nat, n \in Nat : m = r.attempts + 1 /\ n = r.version + 1
      BY DEF ItemRow
    <3>3. taken(i) = ClaimedBy(r, p, m, n)
      BY <3>1, <3>2 DEF ClaimedBy
    <3>4. PICK q : q = ClaimedBy(r, p, m, n)
      OBVIOUS
    <3>5. q \in ItemRow /\ q.status = "RUNNING" /\ q.staged = r.staged
      BY <3>4, ClaimedRow
    <3> HIDE DEF taken
    <3> QED BY <3>1, <3>3, <3>4, <3>5
  <2> HIDE DEF taken
  <2> QED BY <1>1, <1>2, <2>1, <2>2
<1>4. /\ batch' \in [Batch -> {"ABSENT", "QUEUED", "RUNNING"} \cup BatchEnded]
      /\ \A b \in Batch : batch'[b] = IF Selection \cap Entries(b) # {} THEN "RUNNING" ELSE batch[b]
  BY <1>1 DEF ClaimItems
<1>5. /\ import' \in [Importer -> [Item -> ImportRow]]
      /\ \A q \in Importer \ {p} : import'[q] = import[q]
      /\ \A i \in Item : import[p][i].stage = "idle" /\ import'[p][i].stage # "applying"
  <2> DEFINE begun == [i \in Item |->
                         IF i \notin Selection THEN NoImport
                         ELSE [stage |-> "claimed", version |-> item[i].version + 1, seen |-> {}]]
  <2>1. \A i \in Item : item[i].version \in Nat
    BY <1>1 DEF ItemRow
  <2>2. begun \in [Item -> ImportRow] /\ \A i \in Item : begun[i].stage # "applying"
    BY <2>1 DEF ImportRow, NoImport
  <2>3. import' = [import EXCEPT ![p] = begun] /\ \A i \in Item : import[p][i].stage = "idle"
    BY DEF ClaimItems
  <2> HIDE DEF begun
  <2> QED BY <1>1, <2>2, <2>3
<1>6. UNCHANGED <<accounts, losses, upserts>>
  BY DEF ClaimItems
<1>7. ImportTypeOK'
  <2>1. \A i \in Item : item'[i].staged <=> item'[i].status \in ItemActive
    BY <1>2, <1>3 DEF ImportInvariant, ImportTypeOK, ItemActive
  <2> QED BY <1>3, <1>4, <1>5, <1>6, <2>1 DEF ImportInvariant, ImportTypeOK
<1>8. ArchivesBring'
  <2> SUFFICES ASSUME NEW i \in Item
               PROVE  item'[i].status = "ABSENT" <=> batch'[BatchOf[i]] = "ABSENT"
    BY DEF ArchivesBring
  <2>1. PICK b \in Batch : b = BatchOf[i]
    BY <1>1
  <2>2. item[i].status = "ABSENT" <=> batch[b] = "ABSENT"
    BY <2>1 DEF ImportInvariant, ArchivesBring
  <2>3. CASE Selection \cap Entries(b) = {}
    <3>1. i \notin Selection
      BY <2>1, <2>3 DEF Entries
    <3> QED BY <1>3, <1>4, <2>1, <2>2, <2>3, <3>1
  <2>4. CASE Selection \cap Entries(b) # {}
    <3>1. PICK j \in Selection : BatchOf[j] = b
      BY <2>4 DEF Entries
    <3>2. item[j].status # "ABSENT"
      BY <1>2, <3>1 DEF ItemActive
    <3>3. batch[b] # "ABSENT"
      BY <1>2, <3>1, <3>2 DEF ImportInvariant, ArchivesBring
    <3>4. batch'[b] = "RUNNING"
      BY <1>4, <2>4
    <3> QED BY <1>3, <2>1, <2>2, <3>3, <3>4
  <2> QED BY <2>3, <2>4
<1>9. ViewsAreOld'
  <2> SUFFICES ASSUME NEW q \in Importer, NEW i \in Item, import'[q][i].stage = "applying"
               PROVE  /\ ClaimMatches(q, i)'
                      /\ (Unfinished(BatchOf[i], item) \ {i} \subseteq import[q][i].seen)'
    BY DEF ViewsAreOld
  <2>1. import'[q][i] = import[q][i] /\ Locked(i)
    BY <1>5 DEF Locked
  <2>2. ClaimMatches(q, i) /\ Unfinished(BatchOf[i], item) \ {i} \subseteq import[q][i].seen
    BY <2>1 DEF ImportInvariant, ViewsAreOld
  <2>3. i \notin Selection
    BY <1>2, <2>1
  <2>4. \A j \in Item : item'[j].status \in ItemActive => item[j].status \in ItemActive
    BY <1>2, <1>3
  <2> QED BY <1>3, <2>1, <2>2, <2>3, <2>4 DEF ClaimMatches, Unfinished, Entries
<1>10. ImportedHaveAccounts' /\ ImportedOnce'
  BY <1>2, <1>3, <1>6 DEF ImportInvariant, ImportedHaveAccounts, ImportedOnce, Imported, ItemActive
<1>11. BatchesReportTruly'
  <2>1. \A b \in Batch : Selection \cap Entries(b) = {} =>
          batch'[b] = batch[b] /\ \A i \in Entries(b) : item'[i] = item[i]
    BY <1>3, <1>4 DEF Entries
  <2>2. \A b \in Batch : Selection \cap Entries(b) # {} =>
          batch'[b] = "RUNNING" /\ \E i \in Entries(b) : item'[i].status = "RUNNING"
    BY <1>3, <1>4
  <2>3. BatchEndIsTrue'
    BY <2>1, <2>2 DEF ImportInvariant, BatchesReportTruly, BatchEndIsTrue, BatchEnded
  <2>4. FailuresDecide'
    BY <2>1, <2>2 DEF ImportInvariant, BatchesReportTruly, FailuresDecide
  <2> QED BY <2>3, <2>4 DEF BatchesReportTruly
<1> QED BY <1>7, <1>8, <1>9, <1>10, <1>11 DEF ImportInvariant

\* Steps that leave the rows alone and begin no transaction.
LEMMA CoroutineKeeps ==
    ASSUME ImportInvariant,
           import' \in [Importer -> [Item -> ImportRow]],
           \A p \in Importer, i \in Item :
             import'[p][i].stage = "applying" => import'[p][i] = import[p][i],
           UNCHANGED <<item, batch, accounts, upserts>>, losses' \in 0 .. MaxLosses
    PROVE  ImportInvariant'
<1>1. ImportTypeOK'
  BY DEF ImportInvariant, ImportTypeOK
<1>2. ViewsAreOld'
  BY DEF ImportInvariant, ViewsAreOld, ClaimMatches, Unfinished
<1>3. ArchivesBring' /\ ImportedHaveAccounts' /\ ImportedOnce' /\ BatchesReportTruly'
  BY DEF ImportInvariant, ArchivesBring, ImportedHaveAccounts, ImportedOnce, BatchesReportTruly, BatchEndIsTrue, FailuresDecide
<1> QED BY <1>1, <1>2, <1>3 DEF ImportInvariant

LEMMA ProcessKeeps ==
    ASSUME ImportInvariant, NEW p \in Importer, NEW i \in Item, ProcessItem(p, i)
    PROVE  ImportInvariant'
<1>1. PICK stage \in {"valid", "refused", "retryable"} : import' = [import EXCEPT ![p][i].stage = stage]
  BY DEF ProcessItem
<1>2. import \in [Importer -> [Item -> ImportRow]] /\ losses' \in 0 .. MaxLosses
  BY DEF ProcessItem, ImportInvariant, ImportTypeOK
<1>3. /\ import' \in [Importer -> [Item -> ImportRow]]
      /\ \A q \in Importer, j \in Item : import'[q][j].stage = "applying" => import'[q][j] = import[q][j]
  BY <1>1, <1>2 DEF ImportRow
<1>4. UNCHANGED <<item, batch, accounts, upserts>>
  BY DEF ProcessItem
<1> QED BY <1>2, <1>3, <1>4, CoroutineKeeps

LEMMA EndImportEnds ==
    ASSUME import \in [Importer -> [Item -> ImportRow]], NEW p \in Importer, NEW i \in Item, EndImport(p, i)
    PROVE  /\ import' \in [Importer -> [Item -> ImportRow]]
           /\ import'[p][i] = NoImport
           /\ \A q \in Importer, j \in Item : <<q, j>> # <<p, i>> => import'[q][j] = import[q][j]
BY DEF EndImport, ImportRow, NoImport

LEMMA DropKeeps ==
    ASSUME ImportInvariant, NEW p \in Importer, NEW i \in Item, DropImport(p, i)
    PROVE  ImportInvariant'
<1>1. import \in [Importer -> [Item -> ImportRow]] /\ losses' \in 0 .. MaxLosses
  BY DEF DropImport, ImportInvariant, ImportTypeOK
<1>2. EndImport(p, i) /\ UNCHANGED <<item, batch, accounts, upserts>>
  BY DEF DropImport
<1>3. NoImport.stage # "applying"
  BY DEF NoImport
<1>4. \A q \in Importer, j \in Item : import'[q][j].stage = "applying" => import'[q][j] = import[q][j]
  BY <1>1, <1>2, <1>3, EndImportEnds
<1> QED BY <1>1, <1>2, <1>4, EndImportEnds, CoroutineKeeps

LEMMA DeathKeeps ==
    ASSUME ImportInvariant, NEW p \in Importer, ImporterDies(p) PROVE ImportInvariant'
<1>1. /\ import \in [Importer -> [Item -> ImportRow]] /\ losses \in 0 .. MaxLosses
      /\ import' = [import EXCEPT ![p] = [i \in Item |-> NoImport]]
      /\ losses < MaxLosses /\ losses' = losses + 1 /\ MaxLosses \in Nat
      /\ UNCHANGED <<item, batch, accounts, upserts>>
  BY ImportAssumption DEF ImporterDies, ImportInvariant, ImportTypeOK
<1>2. NoImport \in ImportRow /\ NoImport.stage # "applying"
  BY DEF NoImport, ImportRow
<1>3. import' \in [Importer -> [Item -> ImportRow]]
  BY <1>1, <1>2
<1>4. \A q \in Importer, j \in Item : import'[q][j].stage = "applying" => import'[q][j] = import[q][j]
  BY <1>1, <1>2
<1>5. losses' \in 0 .. MaxLosses
  BY <1>1
<1> QED BY <1>1, <1>3, <1>4, <1>5, CoroutineKeeps

LEMMA UpsertKeeps ==
    ASSUME ImportInvariant, NEW p \in Importer, NEW i \in Item, UpsertAccount(p, i)
    PROVE  ImportInvariant'
<1>1. import \in [Importer -> [Item -> ImportRow]] /\ UNCHANGED <<item, batch, accounts, losses, upserts>>
  BY DEF UpsertAccount, ImportInvariant, ImportTypeOK
<1> DEFINE view == Unfinished(BatchOf[i], item) \ {i}
<1>2. /\ import' = [import EXCEPT ![p][i] = [@ EXCEPT !.stage = "applying", !.seen = view]]
      /\ view \subseteq Item /\ ClaimMatches(p, i)
  BY DEF UpsertAccount, Unfinished, Entries
<1> HIDE DEF view
<1>3. /\ import' \in [Importer -> [Item -> ImportRow]]
      /\ import'[p][i].seen = view /\ import'[p][i].version = import[p][i].version
      /\ \A q \in Importer, j \in Item : <<q, j>> # <<p, i>> => import'[q][j] = import[q][j]
  <2> DEFINE begun == [import[p][i] EXCEPT !.stage = "applying", !.seen = view]
  <2>1. import[p][i] \in ImportRow
    BY <1>1
  <2>2. begun \in ImportRow /\ begun.seen = view /\ begun.version = import[p][i].version
    BY <1>2, <2>1 DEF ImportRow
  <2>3. import' = [import EXCEPT ![p][i] = begun]
    BY <1>2
  <2> HIDE DEF begun
  <2> QED BY <1>1, <2>2, <2>3
<1>4. ImportTypeOK'
  BY <1>1, <1>3 DEF ImportInvariant, ImportTypeOK
<1>5. ViewsAreOld'
  <2> SUFFICES ASSUME NEW q \in Importer, NEW j \in Item, import'[q][j].stage = "applying"
               PROVE  /\ ClaimMatches(q, j)'
                      /\ (Unfinished(BatchOf[j], item) \ {j} \subseteq import[q][j].seen)'
    BY DEF ViewsAreOld
  <2>1. CASE q = p /\ j = i
    BY <1>1, <1>2, <1>3, <2>1 DEF view, ClaimMatches, Unfinished
  <2>2. CASE <<q, j>> # <<p, i>>
    BY <1>1, <1>3, <2>2 DEF ImportInvariant, ViewsAreOld, ClaimMatches, Unfinished
  <2> QED BY <2>1, <2>2
<1>6. ArchivesBring' /\ ImportedHaveAccounts' /\ ImportedOnce' /\ BatchesReportTruly'
  BY <1>1 DEF ImportInvariant, ArchivesBring, ImportedHaveAccounts, ImportedOnce, BatchesReportTruly,
              BatchEndIsTrue, FailuresDecide
<1> QED BY <1>4, <1>5, <1>6 DEF ImportInvariant

LEMMA DueKeeps ==
    ASSUME ImportInvariant, NEW i \in Item, ItemFallsDue(i) PROVE ImportInvariant'
<1>1. /\ item \in [Item -> ItemRow] /\ item' = [item EXCEPT ![i].due = TRUE]
      /\ UNCHANGED <<batch, accounts, import, upserts>>
  BY DEF ItemFallsDue, ImportInvariant, ImportTypeOK
<1>2. losses' \in 0 .. MaxLosses
  BY ImportAssumption DEF ItemFallsDue, ImportInvariant, ImportTypeOK
<1>3. /\ item' \in [Item -> ItemRow]
      /\ \A j \in Item : /\ item'[j].status = item[j].status /\ item'[j].staged = item[j].staged
                          /\ item'[j].owner = item[j].owner /\ item'[j].version = item[j].version
  BY <1>1 DEF ItemRow
<1>4. ImportTypeOK'
  BY <1>1, <1>2, <1>3 DEF ImportInvariant, ImportTypeOK
<1>5. ViewsAreOld'
  BY <1>1, <1>3 DEF ImportInvariant, ViewsAreOld, ClaimMatches, Unfinished, Entries
<1>6. ArchivesBring' /\ ImportedHaveAccounts' /\ ImportedOnce'
  BY <1>1, <1>3 DEF ImportInvariant, ArchivesBring, ImportedHaveAccounts, ImportedOnce
<1>7. BatchesReportTruly'
  BY <1>1, <1>3 DEF ImportInvariant, BatchesReportTruly, BatchEndIsTrue, FailuresDecide, Entries
<1> QED BY <1>4, <1>5, <1>6, <1>7 DEF ImportInvariant

-----------------------------------------------------------------------------
(* The two transactions.                                                   *)

\* A transaction that ends item i and decides its batch.
LEMMA EndingKeeps ==
    ASSUME ImportInvariant, NEW p \in Importer, NEW i \in Item,
           ClaimMatches(p, i), NEW row \in ItemRow, NEW unfinished,
           row.status \in {"RETRY_WAIT"} \cup ItemEnded,
           row.staged <=> row.status \in ItemActive,
           \A q \in Importer : import'[q][i].stage # "applying",
           item' = [item EXCEPT ![i] = row],
           batch' = [batch EXCEPT ![BatchOf[i]] = Verdict(BatchOf[i], item', unfinished)],
           Unfinished(BatchOf[i], item') \subseteq unfinished,
           row.status \in Imported \/ unfinished = Unfinished(BatchOf[i], item'),
           import' \in [Importer -> [Item -> ImportRow]],
           \A q \in Importer, j \in Item : import'[q][j].stage = "applying" => import'[q][j] = import[q][j],
           accounts' = IF row.status \in Imported THEN accounts \cup {LoginOf[i]} ELSE accounts,
           row.status = "CREATED" => LoginOf[i] \notin accounts,
           upserts' = IF row.status \in Imported THEN [upserts EXCEPT ![i] = @ + 1] ELSE upserts,
           UNCHANGED losses
    PROVE  ImportInvariant'
<1> DEFINE b == BatchOf[i]
<1>1. /\ item \in [Item -> ItemRow] /\ BatchOf \in [Item -> Batch] /\ LoginOf \in [Item -> Login]
      /\ batch \in [Batch -> {"ABSENT", "QUEUED", "RUNNING"} \cup BatchEnded]
      /\ upserts \in [Item -> Nat] /\ accounts \subseteq Login
      /\ b \in Batch /\ i \in Entries(b) /\ item[i].status = "RUNNING"
  BY ImportAssumption DEF ImportInvariant, ImportTypeOK, ClaimMatches, Entries
<1>2. item' \in [Item -> ItemRow] /\ item'[i] = row /\ \A j \in Item \ {i} : item'[j] = item[j]
  BY <1>1
<1>3. batch[b] # "ABSENT" /\ \A j \in Entries(b) : item[j].status # "ABSENT"
  BY <1>1 DEF ImportInvariant, ArchivesBring, Entries
<1>4. \A j \in Entries(b) : item'[j].status \in ItemActive \cup ItemEnded
  BY <1>1, <1>2, <1>3 DEF ItemRow, ItemActive, Entries
<1> DEFINE v == Verdict(b, item', unfinished)
<1>5. /\ v \in {"RUNNING"} \cup BatchEnded
      /\ v \in BatchEnded =>
           /\ \A j \in Entries(b) : item'[j].status \in Imported \cup {"FAILED"}
           /\ v = "COMPLETED" <=> \A j \in Entries(b) : item'[j].status \in Imported
           /\ v = "FAILED" <=> \A j \in Entries(b) : item'[j].status = "FAILED"
      /\ unfinished = {} /\ (\A j \in Entries(b) : item'[j].status = "FAILED") => v = "FAILED"
  <2>1. Entries(b) # {}
    BY <1>1
  <2>2. CASE unfinished # {}
    BY <2>2 DEF Verdict, BatchEnded
  <2>3. CASE unfinished = {}
    <3>1. \A j \in Entries(b) : item'[j].status \in Imported \cup {"FAILED"}
      BY <1>4, <2>3 DEF Unfinished, ItemEnded
    <3> QED BY <2>1, <2>3, <3>1 DEF Verdict, BatchEnded, Imported
  <2> QED BY <2>2, <2>3
<1>6. batch' \in [Batch -> {"ABSENT", "QUEUED", "RUNNING"} \cup BatchEnded]
      /\ batch'[b] = v /\ \A c \in Batch \ {b} : batch'[c] = batch[c]
  <2> HIDE DEF v
  <2>1. batch' = [batch EXCEPT ![b] = v]
    BY DEF v
  <2> QED BY <1>1, <1>5, <2>1
<1> HIDE DEF v
<1>7. ImportTypeOK'
  BY <1>1, <1>2, <1>6 DEF ImportInvariant, ImportTypeOK
<1>8. ArchivesBring'
  BY <1>1, <1>2, <1>3, <1>5, <1>6 DEF ImportInvariant, ArchivesBring, BatchEnded, ItemEnded, Imported
<1>9. ViewsAreOld'
  <2> SUFFICES ASSUME NEW q \in Importer, NEW j \in Item, import'[q][j].stage = "applying"
               PROVE  /\ ClaimMatches(q, j)'
                      /\ (Unfinished(BatchOf[j], item) \ {j} \subseteq import[q][j].seen)'
    BY DEF ViewsAreOld
  <2>1. j # i /\ import'[q][j] = import[q][j]
    OBVIOUS
  <2>2. ClaimMatches(q, j) /\ Unfinished(BatchOf[j], item) \ {j} \subseteq import[q][j].seen
    BY <2>1 DEF ImportInvariant, ViewsAreOld
  <2>3. \A k \in Item : item'[k].status \in ItemActive => item[k].status \in ItemActive
    BY <1>1, <1>2 DEF ItemActive
  <2> QED BY <1>2, <2>1, <2>2, <2>3 DEF ClaimMatches, Unfinished, Entries
<1>10. ImportedHaveAccounts'
  BY <1>1, <1>2 DEF ImportInvariant, ImportedHaveAccounts
<1>11. ImportedOnce'
  <2>1. upserts[i] = 0
    BY <1>1 DEF ImportInvariant, ImportedOnce, Imported
  <2>2. \A j \in Item : upserts'[j] = (IF item'[j].status \in Imported THEN 1 ELSE 0)
    BY <1>1, <1>2, <2>1 DEF ImportInvariant, ImportedOnce
  <2>3. \A j \in Item \ {i} : row.status = "CREATED" /\ item[j].status = "CREATED" => LoginOf[j] # LoginOf[i]
    BY DEF ImportInvariant, ImportedHaveAccounts, Imported
  <2> QED BY <1>2, <2>2, <2>3 DEF ImportInvariant, ImportedOnce
<1>12. BatchesReportTruly'
  <2>1. \A c \in Batch \ {b} : \A j \in Entries(c) : item'[j] = item[j]
    BY <1>2 DEF Entries
  <2>2. BatchEndIsTrue'
    BY <1>5, <1>6, <2>1 DEF ImportInvariant, BatchesReportTruly, BatchEndIsTrue
  <2>3. (\A j \in Entries(b) : item'[j].status = "FAILED") => batch'[b] = "FAILED"
    <3>1. SUFFICES ASSUME \A j \in Entries(b) : item'[j].status = "FAILED" PROVE unfinished = {}
      BY <1>5, <1>6
    <3>2. row.status = "FAILED"
      BY <1>1, <1>2, <3>1
    <3> QED BY <3>1, <3>2 DEF Unfinished, ItemActive, Imported
  <2>4. FailuresDecide'
    <3> SUFFICES ASSUME NEW c \in Batch, batch'[c] # "ABSENT", \A j \in Entries(c) : item'[j].status = "FAILED"
                 PROVE  batch'[c] = "FAILED"
      BY DEF FailuresDecide
    <3>1. CASE c = b
      BY <2>3, <3>1
    <3>2. CASE c # b
      BY <1>6, <2>1, <3>2 DEF ImportInvariant, BatchesReportTruly, FailuresDecide
    <3> QED BY <3>1, <3>2
  <2> QED BY <2>2, <2>4 DEF BatchesReportTruly
<1> QED BY <1>7, <1>8, <1>9, <1>10, <1>11, <1>12 DEF ImportInvariant

LEMMA FailureKeeps ==
    ASSUME ImportInvariant, NEW p \in Importer, NEW i \in Item, ApplyFailure(p, i)
    PROVE  ImportInvariant'
<1> DEFINE row == FailedRow(item[i], /\ import[p][i].stage = "retryable"
                                     /\ item[i].attempts < ImportMaxAttempts)
<1>1. /\ import \in [Importer -> [Item -> ImportRow]] /\ item \in [Item -> ItemRow]
      /\ BatchOf[i] \in Batch
  BY ImportAssumption DEF ImportInvariant, ImportTypeOK
<1>2. /\ ClaimMatches(p, i) /\ EndImport(p, i) /\ ~Locked(i)
      /\ item' = [item EXCEPT ![i] = row]
      /\ batch' = [batch EXCEPT ![BatchOf[i]] = Verdict(BatchOf[i], item', Unfinished(BatchOf[i], item'))]
      /\ UNCHANGED <<accounts, losses, upserts>>
  BY DEF ApplyFailure
<1>3. row \in ItemRow /\ row.status \in {"RETRY_WAIT", "FAILED"} /\ row.staged = (row.status = "RETRY_WAIT")
  BY <1>1, FailedRows
<1> HIDE DEF row
<1>4. /\ row.status \in {"RETRY_WAIT"} \cup ItemEnded /\ row.status \notin Imported
      /\ row.staged <=> row.status \in ItemActive
  BY <1>3 DEF ItemEnded, Imported, ItemActive
<1>5. \A q \in Importer : import'[q][i].stage # "applying"
  BY <1>1, <1>2, EndImportEnds DEF Locked, NoImport
<1>6. /\ import' \in [Importer -> [Item -> ImportRow]]
      /\ \A q \in Importer, j \in Item : import'[q][j].stage = "applying" => import'[q][j] = import[q][j]
  BY <1>1, <1>2, EndImportEnds DEF NoImport
<1> QED BY <1>2, <1>3, <1>4, <1>5, <1>6, EndingKeeps DEF Imported

LEMMA SuccessKeeps ==
    ASSUME ImportInvariant, NEW p \in Importer, NEW i \in Item, CommitSuccess(p, i)
    PROVE  ImportInvariant'
<1>1. /\ import \in [Importer -> [Item -> ImportRow]] /\ item \in [Item -> ItemRow]
  BY DEF ImportInvariant, ImportTypeOK
<1>2. /\ ClaimMatches(p, i) /\ EndImport(p, i)
      /\ Unfinished(BatchOf[i], item) \ {i} \subseteq import[p][i].seen
      /\ batch' = [batch EXCEPT ![BatchOf[i]] = Verdict(BatchOf[i], item', import[p][i].seen)]
      /\ accounts' = accounts \cup {LoginOf[i]} /\ upserts' = [upserts EXCEPT ![i] = @ + 1]
      /\ UNCHANGED losses
  BY DEF CommitSuccess, ImportInvariant, ViewsAreOld
<1>3. PICK status \in Imported : status = IF LoginOf[i] \in accounts THEN "UPDATED" ELSE "CREATED"
  BY DEF Imported
<1>4. PICK r \in ItemRow : r = item[i]
  BY <1>1
<1>5. PICK n \in Nat : n = r.version + 1
  BY DEF ItemRow
<1> DEFINE row == ImportedAs(r, status, n)
<1>6. row \in ItemRow /\ row.status = status /\ row.staged = FALSE
  BY ImportedRow
<1>7. item' = [item EXCEPT ![i] = row]
  <2>1. item' = [item EXCEPT ![i] =
                   [item[i] EXCEPT !.status = IF LoginOf[i] \in accounts THEN "UPDATED" ELSE "CREATED",
                                   !.staged = FALSE, !.owner = NoImporter, !.due = FALSE,
                                   !.version = item[i].version + 1]]
    BY Zenon DEF CommitSuccess
  <2>2. row = [item[i] EXCEPT !.status = IF LoginOf[i] \in accounts THEN "UPDATED" ELSE "CREATED",
                              !.staged = FALSE, !.owner = NoImporter, !.due = FALSE,
                              !.version = item[i].version + 1]
    BY <1>3, <1>4, <1>5 DEF ImportedAs
  <2> QED BY <2>1, <2>2, Zenon
<1> HIDE DEF row
<1>8. row.status \in {"RETRY_WAIT"} \cup ItemEnded /\ (row.staged <=> row.status \in ItemActive)
  BY <1>6 DEF ItemEnded, Imported, ItemActive
<1>9. \A q \in Importer : import'[q][i].stage # "applying"
  <2> SUFFICES ASSUME NEW q \in Importer, import'[q][i].stage = "applying" PROVE FALSE
    OBVIOUS
  <2>1. q # p /\ import'[q][i] = import[q][i]
    BY <1>1, <1>2, EndImportEnds DEF NoImport
  <2>2. ClaimMatches(q, i)
    BY <2>1 DEF ImportInvariant, ViewsAreOld
  <2> QED BY <1>2, <2>1, <2>2 DEF ClaimMatches
<1>10. /\ import' \in [Importer -> [Item -> ImportRow]]
      /\ \A q \in Importer, j \in Item : import'[q][j].stage = "applying" => import'[q][j] = import[q][j]
  BY <1>1, <1>2, EndImportEnds DEF NoImport
<1>11. Unfinished(BatchOf[i], item') \subseteq import[p][i].seen
  <2>1. item'[i].status \notin ItemActive /\ \A j \in Item \ {i} : item'[j] = item[j]
    BY <1>1, <1>6, <1>7 DEF Imported, ItemActive
  <2> QED BY <1>2, <2>1 DEF Unfinished, Entries
<1>12. status = "CREATED" => LoginOf[i] \notin accounts
  BY <1>3
<1> QED BY <1>2, <1>6, <1>7, <1>8, <1>9, <1>10, <1>11, <1>12, EndingKeeps

-----------------------------------------------------------------------------

LEMMA ImportNextKeeps == ImportInvariant /\ [ImportNext]_importVars => ImportInvariant'
<1> SUFFICES ASSUME ImportInvariant, [ImportNext]_importVars PROVE ImportInvariant'
  OBVIOUS
<1>1. CASE UNCHANGED importVars
  BY <1>1 DEF importVars, ImportInvariant, ImportTypeOK, ArchivesBring, ViewsAreOld, ImportedHaveAccounts,
              ImportedOnce, BatchesReportTruly, BatchEndIsTrue, FailuresDecide, ClaimMatches, Unfinished
<1>2. ASSUME NEW b \in Batch, PersistBatch(b) PROVE ImportInvariant'
  BY <1>2, PersistKeeps
<1>3. ASSUME NEW p \in Importer, ClaimItems(p) \/ ImporterDies(p) PROVE ImportInvariant'
  BY <1>3, ClaimKeeps, DeathKeeps
<1>4. ASSUME NEW p \in Importer, NEW i \in Item, ImportStep(p, i) PROVE ImportInvariant'
  BY <1>4, ProcessKeeps, FailureKeeps, DropKeeps, UpsertKeeps, SuccessKeeps DEF ImportStep
<1>5. ASSUME NEW i \in Item, ItemFallsDue(i) PROVE ImportInvariant'
  BY <1>5, DueKeeps
<1> QED BY <1>1, <1>2, <1>3, <1>4, <1>5 DEF ImportNext

LEMMA ImportInvariantHolds == ImportSpec => []ImportInvariant
<1>1. ImportInit => ImportInvariant
  BY ImportInitially
<1>2. ImportInvariant /\ [ImportNext]_importVars => ImportInvariant'
  BY ImportNextKeeps
<1> QED BY <1>1, <1>2, PTL DEF ImportSpec

(* A session is applied to its account at most once, by the import whose   *)
(* success the item reports, and one item at most creates an account:      *)
(* apply_cookie_import_success against any number of importers, lost       *)
(* leases and late answers.                                                *)
THEOREM SessionsAreAppliedOnce == ImportSpec => []ImportedOnce
<1>1. ImportInvariant => ImportedOnce
  BY DEF ImportInvariant
<1> QED BY <1>1, ImportInvariantHolds, PTL

(* What a batch reports of its items is true, though _refresh_batch_status *)
(* may decide by a view that is older than its lock, and a batch of which  *)
(* nothing was imported reports so as soon as its last item fails.         *)
THEOREM BatchReportsAreTrue == ImportSpec => []BatchesReportTruly
<1>1. ImportInvariant => BatchesReportTruly
  BY DEF ImportInvariant
<1> QED BY <1>1, ImportInvariantHolds, PTL

-----------------------------------------------------------------------------
(* The gate at which the renewals of a process wait for the provider.      *)

(* The gate of a process.  The interval it still waits for and the time    *)
(* since the last request complete each other, and the circuit is closed   *)
(* for no shorter than the provider asked.                                 *)
Pacing ==
    /\ renewer \in [Renewer -> RenewerRow]
    /\ untilNext \in Nat /\ sinceRequest \in Nat /\ untilNext + sinceRequest = MinInterval
    /\ blocked \in Nat /\ asked \in Nat /\ asked <= blocked

LeavesGate(c) == renewer[c].stage = "asking" /\ renewer'[c].stage = "requesting"

Paced(c) == LeavesGate(c) => sinceRequest = MinInterval /\ asked = 0

\* A row of a renewal that does not leave the gate with a request.
LEMMA NoRequestLeaves ==
    ASSUME Pacing, NEW c \in Renewer, NEW row \in RenewerRow, row.stage # "requesting",
           renewer' = [renewer EXCEPT ![c] = row]
    PROVE  renewer' \in [Renewer -> RenewerRow] /\ \A d \in Renewer : Paced(d)
<1>1. renewer' \in [Renewer -> RenewerRow]
  BY DEF Pacing
<1>2. ASSUME NEW d \in Renewer
      PROVE  ~LeavesGate(d)
  BY DEF LeavesGate, Pacing
<1> QED BY <1>1, <1>2 DEF Paced

LEMMA RowsAtTheGate ==
    ASSUME NEW stage \in {"idle", "asking", "requesting"}, NEW purpose \in {"session", "again", "cross"}
    PROVE  /\ [stage |-> stage, purpose |-> purpose] \in RenewerRow
           /\ [stage |-> stage, purpose |-> purpose].stage = stage
  BY DEF RenewerRow

\* A request leaves when it is due and the circuit is open for it.
LEMMA GrantIsPaced ==
    ASSUME Pacing, NEW c \in Renewer, Grant(c), untilNext = 0, blocked = 0, UNCHANGED <<blocked, asked>>
    PROVE  Pacing' /\ \A d \in Renewer : Paced(d)
<1>1. renewer' \in [Renewer -> RenewerRow]
  <2>1. PICK row : row = [renewer[c] EXCEPT !.stage = "requesting"]
    OBVIOUS
  <2>2. row \in RenewerRow
    BY <2>1 DEF Pacing, RenewerRow
  <2>3. renewer' = [renewer EXCEPT ![c] = row]
    BY <2>1 DEF Grant
  <2> QED BY <2>2, <2>3 DEF Pacing
<1>2. sinceRequest = MinInterval /\ asked = 0
  BY DEF Pacing
<1>3. untilNext' + sinceRequest' = MinInterval /\ untilNext' \in Nat /\ sinceRequest' \in Nat
  BY GateAssumption DEF Grant
<1> QED BY <1>1, <1>2, <1>3 DEF Pacing, Paced

\* What a step leaves alone of the times.
SameTimes == UNCHANGED <<untilNext, sinceRequest, blocked, asked>>

LEMMA RowsChangeOnly ==
    ASSUME Pacing, SameTimes, renewer' \in [Renewer -> RenewerRow] PROVE Pacing'
  BY DEF Pacing, SameTimes

LEMMA RenewersArePaced ==
    ASSUME Pacing, NEW c \in Renewer,
           \/ StartRenewal(c) \/ AnswerOther(c) \/ TakeLock(c)
           \/ \E header \in RetryAfter \cup {0} : AnswerTooMany(c, header)
    PROVE  Pacing' /\ \A d \in Renewer : Paced(d)
<1>1. ASSUME NEW stage \in {"idle", "asking"}, NEW purpose \in {"session", "again", "cross"},
             renewer' = [renewer EXCEPT ![c] = [stage |-> stage, purpose |-> purpose]]
      PROVE  renewer' \in [Renewer -> RenewerRow] /\ \A d \in Renewer : Paced(d)
  BY <1>1, RowsAtTheGate, NoRequestLeaves
<1>2. CASE StartRenewal(c)
  <2>1. renewer' \in [Renewer -> RenewerRow] /\ \A d \in Renewer : Paced(d)
    BY <1>1, <1>2 DEF StartRenewal, Asks
  <2> QED BY <1>2, <2>1, RowsChangeOnly DEF StartRenewal, SameTimes
<1>3. CASE AnswerOther(c)
  <2>1. renewer' \in [Renewer -> RenewerRow] /\ \A d \in Renewer : Paced(d)
    BY <1>1, <1>3 DEF AnswerOther, Asks, GateLeft
  <2> QED BY <1>3, <2>1, RowsChangeOnly DEF AnswerOther, SameTimes
<1>4. ASSUME NEW header \in RetryAfter \cup {0}, AnswerTooMany(c, header)
      PROVE  Pacing' /\ \A d \in Renewer : Paced(d)
  <2>1. renewer' \in [Renewer -> RenewerRow] /\ \A d \in Renewer : Paced(d)
    BY <1>1, <1>4 DEF AnswerTooMany, GateLeft
  <2>2. PICK seconds \in Nat : Block(seconds) /\ asked' = Later(asked, seconds)
    BY <1>4, GateAssumption DEF AnswerTooMany
  <2>3. blocked' \in Nat /\ asked' \in Nat /\ asked' <= blocked'
    BY <2>2 DEF Pacing, Block, Later
  <2>4. UNCHANGED <<untilNext, sinceRequest>>
    BY <1>4 DEF AnswerTooMany
  <2> QED BY <2>1, <2>3, <2>4 DEF Pacing
<1>5. CASE TakeLock(c)
  <2>1. UNCHANGED <<blocked, asked>>
    BY <1>5 DEF TakeLock
  <2>2. CASE Refuse(c)
    <3>1. renewer' \in [Renewer -> RenewerRow] /\ \A d \in Renewer : Paced(d)
      BY <1>1, <2>2 DEF Refuse, GateLeft
    <3> QED BY <2>1, <2>2, <3>1, RowsChangeOnly DEF Refuse, SameTimes
  <2>3. CASE UNCHANGED <<renewer, untilNext, sinceRequest>>
    BY <2>1, <2>3 DEF Pacing, Paced, LeavesGate
  <2>4. CASE blocked = 0 /\ untilNext = 0 /\ Grant(c)
    BY <2>1, <2>4, GrantIsPaced
  <2> QED BY <1>5, <2>2, <2>3, <2>4 DEF TakeLock
<1> QED BY <1>2, <1>3, <1>4, <1>5

LEMMA GateIsPaced ==
    ASSUME Pacing, holder \in Renewer \cup {NoRenewer}, [GateNext]_gateVars
    PROVE  Pacing' /\ \A d \in Renewer : Paced(d)
<1>1. CASE Wake
  <2>1. holder \in Renewer /\ untilNext = 0 /\ UNCHANGED <<blocked, asked>>
    BY <1>1 DEF Wake
  <2>2. CASE blocked > 0
    <3>1. Refuse(holder)
      BY <1>1, <2>2 DEF Wake
    <3>2. renewer' \in [Renewer -> RenewerRow] /\ \A d \in Renewer : Paced(d)
      BY <2>1, <3>1, RowsAtTheGate, NoRequestLeaves DEF Refuse, GateLeft
    <3> QED BY <2>1, <3>1, <3>2, RowsChangeOnly DEF Refuse, SameTimes
  <2>3. CASE blocked = 0
    BY <1>1, <2>1, <2>3, GrantIsPaced DEF Wake
  <2> QED BY <2>2, <2>3 DEF Pacing
<1>2. CASE GateTick
  <2>1. /\ untilNext' \in Nat /\ sinceRequest' \in Nat /\ untilNext' + sinceRequest' = MinInterval
        /\ blocked' \in Nat /\ asked' \in Nat /\ asked' <= blocked'
    BY <1>2, GateAssumption DEF GateTick, Countdown, Pacing
  <2> QED BY <1>2, <2>1 DEF GateTick, Pacing, Paced, LeavesGate
<1>3. CASE UNCHANGED gateVars
  BY <1>3 DEF gateVars, Pacing, Paced, LeavesGate
<1> QED BY <1>1, <1>2, <1>3, RenewersArePaced DEF GateNext

LEMMA LockIsHeldByRenewers ==
    GateSpec => [](holder \in Renewer \cup {NoRenewer})
<1>1. GateInit => holder \in Renewer \cup {NoRenewer}
  BY DEF GateInit
<1>2. holder \in Renewer \cup {NoRenewer} /\ [GateNext]_gateVars => (holder \in Renewer \cup {NoRenewer})'
  BY DEF GateNext, gateVars, StartRenewal, AnswerTooMany, AnswerOther, TakeLock, Wake, GateTick
<1> QED BY <1>1, <1>2, PTL DEF GateSpec

LEMMA PacingStarts == GateInit => Pacing
  BY GateAssumption DEF GateInit, Pacing, RenewerRow

(* LeavesGate of all renewals of a process keep their distance and leave the *)
(* provider alone for as long as it asked, whoever was in line or asleep   *)
(* with the lock when it asked (ProtocolRequestGate.acquire and block).    *)
THEOREM GateKeepsThePace == GateSpec => RequestsArePaced
<1>1. Pacing /\ holder \in Renewer \cup {NoRenewer} /\ [GateNext]_gateVars
        => Pacing' /\ \A d \in Renewer : Paced(d)
  BY GateIsPaced
<1>2. (\A d \in Renewer : Paced(d)) =>
        ((\E c \in Renewer : renewer[c].stage = "asking" /\ renewer'[c].stage = "requesting")
           => sinceRequest = MinInterval /\ asked = 0)
  BY DEF Paced, LeavesGate
<1> QED BY <1>1, <1>2, PacingStarts, LockIsHeldByRenewers, PTL DEF GateSpec, RequestsArePaced

-----------------------------------------------------------------------------
(* Who is at the gate: the line, its sleeper and the rows agree.           *)

Asking == {c \in Renewer : renewer[c].stage = "asking"}

\* Who sleeps with the lock has left the line.
GateRows == GateTypeOK /\ holder \notin ToSet(line)

\* The part of it that is about the renewals.
WaitersAgree ==
    /\ renewer \in [Renewer -> RenewerRow]
    /\ line \in Seq(Renewer) /\ IsInjective(line)
    /\ holder \in Renewer \cup {NoRenewer} /\ holder \notin ToSet(line)
    /\ Asking = ToSet(line) \cup ({holder} \ {NoRenewer})

\* The part of it that is about times.
TimesAreBounded ==
    /\ untilNext \in 0 .. MinInterval /\ sinceRequest \in 0 .. MinInterval
    /\ blocked \in Nat /\ \E t \in CoolDowns \cup {1} : blocked <= t
    /\ asked \in Nat /\ \E t \in CoolDowns : asked <= t

LEMMA GateRowsByPart == GateRows <=> WaitersAgree /\ TimesAreBounded
  BY DEF GateRows, GateTypeOK, WaitersAgree, TimesAreBounded, Asking

LEMMA LineGrows ==
    ASSUME NEW s \in Seq(Renewer), IsInjective(s), NEW c \in Renewer, c \notin ToSet(s)
    PROVE  /\ Append(s, c) \in Seq(Renewer) /\ IsInjective(Append(s, c))
           /\ ToSet(Append(s, c)) = ToSet(s) \cup {c}
<1> DEFINE r == Append(s, c)
<1>1. /\ r \in Seq(Renewer) /\ DOMAIN r = 1 .. Len(s) + 1 /\ DOMAIN s = 1 .. Len(s)
      /\ Len(s) \in Nat /\ r[Len(s) + 1] = c /\ \A i \in 1 .. Len(s) : r[i] = s[i]
  OBVIOUS
<1> HIDE DEF r
<1>2. \A i \in 1 .. Len(s) : s[i] # c
  BY <1>1 DEF ToSet
<1>3. IsInjective(r)
  BY <1>1, <1>2 DEF IsInjective
<1>4. ToSet(r) = ToSet(s) \cup {c}
  BY <1>1 DEF ToSet
<1> QED BY <1>1, <1>3, <1>4 DEF r

LEMMA LineShrinks ==
    ASSUME NEW s \in Seq(Renewer), IsInjective(s), s # <<>>
    PROVE  /\ Head(s) \in Renewer /\ Tail(s) \in Seq(Renewer) /\ IsInjective(Tail(s))
           /\ Head(s) \in ToSet(s) /\ ToSet(Tail(s)) = ToSet(s) \ {Head(s)}
<1> DEFINE r == Tail(s)
<1>1. /\ r \in Seq(Renewer) /\ DOMAIN r = 1 .. Len(s) - 1 /\ DOMAIN s = 1 .. Len(s)
      /\ Len(s) \in Nat \ {0} /\ Head(s) = s[1] /\ \A i \in 1 .. Len(s) - 1 : r[i] = s[i + 1]
  OBVIOUS
<1> HIDE DEF r
<1>2. IsInjective(r)
  <2> SUFFICES ASSUME NEW i \in DOMAIN r, NEW j \in DOMAIN r, r[i] = r[j]
               PROVE  i = j
    BY DEF IsInjective
  <2>1. i + 1 \in DOMAIN s /\ j + 1 \in DOMAIN s /\ s[i + 1] = s[j + 1]
    BY <1>1
  <2> QED BY <1>1, <2>1 DEF IsInjective
<1>3. ASSUME NEW x
      PROVE  x \in ToSet(r) <=> x \in ToSet(s) /\ x # s[1]
  <2>1. ASSUME x \in ToSet(r)
        PROVE  x \in ToSet(s) /\ x # s[1]
    <3>1. PICK i \in 1 .. Len(s) - 1 : x = r[i]
      BY <1>1, <2>1 DEF ToSet
    <3>2. i + 1 \in DOMAIN s /\ x = s[i + 1] /\ 1 \in DOMAIN s /\ i + 1 # 1
      BY <1>1, <3>1
    <3> QED BY <3>2 DEF ToSet, IsInjective
  <2>2. ASSUME x \in ToSet(s), x # s[1]
        PROVE  x \in ToSet(r)
    <3>1. PICK i \in 1 .. Len(s) : x = s[i]
      BY <1>1, <2>2 DEF ToSet
    <3>2. i - 1 \in 1 .. Len(s) - 1 /\ r[i - 1] = x
      BY <1>1, <2>2, <3>1
    <3> QED BY <1>1, <3>2 DEF ToSet
  <2> QED BY <2>1, <2>2
<1>4. Head(s) \in Renewer /\ Head(s) \in ToSet(s)
  BY <1>1 DEF ToSet
<1> QED BY <1>1, <1>2, <1>3, <1>4 DEF r

\* A renewal with another row.
LEMMA AskingTurns ==
    ASSUME WaitersAgree, NEW c \in Renewer, NEW row \in RenewerRow,
           renewer' = [renewer EXCEPT ![c] = row]
    PROVE  /\ renewer' \in [Renewer -> RenewerRow]
           /\ row.stage = "asking" => Asking' = Asking \cup {c}
           /\ row.stage # "asking" => Asking' = Asking \ {c}
  BY DEF WaitersAgree, Asking

LEMMA GateRowsAreRows ==
    ASSUME WaitersAgree, NEW c \in Renewer
    PROVE  /\ GateLeft(c) => \E row \in RenewerRow :
                row.stage # "asking" /\ renewer' = [renewer EXCEPT ![c] = row]
           /\ Grant(c) => \E row \in RenewerRow :
                row.stage # "asking" /\ renewer' = [renewer EXCEPT ![c] = row]
<1>1. ASSUME Grant(c)
      PROVE  \E row \in RenewerRow :
               row.stage # "asking" /\ renewer' = [renewer EXCEPT ![c] = row]
  <2> DEFINE row == [renewer[c] EXCEPT !.stage = "requesting"]
  <2>1. row \in RenewerRow /\ row.stage # "asking"
    BY DEF WaitersAgree, RenewerRow
  <2>2. renewer' = [renewer EXCEPT ![c] = row]
    BY <1>1 DEF Grant
  <2> QED BY <2>1, <2>2
<1> QED BY <1>1, RowsAtTheGate DEF GateLeft

\* A renewal joins the line that is neither in it nor asleep with the lock.
LEMMA AskingJoins ==
    ASSUME WaitersAgree, NEW c \in Renewer, NEW purpose \in {"session", "again", "cross"},
           renewer[c].stage # "asking", Asks(c, purpose), holder' = holder
    PROVE  WaitersAgree'
<1>1. c \notin Asking
  BY DEF Asking
<1>2. c \notin ToSet(line) /\ (holder = c => FALSE)
  BY <1>1, GateAssumption DEF WaitersAgree
<1>3. renewer' \in [Renewer -> RenewerRow] /\ Asking' = Asking \cup {c}
  BY RowsAtTheGate, AskingTurns DEF Asks
<1>4. /\ line' \in Seq(Renewer) /\ IsInjective(line')
      /\ ToSet(line') = ToSet(line) \cup {c}
  BY <1>2, LineGrows DEF Asks, WaitersAgree
<1> QED BY <1>2, <1>3, <1>4 DEF WaitersAgree, Asking

\* A renewal leaves the gate that neither waits nor sleeps.
LEMMA RequestEnds ==
    ASSUME WaitersAgree, NEW c \in Renewer, renewer[c].stage # "asking", GateLeft(c),
           UNCHANGED <<line, holder>>
    PROVE  WaitersAgree'
<1>1. c \notin Asking
  BY DEF Asking
<1>2. renewer' \in [Renewer -> RenewerRow] /\ Asking' = Asking
  BY <1>1, GateRowsAreRows, AskingTurns
<1> QED BY <1>2 DEF WaitersAgree, Asking

LEMMA LockIsTaken ==
    ASSUME WaitersAgree, NEW c \in Renewer, TakeLock(c)
    PROVE  WaitersAgree'
<1>1. /\ line' \in Seq(Renewer) /\ IsInjective(line') /\ c \in ToSet(line)
      /\ ToSet(line') = ToSet(line) \ {c} /\ holder = NoRenewer
  BY LineShrinks DEF TakeLock, WaitersAgree
<1>2. Asking = ToSet(line)
  BY <1>1 DEF WaitersAgree
<1>3. CASE holder' = c /\ renewer' = renewer
  <2>1. Asking' = Asking
    BY <1>3 DEF Asking
  <2> QED BY <1>1, <1>2, <1>3, <2>1, GateAssumption DEF WaitersAgree
<1>4. CASE holder' = holder /\ (GateLeft(c) \/ Grant(c))
  <2>1. renewer' \in [Renewer -> RenewerRow] /\ Asking' = Asking \ {c}
    BY <1>4, GateRowsAreRows, AskingTurns
  <2>2. NoRenewer \notin ToSet(line')
    BY <1>1, GateAssumption DEF WaitersAgree
  <2> QED BY <1>1, <1>2, <1>4, <2>1, <2>2 DEF WaitersAgree
<1> QED BY <1>3, <1>4 DEF TakeLock, Refuse

LEMMA SleeperWakes ==
    ASSUME WaitersAgree, Wake
    PROVE  WaitersAgree'
<1>1. PICK c \in Renewer : c = holder
  BY DEF Wake, WaitersAgree
<1>2. GateLeft(c) \/ Grant(c)
  BY <1>1 DEF Wake, Refuse
<1>3. renewer' \in [Renewer -> RenewerRow] /\ Asking' = Asking \ {c}
  BY <1>2, GateRowsAreRows, AskingTurns
<1>4. line' = line /\ holder' = NoRenewer /\ c # NoRenewer /\ NoRenewer \notin ToSet(line)
  <2>1. ToSet(line) \subseteq Renewer
    BY DEF WaitersAgree, Asking
  <2> QED BY <2>1, GateAssumption DEF Wake
<1> QED BY <1>1, <1>3, <1>4 DEF WaitersAgree

LEMMA WaitersGoOn ==
    ASSUME WaitersAgree, [GateNext]_gateVars
    PROVE  WaitersAgree'
<1>1. ASSUME NEW c \in Renewer, StartRenewal(c) \/ AnswerOther(c)
      PROVE  WaitersAgree'
  BY <1>1, AskingJoins, RequestEnds DEF StartRenewal, AnswerOther
<1>2. ASSUME NEW c \in Renewer, NEW header, AnswerTooMany(c, header)
      PROVE  WaitersAgree'
  BY <1>2, RequestEnds DEF AnswerTooMany
<1>3. CASE GateTick \/ UNCHANGED gateVars
  BY <1>3 DEF GateTick, gateVars, WaitersAgree, Asking
<1> QED BY <1>1, <1>2, <1>3, LockIsTaken, SleeperWakes DEF GateNext

LEMMA TimesGoOn ==
    ASSUME TimesAreBounded, [GateNext]_gateVars
    PROVE  TimesAreBounded'
<1>1. ASSUME UNCHANGED <<blocked, asked>>,
             \/ UNCHANGED <<untilNext, sinceRequest>>
             \/ untilNext' = MinInterval /\ sinceRequest' = 0
      PROVE  TimesAreBounded'
  BY <1>1, GateAssumption DEF TimesAreBounded
<1>2. ASSUME NEW c \in Renewer, StartRenewal(c) \/ AnswerOther(c) \/ TakeLock(c)
      PROVE  TimesAreBounded'
  BY <1>1, <1>2 DEF StartRenewal, AnswerOther, TakeLock, Grant, Refuse
<1>3. CASE Wake
  BY <1>1, <1>3 DEF Wake, Grant, Refuse
<1>4. ASSUME NEW c \in Renewer, NEW header \in RetryAfter \cup {0}, AnswerTooMany(c, header)
      PROVE  TimesAreBounded'
  <2>1. PICK seconds \in CoolDowns : Block(seconds) /\ asked' = Later(asked, seconds)
    BY <1>4 DEF AnswerTooMany, CoolDowns
  <2>2. seconds \in Nat
    BY GateAssumption DEF CoolDowns
  <2>3. blocked' \in Nat /\ \E t \in CoolDowns \cup {1} : blocked' <= t
    BY <2>1, <2>2 DEF TimesAreBounded, Block, Later
  <2>4. PICK u \in CoolDowns : asked <= u
    BY DEF TimesAreBounded
  <2>5. asked' \in Nat /\ (asked' <= u \/ asked' <= seconds)
    BY <2>1, <2>2, <2>4 DEF TimesAreBounded, Later
  <2> QED BY <1>4, <2>1, <2>3, <2>4, <2>5 DEF TimesAreBounded, AnswerTooMany
<1>5. CASE GateTick
  <2>1. untilNext' \in 0 .. MinInterval /\ sinceRequest' \in 0 .. MinInterval
    BY <1>5, GateAssumption DEF GateTick, Countdown, TimesAreBounded
  <2>2. blocked' \in Nat /\ blocked' <= blocked /\ asked' \in Nat /\ asked' <= asked
    BY <1>5 DEF GateTick, Countdown, TimesAreBounded
  <2>3. \A t \in CoolDowns \cup {1} : t \in Nat
    BY GateAssumption DEF CoolDowns
  <2>4. PICK t \in CoolDowns \cup {1} : blocked <= t
    BY DEF TimesAreBounded
  <2>5. PICK u \in CoolDowns : asked <= u
    BY DEF TimesAreBounded
  <2>6. blocked' <= t /\ asked' <= u
    BY <2>2, <2>3, <2>4, <2>5 DEF TimesAreBounded
  <2> QED BY <2>1, <2>2, <2>4, <2>5, <2>6 DEF TimesAreBounded
<1>6. CASE UNCHANGED gateVars
  BY <1>1, <1>6 DEF gateVars
<1> QED BY <1>2, <1>3, <1>4, <1>5, <1>6 DEF GateNext

LEMMA GateRowsStart == GateInit => GateRows
<1> SUFFICES ASSUME GateInit PROVE WaitersAgree /\ TimesAreBounded
  BY GateRowsByPart
<1>1. WaitersAgree
  <2>1. <<>> \in Seq(Renewer) /\ IsInjective(<<>>) /\ ToSet(<<>>) = {}
    BY DEF IsInjective, ToSet
  <2> QED BY <2>1 DEF GateInit, WaitersAgree, Asking, RenewerRow
<1>2. TimesAreBounded
  BY GateAssumption DEF GateInit, TimesAreBounded, CoolDowns
<1> QED BY <1>1, <1>2

LEMMA GateRowsGoOn == GateRows /\ [GateNext]_gateVars => GateRows'
<1>1. GateRows' <=> WaitersAgree' /\ TimesAreBounded'
  BY DEF GateRows, GateTypeOK, WaitersAgree, TimesAreBounded, Asking
<1> QED BY <1>1, GateRowsByPart, WaitersGoOn, TimesGoOn

(* Those at the gate are in line, once, or asleep with the lock; and it is *)
(* never closed for longer than some answer asked (ProtocolRequestGate).   *)
THEOREM GateTypeCorrect == GateSpec => []GateTypeOK
<1>1. GateRows => GateTypeOK
  BY DEF GateRows
<1> QED BY <1>1, GateRowsStart, GateRowsGoOn, PTL DEF GateSpec
=============================================================================
