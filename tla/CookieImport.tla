---------------------------- MODULE CookieImport ----------------------------
(***************************************************************************)
(* Import of browser sessions: the API stores an uploaded archive as a     *)
(* batch of items; importer processes lease the items, validate each       *)
(* session with the provider, upsert the account it belongs to and, once   *)
(* the last item of a batch has ended, decide the batch.                   *)
(*                                                                         *)
(* The transaction of a success is two steps, because it reads the         *)
(* statuses of the batch through a view that MySQL (REPEATABLE READ) opens *)
(* at its first plain SELECT, before it locks the batch row.  Every other  *)
(* transaction is one step.                                                *)
(***************************************************************************)
EXTENDS Integers, FiniteSets

CONSTANTS
    Item,          \* ids of the entries that an archive may bring
    Batch,         \* idempotency keys of archives
    BatchOf,       \* the archive of an entry
    SpaceOfBatch,  \* the target space of an archive
    Login,         \* login names
    LoginOf,       \* whose session an entry holds
    Known,         \* logins that have an account from the start
    Unreadable,    \* entries that held no session
    Importer,      \* importer processes
    NoImporter,    \* a NULL lease owner
    ImportBatchSize,   \* settings.cookie_import_batch_size
    ImportMaxAttempts, \* settings.cookie_import_max_attempts
    MaxLosses      \* bound: importers that die or outlive a lease

ASSUME ImportAssumption ==
    /\ Item \subseteq Nat /\ IsFiniteSet(Item)
    /\ BatchOf \in [Item -> Batch]
    /\ \A b \in Batch : \E i \in Item : BatchOf[i] = b
    /\ LoginOf \in [Item -> Login]
    /\ DOMAIN SpaceOfBatch = Batch
    /\ Known \subseteq Login /\ Unreadable \subseteq Item
    /\ NoImporter \notin Importer
    /\ ImportBatchSize \in Nat \ {0} /\ ImportMaxAttempts \in Nat \ {0}
    /\ MaxLosses \in Nat

VARIABLES
    item,     \* rows of account_cookie_import_items
    batch,    \* status of the rows of account_cookie_import_batches
    accounts, \* login names with an account
    import,   \* _process_and_apply coroutines, by importer and item
    losses,   \* how many importers died or outlived a lease
    upserts   \* history: committed upserts of an item's account

importVars == <<item, batch, accounts, import, losses, upserts>>

-----------------------------------------------------------------------------

ItemActive == {"QUEUED", "RUNNING", "RETRY_WAIT"}
Imported == {"CREATED", "UPDATED"}
ItemEnded == Imported \cup {"FAILED"}
BatchEnded == {"COMPLETED", "PARTIAL_FAILED", "FAILED"}

ItemRow == [status : {"ABSENT"} \cup ItemActive \cup ItemEnded,
            staged : BOOLEAN,      \* session_ciphertext IS NOT NULL
            owner : Importer \cup {NoImporter},
            due : BOOLEAN,         \* lease_until or retry_after <= now
            attempts : Nat,
            version : Nat]

\* "applying" is inside the transaction of a success; seen are the items of
\* the batch that its view shows as unfinished.
ImportRow == [stage : {"idle", "claimed", "valid", "refused", "retryable", "applying"},
              version : Nat,
              seen : SUBSET Item]

NoImport == [stage |-> "idle", version |-> 0, seen |-> {}]

Entries(b) == {i \in Item : BatchOf[i] = b}

ImportInit ==
    /\ item = [i \in Item |-> [status |-> "ABSENT", staged |-> FALSE,
                               owner |-> NoImporter, due |-> FALSE,
                               attempts |-> 0, version |-> 0]]
    /\ batch = [b \in Batch |-> "ABSENT"]
    /\ accounts = Known
    /\ import = [p \in Importer |-> [i \in Item |-> NoImport]]
    /\ losses = 0
    /\ upserts = [i \in Item |-> 0]

\* persist_cookie_import_batch for a new key; a known key changes nothing.
PersistBatch(b) ==
    /\ batch[b] = "ABSENT"
    /\ batch' = [batch EXCEPT ![b] =
                   IF Entries(b) \subseteq Unreadable THEN "FAILED" ELSE "QUEUED"]
    /\ item' = [i \in Item |->
                  IF i \notin Entries(b) THEN item[i]
                  ELSE [item[i] EXCEPT !.status = IF i \in Unreadable THEN "FAILED" ELSE "QUEUED",
                                       !.staged = i \notin Unreadable]]
    /\ UNCHANGED <<accounts, import, losses, upserts>>

-----------------------------------------------------------------------------
(* Claiming.                                                               *)

\* Mutant of Selectable: a lease that ran out is not looked for.
SelectableUnleased(i) ==
    \/ item[i].status = "QUEUED"
    \/ item[i].status = "RETRY_WAIT" /\ item[i].due

Selectable(i) ==
    \/ item[i].status = "QUEUED"
    \/ item[i].status \in {"RETRY_WAIT", "RUNNING"} /\ item[i].due

Locked(i) == \E p \in Importer : import[p][i].stage = "applying"

\* The first rows by id; those another transaction locks are skipped.
Selection ==
    LET rows == {i \in Item : Selectable(i) /\ ~Locked(i)} IN
    {i \in rows : Cardinality({j \in rows : j < i}) < ImportBatchSize}

\* claim_cookie_import_items.  Its branch for an item without a session is
\* left out: ImportTypeOK shows that none is ever selected.
ClaimItems(p) ==
    /\ \A i \in Item : import[p][i].stage = "idle"
    /\ Selection # {}
    /\ item' = [i \in Item |->
                  IF i \notin Selection THEN item[i]
                  ELSE [item[i] EXCEPT !.status = "RUNNING", !.owner = p, !.due = FALSE,
                                       !.attempts = @ + 1, !.version = @ + 1]]
    /\ batch' = [b \in Batch |-> IF Selection \cap Entries(b) # {} THEN "RUNNING" ELSE batch[b]]
    /\ import' = [import EXCEPT ![p] =
                    [i \in Item |->
                       IF i \notin Selection THEN NoImport
                       ELSE [stage |-> "claimed", version |-> item[i].version + 1, seen |-> {}]]]
    /\ UNCHANGED <<accounts, losses, upserts>>

-----------------------------------------------------------------------------
(* One item: validation, then one of two transactions.                     *)

\* process_cookie_import_item: the session belongs to the expected account
\* and serves, or an error that is retried or not.
ProcessItem(p, i) ==
    /\ import[p][i].stage = "claimed"
    /\ \E stage \in {"valid", "refused", "retryable"} :
         import' = [import EXCEPT ![p][i].stage = stage]
    /\ UNCHANGED <<item, batch, accounts, losses, upserts>>

\* Mutant of ClaimMatches: the fence that keeps late answers out is gone.
ClaimMatchesAlways(p, i) == item[i].status # "ABSENT"

\* _claim_matches
ClaimMatches(p, i) ==
    /\ item[i].status = "RUNNING"
    /\ item[i].owner = p
    /\ item[i].version = import[p][i].version

EndImport(p, i) == import' = [import EXCEPT ![p][i] = NoImport]

\* Mutant of Verdict: an item that waits for its retry counts as finished.
VerdictForgetsRetries(b, rows, unfinished) ==
    IF \E i \in unfinished : rows[i].status # "RETRY_WAIT" THEN "RUNNING"
    ELSE IF \A i \in Entries(b) : rows[i].status # "FAILED" THEN "COMPLETED"
    ELSE IF \A i \in Entries(b) : rows[i].status \notin Imported THEN "FAILED"
    ELSE "PARTIAL_FAILED"

\* _refresh_batch_status, given the rows and which of them look unfinished.
Verdict(b, rows, unfinished) ==
    IF unfinished # {} THEN "RUNNING"
    ELSE IF \A i \in Entries(b) : rows[i].status # "FAILED" THEN "COMPLETED"
    ELSE IF \A i \in Entries(b) : rows[i].status \notin Imported THEN "FAILED"
    ELSE "PARTIAL_FAILED"

Unfinished(b, rows) == {i \in Entries(b) : rows[i].status \in ItemActive}

\* Mutant of FailedRow: the session is dropped by every failure.
FailedRowDropsSession(row, again) ==
    [row EXCEPT !.status = IF again THEN "RETRY_WAIT" ELSE "FAILED", !.staged = FALSE,
                !.owner = NoImporter, !.due = FALSE, !.version = @ + 1]

\* apply_cookie_import_failure; its view is opened under the batch's lock.
FailedRow(row, again) ==
    [row EXCEPT !.status = IF again THEN "RETRY_WAIT" ELSE "FAILED",
                !.staged = again,
                !.owner = NoImporter,
                !.due = FALSE,
                !.version = @ + 1]

\* Mutant of ApplyFailure: the batch is not looked at.
ApplyFailureOnly(p, i) ==
    /\ import[p][i].stage \in {"refused", "retryable"}
    /\ ~Locked(i)
    /\ ClaimMatches(p, i)
    /\ item' = [item EXCEPT ![i] = FailedRow(@, /\ import[p][i].stage = "retryable"
                                                /\ @.attempts < ImportMaxAttempts)]
    /\ EndImport(p, i)
    /\ UNCHANGED <<batch, accounts, losses, upserts>>

ApplyFailure(p, i) ==
    LET b == BatchOf[i] IN
    /\ import[p][i].stage \in {"refused", "retryable"}
    /\ ~Locked(i)
    /\ ClaimMatches(p, i)
    /\ item' = [item EXCEPT ![i] = FailedRow(@, /\ import[p][i].stage = "retryable"
                                                /\ @.attempts < ImportMaxAttempts)]
    /\ batch' = [batch EXCEPT ![b] = Verdict(b, item', Unfinished(b, item'))]
    /\ EndImport(p, i)
    /\ UNCHANGED <<accounts, losses, upserts>>

\* Either transaction finds that the claim is no longer its own.
DropImport(p, i) ==
    /\ import[p][i].stage \in {"valid", "refused", "retryable"}
    /\ ~Locked(i)
    /\ ~ClaimMatches(p, i)
    /\ EndImport(p, i)
    /\ UNCHANGED <<item, batch, accounts, losses, upserts>>

\* Transactions of other items that hold a lock this one needs: the account
\* of its login or, to insert one, the row of the target space.
Blocking(i) ==
    {j \in Item : /\ Locked(j)
                  /\ \/ LoginOf[j] = LoginOf[i]
                     \/ /\ SpaceOfBatch[BatchOf[j]] = SpaceOfBatch[BatchOf[i]]
                        /\ {LoginOf[i], LoginOf[j]} \cap accounts = {}}

\* apply_cookie_import_success up to the first plain SELECT, which follows
\* the upsert: item, account and space are locked, the view is open.
UpsertAccount(p, i) ==
    /\ import[p][i].stage = "valid"
    /\ ~Locked(i) /\ Blocking(i) = {}
    /\ ClaimMatches(p, i)
    /\ import' = [import EXCEPT ![p][i] =
                    [@ EXCEPT !.stage = "applying",
                              !.seen = Unfinished(BatchOf[i], item) \ {i}]]
    /\ UNCHANGED <<item, batch, accounts, losses, upserts>>

\* The rest of it: the item, the batch by the view, and the commit.
CommitSuccess(p, i) ==
    LET b == BatchOf[i] IN
    /\ import[p][i].stage = "applying"
    /\ item' = [item EXCEPT ![i] =
                  [@ EXCEPT !.status = IF LoginOf[i] \in accounts THEN "UPDATED" ELSE "CREATED",
                            !.staged = FALSE, !.owner = NoImporter, !.due = FALSE,
                            !.version = item[i].version + 1]]
    /\ batch' = [batch EXCEPT ![b] = Verdict(b, item', import[p][i].seen)]
    /\ accounts' = accounts \cup {LoginOf[i]}
    /\ upserts' = [upserts EXCEPT ![i] = @ + 1]
    /\ EndImport(p, i)
    /\ UNCHANGED losses

-----------------------------------------------------------------------------
(* Faults and time.                                                        *)

\* An exception in a transaction (a deadlock victim, a lost connection) ends
\* the loop and the process with every claim it holds.
ImporterDies(p) ==
    /\ losses < MaxLosses
    /\ \E i \in Item : import[p][i].stage # "idle"
    /\ import' = [import EXCEPT ![p] = [i \in Item |-> NoImport]]
    /\ losses' = losses + 1
    /\ UNCHANGED <<item, batch, accounts, upserts>>

\* Nobody extends a lease; it is a loss only if its importer still works.
ItemFallsDue(i) ==
    /\ item[i].status \in {"RETRY_WAIT", "RUNNING"} /\ ~item[i].due
    /\ IF \E p \in Importer : import[p][i].stage # "idle" /\ ClaimMatches(p, i)
       THEN losses < MaxLosses /\ losses' = losses + 1
       ELSE UNCHANGED losses
    /\ item' = [item EXCEPT ![i].due = TRUE]
    /\ UNCHANGED <<batch, accounts, import, upserts>>

ImportStep(p, i) ==
    \/ ProcessItem(p, i)
    \/ ApplyFailure(p, i)
    \/ DropImport(p, i)
    \/ UpsertAccount(p, i)
    \/ CommitSuccess(p, i)

ImportNext ==
    \/ \E b \in Batch : PersistBatch(b)
    \/ \E p \in Importer : ClaimItems(p) \/ ImporterDies(p)
    \/ \E p \in Importer, i \in Item : ImportStep(p, i)
    \/ \E i \in Item : ItemFallsDue(i)

ImportSpec == ImportInit /\ [][ImportNext]_importVars

-----------------------------------------------------------------------------
(* Properties.                                                             *)

(* Rows have their types; an item keeps its staged session exactly while   *)
(* it can still be tried, so that the claim never meets one without.       *)
ImportTypeOK ==
    /\ item \in [Item -> ItemRow]
    /\ batch \in [Batch -> {"ABSENT", "QUEUED", "RUNNING"} \cup BatchEnded]
    /\ accounts \subseteq Login
    /\ import \in [Importer -> [Item -> ImportRow]]
    /\ losses \in 0 .. MaxLosses
    /\ upserts \in [Item -> Nat]
    /\ \A i \in Item : item[i].staged <=> item[i].status \in ItemActive

(* Leases that run out under a live importer, late answers and retries     *)
(* notwithstanding, a session is applied to its account at most once, and  *)
(* exactly when its item says so; an account is created by one item.       *)
ImportedOnce ==
    /\ \A i \in Item : upserts[i] = (IF item[i].status \in Imported THEN 1 ELSE 0)
    /\ \A i, j \in Item :
         /\ item[i].status = "CREATED" /\ item[j].status = "CREATED"
         /\ LoginOf[i] = LoginOf[j]
         => i = j

(* A batch that reports an end has no item left to try and reports what    *)
(* became of its items, although it may be decided by an old view of them. *)
BatchEndIsTrue ==
    \A b \in Batch : batch[b] \in BatchEnded =>
      /\ \A i \in Entries(b) : item[i].status \in Imported \cup {"FAILED"}
      /\ batch[b] = "COMPLETED" <=> \A i \in Entries(b) : item[i].status \in Imported
      /\ batch[b] = "FAILED" <=> \A i \in Entries(b) : item[i].status = "FAILED"

(* A batch none of whose items was imported is decided when the last one   *)
(* fails, however claims, retries and late answers interleave: a failure   *)
(* reads the statuses behind its lock on the batch.                        *)
FailuresDecide ==
    \A b \in Batch :
      /\ batch[b] # "ABSENT"
      /\ \A i \in Entries(b) : item[i].status = "FAILED"
      => batch[b] = "FAILED"

(* What a batch reports is true, and it reports that all is lost.          *)
BatchesReportTruly == BatchEndIsTrue /\ FailuresDecide

(* "wait for the batch to enter COMPLETED": a batch is decided when its    *)
(* last item has ended.                                                    *)
DecidedWhenDone ==
    \A b \in Batch :
      batch[b] # "ABSENT" /\ Unfinished(b, item) = {} => batch[b] \in BatchEnded

(* cookie_import_loop polls for ever and its coroutines run; leases and    *)
(* retry delays end.  Nothing obliges a client, nor an importer to die.    *)
ImportFairness ==
    /\ \A p \in Importer : WF_importVars(ClaimItems(p))
    /\ \A p \in Importer, i \in Item : WF_importVars(ImportStep(p, i))
    /\ \A i \in Item : WF_importVars(ItemFallsDue(i))

(* Every item of an archive is imported or fails for good, whatever dies   *)
(* or answers late.                                                        *)
ItemEnds == \A i \in Item : item[i].status \in ItemActive ~> item[i].status \in ItemEnded
=============================================================================
