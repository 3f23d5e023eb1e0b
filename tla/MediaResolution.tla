-------------------------- MODULE MediaResolution --------------------------
(***************************************************************************)
(* The media of a typed task.  Before a worker submits an attempt, each    *)
(* reference is downloaded and uploaded with the token of the attempt's    *)
(* account, unless a row of the same account says that the same source was *)
(* uploaded before.  Rows belong to an attempt; the progress a client sees *)
(* belongs to the task.  A handler whose lease was lost works on.          *)
(*                                                                         *)
(* Of a source its kind and its length are modelled; sizes, formats and    *)
(* dimensions are checked at the same places and are left out.             *)
(***************************************************************************)
EXTENDS Integers, FiniteSets, Functions

CONSTANTS
    MediaTask,         \* typed tasks
    MediaCases,        \* task -> its family, media_specs and bound of attempts
    Seconds,           \* url -> length of what it serves, 0 of an image
    MediaAccount,
    MediaConcurrency   \* settings.media_resolution_concurrency

ASSUME MediaAssumption ==
    /\ \A c \in MediaCases, t \in MediaTask :
         /\ c[t].family \in {"seedance", "seedance25", "hailuo"} /\ c[t].tries \in Nat
         /\ c[t].specs \subseteq [kind : {"IMAGE", "AUDIO", "VIDEO"}, url : DOMAIN Seconds]
         /\ IsFiniteSet(c[t].specs)
    /\ \A url \in DOMAIN Seconds : Seconds[url] \in Nat
    /\ MediaConcurrency \in Nat \ {0}

VARIABLES
    media,     \* the task: its case, status, attempt and progress
    asset,     \* rows of task_media_assets, by task, attempt and spec
    resolver,  \* handle_assignment of an attempt, within resolve_assignment_media
    sent       \* what was handed to the builders and submitted

mediaVars == <<media, asset, resolver, sent>>

FamilyOf(t) == media[t].family
SpecsOf(t) == media[t].specs
Try(t) == 1 .. media[t].tries

\* upload: whose token uploaded the provider's asset, if there is one.
NoAsset == [status |-> "ABSENT", account |-> "none", upload |-> "none", reused |-> FALSE]
NoResolver == [stage |-> "idle", account |-> "none", got |-> <<>>]

\* The handler's copy of an outcome: an asset or an error.
Waits == [state |-> "waits", upload |-> "none", reused |-> FALSE]
Got(upload, reused) == [state |-> "got", upload |-> upload, reused |-> reused]
Error == [Waits EXCEPT !.state = "error"]

MediaInit ==
    \E c \in MediaCases :
      /\ media = [t \in MediaTask |->
                   [family |-> c[t].family, specs |-> c[t].specs, tries |-> c[t].tries,
                    status |-> "QUEUED", attempt |-> 0, resolved |-> 0, total |-> 0]]
      /\ asset = [t \in MediaTask |-> [n \in 1 .. c[t].tries |-> [s \in c[t].specs |-> NoAsset]]]
      /\ resolver = [t \in MediaTask |-> [n \in 1 .. c[t].tries |-> NoResolver]]
      /\ sent = {}

IsRecent(t) == FamilyOf(t) = "seedance25"

-----------------------------------------------------------------------------
(* The task around it.                                                     *)

\* A worker claims the task, refreshes its account and is about to resolve.
AssignMedia(t, a) ==
    /\ media[t].status = "QUEUED" /\ media[t].attempt < media[t].tries
    /\ media' = [media EXCEPT ![t].status = "RESOLVING", ![t].attempt = @ + 1]
    /\ resolver' = [resolver EXCEPT ![t][media'[t].attempt] =
                      [NoResolver EXCEPT !.stage = "assigned", !.account = a]]
    /\ UNCHANGED <<asset, sent>>

\* The task leaves media resolution by a failure, by the recovery of its
\* lease or by a cancellation; it may be claimed again.
LeavesResolution(t, status) ==
    /\ media[t].status \in {"RESOLVING", "SUBMITTING"}
    /\ media' = [media EXCEPT ![t].status = status]
    /\ UNCHANGED <<asset, resolver, sent>>

-----------------------------------------------------------------------------
(* resolve_assignment_media.                                               *)

\* Rows, of any task and attempt, with the kind and the source of s.
RowsOfSource(s) ==
    UNION {{asset[t][n][u] : n \in Try(t), u \in {v \in SpecsOf(t) : v.kind = s.kind /\ v.url = s.url}} :
             t \in MediaTask}

\* Mutant of Cached: an asset serves every account.
CachedAnywhere(a, s) == {row \in RowsOfSource(s) : row.status = "READY"}

Cached(a, s) == {row \in RowsOfSource(s) : row.status = "READY" /\ row.account = a}

\* initialize_media_assets, in one transaction with the task locked.  It asks
\* for the state of the task and not whose attempt it is in.
InitializeMedia(t, n) ==
    LET a == resolver[t][n].account
        hits == {s \in SpecsOf(t) : Cached(a, s) # {}}
    IN
    /\ resolver[t][n].stage = "assigned"
    /\ media[t].status = "RESOLVING"
    /\ ~(FamilyOf(t) = "hailuo" /\ \E s \in SpecsOf(t) : s.kind = "VIDEO")
    /\ \E hit \in [hits -> UNION {Cached(a, s) : s \in hits}] :
         /\ \A s \in hits : hit[s] \in Cached(a, s)
         /\ asset' = [asset EXCEPT ![t][n] =
                        [s \in SpecsOf(t) |->
                           [status |-> IF s \in hits THEN "READY" ELSE "PENDING", account |-> a,
                            upload |-> IF s \in hits THEN hit[s].upload ELSE "none",
                            reused |-> s \in hits]]]
         /\ resolver' = [resolver EXCEPT ![t][n] =
                           [@ EXCEPT !.stage = "resolving",
                                     !.got = [s \in SpecsOf(t) |->
                                                IF s \in hits THEN Got(hit[s].upload, TRUE) ELSE Waits]]]
    /\ media' = [media EXCEPT ![t].resolved = Cardinality(hits), ![t].total = Cardinality(SpecsOf(t))]
    /\ UNCHANGED sent

\* Its checks fail: the attempt fails.
ResolutionFails(t, n) ==
    /\ \/ resolver[t][n].stage = "assigned" /\ media[t].status # "RESOLVING"
       \/ /\ resolver[t][n].stage = "assigned"
          /\ FamilyOf(t) = "hailuo" /\ \E s \in SpecsOf(t) : s.kind = "VIDEO"
    /\ resolver' = [resolver EXCEPT ![t][n] = NoResolver]
    /\ UNCHANGED <<media, asset, sent>>

\* The semaphore of resolve_assignment_media lets a download start.
StartDownload(t, n, s) ==
    /\ resolver[t][n].stage = "resolving" /\ resolver[t][n].got[s].state = "waits"
    /\ Cardinality({u \in SpecsOf(t) : resolver[t][n].got[u].state = "loads"}) < MediaConcurrency
    /\ resolver' = [resolver EXCEPT ![t][n].got[s].state = "loads"]
    /\ UNCHANGED <<media, asset, sent>>

\* What _download_media refuses on its own: validate_reference_audio_media,
\* validate_reference_video_media with the bounds of the task's model.
DownloadFits(t, s) ==
    CASE s.kind = "IMAGE" -> TRUE
      [] s.kind = "AUDIO" -> Seconds[s.url] \in 2 .. (IF IsRecent(t) THEN 30 ELSE 15)
      [] s.kind = "VIDEO" -> IF IsRecent(t) THEN Seconds[s.url] > 0 ELSE Seconds[s.url] \in 3 .. 10

\* record_media_ready: the row of the own attempt, the progress of the task.
MediaArrives(t, n, s) ==
    LET a == resolver[t][n].account IN
    /\ resolver[t][n].stage = "resolving" /\ resolver[t][n].got[s].state = "loads"
    /\ DownloadFits(t, s)
    /\ media[t].status = "RESOLVING"
    /\ asset' = [asset EXCEPT ![t][n][s] = [@ EXCEPT !.status = "READY", !.upload = a, !.reused = FALSE]]
    /\ media' = [media EXCEPT ![t].resolved =
                   Cardinality({u \in SpecsOf(t) : asset'[t][n][u].status = "READY"})]
    /\ resolver' = [resolver EXCEPT ![t][n].got[s] = Got(a, FALSE)]
    /\ UNCHANGED sent

\* record_media_failure, also when the task left its state meanwhile.
MediaFails(t, n, s) ==
    /\ resolver[t][n].stage = "resolving" /\ resolver[t][n].got[s].state = "loads"
    /\ asset' = [asset EXCEPT ![t][n][s].status = "FAILED"]
    /\ resolver' = [resolver EXCEPT ![t][n].got[s] = Error]
    /\ UNCHANGED <<media, sent>>

Total(specs) == SumFunctionOnSet([s \in specs |-> Seconds[s.url]], specs)
OfKind(t, kind) == {s \in SpecsOf(t) : s.kind = kind}

\* Mutant of CollectionFits: videos are checked when they are downloaded.
CollectionFitsInTotal(t) ==
    FamilyOf(t) = "seedance" => Total(OfKind(t, "VIDEO")) <= 15

\* validate_reference_video_collection, validate_reference_audio_collection
\* and the sums of hailuo-03, over all references, reused ones included.
CollectionFits(t) ==
    LET audios == OfKind(t, "AUDIO")
        videos == OfKind(t, "VIDEO")
    IN
    CASE FamilyOf(t) = "seedance" ->
           /\ \A s \in videos : Seconds[s.url] \in 3 .. 10
           /\ Total(videos) <= 15
      [] FamilyOf(t) = "seedance25" ->
           /\ \A s \in videos : Seconds[s.url] > 0
           /\ Total(videos) <= 30
           /\ \A s \in audios : Seconds[s.url] \in 2 .. 30
           /\ Total(audios) <= 30
      [] FamilyOf(t) = "hailuo" -> Total(audios) <= 15 /\ Total(videos) <= 15

\* Every coroutine has answered: the first error is raised, or the collection
\* is validated, and mark_submission_ready takes the task to SUBMITTING.
GatherMedia(t, n) ==
    LET got == resolver[t][n].got IN
    /\ resolver[t][n].stage = "resolving"
    /\ \A s \in SpecsOf(t) : got[s].state \in {"got", "error"}
    /\ IF /\ \A s \in SpecsOf(t) : got[s].state = "got"
          /\ CollectionFits(t)
          /\ media[t].status = "RESOLVING"
       THEN /\ media' = [media EXCEPT ![t].status = "SUBMITTING"]
            /\ sent' = sent \cup {[task |-> t, account |-> resolver[t][n].account, got |-> got]}
       ELSE UNCHANGED <<media, sent>>
    /\ resolver' = [resolver EXCEPT ![t][n] = NoResolver]
    /\ UNCHANGED asset

MediaNext ==
    \/ \E t \in MediaTask, a \in MediaAccount : AssignMedia(t, a)
    \/ \E t \in MediaTask, status \in {"QUEUED", "ENDED"} : LeavesResolution(t, status)
    \/ \E t \in MediaTask : \E n \in Try(t) :
         \/ InitializeMedia(t, n)
         \/ ResolutionFails(t, n)
         \/ GatherMedia(t, n)
         \/ \E s \in SpecsOf(t) : StartDownload(t, n, s) \/ MediaArrives(t, n, s) \/ MediaFails(t, n, s)

MediaSpecification == MediaInit /\ [][MediaNext]_mediaVars

-----------------------------------------------------------------------------
(* Properties.                                                             *)

MediaStatus == {"QUEUED", "RESOLVING", "SUBMITTING", "ENDED"}

(* Rows have their types, the row of an attempt is its account's, and the  *)
(* progress of a task never exceeds its references, whichever attempt, the *)
(* current one or one whose lease was lost, wrote it last.                 *)
MediaTypeOK ==
    /\ \A t \in MediaTask :
         /\ media[t].status \in MediaStatus /\ media[t].attempt \in 0 .. media[t].tries
         /\ media[t].total \in {0, Cardinality(SpecsOf(t))}
         /\ media[t].resolved \in 0 .. media[t].total
         /\ \A n \in Try(t), s \in SpecsOf(t) :
              /\ asset[t][n][s].status \in {"ABSENT", "PENDING", "READY", "FAILED"}
              /\ asset[t][n][s].status = "READY" => asset[t][n][s].upload \in MediaAccount
              /\ resolver[t][n].stage # "idle" /\ asset[t][n][s].status # "ABSENT" =>
                   asset[t][n][s].account = resolver[t][n].account

\* The lengths the documented limits allow in one request of a task.
WithinLimits(t, kind, s) ==
    CASE kind = "AUDIO" -> Seconds[s.url] \in 2 .. (IF IsRecent(t) THEN 30 ELSE 15)
      [] kind = "VIDEO" -> IsRecent(t) \/ Seconds[s.url] \in 3 .. 10
      [] OTHER -> TRUE

(* What is submitted was uploaded by the account that submits it, although *)
(* rows are reused across tasks and attempts, and is within the limits of  *)
(* the task's own model, although a task of another model may have         *)
(* uploaded it.  Except: the audio of Seedance 2.0 is only probed when it  *)
(* is downloaded, so one that a task of Seedance 2.5 left on the account   *)
(* passes with up to 30 seconds.                                           *)
SubmittedMediaFit ==
    \A x \in sent :
      /\ \A s \in SpecsOf(x.task) :
           /\ x.got[s].upload = x.account
           /\ \/ WithinLimits(x.task, s.kind, s)
              \/ /\ FamilyOf(x.task) = "seedance" /\ s.kind = "AUDIO"
                 /\ x.got[s].reused /\ Seconds[s.url] <= 30
      /\ Total(OfKind(x.task, "VIDEO")) <= (IF IsRecent(x.task) THEN 30 ELSE 15)
=============================================================================
