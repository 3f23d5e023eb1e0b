---------------------------- MODULE HostCircuit ----------------------------
(***************************************************************************)
(* The circuit breaker of a media host that is protected: downloads of a   *)
(* worker process run side by side, the outcomes arrive in any order, and  *)
(* a host that keeps failing is not asked for a while.  Hosts do not share *)
(* state, so there is one; time passes in steps of one.                    *)
(***************************************************************************)
EXTENDS Integers, Sequences, SequencesExt, FiniteSetsExt

CONSTANTS
    Threshold,    \* media_circuit_breaker_failure_threshold
    Window,       \* ..._window_seconds
    OpenFor,      \* ..._open_seconds
    MaxDownloads, \* bound: downloads at a time
    MaxOutcomes,  \* bound: what is recorded
    MaxTime       \* bound: the last instant

ASSUME CircuitAssumption ==
    /\ {Threshold, Window, OpenFor} \subseteq Nat \ {0}
    /\ {MaxDownloads, MaxOutcomes, MaxTime} \subseteq Nat

VARIABLES
    instant,
    circuit,   \* MediaHostCircuitState: failures and open_until, 0 if not open
    downloads, \* requests that were let through and have not ended
    outcomes   \* history of what happened to the host, in order

circuitVars == <<instant, circuit, downloads, outcomes>>

NoState == [failures |-> <<>>, openUntil |-> 0]

\* The clock of the process is monotonic and is not 0.
CircuitInit ==
    /\ instant = 1
    /\ circuit = NoState
    /\ downloads = 0
    /\ outcomes = <<>>

TimePasses ==
    /\ instant < MaxTime
    /\ instant' = instant + 1
    /\ UNCHANGED <<circuit, downloads, outcomes>>

Happens(what) ==
    /\ Len(outcomes) < MaxOutcomes
    /\ outcomes' = Append(outcomes, [what |-> what, at |-> instant])

\* before_request lets a download through; one after the circuit was open
\* forgets the failures.
DownloadStarts ==
    /\ downloads < MaxDownloads
    /\ circuit.openUntil <= instant
    /\ downloads' = downloads + 1
    /\ IF circuit.openUntil # 0
       THEN circuit' = NoState /\ Happens("trial")
       ELSE UNCHANGED <<circuit, outcomes>>
    /\ UNCHANGED instant

\* Mutant of RecentFailures: failures are counted, whenever they happened.
AllFailures == circuit.failures

\* The oldest are popped, up to the first within the window.
RecentFailures ==
    LET recent == {i \in DOMAIN circuit.failures : circuit.failures[i] >= instant - Window}
    IN IF recent = {} THEN <<>>
       ELSE SubSeq(circuit.failures, Min(recent), Len(circuit.failures))

\* record_failure: a time-out, a broken connection or a status of 500 and above.
DownloadFails ==
    LET failures == Append(RecentFailures, instant) IN
    /\ downloads > 0
    /\ downloads' = downloads - 1
    /\ circuit' = [failures |-> failures,
                   openUntil |-> IF Len(failures) >= Threshold THEN instant + OpenFor
                                 ELSE circuit.openUntil]
    /\ Happens("failure")
    /\ UNCHANGED instant

\* record_success drops the state, also of a circuit that is open.
DownloadSucceeds ==
    /\ downloads > 0
    /\ downloads' = downloads - 1
    /\ circuit' = NoState
    /\ Happens("success")
    /\ UNCHANGED instant

\* What ends without an outcome: an address that is refused, a file that is
\* too large, a cancellation.
DownloadIsDropped ==
    /\ downloads > 0
    /\ downloads' = downloads - 1
    /\ UNCHANGED <<instant, circuit, outcomes>>

CircuitNext ==
    \/ TimePasses
    \/ DownloadStarts
    \/ DownloadFails
    \/ DownloadSucceeds
    \/ DownloadIsDropped

CircuitSpecification == CircuitInit /\ [][CircuitNext]_circuitVars

-----------------------------------------------------------------------------
(* Properties.                                                             *)

\* The last Threshold outcomes up to i are failures within one window.
Opens(i) ==
    /\ i >= Threshold
    /\ \A j \in (i - Threshold + 1) .. i :
         outcomes[j].what = "failure" /\ outcomes[i].at - outcomes[j].at <= Window

\* Since i there were failures only.
FailingSince(i) == \A j \in i .. Len(outcomes) : outcomes[j].what = "failure"

(* A host is shut out if, and only if, Threshold downloads in a row failed *)
(* within one window with no success and no trial since, and exactly until *)
(* OpenFor after the last failure that made it so: failures of downloads   *)
(* that were under way when it opened prolong it, a late success ends it,  *)
(* and what failed before a trial is not held against the host again.      *)
CircuitIsEarned ==
    LET opened == {i \in DOMAIN outcomes : Opens(i) /\ FailingSince(i)}
    IN circuit.openUntil = IF opened = {} THEN 0 ELSE outcomes[Max(opened)].at + OpenFor
=============================================================================
