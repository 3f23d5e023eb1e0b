-------------------------- MODULE CompositionProofs --------------------------
(* What the theorems about the single components say of MCServices and of  *)
(* MCRequests, which let one component run and the others rest: whichever  *)
(* runs, each behaves as its own specification allows, so what was proved  *)
(* of it holds there, for every value of the constants.                    *)
EXTENDS MCRequests, AccountProofs, RegistrationProofs, TaskRequestProofs

-----------------------------------------------------------------------------
(* The services around the task pipeline.                                  *)

\* A step of the whole is a step of each part, or leaves the part alone.
LEMMA PartsTakeTurns ==
    ASSUME [ServicesNext]_allVars
    PROVE  /\ [Next]_vars
           /\ [ImportNext]_importVars
           /\ [MailboxNext]_mailboxVars
           /\ [RegistrationNext]_registrationVars
           /\ [GateNext]_gateVars
<1>1. CASE TasksRun
  BY <1>1 DEF TasksRun
<1>2. CASE ImportRuns
  BY <1>2 DEF ImportRuns
<1>3. CASE MailboxesRun
  BY <1>3 DEF MailboxesRun
<1>4. CASE RegistrationsRun
  BY <1>4 DEF RegistrationsRun
<1>5. CASE GateRuns
  BY <1>5 DEF GateRuns
<1>6. CASE UNCHANGED allVars
  BY <1>6 DEF allVars
<1> QED
  BY <1>1, <1>2, <1>3, <1>4, <1>5, <1>6 DEF ServicesNext

\* The task pipeline and every service around it behave as each does alone.
LEMMA ServicesKeepTheirSpecifications ==
    ServicesSpec =>
      Spec /\ ImportSpec /\ MailboxSpec /\ RegistrationSpec /\ GateSpec
<1>1. ServicesInit =>
        Init /\ ImportInit /\ MailboxInit /\ RegistrationInit /\ GateInit
  BY DEF ServicesInit
<1>2. [ServicesNext]_allVars =>
        /\ [Next]_vars /\ [ImportNext]_importVars /\ [MailboxNext]_mailboxVars
        /\ [RegistrationNext]_registrationVars /\ [GateNext]_gateVars
  BY PartsTakeTurns
<1> QED
  BY <1>1, <1>2, PTL
  DEF ServicesSpec, Spec, ImportSpec, MailboxSpec, RegistrationSpec, GateSpec

LEMMA RegistrationRowsAreRows == RegistrationSpec => []RegistrationTypeOK
<1>1. RegistrationInvariant => RegistrationTypeOK
  BY DEF RegistrationInvariant
<1> QED
  BY <1>1, RegistrationStarts, RegistrationGoesOn, PTL DEF RegistrationSpec

(* Whichever service runs, its rows agree with each other: those of an     *)
(* import with its batch, of a mailbox with its leases, of a registration  *)
(* with its parent, of a renewal with the line at the gate; and no lease   *)
(* outlives its registration's deadline (cookie_importer.py,               *)
(* mailbox_validator.py, registration_records.py, protocol_renewal.py).    *)
THEOREM ServicesTypeCorrect == ServicesSpec => []ServicesTypeOK
<1>1. ImportInvariant => ImportTypeOK
  BY DEF ImportInvariant
<1>2. PoolInv => MailboxTypeOK
  BY DEF PoolInv
<1>3. ImportTypeOK /\ MailboxTypeOK /\ RegistrationTypeOK /\ GateTypeOK
        /\ DeadlineEndsLease => ServicesTypeOK
  BY DEF ServicesTypeOK
<1> QED
  BY <1>1, <1>2, <1>3, ServicesKeepTheirSpecifications, ImportInvariantHolds, PoolInvariant,
     RegistrationRowsAreRows, GateTypeCorrect, DeadlinesEndLeases, PTL

-----------------------------------------------------------------------------
(* The course of a request, and the accounts that come and go.             *)

LEMMA RequestPartsTakeTurns ==
    ASSUME [RequestsNext]_<<allVars, requestVars>>
    PROVE  /\ [ServicesNext]_allVars
           /\ [CircuitNext]_circuitVars
           /\ [CreationNext]_creationVars
           /\ [RosterNext]_rosterVars
<1>1. CASE ServicesNext /\ UNCHANGED requestVars
  BY <1>1 DEF requestVars
<1>2. CASE MediaRuns
  BY <1>2 DEF MediaRuns
<1>3. CASE CircuitRuns
  BY <1>3 DEF CircuitRuns
<1>4. CASE CreationRuns
  BY <1>4 DEF CreationRuns
<1>5. CASE RosterRuns
  BY <1>5 DEF RosterRuns
<1>6. CASE UNCHANGED <<allVars, requestVars>>
  BY <1>6 DEF requestVars
<1> QED
  BY <1>1, <1>2, <1>3, <1>4, <1>5, <1>6 DEF RequestsNext

\* So do the creation of a task, the circuits of its hosts and the roster.
LEMMA RequestPartsKeepTheirSpecifications ==
    RequestsSpec =>
      ServicesSpec /\ CircuitSpecification /\ CreationSpecification /\ RosterSpecification
<1>1. RequestsInit => ServicesInit /\ CircuitInit /\ CreationInit /\ RosterInit
  BY DEF RequestsInit
<1>2. [RequestsNext]_<<allVars, requestVars>> =>
        /\ [ServicesNext]_allVars /\ [CircuitNext]_circuitVars
        /\ [CreationNext]_creationVars /\ [RosterNext]_rosterVars
  BY RequestPartsTakeTurns
<1> QED
  BY <1>1, <1>2, PTL
  DEF RequestsSpec, ServicesSpec, CircuitSpecification, CreationSpecification, RosterSpecification

\* The media of a task have rows only in the part that is about them.
MediaHasItsPart ==
    /\ part = "media" => MediaInvariant /\ MediaProgress
    /\ part # "media" => sent = {}

LEMMA MediaPartStarts == RequestsInit => MediaHasItsPart
  BY MediaStarts, MediaProgressStarts DEF RequestsInit, MediaHasItsPart

LEMMA PartIsChosenOnce ==
    [RequestsNext]_<<allVars, requestVars>> => part' = part
<1>1. ServicesNext => part' = part
  BY DEF ServicesNext, TasksRun, ImportRuns, MailboxesRun, RegistrationsRun, GateRuns
<1> QED
  BY <1>1 DEF RequestsNext, MediaRuns, CircuitRuns, CreationRuns, RosterRuns, allVars

LEMMA MediaPartGoesOn ==
    MediaHasItsPart /\ [RequestsNext]_<<allVars, requestVars>> => MediaHasItsPart'
<1> SUFFICES ASSUME MediaHasItsPart, [RequestsNext]_<<allVars, requestVars>> PROVE MediaHasItsPart'
  OBVIOUS
<1>1. part' = part
  BY PartIsChosenOnce
<1>2. (part = "media" /\ MediaNext) \/ UNCHANGED mediaVars
  BY DEF RequestsNext, MediaRuns, CircuitRuns, CreationRuns, RosterRuns, requestVars
<1>3. UNCHANGED mediaVars => sent' = sent
  BY DEF mediaVars
<1> QED
  BY <1>1, <1>2, <1>3, MediaGoesOn, MediaProgressGoesOn DEF MediaHasItsPart

LEMMA MediaPartHolds == RequestsSpec => []MediaHasItsPart
  BY MediaPartStarts, MediaPartGoesOn, PTL DEF RequestsSpec

(* The rows of a request's references agree with the attempt that wrote    *)
(* them, and each call that creates a task stands where the rows that it   *)
(* has read allow (worker.py, api/tasks.py), for any number of tasks,      *)
(* attempts, references, keys and calls.                                   *)
THEOREM RequestsTypeCorrect == RequestsSpec => []RequestsTypeOK
<1>1. MediaHasItsPart /\ CreationTypeOK => RequestsTypeOK
  BY MediaProgressTypes DEF MediaHasItsPart, RequestsTypeOK
<1> QED
  BY <1>1, MediaPartHolds, RequestPartsKeepTheirSpecifications, CreationTypeCorrect, PTL
=============================================================================
