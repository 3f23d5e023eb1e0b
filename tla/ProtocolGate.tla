---------------------------- MODULE ProtocolGate ----------------------------
(***************************************************************************)
(* Pacing of the protocol renewals of one syncer process.  Every request   *)
(* to the provider's login site passes a gate: a FIFO lock (asyncio.Lock)  *)
(* whose holder sleeps until the next request is due, and a cool-down that *)
(* any answer "too many requests" starts or prolongs.                      *)
(*                                                                         *)
(* Times are counted down from now, in units of the clock, so no bound on  *)
(* the clock is needed.                                                    *)
(***************************************************************************)
EXTENDS Integers, Sequences, SequencesExt

CONSTANTS
    Renewer,     \* renewals that run concurrently in the process
    NoRenewer,
    MinInterval, \* settings.protocol_renewal_min_interval_seconds
    RetryAfter,  \* what a Retry-After header may ask for
    DefaultCooldown \* settings.protocol_renewal_rate_limit_cooldown_seconds

ASSUME GateAssumption ==
    /\ NoRenewer \notin Renewer
    /\ MinInterval \in Nat \ {0} /\ DefaultCooldown \in Nat \ {0}
    /\ RetryAfter \subseteq Nat

VARIABLES
    renewer,      \* renew_protocol_session calls
    line,         \* those that wait for the lock, in their order
    holder,       \* who sleeps with the lock
    untilNext,    \* _next_request_at - now
    blocked,      \* _blocked_until - now
    sinceRequest, \* history: time since the last request, up to MinInterval
    asked         \* history: how long the provider asked to be left alone

gateVars == <<renewer, line, holder, untilNext, blocked, sinceRequest, asked>>

-----------------------------------------------------------------------------

CoolDowns == RetryAfter \cup {DefaultCooldown}

Later(s, t) == IF s < t THEN t ELSE s

\* purpose: "session" and, after its cookies were rotated, "again" ask for the
\* session, "cross" for the cookies of the other origin.
RenewerRow == [stage : {"idle", "asking", "requesting"},
               purpose : {"session", "again", "cross"}]

GateInit ==
    /\ renewer = [c \in Renewer |-> [stage |-> "idle", purpose |-> "session"]]
    /\ line = <<>> /\ holder = NoRenewer
    /\ untilNext = 0 /\ blocked = 0
    /\ sinceRequest = MinInterval /\ asked = 0

\* Mutant of Asks: the lock is granted to the latest caller.
AsksFirst(c, purpose) ==
    /\ renewer' = [renewer EXCEPT ![c] = [stage |-> "asking", purpose |-> purpose]]
    /\ line' = <<c>> \o line

\* acquire() is entered; the lock is granted in the order of the calls.
Asks(c, purpose) ==
    /\ renewer' = [renewer EXCEPT ![c] = [stage |-> "asking", purpose |-> purpose]]
    /\ line' = Append(line, c)

GateLeft(c) == renewer' = [renewer EXCEPT ![c] = [stage |-> "idle", purpose |-> "session"]]

\* renew_protocol_session is called.
StartRenewal(c) ==
    /\ renewer[c].stage = "idle"
    /\ Asks(c, "session")
    /\ UNCHANGED <<holder, untilNext, blocked, sinceRequest, asked>>

\* acquire() returns; the request leaves before anything else runs.
Grant(c) ==
    /\ renewer' = [renewer EXCEPT ![c].stage = "requesting"]
    /\ untilNext' = MinInterval
    /\ sinceRequest' = 0

\* acquire() raises: a refused request ends the renewal, and a refused
\* synchronisation of cookies is only logged, which ends it as well.
Refuse(c) ==
    /\ GateLeft(c)
    /\ UNCHANGED <<untilNext, sinceRequest>>

\* asyncio.Lock wakes its waiters in their order: the lock is free for c,
\* which is refused, sleeps with the lock, or passes.
TakeLock(c) ==
    /\ holder = NoRenewer
    /\ line # <<>> /\ c = Head(line)
    /\ line' = Tail(line)
    /\ \/ /\ blocked > 0
          /\ Refuse(c)
          /\ UNCHANGED holder
       \/ /\ blocked = 0 /\ untilNext > 0
          /\ holder' = c
          /\ UNCHANGED <<renewer, untilNext, sinceRequest>>
       \/ /\ blocked = 0 /\ untilNext = 0
          /\ Grant(c)
          /\ UNCHANGED holder
    /\ UNCHANGED <<blocked, asked>>

\* Mutant of Wake: the circuit is not looked at again.
WakeAnyway ==
    /\ holder # NoRenewer /\ untilNext = 0
    /\ Grant(holder)
    /\ holder' = NoRenewer
    /\ UNCHANGED <<line, blocked, asked>>

\* The sleep is over; meanwhile another answer may have closed the circuit.
Wake ==
    /\ holder # NoRenewer /\ untilNext = 0
    /\ IF blocked > 0 THEN Refuse(holder) ELSE Grant(holder)
    /\ holder' = NoRenewer
    /\ UNCHANGED <<line, blocked, asked>>

\* Mutant of Block: a shorter cool-down replaces a longer one.
BlockShortens(seconds) == blocked' = Later(seconds, 1)

\* block()
Block(seconds) == blocked' = Later(blocked, Later(seconds, 1))

\* "Too many requests", with a Retry-After or without (0): request() closes
\* the circuit and raises.
AnswerTooMany(c, header) ==
    LET seconds == IF header = 0 THEN DefaultCooldown ELSE header IN
    /\ renewer[c].stage = "requesting"
    /\ Block(seconds)
    /\ asked' = Later(asked, seconds)
    /\ GateLeft(c)
    /\ UNCHANGED <<line, holder, untilNext, sinceRequest>>

\* Any other answer: the renewal ends, or goes on to its next request.
AnswerOther(c) ==
    /\ renewer[c].stage = "requesting"
    /\ \/ /\ GateLeft(c)
          /\ UNCHANGED line
       \/ /\ renewer[c].purpose = "session"
          /\ Asks(c, "again")
       \/ /\ renewer[c].purpose # "cross"
          /\ Asks(c, "cross")
    /\ UNCHANGED <<holder, untilNext, blocked, sinceRequest, asked>>

Countdown(t) == IF t = 0 THEN 0 ELSE t - 1

GateTick ==
    /\ untilNext' = Countdown(untilNext)
    /\ blocked' = Countdown(blocked)
    /\ asked' = Countdown(asked)
    /\ sinceRequest' = IF sinceRequest < MinInterval THEN sinceRequest + 1 ELSE sinceRequest
    /\ <<untilNext, blocked, asked, sinceRequest>>' # <<untilNext, blocked, asked, sinceRequest>>
    /\ UNCHANGED <<renewer, line, holder>>

GateNext ==
    \/ \E c \in Renewer :
         \/ StartRenewal(c)
         \/ \E header \in RetryAfter \cup {0} : AnswerTooMany(c, header)
         \/ AnswerOther(c)
         \/ TakeLock(c)
    \/ Wake
    \/ GateTick

GateSpec == GateInit /\ [][GateNext]_gateVars

-----------------------------------------------------------------------------
(* Properties.                                                             *)

(* Times and rows have their types; those in line or asleep are asking.    *)
GateTypeOK ==
    /\ renewer \in [Renewer -> RenewerRow]
    /\ line \in Seq(Renewer) /\ IsInjective(line)
    /\ holder \in Renewer \cup {NoRenewer}
    /\ untilNext \in 0 .. MinInterval /\ sinceRequest \in 0 .. MinInterval
    /\ blocked \in Nat /\ \E t \in CoolDowns \cup {1} : blocked <= t
    /\ asked \in Nat /\ \E t \in CoolDowns : asked <= t
    /\ {c \in Renewer : renewer[c].stage = "asking"} = ToSet(line) \cup ({holder} \ {NoRenewer})

(* Requests of all renewals of the process keep their distance, and while  *)
(* the provider asks to be left alone none leaves, although renewals were  *)
(* already waiting or asleep when it asked and shorter requests follow     *)
(* longer ones.                                                            *)
RequestsArePaced ==
    [][(\E c \in Renewer : renewer[c].stage = "asking" /\ renewer'[c].stage = "requesting")
         => sinceRequest = MinInterval /\ asked = 0]_gateVars

(* Sleeps and requests end, and the lock passes on.                        *)
GateFairness ==
    /\ WF_gateVars(\E c \in Renewer : TakeLock(c))
    /\ WF_gateVars(Wake)
    /\ WF_gateVars(GateTick)

(* Whoever asks passes or is refused: nobody waits at the gate for ever.   *)
AsksAreAnswered ==
    \A c \in Renewer : renewer[c].stage = "asking" ~> renewer[c].stage # "asking"
=============================================================================
