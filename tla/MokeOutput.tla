----------------------------- MODULE MokeOutput -----------------------------
(***************************************************************************)
(* The voltage outputs of the MOKE box: the field page starts jobs, a      *)
(* worker runs them as calls of MokeBoxAdapter, and the adapter ramps a    *)
(* DAC in bounded steps, each SET confirmed by a readback.                 *)
(*                                                                         *)
(* The box is external and does not acknowledge a SET.  It carries SETs    *)
(* out in the order they were sent, but late, also after the session they  *)
(* came from is closed; a readback shows the DACs as they are.  Operator   *)
(* and deadlines act at any moment.  Calls of one adapter run one at a     *)
(* time on its instrument thread (InstrumentAccess).                       *)
(*                                                                         *)
(* A voltage is a number of DAC codes; the rounding of a target to a code, *)
(* the tolerance of a comparison and the pace of the steps are left out.   *)
(***************************************************************************)
EXTENDS Integers, Sequences, FiniteSetsExt

CONSTANTS
    Approved,     \* the approved output channels, the primary one first
    TestOutputs,  \* those of kepco_mode "dac_test", which may recover to zero
    Lo, Hi,       \* the station envelope of a channel
    Rail,         \* the range of the DAC is -Rail .. Rail
    Step,         \* the greatest change by one SET
    Kinds,        \* the jobs that are started
    MaxJobs,      \* bound: jobs
    MaxLive,      \* bound: live targets published
    MaxFaults     \* bound: failed transfers and expired deadlines

Channels == Range(Approved)
NoTarget == Rail + 1

ASSUME ApprovedAssumption ==
    Approved \in Seq(Channels) /\ Approved # <<>> /\ TestOutputs \subseteq Channels
ASSUME EnvelopeAssumption ==
    /\ Rail \in Nat /\ Step \in Nat \ {0}
    /\ Lo \in [Channels -> -Rail..0] /\ Hi \in [Channels -> 0..Rail]
ASSUME KindsAssumption == Kinds \subseteq {"voltage", "zero", "calibration", "disconnect", "estop"}
ASSUME BoundsAssumption == MaxJobs \in Nat /\ MaxLive \in Nat /\ MaxFaults \in Nat

VARIABLES
    dac,       \* the voltage of every output
    wire,      \* SETs sent and not yet carried out
    replies,   \* replies to readbacks nobody waited for any more
    connected, \* the adapter's session
    state,     \* its DeviceState
    plan,      \* _voltage_plan, _armed, _next_target and _active_profile
    flag,      \* _stop_requested
    changed,   \* _changed_channels
    safe,      \* _safe_target_confirmed
    op,        \* the adapter call in progress
    job,       \* the page's job and its worker
    cancel,    \* the job's cancel event
    mailbox,   \* MokeLiveTargets
    jobs, lives, faults,
    touched    \* history: channels that were ever written

box     == <<dac, wire, replies>>
session == <<connected, state, plan, flag>>
proof   == <<changed, safe, touched>>
page    == <<job, cancel, jobs, lives>>
vars    == <<dac, wire, replies, connected, state, plan, flag, changed, safe, op, job,
             cancel, mailbox, jobs, lives, faults, touched>>

Voltages     == -Rail..Rail
Targets(c)   == Lo[c]..Hi[c]
InRange(c, v) == v \in Targets(c)
Abs(v)       == IF v < 0 THEN -v ELSE v
NoPlan       == <<>>
Unplanned    == [plan EXCEPT !.targets = NoPlan, !.armed = FALSE]
Faulty       == faults < MaxFaults /\ faults' = faults + 1
Closed       == mailbox' = [pending |-> NoTarget, open |-> FALSE]

\* The adapter at rest, and at the beginning of a ramp to a target.
NoCall ==
    [pc |-> "idle", of |-> "none", answer |-> "none", ch |-> Head(Approved), target |-> 0,
     actual |-> 0, recovering |-> FALSE, next |-> 0, stale |-> FALSE,
     left |-> <<>>, tried |-> {}, failed |-> FALSE]
Call(of, c, target) ==
    [NoCall EXCEPT !.pc = "read", !.of = of, !.ch = c, !.target = target]

Init ==
    /\ dac \in [Channels -> Voltages]
    /\ wire = <<>> /\ replies = <<>>
    /\ connected = FALSE /\ state = "disconnected"
    /\ plan = [targets |-> NoPlan, armed |-> FALSE, next |-> 1, active |-> Head(Approved)]
    /\ flag = FALSE
    /\ changed = {} /\ safe = FALSE
    /\ op = NoCall
    /\ job = [kind |-> "none", at |-> "none", ch |-> Head(Approved), targets |-> NoPlan,
              result |-> NoTarget]
    /\ cancel = FALSE /\ mailbox = [pending |-> NoTarget, open |-> FALSE]
    /\ jobs = 0 /\ lives = 0 /\ faults = 0
    /\ touched = {}

-----------------------------------------------------------------------------
(* The box.                                                                *)

CarryOut ==
    /\ wire # <<>>
    /\ dac' = [dac EXCEPT ![Head(wire).ch] = Head(wire).v]
    /\ wire' = Tail(wire)
    /\ UNCHANGED <<replies, session, proof, op, page, mailbox, faults>>

\* The answer a readback receives: the oldest in the stream.
Heard == IF replies = <<>> THEN dac ELSE Head(replies)
Hear  == replies' = IF replies = <<>> THEN <<>> ELSE Append(Tail(replies), dac)

-----------------------------------------------------------------------------
(* Ends of a call.  "ramp" is ramp_vout; stop_vout is called by the worker *)
(* ("stop"), from ramp_vout ("abort") or once per channel ("emergency").   *)

Stopping == op.of # "ramp"
Ramping  == op.pc \in {"loop", "pace", "confirm", "settle"}

\* Where a call that ends with "answer" returns to.
Return(answer) ==
    IF op.of = "emergency"
    THEN /\ op' = [NoCall EXCEPT !.pc = "next", !.of = "emergency", !.left = op.left,
                       !.tried = op.tried, !.failed = op.failed \/ answer = "error"]
         /\ UNCHANGED mailbox
    ELSE /\ op' = [NoCall EXCEPT !.of = op.of, !.answer = answer]
         /\ IF op.of \in {"ramp", "abort"} THEN Closed ELSE UNCHANGED mailbox

FaultAndClose ==
    /\ plan' = Unplanned
    /\ safe' = FALSE
    /\ replies' = <<>>
    /\ connected' = FALSE
    /\ state' = IF changed' # {} THEN "unknown" ELSE "fault"
    /\ Return("error")

\* stop_vout: from any ramp, or as a call of its own.
StopVout(rest) ==
    /\ flag' = TRUE
    /\ plan' = [Unplanned EXCEPT !.active = rest.ch]
    /\ op' = rest

Aborted == StopVout(Call("abort", op.ch, 0))

\* A ramp that is interrupted, late or misled returns to zero; a shutdown that
\* is closes the session.
GiveUp ==
    IF Stopping THEN FaultAndClose /\ UNCHANGED flag
    ELSE Aborted /\ UNCHANGED <<safe, replies, connected, state, mailbox>>

Stopped(v) ==
    /\ changed' = changed \ {op.ch}
    /\ safe' = (v = 0 /\ changed' = {})
    /\ state' = "verified"
    /\ Return(IF op.of = "abort" THEN "error" ELSE "ok")
    /\ UNCHANGED <<connected, plan, flag>>

-----------------------------------------------------------------------------
(* _ramp and _write_vout.                                                  *)

InterruptedByFlag == ~Stopping /\ flag
Interrupted == ~Stopping /\ (flag \/ cancel)
Recovers(v) == op.ch \in TestOutputs /\ op.target = 0 /\ ~InRange(op.ch, v)

\* A shutdown of a channel that reads zero sends no SET, unless one of its own is
\* uncertain: it could still be on its way.
AlreadyZeroRead(v) == Stopping /\ v = 0
AlreadyZero(v) == Stopping /\ v = 0 /\ op.ch \notin changed

InitialReadback ==
    /\ op.pc = "read"
    /\ LET v == Heard[op.ch] IN
       \/ /\ ~InRange(op.ch, v) /\ ~Recovers(v)
          /\ UNCHANGED changed /\ FaultAndClose
          /\ UNCHANGED flag
       \/ /\ InRange(op.ch, v) \/ Recovers(v)
          /\ AlreadyZero(v)
          /\ Hear /\ Stopped(v)
       \/ /\ InRange(op.ch, v) \/ Recovers(v)
          /\ ~AlreadyZero(v)
          /\ Hear
          /\ op' = [op EXCEPT !.pc = "loop", !.actual = v, !.recovering = Recovers(v)]
          /\ UNCHANGED <<session, changed, safe, mailbox>>
    /\ UNCHANGED <<dac, wire, touched, page, faults>>

\* The transport of a call fails: nothing more is sent on its session.
TransportFails ==
    /\ op.pc \in {"read", "confirm", "settle"}
    /\ Faulty
    /\ UNCHANGED changed /\ FaultAndClose
    /\ UNCHANGED <<dac, wire, flag, touched, page>>

Interrupt ==
    /\ Ramping /\ Interrupted
    /\ Aborted
    /\ UNCHANGED <<box, connected, state, proof, page, mailbox, faults>>

\* TimeoutError of the ramp's own deadline.
DeadlinePasses ==
    /\ op.pc \in {"loop", "pace", "settle"}
    /\ Faulty
    /\ UNCHANGED <<dac, wire, changed, touched, page>>
    /\ GiveUp

\* update_target: the newest target, unless the five seconds for live targets
\* are over.
LiveTargets ==
    IF Stopping \/ op.recovering \/ mailbox.pending = NoTarget THEN {}
    ELSE {mailbox.pending}
Take == mailbox' = [mailbox EXCEPT !.pending = NoTarget]

Toward(v, t) == IF Abs(t - v) <= Step THEN t ELSE IF t > v THEN v + Step ELSE v - Step

NextStep ==
    /\ op.pc = "loop" /\ ~Interrupted
    /\ \E t \in {op.target} \cup LiveTargets :
       LET v == Toward(op.actual, t)
           write == v # op.actual \/ (Stopping /\ op.ch \in changed)
       IN
       /\ IF t # op.target THEN Take ELSE UNCHANGED mailbox
       /\ op' = [op EXCEPT !.pc = IF write THEN "pace" ELSE "settle", !.target = t]
    /\ UNCHANGED <<box, session, proof, page, faults>>

\* A newer target replaces the step not yet sent, or ends the settling.
Retarget ==
    /\ op.pc \in {"pace", "settle"}
    /\ \E t \in LiveTargets :
       /\ Take
       /\ op' = [op EXCEPT !.pc = IF t = op.target THEN @ ELSE "loop", !.target = t]
    /\ UNCHANGED <<box, session, proof, page, faults>>

\* The pause before a step tests for an interruption, at the latest when it ends;
\* one that comes between that test and the SET is as one that comes after it.
Send ==
    LET v == Toward(op.actual, op.target) IN
    /\ op.pc = "pace" /\ ~Interrupted
    /\ changed' = changed \cup {op.ch}
    /\ touched' = touched \cup {op.ch}
    /\ \/ /\ safe' = FALSE
          /\ wire' = Append(wire, [ch |-> op.ch, v |-> v])
          /\ op' = [op EXCEPT !.pc = "confirm", !.next = v, !.stale = FALSE]
          /\ UNCHANGED <<replies, connected, state, plan, mailbox, faults>>
       \/ /\ Faulty  \* the transport fails before or after the box had the SET
          /\ wire' \in {wire, Append(wire, [ch |-> op.ch, v |-> v])}
          /\ FaultAndClose
    /\ UNCHANGED <<dac, flag, page>>

\* What the next readback says of the SET.
Misled(v) ==
    IF op.recovering
    THEN Abs(v) > Abs(op.actual) \/ v * op.actual < 0
    ELSE ~InRange(op.ch, v)
Confirmed(v) ==
    /\ ~Misled(v) /\ v = op.next
    /\ op.recovering => Abs(v) < Abs(op.actual)

Confirm ==
    /\ op.pc = "confirm" /\ ~Interrupted
    /\ LET v == Heard[op.ch] IN
       \/ /\ Confirmed(v) /\ op.next # op.target
          /\ Hear
          /\ op' = [op EXCEPT !.pc = "loop", !.actual = v]
          /\ UNCHANGED <<session, changed, safe, mailbox>>
       \/ /\ Confirmed(v) /\ op.next = op.target /\ ~Stopping
          /\ Hear
          /\ op' = [op EXCEPT !.pc = "settle", !.actual = v]
          /\ UNCHANGED <<session, changed, safe, mailbox>>
       \/ /\ Confirmed(v) /\ op.next = op.target /\ Stopping
          /\ Hear /\ Stopped(v)
       \/ /\ Misled(v)
          /\ UNCHANGED changed
          /\ IF Stopping THEN FaultAndClose /\ UNCHANGED flag
             ELSE /\ Aborted /\ Hear
                  /\ UNCHANGED <<safe, connected, state, mailbox>>
       \/ /\ ~Misled(v) /\ ~Confirmed(v)
          /\ Hear
          /\ op' = [op EXCEPT !.stale = TRUE]
          /\ UNCHANGED <<session, changed, safe, mailbox>>
    /\ UNCHANGED <<dac, wire, touched, page, faults>>

\* A quarter of a second without the value: with a readback this is a ramp to
\* be given up, without one the transport has failed.
Unconfirmed ==
    /\ op.pc = "confirm"
    /\ Faulty
    /\ UNCHANGED <<dac, wire, changed, touched, page>>
    /\ IF op.stale THEN GiveUp
       ELSE FaultAndClose /\ UNCHANGED flag

\* The readback after the settling must show the target.
HoldsUnread(v) == TRUE
Holds(v) == v = op.target

\* The end of the settling, which outlasts what the box has still to do.
Settled ==
    /\ op.pc = "settle" /\ ~Interrupted /\ wire = <<>>
    /\ LET v == Heard[op.ch] IN
       IF ~Holds(v)
       THEN /\ Aborted /\ Hear
            /\ UNCHANGED <<connected, state, mailbox>>
       ELSE /\ Hear
            /\ plan' = [plan EXCEPT !.next = @ + 1,
                                    !.armed = plan.next < Len(plan.targets)]
            /\ state' = "verified"
            /\ op' = [NoCall EXCEPT !.of = "ramp", !.answer = "ok", !.target = op.target]
            /\ Closed
            /\ UNCHANGED <<connected, flag>>
    /\ UNCHANGED <<dac, wire, proof, page, faults>>

\* That readback is the one whose TimeoutError is taken for an expired ramp: the
\* session stays open with a reply on its way.
SettledTooLate ==
    /\ op.pc = "settle"
    /\ Faulty
    /\ Aborted
    /\ replies' = Append(replies, dac)
    /\ UNCHANGED <<dac, wire, connected, state, proof, page, mailbox>>

-----------------------------------------------------------------------------
(* emergency_off: one stop_vout per approved channel.                      *)

\* Without a session there is nothing to be tried.
StartEmergency ==
    /\ flag' = TRUE
    /\ op' = [NoCall EXCEPT !.pc = "next", !.of = "emergency", !.failed = ~connected,
                           !.left = IF connected THEN Approved ELSE <<>>]

\* stop_vout(channel) needs a session before anything else.
EmergencyNext ==
    /\ op.pc = "next" /\ op.left # <<>>
    /\ LET c == Head(op.left) IN
       IF connected
       THEN StopVout([op EXCEPT !.pc = "read", !.ch = c, !.left = Tail(@),
                                !.tried = @ \cup {c}])
       ELSE /\ op' = [op EXCEPT !.left = Tail(@), !.failed = TRUE]
            /\ UNCHANGED <<plan, flag>>
    /\ UNCHANGED <<box, connected, state, proof, page, mailbox, faults>>

EmergencyEnds ==
    /\ op.pc = "next" /\ op.left = <<>>
    /\ op' = [op EXCEPT !.pc = "idle"]
    /\ state' = "unknown"
    /\ IF connected /\ ~op.failed
       THEN UNCHANGED <<replies, connected, plan, safe>>
       ELSE /\ connected' = FALSE /\ replies' = <<>> /\ safe' = FALSE
            /\ plan' = [plan EXCEPT !.armed = FALSE]
    /\ UNCHANGED <<dac, wire, flag, changed, touched, page, mailbox, faults>>

AdapterStep ==
    \/ InitialReadback \/ NextStep \/ Retarget \/ Send \/ Confirm \/ Settled
    \/ Interrupt \/ EmergencyNext \/ EmergencyEnds

AdapterFails == TransportFails \/ DeadlinePasses \/ Unconfirmed \/ SettledTooLate

-----------------------------------------------------------------------------
(* The worker of a job: MokeFieldWorker.run, MokeCalibrationRunner.run and *)
(* the controller's disconnect and emergency_off.                          *)

Free == op.pc = "idle"
At(kind, at) == job.kind = kind /\ job.at = at
Goes(at) == job' = [job EXCEPT !.at = at]
Quiet == UNCHANGED <<box, connected, state, proof, cancel, jobs, lives, faults>>

\* A failed voltage or zero job switches every approved channel off.
Rescue == Goes("rescue") /\ StartEmergency

\* configure_voltage_plan.  A calibration that fails before it, in its preflight,
\* leaves the outputs alone.
Configure ==
    /\ Free /\ job.kind \in {"voltage", "calibration"} /\ job.at = "start"
    /\ \/ /\ cancel \/ ~connected \/ job.kind = "calibration"
          /\ IF job.kind = "voltage" THEN Rescue ELSE Goes("over") /\ UNCHANGED <<flag, op>>
          /\ UNCHANGED plan
       \/ /\ ~cancel /\ connected
          /\ plan' = [targets |-> job.targets, armed |-> FALSE, next |-> 1, active |-> job.ch]
          /\ Goes("configured")
          /\ UNCHANGED <<flag, op>>
    /\ UNCHANGED mailbox /\ Quiet

\* stop_vout at the end of a calibration, whatever happened.
CalibrationStops ==
    IF connected
    THEN /\ Goes("stopping")
         /\ StopVout(Call("stop", plan.active, 0))
    ELSE Rescue /\ UNCHANGED plan

\* arm_voltage_plan.  A calibration looks at its cancel event first.
Arm ==
    /\ Free /\ job.at = "configured"
    /\ IF job.kind = "calibration" /\ cancel
       THEN CalibrationStops
       ELSE /\ plan' = [plan EXCEPT !.next = 1, !.armed = TRUE]
            /\ flag' = FALSE
            /\ Goes("armed")
            /\ UNCHANGED op
    /\ UNCHANGED mailbox /\ Quiet

\* ramp_vout of the next target.
RampVout ==
    /\ Free /\ job.at = "armed"
    /\ IF job.kind = "calibration" /\ (cancel \/ plan.next > Len(job.targets))
       THEN CalibrationStops
       ELSE /\ plan.armed
            /\ op' = Call("ramp", job.ch, plan.targets[plan.next])
            /\ Goes("ramping")
            /\ UNCHANGED <<plan, flag>>
    /\ UNCHANGED mailbox /\ Quiet

\* The result of ramp_vout.  A calibration that fails, or whose reference
\* readings do, ends with a shutdown.
Ramped ==
    /\ Free /\ job.at = "ramping"
    /\ \/ /\ op.answer = "ok" /\ job.kind = "voltage"
          /\ job' = [job EXCEPT !.at = "over", !.result = op.target]
          /\ UNCHANGED <<plan, flag, op>>
       \/ /\ op.answer = "error" /\ job.kind = "voltage"
          /\ Rescue /\ UNCHANGED plan
       \/ /\ job.kind = "calibration"
          /\ CalibrationStops
    /\ UNCHANGED mailbox /\ Quiet

\* A point of a calibration ends with a readback that must still show its target.
Measured ==
    /\ Free /\ At("calibration", "ramping") /\ op.answer = "ok"
    /\ \/ /\ Heard[job.ch] = op.target
          /\ Hear
          /\ Goes("armed")
          /\ UNCHANGED <<session, changed, safe, op, mailbox, faults>>
       \/ /\ Faulty
          /\ UNCHANGED <<job, changed, flag>> /\ FaultAndClose
    /\ UNCHANGED <<dac, wire, touched, cancel, jobs, lives>>

\* stop_vout of a zero job.
Zero ==
    /\ Free /\ At("zero", "start")
    /\ IF connected
       THEN /\ Goes("stopping")
            /\ StopVout(Call("stop", job.ch, 0))
       ELSE Rescue /\ UNCHANGED plan
    /\ UNCHANGED mailbox /\ Quiet

ZeroEnds ==
    /\ Free /\ job.at = "stopping"
    /\ IF op.answer = "ok" THEN Goes("over") /\ UNCHANGED <<flag, op>> ELSE Rescue
    /\ UNCHANGED <<plan, mailbox>> /\ Quiet

\* disconnect and the emergency off of the page.
Disconnect ==
    /\ Free /\ At("disconnect", "start")
    /\ plan' = Unplanned
    /\ IF connected /\ changed # {}
       THEN Rescue
       ELSE Goes("rescue") /\ UNCHANGED <<flag, op>>
    /\ UNCHANGED mailbox /\ Quiet

EmergencyOff ==
    /\ Free /\ At("estop", "start")
    /\ Rescue
    /\ UNCHANGED <<plan, mailbox>> /\ Quiet

\* emergency_off has ended: a failed job is over, a disconnect closes.  The
\* worker closes its live targets in any case.
Rescued ==
    /\ Free /\ job.at = "rescue"
    /\ Goes("over")
    /\ IF job.kind = "disconnect"
       THEN connected' = FALSE /\ state' = "disconnected" /\ replies' = <<>>
       ELSE UNCHANGED <<connected, state, replies>>
    /\ Closed
    /\ UNCHANGED <<dac, wire, plan, flag, proof, op, cancel, jobs, lives, faults>>

WorkerStep ==
    \/ Configure \/ Arm \/ RampVout \/ Ramped \/ Measured \/ Zero \/ ZeroEnds
    \/ Disconnect \/ EmergencyOff \/ Rescued

-----------------------------------------------------------------------------
(* The page.                                                               *)

Busy == job.at # "none"

Trajectories(kind, c) ==
    CASE kind = "voltage"     -> {<<t>> : t \in Targets(c)}
      [] kind = "calibration" -> {<<Lo[c], Hi[c]>>}
      [] OTHER                -> {NoPlan}

\* A new cancel event for every job.  Calibration binds the primary channel.
Start(kind) ==
    /\ ~Busy /\ jobs < MaxJobs
    /\ connected \/ kind \notin {"voltage", "calibration"}
    /\ \E c \in IF kind = "calibration" THEN {Head(Approved)} ELSE Channels :
       \E ts \in Trajectories(kind, c) :
          job' = [kind |-> kind, at |-> "start", ch |-> c, targets |-> ts, result |-> NoTarget]
    /\ jobs' = jobs + 1
    /\ cancel' = FALSE
    /\ mailbox' = [pending |-> NoTarget, open |-> kind = "voltage"]
    /\ UNCHANGED <<box, session, proof, op, lives, faults>>

\* MokeLiveTargets.publish: a newer target replaces the pending one.
Publish ==
    /\ Busy /\ mailbox.open /\ lives < MaxLive
    /\ \E t \in Targets(job.ch) : mailbox' = [mailbox EXCEPT !.pending = t]
    /\ lives' = lives + 1
    /\ UNCHANGED <<box, session, proof, op, job, cancel, jobs, faults>>

\* "Turn off" and Stop while a job is on: the live target is discarded, the job
\* cancelled.  Without a job they start a zero job.
Stop ==
    /\ Busy /\ ~cancel /\ job.kind \in {"voltage", "zero", "calibration"}
    /\ cancel' = TRUE
    /\ mailbox' = [mailbox EXCEPT !.pending = NoTarget]
    /\ UNCHANGED <<box, session, proof, op, job, jobs, lives, faults>>

JobFinished ==
    /\ job.at = "over"
    /\ Goes("none")
    /\ UNCHANGED <<box, session, proof, op, cancel, mailbox, jobs, lives, faults>>

\* connect: a probe by readback; no output is written and nothing is forgotten.
Connect ==
    /\ ~Busy /\ ~connected
    /\ \/ connected' = TRUE /\ state' = "verified" /\ UNCHANGED faults
       \/ Faulty /\ connected' = FALSE /\ state' = "disconnected"
    /\ UNCHANGED <<box, plan, flag, proof, op, page, mailbox>>

PageStep == (\E kind \in Kinds : Start(kind)) \/ Publish \/ Stop \/ JobFinished \/ Connect

Next == CarryOut \/ AdapterStep \/ AdapterFails \/ WorkerStep \/ PageStep

Spec == Init /\ [][Next]_vars
FairSpec ==
    /\ Spec
    /\ WF_vars(CarryOut) /\ WF_vars(AdapterStep) /\ WF_vars(WorkerStep) /\ WF_vars(JobFinished)

-----------------------------------------------------------------------------
(* What an operator relies on.                                             *)

\* Where a channel comes to rest when the box has carried out what it was sent.
Sets(c) == {i \in DOMAIN wire : wire[i].ch = c}
Final(c) == IF Sets(c) = {} THEN dac[c] ELSE wire[Max(Sets(c))].v

Calls ==
    [pc : {"idle", "read", "loop", "pace", "confirm", "settle", "next"},
     of : {"none", "ramp", "stop", "abort", "emergency"}, answer : {"none", "ok", "error"},
     ch : Channels, target : Voltages, actual : Voltages, recovering : BOOLEAN,
     next : Voltages, stale : BOOLEAN,
     left : Seq(Channels), tried : SUBSET Channels, failed : BOOLEAN]
Jobs ==
    [kind : Kinds \cup {"none"}, ch : Channels, targets : Seq(Voltages),
     at : {"none", "start", "configured", "armed", "ramping", "stopping", "rescue", "over"},
     result : Voltages \cup {NoTarget}]

TypeOK ==
    /\ dac \in [Channels -> Voltages]
    /\ wire \in Seq([ch : Channels, v : Voltages])
    /\ replies \in Seq([Channels -> Voltages])
    /\ connected \in BOOLEAN /\ flag \in BOOLEAN /\ safe \in BOOLEAN /\ cancel \in BOOLEAN
    /\ state \in {"disconnected", "verified", "unknown", "fault"}
    /\ plan \in [targets : Seq(Voltages), armed : BOOLEAN, next : Nat, active : Channels]
    /\ changed \subseteq touched /\ touched \subseteq Channels
    /\ op \in Calls /\ job \in Jobs
    /\ mailbox \in [pending : Voltages \cup {NoTarget}, open : BOOLEAN]
    /\ jobs \in 0..MaxJobs /\ lives \in 0..MaxLive /\ faults \in 0..MaxFaults

\* A zero the adapter vouches for is one the channel comes to rest at, whatever
\* SET is still on its way, whatever session it is from: safe_target_confirmed
\* speaks for every channel ever written, and an emergency in
\* which no shutdown failed for every approved one.
ZeroSettles ==
    /\ \A c \in touched \ changed : Final(c) = 0
    /\ safe => changed = {}
    /\ (op.of = "emergency" /\ Free /\ ~op.failed) => \A c \in Channels : Final(c) = 0

\* A job that reports success holds the target it reports, the newest one taken,
\* as long as the replies of the session are in step with its requests.
ResultTrue ==
    (job.at = "over" /\ job.result # NoTarget /\ replies = <<>>)
    => InRange(job.ch, job.result) /\ Final(job.ch) = job.result

\* A Stop that a ramp can still see ends with the channel at zero, or with the
\* session closed and the output no longer claimed to be known.
StopReturnsToZero ==
    (cancel /\ op.of = "ramp" /\ ~Free)
    ~> (Free /\ (Final(job.ch) = 0 \/ ~connected))

\* Not a property of this code; see README.md: a stopped voltage job ends with
\* its channel at zero or unknown.
StopEndsAtZero ==
    (cancel /\ At("voltage", "over")) => (Final(job.ch) = 0 \/ ~connected)

\* An emergency that finds a session attempts the zero of every approved channel.
EmergencyAttemptsAll ==
    (op.of = "emergency" /\ Free /\ op.tried # {}) => op.tried = Channels
=============================================================================
