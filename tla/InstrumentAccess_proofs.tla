---------------------- MODULE InstrumentAccess_proofs ----------------------
(***************************************************************************)
(* Proofs, for every set of callers and every bound, that InstrumentAccess *)
(* maintains its type invariant and that its safety properties hold.       *)
(***************************************************************************)
EXTENDS InstrumentAccess, TLAPS

\* What the instrument thread is at.
JobInv ==
    /\ ipc \in {"start", "enter", "run", "exit", "complete"} => job \in CallIds
    /\ ipc \in {"loop", "shutdown", "ended"} => job = 0
    /\ inFlight = IF ipc \in {"run", "exit"} THEN 1 ELSE 0

WaitInv ==
    \A w \in Callers :
        pc[w] \in {"waiting", "timing_out"} => waitingFor[w] \in CallIds

Typed == TypeOK /\ JobInv /\ WaitInv

LEMMA NextCallIsFree == Free # {} => NextCall \in Free
  BY DEF NextCall

\* A request stays a request when its phase changes.
LEMMA PhaseTyped ==
    ASSUME calls \in [CallIds -> Call], NEW c \in CallIds, NEW ph \in Phases
    PROVE  [calls EXCEPT ![c].phase = ph] \in [CallIds -> Call]
  BY DEF Call

LEMMA InitTyped == ASSUME Init PROVE Typed
<1>1. 0 \in Leases /\ calls \in [CallIds -> Call]
  BY BoundsAssumption DEF Init, Leases, Call, Ops, Phases
<1>2. /\ queue \in Seq(CallIds \cup {Shutdown})
      /\ pc \in [Callers -> {"idle", "calling", "waiting", "timing_out", "ended"}]
      /\ token \in [Callers -> Leases]
      /\ waitingFor \in [Callers -> CallIds \cup {0}]
      /\ report \in [CallIds -> Outcomes]
  BY <1>1 DEF Init, Outcomes
<1>3. /\ owner \in Leases /\ leases \in Leases /\ offUnder \in Leases
      /\ inFlight \in 0..1 /\ executed \subseteq CallIds
      /\ job \in CallIds \cup {0}
  BY <1>1 DEF Init
<1>4. /\ interrupted \in BOOLEAN /\ closing \in BOOLEAN
      /\ shutdownOff \in BOOLEAN
      /\ output \in {"on", "off"}
      /\ ipc \in {"loop", "start", "enter", "run", "exit", "complete",
                  "shutdown", "ended"}
  BY DEF Init
<1>5. TypeOK
  BY <1>1, <1>2, <1>3, <1>4 DEF TypeOK
<1>6. JobInv /\ WaitInv
  BY DEF Init, JobInv, WaitInv
<1>. QED BY <1>5, <1>6 DEF Typed

LEMMA NextTyped == ASSUME Typed, [Next]_vars PROVE Typed'
<1>. USE BoundsAssumption DEF Typed, TypeOK, JobInv, WaitInv, Leases, CallIds,
         Call, Ops, Phases, Outcomes, Shutdown
<1>1. ASSUME NEW w \in Callers, AcquireLease(w) PROVE Typed'
  <2>1. leases' \in Leases
    BY <1>1 DEF AcquireLease
  <2>2. owner' \in Leases /\ token' \in [Callers -> Leases]
    BY <1>1, <2>1 DEF AcquireLease
  <2>. QED BY <1>1, <2>1, <2>2 DEF AcquireLease, instrument
<1>2. ASSUME NEW w \in Callers, ReleaseLease(w) PROVE Typed'
  <2>1. owner' \in Leases
    BY <1>2 DEF ReleaseLease
  <2>2. \/ pc' = pc
        \/ pc' = [pc EXCEPT ![w] = "ended"]
    BY <1>2, Zenon DEF ReleaseLease
  <2>3. /\ pc' \in [Callers -> {"idle", "calling", "waiting", "timing_out", "ended"}]
        /\ \A v \in Callers :
              pc'[v] \in {"waiting", "timing_out"} => pc'[v] = pc[v]
    BY <2>2
  <2>4. UNCHANGED <<leases, interrupted, inFlight, closing, calls, queue, token,
                    waitingFor, report, instrument>>
    BY <1>2, Zenon DEF ReleaseLease
  <2>5. TypeOK'
    BY <2>1, <2>3, <2>4 DEF instrument
  <2>6. JobInv'
    BY <2>4 DEF instrument
  <2>7. WaitInv'
    BY <2>3, <2>4
  <2>. QED BY <2>5, <2>6, <2>7
<1>3. ASSUME NEW w \in Callers, NEW op \in RunOps, CallForRun(w, op) PROVE Typed'
  <2>1. op \in Ops
    BY DEF RunOps
  <2>. QED
    BY <1>3, <2>1, NextCallIsFree, SMTT(30)
       DEF CallForRun, Post, Free, access, instrument
<1>19. ASSUME NEW w \in Callers, AssertOpen(w) PROVE Typed'
  BY <1>19 DEF AssertOpen, access, instrument
<1>4. ASSUME NEW w \in Callers, WaitReturns(w) PROVE Typed'
  BY <1>4 DEF WaitReturns, access, instrument
<1>5. ASSUME NEW w \in Callers, WaitTimesOut(w) PROVE Typed'
  BY <1>5 DEF WaitTimesOut, access, instrument
<1>6. ASSUME NEW w \in Callers, CancelPending(w) PROVE Typed'
  <2>1. waitingFor[w] \in CallIds
    BY <1>6 DEF CancelPending
  <2>2. calls' \in [CallIds -> Call]
    <3>1. \/ calls' = calls
          \/ calls' = [calls EXCEPT ![waitingFor[w]].phase = "cancelled"]
      BY <1>6, Zenon DEF CancelPending
    <3>2. [calls EXCEPT ![waitingFor[w]].phase = "cancelled"]
            \in [CallIds -> Call]
      BY <2>1, PhaseTyped
    <3>. QED BY <3>1, <3>2, Zenon
  <2>5. report' \in [CallIds -> Outcomes]
    <3>1. \/ report' = [report EXCEPT ![waitingFor[w]] = "uncertain"]
          \/ report' = [report EXCEPT ![waitingFor[w]] = "cancelled"]
      BY <1>6, Zenon DEF CancelPending
    <3>. QED BY <2>1, <3>1
  <2>3. /\ pc' \in [Callers -> {"idle", "calling", "waiting", "timing_out", "ended"}]
        /\ waitingFor' \in [Callers -> CallIds \cup {0}]
    BY <1>6 DEF CancelPending
  <2>4. WaitInv'
    BY <1>6 DEF CancelPending
  <2>. QED BY <1>6, <2>2, <2>3, <2>4, <2>5 DEF CancelPending, access, instrument
<1>7. ASSUME NEW op \in Ops, GuiCall(op) PROVE Typed'
  <2>1. interrupted' \in BOOLEAN
    BY <1>7, Zenon DEF GuiCall
  <2>2. Post(NextCall, op, 0, TRUE) \/ UNCHANGED <<calls, queue>>
    BY <1>7, Zenon DEF GuiCall
  <2>3. NextCall \in CallIds
    BY <1>7, NextCallIsFree DEF GuiCall, Free
  <2>4. calls' \in [CallIds -> Call] /\ queue' \in Seq(CallIds \cup {Shutdown})
    <3>1. CASE UNCHANGED <<calls, queue>>
      BY <3>1
    <3>2. CASE Post(NextCall, op, 0, TRUE)
      <4>1. [op |-> op, owner |-> 0, gui |-> TRUE, phase |-> "queued",
             expired |-> FALSE] \in Call
        BY <1>7
      <4>2. calls' \in [CallIds -> Call]
        BY <3>2, <4>1 DEF Post
      <4>3. queue' \in Seq(CallIds \cup {Shutdown})
        BY <3>2, <2>3 DEF Post
      <4>. QED BY <4>2, <4>3
    <3>. QED BY <2>2, <3>1, <3>2
  <2>. QED BY <1>7, <2>1, <2>4 DEF GuiCall, callerVars, instrument
<1>8. ASSUME Close PROVE Typed'
  BY <1>8 DEF Close, BeginShutdown, callerVars, instrument
<1>9. ASSUME ThreadEnds PROVE Typed'
  BY <1>9 DEF ThreadEnds, access, callerVars
<1>10. ASSUME Take PROVE Typed'
  BY <1>10 DEF Take, access, callerVars
<1>11. ASSUME TryStart PROVE Typed'
  <2>1. calls' \in [CallIds -> Call]
    <3>1. \/ calls' = [calls EXCEPT ![job].phase = "cancelled"]
          \/ calls' = [calls EXCEPT ![job].phase = "started"]
      BY <1>11, Zenon DEF TryStart
    <3>2. job \in CallIds
      BY <1>11 DEF TryStart
    <3>3. /\ [calls EXCEPT ![job].phase = "cancelled"] \in [CallIds -> Call]
          /\ [calls EXCEPT ![job].phase = "started"] \in [CallIds -> Call]
      BY <3>2, PhaseTyped
    <3>. QED BY <3>1, <3>3, Zenon
  <2>2. (ipc' = "loop" /\ job' = 0) \/ (ipc' = "enter" /\ job' = job)
    BY <1>11, Zenon DEF TryStart
  <2>. QED BY <1>11, <2>1, <2>2 DEF TryStart, access, callerVars
<1>12. ASSUME Enter PROVE Typed'
  BY <1>12 DEF Enter, callerVars
<1>13. ASSUME Execute PROVE Typed'
  BY <1>13 DEF Execute, Safe, access, callerVars
<1>14. ASSUME Exit PROVE Typed'
  BY <1>14 DEF Exit, callerVars
<1>15. ASSUME Complete PROVE Typed'
  BY ZenonT(40), <1>15 DEF Complete, access, callerVars
<1>16. ASSUME RunShutdown PROVE Typed'
  BY <1>16 DEF RunShutdown, BeginShutdown, callerVars
<1>17. ASSUME NEW c \in CallIds, Expire(c) PROVE Typed'
  BY ZenonT(40), <1>17 DEF Expire, access, callerVars, instrument
<1>18. ASSUME UNCHANGED vars PROVE Typed'
  BY <1>18 DEF vars
<1>. QED
  BY <1>1, <1>2, <1>3, <1>4, <1>5, <1>6, <1>7, <1>8, <1>9, <1>10, <1>11, <1>12,
     <1>13, <1>14, <1>15, <1>16, <1>17, <1>18, <1>19
     DEF Next, CallerStep, InstrumentStep

(* Every variable keeps its type, and at most one operation is in flight.  *)
THEOREM TypeCorrect == Spec => []TypeOK
<1>1. Spec => []Typed
  BY InitTyped, NextTyped, PTL DEF Spec
<1>2. Typed => TypeOK
  BY DEF Typed
<1>. QED BY <1>1, <1>2, PTL

-----------------------------------------------------------------------------
(* The gate.                                                               *)

\* Whatever is posted or being served has been taken from the free requests,
\* so it is not overwritten.
UsedInv ==
    /\ \A i \in DOMAIN queue :
          queue[i] \in CallIds => calls[queue[i]].phase # "free"
    /\ job \in CallIds => calls[job].phase # "free"

\* Why the lease protects: what a lease-holder's running operation, an outside
\* OFF and the shutdown slot have established about each other.
GateInv ==
    /\ owner <= leases /\ offUnder <= leases
    /\ ExclusiveUse
    /\ owner # 0 /\ offUnder = owner => interrupted /\ output = "off"
    /\ ipc = "run" /\ owner # 0 /\ Safe(calls[job].op)
         => calls[job].owner = owner \/ interrupted
    /\ ipc = "run" /\ calls[job].op = "mutate"
         => ~shutdownOff /\ ~(owner # 0 /\ offUnder = owner)
    /\ shutdownOff => closing /\ output = "off"

\* A posted request leaves every used one as it was.
LEMMA PostKeepsUsed ==
    ASSUME Typed, NEW op, NEW lease, NEW gui, Free # {},
           Post(NextCall, op, lease, gui),
           NEW c \in CallIds, calls[c].phase # "free"
    PROVE  calls'[c] = calls[c]
  BY NextCallIsFree DEF Post, Free, Typed, TypeOK

LEMMA PostKeepsUsedInv ==
    ASSUME Typed, UsedInv, NEW op, NEW lease, NEW gui, Free # {},
           Post(NextCall, op, lease, gui), job' = job
    PROVE  UsedInv'
<1>1. NextCall \in CallIds
  BY NextCallIsFree DEF Free
<1>2. calls'[NextCall].phase = "queued"
  BY <1>1 DEF Post, Typed, TypeOK
<1>3. \A c \in CallIds : calls[c].phase # "free" => calls'[c].phase # "free"
  BY PostKeepsUsed
<1>4. queue \in Seq(CallIds \cup {Shutdown}) /\ queue' = Append(queue, NextCall)
  BY DEF Typed, TypeOK, Post
<1>5. ASSUME NEW i \in DOMAIN queue', queue'[i] \in CallIds
      PROVE  calls'[queue'[i]].phase # "free"
  <2>1. CASE i \in DOMAIN queue
    BY <1>3, <1>4, <1>5, <2>1 DEF UsedInv
  <2>2. CASE i = Len(queue) + 1
    BY <1>2, <1>4, <2>2
  <2>. QED BY <1>4, <1>5, <2>1, <2>2
<1>. QED BY <1>3, <1>5 DEF UsedInv

LEMMA PhaseKeepsUsedInv ==
    ASSUME Typed, UsedInv, NEW c \in CallIds, NEW ph \in Phases \ {"free"},
           calls' = [calls EXCEPT ![c].phase = ph], queue' = queue,
           job' = job \/ job' = 0
    PROVE  UsedInv'
<1>1. \A d \in CallIds : calls[d].phase # "free" => calls'[d].phase # "free"
  BY DEF Typed, TypeOK
<1>2. 0 \notin CallIds
  BY DEF CallIds
<1>. QED BY <1>1, <1>2 DEF UsedInv

LEMMA NextUsed == ASSUME Typed, UsedInv, [Next]_vars PROVE UsedInv'
<1>. USE DEF UsedInv
<1>1. CASE UNCHANGED <<calls, queue, job>>
  BY <1>1
<1>2. ASSUME NEW w \in Callers, NEW op \in RunOps, CallForRun(w, op) PROVE UsedInv'
  BY <1>2, PostKeepsUsedInv DEF CallForRun, instrument
<1>3. ASSUME NEW op \in Ops, GuiCall(op) PROVE UsedInv'
  BY <1>1, <1>3, PostKeepsUsedInv DEF GuiCall, instrument
<1>4. ASSUME NEW w \in Callers, CancelPending(w) PROVE UsedInv'
  <2>1. waitingFor[w] \in CallIds /\ queue' = queue /\ job' = job
    BY <1>4 DEF CancelPending, instrument, Typed, WaitInv
  <2>2. \/ calls' = calls
        \/ calls' = [calls EXCEPT ![waitingFor[w]].phase = "cancelled"]
    BY <1>4, Zenon DEF CancelPending
  <2>. QED BY <1>1, <2>1, <2>2, PhaseKeepsUsedInv DEF Phases
<1>5. ASSUME Close PROVE UsedInv'
  BY <1>5 DEF Close, instrument, Typed, TypeOK, Shutdown, CallIds
<1>6. ASSUME Take PROVE UsedInv'
  BY <1>6 DEF Take, Typed, TypeOK
<1>7. ASSUME TryStart PROVE UsedInv'
  <2>1. job \in CallIds /\ queue' = queue
    BY <1>7 DEF TryStart, Typed, JobInv
  <2>2. /\ \/ calls' = [calls EXCEPT ![job].phase = "cancelled"]
           \/ calls' = [calls EXCEPT ![job].phase = "started"]
        /\ job' = job \/ job' = 0
    BY <1>7, Zenon DEF TryStart
  <2>. QED BY <2>1, <2>2, PhaseKeepsUsedInv DEF Phases
<1>8. ASSUME Complete PROVE UsedInv'
  BY <1>8 DEF Complete, Typed, TypeOK, CallIds
<1>9. ASSUME NEW c \in CallIds, Expire(c) PROVE UsedInv'
  BY <1>9 DEF Expire, instrument, Typed, TypeOK
<1>. QED
  BY <1>1, <1>2, <1>3, <1>4, <1>5, <1>6, <1>7, <1>8, <1>9
     DEF Next, CallerStep, InstrumentStep, vars, AcquireLease, ReleaseLease,
         WaitReturns, WaitTimesOut, ThreadEnds, Enter, Execute, Exit,
         RunShutdown, AssertOpen, access, instrument

\* What a step leaves alone that has nothing to do with the gate.
LEMMA GateKept ==
    ASSUME Typed, UsedInv, GateInv,
           UNCHANGED <<owner, leases, closing, ipc, job, output, offUnder,
                       shutdownOff>>,
           interrupted => interrupted',
           \A c \in CallIds : calls[c].phase # "free" =>
               calls'[c].op = calls[c].op /\ calls'[c].owner = calls[c].owner
    PROVE  GateInv'
<1>1. ipc = "run" => /\ calls'[job].op = calls[job].op
                     /\ calls'[job].owner = calls[job].owner
  BY DEF UsedInv, Typed, JobInv
<1>2. ExclusiveUse'
  BY <1>1 DEF GateInv, ExclusiveUse, Safe
<1>. QED BY <1>1, <1>2 DEF GateInv, Safe

LEMMA NextGate == ASSUME Typed, UsedInv, GateInv, [Next]_vars PROVE GateInv'
<1>1. ASSUME NEW w \in Callers, AcquireLease(w) PROVE GateInv'
  BY <1>1 DEF AcquireLease, instrument, GateInv, ExclusiveUse, Typed, TypeOK,
     JobInv, Leases
<1>2. ASSUME NEW w \in Callers, ReleaseLease(w) PROVE GateInv'
  BY <1>2 DEF ReleaseLease, instrument, GateInv, ExclusiveUse, Typed, TypeOK,
     JobInv, Leases
<1>3. ASSUME NEW w \in Callers, NEW op \in RunOps, CallForRun(w, op)
      PROVE  GateInv'
  BY <1>3, PostKeepsUsed, GateKept DEF CallForRun, access, instrument
<1>4. ASSUME NEW op \in Ops, GuiCall(op) PROVE GateInv'
  <2>1. \/ Post(NextCall, op, 0, TRUE)
        \/ UNCHANGED <<calls, queue>>
    BY <1>4, Zenon DEF GuiCall
  <2>2. \A c \in CallIds : calls[c].phase # "free" => calls'[c] = calls[c]
    BY <1>4, <2>1, PostKeepsUsed DEF GuiCall
  <2>3. interrupted => interrupted'
    BY <1>4, Zenon DEF GuiCall
  <2>. QED BY <1>4, <2>2, <2>3, GateKept DEF GuiCall, instrument
<1>5. ASSUME NEW w \in Callers, CallerStep(w) PROVE GateInv'
  <2>1. /\ UNCHANGED <<access, instrument>>
        /\ \/ calls' = calls
           \/ calls' = [calls EXCEPT ![waitingFor[w]].phase = "cancelled"]
    BY <1>5, Zenon DEF CallerStep, WaitReturns, WaitTimesOut, CancelPending
  <2>2. \A c \in CallIds : /\ calls'[c].op = calls[c].op
                           /\ calls'[c].owner = calls[c].owner
    BY <2>1 DEF Typed, TypeOK, Call
  <2>. QED BY <2>1, <2>2, GateKept DEF access, instrument
<1>6. ASSUME Close PROVE GateInv'
  BY <1>6 DEF Close, BeginShutdown, instrument, GateInv, ExclusiveUse
<1>7. ASSUME ThreadEnds \/ Take \/ Complete PROVE GateInv'
  BY <1>7 DEF ThreadEnds, Take, Complete, access, GateInv, ExclusiveUse, Typed,
     TypeOK
<1>8. ASSUME TryStart PROVE GateInv'
  <2>1. /\ UNCHANGED <<access, output, offUnder, shutdownOff>>
        /\ ipc' # "run"
    BY <1>8, Zenon DEF TryStart
  <2>. QED BY <2>1 DEF access, GateInv, ExclusiveUse
<1>9. ASSUME Enter PROVE GateInv'
  BY <1>9 DEF Enter, Refused, Interrupts, GateInv, ExclusiveUse, Safe, Typed,
     TypeOK
<1>10. ASSUME Execute PROVE GateInv'
  BY <1>10 DEF Execute, access, GateInv, ExclusiveUse, Safe, Typed, TypeOK,
     Leases
<1>11. ASSUME Exit PROVE GateInv'
  BY <1>11 DEF Exit, GateInv, ExclusiveUse
<1>12. ASSUME RunShutdown PROVE GateInv'
  BY <1>12 DEF RunShutdown, BeginShutdown, GateInv, ExclusiveUse
<1>13. ASSUME NEW c \in CallIds, Expire(c) PROVE GateInv'
  <2>1. \A d \in CallIds : /\ calls'[d].op = calls[d].op
                           /\ calls'[d].owner = calls[d].owner
    BY <1>13 DEF Expire, Typed, TypeOK, Call
  <2>. QED BY <1>13, <2>1, GateKept DEF Expire, access, instrument
<1>14. ASSUME UNCHANGED vars PROVE GateInv'
  BY <1>14, GateKept DEF vars
<1>15. ASSUME NEW w \in Callers, AssertOpen(w) PROVE GateInv'
  BY <1>15, GateKept DEF AssertOpen, access, instrument
<1>. QED
  BY <1>1, <1>2, <1>3, <1>4, <1>5, <1>6, <1>7, <1>8, <1>9, <1>10, <1>11, <1>12,
     <1>13, <1>14, <1>15 DEF Next, InstrumentStep

-----------------------------------------------------------------------------
(* The calls.                                                              *)

\* The queue and the instrument thread hold each request once, and a request
\* that waits in the queue has not been started.
QueueInv ==
    /\ \A i \in DOMAIN queue : queue[i] \in CallIds =>
          /\ queue[i] # job
          /\ calls[queue[i]].phase \in {"queued", "cancelled"}
    /\ \A i, j \in DOMAIN queue :
          queue[i] \in CallIds /\ queue[i] = queue[j] => i = j

\* A run call that was executed has been started, and cannot be cancelled.
CallInv ==
    /\ \A c \in CallIds :
          /\ report[c] = "cancelled" =>
               calls[c].phase = "cancelled" /\ ~calls[c].gui
          /\ c \in executed /\ ~calls[c].gui =>
               calls[c].phase \in {"started", "completed"}
          /\ calls[c].phase = "free" => c \notin executed
          /\ calls[c].gui => calls[c].phase \notin {"started", "cancelled"}
    /\ \A w \in Callers : waitingFor[w] \in CallIds =>
          ~calls[waitingFor[w]].gui /\ calls[waitingFor[w]].phase # "free"
    /\ ipc = "start" => /\ ~calls[job].gui
                        /\ calls[job].phase \in {"queued", "cancelled"}
    /\ ipc \in {"enter", "run", "exit", "complete"} =>
          calls[job].phase = IF calls[job].gui THEN "queued" ELSE "started"

Consistent == Typed /\ UsedInv /\ QueueInv /\ CallInv

\* Only requests outside the queue and the free ones change their phase.
LEMMA QueueKept ==
    ASSUME Consistent, queue' = queue, job' = job \/ job' = 0,
           \A c \in CallIds : calls[c].phase \in {"queued", "cancelled"} =>
               calls'[c].phase \in {"queued", "cancelled"} \/ c = job
    PROVE  QueueInv'
<1>1. 0 \notin CallIds
  BY DEF CallIds
<1>. QED BY <1>1 DEF Consistent, QueueInv

LEMMA PostKeepsQueue ==
    ASSUME Consistent, NEW op, NEW lease, NEW gui, Free # {},
           Post(NextCall, op, lease, gui), job' = job
    PROVE  QueueInv'
<1>1. NextCall \in CallIds /\ calls[NextCall].phase = "free"
  BY NextCallIsFree DEF Free
<1>2. \A i \in DOMAIN queue : queue[i] # NextCall
  BY <1>1 DEF Consistent, UsedInv
<1>3. NextCall # job
  BY <1>1 DEF Consistent, UsedInv
<1>4. calls'[NextCall].phase = "queued"
  BY <1>1 DEF Post, Consistent, Typed, TypeOK
<1>5. \A c \in CallIds : calls[c].phase # "free" => calls'[c] = calls[c]
  BY PostKeepsUsed DEF Consistent
<1>6. queue \in Seq(CallIds \cup {Shutdown}) /\ queue' = Append(queue, NextCall)
  BY DEF Consistent, Typed, TypeOK, Post
<1>7. /\ DOMAIN queue' = DOMAIN queue \cup {Len(queue) + 1}
      /\ \A i \in DOMAIN queue : queue'[i] = queue[i]
      /\ queue'[Len(queue) + 1] = NextCall
  BY <1>6
<1>8. \A i \in DOMAIN queue' : queue'[i] \in CallIds =>
        /\ queue'[i] # job'
        /\ calls'[queue'[i]].phase \in {"queued", "cancelled"}
  BY <1>3, <1>4, <1>5, <1>7 DEF Consistent, QueueInv
<1>9. \A i, j \in DOMAIN queue' :
        queue'[i] \in CallIds /\ queue'[i] = queue'[j] => i = j
  BY <1>2, <1>7 DEF Consistent, QueueInv
<1>. QED BY <1>8, <1>9 DEF QueueInv

LEMMA PostKeepsCalls ==
    ASSUME Consistent, NEW op, NEW lease, NEW gui \in BOOLEAN, Free # {},
           Post(NextCall, op, lease, gui),
           UNCHANGED <<job, ipc, executed, report>>,
           \A w \in Callers : \/ waitingFor'[w] = waitingFor[w]
                              \/ waitingFor'[w] = NextCall /\ ~gui
    PROVE  CallInv'
<1>1. NextCall \in CallIds /\ calls[NextCall].phase = "free"
  BY NextCallIsFree DEF Free
<1>2. calls'[NextCall].phase = "queued" /\ calls'[NextCall].gui = gui
  BY <1>1 DEF Post, Consistent, Typed, TypeOK
<1>3. \A c \in CallIds : c = NextCall \/ calls'[c] = calls[c]
  BY <1>1 DEF Post, Consistent, Typed, TypeOK
<1>4. \A c \in CallIds :
        /\ report'[c] = "cancelled" =>
             calls'[c].phase = "cancelled" /\ ~calls'[c].gui
        /\ c \in executed' /\ ~calls'[c].gui =>
             calls'[c].phase \in {"started", "completed"}
        /\ calls'[c].phase = "free" => c \notin executed'
        /\ calls'[c].gui => calls'[c].phase \notin {"started", "cancelled"}
  BY <1>1, <1>2, <1>3 DEF Consistent, CallInv
<1>5. \A w \in Callers : waitingFor'[w] \in CallIds =>
        ~calls'[waitingFor'[w]].gui /\ calls'[waitingFor'[w]].phase # "free"
  BY <1>1, <1>2, <1>3 DEF Consistent, CallInv
<1>6. job \in CallIds => calls'[job] = calls[job]
  BY <1>1, <1>3 DEF Consistent, UsedInv
<1>. QED BY <1>4, <1>5, <1>6 DEF Consistent, CallInv, Typed, JobInv

LEMMA NextQueue == ASSUME Consistent, [Next]_vars PROVE QueueInv'
<1>1. ASSUME UNCHANGED <<calls, queue, job>> PROVE QueueInv'
  BY <1>1, QueueKept
<1>2. ASSUME NEW w \in Callers, NEW op \in RunOps, CallForRun(w, op)
      PROVE  QueueInv'
  BY <1>2, PostKeepsQueue DEF CallForRun, instrument
<1>3. ASSUME NEW op \in Ops, GuiCall(op) PROVE QueueInv'
  <2>1. Post(NextCall, op, 0, TRUE) \/ UNCHANGED <<calls, queue>>
    BY <1>3, Zenon DEF GuiCall
  <2>. QED BY <1>1, <1>3, <2>1, PostKeepsQueue DEF GuiCall, instrument
<1>4. ASSUME NEW w \in Callers, CancelPending(w) PROVE QueueInv'
  <2>1. UNCHANGED <<queue, job>>
    BY <1>4 DEF CancelPending, instrument
  <2>2. \/ calls' = calls
        \/ calls' = [calls EXCEPT ![waitingFor[w]].phase = "cancelled"]
    BY <1>4, Zenon DEF CancelPending
  <2>3. \A c \in CallIds : \/ calls'[c].phase = calls[c].phase
                           \/ calls'[c].phase = "cancelled"
    <3>1. CASE calls' = calls
      BY <3>1
    <3>2. CASE calls' = [calls EXCEPT ![waitingFor[w]].phase = "cancelled"]
      BY <3>2 DEF Consistent, Typed, TypeOK
    <3>. QED BY <2>2, <3>1, <3>2
  <2>. QED BY <2>1, <2>3, QueueKept
<1>5. ASSUME Close PROVE QueueInv'
  <2>1. queue \in Seq(CallIds \cup {Shutdown})
    BY DEF Consistent, Typed, TypeOK
  <2>2. /\ DOMAIN queue' = DOMAIN queue \cup {Len(queue) + 1}
        /\ \A i \in DOMAIN queue : queue'[i] = queue[i]
        /\ queue'[Len(queue) + 1] \notin CallIds
    BY <1>5, <2>1 DEF Close, Shutdown, CallIds
  <2>. QED BY <1>5, <2>2 DEF Close, instrument, Consistent, QueueInv
<1>6. ASSUME Take PROVE QueueInv'
  <2>1. queue \in Seq(CallIds \cup {Shutdown}) /\ queue # <<>>
    BY <1>6 DEF Take, Consistent, Typed, TypeOK
  <2>2. /\ queue' = Tail(queue) /\ job' = queue[1] /\ calls' = calls
        /\ 1 \in DOMAIN queue
    BY <1>6, <2>1 DEF Take
  <2>3. \A i \in DOMAIN queue' : /\ queue'[i] = queue[i + 1]
                                 /\ i + 1 \in DOMAIN queue /\ i + 1 # 1
    BY <2>1, <2>2
  <2>4. \A i, j \in DOMAIN queue' : i + 1 = j + 1 => i = j
    BY <2>1, <2>2
  <2>. QED BY <2>2, <2>3, <2>4 DEF Consistent, QueueInv
<1>7. ASSUME TryStart PROVE QueueInv'
  <2>1. /\ queue' = queue
        /\ job' = job \/ job' = 0
        /\ \/ calls' = [calls EXCEPT ![job].phase = "cancelled"]
           \/ calls' = [calls EXCEPT ![job].phase = "started"]
    BY <1>7, Zenon DEF TryStart
  <2>2. \A c \in CallIds : c # job => calls'[c].phase = calls[c].phase
    BY <2>1 DEF Consistent, Typed, TypeOK
  <2>. QED BY <2>1, <2>2, QueueKept
<1>8. ASSUME Complete PROVE QueueInv'
  <2>1. \A c \in CallIds : c # job => calls'[c].phase = calls[c].phase
    BY <1>8 DEF Complete, Consistent, Typed, TypeOK
  <2>. QED BY <1>8, <2>1, QueueKept DEF Complete
<1>9. ASSUME NEW c \in CallIds, Expire(c) PROVE QueueInv'
  <2>1. \A d \in CallIds : calls'[d].phase = calls[d].phase
    BY <1>9 DEF Expire, Consistent, Typed, TypeOK, Call
  <2>. QED BY <1>9, <2>1, QueueKept DEF Expire, instrument
<1>. QED
  BY <1>1, <1>2, <1>3, <1>4, <1>5, <1>6, <1>7, <1>8, <1>9
     DEF Next, CallerStep, InstrumentStep, vars, AcquireLease, ReleaseLease,
         WaitReturns, WaitTimesOut, ThreadEnds, Enter, Execute, Exit,
         RunShutdown, AssertOpen, access, instrument

LEMMA NextCalls == ASSUME Consistent, [Next]_vars PROVE CallInv'
<1>. USE DEF Consistent
<1>1. ASSUME UNCHANGED <<calls, waitingFor, job, ipc, executed, report>>
      PROVE  CallInv'
  BY <1>1 DEF CallInv
<1>2. ASSUME NEW w \in Callers, NEW op \in RunOps, CallForRun(w, op)
      PROVE  CallInv'
  <2>1. \A v \in Callers : \/ waitingFor'[v] = waitingFor[v]
                           \/ waitingFor'[v] = NextCall
    BY <1>2 DEF CallForRun, Typed, TypeOK
  <2>. QED BY <1>2, <2>1, PostKeepsCalls DEF CallForRun, instrument
<1>3. ASSUME NEW op \in Ops, GuiCall(op) PROVE CallInv'
  <2>1. Post(NextCall, op, 0, TRUE) \/ UNCHANGED <<calls, queue>>
    BY <1>3, Zenon DEF GuiCall
  <2>. QED BY <1>1, <1>3, <2>1, PostKeepsCalls
           DEF GuiCall, callerVars, instrument
<1>4. ASSUME NEW w \in Callers, WaitReturns(w) PROVE CallInv'
  <2>1. waitingFor[w] \in CallIds
    BY <1>4 DEF WaitReturns, Typed, WaitInv
  <2>2. \A c \in CallIds : report'[c] = "cancelled" =>
          \/ report[c] = "cancelled"
          \/ c = waitingFor[w] /\ calls[c].phase = "cancelled"
    <3>1. /\ report \in [CallIds -> Outcomes]
          /\ report' = [report EXCEPT ![waitingFor[w]] =
                           IF calls[waitingFor[w]].phase = "cancelled"
                             THEN "cancelled" ELSE "returned"]
      BY <1>4 DEF WaitReturns, Typed, TypeOK
    <3>2. \A c \in CallIds : c # waitingFor[w] => report'[c] = report[c]
      BY <2>1, <3>1, Zenon
    <3>3. report'[waitingFor[w]] = IF calls[waitingFor[w]].phase = "cancelled"
                                     THEN "cancelled" ELSE "returned"
      BY <2>1, <3>1, Zenon
    <3>4. report'[waitingFor[w]] = "cancelled"
            => calls[waitingFor[w]].phase = "cancelled"
      BY <3>3
    <3>5. ASSUME NEW c \in CallIds, report'[c] = "cancelled"
          PROVE  \/ report[c] = "cancelled"
                 \/ c = waitingFor[w] /\ calls[c].phase = "cancelled"
      BY <3>2, <3>4, <3>5
    <3>. QED BY <3>5
  <2>3. \A v \in Callers :
          waitingFor'[v] \in CallIds => waitingFor'[v] = waitingFor[v]
    BY <1>4 DEF WaitReturns, Typed, TypeOK, CallIds
  <2>. QED BY <1>4, <2>1, <2>2, <2>3 DEF WaitReturns, instrument, CallInv
<1>5. ASSUME NEW w \in Callers, CancelPending(w) PROVE CallInv'
  <2>. DEFINE c == waitingFor[w]
  <2>1. c \in CallIds /\ ~calls[c].gui /\ calls[c].phase # "free"
    BY <1>5 DEF CancelPending, Typed, WaitInv, CallInv
  <2>2. \A v \in Callers :
          waitingFor'[v] \in CallIds => waitingFor'[v] = waitingFor[v]
    BY <1>5 DEF CancelPending, Typed, TypeOK, CallIds
  <2>3. CASE calls[c].phase \in {"started", "completed"}
    <3>1. calls' = calls /\ \A d \in CallIds : report'[d] = "cancelled" =>
                                               report[d] = "cancelled"
      BY <1>5, <2>1, <2>3 DEF CancelPending, Typed, TypeOK
    <3>. QED BY <1>5, <2>2, <3>1 DEF CancelPending, instrument, CallInv
  <2>4. CASE calls[c].phase \notin {"started", "completed"}
    <3>1. /\ calls' = [calls EXCEPT ![c].phase = "cancelled"]
          /\ report' = [report EXCEPT ![c] = "cancelled"]
      BY <1>5, <2>4 DEF CancelPending
    <3>2. /\ \A d \in CallIds : d # c => calls'[d] = calls[d]
          /\ calls'[c].phase = "cancelled" /\ ~calls'[c].gui
      BY <2>1, <3>1 DEF Typed, TypeOK, Call
    <3>3. \A d \in CallIds : report'[d] = "cancelled" =>
                               report[d] = "cancelled" \/ d = c
      BY <3>1 DEF Typed, TypeOK
    <3>4. c \notin executed
      BY <2>1, <2>4 DEF CallInv
    <3>5. UNCHANGED <<job, ipc, executed>>
      BY <1>5 DEF CancelPending, instrument
    <3>6. \A d \in CallIds :
            /\ report'[d] = "cancelled" =>
                 calls'[d].phase = "cancelled" /\ ~calls'[d].gui
            /\ d \in executed' /\ ~calls'[d].gui =>
                 calls'[d].phase \in {"started", "completed"}
            /\ calls'[d].phase = "free" => d \notin executed'
            /\ calls'[d].gui => calls'[d].phase \notin {"started", "cancelled"}
      BY <3>2, <3>3, <3>4, <3>5 DEF CallInv
    <3>7. \A v \in Callers : waitingFor'[v] \in CallIds =>
            ~calls'[waitingFor'[v]].gui /\ calls'[waitingFor'[v]].phase # "free"
      BY <2>2, <3>2 DEF CallInv
    <3>8. /\ ipc = "start" => /\ ~calls'[job].gui
                              /\ calls'[job].phase \in {"queued", "cancelled"}
          /\ ipc \in {"enter", "run", "exit", "complete"} =>
                calls'[job].phase =
                  IF calls'[job].gui THEN "queued" ELSE "started"
      BY <2>1, <2>4, <3>2 DEF CallInv, Typed, JobInv
    <3>. QED BY <3>5, <3>6, <3>7, <3>8 DEF CallInv
  <2>. QED BY <2>3, <2>4
<1>6. ASSUME Take PROVE CallInv'
  <2>1. queue \in Seq(CallIds \cup {Shutdown}) /\ queue # <<>>
    BY <1>6 DEF Take, Typed, TypeOK
  <2>2. Head(queue) = queue[1] /\ 1 \in DOMAIN queue
    BY <2>1
  <2>3. Head(queue) # Shutdown =>
          /\ Head(queue) \in CallIds
          /\ calls[Head(queue)].phase \in {"queued", "cancelled"}
    BY <2>1, <2>2 DEF QueueInv
  <2>. QED BY <1>6, <2>3 DEF Take, callerVars, CallInv
<1>7. ASSUME TryStart PROVE CallInv'
  <2>1. /\ job \in CallIds /\ ~calls[job].gui
        /\ calls[job].phase \in {"queued", "cancelled"}
        /\ UNCHANGED <<waitingFor, executed, report>>
    BY <1>7 DEF TryStart, callerVars, CallInv, Typed, JobInv
  <2>2. job \notin executed
    BY <2>1 DEF CallInv
  <2>3. ASSUME NEW ph \in {"cancelled", "started"},
               calls' = [calls EXCEPT ![job].phase = ph]
        PROVE  /\ \A d \in CallIds : d # job => calls'[d] = calls[d]
               /\ calls'[job].phase = ph /\ ~calls'[job].gui
    BY <2>1, <2>3 DEF Typed, TypeOK, Call
  <2>4. CASE calls[job].phase = "cancelled" \/ calls[job].expired
    BY <1>7, <2>1, <2>2, <2>3, <2>4 DEF TryStart, CallInv
  <2>5. CASE ~(calls[job].phase = "cancelled" \/ calls[job].expired)
    BY <1>7, <2>1, <2>2, <2>3, <2>5 DEF TryStart, CallInv
  <2>. QED BY <2>4, <2>5
<1>8. ASSUME Enter \/ Exit PROVE CallInv'
  BY <1>8 DEF Enter, Exit, callerVars, CallInv
<1>9. ASSUME Execute PROVE CallInv'
  <2>1. job \in CallIds /\ executed' \subseteq executed \cup {job}
    BY <1>9 DEF Execute, Typed, JobInv
  <2>. QED BY <1>9, <2>1 DEF Execute, access, callerVars, CallInv
<1>10. ASSUME Complete PROVE CallInv'
  <2>1. /\ job \in CallIds /\ calls[job].phase # "cancelled"
    BY <1>10 DEF Complete, CallInv, Typed, JobInv
  <2>2. /\ \A d \in CallIds : d # job => calls'[d] = calls[d]
        /\ calls'[job].phase = "completed" /\ calls'[job].gui = calls[job].gui
    BY <1>10, <2>1 DEF Complete, Typed, TypeOK, Call
  <2>. QED BY <1>10, <2>1, <2>2 DEF Complete, callerVars, CallInv
<1>11. ASSUME Close \/ ThreadEnds \/ RunShutdown PROVE CallInv'
  BY <1>11 DEF Close, ThreadEnds, RunShutdown, access, callerVars, instrument,
     CallInv
<1>12. ASSUME NEW c \in CallIds, Expire(c) PROVE CallInv'
  <2>1. \A d \in CallIds : /\ calls'[d].phase = calls[d].phase
                           /\ calls'[d].gui = calls[d].gui
    BY <1>12 DEF Expire, Typed, TypeOK, Call
  <2>. QED BY <1>12, <2>1 DEF Expire, callerVars, instrument, CallInv, Typed,
           JobInv
<1>. QED
  BY <1>1, <1>2, <1>3, <1>4, <1>5, <1>6, <1>7, <1>8, <1>9, <1>10, <1>11, <1>12
     DEF Next, CallerStep, InstrumentStep, vars, AcquireLease, ReleaseLease,
         WaitTimesOut, AssertOpen, access, instrument

-----------------------------------------------------------------------------
IInv == Consistent /\ GateInv

LEMMA InitIInv == ASSUME Init PROVE IInv
<1>1. Typed
  BY InitTyped
<1>2. UsedInv /\ QueueInv /\ CallInv
  BY DEF Init, UsedInv, QueueInv, CallInv, CallIds
<1>3. GateInv
  BY DEF Init, GateInv, ExclusiveUse
<1>. QED BY <1>1, <1>2, <1>3 DEF IInv, Consistent

LEMMA NextIInv == IInv /\ [Next]_vars => IInv'
  BY NextTyped, NextUsed, NextQueue, NextCalls, NextGate DEF IInv, Consistent

LEMMA Invariance == Spec => []IInv
  BY InitIInv, NextIInv, PTL DEF Spec

(* While a lease is in force, only the lease holder's operations and safe  *)
(* ones reach the adapter (_RunAccess.enter), whoever queued what before.  *)
THEOREM ExclusiveUseHolds == Spec => []ExclusiveUse
<1>1. IInv => ExclusiveUse
  BY DEF IInv, GateInv
<1>. QED BY <1>1, Invariance, PTL

(* An OFF of somebody else that succeeded under a lease is final: the      *)
(* interrupted lease cannot energize the output again.                     *)
THEOREM OutsideOffIsFinal == Spec => []OutsideOffHolds
<1>1. IInv => OutsideOffHolds
  BY DEF IInv, GateInv, OutsideOffHolds
<1>. QED BY <1>1, Invariance, PTL

(* Nothing that is still queued when the controller has switched the       *)
(* instrument off for shutdown energizes it again.                         *)
THEOREM ShutdownIsFinal == Spec => []ShutdownHolds
<1>1. IInv => ShutdownHolds
  BY DEF IInv, GateInv, ShutdownHolds
<1>. QED BY <1>1, Invariance, PTL

(* A caller that was told its call was cancelled before dispatch can rely  *)
(* on it (_RunCall.try_start against cancel_pending).                      *)
THEOREM CancelledIsFinal == Spec => []CancelledNeverExecutes
<1>1. IInv => CancelledNeverExecutes
  BY DEF IInv, Consistent, CallInv, CancelledNeverExecutes, Typed, TypeOK
<1>. QED BY <1>1, Invariance, PTL
=============================================================================
