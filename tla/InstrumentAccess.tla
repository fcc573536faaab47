-------------------------- MODULE InstrumentAccess --------------------------
(***************************************************************************)
(* One instrument, the thread that owns its adapter, and everybody who     *)
(* wants to use it (app/ui/workers.py).                                    *)
(*                                                                         *)
(*   - Callers are the threads that call the adapter synchronously through *)
(*     a RunDeviceAdapter: the recipe worker, a characterization, the      *)
(*     emergency-stop worker.  Each call is a _RunCall that is queued to   *)
(*     the instrument thread and waited for with a deadline.               *)
(*   - The GUI queues operations without waiting (DeviceController.call)   *)
(*     and closes the controller.                                          *)
(*   - The instrument thread takes the requests one by one and admits each *)
(*     of them through _RunAccess, the lease and interruption gate.        *)
(*                                                                         *)
(* An operation is abstracted to what the gate tells apart: "off" is one   *)
(* of the operations _RunAccess.safe accepts, "estop" the two of those     *)
(* that DeviceController.call treats specially, "mutate" any operation     *)
(* that may energize the output, and "passive" a member on the list that   *)
(* an interrupted lease may still use.                                     *)
(***************************************************************************)
EXTENDS Naturals, Sequences, FiniteSets

CONSTANTS
    Callers,    \* threads that use a RunDeviceAdapter
    MaxLeases,  \* bound: leases granted in a behaviour
    MaxCalls    \* bound: requests queued in a behaviour (run calls and GUI)

ASSUME BoundsAssumption == MaxLeases \in Nat /\ MaxCalls \in Nat

VARIABLES
    owner,        \* _RunAccess.owner: the lease in force, 0 when there is none
    leases,       \* leases granted so far
    interrupted,  \* the current _RunAccess.interrupted Event is set
    inFlight,     \* _RunAccess.in_flight
    closing,      \* _RunAccess.closing
    calls,        \* the requests: operation, owner, phase, deadline
    queue,        \* posted to the instrument thread; 0 stands for shutdown
    pc,           \* what each caller is doing
    token,        \* the lease of each caller's proxy, 0 for a lease-less one
    waitingFor,   \* the call each caller waits for
    ipc, job,     \* the instrument thread: what it does, and for which request
    output,       \* the physical output of the instrument
    executed,     \* history: requests whose adapter member was invoked
    report,       \* history: what the caller of a request was told
    offUnder,     \* history: the lease during which an outside OFF succeeded
    shutdownOff   \* history: the shutdown slot switched the output off

access     == <<owner, leases, interrupted, inFlight, closing>>
callerVars == <<pc, token, waitingFor, report>>
instrument == <<ipc, job, output, executed, offUnder, shutdownOff>>
vars == <<owner, leases, interrupted, inFlight, closing, calls, queue, pc,
          token, waitingFor, ipc, job, output, executed, report, offUnder,
          shutdownOff>>

-----------------------------------------------------------------------------
CallIds  == 1..MaxCalls
Leases   == 0..MaxLeases
Shutdown == 0                      \* the queued InstrumentWorker.shutdown

Ops      == {"mutate", "passive", "off", "estop"}
RunOps   == Ops \ {"estop"}       \* nothing tells a caller's "estop" from its "off"
Phases   == {"free", "queued", "started", "cancelled", "completed"}
Outcomes == {"none", "returned", "cancelled", "uncertain"}

Call == [op : Ops, owner : Leases, gui : BOOLEAN, phase : Phases,
         expired : BOOLEAN]

TypeOK ==
    /\ owner \in Leases
    /\ leases \in Leases
    /\ interrupted \in BOOLEAN
    /\ inFlight \in 0..1
    /\ closing \in BOOLEAN
    /\ calls \in [CallIds -> Call]
    /\ queue \in Seq(CallIds \cup {Shutdown})
    /\ pc \in [Callers -> {"idle", "calling", "waiting", "timing_out", "ended"}]
    /\ token \in [Callers -> Leases]
    /\ waitingFor \in [Callers -> CallIds \cup {0}]
    /\ ipc \in {"loop", "start", "enter", "run", "exit", "complete",
                "shutdown", "ended"}
    /\ job \in CallIds \cup {0}
    /\ output \in {"on", "off"}
    /\ executed \subseteq CallIds
    /\ report \in [CallIds -> Outcomes]
    /\ offUnder \in Leases
    /\ shutdownOff \in BOOLEAN

-----------------------------------------------------------------------------
Safe(op) == op \in {"off", "estop"}

\* completed.is_set()
Completed(c) == calls[c].phase \in {"cancelled", "completed"}

Free == {c \in CallIds : calls[c].phase = "free"}

Post(c, op, lease, gui) ==
    /\ calls' = [calls EXCEPT ![c] = [op |-> op, owner |-> lease, gui |-> gui,
                                      phase |-> "queued", expired |-> FALSE]]
    /\ queue' = Append(queue, c)

\* Any request that has not been used will do.
NextCall == CHOOSE c \in Free : TRUE

Init ==
    /\ owner = 0 /\ leases = 0 /\ interrupted = FALSE /\ inFlight = 0
    /\ closing = FALSE
    /\ calls = [c \in CallIds |-> [op |-> "passive", owner |-> 0, gui |-> FALSE,
                                   phase |-> "free", expired |-> FALSE]]
    /\ queue = <<>>
    /\ pc = [w \in Callers |-> "idle"]
    /\ token = [w \in Callers |-> 0]
    /\ waitingFor = [w \in Callers |-> 0]
    /\ ipc = "loop" /\ job = 0
    /\ output \in {"on", "off"}
    /\ executed = {}
    /\ report = [c \in CallIds |-> "none"]
    /\ offUnder = 0
    /\ shutdownOff = FALSE

-----------------------------------------------------------------------------
(* The callers' threads.                                                   *)

AcquireLease(w) ==
    /\ pc[w] = "idle"
    /\ ~closing
    /\ owner = 0 /\ inFlight = 0
    /\ leases < MaxLeases
    /\ leases' = leases + 1
    /\ owner' = leases'
    /\ interrupted' = FALSE
    /\ token' = [token EXCEPT ![w] = leases']
    /\ UNCHANGED <<inFlight, closing, calls, queue, pc, waitingFor,
                   report, instrument>>

\* A busy instrument keeps its lease: the worker reports the error and ends.
ReleaseLease(w) ==
    /\ pc[w] = "idle"
    /\ token[w] # 0 /\ token[w] = owner
    /\ IF inFlight = 0
         THEN owner' = 0 /\ pc' = pc
         ELSE owner' = owner /\ pc' = [pc EXCEPT ![w] = "ended"]
    /\ UNCHANGED <<leases, interrupted, inFlight, closing, calls, queue, token,
                   waitingFor, report, instrument>>

\* call_for_run and read_for_run first look whether the controller is closing,
\* which it may be before the call is queued.
AssertOpen(w) ==
    /\ pc[w] = "idle"
    /\ ~closing
    /\ Free # {}
    /\ pc' = [pc EXCEPT ![w] = "calling"]
    /\ UNCHANGED <<access, calls, queue, token, waitingFor, report, instrument>>

\* The call is queued and waited for; the proxy's lease may be over by now.
CallForRun(w, op) ==
    /\ pc[w] = "calling"
    /\ Free # {}
    /\ Post(NextCall, op, token[w], FALSE)
    /\ waitingFor' = [waitingFor EXCEPT ![w] = NextCall]
    /\ pc' = [pc EXCEPT ![w] = "waiting"]
    /\ UNCHANGED <<access, token, report, instrument>>

WaitReturns(w) ==
    /\ pc[w] = "waiting"
    /\ Completed(waitingFor[w])
    /\ pc' = [pc EXCEPT ![w] = "idle"]
    /\ report' = [report EXCEPT ![waitingFor[w]] =
                    IF calls[waitingFor[w]].phase = "cancelled"
                      THEN "cancelled" ELSE "returned"]
    /\ waitingFor' = [waitingFor EXCEPT ![w] = 0]
    /\ UNCHANGED <<access, calls, queue, token, instrument>>

\* Gives up on started calls only.
WaitTimesOutIfStarted(w) ==
    /\ pc[w] = "waiting"
    /\ calls[waitingFor[w]].expired
    /\ calls[waitingFor[w]].phase = "started"
    /\ pc' = [pc EXCEPT ![w] = "timing_out"]
    /\ UNCHANGED <<access, calls, queue, token, waitingFor, report, instrument>>

\* The waiter's timeout starts after the deadline was computed, so it is later.
WaitTimesOut(w) ==
    /\ pc[w] = "waiting"
    /\ calls[waitingFor[w]].expired
    /\ ~Completed(waitingFor[w])
    /\ pc' = [pc EXCEPT ![w] = "timing_out"]
    /\ UNCHANGED <<access, calls, queue, token, waitingFor, report, instrument>>

\* Reports a cancellation whatever became of the call.
CancelStarted(w) ==
    LET c == waitingFor[w] IN
    /\ pc[w] = "timing_out"
    /\ pc' = [pc EXCEPT ![w] = "idle"]
    /\ report' = [report EXCEPT ![c] = "cancelled"]
    /\ calls' = [calls EXCEPT ![c].phase = "cancelled"]
    /\ waitingFor' = [waitingFor EXCEPT ![w] = 0]
    /\ UNCHANGED <<access, queue, token, instrument>>

\* _RunCall.cancel_pending: too late for a call that has started.
CancelPending(w) ==
    LET c == waitingFor[w] IN
    /\ pc[w] = "timing_out"
    /\ pc' = [pc EXCEPT ![w] = "idle"]
    /\ IF calls[c].phase \in {"started", "completed"}
         THEN /\ report' = [report EXCEPT ![c] = "uncertain"]
              /\ calls' = calls
         ELSE /\ report' = [report EXCEPT ![c] = "cancelled"]
              /\ calls' = [calls EXCEPT ![c].phase = "cancelled"]
    /\ waitingFor' = [waitingFor EXCEPT ![w] = 0]
    /\ UNCHANGED <<access, queue, token, instrument>>

CallerStep(w) ==
    WaitReturns(w) \/ WaitTimesOut(w) \/ CancelPending(w)

-----------------------------------------------------------------------------
(* The GUI thread.                                                         *)

\* An emergency OFF reaches the lease before it is queued, and even when the
\* operation guard then refuses to queue it.
GuiCall(op) ==
    /\ Free # {}
    /\ interrupted' = (interrupted \/ op = "estop")
    /\ \/ Post(NextCall, op, 0, TRUE)
       \/ op = "estop" /\ UNCHANGED <<calls, queue>>
    /\ UNCHANGED <<owner, leases, inFlight, closing, callerVars, instrument>>

BeginShutdown ==
    /\ closing' = TRUE
    /\ interrupted' = TRUE

Close ==
    /\ ~closing
    /\ BeginShutdown
    /\ queue' = Append(queue, Shutdown)
    /\ UNCHANGED <<owner, leases, inFlight, calls, callerVars, instrument>>

-----------------------------------------------------------------------------
(* The instrument thread.                                                  *)

\* thread.quit() comes three seconds after close at the latest, done or not;
\* posted events may or may not be delivered before the loop ends.
ThreadEnds ==
    /\ ipc = "loop" /\ closing
    /\ ipc' = "ended"
    /\ UNCHANGED <<access, calls, queue, callerVars, job, output, executed,
                   offUnder, shutdownOff>>

Take ==
    /\ ipc = "loop"
    /\ queue # <<>>
    /\ queue' = Tail(queue)
    /\ job' = Head(queue)
    /\ ipc' = CASE Head(queue) = Shutdown -> "shutdown"
                [] Head(queue) # Shutdown ->
                     IF calls[Head(queue)].gui THEN "enter" ELSE "start"
    /\ UNCHANGED <<access, calls, callerVars, output, executed, offUnder,
                   shutdownOff>>

\* _RunCall.try_start: the call starts unless its deadline or its waiter won.
TryStart ==
    /\ ipc = "start"
    /\ IF calls[job].phase = "cancelled" \/ calls[job].expired
         THEN /\ calls' = [calls EXCEPT ![job].phase = "cancelled"]
              /\ ipc' = "loop" /\ job' = 0
         ELSE /\ calls' = [calls EXCEPT ![job].phase = "started"]
              /\ ipc' = "enter" /\ job' = job
    /\ UNCHANGED <<access, queue, callerVars, output, executed, offUnder,
                   shutdownOff>>

\* A gate without the test of the owner, and one without the test of closing.
RefusedAnyOwner(c, stopped) ==
    LET op == calls[c].op
        lease == calls[c].owner
    IN  \/ closing /\ ~Safe(op)
        \/ lease # 0 /\ lease # owner
        \/ owner # 0 /\ stopped /\ ~Safe(op) /\ op # "passive"
RefusedWhileOpen(c, stopped) ==
    LET op == calls[c].op
        lease == calls[c].owner
    IN  \/ lease # 0 /\ lease # owner
        \/ owner # 0 /\ lease # owner /\ ~Safe(op)
        \/ owner # 0 /\ stopped /\ ~Safe(op) /\ op # "passive"

\* What _RunAccess.enter refuses, given the Event after its own set().
Refused(c, stopped) ==
    LET op == calls[c].op
        lease == calls[c].owner
    IN  \/ closing /\ ~Safe(op)
        \/ lease # 0 /\ lease # owner
        \/ owner # 0 /\ lease # owner /\ ~Safe(op)
        \/ owner # 0 /\ stopped /\ ~Safe(op) /\ op # "passive"

\* An outside OFF that leaves the lease uninterrupted.
InterruptsNever(c) == FALSE

\* A safe operation of somebody else interrupts the lease in force.
Interrupts(c) ==
    /\ calls[c].owner = 0
    /\ owner # 0
    /\ Safe(calls[c].op)

Enter ==
    /\ ipc = "enter"
    /\ interrupted' = (interrupted \/ Interrupts(job))
    /\ IF Refused(job, interrupted')
         THEN inFlight' = inFlight /\ ipc' = "complete"
         ELSE inFlight' = inFlight + 1 /\ ipc' = "run"
    /\ UNCHANGED <<owner, leases, closing, calls, queue, callerVars, job, output,
                   executed, offUnder, shutdownOff>>

\* The adapter member runs, and may fail before or after it took effect.  A
\* run call whose deadline passed in the meantime is not invoked any more.
Execute ==
    /\ ipc = "run"
    /\ ipc' = "exit"
    /\ \/ /\ ~calls[job].gui /\ calls[job].expired
          /\ UNCHANGED <<executed, output, offUnder>>
       \/ /\ calls[job].gui \/ ~calls[job].expired
          /\ executed' = executed \cup {job}
          /\ \/ calls[job].op = "mutate" /\ output' \in {"on", "off"}
                /\ offUnder' = offUnder
             \/ Safe(calls[job].op) /\ output' = "off"
                /\ offUnder' = IF calls[job].owner # owner THEN owner
                                                           ELSE offUnder
             \/ UNCHANGED <<output, offUnder>>       \* passive, or it failed
    /\ UNCHANGED <<access, calls, queue, callerVars, job, shutdownOff>>

Exit ==
    /\ ipc = "exit"
    /\ inFlight' = inFlight - 1
    /\ ipc' = "complete"
    /\ UNCHANGED <<owner, leases, interrupted, closing, calls, queue, callerVars,
                   job, output, executed, offUnder, shutdownOff>>

Complete ==
    /\ ipc = "complete"
    /\ calls' = [calls EXCEPT ![job].phase = "completed"]
    /\ ipc' = "loop" /\ job' = 0
    /\ UNCHANGED <<access, queue, callerVars, output, executed, offUnder,
                   shutdownOff>>

\* InstrumentWorker.shutdown; a failing emergency_off is swallowed.
RunShutdown ==
    /\ ipc = "shutdown"
    /\ BeginShutdown
    /\ \/ output' = "off" /\ shutdownOff' = TRUE
       \/ UNCHANGED <<output, shutdownOff>>
    /\ ipc' = "loop"
    /\ UNCHANGED <<owner, leases, inFlight, calls, queue, callerVars, job,
                   executed, offUnder>>

InstrumentStep ==
    Take \/ TryStart \/ Enter \/ Execute \/ Exit \/ Complete \/ RunShutdown

-----------------------------------------------------------------------------
\* Time passes the deadline of a run call.
Expire(c) ==
    /\ ~calls[c].gui
    /\ calls[c].phase \in {"queued", "started"}
    /\ ~calls[c].expired
    /\ calls' = [calls EXCEPT ![c].expired = TRUE]
    /\ UNCHANGED <<access, queue, callerVars, instrument>>

Next ==
    \/ \E w \in Callers : \/ AcquireLease(w)
                          \/ ReleaseLease(w)
                          \/ AssertOpen(w)
                          \/ \E op \in RunOps : CallForRun(w, op)
                          \/ CallerStep(w)
    \/ \E op \in Ops : GuiCall(op)
    \/ Close
    \/ ThreadEnds
    \/ InstrumentStep
    \/ \E c \in CallIds : Expire(c)

Spec == Init /\ [][Next]_vars

\* Threads are scheduled and clocks advance; nobody has to start anything.
Fairness ==
    /\ WF_vars(InstrumentStep)
    /\ \A w \in Callers : WF_vars(CallerStep(w))
    /\ \A c \in CallIds : WF_vars(Expire(c))

FairSpec == Spec /\ Fairness

-----------------------------------------------------------------------------
(* What the gate and the call protocol are for.                            *)

\* A caller that was told its queued call was cancelled, or expired before
\* dispatch, may rely on it: that call never reaches the adapter, not even
\* when the instrument thread gets to it later.
CancelledNeverExecutes ==
    \A c \in CallIds : report[c] = "cancelled" => c \notin executed

\* While a lease is in force the only non-safe operation an adapter can be
\* executing is the lease holder's own: no lease is granted or given up under
\* a running operation, and no other caller gets past the gate.
ExclusiveUse ==
    /\ ipc = "run"
    /\ owner # 0
    /\ ~Safe(calls[job].op)
    => calls[job].owner = owner

\* Once somebody else's OFF has succeeded while a lease is in force, the lease
\* holder cannot energize the output again: it stays off until the release.
OutsideOffHolds ==
    owner # 0 /\ offUnder = owner => output = "off"

\* After the shutdown slot has switched the output off nothing that is still
\* queued, by a run or by the GUI, switches it on again.
ShutdownHolds ==
    shutdownOff => output = "off"

\* Every synchronous caller gets an answer: a result, a cancellation, or the
\* report that its call is uncertain; also when the thread has ended under it.
CallersReturn ==
    \A w \in Callers : pc[w] = "waiting" ~> pc[w] = "idle"
=============================================================================
