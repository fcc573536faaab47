------------------------ MODULE RunLifecycle_proofs ------------------------
(***************************************************************************)
(* Proofs, for every station, plan and bound, of what surrounds a run: the *)
(* Stop that is not lost, the emergency stop no run outlives untold, and   *)
(* the account of every output and reservation a run leaves behind.        *)
(***************************************************************************)
EXTENDS RunLifecycle, TLAPS

-----------------------------------------------------------------------------
(* Types.                                                                  *)

Outcomes == {"safe", "holding", "fault", "failed"}
Statuses == Outcomes \cup {"none", "refused"}
RunState ==
    [early : BOOLEAN, runner : BOOLEAN, stop : BOOLEAN, timeout : BOOLEAN,
     estop : BOOLEAN, made : SUBSET Devices, opened : SUBSET Devices,
     kept : SUBSET Devices, outcome : Outcomes \cup {"none"}, errors : BOOLEAN,
     named : SUBSET Devices, status : Statuses, quit : BOOLEAN]
Afters == {"idle", "emergency", "close emergency", "close"}
SlotNames == {"idle", "stop", "stop runner", "pause", "emergency",
              "close emergency", "close", "closing", "shutting", "dispose", "closed"}

RunTyped == run \in RunState
GuiTyped ==
    /\ gui \in [slot : SlotNames, after : Afters, scope : SUBSET Station]
    /\ window \in {"open", "closing", "shut"}
InboxTyped == inbox \in Seq({"watchdog_timeout", "finished"})
HardwareTyped ==
    /\ leases \subseteq Borrowed /\ on \subseteq Station /\ connected \subseteq Devices
    /\ flight \in [Borrowed -> SUBSET {"on", "off"}]
    /\ todo \subseteq Devices
StoppingTyped ==
    /\ latch \in BOOLEAN
    /\ emergency \in [state : {"none", "running", "reported", "quitting"},
                      left : SUBSET Station]
    /\ owed \subseteq Station
BoundsTyped == runs \in 0..MaxRuns /\ stops \in 0..MaxStops /\ faults \in 0..MaxFaults

Typed == RunTyped /\ GuiTyped /\ InboxTyped /\ HardwareTyped /\ StoppingTyped /\ BoundsTyped

LEMMA InitTyped == Init => Typed
<1>. SUFFICES ASSUME Init PROVE Typed
  OBVIOUS
<1>. USE ScopeAssumption, BoundsAssumption DEF Init
<1>1. RunTyped
  BY DEF RunTyped, RunState, Outcomes, Statuses, NoRun
<1>2. GuiTyped /\ InboxTyped
  BY DEF GuiTyped, InboxTyped, Afters, SlotNames, Idle
<1>3. HardwareTyped
  BY DEF HardwareTyped
<1>4. StoppingTyped
  BY DEF StoppingTyped
<1>5. BoundsTyped
  BY DEF BoundsTyped
<1>. QED
  BY <1>1, <1>2, <1>3, <1>4, <1>5 DEF Typed

LEMMA NextRunTyped == ASSUME RunTyped, HardwareTyped, [Next]_vars PROVE RunTyped'
<1>. USE ScopeAssumption DEF RunTyped, RunState, HardwareTyped, Outcomes,
   Statuses
<1>1. CASE UNCHANGED <<run>>
  BY <1>1
<1>2. ASSUME Start PROVE RunTyped'
  BY <1>2 DEF Start, Idle, NoRun
<1>3. ASSUME RequestStop PROVE RunTyped'
  BY <1>3 DEF RequestStop, StopThen, HasWorker, Idle
<1>4. ASSUME StopRunner PROVE RunTyped'
  BY <1>4 DEF StopRunner, Idle
<1>5. ASSUME EmergencyOffAll PROVE RunTyped'
  BY <1>5 DEF EmergencyOffAll, StopThen, Idle, HasWorker
<1>6. ASSUME CloseWindow PROVE RunTyped'
  BY ZenonT(40), <1>6 DEF CloseWindow, StopThen, Idle, HasWorker
<1>7. ASSUME CloseQuits PROVE RunTyped'
  BY <1>7 DEF CloseQuits, HasWorker
<1>8. ASSUME WorkerEvent PROVE RunTyped'
  BY ZenonT(40), <1>8 DEF WorkerEvent, HasWorker, Idle
<1>9. ASSUME Finished PROVE RunTyped'
  BY <1>9 DEF Finished, HasWorker, Idle
<1>10. ASSUME Begin PROVE RunTyped'
  BY <1>10 DEF Begin, FailTo
<1>11. ASSUME Connect PROVE RunTyped'
  <2>1. PICK S \in SUBSET Devices, how \in {"none", "failed"} : Opens(S, how)
    BY <1>11 DEF Connect
  <2>. QED
    BY <2>1 DEF Opens
<1>12. ASSUME TestBeforeStorage PROVE RunTyped'
  BY <1>12 DEF TestBeforeStorage, FailTo
<1>13. ASSUME OpenArchive PROVE RunTyped'
  BY ZenonT(40), <1>13 DEF OpenArchive, FailTo, Fault
<1>14. ASSUME RunRunner PROVE RunTyped'
  BY <1>14 DEF RunRunner
<1>15. ASSUME RunnerEnds PROVE RunTyped'
  <2>1. PICK S \in SUBSET Devices, how \in Outcomes :
           \/ run' = [run EXCEPT !.outcome = how]
           \/ run' = [run EXCEPT !.outcome = how,
                                !.named = S \cup {d \in Devices : LateOn(d)}]
    BY <1>15 DEF RunnerEnds
  <2>2. CASE run' = [run EXCEPT !.outcome = how]
    BY <2>2
  <2>3. CASE run' = [run EXCEPT !.outcome = how,
                              !.named = S \cup {d \in Devices : LateOn(d)}]
    <3>1. S \cup {d \in Devices : LateOn(d)} \in SUBSET Devices
      OBVIOUS
    <3>. QED
      BY <2>3, <3>1, Zenon
  <2>. QED
    BY <2>1, <2>2, <2>3
<1>16. ASSUME WatchdogTimeout PROVE RunTyped'
  BY <1>16 DEF WatchdogTimeout, Fault, Signal
<1>17. ASSUME Teardown PROVE RunTyped'
  BY <1>17 DEF Teardown
<1>18. ASSUME Released PROVE RunTyped'
  BY <1>18 DEF Released
<1>19. ASSUME Report PROVE RunTyped'
  BY <1>19 DEF Report, Signal
<1>20. ASSUME NEW d \in Devices, AdapterForRun(d) PROVE RunTyped'
  BY <1>20 DEF AdapterForRun, InFlight
<1>21. ASSUME NEW d \in Devices, LeaseRefused(d) PROVE RunTyped'
  BY <1>21 DEF LeaseRefused, FailTo, InFlight
<1>22. ASSUME NEW d \in Devices, CleanupDevice(d) PROVE RunTyped'
  <2>1. run' = run \/ run' = [run EXCEPT !.errors = TRUE, !.named = @ \cup {d}]
    BY <1>22 DEF CleanupDevice
  <2>2. run.named \cup {d} \in SUBSET Devices
    OBVIOUS
  <2>. QED
    BY ZenonT(40), <2>1, <2>2
<1>23. ASSUME NEW d \in Devices, ReleaseRunLease(d) PROVE RunTyped'
  <2>1. \/ run' = run
        \/ run' = [run EXCEPT !.errors = TRUE,
                             !.named = @ \cup {e \in {d} : LateOn(e)}]
    BY <1>23 DEF ReleaseRunLease
  <2>2. run.named \cup {e \in {d} : LateOn(e)} \in SUBSET Devices
    BY SMTT(30)
  <2>. QED
    BY ZenonT(40), <2>1, <2>2
<1>. QED
  BY <1>1, <1>2, <1>3, <1>4, <1>5, <1>6, <1>7, <1>8, <1>9, <1>10, <1>11,
     <1>12, <1>13, <1>14, <1>15, <1>16, <1>17, <1>18, <1>19, <1>20, <1>21,
     <1>22, <1>23 DEF Next, Operator, Slots, Setup, Runner, Cleanup,
     EmergencyStep, vars, controller, hardware, stopping, bounds, StopReads,
     RequestPause, Pause, RequestEmergencyStop, ResetEmergencyLatch,
     CloseEnds, ShutControllers, WindowCloses, Dispose, EmergencyFinished, Cleaned, ThreadEnds, Energize,
     CallTimesOut, CallEnds, EmergencyOff, EmergencyReports,
     EmergencyThreadFinished

LEMMA NextGuiTyped == ASSUME GuiTyped, [Next]_vars PROVE GuiTyped'
<1>. USE ScopeAssumption DEF GuiTyped, SlotNames, Afters, controller
<1>1. CASE UNCHANGED <<gui, window>>
  BY <1>1
<1>2. ASSUME RequestStop PROVE GuiTyped'
  BY <1>2 DEF RequestStop, StopThen, HasWorker, Idle
<1>3. ASSUME StopReads PROVE GuiTyped'
  BY <1>3 DEF StopReads, Idle
<1>4. ASSUME StopRunner PROVE GuiTyped'
  BY <1>4 DEF StopRunner, Idle
<1>5. ASSUME RequestPause PROVE GuiTyped'
  BY <1>5 DEF RequestPause, HasWorker, Idle
<1>6. ASSUME Pause PROVE GuiTyped'
  BY <1>6 DEF Pause, Idle
<1>7. ASSUME EmergencyOffAll PROVE GuiTyped'
  BY <1>7 DEF EmergencyOffAll, StopThen, Idle, HasWorker
<1>8. ASSUME RequestEmergencyStop PROVE GuiTyped'
  BY <1>8 DEF RequestEmergencyStop, Idle
<1>9. ASSUME CloseWindow PROVE GuiTyped'
  <2>1. PICK a \in Afters, S \in SUBSET Station : StopThen(a, S)
    BY <1>9 DEF CloseWindow
  <2>2. window' = window
    BY <1>9 DEF CloseWindow
  <2>. QED
    BY <2>1, <2>2 DEF StopThen
<1>10. ASSUME CloseQuits PROVE GuiTyped'
  BY <1>10 DEF CloseQuits, HasWorker
<1>11. ASSUME CloseEnds PROVE GuiTyped'
  <2>1. gui' = Idle \/ gui' = [Idle EXCEPT !.slot = "shutting"]
    BY <1>11 DEF CloseEnds
  <2>2. Idle \in [slot : SlotNames, after : Afters, scope : SUBSET Station]
    BY DEF Idle
  <2>3. window' = window
    BY <1>11 DEF CloseEnds
  <2>4. CASE gui' = [Idle EXCEPT !.slot = "shutting"]
    BY <2>2, <2>3, <2>4
  <2>. QED
    BY <2>1, <2>2, <2>3, <2>4
<1>12. ASSUME WorkerEvent PROVE GuiTyped'
  <2>1. gui' = gui \/ gui' = [slot |-> "stop", after |-> "emergency", scope |-> Watched]
    BY <1>12 DEF WorkerEvent
  <2>2. Watched \subseteq Station
    OBVIOUS
  <2>3. window' = window
    BY <1>12 DEF WorkerEvent
  <2>4. CASE gui' = [slot |-> "stop", after |-> "emergency", scope |-> Watched]
    BY <2>2, <2>3, <2>4
  <2>. QED
    BY <2>1, <2>3, <2>4
<1>13. ASSUME Finished PROVE GuiTyped'
  BY <1>13 DEF Finished, HasWorker, Idle
<1>14. ASSUME Dispose PROVE GuiTyped'
  BY <1>14 DEF Dispose, Idle
<1>15. ASSUME ShutControllers PROVE GuiTyped'
  BY <1>15 DEF ShutControllers, Idle
<1>16. ASSUME WindowCloses PROVE GuiTyped'
  BY <1>16 DEF WindowCloses, Idle
<1>. QED
  BY <1>1, <1>2, <1>3, <1>4, <1>5, <1>6, <1>7, <1>8, <1>9, <1>10, <1>11,
     <1>12, <1>13, <1>14, <1>15, <1>16 DEF Next, Operator, Slots, Setup, Runner, Cleanup,
     EmergencyStep, vars, controller, hardware, stopping, bounds, Start,
     ResetEmergencyLatch, EmergencyFinished, Begin, Connect,
     TestBeforeStorage, OpenArchive, RunRunner, RunnerEnds, WatchdogTimeout,
     Teardown, Cleaned, Released, Report, ThreadEnds, AdapterForRun,
     LeaseRefused, Energize, CleanupDevice, ReleaseRunLease, CallTimesOut,
     CallEnds, EmergencyOff, EmergencyReports, EmergencyThreadFinished

LEMMA NextInboxTyped == ASSUME InboxTyped, [Next]_vars PROVE InboxTyped'
<1>. USE ScopeAssumption DEF InboxTyped, controller
<1>1. CASE UNCHANGED <<inbox>>
  BY <1>1
<1>2. ASSUME WorkerEvent PROVE InboxTyped'
  BY <1>2 DEF WorkerEvent, HasWorker, Idle
<1>3. ASSUME Finished PROVE InboxTyped'
  BY <1>3 DEF Finished, HasWorker, Idle
<1>4. ASSUME WatchdogTimeout PROVE InboxTyped'
  BY <1>4 DEF WatchdogTimeout, Fault, Signal
<1>5. ASSUME Report PROVE InboxTyped'
  BY <1>5 DEF Report, Signal
<1>. QED
  BY <1>1, <1>2, <1>3, <1>4, <1>5 DEF Next, Operator, Slots, Setup, Runner,
     Cleanup, EmergencyStep, vars, controller, hardware, stopping, bounds,
     Start, RequestStop, StopReads, StopRunner, RequestPause, Pause,
     EmergencyOffAll, RequestEmergencyStop, ResetEmergencyLatch, CloseWindow,
     CloseQuits, CloseEnds, ShutControllers, WindowCloses, Dispose, EmergencyFinished, Begin, Connect,
     TestBeforeStorage, OpenArchive, RunRunner, RunnerEnds, Teardown, Cleaned,
     Released, ThreadEnds, AdapterForRun, LeaseRefused, Energize,
     CleanupDevice, ReleaseRunLease, CallTimesOut, CallEnds, EmergencyOff,
     EmergencyReports, EmergencyThreadFinished

LEMMA NextHardwareTyped == ASSUME HardwareTyped, RunTyped, [Next]_vars PROVE HardwareTyped'
<1>. USE ScopeAssumption DEF HardwareTyped, RunTyped, RunState, hardware
<1>1. CASE UNCHANGED <<todo, leases, connected, on, flight>>
  BY <1>1
<1>2. ASSUME Start PROVE HardwareTyped'
  BY <1>2 DEF Start, Idle, NoRun
<1>3. ASSUME EmergencyOffAll PROVE HardwareTyped'
  BY <1>3 DEF EmergencyOffAll, OffQueued
<1>4. ASSUME Begin PROVE HardwareTyped'
  BY <1>4 DEF Begin, FailTo
<1>5. ASSUME Connect PROVE HardwareTyped'
  BY <1>5 DEF Connect, Opens, Fault
<1>6. ASSUME RunnerEnds PROVE HardwareTyped'
  BY <1>6 DEF RunnerEnds, Fault, LateOn
<1>7. ASSUME Teardown PROVE HardwareTyped'
  BY <1>7 DEF Teardown
<1>8. ASSUME Cleaned PROVE HardwareTyped'
  BY <1>8 DEF Cleaned
<1>9. ASSUME Released PROVE HardwareTyped'
  BY <1>9 DEF Released
<1>10. ASSUME NEW d \in Devices, AdapterForRun(d) PROVE HardwareTyped'
  BY <1>10 DEF AdapterForRun, InFlight
<1>11. ASSUME NEW d \in Devices, LeaseRefused(d) PROVE HardwareTyped'
  BY <1>11 DEF LeaseRefused, FailTo, InFlight
<1>12. ASSUME NEW d \in Devices, Energize(d) PROVE HardwareTyped'
  BY <1>12 DEF Energize
<1>13. ASSUME NEW d \in Devices, CleanupDevice(d) PROVE HardwareTyped'
  BY <1>13 DEF CleanupDevice, Fault, LateOn
<1>14. ASSUME NEW d \in Devices, ReleaseRunLease(d) PROVE HardwareTyped'
  BY <1>14 DEF ReleaseRunLease, LateOn, InFlight
<1>15. ASSUME NEW d \in Borrowed, CallTimesOut(d) PROVE HardwareTyped'
  BY <1>15 DEF CallTimesOut, Fault
<1>16. ASSUME NEW d \in Borrowed, CallEnds(d) PROVE HardwareTyped'
  BY <1>16 DEF CallEnds, Fault, LateOn, First, InFlight
<1>17. ASSUME NEW d \in Station, EmergencyOff(d) PROVE HardwareTyped'
  BY <1>17 DEF EmergencyOff, Fault
<1>18. ASSUME ShutControllers PROVE HardwareTyped'
  BY <1>18 DEF ShutControllers, OffQueued
<1>19. ASSUME WindowCloses PROVE HardwareTyped'
  BY <1>19 DEF WindowCloses
<1>. QED
  BY <1>1, <1>2, <1>3, <1>4, <1>5, <1>6, <1>7, <1>8, <1>9, <1>10, <1>11,
     <1>12, <1>13, <1>14, <1>15, <1>16, <1>17, <1>18, <1>19 DEF Next, Operator, Slots,
     Setup, Runner, Cleanup, EmergencyStep, vars, controller, hardware,
     stopping, bounds, RequestStop, StopReads, StopRunner, RequestPause,
     Pause, RequestEmergencyStop, ResetEmergencyLatch, CloseWindow,
     CloseQuits, CloseEnds, WorkerEvent, Finished, Dispose, EmergencyFinished,
     TestBeforeStorage, OpenArchive, RunRunner, WatchdogTimeout, Report,
     ThreadEnds, EmergencyReports, EmergencyThreadFinished

LEMMA NextStoppingTyped == ASSUME StoppingTyped, GuiTyped, [Next]_vars PROVE StoppingTyped'
<1>. USE ScopeAssumption DEF StoppingTyped, GuiTyped, stopping, controller
<1>1. CASE UNCHANGED <<latch, emergency, owed>>
  BY <1>1
<1>2. ASSUME EmergencyOffAll PROVE StoppingTyped'
  BY <1>2 DEF EmergencyOffAll, StopThen, Idle, HasWorker
<1>3. ASSUME RequestEmergencyStop PROVE StoppingTyped'
  BY <1>3 DEF RequestEmergencyStop, Idle
<1>4. ASSUME ResetEmergencyLatch PROVE StoppingTyped'
  BY <1>4 DEF ResetEmergencyLatch, Idle
<1>5. ASSUME CloseWindow PROVE StoppingTyped'
  BY <1>5 DEF CloseWindow, StopThen, Idle, HasWorker
<1>6. ASSUME CloseEnds PROVE StoppingTyped'
  BY <1>6 DEF CloseEnds
<1>7. ASSUME WorkerEvent PROVE StoppingTyped'
  BY <1>7 DEF WorkerEvent, HasWorker, Idle
<1>8. ASSUME EmergencyFinished PROVE StoppingTyped'
  BY <1>8 DEF EmergencyFinished, Idle
<1>9. ASSUME NEW d \in Station, EmergencyOff(d) PROVE StoppingTyped'
  BY <1>9 DEF EmergencyOff, Fault
<1>10. ASSUME EmergencyReports PROVE StoppingTyped'
  BY <1>10 DEF EmergencyReports
<1>11. ASSUME EmergencyThreadFinished PROVE StoppingTyped'
  BY <1>11 DEF EmergencyThreadFinished
<1>. QED
  BY <1>1, <1>2, <1>3, <1>4, <1>5, <1>6, <1>7, <1>8, <1>9, <1>10, <1>11 DEF
     Next, Operator, Slots, Setup, Runner, Cleanup, EmergencyStep, vars,
     controller, hardware, stopping, bounds, Start, RequestStop, StopReads,
     StopRunner, RequestPause, Pause, CloseQuits, ShutControllers, WindowCloses, Finished, Dispose, Begin,
     Connect, TestBeforeStorage, OpenArchive, RunRunner, RunnerEnds,
     WatchdogTimeout, Teardown, Cleaned, Released, Report, ThreadEnds,
     AdapterForRun, LeaseRefused, Energize, CleanupDevice, ReleaseRunLease,
     CallTimesOut, CallEnds

LEMMA BoundsKept ==
    ASSUME BoundsTyped, UNCHANGED <<runs, stops>>, Fault \/ UNCHANGED faults
    PROVE  BoundsTyped'
BY BoundsAssumption DEF BoundsTyped, Fault

LEMMA NextBoundsTyped == ASSUME BoundsTyped, [Next]_vars PROVE BoundsTyped'
<1>. USE BoundsAssumption DEF BoundsTyped, bounds
<1>1. CASE UNCHANGED <<runs, stops, faults>>
  BY <1>1
<1>2. ASSUME Start PROVE BoundsTyped'
  BY <1>2 DEF Start, Idle, NoRun
<1>3. ASSUME EmergencyOffAll PROVE BoundsTyped'
  BY <1>3 DEF EmergencyOffAll, StopThen, Idle, HasWorker
<1>4. ASSUME CloseWindow PROVE BoundsTyped'
  <2>1. stops' = stops + 1 /\ stops < MaxStops /\ UNCHANGED <<runs, faults>>
    BY <1>4 DEF CloseWindow
  <2>. QED
    BY <2>1
<1>5. ASSUME Connect PROVE BoundsTyped'
  BY <1>5, BoundsKept DEF Connect
<1>6. ASSUME OpenArchive PROVE BoundsTyped'
  BY <1>6 DEF OpenArchive, FailTo, Fault
<1>7. ASSUME RunnerEnds PROVE BoundsTyped'
  BY <1>7, BoundsKept DEF RunnerEnds
<1>8. ASSUME WatchdogTimeout PROVE BoundsTyped'
  BY <1>8 DEF WatchdogTimeout, Fault, Signal
<1>9. ASSUME NEW d \in Devices, CleanupDevice(d) PROVE BoundsTyped'
  BY <1>9 DEF CleanupDevice, Fault, LateOn
<1>10. ASSUME NEW d \in Borrowed, CallTimesOut(d) PROVE BoundsTyped'
  BY <1>10 DEF CallTimesOut, Fault
<1>11. ASSUME NEW d \in Borrowed, CallEnds(d) PROVE BoundsTyped'
  BY <1>11 DEF CallEnds, Fault, LateOn, First, InFlight
<1>12. ASSUME NEW d \in Station, EmergencyOff(d) PROVE BoundsTyped'
  BY <1>12 DEF EmergencyOff, Fault
<1>. QED
  BY <1>1, <1>2, <1>3, <1>4, <1>5, <1>6, <1>7, <1>8, <1>9, <1>10, <1>11, <1>12
     DEF Next, Operator, Slots, Setup, Runner, Cleanup, EmergencyStep, vars,
     controller, hardware, stopping, bounds, RequestStop, StopReads,
     StopRunner, RequestPause, Pause, RequestEmergencyStop,
     ResetEmergencyLatch, CloseQuits, CloseEnds,
     ShutControllers, WindowCloses, WorkerEvent, Finished,
     Dispose, EmergencyFinished, Begin, TestBeforeStorage, RunRunner,
     Teardown, Cleaned, Released, Report, ThreadEnds, AdapterForRun,
     LeaseRefused, Energize, ReleaseRunLease, EmergencyReports,
     EmergencyThreadFinished

LEMMA NextTyped == ASSUME Typed, [Next]_vars PROVE Typed'
BY NextRunTyped, NextGuiTyped, NextInboxTyped, NextHardwareTyped, NextStoppingTyped,
   NextBoundsTyped DEF Typed

-----------------------------------------------------------------------------
(* The controller, the worker and the emergency stop.                      *)

\* A worker that is past the creation of its runner has it, and one that has
\* been told to stop has told it, or the GUI is about to.
StopInv ==
    /\ worker \in {"created", "running"} => run.runner
    /\ StopReachesRunner

\* A slot that is on its way to an emergency stop has told the run to stop.
EmergencyAhead ==
    \/ gui.slot \in {"emergency", "close emergency"}
    \/ gui.slot \in {"stop", "stop runner"} /\ gui.after \in {"emergency", "close emergency"}
EmergencyInv ==
    /\ EmergencyAhead /\ HasWorker => run.early
    /\ EmergencyStopsTheRun

ControlInv == StopInv /\ EmergencyInv

\* What StopThen leaves behind, for the slots that call it.
LEMMA StopThenTold ==
    ASSUME RunTyped, NEW after, NEW scope, StopThen(after, scope)
    PROVE  /\ gui'.slot \in {"stop", after} /\ gui'.after = after
           /\ worker # "none" => gui'.slot = "stop" /\ run'.early
           /\ worker = "none" => run'.early = run.early
           /\ run'.runner = run.runner /\ run'.stop = run.stop
BY DEF StopThen, HasWorker, RunTyped, RunState

LEMMA NextStop == ASSUME Typed, StopInv, [Next]_vars PROVE StopInv'
<1>. USE ScopeAssumption DEF Typed, RunTyped, RunState, GuiTyped, Afters,
   StopInv, StopReachesRunner, controller
<1>1. CASE UNCHANGED <<gui, run, worker>>
  BY <1>1
<1>2. ASSUME Start PROVE StopInv'
  BY <1>2 DEF Start, Idle, NoRun, ThreadRunning
<1>3. ASSUME RequestStop PROVE StopInv'
  BY <1>3 DEF RequestStop, StopThen, HasWorker, Idle
<1>4. ASSUME StopReads PROVE StopInv'
  BY <1>4 DEF StopReads, Idle
<1>5. ASSUME StopRunner PROVE StopInv'
  BY <1>5 DEF StopRunner, Idle
<1>6. ASSUME RequestPause PROVE StopInv'
  BY <1>6 DEF RequestPause, HasWorker, Idle
<1>7. ASSUME Pause PROVE StopInv'
  BY <1>7 DEF Pause, Idle
<1>8. ASSUME EmergencyOffAll PROVE StopInv'
  BY <1>8 DEF EmergencyOffAll, StopThen, Idle, HasWorker
<1>9. ASSUME RequestEmergencyStop PROVE StopInv'
  BY <1>9 DEF RequestEmergencyStop, Idle
<1>10. ASSUME CloseWindow PROVE StopInv'
  <2>1. PICK a \in {"close", "close emergency"}, S \in SUBSET Station : StopThen(a, S)
    BY <1>10 DEF CloseWindow
  <2>2. UNCHANGED worker
    BY <1>10 DEF CloseWindow
  <2>. QED
    BY <2>1, <2>2, StopThenTold
<1>11. ASSUME CloseQuits PROVE StopInv'
  BY <1>11 DEF CloseQuits, HasWorker
<1>12. ASSUME CloseEnds PROVE StopInv'
  BY <1>12 DEF CloseEnds, Idle, ThreadRunning
<1>13. ASSUME WorkerEvent PROVE StopInv'
  <2>1. CASE UNCHANGED <<gui, run, worker>>
    BY <2>1
  <2>2. CASE /\ UNCHANGED worker
             /\ gui' = [slot |-> "stop", after |-> "emergency", scope |-> Watched]
             /\ run' = [run EXCEPT !.estop = TRUE, !.early = TRUE]
    BY <2>2
  <2>. QED
    BY <1>13, <2>1, <2>2 DEF WorkerEvent
<1>14. ASSUME Finished PROVE StopInv'
  BY <1>14 DEF Finished, HasWorker, Idle
<1>15. ASSUME Dispose PROVE StopInv'
  BY <1>15 DEF Dispose, Idle, ThreadRunning
<1>16. ASSUME Begin PROVE StopInv'
  BY <1>16 DEF Begin, FailTo
<1>17. ASSUME Connect PROVE StopInv'
  BY <1>17 DEF Connect, Opens, Fault
<1>18. ASSUME TestBeforeStorage PROVE StopInv'
  BY <1>18 DEF TestBeforeStorage, FailTo
<1>19. ASSUME OpenArchive PROVE StopInv'
  BY <1>19 DEF OpenArchive, FailTo, Fault
<1>20. ASSUME RunRunner PROVE StopInv'
  BY <1>20 DEF RunRunner
<1>21. ASSUME RunnerEnds PROVE StopInv'
  BY <1>21 DEF RunnerEnds, Fault, LateOn
<1>22. ASSUME WatchdogTimeout PROVE StopInv'
  BY <1>22 DEF WatchdogTimeout, Fault, Signal
<1>23. ASSUME Teardown PROVE StopInv'
  BY <1>23 DEF Teardown
<1>24. ASSUME Cleaned PROVE StopInv'
  BY <1>24 DEF Cleaned
<1>25. ASSUME Released PROVE StopInv'
  BY <1>25 DEF Released
<1>26. ASSUME Report PROVE StopInv'
  BY <1>26 DEF Report, Signal
<1>27. ASSUME ThreadEnds PROVE StopInv'
  BY <1>27 DEF ThreadEnds
<1>28. ASSUME NEW d \in Devices, AdapterForRun(d) PROVE StopInv'
  BY <1>28 DEF AdapterForRun, InFlight
<1>29. ASSUME NEW d \in Devices, LeaseRefused(d) PROVE StopInv'
  BY <1>29 DEF LeaseRefused, FailTo, InFlight
<1>30. ASSUME NEW d \in Devices, CleanupDevice(d) PROVE StopInv'
  BY <1>30 DEF CleanupDevice, Fault, LateOn
<1>31. ASSUME NEW d \in Devices, ReleaseRunLease(d) PROVE StopInv'
  BY <1>31 DEF ReleaseRunLease, LateOn, InFlight
<1>32. ASSUME ShutControllers PROVE StopInv'
  BY <1>32 DEF ShutControllers, Idle
<1>33. ASSUME WindowCloses PROVE StopInv'
  BY <1>33 DEF WindowCloses, Idle
<1>. QED
  BY <1>1, <1>2, <1>3, <1>4, <1>5, <1>6, <1>7, <1>8, <1>9, <1>10, <1>11,
     <1>12, <1>13, <1>14, <1>15, <1>16, <1>17, <1>18, <1>19, <1>20, <1>21,
     <1>22, <1>23, <1>24, <1>25, <1>26, <1>27, <1>28, <1>29, <1>30, <1>31,
     <1>32, <1>33 DEF
     Next, Operator, Slots, Setup, Runner, Cleanup, EmergencyStep, vars,
     controller, hardware, stopping, bounds, ResetEmergencyLatch,
     EmergencyFinished, Energize, CallTimesOut, CallEnds, EmergencyOff,
     EmergencyReports, EmergencyThreadFinished

LEMMA NextEmergency == ASSUME Typed, EmergencyInv, [Next]_vars PROVE EmergencyInv'
<1>. USE ScopeAssumption DEF Typed, RunTyped, RunState, GuiTyped, Afters,
   EmergencyInv, EmergencyStopsTheRun, EmergencyAhead, HasWorker, Over,
   controller, stopping
<1>1. CASE UNCHANGED <<gui, run, worker, emergency>>
  BY <1>1
<1>2. ASSUME Start PROVE EmergencyInv'
  BY <1>2 DEF Start, Idle, NoRun, ThreadRunning
<1>3. ASSUME RequestStop PROVE EmergencyInv'
  BY <1>3 DEF RequestStop, StopThen, Idle
<1>4. ASSUME StopReads PROVE EmergencyInv'
  BY <1>4 DEF StopReads, Idle
<1>5. ASSUME StopRunner PROVE EmergencyInv'
  BY <1>5 DEF StopRunner, Idle
<1>6. ASSUME RequestPause PROVE EmergencyInv'
  BY <1>6 DEF RequestPause, Idle
<1>7. ASSUME Pause PROVE EmergencyInv'
  BY <1>7 DEF Pause, Idle
<1>8. ASSUME EmergencyOffAll PROVE EmergencyInv'
  BY <1>8 DEF EmergencyOffAll, StopThen, Idle
<1>9. ASSUME RequestEmergencyStop PROVE EmergencyInv'
  BY <1>9 DEF RequestEmergencyStop, Idle
<1>10. ASSUME CloseWindow PROVE EmergencyInv'
  BY <1>10 DEF CloseWindow, StopThen, Idle, ThreadRunning
<1>11. ASSUME CloseQuits PROVE EmergencyInv'
  BY <1>11 DEF CloseQuits
<1>12. ASSUME CloseEnds PROVE EmergencyInv'
  <2>1. gui'.slot \in {"shutting", "idle"} /\ UNCHANGED run
    BY <1>12 DEF CloseEnds, Idle
  <2>2. worker' \in {worker, "none"}
    BY <1>12 DEF CloseEnds
  <2>3. emergency'.state = "running" => emergency.state = "running"
    BY <1>12 DEF CloseEnds
  <2>. QED
    BY <2>1, <2>2, <2>3
<1>13. ASSUME WorkerEvent PROVE EmergencyInv'
  BY <1>13 DEF WorkerEvent, Idle
<1>14. ASSUME Finished PROVE EmergencyInv'
  BY <1>14 DEF Finished, Idle
<1>15. ASSUME Dispose PROVE EmergencyInv'
  BY <1>15 DEF Dispose, Idle, ThreadRunning
<1>16. ASSUME EmergencyFinished PROVE EmergencyInv'
  BY <1>16 DEF EmergencyFinished, Idle
<1>17. ASSUME Begin PROVE EmergencyInv'
  BY <1>17 DEF Begin, FailTo
<1>18. ASSUME Connect PROVE EmergencyInv'
  BY <1>18 DEF Connect, Opens, Fault
<1>19. ASSUME TestBeforeStorage PROVE EmergencyInv'
  BY <1>19 DEF TestBeforeStorage, FailTo
<1>20. ASSUME OpenArchive PROVE EmergencyInv'
  BY <1>20 DEF OpenArchive, FailTo, Fault
<1>21. ASSUME RunRunner PROVE EmergencyInv'
  BY <1>21 DEF RunRunner
<1>22. ASSUME RunnerEnds PROVE EmergencyInv'
  BY <1>22 DEF RunnerEnds, Fault, LateOn
<1>23. ASSUME WatchdogTimeout PROVE EmergencyInv'
  BY <1>23 DEF WatchdogTimeout, Fault, Signal
<1>24. ASSUME Teardown PROVE EmergencyInv'
  BY <1>24 DEF Teardown
<1>25. ASSUME Cleaned PROVE EmergencyInv'
  BY <1>25 DEF Cleaned
<1>26. ASSUME Released PROVE EmergencyInv'
  BY <1>26 DEF Released
<1>27. ASSUME Report PROVE EmergencyInv'
  BY <1>27 DEF Report, Signal
<1>28. ASSUME ThreadEnds PROVE EmergencyInv'
  BY <1>28 DEF ThreadEnds
<1>29. ASSUME NEW d \in Devices, AdapterForRun(d) PROVE EmergencyInv'
  BY <1>29 DEF AdapterForRun, InFlight
<1>30. ASSUME NEW d \in Devices, LeaseRefused(d) PROVE EmergencyInv'
  BY <1>30 DEF LeaseRefused, FailTo, InFlight
<1>31. ASSUME NEW d \in Devices, CleanupDevice(d) PROVE EmergencyInv'
  BY <1>31 DEF CleanupDevice, Fault, LateOn
<1>32. ASSUME NEW d \in Devices, ReleaseRunLease(d) PROVE EmergencyInv'
  BY <1>32 DEF ReleaseRunLease, LateOn, InFlight
<1>33. ASSUME NEW d \in Station, EmergencyOff(d) PROVE EmergencyInv'
  BY <1>33 DEF EmergencyOff, Fault
<1>34. ASSUME EmergencyReports PROVE EmergencyInv'
  BY <1>34 DEF EmergencyReports
<1>35. ASSUME EmergencyThreadFinished PROVE EmergencyInv'
  BY <1>35 DEF EmergencyThreadFinished, StoppingTyped
<1>36. ASSUME ShutControllers PROVE EmergencyInv'
  BY <1>36 DEF ShutControllers, Idle
<1>37. ASSUME WindowCloses PROVE EmergencyInv'
  BY <1>37 DEF WindowCloses, Idle
<1>. QED
  BY <1>1, <1>2, <1>3, <1>4, <1>5, <1>6, <1>7, <1>8, <1>9, <1>10, <1>11,
     <1>12, <1>13, <1>14, <1>15, <1>16, <1>17, <1>18, <1>19, <1>20, <1>21,
     <1>22, <1>23, <1>24, <1>25, <1>26, <1>27, <1>28, <1>29, <1>30, <1>31,
     <1>32, <1>33, <1>34, <1>35, <1>36, <1>37 DEF Next, Operator, Slots, Setup, Runner,
     Cleanup, EmergencyStep, vars, controller, hardware, stopping, bounds,
     ResetEmergencyLatch, Energize, CallTimesOut, CallEnds

-----------------------------------------------------------------------------
(* The account of outputs and reservations.                                *)

\* An output is on, or a late call will switch it on.
Live(d) == d \in on \/ LateOn(d)

Before == {"begin", "acquire", "connected", "storage", "created", "running", "teardown"}
After == {"teardown", "cleaning", "releasing", "report", "fallback"}

\* What the runner has promised of its end stays true until it is reported.
PromiseKept ==
    worker \in After =>
        /\ run.outcome \in Outcomes
        /\ run.outcome = "safe" => \A d \in Devices : ~Live(d)
        /\ run.outcome = "holding" =>
              Retained # {} /\ \A d \in Devices : ~LateOn(d) /\ (d \in on => d \in Retained)
        /\ run.outcome = "fault" => \A d \in Devices : Live(d) => d \in run.named

\* A session the run has opened stays open until its device is cleaned up.
SessionsOpen ==
    /\ Borrowed \subseteq connected
    /\ worker \in Before => run.opened \subseteq connected
    /\ worker = "cleaning" => run.opened \cap todo \subseteq connected

\* Where the cleanup has to switch off, what it has passed is off or named.
Unswept(d) == d \in run.made \cap run.opened /\ Live(d) /\ d \notin run.named
Swept ==
    /\ worker = "cleaning" /\ run.outcome = "failed" => \A d \in Devices : Unswept(d) => d \in todo
    /\ worker \in {"releasing", "report"} /\ run.outcome = "failed" => \A d \in Devices : ~Unswept(d)
    /\ worker = "fallback" =>
          run.outcome = "holding" /\ run.errors /\ \A d \in Devices : Unswept(d) => d \in todo

\* Outputs are retained by a holding run only, and not where it has errors.
Retention ==
    /\ worker \in {"cleaning", "releasing"} =>
          run.kept = IF run.outcome = "holding" THEN Retained ELSE {}
    /\ worker = "report" /\ run.outcome = "holding" => ~run.errors

\* A reservation that is still held is to be given back, or has left an error.
LeasesReturned ==
    /\ worker = "releasing" => run.errors \/ leases \cap run.made \subseteq todo
    /\ worker = "report" => run.errors \/ leases \cap run.made = {}

\* The account, including what a late call may still do.
Accounted ==
    Over =>
        /\ run.status \notin {"none", "refused"} =>
              \A d \in run.made \cap run.opened :
                  Live(d) => d \in IF run.status = "holding" THEN Retained ELSE run.named
        /\ run.status \in {"safe", "holding", "failed"} => leases \cap run.made = {}

OutputInv == PromiseKept /\ SessionsOpen /\ Swept /\ Retention /\ LeasesReturned /\ Accounted

LEMMA InitOutput == Init => OutputInv
BY SMTT(30)
   DEF Init, OutputInv, PromiseKept, SessionsOpen, Swept, Retention, LeasesReturned,
       Accounted, Before, After, NoRun, Over

account == <<todo, connected, leases, run.made, run.opened, run.kept, run.outcome,
             run.errors, run.named, run.status>>

\* The steps that leave the run's account alone: no output comes on, and the
\* worker stays where it is or, when the run is over, is disposed of.
LEMMA QuietStep ==
    ASSUME Typed, OutputInv,
           worker' = worker \/ (Over /\ Over'),
           UNCHANGED account,
           \A d \in Devices : (Live(d)' => Live(d)) /\ (LateOn(d)' => LateOn(d))
    PROVE  OutputInv'
<1>. USE DEF OutputInv, Before, After, Over, account
<1>1. \A d \in Devices : (d \in on)' => Live(d)'
  BY DEF Live
<1>2. PromiseKept'
  BY <1>1 DEF PromiseKept, Live
<1>3. SessionsOpen'
  BY DEF SessionsOpen
<1>4. Swept'
  BY DEF Swept, Unswept
<1>5. Retention' /\ LeasesReturned'
  BY DEF Retention, LeasesReturned
<1>6. Accounted'
  BY DEF Accounted, Typed, RunTyped, RunState
<1>. QED
  BY <1>2, <1>3, <1>4, <1>5, <1>6

\* The steps before the cleanup: nothing is promised of the outputs yet.
LEMMA EarlyStep ==
    ASSUME Borrowed \subseteq connected',
           worker' \in Before \cup {"undo"},
           worker' # "undo" => run'.opened \subseteq connected',
           worker' = "teardown" => run'.outcome = "failed"
    PROVE  OutputInv'
BY DEF OutputInv, PromiseKept, SessionsOpen, Swept, Retention, LeasesReturned,
       Accounted, Before, After, Over, Outcomes

\* The slots of the GUI, the emergency stop and the threads of the instruments.
LEMMA QuietActions ==
    ASSUME Typed, OutputInv,
           \/ RequestStop \/ StopReads \/ StopRunner \/ RequestPause \/ Pause
           \/ RequestEmergencyStop \/ ResetEmergencyLatch \/ CloseWindow \/ CloseQuits
           \/ WorkerEvent \/ Finished \/ EmergencyFinished \/ EmergencyReports
           \/ EmergencyThreadFinished \/ WatchdogTimeout \/ Dispose \/ CloseEnds
           \/ ThreadEnds
    PROVE  OutputInv'
<1>. USE DEF Typed, RunTyped, RunState, account, hardware
<1>1. UNCHANGED <<on, flight>>
  BY DEF RequestStop, StopReads, StopRunner, RequestPause, Pause,
     RequestEmergencyStop, ResetEmergencyLatch, CloseWindow, CloseQuits,
     WorkerEvent, Finished, EmergencyFinished, EmergencyReports,
     EmergencyThreadFinished, WatchdogTimeout, Dispose, CloseEnds, ThreadEnds
<1>2. \A d \in Devices : (Live(d)' => Live(d)) /\ (LateOn(d)' => LateOn(d))
  BY <1>1 DEF Live, LateOn
<1>3. worker' = worker \/ (Over /\ Over')
  BY DEF RequestStop, StopReads, StopRunner, RequestPause, Pause,
     RequestEmergencyStop, ResetEmergencyLatch, CloseWindow, CloseQuits,
     WorkerEvent, Finished, EmergencyFinished, EmergencyReports,
     EmergencyThreadFinished, WatchdogTimeout, Dispose, CloseEnds, ThreadEnds,
     Over, ThreadRunning
<1>4. UNCHANGED account
  <2>1. CASE RequestStop
    BY <2>1 DEF RequestStop, StopThen, HasWorker
  <2>2. CASE StopReads
    BY <2>2 DEF StopReads
  <2>3. CASE StopRunner
    BY <2>3 DEF StopRunner
  <2>4. CASE RequestPause
    BY <2>4 DEF RequestPause, HasWorker
  <2>5. CASE Pause
    BY <2>5 DEF Pause
  <2>6. CASE RequestEmergencyStop
    BY <2>6 DEF RequestEmergencyStop
  <2>7. CASE ResetEmergencyLatch
    BY <2>7 DEF ResetEmergencyLatch
  <2>8. CASE CloseWindow
    BY <2>8 DEF CloseWindow, StopThen, HasWorker
  <2>9. CASE CloseQuits
    BY <2>9 DEF CloseQuits, HasWorker
  <2>10. CASE WorkerEvent
    BY <2>10 DEF WorkerEvent, HasWorker
  <2>11. CASE Finished
    BY <2>11 DEF Finished, HasWorker
  <2>12. CASE EmergencyFinished
    BY <2>12 DEF EmergencyFinished
  <2>13. CASE EmergencyReports
    BY <2>13 DEF EmergencyReports
  <2>14. CASE EmergencyThreadFinished
    BY <2>14 DEF EmergencyThreadFinished
  <2>15. CASE WatchdogTimeout
    BY <2>15 DEF WatchdogTimeout
  <2>16. CASE Dispose
    BY <2>16 DEF Dispose
  <2>17. CASE CloseEnds
    BY <2>17 DEF CloseEnds
  <2>18. CASE ThreadEnds
    BY <2>18 DEF ThreadEnds
  <2>. QED
    BY <2>1, <2>2, <2>3, <2>4, <2>5, <2>6, <2>7, <2>8, <2>9, <2>10, <2>11,
       <2>12, <2>13, <2>14, <2>15, <2>16, <2>17, <2>18
<1>. QED
  BY <1>2, <1>3, <1>4, QuietStep

LEMMA QuietHardware ==
    ASSUME Typed, OutputInv,
           \/ EmergencyOffAll \/ ShutControllers \/ WindowCloses
           \/ \E d \in Station : EmergencyOff(d)
           \/ \E d \in Borrowed : CallEnds(d)
    PROVE  OutputInv'
<1>. USE DEF Typed, RunTyped, RunState, HardwareTyped, Live, LateOn
<1>1. CASE EmergencyOffAll
  <2>1. UNCHANGED <<worker, account>>
    BY <1>1 DEF EmergencyOffAll, StopThen, account
  <2>2. UNCHANGED on /\ flight' = OffQueued
    BY <1>1 DEF EmergencyOffAll
  <2>3. \A d \in Devices : (Live(d)' => Live(d)) /\ (LateOn(d)' => LateOn(d))
    BY <2>2 DEF OffQueued
  <2>. QED
    BY <2>1, <2>3, QuietStep
<1>2. ASSUME NEW d \in Station, EmergencyOff(d) PROVE OutputInv'
  <2>1. UNCHANGED <<worker, flight, account>> /\ on' \subseteq on
    BY <1>2 DEF EmergencyOff, account
  <2>2. \A e \in Devices : (Live(e)' => Live(e)) /\ (LateOn(e)' => LateOn(e))
    BY <2>1
  <2>. QED
    BY <2>1, <2>2, QuietStep
<1>3. ASSUME NEW d \in Borrowed, CallEnds(d) PROVE OutputInv'
  <2>1. UNCHANGED <<worker, account>>
    BY <1>3 DEF CallEnds, account
  <2>2. /\ on' \subseteq on \cup (IF LateOn(d) THEN {d} ELSE {})
        /\ flight' = [flight EXCEPT ![d] = @ \ {First(d)}]
    BY <1>3 DEF CallEnds
  <2>3. \A e \in Devices : (Live(e)' => Live(e)) /\ (LateOn(e)' => LateOn(e))
    BY <2>2
  <2>. QED
    BY <2>1, <2>3, QuietStep
<1>4. CASE ShutControllers \/ WindowCloses
  <2>1. UNCHANGED <<worker, account, on>>
    BY <1>4 DEF ShutControllers, WindowCloses, account
  <2>2. flight' = flight \/ flight' = OffQueued \/ flight' = [d \in Borrowed |-> {}]
    BY <1>4 DEF ShutControllers, WindowCloses
  <2>3. \A d \in Devices : (Live(d)' => Live(d)) /\ (LateOn(d)' => LateOn(d))
    BY <2>1, <2>2 DEF OffQueued
  <2>. QED
    BY <2>1, <2>3, QuietStep
<1>. QED
  BY <1>1, <1>2, <1>3, <1>4

\* The worker up to the end of its runner.
LEMMA SetupSteps ==
    ASSUME Typed, OutputInv,
           \/ Start \/ Begin \/ Connect \/ TestBeforeStorage \/ OpenArchive \/ RunRunner
           \/ \E d \in Devices : AdapterForRun(d) \/ LeaseRefused(d) \/ Energize(d)
           \/ \E d \in Borrowed : CallTimesOut(d)
    PROVE  OutputInv'
<1>. USE DEF Typed, RunTyped, RunState, OutputInv, SessionsOpen, Before, hardware
<1>1. CASE Start
  BY <1>1, EarlyStep DEF Start, NoRun
<1>2. CASE Begin
  BY <1>2, EarlyStep DEF Begin, FailTo
<1>3. CASE Connect
  <2>1. PICK S \in SUBSET Devices, how \in {"none", "failed"} :
           /\ Opens(S, how)
           /\ worker' \in {"connected", "teardown"}
           /\ worker' = "teardown" => how = "failed"
    BY <1>3 DEF Connect
  <2>. QED
    BY <2>1, EarlyStep DEF Opens
<1>4. CASE TestBeforeStorage
  BY <1>4, EarlyStep DEF TestBeforeStorage, FailTo
<1>5. CASE OpenArchive
  BY <1>5, EarlyStep DEF OpenArchive, FailTo
<1>6. CASE RunRunner
  BY <1>6, EarlyStep DEF RunRunner
<1>7. ASSUME NEW d \in Devices, AdapterForRun(d) PROVE OutputInv'
  BY <1>7, EarlyStep DEF AdapterForRun
<1>8. ASSUME NEW d \in Devices, LeaseRefused(d) PROVE OutputInv'
  BY <1>8, EarlyStep DEF LeaseRefused, FailTo
<1>9. ASSUME NEW d \in Devices, Energize(d) PROVE OutputInv'
  BY <1>9, EarlyStep DEF Energize
<1>10. ASSUME NEW d \in Borrowed, CallTimesOut(d) PROVE OutputInv'
  BY <1>10, EarlyStep DEF CallTimesOut
<1>. QED
  BY <1>1, <1>2, <1>3, <1>4, <1>5, <1>6, <1>7, <1>8, <1>9, <1>10

LEMMA RunnerEndsSafely == ASSUME Typed, OutputInv, RunnerEnds PROVE OutputInv'
<1>. USE DEF Typed, RunTyped, RunState, Live, LateOn
<1>1. /\ worker = "running" /\ worker' = "teardown"
      /\ UNCHANGED <<connected, flight, leases>>
  BY DEF RunnerEnds
<1>2. run'.opened = run.opened
  <2>1. PICK S \in SUBSET Devices, how \in Outcomes :
           \/ run' = [run EXCEPT !.outcome = how]
           \/ run' = [run EXCEPT !.outcome = how,
                                !.named = S \cup {d \in Devices : LateOn(d)}]
    BY DEF RunnerEnds, Outcomes
  <2>. QED
    BY <2>1
<1>3. SessionsOpen'
  BY <1>1, <1>2 DEF OutputInv, SessionsOpen, Before
<1>4. PromiseKept'
  <2>. USE DEF PromiseKept, Outcomes
  <2>1. CASE /\ \A d \in Devices : ~LateOn(d)
             /\ on' = on \ Devices
             /\ run' = [run EXCEPT !.outcome = "safe"]
    BY <1>1, <2>1
  <2>2. CASE /\ \A d \in Devices : ~LateOn(d)
             /\ Retained # {}
             /\ on' = on \ (Devices \ Retained)
             /\ run' = [run EXCEPT !.outcome = "holding"]
    BY <1>1, <2>2
  <2>3. ASSUME NEW S \in SUBSET Devices,
               on' = on \ (Devices \ S),
               run' = [run EXCEPT !.outcome = "fault",
                                 !.named = S \cup {d \in Devices : LateOn(d)}]
        PROVE  PromiseKept'
    BY <1>1, <2>3
  <2>4. CASE run' = [run EXCEPT !.outcome = "failed"]
    BY <1>1, <2>4
  <2>. QED
    BY <2>1, <2>2, <2>3, <2>4 DEF RunnerEnds
<1>. QED
  BY <1>1, <1>3, <1>4
     DEF OutputInv, Swept, Retention, LeasesReturned, Accounted, Over

LEMMA TeardownSafely == ASSUME Typed, OutputInv, Teardown PROVE OutputInv'
<1>. USE DEF Typed, RunTyped, RunState, OutputInv
<1>1. /\ worker = "teardown" /\ worker' = "cleaning" /\ todo' = run.made
      /\ UNCHANGED <<leases, connected, on, flight>>
  BY DEF Teardown, hardware
<1>2. /\ run'.made = run.made /\ run'.opened = run.opened
      /\ run'.outcome = run.outcome /\ run'.named = run.named
      /\ run'.kept = IF run.outcome = "holding" THEN Retained ELSE {}
  BY DEF Teardown
<1>3. PromiseKept'
  BY <1>1, <1>2 DEF PromiseKept, After, Live, LateOn
<1>4. SessionsOpen'
  BY <1>1, <1>2 DEF SessionsOpen, Before
<1>5. Swept'
  BY <1>1, <1>2 DEF Swept, Unswept, Live, LateOn
<1>6. Retention' /\ LeasesReturned' /\ Accounted'
  BY <1>1, <1>2 DEF Retention, LeasesReturned, Accounted, Over
<1>. QED
  BY <1>3, <1>4, <1>5, <1>6

LEMMA CleanupSafely ==
    ASSUME Typed, OutputInv, NEW d \in Devices, CleanupDevice(d)
    PROVE  OutputInv'
<1>. USE ScopeAssumption DEF OutputInv
<1>1. /\ worker \in {"cleaning", "fallback"} /\ d \in todo /\ todo' = todo \ {d}
      /\ connected' = connected \ ({d} \ Borrowed)
      /\ UNCHANGED <<worker, leases, flight>>
  BY DEF CleanupDevice
<1>2. \/ on' = on \ {d} /\ ~LateOn(d) /\ run' = run
      \/ (d \notin connected \/ ~ShutsDown) /\ on' = on /\ run' = run
      \/ on' = on /\ ShutsDown
         /\ run' = [run EXCEPT !.errors = TRUE, !.named = @ \cup {d}]
  BY DEF CleanupDevice
<1>3. /\ run'.made = run.made /\ run'.opened = run.opened
      /\ run'.outcome = run.outcome /\ run'.kept = run.kept
      /\ run.named \subseteq run'.named /\ (run.errors => run'.errors)
  BY <1>2 DEF Typed, RunTyped, RunState
<1>4. on' \subseteq on /\ \A e \in Devices : (LateOn(e)' <=> LateOn(e))
  BY <1>1, <1>2 DEF LateOn
<1>5. PromiseKept'
  BY <1>1, <1>3, <1>4 DEF PromiseKept, Live
<1>6. SessionsOpen'
  BY <1>1, <1>3 DEF SessionsOpen, Before
<1>7. Swept'
  <2>1. \A e \in Devices : Unswept(e)' => Unswept(e)
    BY <1>3, <1>4 DEF Unswept, Live
  <2>2. ASSUME worker = "fallback" \/ run.outcome = "failed" PROVE ~Unswept(d)'
    <3>1. ShutsDown
      BY <2>2 DEF ShutsDown
    <3>2. CASE on' = on \ {d} /\ ~LateOn(d)
      BY <1>4, <3>2 DEF Unswept, Live
    <3>3. CASE run' = [run EXCEPT !.errors = TRUE, !.named = @ \cup {d}]
      <4>1. d \in run'.named
        BY <3>3 DEF Typed, RunTyped, RunState
      <4>. QED
        BY <4>1 DEF Unswept
    <3>4. CASE d \notin connected /\ on' = on /\ run' = run
      <4>1. CASE worker = "cleaning"
        BY <1>1, <1>3, <3>4, <4>1 DEF SessionsOpen, Unswept
      <4>2. CASE worker = "fallback"
        <5>1. d \notin Retained
          BY <3>4 DEF SessionsOpen
        <5>2. d \notin on /\ ~LateOn(d)
          BY <4>2, <5>1 DEF Swept, PromiseKept, After
        <5>. QED
          BY <1>4, <5>2 DEF Unswept, Live
      <4>. QED
        BY <1>1, <4>1, <4>2
    <3>. QED
      BY <1>2, <3>1, <3>2, <3>3, <3>4
  <2>. QED
    BY <1>1, <1>3, <2>1, <2>2 DEF Swept
<1>8. Retention' /\ LeasesReturned' /\ Accounted'
  BY <1>1, <1>3 DEF Retention, LeasesReturned, Accounted, Over
<1>. QED
  BY <1>5, <1>6, <1>7, <1>8

LEMMA CleanedSafely == ASSUME Typed, OutputInv, Cleaned PROVE OutputInv'
<1>. USE DEF OutputInv
<1>1. /\ worker = "cleaning" /\ todo = {} /\ worker' = "releasing"
      /\ todo' = leases \cap run.made
      /\ UNCHANGED <<run, leases, connected, on, flight>>
  BY DEF Cleaned, hardware
<1>2. PromiseKept' /\ SessionsOpen'
  BY <1>1 DEF PromiseKept, SessionsOpen, Before, After, Live, LateOn
<1>3. Swept'
  BY <1>1 DEF Swept, Unswept, Live, LateOn
<1>4. Retention' /\ LeasesReturned' /\ Accounted'
  BY <1>1 DEF Retention, LeasesReturned, Accounted, Over
<1>. QED
  BY <1>2, <1>3, <1>4

LEMMA ReleaseSafely ==
    ASSUME Typed, OutputInv, NEW d \in Devices, ReleaseRunLease(d)
    PROVE  OutputInv'
<1>. USE DEF OutputInv
<1>1. /\ worker \in {"releasing", "undo"} /\ d \in todo /\ todo' = todo \ {d}
      /\ UNCHANGED <<worker, connected, on, flight>>
  BY DEF ReleaseRunLease, hardware
<1>2. CASE worker = "undo"
  BY <1>1, <1>2, EarlyStep DEF SessionsOpen, Before
<1>3. CASE worker = "releasing"
  <2>1. /\ run'.made = run.made /\ run'.opened = run.opened
        /\ run'.outcome = run.outcome /\ run'.kept = run.kept
        /\ run.named \subseteq run'.named
    <3>1. \/ run' = run
          \/ run' = [run EXCEPT !.errors = TRUE,
                               !.named = run.named \cup {e \in {d} : LateOn(e)}]
      BY Zenon DEF ReleaseRunLease
    <3>2. run \in RunState
      BY DEF Typed, RunTyped
    <3>. QED BY ZenonT(40), <3>1, <3>2 DEF RunState
  <2>2. \/ run'.errors /\ leases' = leases
        \/ run'.errors = run.errors /\ leases' = leases \ {d}
    BY DEF ReleaseRunLease, Typed, RunTyped, RunState
  <2>3. PromiseKept' /\ SessionsOpen'
    BY <1>1, <1>3, <2>1 DEF PromiseKept, SessionsOpen, Before, After, Live, LateOn
  <2>4. Swept'
    BY <1>1, <1>3, <2>1 DEF Swept, Unswept, Live, LateOn
  <2>5. Retention' /\ Accounted'
    BY <1>1, <1>3, <2>1 DEF Retention, Accounted, Over
  <2>6. LeasesReturned'
    BY <1>1, <1>3, <2>1, <2>2 DEF LeasesReturned
  <2>. QED
    BY <2>3, <2>4, <2>5, <2>6
<1>. QED
  BY <1>1, <1>2, <1>3

LEMMA ReleasedSafely == ASSUME Typed, OutputInv, Released PROVE OutputInv'
<1>. USE DEF OutputInv
<1>1. /\ worker = "releasing" /\ todo = {}
      /\ UNCHANGED <<leases, connected, on, flight>>
  BY DEF Released, hardware
<1>2. /\ run'.made = run.made /\ run'.opened = run.opened
      /\ run'.outcome = run.outcome /\ run'.named = run.named
      /\ run'.errors = run.errors
  BY DEF Released, Typed, RunTyped, RunState
<1>3. \/ worker' = "fallback" /\ todo' = run.made /\ run.errors /\ run.kept # {}
      \/ worker' = "report" /\ todo' = {} /\ ~(run.errors /\ run.kept # {})
  BY <1>1 DEF Released
<1>4. PromiseKept' /\ SessionsOpen'
  BY <1>1, <1>2, <1>3
     DEF PromiseKept, SessionsOpen, Before, After, Live, LateOn, Outcomes
<1>5. Swept'
  <2>1. \A e \in Devices : Unswept(e)' => Unswept(e)
    BY <1>1, <1>2 DEF Unswept, Live, LateOn
  <2>2. worker' = "fallback" => run.outcome = "holding"
    BY <1>1, <1>3 DEF Retention
  <2>3. worker' = "fallback" => \A e \in Devices : Unswept(e)' => e \in todo'
    BY <1>2, <1>3 DEF Unswept
  <2>. QED
    BY <1>1, <1>2, <1>3, <2>1, <2>2, <2>3 DEF Swept
<1>6. Retention' /\ LeasesReturned' /\ Accounted'
  BY <1>1, <1>2, <1>3 DEF Retention, LeasesReturned, PromiseKept, After, Accounted, Over
<1>. QED
  BY <1>4, <1>5, <1>6

LEMMA ReportSafely == ASSUME Typed, OutputInv, Report PROVE OutputInv'
<1>. USE DEF OutputInv
<1>1. /\ worker \in {"report", "undo", "fallback"} /\ todo = {} /\ worker' = "ended"
      /\ UNCHANGED <<leases, connected, on, flight>>
  BY DEF Report, hardware
<1>2. /\ run'.made = run.made /\ run'.opened = run.opened
      /\ run'.named = run.named
      /\ run'.status = IF worker = "undo" THEN "refused"
                       ELSE IF run.errors THEN "fault" ELSE run.outcome
  BY DEF Report, Typed, RunTyped, RunState
<1>3. PromiseKept' /\ SessionsOpen' /\ Swept' /\ Retention' /\ LeasesReturned'
  BY <1>1 DEF PromiseKept, SessionsOpen, Swept, Retention, LeasesReturned, Before, After
<1>4. \A d \in Devices : Live(d)' => Live(d)
  BY <1>1 DEF Live, LateOn
<1>5. ASSUME worker \in {"report", "fallback"},
             NEW d \in run.made \cap run.opened, Live(d)
      PROVE  d \in IF run'.status = "holding" THEN Retained ELSE run.named
  <2>1. d \in Devices
    BY DEF Typed, RunTyped, RunState
  <2>2. run.outcome \in Outcomes
    BY <1>5 DEF PromiseKept, After
  <2>3. CASE worker = "fallback"
    BY <1>1, <1>2, <1>5, <2>1, <2>3 DEF Swept, Unswept
  <2>4. CASE worker = "report" /\ run.outcome = "holding"
    BY <1>2, <1>5, <2>1, <2>4 DEF Retention, PromiseKept, After, Live
  <2>5. CASE worker = "report" /\ run.outcome = "failed"
    BY <1>2, <1>5, <2>1, <2>5 DEF Swept, Unswept
  <2>6. CASE worker = "report" /\ run.outcome \in {"safe", "fault"}
    BY <1>2, <1>5, <2>1, <2>6 DEF PromiseKept, After
  <2>. QED
    BY <1>5, <2>2, <2>3, <2>4, <2>5, <2>6 DEF Outcomes
<1>6. run'.status \in {"safe", "holding", "failed"} => leases \cap run.made = {}
  BY <1>1, <1>2 DEF LeasesReturned, Swept
<1>7. Accounted'
  <2>1. ASSUME run'.status \notin {"none", "refused"},
               NEW d \in run'.made \cap run'.opened, Live(d)'
        PROVE  d \in IF run'.status = "holding" THEN Retained ELSE run'.named
    BY <1>1, <1>2, <1>4, <1>5, <2>1 DEF Typed, RunTyped, RunState
  <2>. QED
    BY <1>1, <1>2, <1>6, <2>1 DEF Accounted
<1>. QED
  BY <1>3, <1>7

LEMMA NextOutput == ASSUME Typed, OutputInv, [Next]_vars PROVE OutputInv'
<1>1. CASE UNCHANGED vars
  <2>1. UNCHANGED <<worker, account, on, flight>>
    BY <1>1 DEF vars, account
  <2>2. \A d \in Devices : (Live(d)' => Live(d)) /\ (LateOn(d)' => LateOn(d))
    BY <2>1 DEF Live, LateOn
  <2>. QED
    BY <2>1, <2>2, QuietStep
<1>2. CASE Operator
  BY <1>2, QuietActions, QuietHardware, SetupSteps DEF Operator
<1>3. CASE Slots
  BY <1>3, QuietActions, QuietHardware DEF Slots
<1>4. CASE Setup
  BY <1>4, SetupSteps DEF Setup
<1>5. CASE Runner
  BY <1>5, SetupSteps, QuietActions, RunnerEndsSafely DEF Runner
<1>6. CASE Cleanup
  BY <1>6, TeardownSafely, CleanupSafely, CleanedSafely, ReleaseSafely, ReleasedSafely,
     ReportSafely, QuietActions DEF Cleanup
<1>7. CASE EmergencyStep
  BY <1>7, QuietActions, QuietHardware DEF EmergencyStep
<1>8. CASE \E d \in Borrowed : CallEnds(d)
  BY <1>8, QuietHardware
<1>. QED
  BY <1>1, <1>2, <1>3, <1>4, <1>5, <1>6, <1>7, <1>8 DEF Next

-----------------------------------------------------------------------------
(* Theorems.                                                               *)

LEMMA TypedAlways == Spec => []Typed
BY InitTyped, NextTyped, PTL DEF Spec

LEMMA ControlAlways == Spec => []ControlInv
<1>1. Init => ControlInv
  BY DEF Init, ControlInv, StopInv, EmergencyInv, StopReachesRunner,
     EmergencyStopsTheRun, EmergencyAhead, HasWorker, Over, Idle
<1>2. Typed /\ ControlInv /\ [Next]_vars => ControlInv'
  BY NextStop, NextEmergency DEF ControlInv
<1>. QED
  BY <1>1, <1>2, TypedAlways, PTL DEF Spec

LEMMA OutputAlways == Spec => []OutputInv
<1>1. Typed /\ OutputInv /\ [Next]_vars => OutputInv'
  BY NextOutput
<1>. QED
  BY InitOutput, <1>1, TypedAlways, PTL DEF Spec

(* Every variable of the controller, the worker, the emergency stop and    *)
(* the instruments keeps its type (RunController, RunWorker).              *)
THEOREM TypeCorrect == Spec => []TypeOK
<1>1. Typed => TypeOK
  BY DEF TypeOK, Typed, RunTyped, GuiTyped, HardwareTyped, StoppingTyped, BoundsTyped,
     RunState, SlotNames
<1>. QED
  BY <1>1, TypedAlways, PTL

(* A Stop that races the creation of the runner is not lost: request_stop  *)
(* sets the event before it reads the runner, and the worker sets its      *)
(* runner before it reads the event.                                       *)
THEOREM StopIsNotLost == Spec => []StopReachesRunner
<1>1. ControlInv => StopReachesRunner
  BY DEF ControlInv, StopInv
<1>. QED
  BY <1>1, ControlAlways, PTL

(* While the thread of an emergency stop is at work, every run that has    *)
(* not ended has been told to stop, and none starts (start, which refuses  *)
(* while the emergency thread exists, even when the latch was reset).      *)
THEOREM EmergencyIsTold == Spec => []EmergencyStopsTheRun
<1>1. ControlInv => EmergencyStopsTheRun
  BY DEF ControlInv, EmergencyInv
<1>. QED
  BY <1>1, ControlAlways, PTL

(* Whatever failed in a run, in its cleanup or in giving its reservations  *)
(* back, and whatever a late call does afterwards, each output the run     *)
(* leaves on is one that it retains and reports as HOLDING or names in its *)
(* errors, and a run without errors holds no reservation.                  *)
THEOREM NoOutputForgotten == Spec => []OutputsAccountedFor
<1>1. OutputInv => OutputsAccountedFor
  <2>1. Accounted => OutputsAccountedFor
    BY DEF Accounted, OutputsAccountedFor, Live
  <2>. QED
    BY <2>1 DEF OutputInv
<1>. QED
  BY <1>1, OutputAlways, PTL
=============================================================================
