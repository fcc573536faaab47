---------------------------- MODULE RunLifecycle ----------------------------
(***************************************************************************)
(* The life of a run around the recipe runner: RunController in the GUI    *)
(* thread, RunWorker in the thread of the run, EmergencyStopWorker in the  *)
(* thread of an emergency stop, and the calls still in flight on the       *)
(* threads of the instruments.  The runner itself is abstracted to its     *)
(* contract, what RecipeRunner shows of its end.                           *)
(*                                                                         *)
(* The GUI handles one slot at a time; a slot is several steps only where  *)
(* the worker's thread may run between them.                               *)
(***************************************************************************)
EXTENDS Naturals, Sequences, FiniteSets

CONSTANTS
    Station,     \* the instruments of the station
    Devices,     \* those the plan requires
    Borrowed,    \* those whose session a device page owns
    Late,        \* those whose lease is taken inside the guarded part of the run
    Watched,     \* the scope of the watchdog's emergency stop
    Retained,    \* those the plan leaves on when it succeeds
    MaxRuns,     \* bound: runs started
    MaxStops,    \* bound: emergency stops and closes of the window
    MaxFaults    \* bound: failures of instruments, storage and runner

ASSUME ScopeAssumption ==
    /\ Devices \subseteq Station /\ Watched \subseteq Devices
    /\ Borrowed \subseteq Devices /\ Late \subseteq Devices
    /\ Retained \subseteq Borrowed
ASSUME BoundsAssumption == {MaxRuns, MaxStops, MaxFaults} \subseteq Nat

VARIABLES
    gui,       \* the slot the GUI thread is in
    latch,     \* _emergency_latch
    inbox,     \* signals queued to the GUI thread
    window,    \* "closing" while closeEvent waits for the instrument threads, then
               \* "shut": the window has stayed, the controllers take no more work
    run,       \* the worker's fields
    worker,    \* where the worker's thread is
    todo,      \* the devices the worker's current loop has not reached
    leases,    \* the reservations held
    connected, \* sessions that are open
    on,        \* instruments whose output is energized
    flight,    \* calls on the thread of a borrowed instrument; "on" is served first
    emergency, \* the thread of the emergency stop, and the devices it has left
    owed,      \* the instruments no session has stopped since the last E-STOP
    runs, stops, faults

vars == <<gui, latch, inbox, window, run, worker, todo, leases, connected, on, flight,
          emergency, owed, runs, stops, faults>>
controller == <<gui, latch, inbox, window>>
hardware == <<connected, on, flight>>
stopping == <<emergency, owed>>
bounds == <<runs, stops, faults>>

NoRun == [early   |-> FALSE,  \* _early_stop_requested
          runner  |-> FALSE,  \* _runner is set
          stop    |-> FALSE,  \* the runner's own stop flag
          timeout |-> FALSE,  \* the watchdog has emitted watchdog_timeout
          estop   |-> FALSE,  \* _watchdog_estop_started
          made    |-> {},     \* the devices that have been created
          opened  |-> {},     \* those the run has connected or found connected
          kept    |-> {},     \* _completion_retained_devices
          outcome |-> "none", \* what the runner returned, or a failure
          errors  |-> FALSE,  \* cleanup_errors is not empty
          named   |-> {},     \* the devices whose OFF the errors leave in doubt
          status  |-> "none", \* what the GUI is told
          quit    |-> FALSE]  \* the thread has been told to quit

Idle == [slot |-> "idle", after |-> "idle", scope |-> {}]

Init ==
    /\ gui = Idle
    /\ latch = FALSE
    /\ inbox = <<>>
    /\ window = "open"
    /\ run = NoRun
    /\ worker = "none"
    /\ todo = {}
    /\ leases = {}
    /\ connected = Borrowed
    /\ on = {}
    /\ flight = [d \in Borrowed |-> {}]
    /\ emergency = [state |-> "none", left |-> {}]
    /\ owed = {}
    /\ runs = 0 /\ stops = 0 /\ faults = 0

Fault == faults < MaxFaults /\ faults' = faults + 1
ThreadRunning == worker \notin {"none", "gone"}
Over == worker \in {"none", "gone", "ended"}
HasWorker == worker # "none"
InFlight(d) == d \in Borrowed /\ flight[d] # {}
LateOn(d) == d \in Borrowed /\ "on" \in flight[d]

-----------------------------------------------------------------------------
(* RunController: starting a run.                                          *)

\* Mutant: a run may start while the last emergency stop is at work.
StartUnchecked ==
    /\ gui = Idle
    /\ ~ThreadRunning
    /\ ~latch
    /\ runs < MaxRuns
    /\ runs' = runs + 1
    /\ run' = [NoRun EXCEPT !.opened = connected]
    /\ worker' = "begin"
    /\ todo' = {}
    /\ UNCHANGED <<controller, leases, hardware, stopping, stops, faults>>

Start ==
    /\ gui = Idle
    /\ ~ThreadRunning
    /\ emergency.state = "none"
    /\ ~latch
    /\ runs < MaxRuns
    /\ runs' = runs + 1
    /\ run' = [NoRun EXCEPT !.opened = connected]
    /\ worker' = "begin"
    /\ todo' = {}
    /\ UNCHANGED <<controller, leases, hardware, stopping, stops, faults>>

-----------------------------------------------------------------------------
(* RunController: Stop, pause, emergency stop, and closing the window.     *)

\* request_stop sets the worker's event, then reads its runner.
StopThen(after, scope) ==
    /\ gui' = [slot |-> IF HasWorker THEN "stop" ELSE after, after |-> after, scope |-> scope]
    /\ run' = [run EXCEPT !.early = @ \/ HasWorker]

RequestStop ==
    /\ gui = Idle
    /\ HasWorker
    /\ ~run.early
    /\ StopThen("idle", {})
    /\ UNCHANGED <<latch, inbox, window, worker, todo, leases, hardware, stopping, bounds>>

\* Mutant: a run whose runner exists is told only through the early event.
StopForgets ==
    /\ gui.slot = "stop"
    /\ gui' = IF gui.after = "idle" THEN Idle ELSE [gui EXCEPT !.slot = gui.after]
    /\ UNCHANGED <<latch, inbox, window, run, worker, todo, leases, hardware, stopping, bounds>>

StopReads ==
    /\ gui.slot = "stop"
    /\ gui' = CASE run.runner -> [gui EXCEPT !.slot = "stop runner"]
                [] ~run.runner /\ gui.after = "idle" -> Idle
                [] OTHER -> [gui EXCEPT !.slot = gui.after]
    /\ UNCHANGED <<latch, inbox, window, run, worker, todo, leases, hardware, stopping, bounds>>

\* The reference is a local one; the runner may have ended meanwhile.
StopRunner ==
    /\ gui.slot = "stop runner"
    /\ run' = [run EXCEPT !.stop = TRUE]
    /\ gui' = IF gui.after = "idle" THEN Idle ELSE [gui EXCEPT !.slot = gui.after]
    /\ UNCHANGED <<latch, inbox, window, worker, todo, leases, hardware, stopping, bounds>>

\* request_pause, request_resume and advance_manual_step test the worker's
\* runner and then read it again.
RequestPause ==
    /\ gui = Idle
    /\ HasWorker
    /\ run.runner
    /\ gui' = [Idle EXCEPT !.slot = "pause"]
    /\ UNCHANGED <<latch, inbox, window, run, worker, todo, leases, hardware, stopping, bounds>>
Pause ==
    /\ gui.slot = "pause"
    /\ gui' = Idle
    /\ UNCHANGED <<latch, inbox, window, run, worker, todo, leases, hardware, stopping, bounds>>

\* The operator's emergency stop covers the station, and queues an OFF on the
\* thread of each borrowed instrument as well, unless the pages' controllers are shut.
OffQueued == [d \in Borrowed |-> IF window = "shut" THEN flight[d] ELSE flight[d] \cup {"off"}]

EmergencyOffAll ==
    /\ gui = Idle
    /\ stops < MaxStops
    /\ stops' = stops + 1
    /\ latch' = TRUE
    /\ owed' = Station
    /\ StopThen("emergency", Station)
    /\ flight' = OffQueued
    /\ UNCHANGED <<inbox, window, worker, todo, leases, connected, on, emergency, runs, faults>>

\* A second request returns while the thread of the first one is running.
RequestEmergencyStop ==
    /\ gui.slot \in {"emergency", "close emergency"}
    /\ gui' = IF gui.slot = "emergency" THEN Idle ELSE [gui EXCEPT !.slot = "close"]
    /\ emergency' = IF emergency.state = "none"
                    THEN [state |-> "running", left |-> gui.scope] ELSE emergency
    /\ UNCHANGED <<latch, inbox, window, run, worker, todo, leases, hardware, owed, bounds>>

ResetEmergencyLatch ==
    /\ gui = Idle
    /\ latch
    /\ latch' = FALSE
    /\ UNCHANGED <<gui, inbox, window, run, worker, todo, leases, hardware, stopping, bounds>>

\* closeEvent: RunController.close stops a run and waits a bounded time for both
\* threads.  A second close does nothing while the first one is in its event loop.
CloseWindow ==
    /\ gui = Idle
    /\ window # "closing"
    /\ stops < MaxStops
    /\ stops' = stops + 1
    /\ IF ThreadRunning
       THEN latch' = TRUE /\ StopThen("close emergency", Station)
       ELSE UNCHANGED latch /\ StopThen("close", {})
    /\ UNCHANGED <<inbox, window, worker, todo, leases, hardware, stopping, runs, faults>>

\* Between the waits the thread of the run is told to quit.
CloseQuits ==
    /\ gui.slot = "close"
    /\ run' = [run EXCEPT !.quit = HasWorker]
    /\ gui' = [gui EXCEPT !.slot = "closing"]
    /\ UNCHANGED <<latch, inbox, window, worker, todo, leases, hardware, stopping, bounds>>

\* RunController.close drops what has ended.  It refuses the close while either
\* thread runs; the window stays open then.
EmergencyOver == emergency.state \in {"none", "reported"}
CloseEnds ==
    /\ gui.slot = "closing"
    /\ gui' = IF ~ThreadRunning /\ EmergencyOver THEN [Idle EXCEPT !.slot = "shutting"] ELSE Idle
    /\ worker' = IF ThreadRunning THEN worker ELSE "none"
    /\ emergency' = IF EmergencyOver THEN [state |-> "none", left |-> {}] ELSE emergency
    /\ UNCHANGED <<latch, inbox, window, run, todo, leases, hardware, owed, bounds>>

\* The rest of closeEvent: another page refuses, or the controllers are shut, each
\* with an OFF on its thread.  Meanwhile an event loop of their own handles any slot.
ShutControllers ==
    /\ gui.slot = "shutting"
    /\ gui' = Idle
    /\ \/ UNCHANGED <<window, flight>>
       \/ window' = "closing" /\ flight' = OffQueued
    /\ UNCHANGED <<latch, inbox, run, worker, todo, leases, connected, on, stopping, bounds>>

\* The instrument threads have ended and the window closes; or they have not, and it
\* stays without its controllers.
WindowCloses ==
    /\ gui = Idle
    /\ window = "closing"
    /\ \/ /\ \A d \in Borrowed : ~LateOn(d)
          /\ gui' = [Idle EXCEPT !.slot = "closed"]
          /\ flight' = [d \in Borrowed |-> {}]
          /\ UNCHANGED window
       \/ window' = "shut" /\ UNCHANGED <<gui, flight>>
    /\ UNCHANGED <<latch, inbox, run, worker, todo, leases, connected, on, stopping, bounds>>

-----------------------------------------------------------------------------
(* RunController: signals from the worker and the emergency thread.        *)

\* watchdog_timeout of the worker starts one emergency stop per run.
WorkerEvent ==
    /\ gui = Idle
    /\ inbox # <<>> /\ Head(inbox) = "watchdog_timeout"
    /\ inbox' = Tail(inbox)
    /\ IF run.estop \/ ~HasWorker
       THEN UNCHANGED <<gui, latch, run, owed>>
       ELSE /\ latch' = TRUE
            /\ gui' = [slot |-> "stop", after |-> "emergency", scope |-> Watched]
            /\ run' = [run EXCEPT !.estop = TRUE, !.early = TRUE]
            /\ owed' = owed \cup Watched
    /\ UNCHANGED <<window, worker, todo, leases, hardware, emergency, bounds>>

\* The terminal signal: the thread is told to quit and waited for.
Finished ==
    /\ gui = Idle
    /\ inbox # <<>> /\ Head(inbox) = "finished"
    /\ inbox' = Tail(inbox)
    /\ run' = [run EXCEPT !.quit = HasWorker]
    /\ gui' = [Idle EXCEPT !.slot = "dispose"]
    /\ UNCHANGED <<latch, window, worker, todo, leases, hardware, stopping, bounds>>

\* The wait may time out first: worker and thread are kept.
Dispose ==
    /\ gui.slot = "dispose"
    /\ gui' = Idle
    /\ worker' = IF ThreadRunning THEN worker ELSE "none"
    /\ UNCHANGED <<latch, inbox, window, run, todo, leases, hardware, stopping, bounds>>

\* emergency_completed, quit, and the end of the thread.
EmergencyFinished ==
    /\ gui = Idle
    /\ emergency.state = "reported"
    /\ emergency' = [emergency EXCEPT !.state = "quitting"]
    /\ UNCHANGED <<controller, run, worker, todo, leases, hardware, owed, bounds>>
EmergencyThreadFinished ==
    /\ emergency.state = "quitting"
    /\ emergency' = [emergency EXCEPT !.state = "none"]
    /\ UNCHANGED <<controller, run, worker, todo, leases, hardware, owed, bounds>>

-----------------------------------------------------------------------------
(* EmergencyStopWorker: every device through a session of its own.         *)

EmergencyOff(d) ==
    /\ emergency.state = "running"
    /\ d \in emergency.left
    /\ emergency' = [emergency EXCEPT !.left = @ \ {d}]
    /\ owed' = owed \ {d}
    /\ \/ on' = on \ {d} /\ UNCHANGED faults
       \/ Fault /\ UNCHANGED on
    /\ UNCHANGED <<controller, run, worker, todo, leases, connected, flight, runs, stops>>
EmergencyReports ==
    /\ emergency.state = "running"
    /\ emergency.left = {}
    /\ emergency' = [emergency EXCEPT !.state = "reported"]
    /\ UNCHANGED <<controller, run, worker, todo, leases, hardware, owed, bounds>>

-----------------------------------------------------------------------------
(* The threads of the instruments.                                         *)

\* A call that was dispatched ends; a late ON takes effect.
First(d) == IF LateOn(d) THEN "on" ELSE "off"
CallEnds(d) ==
    /\ InFlight(d)
    /\ \/ on' = (IF LateOn(d) THEN on \cup {d} ELSE on \ {d}) /\ UNCHANGED faults
       \/ Fault /\ UNCHANGED on
    /\ flight' = [flight EXCEPT ![d] = @ \ {First(d)}]
    /\ UNCHANGED <<controller, run, worker, todo, leases, connected, stopping, runs, stops>>

-----------------------------------------------------------------------------
(* RunWorker._run_impl: leases, sessions, archive, runner.                 *)

Signal(name) == inbox' = Append(inbox, name)
FailTo(pc) ==
    /\ worker' = pc
    /\ run' = [run EXCEPT !.outcome = "failed"]

\* Leases of the devices created first are taken before the guarded part.
Begin ==
    /\ worker = "begin"
    /\ IF run.early
       THEN FailTo("undo") /\ UNCHANGED todo
       ELSE worker' = "acquire" /\ todo' = Devices /\ UNCHANGED run
    /\ UNCHANGED <<controller, leases, hardware, stopping, bounds>>

InOrder(d) == d \in todo /\ (d \in Late => todo \subseteq Late)
Refuses(d) == d \in Borrowed /\ (window # "open" \/ InFlight(d) \/ d \in leases)

AdapterForRun(d) ==
    /\ worker = "acquire"
    /\ InOrder(d)
    /\ ~Refuses(d)
    /\ leases' = IF d \in Borrowed THEN leases \cup {d} ELSE leases
    /\ run' = [run EXCEPT !.made = @ \cup {d}]
    /\ todo' = todo \ {d}
    /\ UNCHANGED <<controller, worker, hardware, stopping, bounds>>

LeaseRefused(d) ==
    /\ worker = "acquire"
    /\ InOrder(d)
    /\ Refuses(d)
    /\ IF d \in Late
       THEN FailTo("teardown") /\ todo' = {}
       ELSE FailTo("undo") /\ todo' = run.made \cap leases
    /\ UNCHANGED <<controller, leases, hardware, stopping, bounds>>

Opens(S, outcome) ==
    /\ connected' = connected \cup S
    /\ run' = [run EXCEPT !.opened = connected \cup S, !.outcome = outcome]

\* Stop is tested before every connection and before the archive; any step may
\* fail.
Connect ==
    /\ worker = "acquire" /\ todo = {}
    /\ \/ /\ ~run.early
          /\ Opens(Devices, "none")
          /\ worker' = "connected"
          /\ UNCHANGED faults
       \/ /\ IF run.early THEN UNCHANGED faults ELSE Fault
          /\ \E S \in SUBSET Devices : Opens(S, "failed")
          /\ worker' = "teardown"
    /\ UNCHANGED <<controller, todo, leases, on, flight, stopping, runs, stops>>

TestBeforeStorage ==
    /\ worker = "connected"
    /\ IF run.early THEN FailTo("teardown") ELSE worker' = "storage" /\ UNCHANGED run
    /\ UNCHANGED <<controller, todo, leases, hardware, stopping, bounds>>

OpenArchive ==
    /\ worker = "storage"
    /\ \/ /\ run' = [run EXCEPT !.runner = TRUE]
          /\ worker' = "created"
          /\ UNCHANGED faults
       \/ Fault /\ FailTo("teardown")
    /\ UNCHANGED <<controller, todo, leases, hardware, stopping, runs, stops>>

\* Mutant: a Stop before the runner was created is not handed on to it.
RunUntested ==
    /\ worker = "created"
    /\ worker' = "running"
    /\ UNCHANGED <<controller, run, todo, leases, hardware, stopping, bounds>>

RunRunner ==
    /\ worker = "created"
    /\ run' = [run EXCEPT !.stop = @ \/ run.early]
    /\ worker' = "running"
    /\ UNCHANGED <<controller, todo, leases, hardware, stopping, bounds>>

-----------------------------------------------------------------------------
(* The runner: what it may do, and what it promises of its end.            *)

Energize(d) ==
    /\ worker = "running"
    /\ d \notin on
    /\ on' = on \cup {d}
    /\ UNCHANGED <<controller, run, worker, todo, leases, connected, flight, stopping, bounds>>

\* A call whose caller has given up is still on the instrument's thread.
CallTimesOut(d) ==
    /\ worker = "running"
    /\ Fault
    /\ flight' = [flight EXCEPT ![d] = @ \cup {"on"}]
    /\ UNCHANGED <<controller, run, worker, todo, leases, connected, on, stopping, runs, stops>>

WatchdogTimeout ==
    /\ worker = "running"
    /\ ~run.timeout
    /\ Fault
    /\ run' = [run EXCEPT !.timeout = TRUE]
    /\ Signal("watchdog_timeout")
    /\ UNCHANGED <<gui, latch, window, worker, todo, leases, hardware, stopping, runs, stops>>

\* Completed or aborted with every output of the plan confirmed off; holding
\* with the retained ones on; or at fault, with the outputs it names.
RunnerEnds ==
    /\ worker = "running"
    /\ worker' = "teardown"
    /\ \/ /\ \A d \in Devices : ~LateOn(d)
          /\ \/ /\ on' = on \ Devices
                /\ run' = [run EXCEPT !.outcome = "safe"]
             \/ /\ Retained # {}
                /\ on' = on \ (Devices \ Retained)
                /\ run' = [run EXCEPT !.outcome = "holding"]
          /\ UNCHANGED faults
       \/ /\ Fault
          /\ \E S \in SUBSET Devices :
                /\ on' = on \ (Devices \ S)
                /\ run' = [run EXCEPT !.outcome = "fault",
                                     !.named = S \cup {d \in Devices : LateOn(d)}]
       \/ /\ Fault
          /\ run' = [run EXCEPT !.outcome = "failed"]
          /\ UNCHANGED on
    /\ UNCHANGED <<controller, todo, leases, connected, flight, stopping, runs, stops>>

-----------------------------------------------------------------------------
(* RunWorker._run_impl: cleanup, release of the leases, report.            *)

Teardown ==
    /\ worker = "teardown"
    /\ run' = [run EXCEPT !.runner = FALSE,
                         !.kept = IF run.outcome = "holding" THEN Retained ELSE {}]
    /\ todo' = run.made
    /\ worker' = "cleaning"
    /\ UNCHANGED <<controller, leases, hardware, stopping, bounds>>

\* A session of the run's own is switched off and closed; one that a page owns
\* stays open.  Where the runner has ended properly its OFF is not repeated.
\* Every device is tried; a failure, or no time left for it, is named.
ShutsDown == run.outcome = "failed" \/ worker = "fallback"
CleanupDevice(d) ==
    /\ worker \in {"cleaning", "fallback"}
    /\ d \in todo
    /\ todo' = todo \ {d}
    /\ \/ /\ d \in connected /\ ShutsDown /\ ~LateOn(d)
          /\ on' = on \ {d}
          /\ UNCHANGED <<run, faults>>
       \/ /\ d \notin connected \/ ~ShutsDown
          /\ UNCHANGED <<run, on, faults>>
       \/ /\ d \in connected /\ ShutsDown
          /\ IF LateOn(d) THEN UNCHANGED faults ELSE Fault
          /\ run' = [run EXCEPT !.errors = TRUE, !.named = @ \cup {d}]
          /\ UNCHANGED on
    /\ connected' = connected \ ({d} \ Borrowed)
    /\ UNCHANGED <<controller, worker, leases, flight, stopping, runs, stops>>

\* The archive is closed as faulted, after the hardware and before the leases.
Cleaned ==
    /\ worker = "cleaning" /\ todo = {}
    /\ todo' = leases \cap run.made
    /\ worker' = "releasing"
    /\ UNCHANGED <<controller, run, leases, hardware, stopping, bounds>>

\* A busy reservation stays held.
ReleaseRunLease(d) ==
    /\ worker \in {"releasing", "undo"}
    /\ d \in todo
    /\ todo' = todo \ {d}
    /\ IF InFlight(d)
       THEN /\ run' = [run EXCEPT !.errors = TRUE,
                                 !.named = @ \cup {e \in {d} : LateOn(e)}]
            /\ UNCHANGED leases
       ELSE leases' = leases \ {d} /\ UNCHANGED run
    /\ UNCHANGED <<controller, worker, hardware, stopping, bounds>>

\* Mutant: outputs stay on although the reservations could not be given back.
ReleasedAnyway ==
    /\ worker = "releasing" /\ todo = {}
    /\ worker' = "report"
    /\ run' = [run EXCEPT !.kept = {}]
    /\ UNCHANGED <<controller, todo, leases, hardware, stopping, bounds>>

\* A run that cannot give back its reservations does not retain an output.
Released ==
    /\ worker = "releasing" /\ todo = {}
    /\ run' = [run EXCEPT !.kept = {}]
    /\ IF run.errors /\ run.kept # {}
       THEN worker' = "fallback" /\ todo' = run.made
       ELSE worker' = "report" /\ UNCHANGED todo
    /\ UNCHANGED <<controller, leases, hardware, stopping, bounds>>

Report ==
    /\ \/ worker \in {"report", "undo"}
       \/ worker = "fallback"
    /\ todo = {}
    /\ run' = [run EXCEPT !.status =
                  CASE worker = "undo" -> "refused"
                    [] worker # "undo" /\ run.errors -> "fault"
                    [] OTHER -> run.outcome]
    /\ Signal("finished")
    /\ worker' = "ended"
    /\ UNCHANGED <<gui, latch, window, todo, leases, hardware, stopping, bounds>>

ThreadEnds ==
    /\ worker = "ended"
    /\ run.quit
    /\ worker' = "gone"
    /\ UNCHANGED <<controller, run, todo, leases, hardware, stopping, bounds>>

-----------------------------------------------------------------------------
Operator ==
    \/ Start \/ RequestStop \/ RequestPause \/ EmergencyOffAll
    \/ ResetEmergencyLatch \/ CloseWindow
Slots ==
    \/ StopReads \/ StopRunner \/ Pause \/ RequestEmergencyStop
    \/ CloseQuits \/ CloseEnds \/ ShutControllers \/ WindowCloses \/ WorkerEvent \/ Finished \/ Dispose \/ EmergencyFinished
Setup ==
    \/ Begin \/ Connect \/ TestBeforeStorage \/ OpenArchive \/ RunRunner
    \/ \E d \in Devices : AdapterForRun(d) \/ LeaseRefused(d)
Runner ==
    \/ RunnerEnds \/ WatchdogTimeout
    \/ \E d \in Devices : Energize(d)
    \/ \E d \in Borrowed : CallTimesOut(d)
Cleanup ==
    \/ Teardown \/ Cleaned \/ Released \/ Report \/ ThreadEnds
    \/ \E d \in Devices : CleanupDevice(d) \/ ReleaseRunLease(d)
EmergencyStep ==
    \/ EmergencyReports \/ EmergencyThreadFinished
    \/ \E d \in Station : EmergencyOff(d)
Next ==
    \/ Operator \/ Slots \/ Setup \/ Runner \/ Cleanup \/ EmergencyStep
    \/ \E d \in Borrowed : CallEnds(d)

Spec == Init /\ [][Next]_vars

\* The threads and the GUI's event loop are scheduled, instruments answer or
\* time out, and the runner ends once it has seen the Stop.
Fairness ==
    /\ WF_vars(Slots) /\ WF_vars(Setup) /\ WF_vars(Cleanup) /\ WF_vars(EmergencyStep)
    /\ WF_vars(run.stop /\ RunnerEnds)
    /\ \A d \in Borrowed : WF_vars(CallEnds(d))

FairSpec == Spec /\ Fairness

-----------------------------------------------------------------------------
(* Properties                                                              *)

TypeOK ==
    /\ gui.slot \in {"idle", "stop", "stop runner", "pause", "emergency",
                     "close emergency", "close", "closing", "shutting", "dispose", "closed"}
    /\ window \in {"open", "closing", "shut"}
    /\ latch \in BOOLEAN
    /\ leases \subseteq Borrowed /\ on \subseteq Station /\ connected \subseteq Devices
    /\ flight \in [Borrowed -> SUBSET {"on", "off"}]
    /\ todo \subseteq Devices /\ run.made \subseteq Devices /\ run.named \subseteq Devices
    /\ emergency.left \subseteq Station /\ owed \subseteq Station
    /\ runs \in 0..MaxRuns /\ stops \in 0..MaxStops /\ faults \in 0..MaxFaults

\* A Stop that arrives while the worker is creating its runner is not lost:
\* whichever of the two threads comes second tells the runner.
StopReachesRunner ==
    run.early /\ worker = "running" /\ gui.slot \notin {"stop", "stop runner"} => run.stop

\* Every output that is on when a run has ended is retained by a run that
\* reports HOLDING, or named in the errors it reports: whatever failed, in the
\* run, in its cleanup or in giving the reservations back, and although a
\* late call may take effect afterwards.  A run that reports no fault has given
\* back every reservation it took.
OutputsAccountedFor ==
    /\ Over /\ run.status \notin {"none", "refused"} =>
          on \cap run.made \cap run.opened \subseteq
              IF run.status = "holding" THEN Retained ELSE run.named
    /\ Over /\ run.status \in {"safe", "holding", "failed"} => leases \cap run.made = {}

\* While an emergency stop is at work no run is left that has not been told to
\* stop; one cannot start under it, not even after the latch was reset.
EmergencyStopsTheRun ==
    emergency.state = "running" /\ ~Over => run.early

\* A run that was told to stop ends and its thread is disposed of; an emergency
\* stop ends, so that the next one, and the next run, is possible; unless the
\* application ends first.
StopEnds ==
    /\ run.early /\ ~Over ~> ~ThreadRunning \/ gui.slot = "closed"
    /\ emergency.state = "running" ~> emergency.state = "none" \/ gui.slot = "closed"

\* Not properties of this code; see README.md.  A pause finds the runner it has
\* tested for (a comment in request_pause).
PauseFindsRunner == gui.slot = "pause" => run.runner

\* The application does not close while a run or an emergency stop is at work (the
\* warning of closeEvent).
ClosedIsQuiet == gui.slot = "closed" => ~ThreadRunning /\ emergency.state # "running"

\* A reservation outlives its run only while a call may still be running.
ReservationEnds == Over /\ leases # {} => \E d \in leases : InFlight(d)

\* Each instrument gets an OFF from an emergency session after each E-STOP.
EmergencyReachesAll == emergency.state = "none" /\ gui = Idle => owed = {}
=============================================================================
