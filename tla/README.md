# MTJLAB in TLA+

A model of the part of MTJLAB that decides whether a sample is energized and
whether its data survive: who may talk to an instrument, how a recipe is compiled
and executed, how a run begins and ends around that execution, how the voltage
outputs of the MOKE box are ramped and brought back to zero, what the archive
and the audit log keep when something fails, and what an upload to the lab
notebook may claim. The modules are translated from `src/app/`; `PROJECT.json`
maps each definition to the lines it stands for.

## The system

| Part | State it keeps | Operations | What makes it correct |
|---|---|---|---|
| Instrument access (`ui/workers.py`) | lease owner, interruption Event, operations in flight, closing; a queue per instrument thread; per call started / cancelled / completed | acquire and release a lease, synchronous call with a deadline, GUI call, close, and the instrument thread's admission and execution | leases are exclusive; a cancelled call never runs; an outside OFF and the shutdown are final; every caller is answered |
| Recipe compiler (`engine/compiler.py`) | none | expand a tree of sweeps, repeats and device modules into a plan; refuse it | what it accepts is what the runner assumes; a point is measured at the value it reports; assertions hold; the run ends as declared |
| Recipe runner (`engine/runner.py`, `engine/policy.py`) | run state, action index, points, attempted Finally nodes, output flags and statuses, four Events of the operator, watchdog | run, Stop, Pause, Resume, Next; retry, Finally, safe shutdown, boundary | SAFE means off; HOLDING means what the plan retains; Finally once; nothing starts after Stop; boundaries are safe to resume from |
| Run lifecycle (`ui/run_worker.py`, the close of `ui/shell/main_window.py`) | run thread, emergency thread, emergency latch, leases of the run | start, Stop, Pause, E-STOP, close, dispose | no Stop is lost; none runs under an E-STOP; what is left on is retained or reported; a stopped run and an emergency stop end |
| MOKE outputs (`devices/moke_box`, `safety/moke_box.py`) | session, armed plan, channels with an unconfirmed write, the box's DACs; the page's job, its cancel Event and its live targets | configure, arm, ramp, stop, emergency off, connect, disconnect; voltage, zero and calibration jobs | a confirmed zero is final; a Stop returns to zero; a success holds its target |
| Archive (`storage/hdf5_writer.py`, `storage/event_log.py`) | points, spectra, references, public rows, events with a committed count; what of it has reached the disk | append, log, close, resume and truncate | recovery refuses a file only for a reason the writer accounts for; nothing confirmed is lost |
| Recovery (`engine/recovery.py`) | none | inspect an archive, choose a boundary | no point lost or repeated |
| Audit (`audit/logger.py`) | number of records, bounded queue, latched failure, writer thread, stream and file | record, record durably, flush, close; the writer's loop | an acknowledged record survives a crash; the file has no gap; an accepted record is written or the failure shows |
| eLab (`integrations/elab`, `ui/elab/page.py`) | the upload ledger, the upload thread; the inventory's rows | upload a result, create, tag, attach, save, tell the inventory | the ledger is never ahead of the server; a retry duplicates nothing; a report is true |
| Keithley, Rigol, Anritsu, Lake Shore adapters | session, output state | configure, switch, measure | state reported is state read back |
| Characterization (`devices/keithley_2600/characterization`) | lease, series of fields | run, stop | as for a recipe |
| Settings, recipe files, inventory, run bundle | files, SQLite store | save, load, publish | revisions are not lost |
| Safety limits, spectrum, GUI pages | none that outlives a call | | numerical, or presentation |

Interaction: the GUI thread owns the controllers. A run has a thread of its own,
and reaches each instrument only through a `RunDeviceAdapter`, which queues a
call to the thread that owns the adapter and waits. The runner's watchdog is a
third thread; it sets the same Event as the operator's Stop. The archive is
written by the run's thread, the audit log by a thread of its own in which every
other one may record. E-STOP bypasses all of them with sessions of its own. A
completed archive is read again by recovery, by the inventory and by the upload.

What is hard: the Events of the runner and of a field job are tested and set
without a common lock; a caller that gives up races the thread that starts its
call; a call that timed out may still be served, a SET that was given up may still
be carried out; the archive may refuse any event and the process may die between
any two writes; an answer of the notebook may be lost after it had its effect;
cleanup must go on when one of its steps fails. `PROJECT.json` lists each such
place with its line under "hazards".

## Modules

| Module | Content |
|---|---|
| `InstrumentAccess` | one instrument: callers, GUI, instrument thread |
| `RecipeCompiler` | recipes built step by step and what compiling makes of them |
| `RecipeRunner` | one run: run thread, watchdog, operator, physical outputs |
| `RunLifecycle` | the GUI's controller, the worker around the runner, the emergency thread |
| `MokeOutput` | the box, the adapter's calls, the worker and the page of the field workflow |
| `RunArchive` | one archive over several attempts of a run, its cache, crashes and recovery |
| `MeasuredRun` | what the archive promises, implemented by `RunArchive` |
| `AuditLog` | the audit log: recording threads, queue, writer thread, file, crash |
| `AuditTrail` | what the audit log promises, implemented by `AuditLog` |
| `ElabUpload` | the upload thread, the ledger, the server, the inventory's rows |
| `MC...` | the instances for TLC: plans, channels, profiles, ranges |
| `InstrumentAccess_proofs`, `RecipeCompiler_proofs`, `RecipeRunner_proofs`, `RunLifecycle_proofs`, `MokeOutput_proofs`, `RunArchive_proofs`, `AuditLog_proofs`, `ElabUpload_proofs` | theorems of each module and their proofs |

The modules meet at contracts rather than in one state space. What `RecipeRunner`
assumes of a plan (`CompiledAssumption`) is proved of the plans `RecipeCompiler`
makes (`RunnerAssumption`). `RecipeRunner` lets a timed-out call take effect late, as
`InstrumentAccess` allows. `RunLifecycle` replaces the runner by what the
properties of `RecipeRunner` say of its end. `RunArchive` starts a resumed run at
the boundary whose place `BoundaryMatchesPlan` fixes.

### InstrumentAccess

`owner`, `interrupted`, `inFlight` and `closing` are the fields of `_RunAccess`;
leases are numbered in the order they are granted (the code's `object()`
identities). `calls` holds the `_RunCall` objects, `queue` the posted Qt events.
A GUI operation and a call share the queue, as they share the thread's event
loop. The instrument thread steps through `Take`, `TryStart`, `Enter`, `Execute`,
`Exit` and `Complete`, the points where another thread can come in between. An
operation is one of four kinds, the ones `_RunAccess.enter` and
`DeviceController.call` tell apart. A synchronous call is two steps, the look at
`closing` (`AssertOpen`) and the queueing (`CallForRun`), because the controller may
close in between. `Execute` may fail with or without effect.
`ThreadEnds` is enabled as soon as the controller closes, because `close` quits
the thread after at most three seconds whether the shutdown slot ran or not.

A deadline is a Boolean that time sets (`Expire`). The waiter's timeout is later
than the call's deadline, because the deadline is computed first.

### RecipeCompiler

A recipe grows by one block at a time, and `plan` is what the compiler makes of it,
so the invariants speak of every recipe up to the bound. `Blocks[d]` are the blocks
at most `d` deep, and `Visit[d]`, `Within[d]` and `Points[d]` are the recursive
functions of the code (`_visit`, `validate_active`, `cost`) on them, one level
calling the level below. A compilation is a record: the actions so far, the context
each is stamped with, what `_sync_planned_state` knows of the channels, the axes
it is inside of. `Visit` gives what a block adds in a context (`Bare`), and
`After` puts it behind what is there, because a visit never looks at the actions
before it other than through `planned`. `Enter` and `Leave` bracket a pass of a loop
or module: its body has a copy of the context. `Points` is the budget, computed
before anything is expanded; `Flow` follows the outputs through the plan and refuses
what cannot be valid; final states become success-only actions (`Ending`) and
override what a failed run would do (`Overridden`). `Effect` and `Execution` execute
an accepted plan without failures, to say what an assertion finds and at which
level a point is measured.

The source channels are Keithley-like, in one mode. The exception `RampedDown` in
`AssertionsHold` is a fact of the code: a ramp to zero in the main part changes
neither the planned state nor the flow check, so a recipe that asserts an output
after ramping it down is accepted and fails at the assertion.

### RecipeRunner

`pc` follows `run()`. A step of the model ends where another thread can make a
difference: at each test or change of an Event, at each event written to the
archive, and around each adapter call. `_wait_if_paused` is four steps, one per
access to an Event or to `_state`; `resume()` is two.

An action of a plan is abstracted to its kind, the output it touches, and the
flags `is_finally`, `completion_only`, `fault_only` and `retained_output`:

| Kind | Action kinds of the code |
|---|---|
| configure | `configure_keithley`, `configure_rigol`, `configure_rigol_output`, `configure_anritsu_sg` |
| on, off | `set_*_output`, `ramp_keithley_to_zero` |
| update | level, frequency and power updates |
| assert | `assert_output_on` |
| measure | `measure_keithley`; `Account` lets its reading reach compliance |
| acquire | `acquire_spectrum`, `checkpoint` and the other actions that store a point; `Account` lets the reading an acquisition takes of a source that is on reach compliance, too |
| wait | `wait` |

`output` is physical. `status` and `active` are what the runner believes. A failed
adapter call has taken effect or not, and the adapter's `emergency_off` may have
switched off any output of the instrument. A failed ON may also leave the call
`pending`: the instrument thread is still serving it and `LateEffect` completes
it at any time until the next call to that instrument succeeds. That is what
`InstrumentAccess` allows: one thread serves the calls in order.

`DeadlinePasses` may happen in every watched operation; the watchdog's copy of the
action (`snapshot`) goes stale when the action is over and may still fire. E-STOP
is an environment that switches devices off at any time after it was pressed; the
same actions describe the E-STOP the controller starts after a watchdog timeout.

Each Finally action is taken to have a node of its own. (The code records node
identifiers; a Finally loop would share one among its repetitions.)

### RunLifecycle

The GUI handles one slot at a time (`gui`), fed by signals of the worker (`inbox`); a
slot is more than one step only where the worker's thread may run in between,
as in `request_stop`, which sets the early flag and then reads `_runner`. `worker`
follows `RunWorker.run`: creating devices, leases of borrowed sessions, the runner,
and the cleanup loops, which go on after each failure. `run.errors` and `run.named`
are the report: which outputs the messages leave in doubt. `flight` holds calls the
instrument threads are still serving; a late ON takes effect after the run is over.
The emergency thread opens its own sessions for its scope, device by device; `owed`
is a history variable of the instruments that have had no OFF since the E-STOP.

`window` is where `closeEvent` stands. `RunController.close` (`CloseWindow`, `CloseQuits`,
`CloseEnds`) refuses while a thread runs; then another page may refuse, or the
controllers are shut (`ShutControllers`), which lets no run borrow their instruments
any more and queues an OFF for each. That wait has an event loop of its own, so
every other action of the GUI is possible in it. It ends with the window closed or, if an
instrument thread does not end, open without its controllers (`WindowCloses`).

The retained set stands for the plan; the runner ends SAFE, HOLDING, or with an
error that leaves any output on.

### MokeOutput

The box has the DACs (`dac`) and SETs on their way (`wire`). It does not acknowledge a
SET: a readback shows what the DACs are now, and a SET of a closed session is still
carried out. `op` is the adapter call in progress, with `pc` following `_ramp` and
`_write_vout` from readback to readback; what a ramp does when it is interrupted,
late or misled (`GiveUp`) and how a shutdown fails (`FaultAndClose`) follow the
except clauses of `ramp_vout` and `stop_vout`. `changed`, `safe` and `state` are
`_changed_channels`, `_safe_target_confirmed` and the `DeviceState`. `job` is the page's job
with its worker, which calls `emergency_off` when a voltage or zero job has failed
and `stop_vout` at the end of every calibration. `mailbox` is `MokeLiveTargets`.

The voltage is a number of DAC codes. Quantization, tolerances, pace and the sum
of deadlines are left out: a deadline may pass anywhere (`DeadlinePasses`), within
`MaxFaults`. The five seconds in which live targets are taken are left to chance.
One assumption is made of the box: what is on the wire is carried out before a
settling time ends (`Settled`; two seconds by default). For a station that sets
its settling time to zero the model says nothing about `ResultTrue`.

### RunArchive and MeasuredRun

`mem` is the file as the open handle sees it, `disk` what a crash leaves. A flush makes
them equal; in between `Evict` copies any one part, so a crash finds every mixture.
A checkpoint goes through its steps (pending transaction, spectrum, point,
completeness, public row, flush), each of which may raise; the undo of a failed call
is one step. An event is written to two columns, flushed, counted by the marker and
flushed again. `Resume` is guarded by what `RunRecoveryManager.inspect` tests and
truncates to the latest boundary, references included. The runner's part is what
drives the writer: reference, point, boundary, terminal status.

`MeasuredRun` knows a sequence of measurements and how many of them are confirmed. A
measurement may be added, a boundary may confirm more of them, and a failure may
lose or replace only what is not confirmed. `RunArchive` implements it with the
points on the disk as the record; confirmed are those of the boundary the runner has
recorded, or, once the file is closed or its process has died, of the latest one
recovery can read.

### AuditLog

A record is its sequence number, counted from 1 so that `sequence` is also the
number of accepted records. `queue`, `failed`, `closed` and `stopping` are
`_queue`, `_failure`, `_closed` and `_stop`. `record`, `flush` and the first part
of `close` hold the logger's lock, so each is one step; its waiting part
(`WaitReturns`, `WaitTimesOut`, `JoinReturns`, `JoinTimesOut`) is another one.
The ack Event of a call is a Boolean of its caller, since a thread waits for one
call at a time. A caller whose `ack.wait` timed out latches the failure, although
the writer may be about to write its record.

The writer goes through `Take`, `Check`, `Write`, `Sync`, `Ack` and `End`.
`Write` stands for `stream.write` and `stream.flush`; when it fails the line is
either gone or left in the stream's buffer, and `stream.close` in `End` tries to
write what was left. A line that was cut short counts as not written; the reader
would report it as invalid JSON. `Crash` keeps what was fsynced and any prefix of
the rest; it is also an exit without `close`, because the writer is a daemon.

`acknowledged` and `flushed` are history variables: what callers were told. A
successful `close` vouches for the records accepted before it returned.
`AuditTrail` has no queue, writer or file: it counts accepted, durable and
acknowledged records, and `AuditLog` implements it with `accepted <- sequence`
and `healthy <- ~failed`. It allows an acknowledgement only in health and only of
records that are durable, which no single step of the code tests: it follows from
the order of check, write and fsync in the writer and of ack and health check
in the caller.

### ElabUpload

`upload` follows `upload_result`: skip or continue by the record found, create, save,
tag, attach file by file with a save after each answer. `ledger` is
`elab_uploads.json`, keyed by result, hash and template; the hash is the number of
times the file has been written. `experiments` is the server, with each copy of a file
it holds. A request may fail before or after its effect. When a save fails, the
except clause saves once more: that succeeds, with the answer that was to be saved
(`SaveFails`), or fails like a crash (`Interrupted`). The hash, the choice of the
files, the look into the ledger and the first save are one step: nothing but the
upload thread writes the ledger, and a file that changes in between has a hash that
is stale already. A resumed run rewrites the file while it is uploaded. The inventory has one row per run file and is told of completed uploads.

## What the runs check

| Run | Instance | Distinct states | Question |
|---|---|---|---|
| `access` | 2 callers, 1 lease, 2 requests | 2.48 million | exclusive use, cancellation, finality of OFF and shutdown; every caller is answered |
| `compile` | 2 channels, axes of two different and two equal values, 3 blocks on an empty or prepared recipe | 821 thousand (symmetry of the channels) | what is accepted can be executed, is measured where it says, ends as declared and fits its budget |
| `run_plans` | 2 instruments, 3 outputs, plans Measured and Mixed, 1 retry, 1 pause | 2.29 million | how a run may end, what is done after Stop, Finally once, shutdown of several devices |
| `run_fair` | 1 output, plan Pulsed, 1 retry, 2 pauses | 753 thousand | boundaries; Stop and resume are never lost |
| `lifecycle` | 1 borrowed, 1 own, 1 unused instrument, 2 runs, 1 E-STOP or close, 2 faults | 918 thousand | no Stop lost, nothing left on unreported, E-STOP holds, threads end |
| `moke` | a coil output and a test output, 2 jobs of all kinds, 1 live target, 1 fault | 1.20 million | a confirmed zero is final, success holds its target, Stop returns to zero |
| `archive` | 2 references, 3 points, 3 attempts, 2 crashes, 1 failing call | 853 thousand | why recovery may refuse a file after a crash, complete when completed, nothing confirmed lost |
| `log` | 2 threads, queue of 2, 3 records and the one of `close` | 163 thousand | readable after any failure, acknowledged records survive, accepted ones are written or the failure shows, `AuditTrail` is implemented |
| `elab` | 1 result, 2 templates, 2 profiles, 3 uploads, 2 faults, 1 resumption | 1.32 million | ledger behind the server, reports true, nothing twice, uploads end |

Three more runs end in a counterexample; see the next section.

Bounds. `access`: each hazard relates one request to one event of the gate or to one
other request; that leases and calls beyond these bounds change nothing is what
the theorems say. `compile`: three blocks on a prepared recipe reach a loop in a
module in a loop; the axis of equal values meets the update that is left out, and
four points are exceeded. Runner: the plans contain every kind of action, every flag the compiler
sets, a point stored with the output off, on, and off again, and a retained output
next to one that is switched off; one retry exercises the retry loop, two pauses let
a `resume()` of the first meet the second. `lifecycle`: the second run meets what the
first left behind, the two faults a failure in the cleanup after a failure in the run.
`moke`: the second job meets the first one's SETs after a reconnection; the test
output starts outside its envelope, too, and the coil in, on or outside its own; a ramp
takes up to four steps. `archive`: the second crash hits the recovery from the first;
the plan holds a reference no stored point has used. `log` fills its
queue while the writer holds a third item, and a failure, a record behind it and a
close behind both fit into the four records. `elab`: a retry after a retry with
another template or profile. Counters (`leases`, `pauses`, requests, records, `runs`,
`jobs`, `lives`, `uploads`, `crashes`, `faults`, blocks) are bounded in the guards by
the constants marked "bound"; nothing else is cut off.

Deadlock checking is off: a run, an upload and a job end, a recipe has no more than
its blocks, and an instrument thread that has been closed serves nothing more.

Fairness. `InstrumentAccess`: the operating system schedules the threads and
clocks advance (`WF` on the instrument thread's steps, on each waiting caller and
on each deadline). Nothing makes a caller call, the GUI click or the thread end.
`RecipeRunner`: the run thread is scheduled and adapter calls return, because each
has a deadline; a `resume()` that has begun is completed. Nobody is made to press
Stop, Resume or Next, and the watchdog need not fire: `RunEnds` excludes manual
stepping and assumes the run is not left paused. `RunLifecycle`: threads and slots
are served, calls on an instrument thread end, and a runner that was told to stop
ends, which is `StopEnds` of `RecipeRunner`; all this until the application ends,
which is why its `StopEnds` has a closed window for an alternative. `MokeOutput`: the box carries out what it
has, the adapter's thread, the worker and the page's slot are scheduled; faults and
the operator are not fair. `AuditLog`: the writer thread is scheduled and its disk
calls return or fail. Callers are not fair. `ElabUpload`: a request is answered or
times out, and the GUI serves its slots.

## Disagreements found

Three runs check one property each that a comment, message or test of the repository states,
and end in a counterexample:

| Run | Trace |
|---|---|
| `archive_reference` | A reference is acquired and the boundary after it confirmed; crash; resuming truncates to the boundary and deletes the reference, because no retained spectrum used it; the boundary still recovers it. The next point corrected with it is refused. |
| `elab_inventory` | One result is uploaded; the inventory is updated by file name (`store.py:1550`), and every run's file is called `data.h5`: the rows of the other result name the experiment too. |
| `moke_emergency` | E-STOP; the coil reads outside its envelope, its shutdown raises and closes the session; the shutdown of the test output fails for lack of a session, without a SET. |

Others were found on the way and are stated in the modules as formulas that are
false of the code, or were read from it; no run of the project checks them:

- `PausedRunsNothing` (`RecipeRunner`): pause; the runner tests the pause Event;
  `resume()` clears it and sets the other; the runner sets PAUSED and clears the resume
  Event; the loop ends at its head; the next action is executed while the state is PAUSED
  (`runner.py:1984`; PROCEDURA_OPERATORA.md:44). The run is not stuck (`RunEnds`), it
  only reports the wrong state.
- `StopNeverHolds`, `StatusTruthful`, `FinallyAttempted`, `RetryOnlyConfirmedOff`
  (`RecipeRunner`): a Stop after the last success-only assertion has begun ends HOLDING;
  the abort path leaves a stale "off" (504); a Finally action whose `action_started`
  event is refused is skipped by the cleanup (306; the shutdown follows); the first
  configuration is sent again on the strength of the flag `run()` initialised (614).
- `AuditLog`: `flush()` on a logger that is just closing returns although the record of
  `close` is not yet written (`logger.py:221`).
- `StopEndsAtZero` (`MokeOutput`): Stop or "Turn off" pressed while a voltage job is
  busy only sets the cancel Event. When the ramp has made its last test, during the
  readback that ends the settling or later, the job succeeds, the output stays at
  its target, and the page has said "waiting for DAC-zero confirmation"; nothing
  zeroes it afterwards (the plan of 2026-10-02, lines 161 to 163 and 176).
- `MokeOutput`: the settling's readback that times out is taken for an expired ramp
  (`adapter.py:576`, 748), and its shutdown goes on with a stream in which a reply is
  still owed, against the comment at 248. `ResultTrue` needs its condition
  `replies = <<>>` for that reason. A `disconnect` after a failed emergency stop and a
  failed connection report DISCONNECTED although an output may be energized.
  A Stop that meets an unconfirmed SET can take a zero read before that SET for the
  end of the first step; the output passes through the old SET and then settles at zero.
- `ClosedIsQuiet` (`RunLifecycle`): without any run, the window is asked to close,
  `RunController.close` has nothing to wait for, and `closeEvent` waits for the instrument
  threads in an event loop (`workers.py:704`); E-STOP is pressed in it and starts an
  emergency thread; `closeEvent` does not look again and accepts the event
  (`main_window.py:4109`), although its warning says "The application cannot close while
  a measurement or emergency-OFF worker is still active" (4046).
- `EmergencyReachesAll`, `ReservationEnds`, `PauseFindsRunner` (`RunLifecycle`): an E-STOP
  is dropped while the emergency thread of the watchdog is at work (`run_worker.py:1093`),
  although its scope may be smaller; a lease whose release was refused outlives the
  call that blocked it (790); a pause may read `_runner` twice and find it gone (837).
  `reset_emergency_inhibit` of the main window (2751) has no caller.
- `AttachedAsHashed` (`ElabUpload`): the file attached may not be the one whose hash is
  quoted. Tags are lost when the application dies between the save of the experiment
  and the tags; an automatic upload that meets a running one is dropped; a CSV that is
  rebuilt later is not uploaded again.
- `SetpointsInForce` (`RecipeCompiler`): after a loop a checkpoint is stamped with
  setpoints of its last pass as the compiler left them, mostly corrected by the runner's
  readback. A configuration the author placed after the checkpoint of a sweep's body
  passes "requires explicit device configuration before its points". A sweep in a module that sweeps loses the module's
  axis from its loop path.
- `RunArchive`: a spectrum whose point was refused stays in the file
  (`hdf5_writer.py:352`; storage-contract.md:26).

## What is proved

All theorems hold for every value of the constants that satisfies the assumptions,
which TLC evaluates in each run:

| Module | Assumptions | Why the code justifies them |
|---|---|---|
| `InstrumentAccess`, `RunLifecycle`, `ElabUpload`, `AuditLog` | `BoundsAssumption`, `SizeAssumption` | the bounds of the model are numbers |
| `RecipeCompiler` | `RecipeAssumption`, `StartsAssumption` | levels, a repeat count and the limits are numbers; an axis has a value (`sweep_points.py:190`); a recipe starts with plain operations |
| `RecipeRunner` | `PlanAssumption`, `CompiledAssumption` | what the compiler guarantees of a plan; `PlansAreRunnable` is that theorem about the compiler |
| `RunLifecycle` | `ScopeAssumption` | the instruments of a run, watched, borrowed or with late calls, are among the station's; only a borrowed session is retained |
| `ElabUpload` | `ProfilesAssumption` | a profile asks for at least one file (`config.py:340`) |
| `MokeOutput` | `ApprovedAssumption`, `EnvelopeAssumption`, `KindsAssumption` | there is an approved channel; an approved envelope contains zero; steps are positive |
| `RunArchive` | `PlanAssumption`, `ValuesAssumption` | a blank row is no event and a missing reference no reference: model values |

`InstrumentAccess_proofs`. The inductive invariant is `Consistent /\ GateInv`.
`Consistent` ties the parts of the protocol together: requests that are queued,
being served or waited for are disjoint and used (`UsedInv`, `QueueInv`,
`CallInv`); without it nothing says that the request at hand is not one that was
reported as cancelled. `GateInv` relates the step of the instrument thread to the
gate: an admitted operation is counted in flight, which is why no lease can change
under it; an admitted unsafe operation belongs to the owner; after an
outside OFF the lease is interrupted, after the shutdown the gate is closing.
Theorems: `TypeCorrect`, `ExclusiveUseHolds`, `OutsideOffIsFinal`,
`ShutdownIsFinal`, `CancelledIsFinal`.

`RecipeCompiler_proofs`. The state is simple and the operators are deep: the
invariant is `TypeOK`, in which `plan` is `Compile(main, finals)`, and the rest is a
proof about what `Compile` returns, by induction over the depth of a recipe, the
children of a block, the passes of a loop and the actions of a plan. Induction is a
theorem about sets here (`Induction`, from the well-foundedness of the
numbers), and each recursive function gets its equation from it (`VisitDef`,
`PointsDef`, `ExecutionDef`, ...). What the induction over blocks carries:

- `Sound`: the actions behind any prefix are well formed and belong to the main
  part, `planned` is the level last set on each channel (`Tracks`), and every
  assertion of a level expects the one last set (`Backed`). It makes each `Visit[d]`
  a function from sound compilations to sound ones (`SoundVisit`).
- `Budgeted`: a block in any context that accepts it adds the points
  `Points[d]` has counted for it (`BudgetVisit`), whence `BudgetIsExact`.
- `Honest`: on a channel a block does not set, other than by reference, a setpoint
  that was in force stays in force, and if the axes around the block are reported
  truly, each point it adds reports them truly (`TruthfulVisit`). The hard case is the
  value a module does not send because it was sent before (`Ready`, `HonestPass`): the
  body must have left the channel where the pass before put it. Whence `AxesAreTrue`.
- `Ends` and `Declared`: Finally only adds actions marked as its own, and a final
  state stays declared whatever follows it, because another one for the channel and
  any shutdown after it are refused (`FinallyAll`); marking the overridden ones
  changes nothing else (`MarkedEnds`). `RunnerAssumption` follows (`PlansAreRunnable`).

For `AcceptedAssertionsHold`, `OnOrRamped` relates what the flow check takes to be on to
what is on, and `LevelOrRamped` the level last set to the one in force; both have the
ramp as their exception, which is where `RampedDown` comes from. `FinalStatesReached`
needs that nothing touches the channel behind its final state (`Untouched`).

`RecipeRunner_proofs`. Six invariants, each as small as its theorem allows:

- `StopInv` (`OneActionAfterStop`): the runner is past the tests of the Stop only
  while it has dispatched nothing after it.
- `OffInv` (`SafeIsOff`): while the shutdown is confirmed, each device it is done
  with has nothing on or pending but what it keeps. It needs no fact about how
  the shutdown was reached, which is why failures, timeouts and retries before it
  do not matter.
- `FinInv` (`FinallyOnce`): the attempted Finally actions are those before the
  action at hand, or the cleanup's own; a begun action is attempted.
- `HoldInv`, with `OffInv` and `FinInv` (`HoldingAsPlanned`): the count of
  completed actions follows the index, and confirmed devices have their retained
  outputs on unless E-STOP has been pressed.
- `PointsInv`, with `FinInv` (`BoundaryCountsItsPoints`): on the main path the points
  stored are those of the actions done so far. A fault-only action that is skipped
  stores none, which is where `CompiledAssumption` comes in. Each action adds its
  own point (`PointsBeforeIs`), so that no induction over the plan is needed.
- `DarkInv`, with the types (`BoundaryInTheDark`): on the main path a status "off" is
  the truth, of calls still being served, too. It is false after an exception
  (`StatusTruthful`, below the properties of the module), and it depends on ON not being
  retried: a failed action that is tried again cannot have energized anything.

`TypeCorrect` adds that a retry only waits while attempts are left.

`RunLifecycle_proofs`. `ControlInv` is what the threads know of each other. For
`StopIsNotLost`, a runner that has been created can be seen by the slot that has
set the early flag, which is then still on its way to it; for `EmergencyIsTold`, the slot
on its way to an emergency stop has told the run already, and `start` refuses while the
thread exists. `OutputInv` is the argument for `NoOutputForgotten`: before the
runner has ended nothing is promised; from then on each output that is on, or that a
late call may switch on, is in the runner's promise, or in a device the cleanup has
still to sweep, or named in an error (`PromiseKept`, `Swept`, `Retention`);
sessions stay open and leases are counted until the cleanup is over (`SessionsOpen`,
`LeasesReturned`). The property alone speaks of the end of a run, and no step there could
be shown to preserve it.

`MokeOutput_proofs`. The key is `Rest`: the voltage at which a channel comes to
rest, the last SET on the wire or else what its DAC shows. Carrying a SET out leaves it
alone, and so does everything the adapter reads. `ControlInv` says whose call is in progress, `ShutdownInv`
that a shutdown goes for zero and that what is to be confirmed is what the channel was
told last. `ZeroInv` (`VouchedZeroSettles`): a written channel not in
`_changed_channels` rests at zero; a channel that was never written has shown the same
value in each readback, which an emergency stop needs because it takes a zero reading of
such a channel for its answer; an emergency without failure has every approved
channel done or still to do. `ResultInv` (`ReportedVoltageHeld`): the targets of job, plan and
ramp agree, and a target that was reached is held until the next call as long as the
replies are in step.

`RunArchive_proofs`. The cache makes the disk an arbitrary mixture of two states of the
file, so the invariant speaks of both. `PointsInv`: what the writer has counted is in
every representation of both files, in the plan's order, and the disk is
behind by at most one point. `LogInv`: there is a number of events on which the two
columns agree in both files, the markers are at it or one ahead, and the latest boundary
among these events is covered by the points; a marker is ahead only of an event both
columns have on the disk, unless its rollback failed (`MarkLeft`). `FirstInv` follows
the references of a run that was never resumed: those its points and boundaries name
are in both files (`Firm`) and stay there, so that only a resume can cut one
(`ReferenceCut`). `PhaseInv` is what holds at each step of `append`, `append_event`, `close`
and `resume`. `EvictMixes` reduces a cache step to a choice between the two files
per part, `BoundaryIs` and `BoundaryOfDisk` say what recovery reads. Theorems:
`EveryRefusalExplained`, `RepresentationsAgree`, `CompletedRunIsWhole`,
`ReferencesKeepTheirIdentity`, and the refinement `ConfirmedPointsSurvive`: a step that
moves the disk's points adds one, confirms some, or drops what is beyond the confirmed
ones (`RecordMoves`, `ConfirmedMoves`), and all others stutter.

`ElabUpload_proofs`. `LedgerNeverAhead` is inductive only together with `InStep`, which
relates the upload at hand to the ledger and the server: the thread's record is the
saved one, and an answer of the server not yet saved (`made`) is true of the server. The inventory follows with it, because a
row is written from a record that is saved (`RowsKnown`), and so does `ReportTrue`: an
upload that is told has every file asked for in its saved record. For `RetriesDuplicateNothing`, `TwiceInv` counts: each
step adds at most one surplus experiment or copy, and one that does spends a fault;
`Surplus` is finite because the server's experiments are a sequence.

`AuditLog_proofs`. One inductive invariant, `IInv`. `FileInv` says that
the file counts 1, 2, ..., that the line about to be written is the next one, and
that at most one line is left over, only after a failure and continuing the
file. `QueueInv` says that in health the numbers go on from the file through the
item at hand and the queue up to `sequence`. `WaitInv` is what makes an
acknowledgement true: each item that somebody waits for covers the waiter's
`goal` and will be fsynced, no thread is the waiter of two items, and a set ack of
a healthy log means that the records up to the `goal` are fsynced. `CloseInv` says
that the last item of a closed log is fsynced, so that everything is durable when
its writer has ended; `OpenInv` that the constructor's caller is alone. Theorems: `LogTyped`, `AlwaysReadable`,
`AcknowledgedSurvives`, and the refinement `ImplementsTrail`, in which a caller's
answer maps to `Acknowledge`, a successful `Sync` to `Persist`, a first
failure to `Fail` and most steps of the queue to stuttering.

Type correctness is proved for all eight modules (`TypeCorrect`, `LogTyped`); the runs
check none of the type invariants, which follow from the theorems.

Only model-checked:

- the liveness properties `CallersReturn`, `StopEnds` (two modules), `RunEnds`,
  `StopReturnsToZero`, `AcceptedIsWritten`, `UploadEnds`: fairness and ENABLED are beyond
  the prover;
- the properties that are false of the code.

## Not modelled

- Runner: recovery prelude and `start_action_index` (an attempt that resumes is
  modelled in `RunArchive` only), the recipe's use of the MOKE field with its UNKNOWN
  end state, averaging and estimation, semantic axis metadata, the property of a dry
  run (its `Requested` is modelled).
- Compiler: modules of the Rigol, the Anritsu and the MOKE box, conditions, disabled
  blocks, limits, references and trajectories, the number of actions, the texts.
- Lifecycle: read-only preservation of the MOKE channel; sessions that drop, so that
  neither the cleanup that finds a device disconnected and returns silently
  (`run_worker.py:738`) nor the one that finds a retained device gone is taken; coalescing of
  telemetry. Operations of the pages appear only as the OFFs of an E-STOP or a close, and the tests
  of the other pages in `closeEvent` only as a close that is refused.
- MOKE: Hall and Kerr acquisition, the legacy and simulated transports and
  `UnavailableMokeBoxAdapter`, operation deadlines as such, changes of a DAC by others, the
  files of a calibration, and the emergency call an E-STOP queues during a job,
  which sets the same cancel Event and then waits for the thread (`InstrumentAccess`).
- Archive: files HDF5 cannot open after a crash, archives of the format without a
  committed count, the CSV summary and the `/reference` alias, the comparison of plan
  and settings before a resumption.
- eLab: contents, credentials, a forced upload, two applications on one ledger.
- Instrument access: `replace_adapter`, `test_communication`, and the lease-less operation
  guard but for its refusal of an emergency OFF.
- Audit: the fields of an event, the redaction of its context, the reader's tests of
  schema and session.
- The components listed as `not_modelled` in `PROJECT.json`, each with its reason. The
  pages, which are most of the lines, are presentation: what they decide about
  instruments they do through the calls modelled here.

## Plan

1. The modules of the Rigol, the Anritsu and the MOKE box in `RecipeCompiler`; the
   inductions over blocks gain a case each.
2. The resumed run in `RecipeRunner`: prelude, reference and start index.
3. The output state machine of the Keithley adapter, and characterization on the
   leases of `InstrumentAccess`.
4. `SettingsRepository` and the run bundle: revision check and atomic replacement.
5. Pure algorithms: sweep points against a reference definition.
