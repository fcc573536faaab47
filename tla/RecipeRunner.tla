---------------------------- MODULE RecipeRunner ----------------------------
(***************************************************************************)
(* The execution of one compiled plan (app/engine/runner.py): the run      *)
(* worker's thread in RecipeRunner.run, the watchdog thread beside it, the *)
(* operator's Stop, Pause, Resume, Next and E-STOP, and the physical       *)
(* outputs of the instruments.                                             *)
(*                                                                         *)
(* A plan is a sequence of actions.  What an action does to an instrument  *)
(* is abstracted to its effect on one output; the order in which the       *)
(* runner emits events, checks Stop, retries, stores points, records safe  *)
(* resume boundaries, runs the Finally actions, shuts the devices down and *)
(* closes the archive is the code's.                                       *)
(*                                                                         *)
(* A failed adapter call may have had its effect or not.  A call that      *)
(* timed out after its dispatch may even have its effect later, but before *)
(* the next call to the same instrument succeeds, because one thread       *)
(* serves them in order (InstrumentAccess).                                *)
(***************************************************************************)
EXTENDS Naturals, Sequences, FiniteSets

CONSTANTS
    Outputs,     \* output endpoints, such as keithley.A and rigol.1
    Devices,     \* the instruments
    DeviceOf,    \* the instrument of each endpoint
    NoOutput,    \* the "output" of an action that touches none
    Plans,       \* the compiled plans to run
    MaxRetries,  \* ExecutionPolicy.retry_count
    MaxPauses    \* bound: how often the operator asks for a pause

Kinds == {"configure", "on", "off", "update", "assert", "measure", "acquire",
          "wait"}

Action == [kind : Kinds, out : Outputs \cup {NoOutput}, finally : BOOLEAN,
           completionOnly : BOOLEAN, faultOnly : BOOLEAN, retains : BOOLEAN]

ASSUME PlanAssumption ==
    /\ NoOutput \notin Outputs
    /\ DeviceOf \in [Outputs -> Devices]
    /\ Plans \subseteq Seq(Action)
    /\ MaxRetries \in Nat /\ MaxPauses \in Nat

\* What the compiler guarantees: Finally holds only OFF actions, the main part
\* comes first, and only success-only actions retain an output.
ASSUME CompiledAssumption ==
    \A p \in Plans : \A i \in DOMAIN p :
        /\ p[i].kind \in {"configure", "on", "off", "update", "assert"} =>
             p[i].out \in Outputs
        /\ p[i].finally /\ ~p[i].completionOnly => p[i].kind = "off"
        /\ p[i].finally => \A j \in i..Len(p) : p[j].finally
        /\ p[i].completionOnly => p[i].finally /\ p[i].kind # "on"
        /\ p[i].faultOnly => p[i].finally /\ ~p[i].completionOnly
        /\ p[i].retains => p[i].completionOnly /\ p[i].kind = "assert"

VARIABLES
    plan, mode,     \* the plan and the ExecutionMode of this run
    pc,             \* where the run thread is
    path,           \* "run", or after an exception "abort" or "fault"
    next,           \* the plan action at hand
    attempt,        \* attempt of _execute_with_policy
    state,          \* RecipeRunner._state
    completed,      \* completed actions, as reported
    stored,         \* checkpoints appended to the archive
    boundary,       \* the last safe_resume_boundary: points and next action
    attempted,      \* attempted_finally, by index
    retained,       \* completed_retained_outputs
    status,         \* _output_status of each endpoint
    active,         \* the *_output_active flags
    todo,           \* devices still to be confirmed OFF
    cleanupOk, confirmed,
    stop, pause, resume, permit,   \* the four Events set by the operator
    resuming,       \* the GUI is between the two steps of resume()
    pauses,         \* pauses asked for so far
    timedOut,       \* _watchdog_timed_out
    overdue,        \* the action at hand has exceeded its deadline
    snapshot,       \* what the watchdog thread has copied
    output,         \* physical: the endpoints that are energized
    pending,        \* physical: timed-out ON calls still being served
    estop,          \* the out-of-band emergency worker runs
    begun,          \* history: how often each Finally action was begun
    afterStop       \* history: measurement actions dispatched after a Stop

operator == <<stop, pause, resume, permit, resuming, pauses, estop>>
watchdog == <<timedOut, overdue, snapshot>>
physical == <<output, pending>>
cleanup  == <<todo, cleanupOk, confirmed>>
evidence == <<status, active>>
progress == <<completed, stored, boundary, attempted, retained, begun,
              afterStop>>
vars == <<plan, mode, pc, path, next, attempt, state, completed, stored,
          boundary, attempted, retained, status, active, todo, cleanupOk,
          confirmed, stop, pause, resume, permit, resuming, pauses, timedOut,
          overdue, snapshot, output, pending, estop, begun, afterStop>>

-----------------------------------------------------------------------------
Modes  == {"measurement", "manual_step", "dry_run"}
States == {"running", "paused", "stopping", "holding", "safe", "fault"}
Points == {"start", "guard", "loop", "manual", "begin", "execute", "backoff", "account",
           "pause_top", "pause_clear", "pause_wait", "pause_test", "finish",
           "finally", "shutdown", "flush", "close", "done"}

TypeOK ==
    /\ plan \in Plans /\ mode \in Modes /\ pc \in Points
    /\ path \in {"run", "abort", "fault"}
    /\ next \in 1..(Len(plan) + 1)
    /\ attempt \in 0..MaxRetries
    /\ state \in States
    /\ completed \in 0..Len(plan)
    /\ stored \in Nat
    /\ boundary \in [points : Nat, next : Nat]
    /\ attempted \subseteq DOMAIN plan
    /\ retained \subseteq Outputs
    /\ status \in [Outputs -> {"on", "off", "unknown"}]
    /\ active \subseteq Outputs
    /\ todo \subseteq Devices
    /\ cleanupOk \in BOOLEAN /\ confirmed \in BOOLEAN
    /\ stop \in BOOLEAN /\ pause \in BOOLEAN /\ resume \in BOOLEAN
    /\ permit \in BOOLEAN /\ resuming \in BOOLEAN /\ estop \in BOOLEAN
    /\ pauses \in 0..MaxPauses
    /\ timedOut \in BOOLEAN /\ overdue \in BOOLEAN
    /\ snapshot \in {"none", "current", "stale"}
    /\ output \subseteq Outputs /\ pending \subseteq Outputs
    /\ begun \in [DOMAIN plan -> Nat]
    /\ afterStop \in Nat

-----------------------------------------------------------------------------
Act      == plan[next]
ForcedOff == mode = "dry_run"
Of(d)    == {o \in Outputs : DeviceOf[o] = d}

\* controlled_output_endpoints, and the devices that own them.
Scope    == {plan[i].out : i \in DOMAIN plan} \ {NoOutput}
Owned    == {DeviceOf[o] : o \in Scope}

\* ExecutionPlan.retained_outputs, as run() uses it.
PlanRetains == {plan[i].out : i \in {j \in DOMAIN plan : plan[j].retains}}
Retains     == IF ForcedOff THEN {} ELSE PlanRetains

\* The points a prefix of the plan stores.
PointsBefore(p, i) == Cardinality({j \in 1..(i - 1) : p[j].kind = "acquire"})

Init ==
    /\ plan \in Plans
    /\ mode \in Modes
    /\ pc = "start" /\ path = "run" /\ next = 1 /\ attempt = 0 /\ state = "running"
    /\ completed = 0 /\ stored = 0 /\ boundary = [points |-> 0, next |-> 0]
    /\ attempted = {} /\ retained = {}
    /\ status = [o \in Outputs |-> "unknown"] /\ active = {}
    /\ todo = Owned /\ cleanupOk = TRUE /\ confirmed = TRUE
    /\ stop = FALSE /\ pause = FALSE /\ resume = TRUE /\ permit = FALSE
    /\ resuming = FALSE /\ pauses = 0
    /\ timedOut = FALSE /\ overdue = FALSE /\ snapshot = "none"
    /\ output \in {{}, Outputs} /\ pending = {}
    /\ estop = FALSE
    /\ begun = [i \in DOMAIN plan |-> 0]
    /\ afterStop = 0

-----------------------------------------------------------------------------
(* Helpers of the run thread.                                              *)

\* _clear_action_watchdog: a copy the watchdog holds is out of date now.
Disarm ==
    /\ overdue' = FALSE
    /\ snapshot' = IF snapshot = "current" THEN "stale" ELSE snapshot

\* What the except clause of run() does once an exception escapes: Stop wins
\* unless the watchdog has spoken, else the run has failed.
Raise(stopped, late) ==
    /\ path' = IF stopped /\ ~late THEN "abort" ELSE "fault"
    /\ state' = IF stopped /\ ~late THEN state ELSE "fault"
    /\ status' = IF stopped /\ ~late THEN status
                                     ELSE [o \in Outputs |-> "unknown"]
    /\ pc' = "finally"
    /\ cleanupOk' = TRUE

Goto(label) ==
    /\ pc' = label
    /\ UNCHANGED <<path, state, status, cleanupOk>>

\* A call to the instrument of o succeeded: whatever was queued there before
\* it has been served, and o is as requested.
Switched(o, on) ==
    /\ output' = IF on THEN (output \cup (pending \cap Of(DeviceOf[o]))) \cup {o}
                       ELSE (output \cup (pending \cap Of(DeviceOf[o]))) \ {o}
    /\ pending' = pending \ Of(DeviceOf[o])

\* A call failed: adapters answer a failure with emergency_off, which may have
\* reached any of the instrument's outputs; a failed ON may also have switched
\* its output on, or may still do so after the caller stopped waiting.
Failed(o, on) ==
    \E off \in SUBSET Of(DeviceOf[o]) :
        \/ output' = output \ off /\ pending' = pending
        \/ on /\ output' = (output \ off) \cup {o} /\ pending' = pending
        \/ on /\ output' = output /\ pending' = pending \cup {o}

-----------------------------------------------------------------------------
(* run(): before the loop, and the head of the loop.                       *)

\* Stop is tested while the plan's external inputs are verified.
Start ==
    /\ pc = "start"
    /\ IF stop THEN Raise(stop, timedOut)
               ELSE Goto(IF ForcedOff THEN "guard" ELSE "loop")
    /\ UNCHANGED <<plan, mode, next, attempt, progress, active, todo, confirmed,
                   operator, watchdog, physical>>

\* _confirm_dry_run_outputs_off tries every device, then raises if one failed.
GuardDryRun ==
    /\ pc = "guard"
    /\ UNCHANGED <<plan, mode, next, attempt, progress, operator, watchdog>>
    /\ \/ \E d \in todo :
            /\ todo' = todo \ {d}
            /\ \/ output' = output \ Of(d) /\ pending' = pending \ Of(d)
                  /\ confirmed' = confirmed
               \/ output' \in {output, output \ Of(d)} /\ pending' = pending
                  /\ confirmed' = FALSE
            /\ Goto("guard")
            /\ active' = active
       \/ /\ todo = {}
          /\ UNCHANGED <<physical, todo, confirmed, active>>
          /\ IF confirmed
               THEN /\ pc' = "loop"
                    /\ status' = [o \in Outputs |->
                         IF DeviceOf[o] \in Owned THEN "off" ELSE status[o]]
                    /\ UNCHANGED <<path, state, cleanupOk>>
               ELSE Raise(stop, timedOut)

\* The next action of the plan, or the end of it.
LoopHead ==
    /\ pc = "loop"
    /\ completed' = IF next <= Len(plan) /\ ~stop /\ Act.faultOnly
                      THEN next ELSE completed
    /\ UNCHANGED <<plan, mode, stored, boundary, retained, begun, afterStop,
                   active, physical>>
    /\ \/ /\ next > Len(plan)
          /\ UNCHANGED <<next, attempt, attempted, operator, watchdog>>
          /\ IF Retains = {} \/ retained = Retains
               THEN /\ pc' = "shutdown" /\ state' = "stopping"
                    /\ todo' = Owned /\ confirmed' = TRUE
                    /\ UNCHANGED <<path, status, cleanupOk>>
               ELSE Raise(stop, timedOut) /\ UNCHANGED <<todo, confirmed>>
       \/ /\ next <= Len(plan) /\ stop
          /\ Raise(stop, timedOut)
          /\ UNCHANGED <<next, attempt, attempted, todo, confirmed, operator,
                         watchdog>>
       \/ /\ next <= Len(plan) /\ ~stop /\ Act.faultOnly
          /\ next' = next + 1
          /\ Goto("loop")
          /\ UNCHANGED <<attempt, attempted, todo, confirmed, operator, watchdog>>
       \/ /\ next <= Len(plan) /\ ~stop /\ ~Act.faultOnly
          /\ attempted' = IF Act.finally THEN attempted \cup {next} ELSE attempted
          /\ IF mode = "manual_step" /\ ~Act.finally
               THEN /\ pc' = "manual" /\ state' = "paused" /\ permit' = FALSE
                    /\ UNCHANGED <<path, status, cleanupOk>>
               ELSE Goto("begin") /\ permit' = permit
          /\ UNCHANGED <<next, attempt, todo, confirmed, watchdog, stop, pause,
                         resume, resuming, pauses, estop>>

\* _wait_for_manual_step: the operator's Next, or a Stop.
ManualWait ==
    /\ pc = "manual"
    /\ UNCHANGED <<plan, mode, next, attempt, progress, active, todo, confirmed,
                   physical, watchdog, stop, pause, resume, resuming, pauses,
                   estop>>
    /\ \/ stop /\ Raise(stop, timedOut) /\ permit' = permit
       \/ /\ ~stop /\ permit
          /\ permit' = FALSE /\ state' = "running" /\ pc' = "begin"
          /\ UNCHANGED <<path, status, cleanupOk>>

-----------------------------------------------------------------------------
(* _execute_with_policy.                                                   *)

CountDispatch ==
    afterStop' = IF stop /\ ~Act.finally THEN afterStop + 1 ELSE afterStop

\* A success-only action is not started any more after a Stop.
Begin ==
    /\ pc = "begin"
    /\ IF Act.completionOnly /\ stop
         THEN /\ Raise(stop, timedOut)
              /\ UNCHANGED <<attempt, begun, afterStop>>
         ELSE /\ Goto("execute")
              /\ attempt' = 0
              /\ begun' = IF Act.finally
                            THEN [begun EXCEPT ![next] = @ + 1] ELSE begun
              /\ CountDispatch
    /\ UNCHANGED <<plan, mode, next, completed, stored, boundary, attempted,
                   retained, active, todo, confirmed, operator, watchdog,
                   physical>>

\* Whether the runner may try this action again after a DeviceError.
CanRetry ==
    CASE Act.kind = "configure" -> Act.out \notin active
      [] Act.kind \in {"off", "measure", "acquire"} -> TRUE
      [] Act.kind \in {"on", "update", "assert", "wait"} -> FALSE

MayRetry == CanRetry /\ attempt < MaxRetries /\ ~timedOut

\* The state an ON or OFF action asks for; a dry run replaces ON by OFF.
Requested(a) == a.kind \in {"on", "assert"} /\ ~ForcedOff

\* The instrument did what was asked and read it back.
Performed(a) ==
    CASE a.kind \in {"configure", "on", "off"} ->
           /\ Switched(a.out, Requested(a))
           /\ active' = IF Requested(a) THEN active \cup {a.out}
                                        ELSE active \ {a.out}
      [] a.kind = "assert" ->
           /\ (a.out \in output) = Requested(a)
           /\ a.out \notin pending
           /\ active' = IF Requested(a) THEN active \cup {a.out}
                                        ELSE active \ {a.out}
           /\ UNCHANGED physical
      [] a.kind \in {"update", "measure", "acquire", "wait"} ->
           UNCHANGED <<physical, active>>

\* The status an action that returned leaves behind.
Confirms(a) ==
    IF a.kind \in {"configure", "on", "off", "assert"}
      THEN [status EXCEPT ![a.out] = IF Requested(a) THEN "on" ELSE "off"]
      ELSE status

\* An action that returned after its deadline counts as a timeout.
Execute ==
    /\ pc = "execute"
    /\ Performed(Act)
    /\ Disarm
    /\ IF overdue
         THEN /\ timedOut' = TRUE
              /\ stop' = TRUE
              /\ Raise(TRUE, TRUE)
         ELSE /\ pc' = "account"
              /\ status' = Confirms(Act)
              /\ UNCHANGED <<path, state, cleanupOk, timedOut, stop>>
    /\ UNCHANGED <<plan, mode, next, attempt, progress, todo, confirmed, pause,
                   resume, permit, resuming, pauses, estop>>

\* The wait notices a Stop; any other action may fail in the adapter.
ExecuteFails ==
    /\ pc = "execute"
    /\ IF Act.kind = "wait"
         THEN stop /\ UNCHANGED physical
         ELSE IF Act.out = NoOutput THEN UNCHANGED physical
                                    ELSE Failed(Act.out, Act.kind = "on" /\ ~ForcedOff)
    /\ \/ Raise(stop, timedOut) /\ Disarm
       \/ MayRetry /\ Goto("backoff") /\ UNCHANGED <<overdue, snapshot>>
    /\ UNCHANGED <<plan, mode, next, attempt, progress, active, todo, confirmed,
                   operator, timedOut>>

\* A back-off that nobody can interrupt.
DeafBackoff ==
    /\ pc = "backoff"
    /\ Disarm
    /\ Goto("execute") /\ attempt' = attempt + 1 /\ CountDispatch
    /\ UNCHANGED <<plan, mode, next, completed, stored, boundary, attempted,
                   retained, begun, active, todo, confirmed, operator, timedOut,
                   physical>>

\* The action stays watched until the wait is over.
Backoff ==
    /\ pc = "backoff"
    /\ Disarm
    /\ IF stop THEN Raise(stop, timedOut) /\ UNCHANGED <<attempt, afterStop>>
               ELSE Goto("execute") /\ attempt' = attempt + 1 /\ CountDispatch
    /\ UNCHANGED <<plan, mode, next, completed, stored, boundary, attempted,
                   retained, begun, active, todo, confirmed, operator, timedOut,
                   physical>>

-----------------------------------------------------------------------------
(* What run() does with the result of an action.                           *)

\* A compliance reading stores its point and ends the run; an acquisition takes one
\* of every source it knows to be on before each of its sweeps.
Account ==
    /\ pc = "account"
    /\ retained' = IF Act.completionOnly /\ Act.retains
                     THEN retained \cup {Act.out} ELSE retained
    /\ completed' = next
    /\ \/ /\ Act.kind = "measure" \/ (Act.kind = "acquire" /\ active # {})
          /\ stored' = stored + 1
          /\ Raise(stop, timedOut)
       \/ /\ Act.kind = "acquire"
          /\ stored' = stored + 1
          /\ Goto(IF pause THEN "pause_top" ELSE "finish")
       \/ /\ Act.kind # "acquire"
          /\ stored' = stored
          /\ Goto("finish")
    /\ UNCHANGED <<plan, mode, next, attempt, boundary, attempted, begun,
                   afterStop, active, todo, confirmed, operator, watchdog, physical>>

\* A pause that only the resume Event ends.
PauseTopWithoutTest ==
    /\ pc = "pause_top"
    /\ state' = "paused" /\ pc' = "pause_clear"
    /\ UNCHANGED <<path, status, cleanupOk>>
    /\ UNCHANGED <<plan, mode, next, attempt, progress, active, todo, confirmed,
                   operator, watchdog, physical>>

\* while self._pause_requested.is_set(): self._state = PAUSED
PauseTop ==
    /\ pc = "pause_top"
    /\ IF pause THEN /\ state' = "paused" /\ pc' = "pause_clear"
                     /\ UNCHANGED <<path, status, cleanupOk>>
                ELSE Goto("finish")
    /\ UNCHANGED <<plan, mode, next, attempt, progress, active, todo, confirmed,
                   operator, watchdog, physical>>

\* self._resume_requested.clear()
PauseClear ==
    /\ pc = "pause_clear"
    /\ resume' = FALSE
    /\ Goto("pause_wait")
    /\ UNCHANGED <<plan, mode, next, attempt, progress, active, todo, confirmed,
                   stop, pause, permit, resuming, pauses, estop, watchdog,
                   physical>>

\* A pause that does not notice a Stop.
DeafPauseWait ==
    /\ pc = "pause_wait"
    /\ Goto("pause_test")
    /\ UNCHANGED <<plan, mode, next, attempt, progress, active, todo, confirmed,
                   operator, watchdog, physical>>

\* if self._stop_requested.wait(0.05): self._raise_if_stop_requested()
PauseWait ==
    /\ pc = "pause_wait"
    /\ IF stop THEN Raise(stop, timedOut) ELSE Goto("pause_test")
    /\ UNCHANGED <<plan, mode, next, attempt, progress, active, todo, confirmed,
                   operator, watchdog, physical>>

\* if self._resume_requested.is_set(): self._state = RUNNING; return
PauseTest ==
    /\ pc = "pause_test"
    /\ IF resume THEN /\ state' = "running" /\ pc' = "finish"
                      /\ UNCHANGED <<path, status, cleanupOk>>
                 ELSE Goto("pause_top")
    /\ UNCHANGED <<plan, mode, next, attempt, progress, active, todo, confirmed,
                   operator, watchdog, physical>>

\* A boundary that counts points only, and one that names the stored action.
BoundaryUnchecked(points, following) ==
    IF points > boundary.points THEN [points |-> points, next |-> following]
                                ELSE boundary
BoundaryRepeats(points, following) ==
    IF /\ points > boundary.points
       /\ active = {}
       /\ \A o \in Scope : status[o] = "off"
      THEN [points |-> points, next |-> following - 1]
      ELSE boundary

\* _record_safe_boundary_if_advanced
Boundary(points, following) ==
    IF /\ points > boundary.points
       /\ active = {}
       /\ \A o \in Scope : status[o] = "off"
      THEN [points |-> points, next |-> following]
      ELSE boundary

Finish ==
    /\ pc = "finish"
    /\ boundary' = Boundary(stored, next + 1)
    /\ next' = next + 1
    /\ Goto("loop")
    /\ UNCHANGED <<plan, mode, attempt, completed, stored, attempted, retained,
                   begun, afterStop, active, todo, confirmed, operator, watchdog,
                   physical>>

\* Every step of the main path writes an event or a point; the archive may
\* refuse it, before the operation or after.
StorageFails ==
    /\ pc \in {"start", "guard", "loop", "manual", "begin", "account", "pause_top",
               "backoff", "finish"}
    /\ Disarm
    /\ Raise(stop, timedOut)
    /\ UNCHANGED <<plan, mode, next, attempt, progress, active, todo, confirmed,
                   operator, timedOut, physical>>

-----------------------------------------------------------------------------
(* After an exception, and at the end of the plan: Finally, OFF, archive.  *)

\* Forgets what the main path has attempted.
RemainingOfPlan == {i \in DOMAIN plan : /\ plan[i].finally
                                        /\ ~plan[i].completionOnly}

\* The Finally actions nobody has attempted yet.
Remaining == {i \in DOMAIN plan : /\ plan[i].finally
                                  /\ ~plan[i].completionOnly
                                  /\ i \notin attempted}

\* _run_pending_finally: in plan order, each once, whatever the others did.
\* The shutdown budget may be used up before or after the call.
Finally ==
    /\ pc = "finally" /\ Remaining # {}
    /\ LET i == CHOOSE j \in Remaining : \A k \in Remaining : j <= k IN
       /\ attempted' = attempted \cup {i}
       /\ begun' = [begun EXCEPT ![i] = @ + 1]
       /\ Disarm
       /\ \/ /\ Performed(plan[i])
             /\ status' = Confirms(plan[i])
             /\ cleanupOk' = (cleanupOk /\ ~overdue)
             /\ timedOut' = (timedOut \/ overdue) /\ stop' = (stop \/ overdue)
          \/ /\ Failed(plan[i].out, FALSE)
             /\ cleanupOk' = FALSE
             /\ timedOut' \in {timedOut, TRUE} /\ stop' = (stop \/ timedOut')
             /\ UNCHANGED <<active, status>>
    /\ UNCHANGED <<plan, mode, pc, path, next, attempt, state, completed, stored,
                   boundary, retained, afterStop, todo, confirmed, pause, resume,
                   permit, resuming, pauses, estop>>

FinallyDone ==
    /\ pc = "finally" /\ Remaining = {}
    /\ pc' = "shutdown" /\ state' = "stopping"
    /\ todo' = Owned /\ confirmed' = TRUE
    /\ UNCHANGED <<plan, mode, path, next, attempt, progress, evidence,
                   cleanupOk, operator, watchdog, physical>>

\* Leaves an instrument with a retained output alone altogether.
KeptWhole(d) ==
    IF path = "run" /\ Retains \cap Of(d) # {} THEN Of(d) ELSE {}

\* Only a completed plan keeps its retained outputs energized.
Kept(d) == IF path = "run" THEN Retains \cap Of(d) ELSE {}

\* The endpoints of d as they were confirmed, but for those that were not.
ReadBack(d, lost) ==
    [o \in Outputs |-> CASE o \in lost -> "unknown"
                       [] o \in Kept(d) \ lost -> "on"
                       [] o \in Of(d) \ (Kept(d) \cup lost) -> "off"
                       [] o \notin Of(d) -> status[o]]

\* _shutdown_owned_device succeeded: every retained output reads back ON, every
\* other one OFF.
ConfirmsDevice(d) ==
    /\ Kept(d) \subseteq output \ pending
    /\ output' = output \ (Of(d) \ Kept(d))
    /\ pending' = pending \ Of(d)
    /\ status' = IF overdue /\ Kept(d) = {} THEN status ELSE ReadBack(d, {})

\* _safe_shutdown: each device in turn, the others also when one fails, or is
\* not even tried because the shared budget is used up.
Shutdown(d) ==
    /\ pc = "shutdown" /\ d \in todo
    /\ todo' = todo \ {d}
    /\ Disarm
    /\ \/ /\ ConfirmsDevice(d)
          /\ confirmed' = (confirmed /\ ~overdue)
          /\ timedOut' = (timedOut \/ overdue) /\ stop' = (stop \/ overdue)
       \/ /\ confirmed' = FALSE
          /\ timedOut' \in {timedOut, TRUE} /\ stop' = (stop \/ timedOut')
          /\ \E off, lost \in SUBSET Of(d) :
               /\ Of(d) \ Kept(d) \subseteq off \cup lost
               /\ Kept(d) \subseteq output \cup lost
               /\ output' = output \ off
               /\ status' \in {status} \cup
                    IF Kept(d) = {} THEN {} ELSE {ReadBack(d, lost)}
          /\ pending' = pending
    /\ UNCHANGED <<plan, mode, pc, path, next, attempt, state, progress, active,
                   cleanupOk, pause, resume, permit, resuming, pauses, estop>>

\* Reports SAFE on the strength of the Finally actions alone.
ConclusionOfCleanup(ok) ==
    CASE path = "run" -> IF Retains = {} THEN "safe" ELSE "holding"
      [] path = "abort" /\ cleanupOk -> "safe"
      [] OTHER -> "fault"

Conclusion(ok) ==
    CASE path = "run" -> IF Retains = {} THEN "safe" ELSE "holding"
      [] path = "abort" /\ cleanupOk /\ ok -> "safe"
      [] OTHER -> "fault"

\* storage.flush_checkpoint, then what the result of the shutdown leads to.
ShutdownDone ==
    /\ pc = "shutdown" /\ todo = {}
    /\ confirmed' \in {confirmed, FALSE}
    /\ IF path = "run" /\ ~confirmed'
         THEN Raise(stop, timedOut)
         ELSE /\ pc' = "close"
              /\ state' = Conclusion(confirmed')
              /\ UNCHANGED <<path, status, cleanupOk>>
    /\ UNCHANGED <<plan, mode, next, attempt, progress, active, todo, operator,
                   watchdog, physical>>

\* writer.close, or _close_after_error; run_completed is the last event.
Close ==
    /\ pc = "close"
    /\ \/ pc' = "done" /\ UNCHANGED <<path, state, status, cleanupOk>>
       \/ path = "run" /\ Raise(stop, timedOut)
       \/ /\ path # "run"
          /\ pc' = "done" /\ state' = "fault"
          /\ UNCHANGED <<path, status, cleanupOk>>
    /\ UNCHANGED <<plan, mode, next, attempt, progress, active, todo, confirmed,
                   operator, watchdog, physical>>

RunStep ==
    \/ Start \/ GuardDryRun \/ LoopHead \/ ManualWait
    \/ Begin \/ Execute \/ ExecuteFails \/ Backoff \/ Account
    \/ PauseTop \/ PauseClear \/ PauseWait \/ PauseTest
    \/ Finish \/ StorageFails
    \/ Finally \/ FinallyDone
    \/ \E d \in Devices : Shutdown(d)
    \/ ShutdownDone \/ Close

-----------------------------------------------------------------------------
(* The watchdog thread, and time.                                          *)

runThread == <<plan, mode, pc, path, next, attempt, state, progress, evidence,
               cleanup, physical>>

\* A watched operation is under way.
Armed == \/ pc \in {"execute", "backoff"}
         \/ pc = "finally" /\ Remaining # {}
         \/ pc = "shutdown" /\ todo # {}

DeadlinePasses ==
    /\ Armed /\ ~overdue
    /\ overdue' = TRUE
    /\ UNCHANGED <<runThread, operator, timedOut, snapshot>>

\* The action and its deadline are copied under the lock and used after it.
WatchdogCopies ==
    /\ Armed /\ snapshot = "none"
    /\ snapshot' = "current"
    /\ UNCHANGED <<runThread, operator, timedOut, overdue>>

WatchdogFires ==
    /\ \/ snapshot = "stale"
       \/ snapshot = "current" /\ overdue
    /\ snapshot' = "none"
    /\ timedOut' = TRUE /\ stop' = TRUE
    /\ UNCHANGED <<runThread, overdue, pause, resume, permit, resuming, pauses,
                   estop>>

WatchdogPasses ==
    /\ snapshot # "none"
    /\ snapshot' = "none"
    /\ UNCHANGED <<runThread, operator, timedOut, overdue>>

-----------------------------------------------------------------------------
(* The operator.                                                           *)

Stop ==
    /\ ~stop /\ pc # "done"
    /\ stop' = TRUE /\ permit' = TRUE
    /\ UNCHANGED <<runThread, watchdog, pause, resume, resuming, pauses, estop>>

Pause ==
    /\ pc # "done" /\ mode # "manual_step" /\ ~pause /\ ~resuming
    /\ pauses < MaxPauses
    /\ pauses' = pauses + 1
    /\ pause' = TRUE
    /\ UNCHANGED <<runThread, watchdog, stop, resume, permit, resuming, estop>>

\* resume() clears one Event and sets another.
ResumeClears ==
    /\ pause /\ ~resuming
    /\ pause' = FALSE /\ resuming' = TRUE
    /\ UNCHANGED <<runThread, watchdog, stop, resume, permit, pauses, estop>>

ResumeSets ==
    /\ resuming
    /\ resume' = TRUE /\ resuming' = FALSE
    /\ UNCHANGED <<runThread, watchdog, stop, pause, permit, pauses, estop>>

\* Next is offered only while a stage waits.
Advance ==
    /\ pc = "manual" /\ ~permit
    /\ permit' = TRUE
    /\ UNCHANGED <<runThread, watchdog, stop, pause, resume, resuming, pauses,
                   estop>>

\* E-STOP asks the run to stop and switches devices off by sessions of its own.
EmergencyStop ==
    /\ ~estop /\ pc # "done"
    /\ estop' = TRUE /\ stop' = TRUE /\ permit' = TRUE
    /\ UNCHANGED <<runThread, watchdog, pause, resume, resuming, pauses>>

EmergencyOff(d) ==
    /\ estop
    /\ output' = output \ Of(d)
    /\ UNCHANGED <<plan, mode, pc, path, next, attempt, state, progress, evidence,
                   cleanup, pending, operator, watchdog>>

\* A timed-out ON call is served after all.
LateEffect(o) ==
    /\ o \in pending
    /\ output' = output \cup {o} /\ pending' = pending \ {o}
    /\ UNCHANGED <<plan, mode, pc, path, next, attempt, state, progress, evidence,
                   cleanup, operator, watchdog>>

Next ==
    \/ RunStep
    \/ DeadlinePasses \/ WatchdogCopies \/ WatchdogFires \/ WatchdogPasses
    \/ Stop \/ Pause \/ ResumeClears \/ ResumeSets \/ Advance \/ EmergencyStop
    \/ \E d \in Devices : EmergencyOff(d)
    \/ \E o \in Outputs : LateEffect(o)

Spec == Init /\ [][Next]_vars

\* The run thread is scheduled, adapter calls return (they have deadlines), and
\* a resume() that has begun is completed.  Nobody has to press a button.
FairSpec == Spec /\ WF_vars(RunStep) /\ WF_vars(ResumeSets)

-----------------------------------------------------------------------------
(* What an operator relies on.                                             *)

OutputsOfRun == {o \in Outputs : DeviceOf[o] \in Owned}

\* A run that ends SAFE has physically switched off every output of every
\* instrument it owned, whatever failed, timed out or was retried before, and
\* no timed-out call is left that could energize one later.
SafeMeansOff ==
    pc = "done" /\ state = "safe"
    => OutputsOfRun \cap (output \cup pending) = {}

\* A run that ends HOLDING has left on exactly the outputs its plan retains
\* (fewer after an E-STOP), and completed every one of its actions.
HoldingIsPlanned ==
    pc = "done" /\ state = "holding"
    => /\ mode # "dry_run" /\ completed = Len(plan)
       /\ OutputsOfRun \cap (output \cup pending) \subseteq PlanRetains
       /\ ~estop => PlanRetains \subseteq output

\* No Finally action is carried out on the main path and again by the cleanup
\* after an exception, so no cleanup mutation is sent twice.
FinallyAtMostOnce ==
    \A i \in DOMAIN plan : begun[i] <= 1

\* After a Stop the runner dispatches at most the one measurement action it had
\* already decided on; no retry, no further action.
AtMostOneAfterStop == afterStop <= 1

\* A safe resume boundary is recorded only while every output the plan controls
\* is physically off, whatever the flags were computed from.
BoundaryIsSafe ==
    [][boundary' # boundary => Scope \cap (output \cup pending) = {}]_vars

\* The boundary names the action that follows exactly the points it counts, so
\* resuming there repeats no stored point and skips none.
BoundaryMatchesPlan ==
    boundary.next # 0 => boundary.points = PointsBefore(plan, boundary.next)

\* A Stop always ends the run, also while it is paused, waits for the operator's
\* Next, backs off before a retry or shuts the instruments down.
StopEnds == stop ~> pc = "done"

\* A run that is not left paused ends by itself: no resume() is lost.
RunEnds == mode # "manual_step" /\ <>[]~pause => <>(pc = "done")

-----------------------------------------------------------------------------
(* What the documents say and the code does not do; see README.md.         *)

\* docs/PROCEDURA_OPERATORA.md: "Pause after point ... zatrzymuje dalsze kroki":
\* no action is executed while the run reports that it is paused.
PausedRunsNothing == state = "paused" => pc # "execute"

\* docs/PROCEDURA_OPERATORA.md: "Stop safely ... wylacza"; the tests expect that
\* a stopped run does not hold: a Stop during the run leaves no output on.
StopNeverHolds ==
    [][pc' = "done" /\ pc # "done" /\ state' = "holding" => ~stop]_vars

\* runner.py: "Record only an adapter-confirmed output state for the UI/event
\* log": an output that is reported off is off.
StatusTruthful ==
    \A o \in OutputsOfRun : status[o] = "off" => o \notin output

\* runner.py: "Attempt each not-yet-started selected Finally action exactly
\* once": a run that was stopped or failed has begun all of them.
FinallyAttempted ==
    pc = "done" /\ path # "run"
    => \A i \in DOMAIN plan :
         plan[i].finally /\ ~plan[i].completionOnly => begun[i] >= 1

\* safety-contract.md: "Configuration is retryable only with output confirmed
\* off": a configuration is tried again only if its output is known to be off.
RetryOnlyConfirmedOff ==
    pc = "backoff" /\ Act.kind = "configure" => status[Act.out] = "off"
=============================================================================
