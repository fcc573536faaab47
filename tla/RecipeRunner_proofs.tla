------------------------ MODULE RecipeRunner_proofs ------------------------
(***************************************************************************)
(* Proofs, for every set of plans, instruments and bounds, of what the     *)
(* operator relies on when a run has ended or has been stopped.            *)
(***************************************************************************)
EXTENDS RecipeRunner, WellFoundedInduction, FiniteSetTheorems, TLAPS

-----------------------------------------------------------------------------
(* Stop.                                                                   *)

\* An action that was dispatched after a Stop is the last one: the runner is
\* past the tests of the Stop only while it has not dispatched any.
StopInv ==
    /\ afterStop \in {0, 1}
    /\ afterStop = 1 => stop
    /\ pc = "begin" => afterStop = 0

LEMMA NextStop == ASSUME StopInv, [Next]_vars PROVE StopInv'
<1>. USE DEF StopInv
<1>1. CASE UNCHANGED <<afterStop, stop, pc>>
  BY <1>1
<1>2. ASSUME Start \/ GuardDryRun PROVE StopInv'
  BY <1>2 DEF Start, GuardDryRun, Goto, Raise, progress, operator
<1>3. ASSUME LoopHead PROVE StopInv'
  BY <1>3 DEF LoopHead, Goto, Raise, operator
<1>4. ASSUME ManualWait PROVE StopInv'
  BY <1>4 DEF ManualWait, Raise, progress
<1>5. ASSUME Begin PROVE StopInv'
  BY <1>5 DEF Begin, CountDispatch, Goto, Raise, operator
<1>6. ASSUME Execute \/ ExecuteFails PROVE StopInv'
  BY <1>6 DEF Execute, ExecuteFails, Goto, Raise, progress, operator
<1>7. ASSUME Backoff PROVE StopInv'
  BY <1>7 DEF Backoff, CountDispatch, Goto, Raise, operator
<1>8. ASSUME Account \/ Finish PROVE StopInv'
  BY <1>8 DEF Account, Finish, Goto, Raise, operator
<1>9. ASSUME PauseTop \/ PauseClear \/ PauseWait \/ PauseTest PROVE StopInv'
  BY <1>9 DEF PauseTop, PauseClear, PauseWait, PauseTest, Goto, Raise, progress,
     operator
<1>10. ASSUME StorageFails \/ FinallyDone \/ ShutdownDone \/ Close PROVE StopInv'
  BY <1>10 DEF StorageFails, FinallyDone, ShutdownDone, Close, Raise, progress,
     operator
<1>11. ASSUME Finally PROVE StopInv'
  BY <1>11 DEF Finally
<1>12. ASSUME NEW d \in Devices, Shutdown(d) PROVE StopInv'
  BY <1>12 DEF Shutdown, progress
<1>13. ASSUME WatchdogFires \/ Stop \/ EmergencyStop PROVE StopInv'
  BY <1>13 DEF WatchdogFires, Stop, EmergencyStop, runThread, progress
<1>. QED
  BY <1>1, <1>2, <1>3, <1>4, <1>5, <1>6, <1>7, <1>8, <1>9, <1>10, <1>11, <1>12,
     <1>13 DEF Next, RunStep, vars, DeadlinePasses, WatchdogCopies,
     WatchdogPasses, Pause, ResumeClears, ResumeSets, Advance, EmergencyOff,
     LateEffect, runThread, progress, operator

(* After a Stop the runner dispatches at most one more measurement action, *)
(* whatever it was waiting for when the Stop came (_raise_if_stop_requested*)
(* at the head of the loop, before a retry, in a pause).                   *)
THEOREM OneActionAfterStop == Spec => []AtMostOneAfterStop
<1>1. Init => StopInv
  BY DEF Init, StopInv
<1>2. StopInv => AtMostOneAfterStop
  BY DEF StopInv, AtMostOneAfterStop
<1>. QED BY <1>1, <1>2, NextStop, PTL DEF Spec

-----------------------------------------------------------------------------
(* The outputs at the end of a run.                                        *)

\* What may still be, or become, energized.
Live == output \cup pending

\* While the shutdown is confirmed, each device it is done with is dark but for
\* the outputs it keeps; a run that concluded from that stays so.
OffInv ==
    /\ pc = "shutdown" /\ confirmed =>
         \A d \in Owned \ todo : Of(d) \cap Live \subseteq Kept(d)
    /\ pc \in {"close", "done"} /\ state = "safe" =>
         OutputsOfRun \cap Live = {}
    /\ pc \in {"close", "done"} /\ state = "holding" =>
         /\ path = "run" /\ ~ForcedOff
         /\ OutputsOfRun \cap Live \subseteq Retains

\* Steps that neither move the run thread nor energize anything new.
LEMMA OffKept ==
    ASSUME OffInv, UNCHANGED <<plan, mode, pc, path, state, todo, confirmed>>,
           Live' \subseteq Live
    PROVE  OffInv'
<1>1. /\ Owned' = Owned /\ Retains' = Retains /\ OutputsOfRun' = OutputsOfRun
      /\ \A d \in Owned : Kept(d)' = Kept(d)
      /\ ForcedOff' = ForcedOff
  BY DEF Owned, Scope, Retains, PlanRetains, ForcedOff, OutputsOfRun, Kept
<1>. QED BY <1>1 DEF OffInv

\* Steps that do not end up in the shutdown or after it.
LEMMA OffElsewhere ==
    ASSUME pc' \notin {"shutdown", "close", "done"} PROVE OffInv'
  BY DEF OffInv

\* Entering the shutdown: every owned device is still to be done.
LEMMA OffEnters ==
    ASSUME pc' = "shutdown", UNCHANGED plan, todo' = Owned PROVE OffInv'
<1>1. Owned' = Owned
  BY DEF Owned, Scope
<1>. QED BY <1>1 DEF OffInv

LEMMA ShutdownOff ==
    ASSUME OffInv, NEW d \in Devices, Shutdown(d) PROVE OffInv'
<1>1. /\ Owned' = Owned
      /\ \A e \in Owned : Kept(e)' = Kept(e)
  BY DEF Shutdown, progress, Owned, Scope, Retains, PlanRetains, ForcedOff, Kept
<1>2. pc = "shutdown" /\ pc' = "shutdown" /\ todo' = todo \ {d}
  BY DEF Shutdown
<1>4. CASE ~confirmed'
  BY <1>2, <1>4 DEF OffInv
<1>5. CASE confirmed' /\ ConfirmsDevice(d)
  <2>1. confirmed
    BY <1>5, Zenon DEF Shutdown
  <2>2. /\ Live' \subseteq Live
        /\ Of(d) \cap Live' \subseteq Kept(d)
    BY <1>5 DEF ConfirmsDevice, Live
  <2>. QED BY <1>1, <1>2, <2>1, <2>2 DEF OffInv
<1>. QED BY <1>4, <1>5, Zenon DEF Shutdown

LEMMA ShutdownDoneOff ==
    ASSUME OffInv, ShutdownDone PROVE OffInv'
<1>1. /\ Owned' = Owned /\ Retains' = Retains /\ OutputsOfRun' = OutputsOfRun
      /\ ForcedOff' = ForcedOff /\ Live' = Live
  BY DEF ShutdownDone, progress, physical, Owned, Scope, Retains, PlanRetains,
     ForcedOff, OutputsOfRun, Live
<1>2. CASE path = "run" /\ ~confirmed'
  BY <1>2, OffElsewhere DEF ShutdownDone, Raise
<1>3. CASE ~(path = "run" /\ ~confirmed')
  <2>1. /\ pc = "shutdown" /\ pc' = "close" /\ todo = {} /\ path' = path
        /\ state' = Conclusion(confirmed')
    BY <1>3, Zenon DEF ShutdownDone
  <2>2. confirmed' => confirmed
    BY DEF ShutdownDone
  <2>3. confirmed => \A o \in OutputsOfRun : o \in Live => o \in Kept(DeviceOf[o])
    BY <2>1 DEF OffInv, OutputsOfRun, Of
  <2>4. state' = "safe" => confirmed' /\ \A d \in Owned : Kept(d) = {}
    BY <1>3, <2>1 DEF Conclusion, Kept
  <2>5. state' = "holding" => path = "run" /\ confirmed' /\ Retains # {}
    BY <1>3, <2>1 DEF Conclusion
  <2>6. state' = "safe" => OutputsOfRun' \cap Live' = {}
    BY <1>1, <2>1, <2>3, <2>4, <2>2 DEF OutputsOfRun
  <2>7. state' = "holding" =>
          /\ path' = "run" /\ ~ForcedOff'
          /\ OutputsOfRun' \cap Live' \subseteq Retains'
    BY <1>1, <2>1, <2>3, <2>5, <2>2 DEF Kept, Retains
  <2>. QED BY <2>1, <2>6, <2>7 DEF OffInv
<1>. QED BY <1>2, <1>3

LEMMA CloseOff == ASSUME OffInv, Close PROVE OffInv'
<1>1. /\ Retains' = Retains /\ OutputsOfRun' = OutputsOfRun
      /\ ForcedOff' = ForcedOff /\ Live' = Live /\ pc = "close"
  BY DEF Close, progress, physical, Owned, Scope, Retains, PlanRetains,
     ForcedOff, OutputsOfRun, Live
<1>2. CASE pc' = "finally"
  BY <1>2, OffElsewhere
<1>3. CASE pc' = "done" /\ UNCHANGED <<path, state>>
  BY <1>1, <1>3 DEF OffInv
<1>4. CASE pc' = "done" /\ state' = "fault"
  BY <1>4 DEF OffInv
<1>. QED BY <1>2, <1>3, <1>4, Zenon DEF Close, Raise

LEMMA NextOff ==
    ASSUME OffInv, [Next]_vars PROVE OffInv'
<1>1. ASSUME Start \/ GuardDryRun PROVE OffInv'
  BY <1>1, OffElsewhere DEF Start, GuardDryRun, Goto, Raise
<1>2. ASSUME LoopHead PROVE OffInv'
  BY <1>2, OffElsewhere, OffEnters DEF LoopHead, Goto, Raise
<1>3. ASSUME ManualWait \/ Begin \/ Execute \/ ExecuteFails \/ Backoff \/ Account
      PROVE  OffInv'
  BY <1>3, OffElsewhere DEF ManualWait, Begin, Execute, ExecuteFails, Backoff,
     Account, Goto, Raise
<1>4. ASSUME PauseTop \/ PauseClear \/ PauseWait \/ PauseTest \/ Finish
             \/ StorageFails \/ Finally
      PROVE  OffInv'
  BY <1>4, OffElsewhere DEF PauseTop, PauseClear, PauseWait, PauseTest, Finish,
     StorageFails, Finally, Goto, Raise
<1>5. ASSUME FinallyDone PROVE OffInv'
  BY <1>5, OffEnters DEF FinallyDone
<1>6. ASSUME DeadlinePasses \/ WatchdogCopies \/ WatchdogFires \/ WatchdogPasses
             \/ Stop \/ Pause \/ ResumeClears \/ ResumeSets \/ Advance
             \/ EmergencyStop
      PROVE  OffInv'
  <2>1. UNCHANGED runThread
    BY <1>6, Zenon DEF DeadlinePasses, WatchdogCopies, WatchdogFires,
       WatchdogPasses, Stop, Pause, ResumeClears, ResumeSets, Advance,
       EmergencyStop
  <2>. QED BY <2>1, OffKept DEF runThread, cleanup, physical, Live
<1>7. ASSUME NEW d \in Devices, EmergencyOff(d) PROVE OffInv'
  BY <1>7, OffKept DEF EmergencyOff, cleanup, Live
<1>8. ASSUME NEW o \in Outputs, LateEffect(o) PROVE OffInv'
  BY <1>8, OffKept DEF LateEffect, cleanup, Live
<1>9. ASSUME UNCHANGED vars PROVE OffInv'
  BY <1>9, OffKept DEF vars, Live
<1>. QED
  BY <1>1, <1>2, <1>3, <1>4, <1>5, <1>6, <1>7, <1>8, <1>9, ShutdownOff,
     ShutdownDoneOff, CloseOff DEF Next, RunStep

LEMMA InitOff == Init => OffInv
  BY DEF Init, OffInv

(* A run that reports SAFE has switched off every output of every          *)
(* instrument it owned, and no timed-out ON call is left to be served      *)
(* (_safe_shutdown and the conclusions of run and _abort_safely).          *)
THEOREM SafeIsOff == Spec => []SafeMeansOff
<1>1. OffInv => SafeMeansOff
  BY DEF OffInv, SafeMeansOff, Live
<1>. QED BY <1>1, InitOff, NextOff, PTL DEF Spec

-----------------------------------------------------------------------------
(* Finally.                                                                *)

\* The main path attempts the actions in order, and records a Finally action
\* before it begins it; the cleanup begins only those not recorded.
FinInv ==
    /\ plan \in Plans /\ next \in 1..(Len(plan) + 1)
    /\ begun \in [DOMAIN plan -> {0, 1}]
    /\ attempted \subseteq DOMAIN plan
    /\ \A i \in DOMAIN plan : begun[i] = 1 => i \in attempted
    /\ pc \in {"start", "guard", "loop"} => attempted \subseteq 1..(next - 1)
    /\ pc \in {"manual", "begin", "execute", "backoff", "account", "pause_top",
               "pause_clear", "pause_wait", "pause_test", "finish"}
         => next \in DOMAIN plan /\ attempted \subseteq 1..next
    /\ pc \in {"manual", "begin"} =>
         begun[next] = 0 /\ (Act.finally => next \in attempted)

LEMMA PlanDomain ==
    ASSUME NEW p \in Plans
    PROVE  Len(p) \in Nat /\ DOMAIN p = 1..Len(p)
BY PlanAssumption

\* Steps that leave the account of Finally alone.
LEMMA FinKept ==
    ASSUME FinInv, UNCHANGED <<plan, next, attempted, begun>>,
           \/ pc' = pc
           \/ pc' \in {"finally", "shutdown", "close", "done"}
           \/ pc \in {"start", "guard"} /\ pc' \in {"guard", "loop"}
           \/ pc = "manual" /\ pc' = "begin"
           \/ /\ pc \in {"execute", "backoff", "account", "pause_top",
                         "pause_clear", "pause_wait", "pause_test"}
              /\ pc' \in {"execute", "backoff", "account", "pause_top",
                          "pause_clear", "pause_wait", "pause_test", "finish"}
    PROVE  FinInv'
  BY DEF FinInv, Act

LEMMA LoopHeadFin == ASSUME FinInv, LoopHead PROVE FinInv'
<1>1. Len(plan) \in Nat /\ DOMAIN plan = 1..Len(plan)
  BY PlanDomain DEF FinInv
<1>2. pc = "loop" /\ UNCHANGED <<plan, begun>>
  BY DEF LoopHead
<1>3. CASE next' = next /\ attempted' = attempted /\ pc' \in {"shutdown", "finally"}
  BY <1>2, <1>3, FinKept
<1>4. CASE next <= Len(plan) /\ next' = next + 1 /\ attempted' = attempted
           /\ pc' = "loop"
  BY <1>1, <1>2, <1>4 DEF FinInv
<1>5. CASE /\ next <= Len(plan) /\ next' = next
           /\ attempted' = IF Act.finally THEN attempted \cup {next} ELSE attempted
           /\ pc' \in {"manual", "begin"}
  <2>1. next \in DOMAIN plan /\ begun[next] = 0
    BY <1>1, <1>2, <1>5 DEF FinInv
  <2>2. Act' = Act
    BY <1>2, <1>5 DEF Act
  <2>. QED BY <1>1, <1>2, <1>5, <2>1, <2>2 DEF FinInv
<1>. QED BY <1>3, <1>4, <1>5 DEF LoopHead, Goto, Raise

LEMMA BeginFin == ASSUME FinInv, Begin PROVE FinInv'
<1>1. CASE pc' = "finally" /\ begun' = begun
  BY <1>1, FinKept DEF Begin
<1>2. CASE /\ pc' = "execute"
           /\ begun' = IF Act.finally THEN [begun EXCEPT ![next] = @ + 1] ELSE begun
  BY <1>2 DEF Begin, FinInv
<1>. QED BY <1>1, <1>2 DEF Begin, Goto, Raise

LEMMA FinishFin == ASSUME FinInv, Finish PROVE FinInv'
<1>1. Len(plan) \in Nat /\ DOMAIN plan = 1..Len(plan)
  BY PlanDomain DEF FinInv
<1>. QED BY <1>1 DEF Finish, Goto, FinInv

LEMMA FinallyFin == ASSUME FinInv, Finally PROVE FinInv'
<1>1. PICK i \in Remaining :
        attempted' = attempted \cup {i} /\ begun' = [begun EXCEPT ![i] = @ + 1]
  <2>1. Remaining \subseteq Nat
    BY PlanDomain DEF FinInv, Remaining
  <2>2. \E j \in Remaining : \A k \in Remaining : j <= k
    <3>1. \E j \in Remaining : \A k \in Remaining : <<k, j>> \notin OpToRel(<, Nat)
      BY <2>1, NatLessThanWellFounded, WFMin, Zenon DEF Finally
    <3>2. \A j, k \in Nat : <<k, j>> \notin OpToRel(<, Nat) => j <= k
      BY DEF OpToRel
    <3>. QED BY <2>1, <3>1, <3>2
  <2>. QED BY <2>2 DEF Finally
<1>2. i \in DOMAIN plan /\ begun[i] = 0
  BY DEF Remaining, FinInv
<1>. QED BY <1>1, <1>2 DEF Finally, FinInv

LEMMA NextFin == ASSUME FinInv, [Next]_vars PROVE FinInv'
<1>1. ASSUME Start \/ GuardDryRun \/ ManualWait PROVE FinInv'
  BY <1>1, FinKept DEF Start, GuardDryRun, ManualWait, Goto, Raise, progress
<1>2. ASSUME Execute \/ ExecuteFails \/ Backoff \/ Account PROVE FinInv'
  BY <1>2, FinKept DEF Execute, ExecuteFails, Backoff, Account, Goto, Raise, progress
<1>3. ASSUME PauseTop \/ PauseClear \/ PauseWait \/ PauseTest \/ StorageFails
      PROVE  FinInv'
  BY <1>3, FinKept DEF PauseTop, PauseClear, PauseWait, PauseTest, StorageFails,
     Goto, Raise, progress
<1>4. ASSUME FinallyDone \/ ShutdownDone \/ Close PROVE FinInv'
  BY <1>4, FinKept DEF FinallyDone, ShutdownDone, Close, Raise, progress
<1>5. ASSUME NEW d \in Devices, Shutdown(d) PROVE FinInv'
  BY <1>5, FinKept DEF Shutdown, progress
<1>6. ASSUME DeadlinePasses \/ WatchdogCopies \/ WatchdogFires \/ WatchdogPasses
             \/ Stop \/ Pause \/ ResumeClears \/ ResumeSets \/ Advance
             \/ EmergencyStop
      PROVE  FinInv'
  <2>1. UNCHANGED runThread
    BY <1>6, Zenon DEF DeadlinePasses, WatchdogCopies, WatchdogFires,
       WatchdogPasses, Stop, Pause, ResumeClears, ResumeSets, Advance,
       EmergencyStop
  <2>. QED BY <2>1, FinKept DEF runThread, progress
<1>7. ASSUME NEW d \in Devices, EmergencyOff(d) PROVE FinInv'
  BY <1>7, FinKept DEF EmergencyOff, progress
<1>8. ASSUME NEW o \in Outputs, LateEffect(o) PROVE FinInv'
  BY <1>8, FinKept DEF LateEffect, progress
<1>9. ASSUME UNCHANGED vars PROVE FinInv'
  BY <1>9, FinKept DEF vars
<1>. QED
  BY <1>1, <1>2, <1>3, <1>4, <1>5, <1>6, <1>7, <1>8, <1>9, LoopHeadFin, BeginFin,
     FinishFin, FinallyFin DEF Next, RunStep

(* No Finally action is begun twice: what the main path has attempted the  *)
(* cleanup after an exception leaves alone (attempted_finally in run and   *)
(* _run_pending_finally).                                                  *)
THEOREM FinallyOnce == Spec => []FinallyAtMostOnce
<1>1. Init => FinInv
  BY PlanDomain DEF Init, FinInv
<1>2. FinInv => FinallyAtMostOnce
  BY DEF FinInv, FinallyAtMostOnce
<1>. QED BY <1>1, <1>2, NextFin, PTL DEF Spec

-----------------------------------------------------------------------------
(* What a completed plan leaves on.                                        *)

\* A run that is shut down without an exception has completed its plan, and the
\* devices it is done with have been read back with their retained outputs on.
HoldInv ==
    /\ pc \in {"start", "guard", "loop", "manual", "begin", "execute", "backoff",
              "account"} => completed = next - 1
    /\ pc \in {"pause_top", "pause_clear", "pause_wait", "pause_test", "finish"}
         => completed = next
    /\ pc = "finally" => path # "run"
    /\ pc \in {"shutdown", "close", "done"} /\ path = "run" => completed = Len(plan)
    /\ pc = "shutdown" /\ confirmed /\ ~estop =>
         \A d \in Owned \ todo : Kept(d) \subseteq output
    /\ pc \in {"close", "done"} /\ state = "holding" /\ ~estop =>
         Retains \subseteq output

\* Steps of the main path that do not leave it but for an exception.
LEMMA HoldMain ==
    ASSUME HoldInv,
           \/ pc' = "finally" /\ path' # "run"
           \/ /\ UNCHANGED <<next, completed>>
              /\ \/ /\ pc \in {"start", "guard", "loop", "manual", "begin", "execute",
                               "backoff"}
                    /\ pc' \in {"guard", "loop", "manual", "begin", "execute",
                                "backoff", "account"}
                 \/ /\ pc \in {"pause_top", "pause_clear", "pause_wait", "pause_test"}
                    /\ pc' \in {"pause_top", "pause_clear", "pause_wait",
                                "pause_test", "finish"}
    PROVE  HoldInv'
  BY DEF HoldInv

\* Steps beside the run thread that switch nothing off unless E-STOP runs.
LEMMA HoldKept ==
    ASSUME HoldInv,
           UNCHANGED <<plan, mode, pc, path, next, state, completed, todo, confirmed>>,
           output \subseteq output' \/ estop', estop => estop'
    PROVE  HoldInv'
<1>1. /\ Owned' = Owned /\ Retains' = Retains
      /\ \A d \in Owned : Kept(d)' = Kept(d)
  BY DEF Owned, Scope, Retains, PlanRetains, ForcedOff, Kept
<1>. QED BY <1>1 DEF HoldInv

LEMMA LoopHeadHold == ASSUME FinInv, HoldInv, LoopHead PROVE HoldInv'
<1>1. Len(plan) \in Nat /\ completed = next - 1 /\ next \in 1..(Len(plan) + 1)
  BY PlanDomain DEF FinInv, HoldInv, LoopHead
<1>2. CASE pc' = "shutdown" /\ next > Len(plan) /\ todo' = Owned
  <2>1. completed' = Len(plan) /\ plan' = plan /\ Owned' = Owned
    BY <1>1, <1>2 DEF LoopHead, Owned, Scope
  <2>. QED BY <1>2, <2>1 DEF HoldInv
<1>3. CASE pc' = "finally" /\ path' # "run"
  BY <1>3, HoldMain
<1>4. CASE pc' = "loop" /\ completed' = next /\ next' = next + 1
  BY <1>1, <1>4 DEF HoldInv
<1>5. CASE pc' \in {"manual", "begin"} /\ UNCHANGED <<next, completed>> /\ pc = "loop"
  BY <1>5, HoldMain
<1>. QED BY <1>2, <1>3, <1>4, <1>5 DEF LoopHead, Goto, Raise

LEMMA AccountHold == ASSUME FinInv, HoldInv, Account \/ Finish PROVE HoldInv'
<1>1. next \in Nat
  BY PlanDomain DEF FinInv
<1>. QED BY <1>1 DEF Account, Finish, Goto, Raise, HoldInv

LEMMA ShutdownHold ==
    ASSUME HoldInv, NEW d \in Devices, Shutdown(d) PROVE HoldInv'
<1>1. /\ Owned' = Owned
      /\ \A e \in Owned : Kept(e)' = Kept(e)
  BY DEF Shutdown, progress, Owned, Scope, Retains, PlanRetains, ForcedOff, Kept
<1>2. /\ pc = "shutdown" /\ pc' = "shutdown" /\ todo' = todo \ {d}
      /\ UNCHANGED <<path, completed, plan, estop>>
  BY DEF Shutdown, progress
<1>3. CASE ~confirmed'
  BY <1>2, <1>3 DEF HoldInv
<1>4. CASE confirmed' /\ ConfirmsDevice(d)
  <2>1. confirmed
    BY <1>4, Zenon DEF Shutdown
  <2>2. Kept(d) \subseteq output'
    BY <1>4 DEF ConfirmsDevice
  <2>3. \A e \in Owned : Kept(e) \subseteq output => Kept(e) \subseteq output'
    BY <1>4 DEF ConfirmsDevice, Kept, Of
  <2>. QED BY <1>1, <1>2, <2>1, <2>2, <2>3 DEF HoldInv
<1>. QED BY <1>3, <1>4, Zenon DEF Shutdown

\* What the compiler guarantees of retained outputs.
LEMMA RetainedOwned ==
    ASSUME FinInv
    PROVE  /\ Retains \subseteq Outputs
           /\ \A o \in Retains : DeviceOf[o] \in Owned /\ o \in Of(DeviceOf[o])
<1>1. \A i \in DOMAIN plan : plan[i].retains => plan[i].out \in Outputs
  BY CompiledAssumption DEF FinInv
<1>. QED
  BY <1>1, PlanAssumption DEF Retains, PlanRetains, Owned, Scope, Of

LEMMA ShutdownDoneHold == ASSUME FinInv, HoldInv, ShutdownDone PROVE HoldInv'
<1>1. /\ Owned' = Owned /\ Retains' = Retains /\ output' = output /\ estop' = estop
      /\ pc = "shutdown" /\ todo = {} /\ UNCHANGED <<completed, plan>>
  BY DEF ShutdownDone, progress, physical, operator, Owned, Scope, Retains,
     PlanRetains, ForcedOff
<1>2. CASE pc' = "finally"
  BY <1>2, HoldMain DEF ShutdownDone, Raise
<1>3. CASE pc' = "close" /\ path' = path /\ state' = Conclusion(confirmed')
           /\ ~(path = "run" /\ ~confirmed')
  <2>1. confirmed' => confirmed
    BY DEF ShutdownDone
  <2>2. state' = "holding" => path = "run" /\ confirmed
    BY <1>3, <2>1 DEF Conclusion
  <2>3. state' = "holding" /\ ~estop => Retains \subseteq output
    BY <1>1, <2>2, RetainedOwned DEF HoldInv, Kept
  <2>. QED BY <1>1, <1>3, <2>3 DEF HoldInv
<1>. QED BY <1>2, <1>3, Zenon DEF ShutdownDone, Raise

LEMMA CloseHold == ASSUME HoldInv, Close PROVE HoldInv'
<1>1. /\ Retains' = Retains /\ output' = output /\ estop' = estop /\ pc = "close"
      /\ UNCHANGED <<completed, plan>>
  BY DEF Close, progress, physical, operator, Retains, PlanRetains, ForcedOff
<1>2. CASE pc' = "finally"
  BY <1>2, HoldMain DEF Close, Raise
<1>3. CASE pc' = "done" /\ UNCHANGED <<path, state>>
  BY <1>1, <1>3 DEF HoldInv
<1>4. CASE pc' = "done" /\ path # "run" /\ path' = path /\ state' = "fault"
  BY <1>1, <1>4 DEF HoldInv
<1>. QED BY <1>2, <1>3, <1>4, Zenon DEF Close, Raise

LEMMA NextHold ==
    ASSUME FinInv, HoldInv, [Next]_vars PROVE HoldInv'
<1>1. ASSUME Start \/ GuardDryRun \/ ManualWait \/ Begin PROVE HoldInv'
  BY <1>1, HoldMain DEF Start, GuardDryRun, ManualWait, Begin, Goto, Raise, progress
<1>2. ASSUME Execute \/ ExecuteFails \/ Backoff PROVE HoldInv'
  BY <1>2, HoldMain DEF Execute, ExecuteFails, Backoff, Goto, Raise, progress
<1>3. ASSUME PauseTop \/ PauseClear \/ PauseWait \/ PauseTest \/ StorageFails
      PROVE  HoldInv'
  BY <1>3, HoldMain DEF PauseTop, PauseClear, PauseWait, PauseTest, StorageFails,
     Goto, Raise, progress
<1>4. ASSUME Finally PROVE HoldInv'
  BY <1>4 DEF Finally, HoldInv
<1>5. ASSUME FinallyDone PROVE HoldInv'
  <2>1. Owned' = Owned /\ todo' = Owned
    BY <1>5 DEF FinallyDone, Owned, Scope
  <2>. QED BY <1>5, <2>1 DEF FinallyDone, HoldInv
<1>6. ASSUME DeadlinePasses \/ WatchdogCopies \/ WatchdogFires \/ WatchdogPasses
             \/ Stop \/ Pause \/ ResumeClears \/ ResumeSets \/ Advance
             \/ EmergencyStop
      PROVE  HoldInv'
  <2>1. UNCHANGED runThread
    BY <1>6, Zenon DEF DeadlinePasses, WatchdogCopies, WatchdogFires,
       WatchdogPasses, Stop, Pause, ResumeClears, ResumeSets, Advance,
       EmergencyStop
  <2>2. estop' = estop \/ estop'
    BY <1>6 DEF DeadlinePasses, WatchdogCopies, WatchdogFires, WatchdogPasses,
       Stop, Pause, ResumeClears, ResumeSets, Advance, EmergencyStop, operator
  <2>. QED BY <2>1, <2>2, HoldKept DEF runThread, progress, cleanup, physical
<1>7. ASSUME NEW d \in Devices, EmergencyOff(d) PROVE HoldInv'
  BY <1>7, HoldKept DEF EmergencyOff, progress, cleanup, operator
<1>8. ASSUME NEW o \in Outputs, LateEffect(o) PROVE HoldInv'
  BY <1>8, HoldKept DEF LateEffect, progress, cleanup, operator
<1>9. ASSUME UNCHANGED vars PROVE HoldInv'
  BY <1>9, HoldKept DEF vars
<1>. QED
  BY <1>1, <1>2, <1>3, <1>4, <1>5, <1>6, <1>7, <1>8, <1>9, LoopHeadHold,
     AccountHold, ShutdownHold, ShutdownDoneHold, CloseHold DEF Next, RunStep

(* A run that ends HOLDING completed every action of its plan and left on  *)
(* exactly the outputs the plan retains (_safe_shutdown and the end of     *)
(* run), unless the emergency stop switched some of them off.              *)
THEOREM HoldingAsPlanned == Spec => []HoldingIsPlanned
<1>1. Init => FinInv /\ OffInv /\ HoldInv
  BY InitOff, PlanDomain DEF Init, FinInv, HoldInv
<1>2. FinInv /\ OffInv /\ HoldInv => HoldingIsPlanned
  BY DEF OffInv, HoldInv, HoldingIsPlanned, Live, Retains, ForcedOff
<1>3. FinInv /\ OffInv /\ HoldInv /\ [Next]_vars => (FinInv /\ OffInv /\ HoldInv)'
  BY NextFin, NextOff, NextHold, Zenon
<1>. QED BY <1>1, <1>2, <1>3, PTL DEF Spec

-----------------------------------------------------------------------------
(* Types.                                                                  *)

\* A retry waits only while attempts are left.
TypeInv == TypeOK /\ (pc = "backoff" => attempt < MaxRetries)

\* What the plan's actions say of outputs.
LEMMA PlanActions ==
    ASSUME NEW p \in Plans, NEW i \in DOMAIN p
    PROVE  /\ p[i] \in Action
           /\ p[i].out \in Outputs \cup {NoOutput}
           /\ p[i].kind \in {"configure", "on", "off", "update", "assert"}
                => p[i].out \in Outputs
           /\ p[i].retains => p[i].out \in Outputs
           /\ p[i].finally /\ ~p[i].completionOnly => p[i].kind = "off"
           /\ p[i].faultOnly => p[i].kind = "off"
<1>1. p[i] \in Action
  BY PlanAssumption
<1>2. p[i].out \in Outputs \cup {NoOutput}
  BY <1>1 DEF Action
<1>. QED BY <1>1, <1>2, CompiledAssumption

LEMMA ScopeOwned ==
    ASSUME plan \in Plans
    PROVE  Scope \subseteq Outputs /\ Owned \subseteq Devices
<1>1. Scope \subseteq Outputs
  BY PlanActions DEF Scope
<1>. QED BY <1>1, PlanAssumption DEF Owned

\* What a call to an instrument does to the outputs, well typed.
LEMMA PhysicalTyped ==
    ASSUME output \subseteq Outputs, pending \subseteq Outputs,
           NEW o, NEW on \in BOOLEAN, on => o \in Outputs,
           Switched(o, on) \/ Failed(o, on)
    PROVE  output' \subseteq Outputs /\ pending' \subseteq Outputs
  BY DEF Switched, Failed, Of

LEMMA PerformedTyped ==
    ASSUME TypeOK, NEW i \in DOMAIN plan, Performed(plan[i])
    PROVE  /\ output' \subseteq Outputs /\ pending' \subseteq Outputs
           /\ active' \subseteq Outputs
           /\ Confirms(plan[i]) \in [Outputs -> {"on", "off", "unknown"}]
<1>. DEFINE a == plan[i]
<1>1. /\ a \in Action /\ Requested(a) \in BOOLEAN
      /\ a.kind \in {"configure", "on", "off", "update", "assert"} => a.out \in Outputs
  BY PlanActions DEF TypeOK, Requested
<1>2. a.kind \in Kinds
  BY <1>1 DEF Action
<1>3. /\ output \subseteq Outputs /\ pending \subseteq Outputs /\ active \subseteq Outputs
      /\ status \in [Outputs -> {"on", "off", "unknown"}]
  BY DEF TypeOK
<1>4. Confirms(a) \in [Outputs -> {"on", "off", "unknown"}]
  BY <1>3 DEF Confirms
<1>. HIDE DEF a
<1>5. CASE a.kind \in {"configure", "on", "off"}
  <2>1. /\ Switched(a.out, Requested(a))
        /\ active' = IF Requested(a) THEN active \cup {a.out} ELSE active \ {a.out}
    BY <1>5, Zenon DEF Performed, a
  <2>. QED BY <1>1, <1>3, <1>4, <1>5, <2>1, PhysicalTyped DEF a
<1>6. CASE a.kind = "assert"
  <2>1. /\ active' = IF Requested(a) THEN active \cup {a.out} ELSE active \ {a.out}
        /\ UNCHANGED physical
    BY <1>6 DEF Performed, a
  <2>. QED BY <1>1, <1>3, <1>4, <1>6, <2>1 DEF physical, a
<1>7. CASE a.kind \in {"update", "measure", "acquire", "wait"}
  <2>1. UNCHANGED <<physical, active>>
    BY <1>7 DEF Performed, a
  <2>. QED BY <1>3, <1>4, <2>1 DEF physical, a
<1>. QED BY <1>2, <1>5, <1>6, <1>7 DEF Kinds

\* The parts of TypeOK: the run thread, its progress, what it knows of the
\* outputs, and the Events and flags other threads write.
ThreadTyped ==
    /\ pc \in Points /\ path \in {"run", "abort", "fault"} /\ state \in States
    /\ status \in [Outputs -> {"on", "off", "unknown"}] /\ cleanupOk \in BOOLEAN
ProgressTyped ==
    /\ plan \in Plans /\ mode \in Modes /\ next \in 1..(Len(plan) + 1)
    /\ attempt \in 0..MaxRetries
    /\ pc = "backoff" => attempt < MaxRetries
    /\ completed \in 0..Len(plan) /\ stored \in Nat
    /\ boundary \in [points : Nat, next : Nat]
    /\ attempted \subseteq DOMAIN plan /\ retained \subseteq Outputs
    /\ begun \in [DOMAIN plan -> Nat] /\ afterStop \in Nat
OutputsTyped ==
    /\ active \subseteq Outputs /\ todo \subseteq Devices /\ confirmed \in BOOLEAN
    /\ output \subseteq Outputs /\ pending \subseteq Outputs
EventsTyped ==
    /\ stop \in BOOLEAN /\ pause \in BOOLEAN /\ resume \in BOOLEAN
    /\ permit \in BOOLEAN /\ resuming \in BOOLEAN /\ estop \in BOOLEAN
    /\ pauses \in 0..MaxPauses
    /\ timedOut \in BOOLEAN /\ overdue \in BOOLEAN
    /\ snapshot \in {"none", "current", "stale"}

LEMMA TypeParts ==
    /\ TypeInv <=> ThreadTyped /\ ProgressTyped /\ OutputsTyped /\ EventsTyped
    /\ TypeInv' <=> (ThreadTyped /\ ProgressTyped /\ OutputsTyped /\ EventsTyped)'
  BY DEF TypeInv, TypeOK, ThreadTyped, ProgressTyped, OutputsTyped, EventsTyped

\* An exception is typed, and so is a step to another label.
LEMMA RaiseTyped ==
    ASSUME ThreadTyped, NEW stopped, NEW late, Raise(stopped, late)
    PROVE  ThreadTyped' /\ pc' = "finally"
<1>1. status' \in [Outputs -> {"on", "off", "unknown"}]
  BY DEF ThreadTyped, Raise
<1>. QED BY <1>1 DEF ThreadTyped, Raise, Points, States

LEMMA GotoTyped ==
    ASSUME ThreadTyped, NEW label \in Points, Goto(label)
    PROVE  ThreadTyped' /\ pc' = label
  BY DEF ThreadTyped, Goto

LEMMA ThreadStays ==
    ASSUME ThreadTyped, pc' \in Points, state' \in States,
           UNCHANGED <<path, status, cleanupOk>>
    PROVE  ThreadTyped'
  BY DEF ThreadTyped

\* Steps that make no progress in the plan.
LEMMA ProgressStays ==
    ASSUME ProgressTyped, pc' # "backoff" \/ pc' = pc,
           UNCHANGED <<plan, mode, next, attempt, progress>>
    PROVE  ProgressTyped'
  BY DEF ProgressTyped, progress

LEMMA OutputsStay ==
    ASSUME OutputsTyped, UNCHANGED <<active, todo, confirmed, physical>>
    PROVE  OutputsTyped'
  BY DEF OutputsTyped, physical

LEMMA EventsStay ==
    ASSUME EventsTyped, UNCHANGED <<operator, timedOut>>,
           UNCHANGED <<overdue, snapshot>> \/ Disarm
    PROVE  EventsTyped'
  BY DEF EventsTyped, operator, Disarm

\* The steps of the main path that leave the instruments alone.
LEMMA MainTyped ==
    ASSUME TypeInv,
           Start \/ ManualWait \/ PauseTop \/ PauseClear \/ PauseWait \/ PauseTest
           \/ StorageFails
    PROVE  TypeInv'
<1>1. ThreadTyped /\ ProgressTyped /\ OutputsTyped /\ EventsTyped
  BY TypeParts
<1>2. ThreadTyped' /\ pc' # "backoff"
  <2>1. CASE Start
    <3>1. "guard" \in Points /\ "loop" \in Points
      BY DEF Points
    <3>. QED BY <1>1, <2>1, <3>1, RaiseTyped, GotoTyped, Zenon DEF Start
  <2>2. CASE ManualWait
    BY <1>1, <2>2, RaiseTyped, ThreadStays DEF ManualWait, Points, States
  <2>3. CASE PauseTop \/ PauseClear \/ PauseWait \/ PauseTest
    <3>1. \A l \in {"pause_clear", "pause_wait", "pause_test", "pause_top", "finish"} :
            l \in Points /\ l # "backoff"
      BY DEF Points
    <3>2. "paused" \in States /\ "running" \in States
      BY DEF States
    <3>. QED BY <1>1, <2>3, <3>1, <3>2, RaiseTyped, GotoTyped, ThreadStays
             DEF PauseTop, PauseClear, PauseWait, PauseTest
  <2>4. CASE StorageFails
    BY <1>1, <2>4, RaiseTyped DEF StorageFails
  <2>. QED BY <2>1, <2>2, <2>3, <2>4
<1>3. UNCHANGED <<plan, mode, next, attempt, progress, active, todo, confirmed, physical>>
  BY DEF Start, ManualWait, PauseTop, PauseClear, PauseWait, PauseTest, StorageFails
<1>4. EventsTyped'
  <2>1. CASE ManualWait
    BY <1>1, <2>1 DEF ManualWait, EventsTyped, watchdog
  <2>2. CASE PauseClear
    BY <1>1, <2>2 DEF PauseClear, EventsTyped, watchdog
  <2>3. CASE Start \/ PauseTop \/ PauseWait \/ PauseTest \/ StorageFails
    BY <1>1, <2>3, EventsStay DEF Start, PauseTop, PauseWait, PauseTest, StorageFails,
       watchdog
  <2>. QED BY <2>1, <2>2, <2>3
<1>. QED BY <1>1, <1>2, <1>3, <1>4, ProgressStays, OutputsStay, TypeParts

LEMMA GuardTyped == ASSUME TypeInv, GuardDryRun PROVE TypeInv'
<1>1. ThreadTyped /\ ProgressTyped /\ OutputsTyped /\ EventsTyped
  BY TypeParts
<1>2. UNCHANGED <<plan, mode, next, attempt, progress, operator, watchdog>> /\ pc = "guard"
  BY DEF GuardDryRun
<1>3. CASE \E d \in todo :
             /\ todo' = todo \ {d}
             /\ \/ output' = output \ Of(d) /\ pending' = pending \ Of(d)
                   /\ confirmed' = confirmed
                \/ output' \in {output, output \ Of(d)} /\ pending' = pending
                   /\ confirmed' = FALSE
             /\ Goto("guard")
             /\ active' = active
  <2>1. ThreadTyped' /\ pc' = "guard"
    BY <1>1, <1>3, GotoTyped DEF Points
  <2>2. OutputsTyped'
    BY <1>1, <1>3 DEF OutputsTyped
  <2>. QED BY <1>1, <1>2, <2>1, <2>2, ProgressStays, EventsStay, TypeParts DEF watchdog
<1>4. CASE /\ UNCHANGED <<physical, todo, confirmed, active>>
           /\ IF confirmed
                THEN /\ pc' = "loop"
                     /\ status' = [o \in Outputs |->
                          IF DeviceOf[o] \in Owned THEN "off" ELSE status[o]]
                     /\ UNCHANGED <<path, state, cleanupOk>>
                ELSE Raise(stop, timedOut)
  <2>1. ThreadTyped' /\ pc' # "backoff"
    <3>1. CASE confirmed
      <4>1. status' \in [Outputs -> {"on", "off", "unknown"}]
        BY <1>1, <1>4, <3>1 DEF ThreadTyped
      <4>. QED BY <1>1, <1>4, <3>1, <4>1 DEF ThreadTyped, Points
    <3>. QED BY <1>1, <1>4, <3>1, RaiseTyped
  <2>. QED BY <1>1, <1>2, <1>4, <2>1, ProgressStays, OutputsStay, EventsStay, TypeParts
           DEF watchdog
<1>. QED BY <1>3, <1>4, Zenon DEF GuardDryRun

LEMMA LoopHeadTyped == ASSUME FinInv', TypeInv, LoopHead PROVE TypeInv'
<1>1. ThreadTyped /\ ProgressTyped /\ OutputsTyped /\ EventsTyped
  BY TypeParts
<1>2. /\ UNCHANGED <<plan, mode, stored, boundary, retained, begun, afterStop, active,
                    physical>>
      /\ UNCHANGED <<attempt, watchdog, stop, pause, resume, resuming, pauses, estop>>
      /\ permit' \in {permit, FALSE}
  BY DEF LoopHead, operator
<1>3. Len(plan) \in Nat
  BY <1>1, PlanDomain DEF ProgressTyped
<1>4. ThreadTyped' /\ pc' # "backoff"
  <2>1. CASE pc' = "shutdown" /\ state' = "stopping" /\ UNCHANGED <<path, status, cleanupOk>>
    BY <1>1, <2>1, ThreadStays DEF Points, States
  <2>2. CASE pc' = "manual" /\ state' = "paused" /\ UNCHANGED <<path, status, cleanupOk>>
    BY <1>1, <2>2, ThreadStays DEF Points, States
  <2>3. CASE Raise(stop, timedOut)
    BY <1>1, <2>3, RaiseTyped
  <2>4. CASE Goto("loop") \/ Goto("begin")
    BY <1>1, <2>4, GotoTyped DEF Points
  <2>. QED BY <2>1, <2>2, <2>3, <2>4 DEF LoopHead
<1>5. OutputsTyped'
  <2>1. todo' \in {todo, Owned} /\ confirmed' \in {confirmed, TRUE}
    BY DEF LoopHead
  <2>. QED BY <1>1, <1>2, <2>1, ScopeOwned DEF OutputsTyped, ProgressTyped, physical
<1>6. ProgressTyped'
  <2>1. completed' \in 0..Len(plan)
    BY <1>1, <1>3 DEF LoopHead, ProgressTyped
  <2>2. next' \in 1..(Len(plan) + 1) /\ attempted' \subseteq DOMAIN plan
    BY <1>2 DEF FinInv
  <2>. QED BY <1>1, <1>2, <1>4, <2>1, <2>2 DEF ProgressTyped
<1>7. EventsTyped'
  BY <1>1, <1>2 DEF EventsTyped, watchdog
<1>. QED BY <1>4, <1>5, <1>6, <1>7, TypeParts

LEMMA BeginTyped == ASSUME FinInv', TypeInv, Begin \/ Backoff PROVE TypeInv'
<1>1. ThreadTyped /\ ProgressTyped /\ OutputsTyped /\ EventsTyped
  BY TypeParts
<1>2. /\ UNCHANGED <<plan, mode, next, completed, stored, boundary, attempted, retained>>
      /\ UNCHANGED <<active, todo, confirmed, physical, operator, timedOut>>
      /\ UNCHANGED <<overdue, snapshot>> \/ Disarm
  BY DEF Begin, Backoff, watchdog
<1>3. ThreadTyped' /\ pc' # "backoff"
  <2>1. Raise(stop, timedOut) \/ Goto("execute")
    BY DEF Begin, Backoff
  <2>. QED BY <1>1, <2>1, RaiseTyped, GotoTyped DEF Points
<1>4. attempt' \in 0..MaxRetries
  <2>1. MaxRetries \in Nat
    BY PlanAssumption
  <2>2. \/ attempt' \in {attempt, 0}
        \/ pc = "backoff" /\ attempt' = attempt + 1
    BY DEF Begin, Backoff
  <2>. QED BY <1>1, <2>1, <2>2 DEF ProgressTyped
<1>5. afterStop' \in Nat
  <2>1. afterStop' \in {afterStop, afterStop + 1}
    BY DEF Begin, Backoff, CountDispatch
  <2>. QED BY <1>1, <2>1 DEF ProgressTyped
<1>6. begun' \in [DOMAIN plan -> Nat]
  BY <1>2 DEF FinInv
<1>7. ProgressTyped'
  BY <1>1, <1>2, <1>3, <1>4, <1>5, <1>6 DEF ProgressTyped
<1>. QED BY <1>1, <1>2, <1>3, <1>7, OutputsStay, EventsStay, TypeParts

LEMMA ExecuteTyped == ASSUME FinInv, TypeInv, Execute PROVE TypeInv'
<1>1. ThreadTyped /\ ProgressTyped /\ OutputsTyped /\ EventsTyped
  BY TypeParts
<1>2. /\ UNCHANGED <<plan, mode, next, attempt, progress, todo, confirmed, pause, resume,
                     permit, resuming, pauses, estop>>
      /\ pc = "execute" /\ Performed(plan[next]) /\ Disarm
  BY DEF Execute, Act
<1>3. /\ output' \subseteq Outputs /\ pending' \subseteq Outputs /\ active' \subseteq Outputs
      /\ Confirms(Act) \in [Outputs -> {"on", "off", "unknown"}]
  BY <1>2, PerformedTyped DEF FinInv, TypeInv, Act
<1>4. CASE timedOut' = TRUE /\ stop' = TRUE /\ Raise(TRUE, TRUE)
  <2>1. EventsTyped'
    BY <1>1, <1>2, <1>4 DEF EventsTyped, Disarm
  <2>. QED BY <1>1, <1>2, <1>3, <1>4, <2>1, RaiseTyped, ProgressStays, TypeParts
           DEF OutputsTyped
<1>5. CASE /\ pc' = "account" /\ status' = Confirms(Act)
           /\ UNCHANGED <<path, state, cleanupOk, timedOut, stop>>
  <2>1. EventsTyped'
    BY <1>1, <1>2, <1>5 DEF EventsTyped, Disarm
  <2>2. ThreadTyped'
    BY <1>1, <1>3, <1>5 DEF ThreadTyped, Points
  <2>. QED BY <1>1, <1>2, <1>3, <1>5, <2>1, <2>2, ProgressStays, TypeParts
           DEF OutputsTyped
<1>. QED BY <1>4, <1>5, Zenon DEF Execute

LEMMA ExecuteFailsTyped == ASSUME FinInv, TypeInv, ExecuteFails PROVE TypeInv'
<1>1. ThreadTyped /\ ProgressTyped /\ OutputsTyped /\ EventsTyped
  BY TypeParts
<1>2. /\ UNCHANGED <<plan, mode, next, attempt, progress, active, todo, confirmed, operator,
                     timedOut>>
      /\ pc = "execute"
      /\ UNCHANGED <<overdue, snapshot>> \/ Disarm
  BY DEF ExecuteFails
<1>3. output' \subseteq Outputs /\ pending' \subseteq Outputs
  <2>1. UNCHANGED physical \/ Failed(Act.out, Act.kind = "on" /\ ~ForcedOff)
    BY DEF ExecuteFails
  <2>2. Act.kind = "on" => Act.out \in Outputs
    BY <1>2, PlanActions DEF FinInv, Act
  <2>3. (Act.kind = "on" /\ ~ForcedOff) \in BOOLEAN
    OBVIOUS
  <2>4. CASE Failed(Act.out, Act.kind = "on" /\ ~ForcedOff)
    BY <1>1, <2>2, <2>3, <2>4, PhysicalTyped DEF OutputsTyped
  <2>. QED BY <1>1, <2>1, <2>4 DEF OutputsTyped, physical
<1>4. ThreadTyped' /\ (pc' = "backoff" => attempt < MaxRetries)
  <2>1. Raise(stop, timedOut) \/ (MayRetry /\ Goto("backoff"))
    BY DEF ExecuteFails
  <2>. QED BY <1>1, <2>1, RaiseTyped, GotoTyped DEF Points, MayRetry
<1>5. ProgressTyped'
  BY <1>1, <1>2, <1>4 DEF ProgressTyped, progress
<1>. QED BY <1>1, <1>2, <1>3, <1>4, <1>5, EventsStay, TypeParts DEF OutputsTyped

LEMMA AccountTyped == ASSUME FinInv, FinInv', TypeInv, Account \/ Finish PROVE TypeInv'
<1>1. ThreadTyped /\ ProgressTyped /\ OutputsTyped /\ EventsTyped
  BY TypeParts
<1>2. /\ UNCHANGED <<plan, mode, attempt, attempted, begun, afterStop, active, todo,
                     confirmed, operator, watchdog, physical>>
      /\ pc \in {"account", "finish"}
  BY DEF Account, Finish
<1>3. Len(plan) \in Nat /\ next \in DOMAIN plan /\ DOMAIN plan = 1..Len(plan)
  BY <1>2, PlanDomain DEF FinInv
<1>4. ThreadTyped' /\ pc' # "backoff"
  <2>1. \A l \in {"pause_top", "finish", "loop"} : l \in Points /\ l # "backoff"
    BY DEF Points
  <2>2. \/ Raise(stop, timedOut)
        \/ \E l \in {"pause_top", "finish", "loop"} : Goto(l)
    BY Zenon DEF Account, Finish
  <2>. QED BY <1>1, <2>1, <2>2, RaiseTyped, GotoTyped, Zenon
<1>5. stored' \in Nat /\ retained' \subseteq Outputs
  <2>1. stored' \in {stored, stored + 1}
    BY DEF Account, Finish
  <2>2. Act.retains => Act.out \in Outputs
    BY <1>3, PlanActions DEF FinInv, Act
  <2>. QED BY <1>1, <2>1, <2>2 DEF ProgressTyped, Account, Finish
<1>6. boundary' \in [points : Nat, next : Nat]
  <2>1. boundary' \in {boundary, [points |-> stored, next |-> next + 1]}
    BY DEF Account, Finish, Boundary
  <2>. QED BY <1>1, <1>3, <2>1 DEF ProgressTyped
<1>7. completed' \in 0..Len(plan) /\ next' \in 1..(Len(plan) + 1)
  BY <1>1, <1>2, <1>3 DEF ProgressTyped, Account, Finish
<1>8. ProgressTyped'
  BY <1>1, <1>2, <1>4, <1>5, <1>6, <1>7 DEF ProgressTyped
<1>. QED BY <1>1, <1>2, <1>4, <1>8, OutputsStay, EventsStay, TypeParts DEF watchdog

LEMMA FinallyTyped == ASSUME FinInv', TypeInv, Finally PROVE TypeInv'
<1>1. ThreadTyped /\ ProgressTyped /\ OutputsTyped /\ EventsTyped
  BY TypeParts
<1>2. /\ UNCHANGED <<plan, mode, pc, path, next, attempt, state, completed, stored, boundary,
                     retained, afterStop, todo, confirmed, pause, resume, permit, resuming,
                     pauses, estop>>
      /\ Disarm /\ pc = "finally"
  BY DEF Finally
<1>3. PICK i :
        /\ i = CHOOSE j \in Remaining : \A k \in Remaining : j <= k
        /\ \/ /\ Performed(plan[i]) /\ status' = Confirms(plan[i])
              /\ cleanupOk' = (cleanupOk /\ ~overdue)
              /\ timedOut' = (timedOut \/ overdue) /\ stop' = (stop \/ overdue)
           \/ /\ Failed(plan[i].out, FALSE)
              /\ cleanupOk' = FALSE
              /\ timedOut' \in {timedOut, TRUE} /\ stop' = (stop \/ timedOut')
              /\ UNCHANGED <<active, status>>
  BY Zenon DEF Finally
<1>4. attempted' = attempted \cup {i}
  BY <1>3 DEF Finally
<1>5. i \in DOMAIN plan
  BY <1>2, <1>4 DEF FinInv
<1>6. ProgressTyped'
  BY <1>1, <1>2 DEF ProgressTyped, FinInv
<1>7. EventsTyped'
  <2>1. timedOut' \in BOOLEAN /\ stop' \in BOOLEAN
    BY <1>1, <1>3 DEF EventsTyped
  <2>. QED BY <1>1, <1>2, <2>1 DEF EventsTyped, Disarm
<1>8. OutputsTyped' /\ ThreadTyped'
  <2>1. CASE /\ Performed(plan[i]) /\ status' = Confirms(plan[i])
             /\ cleanupOk' = (cleanupOk /\ ~overdue)
    <3>1. /\ output' \subseteq Outputs /\ pending' \subseteq Outputs
          /\ active' \subseteq Outputs
          /\ status' \in [Outputs -> {"on", "off", "unknown"}]
      BY <1>5, <2>1, PerformedTyped DEF TypeInv
    <3>2. cleanupOk' \in BOOLEAN
      BY <2>1
    <3>. QED BY <1>1, <1>2, <3>1, <3>2 DEF OutputsTyped, ThreadTyped
  <2>2. CASE /\ Failed(plan[i].out, FALSE) /\ cleanupOk' = FALSE
             /\ UNCHANGED <<active, status>>
    <3>1. output' \subseteq Outputs /\ pending' \subseteq Outputs
      BY <1>1, <2>2, PhysicalTyped DEF OutputsTyped
    <3>. QED BY <1>1, <1>2, <2>2, <3>1 DEF OutputsTyped, ThreadTyped
  <2>. QED BY <1>3, <2>1, <2>2
<1>. QED BY <1>6, <1>7, <1>8, TypeParts

LEMMA ShutdownTyped == ASSUME TypeInv, NEW d \in Devices, Shutdown(d) PROVE TypeInv'
<1>1. ThreadTyped /\ ProgressTyped /\ OutputsTyped /\ EventsTyped
  BY TypeParts
<1>2. /\ UNCHANGED <<plan, mode, pc, path, next, attempt, state, progress, active, cleanupOk,
                     pause, resume, permit, resuming, pauses, estop>>
      /\ Disarm /\ todo' = todo \ {d} /\ pc = "shutdown"
  BY DEF Shutdown
<1>3. \A lost : ReadBack(d, lost) \in [Outputs -> {"on", "off", "unknown"}]
  <2>1. ASSUME NEW lost, NEW o \in Outputs
        PROVE  ReadBack(d, lost)[o] \in {"on", "off", "unknown"}
    <3>1. status[o] \in {"on", "off", "unknown"}
      BY <1>1 DEF ThreadTyped
    <3>2. o \in lost \/ o \in Kept(d) \ lost \/ o \in Of(d) \ (Kept(d) \cup lost)
          \/ o \notin Of(d)
      OBVIOUS
    <3>. QED BY <3>1, <3>2 DEF ReadBack
  <2>2. ASSUME NEW lost
        PROVE  ReadBack(d, lost) \in [Outputs -> {"on", "off", "unknown"}]
    <3>. QED BY <2>1 DEF ReadBack
  <2>. QED BY <2>2, Zenon
<1>4. /\ status' \in [Outputs -> {"on", "off", "unknown"}]
      /\ output' \subseteq Outputs /\ pending' \subseteq Outputs
      /\ confirmed' \in BOOLEAN /\ timedOut' \in BOOLEAN /\ stop' \in BOOLEAN
  <2>1. CASE /\ ConfirmsDevice(d) /\ confirmed' = (confirmed /\ ~overdue)
             /\ timedOut' = (timedOut \/ overdue) /\ stop' = (stop \/ overdue)
    <3>1. /\ output' \subseteq output /\ pending' \subseteq pending
          /\ status' = status \/ status' = ReadBack(d, {})
      BY <2>1, Zenon DEF ConfirmsDevice
    <3>2. status' \in [Outputs -> {"on", "off", "unknown"}]
      BY <1>1, <1>3, <3>1 DEF ThreadTyped
    <3>3. confirmed' \in BOOLEAN /\ timedOut' \in BOOLEAN /\ stop' \in BOOLEAN
      BY <2>1
    <3>. QED BY <1>1, <3>1, <3>2, <3>3 DEF OutputsTyped
  <2>2. CASE /\ confirmed' = FALSE
             /\ timedOut' \in {timedOut, TRUE} /\ stop' = (stop \/ timedOut')
             /\ \E off, lost \in SUBSET Of(d) :
                  /\ Of(d) \ Kept(d) \subseteq off \cup lost
                  /\ Kept(d) \subseteq output \cup lost
                  /\ output' = output \ off
                  /\ status' \in {status} \cup
                       IF Kept(d) = {} THEN {} ELSE {ReadBack(d, lost)}
             /\ pending' = pending
    <3>1. /\ output' \subseteq output /\ pending' \subseteq pending
          /\ status' = status \/ \E lost : status' = ReadBack(d, lost)
      BY <2>2
    <3>2. status' \in [Outputs -> {"on", "off", "unknown"}]
      BY <1>1, <1>3, <3>1 DEF ThreadTyped
    <3>3. confirmed' \in BOOLEAN /\ timedOut' \in BOOLEAN /\ stop' \in BOOLEAN
      BY <1>1, <2>2 DEF EventsTyped
    <3>. QED BY <1>1, <3>1, <3>2, <3>3 DEF OutputsTyped
  <2>. QED BY <2>1, <2>2, Zenon DEF Shutdown
<1>5. EventsTyped'
  BY <1>1, <1>2, <1>4 DEF EventsTyped, Disarm
<1>6. OutputsTyped' /\ ThreadTyped'
  BY <1>1, <1>2, <1>4 DEF OutputsTyped, ThreadTyped
<1>. QED BY <1>1, <1>2, <1>5, <1>6, ProgressStays, TypeParts

LEMMA EndTyped == ASSUME TypeInv, FinallyDone \/ ShutdownDone \/ Close PROVE TypeInv'
<1>1. ThreadTyped /\ ProgressTyped /\ OutputsTyped /\ EventsTyped
  BY TypeParts
<1>2. UNCHANGED <<plan, mode, next, attempt, progress, active, operator, watchdog, physical>>
  BY DEF FinallyDone, ShutdownDone, Close, evidence
<1>3. todo' \in {todo, Owned} /\ confirmed' \in {confirmed, TRUE, FALSE}
  BY DEF FinallyDone, ShutdownDone, Close
<1>4. OutputsTyped'
  BY <1>1, <1>2, <1>3, ScopeOwned DEF OutputsTyped, ProgressTyped, physical
<1>5. ThreadTyped' /\ pc' # "backoff"
  <2>1. CASE Raise(stop, timedOut)
    BY <1>1, <2>1, RaiseTyped
  <2>2. CASE /\ pc' \in {"shutdown", "close", "done"} /\ UNCHANGED <<path, status, cleanupOk>>
             /\ state' \in {"stopping", "fault", state} \cup {Conclusion(confirmed')}
    <3>1. Conclusion(confirmed') \in {"safe", "holding", "fault"}
      BY DEF Conclusion
    <3>2. state' \in States
      BY <1>1, <2>2, <3>1 DEF ThreadTyped, States
    <3>. QED BY <1>1, <2>2, <3>2, ThreadStays DEF Points
  <2>. QED BY <2>1, <2>2 DEF FinallyDone, ShutdownDone, Close, evidence
<1>. QED BY <1>1, <1>2, <1>4, <1>5, ProgressStays, EventsStay, TypeParts DEF watchdog

\* The other threads.
LEMMA OthersTyped ==
    ASSUME TypeInv,
           \/ DeadlinePasses \/ WatchdogCopies \/ WatchdogFires \/ WatchdogPasses
           \/ Stop \/ Pause \/ ResumeClears \/ ResumeSets \/ Advance \/ EmergencyStop
    PROVE  TypeInv'
<1>1. ThreadTyped /\ ProgressTyped /\ OutputsTyped /\ EventsTyped
  BY TypeParts
<1>2. UNCHANGED runThread
  BY Zenon DEF DeadlinePasses, WatchdogCopies, WatchdogFires, WatchdogPasses, Stop, Pause,
     ResumeClears, ResumeSets, Advance, EmergencyStop
<1>3. EventsTyped'
  <2>1. CASE DeadlinePasses \/ WatchdogCopies \/ WatchdogFires \/ WatchdogPasses
    BY <1>1, <2>1 DEF EventsTyped, DeadlinePasses, WatchdogCopies, WatchdogFires,
       WatchdogPasses, operator
  <2>2. CASE Pause
    <3>1. pauses' \in 0..MaxPauses
      BY <1>1, <2>2, PlanAssumption DEF EventsTyped, Pause
    <3>. QED BY <1>1, <2>2, <3>1 DEF EventsTyped, Pause, watchdog
  <2>3. CASE Stop \/ ResumeClears \/ ResumeSets \/ Advance \/ EmergencyStop
    BY <1>1, <2>3 DEF EventsTyped, Stop, ResumeClears, ResumeSets, Advance, EmergencyStop,
       watchdog
  <2>. QED BY <2>1, <2>2, <2>3
<1>4. ThreadTyped' /\ OutputsTyped'
  BY <1>1, <1>2 DEF ThreadTyped, OutputsTyped, runThread, evidence, cleanup, physical
<1>. QED BY <1>1, <1>2, <1>3, <1>4, ProgressStays, TypeParts DEF runThread

LEMMA OutsideTyped ==
    ASSUME TypeInv,
           \/ \E d \in Devices : EmergencyOff(d)
           \/ \E o \in Outputs : LateEffect(o)
           \/ UNCHANGED vars
    PROVE  TypeInv'
<1>1. ThreadTyped /\ ProgressTyped /\ OutputsTyped /\ EventsTyped
  BY TypeParts
<1>2. /\ UNCHANGED <<plan, mode, pc, path, next, attempt, state, progress, evidence, cleanup,
                     operator, watchdog>>
      /\ output' \subseteq output \cup pending /\ pending' \subseteq pending
  BY DEF EmergencyOff, LateEffect, vars, progress, evidence, cleanup, operator, watchdog
<1>3. ThreadTyped' /\ OutputsTyped'
  BY <1>1, <1>2 DEF ThreadTyped, OutputsTyped, evidence, cleanup
<1>. QED BY <1>1, <1>2, <1>3, ProgressStays, EventsStay, TypeParts DEF watchdog

LEMMA NextTyped == ASSUME FinInv, TypeInv, [Next]_vars PROVE TypeInv'
<1>1. FinInv'
  BY NextFin
<1>. QED
  BY <1>1, MainTyped, GuardTyped, LoopHeadTyped, BeginTyped, ExecuteTyped,
     ExecuteFailsTyped, AccountTyped, FinallyTyped, ShutdownTyped, EndTyped, OthersTyped,
     OutsideTyped DEF Next, RunStep

LEMMA InitFin == Init => FinInv
  BY PlanDomain DEF Init, FinInv

LEMMA InitTyped == Init => TypeInv
<1>. SUFFICES ASSUME Init PROVE TypeInv
  OBVIOUS
<1>1. plan \in Plans /\ Len(plan) \in Nat /\ DOMAIN plan = 1..Len(plan)
  BY PlanDomain DEF Init
<1>2. MaxRetries \in Nat /\ MaxPauses \in Nat
  BY PlanAssumption
<1>3. ThreadTyped
  BY DEF Init, ThreadTyped, Points, States
<1>6. EventsTyped
  <2>1. pauses = 0 /\ pauses \in 0..MaxPauses
    BY <1>2 DEF Init
  <2>2. /\ stop = FALSE /\ pause = FALSE /\ resume = TRUE /\ permit = FALSE
        /\ resuming = FALSE /\ timedOut = FALSE /\ overdue = FALSE /\ estop = FALSE
        /\ snapshot = "none"
    BY Zenon DEF Init
  <2>. QED BY <2>1, <2>2 DEF EventsTyped
<1>4. ProgressTyped
  BY <1>1, <1>2 DEF Init, ProgressTyped
<1>5. OutputsTyped
  BY <1>1, ScopeOwned DEF Init, OutputsTyped
<1>. QED BY <1>3, <1>6, <1>4, <1>5, TypeParts

(* Every variable keeps to its type, the retries to their bound and the    *)
(* position to the plan, whatever fails or is stopped (run and             *)
(* _execute_with_policy).                                                  *)
THEOREM TypeCorrect == Spec => []TypeOK
<1>1. Init => FinInv /\ TypeInv
  BY InitFin, InitTyped
<1>2. FinInv /\ TypeInv /\ [Next]_vars => (FinInv /\ TypeInv)'
  BY NextFin, NextTyped
<1>3. TypeInv => TypeOK
  BY DEF TypeInv
<1>. QED BY <1>1, <1>2, <1>3, PTL DEF Spec

-----------------------------------------------------------------------------
(* The safe resume boundaries.                                             *)

\* The points before an action, and with it.
LEMMA PointsBeforeIs ==
    ASSUME NEW p, NEW i \in Nat
    PROVE  /\ PointsBefore(p, 1) = 0
           /\ PointsBefore(p, i + 1) \in Nat
           /\ PointsBefore(p, i + 2) = IF p[i + 1].kind = "acquire"
                                         THEN PointsBefore(p, i + 1) + 1
                                         ELSE PointsBefore(p, i + 1)
<1>. DEFINE Among(k) == {j \in 1..k : p[j].kind = "acquire"}
<1>1. IsFiniteSet(Among(i)) /\ Cardinality(Among(i)) \in Nat
  <2>1. IsFiniteSet(1..i)
    BY FS_Interval
  <2>2. Among(i) \in SUBSET (1..i)
    OBVIOUS
  <2>. QED BY <2>1, <2>2, FS_Subset, FS_CardinalityType
<1>2. PointsBefore(p, 1) = 0
  <2>1. {j \in 1..(1 - 1) : p[j].kind = "acquire"} = {}
    OBVIOUS
  <2>. QED BY <2>1, FS_EmptySet DEF PointsBefore
<1>3. /\ PointsBefore(p, i + 1) = Cardinality(Among(i))
      /\ PointsBefore(p, i + 2) = Cardinality(Among(i + 1))
  <2>1. (i + 1) - 1 = i /\ (i + 2) - 1 = i + 1
    OBVIOUS
  <2>. QED BY <2>1, Zenon DEF PointsBefore
<1>4. CASE p[i + 1].kind = "acquire"
  <2>1. Among(i + 1) = Among(i) \cup {i + 1} /\ i + 1 \notin Among(i)
    BY <1>4
  <2>. QED BY <1>1, <1>2, <1>3, <1>4, <2>1, FS_AddElement
<1>5. CASE p[i + 1].kind # "acquire"
  <2>1. Among(i + 1) = Among(i)
    BY <1>5
  <2>. QED BY <1>1, <1>2, <1>3, <1>5, <2>1
<1>. QED BY <1>4, <1>5

\* Before an action has been accounted for, and after it, on the main path.
BeforeStore == {"start", "guard", "loop", "manual", "begin", "execute", "backoff",
                "account"}
AfterStore  == {"pause_top", "pause_clear", "pause_wait", "pause_test", "finish"}

\* On the main path the archive holds the points of the actions done so far, and
\* the boundary those of the actions before the one it names.
PointsInv ==
    /\ pc \in BeforeStore => stored = PointsBefore(plan, next)
    /\ pc \in AfterStore => stored = PointsBefore(plan, next + 1)
    /\ boundary.next # 0 => boundary.points = PointsBefore(plan, boundary.next)

\* Steps that neither store a point nor go on to another action.
LEMMA PointsKept ==
    ASSUME PointsInv, UNCHANGED <<plan, next, stored, boundary>>,
           \/ pc' = pc
           \/ pc' \notin BeforeStore \cup AfterStore
           \/ pc \in BeforeStore /\ pc' \in BeforeStore
           \/ pc \in AfterStore /\ pc' \in AfterStore
    PROVE  PointsInv'
  BY DEF PointsInv, BeforeStore, AfterStore

LEMMA LoopHeadPoints == ASSUME FinInv, PointsInv, LoopHead PROVE PointsInv'
<1>1. Len(plan) \in Nat /\ DOMAIN plan = 1..Len(plan) /\ next \in 1..(Len(plan) + 1)
  BY PlanDomain DEF FinInv
<1>2. pc = "loop" /\ UNCHANGED <<plan, stored, boundary>>
  BY DEF LoopHead
<1>3. CASE next' = next /\ pc' \in {"shutdown", "finally", "manual", "begin"}
  BY <1>2, <1>3, PointsKept DEF BeforeStore, AfterStore
<1>4. CASE next <= Len(plan) /\ Act.faultOnly /\ next' = next + 1 /\ pc' = "loop"
  <2>1. plan[next].kind = "off"
    BY <1>1, <1>4, PlanActions DEF FinInv, Act
  <2>2. next - 1 \in Nat /\ (next - 1) + 1 = next /\ (next - 1) + 2 = next + 1
    BY <1>1
  <2>3. PointsBefore(plan, next + 1) = PointsBefore(plan, next)
    BY <2>1, <2>2, PointsBeforeIs
  <2>. QED BY <1>2, <1>4, <2>3 DEF PointsInv, BeforeStore, AfterStore
<1>. QED BY <1>3, <1>4 DEF LoopHead, Goto, Raise

LEMMA AccountPoints == ASSUME FinInv, PointsInv, Account PROVE PointsInv'
<1>1. Len(plan) \in Nat /\ DOMAIN plan = 1..Len(plan) /\ next \in DOMAIN plan
  BY PlanDomain DEF FinInv, Account
<1>2. pc = "account" /\ UNCHANGED <<plan, next, boundary>>
  BY DEF Account
<1>3. next - 1 \in Nat /\ (next - 1) + 1 = next /\ (next - 1) + 2 = next + 1
  BY <1>1
<1>4. /\ PointsBefore(plan, next) \in Nat
      /\ PointsBefore(plan, next + 1) = IF Act.kind = "acquire"
                                          THEN PointsBefore(plan, next) + 1
                                          ELSE PointsBefore(plan, next)
  BY <1>3, PointsBeforeIs DEF Act
<1>5. stored = PointsBefore(plan, next)
  BY <1>2 DEF PointsInv, BeforeStore
<1>6. CASE pc' = "finally"
  BY <1>2, <1>6 DEF PointsInv, BeforeStore, AfterStore
<1>7. CASE Act.kind = "acquire" /\ stored' = stored + 1 /\ pc' \in {"pause_top", "finish"}
  BY <1>2, <1>4, <1>5, <1>7 DEF PointsInv, BeforeStore, AfterStore
<1>8. CASE Act.kind # "acquire" /\ stored' = stored /\ pc' = "finish"
  BY <1>2, <1>4, <1>5, <1>8 DEF PointsInv, BeforeStore, AfterStore
<1>. QED BY <1>6, <1>7, <1>8 DEF Account, Goto, Raise

LEMMA FinishPoints == ASSUME FinInv, TypeInv, PointsInv, Finish PROVE PointsInv'
<1>1. stored = PointsBefore(plan, next + 1)
  BY DEF Finish, PointsInv, AfterStore
<1>2. pc' = "loop" /\ next' = next + 1 /\ UNCHANGED <<plan, stored>>
  BY DEF Finish, Goto
<1>3. boundary' = boundary \/ boundary' = [points |-> stored, next |-> next + 1]
  BY DEF Finish, Boundary
<1>4. boundary'.next # 0 => boundary'.points = PointsBefore(plan, boundary'.next)
  BY <1>1, <1>3 DEF PointsInv
<1>. QED BY <1>1, <1>2, <1>4 DEF PointsInv, BeforeStore, AfterStore

LEMMA NextPoints ==
    ASSUME FinInv, TypeInv, PointsInv, [Next]_vars PROVE PointsInv'
<1>. USE DEF BeforeStore, AfterStore
<1>1. ASSUME Start \/ GuardDryRun \/ ManualWait \/ Begin PROVE PointsInv'
  BY <1>1, PointsKept DEF Start, GuardDryRun, ManualWait, Begin, Goto, Raise, progress
<1>2. ASSUME Execute \/ ExecuteFails \/ Backoff PROVE PointsInv'
  BY <1>2, PointsKept DEF Execute, ExecuteFails, Backoff, Goto, Raise, progress
<1>3. ASSUME PauseTop \/ PauseClear \/ PauseWait \/ PauseTest \/ StorageFails
      PROVE  PointsInv'
  BY <1>3, PointsKept DEF PauseTop, PauseClear, PauseWait, PauseTest, StorageFails,
     Goto, Raise, progress
<1>4. ASSUME Finally \/ FinallyDone \/ ShutdownDone \/ Close PROVE PointsInv'
  BY <1>4, PointsKept DEF Finally, FinallyDone, ShutdownDone, Close, Raise, progress
<1>5. ASSUME NEW d \in Devices, Shutdown(d) PROVE PointsInv'
  BY <1>5, PointsKept DEF Shutdown, progress
<1>6. ASSUME DeadlinePasses \/ WatchdogCopies \/ WatchdogFires \/ WatchdogPasses
             \/ Stop \/ Pause \/ ResumeClears \/ ResumeSets \/ Advance
             \/ EmergencyStop
      PROVE  PointsInv'
  <2>1. UNCHANGED runThread
    BY <1>6, Zenon DEF DeadlinePasses, WatchdogCopies, WatchdogFires,
       WatchdogPasses, Stop, Pause, ResumeClears, ResumeSets, Advance,
       EmergencyStop
  <2>. QED BY <2>1, PointsKept DEF runThread, progress
<1>7. ASSUME NEW d \in Devices, EmergencyOff(d) PROVE PointsInv'
  BY <1>7, PointsKept DEF EmergencyOff, progress
<1>8. ASSUME NEW o \in Outputs, LateEffect(o) PROVE PointsInv'
  BY <1>8, PointsKept DEF LateEffect, progress
<1>9. ASSUME UNCHANGED vars PROVE PointsInv'
  BY <1>9, PointsKept DEF vars
<1>. QED
  BY <1>1, <1>2, <1>3, <1>4, <1>5, <1>6, <1>7, <1>8, <1>9, LoopHeadPoints,
     AccountPoints, FinishPoints DEF Next, RunStep

LEMMA InitPoints == Init => PointsInv
<1>. SUFFICES ASSUME Init PROVE PointsInv
  OBVIOUS
<1>1. PointsBefore(plan, 1) = 0
  BY PointsBeforeIs
<1>2. pc = "start" /\ next = 1 /\ stored = 0 /\ boundary.next = 0
  BY DEF Init
<1>. QED BY <1>1, <1>2 DEF PointsInv, BeforeStore, AfterStore

(* A safe resume boundary names the action that follows exactly the points *)
(* it counts (_record_safe_boundary_if_advanced): resuming there repeats   *)
(* no stored point and skips none.                                         *)
THEOREM BoundaryCountsItsPoints == Spec => []BoundaryMatchesPlan
<1>1. Init => FinInv /\ TypeInv /\ PointsInv
  BY InitFin, InitTyped, InitPoints
<1>2. FinInv /\ TypeInv /\ PointsInv /\ [Next]_vars => (FinInv /\ TypeInv /\ PointsInv)'
  BY NextFin, NextTyped, NextPoints
<1>3. PointsInv => BoundaryMatchesPlan
  BY DEF PointsInv, BoundaryMatchesPlan
<1>. QED BY <1>1, <1>2, <1>3, PTL DEF Spec

\* On the main path an endpoint whose status is off is off, and no call is still
\* being served that could switch it on.  (After an exception this is not so.)
DarkInv ==
    /\ pc \in {"start", "guard"} => \A o \in Outputs : status[o] = "unknown"
    /\ pc = "start" => todo = Owned
    /\ pc = "guard" /\ confirmed => \A d \in Owned \ todo : Of(d) \cap Live = {}
    /\ pc \in BeforeStore \cup AfterStore =>
         \A o \in Outputs : status[o] = "off" => o \notin Live

\* Steps that energize nothing and go on along the main path, or leave it.
LEMMA DarkKept ==
    ASSUME DarkInv, UNCHANGED <<plan, status, todo, confirmed>>, Live' \subseteq Live,
           \/ pc' = pc
           \/ pc \in BeforeStore \cup AfterStore /\ pc' \notin {"start", "guard"}
    PROVE  DarkInv'
<1>1. Owned' = Owned
  BY DEF Owned, Scope
<1>. QED BY <1>1 DEF DarkInv, BeforeStore, AfterStore

LEMMA DarkElsewhere ==
    ASSUME pc' \notin BeforeStore \cup AfterStore PROVE DarkInv'
  BY DEF DarkInv, BeforeStore, AfterStore

LEMMA StartDark == ASSUME DarkInv, Start PROVE DarkInv'
<1>1. pc = "start" /\ UNCHANGED <<plan, todo, confirmed, output, pending>>
  BY DEF Start, physical
<1>2. CASE Raise(stop, timedOut)
  BY <1>2, DarkElsewhere DEF Raise, BeforeStore, AfterStore
<1>3. CASE Goto("guard")
  <2>1. Owned' = Owned
    BY <1>1 DEF Owned, Scope
  <2>. QED BY <1>1, <1>3, <2>1 DEF DarkInv, Goto, BeforeStore, AfterStore
<1>4. CASE Goto("loop")
  BY <1>1, <1>4, DarkKept DEF Goto, Live, BeforeStore
<1>. QED BY <1>2, <1>3, <1>4 DEF Start

LEMMA GuardDark == ASSUME TypeInv, DarkInv, GuardDryRun PROVE DarkInv'
<1>1. /\ pc = "guard" /\ plan' = plan /\ Owned' = Owned
      /\ \A o \in Outputs : status[o] = "unknown"
      /\ status \in [Outputs -> {"on", "off", "unknown"}]
  BY DEF GuardDryRun, DarkInv, Owned, Scope, TypeInv, TypeOK
<1>2. ASSUME NEW d \in todo, todo' = todo \ {d}, Goto("guard"),
             \/ output' = output \ Of(d) /\ pending' = pending \ Of(d)
                /\ confirmed' = confirmed
             \/ output' \in {output, output \ Of(d)} /\ pending' = pending
                /\ confirmed' = FALSE
      PROVE  DarkInv'
  <2>1. pc' = "guard" /\ status' = status
    BY <1>2 DEF Goto
  <2>2. confirmed' => \A e \in Owned \ todo' : Of(e) \cap Live' = {}
    <3>1. CASE confirmed'
      <4>1. Live' = Live \ Of(d) /\ confirmed
        BY <1>2, <3>1 DEF Live
      <4>. QED BY <1>1, <1>2, <4>1 DEF DarkInv
    <3>. QED BY <3>1
  <2>. QED BY <1>1, <2>1, <2>2 DEF DarkInv, AfterStore
<1>3. ASSUME todo = {}, confirmed, UNCHANGED physical, pc' = "loop",
             status' = [o \in Outputs |-> IF DeviceOf[o] \in Owned THEN "off" ELSE status[o]]
      PROVE  DarkInv'
  <2>1. \A o \in Outputs : status'[o] = "off" => DeviceOf[o] \in Owned
    BY <1>1, <1>3
  <2>2. \A o \in Outputs : DeviceOf[o] \in Owned => o \notin Live
    BY <1>1, <1>3 DEF DarkInv, Of
  <2>3. Live' = Live
    BY <1>3 DEF Live, physical
  <2>. QED BY <1>3, <2>1, <2>2, <2>3 DEF DarkInv
<1>4. CASE Raise(stop, timedOut)
  BY <1>4, DarkElsewhere DEF Raise, BeforeStore, AfterStore
<1>. QED BY <1>2, <1>3, <1>4 DEF GuardDryRun

\* A call that returned has left the outputs as the status says.
LEMMA ExecuteDark == ASSUME FinInv, TypeInv, DarkInv, Execute PROVE DarkInv'
<1>1. /\ pc = "execute" /\ Performed(Act) /\ next \in DOMAIN plan
      /\ status \in [Outputs -> {"on", "off", "unknown"}]
      /\ \A o \in Outputs : status[o] = "off" => o \notin Live
  BY DEF Execute, FinInv, TypeInv, TypeOK, DarkInv, BeforeStore
<1>2. /\ Act.kind \in Kinds
      /\ Act.kind \in {"configure", "on", "off", "assert"} => Act.out \in Outputs
  BY <1>1, PlanActions DEF FinInv, Act, Action
<1>3. CASE Raise(TRUE, TRUE)
  BY <1>3, DarkElsewhere DEF Raise, BeforeStore, AfterStore
<1>4. CASE pc' = "account" /\ status' = Confirms(Act)
  <2>1. ASSUME NEW o \in Outputs, status'[o] = "off" PROVE o \notin Live'
    <3>1. CASE Act.kind \in {"configure", "on", "off"}
      <4>1. Switched(Act.out, Requested(Act))
        BY <1>1, <3>1, Zenon DEF Performed
      <4>2. status' = [status EXCEPT ![Act.out] = IF Requested(Act) THEN "on" ELSE "off"]
        BY <1>4, <3>1 DEF Confirms
      <4>3. Live' \subseteq Live \cup {Act.out}
            /\ (~Requested(Act) => Act.out \notin output')
        BY <4>1 DEF Switched, Live
      <4>4. Act.out \notin pending'
        BY <1>2, <3>1, <4>1 DEF Switched, Of
      <4>. QED BY <1>1, <1>2, <2>1, <3>1, <4>2, <4>3, <4>4 DEF Live
    <3>2. CASE Act.kind = "assert"
      <4>1. /\ (Act.out \in output) = Requested(Act) /\ Act.out \notin pending
            /\ UNCHANGED physical
        BY <1>1, <3>2 DEF Performed
      <4>2. status' = [status EXCEPT ![Act.out] = IF Requested(Act) THEN "on" ELSE "off"]
        BY <1>4, <3>2 DEF Confirms
      <4>. QED BY <1>1, <1>2, <2>1, <3>2, <4>1, <4>2 DEF Live, physical
    <3>3. CASE Act.kind \in {"update", "measure", "acquire", "wait"}
      <4>1. status' = status /\ UNCHANGED physical
        BY <1>1, <1>4, <3>3 DEF Performed, Confirms
      <4>. QED BY <1>1, <2>1, <4>1 DEF Live, physical
    <3>. QED BY <1>2, <3>1, <3>2, <3>3 DEF Kinds
  <2>. QED BY <1>4, <2>1 DEF DarkInv
<1>. QED BY <1>3, <1>4 DEF Execute

\* Only an ON call that failed may energize an output, and it is not retried.
LEMMA ExecuteFailsDark == ASSUME FinInv, DarkInv, ExecuteFails PROVE DarkInv'
<1>1. pc = "execute" /\ UNCHANGED <<plan, todo, confirmed>>
  BY DEF ExecuteFails
<1>2. CASE Raise(stop, timedOut)
  BY <1>2, DarkElsewhere DEF Raise, BeforeStore, AfterStore
<1>3. CASE MayRetry /\ Goto("backoff")
  <2>1. Act.kind # "on"
    BY <1>3 DEF MayRetry, CanRetry
  <2>2. UNCHANGED physical \/ Failed(Act.out, Act.kind = "on" /\ ~ForcedOff)
    BY DEF ExecuteFails
  <2>3. Live' \subseteq Live
    BY <2>1, <2>2 DEF Failed, Live, physical
  <2>. QED BY <1>1, <1>3, <2>3, DarkKept DEF Goto, BeforeStore
<1>. QED BY <1>2, <1>3 DEF ExecuteFails

LEMMA NextDark ==
    ASSUME FinInv, TypeInv, DarkInv, [Next]_vars PROVE DarkInv'
<1>1. ASSUME ManualWait \/ Begin \/ Backoff \/ Account \/ Finish
      PROVE  DarkInv'
  <2>1. /\ UNCHANGED <<plan, todo, confirmed, physical>>
        /\ pc \in BeforeStore \cup AfterStore
        /\ \/ pc' = "finally"
           \/ status' = status /\ pc' \notin {"start", "guard"}
    BY <1>1 DEF ManualWait, Begin, Backoff, Account, Finish, Goto, Raise, BeforeStore,
       AfterStore
  <2>. QED BY <2>1, DarkKept, DarkElsewhere DEF Live, physical, BeforeStore, AfterStore
<1>2. ASSUME PauseTop \/ PauseClear \/ PauseWait \/ PauseTest PROVE DarkInv'
  <2>1. /\ UNCHANGED <<plan, todo, confirmed, physical>>
        /\ pc \in BeforeStore \cup AfterStore
        /\ \/ pc' = "finally"
           \/ status' = status /\ pc' \notin {"start", "guard"}
    BY <1>2 DEF PauseTop, PauseClear, PauseWait, PauseTest, Goto, Raise, BeforeStore,
       AfterStore
  <2>. QED BY <2>1, DarkKept, DarkElsewhere DEF Live, physical, BeforeStore, AfterStore
<1>3. ASSUME LoopHead PROVE DarkInv'
  <2>1. /\ UNCHANGED <<plan, physical>> /\ pc = "loop"
        /\ \/ pc' \in {"finally", "shutdown"}
           \/ UNCHANGED <<status, todo, confirmed>> /\ pc' \in {"loop", "manual", "begin"}
    BY <1>3 DEF LoopHead, Goto, Raise
  <2>. QED BY <2>1, DarkKept, DarkElsewhere DEF Live, physical, BeforeStore, AfterStore
<1>4. ASSUME \/ StorageFails \/ Finally \/ FinallyDone \/ ShutdownDone \/ Close
             \/ \E d \in Devices : Shutdown(d)
      PROVE  DarkInv'
  <2>1. pc' \in {"finally", "shutdown", "close", "done"}
    BY <1>4 DEF StorageFails, Finally, FinallyDone, ShutdownDone, Close, Shutdown, Raise
  <2>. QED BY <2>1, DarkElsewhere DEF BeforeStore, AfterStore
<1>5. ASSUME DeadlinePasses \/ WatchdogCopies \/ WatchdogFires \/ WatchdogPasses
             \/ Stop \/ Pause \/ ResumeClears \/ ResumeSets \/ Advance
             \/ EmergencyStop
      PROVE  DarkInv'
  <2>1. UNCHANGED runThread
    BY <1>5, Zenon DEF DeadlinePasses, WatchdogCopies, WatchdogFires,
       WatchdogPasses, Stop, Pause, ResumeClears, ResumeSets, Advance,
       EmergencyStop
  <2>. QED BY <2>1, DarkKept DEF runThread, evidence, cleanup, physical, Live
<1>6. ASSUME NEW d \in Devices, EmergencyOff(d) PROVE DarkInv'
  BY <1>6, DarkKept DEF EmergencyOff, evidence, cleanup, Live
<1>7. ASSUME NEW o \in Outputs, LateEffect(o) PROVE DarkInv'
  BY <1>7, DarkKept DEF LateEffect, evidence, cleanup, Live
<1>8. ASSUME UNCHANGED vars PROVE DarkInv'
  BY <1>8, DarkKept DEF vars, Live
<1>. QED
  BY <1>1, <1>2, <1>3, <1>4, <1>5, <1>6, <1>7, <1>8, StartDark, GuardDark,
     ExecuteDark, ExecuteFailsDark DEF Next, RunStep

LEMMA InitDark == Init => DarkInv
  BY DEF Init, DarkInv

\* Only Finish records a boundary.
LEMMA BoundaryMoves ==
    ASSUME [Next]_vars, boundary' # boundary PROVE Finish
<1>1. CASE Start \/ GuardDryRun \/ LoopHead \/ ManualWait \/ Begin
  BY <1>1 DEF Start, GuardDryRun, LoopHead, ManualWait, Begin, progress
<1>2. CASE Execute \/ ExecuteFails \/ Backoff \/ Account
  BY <1>2 DEF Execute, ExecuteFails, Backoff, Account, progress
<1>3. CASE PauseTop \/ PauseClear \/ PauseWait \/ PauseTest \/ StorageFails
  BY <1>3 DEF PauseTop, PauseClear, PauseWait, PauseTest, StorageFails, progress
<1>4. CASE Finally \/ FinallyDone \/ ShutdownDone \/ Close
  BY <1>4 DEF Finally, FinallyDone, ShutdownDone, Close, progress
<1>5. ASSUME NEW d \in Devices, Shutdown(d) PROVE FALSE
  BY <1>5 DEF Shutdown, progress
<1>6. CASE \/ DeadlinePasses \/ WatchdogCopies \/ WatchdogFires \/ WatchdogPasses
           \/ Stop \/ Pause \/ ResumeClears \/ ResumeSets \/ Advance
           \/ EmergencyStop
  <2>1. UNCHANGED runThread
    BY <1>6, Zenon DEF DeadlinePasses, WatchdogCopies, WatchdogFires,
       WatchdogPasses, Stop, Pause, ResumeClears, ResumeSets, Advance,
       EmergencyStop
  <2>. QED BY <2>1 DEF runThread, progress
<1>7. ASSUME NEW d \in Devices, EmergencyOff(d) PROVE FALSE
  BY <1>7 DEF EmergencyOff, progress
<1>8. ASSUME NEW o \in Outputs, LateEffect(o) PROVE FALSE
  BY <1>8 DEF LateEffect, progress
<1>. QED
  BY <1>1, <1>2, <1>3, <1>4, <1>5, <1>6, <1>7, <1>8 DEF Next, RunStep, vars

(* A safe resume boundary is recorded only while every output the plan     *)
(* controls is physically off (_record_safe_boundary_if_advanced computes  *)
(* it from the flags and the reported statuses alone).                     *)
THEOREM BoundaryInTheDark == Spec => BoundaryIsSafe
<1>1. Init => FinInv /\ TypeInv /\ DarkInv
  BY InitFin, InitTyped, InitDark
<1>2. FinInv /\ TypeInv /\ DarkInv /\ [Next]_vars => (FinInv /\ TypeInv /\ DarkInv)'
  BY NextFin, NextTyped, NextDark
<1>3. FinInv /\ TypeInv /\ DarkInv /\ [Next]_vars
      => [boundary' # boundary => Scope \cap (output \cup pending) = {}]_vars
  <2>. SUFFICES ASSUME FinInv, TypeInv, DarkInv, [Next]_vars, boundary' # boundary
                PROVE  Scope \cap (output \cup pending) = {}
    OBVIOUS
  <2>1. Finish
    BY BoundaryMoves
  <2>2. \A o \in Scope : status[o] = "off"
    BY <2>1 DEF Finish, Boundary
  <2>3. Scope \subseteq Outputs
    BY ScopeOwned DEF FinInv
  <2>. QED BY <2>1, <2>2, <2>3 DEF Finish, DarkInv, AfterStore, Live
<1>. QED BY <1>1, <1>2, <1>3, PTL DEF Spec, BoundaryIsSafe
=============================================================================
