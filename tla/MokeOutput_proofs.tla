-------------------------- MODULE MokeOutput_proofs --------------------------
(***************************************************************************)
(* Proofs, for every set of outputs, every envelope and every bound, that  *)
(* a zero the adapter vouches for is one the output comes to rest at, and  *)
(* that a job reports the target its output holds.                         *)
(***************************************************************************)
EXTENDS MokeOutput, SequenceTheorems, WellFoundedInduction, TLAPS

-----------------------------------------------------------------------------
(* Where a channel comes to rest.                                          *)

SetCommand == [ch : Channels, v : Voltages]
Rest == [c \in Channels |-> Final(c)]
WireTyped == wire \in Seq(SetCommand)

LEMMA HasMax ==
    ASSUME NEW S \in SUBSET Nat, S # {}, NEW n \in Nat, \A i \in S : i <= n
    PROVE  \E m \in S : \A i \in S : i <= m
<1>. DEFINE U == {k \in Nat : \A i \in S : i <= k}
<1>1. U \subseteq Nat /\ U # {}
  OBVIOUS
<1>2. \E m \in U : \A k \in U : <<k, m>> \notin OpToRel(<, Nat)
  BY <1>1, NatLessThanWellFounded, WFMin, Zenon
<1>3. PICK m \in U : \A k \in U : m <= k
  <2>1. \A j, k \in Nat : <<k, j>> \notin OpToRel(<, Nat) => j <= k
    BY DEF OpToRel
  <2>. QED
    BY <1>1, <1>2, <2>1
<1>4. m \in S
  <2>. SUFFICES ASSUME m \notin S PROVE FALSE
    OBVIOUS
  <2>1. PICK i \in S : TRUE
    OBVIOUS
  <2>2. m \in Nat /\ m - 1 \in Nat /\ \A j \in S : j <= m - 1
    BY <2>1
  <2>3. m - 1 \in U
    BY <2>2
  <2>. QED
    BY <1>3, <2>2, <2>3
<1>. QED
  BY <1>4

LEMMA RangeOfTail ==
    ASSUME NEW s \in Seq(Channels), s # <<>>
    PROVE  Range(s) = {Head(s)} \cup Range(Tail(s))
<1>1. PICK n \in Nat : Len(s) = n + 1 /\ DOMAIN s = 1..(n + 1)
  OBVIOUS
<1>2. /\ Head(s) = s[1] /\ DOMAIN Tail(s) = 1..n
      /\ \A i \in 1..n : Tail(s)[i] = s[i + 1]
  BY <1>1, HeadTailProperties
<1>3. \A i \in 1..(n + 1) : i = 1 \/ (i - 1 \in 1..n /\ (i - 1) + 1 = i)
  OBVIOUS
<1>4. Range(s) = {s[i] : i \in 1..(n + 1)} /\ Range(Tail(s)) = {s[i + 1] : i \in 1..n}
  BY <1>1, <1>2 DEF Range
<1>5. \A i \in 1..n : i + 1 \in 1..(n + 1)
  OBVIOUS
<1>6. 1 \in 1..(n + 1)
  OBVIOUS
<1>7. \A x : x \in {s[i] : i \in 1..(n + 1)} <=> x = s[1] \/ x \in {s[i + 1] : i \in 1..n}
  <2>1. ASSUME NEW i \in 1..(n + 1) PROVE s[i] = s[1] \/ s[i] \in {s[j + 1] : j \in 1..n}
    BY <1>3
  <2>2. ASSUME NEW i \in 1..n PROVE s[i + 1] \in {s[j] : j \in 1..(n + 1)}
    BY <1>5
  <2>. QED
    BY <1>6, <2>1, <2>2
<1>. QED
  BY <1>2, <1>4, <1>7

LEMMA MaxIs ==
    ASSUME NEW S \in SUBSET Nat, NEW m \in S, \A i \in S : i <= m PROVE Max(S) = m
<1>1. \A i \in S : m >= i
  OBVIOUS
<1>2. Max(S) \in S /\ \A i \in S : Max(S) >= i
  BY <1>1, Zenon DEF Max
<1>3. PICK x \in S : x = Max(S) /\ \A i \in S : x >= i
  BY <1>2, Zenon
<1>4. x = m
  BY <1>3
<1>. QED
  BY <1>3, <1>4, Zenon

\* The last SET of a channel on the wire, or else what the output shows.
IsLast(c, i) ==
    /\ i \in DOMAIN wire /\ wire[i].ch = c
    /\ \A j \in DOMAIN wire : wire[j].ch = c => j <= i
FinalShape ==
    \A c : /\ \A i : IsLast(c, i) => Final(c) = wire[i].v
           /\ (\A i \in DOMAIN wire : wire[i].ch # c) => Final(c) = dac[c]
           /\ (\E i \in DOMAIN wire : wire[i].ch = c) => \E i : IsLast(c, i)

LEMMA FinalIs == WireTyped => FinalShape
<1>. USE DEF WireTyped
<1>. SUFFICES ASSUME WireTyped, NEW c
              PROVE  /\ \A i : IsLast(c, i) => Final(c) = wire[i].v
                     /\ (\A i \in DOMAIN wire : wire[i].ch # c) => Final(c) = dac[c]
                     /\ (\E i \in DOMAIN wire : wire[i].ch = c) => \E i : IsLast(c, i)
  BY DEF FinalShape
<1>1. PICK n \in Nat : n = Len(wire) /\ DOMAIN wire = 1..n
  OBVIOUS
<1>2. Sets(c) \in SUBSET Nat /\ \A i \in Sets(c) : i <= n
  BY <1>1 DEF Sets
<1>3. ASSUME NEW i, IsLast(c, i) PROVE Final(c) = wire[i].v
  <2>1. i \in Sets(c) /\ \A j \in Sets(c) : j <= i
    BY <1>3 DEF IsLast, Sets
  <2>2. Max(Sets(c)) = i
    BY <1>2, <2>1, MaxIs
  <2>. QED
    BY <2>1, <2>2 DEF Final
<1>4. ASSUME \A i \in DOMAIN wire : wire[i].ch # c PROVE Final(c) = dac[c]
  BY <1>4 DEF Final, Sets
<1>5. ASSUME NEW i \in DOMAIN wire, wire[i].ch = c PROVE \E j : IsLast(c, j)
  <2>1. Sets(c) # {}
    BY <1>5 DEF Sets
  <2>2. PICK m \in Sets(c) : \A j \in Sets(c) : j <= m
    BY <1>2, <2>1, HasMax
  <2>3. IsLast(c, m)
    BY <2>2 DEF IsLast, Sets
  <2>. QED
    BY <2>3
<1>. QED
  BY <1>3, <1>4, <1>5

LEMMA FinalIsNext == WireTyped' => FinalShape'
BY FinalIs, PTL

LEMMA RestSame == ASSUME UNCHANGED <<dac, wire>> PROVE Rest' = Rest
BY DEF Rest, Final, Sets

LEMMA RestShown ==
    ASSUME WireTyped, NEW c \in Channels,
           \A i \in DOMAIN wire : wire[i].ch # c
    PROVE  Rest[c] = dac[c]
BY FinalIs DEF FinalShape, Rest

LEMMA RestSent ==
    ASSUME WireTyped, NEW c \in Channels, NEW v \in Voltages,
           wire' = Append(wire, [ch |-> c, v |-> v]), UNCHANGED dac
    PROVE  /\ Rest'[c] = v
           /\ \A d \in Channels \ {c} : Rest'[d] = Rest[d]
<1>1. PICK n \in Nat : n = Len(wire) /\ DOMAIN wire = 1..n
  BY DEF WireTyped
<1>2. [ch |-> c, v |-> v] \in SetCommand
  BY DEF SetCommand
<1>3. /\ wire' \in Seq(SetCommand) /\ DOMAIN wire' = 1..(n + 1)
      /\ wire'[n + 1] = [ch |-> c, v |-> v]
      /\ \A i \in 1..n : wire'[i] = wire[i]
  BY <1>1, <1>2, AppendProperties DEF WireTyped
<1>4. WireTyped'
  BY <1>3 DEF WireTyped
<1>5. FinalShape /\ FinalShape'
  BY <1>4, FinalIs, FinalIsNext
<1>6. Final(c)' = v
  <2>1. IsLast(c, n + 1)'
    BY <1>3 DEF IsLast
  <2>. QED
    BY <1>3, <1>5, <2>1 DEF FinalShape
<1>7. ASSUME NEW d \in Channels \ {c} PROVE Final(d)' = Final(d)
  <2>1. CASE \A i \in DOMAIN wire : wire[i].ch # d
    <3>1. \A i \in DOMAIN wire' : wire'[i].ch # d
      BY <1>1, <1>3, <2>1
    <3>. QED
      BY <1>5, <2>1, <3>1 DEF FinalShape
  <2>2. CASE \E i \in DOMAIN wire : wire[i].ch = d
    <3>1. PICK i : IsLast(d, i)
      BY <1>5, <2>2 DEF FinalShape
    <3>2. IsLast(d, i)' /\ wire'[i] = wire[i]
      BY <1>1, <1>3, <3>1 DEF IsLast
    <3>3. Final(d) = wire[i].v
      BY <1>5, <3>1 DEF FinalShape
    <3>4. Final(d)' = wire'[i].v
      BY <1>5, <3>2 DEF FinalShape
    <3>. QED
      BY <3>2, <3>3, <3>4
  <2>. QED
    BY <2>1, <2>2
<1>. QED
  BY <1>6, <1>7 DEF Rest

LEMMA RestCarried ==
    ASSUME WireTyped, dac \in [Channels -> Voltages], CarryOut
    PROVE  /\ Rest' = Rest
           /\ WireTyped' /\ dac' \in [Channels -> Voltages]
           /\ \A c \in Channels : (\A i \in DOMAIN wire : wire[i].ch # c) => dac'[c] = dac[c]
           /\ \A i \in DOMAIN wire' : wire'[i] = wire[i + 1] /\ i + 1 \in DOMAIN wire
<1>1. PICK n \in Nat : Len(wire) = n + 1 /\ DOMAIN wire = 1..(n + 1)
  BY DEF CarryOut, WireTyped
<1>2. /\ wire' \in Seq(SetCommand) /\ DOMAIN wire' = 1..n
      /\ \A i \in 1..n : wire'[i] = wire[i + 1]
      /\ Head(wire) = wire[1] /\ wire[1] \in SetCommand
  BY <1>1, HeadTailProperties DEF CarryOut, WireTyped
<1>3. /\ dac' \in [Channels -> Voltages]
      /\ \A c \in Channels : dac'[c] = IF c = wire[1].ch THEN wire[1].v ELSE dac[c]
  BY <1>2 DEF CarryOut, SetCommand
<1>4. WireTyped'
  BY <1>2 DEF WireTyped
<1>5. FinalShape /\ FinalShape'
  BY <1>4, FinalIs, FinalIsNext
<1>6. ASSUME NEW c \in Channels PROVE Final(c)' = Final(c)
  <2>1. CASE \A i \in DOMAIN wire : wire[i].ch # c
    <3>1. \A i \in DOMAIN wire' : wire'[i].ch # c
      BY <1>1, <1>2, <2>1
    <3>2. dac'[c] = dac[c]
      BY <1>1, <1>3, <2>1
    <3>. QED
      BY <1>5, <2>1, <3>1, <3>2 DEF FinalShape
  <2>2. CASE \E i \in DOMAIN wire : wire[i].ch = c
    <3>1. PICK i : IsLast(c, i)
      BY <1>5, <2>2 DEF FinalShape
    <3>2. i \in 1..(n + 1) /\ wire[i].ch = c /\ Final(c) = wire[i].v
      BY <1>1, <1>5, <3>1 DEF IsLast, FinalShape
    <3>3. CASE i = 1
      <4>1. \A j \in DOMAIN wire' : wire'[j].ch # c
        BY <1>1, <1>2, <3>1, <3>3 DEF IsLast
      <4>. QED
        BY <1>3, <1>5, <3>2, <3>3, <4>1 DEF FinalShape
    <3>4. CASE i # 1
      <4>1. i - 1 \in 1..n /\ wire'[i - 1] = wire[i]
        BY <1>2, <3>2, <3>4
      <4>2. IsLast(c, i - 1)'
        <5>1. \A j \in 1..n : wire[j + 1].ch = c => j <= i - 1
          BY <1>1, <3>1, <3>2 DEF IsLast
        <5>. QED
          BY <1>2, <3>2, <4>1, <5>1 DEF IsLast
      <4>. QED
        BY <1>5, <3>2, <4>1, <4>2 DEF FinalShape
    <3>. QED
      BY <3>3, <3>4
  <2>. QED
    BY <2>1, <2>2
<1>7. \A i \in DOMAIN wire' : wire'[i] = wire[i + 1] /\ i + 1 \in DOMAIN wire
  BY <1>1, <1>2
<1>8. \A c \in Channels : (\A i \in DOMAIN wire : wire[i].ch # c) => dac'[c] = dac[c]
  BY <1>1, <1>3
<1>. QED
  BY <1>3, <1>4, <1>6, <1>7, <1>8 DEF Rest

-----------------------------------------------------------------------------
(* Types.                                                                  *)

CallTyped == op \in Calls
JobTyped == job \in Jobs
PlanTyped ==
    plan \in [targets : Seq(Voltages), armed : BOOLEAN, next : Nat \ {0}, active : Channels]
BoxTyped ==
    /\ dac \in [Channels -> Voltages] /\ WireTyped
    /\ replies \in Seq([Channels -> Voltages])
MailboxTyped == mailbox \in [pending : Voltages \cup {NoTarget}, open : BOOLEAN]
FlagsTyped ==
    /\ connected \in BOOLEAN /\ flag \in BOOLEAN /\ safe \in BOOLEAN /\ cancel \in BOOLEAN
    /\ state \in {"disconnected", "verified", "unknown", "fault"}
    /\ changed \subseteq touched /\ touched \subseteq Channels
    /\ jobs \in 0..MaxJobs /\ lives \in 0..MaxLive /\ faults \in 0..MaxFaults
Typed == CallTyped /\ JobTyped /\ PlanTyped /\ BoxTyped /\ MailboxTyped /\ FlagsTyped

LEMMA Envelope ==
    /\ 0 \in Voltages /\ Head(Approved) \in Channels
    /\ \A c \in Channels : Targets(c) \subseteq Voltages /\ 0 \in Targets(c)
    /\ \A v \in Voltages : v \in Int /\ v # NoTarget
BY ApprovedAssumption, EnvelopeAssumption, HeadTailProperties
   DEF Voltages, Targets, NoTarget

LEMMA NewCallTyped ==
    /\ NoCall \in Calls
    /\ \A of \in {"ramp", "stop", "abort"} : \A c \in Channels : \A t \in Voltages :
          Call(of, c, t) \in Calls
<1>1. NoCall \in Calls
  BY Envelope DEF Calls, NoCall
<1>2. ASSUME NEW of \in {"ramp", "stop", "abort"}, NEW c \in Channels, NEW t \in Voltages
      PROVE  Call(of, c, t) \in Calls
  BY <1>1, <1>2 DEF Calls, Call
<1>. QED
  BY <1>1, <1>2

\* What a readback can be, and what it leaves of the replies.
LEMMA HeardTyped ==
    ASSUME BoxTyped
    PROVE  /\ Heard \in [Channels -> Voltages]
           /\ Heard = dac \/ \E j \in DOMAIN replies : Heard = replies[j]
           /\ Hear => /\ replies' \in Seq([Channels -> Voltages])
                      /\ replies' = <<>> <=> replies = <<>>
                      /\ replies = <<>> => Heard = dac
                      /\ \A i \in DOMAIN replies' :
                            replies'[i] = dac \/ \E j \in DOMAIN replies : replies'[i] = replies[j]
<1>. DEFINE V == [Channels -> Voltages]
<1>1. dac \in V /\ replies \in Seq(V)
  BY DEF BoxTyped
<1>. HIDE DEF V
<1>2. CASE replies = <<>>
  BY <1>1, <1>2 DEF Heard, Hear, V
<1>3. CASE replies # <<>>
  <2>1. PICK n \in Nat : Len(replies) = n + 1 /\ DOMAIN replies = 1..(n + 1)
    BY <1>1, <1>3
  <2>2. /\ Tail(replies) \in Seq(V) /\ Len(Tail(replies)) = n
        /\ \A i \in 1..n : Tail(replies)[i] = replies[i + 1]
        /\ Head(replies) = replies[1] /\ replies[1] \in V
    BY <1>1, <1>3, <2>1, HeadTailProperties
  <2>3. ASSUME Hear
        PROVE  /\ replies' \in Seq(V) /\ DOMAIN replies' = 1..(n + 1)
               /\ replies'[n + 1] = dac
               /\ \A i \in 1..n : replies'[i] = replies[i + 1]
    <3>1. replies' = Append(Tail(replies), dac)
      BY <1>3, <2>3 DEF Hear
    <3>. QED
      BY <1>1, <2>2, <3>1, AppendProperties
  <2>4. ASSUME Hear
        PROVE  /\ replies' # <<>>
               /\ \A i \in DOMAIN replies' :
                     replies'[i] = dac \/ \E j \in DOMAIN replies : replies'[i] = replies[j]
    <3>1. replies' # <<>>
      BY <2>3, <2>4
    <3>2. ASSUME NEW i \in 1..n PROVE \E j \in DOMAIN replies : replies'[i] = replies[j]
      BY <2>1, <2>3, <2>4, SMTT(30)
    <3>3. \A i \in 1..(n + 1) : i = n + 1 \/ i \in 1..n
      OBVIOUS
    <3>. QED
      BY <2>3, <2>4, <3>1, <3>2, <3>3
  <2>5. Heard \in V /\ \E j \in DOMAIN replies : Heard = replies[j]
    BY <1>3, <2>1, <2>2 DEF Heard
  <2>. QED
    BY <1>3, <2>3, <2>4, <2>5 DEF V
<1>. QED
  BY <1>2, <1>3

LEMMA TowardTyped ==
    ASSUME NEW v \in Voltages, NEW t \in Voltages
    PROVE  Toward(v, t) \in Voltages /\ (v # t => Toward(v, t) # v)
BY EnvelopeAssumption DEF Voltages, Toward, Abs

-----------------------------------------------------------------------------
(* The inductive invariant.                                                *)

\* Whether a call is ramping, or shutting down, a channel.
OnChannel == op.pc \notin {"idle", "next"}

\* Whose call is in progress.
ControlInv ==
    /\ op.pc # "idle" => \/ job.at = "ramping" /\ op.of \in {"ramp", "abort"}
                         \/ job.at = "stopping" /\ op.of = "stop"
                         \/ job.at = "rescue" /\ op.of = "emergency"
    /\ op.pc = "next" => op.of = "emergency"
    /\ job.at = "ramping" => op.of \in {"ramp", "abort"}
    /\ job.at = "stopping" => op.of = "stop"
    /\ job.at = "ramping" /\ OnChannel => op.ch = job.ch
    /\ op.of = "abort" => op.answer # "ok"

\* A shutdown goes for zero and never settles: it ends with a SET to zero.  What is
\* to be confirmed is what the channel was told last.
ShutdownInv ==
    /\ op.pc # "idle" /\ op.of # "ramp" => op.target = 0
    /\ op.pc = "settle" => op.of = "ramp"
    /\ op.pc = "loop" /\ op.of # "ramp" => op.actual # 0 \/ op.ch \in changed
    /\ op.pc = "confirm" => op.ch \in changed /\ Rest[op.ch] = op.next

WrittenInv == (\A c \in touched \ changed : Rest[c] = 0) /\ (safe => changed = {})

\* A channel that was never written shows, and is said to show, what it always did.
UntouchedInv ==
    /\ \A i \in DOMAIN wire : wire[i].ch \in touched
    /\ \A i \in DOMAIN replies : \A c \in Channels \ touched : replies[i][c] = dac[c]

\* What an emergency stop is done with, and what it still has to do.
Done == IF OnChannel THEN op.tried \ {op.ch} ELSE op.tried
EmergencyInv ==
    op.of = "emergency" =>
        /\ OnChannel => op.ch \in op.tried
        /\ ~op.failed => /\ \A c \in Done : Rest[c] = 0
                         /\ Channels \subseteq op.tried \cup Range(op.left)
                         /\ op.pc = "idle" => op.left = <<>>

ZeroInv == WrittenInv /\ UntouchedInv /\ EmergencyInv

\* The voltages of a job are within the envelope of its channel.
WithinJob ==
    /\ \A i \in DOMAIN job.targets : job.targets[i] \in Targets(job.ch)
    /\ mailbox.pending # NoTarget => mailbox.pending \in Targets(job.ch)
    /\ job.kind = "voltage" => Len(job.targets) = 1

\* A ramp that has not failed is one of the plan of its job.
Sound == op.of = "ramp" /\ (op.pc # "idle" \/ op.answer = "ok")
PlanInv ==
    /\ job.at \in {"configured", "armed", "ramping"} => job.kind \in {"voltage", "calibration"}
    /\ job.at \in {"configured", "armed"} \/ (job.at = "ramping" /\ Sound)
         => plan.targets = job.targets
    /\ job.at = "armed" /\ job.kind = "voltage" => plan.next = 1
    /\ OnChannel /\ op.of = "ramp" => op.target \in Targets(op.ch)

\* A target that was reached is held until the next call.
HeldInv ==
    /\ (job.at = "ramping" /\ op.pc = "idle" /\ op.answer = "ok") =>
         /\ op.target \in Targets(job.ch)
         /\ replies = <<>> => Rest[job.ch] = op.target
    /\ job.result # NoTarget =>
         /\ job.at \in {"over", "none"}
         /\ job.at = "over" => /\ job.result \in Targets(job.ch)
                               /\ replies = <<>> => Rest[job.ch] = job.result

ResultInv == WithinJob /\ PlanInv /\ HeldInv
IInv == Typed /\ ControlInv /\ ShutdownInv /\ ZeroInv /\ ResultInv

-----------------------------------------------------------------------------
(* How a call goes on and ends.                                            *)

\* Steps that neither send nor carry out a SET.
LEMMA BoxKeeps ==
    ASSUME IInv, UNCHANGED <<dac, wire, touched>>,
           replies' = replies \/ replies' = <<>> \/ Hear \/ replies' = Append(replies, dac)
    PROVE  UntouchedInv' /\ Rest' = Rest /\ BoxTyped'
<1>. DEFINE V == [Channels -> Voltages]
<1>1. BoxTyped /\ UntouchedInv
  BY DEF IInv, Typed, ZeroInv
<1>2. Rest' = Rest /\ WireTyped'
  BY <1>1, RestSame DEF BoxTyped, WireTyped
<1>3. replies \in Seq(V) /\ dac \in V
  BY <1>1 DEF BoxTyped
<1>4. /\ replies' \in Seq(V)
      /\ \A i \in DOMAIN replies' :
            replies'[i] = dac \/ \E j \in DOMAIN replies : replies'[i] = replies[j]
  <2>1. CASE replies' = replies
    BY <1>3, <2>1
  <2>2. CASE replies' = <<>>
    BY <2>2
  <2>3. CASE Hear
    BY <1>1, <2>3, HeardTyped
  <2>4. CASE replies' = Append(replies, dac)
    <3>. HIDE DEF V
    <3>. QED
      BY <1>3, <2>4, AppendProperties
  <2>. QED
    BY <2>1, <2>2, <2>3, <2>4
<1>5. UntouchedInv'
  BY <1>1, <1>4 DEF UntouchedInv
<1>. QED
  BY <1>2, <1>3, <1>4, <1>5 DEF BoxTyped

LEMMA QuietBox ==
    ASSUME IInv, UNCHANGED <<dac, wire, changed, touched>>, safe' => safe,
           replies' = replies \/ replies' = <<>> \/ Hear \/ replies' = Append(replies, dac)
    PROVE  WrittenInv' /\ UntouchedInv' /\ Rest' = Rest /\ BoxTyped'
BY BoxKeeps DEF IInv, ZeroInv, WrittenInv

\* What a call is when it has returned.
LEMMA Returned ==
    ASSUME Typed, NEW answer \in {"ok", "error"}, Return(answer)
    PROVE  /\ CallTyped' /\ MailboxTyped'
           /\ op'.of = op.of /\ op'.target = 0
           /\ op.of = "emergency" =>
                /\ op'.pc = "next" /\ op'.answer = "none" /\ op'.left = op.left
                /\ op'.tried = op.tried /\ op'.failed = (op.failed \/ answer = "error")
           /\ op.of # "emergency" => op'.pc = "idle" /\ op'.answer = answer
           /\ mailbox'.pending # NoTarget => mailbox'.pending = mailbox.pending
<1>1. op \in Calls /\ NoCall \in Calls
  BY NewCallTyped DEF Typed, CallTyped
<1>2. MailboxTyped' /\ (mailbox'.pending # NoTarget => mailbox'.pending = mailbox.pending)
  <2>1. UNCHANGED mailbox \/ mailbox' = [pending |-> NoTarget, open |-> FALSE]
    BY DEF Return, Closed
  <2>2. CASE UNCHANGED mailbox
    BY <2>2 DEF Typed, MailboxTyped
  <2>3. CASE mailbox' = [pending |-> NoTarget, open |-> FALSE]
    BY <2>3 DEF MailboxTyped
  <2>. QED
    BY <2>1, <2>2, <2>3
<1>3. CASE op.of = "emergency"
  <2>1. op' = [NoCall EXCEPT !.pc = "next", !.of = "emergency", !.left = op.left,
                   !.tried = op.tried, !.failed = op.failed \/ answer = "error"]
    BY <1>3 DEF Return
  <2>2. op' \in Calls
    BY ZenonT(40), <1>1, <2>1 DEF Calls
  <2>. QED
    BY <1>1, <1>2, <1>3, <2>1, <2>2 DEF Calls, NoCall, CallTyped
<1>4. CASE op.of # "emergency"
  <2>1. op' = [NoCall EXCEPT !.of = op.of, !.answer = answer]
    BY <1>4 DEF Return
  <2>2. op' \in Calls
    BY <1>1, <2>1 DEF Calls
  <2>. QED
    BY <1>1, <1>2, <1>4, <2>1, <2>2 DEF Calls, NoCall, CallTyped
<1>. QED
  BY <1>3, <1>4

\* A call that returns; one that succeeded left its channel at zero.
LEMMA ReturnKeeps ==
    ASSUME IInv, OnChannel, NEW answer \in {"ok", "error"}, Return(answer), UNCHANGED job,
           \A c \in Channels \ {op.ch} : Rest'[c] = Rest[c],
           answer = "ok" => op.of \in {"stop", "emergency"} /\ Rest'[op.ch] = 0
    PROVE  ControlInv' /\ ShutdownInv' /\ EmergencyInv' /\ ResultInv'
<1>. USE DEF IInv, Typed, ZeroInv, ResultInv
<1>1. /\ op \in Calls /\ op' \in Calls /\ op'.of = op.of /\ op'.target = 0
      /\ op.of = "emergency" =>
           /\ op'.pc = "next" /\ op'.answer = "none" /\ op'.left = op.left
           /\ op'.tried = op.tried /\ op'.failed = (op.failed \/ answer = "error")
      /\ op.of # "emergency" => op'.pc = "idle" /\ op'.answer = answer
      /\ mailbox'.pending # NoTarget => mailbox'.pending = mailbox.pending
  BY Returned DEF CallTyped
<1>2. \/ job.at = "ramping" /\ op.of \in {"ramp", "abort"}
      \/ job.at = "stopping" /\ op.of = "stop"
      \/ job.at = "rescue" /\ op.of = "emergency"
  BY DEF ControlInv, OnChannel
<1>3. ControlInv'
  BY <1>1, <1>2 DEF ControlInv, OnChannel
<1>4. ShutdownInv'
  BY <1>1 DEF ShutdownInv, OnChannel
<1>5. EmergencyInv'
  <2>. SUFFICES ASSUME op.of = "emergency" PROVE EmergencyInv'
    BY <1>1 DEF EmergencyInv
  <2>1. ASSUME ~op'.failed PROVE \A c \in op'.tried : Rest'[c] = 0
    <3>1. answer = "ok" /\ ~op.failed
      BY <1>1, <2>1
    <3>2. \A c \in op.tried \ {op.ch} : Rest[c] = 0 /\ c \in Channels
      BY <1>1, <3>1 DEF EmergencyInv, Done, Calls
    <3>. QED
      BY <1>1, <3>1, <3>2
  <2>2. ~op'.failed => Channels \subseteq op'.tried \cup Range(op'.left)
    BY <1>1 DEF EmergencyInv
  <2>. QED
    BY <1>1, <2>1, <2>2 DEF EmergencyInv, OnChannel, Done
<1>6. WithinJob'
  BY <1>1 DEF WithinJob
<1>7. PlanInv'
  BY <1>1, <1>2 DEF PlanInv, Sound, OnChannel
<1>8. HeldInv'
  BY <1>1, <1>2 DEF HeldInv
<1>. QED
  BY <1>3, <1>4, <1>5, <1>6, <1>7, <1>8

LEMMA UnplannedTyped ==
    ASSUME PlanTyped
    PROVE  Unplanned \in [targets : Seq(Voltages), armed : BOOLEAN, next : Nat \ {0},
                          active : Channels]
<1>1. <<>> \in Seq(Voltages) /\ FALSE \in BOOLEAN
  OBVIOUS
<1>2. \A t \in Seq(Voltages) : \A b \in BOOLEAN :
        [plan EXCEPT !.targets = t, !.armed = b] \in
          [targets : Seq(Voltages), armed : BOOLEAN, next : Nat \ {0}, active : Channels]
  BY DEF PlanTyped
<1>. QED
  BY <1>1, <1>2 DEF Unplanned, NoPlan

\* A session that is closed under a call.
LEMMA FaultKeeps ==
    ASSUME IInv, OnChannel, FaultAndClose, UNCHANGED <<job, flag, cancel, jobs, lives>>,
           \A c \in Channels \ {op.ch} : Rest'[c] = Rest[c], BoxTyped',
           changed' \subseteq touched', touched' \subseteq Channels, faults' \in 0..MaxFaults
    PROVE  Typed' /\ ControlInv' /\ ShutdownInv' /\ EmergencyInv' /\ ResultInv'
<1>. USE DEF IInv, Typed
<1>1. /\ plan' = Unplanned /\ Return("error")
      /\ safe' = FALSE /\ connected' = FALSE /\ state' \in {"unknown", "fault"}
  BY DEF FaultAndClose
<1>2. PlanTyped' /\ JobTyped' /\ CallTyped' /\ MailboxTyped'
  BY <1>1, UnplannedTyped, Returned DEF JobTyped, PlanTyped
<1>3. FlagsTyped'
  BY <1>1 DEF FlagsTyped
<1>. QED
  BY <1>1, <1>2, <1>3, ReturnKeeps

\* A ramp that is given up goes on as a shutdown of its channel.
LEMMA AbortKeeps ==
    ASSUME IInv, OnChannel, op.of = "ramp", Aborted, BoxTyped', Rest' = Rest, FlagsTyped',
           UNCHANGED <<job, mailbox>>
    PROVE  Typed' /\ ControlInv' /\ ShutdownInv' /\ EmergencyInv' /\ ResultInv'
<1>. USE DEF IInv, Typed, ResultInv
<1>1. op \in Calls /\ op.ch \in Channels /\ 0 \in Voltages
  BY Envelope DEF CallTyped, Calls
<1>2. op' = Call("abort", op.ch, 0) /\ op' \in Calls
  BY <1>1, NewCallTyped DEF Aborted, StopVout
<1>3. /\ op'.pc = "read" /\ op'.of = "abort" /\ op'.ch = op.ch /\ op'.target = 0
      /\ op'.answer = "none"
  BY <1>2 DEF Call, NoCall
<1>4. plan' = [Unplanned EXCEPT !.active = op.ch]
  BY <1>2, <1>3 DEF Aborted, StopVout
<1>5. PlanTyped'
  BY <1>1, <1>4, UnplannedTyped DEF PlanTyped
<1>6. job.at = "ramping"
  BY DEF ControlInv, OnChannel
<1>7. Typed'
  BY <1>2, <1>5 DEF CallTyped, JobTyped, MailboxTyped
<1>8. ControlInv' /\ ShutdownInv' /\ EmergencyInv'
  BY <1>3, <1>6 DEF ControlInv, ShutdownInv, EmergencyInv, OnChannel
<1>9. WithinJob' /\ PlanInv' /\ HeldInv'
  BY <1>3, <1>6 DEF WithinJob, PlanInv, HeldInv, Sound, OnChannel
<1>. QED
  BY <1>7, <1>8, <1>9

\* A call that stays with its channel.
LEMMA MoveKeeps ==
    ASSUME IInv, OnChannel, OnChannel', op' \in Calls, UNCHANGED <<job, plan>>,
           op'.of = op.of, op'.ch = op.ch, op'.tried = op.tried, op'.left = op.left,
           op'.failed = op.failed, op'.answer = op.answer,
           \A c \in Channels \ {op.ch} : Rest'[c] = Rest[c],
           mailbox'.pending # NoTarget => mailbox'.pending = mailbox.pending,
           op'.target = op.target \/ (op.of = "ramp" /\ op'.target = mailbox.pending),
           op'.target # NoTarget
    PROVE  ControlInv' /\ EmergencyInv' /\ ResultInv'
<1>. USE DEF IInv, Typed, ZeroInv, ResultInv
<1>1. op \in Calls /\ op.pc # "idle" /\ op'.pc # "idle" /\ op.pc # "next" /\ op'.pc # "next"
  BY DEF CallTyped, OnChannel
<1>2. \/ job.at = "ramping" /\ op.of \in {"ramp", "abort"}
      \/ job.at = "stopping" /\ op.of = "stop"
      \/ job.at = "rescue" /\ op.of = "emergency"
  BY <1>1 DEF ControlInv
<1>3. ControlInv'
  BY <1>1, <1>2 DEF ControlInv, OnChannel
<1>4. EmergencyInv'
  BY <1>1 DEF EmergencyInv, Done, Calls, OnChannel
<1>5. WithinJob'
  BY DEF WithinJob
<1>6. op.of = "ramp" => op.ch = job.ch
  BY <1>2 DEF ControlInv
<1>7. op'.of = "ramp" => op'.target \in Targets(op'.ch)
  BY <1>6 DEF PlanInv, WithinJob
<1>8. PlanInv'
  BY <1>1, <1>2, <1>7 DEF PlanInv, Sound, OnChannel
<1>9. HeldInv'
  BY <1>1, <1>2 DEF HeldInv
<1>. QED
  BY <1>3, <1>4, <1>5, <1>8, <1>9

\* A shutdown that has found, or brought, its channel to zero.
LEMMA StoppedKeeps ==
    ASSUME IInv, OnChannel, op.of # "ramp", NEW v, Stopped(v), Hear, Rest[op.ch] = 0,
           UNCHANGED <<dac, wire, touched, job, cancel, jobs, lives, faults>>
    PROVE  IInv'
<1>. USE DEF IInv, Typed, ZeroInv
<1>1. PICK answer \in {"ok", "error"} :
        Return(answer) /\ (answer = "ok" => op.of # "abort")
  BY DEF Stopped
<1>2. UntouchedInv' /\ Rest' = Rest /\ BoxTyped'
  BY BoxKeeps
<1>3. op \in Calls /\ op.of \in {"abort", "stop", "emergency"}
  BY DEF CallTyped, Calls, ControlInv, OnChannel
<1>4. CallTyped' /\ MailboxTyped' /\ PlanTyped' /\ JobTyped'
  BY <1>1, Returned DEF Stopped, PlanTyped, JobTyped
<1>5. /\ changed' = changed \ {op.ch} /\ safe' \in BOOLEAN /\ (safe' => changed' = {})
      /\ state' = "verified" /\ UNCHANGED <<connected, flag>>
  BY DEF Stopped
<1>6. FlagsTyped'
  BY <1>5 DEF FlagsTyped
<1>7. WrittenInv'
  BY <1>2, <1>5 DEF WrittenInv
<1>8. ControlInv' /\ ShutdownInv' /\ EmergencyInv' /\ ResultInv'
  BY <1>1, <1>2, <1>3, ReturnKeeps
<1>. QED
  BY <1>2, <1>4, <1>6, <1>7, <1>8

-----------------------------------------------------------------------------
(* The steps of the box and of a call.                                     *)

LEMMA CarryOutStep == ASSUME IInv, CarryOut PROVE IInv'
<1>. USE DEF IInv, Typed, ZeroInv, ResultInv
<1>1. BoxTyped /\ WireTyped
  BY DEF BoxTyped
<1>2. /\ Rest' = Rest /\ WireTyped' /\ dac' \in [Channels -> Voltages]
      /\ \A c \in Channels : (\A i \in DOMAIN wire : wire[i].ch # c) => dac'[c] = dac[c]
      /\ \A i \in DOMAIN wire' : wire'[i] = wire[i + 1] /\ i + 1 \in DOMAIN wire
  BY <1>1, RestCarried DEF BoxTyped
<1>3. UNCHANGED <<replies, connected, state, plan, flag, changed, safe, touched, op, job,
                  cancel, jobs, lives, mailbox, faults>>
  BY DEF CarryOut, session, proof, page
<1>4. Typed'
  BY <1>1, <1>2, <1>3 DEF BoxTyped, CallTyped, JobTyped, PlanTyped, MailboxTyped, FlagsTyped
<1>5. UntouchedInv'
  BY <1>2, <1>3 DEF UntouchedInv
<1>6. WrittenInv' /\ EmergencyInv'
  BY <1>2, <1>3 DEF WrittenInv, EmergencyInv, Done, OnChannel
<1>7. ControlInv' /\ ShutdownInv'
  BY <1>2, <1>3 DEF ControlInv, ShutdownInv, OnChannel
<1>8. WithinJob' /\ PlanInv' /\ HeldInv'
  BY <1>2, <1>3 DEF WithinJob, PlanInv, HeldInv, Sound, OnChannel
<1>. QED
  BY <1>4, <1>5, <1>6, <1>7, <1>8

LEMMA InitialReadbackStep == ASSUME IInv, InitialReadback PROVE IInv'
<1>. USE DEF IInv, Typed, ZeroInv
<1>1. OnChannel /\ UNCHANGED <<dac, wire, touched, job, cancel, jobs, lives, faults>>
  BY DEF InitialReadback, page, OnChannel
<1>2. /\ op \in Calls /\ op.ch \in Channels /\ op.target \in Voltages
      /\ Heard \in [Channels -> Voltages]
      /\ Heard = dac \/ \E j \in DOMAIN replies : Heard = replies[j]
  BY HeardTyped DEF CallTyped, Calls
<1>. DEFINE u == Heard[op.ch]
<1>3. PICK v \in Voltages : v = u
  BY <1>2
<1>4. CASE FaultAndClose /\ UNCHANGED <<changed, flag>>
  <2>1. replies' = <<>> /\ safe' = FALSE
    BY <1>4 DEF FaultAndClose
  <2>2. WrittenInv' /\ UntouchedInv' /\ Rest' = Rest /\ BoxTyped'
    BY <1>1, <1>4, <2>1, QuietBox
  <2>3. changed' \subseteq touched' /\ touched' \subseteq Channels /\ faults' \in 0..MaxFaults
    BY <1>1, <1>4 DEF FlagsTyped
  <2>. QED
    BY <1>1, <1>4, <2>2, <2>3, FaultKeeps
<1>5. CASE AlreadyZero(v) /\ Hear /\ Stopped(v)
  <2>1. op.of # "ramp" /\ v = 0 /\ op.ch \notin changed
    BY <1>5 DEF AlreadyZero, Stopping
  <2>2. Rest[op.ch] = 0
    <3>1. CASE op.ch \in touched
      BY <2>1, <3>1 DEF WrittenInv
    <3>2. CASE op.ch \notin touched
      <4>1. Rest[op.ch] = dac[op.ch]
        BY <1>2, <3>2, RestShown DEF UntouchedInv, BoxTyped
      <4>2. Heard[op.ch] = dac[op.ch]
        BY <1>2, <3>2 DEF UntouchedInv
      <4>. QED
        BY <1>3, <2>1, <4>1, <4>2
    <3>. QED
      BY <3>1, <3>2
  <2>. QED
    BY <1>1, <1>5, <2>1, <2>2, StoppedKeeps
<1>6. CASE /\ ~AlreadyZero(v) /\ Hear
           /\ op' = [op EXCEPT !.pc = "loop", !.actual = v, !.recovering = Recovers(v)]
           /\ UNCHANGED <<session, changed, safe, mailbox>>
  <2>1. WrittenInv' /\ UntouchedInv' /\ Rest' = Rest /\ BoxTyped'
    BY <1>1, <1>6, QuietBox
  <2>2. Recovers(v) \in BOOLEAN
    BY DEF Recovers
  <2>3. op' \in Calls
    BY <1>2, <1>3, <1>6, <2>2 DEF Calls
  <2>4. /\ op'.pc = "loop" /\ op'.of = op.of /\ op'.ch = op.ch /\ op'.tried = op.tried
        /\ op'.left = op.left /\ op'.failed = op.failed /\ op'.answer = op.answer
        /\ op'.target = op.target /\ op'.actual = v
    BY <1>2, <1>6 DEF Calls
  <2>5. UNCHANGED <<connected, state, plan, flag, changed, safe, mailbox>>
    BY <1>6 DEF session
  <2>6. Typed'
    BY <1>1, <2>1, <2>3, <2>5 DEF CallTyped, JobTyped, PlanTyped, MailboxTyped, FlagsTyped
  <2>7. op.target # NoTarget
    BY <1>2, Envelope
  <2>8. ControlInv' /\ EmergencyInv' /\ ResultInv'
    BY <1>1, <2>1, <2>3, <2>4, <2>5, <2>7, MoveKeeps DEF OnChannel
  <2>9. ShutdownInv'
    BY <1>1, <1>6, <2>4, <2>5 DEF ShutdownInv, OnChannel, AlreadyZero, Stopping
  <2>. QED
    BY <2>1, <2>6, <2>8, <2>9
<1>. HIDE DEF IInv, Typed, ZeroInv
<1>. QED
  BY <1>3, <1>4, <1>5, <1>6 DEF InitialReadback

LEMMA TakenTyped ==
    ASSUME IInv, NEW t \in {op.target} \cup LiveTargets, OnChannel, op.pc # "read"
    PROVE  /\ t \in Voltages
           /\ t = op.target \/ (op.of = "ramp" /\ t = mailbox.pending)
           /\ Take => /\ MailboxTyped' /\ mailbox'.pending = NoTarget
BY Envelope
   DEF LiveTargets, Take, IInv, Typed, CallTyped, Calls, MailboxTyped, Stopping

\* A call goes on, with another target perhaps, and sends nothing.
LEMMA GoesOn ==
    ASSUME IInv, OnChannel, op.pc # "read",
           NEW t \in {op.target} \cup LiveTargets, Take \/ UNCHANGED mailbox,
           NEW at \in {"loop", "pace", "settle"},
           op' = [op EXCEPT !.pc = at, !.target = t],
           at = "loop" => op.of = "ramp",
           at = "settle" => op.of = "ramp",
           UNCHANGED <<box, session, proof, page, faults>>
    PROVE  IInv'
<1>. USE DEF IInv, Typed, ZeroInv
<1>1. /\ t \in Voltages
      /\ t = op.target \/ (op.of = "ramp" /\ t = mailbox.pending)
      /\ Take => MailboxTyped' /\ mailbox'.pending = NoTarget
  BY TakenTyped
<1>2. op \in Calls
  BY DEF CallTyped
<1>3. op' \in Calls
  BY <1>1, <1>2 DEF Calls
<1>4. /\ op'.pc = at /\ op'.of = op.of /\ op'.ch = op.ch /\ op'.tried = op.tried
      /\ op'.left = op.left /\ op'.failed = op.failed /\ op'.answer = op.answer
      /\ op'.target = t
  BY <1>2 DEF Calls
<1>5. UNCHANGED <<dac, wire, replies, connected, state, plan, flag, changed, safe, touched,
                  job, cancel, jobs, lives, faults>>
  BY DEF box, session, proof, page
<1>6. WrittenInv' /\ UntouchedInv' /\ Rest' = Rest /\ BoxTyped'
  BY <1>5, QuietBox
<1>7. MailboxTyped' /\ (mailbox'.pending # NoTarget => mailbox'.pending = mailbox.pending)
  BY <1>1 DEF MailboxTyped
<1>8. Typed'
  BY <1>3, <1>5, <1>6, <1>7 DEF CallTyped, JobTyped, PlanTyped, FlagsTyped
<1>9. t # NoTarget
  BY <1>1, Envelope
<1>10. ControlInv' /\ EmergencyInv' /\ ResultInv'
  BY <1>1, <1>3, <1>4, <1>5, <1>6, <1>7, <1>9, MoveKeeps DEF OnChannel
<1>11. ShutdownInv'
  BY <1>1, <1>4, <1>5 DEF ShutdownInv, OnChannel
<1>. QED
  BY <1>6, <1>8, <1>10, <1>11

LEMMA NextStepStep == ASSUME IInv, NextStep PROVE IInv'
<1>. USE DEF IInv, Typed
<1>1. OnChannel /\ op.pc = "loop"
  BY DEF NextStep, OnChannel
<1>2. UNCHANGED <<box, session, proof, page, faults>>
  BY DEF NextStep
<1>. DEFINE v(t) == Toward(op.actual, t)
            write(t) == v(t) # op.actual \/ (Stopping /\ op.ch \in changed)
<1>3. PICK t \in {op.target} \cup LiveTargets :
        /\ IF t # op.target THEN Take ELSE UNCHANGED mailbox
        /\ op' = [op EXCEPT !.pc = IF write(t) THEN "pace" ELSE "settle", !.target = t]
  BY DEF NextStep
<1>4. PICK at \in {"pace", "settle"} : at = (IF write(t) THEN "pace" ELSE "settle")
  OBVIOUS
<1>5. at = "settle" => op.of = "ramp"
  <2>. SUFFICES ASSUME at = "settle", op.of # "ramp" PROVE FALSE
    OBVIOUS
  <2>1. Stopping /\ t = op.target /\ op.target = 0
    BY <1>1 DEF Stopping, LiveTargets, ShutdownInv
  <2>2. op.actual \in Voltages /\ 0 \in Voltages
    BY Envelope DEF CallTyped, Calls
  <2>3. op.actual # 0 \/ op.ch \in changed
    BY <1>1 DEF ShutdownInv
  <2>4. op.actual # 0 => Toward(op.actual, 0) # op.actual
    BY <2>2, TowardTyped
  <2>. QED
    BY <1>4, <2>1, <2>3, <2>4
<1>. HIDE DEF IInv, Typed, write
<1>. QED
  BY <1>1, <1>2, <1>3, <1>4, <1>5, GoesOn

LEMMA RetargetStep == ASSUME IInv, Retarget PROVE IInv'
<1>1. OnChannel /\ op.pc \in {"pace", "settle"}
  BY DEF Retarget, OnChannel
<1>2. UNCHANGED <<box, session, proof, page, faults>>
  BY DEF Retarget
<1>3. PICK t \in LiveTargets :
        /\ Take
        /\ op' = [op EXCEPT !.pc = IF t = op.target THEN @ ELSE "loop", !.target = t]
  BY DEF Retarget
<1>4. PICK at \in {"loop", "pace", "settle"} :
        /\ at = (IF t = op.target THEN op.pc ELSE "loop")
        /\ op' = [op EXCEPT !.pc = at, !.target = t]
  BY <1>1, <1>3
<1>5. op.of = "ramp"
  BY <1>3 DEF LiveTargets, Stopping
<1>. QED
  BY <1>1, <1>2, <1>3, <1>4, <1>5, GoesOn

\* A SET, the only step that moves where a channel comes to rest.
LEMMA SendRest ==
    ASSUME IInv, op.pc = "pace", NEW v, v = Toward(op.actual, op.target),
           wire' = wire \/ wire' = Append(wire, [ch |-> op.ch, v |-> v]),
           changed' = changed \cup {op.ch}, touched' = touched \cup {op.ch},
           replies' = replies \/ replies' = <<>>, safe' = FALSE, UNCHANGED dac
    PROVE  /\ v \in Voltages
           /\ BoxTyped' /\ WrittenInv' /\ UntouchedInv'
           /\ changed' \subseteq touched' /\ touched' \subseteq Channels
           /\ \A c \in Channels \ {op.ch} : Rest'[c] = Rest[c]
           /\ wire' # wire => Rest'[op.ch] = v
<1>. USE DEF IInv, Typed, ZeroInv
<1>1. op.ch \in Channels /\ op.actual \in Voltages /\ op.target \in Voltages
  BY DEF CallTyped, Calls
<1>2. v \in Voltages
  BY <1>1, TowardTyped
<1>3. changed' \subseteq touched' /\ touched' \subseteq Channels /\ touched \subseteq Channels
  BY <1>1 DEF FlagsTyped
<1>4. /\ WireTyped /\ dac' \in [Channels -> Voltages]
      /\ replies' \in Seq([Channels -> Voltages])
  <2>1. CASE replies' = replies
    BY <2>1 DEF BoxTyped
  <2>2. CASE replies' = <<>>
    BY <2>2 DEF BoxTyped
  <2>. QED
    BY <2>1, <2>2
<1>5. CASE wire' = wire
  <2>1. Rest' = Rest
    BY <1>5, RestSame
  <2>2. BoxTyped'
    BY <1>4, <1>5 DEF BoxTyped, WireTyped
  <2>3. WrittenInv' /\ UntouchedInv'
    BY <1>3, <1>5, <2>1 DEF WrittenInv, UntouchedInv
  <2>. QED
    BY <1>2, <1>3, <1>5, <2>1, <2>2, <2>3
<1>6. CASE wire' = Append(wire, [ch |-> op.ch, v |-> v])
  <2>1. PICK c \in Channels : c = op.ch
    BY <1>1
  <2>2. /\ Rest'[c] = v
        /\ \A d \in Channels \ {c} : Rest'[d] = Rest[d]
    BY <1>2, <1>4, <1>6, <2>1, RestSent
  <2>3. /\ wire \in Seq(SetCommand) /\ [ch |-> c, v |-> v] \in SetCommand
        /\ wire' = Append(wire, [ch |-> c, v |-> v])
    BY <1>2, <1>4, <1>6, <2>1 DEF WireTyped, SetCommand
  <2>4. WireTyped' /\ \A i \in DOMAIN wire' :
                         wire'[i].ch = c \/ (i \in DOMAIN wire /\ wire'[i] = wire[i])
    BY <2>3, AppendProperties DEF WireTyped
  <2>5. BoxTyped'
    BY <1>4, <2>4 DEF BoxTyped
  <2>6. WrittenInv'
    BY <1>3, <2>1, <2>2 DEF WrittenInv
  <2>7. UntouchedInv'
    BY <2>1, <2>4 DEF UntouchedInv
  <2>. QED
    BY <1>2, <1>3, <2>1, <2>2, <2>5, <2>6, <2>7
<1>. QED
  BY <1>5, <1>6

LEMMA SendStep == ASSUME IInv, Send PROVE IInv'
<1>. USE DEF IInv, Typed, ZeroInv
<1>1. PICK v : v = Toward(op.actual, op.target)
  OBVIOUS
<1>2. /\ OnChannel /\ op.pc = "pace" /\ op \in Calls
      /\ changed' = changed \cup {op.ch} /\ touched' = touched \cup {op.ch}
      /\ UNCHANGED <<dac, flag, job, cancel, jobs, lives>>
  BY DEF Send, OnChannel, page, CallTyped
<1>3. CASE /\ safe' = FALSE /\ wire' = Append(wire, [ch |-> op.ch, v |-> v])
           /\ op' = [op EXCEPT !.pc = "confirm", !.next = v, !.stale = FALSE]
           /\ UNCHANGED <<replies, connected, state, plan, mailbox, faults>>
  <2>1. /\ v \in Voltages /\ BoxTyped' /\ WrittenInv' /\ UntouchedInv'
        /\ changed' \subseteq touched' /\ touched' \subseteq Channels
        /\ \A c \in Channels \ {op.ch} : Rest'[c] = Rest[c]
        /\ wire' # wire => Rest'[op.ch] = v
    BY <1>1, <1>2, <1>3, SendRest
  <2>2. wire' # wire
    BY <1>3, <2>1 DEF BoxTyped, WireTyped
  <2>3. op' \in Calls
    BY <1>2, <1>3, <2>1 DEF Calls
  <2>4. /\ op'.pc = "confirm" /\ op'.of = op.of /\ op'.ch = op.ch /\ op'.tried = op.tried
        /\ op'.left = op.left /\ op'.failed = op.failed /\ op'.answer = op.answer
        /\ op'.target = op.target /\ op'.next = v
    BY <1>2, <1>3 DEF Calls
  <2>5. Typed'
    BY <1>2, <1>3, <2>1, <2>3
       DEF CallTyped, JobTyped, PlanTyped, MailboxTyped, FlagsTyped
  <2>6. op.target # NoTarget
    BY <1>2, Envelope DEF Calls
  <2>7. ControlInv' /\ EmergencyInv' /\ ResultInv'
    BY <1>2, <1>3, <2>1, <2>3, <2>4, <2>6, MoveKeeps DEF OnChannel
  <2>8. ShutdownInv'
    BY <1>2, <2>1, <2>2, <2>4 DEF ShutdownInv, OnChannel
  <2>. QED
    BY <2>1, <2>5, <2>7, <2>8
<1>4. CASE /\ Faulty /\ FaultAndClose
           /\ wire' \in {wire, Append(wire, [ch |-> op.ch, v |-> v])}
  <2>1. replies' = <<>> /\ safe' = FALSE /\ faults' \in 0..MaxFaults
    BY <1>4, BoundsAssumption DEF FaultAndClose, Faulty, FlagsTyped
  <2>2. /\ BoxTyped' /\ WrittenInv' /\ UntouchedInv'
        /\ changed' \subseteq touched' /\ touched' \subseteq Channels
        /\ \A c \in Channels \ {op.ch} : Rest'[c] = Rest[c]
    BY <1>1, <1>2, <1>4, <2>1, SendRest
  <2>3. Typed' /\ ControlInv' /\ ShutdownInv' /\ EmergencyInv' /\ ResultInv'
    BY <1>2, <1>4, <2>1, <2>2, FaultKeeps
  <2>. QED
    BY <2>2, <2>3
<1>. HIDE DEF IInv, Typed, ZeroInv
<1>. QED
  BY <1>1, <1>3, <1>4 DEF Send

LEMMA ConfirmStep == ASSUME IInv, Confirm PROVE IInv'
<1>. USE DEF IInv, Typed, ZeroInv
<1>1. /\ OnChannel /\ op.pc = "confirm" /\ op \in Calls
      /\ UNCHANGED <<dac, wire, touched, job, cancel, jobs, lives, faults>>
  BY DEF Confirm, page, OnChannel, CallTyped
<1>2. Heard \in [Channels -> Voltages] /\ op.ch \in Channels
  BY <1>1, HeardTyped DEF Calls
<1>3. PICK v \in Voltages : v = Heard[op.ch]
  BY <1>2
<1>4. ASSUME NEW o, o \in {"loop", "settle"}, o = "settle" => op.of = "ramp",
             op' = [op EXCEPT !.pc = o, !.actual = v], Hear,
             UNCHANGED <<session, changed, safe, mailbox>>
      PROVE  IInv'
  <2>1. WrittenInv' /\ UntouchedInv' /\ Rest' = Rest /\ BoxTyped'
    BY <1>1, <1>4, QuietBox
  <2>2. op' \in Calls
    BY <1>1, <1>4 DEF Calls
  <2>3. /\ op'.pc = o /\ op'.of = op.of /\ op'.ch = op.ch /\ op'.tried = op.tried
        /\ op'.left = op.left /\ op'.failed = op.failed /\ op'.answer = op.answer
        /\ op'.target = op.target /\ op.target # NoTarget
    BY <1>1, <1>4, Envelope DEF Calls
  <2>4. UNCHANGED <<connected, state, plan, flag, changed, safe, mailbox>>
    BY <1>4 DEF session
  <2>5. Typed'
    BY <1>1, <2>1, <2>2, <2>4 DEF CallTyped, JobTyped, PlanTyped, MailboxTyped, FlagsTyped
  <2>6. ControlInv' /\ EmergencyInv' /\ ResultInv'
    BY <1>1, <1>4, <2>1, <2>2, <2>3, <2>4, MoveKeeps DEF OnChannel
  <2>7. ShutdownInv'
    BY <1>1, <1>4, <2>3, <2>4 DEF ShutdownInv, OnChannel
  <2>. QED
    BY <2>1, <2>5, <2>6, <2>7
<1>5. CASE Confirmed(v) /\ op.next = op.target /\ Stopping /\ Hear /\ Stopped(v)
  <2>1. op.of # "ramp" /\ op.target = 0 /\ Rest[op.ch] = op.next
    BY <1>1, <1>5 DEF Stopping, ShutdownInv
  <2>. QED
    BY <1>1, <1>5, <2>1, StoppedKeeps
<1>6. CASE UNCHANGED <<changed, flag>> /\ FaultAndClose
  <2>1. WrittenInv' /\ UntouchedInv' /\ Rest' = Rest /\ BoxTyped'
    BY <1>1, <1>6, QuietBox DEF FaultAndClose
  <2>2. changed' \subseteq touched' /\ touched' \subseteq Channels /\ faults' \in 0..MaxFaults
    BY <1>1, <1>6 DEF FlagsTyped
  <2>. QED
    BY <1>1, <1>6, <2>1, <2>2, FaultKeeps
<1>7. CASE ~Stopping /\ Aborted /\ Hear /\ UNCHANGED <<changed, safe, connected, state, mailbox>>
  <2>1. WrittenInv' /\ UntouchedInv' /\ Rest' = Rest /\ BoxTyped'
    BY <1>1, <1>7, QuietBox
  <2>2. FlagsTyped'
    BY <1>1, <1>7 DEF FlagsTyped, Aborted, StopVout
  <2>. QED
    BY <1>1, <1>7, <2>1, <2>2, AbortKeeps DEF Stopping
<1>8. CASE Hear /\ op' = [op EXCEPT !.stale = TRUE] /\ UNCHANGED <<session, changed, safe, mailbox>>
  <2>1. WrittenInv' /\ UntouchedInv' /\ Rest' = Rest /\ BoxTyped'
    BY <1>1, <1>8, QuietBox
  <2>2. op' \in Calls
    BY <1>1, <1>8 DEF Calls
  <2>3. /\ op'.pc = "confirm" /\ op'.of = op.of /\ op'.ch = op.ch /\ op'.tried = op.tried
        /\ op'.left = op.left /\ op'.failed = op.failed /\ op'.answer = op.answer
        /\ op'.target = op.target /\ op.target # NoTarget /\ op'.next = op.next
    BY <1>1, <1>8, Envelope DEF Calls
  <2>4. UNCHANGED <<connected, state, plan, flag, changed, safe, mailbox>>
    BY <1>8 DEF session
  <2>5. Typed'
    BY <1>1, <2>1, <2>2, <2>4 DEF CallTyped, JobTyped, PlanTyped, MailboxTyped, FlagsTyped
  <2>6. ControlInv' /\ EmergencyInv' /\ ResultInv'
    BY <1>1, <2>1, <2>2, <2>3, <2>4, MoveKeeps DEF OnChannel
  <2>7. ShutdownInv'
    BY <1>1, <2>1, <2>3, <2>4 DEF ShutdownInv, OnChannel
  <2>. QED
    BY <2>1, <2>5, <2>6, <2>7
<1>. HIDE DEF IInv, Typed, ZeroInv
<1>9. \/ \E o \in {"loop", "settle"} :
            /\ o = "settle" => ~Stopping
            /\ op' = [op EXCEPT !.pc = o, !.actual = v]
            /\ Hear /\ UNCHANGED <<session, changed, safe, mailbox>>
      \/ Confirmed(v) /\ op.next = op.target /\ Stopping /\ Hear /\ Stopped(v)
      \/ UNCHANGED <<changed, flag>> /\ FaultAndClose
      \/ ~Stopping /\ Aborted /\ Hear /\ UNCHANGED <<changed, safe, connected, state, mailbox>>
      \/ Hear /\ op' = [op EXCEPT !.stale = TRUE] /\ UNCHANGED <<session, changed, safe, mailbox>>
  BY <1>3, Zenon DEF Confirm
<1>. QED
  BY <1>4, <1>5, <1>6, <1>7, <1>8, <1>9 DEF Stopping

\* A ramp that reached its target.
LEMMA SettledStep == ASSUME IInv, Settled PROVE IInv'
<1>. USE DEF IInv, Typed, ZeroInv, ResultInv
<1>1. /\ OnChannel /\ op.pc = "settle" /\ op \in Calls /\ op.of = "ramp" /\ wire = <<>>
      /\ UNCHANGED <<dac, wire, touched, changed, safe, job, cancel, jobs, lives, faults>>
  BY DEF Settled, page, proof, OnChannel, CallTyped, ShutdownInv
<1>2. /\ Hear
      /\ \/ Aborted /\ UNCHANGED <<connected, state, mailbox>>
         \/ /\ Heard[op.ch] = op.target
            /\ plan' = [plan EXCEPT !.next = @ + 1, !.armed = plan.next < Len(plan.targets)]
            /\ state' = "verified"
            /\ op' = [NoCall EXCEPT !.of = "ramp", !.answer = "ok", !.target = op.target]
            /\ Closed /\ UNCHANGED <<connected, flag>>
  BY DEF Settled, Holds
<1>3. WrittenInv' /\ UntouchedInv' /\ Rest' = Rest /\ BoxTyped'
  BY <1>1, <1>2, QuietBox
<1>4. CASE Aborted /\ UNCHANGED <<connected, state, mailbox>>
  <2>1. FlagsTyped'
    BY <1>1, <1>4 DEF FlagsTyped, Aborted, StopVout
  <2>. QED
    BY <1>1, <1>3, <1>4, <2>1, AbortKeeps
<1>5. CASE /\ Heard[op.ch] = op.target
           /\ plan' = [plan EXCEPT !.next = @ + 1, !.armed = plan.next < Len(plan.targets)]
           /\ state' = "verified"
           /\ op' = [NoCall EXCEPT !.of = "ramp", !.answer = "ok", !.target = op.target]
           /\ Closed /\ UNCHANGED <<connected, flag>>
  <2>1. job.at = "ramping" /\ op.ch = job.ch /\ op.ch \in Channels
    BY <1>1 DEF ControlInv, Calls
  <2>2. op' \in Calls
    BY <1>1, <1>5, NewCallTyped DEF Calls
  <2>3. op'.pc = "idle" /\ op'.of = "ramp" /\ op'.answer = "ok" /\ op'.target = op.target
    BY <1>5 DEF NoCall
  <2>4. /\ plan'.targets = plan.targets
        /\ PlanTyped'
    <3>1. PICK w \in BOOLEAN : plan' = [plan EXCEPT !.next = plan.next + 1, !.armed = w]
      <4>1. (plan.next < Len(plan.targets)) \in BOOLEAN
        OBVIOUS
      <4>. QED
        BY <1>5, <4>1
    <3>2. \A b \in BOOLEAN : \A n \in Nat \ {0} :
             [plan EXCEPT !.next = n, !.armed = b] \in
               [targets : Seq(Voltages), armed : BOOLEAN, next : Nat \ {0}, active : Channels]
      BY DEF PlanTyped
    <3>3. plan.next + 1 \in Nat \ {0}
      BY DEF PlanTyped
    <3>. QED
      BY <1>5, <3>1, <3>2, <3>3 DEF PlanTyped
  <2>5. MailboxTyped' /\ mailbox'.pending = NoTarget
    BY <1>5 DEF Closed, MailboxTyped
  <2>6. FlagsTyped'
    BY <1>1, <1>5 DEF FlagsTyped
  <2>7. Typed'
    BY <1>1, <1>3, <2>2, <2>4, <2>5, <2>6 DEF CallTyped, JobTyped
  <2>8. ControlInv' /\ ShutdownInv' /\ EmergencyInv'
    BY <1>1, <2>1, <2>3 DEF ControlInv, ShutdownInv, EmergencyInv, OnChannel
  <2>9. WithinJob'
    BY <1>1, <2>5 DEF WithinJob
  <2>10. PlanInv'
    BY <1>1, <2>1, <2>3, <2>4 DEF PlanInv, Sound, OnChannel
  <2>11. replies' = <<>> => Rest[op.ch] = op.target
    <3>1. Rest[op.ch] = dac[op.ch]
      BY <1>1, <2>1, RestShown DEF BoxTyped
    <3>2. replies' = <<>> => Heard = dac
      BY <1>2, HeardTyped
    <3>. QED
      BY <1>5, <3>1, <3>2
  <2>12. HeldInv'
    BY <1>1, <1>3, <2>1, <2>3, <2>11 DEF HeldInv, PlanInv, OnChannel
  <2>. QED
    BY <1>3, <2>7, <2>8, <2>9, <2>10, <2>12
<1>. QED
  BY <1>2, <1>4, <1>5

\* A call that is given up, whatever the reason.
LEMMA GivenUp ==
    ASSUME IInv, OnChannel,
           \/ /\ FaultAndClose /\ UNCHANGED flag
           \/ /\ op.of = "ramp" /\ Aborted
              /\ UNCHANGED <<safe, connected, state, mailbox>>
              /\ replies' = replies \/ replies' = Append(replies, dac),
           UNCHANGED <<dac, wire, changed, touched, page>>, faults' \in 0..MaxFaults
    PROVE  IInv'
<1>. USE DEF IInv, Typed, ZeroInv
<1>1. UNCHANGED <<job, cancel, jobs, lives>>
  BY DEF page
<1>2. CASE FaultAndClose /\ UNCHANGED flag
  <2>1. WrittenInv' /\ UntouchedInv' /\ Rest' = Rest /\ BoxTyped'
    BY <1>2, QuietBox DEF FaultAndClose
  <2>2. changed' \subseteq touched' /\ touched' \subseteq Channels
    BY DEF FlagsTyped
  <2>. QED
    BY <1>1, <1>2, <2>1, <2>2, FaultKeeps
<1>3. CASE /\ op.of = "ramp" /\ Aborted
           /\ UNCHANGED <<safe, connected, state, mailbox>>
           /\ replies' = replies \/ replies' = Append(replies, dac)
  <2>1. WrittenInv' /\ UntouchedInv' /\ Rest' = Rest /\ BoxTyped'
    BY <1>3, QuietBox
  <2>2. FlagsTyped'
    BY <1>1, <1>3 DEF FlagsTyped, Aborted, StopVout
  <2>. QED
    BY <1>1, <1>3, <2>1, <2>2, AbortKeeps
<1>. QED
  BY <1>2, <1>3

LEMMA FaultyTyped == ASSUME Typed, Faulty PROVE faults' \in 0..MaxFaults
BY BoundsAssumption DEF Faulty, Typed, FlagsTyped

LEMMA GiveUpStep ==
    ASSUME IInv, Interrupt \/ TransportFails \/ DeadlinePasses \/ Unconfirmed \/ SettledTooLate
    PROVE  IInv'
<1>. USE DEF OnChannel, Stopping
<1>1. CASE Interrupt
  <2>1. /\ OnChannel /\ op.of = "ramp" /\ Aborted
        /\ UNCHANGED <<safe, connected, state, mailbox, replies, dac, wire, changed, touched,
                       page, faults>>
    BY <1>1 DEF Interrupt, Ramping, Interrupted, box, proof, page
  <2>2. faults' \in 0..MaxFaults
    BY <2>1 DEF IInv, Typed, FlagsTyped
  <2>. QED
    BY <2>1, <2>2, GivenUp
<1>2. CASE TransportFails
  <2>1. faults' \in 0..MaxFaults
    BY <1>2, FaultyTyped DEF TransportFails, IInv
  <2>. QED
    BY <1>2, <2>1, GivenUp DEF TransportFails
<1>3. CASE DeadlinePasses
  <2>1. faults' \in 0..MaxFaults
    BY <1>3, FaultyTyped DEF DeadlinePasses, IInv
  <2>. QED
    BY <1>3, <2>1, GivenUp DEF DeadlinePasses, GiveUp
<1>4. CASE Unconfirmed
  <2>1. faults' \in 0..MaxFaults
    BY <1>4, FaultyTyped DEF Unconfirmed, IInv
  <2>. QED
    BY <1>4, <2>1, GivenUp DEF Unconfirmed, GiveUp
<1>5. CASE SettledTooLate
  <2>1. faults' \in 0..MaxFaults
    BY <1>5, FaultyTyped DEF SettledTooLate, IInv
  <2>2. op.of = "ramp"
    BY <1>5 DEF SettledTooLate, IInv, ShutdownInv
  <2>. QED
    BY <1>5, <2>1, <2>2, GivenUp DEF SettledTooLate, proof
<1>. QED
  BY <1>1, <1>2, <1>3, <1>4, <1>5

\* The next channel of an emergency stop.
LEMMA EmergencyNextStep == ASSUME IInv, EmergencyNext PROVE IInv'
<1>. USE DEF IInv, Typed, ZeroInv, ResultInv
<1>1. /\ op.pc = "next" /\ op.left # <<>> /\ op \in Calls /\ op.of = "emergency"
      /\ job.at = "rescue"
      /\ UNCHANGED <<dac, wire, replies, connected, state, changed, safe, touched, job, cancel,
                     jobs, lives, mailbox, faults>>
  BY DEF EmergencyNext, box, proof, page, CallTyped, ControlInv
<1>2. WrittenInv' /\ UntouchedInv' /\ Rest' = Rest /\ BoxTyped'
  BY <1>1, QuietBox
<1>3. /\ Head(op.left) \in Channels /\ Tail(op.left) \in Seq(Channels)
      /\ Range(op.left) = {Head(op.left)} \cup Range(Tail(op.left))
  <2>1. op.left \in Seq(Channels)
    BY <1>1 DEF Calls
  <2>. QED
    BY <1>1, <2>1, HeadTailProperties, RangeOfTail
<1>4. PICK c \in Channels : c = Head(op.left)
  BY <1>3
<1>5. CASE connected
  <2>1. StopVout([op EXCEPT !.pc = "read", !.ch = c, !.left = Tail(@), !.tried = @ \cup {c}])
    BY <1>4, <1>5 DEF EmergencyNext
  <2>2. op' = [op EXCEPT !.pc = "read", !.ch = c, !.left = Tail(op.left),
                         !.tried = op.tried \cup {c}]
    BY <2>1 DEF StopVout
  <2>3. op' \in Calls
    BY <1>1, <1>3, <2>2 DEF Calls
  <2>4. /\ op'.pc = "read" /\ op'.of = "emergency" /\ op'.ch = c /\ op'.left = Tail(op.left)
        /\ op'.tried = op.tried \cup {c} /\ op'.failed = op.failed
    BY <1>1, <2>2 DEF Calls
  <2>5. PlanTyped' /\ FlagsTyped'
    <3>1. flag' = TRUE /\ plan' = [Unplanned EXCEPT !.active = c]
      BY <2>1, <2>2, <2>4 DEF StopVout
    <3>2. PlanTyped'
      BY <3>1, UnplannedTyped DEF PlanTyped
    <3>. QED
      BY <1>1, <3>1, <3>2 DEF FlagsTyped
  <2>. QED
    <3>1. Typed'
      BY <1>1, <1>2, <2>3, <2>5 DEF CallTyped, JobTyped, MailboxTyped
    <3>2. ControlInv'
      BY <1>1, <2>4 DEF ControlInv, OnChannel
    <3>3. EmergencyInv'
      <4>1. ~op.failed => /\ \A d \in op.tried : Rest[d] = 0
                          /\ Channels \subseteq op.tried \cup Range(op.left)
        BY <1>1 DEF EmergencyInv, Done, OnChannel
      <4>2. ~op.failed => Channels \subseteq op'.tried \cup Range(op'.left)
        BY <1>3, <1>4, <2>4, <4>1
      <4>. QED
        BY <1>2, <2>4, <4>1, <4>2 DEF EmergencyInv, Done, OnChannel
    <3>4. ResultInv'
      BY <1>1, <2>4 DEF WithinJob, PlanInv, HeldInv, Sound, OnChannel
    <3>5. ShutdownInv'
      <4>1. op'.target = 0
        BY <1>1, <2>2 DEF Calls, ShutdownInv
      <4>. QED
        BY <2>4, <4>1 DEF ShutdownInv
    <3>. QED
      BY <1>2, <3>1, <3>2, <3>3, <3>4, <3>5
<1>6. CASE ~connected
  <2>1. /\ op' = [op EXCEPT !.left = Tail(op.left), !.failed = TRUE]
        /\ UNCHANGED <<plan, flag>>
    BY <1>6 DEF EmergencyNext
  <2>2. op' \in Calls
    BY <1>1, <1>3, <2>1 DEF Calls
  <2>3. op'.pc = "next" /\ op'.of = "emergency" /\ op'.failed = TRUE
    BY <1>1, <2>1 DEF Calls
  <2>. QED
    BY <1>1, <1>2, <2>1, <2>2, <2>3
       DEF CallTyped, JobTyped, PlanTyped, MailboxTyped, FlagsTyped, ControlInv, ShutdownInv,
           EmergencyInv, WithinJob, PlanInv, HeldInv, Sound, OnChannel
<1>. QED
  BY <1>5, <1>6

LEMMA EmergencyEndsStep == ASSUME IInv, EmergencyEnds PROVE IInv'
<1>. USE DEF IInv, Typed, ZeroInv, ResultInv
<1>1. /\ op.pc = "next" /\ op.left = <<>> /\ op \in Calls /\ op.of = "emergency"
      /\ job.at = "rescue" /\ state' = "unknown"
      /\ UNCHANGED <<dac, wire, changed, touched, flag, job, cancel, jobs, lives, mailbox,
                     faults>>
      /\ connected' = connected \/ connected' = FALSE
      /\ replies' = replies \/ replies' = <<>>
      /\ safe' = safe \/ safe' = FALSE
      /\ plan' = plan \/ plan' = [plan EXCEPT !.armed = FALSE]
      /\ op' = [op EXCEPT !.pc = "idle"]
  BY DEF EmergencyEnds, page, CallTyped, ControlInv
<1>2. WrittenInv' /\ UntouchedInv' /\ Rest' = Rest /\ BoxTyped'
  BY <1>1, QuietBox
<1>3. /\ op' \in Calls /\ op'.pc = "idle" /\ op'.of = "emergency" /\ op'.left = op.left
      /\ op'.tried = op.tried /\ op'.failed = op.failed
  BY <1>1 DEF Calls
<1>4. PlanTyped'
  BY <1>1 DEF PlanTyped
<1>5. FlagsTyped'
  BY <1>1 DEF FlagsTyped
<1>6. Typed'
  BY <1>1, <1>2, <1>3, <1>4, <1>5 DEF CallTyped, JobTyped, MailboxTyped
<1>7. ControlInv' /\ ShutdownInv' /\ ResultInv'
  BY <1>1, <1>3 DEF ControlInv, ShutdownInv, WithinJob, PlanInv, HeldInv, Sound, OnChannel
<1>8. EmergencyInv'
  BY <1>1, <1>2, <1>3 DEF EmergencyInv, Done, OnChannel
<1>. QED
  BY <1>2, <1>6, <1>7, <1>8

-----------------------------------------------------------------------------
(* The steps of the worker and of the page.                                *)

\* The job goes on between two calls.
LEMMA JobKeeps ==
    ASSUME IInv, Free, NEW at \in {"configured", "armed", "rescue", "over"}, Goes(at),
           job.at \notin {"over", "none"},
           UNCHANGED <<dac, wire, changed, touched, safe, op>>,
           replies' = replies \/ replies' = <<>> \/ Hear,
           UNCHANGED mailbox \/ Closed,
           PlanTyped', FlagsTyped', PlanInv'
    PROVE  IInv'
<1>. USE DEF IInv, Typed, ZeroInv, ResultInv
<1>1. job \in Jobs /\ op.pc = "idle" /\ job.result = NoTarget
  BY DEF JobTyped, Free, HeldInv
<1>2. job' = [job EXCEPT !.at = at] /\ job' \in Jobs
  BY <1>1 DEF Goes, Jobs
<1>3. /\ job'.at = at /\ job'.ch = job.ch /\ job'.targets = job.targets
      /\ job'.kind = job.kind /\ job'.result = NoTarget
  BY <1>1, <1>2 DEF Jobs
<1>4. WrittenInv' /\ UntouchedInv' /\ Rest' = Rest /\ BoxTyped'
  BY QuietBox
<1>5. MailboxTyped' /\ (mailbox'.pending # NoTarget => mailbox'.pending = mailbox.pending)
  <2>1. CASE UNCHANGED mailbox
    BY <2>1 DEF MailboxTyped
  <2>2. CASE Closed
    BY <2>2 DEF Closed, MailboxTyped
  <2>. QED
    BY <2>1, <2>2
<1>6. Typed'
  BY <1>2, <1>4, <1>5 DEF CallTyped, JobTyped
<1>7. ControlInv' /\ ShutdownInv' /\ EmergencyInv'
  BY <1>1, <1>3, <1>4 DEF ControlInv, ShutdownInv, EmergencyInv, Done, OnChannel
<1>8. WithinJob' /\ HeldInv'
  BY <1>3, <1>5 DEF WithinJob, HeldInv
<1>. QED
  BY <1>4, <1>6, <1>7, <1>8

\* The worker starts a call, and only that.
LEMMA CallKeeps ==
    ASSUME IInv, Free, NEW at, Goes(at), job.at \notin {"over", "none"}, op' \in Calls,
           UNCHANGED <<box, connected, state, proof, cancel, jobs, lives, faults, mailbox>>,
           flag' \in BOOLEAN, PlanTyped',
           \/ /\ at = "ramping" /\ op'.of = "ramp" /\ op'.pc = "read" /\ op'.ch = job.ch
              /\ job.kind \in {"voltage", "calibration"} /\ plan'.targets = job.targets
              /\ op'.target \in Targets(op'.ch)
           \/ at = "stopping" /\ op'.of = "stop" /\ op'.pc = "read" /\ op'.target = 0
           \/ /\ at = "rescue" /\ op'.of = "emergency" /\ op'.pc = "next" /\ op'.target = 0
              /\ op'.tried = {} /\ (~op'.failed => op'.left = Approved)
    PROVE  IInv'
<1>. USE DEF IInv, Typed, ZeroInv, ResultInv
<1>1. job \in Jobs /\ op.pc = "idle" /\ job.result = NoTarget
  BY DEF JobTyped, Free, HeldInv
<1>2. job' = [job EXCEPT !.at = at] /\ job' \in Jobs
  BY <1>1 DEF Goes, Jobs
<1>3. /\ job'.at = at /\ job'.ch = job.ch /\ job'.targets = job.targets
      /\ job'.kind = job.kind /\ job'.result = NoTarget
  BY <1>1, <1>2 DEF Jobs
<1>4. UNCHANGED <<dac, wire, replies, changed, touched, safe, connected, state, cancel, jobs,
                  lives, faults, mailbox>>
  BY DEF box, proof
<1>5. WrittenInv' /\ UntouchedInv' /\ Rest' = Rest /\ BoxTyped'
  BY <1>4, QuietBox
<1>6. Typed'
  BY <1>2, <1>4, <1>5 DEF CallTyped, JobTyped, MailboxTyped, FlagsTyped
<1>7. op'.of # "abort" /\ op'.pc # "idle"
  OBVIOUS
<1>8. ControlInv' /\ ShutdownInv'
  BY <1>3, <1>7 DEF ControlInv, ShutdownInv, OnChannel
<1>9. EmergencyInv'
  BY <1>3 DEF EmergencyInv, Done, OnChannel, Channels
<1>10. WithinJob' /\ HeldInv'
  BY <1>3, <1>4, <1>7 DEF WithinJob, HeldInv
<1>11. PlanInv'
  BY <1>3 DEF PlanInv, Sound, OnChannel
<1>. QED
  BY <1>5, <1>6, <1>8, <1>9, <1>10, <1>11

LEMMA RescueKeeps ==
    ASSUME IInv, Free, Rescue, job.at \notin {"over", "none"},
           UNCHANGED <<box, connected, state, proof, cancel, jobs, lives, faults, mailbox>>,
           PlanTyped'
    PROVE  IInv'
<1>1. /\ Goes("rescue") /\ flag' = TRUE
      /\ op' = [NoCall EXCEPT !.pc = "next", !.of = "emergency", !.failed = ~connected,
                              !.left = IF connected THEN Approved ELSE <<>>]
  BY DEF Rescue, StartEmergency
<1>2. PICK l \in Seq(Channels) : l = (IF connected THEN Approved ELSE <<>>)
  <2>1. <<>> \in Seq(Channels) /\ Approved \in Seq(Channels)
    BY ApprovedAssumption
  <2>2. CASE connected
    BY <2>1, <2>2
  <2>3. CASE ~connected
    BY <2>1, <2>3
  <2>. QED
    BY <2>2, <2>3
<1>3. PICK b \in BOOLEAN : b = ~connected
  OBVIOUS
<1>4. op' = [NoCall EXCEPT !.pc = "next", !.of = "emergency", !.failed = b, !.left = l]
  BY <1>1, <1>2, <1>3
<1>5. op' \in Calls
  BY ZenonT(40), <1>4, NewCallTyped DEF Calls
<1>6. /\ op'.pc = "next" /\ op'.of = "emergency" /\ op'.target = 0 /\ op'.tried = {}
      /\ op'.failed = b /\ op'.left = l
  BY <1>4 DEF NoCall
<1>7. ~op'.failed => op'.left = Approved
  BY <1>2, <1>3, <1>6
<1>. QED
  BY <1>1, <1>5, <1>6, <1>7, CallKeeps

\* stop_vout as a call of the worker.
LEMMA StopKeeps ==
    ASSUME IInv, Free, Goes("stopping"), NEW c \in Channels, StopVout(Call("stop", c, 0)),
           job.at \notin {"over", "none"},
           UNCHANGED <<box, connected, state, proof, cancel, jobs, lives, faults, mailbox>>
    PROVE  IInv'
<1>1. op' = Call("stop", c, 0) /\ op' \in Calls
  BY Envelope, NewCallTyped DEF StopVout
<1>2. op'.of = "stop" /\ op'.pc = "read" /\ op'.target = 0 /\ op'.ch = c
  BY <1>1 DEF Call, NoCall
<1>3. flag' = TRUE /\ plan' = [Unplanned EXCEPT !.active = c]
  BY <1>1, <1>2 DEF StopVout
<1>4. PlanTyped'
  BY <1>3, UnplannedTyped DEF PlanTyped, IInv, Typed
<1>. QED
  BY <1>1, <1>2, <1>3, <1>4, CallKeeps

LEMMA CalibrationStopsKeeps ==
    ASSUME IInv, Free, CalibrationStops, job.at \notin {"over", "none"},
           UNCHANGED <<box, connected, state, proof, cancel, jobs, lives, faults, mailbox>>
    PROVE  IInv'
<1>1. PlanTyped /\ plan.active \in Channels
  BY DEF IInv, Typed, PlanTyped
<1>2. CASE connected
  BY <1>1, <1>2, StopKeeps DEF CalibrationStops
<1>3. CASE ~connected
  <2>1. Rescue /\ plan' = plan
    BY <1>3 DEF CalibrationStops
  <2>. QED
    BY <1>1, <2>1, RescueKeeps DEF PlanTyped
<1>. QED
  BY <1>2, <1>3

LEMMA RestsUnplanned ==
    ASSUME IInv, Free, UNCHANGED op, NEW at \in {"rescue", "over"}, Goes(at)
    PROVE  PlanInv'
<1>1. job'.at = at
  BY DEF Goes, IInv, Typed, JobTyped, Jobs
<1>. QED
  BY <1>1 DEF PlanInv, OnChannel, Free

\* The job is over, or needs no rescue, and nothing of the adapter changes.
LEMMA JobRests ==
    ASSUME IInv, Free, NEW at \in {"rescue", "over"}, Goes(at), UNCHANGED <<flag, op, mailbox>>,
           job.at \notin {"over", "none"}, PlanTyped',
           UNCHANGED <<box, connected, state, proof, cancel, jobs, lives, faults>>
    PROVE  IInv'
<1>1. PlanInv'
  BY RestsUnplanned
<1>2. UNCHANGED <<dac, wire, replies, changed, safe, touched>>
  BY DEF box, proof
<1>3. FlagsTyped'
  BY <1>2 DEF FlagsTyped, IInv, Typed
<1>. QED
  BY <1>1, <1>2, <1>3, JobKeeps

LEMMA ConfigureStep == ASSUME IInv, Configure PROVE IInv'
<1>1. /\ Free /\ job.kind \in {"voltage", "calibration"} /\ job.at = "start"
      /\ UNCHANGED mailbox
      /\ UNCHANGED <<box, connected, state, proof, cancel, jobs, lives, faults>>
      /\ job \in Jobs /\ PlanTyped
  BY DEF Configure, Quiet, IInv, Typed, JobTyped
<1>2. CASE Rescue /\ UNCHANGED plan
  BY <1>1, <1>2, RescueKeeps DEF PlanTyped
<1>3. CASE Goes("over") /\ UNCHANGED <<flag, op, plan>>
  BY <1>1, <1>3, JobRests DEF PlanTyped
<1>4. CASE /\ plan' = [targets |-> job.targets, armed |-> FALSE, next |-> 1, active |-> job.ch]
           /\ Goes("configured") /\ UNCHANGED <<flag, op>>
  <2>1. PlanTyped' /\ plan'.targets = job.targets
    BY <1>1, <1>4 DEF PlanTyped, Jobs
  <2>2. /\ job'.at = "configured" /\ job'.kind = job.kind /\ job'.targets = job.targets
    BY <1>1, <1>4 DEF Goes, Jobs
  <2>3. PlanInv'
    BY <1>1, <1>4, <2>1, <2>2 DEF PlanInv, OnChannel, Free
  <2>4. UNCHANGED <<dac, wire, replies, changed, safe, touched>>
    BY <1>1 DEF box, proof
  <2>5. FlagsTyped'
    BY <1>1, <1>4, <2>4 DEF FlagsTyped, IInv, Typed
  <2>. QED
    BY <1>1, <1>4, <2>1, <2>3, <2>4, <2>5, JobKeeps
<1>. QED
  BY <1>2, <1>3, <1>4 DEF Configure

LEMMA ArmStep == ASSUME IInv, Arm PROVE IInv'
<1>1. /\ Free /\ job.at = "configured" /\ UNCHANGED mailbox
      /\ UNCHANGED <<box, connected, state, proof, cancel, jobs, lives, faults>>
      /\ job \in Jobs /\ PlanTyped
  BY DEF Arm, Quiet, IInv, Typed, JobTyped
<1>2. CASE CalibrationStops
  BY <1>1, <1>2, CalibrationStopsKeeps
<1>3. CASE /\ plan' = [plan EXCEPT !.next = 1, !.armed = TRUE] /\ flag' = FALSE
           /\ Goes("armed") /\ UNCHANGED op
  <2>1. PlanTyped' /\ plan'.targets = plan.targets /\ plan'.next = 1
    <3>1. 1 \in Nat \ {0} /\ TRUE \in BOOLEAN
      OBVIOUS
    <3>2. \A n \in Nat \ {0} : \A b \in BOOLEAN :
            LET p == [plan EXCEPT !.next = n, !.armed = b] IN
            /\ p \in [targets : Seq(Voltages), armed : BOOLEAN, next : Nat \ {0},
                       active : Channels]
            /\ p.targets = plan.targets /\ p.next = n
      BY <1>1 DEF PlanTyped
    <3>. QED
      BY <1>3, <3>1, <3>2 DEF PlanTyped
  <2>2. job'.at = "armed" /\ job'.kind = job.kind /\ job'.targets = job.targets
    BY <1>1, <1>3 DEF Goes, Jobs
  <2>3. PlanInv'
    BY <1>1, <1>3, <2>1, <2>2 DEF PlanInv, OnChannel, Free, IInv, ResultInv
  <2>4. UNCHANGED <<dac, wire, replies, changed, safe, touched>>
    BY <1>1 DEF box, proof
  <2>5. FlagsTyped'
    BY <1>1, <1>3, <2>4 DEF FlagsTyped, IInv, Typed
  <2>. QED
    BY <1>1, <1>3, <2>1, <2>3, <2>4, <2>5, JobKeeps
<1>. QED
  BY <1>2, <1>3 DEF Arm

\* The target of a ramp is one of the plan's.
LEMMA RampVoutStep == ASSUME IInv, RampVout PROVE IInv'
<1>. USE DEF IInv, Typed, ResultInv
<1>1. /\ Free /\ job.at = "armed" /\ UNCHANGED mailbox
      /\ UNCHANGED <<box, connected, state, proof, cancel, jobs, lives, faults>>
      /\ job \in Jobs /\ PlanTyped
  BY DEF RampVout, Quiet, JobTyped
<1>2. CASE CalibrationStops
  BY <1>1, <1>2, CalibrationStopsKeeps
<1>3. CASE /\ ~(job.kind = "calibration" /\ (cancel \/ plan.next > Len(job.targets)))
           /\ op' = Call("ramp", job.ch, plan.targets[plan.next])
           /\ Goes("ramping") /\ UNCHANGED <<plan, flag>>
  <2>1. job.kind \in {"voltage", "calibration"} /\ plan.targets = job.targets
    BY <1>1 DEF PlanInv
  <2>2. plan.next \in DOMAIN job.targets
    <3>1. plan.next \in Nat \ {0} /\ job.targets \in Seq(Voltages)
      BY <1>1 DEF PlanTyped, Jobs
    <3>2. plan.next <= Len(job.targets)
      BY <1>1, <1>3, <2>1, <3>1 DEF PlanInv, WithinJob
    <3>. QED
      BY <3>1, <3>2
  <2>3. PICK t : t = job.targets[plan.next]
    OBVIOUS
  <2>4. t \in Targets(job.ch) /\ job.ch \in Channels /\ t \in Voltages
    BY <1>1, <2>2, <2>3, Envelope DEF WithinJob, Jobs
  <2>5. op' = Call("ramp", job.ch, t) /\ op' \in Calls
    BY <1>3, <2>1, <2>3, <2>4, NewCallTyped
  <2>6. op'.of = "ramp" /\ op'.pc = "read" /\ op'.ch = job.ch /\ op'.target = t
    BY <2>5 DEF Call, NoCall
  <2>7. flag' \in BOOLEAN /\ PlanTyped'
    BY <1>1, <1>3 DEF FlagsTyped, PlanTyped
  <2>8. plan'.targets = job.targets /\ op'.target \in Targets(op'.ch)
    BY <1>3, <2>1, <2>4, <2>6
  <2>. HIDE DEF IInv, Typed, ResultInv
  <2>. QED
    BY <1>1, <1>3, <2>1, <2>5, <2>6, <2>7, <2>8, CallKeeps
<1>. HIDE DEF IInv, Typed, ResultInv
<1>. QED
  BY <1>2, <1>3 DEF RampVout

LEMMA RampedStep == ASSUME IInv, Ramped PROVE IInv'
<1>. USE DEF IInv, Typed, ZeroInv, ResultInv
<1>1. /\ Free /\ job.at = "ramping" /\ UNCHANGED mailbox
      /\ UNCHANGED <<box, connected, state, proof, cancel, jobs, lives, faults>>
      /\ job \in Jobs /\ op \in Calls /\ PlanTyped
  BY DEF Ramped, Quiet, JobTyped, CallTyped
<1>2. CASE /\ op.answer = "ok"
           /\ job' = [job EXCEPT !.at = "over", !.result = op.target]
           /\ UNCHANGED <<plan, flag, op>>
  <2>1. op.target \in Voltages
    BY <1>1 DEF Calls
  <2>2. job' \in Jobs
    BY <1>1, <1>2, <2>1 DEF Jobs
  <2>3. /\ job'.at = "over" /\ job'.result = op.target /\ job'.ch = job.ch
        /\ job'.kind = job.kind /\ job'.targets = job.targets
    BY <1>1, <1>2 DEF Jobs
  <2>4. /\ UNCHANGED <<dac, wire, replies, changed, safe, touched, connected, state, cancel,
                       jobs, lives, faults, mailbox>>
    BY <1>1 DEF box, proof
  <2>5. WrittenInv' /\ UntouchedInv' /\ Rest' = Rest /\ BoxTyped'
    BY <2>4, QuietBox
  <2>6. Typed'
    BY <1>1, <1>2, <2>2, <2>4, <2>5
       DEF CallTyped, JobTyped, PlanTyped, MailboxTyped, FlagsTyped
  <2>7. ControlInv' /\ ShutdownInv' /\ EmergencyInv'
    BY <1>1, <1>2, <2>3, <2>5 DEF ControlInv, ShutdownInv, EmergencyInv, Done, OnChannel, Free
  <2>8. WithinJob' /\ PlanInv'
    BY <1>1, <1>2, <2>3, <2>4 DEF WithinJob, PlanInv, OnChannel, Free
  <2>9. HeldInv'
    BY <1>1, <1>2, <2>3, <2>4, <2>5 DEF HeldInv, Free
  <2>. QED
    BY <2>5, <2>6, <2>7, <2>8, <2>9
<1>3. CASE Rescue /\ UNCHANGED plan
  <2>1. PlanTyped'
    BY <1>1, <1>3 DEF PlanTyped
  <2>. HIDE DEF IInv, Typed, ZeroInv, ResultInv
  <2>. QED
    BY <1>1, <1>3, <2>1, RescueKeeps
<1>4. CASE CalibrationStops
  <2>. HIDE DEF IInv, Typed, ZeroInv, ResultInv
  <2>. QED
    BY <1>1, <1>4, CalibrationStopsKeeps
<1>. HIDE DEF IInv, Typed, ZeroInv, ResultInv
<1>. QED
  BY <1>2, <1>3, <1>4 DEF Ramped

LEMMA MeasuredStep == ASSUME IInv, Measured PROVE IInv'
<1>. USE DEF IInv, Typed, ZeroInv, ResultInv
<1>1. /\ Free /\ job.kind = "calibration" /\ job.at = "ramping" /\ op.answer = "ok"
      /\ op.of = "ramp" /\ UNCHANGED <<dac, wire, touched, cancel, jobs, lives>>
      /\ job \in Jobs /\ PlanTyped
  BY DEF Measured, At, JobTyped, ControlInv
<1>2. CASE Hear /\ Goes("armed") /\ UNCHANGED <<session, changed, safe, op, mailbox, faults>>
  <2>1. UNCHANGED <<connected, state, plan, flag>>
    BY <1>2 DEF session
  <2>2. PlanTyped' /\ FlagsTyped'
    BY <1>1, <1>2, <2>1 DEF PlanTyped, FlagsTyped
  <2>3. job'.at = "armed" /\ job'.kind = "calibration" /\ job'.targets = job.targets
    BY <1>1, <1>2 DEF Goes, Jobs
  <2>4. PlanInv'
    BY <1>1, <1>2, <2>1, <2>3 DEF PlanInv, Sound, OnChannel, Free
  <2>. HIDE DEF IInv, Typed, ZeroInv, ResultInv
  <2>. QED
    BY <1>1, <1>2, <2>2, <2>4, JobKeeps
<1>3. CASE Faulty /\ UNCHANGED <<job, changed, flag>> /\ FaultAndClose
  <2>1. /\ plan' = Unplanned /\ safe' = FALSE /\ replies' = <<>> /\ connected' = FALSE
        /\ state' \in {"unknown", "fault"} /\ Return("error")
    BY <1>3 DEF FaultAndClose
  <2>2. WrittenInv' /\ UntouchedInv' /\ Rest' = Rest /\ BoxTyped'
    BY <1>1, <1>3, <2>1, QuietBox
  <2>3. /\ CallTyped' /\ MailboxTyped' /\ op'.of = "ramp" /\ op'.pc = "idle"
        /\ op'.answer = "error"
        /\ mailbox'.pending # NoTarget => mailbox'.pending = mailbox.pending
    BY <1>1, <2>1, Returned
  <2>4. PlanTyped' /\ JobTyped'
    BY <1>1, <1>3, <2>1, UnplannedTyped DEF PlanTyped, JobTyped
  <2>5. faults' \in 0..MaxFaults
    BY <1>3, FaultyTyped
  <2>6. FlagsTyped'
    BY <1>1, <1>3, <2>1, <2>5 DEF FlagsTyped
  <2>7. ControlInv' /\ ShutdownInv' /\ EmergencyInv'
    BY <1>1, <1>3, <2>3 DEF ControlInv, ShutdownInv, EmergencyInv, OnChannel
  <2>8. WithinJob' /\ PlanInv' /\ HeldInv'
    BY <1>1, <1>3, <2>3 DEF WithinJob, PlanInv, HeldInv, Sound, OnChannel
  <2>. QED
    BY <2>2, <2>3, <2>4, <2>6, <2>7, <2>8
<1>. HIDE DEF IInv, Typed, ZeroInv, ResultInv
<1>. QED
  BY <1>2, <1>3 DEF Measured

LEMMA ZeroStep == ASSUME IInv, Zero \/ ZeroEnds \/ EmergencyOff PROVE IInv'
<1>1. /\ Free /\ job.at \in {"start", "stopping"} /\ job.ch \in Channels
      /\ UNCHANGED mailbox
      /\ UNCHANGED <<box, connected, state, proof, cancel, jobs, lives, faults>>
      /\ PlanTyped
  BY DEF Zero, ZeroEnds, EmergencyOff, At, Quiet, IInv, Typed, JobTyped, Jobs
<1>2. CASE Goes("stopping") /\ StopVout(Call("stop", job.ch, 0))
  BY <1>1, <1>2, StopKeeps
<1>3. CASE Rescue /\ UNCHANGED plan
  BY <1>1, <1>3, RescueKeeps DEF PlanTyped
<1>4. CASE Goes("over") /\ UNCHANGED <<flag, op, plan>>
  BY <1>1, <1>4, JobRests DEF PlanTyped
<1>. QED
  BY <1>2, <1>3, <1>4 DEF Zero, ZeroEnds, EmergencyOff

LEMMA DisconnectStep == ASSUME IInv, Disconnect PROVE IInv'
<1>1. /\ Free /\ job.at = "start" /\ UNCHANGED mailbox /\ plan' = Unplanned
      /\ UNCHANGED <<box, connected, state, proof, cancel, jobs, lives, faults>>
  BY DEF Disconnect, At, Quiet
<1>2. PlanTyped'
  BY <1>1, UnplannedTyped DEF IInv, Typed, PlanTyped
<1>3. CASE Rescue
  BY <1>1, <1>2, <1>3, RescueKeeps
<1>4. CASE Goes("rescue") /\ UNCHANGED <<flag, op>>
  BY <1>1, <1>2, <1>4, JobRests
<1>. QED
  BY <1>3, <1>4 DEF Disconnect

LEMMA RescuedStep == ASSUME IInv, Rescued PROVE IInv'
<1>1. /\ Free /\ job.at = "rescue" /\ Goes("over") /\ Closed
      /\ UNCHANGED <<dac, wire, plan, flag, changed, safe, touched, op, cancel, jobs, lives,
                     faults>>
      /\ connected' \in {connected, FALSE} /\ state' \in {state, "disconnected"}
      /\ replies' = replies \/ replies' = <<>>
  BY DEF Rescued, proof
<1>2. PlanTyped' /\ FlagsTyped'
  BY <1>1 DEF IInv, Typed, PlanTyped, FlagsTyped
<1>3. PlanInv'
  BY <1>1, RestsUnplanned
<1>. QED
  BY <1>1, <1>2, <1>3, JobKeeps

\* A new job, between two calls.
LEMMA StartStep == ASSUME IInv, NEW kind \in Kinds, Start(kind) PROVE IInv'
<1>. USE DEF IInv, Typed, ZeroInv, ResultInv
<1>1. /\ job.at = "none" /\ op.pc = "idle"
      /\ UNCHANGED <<dac, wire, replies, connected, state, plan, flag, changed, safe, touched,
                     op, lives, faults>>
      /\ jobs' = jobs + 1 /\ jobs < MaxJobs /\ cancel' = FALSE
      /\ mailbox' = [pending |-> NoTarget, open |-> kind = "voltage"]
  BY DEF Start, Busy, ControlInv, box, session, proof
<1>2. PICK c \in Channels : \E ts \in Trajectories(kind, c) :
        job' = [kind |-> kind, at |-> "start", ch |-> c, targets |-> ts, result |-> NoTarget]
  BY Envelope DEF Start
<1>3. PICK ts \in Trajectories(kind, c) :
        job' = [kind |-> kind, at |-> "start", ch |-> c, targets |-> ts, result |-> NoTarget]
  BY <1>2
<1>4. /\ ts \in Seq(Voltages) /\ \A i \in DOMAIN ts : ts[i] \in Targets(c)
      /\ kind = "voltage" => Len(ts) = 1
  <2>1. CASE kind = "voltage"
    <3>1. PICK t \in Targets(c) : ts = <<t>>
      BY <1>3, <2>1 DEF Trajectories
    <3>2. t \in Voltages
      BY <3>1, Envelope
    <3>. QED
      BY <3>1, <3>2
  <2>2. CASE kind = "calibration"
    <3>1. ts = <<Lo[c], Hi[c]>>
      BY <1>3, <2>2 DEF Trajectories
    <3>2. Lo[c] \in Targets(c) /\ Hi[c] \in Targets(c)
      BY EnvelopeAssumption DEF Targets
    <3>3. Lo[c] \in Voltages /\ Hi[c] \in Voltages
      BY <3>2, Envelope
    <3>. QED
      BY <2>2, <3>1, <3>2, <3>3
  <2>3. CASE kind \notin {"voltage", "calibration"}
    <3>1. ts = <<>>
      BY <1>3, <2>3 DEF Trajectories, NoPlan
    <3>. QED
      BY <2>3, <3>1
  <2>. QED
    BY <2>1, <2>2, <2>3
<1>5. job' \in Jobs
  BY <1>3, <1>4 DEF Jobs
<1>6. WrittenInv' /\ UntouchedInv' /\ Rest' = Rest /\ BoxTyped'
  BY <1>1, QuietBox
<1>7. MailboxTyped' /\ mailbox'.pending = NoTarget
  <2>1. (kind = "voltage") \in BOOLEAN
    OBVIOUS
  <2>. QED
    BY <1>1, <2>1 DEF MailboxTyped
<1>8. FlagsTyped'
  <2>1. jobs' \in 0..MaxJobs
    BY <1>1, BoundsAssumption DEF FlagsTyped
  <2>. QED
    BY <1>1, <2>1 DEF FlagsTyped
<1>9. Typed'
  BY <1>1, <1>5, <1>6, <1>7, <1>8 DEF CallTyped, JobTyped, PlanTyped
<1>10. ControlInv' /\ ShutdownInv' /\ EmergencyInv'
  BY <1>1, <1>3, <1>6 DEF ControlInv, ShutdownInv, EmergencyInv, Done, OnChannel
<1>11. WithinJob' /\ PlanInv' /\ HeldInv'
  BY <1>1, <1>3, <1>4, <1>7 DEF WithinJob, PlanInv, HeldInv, OnChannel
<1>. QED
  BY <1>6, <1>9, <1>10, <1>11

LEMMA MailStep == ASSUME IInv, Publish \/ Stop PROVE IInv'
<1>. USE DEF IInv, Typed, ZeroInv, ResultInv
<1>1. /\ UNCHANGED <<dac, wire, replies, connected, state, plan, flag, changed, safe, touched,
                     op, job, jobs, faults>>
      /\ cancel' \in BOOLEAN /\ lives' \in 0..MaxLive
  <2>1. lives \in 0..MaxLive /\ cancel \in BOOLEAN
    BY DEF FlagsTyped
  <2>2. CASE Publish
    <3>1. lives' = lives + 1 /\ lives < MaxLive
      BY <2>2 DEF Publish
    <3>2. lives' \in 0..MaxLive
      BY <2>1, <3>1, BoundsAssumption
    <3>. QED
      BY <2>1, <2>2, <3>2 DEF Publish, box, session, proof
  <2>3. CASE Stop
    BY <2>1, <2>3 DEF Stop, box, session, proof
  <2>. QED
    BY <2>2, <2>3
<1>2. PICK t \in Targets(job.ch) \cup {NoTarget} : mailbox' = [mailbox EXCEPT !.pending = t]
  BY DEF Publish, Stop
<1>3. MailboxTyped' /\ mailbox'.pending = t
  <2>1. t \in Voltages \cup {NoTarget}
    BY Envelope DEF JobTyped, Jobs
  <2>. QED
    BY <1>2, <2>1 DEF MailboxTyped
<1>4. WrittenInv' /\ UntouchedInv' /\ Rest' = Rest /\ BoxTyped'
  BY <1>1, QuietBox
<1>5. Typed'
  BY <1>1, <1>3, <1>4 DEF CallTyped, JobTyped, PlanTyped, FlagsTyped
<1>6. ControlInv' /\ ShutdownInv' /\ EmergencyInv'
  BY <1>1, <1>4 DEF ControlInv, ShutdownInv, EmergencyInv, Done, OnChannel
<1>7. WithinJob' /\ PlanInv' /\ HeldInv'
  BY <1>1, <1>3, <1>4 DEF WithinJob, PlanInv, HeldInv, Sound, OnChannel
<1>. QED
  BY <1>4, <1>5, <1>6, <1>7

LEMMA JobFinishedStep == ASSUME IInv, JobFinished PROVE IInv'
<1>. USE DEF IInv, Typed, ZeroInv, ResultInv
<1>1. /\ UNCHANGED <<dac, wire, replies, connected, state, plan, flag, changed, safe, touched,
                     op, cancel, mailbox, jobs, lives, faults>>
      /\ job \in Jobs /\ job.at = "over" /\ op.pc = "idle" /\ Goes("none")
  BY DEF JobFinished, box, session, proof, JobTyped, ControlInv
<1>2. job' \in Jobs
  BY <1>1 DEF Goes, Jobs
<1>3. /\ job'.at = "none" /\ job'.ch = job.ch /\ job'.kind = job.kind
      /\ job'.targets = job.targets
  BY <1>1 DEF Goes, Jobs
<1>4. WrittenInv' /\ UntouchedInv' /\ Rest' = Rest /\ BoxTyped'
  BY <1>1, QuietBox
<1>5. Typed'
  BY <1>1, <1>2, <1>4 DEF CallTyped, JobTyped, PlanTyped, MailboxTyped, FlagsTyped
<1>6. ControlInv' /\ ShutdownInv' /\ EmergencyInv'
  BY <1>1, <1>3, <1>4 DEF ControlInv, ShutdownInv, EmergencyInv, Done, OnChannel
<1>7. WithinJob' /\ PlanInv' /\ HeldInv'
  BY <1>1, <1>3 DEF WithinJob, PlanInv, HeldInv, OnChannel
<1>. QED
  BY <1>4, <1>5, <1>6, <1>7

\* Steps that touch the session, or nothing.
LEMMA ConnectStep == ASSUME IInv, Connect \/ UNCHANGED vars PROVE IInv'
<1>. USE DEF IInv, Typed, ZeroInv, ResultInv
<1>1. /\ UNCHANGED <<dac, wire, replies, plan, flag, changed, safe, touched, op, job, cancel,
                     mailbox, jobs, lives>>
      /\ connected' \in BOOLEAN /\ state' \in {"disconnected", "verified", "unknown", "fault"}
      /\ faults' \in 0..MaxFaults
  <2>1. CASE Connect
    <3>1. faults' \in 0..MaxFaults
      BY <2>1, FaultyTyped DEF Connect, FlagsTyped
    <3>. QED
      BY <2>1, <3>1 DEF Connect, box, proof, page
  <2>2. CASE UNCHANGED vars
    BY <2>2 DEF vars, FlagsTyped
  <2>. QED
    BY <2>1, <2>2
<1>2. WrittenInv' /\ UntouchedInv' /\ Rest' = Rest /\ BoxTyped'
  BY <1>1, QuietBox
<1>3. Typed'
  BY <1>1, <1>2 DEF CallTyped, JobTyped, PlanTyped, MailboxTyped, FlagsTyped
<1>4. ControlInv' /\ ShutdownInv' /\ EmergencyInv'
  BY <1>1, <1>2 DEF ControlInv, ShutdownInv, EmergencyInv, Done, OnChannel
<1>5. WithinJob' /\ PlanInv' /\ HeldInv'
  BY <1>1, <1>2 DEF WithinJob, PlanInv, HeldInv, Sound, OnChannel
<1>. QED
  BY <1>2, <1>3, <1>4, <1>5

-----------------------------------------------------------------------------
(* What always holds.                                                      *)

LEMMA InitIInv == Init => IInv
<1>. SUFFICES ASSUME Init PROVE IInv
  OBVIOUS
<1>1. /\ wire = <<>> /\ replies = <<>> /\ op = NoCall /\ touched = {} /\ changed = {}
      /\ safe = FALSE /\ mailbox.pending = NoTarget
      /\ job.at = "none" /\ job.targets = <<>> /\ job.kind = "none" /\ job.result = NoTarget
  BY DEF Init, NoPlan
<1>2. op.pc = "idle" /\ op.of = "none" /\ op.answer = "none"
  BY <1>1 DEF NoCall
<1>3. BoxTyped
  BY DEF Init, BoxTyped, WireTyped
<1>4. CallTyped /\ JobTyped /\ PlanTyped /\ MailboxTyped
  BY NewCallTyped, Envelope
     DEF Init, CallTyped, JobTyped, Jobs, PlanTyped, MailboxTyped, NoPlan
<1>5. FlagsTyped
  <2>1. 0 \in 0..MaxJobs /\ 0 \in 0..MaxLive /\ 0 \in 0..MaxFaults
    BY BoundsAssumption
  <2>. QED
    BY <2>1 DEF Init, FlagsTyped
<1>6. ControlInv /\ ShutdownInv
  BY <1>1, <1>2 DEF ControlInv, ShutdownInv, OnChannel
<1>7. ZeroInv
  BY <1>1, <1>2, <1>3 DEF ZeroInv, WrittenInv, UntouchedInv, EmergencyInv
<1>8. ResultInv
  BY <1>1, <1>2 DEF ResultInv, WithinJob, PlanInv, HeldInv, Sound, OnChannel
<1>. QED
  BY <1>3, <1>4, <1>5, <1>6, <1>7, <1>8 DEF IInv, Typed

LEMMA NextIInv == IInv /\ [Next]_vars => IInv'
<1>. SUFFICES ASSUME IInv, [Next]_vars PROVE IInv'
  OBVIOUS
<1>1. CASE CarryOut
  BY <1>1, CarryOutStep
<1>2. CASE AdapterStep
  BY <1>2, InitialReadbackStep, NextStepStep, RetargetStep, SendStep, ConfirmStep,
     SettledStep, GiveUpStep, EmergencyNextStep, EmergencyEndsStep DEF AdapterStep
<1>3. CASE AdapterFails
  BY <1>3, GiveUpStep DEF AdapterFails
<1>4. CASE WorkerStep
  BY <1>4, ConfigureStep, ArmStep, RampVoutStep, RampedStep, MeasuredStep, ZeroStep,
     DisconnectStep, RescuedStep DEF WorkerStep
<1>5. CASE PageStep
  BY <1>5, StartStep, MailStep, JobFinishedStep, ConnectStep DEF PageStep
<1>6. CASE UNCHANGED vars
  BY <1>6, ConnectStep
<1>. QED
  BY <1>1, <1>2, <1>3, <1>4, <1>5, <1>6 DEF Next

LEMMA Always == Spec => []IInv
BY InitIInv, NextIInv, PTL DEF Spec

\* The variables keep their types: the jobs, the calls of the adapter, the SETs on
\* their way and the replies nobody waits for.
THEOREM TypeCorrect == Spec => []TypeOK
<1>1. IInv => TypeOK
  BY DEF IInv, Typed, CallTyped, JobTyped, PlanTyped, BoxTyped, WireTyped, SetCommand,
         MailboxTyped, FlagsTyped, TypeOK
<1>. QED
  BY <1>1, Always, PTL

\* A zero MokeBoxAdapter vouches for is the one the output comes to rest at, whatever
\* SET of whatever session is still on its way: for a channel that was written and is
\* not in _changed_channels any more, for every channel written when
\* safe_target_confirmed is set, and for every approved channel after an
\* emergency_off in which no shutdown failed.
THEOREM VouchedZeroSettles == Spec => []ZeroSettles
<1>1. ASSUME IInv PROVE ZeroSettles
  <2>. USE <1>1 DEF IInv, Typed, ZeroInv
  <2>1. \A c \in Channels : Rest[c] = Final(c)
    BY DEF Rest
  <2>2. \A c \in touched \ changed : Final(c) = 0
    BY <2>1 DEF WrittenInv, FlagsTyped
  <2>3. ASSUME op.of = "emergency", Free, ~op.failed, NEW c \in Channels PROVE Final(c) = 0
    <3>1. op.left = <<>> /\ Done = op.tried
      BY <2>3 DEF EmergencyInv, Free, Done, OnChannel
    <3>2. Range(op.left) = {}
      BY <3>1 DEF Range
    <3>. QED
      BY <2>1, <2>3, <3>1, <3>2 DEF EmergencyInv
  <2>. QED
    BY <2>2, <2>3 DEF WrittenInv, ZeroSettles
<1>. QED
  BY <1>1, Always, PTL

\* A field job that reports success reports a voltage within the envelope of its
\* channel, and the one the output holds, as long as the replies of the session are
\* in step with its requests.
THEOREM ReportedVoltageHeld == Spec => []ResultTrue
<1>1. ASSUME IInv PROVE ResultTrue
  <2>1. job.ch \in Channels
    BY <1>1 DEF IInv, Typed, JobTyped, Jobs
  <2>2. Rest[job.ch] = Final(job.ch)
    BY <2>1 DEF Rest
  <2>. QED
    BY <1>1, <2>2 DEF IInv, ResultInv, HeldInv, ResultTrue, InRange
<1>. QED
  BY <1>1, Always, PTL
=============================================================================
