--------------------------- MODULE RecipeCompiler ---------------------------
(***************************************************************************)
(* The recipe compiler: how an authored tree of operations, sweeps,        *)
(* repeats and device modules is expanded into the flat plan RecipeRunner  *)
(* executes, and which recipes are refused.                                *)
(*                                                                         *)
(* The instruments are source channels with a level and an output, as the  *)
(* channels of the Keithley.  A recipe is built one operation at a time    *)
(* and compiled after each step, so that the invariants speak of every     *)
(* recipe made of its beginning and up to MaxBlocks blocks more.            *)
(***************************************************************************)
EXTENDS Integers, Sequences, FiniteSets, SequencesExt

CONSTANTS
    Channels, NoChannel, \* source channels, and the "channel" of a checkpoint
    Axes,                \* the sequences of values a sweep may have
    Literals,            \* the levels an operation may name
    Starts,              \* the blocks a recipe may begin with
    Count,               \* how often a repeat runs its body
    MaxPoints,           \* execution.max_expanded_points
    MaxBlocks            \* bound: how many blocks are added to a start

Zero == 0     \* where a ramp ends
Ref == -1     \* a level written as a reference to the sweep of its channel
Unset == -2

ASSUME RecipeAssumption ==
    /\ NoChannel \notin Channels
    /\ Literals \subseteq Nat
    /\ Axes \subseteq Seq(Nat) \ {<<>>}
    /\ Count \in Nat /\ MaxPoints \in Nat /\ MaxBlocks \in Nat

VARIABLES
    main, finals, \* the recipe: the children of its root, and its Finally
    added,        \* how many blocks were added to its start
    plan          \* what compile makes of it

vars == <<main, finals, added, plan>>

-----------------------------------------------------------------------------
(* Recipes.                                                                *)

Block == [type |-> "checkpoint", ch |-> NoChannel, level |-> Unset,
          values |-> <<>>, policy |-> "unchanged", children |-> <<>>]
Op(type, ch, level) == [Block EXCEPT !.type = type, !.ch = ch, !.level = level]

Operations ==
    {Block}
    \cup {Op(type, ch, level) : type \in {"configure", "update"}, ch \in Channels,
                                level \in Literals \cup {Ref}}
    \cup {Op(type, ch, Unset) : type \in {"on", "off", "ramp"}, ch \in Channels}

ASSUME StartsAssumption == Starts \subseteq Seq(Operations)

Policies == {"unchanged", "on", "off", "on_keep", "continue"}

\* A loop or device module around one of the given bodies; a module selects no
\* parameter, sets the level, or sweeps it.
Loops(bodies) ==
    [type : {"repeat"}, ch : {NoChannel}, level : {Unset}, values : {<<>>},
        policy : {"unchanged"}, children : bodies]
    \cup [type : {"sweep"}, ch : Channels, level : {Unset}, values : Axes,
             policy : {"unchanged"}, children : bodies]
Modules(bodies) ==
    [type : {"device"}, ch : Channels, level : {Unset}, values : Axes \cup {<<>>},
        policy : Policies, children : bodies]
    \cup [type : {"device"}, ch : Channels, level : Literals, values : {<<>>},
             policy : Policies, children : bodies]

\* The blocks that are at most d deep.
Depth == MaxBlocks + 1
Blocks[d \in 0..Depth] ==
    IF d = 0 THEN {}
    ELSE Operations \cup Loops(Seq(Blocks[d - 1])) \cup Modules(Seq(Blocks[d - 1]))

AllBlocks == Blocks[Depth]

FinalBlocks ==
    {Op(type, ch, Unset) : type \in {"on", "off", "ramp"}, ch \in Channels}
    \cup {[Op("final_state", ch, level) EXCEPT !.policy = output] :
            ch \in Channels, level \in Literals \cup {Unset}, output \in {"off", "hold"}}

\* A block and those in it.
Within[d \in 0..Depth] ==
    IF d = 0 THEN <<>>
    ELSE [node \in AllBlocks |->
            {node} \cup UNION {Within[d - 1][child] : child \in ToSet(node.children)}]
Inside(node) == UNION {Within[Depth][child] : child \in ToSet(node.children)}

\* A level set by a block, other than by reference.
Sets(node, ch) ==
    node.ch = ch /\ (node.type = "ramp" \/ node.level \in Literals \/ node.values # <<>>)

IsAxis(node) == node.values # <<>>

\* Two axes of one channel may not be active at a time.
NestedAxes(nodes) ==
    \E root \in ToSet(nodes) : \E outer \in Within[Depth][root] :
        IsAxis(outer) /\ \E inner \in Inside(outer) : IsAxis(inner) /\ inner.ch = outer.ch

Sum(numbers) ==
    LET sum[i \in 0..Len(numbers)] == IF i = 0 THEN 0 ELSE sum[i - 1] + numbers[i]
    IN sum[Len(numbers)]

\* How often a block runs its body.
Passes(node) ==
    IF IsAxis(node) THEN Len(node.values) ELSE IF node.type = "repeat" THEN Count ELSE 1

\* The points of a block, counted before anything is expanded.
\* Mutant: a device module is taken for a block that is run once.
MultiplierOfSweeps(node) ==
    (IF node.type = "repeat" THEN Count ELSE 1)
        * (IF node.type = "sweep" THEN Len(node.values) ELSE 1)
Multiplier(node) ==
    (IF node.type = "repeat" THEN Count ELSE 1)
        * (IF IsAxis(node) THEN Len(node.values) ELSE 1)
Points[d \in 0..Depth] ==
    IF d = 0 THEN <<>>
    ELSE [node \in AllBlocks |->
            IF node.type = "checkpoint" THEN 1
            ELSE Multiplier(node) * Sum([i \in DOMAIN node.children |-> Points[d - 1][node.children[i]]])]
PointsOf(nodes) == Sum([i \in DOMAIN nodes |-> Points[Depth][nodes[i]]])

-----------------------------------------------------------------------------
(* The traversal.  A compilation has the actions emitted so far, the       *)
(* context of setpoints that each of them is stamped with, and the axes it *)
(* is inside of: axisPath those of sweep blocks, loopPath those an action  *)
(* reports.                                                                *)

Levels == Literals \cup UNION {ToSet(values) : values \in Axes}
Setpoints == [Channels -> Levels \cup {Unset}]

Fresh == [accepted |-> TRUE, actions |-> <<>>, context |-> [ch \in Channels |-> Unset],
          planned |-> [ch \in Channels |-> Unset], axisPath |-> {}, loopPath |-> {}]
Refuse(c) == [c EXCEPT !.accepted = FALSE]

\* The level the emitted actions will have left on a channel, once it is configured.
Replanned(planned, kind, ch, level) ==
    IF kind = "configure" \/ (kind = "update" /\ planned[ch] # Unset)
    THEN [planned EXCEPT ![ch] = level]
    ELSE planned

Action(c, kind, ch, level) ==
    [kind |-> kind, ch |-> ch, level |-> level, setpoints |-> c.context,
     loopPath |-> c.loopPath, finally |-> FALSE, completionOnly |-> FALSE,
     faultOnly |-> FALSE, retains |-> FALSE]
Emit(c, kind, ch, level) ==
    [c EXCEPT !.actions = Append(@, Action(c, kind, ch, level)),
              !.planned = Replanned(@, kind, ch, level)]
EmitIf(test, c, kind, ch, level) == IF test THEN Emit(c, kind, ch, level) ELSE c

\* An operation that sets a level is remembered in the context it was met in.
Remember(c, ch, level) == [c EXCEPT !.context[ch] = level]
EmitLevel(c, kind, ch, level) == Remember(Emit(c, kind, ch, level), ch, level)

Resolved(c, node) == IF node.level = Ref THEN c.context[node.ch] ELSE node.level

VisitOperation(node, c) ==
    IF node.type \in {"configure", "update"}
    THEN IF Resolved(c, node) = Unset THEN Refuse(c)
         ELSE EmitLevel(c, node.type, node.ch, Resolved(c, node))
    ELSE Emit(c, node.type, node.ch, Unset)

\* A block is visited in a context, and adds its actions to those before it.  V is
\* how the blocks one level down are visited.
Bare(c) == [c EXCEPT !.actions = <<>>]
After(c, visited) == [visited EXCEPT !.actions = c.actions \o @]

VisitOne(V, node, folded, c) ==
    IF c.accepted /\ node \notin folded THEN After(c, V[node][Bare(c)]) ELSE c
VisitAll(V, nodes, folded, c) ==
    LET visited[i \in 0..Len(nodes)] ==
            IF i = 0 THEN c ELSE VisitOne(V, nodes[i], folded, visited[i - 1])
    IN visited[Len(nodes)]

Authored(node) ==
    \E child \in ToSet(node.children) :
        child.type = "configure" /\ child.ch = node.ch /\ child.level = Ref

\* The updates by reference that the generated update of a sweep stands for.
Folded(node, generated) ==
    {child \in ToSet(node.children) :
        generated /\ child.type = "update" /\ child.ch = node.ch /\ child.level = Ref}

\* A sweep generates an update per value, unless its body configures the channel.
Generates(node, c) == node.type = "sweep" /\ c.planned[node.ch] # Unset /\ ~Authored(node)

Continues(node) == node.policy = "continue"

\* Whether point i of a module's own sweep sends its value: the first value is part
\* of the module's configuration, unless the output is left on.
\* Mutant: so is the first value of a module that leaves the output on.
SentAfterFirst(node, i) == i > 1 /\ node.values[i] # node.values[i - 1]
Sent(node, i) ==
    \/ i = 1 /\ Continues(node)
    \/ i > 1 /\ node.values[i] # node.values[i - 1]

\* What precedes the body in pass i of a loop or of a module.
EnterSweep(node, generated, c, i) ==
    LET inner == Remember(c, node.ch, node.values[i])
        path == c.axisPath \cup {node}
    IN IF generated
       THEN [Emit([inner EXCEPT !.loopPath = path], "update", node.ch, node.values[i])
               EXCEPT !.axisPath = path]
       ELSE inner
EnterModule(node, c, i) ==
    LET inner == [Remember(c, node.ch, node.values[i]) EXCEPT
                    !.loopPath = (IF c.loopPath = {} THEN c.axisPath ELSE c.loopPath) \cup {node}]
        checked == EmitIf(Continues(node) /\ i > 1, inner, "assert", node.ch, Unset)
    IN EmitIf(Sent(node, i), checked, "update", node.ch, node.values[i])
Enter(node, generated, c, i) ==
    CASE node.type = "sweep" -> EnterSweep(node, generated, c, i)
      [] node.type = "device" /\ IsAxis(node) -> EnterModule(node, c, i)
      [] OTHER -> c

\* A body is visited with a copy of the context; what it remembers ends with it.
Leave(c, outer) ==
    [c EXCEPT !.context = outer.context, !.axisPath = outer.axisPath, !.loopPath = outer.loopPath]

VisitPass(V, node, generated, c, i) ==
    Leave(VisitAll(V, node.children, Folded(node, generated), Enter(node, generated, c, i)), c)
VisitPasses(V, node, generated, c) ==
    LET pass[i \in 0..Passes(node)] ==
            IF i = 0 THEN c ELSE VisitPass(V, node, generated, pass[i - 1], i)
    IN pass[Passes(node)]

VisitSweep(V, node, c) ==
    IF c.planned[node.ch] # Unset \/ Authored(node)
    THEN VisitPasses(V, node, Generates(node, c), c)
    ELSE Refuse(c)

ModuleBegins(node, c) ==
    LET level == IF IsAxis(node) THEN node.values[1] ELSE node.level
        prepared == IF Continues(node) THEN Emit(c, "assert", node.ch, c.planned[node.ch])
                    ELSE IF level = Unset THEN c
                    ELSE EmitLevel(c, "configure", node.ch, level)
        on == EmitIf(node.policy \in {"on", "on_keep"}, prepared, "on", node.ch, Unset)
    IN EmitIf(node.policy = "off", on, "off", node.ch, Unset)

VisitModule(V, node, c) ==
    IF c.planned[node.ch] = Unset \/ (Continues(node) /\ node.level # Unset) THEN Refuse(c)
    ELSE EmitIf(node.policy = "on", VisitPasses(V, node, FALSE, ModuleBegins(node, c)),
                "off", node.ch, Unset)

VisitBlock(V, node, c) ==
    CASE node.type = "repeat" -> VisitPasses(V, node, FALSE, c)
      [] node.type = "sweep" -> VisitSweep(V, node, c)
      [] node.type = "device" -> VisitModule(V, node, c)
      [] OTHER -> VisitOperation(node, c)

Compilations(actions) ==
    [accepted : BOOLEAN, actions : actions, context : Setpoints, planned : Setpoints,
     axisPath : SUBSET AllBlocks, loopPath : SUBSET AllBlocks]
Given == Compilations({<<>>})

Visit[d \in 0..Depth] ==
    IF d = 0 THEN <<>>
    ELSE [node \in AllBlocks |-> [c \in Given |-> VisitBlock(Visit[d - 1], node, c)]]

-----------------------------------------------------------------------------
(* Finally.                                                                *)

CompletionOf(c, ch) ==
    \E i \in DOMAIN c.actions : c.actions[i].completionOnly /\ c.actions[i].ch = ch

\* Mutant: a channel may have two final states.
FinalRefusedOnlyBare(node, c) == c.planned[node.ch] = Unset
FinalRefused(node, c) == CompletionOf(c, node.ch) \/ c.planned[node.ch] = Unset

\* The actions after the first n are those of Finally: a completed run alone executes
\* them, or a failed one too; the last may retain its output.
Ending(actions, n, completionOnly, held) ==
    [i \in DOMAIN actions |->
       IF i <= n THEN actions[i]
       ELSE [actions[i] EXCEPT !.finally = TRUE, !.completionOnly = completionOnly,
                               !.retains = held /\ i = Len(actions)]]

\* A final state is reached by operations that only a completed run executes; the
\* last of those of a held output is the assertion that retains it.
VisitFinalState(node, c) ==
    LET hold == node.policy = "hold"
        moved == IF node.level = Unset THEN c ELSE EmitLevel(c, "update", node.ch, node.level)
        ended == Emit(moved, IF hold THEN "assert" ELSE "off", node.ch, Unset)
    IN IF FinalRefused(node, c) THEN Refuse(c)
       ELSE [ended EXCEPT !.context = c.context,
                          !.actions = Ending(@, Len(c.actions), TRUE, hold)]

VisitShutdown(node, c) ==
    IF node.type = "on" \/ \E i \in DOMAIN c.actions : c.actions[i].completionOnly
    THEN Refuse(c)
    ELSE [Emit(c, node.type, node.ch, Unset) EXCEPT
            !.actions = Ending(@, Len(c.actions), FALSE, FALSE)]

VisitFinally(node, c) ==
    IF ~c.accepted THEN c
    ELSE LET clean == [c EXCEPT !.context = Fresh.context]
         IN IF node.type = "final_state" THEN VisitFinalState(node, clean)
            ELSE VisitShutdown(node, clean)

FinallyOf(ends, c) ==
    LET visited[i \in 0..Len(ends)] ==
            IF i = 0 THEN c ELSE VisitFinally(ends[i], visited[i - 1])
    IN visited[Len(ends)]

\* A shutdown action of a channel that has a final state is for a failed run only.
\* Mutant: the final state's own actions are taken for overridden ones.
OverriddenAll(c, a) == a.finally /\ CompletionOf(c, a.ch)
Overridden(c, a) ==
    a.finally /\ ~a.completionOnly /\ CompletionOf(c, a.ch)
FaultOnlyMarked(c) ==
    [c EXCEPT !.actions =
       [i \in DOMAIN @ |-> [@[i] EXCEPT !.faultOnly = Overridden(c, c.actions[i])]]]

-----------------------------------------------------------------------------
(* The checks of the expanded plan.                                        *)

Target(a, kinds) == IF a.kind \in kinds THEN {a.ch} ELSE {}

\* What is known of the channels after an action: which have been configured and
\* which are on, and whether the action could be valid at all.
\* Mutant: that a configuration switches the output off is forgotten.
FlowKeepsOn(f, a) ==
    [valid |-> f.valid /\ Target(a, {"on", "update", "assert"}) \subseteq f.configured
                       /\ Target(a, {"assert"}) \subseteq f.on,
     configured |-> f.configured \cup Target(a, {"configure"}),
     on |-> (f.on \ Target(a, {"off"})) \cup Target(a, {"on"})]
Flow(f, a) ==
    [valid |-> f.valid /\ Target(a, {"on", "update", "assert"}) \subseteq f.configured
                       /\ Target(a, {"assert"}) \subseteq f.on,
     configured |-> f.configured \cup Target(a, {"configure"}),
     on |-> (f.on \ Target(a, {"configure", "off"})) \cup Target(a, {"on"})]

\* What the actions that a completed run executes make known.
StateFlow(actions) ==
    LET flow[i \in 0..Len(actions)] ==
            IF i = 0 THEN [valid |-> TRUE, configured |-> {}, on |-> {}]
            ELSE IF actions[i].faultOnly THEN flow[i - 1]
            ELSE Flow(flow[i - 1], actions[i])
    IN flow

Stored(actions) ==
    Sum([i \in DOMAIN actions |-> IF actions[i].kind = "checkpoint" THEN 1 ELSE 0])

Expanded(nodes, c) == VisitAll(Visit[Depth], nodes, {}, c)

Compile(nodes, ends) ==
    LET c == FaultOnlyMarked(FinallyOf(ends, Expanded(nodes, Fresh)))
        accepted == /\ ~NestedAxes(nodes)
                    /\ PointsOf(nodes) <= MaxPoints
                    /\ c.accepted
                    /\ StateFlow(c.actions)[Len(c.actions)].valid
                    /\ c.actions # <<>>
                    /\ Stored(c.actions) <= MaxPoints
    IN [accepted |-> accepted, actions |-> IF accepted THEN c.actions ELSE <<>>]

-----------------------------------------------------------------------------
(* Authoring.                                                              *)

Init == main \in Starts /\ finals = <<>> /\ added = 0 /\ plan = Compile(main, <<>>)

\* A recipe for which compile must fail whatever is added to it, or put around its
\* last blocks, is left alone.
Known ==
    LET levels == [ch \in Channels |-> CHOOSE level \in Levels : TRUE]
    IN [Fresh EXCEPT !.context = levels]
Extensible ==
    /\ added < MaxBlocks
    /\ finals = <<>>
    /\ ~NestedAxes(main)
    /\ PointsOf(main) <= MaxPoints
    /\ Expanded(main, Known).accepted

Add ==
    /\ added' = added + 1
    /\ plan' = Compile(main', finals')

AddOperation ==
    /\ Extensible
    /\ \E op \in Operations : main' = Append(main, op)
    /\ UNCHANGED finals
    /\ Add

\* The last blocks are put into a loop or a device module.
Wrap ==
    /\ Extensible
    /\ \E k \in 0..(Len(main) - 1) : 
         \E block \in Loops({SubSeq(main, k + 1, Len(main))}) \cup
                      Modules({SubSeq(main, k + 1, Len(main))}) :
         main' = Append(SubSeq(main, 1, k), block)
    /\ UNCHANGED finals
    /\ Add

AddFinal ==
    /\ added < MaxBlocks
    /\ plan.accepted
    /\ \E block \in FinalBlocks : finals' = Append(finals, block)
    /\ UNCHANGED main
    /\ Add

Next == AddOperation \/ Wrap \/ AddFinal

Spec == Init /\ [][Next]_vars

TypeOK ==
    /\ main \in Seq(Blocks[added + 1])
    /\ finals \in Seq(FinalBlocks)
    /\ added \in 0..MaxBlocks
    /\ plan = Compile(main, finals)

-----------------------------------------------------------------------------
(* The execution of a plan that does not fail, for the properties: what    *)
(* the runner and the adapters do with each action.                        *)

Effect(m, a) ==
    [on |-> (m.on \ Target(a, {"configure", "off", "ramp"})) \cup Target(a, {"on"}),
     level |-> [ch \in Channels |->
                  IF ch \in Target(a, {"configure", "update"}) THEN a.level
                  ELSE IF ch \in Target(a, {"ramp"}) THEN Zero ELSE m.level[ch]]]

\* The channels after each action of a plan; they may have been on before the run.
Execution(actions) ==
    LET after[i \in 0..Len(actions)] ==
            IF i = 0 THEN [on |-> Channels, level |-> [ch \in Channels |-> Unset]]
            ELSE IF actions[i].faultOnly THEN after[i - 1]
            ELSE Effect(after[i - 1], actions[i])
    IN after

Act == plan.actions
Run == {i \in DOMAIN Act : ~Act[i].faultOnly}

Asserted(i) ==
    Act[i].kind = "assert" =>
        LET m == Execution(Act)[i - 1]
        IN Act[i].ch \in m.on /\ Act[i].level \in {Unset, m.level[Act[i].ch]}

-----------------------------------------------------------------------------
(* Properties.                                                             *)

\* Every level of a plan is a number the recipe names, every action that sets one
\* has one, and every reference has been resolved.
Resolves(actions) ==
    \A a \in ToSet(actions) :
        /\ a.level \in Levels \cup (IF a.kind \in {"configure", "update"} THEN {} ELSE {Unset})
        /\ \A ch \in Channels : a.setpoints[ch] \in Levels \cup {Unset}

\* What RecipeRunner assumes of every plan (its CompiledAssumption; a ramp is one
\* way of switching off): its levels are numbers, Finally comes last and only
\* switches off, and only the assertion of a held output, which a failed run never
\* executes, retains it.
RunnerAssumption ==
    /\ Resolves(Act)
    /\ \A i \in DOMAIN Act :
        /\ Act[i].finally /\ ~Act[i].completionOnly => Act[i].kind \in {"off", "ramp"}
        /\ Act[i].finally => \A j \in i..Len(Act) : Act[j].finally
        /\ Act[i].completionOnly => Act[i].finally /\ Act[i].kind # "on"
        /\ Act[i].faultOnly => Act[i].finally /\ ~Act[i].completionOnly
        /\ Act[i].retains => Act[i].completionOnly /\ Act[i].kind = "assert"

NoneSince(j, i, kinds) ==
    \A k \in j..(i - 1) : k \in Run /\ Act[k].kind \in kinds => Act[k].ch # Act[i].ch
\* The channel was ramped down and has not been switched on or set again.
RampedDown(i) ==
    \E j \in 1..(i - 1) :
        /\ j \in Run /\ Act[j].kind = "ramp" /\ Act[j].ch = Act[i].ch
        /\ NoneSince(j, i, {"on"}) \/ NoneSince(j, i, {"configure", "update"})

\* "Reject update/energisation sequences that cannot be valid at runtime": in an
\* accepted plan every assertion of a continuous output finds the output on, and
\* at the level it expects, whatever loops and modules lie in between.  A ramp to
\* zero is the exception: the compiler takes no notice of what it does.
AssertionsHold == \A i \in Run : Asserted(i) \/ RampedDown(i)

\* A point that reports an axis is measured at the value it reports for the axis:
\* if the body of the axis sets that channel by no other way, the channel is at the
\* setpoint the checkpoint is stamped with, in every pass of every enclosing loop.
AxisTruth ==
    \A i \in Run : Act[i].kind = "checkpoint" =>
        \A node \in Act[i].loopPath :
            (\A inner \in Inside(node) : ~Sets(inner, node.ch)) =>
                /\ Act[i].setpoints[node.ch] = Execution(Act)[i - 1].level[node.ch]
                /\ Act[i].setpoints[node.ch] \in ToSet(node.values)

\* A run that completes leaves each channel as its final state declares: held and
\* retained, or off, and at the level the final state names.
EndsAsDeclared ==
    plan.accepted /\ (\A i \in Run : Asserted(i)) =>
        LET m == Execution(Act)[Len(Act)] IN
        \A f \in ToSet(finals) : f.type = "final_state" =>
            /\ f.ch \in m.on <=> f.policy = "hold"
            /\ (\E i \in Run : Act[i].retains /\ Act[i].ch = f.ch) <=> f.policy = "hold"
            /\ f.level # Unset => m.level[f.ch] = f.level

\* The points counted before anything is expanded, on which an oversized recipe is
\* refused, are those the plan then has.
PointsAsBudgeted == plan.accepted => Stored(Act) = PointsOf(main)

\* Not properties of this code: a checkpoint is stamped with the levels in force
\* even after a loop has ended; its loop path names every axis it lies in.
SetpointsInForce ==
    \A i \in Run : Act[i].kind = "checkpoint" =>
        \A ch \in Channels : Act[i].setpoints[ch] = Execution(Act)[i - 1].level[ch]
=============================================================================
