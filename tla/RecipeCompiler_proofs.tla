----------------------- MODULE RecipeCompiler_proofs -----------------------
(***************************************************************************)
(* Proofs about the recipe compiler.  What it makes of a recipe is defined *)
(* by recursion over the blocks, so the proofs are inductions: over the    *)
(* depth of a recipe, over the children of a block and its passes, over    *)
(* the actions of a plan.  The induction principle is stated of a set.     *)
(***************************************************************************)
EXTENDS RecipeCompiler, SequenceTheorems, WellFoundedInduction, TLAPS

-----------------------------------------------------------------------------
(* Induction over the numbers.                                             *)

LEMMA LessIsWellFounded == IsWellFoundedOn({p \in Nat \X Nat : p[1] < p[2]}, Nat)
<1> DEFINE R == OpToRel(<, Nat)
<1>1. R = {p \in Nat \X Nat : p[1] < p[2]}
  BY DEF OpToRel
<1>2. IsWellFoundedOn(R, Nat)
  BY NatLessThanWellFounded
<1> QED
  BY <1>1, <1>2, Zenon

LEMMA LeastNumber ==
    ASSUME NEW T \in SUBSET Nat, T # {}
    PROVE \E m \in T : \A k \in T : m <= k
<1>1. PICK m \in T : \A k \in T : ~(<<k, m>> \in {p \in Nat \X Nat : p[1] < p[2]})
  BY LessIsWellFounded, WFMin, Zenon
<1>2. ASSUME NEW k \in T PROVE m <= k
  <2>1. k \in Nat /\ m \in Nat
    OBVIOUS
  <2>2. <<k, m>> \in Nat \X Nat => ~(<<k, m>>[1] < <<k, m>>[2])
    BY <1>1
  <2> QED
    BY <2>1, <2>2
<1> QED
  BY <1>2

\* A set of numbers that has 0 and, with each number below n, the next one.
LEMMA Induction ==
    ASSUME NEW S, NEW n \in Nat, 0 \in S, \A i \in 0..(n - 1) : i \in S => i + 1 \in S
    PROVE \A i \in 0..n : i \in S
<1> DEFINE T == {i \in 0..n : i \notin S}
<1>1. SUFFICES ASSUME T # {} PROVE FALSE
  OBVIOUS
<1>2. PICK m \in T : \A k \in T : m <= k
  <2>1. T \in SUBSET Nat
    OBVIOUS
  <2> HIDE DEF T
  <2> QED
    BY <1>1, <2>1, LeastNumber
<1>3. m # 0 /\ m - 1 \in 0..(n - 1) /\ m - 1 \notin T
  BY <1>2
<1>4. m - 1 \in S
  BY <1>3
<1> QED
  BY <1>3, <1>4

LEMMA InductionOnNat ==
    ASSUME NEW S, 0 \in S, \A i \in Nat : i \in S => i + 1 \in S
    PROVE \A i \in Nat : i \in S
<1>1. ASSUME NEW n \in Nat PROVE n \in S
  <2>1. \A i \in 0..(n - 1) : i \in S => i + 1 \in S
    OBVIOUS
  <2>2. \A i \in 0..n : i \in S
    BY <2>1, Induction
  <2> QED
    BY <2>2
<1> QED
  BY <1>1

-----------------------------------------------------------------------------
(* The recursive definitions are sound: there is a function that satisfies *)
(* the equation of each.                                                   *)

\* The blocks that are at most d deep.
LEMMA BlocksDef ==
    /\ Blocks[0] = {}
    /\ \A d \in 1..Depth :
         Blocks[d] =
           Operations \cup Loops(Seq(Blocks[d - 1])) \cup Modules(Seq(Blocks[d - 1]))
<1> DEFINE First == {}
           Step(before, i) ==
             Operations \cup Loops(Seq(before)) \cup Modules(Seq(before))
           Upto(n, f) == f = [i \in 0..n |-> IF i = 0 THEN First ELSE Step(f[i - 1], i)]
           S == {n \in Nat : \E f : Upto(n, f)}
<1> HIDE DEF First, Step
<1>1. 0 \in S
  <2>1. Upto(0, [i \in 0..0 |-> First])
    OBVIOUS
  <2> QED
    BY <2>1
<1>2. ASSUME NEW n \in Nat, n \in S PROVE n + 1 \in S
  <2>1. PICK f : Upto(n, f)
    BY <1>2
  <2> DEFINE g == [i \in 0..(n + 1) |-> IF i <= n THEN f[i] ELSE Step(f[n], n + 1)]
  <2> HIDE DEF Upto
  <2>2. ASSUME NEW i \in 0..(n + 1) PROVE g[i] = IF i = 0 THEN First ELSE Step(g[i - 1], i)
    <3>1. CASE i = 0
      BY <2>1, <3>1 DEF Upto
    <3>2. CASE i \in 1..n
      <4>1. i - 1 \in 0..n /\ g[i - 1] = f[i - 1] /\ g[i] = f[i]
        BY <3>2
      <4>2. f[i] = Step(f[i - 1], i)
        BY <2>1, <3>2 DEF Upto
      <4> QED
        BY <3>2, <4>1, <4>2
    <3>3. CASE i = n + 1
      BY <3>3
    <3> QED
      BY <3>1, <3>2, <3>3
  <2>3. Upto(n + 1, g)
    BY <2>2 DEF Upto
  <2> QED
    BY <2>3
<1> HIDE DEF S
<1>3. Depth \in S
  BY <1>1, <1>2, InductionOnNat, RecipeAssumption DEF Depth
<1>4. PICK g : Upto(Depth, g)
  BY <1>3 DEF S
<1>5. Blocks = CHOOSE f : Upto(Depth, f)
  BY DEF Blocks, First, Step
<1> HIDE DEF Upto
<1>6. Upto(Depth, Blocks)
  BY <1>4, <1>5
<1>7. Depth \in Nat
  BY RecipeAssumption DEF Depth
<1>8. Blocks[0] = First /\ \A d \in 1..Depth : Blocks[d] = Step(Blocks[d - 1], d)
  BY <1>6, <1>7 DEF Upto
<1> QED
  BY <1>8 DEF First, Step

\* A block and those in it.
LEMMA WithinDef ==
    /\ Within[0] = <<>>
    /\ \A d \in 1..Depth :
         Within[d] =
           [node \in AllBlocks |->
             {node} \cup UNION {Within[d - 1][child] : child \in ToSet(node.children)}]
<1> DEFINE First == <<>>
           Step(before, i) ==
             [node \in AllBlocks |->
               {node} \cup UNION {before[child] : child \in ToSet(node.children)}]
           Upto(n, f) == f = [i \in 0..n |-> IF i = 0 THEN First ELSE Step(f[i - 1], i)]
           S == {n \in Nat : \E f : Upto(n, f)}
<1> HIDE DEF First, Step
<1>1. 0 \in S
  <2>1. Upto(0, [i \in 0..0 |-> First])
    OBVIOUS
  <2> QED
    BY <2>1
<1>2. ASSUME NEW n \in Nat, n \in S PROVE n + 1 \in S
  <2>1. PICK f : Upto(n, f)
    BY <1>2
  <2> DEFINE g == [i \in 0..(n + 1) |-> IF i <= n THEN f[i] ELSE Step(f[n], n + 1)]
  <2> HIDE DEF Upto
  <2>2. ASSUME NEW i \in 0..(n + 1) PROVE g[i] = IF i = 0 THEN First ELSE Step(g[i - 1], i)
    <3>1. CASE i = 0
      BY <2>1, <3>1 DEF Upto
    <3>2. CASE i \in 1..n
      <4>1. i - 1 \in 0..n /\ g[i - 1] = f[i - 1] /\ g[i] = f[i]
        BY <3>2
      <4>2. f[i] = Step(f[i - 1], i)
        BY <2>1, <3>2 DEF Upto
      <4> QED
        BY <3>2, <4>1, <4>2
    <3>3. CASE i = n + 1
      BY <3>3
    <3> QED
      BY <3>1, <3>2, <3>3
  <2>3. Upto(n + 1, g)
    BY <2>2 DEF Upto
  <2> QED
    BY <2>3
<1> HIDE DEF S
<1>3. Depth \in S
  BY <1>1, <1>2, InductionOnNat, RecipeAssumption DEF Depth
<1>4. PICK g : Upto(Depth, g)
  BY <1>3 DEF S
<1>5. Within = CHOOSE f : Upto(Depth, f)
  BY DEF Within, First, Step
<1> HIDE DEF Upto
<1>6. Upto(Depth, Within)
  BY <1>4, <1>5
<1>7. Depth \in Nat
  BY RecipeAssumption DEF Depth
<1>8. Within[0] = First /\ \A d \in 1..Depth : Within[d] = Step(Within[d - 1], d)
  BY <1>6, <1>7 DEF Upto
<1> QED
  BY <1>8 DEF First, Step

\* The budget of a block.
LEMMA PointsDef ==
    /\ Points[0] = <<>>
    /\ \A d \in 1..Depth :
         Points[d] =
           [node \in AllBlocks |->
             IF node.type = "checkpoint" THEN 1
             ELSE Multiplier(node) * Sum([j \in DOMAIN node.children |-> Points[d - 1][node.children[j]]])]
<1> DEFINE First == <<>>
           Step(before, i) ==
             [node \in AllBlocks |->
               IF node.type = "checkpoint" THEN 1
               ELSE Multiplier(node) * Sum([j \in DOMAIN node.children |-> before[node.children[j]]])]
           Upto(n, f) == f = [i \in 0..n |-> IF i = 0 THEN First ELSE Step(f[i - 1], i)]
           S == {n \in Nat : \E f : Upto(n, f)}
<1> HIDE DEF First, Step
<1>1. 0 \in S
  <2>1. Upto(0, [i \in 0..0 |-> First])
    OBVIOUS
  <2> QED
    BY <2>1
<1>2. ASSUME NEW n \in Nat, n \in S PROVE n + 1 \in S
  <2>1. PICK f : Upto(n, f)
    BY <1>2
  <2> DEFINE g == [i \in 0..(n + 1) |-> IF i <= n THEN f[i] ELSE Step(f[n], n + 1)]
  <2> HIDE DEF Upto
  <2>2. ASSUME NEW i \in 0..(n + 1) PROVE g[i] = IF i = 0 THEN First ELSE Step(g[i - 1], i)
    <3>1. CASE i = 0
      BY <2>1, <3>1 DEF Upto
    <3>2. CASE i \in 1..n
      <4>1. i - 1 \in 0..n /\ g[i - 1] = f[i - 1] /\ g[i] = f[i]
        BY <3>2
      <4>2. f[i] = Step(f[i - 1], i)
        BY <2>1, <3>2 DEF Upto
      <4> QED
        BY <3>2, <4>1, <4>2
    <3>3. CASE i = n + 1
      BY <3>3
    <3> QED
      BY <3>1, <3>2, <3>3
  <2>3. Upto(n + 1, g)
    BY <2>2 DEF Upto
  <2> QED
    BY <2>3
<1> HIDE DEF S
<1>3. Depth \in S
  BY <1>1, <1>2, InductionOnNat, RecipeAssumption DEF Depth
<1>4. PICK g : Upto(Depth, g)
  BY <1>3 DEF S
<1>5. Points = CHOOSE f : Upto(Depth, f)
  BY DEF Points, First, Step
<1> HIDE DEF Upto
<1>6. Upto(Depth, Points)
  BY <1>4, <1>5
<1>7. Depth \in Nat
  BY RecipeAssumption DEF Depth
<1>8. Points[0] = First /\ \A d \in 1..Depth : Points[d] = Step(Points[d - 1], d)
  BY <1>6, <1>7 DEF Upto
<1> QED
  BY <1>8 DEF First, Step

\* The visit of a block.
LEMMA VisitDef ==
    /\ Visit[0] = <<>>
    /\ \A d \in 1..Depth :
         Visit[d] =
           [node \in AllBlocks |-> [c \in Given |-> VisitBlock(Visit[d - 1], node, c)]]
<1> DEFINE First == <<>>
           Step(before, i) ==
             [node \in AllBlocks |-> [c \in Given |-> VisitBlock(before, node, c)]]
           Upto(n, f) == f = [i \in 0..n |-> IF i = 0 THEN First ELSE Step(f[i - 1], i)]
           S == {n \in Nat : \E f : Upto(n, f)}
<1> HIDE DEF First, Step
<1>1. 0 \in S
  <2>1. Upto(0, [i \in 0..0 |-> First])
    OBVIOUS
  <2> QED
    BY <2>1
<1>2. ASSUME NEW n \in Nat, n \in S PROVE n + 1 \in S
  <2>1. PICK f : Upto(n, f)
    BY <1>2
  <2> DEFINE g == [i \in 0..(n + 1) |-> IF i <= n THEN f[i] ELSE Step(f[n], n + 1)]
  <2> HIDE DEF Upto
  <2>2. ASSUME NEW i \in 0..(n + 1) PROVE g[i] = IF i = 0 THEN First ELSE Step(g[i - 1], i)
    <3>1. CASE i = 0
      BY <2>1, <3>1 DEF Upto
    <3>2. CASE i \in 1..n
      <4>1. i - 1 \in 0..n /\ g[i - 1] = f[i - 1] /\ g[i] = f[i]
        BY <3>2
      <4>2. f[i] = Step(f[i - 1], i)
        BY <2>1, <3>2 DEF Upto
      <4> QED
        BY <3>2, <4>1, <4>2
    <3>3. CASE i = n + 1
      BY <3>3
    <3> QED
      BY <3>1, <3>2, <3>3
  <2>3. Upto(n + 1, g)
    BY <2>2 DEF Upto
  <2> QED
    BY <2>3
<1> HIDE DEF S
<1>3. Depth \in S
  BY <1>1, <1>2, InductionOnNat, RecipeAssumption DEF Depth
<1>4. PICK g : Upto(Depth, g)
  BY <1>3 DEF S
<1>5. Visit = CHOOSE f : Upto(Depth, f)
  BY DEF Visit, First, Step
<1> HIDE DEF Upto
<1>6. Upto(Depth, Visit)
  BY <1>4, <1>5
<1>7. Depth \in Nat
  BY RecipeAssumption DEF Depth
<1>8. Visit[0] = First /\ \A d \in 1..Depth : Visit[d] = Step(Visit[d - 1], d)
  BY <1>6, <1>7 DEF Upto
<1> QED
  BY <1>8 DEF First, Step

\* The sum of a sequence of numbers.
Sums(f, numbers) ==
    /\ f[0] = 0
    /\ \A i \in 1..Len(numbers) : f[i] = f[i - 1] + numbers[i]
LEMMA SumDef ==
    ASSUME NEW numbers, Len(numbers) \in Nat
    PROVE \E f : Sums(f, numbers) /\ Sum(numbers) = f[Len(numbers)]
<1> DEFINE First == 0
           Step(before, i) ==
             before + numbers[i]
           Upto(n, f) == f = [i \in 0..n |-> IF i = 0 THEN First ELSE Step(f[i - 1], i)]
           S == {n \in Nat : \E f : Upto(n, f)}
<1> HIDE DEF First, Step
<1>1. 0 \in S
  <2>1. Upto(0, [i \in 0..0 |-> First])
    OBVIOUS
  <2> QED
    BY <2>1
<1>2. ASSUME NEW n \in Nat, n \in S PROVE n + 1 \in S
  <2>1. PICK f : Upto(n, f)
    BY <1>2
  <2> DEFINE g == [i \in 0..(n + 1) |-> IF i <= n THEN f[i] ELSE Step(f[n], n + 1)]
  <2> HIDE DEF Upto
  <2>2. ASSUME NEW i \in 0..(n + 1) PROVE g[i] = IF i = 0 THEN First ELSE Step(g[i - 1], i)
    <3>1. CASE i = 0
      BY <2>1, <3>1 DEF Upto
    <3>2. CASE i \in 1..n
      <4>1. i - 1 \in 0..n /\ g[i - 1] = f[i - 1] /\ g[i] = f[i]
        BY <3>2
      <4>2. f[i] = Step(f[i - 1], i)
        BY <2>1, <3>2 DEF Upto
      <4> QED
        BY <3>2, <4>1, <4>2
    <3>3. CASE i = n + 1
      BY <3>3
    <3> QED
      BY <3>1, <3>2, <3>3
  <2>3. Upto(n + 1, g)
    BY <2>2 DEF Upto
  <2> QED
    BY <2>3
<1> HIDE DEF S
<1>3. Len(numbers) \in S
  BY <1>1, <1>2, InductionOnNat
<1>4. PICK g : Upto(Len(numbers), g)
  BY <1>3 DEF S
<1> DEFINE chosen == CHOOSE f : Upto(Len(numbers), f)
<1>5. Sum(numbers) = chosen[Len(numbers)]
  BY DEF Sum, First, Step
<1> HIDE DEF Upto
<1>6. Upto(Len(numbers), chosen)
  BY <1>4
<1> HIDE DEF chosen
<1>7. chosen[0] = First /\ \A i \in 1..Len(numbers) : chosen[i] = Step(chosen[i - 1], i)
  BY <1>6 DEF Upto
<1> QED
  BY <1>5, <1>7 DEF First, Step, Sums

\* The visits of a list of blocks.
Visits(f, V, nodes, folded, c) ==
    /\ f[0] = c
    /\ \A i \in 1..Len(nodes) : f[i] = VisitOne(V, nodes[i], folded, f[i - 1])
LEMMA VisitAllDef ==
    ASSUME NEW V, NEW nodes, Len(nodes) \in Nat, NEW folded, NEW c
    PROVE \E f : Visits(f, V, nodes, folded, c) /\ VisitAll(V, nodes, folded, c) = f[Len(nodes)]
<1> DEFINE First == c
           Step(before, i) ==
             VisitOne(V, nodes[i], folded, before)
           Upto(n, f) == f = [i \in 0..n |-> IF i = 0 THEN First ELSE Step(f[i - 1], i)]
           S == {n \in Nat : \E f : Upto(n, f)}
<1> HIDE DEF First, Step
<1>1. 0 \in S
  <2>1. Upto(0, [i \in 0..0 |-> First])
    OBVIOUS
  <2> QED
    BY <2>1
<1>2. ASSUME NEW n \in Nat, n \in S PROVE n + 1 \in S
  <2>1. PICK f : Upto(n, f)
    BY <1>2
  <2> DEFINE g == [i \in 0..(n + 1) |-> IF i <= n THEN f[i] ELSE Step(f[n], n + 1)]
  <2> HIDE DEF Upto
  <2>2. ASSUME NEW i \in 0..(n + 1) PROVE g[i] = IF i = 0 THEN First ELSE Step(g[i - 1], i)
    <3>1. CASE i = 0
      BY <2>1, <3>1 DEF Upto
    <3>2. CASE i \in 1..n
      <4>1. i - 1 \in 0..n /\ g[i - 1] = f[i - 1] /\ g[i] = f[i]
        BY <3>2
      <4>2. f[i] = Step(f[i - 1], i)
        BY <2>1, <3>2 DEF Upto
      <4> QED
        BY <3>2, <4>1, <4>2
    <3>3. CASE i = n + 1
      BY <3>3
    <3> QED
      BY <3>1, <3>2, <3>3
  <2>3. Upto(n + 1, g)
    BY <2>2 DEF Upto
  <2> QED
    BY <2>3
<1> HIDE DEF S
<1>3. Len(nodes) \in S
  BY <1>1, <1>2, InductionOnNat
<1>4. PICK g : Upto(Len(nodes), g)
  BY <1>3 DEF S
<1> DEFINE chosen == CHOOSE f : Upto(Len(nodes), f)
<1>5. VisitAll(V, nodes, folded, c) = chosen[Len(nodes)]
  BY DEF VisitAll, First, Step
<1> HIDE DEF Upto
<1>6. Upto(Len(nodes), chosen)
  BY <1>4
<1> HIDE DEF chosen
<1>7. chosen[0] = First /\ \A i \in 1..Len(nodes) : chosen[i] = Step(chosen[i - 1], i)
  BY <1>6 DEF Upto
<1> QED
  BY <1>5, <1>7 DEF First, Step, Visits

\* The passes of a loop or module.
PassesOf(f, V, node, generated, c) ==
    /\ f[0] = c
    /\ \A i \in 1..Passes(node) : f[i] = VisitPass(V, node, generated, f[i - 1], i)
LEMMA VisitPassesDef ==
    ASSUME NEW V, NEW node, Passes(node) \in Nat, NEW generated, NEW c
    PROVE \E f : PassesOf(f, V, node, generated, c) /\ VisitPasses(V, node, generated, c) = f[Passes(node)]
<1> DEFINE First == c
           Step(before, i) ==
             VisitPass(V, node, generated, before, i)
           Upto(n, f) == f = [i \in 0..n |-> IF i = 0 THEN First ELSE Step(f[i - 1], i)]
           S == {n \in Nat : \E f : Upto(n, f)}
<1> HIDE DEF First, Step
<1>1. 0 \in S
  <2>1. Upto(0, [i \in 0..0 |-> First])
    OBVIOUS
  <2> QED
    BY <2>1
<1>2. ASSUME NEW n \in Nat, n \in S PROVE n + 1 \in S
  <2>1. PICK f : Upto(n, f)
    BY <1>2
  <2> DEFINE g == [i \in 0..(n + 1) |-> IF i <= n THEN f[i] ELSE Step(f[n], n + 1)]
  <2> HIDE DEF Upto
  <2>2. ASSUME NEW i \in 0..(n + 1) PROVE g[i] = IF i = 0 THEN First ELSE Step(g[i - 1], i)
    <3>1. CASE i = 0
      BY <2>1, <3>1 DEF Upto
    <3>2. CASE i \in 1..n
      <4>1. i - 1 \in 0..n /\ g[i - 1] = f[i - 1] /\ g[i] = f[i]
        BY <3>2
      <4>2. f[i] = Step(f[i - 1], i)
        BY <2>1, <3>2 DEF Upto
      <4> QED
        BY <3>2, <4>1, <4>2
    <3>3. CASE i = n + 1
      BY <3>3
    <3> QED
      BY <3>1, <3>2, <3>3
  <2>3. Upto(n + 1, g)
    BY <2>2 DEF Upto
  <2> QED
    BY <2>3
<1> HIDE DEF S
<1>3. Passes(node) \in S
  BY <1>1, <1>2, InductionOnNat
<1>4. PICK g : Upto(Passes(node), g)
  BY <1>3 DEF S
<1> DEFINE chosen == CHOOSE f : Upto(Passes(node), f)
<1>5. VisitPasses(V, node, generated, c) = chosen[Passes(node)]
  BY DEF VisitPasses, First, Step
<1> HIDE DEF Upto
<1>6. Upto(Passes(node), chosen)
  BY <1>4
<1> HIDE DEF chosen
<1>7. chosen[0] = First /\ \A i \in 1..Passes(node) : chosen[i] = Step(chosen[i - 1], i)
  BY <1>6 DEF Upto
<1> QED
  BY <1>5, <1>7 DEF First, Step, PassesOf

\* The visits of a Finally.
Finallys(f, ends, c) ==
    /\ f[0] = c
    /\ \A i \in 1..Len(ends) : f[i] = VisitFinally(ends[i], f[i - 1])
LEMMA FinallyDef ==
    ASSUME NEW ends, Len(ends) \in Nat, NEW c
    PROVE \E f : Finallys(f, ends, c) /\ FinallyOf(ends, c) = f[Len(ends)]
<1> DEFINE First == c
           Step(before, i) ==
             VisitFinally(ends[i], before)
           Upto(n, f) == f = [i \in 0..n |-> IF i = 0 THEN First ELSE Step(f[i - 1], i)]
           S == {n \in Nat : \E f : Upto(n, f)}
<1> HIDE DEF First, Step
<1>1. 0 \in S
  <2>1. Upto(0, [i \in 0..0 |-> First])
    OBVIOUS
  <2> QED
    BY <2>1
<1>2. ASSUME NEW n \in Nat, n \in S PROVE n + 1 \in S
  <2>1. PICK f : Upto(n, f)
    BY <1>2
  <2> DEFINE g == [i \in 0..(n + 1) |-> IF i <= n THEN f[i] ELSE Step(f[n], n + 1)]
  <2> HIDE DEF Upto
  <2>2. ASSUME NEW i \in 0..(n + 1) PROVE g[i] = IF i = 0 THEN First ELSE Step(g[i - 1], i)
    <3>1. CASE i = 0
      BY <2>1, <3>1 DEF Upto
    <3>2. CASE i \in 1..n
      <4>1. i - 1 \in 0..n /\ g[i - 1] = f[i - 1] /\ g[i] = f[i]
        BY <3>2
      <4>2. f[i] = Step(f[i - 1], i)
        BY <2>1, <3>2 DEF Upto
      <4> QED
        BY <3>2, <4>1, <4>2
    <3>3. CASE i = n + 1
      BY <3>3
    <3> QED
      BY <3>1, <3>2, <3>3
  <2>3. Upto(n + 1, g)
    BY <2>2 DEF Upto
  <2> QED
    BY <2>3
<1> HIDE DEF S
<1>3. Len(ends) \in S
  BY <1>1, <1>2, InductionOnNat
<1>4. PICK g : Upto(Len(ends), g)
  BY <1>3 DEF S
<1> DEFINE chosen == CHOOSE f : Upto(Len(ends), f)
<1>5. FinallyOf(ends, c) = chosen[Len(ends)]
  BY DEF FinallyOf, First, Step
<1> HIDE DEF Upto
<1>6. Upto(Len(ends), chosen)
  BY <1>4
<1> HIDE DEF chosen
<1>7. chosen[0] = First /\ \A i \in 1..Len(ends) : chosen[i] = Step(chosen[i - 1], i)
  BY <1>6 DEF Upto
<1> QED
  BY <1>5, <1>7 DEF First, Step, Finallys

\* What is known after each action of a plan.
LEMMA StateFlowDef ==
    ASSUME NEW actions, Len(actions) \in Nat
    PROVE /\ StateFlow(actions)[0] = [valid |-> TRUE, configured |-> {}, on |-> {}]
          /\ \A i \in 1..Len(actions) :
               StateFlow(actions)[i] =
                 IF actions[i].faultOnly THEN StateFlow(actions)[i - 1] ELSE Flow(StateFlow(actions)[i - 1], actions[i])
<1> DEFINE First == [valid |-> TRUE, configured |-> {}, on |-> {}]
           Step(before, i) ==
             IF actions[i].faultOnly THEN before ELSE Flow(before, actions[i])
           Upto(n, f) == f = [i \in 0..n |-> IF i = 0 THEN First ELSE Step(f[i - 1], i)]
           S == {n \in Nat : \E f : Upto(n, f)}
<1> HIDE DEF First, Step
<1>1. 0 \in S
  <2>1. Upto(0, [i \in 0..0 |-> First])
    OBVIOUS
  <2> QED
    BY <2>1
<1>2. ASSUME NEW n \in Nat, n \in S PROVE n + 1 \in S
  <2>1. PICK f : Upto(n, f)
    BY <1>2
  <2> DEFINE g == [i \in 0..(n + 1) |-> IF i <= n THEN f[i] ELSE Step(f[n], n + 1)]
  <2> HIDE DEF Upto
  <2>2. ASSUME NEW i \in 0..(n + 1) PROVE g[i] = IF i = 0 THEN First ELSE Step(g[i - 1], i)
    <3>1. CASE i = 0
      BY <2>1, <3>1 DEF Upto
    <3>2. CASE i \in 1..n
      <4>1. i - 1 \in 0..n /\ g[i - 1] = f[i - 1] /\ g[i] = f[i]
        BY <3>2
      <4>2. f[i] = Step(f[i - 1], i)
        BY <2>1, <3>2 DEF Upto
      <4> QED
        BY <3>2, <4>1, <4>2
    <3>3. CASE i = n + 1
      BY <3>3
    <3> QED
      BY <3>1, <3>2, <3>3
  <2>3. Upto(n + 1, g)
    BY <2>2 DEF Upto
  <2> QED
    BY <2>3
<1> HIDE DEF S
<1>3. Len(actions) \in S
  BY <1>1, <1>2, InductionOnNat
<1>4. PICK g : Upto(Len(actions), g)
  BY <1>3 DEF S
<1> DEFINE chosen == CHOOSE f : Upto(Len(actions), f)
<1>5. StateFlow(actions) = chosen
  BY DEF StateFlow, First, Step
<1> HIDE DEF Upto
<1>6. Upto(Len(actions), chosen)
  BY <1>4
<1> HIDE DEF chosen
<1>7. chosen[0] = First /\ \A i \in 1..Len(actions) : chosen[i] = Step(chosen[i - 1], i)
  BY <1>6 DEF Upto
<1> QED
  BY <1>5, <1>7 DEF First, Step

\* The channels after each action of a plan.
LEMMA ExecutionDef ==
    ASSUME NEW actions, Len(actions) \in Nat
    PROVE /\ Execution(actions)[0] = [on |-> Channels, level |-> [ch \in Channels |-> Unset]]
          /\ \A i \in 1..Len(actions) :
               Execution(actions)[i] =
                 IF actions[i].faultOnly THEN Execution(actions)[i - 1] ELSE Effect(Execution(actions)[i - 1], actions[i])
<1> DEFINE First == [on |-> Channels, level |-> [ch \in Channels |-> Unset]]
           Step(before, i) ==
             IF actions[i].faultOnly THEN before ELSE Effect(before, actions[i])
           Upto(n, f) == f = [i \in 0..n |-> IF i = 0 THEN First ELSE Step(f[i - 1], i)]
           S == {n \in Nat : \E f : Upto(n, f)}
<1> HIDE DEF First, Step
<1>1. 0 \in S
  <2>1. Upto(0, [i \in 0..0 |-> First])
    OBVIOUS
  <2> QED
    BY <2>1
<1>2. ASSUME NEW n \in Nat, n \in S PROVE n + 1 \in S
  <2>1. PICK f : Upto(n, f)
    BY <1>2
  <2> DEFINE g == [i \in 0..(n + 1) |-> IF i <= n THEN f[i] ELSE Step(f[n], n + 1)]
  <2> HIDE DEF Upto
  <2>2. ASSUME NEW i \in 0..(n + 1) PROVE g[i] = IF i = 0 THEN First ELSE Step(g[i - 1], i)
    <3>1. CASE i = 0
      BY <2>1, <3>1 DEF Upto
    <3>2. CASE i \in 1..n
      <4>1. i - 1 \in 0..n /\ g[i - 1] = f[i - 1] /\ g[i] = f[i]
        BY <3>2
      <4>2. f[i] = Step(f[i - 1], i)
        BY <2>1, <3>2 DEF Upto
      <4> QED
        BY <3>2, <4>1, <4>2
    <3>3. CASE i = n + 1
      BY <3>3
    <3> QED
      BY <3>1, <3>2, <3>3
  <2>3. Upto(n + 1, g)
    BY <2>2 DEF Upto
  <2> QED
    BY <2>3
<1> HIDE DEF S
<1>3. Len(actions) \in S
  BY <1>1, <1>2, InductionOnNat
<1>4. PICK g : Upto(Len(actions), g)
  BY <1>3 DEF S
<1> DEFINE chosen == CHOOSE f : Upto(Len(actions), f)
<1>5. Execution(actions) = chosen
  BY DEF Execution, First, Step
<1> HIDE DEF Upto
<1>6. Upto(Len(actions), chosen)
  BY <1>4
<1> HIDE DEF chosen
<1>7. chosen[0] = First /\ \A i \in 1..Len(actions) : chosen[i] = Step(chosen[i - 1], i)
  BY <1>6 DEF Upto
<1> QED
  BY <1>5, <1>7 DEF First, Step

-----------------------------------------------------------------------------
(* Recipes.                                                                *)

LEMMA DepthIsNat == Depth \in Nat /\ Depth >= 1
BY RecipeAssumption DEF Depth

LEMMA LevelsAreNumbers ==
    /\ Literals \subseteq Levels
    /\ Levels \subseteq Nat
    /\ Unset \notin Levels /\ Ref \notin Levels
    /\ Ref \notin Literals /\ Unset \notin Literals
<1>1. Literals \subseteq Levels
  BY DEF Levels
<1>2. ASSUME NEW level \in Levels PROVE level \in Nat
  <2>1. CASE level \in Literals
    BY <2>1, RecipeAssumption
  <2>2. CASE level \in UNION {ToSet(values) : values \in Axes}
    <3>1. PICK values \in Axes : level \in ToSet(values)
      BY <2>2
    <3>2. values \in Seq(Nat)
      BY <3>1, RecipeAssumption
    <3>3. \A i \in DOMAIN values : values[i] \in Nat
      BY <3>2
    <3> QED
      BY <3>1, <3>3 DEF ToSet
  <2> QED
    BY <1>2, <2>1, <2>2 DEF Levels
<1> QED
  BY <1>1, <1>2 DEF Unset, Ref

LEMMA AxisValues ==
    ASSUME NEW values \in Axes
    PROVE /\ Len(values) \in Nat \ {0}
          /\ values # <<>>
          /\ \A i \in 1..Len(values) : values[i] \in Levels /\ values[i] \in ToSet(values)
<1>1. values \in Seq(Nat) /\ values # <<>>
  BY RecipeAssumption
<1>2. Len(values) \in Nat \ {0} /\ DOMAIN values = 1..Len(values)
  BY <1>1
<1>3. \A i \in 1..Len(values) : values[i] \in ToSet(values)
  BY <1>2 DEF ToSet
<1>4. ToSet(values) \subseteq Levels
  BY DEF Levels
<1> QED
  BY <1>1, <1>2, <1>3, <1>4

\* What kinds of blocks there are.
OperationTypes == {"checkpoint", "configure", "update", "on", "off", "ramp"}
LEMMA OperationForm ==
    ASSUME NEW node \in Operations
    PROVE /\ node.type \in OperationTypes
          /\ node.values = <<>> /\ node.children = <<>>
          /\ node.type = "checkpoint" => node.ch = NoChannel /\ node.level = Unset
          /\ node.type # "checkpoint" => node.ch \in Channels
          /\ node.type \in {"configure", "update"} => node.level \in Literals \cup {Ref}
          /\ node.type \in {"on", "off", "ramp"} => node.level = Unset
<1>1. CASE node = Block
  BY <1>1 DEF Block, OperationTypes
<1>2. ASSUME NEW type \in {"configure", "update"}, NEW ch \in Channels,
             NEW level \in Literals \cup {Ref}, node = Op(type, ch, level)
      PROVE /\ node.type = type /\ node.ch = ch /\ node.level = level
            /\ node.values = <<>> /\ node.children = <<>>
  BY <1>2 DEF Op, Block
<1>3. ASSUME NEW type \in {"on", "off", "ramp"}, NEW ch \in Channels,
             node = Op(type, ch, Unset)
      PROVE /\ node.type = type /\ node.ch = ch /\ node.level = Unset
            /\ node.values = <<>> /\ node.children = <<>>
  BY <1>3 DEF Op, Block
<1>4. \/ node = Block
      \/ \E type \in {"configure", "update"}, ch \in Channels, level \in Literals \cup {Ref} :
           node = Op(type, ch, level)
      \/ \E type \in {"on", "off", "ramp"}, ch \in Channels : node = Op(type, ch, Unset)
  BY DEF Operations
<1> QED
  BY <1>1, <1>2, <1>3, <1>4 DEF OperationTypes

\* What a block of each type is like, whatever its children are.
BlockForm(node) ==
    /\ node.type \in OperationTypes \cup {"repeat", "sweep", "device"}
    /\ node.values \in Axes \cup {<<>>}
    /\ node.type \in OperationTypes => node \in Operations
    /\ node.type = "repeat" => node.values = <<>>
    /\ node.type = "sweep" => node.ch \in Channels /\ node.values \in Axes
    /\ node.type = "device" =>
         /\ node.ch \in Channels /\ node.level \in Literals \cup {Unset}
         /\ node.values # <<>> => node.level = Unset

LEMMA BlockForms ==
    ASSUME NEW bodies, NEW node \in Operations \cup Loops(bodies) \cup Modules(bodies)
    PROVE /\ BlockForm(node)
          /\ node.type \notin OperationTypes => node.children \in bodies
<1>1. CASE node \in Operations
  BY <1>1, OperationForm DEF BlockForm, OperationTypes
<1>2. CASE node \in Loops(bodies)
  BY <1>2 DEF Loops, BlockForm, OperationTypes
<1>3. CASE node \in Modules(bodies)
  BY <1>3 DEF Modules, BlockForm, OperationTypes
<1> QED
  BY <1>1, <1>2, <1>3

LEMMA EmptyIsSeq == \A S : <<>> \in Seq(S)
OBVIOUS

LEMMA BlocksForm ==
    ASSUME NEW d \in 1..Depth, NEW node \in Blocks[d]
    PROVE BlockForm(node) /\ node.children \in Seq(Blocks[d - 1])
<1> DEFINE bodies == Seq(Blocks[d - 1])
<1>1. node \in Operations \cup Loops(bodies) \cup Modules(bodies)
  BY BlocksDef
<1>2. <<>> \in bodies
  BY EmptyIsSeq
<1> HIDE DEF bodies
<1>3. BlockForm(node) /\ (node.type \notin OperationTypes => node.children \in bodies)
  BY <1>1, BlockForms
<1>4. node.type \in OperationTypes => node.children = <<>>
  BY <1>3, OperationForm DEF BlockForm
<1> QED
  BY <1>2, <1>3, <1>4 DEF bodies

LEMMA BodiesGrow ==
    ASSUME NEW S, NEW T, S \subseteq T
    PROVE Operations \cup Loops(S) \cup Modules(S) \subseteq Operations \cup Loops(T) \cup Modules(T)
<1>1. Loops(S) \subseteq Loops(T)
  BY DEF Loops
<1>2. Modules(S) \subseteq Modules(T)
  BY DEF Modules
<1> QED
  BY <1>1, <1>2

LEMMA SeqGrows ==
    ASSUME NEW S, NEW T, S \subseteq T
    PROVE Seq(S) \subseteq Seq(T)
BY SeqMonotonic

\* A block that is at most d deep is at most d + 1 deep.
LEMMA BlocksGrow == \A d \in 0..(Depth - 1) : Blocks[d] \subseteq Blocks[d + 1]
<1> DEFINE S == {d \in Nat : d + 1 <= Depth => Blocks[d] \subseteq Blocks[d + 1]}
<1>1. 0 \in S
  BY BlocksDef
<1>2. ASSUME NEW d \in Nat, d \in S PROVE d + 1 \in S
  <2>1. SUFFICES ASSUME d + 2 <= Depth PROVE Blocks[d + 1] \subseteq Blocks[d + 2]
    BY DepthIsNat
  <2>2. Seq(Blocks[d]) \subseteq Seq(Blocks[d + 1])
    BY <1>2, <2>1, DepthIsNat, SeqGrows
  <2>3. /\ Blocks[d + 1] = Operations \cup Loops(Seq(Blocks[d])) \cup Modules(Seq(Blocks[d]))
        /\ Blocks[d + 2] =
             Operations \cup Loops(Seq(Blocks[d + 1])) \cup Modules(Seq(Blocks[d + 1]))
    <3>1. d + 1 \in 1..Depth /\ d + 2 \in 1..Depth /\ (d + 1) - 1 = d /\ (d + 2) - 1 = d + 1
      BY <2>1, DepthIsNat
    <3> QED
      BY <3>1, BlocksDef
  <2> QED
    BY <2>2, <2>3, BodiesGrow
<1> HIDE DEF S
<1>3. \A d \in Nat : d \in S
  BY <1>1, <1>2, InductionOnNat
<1> QED
  BY <1>3, DepthIsNat DEF S

LEMMA BlocksAreAll == \A d \in 0..Depth : Blocks[d] \subseteq AllBlocks
<1> DEFINE S == {k \in Nat : k <= Depth => Blocks[Depth - k] \subseteq AllBlocks}
<1>1. 0 \in S
  BY DepthIsNat DEF AllBlocks
<1>2. ASSUME NEW k \in Nat, k \in S PROVE k + 1 \in S
  <2>1. SUFFICES ASSUME k + 1 <= Depth PROVE Blocks[Depth - (k + 1)] \subseteq AllBlocks
    OBVIOUS
  <2>2. /\ Depth - (k + 1) \in 0..(Depth - 1)
        /\ (Depth - (k + 1)) + 1 = Depth - k
        /\ Blocks[Depth - k] \subseteq AllBlocks
    BY <1>2, <2>1, DepthIsNat
  <2> QED
    BY <2>2, BlocksGrow
<1> HIDE DEF S
<1>3. \A k \in Nat : k \in S
  BY <1>1, <1>2, InductionOnNat
<1>4. ASSUME NEW d \in 0..Depth PROVE Blocks[d] \subseteq AllBlocks
  <2>1. Depth - d \in Nat /\ Depth - d <= Depth /\ Depth - (Depth - d) = d
    BY DepthIsNat
  <2>2. Depth - d \in S
    BY <1>3, <2>1
  <2> QED
    BY <2>1, <2>2 DEF S
<1> QED
  BY <1>4

LEMMA AllBlocksForm ==
    ASSUME NEW node \in AllBlocks
    PROVE BlockForm(node) /\ node.children \in Seq(AllBlocks)
<1>1. Depth \in 1..Depth /\ Depth - 1 \in 0..Depth
  BY DepthIsNat
<1>2. BlockForm(node) /\ node.children \in Seq(Blocks[Depth - 1])
  BY <1>1, BlocksForm DEF AllBlocks
<1>3. Seq(Blocks[Depth - 1]) \subseteq Seq(AllBlocks)
  BY <1>1, BlocksAreAll, SeqGrows
<1> QED
  BY <1>2, <1>3

LEMMA InSeq ==
    ASSUME NEW S, NEW s \in Seq(S), NEW x \in ToSet(s)
    PROVE x \in S /\ \E i \in 1..Len(s) : x = s[i]
BY DEF ToSet

\* The blocks in a block, and the block itself.
LEMMA WithinNode ==
    ASSUME NEW node \in AllBlocks
    PROVE Within[Depth][node] = {node} \cup Inside(node)
<1> DEFINE Same(d) == \A n \in Blocks[d] : Within[d + 1][n] = Within[d][n]
           S == {d \in Nat : d + 1 <= Depth => Same(d)}
<1>1. 0 \in S
  BY BlocksDef
<1>2. ASSUME NEW d \in Nat, d \in S PROVE d + 1 \in S
  <2>1. SUFFICES ASSUME d + 2 <= Depth, NEW n \in Blocks[d + 1]
                 PROVE Within[d + 2][n] = Within[d + 1][n]
    OBVIOUS
  <2>2. d + 1 \in 1..Depth /\ d + 2 \in 1..Depth /\ (d + 1) - 1 = d /\ (d + 2) - 1 = d + 1
    BY <2>1, DepthIsNat
  <2>3. n \in AllBlocks /\ n.children \in Seq(Blocks[d])
    BY <2>2, BlocksForm, BlocksAreAll
  <2>4. \A child \in ToSet(n.children) : Within[d + 1][child] = Within[d][child]
    <3>1. Same(d)
      BY <1>2, <2>1, DepthIsNat
    <3>2. \A child \in ToSet(n.children) : child \in Blocks[d]
      BY <2>3, InSeq
    <3> QED
      BY <3>1, <3>2
  <2>5. /\ Within[d + 2][n] = {n} \cup UNION {Within[d + 1][child] : child \in ToSet(n.children)}
        /\ Within[d + 1][n] = {n} \cup UNION {Within[d][child] : child \in ToSet(n.children)}
    <3>1. ASSUME NEW e \in 1..Depth
          PROVE Within[e][n] = {n} \cup UNION {Within[e - 1][child] : child \in ToSet(n.children)}
      BY <2>3, WithinDef
    <3> QED
      BY <2>2, <3>1
  <2> QED
    BY <2>4, <2>5
<1> HIDE DEF S
<1>3. Depth - 1 \in S
  BY <1>1, <1>2, InductionOnNat, DepthIsNat
<1>4. Same(Depth - 1) /\ (Depth - 1) + 1 = Depth /\ Depth \in 1..Depth
  BY <1>3, DepthIsNat DEF S
<1>5. node.children \in Seq(Blocks[Depth - 1])
  BY <1>4, BlocksForm DEF AllBlocks
<1>6. \A child \in ToSet(node.children) : Within[Depth][child] = Within[Depth - 1][child]
  BY <1>4, <1>5, InSeq
<1>7. Within[Depth][node] = {node} \cup UNION {Within[Depth - 1][child] : child \in ToSet(node.children)}
  BY <1>4, WithinDef
<1> QED
  BY <1>6, <1>7 DEF Inside

\* A channel that nothing in a block sets, other than by reference.
LeavesAlone(node, ch) == \A inner \in Within[Depth][node] : ~Sets(inner, ch)
Quiet(node) == \A inner \in Inside(node) : ~Sets(inner, node.ch)

LEMMA LeftAlone ==
    ASSUME NEW node \in AllBlocks, NEW ch
    PROVE /\ LeavesAlone(node, ch) =>
               ~Sets(node, ch) /\ \A child \in ToSet(node.children) : LeavesAlone(child, ch)
          /\ Quiet(node) => \A child \in ToSet(node.children) : LeavesAlone(child, node.ch)
BY WithinNode DEF LeavesAlone, Quiet, Inside

-----------------------------------------------------------------------------
(* Actions and compilations.                                               *)

SetKinds == {"configure", "update"}
Kinds == {"checkpoint", "configure", "update", "on", "off", "ramp", "assert"}

\* What may be emitted.
Fits(kind, ch, level) ==
    /\ kind \in Kinds
    /\ level \in Levels \cup {Unset}
    /\ kind = "checkpoint" => ch = NoChannel
    /\ kind # "checkpoint" => ch \in Channels
    /\ kind \in SetKinds => level \in Levels

Actions ==
    {a \in [kind : Kinds, ch : Channels \cup {NoChannel}, level : Levels \cup {Unset},
            setpoints : Setpoints, loopPath : SUBSET AllBlocks, finally : BOOLEAN,
            completionOnly : BOOLEAN, faultOnly : BOOLEAN, retains : BOOLEAN] :
        Fits(a.kind, a.ch, a.level)}
\* The actions of the recipe, before those of its Finally.
MainActions ==
    {a \in Actions : ~a.finally /\ ~a.completionOnly /\ ~a.faultOnly /\ ~a.retains}

Mains == Compilations(Seq(MainActions))

LEMMA AppendSeq ==
    ASSUME NEW A, NEW s \in Seq(A), NEW a \in A
    PROVE /\ Append(s, a) \in Seq(A) /\ Append(s, a) # <<>>
          /\ Len(s) \in Nat /\ Len(Append(s, a)) = Len(s) + 1
          /\ Append(s, a)[Len(s) + 1] = a
          /\ \A i \in 1..Len(s) : Append(s, a)[i] = s[i]
BY AppendProperties

LEMMA ConcatAppend ==
    ASSUME NEW A, NEW p \in Seq(A), NEW s \in Seq(A), NEW a \in A
    PROVE p \o Append(s, a) = Append(p \o s, a)
<1>1. <<a>> \in Seq(A) /\ p \o s \in Seq(A)
  BY ConcatProperties
<1>2. Append(s, a) = s \o <<a>> /\ Append(p \o s, a) = (p \o s) \o <<a>>
  BY <1>1, AppendIsConcat
<1> QED
  BY <1>1, <1>2, ConcatAssociative

LEMMA ReplannedIs ==
    ASSUME NEW planned \in Setpoints, NEW kind, NEW ch, NEW level, Fits(kind, ch, level)
    PROVE /\ Replanned(planned, kind, ch, level) \in Setpoints
          /\ \A x \in Channels :
               Replanned(planned, kind, ch, level)[x] =
                 IF x = ch /\ kind \in SetKinds /\ (kind = "configure" \/ planned[x] # Unset)
                 THEN level ELSE planned[x]
<1>1. CASE kind = "configure" \/ (kind = "update" /\ planned[ch] # Unset)
  <2>1. ch \in Channels /\ level \in Levels
    BY <1>1 DEF Fits, SetKinds
  <2>2. Replanned(planned, kind, ch, level) = [planned EXCEPT ![ch] = level]
    BY <1>1 DEF Replanned
  <2> QED
    BY <1>1, <2>1, <2>2 DEF Setpoints, SetKinds
<1>2. CASE ~(kind = "configure" \/ (kind = "update" /\ planned[ch] # Unset))
  BY <1>2 DEF Replanned, SetKinds
<1> QED
  BY <1>1, <1>2

LEMMA EmitFields ==
    ASSUME NEW A, NEW c \in Compilations(A), NEW kind, NEW ch, NEW level
    PROVE LET e == Emit(c, kind, ch, level) IN
          /\ e = [accepted |-> c.accepted, actions |-> Append(c.actions, Action(c, kind, ch, level)),
                  context |-> c.context, planned |-> Replanned(c.planned, kind, ch, level),
                  axisPath |-> c.axisPath, loopPath |-> c.loopPath]
          /\ e.accepted = c.accepted
          /\ e.actions = Append(c.actions, Action(c, kind, ch, level))
          /\ e.planned = Replanned(c.planned, kind, ch, level)
          /\ e.context = c.context
          /\ e.axisPath = c.axisPath /\ e.loopPath = c.loopPath
<1> DEFINE e == Emit(c, kind, ch, level)
           actions == Append(c.actions, Action(c, kind, ch, level))
           planned == Replanned(c.planned, kind, ch, level)
<1>1. c = [accepted |-> c.accepted, actions |-> c.actions, context |-> c.context,
           planned |-> c.planned, axisPath |-> c.axisPath, loopPath |-> c.loopPath]
  BY DEF Compilations
<1>2. e = [c EXCEPT !.actions = actions, !.planned = planned]
  BY DEF Emit
<1> HIDE DEF e, actions, planned
<1>3. e = [accepted |-> c.accepted, actions |-> actions, context |-> c.context,
           planned |-> planned, axisPath |-> c.axisPath, loopPath |-> c.loopPath]
  BY <1>1, <1>2
<1>4. /\ e.accepted = c.accepted /\ e.actions = actions /\ e.planned = planned
      /\ e.context = c.context /\ e.axisPath = c.axisPath /\ e.loopPath = c.loopPath
  BY <1>3
<1> QED
  BY <1>3, <1>4 DEF e, actions, planned

LEMMA ActionIs ==
    ASSUME NEW A, NEW c \in Compilations(A), NEW kind, NEW ch, NEW level, Fits(kind, ch, level)
    PROVE LET a == Action(c, kind, ch, level) IN
          /\ a \in MainActions
          /\ a.kind = kind /\ a.ch = ch /\ a.level = level
          /\ a.setpoints = c.context /\ a.loopPath = c.loopPath
<1>1. ch \in Channels \cup {NoChannel} /\ kind \in Kinds /\ level \in Levels \cup {Unset}
  BY DEF Fits
<1>2. c.context \in Setpoints /\ c.loopPath \in SUBSET AllBlocks
  BY DEF Compilations
<1> QED
  BY <1>1, <1>2 DEF Action, MainActions, Actions

LEMMA CompilationFields ==
    ASSUME NEW A, NEW c \in Compilations(A)
    PROVE /\ c.accepted \in BOOLEAN /\ c.actions \in A
          /\ c.context \in Setpoints /\ c.planned \in Setpoints
          /\ c.axisPath \in SUBSET AllBlocks /\ c.loopPath \in SUBSET AllBlocks
BY DEF Compilations

LEMMA EmitType ==
    ASSUME NEW c \in Mains, NEW kind, NEW ch, NEW level, Fits(kind, ch, level)
    PROVE Emit(c, kind, ch, level) \in Mains
<1> DEFINE a == Action(c, kind, ch, level)
           r == Replanned(c.planned, kind, ch, level)
           e == Emit(c, kind, ch, level)
<1>1. a \in MainActions
  BY ActionIs DEF Mains
<1>2. /\ c.accepted \in BOOLEAN /\ c.actions \in Seq(MainActions)
      /\ c.context \in Setpoints /\ c.planned \in Setpoints
      /\ c.axisPath \in SUBSET AllBlocks /\ c.loopPath \in SUBSET AllBlocks
  BY CompilationFields DEF Mains
<1>3. r \in Setpoints
  BY <1>2, ReplannedIs
<1>4. Append(c.actions, a) \in Seq(MainActions)
  BY <1>1, <1>2, AppendSeq
<1>5. e = [accepted |-> c.accepted, actions |-> Append(c.actions, a), context |-> c.context,
           planned |-> r, axisPath |-> c.axisPath, loopPath |-> c.loopPath]
  BY EmitFields DEF Mains
<1> HIDE DEF a, r, e
<1>6. e \in Mains
  BY <1>2, <1>3, <1>4, <1>5 DEF Mains, Compilations
<1> QED
  BY <1>6 DEF e

-----------------------------------------------------------------------------
(* What the compiler plans for a channel is what the actions before it     *)
(* last set.  The actions emitted in a visit follow those of a prefix p.    *)

\* Before action i of w, the last to set ch set this level.
LastSet(w, i, ch, level) ==
    \E j \in 1..(i - 1) :
        /\ w[j].kind \in SetKinds /\ w[j].ch = ch /\ w[j].level = level
        /\ \A k \in (j + 1)..(i - 1) : w[k].kind \in SetKinds => w[k].ch # ch
Tracks(w, planned) ==
    \A ch \in Channels : planned[ch] # Unset => LastSet(w, Len(w) + 1, ch, planned[ch])
\* Every assertion of a level is of the one that was last set.
Backed(w) ==
    \A i \in 1..Len(w) :
        w[i].kind = "assert" /\ w[i].level # Unset => LastSet(w, i, w[i].ch, w[i].level)

Sound(p, c) ==
    /\ p \in Seq(MainActions) /\ c \in Mains
    /\ Tracks(p \o c.actions, c.planned)
    /\ Backed(p \o c.actions)

LEMMA LastSetAppend ==
    ASSUME NEW w, Len(w) \in Nat, NEW v, NEW a,
           \A i \in 1..Len(w) : v[i] = w[i], v[Len(w) + 1] = a,
           NEW ch, NEW level
    PROVE /\ \A i \in 1..(Len(w) + 1) : LastSet(w, i, ch, level) => LastSet(v, i, ch, level)
          /\ a.kind \in SetKinds /\ a.ch = ch /\ a.level = level
               => LastSet(v, Len(w) + 2, ch, level)
          /\ ~(a.kind \in SetKinds /\ a.ch = ch) /\ LastSet(w, Len(w) + 1, ch, level)
               => LastSet(v, Len(w) + 2, ch, level)
<1>1. ASSUME NEW i \in 1..(Len(w) + 1), LastSet(w, i, ch, level) PROVE LastSet(v, i, ch, level)
  <2>1. PICK j \in 1..(i - 1) :
          /\ w[j].kind \in SetKinds /\ w[j].ch = ch /\ w[j].level = level
          /\ \A k \in (j + 1)..(i - 1) : w[k].kind \in SetKinds => w[k].ch # ch
    BY <1>1 DEF LastSet
  <2>2. \A k \in 1..(i - 1) : v[k] = w[k]
    OBVIOUS
  <2>3. /\ v[j].kind \in SetKinds /\ v[j].ch = ch /\ v[j].level = level
        /\ \A k \in (j + 1)..(i - 1) : v[k].kind \in SetKinds => v[k].ch # ch
    BY <2>1, <2>2
  <2> QED
    BY <2>3 DEF LastSet
<1>2. ASSUME a.kind \in SetKinds, a.ch = ch, a.level = level
      PROVE LastSet(v, Len(w) + 2, ch, level)
  BY <1>2 DEF LastSet
<1>3. ASSUME ~(a.kind \in SetKinds /\ a.ch = ch), LastSet(w, Len(w) + 1, ch, level)
      PROVE LastSet(v, Len(w) + 2, ch, level)
  <2>1. PICK j \in 1..Len(w) :
          /\ w[j].kind \in SetKinds /\ w[j].ch = ch /\ w[j].level = level
          /\ \A k \in (j + 1)..Len(w) : w[k].kind \in SetKinds => w[k].ch # ch
    BY <1>3 DEF LastSet
  <2>2. /\ v[j].kind \in SetKinds /\ v[j].ch = ch /\ v[j].level = level
        /\ \A k \in (j + 1)..(Len(w) + 1) : v[k].kind \in SetKinds => v[k].ch # ch
    BY <1>3, <2>1
  <2> QED
    BY <2>2 DEF LastSet
<1> QED
  BY <1>1, <1>2, <1>3

LEMMA SoundEmit ==
    ASSUME NEW p, NEW c, Sound(p, c), NEW kind, NEW ch, NEW level, Fits(kind, ch, level),
           kind = "assert" => level \in {Unset, c.planned[ch]}
    PROVE Sound(p, Emit(c, kind, ch, level))
<1> DEFINE a == Action(c, kind, ch, level)
           e == Emit(c, kind, ch, level)
           w == p \o c.actions
           v == p \o e.actions
<1>1. /\ p \in Seq(MainActions) /\ c \in Mains /\ c.actions \in Seq(MainActions)
      /\ c.planned \in Setpoints
  BY CompilationFields DEF Sound, Mains
<1>2. e \in Mains /\ e.planned = Replanned(c.planned, kind, ch, level)
      /\ e.actions = Append(c.actions, a)
  BY <1>1, EmitType, EmitFields DEF Mains
<1>3. a \in MainActions /\ a.kind = kind /\ a.ch = ch /\ a.level = level
  BY <1>1, ActionIs DEF Mains
<1>4. w \in Seq(MainActions) /\ Tracks(w, c.planned) /\ Backed(w)
  BY <1>1, ConcatProperties DEF Sound
<1>5. v = Append(w, a)
  BY <1>1, <1>2, <1>3, ConcatAppend
<1> HIDE DEF a, e, w, v
<1>6. /\ Len(w) \in Nat /\ Len(v) = Len(w) + 1
      /\ v[Len(w) + 1] = a /\ \A i \in 1..Len(w) : v[i] = w[i]
  BY <1>3, <1>4, <1>5, AppendSeq
<1>7. ASSUME NEW x \in Channels, e.planned[x] # Unset
      PROVE LastSet(v, Len(v) + 1, x, e.planned[x])
  <2>1. e.planned[x] =
          IF x = ch /\ kind \in SetKinds /\ (kind = "configure" \/ c.planned[x] # Unset)
          THEN level ELSE c.planned[x]
    BY <1>1, <1>2, ReplannedIs
  <2>2. CASE x = ch /\ kind \in SetKinds /\ (kind = "configure" \/ c.planned[x] # Unset)
    BY <1>3, <1>6, <2>1, <2>2, LastSetAppend
  <2>3. CASE ~(x = ch /\ kind \in SetKinds)
    <3>1. LastSet(w, Len(w) + 1, x, c.planned[x])
      BY <1>4, <1>7, <2>1, <2>3 DEF Tracks
    <3>2. ~(a.kind \in SetKinds /\ a.ch = x)
      BY <1>3, <2>3
    <3>3. e.planned[x] = c.planned[x]
      BY <2>1, <2>3
    <3>4. LastSet(v, Len(w) + 2, x, c.planned[x])
      BY <1>6, <3>1, <3>2, LastSetAppend
    <3> QED
      BY <1>6, <3>3, <3>4
  <2>4. CASE x = ch /\ kind \in SetKinds /\ ~(kind = "configure" \/ c.planned[x] # Unset)
    BY <1>7, <2>1, <2>4
  <2> QED
    BY <2>2, <2>3, <2>4
<1>8. ASSUME NEW i \in 1..Len(v), v[i].kind = "assert", v[i].level # Unset
      PROVE LastSet(v, i, v[i].ch, v[i].level)
  <2>1. CASE i \in 1..Len(w)
    <3>1. v[i] = w[i]
      BY <1>6, <2>1
    <3>2. LastSet(w, i, w[i].ch, w[i].level)
      BY <1>4, <1>8, <2>1, <3>1 DEF Backed
    <3>3. i \in 1..(Len(w) + 1)
      BY <1>6, <2>1
    <3> QED
      BY <1>6, <3>1, <3>2, <3>3, LastSetAppend
  <2>2. CASE i = Len(w) + 1
    <3>1. kind = "assert" /\ level = c.planned[ch] /\ level # Unset /\ ch \in Channels
      BY <1>3, <1>6, <1>8, <2>2 DEF Fits, SetKinds
    <3>2. LastSet(w, Len(w) + 1, ch, level)
      BY <1>4, <3>1 DEF Tracks
    <3> QED
      BY <1>3, <1>6, <2>2, <3>2, LastSetAppend
  <2> QED
    BY <1>6, <2>1, <2>2
<1>9. Tracks(v, e.planned) /\ Backed(v)
  BY <1>7, <1>8 DEF Tracks, Backed
<1> QED
  BY <1>1, <1>2, <1>9 DEF Sound, e, v

\* What is remembered of the context, and the axes, say nothing of the actions.
LEMMA SoundElsewhere ==
    ASSUME NEW p, NEW c, Sound(p, c), NEW e \in Mains,
           e.actions = c.actions, e.planned = c.planned
    PROVE Sound(p, e)
BY DEF Sound

LEMMA SoundFields ==
    ASSUME NEW p, NEW c, Sound(p, c)
    PROVE /\ p \in Seq(MainActions) /\ c \in Mains
          /\ c.accepted \in BOOLEAN /\ c.actions \in Seq(MainActions)
          /\ c.context \in Setpoints /\ c.planned \in Setpoints
          /\ c.axisPath \in SUBSET AllBlocks /\ c.loopPath \in SUBSET AllBlocks
BY CompilationFields DEF Sound, Mains

-----------------------------------------------------------------------------
(* What actions do: how many points they store, the levels they leave in   *)
(* force, and whether their checkpoints are stamped with those.             *)

Weight(a) == IF a.kind = "checkpoint" THEN 1 ELSE 0
Weights(f, w) == f[0] = 0 /\ \A i \in 1..Len(w) : f[i] = f[i - 1] + Weight(w[i])

LEMMA StoredIs ==
    ASSUME NEW A, NEW w \in Seq(A)
    PROVE /\ \E f : Weights(f, w) /\ Stored(w) = f[Len(w)]
          /\ \A f : Weights(f, w) => /\ Stored(w) = f[Len(w)]
                                     /\ \A i \in 0..Len(w) : f[i] \in Nat
<1> DEFINE numbers == [i \in DOMAIN w |-> IF w[i].kind = "checkpoint" THEN 1 ELSE 0]
<1>1. Len(w) \in Nat /\ DOMAIN w = 1..Len(w)
  BY LenProperties
<1>2. Len(numbers) = Len(w) /\ \A i \in 1..Len(w) : numbers[i] = Weight(w[i])
  BY <1>1 DEF Weight
<1>3. Stored(w) = Sum(numbers)
  BY DEF Stored
<1> HIDE DEF numbers
<1>4. PICK g : Sums(g, numbers) /\ Sum(numbers) = g[Len(numbers)]
  BY <1>1, <1>2, SumDef
<1>5. Weights(g, w) /\ Stored(w) = g[Len(w)]
  BY <1>1, <1>2, <1>3, <1>4 DEF Sums, Weights
<1>6. ASSUME NEW f, Weights(f, w)
      PROVE \A i \in 0..Len(w) : f[i] = g[i] /\ f[i] \in Nat
  <2> DEFINE S == {i \in 0..Len(w) : f[i] = g[i] /\ f[i] \in Nat}
  <2>1. 0 \in S
    BY <1>1, <1>5, <1>6 DEF Weights
  <2>2. ASSUME NEW i \in 0..(Len(w) - 1), i \in S PROVE i + 1 \in S
    <3>1. i + 1 \in 1..Len(w) /\ (i + 1) - 1 = i /\ Weight(w[i + 1]) \in Nat
      BY <1>1 DEF Weight
    <3>2. f[i + 1] = f[i] + Weight(w[i + 1]) /\ g[i + 1] = g[i] + Weight(w[i + 1])
      BY <1>5, <1>6, <3>1 DEF Weights
    <3> QED
      BY <2>2, <3>1, <3>2
  <2> HIDE DEF S
  <2>3. \A i \in 0..Len(w) : i \in S
    BY <1>1, <2>1, <2>2, Induction
  <2> QED
    BY <2>3 DEF S
<1> QED
  BY <1>1, <1>5, <1>6

LEMMA StoredIsNat ==
    ASSUME NEW A, NEW w \in Seq(A)
    PROVE Stored(w) \in Nat
<1>1. Len(w) \in 0..Len(w)
  BY LenProperties
<1> QED
  BY <1>1, StoredIs

LEMMA StoredConcat ==
    ASSUME NEW A, NEW s \in Seq(A), NEW t \in Seq(A)
    PROVE Stored(s \o t) = Stored(s) + Stored(t)
<1> DEFINE v == s \o t
<1>1. /\ Len(s) \in Nat /\ Len(t) \in Nat
      /\ v \in Seq(A) /\ Len(v) = Len(s) + Len(t)
      /\ \A i \in 1..Len(s) : v[i] = s[i]
      /\ \A i \in 1..Len(t) : v[Len(s) + i] = t[i]
  BY ConcatProperties, LenProperties
<1> HIDE DEF v
<1>2. PICK f : Weights(f, v) /\ Stored(v) = f[Len(v)]
  BY <1>1, StoredIs
<1>3. PICK h : Weights(h, t) /\ Stored(t) = h[Len(t)]
  BY StoredIs
<1>4. (\A i \in 0..Len(v) : f[i] \in Nat) /\ \A i \in 0..Len(t) : h[i] \in Nat
  BY <1>1, <1>2, <1>3, StoredIs
<1>5. Weights(f, s)
  BY <1>1, <1>2 DEF Weights
<1>6. Stored(s) = f[Len(s)]
  BY <1>5, StoredIs
<1> DEFINE S == {i \in 0..Len(t) : f[Len(s) + i] = f[Len(s)] + h[i]}
<1>7. 0 \in S
  BY <1>1, <1>3, <1>4 DEF Weights
<1>8. ASSUME NEW i \in 0..(Len(t) - 1), i \in S PROVE i + 1 \in S
  <2>1. /\ i + 1 \in 1..Len(t) /\ (i + 1) - 1 = i
        /\ Len(s) + (i + 1) \in 1..Len(v) /\ (Len(s) + (i + 1)) - 1 = Len(s) + i
    BY <1>1
  <2>2. /\ f[Len(s) + (i + 1)] = f[Len(s) + i] + Weight(t[i + 1])
        /\ h[i + 1] = h[i] + Weight(t[i + 1])
    BY <1>1, <1>2, <1>3, <2>1 DEF Weights
  <2>3. f[Len(s) + i] = f[Len(s)] + h[i]
    BY <1>8
  <2>4. f[Len(s)] \in Nat /\ h[i] \in Nat /\ Weight(t[i + 1]) \in Nat
    BY <1>1, <1>4, <2>1 DEF Weight
  <2> QED
    BY <2>1, <2>2, <2>3, <2>4
<1> HIDE DEF S
<1>9. \A i \in 0..Len(t) : i \in S
  BY <1>1, <1>7, <1>8, Induction
<1>10. f[Len(s) + Len(t)] = f[Len(s)] + h[Len(t)]
  BY <1>1, <1>9 DEF S
<1> QED
  BY <1>1, <1>2, <1>3, <1>6, <1>10 DEF v

LEMMA StoredOne ==
    ASSUME NEW A, NEW w \in Seq(A), NEW a \in A
    PROVE /\ Stored(<<>>) = 0
          /\ Stored(Append(w, a)) = Stored(w) + Weight(a)
<1>1. <<>> \in Seq(A) /\ <<a>> \in Seq(A) /\ Len(<<a>>) = 1 /\ <<a>>[1] = a /\ Len(<<>>) = 0
  OBVIOUS
<1>2. Stored(<<>>) = 0
  BY <1>1, StoredIs DEF Weights
<1>3. Stored(<<a>>) = Weight(a)
  <2>1. PICK f : Weights(f, <<a>>) /\ Stored(<<a>>) = f[1]
    BY <1>1, StoredIs
  <2>2. f[0] = 0 /\ f[1] = f[0] + Weight(a)
    BY <1>1, <2>1 DEF Weights
  <2> QED
    BY <2>1, <2>2 DEF Weight
<1>4. Append(w, a) = w \o <<a>>
  BY <1>1, AppendIsConcat
<1> QED
  BY <1>1, <1>2, <1>3, <1>4, StoredConcat

\* What was executed so far does not depend on what follows.
LEMMA ExecutionPrefix ==
    ASSUME NEW w, NEW v, Len(w) \in Nat, Len(v) \in Nat, Len(w) <= Len(v),
           \A i \in 1..Len(w) : v[i] = w[i]
    PROVE \A i \in 0..Len(w) : Execution(v)[i] = Execution(w)[i]
<1> DEFINE S == {i \in 0..Len(w) : Execution(v)[i] = Execution(w)[i]}
<1>1. 0 \in S
  BY ExecutionDef
<1>2. ASSUME NEW i \in 0..(Len(w) - 1), i \in S PROVE i + 1 \in S
  <2>1. i + 1 \in 1..Len(w) /\ i + 1 \in 1..Len(v) /\ (i + 1) - 1 = i
    OBVIOUS
  <2> DEFINE m == Execution(w)[i]
             a == w[i + 1]
  <2>2. Execution(v)[i] = m /\ v[i + 1] = a
    BY <1>2, <2>1
  <2>3. Execution(v)[i + 1] = IF a.faultOnly THEN m ELSE Effect(m, a)
    BY <2>1, <2>2, ExecutionDef
  <2>4. Execution(w)[i + 1] = IF a.faultOnly THEN m ELSE Effect(m, a)
    BY <2>1, ExecutionDef
  <2> QED
    BY <2>1, <2>3, <2>4
<1> HIDE DEF S
<1>3. \A i \in 0..Len(w) : i \in S
  BY <1>1, <1>2, Induction
<1> QED
  BY <1>3 DEF S

\* The levels in force after w.
InForce(w) == Execution(w)[Len(w)].level

LEMMA EffectIs ==
    ASSUME NEW m, NEW a, NEW x \in Channels
    PROVE /\ Effect(m, a).level[x] =
               IF a.ch = x /\ a.kind \in SetKinds THEN a.level
               ELSE IF a.ch = x /\ a.kind = "ramp" THEN Zero ELSE m.level[x]
          /\ x \in Effect(m, a).on <=>
               \/ x \in m.on /\ ~(a.ch = x /\ a.kind \in {"configure", "off", "ramp"})
               \/ a.ch = x /\ a.kind = "on"
<1>1. Effect(m, a).level[x] =
        IF x \in Target(a, SetKinds) THEN a.level
        ELSE IF x \in Target(a, {"ramp"}) THEN Zero ELSE m.level[x]
  BY DEF Effect, SetKinds
<1>2. Effect(m, a).on = (m.on \ Target(a, {"configure", "off", "ramp"})) \cup Target(a, {"on"})
  BY DEF Effect
<1>3. \A kinds : x \in Target(a, kinds) <=> a.ch = x /\ a.kind \in kinds
  BY DEF Target
<1> QED
  BY <1>1, <1>2, <1>3

LEMMA InForceAppend ==
    ASSUME NEW w \in Seq(MainActions), NEW a \in MainActions, NEW x \in Channels
    PROVE InForce(Append(w, a))[x] =
            IF a.ch = x /\ a.kind \in SetKinds THEN a.level
            ELSE IF a.ch = x /\ a.kind = "ramp" THEN Zero ELSE InForce(w)[x]
<1> DEFINE v == Append(w, a)
<1>1. /\ v \in Seq(MainActions) /\ Len(w) \in Nat /\ Len(v) = Len(w) + 1
      /\ v[Len(w) + 1] = a /\ \A i \in 1..Len(w) : v[i] = w[i]
  BY AppendSeq
<1> HIDE DEF v
<1>2. ~a.faultOnly
  BY DEF MainActions
<1>3. Execution(v)[Len(w)] = Execution(w)[Len(w)]
  BY <1>1, ExecutionPrefix
<1>4. Execution(v)[Len(v)] = Effect(Execution(w)[Len(w)], a)
  <2>1. Len(v) \in 1..Len(v) /\ Len(v) - 1 = Len(w) /\ v[Len(v)] = a
    BY <1>1
  <2> QED
    <3> DEFINE n == Len(v)
               m == Execution(v)[n - 1]
    <3>1. n \in Nat /\ n \in 1..n
      BY <1>1
    <3>2. Execution(v)[n] = IF v[n].faultOnly THEN m ELSE Effect(m, v[n])
      BY <3>1, ExecutionDef
    <3>3. m = Execution(w)[Len(w)] /\ v[n] = a
      BY <1>3, <2>1
    <3> QED
      BY <1>2, <3>2, <3>3
<1>5. InForce(v)[x] = Effect(Execution(w)[Len(w)], a).level[x]
  BY <1>4 DEF InForce
<1> QED
  BY <1>5, EffectIs DEF v, InForce

\* A checkpoint that follows w, stamped with these setpoints, reports the axis truly.
True(setpoints, levels, node) ==
    Quiet(node) => /\ setpoints[node.ch] = levels[node.ch]
                   /\ setpoints[node.ch] \in ToSet(node.values)
Truth(w) ==
    \A i \in 1..Len(w) : w[i].kind = "checkpoint" =>
        \A node \in w[i].loopPath : True(w[i].setpoints, Execution(w)[i - 1].level, node)

LEMMA TruthAppend ==
    ASSUME NEW w \in Seq(MainActions), Truth(w), NEW a \in MainActions,
           a.kind = "checkpoint" => \A node \in a.loopPath : True(a.setpoints, InForce(w), node)
    PROVE Truth(Append(w, a))
<1> DEFINE v == Append(w, a)
<1>1. /\ v \in Seq(MainActions) /\ Len(w) \in Nat /\ Len(v) = Len(w) + 1
      /\ v[Len(w) + 1] = a /\ \A i \in 1..Len(w) : v[i] = w[i]
  BY AppendSeq
<1> HIDE DEF v
<1>2. \A i \in 0..Len(w) : Execution(v)[i] = Execution(w)[i]
  BY <1>1, ExecutionPrefix
<1>3. ASSUME NEW i \in 1..Len(v), v[i].kind = "checkpoint", NEW node \in v[i].loopPath
      PROVE True(v[i].setpoints, Execution(v)[i - 1].level, node)
  <2>1. CASE i \in 1..Len(w)
    <3>1. v[i] = w[i] /\ Execution(v)[i - 1] = Execution(w)[i - 1]
      BY <1>1, <1>2, <2>1
    <3> QED
      BY <1>3, <2>1, <3>1 DEF Truth
  <2>2. CASE i = Len(w) + 1
    <3>1. v[i] = a /\ Execution(v)[i - 1].level = InForce(w)
      BY <1>1, <1>2, <2>2 DEF InForce
    <3> QED
      BY <1>3, <3>1
  <2> QED
    BY <1>1, <2>1, <2>2
<1> QED
  BY <1>3 DEF Truth, v

\* What v, which begins with w, adds to it: no point, and levels of one channel only.
Follows(w, v, ch) ==
    /\ Stored(v) = Stored(w)
    /\ Truth(w) => Truth(v)
    /\ \A x \in Channels : x # ch => InForce(v)[x] = InForce(w)[x]

LEMMA FollowsSelf == \A w, ch : Follows(w, w, ch)
BY DEF Follows

LEMMA FollowsTransitive ==
    ASSUME NEW u, NEW v, NEW w, NEW ch, Follows(u, v, ch), Follows(v, w, ch)
    PROVE Follows(u, w, ch)
BY DEF Follows

LEMMA FollowsAppend ==
    ASSUME NEW w \in Seq(MainActions), NEW a \in MainActions, a.kind # "checkpoint"
    PROVE /\ Follows(w, Append(w, a), a.ch)
          /\ a.kind \notin SetKinds \cup {"ramp"} =>
               \A x \in Channels : InForce(Append(w, a))[x] = InForce(w)[x]
          /\ a.kind \in SetKinds /\ a.ch \in Channels => InForce(Append(w, a))[a.ch] = a.level
<1>1. Stored(Append(w, a)) = Stored(w)
  <2>1. Weight(a) = 0 /\ Stored(w) \in Nat
    BY StoredIsNat DEF Weight
  <2> QED
    BY <2>1, StoredOne
<1>2. Truth(w) => Truth(Append(w, a))
  BY TruthAppend
<1> QED
  BY <1>1, <1>2, InForceAppend DEF Follows

-----------------------------------------------------------------------------
(* The traversal emits sound actions, whatever the recipe.                 *)

LEMMA RememberFields ==
    ASSUME NEW A, NEW c \in Compilations(A), NEW ch \in Channels, NEW level \in Levels
    PROVE LET e == Remember(c, ch, level) IN
          /\ e \in Compilations(A)
          /\ e.accepted = c.accepted /\ e.actions = c.actions /\ e.planned = c.planned
          /\ \A x \in Channels : e.context[x] = IF x = ch THEN level ELSE c.context[x]
          /\ e.axisPath = c.axisPath /\ e.loopPath = c.loopPath
<1> DEFINE e == Remember(c, ch, level)
           context == [c.context EXCEPT ![ch] = level]
<1>1. c = [accepted |-> c.accepted, actions |-> c.actions, context |-> c.context,
           planned |-> c.planned, axisPath |-> c.axisPath, loopPath |-> c.loopPath]
  BY DEF Compilations
<1>2. e = [c EXCEPT !.context = context]
  BY DEF Remember
<1>3. /\ c.accepted \in BOOLEAN /\ c.actions \in A /\ c.planned \in Setpoints
      /\ c.axisPath \in SUBSET AllBlocks /\ c.loopPath \in SUBSET AllBlocks
  BY CompilationFields
<1>4. /\ context \in Setpoints
      /\ \A x \in Channels : context[x] = IF x = ch THEN level ELSE c.context[x]
  BY CompilationFields DEF Setpoints
<1> HIDE DEF e, context
<1>5. e = [accepted |-> c.accepted, actions |-> c.actions, context |-> context,
           planned |-> c.planned, axisPath |-> c.axisPath, loopPath |-> c.loopPath]
  BY <1>1, <1>2
<1>6. e \in Compilations(A)
  BY <1>3, <1>4, <1>5 DEF Compilations
<1>7. /\ e.accepted = c.accepted /\ e.actions = c.actions /\ e.planned = c.planned
      /\ e.context = context /\ e.axisPath = c.axisPath /\ e.loopPath = c.loopPath
  BY <1>5
<1> QED
  BY <1>4, <1>6, <1>7 DEF e

LEMMA LoopPathFields ==
    ASSUME NEW A, NEW c \in Compilations(A), NEW path
    PROVE LET e == [c EXCEPT !.loopPath = path] IN
          /\ e = [accepted |-> c.accepted, actions |-> c.actions, context |-> c.context,
                  planned |-> c.planned, axisPath |-> c.axisPath, loopPath |-> path]
          /\ e.accepted = c.accepted /\ e.actions = c.actions /\ e.planned = c.planned
          /\ e.context = c.context /\ e.axisPath = c.axisPath /\ e.loopPath = path
BY DEF Compilations

LEMMA AxisPathFields ==
    ASSUME NEW A, NEW c \in Compilations(A), NEW path
    PROVE LET e == [c EXCEPT !.axisPath = path] IN
          /\ e = [accepted |-> c.accepted, actions |-> c.actions, context |-> c.context,
                  planned |-> c.planned, axisPath |-> path, loopPath |-> c.loopPath]
          /\ e.accepted = c.accepted /\ e.actions = c.actions /\ e.planned = c.planned
          /\ e.context = c.context /\ e.axisPath = path /\ e.loopPath = c.loopPath
BY DEF Compilations

LEMMA RefuseFields ==
    ASSUME NEW A, NEW c \in Compilations(A)
    PROVE LET e == Refuse(c) IN
          /\ e \in Compilations(A)
          /\ ~e.accepted /\ e.actions = c.actions /\ e.planned = c.planned
          /\ e.context = c.context /\ e.axisPath = c.axisPath /\ e.loopPath = c.loopPath
BY DEF Compilations, Refuse

LEMMA LeaveFields ==
    ASSUME NEW A, NEW c \in Compilations(A), NEW outer \in Compilations(A)
    PROVE LET e == Leave(c, outer) IN
          /\ e \in Compilations(A)
          /\ e.accepted = c.accepted /\ e.actions = c.actions /\ e.planned = c.planned
          /\ e.context = outer.context
          /\ e.axisPath = outer.axisPath /\ e.loopPath = outer.loopPath
<1> DEFINE e == Leave(c, outer)
           context == outer.context
           axisPath == outer.axisPath
           loopPath == outer.loopPath
<1>1. c = [accepted |-> c.accepted, actions |-> c.actions, context |-> c.context,
           planned |-> c.planned, axisPath |-> c.axisPath, loopPath |-> c.loopPath]
  BY DEF Compilations
<1>2. e = [c EXCEPT !.context = context, !.axisPath = axisPath, !.loopPath = loopPath]
  BY DEF Leave
<1>3. /\ c.accepted \in BOOLEAN /\ c.actions \in A /\ c.planned \in Setpoints
      /\ context \in Setpoints
      /\ axisPath \in SUBSET AllBlocks /\ loopPath \in SUBSET AllBlocks
  BY CompilationFields
<1> HIDE DEF e, context, axisPath, loopPath
<1>4. e = [accepted |-> c.accepted, actions |-> c.actions, context |-> context,
           planned |-> c.planned, axisPath |-> axisPath, loopPath |-> loopPath]
  BY <1>1, <1>2
<1>5. e \in Compilations(A)
  BY <1>3, <1>4 DEF Compilations
<1>6. /\ e.accepted = c.accepted /\ e.actions = c.actions /\ e.planned = c.planned
      /\ e.context = context /\ e.axisPath = axisPath /\ e.loopPath = loopPath
  BY <1>4
<1> QED
  BY <1>5, <1>6 DEF e, context, axisPath, loopPath

LEMMA BareFields ==
    ASSUME NEW A, NEW c \in Compilations(A)
    PROVE LET e == Bare(c) IN
          /\ e \in Given
          /\ e.accepted = c.accepted /\ e.actions = <<>> /\ e.planned = c.planned
          /\ e.context = c.context /\ e.axisPath = c.axisPath /\ e.loopPath = c.loopPath
BY DEF Compilations, Bare, Given

LEMMA AfterFields ==
    ASSUME NEW c, NEW A, NEW r \in Compilations(A), c.actions \o r.actions \in A
    PROVE LET e == After(c, r) IN
          /\ e \in Compilations(A)
          /\ e.accepted = r.accepted /\ e.actions = c.actions \o r.actions
          /\ e.planned = r.planned /\ e.context = r.context
          /\ e.axisPath = r.axisPath /\ e.loopPath = r.loopPath
<1> DEFINE e == After(c, r)
           actions == c.actions \o r.actions
<1>1. r = [accepted |-> r.accepted, actions |-> r.actions, context |-> r.context,
           planned |-> r.planned, axisPath |-> r.axisPath, loopPath |-> r.loopPath]
  BY DEF Compilations
<1>2. e = [r EXCEPT !.actions = actions]
  BY DEF After
<1>3. actions \in A
  OBVIOUS
<1> HIDE DEF e, actions
<1>4. e = [accepted |-> r.accepted, actions |-> actions, context |-> r.context,
           planned |-> r.planned, axisPath |-> r.axisPath, loopPath |-> r.loopPath]
  BY <1>1, <1>2
<1>5. e \in Compilations(A)
  BY <1>3, <1>4, CompilationFields DEF Compilations
<1>6. /\ e.accepted = r.accepted /\ e.actions = actions /\ e.planned = r.planned
      /\ e.context = r.context /\ e.axisPath = r.axisPath /\ e.loopPath = r.loopPath
  BY <1>4
<1> QED
  BY <1>5, <1>6 DEF e, actions

LEMMA SoundRemember ==
    ASSUME NEW p, NEW c, Sound(p, c), NEW ch \in Channels, NEW level \in Levels
    PROVE Sound(p, Remember(c, ch, level))
<1>1. c \in Compilations(Seq(MainActions))
  BY SoundFields DEF Mains
<1> QED
  BY <1>1, RememberFields, SoundElsewhere DEF Mains

LEMMA SoundPaths ==
    ASSUME NEW p, NEW c, Sound(p, c), NEW path \in SUBSET AllBlocks
    PROVE Sound(p, [c EXCEPT !.loopPath = path]) /\ Sound(p, [c EXCEPT !.axisPath = path])
<1>1. c \in Compilations(Seq(MainActions))
  BY SoundFields DEF Mains
<1>2. ASSUME NEW e, e.actions = c.actions, e.planned = c.planned, e \in Mains PROVE Sound(p, e)
  BY <1>2, SoundElsewhere
<1>3. Sound(p, [c EXCEPT !.loopPath = path])
  <2> DEFINE e == [c EXCEPT !.loopPath = path]
  <2>1. /\ e = [accepted |-> c.accepted, actions |-> c.actions, context |-> c.context,
                planned |-> c.planned, axisPath |-> c.axisPath, loopPath |-> path]
        /\ e.actions = c.actions /\ e.planned = c.planned
    BY <1>1, LoopPathFields
  <2> HIDE DEF e
  <2>2. e \in Mains
    BY <2>1, SoundFields DEF Mains, Compilations
  <2> QED
    BY <1>2, <2>1, <2>2 DEF e
<1>4. Sound(p, [c EXCEPT !.axisPath = path])
  <2> DEFINE e == [c EXCEPT !.axisPath = path]
  <2>1. /\ e = [accepted |-> c.accepted, actions |-> c.actions, context |-> c.context,
                planned |-> c.planned, axisPath |-> path, loopPath |-> c.loopPath]
        /\ e.actions = c.actions /\ e.planned = c.planned
    BY <1>1, AxisPathFields
  <2> HIDE DEF e
  <2>2. e \in Mains
    BY <2>1, SoundFields DEF Mains, Compilations
  <2> QED
    BY <1>2, <2>1, <2>2 DEF e
<1> QED
  BY <1>3, <1>4

LEMMA SoundRefuse ==
    ASSUME NEW p, NEW c, Sound(p, c)
    PROVE Sound(p, Refuse(c))
<1>1. c \in Compilations(Seq(MainActions))
  BY SoundFields DEF Mains
<1>2. /\ Refuse(c) \in Compilations(Seq(MainActions))
      /\ Refuse(c).actions = c.actions /\ Refuse(c).planned = c.planned
  BY <1>1, RefuseFields
<1> QED
  BY <1>2, SoundElsewhere DEF Mains

\* A visit neither accepts what was refused nor leaves anything on the paths.
Keeps(c, e) ==
    /\ e.accepted => c.accepted
    /\ e.axisPath = c.axisPath /\ e.loopPath = c.loopPath

LEMMA KeepsTransitive ==
    ASSUME NEW c, NEW d, NEW e, Keeps(c, d), Keeps(d, e)
    PROVE Keeps(c, e)
BY DEF Keeps

LEMMA SoundStep ==
    ASSUME NEW p, NEW c, Sound(p, c), NEW kind, NEW ch, NEW level, Fits(kind, ch, level),
           kind = "assert" => level \in {Unset, c.planned[ch]}
    PROVE LET e == Emit(c, kind, ch, level) IN
          /\ Sound(p, e) /\ Keeps(c, e) /\ e.accepted = c.accepted
          /\ e.context = c.context /\ e.actions = Append(c.actions, Action(c, kind, ch, level))
          /\ e.planned = Replanned(c.planned, kind, ch, level)
<1>1. c \in Compilations(Seq(MainActions))
  BY SoundFields DEF Mains
<1> QED
  BY <1>1, SoundEmit, EmitFields DEF Keeps

\* What has been emitted since c, other than points, sets one channel only.
Moved(p, c, e, ch) == Follows(p \o c.actions, p \o e.actions, ch)
Level(p, c, ch) == InForce(p \o c.actions)[ch]
Unmoved(p, c, e) == \A x \in Channels : Level(p, e, x) = Level(p, c, x)

LEMMA MovedBy ==
    ASSUME NEW p, NEW c, NEW e, NEW ch, e.actions = c.actions
    PROVE Moved(p, c, e, ch) /\ Unmoved(p, c, e)
BY FollowsSelf DEF Moved, Unmoved, Level

LEMMA MovedThen ==
    ASSUME NEW p, NEW c, NEW d, NEW e, NEW ch
    PROVE /\ Moved(p, c, d, ch) /\ Moved(p, d, e, ch) => Moved(p, c, e, ch)
          /\ Unmoved(p, c, d) /\ Unmoved(p, d, e) => Unmoved(p, c, e)
BY FollowsTransitive DEF Moved, Unmoved

LEMMA MovedStep ==
    ASSUME NEW p, NEW c, Sound(p, c), NEW kind, NEW ch, NEW level, Fits(kind, ch, level),
           kind # "checkpoint"
    PROVE LET e == Emit(c, kind, ch, level) IN
          /\ Moved(p, c, e, ch)
          /\ kind \notin SetKinds \cup {"ramp"} => Unmoved(p, c, e)
          /\ kind \in SetKinds => Level(p, e, ch) = level
<1> DEFINE a == Action(c, kind, ch, level)
           e == Emit(c, kind, ch, level)
           w == p \o c.actions
           v == p \o e.actions
<1>1. /\ c \in Compilations(Seq(MainActions))
      /\ p \in Seq(MainActions) /\ c.actions \in Seq(MainActions)
  BY SoundFields DEF Mains
<1>2. a \in MainActions /\ a.kind = kind /\ a.ch = ch /\ a.level = level
  BY <1>1, ActionIs
<1>3. e.actions = Append(c.actions, a)
  BY <1>1, EmitFields
<1> HIDE DEF a, e
<1>4. w \in Seq(MainActions) /\ v = Append(w, a)
  BY <1>1, <1>2, <1>3, ConcatAppend, ConcatProperties
<1> HIDE DEF w, v
<1>5. /\ Follows(w, v, ch)
      /\ kind \notin SetKinds \cup {"ramp"} => \A x \in Channels : InForce(v)[x] = InForce(w)[x]
      /\ kind \in SetKinds /\ ch \in Channels => InForce(v)[ch] = level
  BY <1>2, <1>4, FollowsAppend
<1>6. kind \in SetKinds => ch \in Channels
  BY DEF Fits, SetKinds
<1> QED
  BY <1>5, <1>6 DEF Moved, Unmoved, Level, e, w, v

LEMMA MovedLevel ==
    ASSUME NEW p, NEW c, Sound(p, c), NEW kind \in SetKinds, NEW ch \in Channels,
           NEW level \in Levels
    PROVE LET e == EmitLevel(c, kind, ch, level) IN
          Moved(p, c, e, ch) /\ Level(p, e, ch) = level
<1> DEFINE b == Emit(c, kind, ch, level)
           e == EmitLevel(c, kind, ch, level)
<1>1. Fits(kind, ch, level) /\ kind # "assert" /\ kind # "checkpoint"
  BY DEF Fits, SetKinds, Kinds
<1>2. Sound(p, b) /\ Moved(p, c, b, ch) /\ Level(p, b, ch) = level
  BY <1>1, SoundStep, MovedStep
<1>3. e = Remember(b, ch, level)
  BY DEF EmitLevel
<1> HIDE DEF b, e
<1>4. e.actions = b.actions
  <2>1. b \in Compilations(Seq(MainActions))
    BY <1>2, SoundFields DEF Mains
  <2> QED
    BY <1>3, <2>1, RememberFields
<1> QED
  BY <1>2, <1>4 DEF Moved, Level, e

LEMMA SoundLevel ==
    ASSUME NEW p, NEW c, Sound(p, c), NEW kind \in SetKinds, NEW ch \in Channels,
           NEW level \in Levels
    PROVE LET e == EmitLevel(c, kind, ch, level) IN
          /\ Sound(p, e) /\ Keeps(c, e) /\ e.accepted = c.accepted
          /\ \A x \in Channels : e.context[x] = IF x = ch THEN level ELSE c.context[x]
          /\ e.actions = Append(c.actions, Action(c, kind, ch, level))
          /\ e.planned = Replanned(c.planned, kind, ch, level)
<1> DEFINE b == Emit(c, kind, ch, level)
           e == Remember(b, ch, level)
<1>1. Fits(kind, ch, level) /\ kind # "assert"
  BY DEF Fits, SetKinds, Kinds
<1>2. /\ Sound(p, b) /\ Keeps(c, b) /\ b.accepted = c.accepted
      /\ b.context = c.context /\ b.actions = Append(c.actions, Action(c, kind, ch, level))
      /\ b.planned = Replanned(c.planned, kind, ch, level)
  BY <1>1, SoundStep
<1>3. EmitLevel(c, kind, ch, level) = e
  BY DEF EmitLevel
<1> HIDE DEF b
<1>4. b \in Compilations(Seq(MainActions))
  BY <1>2, SoundFields DEF Mains
<1>5. Sound(p, e)
  BY <1>2, SoundRemember
<1>6. /\ e.accepted = b.accepted /\ e.actions = b.actions /\ e.planned = b.planned
      /\ \A x \in Channels : e.context[x] = IF x = ch THEN level ELSE b.context[x]
      /\ e.axisPath = b.axisPath /\ e.loopPath = b.loopPath
  BY <1>4, RememberFields
<1> HIDE DEF e
<1> QED
  BY <1>2, <1>3, <1>5, <1>6 DEF Keeps

LEMMA ResolvedIs ==
    ASSUME NEW p, NEW c, Sound(p, c), NEW node \in Operations, node.type \in SetKinds
    PROVE /\ node.ch \in Channels
          /\ Resolved(c, node) = Unset \/ Resolved(c, node) \in Levels
          /\ node.level = Ref => Resolved(c, node) = c.context[node.ch]
          /\ node.level # Ref => node.level \in Literals /\ Resolved(c, node) = node.level
<1>1. node.ch \in Channels /\ node.level \in Literals \cup {Ref}
  BY OperationForm DEF SetKinds, OperationTypes
<1>2. c.context[node.ch] \in Levels \cup {Unset}
  BY <1>1, SoundFields DEF Setpoints
<1> QED
  BY <1>1, <1>2, LevelsAreNumbers DEF Resolved

LEMMA OperationFits ==
    ASSUME NEW node \in Operations, node.type \notin SetKinds
    PROVE Fits(node.type, node.ch, Unset) /\ node.type # "assert"
BY OperationForm DEF Fits, SetKinds, OperationTypes, Kinds

LEMMA SoundOperation ==
    ASSUME NEW p, NEW c, Sound(p, c), NEW node \in Operations
    PROVE Sound(p, VisitOperation(node, c)) /\ Keeps(c, VisitOperation(node, c))
<1>1. CASE node.type \in SetKinds /\ Resolved(c, node) = Unset
  <2>1. VisitOperation(node, c) = Refuse(c)
    BY <1>1 DEF VisitOperation, SetKinds
  <2>2. c \in Compilations(Seq(MainActions))
    BY SoundFields DEF Mains
  <2> QED
    BY <2>1, <2>2, SoundRefuse, RefuseFields DEF Keeps
<1>2. CASE node.type \in SetKinds /\ Resolved(c, node) # Unset
  <2>1. VisitOperation(node, c) = EmitLevel(c, node.type, node.ch, Resolved(c, node))
    BY <1>2 DEF VisitOperation, SetKinds
  <2> DEFINE level == Resolved(c, node)
  <2>2. node.ch \in Channels /\ level \in Levels
    BY <1>2, ResolvedIs
  <2>3. VisitOperation(node, c) = EmitLevel(c, node.type, node.ch, level)
    BY <2>1
  <2> HIDE DEF level
  <2> QED
    BY <1>2, <2>2, <2>3, SoundLevel
<1>3. CASE node.type \notin SetKinds
  <2>1. VisitOperation(node, c) = Emit(c, node.type, node.ch, Unset)
    BY <1>3 DEF VisitOperation, SetKinds
  <2> QED
    BY <1>3, <2>1, OperationFits, SoundStep
<1> QED
  BY <1>1, <1>2, <1>3

LEMMA PassesIs ==
    ASSUME NEW node \in AllBlocks
    PROVE /\ Passes(node) \in Nat
          /\ node.type = "sweep" => IsAxis(node)
          /\ node.type = "repeat" => ~IsAxis(node) /\ Passes(node) = Count
          /\ node.type \notin {"repeat", "sweep"} /\ ~IsAxis(node) => Passes(node) = 1
          /\ IsAxis(node) =>
               /\ node.ch \in Channels /\ node.type \in {"sweep", "device"}
               /\ Passes(node) = Len(node.values) /\ Passes(node) >= 1
               /\ \A i \in 1..Passes(node) :
                    node.values[i] \in Levels /\ node.values[i] \in ToSet(node.values)
<1>1. BlockForm(node)
  BY AllBlocksForm
<1>2. node.type \in OperationTypes => node.values = <<>>
  BY <1>1, OperationForm DEF BlockForm
<1>3. ASSUME IsAxis(node)
      PROVE /\ node.ch \in Channels /\ node.type \in {"sweep", "device"}
            /\ Passes(node) = Len(node.values) /\ Passes(node) \in Nat /\ Passes(node) >= 1
            /\ \A i \in 1..Passes(node) :
                 node.values[i] \in Levels /\ node.values[i] \in ToSet(node.values)
  <2>1. node.values \in Axes
    BY <1>1, <1>3 DEF BlockForm, IsAxis
  <2>2. node.type \in {"sweep", "device"} /\ node.ch \in Channels
    BY <1>1, <1>2, <1>3 DEF BlockForm, IsAxis
  <2>3. Passes(node) = Len(node.values)
    BY <1>3 DEF Passes
  <2> QED
    BY <2>1, <2>2, <2>3, AxisValues
<1>4. ~IsAxis(node) => Passes(node) = IF node.type = "repeat" THEN Count ELSE 1
  BY DEF Passes
<1>5. node.type = "sweep" => IsAxis(node)
  BY <1>1, AxisValues DEF BlockForm, IsAxis
<1>6. node.type = "repeat" => ~IsAxis(node)
  BY <1>1 DEF BlockForm, IsAxis
<1> QED
  BY <1>3, <1>4, <1>5, <1>6, RecipeAssumption

LEMMA SoundEnterSweep ==
    ASSUME NEW p, NEW c, Sound(p, c), NEW node \in AllBlocks, node.type = "sweep",
           NEW generated, NEW i \in 1..Passes(node)
    PROVE LET e == EnterSweep(node, generated, c, i) IN
          /\ Sound(p, e) /\ e.accepted = c.accepted
          /\ Moved(p, c, e, node.ch)
          /\ generated => Level(p, e, node.ch) = node.values[i]
          /\ \A x \in Channels : e.context[x] = IF x = node.ch THEN node.values[i] ELSE c.context[x]
          /\ e.axisPath \cup e.loopPath \subseteq
               c.axisPath \cup c.loopPath \cup (IF generated THEN {node} ELSE {})
<1> DEFINE level == node.values[i]
           inner == Remember(c, node.ch, level)
           path == c.axisPath \cup {node}
           there == [inner EXCEPT !.loopPath = path]
           sent == Emit(there, "update", node.ch, level)
           e == [sent EXCEPT !.axisPath = path]
<1>1. node.ch \in Channels /\ level \in Levels
  BY PassesIs
<1>2. path \in SUBSET AllBlocks
  BY SoundFields
<1>3. EnterSweep(node, generated, c, i) = IF generated THEN e ELSE inner
  BY DEF EnterSweep
<1>4. c \in Compilations(Seq(MainActions))
  BY SoundFields DEF Mains
<1> HIDE DEF level, path
<1> DEFINE There(b) == \A x \in Channels :
                         b.context[x] = IF x = node.ch THEN level ELSE c.context[x]
<1>5. /\ Sound(p, inner) /\ inner.accepted = c.accepted /\ inner.actions = c.actions
      /\ There(inner)
      /\ inner.axisPath = c.axisPath /\ inner.loopPath = c.loopPath
  BY <1>1, <1>4, SoundRemember, RememberFields
<1> HIDE DEF inner
<1>6. inner \in Compilations(Seq(MainActions))
  BY <1>5, SoundFields DEF Mains
<1>7. /\ Sound(p, there) /\ there.accepted = c.accepted /\ there.actions = c.actions
      /\ There(there) /\ there.loopPath = path
  <2>1. Sound(p, there)
    BY <1>2, <1>5, SoundPaths
  <2>2. /\ there.accepted = inner.accepted /\ there.actions = inner.actions
        /\ there.context = inner.context
        /\ there.axisPath = inner.axisPath /\ there.loopPath = path
    BY <1>6, LoopPathFields
  <2> HIDE DEF there
  <2> QED
    BY <1>5, <2>1, <2>2
<1> HIDE DEF there
<1>8. Fits("update", node.ch, level)
  BY <1>1 DEF Fits, Kinds
<1>9. /\ Sound(p, sent) /\ sent.accepted = c.accepted
      /\ There(sent) /\ sent.loopPath = path
  BY <1>7, <1>8, SoundStep DEF Keeps
<1>10. Moved(p, there, sent, node.ch) /\ Level(p, sent, node.ch) = level
  BY <1>7, <1>8, MovedStep DEF SetKinds
<1> HIDE DEF sent
<1>11. sent \in Compilations(Seq(MainActions))
  BY <1>9, SoundFields DEF Mains
<1>12. /\ Sound(p, e) /\ e.accepted = c.accepted /\ e.actions = sent.actions
       /\ There(e) /\ e.loopPath = path /\ e.axisPath = path
  <2>1. Sound(p, e)
    BY <1>2, <1>9, SoundPaths
  <2>2. /\ e.accepted = sent.accepted /\ e.actions = sent.actions /\ e.context = sent.context
        /\ e.axisPath = path /\ e.loopPath = sent.loopPath
    BY <1>11, AxisPathFields
  <2> HIDE DEF e
  <2> QED
    BY <1>9, <2>1, <2>2
<1> HIDE DEF e, There
<1>13. Moved(p, c, e, node.ch) /\ Level(p, e, node.ch) = level
  BY <1>7, <1>10, <1>12 DEF Moved, Level
<1>14. Moved(p, c, inner, node.ch)
  BY <1>5, MovedBy
<1> QED
  <2>1. CASE generated
    BY <1>3, <1>12, <1>13, <2>1 DEF path, There, level
  <2>2. CASE ~generated
    BY <1>3, <1>5, <1>14, <2>2 DEF There, level
  <2> QED
    BY <2>1, <2>2

LEMMA SoundEnterModule ==
    ASSUME NEW p, NEW c, Sound(p, c), NEW node \in AllBlocks, node.type = "device", IsAxis(node),
           NEW i \in 1..Passes(node)
    PROVE LET e == EnterModule(node, c, i) IN
          /\ Sound(p, e) /\ e.accepted = c.accepted
          /\ Moved(p, c, e, node.ch)
          /\ IF Sent(node, i) THEN Level(p, e, node.ch) = node.values[i] ELSE Unmoved(p, c, e)
          /\ \A x \in Channels : e.context[x] = IF x = node.ch THEN node.values[i] ELSE c.context[x]
          /\ e.axisPath \cup e.loopPath \subseteq c.axisPath \cup c.loopPath \cup {node}
<1> DEFINE level == node.values[i]
           inner == Remember(c, node.ch, level)
           path == (IF c.loopPath = {} THEN c.axisPath ELSE c.loopPath) \cup {node}
           there == [inner EXCEPT !.loopPath = path]
           asserts == Continues(node) /\ i > 1
           sends == Sent(node, i)
           checked == EmitIf(asserts, there, "assert", node.ch, Unset)
           e == EmitIf(sends, checked, "update", node.ch, level)
<1>1. node.ch \in Channels /\ level \in Levels
  BY PassesIs
<1>2. path \in SUBSET AllBlocks
  BY SoundFields
<1>3. EnterModule(node, c, i) = e
  BY DEF EnterModule
<1>4. c \in Compilations(Seq(MainActions))
  BY SoundFields DEF Mains
<1> HIDE DEF level, path, asserts, sends
<1> DEFINE There(b) == \A x \in Channels :
                         b.context[x] = IF x = node.ch THEN level ELSE c.context[x]
<1>5. /\ Sound(p, inner) /\ inner.accepted = c.accepted /\ inner.actions = c.actions
      /\ There(inner)
      /\ inner.axisPath = c.axisPath /\ inner.loopPath = c.loopPath
  BY <1>1, <1>4, SoundRemember, RememberFields
<1> HIDE DEF inner
<1>6. inner \in Compilations(Seq(MainActions))
  BY <1>5, SoundFields DEF Mains
<1>7. /\ Sound(p, there) /\ there.accepted = c.accepted /\ there.actions = c.actions
      /\ There(there) /\ there.axisPath = c.axisPath /\ there.loopPath = path
  <2>1. Sound(p, there)
    BY <1>2, <1>5, SoundPaths
  <2>2. /\ there.accepted = inner.accepted /\ there.actions = inner.actions
        /\ there.context = inner.context
        /\ there.axisPath = inner.axisPath /\ there.loopPath = path
    BY <1>6, LoopPathFields
  <2> HIDE DEF there
  <2> QED
    BY <1>5, <2>1, <2>2
<1> HIDE DEF there
<1>8. Fits("update", node.ch, level) /\ Fits("assert", node.ch, Unset)
  BY <1>1 DEF Fits, Kinds, SetKinds
<1>9. /\ Sound(p, checked) /\ checked.accepted = c.accepted
      /\ There(checked) /\ checked.axisPath = c.axisPath /\ checked.loopPath = path
      /\ Moved(p, there, checked, node.ch) /\ Unmoved(p, there, checked)
  <2>1. CASE asserts
    <3> DEFINE b == Emit(there, "assert", node.ch, Unset)
    <3>1. checked = b
      BY <2>1 DEF EmitIf
    <3>2. Sound(p, b) /\ b.accepted = there.accepted /\ b.context = there.context /\ Keeps(there, b)
      BY <1>7, <1>8, SoundStep
    <3>3. Moved(p, there, b, node.ch) /\ Unmoved(p, there, b)
      BY <1>7, <1>8, MovedStep DEF SetKinds
    <3> HIDE DEF b
    <3> QED
      BY <1>7, <3>1, <3>2, <3>3 DEF Keeps
  <2>2. CASE ~asserts
    BY <1>7, <2>2, MovedBy DEF EmitIf
  <2> QED
    BY <2>1, <2>2
<1> HIDE DEF checked
<1>10. /\ Sound(p, e) /\ e.accepted = c.accepted
       /\ There(e) /\ e.axisPath = c.axisPath /\ e.loopPath = path
       /\ Moved(p, checked, e, node.ch)
       /\ IF sends THEN Level(p, e, node.ch) = level ELSE Unmoved(p, checked, e)
  <2>1. CASE sends
    <3> DEFINE b == Emit(checked, "update", node.ch, level)
    <3>1. e = b
      BY <2>1 DEF EmitIf
    <3>2. Sound(p, b) /\ b.accepted = checked.accepted /\ b.context = checked.context
          /\ Keeps(checked, b)
      BY <1>8, <1>9, SoundStep
    <3>3. Moved(p, checked, b, node.ch) /\ Level(p, b, node.ch) = level
      BY <1>8, <1>9, MovedStep DEF SetKinds
    <3> HIDE DEF b
    <3> QED
      BY <1>9, <2>1, <3>1, <3>2, <3>3 DEF Keeps
  <2>2. CASE ~sends
    BY <1>9, <2>2, MovedBy DEF EmitIf
  <2> QED
    BY <2>1, <2>2
<1> HIDE DEF e, There
<1>11. Moved(p, c, there, node.ch) /\ Unmoved(p, c, there)
  BY <1>7, MovedBy
<1>12. Moved(p, c, e, node.ch) /\ (~sends => Unmoved(p, c, e))
  BY <1>9, <1>10, <1>11, MovedThen
<1> QED
  BY <1>3, <1>10, <1>12 DEF path, There, level, sends

LEMMA SoundEnter ==
    ASSUME NEW p, NEW c, Sound(p, c), NEW node \in AllBlocks, NEW generated,
           NEW i \in 1..Passes(node)
    PROVE LET e == Enter(node, generated, c, i) IN
          Sound(p, e) /\ e.accepted = c.accepted
<1>1. CASE node.type = "sweep"
  BY <1>1, SoundEnterSweep DEF Enter
<1>2. CASE node.type = "device" /\ IsAxis(node)
  BY <1>2, SoundEnterModule DEF Enter
<1>3. CASE node.type # "sweep" /\ ~(node.type = "device" /\ IsAxis(node))
  BY <1>3 DEF Enter
<1> QED
  BY <1>1, <1>2, <1>3

LEMMA SoundModuleBegins ==
    ASSUME NEW p, NEW c, Sound(p, c), NEW node \in AllBlocks, node.type = "device",
           c.planned[node.ch] # Unset, ~(Continues(node) /\ node.level # Unset)
    PROVE LET e == ModuleBegins(node, c) IN
          /\ Sound(p, e) /\ Keeps(c, e) /\ Moved(p, c, e, node.ch)
          /\ \A x \in Channels : x # node.ch => e.context[x] = c.context[x]
          /\ ~IsAxis(node) /\ node.level = Unset => Unmoved(p, c, e) /\ e.context = c.context
          /\ IsAxis(node) /\ ~Continues(node) => Level(p, e, node.ch) = node.values[1]
<1> DEFINE level == IF IsAxis(node) THEN node.values[1] ELSE node.level
           planned == c.planned[node.ch]
           prepared == IF Continues(node) THEN Emit(c, "assert", node.ch, planned)
                       ELSE IF level = Unset THEN c
                       ELSE EmitLevel(c, "configure", node.ch, level)
           turns == node.policy \in {"on", "on_keep"}
           off == node.policy = "off"
           on == EmitIf(turns, prepared, "on", node.ch, Unset)
           e == EmitIf(off, on, "off", node.ch, Unset)
<1>1. ModuleBegins(node, c) = e
  BY DEF ModuleBegins
<1>2. node.ch \in Channels /\ node.level \in Literals \cup {Unset}
  BY AllBlocksForm DEF BlockForm
<1>3. level \in Levels \cup {Unset}
  <2>1. CASE IsAxis(node)
    <3>1. 1 \in 1..Passes(node)
      BY <2>1, PassesIs
    <3> QED
      BY <2>1, <3>1, PassesIs
  <2>2. CASE ~IsAxis(node)
    BY <1>2, <2>2, LevelsAreNumbers
  <2> QED
    BY <2>1, <2>2
<1>4. planned \in Levels
  BY <1>2, SoundFields DEF Setpoints
<1> HIDE DEF level
<1>5. Fits("assert", node.ch, planned) /\ Fits("on", node.ch, Unset) /\ Fits("off", node.ch, Unset)
  BY <1>2, <1>4 DEF Fits, Kinds, SetKinds
<1> DEFINE Elsewhere(b) == \A x \in Channels : x # node.ch => b.context[x] = c.context[x]
           Still(b) == Unmoved(p, c, b) /\ b.context = c.context
           Set(b) == Level(p, b, node.ch) = level
<1>6. /\ Sound(p, prepared) /\ Keeps(c, prepared) /\ Moved(p, c, prepared, node.ch)
      /\ Elsewhere(prepared)
      /\ level = Unset => Still(prepared)
      /\ level # Unset /\ ~Continues(node) => Set(prepared)
  <2>1. CASE Continues(node)
    <3> DEFINE b == Emit(c, "assert", node.ch, planned)
    <3>1. Sound(p, b) /\ b.context = c.context /\ Keeps(c, b)
      BY <1>5, SoundStep
    <3>2. Moved(p, c, b, node.ch) /\ Unmoved(p, c, b)
      BY <1>5, MovedStep DEF SetKinds
    <3> HIDE DEF b
    <3>3. prepared = b
      BY <2>1 DEF b
    <3> HIDE DEF prepared
    <3> QED
      BY <2>1, <3>1, <3>2, <3>3
  <2>2. CASE ~Continues(node) /\ level = Unset
    <3>1. prepared = c
      BY <2>2
    <3> QED
      BY <2>2, <3>1, MovedBy DEF Keeps
  <2>3. CASE ~Continues(node) /\ level # Unset
    <3> DEFINE b == EmitLevel(c, "configure", node.ch, level)
    <3>1. prepared = b
      BY <2>3
    <3>2. level \in Levels /\ "configure" \in SetKinds
      BY <1>3, <2>3 DEF SetKinds
    <3>3. /\ Sound(p, b) /\ Keeps(c, b)
          /\ \A x \in Channels : b.context[x] = IF x = node.ch THEN level ELSE c.context[x]
      BY <1>2, <3>2, SoundLevel
    <3>4. Moved(p, c, b, node.ch) /\ Level(p, b, node.ch) = level
      BY <1>2, <3>2, MovedLevel
    <3> HIDE DEF b, prepared
    <3> QED
      BY <2>3, <3>1, <3>3, <3>4
  <2> QED
    BY <2>1, <2>2, <2>3
<1> HIDE DEF prepared, turns, off
\* Switching the output leaves the level as it was.
<1>7. ASSUME NEW b, Sound(p, b), NEW kind \in {"on", "off"}, NEW test
      PROVE LET d == EmitIf(test, b, kind, node.ch, Unset) IN
            /\ Sound(p, d) /\ Keeps(b, d) /\ d.context = b.context
            /\ Moved(p, b, d, node.ch) /\ Unmoved(p, b, d)
  <2> DEFINE d == Emit(b, kind, node.ch, Unset)
  <2>1. Fits(kind, node.ch, Unset) /\ kind # "assert" /\ kind # "checkpoint"
        /\ kind \notin SetKinds \cup {"ramp"}
    BY <1>5, <1>7 DEF SetKinds
  <2>2. Sound(p, d) /\ Keeps(b, d) /\ d.context = b.context
    BY <1>7, <2>1, SoundStep
  <2>3. Moved(p, b, d, node.ch) /\ Unmoved(p, b, d)
    BY <1>7, <2>1, MovedStep
  <2> HIDE DEF d
  <2>4. CASE test
    BY <2>2, <2>3, <2>4 DEF EmitIf, d
  <2>5. CASE ~test
    BY <1>7, <2>5, MovedBy DEF EmitIf, Keeps
  <2> QED
    BY <2>4, <2>5
<1>8. /\ Sound(p, on) /\ Keeps(prepared, on) /\ on.context = prepared.context
      /\ Moved(p, prepared, on, node.ch) /\ Unmoved(p, prepared, on)
  BY <1>6, <1>7
<1> HIDE DEF on
<1>9. /\ Sound(p, e) /\ Keeps(on, e) /\ e.context = on.context
      /\ Moved(p, on, e, node.ch) /\ Unmoved(p, on, e)
  BY <1>7, <1>8
<1> HIDE DEF e
<1>10. /\ Sound(p, e) /\ Keeps(prepared, e) /\ e.context = prepared.context
       /\ Moved(p, prepared, e, node.ch) /\ Unmoved(p, prepared, e)
  BY <1>8, <1>9, KeepsTransitive, MovedThen
<1>11. Keeps(c, e) /\ Moved(p, c, e, node.ch)
  BY <1>6, <1>10, KeepsTransitive, MovedThen
<1>12. level = Unset => Unmoved(p, c, e) /\ e.context = c.context
  BY <1>6, <1>10, MovedThen
<1>13. level # Unset /\ ~Continues(node) => Level(p, e, node.ch) = level
  BY <1>2, <1>6, <1>10 DEF Unmoved
<1>14. ~IsAxis(node) /\ node.level = Unset => level = Unset
  BY DEF level
<1>15. IsAxis(node) => level = node.values[1] /\ level # Unset
  <2>1. ASSUME IsAxis(node) PROVE node.values[1] \in Levels
    <3>1. 1 \in 1..Passes(node)
      BY <2>1, PassesIs
    <3> QED
      BY <2>1, <3>1, PassesIs
  <2> QED
    BY <2>1, LevelsAreNumbers DEF level
<1> QED
  BY <1>1, <1>6, <1>10, <1>11, <1>12, <1>13, <1>14, <1>15

\* How the blocks of a set are visited.
SoundVisits(V, N) ==
    \A node \in N, p \in Seq(MainActions), c \in Given :
        Sound(p, c) => Sound(p, V[node][c]) /\ Keeps(c, V[node][c])

\* A visit begins with no actions, those before it being the prefix.
LEMMA SoundBare ==
    ASSUME NEW p, NEW c, Sound(p, c), NEW V, NEW N, SoundVisits(V, N), NEW node \in N
    PROVE LET q == p \o c.actions
              b == Bare(c)
              r == V[node][b]
          IN
          /\ b \in Given /\ Sound(q, b) /\ Sound(q, r) /\ Keeps(b, r)
          /\ q \in Seq(MainActions) /\ q \o b.actions = q
          /\ b.accepted = c.accepted /\ b.planned = c.planned /\ b.context = c.context
          /\ b.axisPath = c.axisPath /\ b.loopPath = c.loopPath
<1> DEFINE q == p \o c.actions
           b == Bare(c)
           r == V[node][b]
<1>1. c \in Compilations(Seq(MainActions)) /\ p \in Seq(MainActions) /\ c.actions \in Seq(MainActions)
  BY SoundFields DEF Mains
<1>2. /\ b \in Given /\ b.accepted = c.accepted /\ b.actions = <<>> /\ b.planned = c.planned
      /\ b.context = c.context /\ b.axisPath = c.axisPath /\ b.loopPath = c.loopPath
  BY <1>1, BareFields
<1>3. q \in Seq(MainActions) /\ q \o b.actions = q
  BY <1>1, <1>2, ConcatProperties, ConcatEmptySeq
<1>4. b \in Mains
  <2>1. <<>> \in Seq(MainActions)
    BY EmptySeq
  <2> QED
    BY <1>2, <2>1 DEF Mains, Given, Compilations
<1> HIDE DEF b
<1>5. Sound(q, b)
  BY <1>2, <1>3, <1>4 DEF Sound
<1>6. Sound(q, r) /\ Keeps(b, r)
  BY <1>2, <1>3, <1>5 DEF SoundVisits
<1> QED
  BY <1>2, <1>3, <1>5, <1>6 DEF b

\* The same actions, with another part of them as the prefix.
Rejoined(p, e, q, r) == p \o e.actions = q \o r.actions

LEMMA SoundAfter ==
    ASSUME NEW p, NEW c, Sound(p, c), NEW V, NEW N, SoundVisits(V, N), NEW node \in N
    PROVE LET q == p \o c.actions
              r == V[node][Bare(c)]
              e == After(c, r)
          IN
          /\ Sound(p, e) /\ Keeps(c, e) /\ Rejoined(p, e, q, r)
          /\ e.accepted = r.accepted /\ e.context = r.context
<1> DEFINE q == p \o c.actions
           b == Bare(c)
           r == V[node][b]
           e == After(c, r)
<1>1. c \in Compilations(Seq(MainActions)) /\ p \in Seq(MainActions) /\ c.actions \in Seq(MainActions)
  BY SoundFields DEF Mains
<1>2. /\ Sound(q, r) /\ Keeps(b, r) /\ b.accepted = c.accepted
      /\ b.axisPath = c.axisPath /\ b.loopPath = c.loopPath
  BY SoundBare
<1> HIDE DEF r
<1>3. r \in Compilations(Seq(MainActions)) /\ r.actions \in Seq(MainActions)
  BY <1>2, SoundFields DEF Mains
<1>4. c.actions \o r.actions \in Seq(MainActions)
  BY <1>1, <1>3, ConcatProperties
<1>5. /\ e \in Mains
      /\ e.accepted = r.accepted /\ e.actions = c.actions \o r.actions
      /\ e.planned = r.planned /\ e.context = r.context
      /\ e.axisPath = r.axisPath /\ e.loopPath = r.loopPath
  BY <1>3, <1>4, AfterFields DEF Mains
<1> HIDE DEF e
<1>6. p \o e.actions = q \o r.actions
  <2> DEFINE s == c.actions
             t == r.actions
  <2>1. s \in Seq(MainActions) /\ t \in Seq(MainActions)
    BY <1>1, <1>3
  <2> HIDE DEF s, t
  <2>2. p \o (s \o t) = (p \o s) \o t
    BY <1>1, <2>1, ConcatAssociative
  <2> QED
    BY <1>5, <2>2 DEF s, t
<1>7. Sound(p, e)
  BY <1>1, <1>2, <1>5, <1>6 DEF Sound
<1>8. Keeps(c, e)
  BY <1>2, <1>5 DEF Keeps
<1> QED
  BY <1>5, <1>6, <1>7, <1>8 DEF r, e, Rejoined

\* The visits of a list of blocks, one after the other.
LEMMA SoundAll ==
    ASSUME NEW p, NEW c, Sound(p, c), NEW V, NEW N, SoundVisits(V, N),
           NEW nodes \in Seq(N), NEW folded
    PROVE \E f :
        /\ Visits(f, V, nodes, folded, c)
        /\ \A i \in 0..Len(nodes) : Sound(p, f[i]) /\ Keeps(c, f[i])
        /\ VisitAll(V, nodes, folded, c) = f[Len(nodes)]
<1>0. Len(nodes) \in Nat
  BY LenProperties
<1>1. Len(nodes) \in Nat /\ \A i \in 1..Len(nodes) : nodes[i] \in N
  BY ElementOfSeq, LenProperties
<1>2. PICK f : Visits(f, V, nodes, folded, c) /\ VisitAll(V, nodes, folded, c) = f[Len(nodes)]
  BY <1>0, VisitAllDef
<1> DEFINE S == {i \in 0..Len(nodes) : Sound(p, f[i]) /\ Keeps(c, f[i])}
<1>3. 0 \in S
  BY <1>1, <1>2 DEF Keeps, Visits
<1>4. ASSUME NEW i \in 0..(Len(nodes) - 1), i \in S PROVE i + 1 \in S
  <2>1. i + 1 \in 1..Len(nodes) /\ (i + 1) - 1 = i /\ nodes[i + 1] \in N
    BY <1>1
  <2> DEFINE before == f[i]
             next == f[i + 1]
             node == nodes[i + 1]
             q == p \o before.actions
             b == Bare(before)
             r == V[node][b]
             after == After(before, r)
  <2>2. Sound(p, before) /\ Keeps(c, before)
    BY <1>4
  <2>3. next = before \/ next = after
    BY <1>2, <2>1 DEF VisitOne, Visits
  <2>4. Sound(p, after) /\ Keeps(before, after)
    <3>1. node \in N /\ q = p \o before.actions /\ b = Bare(before) /\ r = V[node][b]
          /\ after = After(before, r)
      BY <2>1
    <3> HIDE DEF before, node, q, b, r, after
    <3> QED
      BY <2>2, <3>1, SoundAfter
  <2> HIDE DEF before, after
  <2>5. Sound(p, next) /\ Keeps(c, next)
    BY <2>2, <2>3, <2>4, KeepsTransitive
  <2> QED
    BY <2>1, <2>5
<1> HIDE DEF S
<1>5. \A i \in 0..Len(nodes) : i \in S
  BY <1>1, <1>3, <1>4, Induction
<1> QED
  BY <1>2, <1>5 DEF S

LEMMA SoundVisitAll ==
    ASSUME NEW p, NEW c, Sound(p, c), NEW V, NEW N, SoundVisits(V, N),
           NEW nodes \in Seq(N), NEW folded
    PROVE LET e == VisitAll(V, nodes, folded, c) IN Sound(p, e) /\ Keeps(c, e)
<1>1. Len(nodes) \in Nat
  BY LenProperties
<1>2. PICK f :
        /\ Visits(f, V, nodes, folded, c)
        /\ \A i \in 0..Len(nodes) : Sound(p, f[i]) /\ Keeps(c, f[i])
        /\ VisitAll(V, nodes, folded, c) = f[Len(nodes)]
  BY SoundAll
<1> QED
  BY <1>1, <1>2

\* One pass of a loop or module; what its body remembers ends with it.
LEMMA SoundPass ==
    ASSUME NEW p, NEW c, Sound(p, c), NEW V, NEW N, SoundVisits(V, N),
           NEW node \in AllBlocks, node.children \in Seq(N), NEW generated,
           NEW i \in 1..Passes(node)
    PROVE LET inner == Enter(node, generated, c, i)
              v == VisitAll(V, node.children, Folded(node, generated), inner)
              e == VisitPass(V, node, generated, c, i)
          IN /\ Sound(p, inner) /\ inner.accepted = c.accepted
             /\ Sound(p, v) /\ Keeps(inner, v)
             /\ Sound(p, e) /\ Keeps(c, e)
             /\ e.accepted = v.accepted /\ e.actions = v.actions /\ e.context = c.context
<1> DEFINE inner == Enter(node, generated, c, i)
           children == node.children
           v == VisitAll(V, children, Folded(node, generated), inner)
           e == VisitPass(V, node, generated, c, i)
<1>1. Sound(p, inner) /\ inner.accepted = c.accepted
  BY SoundEnter
<1>2. e = Leave(v, c)
  BY DEF VisitPass
<1> HIDE DEF inner
<1>3. Sound(p, v) /\ Keeps(inner, v)
  <2>1. children \in Seq(N)
    OBVIOUS
  <2> HIDE DEF children
  <2> QED
    BY <1>1, <2>1, SoundVisitAll
<1> HIDE DEF v
<1>4. v \in Compilations(Seq(MainActions)) /\ c \in Compilations(Seq(MainActions))
  BY <1>3, SoundFields DEF Mains
<1>5. LET l == Leave(v, c) IN
        /\ l \in Compilations(Seq(MainActions))
        /\ l.accepted = v.accepted /\ l.actions = v.actions /\ l.planned = v.planned
        /\ l.context = c.context
        /\ l.axisPath = c.axisPath /\ l.loopPath = c.loopPath
  BY <1>4, LeaveFields
<1> HIDE DEF e
<1>6. Sound(p, e)
  BY <1>2, <1>3, <1>5, SoundElsewhere DEF Mains
<1>7. Keeps(c, e)
  BY <1>1, <1>2, <1>3, <1>5 DEF Keeps
<1> QED
  BY <1>1, <1>2, <1>3, <1>5, <1>6, <1>7 DEF inner, v, e, children

LEMMA SoundPasses ==
    ASSUME NEW p, NEW c, Sound(p, c), NEW V, NEW N, SoundVisits(V, N),
           NEW node \in AllBlocks, node.children \in Seq(N), NEW generated
    PROVE \E f :
        /\ PassesOf(f, V, node, generated, c)
        /\ \A i \in 0..Passes(node) :
             Sound(p, f[i]) /\ Keeps(c, f[i]) /\ f[i].context = c.context
        /\ VisitPasses(V, node, generated, c) = f[Passes(node)]
<1>1. Passes(node) \in Nat
  BY PassesIs
<1>2. PICK f : PassesOf(f, V, node, generated, c)
               /\ VisitPasses(V, node, generated, c) = f[Passes(node)]
  BY <1>1, VisitPassesDef
<1> DEFINE Good(b) == Sound(p, b) /\ Keeps(c, b) /\ b.context = c.context
           S == {i \in 0..Passes(node) : Good(f[i])}
<1>3. 0 \in S
  BY <1>1, <1>2 DEF Keeps, PassesOf
<1>4. ASSUME NEW i \in 0..(Passes(node) - 1), i \in S PROVE i + 1 \in S
  <2>1. i + 1 \in 1..Passes(node) /\ (i + 1) - 1 = i
    BY <1>1
  <2> DEFINE before == f[i]
             next == f[i + 1]
  <2>2. Good(before)
    BY <1>4
  <2>3. next = VisitPass(V, node, generated, before, i + 1)
    BY <1>2, <2>1 DEF PassesOf
  <2> HIDE DEF before, next
  <2>4. Sound(p, next) /\ Keeps(before, next) /\ next.context = before.context
    BY <2>1, <2>2, <2>3, SoundPass
  <2>5. Good(next)
    BY <2>2, <2>4, KeepsTransitive
  <2> QED
    BY <2>1, <2>5 DEF next
<1> HIDE DEF S
<1>5. \A i \in 0..Passes(node) : i \in S
  BY <1>1, <1>3, <1>4, Induction
<1> QED
  BY <1>2, <1>5 DEF S

LEMMA SoundVisitPasses ==
    ASSUME NEW p, NEW c, Sound(p, c), NEW V, NEW N, SoundVisits(V, N),
           NEW node \in AllBlocks, node.children \in Seq(N), NEW generated
    PROVE LET e == VisitPasses(V, node, generated, c) IN
          Sound(p, e) /\ Keeps(c, e) /\ e.context = c.context
<1>1. Passes(node) \in Nat
  BY PassesIs
<1>2. PICK f :
        /\ PassesOf(f, V, node, generated, c)
        /\ \A i \in 0..Passes(node) :
             Sound(p, f[i]) /\ Keeps(c, f[i]) /\ f[i].context = c.context
        /\ VisitPasses(V, node, generated, c) = f[Passes(node)]
  BY SoundPasses
<1> QED
  BY <1>1, <1>2

LEMMA SoundModule ==
    ASSUME NEW p, NEW c, Sound(p, c), NEW V, NEW N, SoundVisits(V, N),
           NEW node \in AllBlocks, node.children \in Seq(N), node.type = "device",
           c.planned[node.ch] # Unset, ~(Continues(node) /\ node.level # Unset)
    PROVE LET begun == ModuleBegins(node, c)
              run == VisitPasses(V, node, FALSE, begun)
              e == VisitModule(V, node, c)
          IN /\ Sound(p, begun) /\ Keeps(c, begun)
             /\ Sound(p, run) /\ Keeps(begun, run) /\ run.context = begun.context
             /\ Sound(p, e) /\ Keeps(c, e)
             /\ node.ch \in Channels /\ Fits("off", node.ch, Unset)
             /\ e = IF node.policy = "on" THEN Emit(run, "off", node.ch, Unset) ELSE run
<1> DEFINE begun == ModuleBegins(node, c)
           run == VisitPasses(V, node, FALSE, begun)
           e == VisitModule(V, node, c)
<1>1. Sound(p, begun) /\ Keeps(c, begun)
  BY SoundModuleBegins
<1>2. e = IF node.policy = "on" THEN Emit(run, "off", node.ch, Unset) ELSE run
  BY DEF VisitModule, EmitIf
<1> HIDE DEF begun
<1>3. Sound(p, run) /\ Keeps(begun, run) /\ run.context = begun.context
  BY <1>1, SoundVisitPasses
<1> HIDE DEF run, e
<1>4. node.ch \in Channels
  BY AllBlocksForm DEF BlockForm
<1>5. Fits("off", node.ch, Unset)
  BY <1>4 DEF Fits, Kinds, SetKinds
<1>6. Sound(p, e) /\ Keeps(run, e)
  <2>1. CASE node.policy = "on"
    BY <1>2, <1>3, <1>5, <2>1, SoundStep
  <2>2. CASE node.policy # "on"
    BY <1>2, <1>3, <2>2 DEF Keeps
  <2> QED
    BY <2>1, <2>2
<1>7. Keeps(c, e)
  BY <1>1, <1>3, <1>6 DEF Keeps
<1> QED
  BY <1>1, <1>2, <1>3, <1>4, <1>5, <1>6, <1>7 DEF begun, run, e

LEMMA SoundBlock ==
    ASSUME NEW p, NEW c, Sound(p, c), NEW V, NEW N, SoundVisits(V, N),
           NEW node \in AllBlocks, node.children \in Seq(N)
    PROVE LET e == VisitBlock(V, node, c) IN Sound(p, e) /\ Keeps(c, e)
<1> DEFINE e == VisitBlock(V, node, c)
<1>1. BlockForm(node)
  BY AllBlocksForm
<1>2. Sound(p, Refuse(c)) /\ Keeps(c, Refuse(c))
  <2>1. c \in Compilations(Seq(MainActions))
    BY SoundFields DEF Mains
  <2> QED
    BY <2>1, SoundRefuse, RefuseFields DEF Keeps
<1>3. CASE node.type = "repeat"
  <2>1. e = VisitPasses(V, node, FALSE, c)
    BY <1>3 DEF VisitBlock
  <2> QED
    BY <2>1, SoundVisitPasses
<1>4. CASE node.type = "sweep"
  <2>1. e = VisitPasses(V, node, Generates(node, c), c) \/ e = Refuse(c)
    BY <1>4 DEF VisitBlock, VisitSweep
  <2> QED
    BY <1>2, <2>1, SoundVisitPasses
<1>5. CASE node.type = "device"
  <2>1. e = VisitModule(V, node, c)
    BY <1>5 DEF VisitBlock
  <2>2. CASE c.planned[node.ch] = Unset \/ (Continues(node) /\ node.level # Unset)
    <3>1. e = Refuse(c)
      BY <2>1, <2>2 DEF VisitModule
    <3> QED
      BY <1>2, <3>1
  <2>3. CASE ~(c.planned[node.ch] = Unset \/ (Continues(node) /\ node.level # Unset))
    BY <1>5, <2>1, <2>3, SoundModule
  <2> QED
    BY <2>2, <2>3
<1>6. CASE node.type \in OperationTypes
  <2>1. e = VisitOperation(node, c)
    BY <1>6 DEF VisitBlock, OperationTypes
  <2>2. node \in Operations
    BY <1>1, <1>6 DEF BlockForm
  <2> QED
    BY <2>1, <2>2, SoundOperation
<1> QED
  BY <1>1, <1>3, <1>4, <1>5, <1>6 DEF BlockForm

LEMMA VisitIs ==
    ASSUME NEW d \in 1..Depth, NEW node \in AllBlocks, NEW c \in Given
    PROVE Visit[d][node][c] = VisitBlock(Visit[d - 1], node, c)
<1> DEFINE V == Visit[d - 1]
           F(n) == [x \in Given |-> VisitBlock(V, n, x)]
           W == Visit[d]
<1>1. W = [n \in AllBlocks |-> F(n)]
  BY VisitDef
<1> HIDE DEF V, W, F
<1>2. W[node] = F(node)
  BY <1>1
<1>3. F(node)[c] = VisitBlock(V, node, c)
  BY DEF F
<1> QED
  BY <1>2, <1>3 DEF V, W

\* However deep a recipe is.
LEMMA SoundVisit == \A d \in 0..Depth : SoundVisits(Visit[d], Blocks[d])
<1> DEFINE S == {d \in 0..Depth : SoundVisits(Visit[d], Blocks[d])}
<1>1. 0 \in S
  BY DepthIsNat, BlocksDef DEF SoundVisits
<1>2. ASSUME NEW d \in 0..(Depth - 1), d \in S PROVE d + 1 \in S
  <2>1. d + 1 \in 1..Depth /\ (d + 1) - 1 = d
    BY DepthIsNat
  <2>2. ASSUME NEW node \in Blocks[d + 1], NEW p \in Seq(MainActions), NEW c \in Given, Sound(p, c)
        PROVE Sound(p, Visit[d + 1][node][c]) /\ Keeps(c, Visit[d + 1][node][c])
    <3>1. node \in AllBlocks /\ node.children \in Seq(Blocks[d])
      BY <2>1, BlocksForm, BlocksAreAll
    <3>2. Visit[d + 1][node][c] = VisitBlock(Visit[d], node, c)
      BY <2>1, <2>2, <3>1, VisitIs
    <3>3. SoundVisits(Visit[d], Blocks[d])
      BY <1>2
    <3> QED
      BY <2>2, <3>1, <3>2, <3>3, SoundBlock
  <2> QED
    BY <2>1, <2>2 DEF SoundVisits
<1> HIDE DEF S
<1>3. \A d \in 0..Depth : d \in S
  BY <1>1, <1>2, DepthIsNat, Induction
<1> QED
  BY <1>3 DEF S

LEMMA FreshIsSound == Sound(<<>>, Fresh)
<1>1. <<>> \in Seq(MainActions) /\ <<>> \o <<>> = <<>>
  BY EmptySeq, ConcatEmptySeq
<1>2. Fresh \in Mains
  BY <1>1 DEF Fresh, Mains, Compilations, Setpoints
<1>3. Fresh.actions = <<>> /\ \A ch \in Channels : Fresh.planned[ch] = Unset
  BY DEF Fresh
<1> QED
  BY <1>1, <1>2, <1>3, EmptySeq DEF Sound, Tracks, Backed

-----------------------------------------------------------------------------
(* An accepted visit stores the points that were budgeted for the block.   *)

\* The points of a list of blocks, when those of each are given by P.
PointsBy(P, nodes) == Sum([i \in DOMAIN nodes |-> P[nodes[i]]])
Adds(p, c, e, n) == Stored(p \o e.actions) = Stored(p \o c.actions) + n

Budgeted(V, N, P) ==
    /\ \A node \in N : P[node] \in Nat /\ (node.type = "update" => P[node] = 0)
    /\ \A node \in N, p \in Seq(MainActions), c \in Given :
         Sound(p, c) /\ V[node][c].accepted => Adds(p, c, V[node][c], P[node])

LEMMA SoundStored ==
    ASSUME NEW p, NEW c, Sound(p, c)
    PROVE Stored(p \o c.actions) \in Nat /\ p \o c.actions \in Seq(MainActions)
<1>1. p \o c.actions \in Seq(MainActions)
  BY SoundFields, ConcatProperties
<1> QED
  BY <1>1, StoredIsNat

LEMMA MovedAdds ==
    ASSUME NEW p, NEW c, NEW e, NEW ch, Moved(p, c, e, ch), Sound(p, c)
    PROVE Adds(p, c, e, 0)
BY SoundStored DEF Adds, Moved, Follows

LEMMA PointsIs ==
    ASSUME NEW d \in 1..Depth, NEW node \in AllBlocks
    PROVE Points[d][node] =
            IF node.type = "checkpoint" THEN 1
            ELSE Multiplier(node) * PointsBy(Points[d - 1], node.children)
BY PointsDef DEF PointsBy

LEMMA PointsByIs ==
    ASSUME NEW P, NEW N, \A node \in N : P[node] \in Nat, NEW nodes \in Seq(N)
    PROVE \E g :
        /\ g[0] = 0 /\ PointsBy(P, nodes) = g[Len(nodes)]
        /\ \A i \in 1..Len(nodes) : g[i] = g[i - 1] + P[nodes[i]]
        /\ \A i \in 0..Len(nodes) : g[i] \in Nat
<1> DEFINE numbers == [i \in DOMAIN nodes |-> P[nodes[i]]]
<1>1. Len(nodes) \in Nat /\ DOMAIN nodes = 1..Len(nodes) /\ \A i \in 1..Len(nodes) : nodes[i] \in N
  BY LenProperties, ElementOfSeq
<1>2. /\ Len(numbers) = Len(nodes)
      /\ \A i \in 1..Len(nodes) : numbers[i] = P[nodes[i]] /\ P[nodes[i]] \in Nat
  BY <1>1
<1>3. PointsBy(P, nodes) = Sum(numbers)
  BY DEF PointsBy
<1> HIDE DEF numbers
<1>4. PICK g : Sums(g, numbers) /\ Sum(numbers) = g[Len(numbers)]
  BY <1>1, <1>2, SumDef
<1>5. /\ g[0] = 0 /\ PointsBy(P, nodes) = g[Len(nodes)]
      /\ \A i \in 1..Len(nodes) : g[i] = g[i - 1] + P[nodes[i]]
  BY <1>2, <1>3, <1>4 DEF Sums
<1> DEFINE S == {i \in 0..Len(nodes) : g[i] \in Nat}
<1>6. 0 \in S
  BY <1>1, <1>5
<1>7. ASSUME NEW i \in 0..(Len(nodes) - 1), i \in S PROVE i + 1 \in S
  <2>1. i + 1 \in 1..Len(nodes) /\ (i + 1) - 1 = i
    BY <1>1
  <2>2. g[i + 1] = g[i] + P[nodes[i + 1]] /\ P[nodes[i + 1]] \in Nat
    BY <1>2, <1>5, <2>1
  <2> QED
    BY <1>7, <2>1, <2>2
<1> HIDE DEF S
<1>8. \A i \in 0..Len(nodes) : i \in S
  BY <1>1, <1>6, <1>7, Induction
<1> QED
  BY <1>5, <1>8 DEF S

LEMMA PointsByIsNat ==
    ASSUME NEW P, NEW N, \A node \in N : P[node] \in Nat, NEW nodes \in Seq(N)
    PROVE PointsBy(P, nodes) \in Nat /\ (nodes = <<>> => PointsBy(P, nodes) = 0)
<1>1. Len(nodes) \in Nat /\ (nodes = <<>> => Len(nodes) = 0)
  BY LenProperties
<1>2. PICK g :
        /\ g[0] = 0 /\ PointsBy(P, nodes) = g[Len(nodes)]
        /\ \A i \in 1..Len(nodes) : g[i] = g[i - 1] + P[nodes[i]]
        /\ \A i \in 0..Len(nodes) : g[i] \in Nat
  BY PointsByIs
<1> QED
  BY <1>1, <1>2

LEMMA BudgetOne ==
    ASSUME NEW p, NEW c, Sound(p, c), NEW V, NEW N, SoundVisits(V, N),
           NEW P, Budgeted(V, N, P), NEW node \in N
    PROVE LET e == After(c, V[node][Bare(c)]) IN e.accepted => Adds(p, c, e, P[node])
<1> DEFINE q == p \o c.actions
           b == Bare(c)
           r == V[node][b]
           e == After(c, r)
<1>1. b \in Given /\ Sound(q, b) /\ q \in Seq(MainActions) /\ q \o b.actions = q
  BY SoundBare
<1>2. Rejoined(p, e, q, r)
  BY SoundAfter
<1>3. e.accepted = r.accepted
  BY SoundAfter
<1> HIDE DEF q, b, e
<1>4. r.accepted => Adds(q, b, r, P[node])
  BY <1>1 DEF Budgeted
<1>5. r.accepted => Stored(p \o e.actions) = Stored(q) + P[node]
  BY <1>1, <1>2, <1>4 DEF Adds, Rejoined
<1> QED
  BY <1>3, <1>5 DEF Adds, q, b, e

\* What a sweep folds into its own updates has no points.
LEMMA BudgetAll ==
    ASSUME NEW p, NEW c, Sound(p, c), NEW V, NEW N, SoundVisits(V, N),
           NEW P, Budgeted(V, N, P), NEW nodes \in Seq(N),
           NEW folded, \A node \in folded : P[node] = 0
    PROVE LET e == VisitAll(V, nodes, folded, c) IN
          PointsBy(P, nodes) \in Nat /\ (e.accepted => Adds(p, c, e, PointsBy(P, nodes)))
<1>1. Len(nodes) \in Nat /\ \A i \in 1..Len(nodes) : nodes[i] \in N
  BY LenProperties, ElementOfSeq
<1>2. PICK f :
        /\ Visits(f, V, nodes, folded, c)
        /\ \A i \in 0..Len(nodes) : Sound(p, f[i]) /\ Keeps(c, f[i])
        /\ VisitAll(V, nodes, folded, c) = f[Len(nodes)]
  BY SoundAll
<1>3. PICK g :
        /\ g[0] = 0 /\ PointsBy(P, nodes) = g[Len(nodes)]
        /\ \A i \in 1..Len(nodes) : g[i] = g[i - 1] + P[nodes[i]]
        /\ \A i \in 0..Len(nodes) : g[i] \in Nat
  BY PointsByIs DEF Budgeted
<1> DEFINE S == {i \in 0..Len(nodes) : f[i].accepted => Adds(p, c, f[i], g[i])}
<1>4. 0 \in S
  BY <1>1, <1>2, <1>3, SoundStored DEF Visits, Adds
<1>5. ASSUME NEW i \in 0..(Len(nodes) - 1), i \in S PROVE i + 1 \in S
  <2>1. i + 1 \in 1..Len(nodes) /\ i \in 0..Len(nodes) /\ (i + 1) - 1 = i /\ nodes[i + 1] \in N
    BY <1>1
  <2> DEFINE before == f[i]
             node == nodes[i + 1]
             next == f[i + 1]
             after == After(before, V[node][Bare(before)])
  <2>2. next = VisitOne(V, node, folded, before)
    BY <1>2, <2>1 DEF Visits
  <2>3. Sound(p, before) /\ node \in N
    BY <1>2, <2>1
  <2>4. before.accepted => Adds(p, c, before, g[i])
    BY <1>5
  <2>5. g[i + 1] = g[i] + P[node] /\ g[i] \in Nat /\ P[node] \in Nat
    BY <1>3, <2>1 DEF Budgeted
  <2> HIDE DEF before, next, node
  <2>6. after.accepted => Adds(p, before, after, P[node])
    BY <2>3, BudgetOne
  <2>7. SUFFICES ASSUME next.accepted PROVE Adds(p, c, next, g[i + 1])
    BY <2>1 DEF next
  <2>8. CASE before.accepted /\ node \notin folded
    <3>1. next = after
      BY <2>2, <2>8 DEF VisitOne
    <3>2. Adds(p, before, next, P[node])
      BY <2>6, <2>7, <3>1
    <3>3. Stored(p \o c.actions) \in Nat
      BY SoundStored
    <3> HIDE DEF after
    <3> QED
      BY <2>4, <2>5, <2>8, <3>2, <3>3 DEF Adds
  <2>9. CASE ~(before.accepted /\ node \notin folded)
    <3>1. next = before
      BY <2>2, <2>9 DEF VisitOne
    <3>2. node \in folded
      BY <2>7, <2>9, <3>1
    <3>3. P[node] = 0
      BY <3>2
    <3> QED
      BY <2>4, <2>5, <2>7, <3>1, <3>3
  <2> QED
    BY <2>8, <2>9
<1> HIDE DEF S
<1>6. \A i \in 0..Len(nodes) : i \in S
  BY <1>1, <1>4, <1>5, Induction
<1>7. Len(nodes) \in S
  BY <1>1, <1>6
<1> QED
  BY <1>1, <1>2, <1>3, <1>7 DEF S

LEMMA MovedEnter ==
    ASSUME NEW p, NEW c, Sound(p, c), NEW node \in AllBlocks, NEW generated,
           NEW i \in 1..Passes(node)
    PROVE Moved(p, c, Enter(node, generated, c, i), node.ch)
<1>1. CASE node.type = "sweep"
  BY <1>1, SoundEnterSweep DEF Enter
<1>2. CASE node.type = "device" /\ IsAxis(node)
  BY <1>2, SoundEnterModule DEF Enter
<1>3. CASE node.type # "sweep" /\ ~(node.type = "device" /\ IsAxis(node))
  BY <1>3, FollowsSelf DEF Enter, Moved
<1> QED
  BY <1>1, <1>2, <1>3

LEMMA BudgetPass ==
    ASSUME NEW p, NEW c, Sound(p, c), NEW V, NEW N, SoundVisits(V, N),
           NEW P, Budgeted(V, N, P), NEW node \in AllBlocks, node.children \in Seq(N),
           NEW generated, NEW i \in 1..Passes(node)
    PROVE LET e == VisitPass(V, node, generated, c, i) IN
          e.accepted => Adds(p, c, e, PointsBy(P, node.children))
<1> DEFINE children == node.children
           folded == Folded(node, generated)
           inner == Enter(node, generated, c, i)
           v == VisitAll(V, children, folded, inner)
           e == VisitPass(V, node, generated, c, i)
<1>1. Sound(p, inner) /\ e.accepted = v.accepted /\ e.actions = v.actions
  BY SoundPass
<1>2. Adds(p, c, inner, 0)
  BY MovedEnter, MovedAdds
<1>3. \A child \in folded : P[child] = 0
  <2>1. \A child \in folded : child \in N /\ child.type = "update"
    BY InSeq DEF Folded
  <2> QED
    BY <2>1 DEF Budgeted
<1>4. children \in Seq(N)
  OBVIOUS
<1> HIDE DEF inner, folded, children
<1>5. /\ PointsBy(P, children) \in Nat
      /\ v.accepted => Adds(p, inner, v, PointsBy(P, children))
  BY <1>1, <1>3, <1>4, BudgetAll
<1>6. Stored(p \o c.actions) \in Nat
  BY SoundStored
<1> HIDE DEF v, e
<1>7. e.accepted => Adds(p, c, e, PointsBy(P, children))
  BY <1>1, <1>2, <1>5, <1>6 DEF Adds
<1> QED
  BY <1>7 DEF e, children

LEMMA OneMore == ASSUME NEW i \in Nat, NEW n \in Nat PROVE (i + 1) * n = i * n + n /\ i * n \in Nat
OBVIOUS

LEMMA BudgetPasses ==
    ASSUME NEW p, NEW c, Sound(p, c), NEW V, NEW N, SoundVisits(V, N),
           NEW P, Budgeted(V, N, P), NEW node \in AllBlocks, node.children \in Seq(N),
           NEW generated
    PROVE LET e == VisitPasses(V, node, generated, c) IN
          e.accepted => Adds(p, c, e, Passes(node) * PointsBy(P, node.children))
<1> DEFINE n == PointsBy(P, node.children)
<1>1. Passes(node) \in Nat
  BY PassesIs
<1>2. n \in Nat
  BY PointsByIsNat DEF Budgeted
<1>3. PICK f :
        /\ PassesOf(f, V, node, generated, c)
        /\ \A i \in 0..Passes(node) :
             Sound(p, f[i]) /\ Keeps(c, f[i]) /\ f[i].context = c.context
        /\ VisitPasses(V, node, generated, c) = f[Passes(node)]
  BY SoundPasses
<1>4. Stored(p \o c.actions) \in Nat
  BY SoundStored
<1> HIDE DEF n
<1> DEFINE S == {i \in 0..Passes(node) : f[i].accepted => Adds(p, c, f[i], i * n)}
<1>5. 0 \in S
  <2>1. f[0] = c /\ 0 * n = 0
    BY <1>2, <1>3 DEF PassesOf
  <2> QED
    BY <1>1, <1>4, <2>1 DEF Adds
<1>6. ASSUME NEW i \in 0..(Passes(node) - 1), i \in S PROVE i + 1 \in S
  <2>1. i + 1 \in 1..Passes(node) /\ (i + 1) - 1 = i /\ i \in Nat
    BY <1>1
  <2> DEFINE before == f[i]
             next == f[i + 1]
             k == i + 1
  <2>2. Sound(p, before) /\ next = VisitPass(V, node, generated, before, k)
    <3>1. next = VisitPass(V, node, generated, before, k)
      BY <1>3, <2>1 DEF PassesOf
    <3>2. i \in 0..Passes(node)
      BY <1>1
    <3> QED
      BY <1>3, <3>1, <3>2
  <2>3. before.accepted => Adds(p, c, before, i * n)
    BY <1>6
  <2>4. k \in 1..Passes(node)
    BY <2>1
  <2> HIDE DEF before, next, k
  <2>5. next.accepted => Adds(p, before, next, n)
    BY <2>2, <2>4, BudgetPass DEF n
  <2>6. next.accepted => before.accepted
    BY <2>2, <2>4, SoundPass DEF Keeps
  <2>7. i * n \in Nat /\ (i + 1) * n = i * n + n
    BY <1>2, <2>1, OneMore
  <2>8. next.accepted => Adds(p, c, next, (i + 1) * n)
    <3> DEFINE x == i * n
               y == (i + 1) * n
    <3>1. x \in Nat /\ y = x + n /\ (before.accepted => Adds(p, c, before, x))
      BY <2>3, <2>7
    <3> HIDE DEF x, y
    <3>2. next.accepted => Adds(p, c, next, y)
      BY <1>2, <1>4, <2>5, <2>6, <3>1 DEF Adds
    <3> QED
      BY <3>2 DEF y
  <2> QED
    BY <2>1, <2>8 DEF next
<1> HIDE DEF S
<1>7. \A i \in 0..Passes(node) : i \in S
  BY <1>1, <1>5, <1>6, Induction
<1>8. Passes(node) \in S
  BY <1>1, <1>7
<1> QED
  BY <1>3, <1>8 DEF S, n

LEMMA BudgetOperation ==
    ASSUME NEW p, NEW c, Sound(p, c), NEW node \in Operations
    PROVE LET e == VisitOperation(node, c) IN
          e.accepted => Adds(p, c, e, IF node.type = "checkpoint" THEN 1 ELSE 0)
<1> DEFINE e == VisitOperation(node, c)
<1>1. c \in Compilations(Seq(MainActions)) /\ c \in Mains /\ p \in Seq(MainActions)
      /\ c.actions \in Seq(MainActions)
  BY SoundFields DEF Mains
<1>2. CASE node.type \in SetKinds /\ Resolved(c, node) = Unset
  <2>1. e = Refuse(c)
    BY <1>2 DEF VisitOperation, SetKinds
  <2>2. ~e.accepted
    BY <1>1, <2>1, RefuseFields
  <2> QED
    BY <2>2
<1>3. CASE node.type \in SetKinds /\ Resolved(c, node) # Unset
  <2> DEFINE level == Resolved(c, node)
  <2>1. e = EmitLevel(c, node.type, node.ch, level) /\ level \in Levels /\ node.ch \in Channels
    BY <1>3, ResolvedIs DEF VisitOperation, SetKinds
  <2> HIDE DEF level, e
  <2>2. Moved(p, c, e, node.ch)
    BY <1>3, <2>1, MovedLevel
  <2>3. Adds(p, c, e, 0)
    BY <2>2, MovedAdds
  <2> QED
    BY <1>3, <2>3 DEF SetKinds, e
<1>4. CASE node.type \notin SetKinds
  <2>1. e = Emit(c, node.type, node.ch, Unset)
    BY <1>4 DEF VisitOperation, SetKinds
  <2>2. Fits(node.type, node.ch, Unset)
    BY <1>4, OperationFits
  <2> DEFINE a == Action(c, node.type, node.ch, Unset)
             w == p \o c.actions
  <2>3. e.actions = Append(c.actions, a)
    BY <1>1, <2>1, EmitFields
  <2>4. a \in MainActions /\ a.kind = node.type
    BY <1>1, <2>2, ActionIs
  <2> HIDE DEF a, e
  <2>5. p \o e.actions = Append(w, a)
    BY <1>1, <2>3, <2>4, ConcatAppend
  <2>6. w \in Seq(MainActions)
    BY SoundStored
  <2> HIDE DEF w
  <2>7. Stored(p \o e.actions) = Stored(w) + Weight(a)
    BY <2>4, <2>5, <2>6, StoredOne
  <2> QED
    BY <2>4, <2>7 DEF Adds, Weight, w, e
<1> QED
  BY <1>2, <1>3, <1>4

LEMMA BudgetBlock ==
    ASSUME NEW p, NEW c, Sound(p, c), NEW V, NEW N, SoundVisits(V, N),
           NEW P, Budgeted(V, N, P), NEW node \in AllBlocks, node.children \in Seq(N),
           node.type \notin OperationTypes
    PROVE LET e == VisitBlock(V, node, c) IN
          e.accepted => Adds(p, c, e, Passes(node) * PointsBy(P, node.children))
<1> DEFINE e == VisitBlock(V, node, c)
           n == Passes(node) * PointsBy(P, node.children)
<1>1. BlockForm(node)
  BY AllBlocksForm
<1>2. ~Refuse(c).accepted
  <2>1. c \in Compilations(Seq(MainActions))
    BY SoundFields DEF Mains
  <2> QED
    BY <2>1, RefuseFields
<1>3. CASE node.type = "repeat"
  <2>1. e = VisitPasses(V, node, FALSE, c)
    BY <1>3 DEF VisitBlock
  <2> QED
    BY <2>1, BudgetPasses
<1>4. CASE node.type = "sweep"
  <2>1. e = VisitPasses(V, node, Generates(node, c), c) \/ e = Refuse(c)
    BY <1>4 DEF VisitBlock, VisitSweep
  <2> QED
    BY <1>2, <2>1, BudgetPasses
<1>5. CASE node.type = "device"
  <2>1. e = VisitModule(V, node, c)
    BY <1>5 DEF VisitBlock
  <2>2. CASE c.planned[node.ch] = Unset \/ (Continues(node) /\ node.level # Unset)
    <3>1. e = Refuse(c)
      BY <2>1, <2>2 DEF VisitModule
    <3> QED
      BY <1>2, <3>1
  <2>3. CASE ~(c.planned[node.ch] = Unset \/ (Continues(node) /\ node.level # Unset))
    <3> DEFINE begun == ModuleBegins(node, c)
               run == VisitPasses(V, node, FALSE, begun)
               off == Emit(run, "off", node.ch, Unset)
    <3>1. /\ Sound(p, begun) /\ Sound(p, run) /\ Fits("off", node.ch, Unset)
          /\ e = IF node.policy = "on" THEN off ELSE run
      BY <1>5, <2>1, <2>3, SoundModule
    <3>2. Moved(p, c, begun, node.ch)
      BY <1>5, <2>3, SoundModuleBegins
    <3>3. Adds(p, c, begun, 0)
      BY <3>2, MovedAdds
    <3>4. run.accepted => Adds(p, begun, run, n)
      <4> HIDE DEF begun
      <4> QED
        BY <3>1, BudgetPasses
    <3>5. Stored(p \o c.actions) \in Nat /\ Stored(p \o begun.actions) \in Nat
          /\ Stored(p \o run.actions) \in Nat
      <4> HIDE DEF begun, run
      <4> QED
        BY <3>1, SoundStored
    <3> HIDE DEF begun, run
    <3>6. Adds(p, run, off, 0) /\ Keeps(run, off)
      <4>1. Moved(p, run, off, node.ch) /\ Keeps(run, off)
        BY <3>1, MovedStep, SoundStep
      <4> QED
        BY <3>1, <4>1, MovedAdds
    <3> HIDE DEF off, e, n
    <3>7. e.accepted => Adds(p, c, e, n)
      <4>1. CASE node.policy = "on"
        BY <3>1, <3>3, <3>4, <3>5, <3>6, <4>1 DEF Adds, Keeps
      <4>2. CASE node.policy # "on"
        BY <3>1, <3>3, <3>4, <3>5, <4>2 DEF Adds
      <4> QED
        BY <4>1, <4>2
    <3> QED
      BY <3>7 DEF e, n
  <2> QED
    BY <2>2, <2>3
<1> QED
  BY <1>1, <1>3, <1>4, <1>5 DEF BlockForm

LEMMA MultiplierIs ==
    ASSUME NEW node \in AllBlocks
    PROVE Multiplier(node) = Passes(node) /\ Multiplier(node) \in Nat
<1>1. Passes(node) \in Nat
  BY PassesIs
<1>2. CASE IsAxis(node)
  <2>1. node.type # "repeat" /\ Passes(node) = Len(node.values)
    BY <1>2, PassesIs
  <2> QED
    BY <1>1, <1>2, <2>1 DEF Multiplier
<1>3. CASE ~IsAxis(node)
  BY <1>3, RecipeAssumption DEF Multiplier, Passes
<1> QED
  BY <1>1, <1>2, <1>3

LEMMA PointsOfOperations ==
    ASSUME NEW d \in 1..Depth, NEW node \in Operations
    PROVE Points[d][node] = IF node.type = "checkpoint" THEN 1 ELSE 0
<1>1. node \in AllBlocks /\ node.children = <<>>
  <2>1. node \in Blocks[d]
    BY BlocksDef
  <2>2. d \in 0..Depth
    BY DepthIsNat
  <2> QED
    BY <2>1, <2>2, BlocksAreAll, OperationForm
<1>2. PointsBy(Points[d - 1], <<>>) = 0
  <2> DEFINE P == Points[d - 1]
  <2>1. <<>> \in Seq({}) /\ \A n \in {} : P[n] \in Nat
    BY EmptySeq
  <2> HIDE DEF P
  <2>2. PointsBy(P, <<>>) = 0
    BY <2>1, PointsByIsNat
  <2> QED
    BY <2>2 DEF P
<1>3. Multiplier(node) \in Nat
  BY <1>1, MultiplierIs
<1>4. Points[d][node] =
        IF node.type = "checkpoint" THEN 1
        ELSE Multiplier(node) * PointsBy(Points[d - 1], node.children)
  BY <1>1, PointsIs
<1>5. Points[d][node] = IF node.type = "checkpoint" THEN 1 ELSE Multiplier(node) * 0
  BY <1>1, <1>2, <1>4
<1> QED
  BY <1>3, <1>5

\* However deep a recipe is, an accepted visit stores what was counted.
LEMMA BudgetVisit == \A d \in 0..Depth : Budgeted(Visit[d], Blocks[d], Points[d])
<1> DEFINE S == {d \in 0..Depth : Budgeted(Visit[d], Blocks[d], Points[d])}
<1>1. 0 \in S
  BY DepthIsNat, BlocksDef DEF Budgeted
<1>2. ASSUME NEW d \in 0..(Depth - 1), d \in S PROVE d + 1 \in S
  <2> DEFINE k == d + 1
             V == Visit[d]
             N == Blocks[d]
             P == Points[d]
  <2>1. k \in 1..Depth /\ k - 1 = d /\ d \in 0..Depth
    BY DepthIsNat
  <2>2. Budgeted(V, N, P) /\ SoundVisits(V, N)
    BY <1>2, <2>1, SoundVisit
  <2> HIDE DEF k
  <2>3. ASSUME NEW node \in Blocks[k], NEW p \in Seq(MainActions), NEW c \in Given, Sound(p, c)
        PROVE /\ Points[k][node] \in Nat /\ (node.type = "update" => Points[k][node] = 0)
              /\ Visit[k][node][c].accepted => Adds(p, c, Visit[k][node][c], Points[k][node])
    <3>1. node \in AllBlocks /\ node.children \in Seq(N) /\ BlockForm(node)
      BY <2>1, BlocksForm, BlocksAreAll
    <3>2. Visit[k][node][c] = VisitBlock(V, node, c)
      BY <2>1, <2>3, <3>1, VisitIs
    <3>3. CASE node.type \in OperationTypes
      <4>1. node \in Operations
        BY <3>1, <3>3 DEF BlockForm
      <4>2. Points[k][node] = IF node.type = "checkpoint" THEN 1 ELSE 0
        BY <2>1, <4>1, PointsOfOperations
      <4>3. VisitBlock(V, node, c) = VisitOperation(node, c)
        BY <3>3 DEF VisitBlock, OperationTypes
      <4> QED
        BY <2>3, <3>2, <4>1, <4>2, <4>3, BudgetOperation
    <3>4. CASE node.type \notin OperationTypes
      <4> HIDE DEF V, N, P
      <4>1. PointsBy(P, node.children) \in Nat
        BY <2>2, <3>1, PointsByIsNat DEF Budgeted
      <4>2. node.type # "checkpoint" /\ node.type # "update"
        BY <3>4 DEF OperationTypes
      <4>3. Points[k][node] = Multiplier(node) * PointsBy(P, node.children)
        BY <2>1, <3>1, <4>2, PointsIs DEF P
      <4>4. Multiplier(node) = Passes(node) /\ Multiplier(node) \in Nat
        BY <3>1, MultiplierIs
      <4>5. Points[k][node] \in Nat
        BY <4>1, <4>3, <4>4, OneMore
      <4>6. VisitBlock(V, node, c).accepted =>
              Adds(p, c, VisitBlock(V, node, c), Passes(node) * PointsBy(P, node.children))
        BY <2>2, <2>3, <3>1, <3>4, BudgetBlock
      <4> QED
        BY <3>2, <4>2, <4>3, <4>4, <4>5, <4>6
    <3> QED
      BY <3>3, <3>4
  <2>4. \A node \in Blocks[k] :
          Points[k][node] \in Nat /\ (node.type = "update" => Points[k][node] = 0)
    <3>1. \E p \in Seq(MainActions), c \in Given : Sound(p, c)
      BY FreshIsSound, EmptySeq, SoundFields DEF Mains, Fresh, Given, Compilations
    <3> QED
      BY <2>3, <3>1
  <2>5. k \in 0..Depth
    BY <2>1, DepthIsNat
  <2> QED
    BY <2>3, <2>4, <2>5 DEF Budgeted, k
<1> HIDE DEF S
<1>3. \A d \in 0..Depth : d \in S
  BY <1>1, <1>2, DepthIsNat, Induction
<1> QED
  BY <1>3 DEF S

LEMMA BudgetExpanded ==
    ASSUME NEW nodes \in Seq(AllBlocks)
    PROVE LET e == Expanded(nodes, Fresh) IN
          Sound(<<>>, e) /\ PointsOf(nodes) \in Nat /\ (e.accepted => Stored(e.actions) = PointsOf(nodes))
<1> DEFINE e == Expanded(nodes, Fresh)
<1>1. Depth \in 0..Depth
  BY DepthIsNat
<1>2. /\ SoundVisits(Visit[Depth], AllBlocks)
      /\ Budgeted(Visit[Depth], AllBlocks, Points[Depth])
  BY <1>1, SoundVisit, BudgetVisit DEF AllBlocks
<1>3. Sound(<<>>, e)
  BY <1>2, FreshIsSound, SoundVisitAll DEF Expanded
<1>4. PointsOf(nodes) = PointsBy(Points[Depth], nodes)
  BY DEF PointsOf, PointsBy
<1>5. PointsOf(nodes) \in Nat /\ (e.accepted => Adds(<<>>, Fresh, e, PointsOf(nodes)))
  BY <1>2, <1>4, FreshIsSound, BudgetAll DEF Expanded
<1>6. <<>> \o e.actions = e.actions /\ Stored(<<>> \o Fresh.actions) = 0
  <2>1. e.actions \in Seq(MainActions) /\ Fresh.actions = <<>> /\ <<>> \in Seq(MainActions)
    BY <1>3, SoundFields, EmptySeq DEF Fresh
  <2>2. Stored(<<>>) = 0
    <3> DEFINE a == Action(Fresh, "checkpoint", NoChannel, Unset)
    <3>1. a \in MainActions
      BY FreshIsSound, SoundFields, ActionIs DEF Mains, Fits, Kinds, SetKinds
    <3> HIDE DEF a
    <3> QED
      BY <2>1, <3>1, StoredOne
  <2> HIDE DEF e
  <2> QED
    BY <2>1, <2>2, ConcatEmptySeq
<1> QED
  BY <1>3, <1>5, <1>6 DEF Adds

-----------------------------------------------------------------------------
(* A point reports its axes as they are.                                   *)

\* What a visit leaves as it was on the channels of L, if their setpoints were in
\* force; and how an axis that is reported must be, when L is left alone.
Steady(p, c, e, L) ==
    \A ch \in L : c.context[ch] = Level(p, c, ch) =>
        e.context[ch] = c.context[ch] /\ Level(p, e, ch) = Level(p, c, ch)
Reports(p, c, L) ==
    \A n \in c.axisPath \cup c.loopPath : Quiet(n) =>
        /\ n.ch \in L
        /\ c.context[n.ch] = Level(p, c, n.ch) /\ c.context[n.ch] \in ToSet(n.values)
Honest(p, c, e, L) ==
    /\ Steady(p, c, e, L)
    /\ Reports(p, c, L) /\ Truth(p \o c.actions) => Truth(p \o e.actions)

Alone(node) == {ch \in Channels : LeavesAlone(node, ch)}
Truthful(V, N) ==
    \A node \in N, p \in Seq(MainActions), c \in Given :
        Sound(p, c) => Honest(p, c, V[node][c], Alone(node))

LEMMA HonestThen ==
    ASSUME NEW p, NEW c, NEW d, NEW e, NEW L, Keeps(c, d),
           Honest(p, c, d, L), Honest(p, d, e, L)
    PROVE Honest(p, c, e, L)
<1>1. Steady(p, c, e, L)
  BY DEF Honest, Steady
<1>2. Reports(p, c, L) => Reports(p, d, L)
  BY DEF Honest, Steady, Reports, Keeps
<1> QED
  BY <1>1, <1>2 DEF Honest

LEMMA HonestLess ==
    ASSUME NEW p, NEW c, NEW e, NEW L, NEW M, M \subseteq L, Honest(p, c, e, L)
    PROVE Honest(p, c, e, M)
<1>1. Steady(p, c, e, M)
  BY DEF Honest, Steady
<1>2. Reports(p, c, M) => Reports(p, c, L)
  BY DEF Reports
<1> QED
  BY <1>1, <1>2 DEF Honest

\* A step that moves one channel only.
LEMMA HonestMoved ==
    ASSUME NEW p, NEW c, NEW e, NEW ch, Moved(p, c, e, ch),
           NEW L \in SUBSET Channels, ch \notin L,
           \A x \in L : e.context[x] = c.context[x]
    PROVE Honest(p, c, e, L)
<1>1. \A x \in L : Level(p, e, x) = Level(p, c, x)
  BY DEF Moved, Follows, Level
<1> QED
  BY <1>1 DEF Honest, Steady, Moved, Follows

LEMMA HonestUnmoved ==
    ASSUME NEW p, NEW c, NEW e, NEW ch, Moved(p, c, e, ch), Unmoved(p, c, e),
           NEW L \in SUBSET Channels, \A x \in L : e.context[x] = c.context[x]
    PROVE Honest(p, c, e, L)
BY DEF Honest, Steady, Moved, Follows, Unmoved

LEMMA HonestSame ==
    ASSUME NEW p, NEW c, NEW e, e.actions = c.actions, NEW L \in SUBSET Channels,
           e.context = c.context
    PROVE Honest(p, c, e, L)
<1>1. Moved(p, c, e, NoChannel) /\ Unmoved(p, c, e)
  BY MovedBy
<1> QED
  BY <1>1, HonestUnmoved

LEMMA HonestAfter ==
    ASSUME NEW p, NEW c, Sound(p, c), NEW V, NEW N, SoundVisits(V, N), Truthful(V, N),
           NEW node \in N
    PROVE Honest(p, c, After(c, V[node][Bare(c)]), Alone(node))
<1> DEFINE q == p \o c.actions
           b == Bare(c)
           r == V[node][b]
           e == After(c, r)
           L == Alone(node)
<1>1. /\ b \in Given /\ Sound(q, b) /\ q \in Seq(MainActions) /\ q \o b.actions = q
      /\ b.context = c.context /\ b.axisPath = c.axisPath /\ b.loopPath = c.loopPath
  BY SoundBare
<1>2. Rejoined(p, e, q, r)
  BY SoundAfter
<1>3. e.context = r.context
  BY SoundAfter
<1> HIDE DEF b
<1>4. Honest(q, b, r, L)
  BY <1>1 DEF Truthful
<1> HIDE DEF q, r, e, L
<1>5. /\ p \o e.actions = q \o r.actions /\ p \o c.actions = q
      /\ \A x : Level(p, e, x) = Level(q, r, x) /\ Level(p, c, x) = Level(q, b, x)
  BY <1>1, <1>2 DEF Rejoined, Level, q
<1>6. Steady(p, c, e, L)
  BY <1>1, <1>3, <1>4, <1>5 DEF Honest, Steady
<1>7. Reports(p, c, L) => Reports(q, b, L)
  BY <1>1, <1>5 DEF Reports
<1>8. Honest(p, c, e, L)
  BY <1>1, <1>4, <1>5, <1>6, <1>7 DEF Honest
<1> QED
  BY <1>8 DEF e, r, b, L

LEMMA HonestAll ==
    ASSUME NEW p, NEW c, Sound(p, c), NEW V, NEW N, SoundVisits(V, N), Truthful(V, N),
           NEW nodes \in Seq(N), NEW folded,
           NEW L \in SUBSET Channels, \A node \in ToSet(nodes) : L \subseteq Alone(node)
    PROVE Honest(p, c, VisitAll(V, nodes, folded, c), L)
<1>1. /\ Len(nodes) \in Nat
      /\ \A i \in 1..Len(nodes) : nodes[i] \in N /\ nodes[i] \in ToSet(nodes)
  BY LenProperties, ElementOfSeq DEF ToSet
<1>2. PICK f :
        /\ Visits(f, V, nodes, folded, c)
        /\ \A i \in 0..Len(nodes) : Sound(p, f[i]) /\ Keeps(c, f[i])
        /\ VisitAll(V, nodes, folded, c) = f[Len(nodes)]
  BY SoundAll
<1> DEFINE S == {i \in 0..Len(nodes) : Honest(p, c, f[i], L)}
<1>3. 0 \in S
  BY <1>1, <1>2, HonestSame DEF Visits
<1>4. ASSUME NEW i \in 0..(Len(nodes) - 1), i \in S PROVE i + 1 \in S
  <2>1. i + 1 \in 1..Len(nodes) /\ i \in 0..Len(nodes) /\ (i + 1) - 1 = i
        /\ nodes[i + 1] \in N /\ nodes[i + 1] \in ToSet(nodes)
    BY <1>1
  <2> DEFINE before == f[i]
             node == nodes[i + 1]
             next == f[i + 1]
  <2>2. next = VisitOne(V, node, folded, before)
    BY <1>2, <2>1 DEF Visits
  <2>3. Sound(p, before) /\ Keeps(c, before)
    BY <1>2, <2>1
  <2>4. Honest(p, c, before, L) /\ node \in N /\ L \subseteq Alone(node)
    BY <1>4, <2>1
  <2> HIDE DEF before, next, node
  <2>5. Honest(p, before, After(before, V[node][Bare(before)]), L)
    BY <2>3, <2>4, HonestAfter, HonestLess
  <2>6. Honest(p, before, next, L)
    BY <2>2, <2>5, HonestSame DEF VisitOne
  <2>7. Honest(p, c, next, L)
    BY <2>3, <2>4, <2>6, HonestThen
  <2> QED
    BY <2>1, <2>7 DEF next
<1> HIDE DEF S
<1>5. \A i \in 0..Len(nodes) : i \in S
  BY <1>1, <1>3, <1>4, Induction
<1>6. Len(nodes) \in S
  BY <1>1, <1>5
<1> QED
  BY <1>2, <1>6 DEF S

LEMMA AloneIs ==
    ASSUME NEW node \in AllBlocks
    PROVE /\ Alone(node) \in SUBSET Channels
          /\ \A ch \in Alone(node) : ~Sets(node, ch)
          /\ \A child \in ToSet(node.children) : Alone(node) \subseteq Alone(child)
          /\ IsAxis(node) => node.ch \notin Alone(node)
          /\ IsAxis(node) /\ Quiet(node) =>
               node.ch \in Channels /\ \A child \in ToSet(node.children) : node.ch \in Alone(child)
<1>1. IsAxis(node) => Sets(node, node.ch) /\ node.ch \in Channels
  BY PassesIs DEF Sets, IsAxis
<1> QED
  BY <1>1, LeftAlone DEF Alone

\* The level of a module's channel before a pass that does not send its value.
Ready(p, c, node, i) ==
    node.type = "device" /\ IsAxis(node) /\ Quiet(node) /\ ~Sent(node, i) =>
        Level(p, c, node.ch) = node.values[i]

LEMMA HonestPass ==
    ASSUME NEW p, NEW c, Sound(p, c), NEW V, NEW N, SoundVisits(V, N), Truthful(V, N),
           NEW node \in AllBlocks, node.children \in Seq(N), NEW generated,
           NEW i \in 1..Passes(node), Ready(p, c, node, i)
    PROVE LET e == VisitPass(V, node, generated, c, i) IN
          /\ Honest(p, c, e, Alone(node))
          /\ node.type = "device" /\ IsAxis(node) /\ Quiet(node) =>
               Level(p, e, node.ch) = node.values[i]
<1> DEFINE children == node.children
           folded == Folded(node, generated)
           inner == Enter(node, generated, c, i)
           v == VisitAll(V, children, folded, inner)
           e == VisitPass(V, node, generated, c, i)
           level == node.values[i]
           L == Alone(node)
           M == L \cup {ch \in Channels : ch = node.ch /\ IsAxis(node) /\ Quiet(node)}
<1>1. Sound(p, inner) /\ e.actions = v.actions /\ e.context = c.context
  BY SoundPass
<1>2. /\ L \in SUBSET Channels /\ (IsAxis(node) => node.ch \notin L /\ node.ch \in Channels)
      /\ M \in SUBSET Channels
      /\ \A child \in ToSet(children) : M \subseteq Alone(child)
  BY AloneIs, PassesIs
<1>3. Moved(p, c, inner, node.ch)
  BY MovedEnter
<1>4. IsAxis(node) => level \in ToSet(node.values)
  BY PassesIs
\* How the pass begins, by what kind of block it is.
<1>5. /\ \A x \in Channels : inner.context[x] =
           IF x = node.ch /\ IsAxis(node) THEN level ELSE c.context[x]
      /\ \/ inner.axisPath \cup inner.loopPath \subseteq c.axisPath \cup c.loopPath
         \/ /\ inner.axisPath \cup inner.loopPath \subseteq c.axisPath \cup c.loopPath \cup {node}
            /\ IsAxis(node) /\ (Quiet(node) => Level(p, inner, node.ch) = level)
      /\ node.type = "device" /\ IsAxis(node) /\ Quiet(node) => Level(p, inner, node.ch) = level
      /\ ~IsAxis(node) => inner = c
  <2>1. CASE node.type = "sweep"
    <3>1. IsAxis(node)
      BY <2>1, PassesIs
    <3>2. inner = EnterSweep(node, generated, c, i)
      BY <2>1 DEF Enter
    <3> HIDE DEF inner
    <3>3. /\ generated => Level(p, inner, node.ch) = node.values[i]
          /\ \A x \in Channels : inner.context[x] =
               IF x = node.ch THEN node.values[i] ELSE c.context[x]
          /\ inner.axisPath \cup inner.loopPath \subseteq
               c.axisPath \cup c.loopPath \cup (IF generated THEN {node} ELSE {})
      BY <2>1, <3>2, SoundEnterSweep
    <3>4. generated \/ inner.axisPath \cup inner.loopPath \subseteq c.axisPath \cup c.loopPath
      BY <3>3
    <3>5. inner.axisPath \cup inner.loopPath \subseteq c.axisPath \cup c.loopPath \cup {node}
      BY <3>3
    <3> QED
      BY <2>1, <3>1, <3>3, <3>4, <3>5
  <2>2. CASE node.type = "device" /\ IsAxis(node)
    <3>1. inner = EnterModule(node, c, i)
      BY <2>2 DEF Enter
    <3> HIDE DEF inner
    <3>2. /\ IF Sent(node, i) THEN Level(p, inner, node.ch) = node.values[i] ELSE Unmoved(p, c, inner)
          /\ \A x \in Channels : inner.context[x] =
               IF x = node.ch THEN node.values[i] ELSE c.context[x]
          /\ inner.axisPath \cup inner.loopPath \subseteq c.axisPath \cup c.loopPath \cup {node}
      BY <2>2, <3>1, SoundEnterModule
    <3>3. Quiet(node) => Level(p, inner, node.ch) = level
      BY <1>2, <2>2, <3>2 DEF Ready, Unmoved
    <3> QED
      BY <2>2, <3>2, <3>3
  <2>3. CASE node.type # "sweep" /\ ~(node.type = "device" /\ IsAxis(node))
    <3>1. inner = c
      BY <2>3 DEF Enter
    <3>2. ~IsAxis(node)
      BY <2>3, PassesIs
    <3> HIDE DEF inner
    <3> QED
      BY <2>3, <3>1, <3>2
  <2> QED
    BY <2>1, <2>2, <2>3
<1>6. children \in Seq(N)
  OBVIOUS
<1> HIDE DEF children, folded, inner, level, L, M
<1>7. Honest(p, inner, v, M)
  BY <1>1, <1>2, <1>6, HonestAll
<1> HIDE DEF v, e
<1>8. \A x : Level(p, e, x) = Level(p, v, x)
  BY <1>1 DEF Level
<1>9. /\ L \subseteq M
      /\ IsAxis(node) /\ Quiet(node) => node.ch \in M
  BY <1>2 DEF M
<1>10. \A x \in L : Level(p, inner, x) = Level(p, c, x) /\ inner.context[x] = c.context[x]
  <2>1. CASE IsAxis(node)
    BY <1>2, <1>3, <1>5, <2>1 DEF Moved, Follows, Level
  <2>2. CASE ~IsAxis(node)
    BY <1>5, <2>2
  <2> QED
    BY <2>1, <2>2
<1>11. Steady(p, c, e, L)
  BY <1>1, <1>7, <1>8, <1>9, <1>10 DEF Honest, Steady
<1>12. Reports(p, c, L) => Reports(p, inner, M)
  <2> SUFFICES ASSUME Reports(p, c, L), NEW n \in inner.axisPath \cup inner.loopPath, Quiet(n)
               PROVE /\ n.ch \in M
                     /\ inner.context[n.ch] = Level(p, inner, n.ch)
                     /\ inner.context[n.ch] \in ToSet(n.values)
    BY DEF Reports
  <2>1. CASE n \in c.axisPath \cup c.loopPath
    <3>1. n.ch \in L /\ c.context[n.ch] = Level(p, c, n.ch) /\ c.context[n.ch] \in ToSet(n.values)
      BY <2>1 DEF Reports
    <3> QED
      BY <1>9, <1>10, <3>1
  <2>2. CASE n \notin c.axisPath \cup c.loopPath
    <3>1. n = node /\ IsAxis(node) /\ Level(p, inner, node.ch) = level
      BY <1>5, <2>2
    <3>2. node.ch \in M /\ node.ch \in Channels
      BY <1>2, <1>9, <3>1
    <3>3. inner.context[node.ch] = level
      BY <1>5, <3>1, <3>2
    <3> QED
      BY <1>4, <3>1, <3>2, <3>3
  <2> QED
    BY <2>1, <2>2
<1>13. Truth(p \o c.actions) => Truth(p \o inner.actions)
  BY <1>3 DEF Moved, Follows
<1>14. Honest(p, c, e, L)
  BY <1>1, <1>7, <1>11, <1>12, <1>13 DEF Honest
<1>15. node.type = "device" /\ IsAxis(node) /\ Quiet(node) => Level(p, e, node.ch) = level
  <2> SUFFICES ASSUME node.type = "device", IsAxis(node), Quiet(node)
               PROVE Level(p, e, node.ch) = level
    OBVIOUS
  <2>1. node.ch \in M /\ inner.context[node.ch] = level /\ Level(p, inner, node.ch) = level
    BY <1>2, <1>5, <1>9
  <2> QED
    BY <1>7, <1>8, <2>1 DEF Honest, Steady
<1> QED
  BY <1>14, <1>15 DEF e, level, L

LEMMA HonestPasses ==
    ASSUME NEW p, NEW c, Sound(p, c), NEW V, NEW N, SoundVisits(V, N), Truthful(V, N),
           NEW node \in AllBlocks, node.children \in Seq(N), NEW generated,
           node.type = "device" /\ IsAxis(node) /\ ~Continues(node) =>
               Level(p, c, node.ch) = node.values[1]
    PROVE Honest(p, c, VisitPasses(V, node, generated, c), Alone(node))
<1> DEFINE L == Alone(node)
           AtLevel(b, i) == node.type = "device" /\ IsAxis(node) /\ Quiet(node) =>
                              Level(p, b, node.ch) = node.values[i]
<1>1. Passes(node) \in Nat
  BY PassesIs
<1>2. PICK f :
        /\ PassesOf(f, V, node, generated, c)
        /\ \A i \in 0..Passes(node) :
             Sound(p, f[i]) /\ Keeps(c, f[i]) /\ f[i].context = c.context
        /\ VisitPasses(V, node, generated, c) = f[Passes(node)]
  BY SoundPasses
<1>3. L \in SUBSET Channels
  BY AloneIs
<1> HIDE DEF L
<1> DEFINE Good(b, i) == Honest(p, c, b, L) /\ (i > 0 => AtLevel(b, i))
           S == {i \in 0..Passes(node) : Good(f[i], i)}
<1>4. 0 \in S
  <2>1. f[0] = c
    BY <1>2 DEF PassesOf
  <2>2. Honest(p, c, c, L)
    BY <1>3, HonestSame
  <2> QED
    BY <1>1, <2>1, <2>2
<1>5. ASSUME NEW i \in 0..(Passes(node) - 1), i \in S PROVE i + 1 \in S
  <2> DEFINE before == f[i]
             next == f[i + 1]
             k == i + 1
  <2>1. k \in 1..Passes(node) /\ k - 1 = i /\ i \in 0..Passes(node)
    BY <1>1
  <2>2. next = VisitPass(V, node, generated, before, k)
    BY <1>2, <2>1 DEF PassesOf
  <2>3. Sound(p, before) /\ Keeps(c, before)
    BY <1>2, <2>1
  <2>4. Good(before, i) /\ (i = 0 => before = c)
    BY <1>2, <1>5 DEF PassesOf
  <2> HIDE DEF before, next, k
  <2>5. Ready(p, before, node, k)
    <3> SUFFICES ASSUME node.type = "device", IsAxis(node), Quiet(node), ~Sent(node, k)
                 PROVE Level(p, before, node.ch) = node.values[k]
      BY DEF Ready
    <3>1. CASE i = 0
      <4>1. k = 1
        BY <2>1, <3>1
      <4>2. ~Continues(node)
        BY <4>1 DEF Sent
      <4> QED
        BY <2>4, <3>1, <4>1, <4>2
    <3>2. CASE i # 0
      <4>1. i > 0 /\ k > 1
        BY <2>1, <3>2
      <4>2. node.values[k] = node.values[i]
        BY <2>1, <4>1 DEF Sent
      <4> QED
        BY <2>4, <4>1, <4>2
    <3> QED
      BY <3>1, <3>2
  <2>6. Honest(p, before, next, L) /\ AtLevel(next, k)
    BY <2>1, <2>2, <2>3, <2>5, HonestPass DEF L
  <2>7. Honest(p, c, next, L)
    BY <2>3, <2>4, <2>6, HonestThen
  <2>8. k \in S
    BY <2>1, <2>6, <2>7 DEF next, k
  <2> QED
    BY <2>8 DEF k
<1> HIDE DEF S
<1>6. \A i \in 0..Passes(node) : i \in S
  BY <1>1, <1>4, <1>5, Induction
<1>7. Passes(node) \in S
  BY <1>1, <1>6
<1> QED
  BY <1>2, <1>7 DEF S, L

LEMMA HonestOperation ==
    ASSUME NEW p, NEW c, Sound(p, c), NEW node \in Operations, node \in AllBlocks
    PROVE Honest(p, c, VisitOperation(node, c), Alone(node))
<1> DEFINE e == VisitOperation(node, c)
           L == Alone(node)
<1>1. c \in Compilations(Seq(MainActions)) /\ c \in Mains /\ p \in Seq(MainActions)
      /\ c.actions \in Seq(MainActions)
  BY SoundFields DEF Mains
<1>2. L \in SUBSET Channels /\ \A ch \in L : ~Sets(node, ch)
  BY AloneIs
<1> HIDE DEF L
<1>3. CASE node.type \in SetKinds /\ Resolved(c, node) = Unset
  <2>1. e = Refuse(c)
    BY <1>3 DEF VisitOperation, SetKinds
  <2> HIDE DEF e
  <2>2. e.actions = c.actions /\ e.context = c.context
    BY <1>1, <2>1, RefuseFields
  <2> QED
    BY <1>2, <2>2, HonestSame DEF e, L
<1>4. CASE node.type \in SetKinds /\ Resolved(c, node) # Unset
  <2> DEFINE level == Resolved(c, node)
  <2>1. e = EmitLevel(c, node.type, node.ch, level) /\ level \in Levels /\ node.ch \in Channels
    BY <1>4, ResolvedIs DEF VisitOperation, SetKinds
  <2>2. node.ch \in L => level = c.context[node.ch]
    <3>1. node.level # Ref => Sets(node, node.ch)
      BY <1>4, ResolvedIs DEF Sets
    <3> QED
      BY <1>2, <1>4, <3>1, ResolvedIs
  <2> HIDE DEF level, e
  <2>3. Moved(p, c, e, node.ch) /\ Level(p, e, node.ch) = level
    BY <1>4, <2>1, MovedLevel
  <2>4. \A x \in Channels : e.context[x] = IF x = node.ch THEN level ELSE c.context[x]
    BY <1>4, <2>1, SoundLevel
  <2>5. \A x \in Channels : x # node.ch => Level(p, e, x) = Level(p, c, x)
    BY <2>3 DEF Moved, Follows, Level
  <2>6. Steady(p, c, e, L)
    BY <1>2, <2>2, <2>3, <2>4, <2>5 DEF Steady
  <2>7. Truth(p \o c.actions) => Truth(p \o e.actions)
    BY <2>3 DEF Moved, Follows
  <2> QED
    BY <2>6, <2>7 DEF Honest, e, L
<1>5. CASE node.type \notin SetKinds
  <2>1. e = Emit(c, node.type, node.ch, Unset)
    BY <1>5 DEF VisitOperation, SetKinds
  <2>2. Fits(node.type, node.ch, Unset) /\ node.type # "assert"
    BY <1>5, OperationFits
  <2> HIDE DEF e
  <2>3. e.context = c.context
    BY <1>1, <2>1, EmitFields
  <2>4. CASE node.type # "checkpoint"
    <3>1. Moved(p, c, e, node.ch)
      BY <2>1, <2>2, <2>4, MovedStep
    <3>2. CASE node.type = "ramp"
      <4>1. node.ch \notin L
        BY <1>2, <3>2 DEF Sets
      <4> QED
        BY <1>2, <2>3, <3>1, <4>1, HonestMoved DEF e, L
    <3>3. CASE node.type # "ramp"
      <4>1. node.type \notin SetKinds \cup {"ramp"}
        BY <1>5, <3>3
      <4>2. Unmoved(p, c, e)
        BY <2>1, <2>2, <2>4, <4>1, MovedStep
      <4> QED
        BY <1>2, <2>3, <3>1, <4>2, HonestUnmoved DEF e, L
    <3> QED
      BY <3>2, <3>3
  <2>5. CASE node.type = "checkpoint"
    <3> DEFINE a == Action(c, node.type, node.ch, Unset)
               w == p \o c.actions
    <3>1. e.actions = Append(c.actions, a)
      BY <1>1, <2>1, EmitFields
    <3>2. /\ a \in MainActions /\ a.kind = "checkpoint"
          /\ a.setpoints = c.context /\ a.loopPath = c.loopPath
      BY <1>1, <2>2, <2>5, ActionIs
    <3> HIDE DEF a
    <3>3. p \o e.actions = Append(w, a)
      BY <1>1, <3>1, <3>2, ConcatAppend
    <3>4. w \in Seq(MainActions)
      BY SoundStored
    <3> HIDE DEF w
    <3>5. \A x \in Channels : Level(p, e, x) = Level(p, c, x)
      BY <3>2, <3>3, <3>4, InForceAppend DEF Level, SetKinds, w
    <3>6. Steady(p, c, e, L)
      BY <1>2, <2>3, <3>5 DEF Steady
    <3>7. Reports(p, c, L) => \A n \in a.loopPath : True(a.setpoints, InForce(w), n)
      BY <3>2 DEF Reports, True, Level, w
    <3>8. Reports(p, c, L) /\ Truth(w) => Truth(p \o e.actions)
      BY <3>2, <3>3, <3>4, <3>7, TruthAppend
    <3> QED
      BY <3>6, <3>8 DEF Honest, w, e, L
  <2> QED
    BY <2>4, <2>5
<1> QED
  BY <1>3, <1>4, <1>5

LEMMA HonestModule ==
    ASSUME NEW p, NEW c, Sound(p, c), NEW V, NEW N, SoundVisits(V, N), Truthful(V, N),
           NEW node \in AllBlocks, node.children \in Seq(N), node.type = "device",
           c.planned[node.ch] # Unset, ~(Continues(node) /\ node.level # Unset)
    PROVE Honest(p, c, VisitModule(V, node, c), Alone(node))
<1> DEFINE begun == ModuleBegins(node, c)
           run == VisitPasses(V, node, FALSE, begun)
           off == Emit(run, "off", node.ch, Unset)
           e == VisitModule(V, node, c)
           L == Alone(node)
<1>1. /\ Sound(p, begun) /\ Keeps(c, begun) /\ Sound(p, run) /\ Keeps(begun, run)
      /\ Fits("off", node.ch, Unset)
      /\ e = IF node.policy = "on" THEN off ELSE run
  BY SoundModule
<1>2. /\ Moved(p, c, begun, node.ch)
      /\ \A x \in Channels : x # node.ch => begun.context[x] = c.context[x]
      /\ ~IsAxis(node) /\ node.level = Unset => Unmoved(p, c, begun) /\ begun.context = c.context
      /\ IsAxis(node) /\ ~Continues(node) => Level(p, begun, node.ch) = node.values[1]
  BY SoundModuleBegins
<1>3. L \in SUBSET Channels /\ \A ch \in L : ~Sets(node, ch)
  BY AloneIs
<1> HIDE DEF begun
<1>4. Honest(p, begun, run, L)
  BY <1>1, <1>2, HonestPasses
<1> HIDE DEF run, e, L
<1>5. Honest(p, c, begun, L)
  <2>1. CASE ~IsAxis(node) /\ node.level = Unset
    BY <1>2, <1>3, <2>1, HonestUnmoved
  <2>2. CASE ~(~IsAxis(node) /\ node.level = Unset)
    <3>1. node.ch \notin L
      <4>1. node.level \in Literals \cup {Unset}
        BY AllBlocksForm DEF BlockForm
      <4> QED
        BY <1>3, <2>2, <4>1 DEF Sets, IsAxis
    <3>2. \A x \in L : begun.context[x] = c.context[x]
      BY <1>2, <1>3, <3>1
    <3> QED
      BY <1>2, <1>3, <3>1, <3>2, HonestMoved
  <2> QED
    BY <2>1, <2>2
<1>6. Honest(p, c, run, L) /\ Keeps(c, run)
  BY <1>1, <1>4, <1>5, HonestThen, KeepsTransitive
<1>7. Honest(p, run, off, L)
  <2>1. Moved(p, run, off, node.ch) /\ Unmoved(p, run, off)
    BY <1>1, MovedStep DEF SetKinds
  <2>2. off.context = run.context
    BY <1>1, SoundStep
  <2> QED
    BY <1>3, <2>1, <2>2, HonestUnmoved
<1> HIDE DEF off
<1>8. Honest(p, c, e, L)
  BY <1>1, <1>6, <1>7, HonestThen
<1> QED
  BY <1>8 DEF e, L

LEMMA HonestBlock ==
    ASSUME NEW p, NEW c, Sound(p, c), NEW V, NEW N, SoundVisits(V, N), Truthful(V, N),
           NEW node \in AllBlocks, node.children \in Seq(N)
    PROVE Honest(p, c, VisitBlock(V, node, c), Alone(node))
<1> DEFINE e == VisitBlock(V, node, c)
           L == Alone(node)
<1>1. BlockForm(node) /\ L \in SUBSET Channels
  BY AllBlocksForm, AloneIs
<1>2. Honest(p, c, Refuse(c), L)
  <2>1. c \in Compilations(Seq(MainActions))
    BY SoundFields DEF Mains
  <2> HIDE DEF L
  <2>2. Refuse(c).actions = c.actions /\ Refuse(c).context = c.context
    BY <2>1, RefuseFields
  <2> QED
    BY <1>1, <2>2, HonestSame
<1>3. CASE node.type = "repeat"
  <2>1. e = VisitPasses(V, node, FALSE, c)
    BY <1>3 DEF VisitBlock
  <2> QED
    BY <1>3, <2>1, HonestPasses
<1>4. CASE node.type = "sweep"
  <2>1. e = VisitPasses(V, node, Generates(node, c), c) \/ e = Refuse(c)
    BY <1>4 DEF VisitBlock, VisitSweep
  <2> QED
    BY <1>2, <1>4, <2>1, HonestPasses
<1>5. CASE node.type = "device"
  <2>1. e = VisitModule(V, node, c)
    BY <1>5 DEF VisitBlock
  <2>2. CASE c.planned[node.ch] = Unset \/ (Continues(node) /\ node.level # Unset)
    <3>1. e = Refuse(c)
      BY <2>1, <2>2 DEF VisitModule
    <3> QED
      BY <1>2, <3>1
  <2>3. CASE ~(c.planned[node.ch] = Unset \/ (Continues(node) /\ node.level # Unset))
    BY <1>5, <2>1, <2>3, HonestModule
  <2> QED
    BY <2>2, <2>3
<1>6. CASE node.type \in OperationTypes
  <2>1. e = VisitOperation(node, c)
    BY <1>6 DEF VisitBlock, OperationTypes
  <2>2. node \in Operations
    BY <1>1, <1>6 DEF BlockForm
  <2> QED
    BY <2>1, <2>2, HonestOperation
<1> QED
  BY <1>1, <1>3, <1>4, <1>5, <1>6 DEF BlockForm

\* However deep a recipe is.
LEMMA TruthfulVisit == \A d \in 0..Depth : Truthful(Visit[d], Blocks[d])
<1> DEFINE S == {d \in 0..Depth : Truthful(Visit[d], Blocks[d])}
<1>1. 0 \in S
  BY DepthIsNat, BlocksDef DEF Truthful
<1>2. ASSUME NEW d \in 0..(Depth - 1), d \in S PROVE d + 1 \in S
  <2>1. d + 1 \in 1..Depth /\ (d + 1) - 1 = d /\ d \in 0..Depth
    BY DepthIsNat
  <2>2. ASSUME NEW node \in Blocks[d + 1], NEW p \in Seq(MainActions), NEW c \in Given, Sound(p, c)
        PROVE Honest(p, c, Visit[d + 1][node][c], Alone(node))
    <3>1. node \in AllBlocks /\ node.children \in Seq(Blocks[d])
      BY <2>1, BlocksForm, BlocksAreAll
    <3>2. Visit[d + 1][node][c] = VisitBlock(Visit[d], node, c)
      BY <2>1, <2>2, <3>1, VisitIs
    <3>3. SoundVisits(Visit[d], Blocks[d]) /\ Truthful(Visit[d], Blocks[d])
      BY <1>2, <2>1, SoundVisit
    <3> QED
      BY <2>2, <3>1, <3>2, <3>3, HonestBlock
  <2> QED
    BY <2>1, <2>2 DEF Truthful
<1> HIDE DEF S
<1>3. \A d \in 0..Depth : d \in S
  BY <1>1, <1>2, DepthIsNat, Induction
<1> QED
  BY <1>3 DEF S

LEMMA TruthExpanded ==
    ASSUME NEW nodes \in Seq(AllBlocks)
    PROVE Truth(Expanded(nodes, Fresh).actions)
<1> DEFINE e == Expanded(nodes, Fresh)
           V == Visit[Depth]
           L == {ch \in Channels : \A node \in ToSet(nodes) : ch \in Alone(node)}
<1>1. SoundVisits(V, AllBlocks) /\ Truthful(V, AllBlocks)
  BY DepthIsNat, SoundVisit, TruthfulVisit DEF AllBlocks
<1>2. e = VisitAll(V, nodes, {}, Fresh)
  BY DEF Expanded
<1>3. L \in SUBSET Channels /\ \A node \in ToSet(nodes) : L \subseteq Alone(node)
  OBVIOUS
<1> HIDE DEF V, L, e
<1>4. Honest(<<>>, Fresh, e, L)
  BY <1>1, <1>2, <1>3, FreshIsSound, HonestAll
<1>5. Sound(<<>>, e)
  BY <1>1, <1>2, FreshIsSound, SoundVisitAll
<1>6. Reports(<<>>, Fresh, L)
  BY DEF Reports, Fresh
<1>7. Fresh.actions = <<>> /\ <<>> \o <<>> = <<>> /\ <<>> \o e.actions = e.actions
  <2>1. e.actions \in Seq(MainActions) /\ <<>> \in Seq(MainActions)
    BY <1>5, SoundFields, EmptySeq
  <2> QED
    BY <2>1, ConcatEmptySeq DEF Fresh
<1>8. Truth(<<>>)
  BY EmptySeq DEF Truth
<1> QED
  BY <1>4, <1>6, <1>7, <1>8 DEF Honest, e

-----------------------------------------------------------------------------
(* Finally, and what is marked in the plan.                                *)

\* What an action of Finally may be.
EndAction(a) ==
    /\ a.finally
    /\ a.completionOnly => a.kind \in {"update", "assert", "off"} /\ ~a.faultOnly
    /\ ~a.completionOnly => a.kind \in {"off", "ramp"}
    /\ a.kind = "assert" => a.level = Unset
    /\ a.retains => a.completionOnly /\ a.kind = "assert"

\* The actions w are those of the recipe, m, and then some of Finally.
Ends(m, w) ==
    /\ m \in Seq(MainActions) /\ w \in Seq(Actions)
    /\ Len(m) <= Len(w) /\ \A i \in 1..Len(m) : w[i] = m[i]
    /\ \A i \in (Len(m) + 1)..Len(w) : EndAction(w[i])

\* The final state f is reached by action i: nothing happens to its channel after it,
\* and no other action retains the output.
DeclaredAt(w, i, f) ==
    /\ w[i].ch = f.ch /\ w[i].completionOnly
    /\ w[i].kind = IF f.policy = "hold" THEN "assert" ELSE "off"
    /\ f.policy = "hold" => w[i].retains
    /\ \A j \in (i + 1)..Len(w) : w[j].ch # f.ch
    /\ \A j \in 1..Len(w) : w[j].retains /\ w[j].ch = f.ch => j = i
    /\ f.level # Unset => /\ i > 1 /\ w[i - 1].kind = "update" /\ w[i - 1].ch = f.ch
                          /\ w[i - 1].level = f.level /\ w[i - 1].completionOnly
Declared(w, f) == \E i \in 1..Len(w) : DeclaredAt(w, i, f)

LEMMA EndingAction ==
    ASSUME NEW a \in Actions, NEW completionOnly \in BOOLEAN, NEW held \in BOOLEAN
    PROVE LET e == [a EXCEPT !.finally = TRUE, !.completionOnly = completionOnly,
                             !.retains = held]
          IN /\ e \in Actions
             /\ e.kind = a.kind /\ e.ch = a.ch /\ e.level = a.level
             /\ e.finally /\ e.completionOnly = completionOnly
             /\ e.faultOnly = a.faultOnly /\ e.retains = held
<1> DEFINE e == [a EXCEPT !.finally = TRUE, !.completionOnly = completionOnly,
                          !.retains = held]
<1>1. a = [kind |-> a.kind, ch |-> a.ch, level |-> a.level, setpoints |-> a.setpoints,
           loopPath |-> a.loopPath, finally |-> a.finally, completionOnly |-> a.completionOnly,
           faultOnly |-> a.faultOnly, retains |-> a.retains]
  BY DEF Actions
<1> DEFINE true == TRUE
<1>2. e = [a EXCEPT !.finally = true, !.completionOnly = completionOnly, !.retains = held]
      /\ true \in BOOLEAN
  OBVIOUS
<1> HIDE DEF e, true
<1>3. e = [kind |-> a.kind, ch |-> a.ch, level |-> a.level, setpoints |-> a.setpoints,
           loopPath |-> a.loopPath, finally |-> true, completionOnly |-> completionOnly,
           faultOnly |-> a.faultOnly, retains |-> held]
  BY <1>1, <1>2
<1>4. /\ e.kind = a.kind /\ e.ch = a.ch /\ e.level = a.level
      /\ e.finally = true /\ e.completionOnly = completionOnly
      /\ e.faultOnly = a.faultOnly /\ e.retains = held
  BY <1>3
<1>5. e \in Actions
  <2>1. /\ a.kind \in Kinds /\ a.ch \in Channels \cup {NoChannel}
        /\ a.level \in Levels \cup {Unset} /\ a.setpoints \in Setpoints
        /\ a.loopPath \in SUBSET AllBlocks /\ a.faultOnly \in BOOLEAN
        /\ Fits(a.kind, a.ch, a.level)
    BY DEF Actions
  <2>2. e \in [kind : Kinds, ch : Channels \cup {NoChannel}, level : Levels \cup {Unset},
               setpoints : Setpoints, loopPath : SUBSET AllBlocks, finally : BOOLEAN,
               completionOnly : BOOLEAN, faultOnly : BOOLEAN, retains : BOOLEAN]
    BY <1>2, <1>3, <2>1
  <2> QED
    BY <1>4, <2>1, <2>2 DEF Actions
<1>6. e.finally
  BY <1>4 DEF true
<1> QED
  BY <1>4, <1>5, <1>6 DEF e

EndOf(w, s, n, completionOnly, held) ==
    /\ w \in Seq(Actions) /\ Len(w) = Len(s)
    /\ \A i \in 1..n : w[i] = s[i]
    /\ \A i \in (n + 1)..Len(s) :
         /\ w[i].kind = s[i].kind /\ w[i].ch = s[i].ch /\ w[i].level = s[i].level
         /\ w[i].finally /\ (w[i].completionOnly <=> completionOnly)
         /\ w[i].faultOnly = s[i].faultOnly /\ (w[i].retains <=> held /\ i = Len(s))

LEMMA EndingIs ==
    ASSUME NEW s \in Seq(Actions), NEW n \in 0..Len(s),
           NEW completionOnly \in BOOLEAN, NEW held \in BOOLEAN
    PROVE EndOf(Ending(s, n, completionOnly, held), s, n, completionOnly, held)
<1> DEFINE w == Ending(s, n, completionOnly, held)
           Held(i) == held /\ i = Len(s)
           End(a, last) == [a EXCEPT !.finally = TRUE, !.completionOnly = completionOnly,
                                     !.retains = last]
<1>1. Len(s) \in Nat /\ DOMAIN s = 1..Len(s) /\ \A i \in 1..Len(s) : s[i] \in Actions
  BY LenProperties, ElementOfSeq
<1>2. w = [i \in 1..Len(s) |-> IF i <= n THEN s[i] ELSE End(s[i], Held(i))]
  BY <1>1 DEF Ending
<1>3. \A i \in 1..Len(s) : Held(i) \in BOOLEAN
  OBVIOUS
<1>4. \A a \in Actions, last \in BOOLEAN :
        /\ End(a, last) \in Actions
        /\ End(a, last).kind = a.kind /\ End(a, last).ch = a.ch /\ End(a, last).level = a.level
        /\ End(a, last).finally /\ End(a, last).completionOnly = completionOnly
        /\ End(a, last).faultOnly = a.faultOnly /\ End(a, last).retains = last
  BY EndingAction
<1> HIDE DEF w, End, Held
<1>5. \A i \in 1..Len(s) : w[i] = IF i <= n THEN s[i] ELSE End(s[i], Held(i))
  BY <1>2
<1>6. \A i \in 1..Len(s) : w[i] \in Actions
  BY <1>1, <1>3, <1>4, <1>5
<1>7. w \in Seq(Actions) /\ Len(w) = Len(s)
  <2>1. w \in [1..Len(s) -> Actions]
    BY <1>2, <1>5, <1>6
  <2> QED
    BY <1>1, <2>1
<1>8. \A i \in 1..n : w[i] = s[i]
  BY <1>1, <1>5
<1>9. ASSUME NEW i \in (n + 1)..Len(s)
      PROVE /\ w[i].kind = s[i].kind /\ w[i].ch = s[i].ch /\ w[i].level = s[i].level
            /\ w[i].finally /\ (w[i].completionOnly <=> completionOnly)
            /\ w[i].faultOnly = s[i].faultOnly /\ (w[i].retains <=> held /\ i = Len(s))
  <2> DEFINE x == s[i]
             last == Held(i)
  <2>1. i \in 1..Len(s) /\ ~(i <= n)
    BY <1>1
  <2>2. x \in Actions /\ last \in BOOLEAN /\ w[i] = End(x, last)
    BY <1>1, <1>3, <1>5, <2>1
  <2>3. last <=> held /\ i = Len(s)
    BY DEF Held
  <2> HIDE DEF x, last
  <2>4. /\ w[i].kind = x.kind /\ w[i].ch = x.ch /\ w[i].level = x.level
        /\ w[i].finally /\ w[i].completionOnly = completionOnly
        /\ w[i].faultOnly = x.faultOnly /\ w[i].retains = last
    BY <1>4, <2>2
  <2> QED
    BY <2>3, <2>4 DEF x
<1> QED
  BY <1>7, <1>8, <1>9 DEF w, EndOf

LEMMA ContextFields ==
    ASSUME NEW A, NEW c \in Compilations(A), NEW context \in Setpoints
    PROVE LET e == [c EXCEPT !.context = context] IN
          /\ e \in Compilations(A)
          /\ e.accepted = c.accepted /\ e.actions = c.actions /\ e.planned = c.planned
          /\ e.context = context /\ e.axisPath = c.axisPath /\ e.loopPath = c.loopPath
BY DEF Compilations

LEMMA ActionsFields ==
    ASSUME NEW A, NEW c \in Compilations(A), NEW B, NEW actions \in B
    PROVE LET e == [c EXCEPT !.actions = actions] IN
          /\ e \in Compilations(B)
          /\ e.accepted = c.accepted /\ e.actions = actions /\ e.planned = c.planned
          /\ e.context = c.context
BY DEF Compilations

LEMMA FinalForm ==
    ASSUME NEW node \in FinalBlocks
    PROVE /\ node.ch \in Channels /\ node.type \in {"on", "off", "ramp", "final_state"}
          /\ node.type = "final_state" =>
               node.level \in Literals \cup {Unset} /\ node.policy \in {"off", "hold"}
<1>1. ASSUME NEW type \in {"on", "off", "ramp"}, NEW ch \in Channels, node = Op(type, ch, Unset)
      PROVE node.type = type /\ node.ch = ch
  BY <1>1 DEF Op, Block
<1>2. ASSUME NEW ch \in Channels, NEW level \in Literals \cup {Unset}, NEW output \in {"off", "hold"},
             node = [Op("final_state", ch, level) EXCEPT !.policy = output]
      PROVE node.type = "final_state" /\ node.ch = ch /\ node.level = level /\ node.policy = output
  BY <1>2 DEF Op, Block
<1>3. \/ \E type \in {"on", "off", "ramp"}, ch \in Channels : node = Op(type, ch, Unset)
      \/ \E ch \in Channels, level \in Literals \cup {Unset}, output \in {"off", "hold"} :
           node = [Op("final_state", ch, level) EXCEPT !.policy = output]
  BY DEF FinalBlocks
<1> QED
  BY <1>1, <1>2, <1>3

\* One more action, of the recipe or of its Finally.
LEMMA EndStep ==
    ASSUME NEW c \in Compilations(Seq(Actions)), NEW kind, NEW ch, NEW level, Fits(kind, ch, level)
    PROVE LET e == Emit(c, kind, ch, level)
              v == c.actions
              w == e.actions
          IN /\ e \in Compilations(Seq(Actions)) /\ e.accepted = c.accepted
             /\ v \in Seq(Actions) /\ w \in Seq(Actions)
             /\ Len(v) \in Nat /\ Len(w) = Len(v) + 1 /\ \A i \in 1..Len(v) : w[i] = v[i]
             /\ w[Len(w)].kind = kind /\ w[Len(w)].ch = ch /\ w[Len(w)].level = level
             /\ ~w[Len(w)].faultOnly
<1> DEFINE a == Action(c, kind, ch, level)
           e == Emit(c, kind, ch, level)
           v == c.actions
           w == e.actions
<1>1. a \in MainActions /\ a.kind = kind /\ a.ch = ch /\ a.level = level
  BY ActionIs
<1>2. a \in Actions /\ ~a.faultOnly
  BY <1>1 DEF MainActions
<1>3. /\ e = [accepted |-> c.accepted, actions |-> Append(v, a),
              context |-> c.context, planned |-> Replanned(c.planned, kind, ch, level),
              axisPath |-> c.axisPath, loopPath |-> c.loopPath]
      /\ e.accepted = c.accepted /\ e.actions = Append(v, a)
  BY EmitFields
<1>4. /\ c.accepted \in BOOLEAN /\ v \in Seq(Actions)
      /\ c.context \in Setpoints /\ c.planned \in Setpoints
      /\ c.axisPath \in SUBSET AllBlocks /\ c.loopPath \in SUBSET AllBlocks
  BY CompilationFields
<1>5. Replanned(c.planned, kind, ch, level) \in Setpoints
  BY <1>4, ReplannedIs
<1> HIDE DEF a, e
<1>6. /\ w \in Seq(Actions) /\ Len(v) \in Nat /\ Len(w) = Len(v) + 1
      /\ w[Len(v) + 1] = a /\ \A i \in 1..Len(v) : w[i] = v[i]
  BY <1>2, <1>3, <1>4, AppendSeq
<1>7. e \in Compilations(Seq(Actions))
  <2> DEFINE s == Append(v, a)
             q == Replanned(c.planned, kind, ch, level)
  <2>1. s \in Seq(Actions) /\ q \in Setpoints
    BY <1>3, <1>5, <1>6
  <2>2. e = [accepted |-> c.accepted, actions |-> s, context |-> c.context, planned |-> q,
             axisPath |-> c.axisPath, loopPath |-> c.loopPath]
    BY <1>3
  <2> HIDE DEF s, q
  <2> QED
    BY <1>4, <2>1, <2>2 DEF Compilations
<1> QED
  BY <1>1, <1>2, <1>3, <1>4, <1>6, <1>7 DEF a, e

LEMMA EndLevel ==
    ASSUME NEW c \in Compilations(Seq(Actions)), NEW ch \in Channels, NEW level \in Levels
    PROVE LET e == EmitLevel(c, "update", ch, level)
              v == c.actions
              w == e.actions
          IN /\ e \in Compilations(Seq(Actions)) /\ e.accepted = c.accepted
             /\ v \in Seq(Actions) /\ w \in Seq(Actions)
             /\ Len(v) \in Nat /\ Len(w) = Len(v) + 1 /\ \A i \in 1..Len(v) : w[i] = v[i]
             /\ w[Len(w)].kind = "update" /\ w[Len(w)].ch = ch /\ w[Len(w)].level = level
             /\ ~w[Len(w)].faultOnly
<1> DEFINE b == Emit(c, "update", ch, level)
           e == EmitLevel(c, "update", ch, level)
<1>1. Fits("update", ch, level)
  BY DEF Fits, SetKinds, Kinds
<1>2. e = Remember(b, ch, level)
  BY DEF EmitLevel
<1>3. b \in Compilations(Seq(Actions)) /\ b.accepted = c.accepted
  BY <1>1, EndStep
<1> HIDE DEF e, b
<1>4. /\ e \in Compilations(Seq(Actions)) /\ e.accepted = c.accepted /\ e.actions = b.actions
  BY <1>2, <1>3, RememberFields
<1> QED
  BY <1>1, <1>4, EndStep DEF e, b

LEMMA FinalStateVisit ==
    ASSUME NEW c \in Compilations(Seq(Actions)), NEW node \in FinalBlocks,
           node.type = "final_state", ~FinalRefused(node, c),
           \A j \in 1..Len(c.actions) : c.actions[j].retains => c.actions[j].completionOnly
    PROVE LET r == VisitFinalState(node, c)
              v == c.actions
              w == r.actions
          IN /\ r \in Compilations(Seq(Actions)) /\ r.accepted = c.accepted
             /\ v \in Seq(Actions) /\ w \in Seq(Actions)
             /\ Len(v) < Len(w) /\ \A i \in 1..Len(v) : w[i] = v[i]
             /\ \A i \in (Len(v) + 1)..Len(w) : w[i].ch = node.ch /\ EndAction(w[i])
             /\ DeclaredAt(w, Len(w), node)
<1> DEFINE hold == node.policy = "hold"
           kind == IF hold THEN "assert" ELSE "off"
           moved == IF node.level = Unset THEN c ELSE EmitLevel(c, "update", node.ch, node.level)
           ended == Emit(moved, kind, node.ch, Unset)
           v == c.actions
           s == ended.actions
           n == Len(v)
           w == Ending(s, n, TRUE, hold)
           r == VisitFinalState(node, c)
<1>1. /\ node.ch \in Channels
      /\ node.level \in Literals \cup {Unset} /\ node.policy \in {"off", "hold"}
  BY FinalForm
<1>2. r = [ended EXCEPT !.context = c.context, !.actions = w]
  BY DEF VisitFinalState
<1>3. v \in Seq(Actions) /\ n \in Nat /\ c.context \in Setpoints
  BY CompilationFields, LenProperties
<1>4. Fits(kind, node.ch, Unset)
  BY <1>1 DEF Fits, Kinds, SetKinds
<1> HIDE DEF kind
\* The level, when the final state names one.
<1>5. /\ moved \in Compilations(Seq(Actions)) /\ moved.accepted = c.accepted
      /\ moved.actions \in Seq(Actions) /\ Len(moved.actions) \in Nat
      /\ \A i \in 1..n : moved.actions[i] = v[i]
      /\ node.level = Unset => Len(moved.actions) = n
      /\ node.level # Unset =>
           /\ Len(moved.actions) = n + 1
           /\ moved.actions[n + 1].kind = "update" /\ moved.actions[n + 1].ch = node.ch
           /\ moved.actions[n + 1].level = node.level
           /\ ~moved.actions[n + 1].faultOnly
  <2>1. CASE node.level = Unset
    <3>1. moved = c
      BY <2>1
    <3> HIDE DEF moved
    <3> QED
      BY <1>3, <2>1, <3>1
  <2>2. CASE node.level # Unset
    <3> DEFINE level == node.level
    <3>1. moved = EmitLevel(c, "update", node.ch, level)
      BY <2>2
    <3>2. level \in Levels
      BY <1>1, <2>2, LevelsAreNumbers
    <3> HIDE DEF moved, level
    <3>3. /\ moved \in Compilations(Seq(Actions)) /\ moved.accepted = c.accepted
          /\ moved.actions \in Seq(Actions)
          /\ Len(moved.actions) = n + 1 /\ \A i \in 1..n : moved.actions[i] = v[i]
          /\ moved.actions[Len(moved.actions)].kind = "update"
          /\ moved.actions[Len(moved.actions)].ch = node.ch
          /\ moved.actions[Len(moved.actions)].level = level
          /\ ~moved.actions[Len(moved.actions)].faultOnly
      BY <1>1, <3>1, <3>2, EndLevel
    <3> QED
      BY <1>3, <2>2, <3>3 DEF level
  <2> QED
    BY <2>1, <2>2
<1> HIDE DEF moved
<1> DEFINE k == Len(moved.actions)
\* The output, switched off or asserted.
<1>6. /\ ended \in Compilations(Seq(Actions)) /\ ended.accepted = c.accepted
      /\ s \in Seq(Actions) /\ Len(s) = k + 1
      /\ \A i \in 1..k : s[i] = moved.actions[i]
      /\ s[k + 1].kind = kind /\ s[k + 1].ch = node.ch /\ s[k + 1].level = Unset
      /\ ~s[k + 1].faultOnly
  BY <1>4, <1>5, EndStep
<1> HIDE DEF ended
<1>7. k \in Nat /\ k \in {n, n + 1} /\ n \in 0..Len(s)
  BY <1>3, <1>5, <1>6
<1>8. hold \in BOOLEAN
  OBVIOUS
<1> HIDE DEF s, hold, n
<1>9. /\ w \in Seq(Actions) /\ Len(w) = Len(s)
      /\ \A i \in 1..n : w[i] = s[i]
      /\ \A i \in (n + 1)..Len(s) :
           /\ w[i].kind = s[i].kind /\ w[i].ch = s[i].ch /\ w[i].level = s[i].level
           /\ w[i].finally /\ (w[i].completionOnly <=> TRUE)
           /\ w[i].faultOnly = s[i].faultOnly /\ (w[i].retains <=> hold /\ i = Len(s))
  <2>1. EndOf(w, s, n, TRUE, hold)
    BY <1>6, <1>7, <1>8, EndingIs
  <2> HIDE DEF w
  <2> QED
    BY <2>1 DEF EndOf
<1> HIDE DEF w
<1>10. r \in Compilations(Seq(Actions)) /\ r.accepted = c.accepted /\ r.actions = w
  <2> DEFINE context == c.context
  <2>1. context \in Setpoints /\ r = [ended EXCEPT !.context = context, !.actions = w]
    BY <1>2, <1>3
  <2> HIDE DEF context, r
  <2>2. LET e == [ended EXCEPT !.context = context, !.actions = w] IN
        e \in Compilations(Seq(Actions)) /\ e.accepted = ended.accepted /\ e.actions = w
    BY <1>6, <1>9, <2>1 DEF Compilations
  <2> QED
    BY <1>6, <2>1, <2>2
<1>11. Len(w) = k + 1 /\ k \in Nat /\ k \in {n, n + 1} /\ n \in Nat
  BY <1>3, <1>6, <1>7, <1>9 DEF n
<1>12. \A i \in 1..n : w[i] = v[i]
  BY <1>5, <1>6, <1>9, <1>11
<1>13. /\ w[k + 1].kind = kind /\ w[k + 1].ch = node.ch /\ w[k + 1].level = Unset
       /\ w[k + 1].finally /\ w[k + 1].completionOnly /\ ~w[k + 1].faultOnly
       /\ (w[k + 1].retains <=> hold)
  <2>1. k + 1 \in (n + 1)..Len(s) /\ k + 1 = Len(s)
    BY <1>6, <1>11
  <2> QED
    BY <1>6, <1>9, <2>1
<1>14. k = n + 1 =>
         /\ w[k].kind = "update" /\ w[k].ch = node.ch /\ w[k].level = node.level
         /\ w[k].finally /\ w[k].completionOnly /\ ~w[k].faultOnly /\ ~w[k].retains
  <2> SUFFICES ASSUME k = n + 1
               PROVE /\ w[k].kind = "update" /\ w[k].ch = node.ch /\ w[k].level = node.level
                     /\ w[k].finally /\ w[k].completionOnly /\ ~w[k].faultOnly /\ ~w[k].retains
    OBVIOUS
  <2>1. k \in (n + 1)..Len(s) /\ k # Len(s) /\ k \in 1..k
    BY <1>6, <1>11
  <2>2. node.level # Unset
    BY <1>5, <1>11
  <2>3. s[k] = moved.actions[n + 1]
    BY <1>6, <2>1
  <2> QED
    BY <1>5, <1>9, <2>1, <2>2, <2>3
<1>15. k = n <=> node.level = Unset
  BY <1>5, <1>11
<1>16. kind = (IF node.policy = "hold" THEN "assert" ELSE "off") /\ (hold <=> node.policy = "hold")
  BY DEF kind, hold
<1>17. \A i \in (n + 1)..Len(w) : w[i].ch = node.ch /\ EndAction(w[i])
  <2>1. w[k + 1].ch = node.ch /\ EndAction(w[k + 1])
    BY <1>13, <1>16 DEF EndAction
  <2>2. k = n + 1 => w[k].ch = node.ch /\ EndAction(w[k])
    BY <1>14 DEF EndAction
  <2>3. \A i \in (n + 1)..Len(w) : i = k + 1 \/ (i = k /\ k = n + 1)
    BY <1>11
  <2> QED
    BY <2>1, <2>2, <2>3
<1>18. \A j \in 1..Len(w) : w[j].retains /\ w[j].ch = node.ch => j = Len(w)
  <2> SUFFICES ASSUME NEW j \in 1..Len(w), w[j].retains, w[j].ch = node.ch, j # Len(w)
               PROVE FALSE
    OBVIOUS
  <2>1. CASE j \in 1..n
    <3>1. v[j].retains /\ v[j].ch = node.ch /\ j \in DOMAIN v
      BY <1>3, <1>12, <2>1, LenProperties DEF n
    <3>2. v[j].completionOnly
      BY <2>1, <3>1 DEF n
    <3> QED
      BY <3>1, <3>2 DEF FinalRefused, CompletionOf
  <2>2. CASE j \notin 1..n
    <3>1. j = k /\ k = n + 1
      BY <1>11, <2>2
    <3> QED
      BY <1>14, <3>1
  <2> QED
    BY <2>1, <2>2
<1>19. DeclaredAt(w, Len(w), node)
  <2>1. w[Len(w)].ch = node.ch /\ w[Len(w)].completionOnly
        /\ w[Len(w)].kind = (IF node.policy = "hold" THEN "assert" ELSE "off")
        /\ (node.policy = "hold" => w[Len(w)].retains)
    BY <1>11, <1>13, <1>16
  <2>2. node.level # Unset =>
          /\ Len(w) > 1 /\ w[Len(w) - 1].kind = "update" /\ w[Len(w) - 1].ch = node.ch
          /\ w[Len(w) - 1].level = node.level /\ w[Len(w) - 1].completionOnly
    <3> SUFFICES ASSUME node.level # Unset
                 PROVE /\ Len(w) > 1 /\ w[Len(w) - 1].kind = "update" /\ w[Len(w) - 1].ch = node.ch
                       /\ w[Len(w) - 1].level = node.level /\ w[Len(w) - 1].completionOnly
      OBVIOUS
    <3>1. k = n + 1 /\ Len(w) - 1 = k /\ Len(w) > 1
      BY <1>11, <1>15
    <3> QED
      BY <1>14, <3>1
  <2>3. \A j \in (Len(w) + 1)..Len(w) : w[j].ch # node.ch
    BY <1>11
  <2> QED
    BY <1>18, <2>1, <2>2, <2>3 DEF DeclaredAt
<1>20. n < Len(w)
  BY <1>11
<1> QED
  BY <1>3, <1>9, <1>10, <1>12, <1>17, <1>19, <1>20 DEF n

LEMMA ShutdownVisit ==
    ASSUME NEW c \in Compilations(Seq(Actions)), NEW node \in FinalBlocks,
           node.type \in {"off", "ramp"},
           ~\E i \in DOMAIN c.actions : c.actions[i].completionOnly
    PROVE LET r == VisitShutdown(node, c)
              v == c.actions
              w == r.actions
          IN /\ r \in Compilations(Seq(Actions)) /\ r.accepted = c.accepted
             /\ v \in Seq(Actions) /\ w \in Seq(Actions)
             /\ Len(v) \in Nat /\ Len(w) = Len(v) + 1 /\ \A i \in 1..Len(v) : w[i] = v[i]
             /\ EndAction(w[Len(w)])
<1> DEFINE ended == Emit(c, node.type, node.ch, Unset)
           v == c.actions
           s == ended.actions
           n == Len(v)
           w == Ending(s, n, FALSE, FALSE)
           r == VisitShutdown(node, c)
<1>1. r = [ended EXCEPT !.actions = w]
  BY DEF VisitShutdown
<1>2. Fits(node.type, node.ch, Unset)
  BY FinalForm DEF Fits, Kinds, SetKinds
<1>3. /\ ended \in Compilations(Seq(Actions)) /\ ended.accepted = c.accepted
      /\ v \in Seq(Actions) /\ s \in Seq(Actions)
      /\ n \in Nat /\ Len(s) = n + 1 /\ \A i \in 1..n : s[i] = v[i]
      /\ s[n + 1].kind = node.type /\ s[n + 1].level = Unset
  BY <1>2, EndStep
<1> HIDE DEF ended, s
<1>4. n \in 0..Len(s) /\ FALSE \in BOOLEAN
  BY <1>3
<1> HIDE DEF n
<1>5. /\ w \in Seq(Actions) /\ Len(w) = Len(s)
      /\ \A i \in 1..n : w[i] = s[i]
      /\ \A i \in (n + 1)..Len(s) :
           /\ w[i].kind = s[i].kind /\ w[i].ch = s[i].ch /\ w[i].level = s[i].level
           /\ w[i].finally /\ (w[i].completionOnly <=> FALSE)
           /\ w[i].faultOnly = s[i].faultOnly /\ (w[i].retains <=> FALSE /\ i = Len(s))
  <2>1. EndOf(w, s, n, FALSE, FALSE)
    BY <1>3, <1>4, EndingIs
  <2> HIDE DEF w
  <2> QED
    BY <2>1 DEF EndOf
<1> HIDE DEF w
<1>6. r \in Compilations(Seq(Actions)) /\ r.accepted = c.accepted /\ r.actions = w
  BY <1>1, <1>3, <1>5, ActionsFields
<1>7. EndAction(w[n + 1])
  <2>1. n + 1 \in (n + 1)..Len(s)
    BY <1>3
  <2> QED
    BY <1>3, <1>5, <2>1 DEF EndAction
<1>8. Len(w) = n + 1 /\ \A i \in 1..n : w[i] = v[i]
  BY <1>3, <1>5
<1> QED
  BY <1>3, <1>5, <1>6, <1>7, <1>8 DEF n

LEMMA DeclaredStays ==
    ASSUME NEW v, NEW w, Len(v) \in Nat, Len(w) \in Nat, Len(v) <= Len(w),
           \A i \in 1..Len(v) : w[i] = v[i],
           NEW f, Declared(v, f), \A i \in (Len(v) + 1)..Len(w) : w[i].ch # f.ch
    PROVE Declared(w, f)
<1>1. PICK i \in 1..Len(v) : DeclaredAt(v, i, f)
  BY DEF Declared
<1>2. \A j \in 1..Len(w) : w[j].ch = f.ch => j \in 1..Len(v) /\ w[j] = v[j]
  OBVIOUS
<1>3. i \in 1..Len(w) /\ w[i] = v[i]
  OBVIOUS
<1>4. i > 1 => w[i - 1] = v[i - 1]
  OBVIOUS
<1>5. \A j \in (i + 1)..Len(w) : w[j].ch # f.ch
  <2> SUFFICES ASSUME NEW j \in (i + 1)..Len(w), w[j].ch = f.ch PROVE FALSE
    OBVIOUS
  <2>1. j \in (i + 1)..Len(v) /\ w[j] = v[j]
    BY <1>2
  <2> QED
    BY <1>1, <2>1 DEF DeclaredAt
<1>6. \A j \in 1..Len(w) : w[j].retains /\ w[j].ch = f.ch => j = i
  BY <1>1, <1>2 DEF DeclaredAt
<1>7. DeclaredAt(w, i, f)
  BY <1>1, <1>3, <1>4, <1>5, <1>6 DEF DeclaredAt
<1> QED
  BY <1>3, <1>7 DEF Declared

LEMMA EndsGrow ==
    ASSUME NEW m, NEW v, Ends(m, v), NEW w \in Seq(Actions), Len(v) <= Len(w),
           \A i \in 1..Len(v) : w[i] = v[i],
           \A i \in (Len(v) + 1)..Len(w) : EndAction(w[i])
    PROVE Ends(m, w)
<1>1. Len(m) \in Nat /\ Len(v) \in Nat /\ Len(w) \in Nat
  BY LenProperties DEF Ends
<1>2. \A i \in 1..Len(m) : w[i] = m[i]
  BY <1>1 DEF Ends
<1>3. \A i \in (Len(m) + 1)..Len(w) : EndAction(w[i])
  <2> TAKE i \in (Len(m) + 1)..Len(w)
  <2>1. CASE i <= Len(v)
    <3>1. i \in 1..Len(v) /\ i \in (Len(m) + 1)..Len(v)
      BY <1>1, <2>1
    <3>2. w[i] = v[i] /\ EndAction(v[i])
      BY <3>1 DEF Ends
    <3> QED
      BY <3>2
  <2>2. CASE i > Len(v)
    BY <1>1, <2>2
  <2> QED
    BY <1>1, <2>1, <2>2
<1> QED
  BY <1>1, <1>2, <1>3 DEF Ends

LEMMA RetainsCompletes ==
    ASSUME NEW m, NEW w, Ends(m, w), NEW i \in 1..Len(w), w[i].retains
    PROVE w[i].completionOnly
<1>1. Len(m) \in Nat /\ Len(w) \in Nat
  BY LenProperties DEF Ends
<1>2. CASE i <= Len(m)
  <2>1. w[i] = m[i] /\ m[i] \in MainActions
    BY <1>1, <1>2, ElementOfSeq DEF Ends
  <2> QED
    BY <2>1 DEF MainActions
<1>3. CASE i > Len(m)
  <2>1. EndAction(w[i])
    BY <1>1, <1>3 DEF Ends
  <2> QED
    BY <2>1 DEF EndAction
<1> QED
  BY <1>1, <1>2, <1>3

\* A block of Finally adds its actions, keeps what the others declared, and declares
\* its own final state.
Finalises(m, c, r, node) ==
    /\ r \in Compilations(Seq(Actions)) /\ Ends(m, r.actions)
    /\ r.accepted =>
         /\ c.accepted
         /\ node.type = "final_state" => Declared(r.actions, node)
         /\ \A f : Declared(c.actions, f) => Declared(r.actions, f)

LEMMA Completes ==
    ASSUME NEW c, NEW f, Len(c.actions) \in Nat, DOMAIN c.actions = 1..Len(c.actions),
           Declared(c.actions, f)
    PROVE CompletionOf(c, f.ch) /\ \E i \in DOMAIN c.actions : c.actions[i].completionOnly
BY DEF Declared, DeclaredAt, CompletionOf

LEMMA FinallyStep ==
    ASSUME NEW c \in Compilations(Seq(Actions)), NEW m, Ends(m, c.actions), NEW node \in FinalBlocks
    PROVE Finalises(m, c, VisitFinally(node, c), node)
<1> DEFINE context == Fresh.context
           clean == [c EXCEPT !.context = context]
           r == VisitFinally(node, c)
           v == c.actions
           w == r.actions
<1>1. context \in Setpoints
  BY FreshIsSound, SoundFields
<1>2. /\ v \in Seq(Actions) /\ Len(v) \in Nat /\ DOMAIN v = 1..Len(v)
      /\ \A j \in 1..Len(v) : v[j].retains => v[j].completionOnly
  <2>1. v \in Seq(Actions)
    BY CompilationFields
  <2> QED
    BY <2>1, LenProperties, RetainsCompletes
<1>3. r = IF ~c.accepted THEN c
          ELSE IF node.type = "final_state" THEN VisitFinalState(node, clean)
          ELSE VisitShutdown(node, clean)
  BY DEF VisitFinally
<1> HIDE DEF context
<1>4. clean \in Compilations(Seq(Actions)) /\ clean.actions = v
  BY <1>1, ContextFields
<1> HIDE DEF r, clean
<1>5. CASE ~c.accepted
  <2>1. r = c
    BY <1>3, <1>5
  <2> QED
    BY <1>5, <2>1 DEF Finalises, r
<1>6. CASE c.accepted /\ r = Refuse(clean)
  <2>1. r \in Compilations(Seq(Actions)) /\ ~r.accepted /\ r.actions = v
    BY <1>4, <1>6, RefuseFields
  <2> QED
    BY <2>1 DEF Finalises, r
<1>7. CASE c.accepted /\ node.type = "final_state" /\ ~FinalRefused(node, clean)
  <2>1. r = VisitFinalState(node, clean)
    BY <1>3, <1>7
  <2>2. /\ r \in Compilations(Seq(Actions))
        /\ w \in Seq(Actions)
        /\ Len(v) < Len(w) /\ \A i \in 1..Len(v) : w[i] = v[i]
        /\ \A i \in (Len(v) + 1)..Len(w) : w[i].ch = node.ch /\ EndAction(w[i])
        /\ DeclaredAt(w, Len(w), node)
    BY <1>2, <1>4, <1>7, <2>1, FinalStateVisit
  <2>3. Len(w) \in Nat /\ Len(w) \in 1..Len(w)
    BY <1>2, <2>2, LenProperties
  <2>4. Ends(m, w)
    BY SMTT(30), <1>2, <2>2, <2>3, EndsGrow
  <2>5. Declared(w, node)
    BY <2>2, <2>3 DEF Declared
  <2>6. ASSUME NEW f, Declared(v, f) PROVE Declared(w, f)
    <3>1. CompletionOf(clean, f.ch)
      BY <1>2, <1>4, <2>6, Completes
    <3>2. node.ch # f.ch
      BY <1>7, <3>1 DEF FinalRefused
    <3>3. \A i \in (Len(v) + 1)..Len(w) : w[i].ch # f.ch
      BY <2>2, <3>2
    <3>4. Len(v) <= Len(w) /\ \A i \in 1..Len(v) : w[i] = v[i]
      BY <1>2, <2>2, <2>3
    <3> HIDE DEF v, w
    <3> QED
      BY <1>2, <2>3, <2>6, <3>3, <3>4, DeclaredStays
  <2> QED
    BY <1>7, <2>2, <2>4, <2>5, <2>6 DEF Finalises, r
<1>8. CASE /\ c.accepted /\ node.type \in {"off", "ramp"}
           /\ ~\E i \in DOMAIN v : v[i].completionOnly
  <2>1. r = VisitShutdown(node, clean)
    BY <1>3, <1>8
  <2>2. /\ r \in Compilations(Seq(Actions))
        /\ w \in Seq(Actions)
        /\ Len(w) = Len(v) + 1 /\ \A i \in 1..Len(v) : w[i] = v[i]
        /\ EndAction(w[Len(w)])
    BY <1>4, <1>8, <2>1, ShutdownVisit
  <2>3. \A i \in (Len(v) + 1)..Len(w) : i = Len(w)
    BY <1>2, <2>2
  <2>4. Ends(m, w)
    BY <1>2, <2>2, <2>3, EndsGrow
  <2>5. ASSUME NEW f, Declared(v, f) PROVE FALSE
    BY <1>2, <1>8, <2>5, Completes
  <2> QED
    BY <1>8, <2>2, <2>4, <2>5 DEF Finalises, r
<1>9. node.type \in {"on", "off", "ramp", "final_state"}
  BY FinalForm
<1>10. \/ ~c.accepted
       \/ c.accepted /\ r = Refuse(clean)
       \/ c.accepted /\ node.type = "final_state" /\ ~FinalRefused(node, clean)
       \/ c.accepted /\ node.type \in {"off", "ramp"} /\ ~\E i \in DOMAIN v : v[i].completionOnly
  BY <1>3, <1>4, <1>9 DEF VisitFinalState, VisitShutdown
<1> QED
  BY <1>5, <1>6, <1>7, <1>8, <1>10

LEMMA FinallyAll ==
    ASSUME NEW c \in Compilations(Seq(Actions)), NEW m, Ends(m, c.actions),
           NEW ends \in Seq(FinalBlocks)
    PROVE LET r == FinallyOf(ends, c) IN
          /\ r \in Compilations(Seq(Actions)) /\ Ends(m, r.actions)
          /\ r.accepted =>
               /\ c.accepted
               /\ \A f \in ToSet(ends) : f.type = "final_state" => Declared(r.actions, f)
<1>1. Len(ends) \in Nat /\ \A i \in 1..Len(ends) : ends[i] \in FinalBlocks
  BY LenProperties, ElementOfSeq
<1>2. PICK g : Finallys(g, ends, c) /\ FinallyOf(ends, c) = g[Len(ends)]
  BY <1>1, FinallyDef
<1> DEFINE Good(r, i) ==
             /\ r \in Compilations(Seq(Actions)) /\ Ends(m, r.actions)
             /\ r.accepted =>
                  /\ c.accepted
                  /\ \A q \in 1..i : ends[q].type = "final_state" => Declared(r.actions, ends[q])
           S == {i \in 0..Len(ends) : Good(g[i], i)}
<1>3. 0 \in S
  <2>1. g[0] = c
    BY <1>2 DEF Finallys
  <2>2. Good(c, 0)
    OBVIOUS
  <2> QED
    BY <1>1, <2>1, <2>2
<1>4. ASSUME NEW i \in 0..(Len(ends) - 1), i \in S PROVE i + 1 \in S
  <2> DEFINE before == g[i]
             next == g[i + 1]
             k == i + 1
             node == ends[k]
  <2>1. k \in 1..Len(ends) /\ k - 1 = i /\ node \in FinalBlocks
        /\ \A q \in 1..k : q = k \/ q \in 1..i
    BY <1>1
  <2>2. next = VisitFinally(node, before)
    BY <1>2, <2>1 DEF Finallys
  <2>3. Good(before, i)
    BY <1>4
  <2> HIDE DEF before, next, k, node
  <2>4. Finalises(m, before, next, node)
    BY <2>1, <2>2, <2>3, FinallyStep
  <2>5. Good(next, k)
    <3>1. ASSUME next.accepted
          PROVE /\ c.accepted
                /\ \A q \in 1..k : ends[q].type = "final_state" => Declared(next.actions, ends[q])
      <4>1. /\ before.accepted
            /\ node.type = "final_state" => Declared(next.actions, node)
            /\ \A f : Declared(before.actions, f) => Declared(next.actions, f)
        BY <2>4, <3>1 DEF Finalises
      <4>2. /\ c.accepted
            /\ \A q \in 1..i : ends[q].type = "final_state" => Declared(before.actions, ends[q])
        BY <2>3, <4>1
      <4> QED
        BY <2>1, <4>1, <4>2 DEF node
    <3>2. next \in Compilations(Seq(Actions)) /\ Ends(m, next.actions)
      BY <2>4 DEF Finalises
    <3> QED
      BY <3>1, <3>2
  <2>6. k \in S
    BY <2>1, <2>5 DEF next, k
  <2> QED
    BY <2>6 DEF k
<1> HIDE DEF S
<1>5. \A i \in 0..Len(ends) : i \in S
  BY <1>1, <1>3, <1>4, Induction
<1>6. Good(g[Len(ends)], Len(ends))
  BY <1>1, <1>5 DEF S
<1>7. \A f \in ToSet(ends) : \E q \in 1..Len(ends) : f = ends[q]
  BY InSeq
<1> QED
  BY <1>2, <1>6, <1>7

\* What marking leaves: an action of Finally that a completed run does not execute.
MarkOf(v, w) ==
    /\ v \in Seq(Actions) /\ Len(v) = Len(w)
    /\ \A i \in 1..Len(w) :
         /\ v[i].kind = w[i].kind /\ v[i].ch = w[i].ch /\ v[i].level = w[i].level
         /\ v[i].finally = w[i].finally /\ v[i].completionOnly = w[i].completionOnly
         /\ v[i].retains = w[i].retains
         /\ v[i].faultOnly => v[i].finally /\ ~v[i].completionOnly
         /\ w[i] \in MainActions => v[i] = w[i]

LEMMA MarkedAction ==
    ASSUME NEW a \in Actions, NEW faultOnly \in BOOLEAN
    PROVE LET e == [a EXCEPT !.faultOnly = faultOnly] IN
          /\ e \in Actions
          /\ e.kind = a.kind /\ e.ch = a.ch /\ e.level = a.level
          /\ e.finally = a.finally /\ e.completionOnly = a.completionOnly
          /\ e.faultOnly = faultOnly /\ e.retains = a.retains
          /\ a.faultOnly = faultOnly => e = a
<1> DEFINE e == [a EXCEPT !.faultOnly = faultOnly]
<1>1. a = [kind |-> a.kind, ch |-> a.ch, level |-> a.level, setpoints |-> a.setpoints,
           loopPath |-> a.loopPath, finally |-> a.finally, completionOnly |-> a.completionOnly,
           faultOnly |-> a.faultOnly, retains |-> a.retains]
  BY DEF Actions
<1>2. e = [a EXCEPT !.faultOnly = faultOnly]
  OBVIOUS
<1> HIDE DEF e
<1>3. e = [kind |-> a.kind, ch |-> a.ch, level |-> a.level, setpoints |-> a.setpoints,
           loopPath |-> a.loopPath, finally |-> a.finally, completionOnly |-> a.completionOnly,
           faultOnly |-> faultOnly, retains |-> a.retains]
  BY <1>1, <1>2
<1>4. /\ e.kind = a.kind /\ e.ch = a.ch /\ e.level = a.level
      /\ e.finally = a.finally /\ e.completionOnly = a.completionOnly
      /\ e.faultOnly = faultOnly /\ e.retains = a.retains
  BY <1>3
<1>5. e \in Actions
  <2>1. /\ a.kind \in Kinds /\ a.ch \in Channels \cup {NoChannel}
        /\ a.level \in Levels \cup {Unset} /\ a.setpoints \in Setpoints
        /\ a.loopPath \in SUBSET AllBlocks /\ a.finally \in BOOLEAN
        /\ a.completionOnly \in BOOLEAN /\ a.retains \in BOOLEAN
        /\ Fits(a.kind, a.ch, a.level)
    BY DEF Actions
  <2>2. e \in [kind : Kinds, ch : Channels \cup {NoChannel}, level : Levels \cup {Unset},
               setpoints : Setpoints, loopPath : SUBSET AllBlocks, finally : BOOLEAN,
               completionOnly : BOOLEAN, faultOnly : BOOLEAN, retains : BOOLEAN]
    BY <1>3, <2>1
  <2> QED
    BY <1>4, <2>1, <2>2 DEF Actions
<1>6. a.faultOnly = faultOnly => e = a
  BY <1>1, <1>3
<1> QED
  BY <1>4, <1>5, <1>6 DEF e

LEMMA MarkedIs ==
    ASSUME NEW c \in Compilations(Seq(Actions))
    PROVE LET r == FaultOnlyMarked(c) IN
          (r.accepted => c.accepted) /\ MarkOf(r.actions, c.actions)
<1> DEFINE w == c.actions
           Mark(i) == Overridden(c, w[i])
           With(a, faultOnly) == [a EXCEPT !.faultOnly = faultOnly]
           v == [i \in DOMAIN w |-> With(w[i], Mark(i))]
           r == FaultOnlyMarked(c)
<1>1. w \in Seq(Actions) /\ Len(w) \in Nat /\ DOMAIN w = 1..Len(w)
      /\ \A i \in 1..Len(w) : w[i] \in Actions
  BY CompilationFields, LenProperties, ElementOfSeq
<1>2. r = [c EXCEPT !.actions = v]
  BY DEF FaultOnlyMarked
<1>3. \A i \in 1..Len(w) : Mark(i) \in BOOLEAN /\ (Mark(i) => w[i].finally /\ ~w[i].completionOnly)
  BY DEF Overridden
<1> DEFINE Marked(e, a, faultOnly) ==
             /\ e \in Actions
             /\ e.kind = a.kind /\ e.ch = a.ch /\ e.level = a.level
             /\ e.finally = a.finally /\ e.completionOnly = a.completionOnly
             /\ e.faultOnly = faultOnly /\ e.retains = a.retains
             /\ a.faultOnly = faultOnly => e = a
<1>4. \A a \in Actions, faultOnly \in BOOLEAN : Marked(With(a, faultOnly), a, faultOnly)
  BY MarkedAction
<1>5. \A i \in 1..Len(w) : v[i] = With(w[i], Mark(i))
  BY <1>1
<1> HIDE DEF With, Mark, Marked
<1>6. \A i \in 1..Len(w) : Marked(v[i], w[i], Mark(i))
  BY <1>1, <1>3, <1>4, <1>5
<1>7. v \in Seq(Actions) /\ Len(v) = Len(w)
  <2>1. \A i \in 1..Len(w) : v[i] \in Actions
    BY <1>6 DEF Marked
  <2>2. v = [i \in 1..Len(w) |-> v[i]]
    BY <1>1
  <2> HIDE DEF v
  <2>3. v \in [1..Len(w) -> Actions]
    BY <2>1, <2>2
  <2> QED
    BY <1>1, <2>3
<1> HIDE DEF v, r
<1>8. ASSUME NEW i \in 1..Len(w)
      PROVE /\ v[i].kind = w[i].kind /\ v[i].ch = w[i].ch /\ v[i].level = w[i].level
            /\ v[i].finally = w[i].finally /\ v[i].completionOnly = w[i].completionOnly
            /\ v[i].retains = w[i].retains
            /\ v[i].faultOnly => v[i].finally /\ ~v[i].completionOnly
            /\ w[i] \in MainActions => v[i] = w[i]
  <2> DEFINE mark == Mark(i)
  <2>1. /\ v[i].kind = w[i].kind /\ v[i].ch = w[i].ch /\ v[i].level = w[i].level
        /\ v[i].finally = w[i].finally /\ v[i].completionOnly = w[i].completionOnly
        /\ v[i].faultOnly = mark /\ v[i].retains = w[i].retains
        /\ w[i].faultOnly = mark => v[i] = w[i]
    BY <1>6 DEF Marked
  <2>2. mark \in BOOLEAN /\ (mark => w[i].finally /\ ~w[i].completionOnly)
    BY <1>3
  <2> HIDE DEF mark
  <2>3. v[i].faultOnly => v[i].finally /\ ~v[i].completionOnly
    BY <2>1, <2>2
  <2>4. ASSUME w[i] \in MainActions PROVE v[i] = w[i]
    <3>1. ~w[i].finally /\ w[i].faultOnly = FALSE
      BY <2>4 DEF MainActions, Actions
    <3>2. mark = FALSE
      BY <2>2, <3>1
    <3> QED
      BY <2>1, <3>1, <3>2
  <2> QED
    BY <2>1, <2>3, <2>4
<1>9. MarkOf(v, w)
  BY <1>7, <1>8 DEF MarkOf
<1>10. r.accepted = c.accepted /\ r.actions = v
  BY <1>1, <1>2, <1>7, ActionsFields
<1> QED
  BY <1>9, <1>10 DEF r

LEMMA MarkedEnds ==
    ASSUME NEW m, NEW w, Ends(m, w), NEW v, MarkOf(v, w)
    PROVE Ends(m, v) /\ \A f : Declared(w, f) => Declared(v, f)
<1>1. /\ Len(m) \in Nat /\ Len(w) \in Nat /\ Len(v) = Len(w) /\ v \in Seq(Actions)
      /\ Len(m) <= Len(w)
  BY LenProperties DEF Ends, MarkOf
<1>2. \A i \in 1..Len(m) : v[i] = m[i]
  <2> TAKE i \in 1..Len(m)
  <2>1. i \in 1..Len(w) /\ w[i] = m[i] /\ m[i] \in MainActions
    BY <1>1, ElementOfSeq DEF Ends
  <2> QED
    BY <2>1 DEF MarkOf
<1>3. \A i \in (Len(m) + 1)..Len(v) : EndAction(v[i])
  <2> TAKE i \in (Len(m) + 1)..Len(v)
  <2>1. i \in 1..Len(w) /\ EndAction(w[i])
    BY <1>1 DEF Ends
  <2> QED
    BY <2>1 DEF MarkOf, EndAction
<1>4. Ends(m, v)
  BY <1>1, <1>2, <1>3 DEF Ends
<1>5. ASSUME NEW f, Declared(w, f) PROVE Declared(v, f)
  <2>1. PICK i \in 1..Len(w) : DeclaredAt(w, i, f)
    BY <1>5 DEF Declared
  <2>2. \A j \in 1..Len(w) : /\ v[j].kind = w[j].kind /\ v[j].ch = w[j].ch /\ v[j].level = w[j].level
                             /\ v[j].completionOnly = w[j].completionOnly
                             /\ v[j].retains = w[j].retains
    BY DEF MarkOf
  <2>3. \A j \in (i + 1)..Len(w) : j \in 1..Len(w)
    BY <1>1
  <2>4. i > 1 => i - 1 \in 1..Len(w)
    BY <1>1
  <2>5. \A j \in (i + 1)..Len(v) : v[j].ch # f.ch
    BY <1>1, <2>1, <2>2, <2>3 DEF DeclaredAt
  <2>6. \A j \in 1..Len(v) : v[j].retains /\ v[j].ch = f.ch => j = i
    BY <1>1, <2>1, <2>2 DEF DeclaredAt
  <2>7. DeclaredAt(v, i, f)
    BY <2>1, <2>2, <2>4, <2>5, <2>6 DEF DeclaredAt
  <2> QED
    BY <1>1, <2>7 DEF Declared
<1> QED
  BY <1>4, <1>5

-----------------------------------------------------------------------------
(* An accepted plan.                                                       *)

\* The actions w of a plan: those of the recipe, m, and those of Finally.
Compiled(m, w, nodes, ends) ==
    /\ Ends(m, w)
    /\ \A i \in 1..Len(w) : w[i].faultOnly => w[i].finally /\ ~w[i].completionOnly
    /\ Backed(m) /\ Truth(m) /\ Stored(m) = PointsOf(nodes)
    /\ \A f \in ToSet(ends) : f.type = "final_state" => Declared(w, f)
    /\ StateFlow(w)[Len(w)].valid

LEMMA MainsAreActions ==
    /\ MainActions \subseteq Actions /\ Seq(MainActions) \subseteq Seq(Actions)
    /\ Mains \subseteq Compilations(Seq(Actions))
<1>1. MainActions \subseteq Actions
  BY DEF MainActions
<1>2. Seq(MainActions) \subseteq Seq(Actions)
  BY <1>1, SeqGrows
<1> QED
  BY <1>1, <1>2 DEF Mains, Compilations

LEMMA EndsSelf ==
    ASSUME NEW m \in Seq(MainActions)
    PROVE Ends(m, m)
BY MainsAreActions, LenProperties DEF Ends

LEMMA CompileIs ==
    ASSUME NEW nodes \in Seq(AllBlocks), NEW ends \in Seq(FinalBlocks)
    PROVE LET p == Compile(nodes, ends) IN
          /\ p.accepted => \E m : Compiled(m, p.actions, nodes, ends)
          /\ ~p.accepted => p.actions = <<>>
<1> DEFINE e == Expanded(nodes, Fresh)
           m == e.actions
           r == FinallyOf(ends, e)
           c == FaultOnlyMarked(r)
           w == c.actions
           accepted == /\ ~NestedAxes(nodes)
                       /\ PointsOf(nodes) <= MaxPoints
                       /\ c.accepted
                       /\ StateFlow(w)[Len(w)].valid
                       /\ w # <<>>
                       /\ Stored(w) <= MaxPoints
           p == Compile(nodes, ends)
<1>1. p = [accepted |-> accepted, actions |-> IF accepted THEN w ELSE <<>>]
  BY DEF Compile
<1>2. accepted => c.accepted /\ StateFlow(w)[Len(w)].valid
  OBVIOUS
<1>3. /\ Sound(<<>>, e)
      /\ e.accepted => Stored(m) = PointsOf(nodes)
  BY BudgetExpanded
<1>4. Truth(m)
  BY TruthExpanded
<1> HIDE DEF p, accepted, e
<1>5. m \in Seq(MainActions) /\ <<>> \o m = m /\ e \in Compilations(Seq(Actions))
  BY <1>3, SoundFields, ConcatEmptySeq, MainsAreActions
<1>6. Backed(m)
  BY <1>3, <1>5 DEF Sound
<1>7. Ends(m, m)
  BY <1>5, EndsSelf
<1> DEFINE v == r.actions
<1>8. /\ r \in Compilations(Seq(Actions)) /\ Ends(m, v)
      /\ r.accepted =>
           /\ e.accepted
           /\ \A f \in ToSet(ends) : f.type = "final_state" => Declared(v, f)
  BY <1>5, <1>7, FinallyAll
<1> HIDE DEF r
<1>9. (c.accepted => r.accepted) /\ MarkOf(w, v)
  BY <1>8, MarkedIs
<1> HIDE DEF c
<1>10. Ends(m, w) /\ \A f : Declared(v, f) => Declared(w, f)
  BY <1>8, <1>9, MarkedEnds
<1>11. \A i \in 1..Len(w) : w[i].faultOnly => w[i].finally /\ ~w[i].completionOnly
  BY <1>9 DEF MarkOf
<1>12. c.accepted => Stored(m) = PointsOf(nodes)
  BY <1>3, <1>8, <1>9
<1>13. c.accepted => \A f \in ToSet(ends) : f.type = "final_state" => Declared(w, f)
  BY <1>8, <1>9, <1>10
<1>14. accepted => Compiled(m, w, nodes, ends)
  BY <1>2, <1>4, <1>6, <1>10, <1>11, <1>12, <1>13 DEF Compiled
<1>15. p.accepted => accepted /\ p.actions = w
  BY <1>1
<1>16. ~p.accepted => p.actions = <<>>
  BY <1>1
<1> QED
  BY <1>14, <1>15, <1>16 DEF p

LEMMA CompiledActions ==
    ASSUME NEW m, NEW w, NEW nodes, NEW ends, Compiled(m, w, nodes, ends)
    PROVE /\ m \in Seq(MainActions) /\ w \in Seq(Actions) /\ DOMAIN w = 1..Len(w)
          /\ Len(m) \in Nat /\ Len(w) \in Nat /\ Len(m) <= Len(w)
          /\ \A i \in 1..Len(m) : w[i] = m[i] /\ m[i] \in MainActions
          /\ \A i \in 1..Len(w) : w[i] \in Actions /\ (i > Len(m) => EndAction(w[i]))
<1>1. /\ m \in Seq(MainActions) /\ w \in Seq(Actions) /\ DOMAIN w = 1..Len(w)
      /\ Len(m) \in Nat /\ Len(w) \in Nat /\ Len(m) <= Len(w)
  BY LenProperties DEF Compiled, Ends
<1>2. \A i \in 1..Len(m) : w[i] = m[i] /\ m[i] \in MainActions
  BY <1>1, ElementOfSeq DEF Compiled, Ends
<1>3. \A i \in 1..Len(w) : w[i] \in Actions /\ (i > Len(m) => EndAction(w[i]))
  BY <1>1, ElementOfSeq DEF Compiled, Ends
<1> QED
  BY <1>1, <1>2, <1>3

LEMMA CompiledRuns ==
    ASSUME NEW m, NEW nodes, NEW ends, Compiled(m, Act, nodes, ends)
    PROVE RunnerAssumption
<1>1. /\ Len(m) \in Nat /\ Len(Act) \in Nat /\ Len(m) <= Len(Act) /\ DOMAIN Act = 1..Len(Act)
      /\ \A i \in 1..Len(m) : Act[i] = m[i] /\ m[i] \in MainActions
      /\ \A i \in 1..Len(Act) : Act[i] \in Actions /\ (i > Len(m) => EndAction(Act[i]))
  BY CompiledActions
<1> DEFINE w == Act
<1>2. Resolves(w)
  <2> SUFFICES ASSUME NEW a \in Actions
               PROVE /\ a.level \in Levels \cup (IF a.kind \in {"configure", "update"} THEN {} ELSE {Unset})
                     /\ \A ch \in Channels : a.setpoints[ch] \in Levels \cup {Unset}
    BY <1>1 DEF Resolves, ToSet
  <2> QED
    BY DEF Actions, Fits, SetKinds, Setpoints
<1>3. \A i \in 1..Len(w) : w[i].faultOnly => w[i].finally /\ ~w[i].completionOnly
  BY DEF Compiled
<1> HIDE DEF w
<1>4. ASSUME NEW i \in 1..Len(w)
      PROVE /\ w[i].finally /\ ~w[i].completionOnly => w[i].kind \in {"off", "ramp"}
            /\ w[i].finally => \A j \in i..Len(w) : w[j].finally
            /\ w[i].completionOnly => w[i].finally /\ w[i].kind # "on"
            /\ w[i].retains => w[i].completionOnly /\ w[i].kind = "assert"
  <2>1. CASE i <= Len(m)
    <3>1. w[i] \in MainActions
      BY <1>1, <2>1 DEF w
    <3> QED
      BY <3>1 DEF MainActions
  <2>2. CASE i > Len(m)
    <3>1. \A j \in i..Len(w) : EndAction(w[j])
      BY <1>1, <2>2 DEF w
    <3>2. EndAction(w[i])
      BY <1>1, <3>1 DEF w
    <3> QED
      BY <3>1, <3>2 DEF EndAction
  <2> QED
    BY <1>1, <2>1, <2>2
<1> QED
  BY <1>1, <1>2, <1>3, <1>4 DEF RunnerAssumption, w

LEMMA StoredTail ==
    ASSUME NEW m \in Seq(Actions), NEW w \in Seq(Actions), Len(m) <= Len(w),
           \A i \in 1..Len(m) : w[i] = m[i],
           \A i \in (Len(m) + 1)..Len(w) : w[i].kind # "checkpoint"
    PROVE Stored(w) = Stored(m)
<1>1. Len(m) \in Nat /\ Len(w) \in Nat
  BY LenProperties
<1>2. PICK f : Weights(f, w) /\ Stored(w) = f[Len(w)]
  BY StoredIs
<1>3. Weights(f, m)
  BY <1>1, <1>2 DEF Weights
<1>4. Stored(m) = f[Len(m)] /\ \A i \in 0..Len(w) : f[i] \in Nat
  BY <1>2, <1>3, StoredIs
<1> DEFINE S == {k \in 0..(Len(w) - Len(m)) : f[Len(m) + k] = f[Len(m)]}
<1>5. 0 \in S
  BY <1>1
<1>6. ASSUME NEW k \in 0..((Len(w) - Len(m)) - 1), k \in S PROVE k + 1 \in S
  <2> DEFINE i == Len(m) + (k + 1)
  <2>1. i \in (Len(m) + 1)..Len(w) /\ i \in 1..Len(w) /\ i - 1 = Len(m) + k
        /\ i - 1 \in 0..Len(w) /\ k + 1 \in 0..(Len(w) - Len(m))
    BY <1>1
  <2>2. f[i - 1] = f[Len(m)]
    BY <1>6, <2>1
  <2> HIDE DEF i
  <2>3. f[i] = f[i - 1] + 0
    BY <1>2, <2>1 DEF Weights, Weight
  <2>4. f[i] = f[Len(m)]
    BY <1>4, <2>1, <2>2, <2>3
  <2> QED
    BY <2>1, <2>4 DEF i
<1> HIDE DEF S
<1> DEFINE n == Len(w) - Len(m)
<1>7. n \in Nat /\ n \in 0..n /\ Len(m) + n = Len(w)
  BY <1>1
<1>8. \A k \in 0..n : k \in S
  BY <1>5, <1>6, <1>7, Induction
<1>9. n \in S
  BY <1>7, <1>8
<1> HIDE DEF n
<1>10. f[Len(w)] = f[Len(m)]
  BY <1>7, <1>9 DEF S
<1> QED
  BY <1>2, <1>4, <1>10

LEMMA CompiledBudget ==
    ASSUME NEW m, NEW w, NEW nodes, NEW ends, Compiled(m, w, nodes, ends)
    PROVE Stored(w) = PointsOf(nodes)
<1>1. /\ m \in Seq(MainActions) /\ w \in Seq(Actions) /\ Len(m) <= Len(w)
      /\ Len(m) \in Nat /\ Len(w) \in Nat
      /\ \A i \in 1..Len(m) : w[i] = m[i]
      /\ \A i \in 1..Len(w) : i > Len(m) => EndAction(w[i])
  BY CompiledActions
<1>2. \A i \in (Len(m) + 1)..Len(w) : w[i].kind # "checkpoint"
  <2> TAKE i \in (Len(m) + 1)..Len(w)
  <2>1. EndAction(w[i]) /\ w[i].completionOnly \in BOOLEAN
    BY <1>1, ElementOfSeq DEF Actions
  <2> QED
    BY <2>1 DEF EndAction
<1>3. m \in Seq(Actions)
  BY <1>1, MainsAreActions
<1> QED
  BY <1>1, <1>2, <1>3, StoredTail DEF Compiled

LEMMA CompiledTruth ==
    ASSUME NEW m, NEW nodes, NEW ends, Compiled(m, Act, nodes, ends)
    PROVE AxisTruth
<1> DEFINE w == Act
<1>1. /\ Len(m) \in Nat /\ Len(w) \in Nat /\ Len(m) <= Len(w) /\ DOMAIN w = 1..Len(w)
      /\ \A i \in 1..Len(m) : w[i] = m[i] /\ m[i] \in MainActions
      /\ \A i \in 1..Len(w) : w[i] \in Actions /\ (i > Len(m) => EndAction(w[i]))
  BY CompiledActions
<1>2. Truth(m)
  BY DEF Compiled
<1>3. Run \subseteq 1..Len(w)
  BY <1>1 DEF Run
<1> HIDE DEF w
<1>4. ASSUME NEW i \in 1..Len(w), w[i].kind = "checkpoint", NEW node \in w[i].loopPath,
             \A inner \in Inside(node) : ~Sets(inner, node.ch)
      PROVE /\ w[i].setpoints[node.ch] = Execution(w)[i - 1].level[node.ch]
            /\ w[i].setpoints[node.ch] \in ToSet(node.values)
  <2>1. i \in 1..Len(m)
    <3>1. i > Len(m) => EndAction(w[i]) /\ w[i].completionOnly \in BOOLEAN
      BY <1>1 DEF Actions
    <3>2. ~(i > Len(m))
      BY <1>4, <3>1 DEF EndAction
    <3> QED
      BY <1>1, <3>2
  <2>2. w[i] = m[i]
    BY <1>1, <2>1
  <2>3. True(w[i].setpoints, Execution(m)[i - 1].level, node)
    BY <1>2, <1>4, <2>1, <2>2 DEF Truth
  <2>4. i - 1 \in 0..Len(m)
    BY <1>1, <2>1
  <2>5. Execution(w)[i - 1] = Execution(m)[i - 1]
    BY <1>1, <2>4, ExecutionPrefix
  <2>6. Quiet(node)
    BY <1>4 DEF Quiet
  <2> QED
    BY <2>3, <2>5, <2>6 DEF True
<1> QED
  BY <1>3, <1>4 DEF AxisTruth, w

-----------------------------------------------------------------------------
(* The assertions of an accepted plan.                                     *)

LEMMA FlowIs ==
    ASSUME NEW f, NEW a, NEW x \in Channels
    PROVE /\ Flow(f, a).valid => f.valid
          /\ Flow(f, a).valid /\ a.kind = "assert" /\ a.ch = x => x \in f.on
          /\ x \in Flow(f, a).on <=>
               \/ x \in f.on /\ ~(a.ch = x /\ a.kind \in {"configure", "off"})
               \/ a.ch = x /\ a.kind = "on"
<1>1. /\ Flow(f, a).valid => f.valid /\ Target(a, {"assert"}) \subseteq f.on
      /\ Flow(f, a).on = (f.on \ Target(a, {"configure", "off"})) \cup Target(a, {"on"})
  BY DEF Flow
<1>2. \A kinds : x \in Target(a, kinds) <=> a.ch = x /\ a.kind \in kinds
  BY DEF Target
<1> QED
  BY <1>1, <1>2

\* The checks of a plan hold up to each of its actions.
LEMMA FlowValid ==
    ASSUME NEW w, Len(w) \in Nat, StateFlow(w)[Len(w)].valid
    PROVE \A i \in 0..Len(w) : StateFlow(w)[i].valid
<1> DEFINE n == Len(w)
           S == {k \in 0..n : StateFlow(w)[n - k].valid}
<1>1. 0 \in S
  OBVIOUS
<1>2. ASSUME NEW k \in 0..(n - 1), k \in S PROVE k + 1 \in S
  <2> DEFINE i == n - k
             before == StateFlow(w)[i - 1]
  <2>1. i \in 1..n /\ n - (k + 1) = i - 1 /\ k + 1 \in 0..n
    OBVIOUS
  <2>2. StateFlow(w)[i].valid
    BY <1>2
  <2>3. StateFlow(w)[i] = IF w[i].faultOnly THEN before ELSE Flow(before, w[i])
    BY <2>1, StateFlowDef
  <2> HIDE DEF i, before
  <2>4. Flow(before, w[i]).valid => before.valid
    BY DEF Flow
  <2>5. before.valid
    BY <2>2, <2>3, <2>4
  <2> QED
    BY <2>1, <2>5 DEF before
<1> HIDE DEF S
<1>3. n \in Nat
  OBVIOUS
<1>4. \A k \in 0..n : k \in S
  BY <1>1, <1>2, <1>3, Induction
<1>5. ASSUME NEW i \in 0..n PROVE StateFlow(w)[i].valid
  <2>1. n - i \in 0..n /\ n - (n - i) = i
    OBVIOUS
  <2>2. n - i \in S
    BY <1>4, <2>1
  <2> QED
    BY <2>1, <2>2 DEF S
<1> QED
  BY <1>5

\* The channel was ramped down, and no action of the given kinds was executed since.
Ramped(w, i, ch, kinds) ==
    \E j \in 1..i :
        /\ ~w[j].faultOnly /\ w[j].kind = "ramp" /\ w[j].ch = ch
        /\ \A k \in j..i : ~w[k].faultOnly /\ w[k].kind \in kinds => w[k].ch # ch

LEMMA RampedLater ==
    ASSUME NEW w, NEW i \in Nat, NEW ch, NEW kinds, Ramped(w, i, ch, kinds),
           ~w[i + 1].faultOnly /\ w[i + 1].kind \in kinds => w[i + 1].ch # ch
    PROVE Ramped(w, i + 1, ch, kinds)
<1>1. PICK j \in 1..i :
        /\ ~w[j].faultOnly /\ w[j].kind = "ramp" /\ w[j].ch = ch
        /\ \A k \in j..i : ~w[k].faultOnly /\ w[k].kind \in kinds => w[k].ch # ch
  BY DEF Ramped
<1>2. j \in 1..(i + 1) /\ \A k \in j..(i + 1) : k \in j..i \/ k = i + 1
  OBVIOUS
<1> QED
  BY <1>1, <1>2 DEF Ramped

LEMMA RampedNow ==
    ASSUME NEW w, NEW i \in Nat \ {0}, NEW ch, NEW kinds, "ramp" \notin kinds,
           ~w[i].faultOnly, w[i].kind = "ramp", w[i].ch = ch
    PROVE Ramped(w, i, ch, kinds)
<1>1. i \in 1..i /\ \A k \in i..i : k = i
  OBVIOUS
<1> QED
  BY <1>1 DEF Ramped

\* What the compiler takes to be on is on, unless it was ramped down.
LEMMA OnOrRamped ==
    ASSUME NEW w, Len(w) \in Nat, NEW ch \in Channels
    PROVE \A i \in 0..Len(w) :
            ch \in StateFlow(w)[i].on => ch \in Execution(w)[i].on \/ Ramped(w, i, ch, {"on"})
<1> DEFINE n == Len(w)
           Holds(i) == ch \in StateFlow(w)[i].on =>
                         ch \in Execution(w)[i].on \/ Ramped(w, i, ch, {"on"})
           S == {i \in 0..n : Holds(i)}
<1>1. 0 \in S
  BY StateFlowDef
<1>2. ASSUME NEW i \in 0..(n - 1), i \in S PROVE i + 1 \in S
  <2> DEFINE k == i + 1
             a == w[k]
             f == StateFlow(w)[i]
             m == Execution(w)[i]
  <2>1. k \in 1..n /\ k - 1 = i /\ i \in Nat /\ k \in Nat \ {0} /\ k \in 0..n
    OBVIOUS
  <2>2. StateFlow(w)[k] = IF a.faultOnly THEN f ELSE Flow(f, a)
    BY <2>1, StateFlowDef
  <2>3. Execution(w)[k] = IF a.faultOnly THEN m ELSE Effect(m, a)
    BY <2>1, ExecutionDef
  <2>4. ch \in f.on => ch \in m.on \/ Ramped(w, i, ch, {"on"})
    BY <1>2
  <2>5. ch \in Flow(f, a).on <=> \/ ch \in f.on /\ ~(a.ch = ch /\ a.kind \in {"configure", "off"})
                                 \/ a.ch = ch /\ a.kind = "on"
    BY FlowIs
  <2>6. ch \in Effect(m, a).on <=>
          \/ ch \in m.on /\ ~(a.ch = ch /\ a.kind \in {"configure", "off", "ramp"})
          \/ a.ch = ch /\ a.kind = "on"
    BY EffectIs
  <2>7. Ramped(w, i, ch, {"on"}) /\ (~a.faultOnly /\ a.kind = "on" => a.ch # ch)
          => Ramped(w, k, ch, {"on"})
    BY <2>1, RampedLater
  <2>8. ~a.faultOnly /\ a.kind = "ramp" /\ a.ch = ch => Ramped(w, k, ch, {"on"})
    BY <2>1, RampedNow
  <2> HIDE DEF k, a, f, m
  <2>9. Holds(k)
    BY <2>2, <2>3, <2>4, <2>5, <2>6, <2>7, <2>8
  <2> QED
    BY <2>1, <2>9 DEF k
<1> HIDE DEF S
<1>3. n \in Nat
  OBVIOUS
<1>4. \A i \in 0..n : i \in S
  BY <1>1, <1>2, <1>3, Induction
<1> QED
  BY <1>4 DEF S

\* The level that was last set is in force, unless the channel was ramped down.
LEMMA LevelOrRamped ==
    ASSUME NEW w, Len(w) \in Nat, NEW ch \in Channels, NEW level, NEW j \in 1..Len(w),
           NEW n \in j..Len(w),
           ~w[j].faultOnly, w[j].kind \in SetKinds, w[j].ch = ch, w[j].level = level,
           \A k \in (j + 1)..n : ~w[k].faultOnly /\ w[k].kind \in SetKinds => w[k].ch # ch
    PROVE Execution(w)[n].level[ch] = level \/ Ramped(w, n, ch, SetKinds)
<1> DEFINE d == n - j
           Holds(i) == Execution(w)[i].level[ch] = level \/ Ramped(w, i, ch, SetKinds)
           S == {k \in 0..d : Holds(j + k)}
<1>1. 0 \in S
  <2>1. Execution(w)[j] = Effect(Execution(w)[j - 1], w[j])
    BY ExecutionDef
  <2>2. Effect(Execution(w)[j - 1], w[j]).level[ch] = level
    BY EffectIs
  <2>3. Holds(j)
    BY <2>1, <2>2
  <2>4. j + 0 = j /\ 0 \in 0..d
    OBVIOUS
  <2> QED
    BY <2>3, <2>4
<1>2. ASSUME NEW e \in 0..(d - 1), e \in S PROVE e + 1 \in S
  <2> DEFINE i == j + e
             k == i + 1
             a == w[k]
             m == Execution(w)[i]
  <2>1. k \in 1..Len(w) /\ k - 1 = i /\ i \in Nat /\ k \in Nat \ {0} /\ k \in (j + 1)..n
        /\ e + 1 \in 0..d /\ j + (e + 1) = k
    OBVIOUS
  <2>2. Execution(w)[k] = IF a.faultOnly THEN m ELSE Effect(m, a)
    BY <2>1, ExecutionDef
  <2>3. m.level[ch] = level \/ Ramped(w, i, ch, SetKinds)
    BY <1>2
  <2>4. ~a.faultOnly /\ a.kind \in SetKinds => a.ch # ch
    BY <2>1
  <2>5. Effect(m, a).level[ch] = IF a.ch = ch /\ a.kind \in SetKinds THEN a.level
                                 ELSE IF a.ch = ch /\ a.kind = "ramp" THEN Zero ELSE m.level[ch]
    BY EffectIs
  <2>6. Ramped(w, i, ch, SetKinds) => Ramped(w, k, ch, SetKinds)
    BY <2>1, <2>4, RampedLater
  <2>7. ~a.faultOnly /\ a.kind = "ramp" /\ a.ch = ch => Ramped(w, k, ch, SetKinds)
    BY <2>1, RampedNow DEF SetKinds
  <2> HIDE DEF k, a, i, m
  <2>8. Holds(k)
    BY <2>2, <2>3, <2>4, <2>5, <2>6, <2>7
  <2> QED
    BY <2>1, <2>8
<1> HIDE DEF S
<1>3. d \in Nat /\ d \in 0..d /\ j + d = n
  OBVIOUS
<1>4. \A k \in 0..d : k \in S
  BY <1>1, <1>2, <1>3, Induction
<1>5. d \in S
  BY <1>3, <1>4
<1> HIDE DEF d
<1> QED
  BY <1>3, <1>5 DEF S

LEMMA CompiledAsserts ==
    ASSUME NEW m, NEW nodes, NEW ends, Compiled(m, Act, nodes, ends)
    PROVE AssertionsHold
<1> DEFINE w == Act
<1>1. /\ Len(m) \in Nat /\ Len(w) \in Nat /\ Len(m) <= Len(w) /\ DOMAIN w = 1..Len(w)
      /\ \A i \in 1..Len(m) : w[i] = m[i] /\ m[i] \in MainActions
      /\ \A i \in 1..Len(w) : w[i] \in Actions /\ (i > Len(m) => EndAction(w[i]))
  BY CompiledActions
<1>2. Backed(m) /\ StateFlow(w)[Len(w)].valid
  BY DEF Compiled
<1>3. \A i \in 0..Len(w) : StateFlow(w)[i].valid
  BY <1>1, <1>2, FlowValid
<1>4. Run = {i \in 1..Len(w) : ~w[i].faultOnly}
  BY <1>1 DEF Run
<1> HIDE DEF w
<1>5. ASSUME NEW i \in 1..Len(w), ~w[i].faultOnly, w[i].kind = "assert"
      PROVE \/ /\ w[i].ch \in Execution(w)[i - 1].on
               /\ w[i].level \in {Unset, Execution(w)[i - 1].level[w[i].ch]}
            \/ Ramped(w, i - 1, w[i].ch, {"on"}) \/ Ramped(w, i - 1, w[i].ch, SetKinds)
  <2> DEFINE ch == w[i].ch
             level == w[i].level
  <2>1. ch \in Channels /\ i - 1 \in 0..Len(w) /\ i \in 0..Len(w)
    BY <1>1, <1>5 DEF Actions, Fits
  <2>2. ch \in StateFlow(w)[i - 1].on
    <3> DEFINE f == StateFlow(w)[i - 1]
               a == w[i]
    <3>1. StateFlow(w)[i].valid /\ StateFlow(w)[i] = Flow(f, a)
      BY <1>1, <1>3, <1>5, <2>1, StateFlowDef
    <3> HIDE DEF f, a
    <3>2. Flow(f, a).valid /\ a.kind = "assert" /\ a.ch = ch => ch \in f.on
      BY <2>1, FlowIs
    <3> QED
      BY <1>5, <3>1, <3>2 DEF f, a
  <2>3. ch \in Execution(w)[i - 1].on \/ Ramped(w, i - 1, ch, {"on"})
    BY <1>1, <2>1, <2>2, OnOrRamped
  <2>4. ASSUME level # Unset
        PROVE level = Execution(w)[i - 1].level[ch] \/ Ramped(w, i - 1, ch, SetKinds)
    <3>1. i <= Len(m)
      BY <1>1, <1>5, <2>4 DEF EndAction
    <3>2. LastSet(m, i, ch, level)
      BY <1>1, <1>2, <1>5, <2>4, <3>1 DEF Backed
    <3>3. PICK j \in 1..(i - 1) :
            /\ m[j].kind \in SetKinds /\ m[j].ch = ch /\ m[j].level = level
            /\ \A k \in (j + 1)..(i - 1) : m[k].kind \in SetKinds => m[k].ch # ch
      BY <3>2 DEF LastSet
    <3>4. \A k \in 1..(i - 1) : k \in 1..Len(m) /\ w[k] = m[k] /\ ~w[k].faultOnly
      BY <1>1, <3>1 DEF MainActions
    <3>5. j \in 1..Len(w) /\ i - 1 \in j..Len(w) /\ \A k \in (j + 1)..(i - 1) : k \in 1..(i - 1)
      BY <1>1
    <3>6. ~w[j].faultOnly /\ w[j].kind \in SetKinds /\ w[j].ch = ch /\ w[j].level = level
      BY <3>3, <3>4
    <3>7. \A k \in (j + 1)..(i - 1) : ~w[k].faultOnly /\ w[k].kind \in SetKinds => w[k].ch # ch
      BY <3>3, <3>4, <3>5
    <3> HIDE DEF ch, level
    <3> QED
      BY <1>1, <2>1, <3>5, <3>6, <3>7, LevelOrRamped
  <2> QED
    BY <2>3, <2>4
<1>6. ASSUME NEW i \in 1..Len(w), NEW kinds, Ramped(w, i - 1, w[i].ch, kinds),
             kinds = {"on"} \/ kinds = SetKinds
      PROVE RampedDown(i)
  <2>1. PICK j \in 1..(i - 1) :
          /\ ~w[j].faultOnly /\ w[j].kind = "ramp" /\ w[j].ch = w[i].ch
          /\ \A k \in j..(i - 1) : ~w[k].faultOnly /\ w[k].kind \in kinds => w[k].ch # w[i].ch
    BY <1>6 DEF Ramped
  <2>2. NoneSince(j, i, kinds)
    BY <1>4, <2>1 DEF NoneSince, w
  <2>3. j \in Run
    BY <1>1, <1>4, <2>1
  <2> QED
    BY <1>6, <2>1, <2>2, <2>3 DEF RampedDown, SetKinds, w
<1> QED
  BY <1>4, <1>5, <1>6 DEF AssertionsHold, Asserted, w

-----------------------------------------------------------------------------
(* What a completed run leaves.                                            *)

\* An action on another channel changes nothing.
LEMMA Untouched ==
    ASSUME NEW w, Len(w) \in Nat, NEW ch \in Channels, NEW i \in 0..Len(w),
           \A k \in (i + 1)..Len(w) : w[k].ch # ch
    PROVE /\ Execution(w)[Len(w)].level[ch] = Execution(w)[i].level[ch]
          /\ ch \in Execution(w)[Len(w)].on <=> ch \in Execution(w)[i].on
<1> DEFINE d == Len(w) - i
           Same(k) == /\ Execution(w)[k].level[ch] = Execution(w)[i].level[ch]
                      /\ ch \in Execution(w)[k].on <=> ch \in Execution(w)[i].on
           S == {e \in 0..d : Same(i + e)}
<1>1. 0 \in S
  OBVIOUS
<1>2. ASSUME NEW e \in 0..(d - 1), e \in S PROVE e + 1 \in S
  <2> DEFINE k == i + (e + 1)
             m == Execution(w)[i + e]
             a == w[k]
  <2>1. k \in 1..Len(w) /\ k - 1 = i + e /\ k \in (i + 1)..Len(w) /\ e + 1 \in 0..d
    OBVIOUS
  <2>2. Execution(w)[k] = IF a.faultOnly THEN m ELSE Effect(m, a)
    BY <2>1, ExecutionDef
  <2>3. a.ch # ch
    BY <2>1
  <2>4. Effect(m, a).level[ch] = m.level[ch] /\ (ch \in Effect(m, a).on <=> ch \in m.on)
    BY <2>3, EffectIs
  <2>5. m.level[ch] = Execution(w)[i].level[ch] /\ (ch \in m.on <=> ch \in Execution(w)[i].on)
    BY <1>2
  <2> HIDE DEF k, m, a
  <2>6. Same(k)
    BY <2>2, <2>4, <2>5
  <2> QED
    BY <2>1, <2>6 DEF k
<1> HIDE DEF S
<1>3. d \in Nat /\ d \in 0..d /\ i + d = Len(w)
  OBVIOUS
<1>4. \A e \in 0..d : e \in S
  BY <1>1, <1>2, <1>3, Induction
<1>5. d \in S
  BY <1>3, <1>4
<1> HIDE DEF d
<1> QED
  BY <1>3, <1>5 DEF S

LEMMA CompiledDeclares ==
    ASSUME NEW m, NEW nodes, NEW ends, ends \in Seq(FinalBlocks), Compiled(m, Act, nodes, ends),
           \A i \in Run : Asserted(i), NEW f \in ToSet(ends), f.type = "final_state"
    PROVE LET left == Execution(Act)[Len(Act)] IN
          /\ f.ch \in left.on <=> f.policy = "hold"
          /\ (\E i \in Run : Act[i].retains /\ Act[i].ch = f.ch) <=> f.policy = "hold"
          /\ f.level # Unset => left.level[f.ch] = f.level
<1> DEFINE w == Act
           ch == f.ch
<1>1. /\ Len(w) \in Nat /\ DOMAIN w = 1..Len(w)
      /\ \A i \in 1..Len(w) : w[i] \in Actions
  BY CompiledActions
<1>2. PICK e \in 1..Len(w) : DeclaredAt(w, e, f)
  BY DEF Compiled, Declared
<1>3. \A i \in 1..Len(w) : w[i].completionOnly => ~w[i].faultOnly
  BY DEF Compiled
<1>4. Run = {i \in 1..Len(w) : ~w[i].faultOnly}
  BY <1>1 DEF Run
<1> DEFINE a == w[e]
           before == Execution(w)[e - 1]
<1>5. /\ a.ch = ch /\ a.completionOnly
      /\ a.kind = IF f.policy = "hold" THEN "assert" ELSE "off"
      /\ f.policy = "hold" => a.retains
      /\ \A j \in (e + 1)..Len(w) : w[j].ch # ch
      /\ \A j \in 1..Len(w) : w[j].retains /\ w[j].ch = ch => j = e
  BY <1>2 DEF DeclaredAt
<1>6. f.level # Unset =>
        /\ e > 1 /\ w[e - 1].kind = "update" /\ w[e - 1].ch = ch
        /\ w[e - 1].level = f.level /\ w[e - 1].completionOnly
  BY <1>2 DEF DeclaredAt
<1>7. ~a.faultOnly /\ e \in Run /\ ch \in Channels
  BY <1>1, <1>3, <1>4, <1>5 DEF Actions, Fits
<1>8. Execution(w)[e] = Effect(before, a)
  BY <1>1, <1>7, ExecutionDef
<1>9. a.kind = "assert" => ch \in before.on
  BY <1>5, <1>7 DEF Asserted
<1>10. a.retains => a.kind = "assert"
  <2>1. RunnerAssumption
    BY CompiledRuns
  <2> QED
    BY <1>1, <2>1 DEF RunnerAssumption
<1> HIDE DEF w, ch, a, before
<1>11. /\ Execution(w)[Len(w)].level[ch] = Execution(w)[e].level[ch]
       /\ ch \in Execution(w)[Len(w)].on <=> ch \in Execution(w)[e].on
  BY <1>1, <1>5, <1>7, Untouched
<1>12. /\ Effect(before, a).level[ch] =
            IF a.ch = ch /\ a.kind \in SetKinds THEN a.level
            ELSE IF a.ch = ch /\ a.kind = "ramp" THEN Zero ELSE before.level[ch]
       /\ ch \in Effect(before, a).on <=>
            \/ ch \in before.on /\ ~(a.ch = ch /\ a.kind \in {"configure", "off", "ramp"})
            \/ a.ch = ch /\ a.kind = "on"
  BY <1>7, EffectIs
<1>13. ch \in Execution(w)[Len(w)].on <=> f.policy = "hold"
  BY <1>5, <1>8, <1>9, <1>11, <1>12
<1>14. (\E i \in Run : w[i].retains /\ w[i].ch = ch) <=> f.policy = "hold"
  <2>1. ASSUME f.policy = "hold" PROVE \E i \in Run : w[i].retains /\ w[i].ch = ch
    BY <1>5, <1>7, <2>1 DEF a
  <2>2. ASSUME NEW i \in Run, w[i].retains, w[i].ch = ch PROVE f.policy = "hold"
    <3>1. i = e
      BY <1>4, <1>5, <2>2
    <3> QED
      BY <1>5, <1>10, <2>2, <3>1 DEF a
  <2> QED
    BY <2>1, <2>2
<1>15. ASSUME f.level # Unset PROVE Execution(w)[Len(w)].level[ch] = f.level
  <2> DEFINE b == w[e - 1]
             earlier == Execution(w)[e - 2]
  <2>1. e - 1 \in 1..Len(w) /\ (e - 1) - 1 = e - 2
    BY <1>1, <1>6, <1>15
  <2>2. ~b.faultOnly /\ b.kind = "update" /\ b.ch = ch /\ b.level = f.level
    BY <1>3, <1>6, <1>15, <2>1
  <2>3. before = IF b.faultOnly THEN earlier ELSE Effect(earlier, b)
    BY <1>1, <2>1, ExecutionDef DEF before
  <2> HIDE DEF b, earlier
  <2>4. Effect(earlier, b).level[ch] =
          IF b.ch = ch /\ b.kind \in SetKinds THEN b.level
          ELSE IF b.ch = ch /\ b.kind = "ramp" THEN Zero ELSE earlier.level[ch]
    BY <1>7, EffectIs
  <2>5. before.level[ch] = f.level
    BY <2>2, <2>3, <2>4 DEF SetKinds
  <2>6. Effect(before, a).level[ch] = before.level[ch]
    BY <1>5, <1>12 DEF SetKinds
  <2> QED
    BY <1>8, <1>11, <2>5, <2>6
<1> QED
  BY <1>13, <1>14, <1>15 DEF w, ch

-----------------------------------------------------------------------------
(* Type correctness.                                                       *)

LEMMA StartsAreBlocks == Starts \subseteq Seq(Blocks[1])
<1>1. 1 \in 1..Depth
  BY DepthIsNat
<1>2. Operations \subseteq Blocks[1]
  BY <1>1, BlocksDef
<1>3. Seq(Operations) \subseteq Seq(Blocks[1])
  BY <1>2, SeqGrows
<1> QED
  BY <1>3, StartsAssumption

\* What may be added to a recipe is one block deeper than the recipe.
LEMMA Deeper ==
    ASSUME NEW n \in 0..MaxBlocks, n < MaxBlocks
    PROVE /\ Seq(Blocks[n + 1]) \subseteq Seq(Blocks[n + 2])
          /\ Operations \subseteq Blocks[n + 2]
          /\ \A s \in Seq(Blocks[n + 1]) : Loops({s}) \cup Modules({s}) \subseteq Blocks[n + 2]
<1>1. /\ MaxBlocks \in Nat /\ Depth = MaxBlocks + 1
      /\ n + 1 \in 0..(Depth - 1) /\ (n + 1) + 1 = n + 2
      /\ n + 2 \in 1..Depth /\ (n + 2) - 1 = n + 1
  BY RecipeAssumption DEF Depth
<1>2. Blocks[n + 1] \subseteq Blocks[n + 2]
  BY <1>1, BlocksGrow
<1> DEFINE bodies == Seq(Blocks[n + 1])
<1>3. Blocks[n + 2] = Operations \cup Loops(bodies) \cup Modules(bodies)
  BY <1>1, BlocksDef
<1> HIDE DEF bodies
<1>4. ASSUME NEW s \in bodies PROVE Loops({s}) \cup Modules({s}) \subseteq Blocks[n + 2]
  <2>1. {s} \subseteq bodies
    OBVIOUS
  <2>2. Operations \cup Loops({s}) \cup Modules({s}) \subseteq Operations \cup Loops(bodies) \cup Modules(bodies)
    BY <2>1, BodiesGrow
  <2> QED
    BY <1>3, <2>2
<1>5. Seq(Blocks[n + 1]) \subseteq Seq(Blocks[n + 2])
  BY <1>2, SeqGrows
<1> QED
  BY <1>3, <1>4, <1>5 DEF bodies

LEMMA PartOf ==
    ASSUME NEW S, NEW s \in Seq(S), NEW i \in Nat \ {0}, NEW j \in Nat, j <= Len(s)
    PROVE SubSeq(s, i, j) \in Seq(S)
<1>1. \A k \in i..j : s[k] \in S
  BY ElementOfSeq, LenProperties
<1>2. i \in Int /\ j \in Int
  OBVIOUS
<1> QED
  BY <1>1, <1>2, SubSeqProperties

\* Every recipe is made of blocks no deeper than what was added to it allows, its
\* Finally of the operations Finally may have, and its plan is what compile makes
\* of the two as they now are.
THEOREM TypeCorrect == Spec => []TypeOK
<1>1. Init => TypeOK
  <2> SUFFICES ASSUME Init PROVE TypeOK
    OBVIOUS
  <2>1. main \in Seq(Blocks[1]) /\ finals = <<>> /\ added = 0 /\ plan = Compile(main, <<>>)
    BY StartsAreBlocks DEF Init
  <2>2. plan = Compile(main, finals) /\ added + 1 = 1
    BY <2>1
  <2>3. main \in Seq(Blocks[added + 1])
    BY <2>1, <2>2
  <2>4. finals \in Seq(FinalBlocks) /\ added \in 0..MaxBlocks
    BY <2>1, EmptyIsSeq, RecipeAssumption
  <2> QED
    BY <2>2, <2>3, <2>4 DEF TypeOK
<1>2. TypeOK /\ [Next]_vars => TypeOK'
  <2> SUFFICES ASSUME TypeOK, [Next]_vars PROVE TypeOK'
    OBVIOUS
  <2>1. /\ main \in Seq(Blocks[added + 1]) /\ finals \in Seq(FinalBlocks)
        /\ added \in 0..MaxBlocks /\ MaxBlocks \in Nat
    BY RecipeAssumption DEF TypeOK
  <2>2. ASSUME Add, added < MaxBlocks, main' \in Seq(Blocks[added + 2]),
               finals' \in Seq(FinalBlocks)
        PROVE TypeOK'
    <3>1. added' = added + 1 /\ plan' = Compile(main', finals')
      BY <2>2 DEF Add
    <3>2. added' \in 0..MaxBlocks /\ added' + 1 = added + 2
      BY <2>1, <2>2, <3>1
    <3>3. main' \in Seq(Blocks[added' + 1])
      BY <2>2, <3>2
    <3> QED
      BY <2>2, <3>1, <3>2, <3>3 DEF TypeOK
  <2>3. added < MaxBlocks => Seq(Blocks[added + 1]) \subseteq Seq(Blocks[added + 2])
    BY <2>1, Deeper
  <2>4. CASE AddOperation
    <3>1. PICK op \in Operations : main' = Append(main, op)
      BY <2>4 DEF AddOperation
    <3>2. added < MaxBlocks /\ Add /\ finals' = finals
      BY <2>4 DEF AddOperation, Extensible
    <3>3. main \in Seq(Blocks[added + 2]) /\ op \in Blocks[added + 2]
      BY <2>1, <3>2, Deeper
    <3>4. main' \in Seq(Blocks[added + 2])
      BY <3>1, <3>3, AppendSeq
    <3> QED
      BY <2>1, <2>2, <3>2, <3>4
  <2>5. CASE Wrap
    <3>1. PICK k \in 0..(Len(main) - 1) :
            \E block \in Loops({SubSeq(main, k + 1, Len(main))}) \cup
                         Modules({SubSeq(main, k + 1, Len(main))}) :
              main' = Append(SubSeq(main, 1, k), block)
      BY <2>5 DEF Wrap
    <3>2. added < MaxBlocks /\ Add /\ finals' = finals
      BY <2>5 DEF Wrap, Extensible
    <3> DEFINE body == SubSeq(main, k + 1, Len(main))
               rest == SubSeq(main, 1, k)
    <3>3. PICK block \in Loops({body}) \cup Modules({body}) : main' = Append(rest, block)
      BY <3>1
    <3>4. Len(main) \in Nat /\ k \in Nat /\ k < Len(main)
      BY <2>1, <3>1, LenProperties
    <3>5. body \in Seq(Blocks[added + 1]) /\ rest \in Seq(Blocks[added + 1])
      <4>1. /\ k + 1 \in Nat \ {0} /\ 1 \in Nat \ {0}
            /\ Len(main) \in Nat /\ Len(main) <= Len(main) /\ k \in Nat /\ k <= Len(main)
        BY <3>4
      <4>2. body \in Seq(Blocks[added + 1])
        BY <2>1, <4>1, PartOf, Zenon
      <4>3. rest \in Seq(Blocks[added + 1])
        BY <2>1, <4>1, PartOf, Zenon
      <4> QED
        BY <4>2, <4>3
    <3> HIDE DEF body, rest
    <3>6. rest \in Seq(Blocks[added + 2]) /\ block \in Blocks[added + 2]
      BY <2>1, <3>2, <3>3, <3>5, Deeper
    <3>7. main' \in Seq(Blocks[added + 2])
      BY <3>3, <3>6, AppendSeq
    <3> QED
      BY <2>1, <2>2, <3>2, <3>7
  <2>6. CASE AddFinal
    <3>1. added < MaxBlocks /\ Add /\ main' = main
      BY <2>6 DEF AddFinal
    <3>2. PICK block \in FinalBlocks : finals' = Append(finals, block)
      BY <2>6 DEF AddFinal
    <3>3. finals' \in Seq(FinalBlocks)
      BY <2>1, <3>2, AppendSeq
    <3>4. main' \in Seq(Blocks[added + 2])
      BY <2>1, <2>3, <3>1
    <3> QED
      BY <2>2, <3>1, <3>3, <3>4
  <2>7. CASE UNCHANGED vars
    <3>1. plan' = Compile(main', finals')
      BY <2>7 DEF TypeOK, vars
    <3>2. main' = main /\ finals' = finals /\ added' = added
      BY <2>7 DEF vars
    <3> QED
      BY <2>1, <3>1, <3>2 DEF TypeOK
  <2> QED
    BY <2>4, <2>5, <2>6, <2>7 DEF Next
<1> QED
  BY <1>1, <1>2, PTL DEF Spec

\* A plan is empty, or what is said of an accepted one holds of it.
LEMMA PlanIs ==
    ASSUME TypeOK
    PROVE /\ plan.accepted => \E m : Compiled(m, Act, main, finals)
          /\ ~plan.accepted => Act = <<>>
<1>1. added + 1 \in 0..Depth
  BY RecipeAssumption DEF TypeOK, Depth
<1>2. Seq(Blocks[added + 1]) \subseteq Seq(AllBlocks)
  BY <1>1, BlocksAreAll, SeqGrows
<1>3. main \in Seq(AllBlocks) /\ finals \in Seq(FinalBlocks) /\ plan = Compile(main, finals)
  BY <1>2 DEF TypeOK
<1> QED
  BY <1>3, CompileIs DEF Act

-----------------------------------------------------------------------------
(* The properties.                                                         *)

\* What the runner takes for granted of a plan is true of every plan the compiler
\* makes: levels are numbers and references resolved, Finally comes last and only
\* switches off, and only the assertion of a held output retains it.
THEOREM PlansAreRunnable == Spec => []RunnerAssumption
<1>1. TypeOK => RunnerAssumption
  <2> SUFFICES ASSUME TypeOK PROVE RunnerAssumption
    OBVIOUS
  <2>1. ASSUME Act = <<>> PROVE RunnerAssumption
    BY <2>1 DEF RunnerAssumption, Resolves, ToSet
  <2> QED
    BY <2>1, PlanIs, CompiledRuns
<1> QED
  BY <1>1, TypeCorrect, PTL

\* No run of an accepted plan fails an assertion of a continuous output unless it
\* ramped the channel down before: the state-flow check of the compiler and the
\* levels it keeps track of agree with what the actions do, however deep the loops.
THEOREM AcceptedAssertionsHold == Spec => []AssertionsHold
<1>1. TypeOK => AssertionsHold
  <2> SUFFICES ASSUME TypeOK PROVE AssertionsHold
    OBVIOUS
  <2>1. ASSUME Act = <<>> PROVE AssertionsHold
    BY <2>1 DEF AssertionsHold, Run
  <2> QED
    BY <2>1, PlanIs, CompiledAsserts
<1> QED
  BY <1>1, TypeCorrect, PTL

\* Every point is measured at the value it reports for an axis whose body leaves the
\* channel alone, in every pass of every loop around it.
THEOREM AxesAreTrue == Spec => []AxisTruth
<1>1. TypeOK => AxisTruth
  <2> SUFFICES ASSUME TypeOK PROVE AxisTruth
    OBVIOUS
  <2>1. ASSUME Act = <<>> PROVE AxisTruth
    BY <2>1 DEF AxisTruth, Run
  <2> QED
    BY <2>1, PlanIs, CompiledTruth
<1> QED
  BY <1>1, TypeCorrect, PTL

\* A run that completes leaves every channel as its final state declares.
THEOREM FinalStatesReached == Spec => []EndsAsDeclared
<1>1. TypeOK => EndsAsDeclared
  <2> SUFFICES ASSUME TypeOK, plan.accepted, \A i \in Run : Asserted(i),
                      NEW f \in ToSet(finals), f.type = "final_state"
               PROVE LET m == Execution(Act)[Len(Act)] IN
                     /\ f.ch \in m.on <=> f.policy = "hold"
                     /\ (\E i \in Run : Act[i].retains /\ Act[i].ch = f.ch) <=> f.policy = "hold"
                     /\ f.level # Unset => m.level[f.ch] = f.level
    BY DEF EndsAsDeclared
  <2>1. PICK m : Compiled(m, Act, main, finals)
    BY PlanIs
  <2>2. finals \in Seq(FinalBlocks)
    BY DEF TypeOK
  <2> QED
    BY <2>1, <2>2, CompiledDeclares
<1> QED
  BY <1>1, TypeCorrect, PTL

\* The number of points on which an oversized recipe is refused before anything is
\* expanded is the number of points the expanded plan stores.
THEOREM BudgetIsExact == Spec => []PointsAsBudgeted
<1>1. TypeOK => PointsAsBudgeted
  BY PlanIs, CompiledBudget DEF PointsAsBudgeted
<1> QED
  BY <1>1, TypeCorrect, PTL
=============================================================================
