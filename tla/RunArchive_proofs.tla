-------------------------- MODULE RunArchive_proofs --------------------------
(***************************************************************************)
(* Proofs, for every plan and any number of crashes, failures and          *)
(* attempts, that recovery refuses an archive for known reasons only,      *)
(* that its representations of the run agree, and that it implements       *)
(* MeasuredRun.                                                            *)
(***************************************************************************)
EXTENDS RunArchive, SequenceTheorems, FiniteSetTheorems, WellFoundedInduction, TLAPS

-----------------------------------------------------------------------------
(* Sequences, maps and counts.                                             *)

LEMMA HasGreatest ==
    ASSUME NEW S \in SUBSET Nat, S # {}, NEW n \in Nat, \A i \in S : i <= n
    PROVE  \E m \in S : \A i \in S : i <= m
<1>. DEFINE U == {k \in Nat : \A i \in S : i <= k}
<1>1. U \subseteq Nat /\ U # {}
  OBVIOUS
<1>2. \E m \in U : \A k \in U : <<k, m>> \notin OpToRel(<, Nat)
  BY <1>1, NatLessThanWellFounded, WFMin, Zenon
<1>3. PICK m \in U : \A k \in U : m <= k
  <2>1. \A j, k \in Nat : <<k, j>> \notin OpToRel(<, Nat) => j <= k
    BY DEF OpToRel
  <2>. QED
    BY <1>1, <1>2, <2>1
<1>4. m \in S
  <2>. SUFFICES ASSUME m \notin S PROVE FALSE
    OBVIOUS
  <2>1. PICK i \in S : TRUE
    OBVIOUS
  <2>2. m \in Nat /\ m - 1 \in Nat /\ \A j \in S : j <= m - 1
    BY <2>1
  <2>3. m - 1 \in U
    BY <2>2
  <2>. QED
    BY <1>3, <2>2, <2>3
<1>. QED
  BY <1>4

LEMMA CutIs ==
    ASSUME NEW S, NEW s \in Seq(S), NEW n \in 0..Len(s)
    PROVE  /\ Cut(s, n) \in Seq(S) /\ Len(Cut(s, n)) = n
           /\ \A i \in 1..n : Cut(s, n)[i] = s[i]
<1>1. \A i \in 1..n : s[i] \in S
  OBVIOUS
<1>2. n \in Int /\ 1 \in Int
  OBVIOUS
<1>3. /\ SubSeq(s, 1, n) \in Seq(S)
      /\ Len(SubSeq(s, 1, n)) = IF 1 <= n THEN n - 1 + 1 ELSE 0
      /\ \A i \in 1..n - 1 + 1 : SubSeq(s, 1, n)[i] = s[1 + i - 1]
  BY <1>1, <1>2, SubSeqProperties
<1>. QED
  BY <1>3 DEF Cut

\* Finite maps from numbers.
Bounded(D) == D \in SUBSET Nat /\ \E n \in Nat : \A i \in D : i <= n
Maps(S) == UNION {[D -> S] : D \in {E \in SUBSET Nat : Bounded(E)}}

LEMMA MapIs ==
    ASSUME NEW S, NEW f
    PROVE  f \in Maps(S) <=> /\ Bounded(DOMAIN f)
                             /\ f \in [DOMAIN f -> S]
BY DEF Maps, Bounded

LEMMA OnlyIs ==
    ASSUME NEW S, NEW f \in Maps(S), NEW T
    PROVE  /\ Only(f, T) \in Maps(S)
           /\ DOMAIN Only(f, T) = DOMAIN f \cap T
           /\ \A x \in DOMAIN f \cap T : Only(f, T)[x] = f[x]
<1>1. Bounded(DOMAIN f) /\ f \in [DOMAIN f -> S]
  BY MapIs
<1>2. DOMAIN Only(f, T) = DOMAIN f \cap T /\ \A x \in DOMAIN f \cap T : Only(f, T)[x] = f[x]
  BY DEF Only
<1>3. Only(f, T) \in [DOMAIN f \cap T -> S] /\ Bounded(DOMAIN f \cap T)
  BY <1>1 DEF Only, Bounded
<1>. QED
  BY <1>2, <1>3, MapIs

LEMMA WithIs ==
    ASSUME NEW S, NEW f \in Maps(S), NEW x \in Nat, NEW v \in S
    PROVE  /\ With(f, x, v) \in Maps(S)
           /\ DOMAIN With(f, x, v) = DOMAIN f \cup {x}
           /\ With(f, x, v)[x] = v
           /\ \A y \in DOMAIN f \ {x} : With(f, x, v)[y] = f[y]
<1>1. Bounded(DOMAIN f) /\ f \in [DOMAIN f -> S]
  BY MapIs
<1>2. PICK n \in Nat : \A i \in DOMAIN f : i <= n
  BY <1>1 DEF Bounded
<1>3. Bounded(DOMAIN f \cup {x})
  <2>1. n + x \in Nat /\ \A i \in DOMAIN f \cup {x} : i <= n + x
    BY <1>1, <1>2 DEF Bounded
  <2>. QED
    BY <1>1, <2>1 DEF Bounded
<1>4. /\ DOMAIN With(f, x, v) = DOMAIN f \cup {x} /\ With(f, x, v)[x] = v
      /\ \A y \in DOMAIN f \ {x} : With(f, x, v)[y] = f[y]
  BY DEF With
<1>5. With(f, x, v) \in [DOMAIN f \cup {x} -> S]
  BY <1>1 DEF With
<1>. QED
  BY <1>3, <1>4, <1>5, MapIs

LEMMA DropIs ==
    ASSUME NEW S, NEW f \in Maps(S), NEW x
    PROVE  /\ Drop(f, x) \in Maps(S)
           /\ DOMAIN Drop(f, x) = DOMAIN f \ {x}
           /\ \A y \in DOMAIN f \ {x} : Drop(f, x)[y] = f[y]
<1>1. /\ Drop(f, x) \in Maps(S)
      /\ DOMAIN Drop(f, x) = DOMAIN f \cap (DOMAIN f \ {x})
      /\ \A y \in DOMAIN f \cap (DOMAIN f \ {x}) : Drop(f, x)[y] = f[y]
  BY OnlyIs DEF Drop
<1>. QED
  BY <1>1

\* How many points the first actions of the plan store.
LEMMA AcquiredIs ==
    /\ Acquired(0) = 0
    /\ \A k \in Nat : Acquired(k) \in Nat
    /\ \A k \in Nat : Acquired(k + 1) = IF Acquires(k + 1) THEN Acquired(k) + 1 ELSE Acquired(k)
    /\ \A k \in Nat : \A j \in 0..k : Acquired(j) <= Acquired(k)
<1>. DEFINE A(k) == {j \in 1..k : Acquires(j)}
<1>1. \A k \in Nat : IsFiniteSet(A(k)) /\ Cardinality(A(k)) \in Nat
  <2>. SUFFICES ASSUME NEW k \in Nat PROVE IsFiniteSet(A(k)) /\ Cardinality(A(k)) \in Nat
    OBVIOUS
  <2>1. IsFiniteSet(1..k)
    BY FS_Interval
  <2>2. A(k) \in SUBSET (1..k)
    OBVIOUS
  <2>. QED
    BY <2>1, <2>2, FS_Subset, FS_CardinalityType
<1>2. Acquired(0) = 0
  <2>1. A(0) = {}
    OBVIOUS
  <2>. QED
    BY <2>1, FS_EmptySet DEF Acquired
<1>3. ASSUME NEW k \in Nat
      PROVE  Acquired(k + 1) = IF Acquires(k + 1) THEN Acquired(k) + 1 ELSE Acquired(k)
  <2>1. CASE Acquires(k + 1)
    <3>1. A(k + 1) = A(k) \cup {k + 1} /\ k + 1 \notin A(k)
      BY <2>1
    <3>2. Cardinality(A(k) \cup {k + 1}) = Cardinality(A(k)) + 1
      BY <1>1, <3>1, FS_AddElement
    <3>. QED
      BY <2>1, <3>1, <3>2 DEF Acquired
  <2>2. CASE ~Acquires(k + 1)
    <3>1. A(k + 1) = A(k)
      BY <2>2
    <3>. QED
      BY <2>2, <3>1 DEF Acquired
  <2>. QED
    BY <2>1, <2>2
<1>4. ASSUME NEW k \in Nat, NEW j \in 0..k PROVE Acquired(j) <= Acquired(k)
  <2>1. A(j) \in SUBSET A(k)
    OBVIOUS
  <2>2. Cardinality(A(j)) <= Cardinality(A(k))
    BY <1>1, <2>1, FS_Subset
  <2>. QED
    BY <2>2 DEF Acquired
<1>. QED
  BY <1>1, <1>2, <1>3, <1>4 DEF Acquired

-----------------------------------------------------------------------------
(* Types.                                                                  *)

Columns == Seq(Events \cup {Blank})
Statuses == {"running", "completed", "aborted", "faulted"}
Files ==
    [pending : SUBSET {"point", "reference"}, points : Seq(Samples), complete : SUBSET Samples,
     spectra : Maps(Samples), rows : Seq(Samples), refs : Maps(Traces), name : Columns,
     message : Columns, marker : Nat, status : Statuses]
Writers == [count : Nat, faulted : BOOLEAN, logFault : BOOLEAN]
Runners ==
    [next : 0..Len(Plan), ref : References \cup {NoRef}, boundary : Nat,
     attempt : 1..MaxAttempts]
Phases ==
    {"idle", "staged", "flushed", "exposed", "stored", "ref staged", "ref flushed",
     "ref published", "log", "logging", "logged", "marked", "failing", "closing", "opened",
     "trimmed", "truncating", "truncated", "abandoned", "down", "closed"}
Typed ==
    /\ mem \in Files /\ disk \in Files
    /\ writer \in Writers /\ runner \in Runners /\ entry \in Events /\ pc \in Phases
    /\ crashes \in 0..MaxCrashes /\ faults \in 0..MaxFaults

LEMMA FieldsAre ==
    Fields = {"pending", "points", "complete", "spectra", "rows", "refs", "name", "message",
              "marker", "status"}
BY DEF Fields, EmptyFile

\* The number the next reference gets is greater than any in use.
LEMMA FreeIndexIs ==
    ASSUME mem \in Files
    PROVE  /\ FreeIndex \in Nat /\ \A i \in DOMAIN mem.refs : i < FreeIndex
           /\ FreeIndex # 0 => FreeIndex - 1 \in DOMAIN mem.refs
           /\ \A m \in DOMAIN mem.refs : (\A i \in DOMAIN mem.refs : i <= m) => FreeIndex = m + 1
<1>1. PICK D : D = DOMAIN mem.refs
  OBVIOUS
<1>2. Bounded(D)
  BY <1>1, MapIs DEF Files
<1>3. CASE D = {}
  BY <1>1, <1>3 DEF FreeIndex
<1>4. CASE D # {}
  <2>1. PICK m \in D : \A i \in D : i <= m
    BY <1>2, <1>4, HasGreatest DEF Bounded
  <2>2. FreeIndex = 1 + CHOOSE i \in D : \A j \in D : j <= i
    BY <1>1, <1>4 DEF FreeIndex
  <2>3. PICK g \in D : g = (CHOOSE i \in D : \A j \in D : j <= i) /\ \A j \in D : j <= g
    BY <2>1
  <2>. QED
    BY <1>1, <1>2, <2>2, <2>3 DEF Bounded
<1>. QED
  BY <1>3, <1>4

-----------------------------------------------------------------------------
(* The inductive invariant: the points.                                    *)

\* Recording, and neither failing nor closing; the file is open in any case.
Working == pc \notin {"failing", "closing", "abandoned", "down", "closed"}

\* Between the truncation of a resumed run and the record of its resumption.
Restarting == pc \in {"log", "logging"} /\ entry.kind = "run_resumed"
Truncating == pc = "truncated" \/ Restarting

\* The first n of the points q, in each of their representations.
PointsOf(p, n, q) == n <= Len(p) /\ \A i \in 1..n : p[i] = q[i]
CompleteOf(complete, n, q) == \A i \in 1..n : q[i] \in complete
SpectraOf(spectra, n, q) ==
    \A i \in 1..n : i - 1 \in DOMAIN spectra /\ spectra[i - 1] = q[i]
RefsOf(refs, n, q) ==
    \A i \in 1..n : q[i].ref # NoRef =>
        q[i].ref.index \in DOMAIN refs /\ refs[q[i].ref.index] = q[i].ref.trace
Keeps(f, n, q) ==
    /\ PointsOf(f.points, n, q) /\ PointsOf(f.rows, n, q) /\ CompleteOf(f.complete, n, q)
    /\ SpectraOf(f.spectra, n, q) /\ RefsOf(f.refs, n, q)

\* What the writer has counted is in the file, and in whatever a crash leaves of it.
KeptInv == Keeps(mem, writer.count, mem.points) /\ Keeps(disk, writer.count, mem.points)

StepsOf(p) == \A i \in 1..Len(p) : Acquired(p[i].step) = i
StepsInv == StepsOf(mem.points) /\ StepsOf(disk.points)

\* The disk is behind by one point at most.
TailOf(p, d) == Len(p) <= Len(d) + 1 /\ \A i \in 1..Len(p) : i <= Len(d) => p[i] = d[i]
TailInv == TailOf(mem.points, disk.points)

PointsInv == KeptInv /\ StepsInv /\ TailInv

-----------------------------------------------------------------------------
(* The inductive invariant: the event log.                                 *)

\* b is the latest of the first n events of s that is a boundary.
IsLatest(s, n, b) ==
    \/ b = Start /\ \A i \in 1..n : s[i].kind # "boundary"
    \/ \E i \in 1..n : /\ s[i] = b /\ b.kind = "boundary"
                       /\ \A j \in (i + 1)..n : s[j].kind # "boundary"

\* A boundary that the points cover.
Good(b) == b.points <= writer.count /\ Acquired(b.next) = b.points

\* The first c events, on which every column agrees, and one that may follow them.
Agrees(s, c) == c <= Len(s) /\ \A i \in 1..c : s[i] = mem.name[i] /\ s[i] \in Events
FollowedBy(s, c) ==
    /\ Len(s) <= c + 1 /\ (Len(s) = c + 1 => s[c + 1] = entry)
    /\ ~writer.logFault => Len(s) = c + 1

\* A marker counts the event that follows: it is on the disk.
MarkedAt(c, b) ==
    /\ FollowedBy(mem.name, c) /\ FollowedBy(mem.message, c)
    /\ FollowedBy(disk.name, c) /\ FollowedBy(disk.message, c)
    /\ Len(mem.name) <= Len(disk.name) /\ Len(mem.message) <= Len(disk.message)
    /\ entry.kind = "boundary" =>
         Good(entry) /\ b.points <= entry.points /\ disk.points = mem.points
LogAt(c, b) ==
    /\ Agrees(mem.name, c) /\ Agrees(mem.message, c)
    /\ Agrees(disk.name, c) /\ Agrees(disk.message, c)
    /\ mem.marker \in {c, c + 1} /\ disk.marker \in {c, c + 1}
    /\ IsLatest(mem.name, c, b) /\ Good(b)
    /\ Open => b.points = runner.boundary
    /\ Working => mem.marker = IF pc = "marked" THEN c + 1 ELSE c
    /\ c + 1 \in {mem.marker, disk.marker} => MarkedAt(c, b)
LogInv == \E c \in Nat, b \in Events : LogAt(c, b)

-----------------------------------------------------------------------------
(* The inductive invariant: the phases.                                    *)

\* What the last flush has left to be written.
SyncInv ==
    Working \/ ~Open =>
        /\ ~Truncating /\ pc \notin {"staged", "exposed", "ref staged", "ref published"}
             => disk.pending = mem.pending
        /\ ~Truncating /\ pc # "exposed"
             => /\ disk.points = mem.points /\ disk.spectra = mem.spectra
                /\ disk.complete = mem.complete
        /\ ~Restarting /\ pc # "exposed" => disk.rows = mem.rows
        /\ ~Truncating /\ pc # "ref published" => disk.refs = mem.refs
        /\ pc \notin {"logging", "trimmed"}
             => disk.name = mem.name /\ disk.message = mem.message
        /\ pc # "marked" => disk.marker = mem.marker
        /\ ~Restarting => disk.status = mem.status

\* The runner's position and the writer's count.
Storing == pc \in {"staged", "flushed", "exposed"}
Referring == pc \in {"ref staged", "ref flushed", "ref published"}
CountInv ==
    /\ writer.count = Acquired(runner.next)
    /\ Working => Writable
    /\ Storing \/ Referring => runner.next < Len(Plan)
    /\ Storing => Acquires(Current)
    /\ Referring => ~Acquires(Current)

\* What a run that records has in its file, beside the points it has counted.
Recording ==
    \/ Storing \/ Referring
    \/ pc \in {"idle", "stored", "log", "logging", "logged", "marked"}
LiveInv ==
    /\ Recording \/ pc = "truncated" =>
         /\ Len(mem.points) = writer.count + IF pc = "exposed" THEN 1 ELSE 0
         /\ mem.pending = IF pc \in {"staged", "flushed"} THEN {"point"}
                          ELSE IF pc \in {"ref staged", "ref flushed"} THEN {"reference"} ELSE {}
    /\ Recording => Len(mem.rows) = Len(mem.points)
    /\ pc = "exposed" => /\ mem.points[writer.count + 1] = Sample
                         /\ Keeps(mem, writer.count + 1, mem.points)

\* The reference of the runner is the one of its number, if there still is one.
RefInv ==
    /\ Working /\ pc # "ref published" /\ runner.ref # NoRef
         => (runner.ref.index \in DOMAIN mem.refs => mem.refs[runner.ref.index] = runner.ref.trace)
    /\ pc = "flushed" => ReferenceHeld
    /\ pc = "ref published" =>
         /\ FreeIndex # 0
         /\ \A i \in 1..writer.count : mem.points[i].ref # NoRef =>
                mem.points[i].ref.index # FreeIndex - 1

\* A run that is marked completed is whole.
Whole(f) == Len(f.points) = writer.count /\ Len(f.rows) = writer.count
DoneInv ==
    mem.status = "completed" \/ disk.status = "completed" =>
        /\ pc \in {"closing", "down", "closed"}
        /\ writer.count = Acquired(Len(Plan)) /\ Whole(mem) /\ Whole(disk)

\* The two columns of the log, and the event being appended to them.
ColumnsInv ==
    /\ Recording \/ pc \in {"trimmed", "truncating", "truncated"} =>
         /\ mem.name = mem.message
         /\ Len(mem.name) = mem.marker + IF pc \in {"logging", "logged"} THEN 1 ELSE 0
    /\ pc \in {"logging", "logged", "marked"} =>
         Len(mem.name) # 0 /\ mem.name[Len(mem.name)] = entry
    /\ pc \in {"log", "logging", "logged", "marked"} /\ entry.kind = "boundary" =>
         Good(entry) /\ entry.points = writer.count
    /\ pc = "abandoned" => entry.kind = "run_resumed"

PhaseInv == SyncInv /\ CountInv /\ LiveInv /\ RefInv /\ DoneInv /\ ColumnsInv
IInv == Typed /\ PointsInv /\ LogInv /\ PhaseInv

-----------------------------------------------------------------------------
(* What the cache may do between two flushes.                              *)

\* Each part of the file on the disk is as it was or as it is in the cache, but for
\* a cell of the log that was not written yet.
MixedColumn(new, old, cached) ==
    \/ new = old \/ new = cached
    \/ Len(cached) > Len(old) /\ new = [cached EXCEPT ![Len(cached)] = Blank]
Mixed ==
    /\ disk' \in Files
    /\ disk'.pending \in {disk.pending, mem.pending}
    /\ disk'.points \in {disk.points, mem.points}
    /\ disk'.complete \in {disk.complete, mem.complete}
    /\ disk'.spectra \in {disk.spectra, mem.spectra}
    /\ disk'.rows \in {disk.rows, mem.rows}
    /\ disk'.refs \in {disk.refs, mem.refs}
    /\ MixedColumn(disk'.name, disk.name, mem.name)
    /\ MixedColumn(disk'.message, disk.message, mem.message)
    /\ disk'.marker \in {disk.marker, mem.marker}

LEMMA WholeMixes ==
    ASSUME Typed, disk' = disk \/ disk' = mem
    PROVE  Mixed
BY DEF Mixed, MixedColumn, Typed

LEMMA EvictMixes ==
    ASSUME Typed, NEW f \in Fields, Evict(f)
    PROVE  Mixed /\ disk'.status \in {disk.status, mem.status}
<1>. USE DEF Typed
<1>1. mem \in Files /\ disk \in Files
  OBVIOUS
<1>2. CASE disk' = [disk EXCEPT ![f] = mem[f]]
  <2>1. f = "pending" \/ f = "points" \/ f = "complete" \/ f = "spectra" \/ f = "rows"
        \/ f = "refs" \/ f = "name" \/ f = "message" \/ f = "marker" \/ f = "status"
    BY FieldsAre
  <2>2. CASE f = "pending"
    BY <1>1, <1>2, <2>2 DEF Mixed, MixedColumn, Files
  <2>3. CASE f = "points"
    BY <1>1, <1>2, <2>3 DEF Mixed, MixedColumn, Files
  <2>4. CASE f = "complete"
    BY <1>1, <1>2, <2>4 DEF Mixed, MixedColumn, Files
  <2>5. CASE f = "spectra"
    BY <1>1, <1>2, <2>5 DEF Mixed, MixedColumn, Files
  <2>6. CASE f = "rows"
    BY <1>1, <1>2, <2>6 DEF Mixed, MixedColumn, Files
  <2>7. CASE f = "refs"
    BY <1>1, <1>2, <2>7 DEF Mixed, MixedColumn, Files
  <2>8. CASE f = "name"
    BY <1>1, <1>2, <2>8 DEF Mixed, MixedColumn, Files
  <2>9. CASE f = "message"
    BY <1>1, <1>2, <2>9 DEF Mixed, MixedColumn, Files
  <2>10. CASE f = "marker"
    BY <1>1, <1>2, <2>10 DEF Mixed, MixedColumn, Files
  <2>11. CASE f = "status"
    BY <1>1, <1>2, <2>11 DEF Mixed, MixedColumn, Files
  <2>. QED
    BY <2>1, <2>2, <2>3, <2>4, <2>5, <2>6, <2>7, <2>8, <2>9, <2>10, <2>11
<1>3. CASE /\ f \in {"name", "message"} /\ Len(mem[f]) > Len(disk[f])
           /\ disk' = [disk EXCEPT ![f] = Extent(f)]
  <2>1. ASSUME NEW s \in Columns, NEW t \in Columns, Len(s) > Len(t)
        PROVE  [s EXCEPT ![Len(s)] = Blank] \in Columns
    <3>1. Len(s) \in 1..Len(s) /\ Blank \in Events \cup {Blank}
      BY <2>1 DEF Columns
    <3>. QED
      BY <3>1, ExceptSeq DEF Columns
  <2>2. CASE f = "name"
    <3>1. [mem.name EXCEPT ![Len(mem.name)] = Blank] \in Columns
      BY <1>1, <1>3, <2>1, <2>2 DEF Files
    <3>. QED
      BY <1>1, <1>3, <2>2, <3>1 DEF Mixed, MixedColumn, Files, Extent
  <2>3. CASE f = "message"
    <3>1. [mem.message EXCEPT ![Len(mem.message)] = Blank] \in Columns
      BY <1>1, <1>3, <2>1, <2>3 DEF Files
    <3>. QED
      BY <1>1, <1>3, <2>3, <3>1 DEF Mixed, MixedColumn, Files, Extent
  <2>. QED
    BY <1>3, <2>2, <2>3
<1>. QED
  BY <1>2, <1>3 DEF Evict

\* A step that leaves the points of the open file alone.
LEMMA PointsRemain ==
    ASSUME Typed, PointsInv, writer'.count = writer.count,
           mem'.points = mem.points, mem'.complete = mem.complete, mem'.rows = mem.rows,
           mem'.spectra = mem.spectra, mem'.refs = mem.refs,
           disk'.points \in {disk.points, mem.points},
           disk'.complete \in {disk.complete, mem.complete},
           disk'.rows \in {disk.rows, mem.rows}, disk'.spectra \in {disk.spectra, mem.spectra},
           disk'.refs \in {disk.refs, mem.refs}
    PROVE  PointsInv'
<1>. USE DEF Typed, PointsInv, KeptInv, Keeps
<1>1. KeptInv'
  <2>1. Keeps(mem, writer.count, mem.points)'
    OBVIOUS
  <2>2. Keeps(disk, writer.count, mem.points)'
    OBVIOUS
  <2>. QED
    BY <2>1, <2>2
<1>2. StepsInv'
  BY DEF StepsInv
<1>3. TailInv'
  <2>1. TailOf(mem.points, mem.points)
    BY DEF TailOf, Files
  <2>. QED
    BY <2>1 DEF TailInv
<1>. QED
  BY <1>1, <1>2, <1>3

LEMMA PointsSettle ==
    ASSUME Typed, PointsInv, Mixed, writer'.count = writer.count,
           mem'.points = mem.points, mem'.complete = mem.complete, mem'.rows = mem.rows,
           mem'.spectra = mem.spectra, mem'.refs = mem.refs
    PROVE  PointsInv'
BY PointsRemain DEF Mixed

\* A step that leaves the log of the open file alone.
LEMMA LogRemains ==
    ASSUME Typed, NEW c \in Nat, NEW b \in Events, LogAt(c, b), Mixed, UNCHANGED entry,
           mem'.name = mem.name, mem'.message = mem.message, mem'.marker = mem.marker,
           mem'.points = mem.points,
           writer'.count = writer.count, writer.logFault => writer'.logFault,
           Open' => Open /\ runner'.boundary = runner.boundary,
           Working' => Working /\ (pc' = "marked" <=> pc = "marked")
    PROVE  LogAt(c, b)'
<1>1. LogAt(c, b)
  OBVIOUS
<1>2. /\ mem.name \in Columns /\ mem.message \in Columns
      /\ disk.name \in Columns /\ disk.message \in Columns
  BY DEF Typed, Files
<1>3. ASSUME NEW s \in Columns, NEW o \in Columns, NEW n, MixedColumn(n, o, s),
             Agrees(s, c), Agrees(o, c)
      PROVE  /\ Agrees(n, c)'
             /\ (FollowedBy(s, c) /\ FollowedBy(o, c) /\ Len(s) <= Len(o))
                  => FollowedBy(n, c)' /\ Len(s) <= Len(n)
  <2>1. CASE n = o \/ n = s
    BY <1>3, <2>1 DEF Agrees, FollowedBy, Columns
  <2>2. CASE Len(s) > Len(o) /\ n = [s EXCEPT ![Len(s)] = Blank]
    <3>1. Len(s) \in Nat /\ Len(o) \in Nat /\ Len(s) > c /\ ~(Len(s) <= Len(o))
      BY <1>3, <2>2 DEF Agrees, Columns
    <3>2. Len(n) = Len(s) /\ \A i \in 1..c : n[i] = s[i]
      BY <2>2, <3>1 DEF Columns
    <3>. QED
      BY <1>3, <3>1, <3>2 DEF Agrees
  <2>. QED
    BY <1>3, <2>1, <2>2 DEF MixedColumn
<1>4. Agrees(disk.name, c)' /\ Agrees(disk.message, c)'
  BY <1>1, <1>2, <1>3 DEF LogAt, Mixed
<1>5. Agrees(mem.name, c)' /\ Agrees(mem.message, c)'
  BY <1>1 DEF LogAt, Agrees
<1>6. mem'.marker \in {c, c + 1} /\ disk'.marker \in {c, c + 1}
  BY <1>1 DEF LogAt, Mixed
<1>7. IsLatest(mem.name, c, b)' /\ Good(b)'
  BY <1>1 DEF LogAt, IsLatest, Good
<1>8. /\ Open' => b.points = runner'.boundary
      /\ Working' => mem'.marker = IF pc' = "marked" THEN c + 1 ELSE c
  BY <1>1 DEF LogAt
<1>9. ASSUME c + 1 \in {mem.marker, disk.marker}' PROVE MarkedAt(c, b)'
  <2>1. MarkedAt(c, b)
    BY <1>1, <1>9 DEF LogAt, Mixed
  <2>2. FollowedBy(mem.name, c)' /\ FollowedBy(mem.message, c)'
    BY <2>1 DEF MarkedAt, FollowedBy
  <2>3. /\ FollowedBy(disk.name, c)' /\ FollowedBy(disk.message, c)'
        /\ Len(mem'.name) <= Len(disk'.name) /\ Len(mem'.message) <= Len(disk'.message)
    BY <1>1, <1>2, <1>3, <2>1 DEF LogAt, MarkedAt, Mixed
  <2>4. entry.kind = "boundary" =>
           Good(entry)' /\ b.points <= entry.points /\ disk'.points = mem'.points
    BY <2>1 DEF MarkedAt, Good, Mixed
  <2>. QED
    BY <2>2, <2>3, <2>4 DEF MarkedAt
<1>. QED
  BY <1>4, <1>5, <1>6, <1>7, <1>8, <1>9 DEF LogAt

LEMMA LogSettle ==
    ASSUME Typed, LogInv, Mixed, UNCHANGED entry,
           mem'.name = mem.name, mem'.message = mem.message, mem'.marker = mem.marker,
           mem'.points = mem.points,
           writer'.count = writer.count, writer.logFault => writer'.logFault,
           Open' => Open /\ runner'.boundary = runner.boundary,
           Working' => Working /\ (pc' = "marked" <=> pc = "marked")
    PROVE  LogInv'
<1>1. PICK c \in Nat, b \in Events : LogAt(c, b)
  BY DEF LogInv
<1>2. LogAt(c, b)'
  BY <1>1, LogRemains
<1>. QED
  BY <1>2 DEF LogInv

\* No event is being appended, and the log is on the disk.
Quiet ==
    \/ Recording /\ pc \notin {"logging", "logged", "marked"}
    \/ pc \in {"truncating", "truncated"}
LEMMA QuietLog ==
    ASSUME IInv, Quiet,
           mem'.name = mem.name, mem'.message = mem.message, mem'.marker = mem.marker,
           disk'.name = mem.name, disk'.message = mem.message, disk'.marker = mem.marker,
           writer.count <= writer'.count, writer'.count \in Nat,
           runner'.boundary = runner.boundary, pc' # "marked"
    PROVE  LogInv'
<1>. USE DEF IInv, Typed
<1>1. PICK c \in Nat, b \in Events : LogAt(c, b)
  BY DEF LogInv
<1>2. Working /\ Open /\ pc \notin {"marked", "logging", "trimmed"}
  BY DEF Quiet, Working, Open, Recording, Storing, Referring
<1>3. mem.marker = c /\ disk.name = mem.name /\ disk.message = mem.message
  BY <1>1, <1>2 DEF LogAt, PhaseInv, SyncInv
<1>4. /\ Agrees(mem.name, c)' /\ Agrees(mem.message, c)'
      /\ Agrees(disk.name, c)' /\ Agrees(disk.message, c)'
  BY <1>1, <1>3 DEF LogAt, Agrees
<1>5. IsLatest(mem.name, c, b)'
  BY <1>1 DEF LogAt, IsLatest
<1>6. Good(b)'
  <2>1. b.points \in Nat /\ writer.count \in Nat
    BY DEF Events, Writers
  <2>. QED
    BY <1>1, <2>1 DEF LogAt, Good
<1>7. b.points = runner'.boundary
  BY <1>1, <1>2 DEF LogAt
<1>8. LogAt(c, b)'
  BY <1>3, <1>4, <1>5, <1>6, <1>7 DEF LogAt
<1>. QED
  BY <1>8 DEF LogInv

-----------------------------------------------------------------------------
(* The steps.                                                              *)

LEMMA EvictStep ==
    ASSUME IInv, NEW f \in Fields, Evict(f)
    PROVE  IInv'
<1>. USE DEF IInv
<1>1. Mixed /\ disk'.status \in {disk.status, mem.status}
  BY EvictMixes
<1>2. UNCHANGED <<mem, pc, writer, runner, entry, crashes, faults>> /\ Open
  BY DEF Evict
<1>3. Typed'
  BY <1>1, <1>2 DEF Typed, Mixed
<1>4. PointsInv'
  BY <1>1, <1>2, PointsSettle
<1>5. LogInv'
  BY <1>1, <1>2, LogSettle DEF Open, Working
<1>6. SyncInv'
  <2>1. SyncInv
    BY DEF PhaseInv
  <2>2. ASSUME disk.name = mem.name PROVE disk'.name = mem.name
    BY <1>1, <2>2 DEF Mixed, MixedColumn, Typed, Files, Columns
  <2>3. ASSUME disk.message = mem.message PROVE disk'.message = mem.message
    BY <1>1, <2>3 DEF Mixed, MixedColumn, Typed, Files, Columns
  <2>. QED
    BY <1>1, <1>2, <2>1, <2>2, <2>3 DEF SyncInv, Mixed, Working, Open, Truncating, Restarting
<1>7. DoneInv'
  BY <1>1, <1>2 DEF PhaseInv, DoneInv, Mixed, Whole
<1>8. CountInv' /\ ColumnsInv'
  BY <1>2 DEF PhaseInv, CountInv, ColumnsInv, Working, Writable, Storing, Referring, Recording,
     Current, Good
<1>9. LiveInv' /\ RefInv'
  BY <1>2 DEF PhaseInv, LiveInv, RefInv, Working, Storing, Referring, Recording, Current, Sample,
     Keeps, FreeIndex, ReferenceHeld
<1>. QED
  BY <1>3, <1>4, <1>5, <1>6, <1>7, <1>8, <1>9 DEF PhaseInv

LEMMA CrashStep ==
    ASSUME IInv, Crash
    PROVE  IInv'
<1>. USE DEF IInv
<1>1. /\ UNCHANGED <<disk, writer, runner, entry, faults>> /\ mem' = disk /\ pc' = "down"
      /\ crashes < MaxCrashes /\ crashes' = crashes + 1
  BY DEF Crash
<1>2. Typed'
  <2>1. mem' \in Files /\ disk' \in Files
    BY <1>1 DEF Typed
  <2>2. crashes' \in 0..MaxCrashes
    BY <1>1, BoundsAssumption DEF Typed
  <2>3. pc' \in Phases
    BY <1>1 DEF Phases
  <2>. QED
    BY <1>1, <2>1, <2>2, <2>3 DEF Typed
<1>3. PointsInv'
  <2>1. Keeps(disk, writer.count, disk.points)
    <3>1. Keeps(disk, writer.count, mem.points)
      BY DEF PointsInv, KeptInv
    <3>. QED
      BY <3>1 DEF Keeps, PointsOf, CompleteOf, SpectraOf, RefsOf
  <2>2. TailOf(disk.points, disk.points)
    BY DEF TailOf, Typed, Files
  <2>. QED
    BY <1>1, <2>1, <2>2 DEF PointsInv, KeptInv, StepsInv, TailInv
<1>4. LogInv'
  <2>1. PICK c \in Nat, b \in Events : LogAt(c, b)
    BY DEF LogInv
  <2>2. ~Open' /\ ~Working'
    BY <1>1 DEF Open, Working
  <2>3. /\ Agrees(mem.name, c)' /\ Agrees(mem.message, c)'
        /\ Agrees(disk.name, c)' /\ Agrees(disk.message, c)'
    BY <1>1, <2>1 DEF LogAt, Agrees
  <2>4. IsLatest(mem.name, c, b)' /\ Good(b)'
    <3>1. \A i \in 1..c : disk.name[i] = mem.name[i]
      BY <2>1 DEF LogAt, Agrees
    <3>2. IsLatest(disk.name, c, b)
      BY <2>1, <3>1 DEF LogAt, IsLatest
    <3>. QED
      BY <1>1, <2>1, <3>2 DEF LogAt, Good, IsLatest
  <2>5. ASSUME c + 1 = disk.marker PROVE MarkedAt(c, b)'
    <3>1. MarkedAt(c, b)
      BY <2>1, <2>5 DEF LogAt
    <3>2. /\ FollowedBy(mem.name, c)' /\ FollowedBy(mem.message, c)'
          /\ FollowedBy(disk.name, c)' /\ FollowedBy(disk.message, c)'
      BY <1>1, <3>1 DEF MarkedAt, FollowedBy
    <3>3. Len(disk.name) <= Len(disk.name) /\ Len(disk.message) <= Len(disk.message)
      BY DEF Typed, Files, Columns
    <3>. QED
      BY <1>1, <3>1, <3>2, <3>3 DEF MarkedAt, Good
  <2>6. LogAt(c, b)'
    BY <1>1, <2>1, <2>2, <2>3, <2>4, <2>5 DEF LogAt
  <2>. QED
    BY <1>1, <2>6 DEF LogInv
<1>5. SyncInv' /\ CountInv' /\ LiveInv' /\ RefInv' /\ DoneInv' /\ ColumnsInv'
  BY <1>1 DEF PhaseInv, SyncInv, CountInv, LiveInv, RefInv, DoneInv, ColumnsInv, Working, Open,
     Storing, Referring, Recording, Whole
<1>. QED
  BY <1>2, <1>3, <1>4, <1>5 DEF PhaseInv

\* The parts of the open file that most steps leave alone.
PointsStay ==
    /\ mem'.points = mem.points /\ mem'.complete = mem.complete /\ mem'.rows = mem.rows
    /\ mem'.spectra = mem.spectra
LogStays == mem'.name = mem.name /\ mem'.message = mem.message /\ mem'.marker = mem.marker

LEMMA StagePointStep ==
    ASSUME IInv, StagePoint
    PROVE  IInv'
<1>. USE DEF IInv
<1>1. /\ pc = "idle" /\ pc' = "staged" /\ runner.next < Len(Plan) /\ Acquires(Current) /\ Writable
      /\ UNCHANGED <<disk, writer, runner, entry, crashes, faults>>
  BY DEF StagePoint
<1>2. /\ mem' \in Files /\ PointsStay /\ LogStays /\ mem'.refs = mem.refs
      /\ mem'.pending = mem.pending \cup {"point"} /\ mem'.status = mem.status
  BY DEF StagePoint, Typed, Files, PointsStay, LogStays
<1>3. Typed' /\ Mixed
  BY <1>1, <1>2, WholeMixes DEF Typed, Phases
<1>4. PointsInv'
  BY <1>1, <1>2, <1>3, PointsSettle DEF PointsStay
<1>5. LogInv'
  BY <1>1, <1>2, <1>3, LogSettle DEF PointsStay, LogStays, Open, Working
<1>6. SyncInv'
  BY <1>1, <1>2 DEF PhaseInv, SyncInv, PointsStay, LogStays, Open, Working, Truncating, Restarting
<1>7. CountInv' /\ ColumnsInv' /\ DoneInv'
  BY <1>1, <1>2 DEF PhaseInv, CountInv, ColumnsInv, DoneInv, PointsStay, LogStays, Working,
     Writable, Storing, Referring, Recording, Current
<1>8. LiveInv' /\ RefInv'
  BY <1>1, <1>2 DEF PhaseInv, LiveInv, RefInv, PointsStay, Working, Storing, Referring, Recording
<1>. QED
  BY <1>3, <1>4, <1>5, <1>6, <1>7, <1>8 DEF PhaseInv

LEMMA FlushPointStep ==
    ASSUME IInv, FlushPoint
    PROVE  IInv'
<1>. USE DEF IInv
<1>1. /\ pc = "staged" /\ pc' = "flushed" /\ ReferenceHeld /\ disk' = mem
      /\ UNCHANGED <<mem, writer, runner, entry, crashes, faults>>
  BY DEF FlushPoint, Flush
<1>2. Typed' /\ Mixed
  BY <1>1, WholeMixes DEF Typed, Phases
<1>3. PointsInv' /\ LogInv'
  BY <1>1, <1>2, PointsSettle, LogSettle DEF Open, Working
<1>4. SyncInv'
  BY <1>1 DEF SyncInv
<1>5. CountInv' /\ ColumnsInv' /\ DoneInv'
  BY <1>1 DEF PhaseInv, CountInv, ColumnsInv, DoneInv, Working, Writable, Storing, Referring,
     Recording, Current
<1>6. LiveInv' /\ RefInv'
  BY <1>1 DEF PhaseInv, LiveInv, RefInv, Working, Storing, Referring, Recording, ReferenceHeld,
     Sample, Current
<1>. QED
  BY <1>2, <1>3, <1>4, <1>5, <1>6 DEF PhaseInv

\* The point of the current action.
LEMMA SampleIs ==
    ASSUME Typed, runner.next < Len(Plan)
    PROVE  /\ Current \in 1..Len(Plan) /\ Current = runner.next + 1 /\ runner.next \in Nat
           /\ Sample \in Samples /\ Sample.step = Current
<1>1. Len(Plan) \in Nat
  BY PlanAssumption
<1>. QED
  BY <1>1 DEF Typed, Runners, Current, Sample, Samples

LEMMA ExposePointStep ==
    ASSUME IInv, ExposePoint
    PROVE  IInv'
<1>. USE DEF IInv
<1>. DEFINE n == writer.count
<1>1. /\ pc = "flushed" /\ pc' = "exposed" /\ n \notin DOMAIN mem.spectra
      /\ UNCHANGED <<disk, writer, runner, entry, crashes, faults>>
  BY DEF ExposePoint, Vacant
<1>2. /\ mem \in Files /\ n \in Nat /\ n = Acquired(runner.next) /\ Len(mem.points) = n
      /\ Len(mem.rows) = n /\ mem.pending = {"point"} /\ Acquires(Current)
      /\ runner.next < Len(Plan)
  BY <1>1 DEF Typed, Writers, PhaseInv, CountInv, LiveInv, Recording, Storing
<1>3. /\ Sample \in Samples /\ Sample.step = Current /\ Current = runner.next + 1
      /\ Acquired(Current) = n + 1
  BY <1>2, SampleIs, AcquiredIs
<1>4. /\ mem'.pending = mem.pending \ {"point"} /\ mem'.points = Append(mem.points, Sample)
      /\ mem'.spectra = With(mem.spectra, n, Sample) /\ mem'.rows = Append(mem.rows, Sample)
      /\ mem'.complete = mem.complete \cup {Sample} /\ mem'.refs = mem.refs /\ LogStays
      /\ mem'.status = mem.status
  BY <1>2 DEF ExposePoint, Files, LogStays
<1>5. mem' \in Files
  <2>1. /\ Append(mem.points, Sample) \in Seq(Samples) /\ Append(mem.rows, Sample) \in Seq(Samples)
        /\ mem.pending \ {"point"} \in SUBSET {"point", "reference"}
        /\ mem.complete \cup {Sample} \in SUBSET Samples
    BY <1>2, <1>3 DEF Files
  <2>2. With(mem.spectra, n, Sample) \in Maps(Samples)
    BY <1>2, <1>3, WithIs DEF Files
  <2>. QED
    BY <1>2, <2>1, <2>2 DEF ExposePoint, Files
<1>6. Typed'
  BY <1>1, <1>5 DEF Typed, Phases
<1>7. /\ Len(mem'.points) = n + 1 /\ mem'.points[n + 1] = Sample
      /\ \A i \in 1..n : mem'.points[i] = mem.points[i]
      /\ Len(mem'.rows) = n + 1 /\ mem'.rows[n + 1] = Sample
      /\ \A i \in 1..n : mem'.rows[i] = mem.rows[i]
  BY <1>2, <1>3, <1>4 DEF Files
<1>8. /\ \A i \in DOMAIN mem.spectra : i \in DOMAIN mem'.spectra /\ mem'.spectra[i] = mem.spectra[i]
      /\ n \in DOMAIN mem'.spectra /\ mem'.spectra[n] = Sample
  <2>1. /\ DOMAIN With(mem.spectra, n, Sample) = DOMAIN mem.spectra \cup {n}
        /\ With(mem.spectra, n, Sample)[n] = Sample
        /\ \A i \in DOMAIN mem.spectra \ {n} : With(mem.spectra, n, Sample)[i] = mem.spectra[i]
    BY DEF With
  <2>. QED
    BY <1>1, <1>4, <2>1
<1>9. Keeps(mem, n + 1, mem.points)'
  <2>1. Keeps(mem, n, mem.points)
    BY DEF PointsInv, KeptInv
  <2>2. PointsOf(mem.points, n + 1, mem.points)' /\ PointsOf(mem.rows, n + 1, mem.points)'
    <3>1. \A i \in 1..n : mem.rows[i] = mem.points[i]
      BY <2>1 DEF Keeps, PointsOf
    <3>2. \A i \in 1..(n + 1) : i \in 1..n \/ i = n + 1
      BY <1>2
    <3>. QED
      BY SMTT(30), <1>1, <1>2, <1>7, <3>1, <3>2 DEF PointsOf
  <2>3. CompleteOf(mem.complete, n + 1, mem.points)'
    BY <1>1, <1>2, <1>4, <1>7, <2>1 DEF CompleteOf, Keeps
  <2>4. SpectraOf(mem.spectra, n + 1, mem.points)'
    BY <1>1, <1>2, <1>7, <1>8, <2>1 DEF SpectraOf, Keeps
  <2>5. RefsOf(mem.refs, n + 1, mem.points)'
    <3>1. ASSUME Sample.ref # NoRef
          PROVE  Sample.ref.index \in DOMAIN mem.refs /\ mem.refs[Sample.ref.index] = Sample.ref.trace
      <4>1. ReferenceHeld /\ Sample.ref = runner.ref
        BY <1>1, <3>1 DEF PhaseInv, RefInv, Sample
      <4>2. mem.refs[runner.ref.index] = runner.ref.trace
        BY <1>1, <3>1, <4>1 DEF PhaseInv, RefInv, ReferenceHeld, Working
      <4>. QED
        BY <3>1, <4>1, <4>2 DEF ReferenceHeld
    <3>2. RefsOf(mem.refs, n, mem.points)
      BY <2>1 DEF Keeps
    <3>. QED
      BY <1>1, <1>2, <1>4, <1>7, <3>1, <3>2 DEF RefsOf
  <2>. QED
    BY <2>2, <2>3, <2>4, <2>5 DEF Keeps
<1>10. PointsInv'
  <2>1. Keeps(mem, n, mem.points)' /\ Keeps(disk, n, mem.points)'
    <3>1. Keeps(mem, n, mem.points)'
      BY <1>1, <1>2, <1>7, <1>9 DEF Keeps, PointsOf, CompleteOf, SpectraOf, RefsOf
    <3>2. Keeps(disk, n, mem.points)
      BY DEF PointsInv, KeptInv
    <3>3. Keeps(disk, n, mem.points)'
      BY <1>1, <1>7, <3>2 DEF Keeps, PointsOf, CompleteOf, SpectraOf, RefsOf
    <3>. QED
      BY <3>1, <3>3
  <2>2. StepsInv'
    <3>1. StepsOf(mem.points) /\ StepsOf(disk.points)
      BY DEF PointsInv, StepsInv
    <3>2. \A i \in 1..(n + 1) : i \in 1..n \/ i = n + 1
      BY <1>2
    <3>3. \A i \in 1..Len(mem'.points) : Acquired(mem'.points[i].step) = i
      BY <1>2, <1>3, <1>7, <3>1, <3>2 DEF StepsOf
    <3>. QED
      BY <1>1, <3>1, <3>3 DEF StepsInv, StepsOf
  <2>3. TailInv'
    <3>1. disk.points = mem.points
      BY <1>1 DEF PhaseInv, SyncInv, Working, Truncating, Restarting
    <3>. QED
      BY <1>1, <1>2, <1>7, <3>1 DEF TailInv, TailOf
  <2>. QED
    BY <1>1, <2>1, <2>2, <2>3 DEF PointsInv, KeptInv
<1>11. LogInv'
  <2>1. Quiet
    BY <1>1 DEF Quiet, Recording, Storing
  <2>2. disk.name = mem.name /\ disk.message = mem.message /\ disk.marker = mem.marker
    BY <1>1 DEF PhaseInv, SyncInv, Working
  <2>. QED
    BY <1>1, <1>2, <1>4, <2>1, <2>2, QuietLog DEF LogStays
<1>12. SyncInv'
  BY <1>1, <1>4 DEF PhaseInv, SyncInv, LogStays, Working, Open, Truncating, Restarting
<1>13. CountInv' /\ DoneInv' /\ ColumnsInv'
  BY <1>1, <1>4 DEF PhaseInv, CountInv, ColumnsInv, DoneInv, LogStays, Working,
     Writable, Storing, Referring, Recording, Current
<1>14. LiveInv'
  <2>1. Sample' = Sample
    BY <1>1 DEF Sample, Current
  <2>2. mem'.pending = {}
    BY <1>2, <1>4
  <2>. QED
    BY <1>1, <1>7, <1>9, <2>1, <2>2 DEF LiveInv, Recording, Storing, Referring
<1>15. RefInv'
  BY <1>1, <1>4 DEF PhaseInv, RefInv, Working
<1>. QED
  BY <1>6, <1>10, <1>11, <1>12, <1>13, <1>14, <1>15 DEF PhaseInv

LEMMA CommitPointStep ==
    ASSUME IInv, CommitPoint
    PROVE  IInv'
<1>. USE DEF IInv
<1>1. /\ pc = "exposed" /\ pc' = "stored" /\ disk' = mem
      /\ UNCHANGED <<mem, entry, crashes, faults>>
      /\ writer' = [writer EXCEPT !.count = @ + 1] /\ runner' = [runner EXCEPT !.next = @ + 1]
  BY DEF CommitPoint, Flush
<1>2. /\ writer \in Writers /\ runner \in Runners /\ runner.next < Len(Plan)
      /\ writer.count = Acquired(runner.next) /\ Acquires(Current)
      /\ writer.count \in Nat /\ runner.next \in Nat
  BY <1>1, PlanAssumption DEF Typed, Writers, Runners, PhaseInv, CountInv, Storing
<1>3. /\ writer'.count = writer.count + 1 /\ writer'.faulted = writer.faulted
      /\ writer'.logFault = writer.logFault
      /\ runner'.next = runner.next + 1 /\ runner'.ref = runner.ref
      /\ runner'.boundary = runner.boundary /\ writer' \in Writers
  BY <1>1, <1>2 DEF Writers, Runners
<1>4. Typed'
  <2>1. runner' \in Runners
    BY <1>1, <1>2, PlanAssumption DEF Runners
  <2>. QED
    BY <1>1, <1>3, <2>1 DEF Typed, Phases
<1>5. PointsInv'
  <2>1. Keeps(mem, writer.count + 1, mem.points)
    BY <1>1 DEF PhaseInv, LiveInv
  <2>2. KeptInv'
    BY <1>1, <1>3, <2>1 DEF KeptInv, Keeps
  <2>3. StepsInv'
    BY <1>1 DEF PointsInv, StepsInv
  <2>4. TailOf(mem.points, mem.points)
    BY DEF Typed, Files, TailOf
  <2>. QED
    BY <1>1, <2>2, <2>3, <2>4 DEF PointsInv, TailInv
<1>6. LogInv'
  <2>1. Quiet
    BY <1>1 DEF Quiet, Recording, Storing
  <2>. QED
    BY <1>1, <1>2, <1>3, <2>1, QuietLog
<1>7. SyncInv'
  BY <1>1 DEF SyncInv
<1>8. CountInv'
  <2>1. Acquired(runner.next + 1) = Acquired(runner.next) + 1
    BY <1>2, AcquiredIs DEF Current
  <2>. QED
    BY <1>1, <1>2, <1>3, <2>1 DEF PhaseInv, CountInv, Working, Writable, Storing, Referring
<1>9. LiveInv' /\ RefInv' /\ DoneInv' /\ ColumnsInv'
  BY <1>1, <1>2, <1>3 DEF PhaseInv, LiveInv, RefInv, DoneInv, ColumnsInv, Working, Storing,
     Referring, Recording
<1>. QED
  BY <1>4, <1>5, <1>6, <1>7, <1>8, <1>9 DEF PhaseInv

LEMMA EventsAre ==
    Note \in Events /\ Resumed \in Events /\ Start \in Events /\ Note.kind = "note"
    /\ Resumed.kind = "run_resumed" /\ Start.kind = "boundary" /\ Start.points = 0
    /\ Start.next = 0 /\ Start.ref = NoRef
BY PlanAssumption DEF Note, Resumed, Start, Events

LEMMA FailPointStep ==
    ASSUME IInv, FailPoint
    PROVE  IInv'
<1>. USE DEF IInv
<1>. DEFINE n == writer.count
<1>1. /\ pc \in {"staged", "flushed", "exposed"} /\ UNCHANGED <<runner, crashes>>
      /\ entry' = Note /\ faults' \in 0..MaxFaults /\ RollBack
      /\ pc' = IF writer'.faulted THEN "failing" ELSE "log"
  BY BoundsAssumption DEF FailPoint, Raises, Typed
<1>2. /\ mem \in Files /\ disk \in Files /\ writer \in Writers /\ n \in Nat
      /\ writer.faulted = FALSE /\ writer.logFault = FALSE
      /\ Len(mem.points) = IF pc = "exposed" THEN n + 1 ELSE n
      /\ Len(mem.rows) = Len(mem.points)
      /\ mem.pending \ {"point"} = {}
  <2>1. LiveInv /\ CountInv /\ mem \in Files /\ disk \in Files /\ writer \in Writers
    BY DEF PhaseInv, Typed
  <2>2. Recording /\ Working
    BY <1>1 DEF Recording, Storing, Working
  <2>3. mem.pending = IF pc \in {"staged", "flushed"} THEN {"point"} ELSE {}
    BY <1>1, <2>1, <2>2 DEF LiveInv
  <2>4. mem.pending \ {"point"} = {}
    BY <2>3
  <2>5. n \in Nat /\ writer.faulted = FALSE /\ writer.logFault = FALSE
    BY <2>1, <2>2 DEF CountInv, Writable, Writers
  <2>6. /\ Len(mem.points) = IF pc = "exposed" THEN n + 1 ELSE n
        /\ Len(mem.rows) = Len(mem.points)
    <3>1. /\ Len(mem.points) = n + IF pc = "exposed" THEN 1 ELSE 0
          /\ Len(mem.rows) = Len(mem.points)
      BY <2>1, <2>2, Zenon DEF LiveInv
    <3>. QED
      BY <2>5, <3>1
  <2>. QED
    BY <2>1, <2>4, <2>5, <2>6
<1>3. PICK kept \in SUBSET {"rows", "pending", "spectra", "points"} :
         /\ mem' = Undo(kept) /\ disk' \in {disk, mem'}
         /\ \/ kept = {} /\ disk' = mem' /\ writer' = writer
            \/ writer' = [writer EXCEPT !.faulted = TRUE]
  BY <1>1 DEF RollBack
<1>4. /\ writer' \in Writers /\ writer'.count = n /\ writer'.logFault = FALSE
      /\ \/ pc' = "failing" /\ writer'.faulted = TRUE
         \/ pc' = "log" /\ writer'.faulted = FALSE /\ disk' = mem' /\ kept = {}
  BY <1>1, <1>2, <1>3 DEF Writers
<1>5. /\ mem'.rows = IF "rows" \in kept THEN mem.rows ELSE Cut(mem.rows, n)
      /\ mem'.pending = IF "pending" \in kept THEN mem.pending ELSE mem.pending \ {"point"}
      /\ mem'.spectra = IF "spectra" \in kept THEN mem.spectra ELSE Drop(mem.spectra, n)
      /\ mem'.points = IF "points" \in kept THEN mem.points ELSE Cut(mem.points, n)
      /\ mem'.complete = mem.complete /\ mem'.refs = mem.refs /\ LogStays
      /\ mem'.status = mem.status
  BY <1>2, <1>3 DEF Undo, Files, LogStays
<1>6. /\ mem'.points \in Seq(Samples) /\ n <= Len(mem'.points)
      /\ Len(mem'.points) <= Len(mem.points)
      /\ \A i \in 1..Len(mem'.points) : mem'.points[i] = mem.points[i]
      /\ "points" \notin kept => Len(mem'.points) = n
  <2>1. Len(mem.points) \in Nat /\ n \in 0..Len(mem.points) /\ mem.points \in Seq(Samples)
    BY <1>2 DEF Files
  <2>2. /\ Cut(mem.points, n) \in Seq(Samples) /\ Len(Cut(mem.points, n)) = n
        /\ \A i \in 1..n : Cut(mem.points, n)[i] = mem.points[i]
    BY <2>1, CutIs
  <2>. QED
    BY <1>5, <2>1, <2>2
<1>7. /\ mem'.rows \in Seq(Samples) /\ n <= Len(mem'.rows)
      /\ \A i \in 1..n : mem'.rows[i] = mem.rows[i]
      /\ "rows" \notin kept => Len(mem'.rows) = n
  <2>1. Len(mem.rows) \in Nat /\ n \in 0..Len(mem.rows) /\ mem.rows \in Seq(Samples)
    BY <1>2 DEF Files
  <2>2. /\ Cut(mem.rows, n) \in Seq(Samples) /\ Len(Cut(mem.rows, n)) = n
        /\ \A i \in 1..n : Cut(mem.rows, n)[i] = mem.rows[i]
    BY <2>1, CutIs
  <2>. QED
    BY <1>5, <2>1, <2>2
<1>8. /\ mem'.spectra \in Maps(Samples)
      /\ \A x \in DOMAIN mem.spectra \ {n} :
            x \in DOMAIN mem'.spectra /\ mem'.spectra[x] = mem.spectra[x]
  <2>1. mem.spectra \in Maps(Samples)
    BY <1>2 DEF Files
  <2>2. Drop(mem.spectra, n) \in Maps(Samples)
    BY <2>1, DropIs
  <2>3. \A x \in DOMAIN mem.spectra \ {n} :
            x \in DOMAIN Drop(mem.spectra, n) /\ Drop(mem.spectra, n)[x] = mem.spectra[x]
    BY DEF Drop, Only
  <2>. QED
    BY <1>5, <2>1, <2>2, <2>3
<1>9. mem' \in Files
  <2>1. mem'.pending \in SUBSET {"point", "reference"}
    BY <1>2, <1>5 DEF Files
  <2>2. /\ DOMAIN mem' = DOMAIN mem
        /\ mem' = [mem EXCEPT !.rows = mem'.rows, !.pending = mem'.pending,
                              !.spectra = mem'.spectra, !.points = mem'.points]
    BY <1>2, <1>3, <1>5 DEF Undo, Files
  <2>3. \A p \in Seq(Samples), w \in Seq(Samples), s \in Maps(Samples),
           d \in SUBSET {"point", "reference"} :
           [mem EXCEPT !.rows = w, !.pending = d, !.spectra = s, !.points = p] \in Files
    BY <1>2 DEF Files
  <2>4. [mem EXCEPT !.rows = mem'.rows, !.pending = mem'.pending,
                    !.spectra = mem'.spectra, !.points = mem'.points] \in Files
    BY <1>6, <1>7, <1>8, <2>1, <2>3
  <2>. QED
    BY <2>2, <2>4, Zenon
<1>10. Typed'
  BY <1>1, <1>2, <1>3, <1>4, <1>9, EventsAre DEF Typed, Phases
<1>11. PointsInv'
  <2>1. Keeps(mem, n, mem.points) /\ Keeps(disk, n, mem.points)
    BY DEF PointsInv, KeptInv
  <2>2. Keeps(mem', n, mem'.points)
    <3>1. \A i \in 1..n : i - 1 \in DOMAIN mem.spectra /\ i - 1 # n
      BY <1>2, <2>1 DEF Keeps, SpectraOf
    <3>2. \A i \in 1..n : i - 1 \in DOMAIN mem'.spectra /\ mem'.spectra[i - 1] = mem.spectra[i - 1]
      BY <1>8, <3>1
    <3>3. \A i \in 1..n : mem'.points[i] = mem.points[i]
      BY <1>2, <1>6
    <3>4. PointsOf(mem'.points, n, mem'.points)
      BY <1>6 DEF PointsOf
    <3>5. PointsOf(mem'.rows, n, mem'.points)
      BY <1>7, <2>1, <3>3 DEF Keeps, PointsOf
    <3>6. CompleteOf(mem'.complete, n, mem'.points) /\ RefsOf(mem'.refs, n, mem'.points)
      <4>1. mem'.complete = mem.complete /\ mem'.refs = mem.refs
        BY <1>5
      <4>. QED
        BY <2>1, <3>3, <4>1 DEF Keeps, CompleteOf, RefsOf
    <3>7. SpectraOf(mem'.spectra, n, mem'.points)
      BY <2>1, <3>2, <3>3 DEF Keeps, SpectraOf
    <3>. QED
      BY <3>4, <3>5, <3>6, <3>7 DEF Keeps
  <2>3. Keeps(disk, n, mem'.points)
    <3>1. \A i \in 1..n : mem'.points[i] = mem.points[i]
      BY <1>2, <1>6
    <3>. QED
      BY <2>1, <3>1 DEF Keeps, PointsOf, CompleteOf, SpectraOf, RefsOf
  <2>4. StepsOf(mem'.points) /\ StepsOf(disk.points)
    BY SMTT(30), <1>2, <1>6 DEF PointsInv, StepsInv, StepsOf, Files
  <2>5. TailOf(mem'.points, disk.points) /\ TailOf(mem'.points, mem'.points)
    <3>1. TailOf(mem.points, disk.points)
      BY DEF PointsInv, TailInv
    <3>2. Len(mem.points) \in Nat /\ Len(disk.points) \in Nat /\ Len(mem'.points) \in Nat
      BY <1>2, <1>6 DEF Files
    <3>. QED
      BY <1>6, <3>1, <3>2 DEF TailOf
  <2>. QED
    BY <1>3, <1>4, <2>2, <2>3, <2>4, <2>5 DEF PointsInv, KeptInv, StepsInv, TailInv
<1>12. LogInv'
  <2>1. Quiet
    BY <1>1 DEF Quiet, Recording, Storing
  <2>2. disk.name = mem.name /\ disk.message = mem.message /\ disk.marker = mem.marker
    BY <1>1 DEF PhaseInv, SyncInv, Working
  <2>. QED
    BY <1>1, <1>2, <1>3, <1>4, <1>5, <2>1, <2>2, QuietLog DEF LogStays
<1>13. DoneInv'
  <2>1. mem.status # "completed" /\ disk.status # "completed"
    BY <1>1 DEF PhaseInv, DoneInv
  <2>. QED
    BY <1>3, <1>5, <2>1 DEF DoneInv
<1>14. CountInv'
  BY <1>1, <1>4 DEF PhaseInv, CountInv, Working, Writable, Storing, Referring
<1>15. SyncInv'
  BY <1>4 DEF SyncInv, Working, Open
<1>16. LiveInv'
  <2>1. CASE pc' = "failing"
    BY <2>1 DEF LiveInv, Recording, Storing, Referring
  <2>2. CASE pc' = "log"
    <3>1. mem'.pending = {} /\ Len(mem'.points) = n /\ Len(mem'.rows) = n
      BY <1>2, <1>4, <1>5, <1>6, <1>7, <2>2
    <3>. QED
      BY <1>2, <1>4, <2>2, <3>1 DEF LiveInv
  <2>. QED
    BY <1>4, <2>1, <2>2
<1>18. RefInv'
  BY <1>1, <1>4, <1>5 DEF PhaseInv, RefInv, Working
<1>17. ColumnsInv'
  <2>1. mem.name = mem.message /\ Len(mem.name) = mem.marker
    BY <1>1, <1>2 DEF PhaseInv, ColumnsInv, Recording, Storing, Files
  <2>. QED
    BY <1>1, <1>2, <1>4, <1>5, <2>1, EventsAre DEF ColumnsInv, LogStays, Recording, Storing,
       Referring, Files
<1>. QED
  BY <1>10, <1>11, <1>12, <1>13, <1>14, <1>15, <1>16, <1>17, <1>18 DEF PhaseInv

LEMMA StageReferenceStep ==
    ASSUME IInv, StageReference
    PROVE  IInv'
<1>. USE DEF IInv
<1>1. /\ pc = "idle" /\ pc' = "ref staged" /\ runner.next < Len(Plan) /\ Writable
      /\ ~Acquires(Current)
      /\ UNCHANGED <<disk, writer, runner, entry, crashes, faults>>
  BY DEF StageReference, Acquires
<1>2. /\ mem' \in Files /\ PointsStay /\ LogStays /\ mem'.refs = mem.refs
      /\ mem'.pending = mem.pending \cup {"reference"} /\ mem'.status = mem.status
  BY DEF StageReference, Typed, Files, PointsStay, LogStays
<1>3. Typed' /\ Mixed
  BY <1>1, <1>2, WholeMixes DEF Typed, Phases
<1>4. PointsInv'
  BY <1>1, <1>2, <1>3, PointsSettle DEF PointsStay
<1>5. LogInv'
  BY <1>1, <1>2, <1>3, LogSettle DEF PointsStay, LogStays, Open, Working
<1>6. SyncInv'
  BY <1>1, <1>2 DEF PhaseInv, SyncInv, PointsStay, LogStays, Open, Working, Truncating, Restarting
<1>7. CountInv' /\ ColumnsInv' /\ DoneInv'
  BY <1>1, <1>2 DEF PhaseInv, CountInv, ColumnsInv, DoneInv, PointsStay, LogStays, Working,
     Writable, Storing, Referring, Recording, Current
<1>8. LiveInv' /\ RefInv'
  BY <1>1, <1>2 DEF PhaseInv, LiveInv, RefInv, PointsStay, Working, Storing, Referring, Recording
<1>. QED
  BY <1>3, <1>4, <1>5, <1>6, <1>7, <1>8 DEF PhaseInv

LEMMA FlushReferenceStep ==
    ASSUME IInv, FlushReference
    PROVE  IInv'
<1>. USE DEF IInv
<1>1. /\ pc = "ref staged" /\ pc' = "ref flushed" /\ disk' = mem
      /\ UNCHANGED <<mem, writer, runner, entry, crashes, faults>>
  BY DEF FlushReference, Flush
<1>2. Typed' /\ Mixed
  BY <1>1, WholeMixes DEF Typed, Phases
<1>3. PointsInv' /\ LogInv'
  BY <1>1, <1>2, PointsSettle, LogSettle DEF Open, Working
<1>4. SyncInv'
  BY <1>1 DEF SyncInv
<1>5. CountInv' /\ ColumnsInv' /\ DoneInv'
  BY <1>1 DEF PhaseInv, CountInv, ColumnsInv, DoneInv, Working, Writable, Storing, Referring,
     Recording, Current
<1>6. LiveInv' /\ RefInv'
  BY <1>1 DEF PhaseInv, LiveInv, RefInv, Working, Storing, Referring, Recording
<1>. QED
  BY <1>2, <1>3, <1>4, <1>5, <1>6 DEF PhaseInv

LEMMA GreatestIs ==
    ASSUME NEW D \in SUBSET Nat, NEW g \in D, \A j \in D : j <= g
    PROVE  (CHOOSE i \in D : \A j \in D : j <= i) = g
<1>1. PICK k \in D : k = (CHOOSE i \in D : \A j \in D : j <= i) /\ \A j \in D : j <= k
  OBVIOUS
<1>. QED
  BY <1>1

LEMMA FreeIndexGrows ==
    ASSUME mem \in Files, DOMAIN mem'.refs = DOMAIN mem.refs \cup {FreeIndex}
    PROVE  FreeIndex' = FreeIndex + 1
<1>1. /\ FreeIndex \in Nat /\ \A i \in DOMAIN mem.refs : i < FreeIndex
      /\ DOMAIN mem.refs \in SUBSET Nat
  BY FreeIndexIs, MapIs DEF Files, Bounded
<1>2. PICK D : D = DOMAIN mem'.refs
  OBVIOUS
<1>3. /\ D \in SUBSET Nat /\ FreeIndex \in D /\ \A j \in D : j <= FreeIndex
  BY <1>1, <1>2
<1>4. (CHOOSE i \in D : \A j \in D : j <= i) = FreeIndex
  BY <1>3, GreatestIs
<1>5. FreeIndex' = 1 + CHOOSE i \in D : \A j \in D : j <= i
  BY <1>2, <1>3 DEF FreeIndex
<1>6. FreeIndex' = 1 + FreeIndex
  BY <1>4, <1>5, Zenon
<1>7. \A k \in Nat : 1 + k = k + 1
  OBVIOUS
<1>. QED
  BY <1>1, <1>6, <1>7, Zenon

LEMMA PublishReferenceStep ==
    ASSUME IInv, PublishReference
    PROVE  IInv'
<1>. USE DEF IInv
<1>. DEFINE taken == <<Current, runner.attempt>>
<1>1. /\ pc = "ref flushed" /\ pc' = "ref published"
      /\ UNCHANGED <<disk, writer, runner, entry, crashes, faults>>
  BY DEF PublishReference
<1>2. /\ mem \in Files /\ mem.refs \in Maps(Traces) /\ runner.next < Len(Plan)
      /\ mem.pending = {"reference"} /\ runner \in Runners /\ writer.count \in Nat
  BY <1>1 DEF Typed, Files, Writers, PhaseInv, CountInv, LiveInv, Recording, Referring
<1>3. taken \in Traces
  BY <1>2, SampleIs DEF Traces, Typed, Runners
<1>4. /\ FreeIndex \in Nat /\ \A i \in DOMAIN mem.refs : i < FreeIndex
      /\ DOMAIN mem.refs \in SUBSET Nat
  BY <1>2, FreeIndexIs, MapIs DEF Bounded
<1>5. /\ mem'.pending = {} /\ mem'.refs = With(mem.refs, FreeIndex, taken)
      /\ PointsStay /\ LogStays /\ mem'.status = mem.status
  BY <1>2 DEF PublishReference, Files, PointsStay, LogStays
<1>6. mem' \in Files
  <2>1. With(mem.refs, FreeIndex, taken) \in Maps(Traces)
    BY <1>2, <1>3, <1>4, WithIs
  <2>. QED
    BY <1>2, <2>1 DEF PublishReference, Files
<1>7. /\ DOMAIN mem'.refs = DOMAIN mem.refs \cup {FreeIndex}
      /\ \A i \in DOMAIN mem.refs : mem'.refs[i] = mem.refs[i]
  <2>1. DOMAIN mem'.refs = DOMAIN mem.refs \cup {FreeIndex}
    BY <1>5 DEF With
  <2>2. ASSUME NEW i \in DOMAIN mem.refs PROVE mem'.refs[i] = mem.refs[i]
    <3>1. i # FreeIndex
      BY <1>4
    <3>. QED
      BY <1>5, <3>1 DEF With
  <2>. QED
    BY <2>1, <2>2
<1>8. FreeIndex' = FreeIndex + 1
  BY <1>2, <1>7, FreeIndexGrows
<1>9. Typed' /\ Mixed
  BY <1>1, <1>6, WholeMixes DEF Typed, Phases
<1>10. PointsInv'
  <2>1. Keeps(mem, writer.count, mem.points) /\ Keeps(disk, writer.count, mem.points)
    BY DEF PointsInv, KeptInv
  <2>2. RefsOf(mem'.refs, writer.count, mem.points)
    BY <1>7, <2>1 DEF RefsOf, Keeps
  <2>3. Keeps(mem', writer.count, mem'.points) /\ Keeps(disk, writer.count, mem'.points)
    BY <1>5, <2>1, <2>2 DEF Keeps, PointsStay
  <2>. QED
    BY <1>1, <1>5, <2>3 DEF PointsInv, KeptInv, StepsInv, TailInv, PointsStay
<1>11. LogInv'
  BY <1>1, <1>5, <1>9, LogSettle DEF PointsStay, LogStays, Open, Working
<1>12. SyncInv'
  BY <1>1, <1>5 DEF PhaseInv, SyncInv, PointsStay, LogStays, Open, Working, Truncating, Restarting
<1>13. CountInv' /\ ColumnsInv' /\ DoneInv'
  BY <1>1, <1>5 DEF PhaseInv, CountInv, ColumnsInv, DoneInv, PointsStay, LogStays, Working,
     Writable, Storing, Referring, Recording, Current
<1>14. LiveInv'
  BY <1>1, <1>5 DEF PhaseInv, LiveInv, PointsStay, Storing, Referring, Recording
<1>15. RefInv'
  <2>1. RefsOf(mem.refs, writer.count, mem.points)
    BY DEF PointsInv, KeptInv, Keeps
  <2>2. FreeIndex' # 0 /\ FreeIndex' - 1 = FreeIndex
    BY <1>4, <1>8
  <2>3. \A i \in 1..writer.count : mem.points[i].ref # NoRef => mem.points[i].ref.index # FreeIndex
    BY <1>4, <2>1 DEF RefsOf
  <2>. QED
    BY <1>1, <1>5, <2>2, <2>3 DEF RefInv, PointsStay
<1>. QED
  BY <1>9, <1>10, <1>11, <1>12, <1>13, <1>14, <1>15 DEF PhaseInv

LEMMA CommitReferenceStep ==
    ASSUME IInv, CommitReference
    PROVE  IInv'
<1>. USE DEF IInv
<1>. DEFINE r == [index |-> FreeIndex - 1, trace |-> mem.refs[FreeIndex - 1]]
<1>1. /\ pc = "ref published" /\ pc' = "idle" /\ disk' = mem
      /\ UNCHANGED <<mem, writer, entry, crashes, faults>>
      /\ runner' = [runner EXCEPT !.next = @ + 1, !.ref = r]
  BY DEF CommitReference, Flush
<1>2. /\ mem \in Files /\ mem.refs \in Maps(Traces) /\ runner.next < Len(Plan)
      /\ runner \in Runners /\ runner.next \in Nat /\ FreeIndex # 0
      /\ writer.count = Acquired(runner.next) /\ ~Acquires(Current)
  <2>1. mem \in Files /\ runner \in Runners /\ CountInv /\ RefInv
    BY DEF Typed, PhaseInv
  <2>2. mem.refs \in Maps(Traces) /\ runner.next \in Nat
    BY <2>1, PlanAssumption DEF Files, Runners
  <2>3. FreeIndex # 0
    BY <1>1, <2>1, Zenon DEF RefInv
  <2>4. runner.next < Len(Plan) /\ writer.count = Acquired(runner.next) /\ ~Acquires(Current)
    BY <1>1, <2>1 DEF CountInv, Referring
  <2>. QED
    BY <2>1, <2>2, <2>3, <2>4
<1>3. r \in References
  <2>1. FreeIndex - 1 \in DOMAIN mem.refs
    BY <1>2, FreeIndexIs
  <2>2. FreeIndex - 1 \in Nat /\ mem.refs[FreeIndex - 1] \in Traces
    BY <1>2, <2>1, MapIs DEF Bounded
  <2>. QED
    BY <2>2 DEF References
<1>4. /\ runner'.next = runner.next + 1 /\ runner'.ref = r /\ runner'.boundary = runner.boundary
      /\ runner' \in Runners
  <2>1. runner.next + 1 \in 0..Len(Plan)
    BY <1>2, PlanAssumption
  <2>2. \A k \in 0..Len(Plan), v \in References : [runner EXCEPT !.next = k, !.ref = v] \in Runners
    BY <1>2 DEF Runners
  <2>. QED
    BY <1>1, <1>2, <1>3, <2>1, <2>2 DEF Runners
<1>5. Typed' /\ Mixed
  BY <1>1, <1>4, WholeMixes DEF Typed, Phases
<1>6. PointsInv' /\ LogInv'
  BY <1>1, <1>4, <1>5, PointsSettle, LogSettle DEF Open, Working
<1>7. SyncInv'
  BY <1>1 DEF SyncInv
<1>8. CountInv'
  <2>1. Acquired(runner.next + 1) = Acquired(runner.next)
    BY <1>2, AcquiredIs DEF Current
  <2>. QED
    BY <1>1, <1>2, <1>4, <2>1 DEF PhaseInv, CountInv, Working, Writable, Storing, Referring
<1>9. ColumnsInv' /\ DoneInv' /\ LiveInv'
  BY <1>1 DEF PhaseInv, ColumnsInv, DoneInv, LiveInv, Storing, Referring, Recording
<1>10. RefInv'
  <2>1. r.index = FreeIndex - 1 /\ r.trace = mem.refs[FreeIndex - 1]
    OBVIOUS
  <2>. HIDE DEF r
  <2>2. runner'.ref.index \in DOMAIN mem'.refs => mem'.refs[runner'.ref.index] = runner'.ref.trace
    BY <1>1, <1>4, <2>1
  <2>. QED
    BY <1>1, <2>2 DEF RefInv
<1>. QED
  BY <1>5, <1>6, <1>7, <1>8, <1>9, <1>10 DEF PhaseInv

LEMMA FailReferenceStep ==
    ASSUME IInv, FailReference
    PROVE  IInv'
<1>. USE DEF IInv
<1>. DEFINE n == writer.count
<1>1. /\ pc \in {"ref staged", "ref flushed", "ref published"} /\ pc' = "failing"
      /\ UNCHANGED <<runner, entry, crashes>> /\ faults' \in 0..MaxFaults
      /\ disk' \in {disk, mem'}
  <2>1. faults' \in 0..MaxFaults
    <3>1. faults < MaxFaults /\ faults' = faults + 1
      BY DEF FailReference, Raises
    <3>. QED
      BY <3>1, BoundsAssumption DEF Typed
  <2>2. disk' = disk \/ disk' = mem'
    BY DEF FailReference
  <2>. QED
    BY <2>1, <2>2 DEF FailReference
<1>2. mem \in Files /\ disk \in Files /\ writer \in Writers /\ n \in Nat
  BY DEF Typed, Writers
<1>3. writer' \in Writers /\ writer'.count = n
  BY <1>2 DEF FailReference, Writers
<1>4. /\ mem'.refs \in {mem.refs, Drop(mem.refs, FreeIndex - 1)}
      /\ mem'.refs # mem.refs => pc = "ref published"
      /\ PointsStay /\ LogStays /\ mem'.status = mem.status /\ mem' \in Files
  <2>. DEFINE undone == [mem EXCEPT
              !.pending = @ \ {"reference"},
              !.refs = IF pc = "ref published" THEN Drop(@, FreeIndex - 1) ELSE @]
  <2>1. mem' = mem \/ mem' = undone
    BY DEF FailReference
  <2>2. /\ undone.refs = IF pc = "ref published" THEN Drop(mem.refs, FreeIndex - 1) ELSE mem.refs
        /\ undone.points = mem.points /\ undone.complete = mem.complete /\ undone.rows = mem.rows
        /\ undone.spectra = mem.spectra /\ undone.name = mem.name /\ undone.message = mem.message
        /\ undone.marker = mem.marker /\ undone.status = mem.status
    BY <1>2 DEF Files
  <2>3. undone \in Files
    <3>1. Drop(mem.refs, FreeIndex - 1) \in Maps(Traces) /\ mem.refs \in Maps(Traces)
      BY <1>2, DropIs DEF Files
    <3>2. (IF pc = "ref published" THEN Drop(mem.refs, FreeIndex - 1) ELSE mem.refs) \in Maps(Traces)
      BY <3>1
    <3>3. \A s \in Maps(Traces), d \in SUBSET {"point", "reference"} :
             [mem EXCEPT !.pending = d, !.refs = s] \in Files
      BY <1>2 DEF Files
    <3>4. mem.pending \ {"reference"} \in SUBSET {"point", "reference"}
      BY <1>2 DEF Files
    <3>. QED
      BY <3>2, <3>3, <3>4
  <2>. HIDE DEF undone
  <2>. QED
    BY <1>2, <2>1, <2>2, <2>3 DEF PointsStay, LogStays
<1>5. Typed'
  BY <1>1, <1>2, <1>3, <1>4 DEF Typed, Phases
<1>6. PointsInv'
  <2>1. Keeps(mem, n, mem.points) /\ Keeps(disk, n, mem.points)
    BY DEF PointsInv, KeptInv
  <2>2. RefsOf(mem'.refs, n, mem.points)
    <3>1. CASE mem'.refs = mem.refs
      BY <2>1, <3>1 DEF Keeps
    <3>2. CASE mem'.refs # mem.refs
      <4>1. /\ pc = "ref published" /\ DOMAIN mem'.refs = DOMAIN mem.refs \ {FreeIndex - 1}
            /\ \A i \in DOMAIN mem.refs \ {FreeIndex - 1} : mem'.refs[i] = mem.refs[i]
        BY <1>4, <3>2 DEF Drop, Only
      <4>2. \A i \in 1..n : mem.points[i].ref # NoRef => mem.points[i].ref.index # FreeIndex - 1
        BY <4>1 DEF PhaseInv, RefInv
      <4>. QED
        BY <2>1, <4>1, <4>2 DEF Keeps, RefsOf
    <3>. QED
      BY <3>1, <3>2
  <2>3. Keeps(mem', n, mem'.points) /\ Keeps(disk, n, mem'.points)
    BY <1>4, <2>1, <2>2 DEF Keeps, PointsStay
  <2>4. TailOf(mem.points, mem.points)
    BY <1>2 DEF TailOf, Files
  <2>. QED
    BY <1>1, <1>3, <1>4, <2>3, <2>4
       DEF PointsInv, KeptInv, Keeps, StepsInv, TailInv, PointsStay
<1>7. LogInv'
  <2>1. Quiet
    BY <1>1 DEF Quiet, Recording, Referring
  <2>2. disk.name = mem.name /\ disk.message = mem.message /\ disk.marker = mem.marker
    BY <1>1 DEF PhaseInv, SyncInv, Working
  <2>. QED
    <3>1. disk'.name = mem.name /\ disk'.message = mem.message /\ disk'.marker = mem.marker
      BY <1>1, <1>4, <2>2 DEF LogStays
    <3>2. writer.count <= writer'.count /\ writer'.count \in Nat
      BY <1>2, <1>3
    <3>. QED
      BY <1>1, <1>4, <2>1, <3>1, <3>2, QuietLog DEF LogStays
<1>8. DoneInv'
  <2>1. mem.status # "completed" /\ disk.status # "completed"
    BY <1>1 DEF PhaseInv, DoneInv
  <2>. QED
    BY <1>1, <1>4, <2>1 DEF DoneInv
<1>9. CountInv'
  BY <1>1, <1>3 DEF PhaseInv, CountInv, Working, Storing, Referring
<1>10. SyncInv' /\ LiveInv' /\ RefInv' /\ ColumnsInv'
  BY <1>1 DEF SyncInv, LiveInv, RefInv, ColumnsInv, Working, Open, Recording, Storing, Referring
<1>. QED
  BY <1>5, <1>6, <1>7, <1>8, <1>9, <1>10 DEF PhaseInv

LEMMA RecordBoundaryStep ==
    ASSUME IInv, RecordBoundary
    PROVE  IInv'
<1>. USE DEF IInv
<1>. DEFINE confirmed ==
         [kind |-> "boundary", points |-> writer.count, next |-> runner.next,
          ref |-> IF runner.ref = NoRef THEN NoRef ELSE runner.ref.index]
<1>1. /\ pc = "stored" /\ UNCHANGED <<mem, disk, writer, runner, crashes, faults>>
      /\ \/ entry' = confirmed /\ pc' = "log"
         \/ entry' = entry /\ pc' = "idle"
  BY DEF RecordBoundary
<1>2. /\ writer.count \in Nat /\ runner \in Runners /\ writer.count = Acquired(runner.next)
      /\ mem \in Files
  BY DEF Typed, Writers, PhaseInv, CountInv
<1>3. confirmed \in Events
  <2>1. (IF runner.ref = NoRef THEN NoRef ELSE runner.ref.index) \in Nat \cup {NoRef}
    BY <1>2 DEF Runners, References
  <2>2. \A r \in Nat \cup {NoRef} :
           [kind |-> "boundary", points |-> writer.count, next |-> runner.next, ref |-> r] \in Events
    BY <1>2 DEF Events, Runners
  <2>. QED
    BY <2>1, <2>2
<1>4. /\ confirmed.kind = "boundary" /\ confirmed.points = writer.count
      /\ confirmed.next = runner.next
  OBVIOUS
<1>. HIDE DEF confirmed
<1>5. Typed'
  BY <1>1, <1>3 DEF Typed, Phases
<1>6. PointsInv'
  BY <1>1, <1>5, WholeMixes, PointsSettle
<1>7. LogInv'
  <2>1. Quiet
    BY <1>1 DEF Quiet, Recording
  <2>2. disk.name = mem.name /\ disk.message = mem.message /\ disk.marker = mem.marker
    BY <1>1 DEF PhaseInv, SyncInv, Working
  <2>. QED
    BY <1>1, <1>2, <2>1, <2>2, QuietLog
<1>8. SyncInv'
  <2>1. ~Truncating /\ ~Truncating' /\ ~Restarting /\ ~Restarting'
    BY <1>1, <1>4 DEF Truncating, Restarting
  <2>. QED
    BY <1>1, <2>1 DEF PhaseInv, SyncInv, Working, Open
<1>9. CountInv' /\ DoneInv' /\ LiveInv' /\ RefInv'
  BY <1>1 DEF PhaseInv, CountInv, DoneInv, LiveInv, RefInv, Working, Writable, Storing,
     Referring, Recording
<1>10. ColumnsInv'
  <2>1. pc' = "log" /\ entry'.kind = "boundary" => Good(entry)' /\ entry'.points = writer'.count
    BY <1>1, <1>2, <1>4 DEF PhaseInv, ColumnsInv, Good
  <2>2. mem.name = mem.message /\ Len(mem.name) = mem.marker
    BY <1>1, <1>2 DEF PhaseInv, ColumnsInv, Recording, Files
  <2>. QED
    <3>1. mem'.name = mem'.message /\ Len(mem'.name) = mem'.marker + 0
      BY <1>1, <1>2, <2>2 DEF Files
    <3>2. pc' \notin {"logging", "logged", "marked", "abandoned"}
      BY <1>1
    <3>. QED
      BY <2>1, <3>1, <3>2 DEF ColumnsInv
<1>. QED
  BY <1>5, <1>6, <1>7, <1>8, <1>9, <1>10 DEF PhaseInv

\* A column to which an event was appended.
LEMMA AppendIs ==
    ASSUME NEW s \in Columns
    PROVE  LET t == Append(s, entry) IN
           /\ Len(t) = Len(s) + 1 /\ t[Len(t)] = entry
           /\ \A i \in 1..Len(s) : t[i] = s[i]
           /\ entry \in Events => t \in Columns
BY DEF Columns

LEMMA WriteEventStep ==
    ASSUME IInv, WriteEvent
    PROVE  IInv'
<1>. USE DEF IInv
<1>1. /\ pc = "log" /\ pc' = "logging"
      /\ UNCHANGED <<disk, writer, runner, entry, crashes, faults>>
  BY DEF WriteEvent
<1>2. mem \in Files /\ mem.name \in Columns /\ mem.message \in Columns /\ entry \in Events
  BY DEF Typed, Files
<1>3. /\ mem'.name = Append(mem.name, entry) /\ mem'.message = Append(mem.message, entry)
      /\ mem'.marker = mem.marker /\ PointsStay /\ mem'.refs = mem.refs
      /\ mem'.pending = mem.pending /\ mem'.status = mem.status
  BY <1>2 DEF WriteEvent, Files, PointsStay
<1>4. /\ mem'.name \in Columns /\ mem'.message \in Columns
      /\ Len(mem'.name) = Len(mem.name) + 1 /\ mem'.name[Len(mem'.name)] = entry
      /\ \A i \in 1..Len(mem.name) : mem'.name[i] = mem.name[i]
      /\ \A i \in 1..Len(mem.message) : mem'.message[i] = mem.message[i]
      /\ Len(mem'.message) = Len(mem.message) + 1
  BY <1>2, <1>3, AppendIs
<1>5. mem' \in Files
  <2>1. \A s, t \in Columns : [mem EXCEPT !.name = s, !.message = t] \in Files
    BY <1>2 DEF Files
  <2>. QED
    BY <1>3, <1>4, <2>1 DEF WriteEvent
<1>6. Typed' /\ Mixed
  BY <1>1, <1>5, WholeMixes DEF Typed, Phases
<1>7. PointsInv'
  BY <1>1, <1>3, <1>6, PointsSettle DEF PointsStay
<1>8. LogInv'
  <2>1. PICK c \in Nat, b \in Events : LogAt(c, b)
    BY DEF LogInv
  <2>2. mem.marker = c /\ disk.marker = c
    BY <1>1, <2>1 DEF LogAt, Working, PhaseInv, SyncInv
  <2>3. /\ Agrees(mem.name, c)' /\ Agrees(mem.message, c)'
        /\ Agrees(disk.name, c)' /\ Agrees(disk.message, c)'
    <3>1. Len(mem.name) \in Nat /\ Len(mem.message) \in Nat
      BY <1>2 DEF Columns
    <3>2. c <= Len(mem.name) /\ c <= Len(mem.message)
      BY <2>1 DEF LogAt, Agrees
    <3>3. \A i \in 1..c : mem'.name[i] = mem.name[i] /\ mem'.message[i] = mem.message[i]
      BY <1>4, <3>1, <3>2
    <3>4. c <= Len(mem'.name) /\ c <= Len(mem'.message)
      BY <1>4, <3>1, <3>2
    <3>. QED
      BY <1>1, <2>1, <3>3, <3>4 DEF LogAt, Agrees
  <2>4. \A i \in 1..c : mem'.name[i] = mem.name[i]
    BY <1>2, <1>4, <2>1 DEF LogAt, Agrees, Columns
  <2>5. IsLatest(mem'.name, c, b)
    BY <2>1, <2>4 DEF LogAt, IsLatest
  <2>6. LogAt(c, b)'
    <3>1. IsLatest(mem.name, c, b)' /\ Good(b)'
      BY <1>1, <2>1, <2>5 DEF LogAt, IsLatest, Good
    <3>2. Open' => b.points = runner'.boundary
      BY <1>1, <2>1 DEF LogAt, Open
    <3>3. mem'.marker = c /\ disk'.marker = c /\ c + 1 # c
      BY <1>1, <1>3, <2>2
    <3>. QED
      BY <1>1, <2>3, <3>1, <3>2, <3>3 DEF LogAt
  <2>. QED
    BY <2>6 DEF LogInv
<1>9. SyncInv'
  <2>1. (Truncating' <=> Truncating) /\ (Restarting' <=> Restarting)
    BY <1>1 DEF Truncating, Restarting
  <2>. QED
    BY <1>1, <1>3, <2>1 DEF PhaseInv, SyncInv, Working, Open, PointsStay
<1>10. CountInv' /\ DoneInv'
  BY <1>1, <1>3 DEF PhaseInv, CountInv, DoneInv, PointsStay, Working, Writable, Storing, Referring
<1>11. LiveInv' /\ RefInv'
  BY <1>1, <1>3 DEF PhaseInv, LiveInv, RefInv, PointsStay, Working, Storing, Referring, Recording
<1>12. ColumnsInv'
  <2>1. mem.name = mem.message /\ Len(mem.name) = mem.marker /\ mem.marker \in Nat
    BY <1>1, <1>2 DEF PhaseInv, ColumnsInv, Recording, Files
  <2>2. Len(mem'.name) = mem'.marker + 1 /\ Len(mem'.name) # 0
    BY <1>3, <1>4, <2>1
  <2>. QED
    BY <1>1, <1>3, <1>4, <2>1, <2>2 DEF PhaseInv, ColumnsInv, Good
<1>. QED
  BY <1>6, <1>7, <1>8, <1>9, <1>10, <1>11, <1>12 DEF PhaseInv

LEMMA FlushEventStep ==
    ASSUME IInv, FlushEvent
    PROVE  IInv'
<1>. USE DEF IInv
<1>1. /\ pc = "logging" /\ pc' = "logged" /\ disk' = mem
      /\ UNCHANGED <<mem, writer, runner, entry, crashes, faults>>
  BY DEF FlushEvent, Flush
<1>2. Typed' /\ Mixed
  BY <1>1, WholeMixes DEF Typed, Phases
<1>3. PointsInv' /\ LogInv'
  BY <1>1, <1>2, PointsSettle, LogSettle DEF Open, Working
<1>4. SyncInv'
  BY <1>1 DEF SyncInv
<1>5. CountInv' /\ ColumnsInv' /\ DoneInv'
  BY <1>1 DEF PhaseInv, CountInv, ColumnsInv, DoneInv, Working, Writable, Storing, Referring,
     Recording, Good
<1>6. LiveInv' /\ RefInv'
  BY <1>1 DEF PhaseInv, LiveInv, RefInv, Working, Storing, Referring, Recording
<1>. QED
  BY <1>2, <1>3, <1>4, <1>5, <1>6 DEF PhaseInv

LEMMA MarkEventStep ==
    ASSUME IInv, MarkEvent
    PROVE  IInv'
<1>. USE DEF IInv
<1>1. /\ pc = "logged" /\ pc' = "marked"
      /\ UNCHANGED <<disk, writer, runner, entry, crashes, faults>>
  BY DEF MarkEvent
<1>2. mem \in Files /\ mem.marker \in Nat /\ writer.count \in Nat
  BY DEF Typed, Files, Writers
<1>3. /\ mem'.name = mem.name /\ mem'.message = mem.message /\ mem'.marker = mem.marker + 1
      /\ PointsStay /\ mem'.refs = mem.refs
      /\ mem'.pending = mem.pending /\ mem'.status = mem.status /\ mem' \in Files
  <2>1. mem.marker + 1 \in Nat
    BY <1>2
  <2>2. [mem EXCEPT !.marker = mem.marker + 1] \in Files
    BY <1>2, <2>1 DEF Files
  <2>3. mem' = [mem EXCEPT !.marker = mem.marker + 1]
    BY DEF MarkEvent
  <2>. QED
    BY <1>2, <2>2, <2>3 DEF Files, PointsStay
<1>4. Typed' /\ Mixed
  BY <1>1, <1>3, WholeMixes DEF Typed, Phases
<1>5. PointsInv'
  BY <1>1, <1>3, <1>4, PointsSettle DEF PointsStay
<1>6. ColumnsInv'
  BY <1>1, <1>2, <1>3 DEF PhaseInv, ColumnsInv, Recording, Good
<1>7. LogInv'
  <2>1. PICK c \in Nat, b \in Events : LogAt(c, b)
    BY DEF LogInv
  <2>2. mem.marker = c /\ disk.marker = c
    BY <1>1, <2>1 DEF LogAt, Working, PhaseInv, SyncInv
  <2>3. /\ disk.name = mem.name /\ disk.message = mem.message /\ mem.name = mem.message
        /\ Len(mem.name) = c + 1 /\ mem.name[c + 1] = entry
    BY <1>1, <2>2 DEF PhaseInv, SyncInv, ColumnsInv, Working, Recording
  <2>4. ASSUME entry.kind = "boundary"
        PROVE  Good(entry)' /\ b.points <= entry.points /\ disk.points = mem.points
    <3>1. Good(entry) /\ entry.points = writer.count
      BY <1>1, <2>4 DEF PhaseInv, ColumnsInv
    <3>2. Good(b)
      BY <2>1 DEF LogAt
    <3>3. disk.points = mem.points
      BY <1>1 DEF PhaseInv, SyncInv, Working, Truncating, Restarting
    <3>. QED
      BY <1>1, <3>1, <3>2, <3>3 DEF Good
  <2>5. MarkedAt(c, b)'
    BY <1>1, <1>3, <2>3, <2>4 DEF MarkedAt, FollowedBy, PointsStay
  <2>6. /\ Agrees(mem.name, c)' /\ Agrees(mem.message, c)'
        /\ Agrees(disk.name, c)' /\ Agrees(disk.message, c)'
    BY <1>1, <1>3, <2>1 DEF LogAt, Agrees
  <2>7. IsLatest(mem.name, c, b)' /\ Good(b)'
    BY <1>1, <1>3, <2>1 DEF LogAt, IsLatest, Good
  <2>8. LogAt(c, b)'
    BY <1>1, <1>3, <2>1, <2>2, <2>5, <2>6, <2>7 DEF LogAt, Working, Open
  <2>. QED
    BY <2>8 DEF LogInv
<1>8. SyncInv'
  <2>1. ~Truncating' /\ ~Restarting' /\ ~Truncating /\ ~Restarting
    BY <1>1 DEF Truncating, Restarting
  <2>. QED
    BY <1>1, <1>3, <2>1 DEF PhaseInv, SyncInv, Working, Open, PointsStay
<1>9. CountInv' /\ DoneInv'
  BY <1>1, <1>3 DEF PhaseInv, CountInv, DoneInv, PointsStay, Working, Writable, Storing, Referring
<1>10. LiveInv' /\ RefInv'
  BY <1>1, <1>3 DEF PhaseInv, LiveInv, RefInv, PointsStay, Working, Storing, Referring, Recording
<1>. QED
  BY <1>4, <1>5, <1>6, <1>7, <1>8, <1>9, <1>10 DEF PhaseInv

\* The latest boundary when one more event is counted.
LEMMA LatestGrows ==
    ASSUME NEW s, NEW c \in Nat, NEW b, IsLatest(s, c, b)
    PROVE  IF s[c + 1].kind = "boundary" THEN IsLatest(s, c + 1, s[c + 1]) ELSE IsLatest(s, c + 1, b)
<1>. DEFINE e == s[c + 1]
<1>1. \A i \in 1..(c + 1) : i \in 1..c \/ i = c + 1
  OBVIOUS
<1>2. CASE e.kind = "boundary"
  <2>1. c + 1 \in 1..(c + 1) /\ \A j \in (c + 1 + 1)..(c + 1) : s[j].kind # "boundary"
    OBVIOUS
  <2>. QED
    BY <1>2, <2>1 DEF IsLatest
<1>3. CASE e.kind # "boundary"
  <2>1. CASE b = Start /\ \A i \in 1..c : s[i].kind # "boundary"
    BY <1>1, <1>3, <2>1 DEF IsLatest
  <2>2. CASE \E i \in 1..c : /\ s[i] = b /\ b.kind = "boundary"
                             /\ \A j \in (i + 1)..c : s[j].kind # "boundary"
    <3>1. PICK i \in 1..c : /\ s[i] = b /\ b.kind = "boundary"
                            /\ \A j \in (i + 1)..c : s[j].kind # "boundary"
      BY <2>2
    <3>2. \A j \in (i + 1)..(c + 1) : s[j].kind # "boundary"
      BY <1>3, <3>1
    <3>3. i \in 1..(c + 1)
      OBVIOUS
    <3>. QED
      BY <1>3, <3>1, <3>2, <3>3 DEF IsLatest
  <2>. QED
    BY <2>1, <2>2 DEF IsLatest
<1>. QED
  BY <1>2, <1>3

LEMMA CommitEventStep ==
    ASSUME IInv, CommitEvent
    PROVE  IInv'
<1>. USE DEF IInv
<1>1. /\ pc = "marked" /\ pc' \in {"failing", "idle"} /\ disk' = mem
      /\ UNCHANGED <<mem, writer, entry, crashes, faults>>
      /\ runner' = [runner EXCEPT !.boundary =
                       IF entry.kind = "boundary" THEN entry.points ELSE @]
  BY DEF CommitEvent, Flush
<1>2. /\ runner \in Runners /\ entry \in Events /\ entry.points \in Nat /\ writer.count \in Nat
      /\ mem \in Files /\ mem.name \in Columns
  BY DEF Typed, Events, Writers, Files
<1>3. /\ runner'.next = runner.next /\ runner'.ref = runner.ref /\ runner' \in Runners
      /\ runner'.boundary = IF entry.kind = "boundary" THEN entry.points ELSE runner.boundary
  BY <1>1, <1>2 DEF Runners
<1>4. Typed' /\ Mixed
  BY <1>1, <1>3, WholeMixes DEF Typed, Phases
<1>5. PointsInv'
  BY <1>1, <1>4, PointsSettle
<1>6. LogInv'
  <2>1. PICK c \in Nat, b \in Events : LogAt(c, b)
    BY DEF LogInv
  <2>2. mem.marker = c + 1 /\ MarkedAt(c, b)
    BY <1>1, <2>1 DEF LogAt, Working
  <2>3. mem.name = mem.message /\ Len(mem.name) = c + 1 /\ mem.name[c + 1] = entry
    <3>1. ColumnsInv /\ Recording
      BY <1>1 DEF PhaseInv, Recording
    <3>2. mem.name = mem.message /\ Len(mem.name) = mem.marker + 0
      BY <1>1, <3>1 DEF ColumnsInv
    <3>3. mem.name[Len(mem.name)] = entry
      BY <1>1, <3>1 DEF ColumnsInv
    <3>. QED
      BY <2>2, <3>2, <3>3
  <2>. DEFINE last == IF entry.kind = "boundary" THEN entry ELSE b
  <2>4. IsLatest(mem.name, c + 1, last)
    <3>1. IsLatest(mem.name, c, b)
      BY <2>1 DEF LogAt
    <3>. QED
      BY <2>3, <3>1, LatestGrows
  <2>5. Good(last)
    BY <2>1, <2>2 DEF LogAt, MarkedAt
  <2>6. Agrees(mem.name, c + 1)
    <3>1. Agrees(mem.name, c)
      BY <2>1 DEF LogAt
    <3>. QED
      BY <1>2, <2>3, <3>1 DEF Agrees
  <2>7. Open /\ b.points = runner.boundary
    BY <1>1, <2>1 DEF LogAt, Open
  <2>8. last \in Events /\ c + 1 \in Nat /\ last.points = runner'.boundary
    BY <1>2, <1>3, <2>7
  <2>. HIDE DEF last
  <2>9. PICK k \in Nat, e \in Events : k = c + 1 /\ e = last
    BY <2>8
  <2>10. IsLatest(mem.name, k, e)' /\ Good(e)'
    BY <1>1, <2>4, <2>5, <2>9 DEF IsLatest, Good
  <2>11. /\ Agrees(mem.name, k)' /\ Agrees(mem.message, k)'
         /\ Agrees(disk.name, k)' /\ Agrees(disk.message, k)'
    BY <1>1, <2>3, <2>6, <2>9 DEF Agrees
  <2>12. mem'.marker = k /\ disk'.marker = k /\ pc' # "marked" /\ e.points = runner'.boundary
    BY <1>1, <2>2, <2>8, <2>9
  <2>13. LogAt(k, e)'
    BY <2>10, <2>11, <2>12 DEF LogAt
  <2>. QED
    BY <2>13 DEF LogInv
<1>7. SyncInv'
  BY <1>1 DEF SyncInv
<1>8. CountInv' /\ ColumnsInv' /\ DoneInv'
  BY <1>1, <1>3 DEF PhaseInv, CountInv, ColumnsInv, DoneInv, Working, Writable, Storing, Referring,
     Recording
<1>9. LiveInv' /\ RefInv'
  BY <1>1, <1>3 DEF PhaseInv, LiveInv, RefInv, Working, Storing, Referring, Recording
<1>. QED
  BY <1>4, <1>5, <1>6, <1>7, <1>8, <1>9 DEF PhaseInv

LEMMA FailEventStep ==
    ASSUME IInv, FailEvent
    PROVE  IInv'
<1>. USE DEF IInv
<1>1. /\ pc \in {"log", "logging", "logged", "marked"} /\ UNCHANGED <<runner, entry, crashes>>
      /\ pc' = IF entry.kind = "run_resumed" THEN "abandoned" ELSE "failing"
  BY DEF FailEvent
<1>2. /\ mem \in Files /\ disk \in Files /\ writer \in Writers /\ writer.count \in Nat
      /\ writer.faulted = FALSE /\ writer.logFault = FALSE
      /\ mem.name \in Columns /\ disk.name \in Columns /\ disk.message \in Columns
  BY <1>1 DEF Typed, Files, Writers, PhaseInv, CountInv, Working, Writable
<1>3. faults' \in 0..MaxFaults
  <2>1. faults < MaxFaults /\ faults' = faults + 1
    BY DEF FailEvent, Raises
  <2>. QED
    BY <2>1, BoundsAssumption DEF Typed
<1>4. PICK kept \in SUBSET {"marker", "name", "message"} :
         /\ mem' = UndoEvent(kept) /\ disk' \in {disk, mem'}
         /\ \/ kept = {} /\ disk' = mem' /\ writer' = writer
            \/ writer' = [writer EXCEPT !.logFault = TRUE]
  BY DEF FailEvent
<1>5. /\ writer' \in Writers /\ writer'.count = writer.count
      /\ writer'.logFault \/ (kept = {} /\ disk' = mem')
  BY <1>2, <1>4 DEF Writers
<1>6. PICK c \in Nat, b \in Events : LogAt(c, b)
  BY DEF LogInv
<1>7. /\ mem.name = mem.message /\ Len(mem.name) \in {c, c + 1} /\ Before = c
      /\ mem.marker = IF pc = "marked" THEN c + 1 ELSE c
      /\ pc # "marked" => disk.marker = c
  <2>1. Recording /\ Working
    BY <1>1 DEF Recording, Working
  <2>2. mem.marker = IF pc = "marked" THEN c + 1 ELSE c
    BY <1>6, <2>1 DEF LogAt
  <2>3. mem.name = mem.message /\ Len(mem.name) = mem.marker + IF pc \in {"logging", "logged"} THEN 1 ELSE 0
    BY <2>1 DEF PhaseInv, ColumnsInv
  <2>4. Len(mem.name) = IF pc = "log" THEN c ELSE c + 1
    BY <1>1, <2>2, <2>3
  <2>5. pc # "marked" => disk.marker = mem.marker
    BY <2>1 DEF PhaseInv, SyncInv
  <2>. QED
    BY <2>2, <2>3, <2>4, <2>5 DEF Before
<1>8. /\ mem'.marker = IF "marker" \in kept THEN mem.marker ELSE c
      /\ mem'.name = IF "name" \in kept THEN mem.name ELSE Cut(mem.name, c)
      /\ mem'.message = IF "message" \in kept THEN mem.name ELSE Cut(mem.name, c)
      /\ PointsStay /\ mem'.refs = mem.refs
      /\ mem'.pending = mem.pending /\ mem'.status = mem.status
  BY <1>2, <1>4, <1>7 DEF UndoEvent, Files, PointsStay
<1>9. /\ Cut(mem.name, c) \in Columns /\ Len(Cut(mem.name, c)) = c
      /\ \A i \in 1..c : Cut(mem.name, c)[i] = mem.name[i]
  <2>1. c \in 0..Len(mem.name) /\ mem.name \in Seq(Events \cup {Blank})
    BY <1>2, <1>7 DEF Columns
  <2>. QED
    BY <2>1, CutIs DEF Columns
<1>10. mem' \in Files
  <2>1. mem'.name \in Columns /\ mem'.message \in Columns /\ mem'.marker \in Nat
    BY <1>2, <1>7, <1>8, <1>9
  <2>2. mem' = [mem EXCEPT !.marker = mem'.marker, !.name = mem'.name, !.message = mem'.message]
    BY <1>2, <1>4, <1>7, <1>8 DEF UndoEvent, Files
  <2>3. \A s, t \in Columns, m \in Nat :
           [mem EXCEPT !.marker = m, !.name = s, !.message = t] \in Files
    BY <1>2 DEF Files
  <2>4. [mem EXCEPT !.marker = mem'.marker, !.name = mem'.name, !.message = mem'.message] \in Files
    BY <2>1, <2>3
  <2>. QED
    BY <2>2, <2>4, Zenon
<1>11. Typed'
  BY <1>1, <1>2, <1>3, <1>4, <1>5, <1>10 DEF Typed, Phases
<1>12. PointsInv'
  BY <1>4, <1>5, <1>8, PointsRemain DEF PointsStay
<1>13. LogInv'
  <2>1. ASSUME NEW s \in {mem'.name, mem'.message}
        PROVE  /\ c <= Len(s) /\ Len(s) <= c + 1 /\ Len(s) <= Len(mem.name)
               /\ \A i \in 1..c : s[i] = mem.name[i]
               /\ Len(s) = c + 1 => s = mem.name
    BY <1>7, <1>8, <1>9
  <2>2. Agrees(mem.name, c) /\ Agrees(disk.name, c) /\ Agrees(disk.message, c)
    BY <1>6 DEF LogAt
  <2>3. \A i \in 1..c : mem'.name[i] = mem.name[i]
    BY <2>1
  <2>4. Agrees(mem.name, c)' /\ Agrees(mem.message, c)'
    BY <2>1, <2>2 DEF Agrees
  <2>5. Agrees(disk.name, c)' /\ Agrees(disk.message, c)'
    BY <1>4, <2>2, <2>3, <2>4 DEF Agrees
  <2>6. mem'.marker \in {c, c + 1} /\ disk'.marker \in {c, c + 1}
    BY <1>4, <1>6, <1>7, <1>8 DEF LogAt
  <2>7. IsLatest(mem.name, c, b)' /\ Good(b)'
    BY <1>5, <1>6, <2>3 DEF LogAt, IsLatest, Good
  <2>8. b.points = runner'.boundary /\ ~Working'
    BY <1>1, <1>6 DEF LogAt, Open, Working
  <2>9. ASSUME c + 1 \in {mem.marker, disk.marker}' PROVE MarkedAt(c, b)'
    <3>1. pc = "marked" /\ writer'.logFault
      BY <1>4, <1>5, <1>7, <1>8, <2>9
    <3>2. MarkedAt(c, b)
      BY <1>6, <1>7, <3>1 DEF LogAt
    <3>3. FollowedBy(mem.name, c)' /\ FollowedBy(mem.message, c)'
      BY <1>1, <2>1, <3>1, <3>2 DEF MarkedAt, FollowedBy
    <3>4. FollowedBy(disk.name, c)' /\ FollowedBy(disk.message, c)'
      BY <1>1, <1>4, <3>1, <3>2, <3>3 DEF MarkedAt, FollowedBy
    <3>5. Len(mem'.name) <= Len(disk'.name) /\ Len(mem'.message) <= Len(disk'.message)
      <4>1. /\ Len(mem'.name) \in Nat /\ Len(mem'.message) \in Nat /\ Len(mem.name) \in Nat
            /\ Len(disk.name) \in Nat /\ Len(disk.message) \in Nat
        BY SMTT(30), <1>2, <1>10 DEF Files, Columns
      <4>. QED
        BY <1>4, <1>7, <2>1, <3>2, <4>1 DEF MarkedAt
    <3>6. entry.kind = "boundary" =>
             Good(entry)' /\ b.points <= entry.points /\ disk'.points = mem'.points
      BY <1>1, <1>4, <1>5, <1>8, <3>2 DEF MarkedAt, Good, PointsStay
    <3>. QED
      BY <1>1, <3>3, <3>4, <3>5, <3>6 DEF MarkedAt
  <2>10. LogAt(c, b)'
    BY <2>4, <2>5, <2>6, <2>7, <2>8, <2>9 DEF LogAt
  <2>. QED
    BY <2>10 DEF LogInv
<1>14. DoneInv'
  <2>1. mem.status # "completed" /\ disk.status # "completed"
    BY <1>1 DEF PhaseInv, DoneInv
  <2>. QED
    BY <1>4, <1>8, <2>1 DEF DoneInv
<1>15. CountInv'
  BY <1>1, <1>5 DEF PhaseInv, CountInv, Working, Storing, Referring
<1>16. SyncInv' /\ LiveInv' /\ RefInv' /\ ColumnsInv'
  BY <1>1 DEF SyncInv, LiveInv, RefInv, ColumnsInv, Working, Open, Recording, Storing, Referring
<1>. QED
  BY <1>11, <1>12, <1>13, <1>14, <1>15, <1>16 DEF PhaseInv

LEMMA BeginCloseStep ==
    ASSUME IInv, BeginClose
    PROVE  IInv'
<1>. USE DEF IInv
<1>1. /\ pc \in {"idle", "failing"} /\ pc' = "closing"
      /\ UNCHANGED <<disk, writer, runner, entry, crashes, faults>>
  BY DEF BeginClose
<1>2. /\ mem' \in Files /\ PointsStay /\ LogStays /\ mem'.refs = mem.refs
      /\ mem'.status = Status
  <2>1. Status \in Statuses /\ mem \in Files
    BY DEF Status, Statuses, Typed
  <2>. QED
    BY <2>1 DEF BeginClose, Files, PointsStay, LogStays
<1>3. Typed' /\ Mixed
  BY <1>1, <1>2, WholeMixes DEF Typed, Phases
<1>4. PointsInv' /\ LogInv'
  BY <1>1, <1>2, <1>3, PointsSettle, LogSettle DEF PointsStay, LogStays, Open, Working
<1>5. DoneInv'
  <2>1. disk'.status # "completed"
    BY <1>1 DEF PhaseInv, DoneInv
  <2>2. ASSUME mem'.status = "completed"
        PROVE  writer.count = Acquired(Len(Plan)) /\ Whole(mem) /\ Whole(disk)
    <3>1. pc = "idle" /\ runner.next = Len(Plan)
      BY <1>1, <1>2, <2>2 DEF Status
    <3>2. writer.count = Acquired(Len(Plan)) /\ writer.count \in Nat
      BY <3>1 DEF PhaseInv, CountInv, Typed, Writers
    <3>3. Len(mem.points) = writer.count /\ Len(mem.rows) = Len(mem.points)
      BY <3>1, <3>2 DEF PhaseInv, LiveInv, Recording
    <3>4. disk.points = mem.points /\ disk.rows = mem.rows
      BY <3>1 DEF PhaseInv, SyncInv, Working, Truncating, Restarting
    <3>. QED
      BY <3>2, <3>3, <3>4 DEF Whole
  <2>. QED
    BY <1>1, <1>2, <2>1, <2>2 DEF DoneInv, Whole, PointsStay
<1>6. CountInv'
  BY <1>1 DEF PhaseInv, CountInv, Working, Storing, Referring
<1>7. SyncInv' /\ LiveInv' /\ RefInv' /\ ColumnsInv'
  BY <1>1 DEF SyncInv, LiveInv, RefInv, ColumnsInv, Working, Open, Recording, Storing, Referring
<1>. QED
  BY <1>3, <1>4, <1>5, <1>6, <1>7 DEF PhaseInv

LEMMA FailCloseStep ==
    ASSUME IInv, FailClose
    PROVE  IInv'
<1>. USE DEF IInv
<1>1. pc = "closing" /\ UNCHANGED <<disk, pc, writer, runner, entry, crashes>>
  BY DEF FailClose
<1>2. /\ mem' \in Files /\ PointsStay /\ LogStays /\ mem'.refs = mem.refs
      /\ mem'.status = "faulted"
  BY DEF FailClose, Typed, Files, Statuses, PointsStay, LogStays
<1>3. faults' \in 0..MaxFaults
  <2>1. faults < MaxFaults /\ faults' = faults + 1
    BY DEF FailClose, Raises
  <2>. QED
    BY <2>1, BoundsAssumption DEF Typed
<1>4. Typed' /\ Mixed
  BY <1>1, <1>2, <1>3, WholeMixes DEF Typed, Phases
<1>5. PointsInv' /\ LogInv'
  BY <1>1, <1>2, <1>4, PointsSettle, LogSettle DEF PointsStay, LogStays, Open, Working
<1>6. DoneInv'
  BY <1>1, <1>2 DEF PhaseInv, DoneInv, Whole, PointsStay
<1>7. CountInv'
  BY <1>1 DEF PhaseInv, CountInv, Working, Storing, Referring
<1>8. SyncInv' /\ LiveInv' /\ RefInv' /\ ColumnsInv'
  BY <1>1 DEF SyncInv, LiveInv, RefInv, ColumnsInv, Working, Open, Recording, Storing, Referring
<1>. QED
  BY <1>4, <1>5, <1>6, <1>7, <1>8 DEF PhaseInv

LEMMA FinishCloseStep ==
    ASSUME IInv, FinishClose
    PROVE  IInv'
<1>. USE DEF IInv
<1>1. /\ pc = "closing" /\ pc' = "closed" /\ disk' = mem'
      /\ UNCHANGED <<writer, runner, entry, crashes, faults>>
  BY DEF FinishClose
<1>2. /\ mem' \in Files /\ PointsStay /\ LogStays /\ mem'.refs = mem.refs
      /\ mem'.pending = mem.pending /\ mem'.status \in {mem.status, "faulted"}
  BY DEF FinishClose, Typed, Files, Statuses, PointsStay, LogStays
<1>3. Typed' /\ Mixed
  BY <1>1, <1>2 DEF Typed, Phases, Mixed, MixedColumn, PointsStay, LogStays
<1>4. PointsInv' /\ LogInv'
  BY <1>1, <1>2, <1>3, PointsSettle, LogSettle DEF PointsStay, LogStays, Open, Working
<1>5. DoneInv'
  BY <1>1, <1>2 DEF PhaseInv, DoneInv, Whole, PointsStay
<1>6. CountInv'
  BY <1>1 DEF PhaseInv, CountInv, Working, Storing, Referring
<1>7. SyncInv' /\ LiveInv' /\ RefInv' /\ ColumnsInv'
  BY <1>1 DEF SyncInv, LiveInv, RefInv, ColumnsInv, Working, Open, Recording, Storing, Referring
<1>. QED
  BY <1>3, <1>4, <1>5, <1>6, <1>7 DEF PhaseInv

LEMMA FailResumeStep ==
    ASSUME IInv, FailResume
    PROVE  IInv'
<1>. USE DEF IInv
<1>1. /\ pc \in {"opened", "trimmed", "truncating", "truncated", "abandoned"} /\ pc' = "closed"
      /\ disk' = mem /\ UNCHANGED <<mem, writer, runner, entry, crashes>>
  BY DEF FailResume
<1>2. faults' \in 0..MaxFaults
  BY BoundsAssumption DEF FailResume, Raises, Typed
<1>3. Typed' /\ Mixed
  BY <1>1, <1>2, WholeMixes DEF Typed, Phases
<1>4. PointsInv' /\ LogInv'
  BY <1>1, <1>3, PointsSettle, LogSettle DEF Open, Working
<1>5. DoneInv' /\ CountInv'
  BY <1>1 DEF PhaseInv, DoneInv, CountInv, Working, Storing, Referring
<1>6. SyncInv' /\ LiveInv' /\ RefInv' /\ ColumnsInv'
  BY <1>1 DEF SyncInv, LiveInv, RefInv, ColumnsInv, Working, Open, Recording, Storing, Referring
<1>. QED
  BY <1>3, <1>4, <1>5, <1>6 DEF PhaseInv

-----------------------------------------------------------------------------
(* What recovery reads.                                                    *)

\* The boundary that inspect finds in a log whose columns agree.
LEMMA BoundaryIs ==
    ASSUME NEW f, NEW n \in Nat, NEW b \in Events,
           n = IF MarkerValid(f) THEN f.marker ELSE Shorter(f),
           \A i \in 1..n : f.name[i] = f.message[i] /\ f.name[i] \in Events,
           IsLatest(f.name, n, b)
    PROVE  Boundary(f) = b
<1>. DEFINE found == {i \in 1..n : f.name[i] # Blank /\ f.name[i].kind = "boundary"}
<1>1. found = {i \in 1..n : f.name[i].kind = "boundary"}
  BY ValuesAssumption
<1>2. LatestBoundary(f) =
          IF found = {} THEN 0 ELSE CHOOSE i \in found : \A j \in found : j <= i
  BY DEF LatestBoundary, BoundaryUpTo
<1>. HIDE DEF found
<1>3. CASE b = Start /\ \A i \in 1..n : f.name[i].kind # "boundary"
  <2>1. LatestBoundary(f) = 0
    BY <1>1, <1>2, <1>3
  <2>. QED
    BY <1>3, <2>1 DEF Boundary
<1>4. CASE \E i \in 1..n : /\ f.name[i] = b /\ b.kind = "boundary"
                           /\ \A j \in (i + 1)..n : f.name[j].kind # "boundary"
  <2>1. PICK i \in 1..n : /\ f.name[i] = b /\ b.kind = "boundary"
                          /\ \A j \in (i + 1)..n : f.name[j].kind # "boundary"
    BY <1>4
  <2>2. found \in SUBSET Nat /\ i \in found /\ \A j \in found : j <= i
    BY <1>1, <2>1
  <2>3. LatestBoundary(f) = i
    BY <1>2, <2>2, GreatestIs
  <2>. QED
    BY <2>1, <2>3 DEF Boundary
<1>. QED
  BY <1>3, <1>4 DEF IsLatest

\* On the disk it is the boundary of the first c events or the event that follows.
LEMMA BoundaryOfDisk ==
    ASSUME Typed, NEW c \in Nat, NEW b \in Events, LogAt(c, b)
    PROVE  /\ \/ Boundary(disk) = b
              \/ /\ Boundary(disk) = entry /\ entry.kind = "boundary"
                 /\ disk.marker = c + 1 /\ Shorter(disk) = c + 1
           /\ MarkerValid(disk) => IsLatest(disk.name, disk.marker, Boundary(disk))
           /\ \A i \in 1..disk.marker : i <= Shorter(disk) =>
                 disk.name[i] = disk.message[i] /\ disk.name[i] \in Events
           /\ writer.logFault \/ MarkerValid(disk)
<1>1. /\ Len(disk.name) \in Nat /\ Len(disk.message) \in Nat /\ entry \in Events
  BY DEF Typed, Files, Columns
<1>2. /\ c <= Len(disk.name) /\ c <= Len(disk.message)
      /\ \A i \in 1..c : /\ disk.name[i] = mem.name[i] /\ disk.message[i] = mem.name[i]
                         /\ disk.name[i] \in Events
  BY DEF LogAt, Agrees
<1>3. IsLatest(disk.name, c, b)
  BY <1>2 DEF LogAt, IsLatest
<1>4. Shorter(disk) \in Nat /\ c <= Shorter(disk)
      /\ Shorter(disk) <= Len(disk.name) /\ Shorter(disk) <= Len(disk.message)
  BY <1>1, <1>2 DEF Shorter
<1>5. CASE disk.marker = c
  <2>1. MarkerValid(disk)
    BY <1>4, <1>5 DEF MarkerValid
  <2>2. Boundary(disk) = b
    BY <1>2, <1>3, <1>5, <2>1, BoundaryIs
  <2>. QED
    BY <1>2, <1>3, <1>5, <2>1, <2>2
<1>6. CASE disk.marker = c + 1 /\ ~MarkerValid(disk)
  <2>1. Shorter(disk) = c
    BY <1>4, <1>6 DEF MarkerValid
  <2>2. Boundary(disk) = b
    BY <1>2, <1>3, <1>6, <2>1, BoundaryIs
  <2>3. MarkedAt(c, b)
    BY <1>6 DEF LogAt
  <2>4. writer.logFault
    BY <1>1, <2>1, <2>3 DEF MarkedAt, FollowedBy, Shorter
  <2>. QED
    BY <1>2, <1>6, <2>1, <2>2, <2>4
<1>7. CASE disk.marker = c + 1 /\ MarkerValid(disk)
  <2>1. MarkedAt(c, b)
    BY <1>7 DEF LogAt
  <2>2. /\ Shorter(disk) = c + 1 /\ disk.name[c + 1] = entry /\ disk.message[c + 1] = entry
    BY <1>1, <1>4, <1>7, <2>1 DEF MarkedAt, FollowedBy, MarkerValid
  <2>3. \A i \in 1..(c + 1) : disk.name[i] = disk.message[i] /\ disk.name[i] \in Events
    BY <1>1, <1>2, <2>2
  <2>4. CASE entry.kind = "boundary"
    <3>1. IsLatest(disk.name, c + 1, entry)
      BY <1>3, <2>2, <2>4, LatestGrows
    <3>2. Boundary(disk) = entry
      BY <1>1, <1>7, <2>3, <3>1, BoundaryIs
    <3>. QED
      BY <1>7, <2>2, <2>3, <2>4, <3>1, <3>2
  <2>5. CASE entry.kind # "boundary"
    <3>1. IsLatest(disk.name, c + 1, b)
      BY <1>3, <2>2, <2>5, LatestGrows
    <3>2. Boundary(disk) = b
      BY <1>7, <2>3, <3>1, BoundaryIs
    <3>. QED
      BY <1>7, <2>3, <3>1, <3>2
  <2>. QED
    BY <2>4, <2>5
<1>. QED
  BY <1>5, <1>6, <1>7 DEF LogAt

\* The same of every state, to be used of the next one.
HasBoundary(c, b) ==
    \/ Boundary(disk) = b
    \/ Boundary(disk) = entry /\ entry.kind = "boundary" /\ disk.marker = c + 1
BoundaryHeld == \A c \in Nat, b \in Events : Typed /\ LogAt(c, b) => HasBoundary(c, b)
LEMMA DiskHasBoundary == BoundaryHeld
BY BoundaryOfDisk DEF HasBoundary, BoundaryHeld

LEMMA ReopenStep ==
    ASSUME IInv, Reopen
    PROVE  IInv'
<1>. USE DEF IInv
<1>1. PICK B : B = Boundary(disk)
  OBVIOUS
<1>2. /\ pc \in {"down", "closed"} /\ pc' = "opened" /\ mem' = disk
      /\ UNCHANGED <<disk, entry, crashes, faults>> /\ disk.status # "completed"
      /\ runner.attempt < MaxAttempts /\ Inspectable(disk)
      /\ writer' = FreshWriter(B.points)
      /\ runner' = [next |-> B.next,
                    ref |-> IF B.ref = NoRef THEN NoRef ELSE [index |-> B.ref, trace |-> disk.refs[B.ref]],
                    boundary |-> B.points, attempt |-> runner.attempt + 1]
  BY <1>1 DEF Reopen, Open
<1>3. PICK c \in Nat, b \in Events : LogAt(c, b)
  BY DEF LogInv
<1>4. /\ B \in Events /\ B.points <= writer.count /\ Acquired(B.next) = B.points
      /\ IsLatest(disk.name, disk.marker, B) /\ MarkerValid(disk)
      /\ \A i \in 1..disk.marker : disk.name[i] = disk.message[i] /\ disk.name[i] \in Events
  <2>1. MarkerValid(disk) /\ Acquired(B.next) = B.points
    BY <1>1, <1>2 DEF Inspectable, BoundaryCovered
  <2>2. entry \in Events
    BY DEF Typed
  <2>3. Good(b) /\ (disk.marker = c + 1 /\ entry.kind = "boundary" => Good(entry))
    BY <1>3 DEF LogAt, MarkedAt
  <2>4. B = b \/ (B = entry /\ entry.kind = "boundary" /\ disk.marker = c + 1)
    BY <1>1, <1>3, BoundaryOfDisk
  <2>5. IsLatest(disk.name, disk.marker, B)
    BY <1>1, <1>3, <2>1, BoundaryOfDisk
  <2>6. \A i \in 1..disk.marker : i <= Shorter(disk)
    BY <2>1 DEF MarkerValid, Shorter, Typed, Files, Columns
  <2>7. \A i \in 1..disk.marker : disk.name[i] = disk.message[i] /\ disk.name[i] \in Events
    BY <1>3, <2>6, BoundaryOfDisk
  <2>. QED
    BY <2>1, <2>2, <2>3, <2>4, <2>5, <2>7 DEF Good
<1>5. /\ B.points \in Nat /\ B.next \in 0..Len(Plan) /\ B.ref \in Nat \cup {NoRef}
      /\ writer.count \in Nat /\ mem \in Files /\ disk \in Files /\ disk.marker \in Nat
      /\ disk.refs \in Maps(Traces) /\ runner.attempt \in 1..MaxAttempts
  BY <1>4 DEF Events, Typed, Writers, Files, Runners
<1>6. B.ref # NoRef => B.ref \in DOMAIN disk.refs
  BY <1>1, <1>2 DEF Inspectable
<1>7. /\ writer'.count = B.points /\ ~writer'.faulted /\ ~writer'.logFault /\ writer' \in Writers
  BY <1>2, <1>5 DEF FreshWriter, Writers
<1>8. /\ runner'.next = B.next /\ runner'.boundary = B.points
      /\ runner'.ref = IF B.ref = NoRef THEN NoRef ELSE [index |-> B.ref, trace |-> disk.refs[B.ref]]
  BY <1>2
<1>9. Typed'
  <2>1. runner'.ref \in References \cup {NoRef}
    <3>1. CASE B.ref = NoRef
      BY <1>8, <3>1
    <3>2. CASE B.ref # NoRef
      <4>1. disk.refs[B.ref] \in Traces /\ B.ref \in Nat
        BY <1>5, <1>6, <3>2, MapIs
      <4>2. \A i \in Nat, t \in Traces : [index |-> i, trace |-> t] \in References
        BY DEF References
      <4>. QED
        BY <1>8, <3>2, <4>1, <4>2
    <3>. QED
      BY <3>1, <3>2
  <2>2. runner.attempt + 1 \in 1..MaxAttempts
    BY <1>2, <1>5, BoundsAssumption
  <2>3. \A r \in References \cup {NoRef}, k \in 1..MaxAttempts :
           [next |-> B.next, ref |-> r, boundary |-> B.points, attempt |-> k] \in Runners
    BY <1>5 DEF Runners
  <2>4. runner' = [next |-> B.next, ref |-> runner'.ref, boundary |-> B.points,
                   attempt |-> runner.attempt + 1]
    BY <1>2, <1>8
  <2>5. runner' \in Runners
    <3>1. PICK r \in References \cup {NoRef} : r = runner'.ref
      BY <2>1
    <3>2. [next |-> B.next, ref |-> r, boundary |-> B.points, attempt |-> runner.attempt + 1]
            \in Runners
      BY <2>2, <2>3
    <3>. QED
      BY <2>4, <3>1, <3>2, Zenon
  <2>. QED
    BY <1>2, <1>7, <2>5 DEF Typed, Phases
<1>10. /\ disk.points = mem.points /\ disk.spectra = mem.spectra /\ disk.complete = mem.complete
       /\ disk.rows = mem.rows /\ disk.refs = mem.refs
  BY <1>2 DEF PhaseInv, SyncInv, Open, Truncating, Restarting
<1>11. PointsInv'
  <2>1. Keeps(disk, writer.count, disk.points)
    BY <1>10 DEF PointsInv, KeptInv
  <2>2. \A i \in 1..B.points : i \in 1..writer.count
    BY <1>4, <1>5
  <2>3. Keeps(disk, B.points, disk.points)
    <3>1. Len(disk.points) \in Nat /\ Len(disk.rows) \in Nat
      BY <1>5 DEF Files
    <3>2. writer.count <= Len(disk.points) /\ writer.count <= Len(disk.rows)
      BY <2>1 DEF Keeps, PointsOf
    <3>3. B.points <= Len(disk.points) /\ B.points <= Len(disk.rows)
      BY <1>4, <1>5, <3>1, <3>2
    <3>. QED
      BY <2>1, <2>2, <3>3 DEF Keeps, PointsOf, CompleteOf, SpectraOf, RefsOf
  <2>4. TailOf(disk.points, disk.points)
    BY <1>5 DEF TailOf, Files
  <2>. QED
    BY <1>2, <1>7, <2>3, <2>4 DEF PointsInv, KeptInv, StepsInv, TailInv
<1>12. LogInv'
  <2>1. PICK k \in Nat, e \in Events : k = disk.marker /\ e = B
    BY <1>4, <1>5
  <2>2. k <= Len(disk.name) /\ k <= Len(disk.message)
    BY <1>4, <1>5, <2>1 DEF MarkerValid, Shorter, Files, Columns
  <2>3. /\ Agrees(mem.name, k)' /\ Agrees(mem.message, k)'
        /\ Agrees(disk.name, k)' /\ Agrees(disk.message, k)'
    BY <1>2, <1>4, <2>1, <2>2 DEF Agrees
  <2>4. IsLatest(disk.name, k, e)
    BY <1>4, <2>1
  <2>5. IsLatest(mem.name, k, e)'
    BY <1>2, <2>4 DEF IsLatest
  <2>6. Good(e)'
    BY <1>4, <1>5, <1>7, <2>1 DEF Good
  <2>7. mem'.marker = k /\ disk'.marker = k /\ pc' # "marked" /\ e.points = runner'.boundary
    BY <1>2, <1>8, <2>1
  <2>8. LogAt(k, e)'
    BY <2>3, <2>5, <2>6, <2>7 DEF LogAt
  <2>. QED
    BY <2>8 DEF LogInv
<1>13. SyncInv'
  BY <1>2 DEF SyncInv
<1>14. CountInv' /\ LiveInv' /\ DoneInv' /\ ColumnsInv'
  BY <1>2, <1>4, <1>7, <1>8 DEF CountInv, LiveInv, DoneInv, ColumnsInv, Writable, Recording, Storing,
     Referring
<1>15. RefInv'
  BY <1>2, <1>8 DEF RefInv
<1>. QED
  BY <1>9, <1>11, <1>12, <1>13, <1>14, <1>15 DEF PhaseInv

-----------------------------------------------------------------------------
(* The steps of a resume.                                                  *)

LEMMA TrimEventsStep ==
    ASSUME IInv, TrimEvents
    PROVE  IInv'
<1>. USE DEF IInv
<1>1. /\ pc = "opened" /\ pc' = "trimmed"
      /\ UNCHANGED <<disk, writer, runner, entry, crashes, faults>>
  BY DEF TrimEvents
<1>2. mem \in Files /\ mem.name \in Columns /\ mem.message \in Columns
  BY DEF Typed, Files
<1>3. PICK c \in Nat, b \in Events : LogAt(c, b)
  BY DEF LogInv
<1>4. mem.marker = c /\ disk.marker = c
  BY <1>1, <1>3 DEF LogAt, Working, PhaseInv, SyncInv
<1>5. /\ mem'.name = Cut(mem.name, c) /\ mem'.message = Cut(mem.message, c)
      /\ mem'.marker = c /\ PointsStay /\ mem'.refs = mem.refs
      /\ mem'.pending = mem.pending /\ mem'.status = mem.status
  BY <1>2, <1>4 DEF TrimEvents, Files, PointsStay
<1>6. /\ \A i \in 1..c : mem.name[i] = mem.message[i]
      /\ c \in 0..Len(mem.name) /\ c \in 0..Len(mem.message)
  BY <1>2, <1>3 DEF LogAt, Agrees, Columns
<1>7. /\ mem'.name \in Columns /\ Len(mem'.name) = c /\ \A i \in 1..c : mem'.name[i] = mem.name[i]
      /\ mem'.message \in Columns /\ Len(mem'.message) = c
      /\ \A i \in 1..c : mem'.message[i] = mem.message[i]
  <2>1. /\ Cut(mem.name, c) \in Columns /\ Len(Cut(mem.name, c)) = c
        /\ \A i \in 1..c : Cut(mem.name, c)[i] = mem.name[i]
    BY <1>2, <1>6, CutIs DEF Columns
  <2>2. /\ Cut(mem.message, c) \in Columns /\ Len(Cut(mem.message, c)) = c
        /\ \A i \in 1..c : Cut(mem.message, c)[i] = mem.message[i]
    BY <1>2, <1>6, CutIs DEF Columns
  <2>. QED
    BY <1>5, <2>1, <2>2
<1>8. mem'.name = mem'.message
  <2>1. \A i \in 1..c : mem'.name[i] = mem'.message[i]
    BY <1>6, <1>7
  <2>. QED
    BY <1>7, <2>1, SeqEqual DEF Columns
<1>9. mem' \in Files
  <2>1. \A s, t \in Columns : [mem EXCEPT !.name = s, !.message = t] \in Files
    BY <1>2 DEF Files
  <2>2. mem' = [mem EXCEPT !.name = mem'.name, !.message = mem'.message]
    BY <1>2, <1>4, <1>5 DEF TrimEvents, Files
  <2>3. [mem EXCEPT !.name = mem'.name, !.message = mem'.message] \in Files
    BY <1>7, <2>1
  <2>. QED
    BY <2>2, <2>3, Zenon
<1>10. Typed' /\ Mixed
  BY <1>1, <1>9, WholeMixes DEF Typed, Phases
<1>11. PointsInv'
  BY <1>1, <1>5, <1>10, PointsSettle DEF PointsStay
<1>12. LogInv'
  <2>1. /\ Agrees(mem.name, c)' /\ Agrees(mem.message, c)'
        /\ Agrees(disk.name, c)' /\ Agrees(disk.message, c)'
    BY SMTT(30), <1>1, <1>3, <1>6, <1>7 DEF LogAt, Agrees
  <2>2. IsLatest(mem.name, c, b)' /\ Good(b)'
    BY <1>1, <1>3, <1>7 DEF LogAt, IsLatest, Good
  <2>3. b.points = runner'.boundary
    BY <1>1, <1>3 DEF LogAt, Open
  <2>4. LogAt(c, b)'
    BY <1>1, <1>4, <1>5, <2>1, <2>2, <2>3 DEF LogAt
  <2>. QED
    BY <2>4 DEF LogInv
<1>13. SyncInv'
  <2>1. ~Truncating /\ ~Restarting /\ ~Truncating' /\ ~Restarting'
    BY <1>1 DEF Truncating, Restarting
  <2>. QED
    BY <1>1, <1>4, <1>5, <2>1 DEF PhaseInv, SyncInv, Working, Open, PointsStay
<1>14. CountInv' /\ DoneInv'
  BY <1>1, <1>5 DEF PhaseInv, CountInv, DoneInv, Working, Writable, Storing, Referring
<1>15. LiveInv' /\ RefInv'
  BY <1>1, <1>5 DEF PhaseInv, LiveInv, RefInv, Working, Recording, Storing, Referring
<1>16. ColumnsInv'
  BY <1>1, <1>5, <1>7, <1>8 DEF ColumnsInv
<1>. QED
  BY <1>10, <1>11, <1>12, <1>13, <1>14, <1>15, <1>16 DEF PhaseInv

LEMMA FlushTrimStep ==
    ASSUME IInv, FlushTrim
    PROVE  IInv'
<1>. USE DEF IInv
<1>1. /\ pc = "trimmed" /\ pc' = "truncating" /\ disk' = mem
      /\ UNCHANGED <<mem, writer, runner, entry, crashes, faults>>
  BY DEF FlushTrim, Flush
<1>2. Typed' /\ Mixed
  BY <1>1, WholeMixes DEF Typed, Phases
<1>3. PointsInv' /\ LogInv'
  BY <1>1, <1>2, PointsSettle, LogSettle DEF Open, Working
<1>4. SyncInv'
  BY <1>1 DEF SyncInv
<1>5. CountInv' /\ ColumnsInv' /\ DoneInv'
  BY <1>1 DEF PhaseInv, CountInv, ColumnsInv, DoneInv, Working, Writable, Storing, Referring,
     Recording
<1>6. LiveInv' /\ RefInv'
  BY <1>1 DEF PhaseInv, LiveInv, RefInv, Working, Storing, Referring, Recording
<1>. QED
  BY <1>2, <1>3, <1>4, <1>5, <1>6 DEF PhaseInv

LEMMA TruncatePrivateStep ==
    ASSUME IInv, TruncatePrivate
    PROVE  IInv'
<1>. USE DEF IInv
<1>. DEFINE n == writer.count
            spectra == Only(mem.spectra, DOMAIN mem.spectra \ Discarded)
            whole == mem.complete \cap {mem.points[i] : i \in 1..n}
<1>1. /\ pc = "truncating" /\ pc' = "truncated"
      /\ UNCHANGED <<disk, writer, runner, entry, crashes, faults>>
  BY DEF TruncatePrivate
<1>2. mem \in Files /\ n \in Nat /\ mem.points \in Seq(Samples) /\ Len(mem.points) \in Nat
  BY DEF Typed, Files, Writers
<1>3. /\ Keeps(mem, n, mem.points) /\ Keeps(disk, n, mem.points) /\ n \in 0..Len(mem.points)
  BY <1>2 DEF PointsInv, KeptInv, Keeps, PointsOf
<1>4. /\ mem' = [mem EXCEPT !.points = Cut(mem.points, n), !.complete = whole,
                            !.spectra = spectra, !.pending = {},
                            !.refs = Only(mem.refs, Retained(spectra))]
  BY <1>2 DEF TruncatePrivate, Files
<1>5. /\ mem'.points = Cut(mem.points, n) /\ mem'.complete = whole
      /\ mem'.spectra = spectra /\ mem'.pending = {}
      /\ mem'.refs = Only(mem.refs, Retained(spectra))
      /\ mem'.rows = mem.rows /\ LogStays /\ mem'.status = mem.status
  BY <1>2, <1>4 DEF Files, LogStays
<1>6. /\ mem'.points \in Seq(Samples) /\ Len(mem'.points) = n
      /\ \A i \in 1..n : mem'.points[i] = mem.points[i]
  BY SMTT(30), <1>2, <1>3, <1>5, CutIs
<1>7. mem' \in Files
  <2>1. spectra \in Maps(Samples) /\ Only(mem.refs, Retained(spectra)) \in Maps(Traces)
    BY <1>2, OnlyIs DEF Files
  <2>2. whole \in SUBSET Samples
    BY <1>2 DEF Files
  <2>3. \A p \in Seq(Samples), w \in SUBSET Samples, s \in Maps(Samples), r \in Maps(Traces) :
           [mem EXCEPT !.points = p, !.complete = w, !.spectra = s, !.pending = {}, !.refs = r]
             \in Files
    BY <1>2 DEF Files
  <2>. HIDE DEF spectra, whole
  <2>4. [mem EXCEPT !.points = Cut(mem.points, n), !.complete = whole, !.spectra = spectra,
                    !.pending = {}, !.refs = Only(mem.refs, Retained(spectra))] \in Files
    BY <1>5, <1>6, <2>1, <2>2, <2>3
  <2>. QED
    BY <1>4, <2>4
<1>8. Typed'
  BY <1>1, <1>7 DEF Typed, Phases
<1>9. \A i \in 1..n : i - 1 \in DOMAIN spectra /\ spectra[i - 1] = mem.points[i]
  <2>1. SUFFICES ASSUME NEW i \in 1..n
                 PROVE  i - 1 \in DOMAIN spectra /\ spectra[i - 1] = mem.points[i]
    OBVIOUS
  <2>2. i - 1 \in DOMAIN mem.spectra /\ mem.spectra[i - 1] = mem.points[i]
    BY <1>3 DEF Keeps, SpectraOf
  <2>3. i - 1 \notin Discarded
    BY <1>2 DEF Discarded
  <2>. QED
    BY <2>2, <2>3 DEF Only
<1>10. DOMAIN mem'.refs \subseteq DOMAIN mem.refs
       /\ \A r \in DOMAIN mem'.refs : mem'.refs[r] = mem.refs[r]
  BY <1>5 DEF Only
<1>11. RefsOf(mem'.refs, n, mem.points)
  <2>1. SUFFICES ASSUME NEW i \in 1..n, mem.points[i].ref # NoRef
                 PROVE  /\ mem.points[i].ref.index \in DOMAIN mem'.refs
                        /\ mem'.refs[mem.points[i].ref.index] = mem.points[i].ref.trace
    BY DEF RefsOf
  <2>. DEFINE r == mem.points[i].ref.index
  <2>2. r \in DOMAIN mem.refs /\ mem.refs[r] = mem.points[i].ref.trace
    BY <1>3, <2>1 DEF Keeps, RefsOf
  <2>3. i - 1 \in DOMAIN spectra /\ spectra[i - 1] = mem.points[i]
    BY <1>9
  <2>. HIDE DEF spectra
  <2>4. r \in Referenced(spectra)
    BY <2>1, <2>3 DEF Referenced
  <2>5. r \in Nat
    BY <1>2, <2>2, MapIs DEF Files, Bounded
  <2>6. Retained(spectra) = {k \in DOMAIN mem.refs : \E s \in Referenced(spectra) : k <= s}
    BY <2>4 DEF Retained
  <2>7. r \in Retained(spectra)
    BY <2>2, <2>4, <2>5, <2>6
  <2>8. r \in DOMAIN mem'.refs
    BY <1>5, <2>2, <2>7 DEF Only
  <2>. QED
    BY <1>10, <2>2, <2>8
<1>12. PointsInv'
  <2>1. PointsOf(mem'.points, n, mem'.points) /\ PointsOf(mem'.rows, n, mem'.points)
    BY <1>2, <1>3, <1>5, <1>6 DEF Keeps, PointsOf
  <2>2. CompleteOf(mem'.complete, n, mem'.points)
    BY <1>3, <1>5, <1>6 DEF Keeps, CompleteOf
  <2>3. SpectraOf(mem'.spectra, n, mem'.points)
    BY <1>5, <1>6, <1>9 DEF SpectraOf
  <2>4. RefsOf(mem'.refs, n, mem'.points)
    BY <1>6, <1>11 DEF RefsOf
  <2>5. Keeps(mem', n, mem'.points)
    BY <2>1, <2>2, <2>3, <2>4 DEF Keeps
  <2>6. Keeps(disk, n, mem'.points)
    BY <1>3, <1>6 DEF Keeps, PointsOf, CompleteOf, SpectraOf, RefsOf
  <2>7. StepsOf(mem'.points) /\ StepsOf(disk.points)
    BY <1>3, <1>6 DEF PointsInv, StepsInv, StepsOf
  <2>8. TailOf(mem'.points, disk.points)
    <3>1. TailOf(mem.points, disk.points)
      BY DEF PointsInv, TailInv
    <3>2. Len(disk.points) \in Nat
      BY DEF Typed, Files
    <3>. QED
      BY <1>2, <1>3, <1>6, <3>1, <3>2 DEF TailOf
  <2>. QED
    BY <1>1, <2>5, <2>6, <2>7, <2>8 DEF PointsInv, KeptInv, StepsInv, TailInv
<1>13. LogInv'
  <2>1. Quiet
    BY <1>1 DEF Quiet
  <2>2. disk.name = mem.name /\ disk.message = mem.message /\ disk.marker = mem.marker
    BY <1>1 DEF PhaseInv, SyncInv, Working
  <2>. QED
    BY <1>1, <1>2, <1>5, <2>1, <2>2, QuietLog DEF LogStays
<1>14. SyncInv'
  <2>1. Truncating' /\ ~Restarting' /\ ~Restarting
    BY <1>1 DEF Truncating, Restarting
  <2>. QED
    BY <1>1, <1>5, <2>1 DEF PhaseInv, SyncInv, Working, Open, LogStays
<1>15. CountInv' /\ DoneInv' /\ ColumnsInv'
  BY <1>1, <1>5 DEF PhaseInv, CountInv, DoneInv, ColumnsInv, LogStays, Working, Writable, Storing,
     Referring, Recording
<1>16. LiveInv'
  BY <1>1, <1>2, <1>5, <1>6 DEF LiveInv, Recording, Storing, Referring
<1>17. RefInv'
  BY <1>1, <1>10 DEF PhaseInv, RefInv, Working
<1>. QED
  BY <1>8, <1>12, <1>13, <1>14, <1>15, <1>16, <1>17 DEF PhaseInv

LEMMA TruncatePublicStep ==
    ASSUME IInv, TruncatePublic
    PROVE  IInv'
<1>. USE DEF IInv
<1>. DEFINE n == writer.count
            rows == Resize(mem.rows, n)
<1>1. /\ pc = "truncated" /\ pc' = "log" /\ entry' = Resumed
      /\ UNCHANGED <<disk, writer, runner, crashes, faults>>
  BY DEF TruncatePublic
<1>2. mem \in Files /\ n \in Nat /\ mem.rows \in Seq(Samples) /\ n <= Len(mem.rows)
  BY DEF Typed, Files, Writers, PointsInv, KeptInv, Keeps, PointsOf
<1>3. rows \in Seq(Samples) /\ Len(rows) = n /\ \A i \in 1..n : rows[i] = mem.rows[i]
  <2>1. rows = [i \in 1..n |-> mem.rows[i]]
    BY <1>2 DEF Resize
  <2>2. \A i \in 1..n : mem.rows[i] \in Samples
    BY <1>2
  <2>. QED
    BY <1>2, <2>1, <2>2
<1>4. mem' = [mem EXCEPT !.rows = rows, !.status = "running"]
  BY DEF TruncatePublic
<1>. HIDE DEF rows
<1>5. /\ mem'.rows = rows /\ mem'.status = "running" /\ mem'.points = mem.points
      /\ mem'.complete = mem.complete /\ mem'.spectra = mem.spectra /\ mem'.refs = mem.refs
      /\ mem'.pending = mem.pending /\ LogStays /\ mem' \in Files
  BY <1>2, <1>3, <1>4 DEF Files, Statuses, LogStays
<1>6. Typed'
  BY <1>1, <1>5, EventsAre DEF Typed, Phases
<1>7. PointsInv'
  <2>1. Keeps(mem, n, mem.points) /\ Keeps(disk, n, mem.points)
    BY DEF PointsInv, KeptInv
  <2>2. Keeps(mem', n, mem'.points) /\ Keeps(disk, n, mem'.points)
    BY <1>2, <1>3, <1>5, <2>1 DEF Keeps, PointsOf
  <2>. QED
    BY <1>1, <1>5, <2>2 DEF PointsInv, KeptInv, StepsInv, TailInv
<1>8. LogInv'
  <2>1. Quiet
    BY <1>1 DEF Quiet
  <2>2. disk.name = mem.name /\ disk.message = mem.message /\ disk.marker = mem.marker
    BY <1>1 DEF PhaseInv, SyncInv, Working
  <2>. QED
    BY <1>1, <1>2, <1>5, <2>1, <2>2, QuietLog DEF LogStays
<1>9. SyncInv'
  <2>1. Truncating' /\ Restarting'
    BY <1>1, EventsAre DEF Truncating, Restarting
  <2>. QED
    BY <1>1, <1>5, <2>1 DEF PhaseInv, SyncInv, Working, Open, LogStays
<1>10. CountInv' /\ DoneInv'
  BY <1>1, <1>5 DEF PhaseInv, CountInv, DoneInv, Working, Writable, Storing, Referring
<1>11. ColumnsInv'
  BY <1>1, <1>5, EventsAre DEF PhaseInv, ColumnsInv, LogStays
<1>12. LiveInv'
  BY <1>1, <1>2, <1>3, <1>5 DEF PhaseInv, LiveInv
<1>13. RefInv'
  BY <1>1, <1>5 DEF PhaseInv, RefInv, Working
<1>. QED
  BY <1>6, <1>7, <1>8, <1>9, <1>10, <1>11, <1>12, <1>13 DEF PhaseInv

-----------------------------------------------------------------------------
(* Induction.                                                              *)

LEMMA InitIInv == Init => IInv
<1>. SUFFICES ASSUME Init PROVE IInv
  OBVIOUS
<1>1. /\ mem = EmptyFile /\ disk = EmptyFile /\ pc = "idle" /\ writer = FreshWriter(0)
      /\ runner = [next |-> 0, ref |-> NoRef, boundary |-> 0, attempt |-> 1] /\ entry = Note
      /\ crashes = 0 /\ faults = 0
  BY DEF Init
<1>2. EmptyFile \in Files
  <2>1. \A S : <<>> \in Maps(S)
    <3>1. DOMAIN <<>> = {} /\ Bounded({})
      BY DEF Bounded
    <3>2. \A S : <<>> \in [{} -> S]
      BY <3>1
    <3>. QED
      BY <3>1, <3>2, MapIs
  <2>. QED
    BY <2>1 DEF EmptyFile, Files, Columns, Statuses
<1>3. Typed
  <2>1. runner \in Runners
    BY <1>1, PlanAssumption, BoundsAssumption DEF Runners
  <2>2. writer \in Writers
    BY <1>1 DEF FreshWriter, Writers
  <2>3. crashes \in 0..MaxCrashes /\ faults \in 0..MaxFaults
    BY <1>1, BoundsAssumption
  <2>. QED
    BY <1>1, <1>2, <2>1, <2>2, <2>3, EventsAre DEF Typed, Phases
<1>4. /\ mem.points = <<>> /\ mem.rows = <<>> /\ mem.pending = {} /\ mem.name = <<>>
      /\ mem.message = <<>> /\ mem.marker = 0 /\ mem.status = "running" /\ disk = mem
      /\ writer.count = 0 /\ ~writer.faulted /\ ~writer.logFault
      /\ runner.next = 0 /\ runner.ref = NoRef /\ runner.boundary = 0
  BY <1>1 DEF EmptyFile, FreshWriter
<1>5. PointsInv
  BY <1>4 DEF PointsInv, KeptInv, Keeps, PointsOf, CompleteOf, SpectraOf, RefsOf, StepsInv, StepsOf,
     TailInv, TailOf
<1>6. LogInv
  <2>1. /\ Agrees(mem.name, 0) /\ Agrees(mem.message, 0)
        /\ Agrees(disk.name, 0) /\ Agrees(disk.message, 0)
    BY <1>4 DEF Agrees
  <2>2. IsLatest(mem.name, 0, Start) /\ Good(Start)
    BY <1>4, AcquiredIs, EventsAre DEF IsLatest, Good
  <2>3. LogAt(0, Start)
    BY <1>1, <1>4, <2>1, <2>2, EventsAre DEF LogAt
  <2>. QED
    BY <2>3, EventsAre DEF LogInv
<1>7. PhaseInv
  <2>1. SyncInv
    BY <1>4 DEF SyncInv
  <2>2. CountInv /\ RefInv /\ DoneInv
    BY <1>1, <1>4, AcquiredIs DEF CountInv, Writable, Storing, Referring, RefInv, DoneInv
  <2>3. LiveInv /\ ColumnsInv
    BY <1>1, <1>4, EventsAre DEF LiveInv, ColumnsInv
  <2>. QED
    BY <2>1, <2>2, <2>3 DEF PhaseInv
<1>. QED
  BY <1>3, <1>5, <1>6, <1>7 DEF IInv

LEMMA StutterIInv == IInv /\ UNCHANGED vars => IInv'
<1>. SUFFICES ASSUME IInv, UNCHANGED vars PROVE IInv'
  OBVIOUS
<1>1. UNCHANGED <<mem, disk, pc, writer, runner, entry, crashes, faults>>
  BY DEF vars
<1>. USE DEF IInv
<1>2. Typed' /\ Mixed
  BY <1>1, WholeMixes DEF Typed
<1>3. PointsInv' /\ LogInv'
  BY <1>1, <1>2, PointsSettle, LogSettle DEF Open, Working
<1>4. SyncInv' /\ CountInv' /\ DoneInv' /\ ColumnsInv'
  BY ZenonT(40), <1>1 DEF PhaseInv, SyncInv, CountInv, DoneInv, ColumnsInv, Working, Open, Writable, Truncating,
     Restarting, Storing, Referring, Recording, Current, Good, Whole
<1>5. LiveInv' /\ RefInv'
  BY <1>1 DEF PhaseInv, LiveInv, RefInv, Working, Storing, Referring, Recording, Keeps, Sample,
     Current, FreeIndex, ReferenceHeld
<1>. QED
  BY <1>2, <1>3, <1>4, <1>5 DEF PhaseInv

LEMMA NextIInv == IInv /\ [Next]_vars => IInv'
<1>. SUFFICES ASSUME IInv, Next PROVE IInv'
  BY StutterIInv
<1>. HIDE DEF IInv
<1>1. CASE Append_
  BY <1>1, StagePointStep, FlushPointStep, ExposePointStep, CommitPointStep, FailPointStep DEF Append_
<1>2. CASE StoreReference
  BY <1>2, StageReferenceStep, FlushReferenceStep, PublishReferenceStep, CommitReferenceStep,
     FailReferenceStep DEF StoreReference
<1>3. CASE AppendEvent
  BY <1>3, RecordBoundaryStep, WriteEventStep, FlushEventStep, MarkEventStep, CommitEventStep,
     FailEventStep DEF AppendEvent
<1>4. CASE Close
  BY <1>4, BeginCloseStep, FailCloseStep, FinishCloseStep DEF Close
<1>5. CASE Resume
  BY <1>5, ReopenStep, TrimEventsStep, FlushTrimStep, TruncatePrivateStep, TruncatePublicStep,
     FailResumeStep DEF Resume
<1>6. CASE Crash
  BY <1>6, CrashStep
<1>7. CASE \E f \in Fields : Evict(f)
  BY <1>7, EvictStep
<1>. QED
  BY <1>1, <1>2, <1>3, <1>4, <1>5, <1>6, <1>7 DEF Next

LEMMA Always == Spec => []IInv
BY InitIInv, NextIInv, PTL DEF Spec

-----------------------------------------------------------------------------
(* The references of a run that was never resumed.                         *)

\* The references that are in both files, and that no rollback takes away.
Firm ==
    (DOMAIN mem.refs \cap DOMAIN disk.refs)
        \ (IF pc = "ref published" THEN {FreeIndex - 1} ELSE {})

\* What the log, the event at hand and the runner refer to is among F.
Held(b, F) == b # Blank /\ b.ref # NoRef => b.ref \in F
AllHeld(s, F) == \A i \in 1..Len(s) : Held(s[i], F)
Named(F) ==
    /\ Held(entry, F)
    /\ AllHeld(mem.name, F) /\ AllHeld(mem.message, F)
    /\ AllHeld(disk.name, F) /\ AllHeld(disk.message, F)
    /\ runner.ref # NoRef => runner.ref.index \in F
FirstInv ==
    runner.attempt = 1 =>
        /\ pc \notin {"opened", "trimmed", "truncating", "truncated", "abandoned"}
        /\ entry.kind # "run_resumed"
        /\ Named(Firm)

\* A step of the first attempt keeps the firm references.
LEMMA FirmStays ==
    ASSUME IInv, Next, runner.attempt = 1, FirstInv, runner'.attempt = 1
    PROVE  Firm \subseteq Firm'
<1>. USE DEF IInv
<1>1. CASE Reopen
  BY <1>1 DEF Reopen
<1>2. CASE TrimEvents \/ FlushTrim \/ TruncatePrivate \/ TruncatePublic \/ FailResume
  BY <1>2 DEF FirstInv, TrimEvents, FlushTrim, TruncatePrivate, TruncatePublic, FailResume
<1>3. CASE /\ mem'.refs = mem.refs /\ disk'.refs \in {disk.refs, mem.refs}
           /\ pc' = "ref published" => pc = "ref published"
  <2>1. FreeIndex' = FreeIndex
    <3>1. mem'.refs = mem.refs
      BY <1>3
    <3>2. PICK D : D = DOMAIN mem.refs
      OBVIOUS
    <3>3. /\ FreeIndex = IF D = {} THEN 0 ELSE 1 + CHOOSE i \in D : \A j \in D : j <= i
          /\ FreeIndex' = IF D = {} THEN 0 ELSE 1 + CHOOSE i \in D : \A j \in D : j <= i
      BY <3>1, <3>2 DEF FreeIndex
    <3>4. CASE D = {}
      BY <3>3, <3>4
    <3>5. CASE D # {}
      <4>1. PICK top : top = CHOOSE i \in D : \A j \in D : j <= i
        OBVIOUS
      <4>. QED
        BY <3>3, <3>5, <4>1
    <3>. QED
      BY <3>4, <3>5
  <2>. QED
    BY <1>3, <2>1 DEF Firm
<1>4. CASE PublishReference
  <2>1. mem'.refs = With(mem.refs, FreeIndex, <<Current, runner.attempt>>) /\ disk' = disk
        /\ pc = "ref flushed"
    BY <1>4 DEF PublishReference, Typed, Files
  <2>2. DOMAIN mem'.refs = DOMAIN mem.refs \cup {FreeIndex}
    BY <2>1 DEF With
  <2>3. FreeIndex \in Nat /\ \A i \in DOMAIN mem.refs : i < FreeIndex
    BY FreeIndexIs DEF Typed
  <2>4. FreeIndex' = FreeIndex + 1
    BY <2>2, FreeIndexGrows DEF Typed
  <2>5. FreeIndex' - 1 \notin DOMAIN mem.refs
    BY <2>3, <2>4
  <2>. QED
    BY <2>1, <2>2, <2>5 DEF Firm
<1>5. CASE FailReference
  <2>1. \A x \in DOMAIN mem.refs : pc = "ref published" /\ x # FreeIndex - 1
                                      => x \in DOMAIN Drop(mem.refs, FreeIndex - 1)
    BY DEF Drop, Only
  <2>2. pc' = "failing"
    BY <1>5 DEF FailReference
  <2>3. mem'.refs \in {mem.refs, IF pc = "ref published" THEN Drop(mem.refs, FreeIndex - 1) ELSE mem.refs}
        /\ disk'.refs \in {disk.refs, mem'.refs}
    BY <1>5 DEF FailReference, Typed, Files
  <2>. QED
    BY <2>1, <2>2, <2>3 DEF Firm
<1>6. CASE Crash
  BY <1>6 DEF Crash, Firm
<1>7. CASE Append_
  <2>1. CASE StagePoint
    <3>1. mem'.refs = mem.refs /\ disk' = disk /\ pc' # "ref published"
      BY <2>1 DEF StagePoint, Typed, Files
    <3>. QED
      BY <1>3, <3>1
  <2>2. CASE FlushPoint
    BY <1>3, <2>2 DEF FlushPoint, Flush
  <2>3. CASE ExposePoint
    <3>1. mem'.refs = mem.refs /\ disk' = disk /\ pc' # "ref published"
      BY <2>3 DEF ExposePoint, Typed, Files
    <3>. QED
      BY <1>3, <3>1
  <2>4. CASE CommitPoint
    <3>1. mem'.refs = mem.refs /\ disk'.refs \in {disk.refs, mem.refs} /\ pc' # "ref published"
      BY <2>4 DEF CommitPoint, Flush, Typed, Files
    <3>. QED
      BY <1>3, <3>1
  <2>5. CASE FailPoint
    <3>1. \A kept : Undo(kept).refs = mem.refs
      BY DEF Undo, Typed, Files
    <3>2. /\ \E kept : mem' = Undo(kept)
          /\ disk' \in {disk, mem'}
          /\ pc' # "ref published"
      BY <2>5 DEF FailPoint, RollBack
    <3>. QED
      BY <1>3, <3>1, <3>2
  <2>. QED
    BY <1>7, <2>1, <2>2, <2>3, <2>4, <2>5 DEF Append_
<1>8. CASE StageReference \/ FlushReference \/ CommitReference
  BY <1>3, <1>8 DEF StageReference, FlushReference, CommitReference, Flush, Typed, Files
<1>9. CASE AppendEvent
  <2>1. CASE RecordBoundary
    BY <1>3, <2>1 DEF RecordBoundary
  <2>2. CASE WriteEvent
    <3>1. mem'.refs = mem.refs
      BY <2>2 DEF WriteEvent, Typed, Files
    <3>. QED
      BY <1>3, <2>2, <3>1 DEF WriteEvent
  <2>3. CASE FlushEvent
    BY <1>3, <2>3 DEF FlushEvent, Flush
  <2>4. CASE MarkEvent
    <3>1. mem'.refs = mem.refs
      BY <2>4 DEF MarkEvent, Typed, Files
    <3>. QED
      BY <1>3, <2>4, <3>1 DEF MarkEvent
  <2>5. CASE CommitEvent
    BY <1>3, <2>5 DEF CommitEvent, Flush
  <2>6. CASE FailEvent
    <3>1. \A kept : UndoEvent(kept).refs = mem.refs
      BY DEF UndoEvent, Typed, Files
    <3>2. /\ \E kept : mem' = UndoEvent(kept)
          /\ disk' \in {disk, mem'}
          /\ pc' # "ref published"
      BY <2>6 DEF FailEvent
    <3>. QED
      BY <1>3, <3>1, <3>2
  <2>. QED
    BY <1>9, <2>1, <2>2, <2>3, <2>4, <2>5, <2>6 DEF AppendEvent
<1>10. CASE Close
  BY ZenonT(40), <1>3, <1>10 DEF Close, BeginClose, FailClose, FinishClose, Typed, Files
<1>11. CASE \E f \in Fields : Evict(f)
  <2>1. PICK f \in Fields : Evict(f)
    BY <1>11
  <2>. QED
    BY <1>3, <2>1, EvictMixes DEF Mixed, Evict
<1>. QED
  BY <1>1, <1>2, <1>4, <1>5, <1>6, <1>7, <1>8, <1>9, <1>10, <1>11 DEF Next, StoreReference, Resume

\* Columns that hold entries of the old ones, of the event at hand, or blanks.
Drawn(s, F) == s \in Columns /\ AllHeld(s, F)
LEMMA DrawnIs ==
    ASSUME NEW F, NEW s, Drawn(s, F)
    PROVE  /\ \A n \in 0..Len(s) : Drawn(Cut(s, n), F)
           /\ \A b \in Events : Held(b, F) => Drawn(Append(s, b), F)
           /\ Len(s) # 0 => Drawn([s EXCEPT ![Len(s)] = Blank], F)
<1>1. s \in Seq(Events \cup {Blank}) /\ \A i \in 1..Len(s) : Held(s[i], F)
  BY DEF Drawn, AllHeld, Columns
<1>2. ASSUME NEW n \in 0..Len(s) PROVE Drawn(Cut(s, n), F)
  <2>1. /\ Cut(s, n) \in Columns /\ Len(Cut(s, n)) = n
        /\ \A i \in 1..n : Cut(s, n)[i] = s[i]
    BY <1>1, CutIs DEF Columns
  <2>. QED
    BY <1>1, <2>1 DEF Drawn, AllHeld
<1>3. ASSUME NEW b \in Events, Held(b, F) PROVE Drawn(Append(s, b), F)
  <2>1. /\ Append(s, b) \in Columns /\ Len(Append(s, b)) = Len(s) + 1
        /\ \A i \in 1..Len(s) : Append(s, b)[i] = s[i]
        /\ Append(s, b)[Len(s) + 1] = b
    BY <1>1 DEF Columns
  <2>2. \A i \in 1..(Len(s) + 1) : i \in 1..Len(s) \/ i = Len(s) + 1
    BY <1>1
  <2>. QED
    BY <1>1, <1>3, <2>1, <2>2 DEF Drawn, AllHeld
<1>4. ASSUME Len(s) # 0 PROVE Drawn([s EXCEPT ![Len(s)] = Blank], F)
  <2>1. /\ [s EXCEPT ![Len(s)] = Blank] \in Columns
        /\ Len([s EXCEPT ![Len(s)] = Blank]) = Len(s)
        /\ \A i \in 1..Len(s) : [s EXCEPT ![Len(s)] = Blank][i] = IF i = Len(s) THEN Blank ELSE s[i]
    <3>1. Len(s) \in 1..Len(s) /\ Blank \in Events \cup {Blank}
      BY <1>1, <1>4
    <3>. QED
      BY <1>1, <3>1, ExceptSeq DEF Columns
  <2>. QED
    BY <1>1, <2>1 DEF Drawn, AllHeld, Held
<1>. QED
  BY <1>2, <1>3, <1>4

\* What each step of the first attempt leaves in the log and the event at hand.
LEMMA NamedStays ==
    ASSUME IInv, Next, runner.attempt = 1, runner'.attempt = 1, FirstInv, NEW F, F = Firm
    PROVE  /\ Held(entry', F)
           /\ AllHeld(mem'.name, F) /\ AllHeld(mem'.message, F)
           /\ AllHeld(disk'.name, F) /\ AllHeld(disk'.message, F)
           /\ pc' \notin {"opened", "trimmed", "truncating", "truncated", "abandoned"}
           /\ entry'.kind # "run_resumed"
<1>. USE DEF IInv
<1>. DEFINE Same == mem'.name = mem.name /\ mem'.message = mem.message
            Flushed == /\ disk'.name \in {disk.name, mem'.name}
                       /\ disk'.message \in {disk.message, mem'.message}
            Onward == pc' \notin {"opened", "trimmed", "truncating", "truncated", "abandoned"}
<1>1. /\ pc \notin {"opened", "trimmed", "truncating", "truncated", "abandoned"}
      /\ entry.kind # "run_resumed" /\ Held(entry, F) /\ entry \in Events
      /\ Drawn(mem.name, F) /\ Drawn(mem.message, F)
      /\ Drawn(disk.name, F) /\ Drawn(disk.message, F)
  BY DEF FirstInv, Named, Drawn, Typed, Files
<1>2. Held(Note, F) /\ Note.kind # "run_resumed"
  BY DEF Held, Note
<1>3. CASE Same /\ Flushed /\ Onward /\ entry' \in {entry, Note}
  BY <1>1, <1>2, <1>3 DEF Drawn
<1>4. CASE Reopen
  BY <1>4 DEF Reopen, Typed, Runners
<1>5. CASE TrimEvents \/ FlushTrim \/ TruncatePrivate \/ TruncatePublic \/ FailResume
  BY <1>1, <1>5 DEF TrimEvents, FlushTrim, TruncatePrivate, TruncatePublic, FailResume
<1>6. CASE Append_
  BY <1>1, <1>3, <1>6 DEF Append_, StagePoint, FlushPoint, ExposePoint, CommitPoint, FailPoint,
     RollBack, Undo, Flush, Typed, Files
<1>7. CASE StoreReference
  BY <1>1, <1>3, <1>7 DEF StoreReference, StageReference, FlushReference, PublishReference,
     CommitReference, FailReference, Flush, Typed, Files
<1>8. CASE FlushEvent \/ MarkEvent \/ CommitEvent
  BY <1>1, <1>3, <1>8 DEF FlushEvent, MarkEvent, CommitEvent, Flush, Typed, Files
<1>9. CASE Close
  BY <1>1, <1>3, <1>9 DEF Close, BeginClose, FailClose, FinishClose, Typed, Files
<1>10. CASE RecordBoundary
  <2>1. runner.ref # NoRef => runner.ref.index \in F
    BY DEF FirstInv, Named
  <2>2. Same /\ Flushed /\ Onward
    BY <1>10 DEF RecordBoundary
  <2>3. \/ entry' = entry
        \/ /\ entry'.kind = "boundary"
           /\ entry'.ref = IF runner.ref = NoRef THEN NoRef ELSE runner.ref.index
    BY <1>10 DEF RecordBoundary
  <2>4. Held(entry', F) /\ entry'.kind # "run_resumed"
    BY <1>1, <2>1, <2>3 DEF Held
  <2>. QED
    BY <1>1, <2>2, <2>4 DEF Drawn
<1>11. CASE WriteEvent
  <2>1. /\ mem'.name = Append(mem.name, entry) /\ mem'.message = Append(mem.message, entry)
        /\ disk' = disk /\ entry' = entry /\ pc' = "logging"
    BY <1>11 DEF WriteEvent, Typed, Files
  <2>2. Drawn(mem'.name, F) /\ Drawn(mem'.message, F)
    BY <1>1, <2>1, DrawnIs
  <2>. QED
    BY <1>1, <2>1, <2>2 DEF Drawn
<1>12. CASE FailEvent
  <2>1. PICK kept : mem' = UndoEvent(kept) /\ disk' \in {disk, mem'}
    BY <1>12 DEF FailEvent
  <2>2. /\ mem'.name = IF "name" \in kept THEN mem.name ELSE Cut(mem.name, Before)
        /\ mem'.message = IF "message" \in kept THEN mem.message ELSE Cut(mem.message, Before)
    BY <2>1 DEF UndoEvent, Typed, Files
  <2>3. Before \in 0..Len(mem.name) /\ mem.message = mem.name
    <3>1. pc \in {"log", "logging", "logged", "marked"}
      BY <1>12 DEF FailEvent
    <3>2. Len(mem.name) \in Nat
      BY DEF Typed, Files, Columns
    <3>. QED
      BY <3>1, <3>2 DEF PhaseInv, ColumnsInv, Recording, Before
  <2>4. Drawn(Cut(mem.name, Before), F)
    BY <1>1, <2>3, DrawnIs
  <2>5. Drawn(mem'.name, F) /\ Drawn(mem'.message, F)
    BY <1>1, <2>2, <2>3, <2>4
  <2>6. entry' = entry /\ Onward
    BY <1>1, <1>12 DEF FailEvent
  <2>. QED
    BY <1>1, <2>1, <2>5, <2>6 DEF Drawn
<1>13. CASE Crash
  BY <1>1, <1>13 DEF Crash, Drawn
<1>14. CASE \E f \in Fields : Evict(f)
  <2>1. PICK f \in Fields : Evict(f)
    BY <1>14
  <2>2. UNCHANGED <<mem, pc, entry>> /\ Mixed
    BY <2>1, EvictMixes DEF Evict
  <2>3. ASSUME NEW new, NEW old, NEW cached, Drawn(old, F), Drawn(cached, F),
               MixedColumn(new, old, cached)
        PROVE  Drawn(new, F)
    <3>1. Len(old) \in Nat /\ Len(cached) \in Nat
      BY <2>3 DEF Drawn, Columns
    <3>2. CASE Len(cached) > Len(old) /\ new = [cached EXCEPT ![Len(cached)] = Blank]
      <4>1. Len(cached) # 0
        BY <3>1, <3>2
      <4>2. Drawn([cached EXCEPT ![Len(cached)] = Blank], F)
        BY <2>3, <4>1, DrawnIs
      <4>. QED
        BY <3>2, <4>2
    <3>. QED
      BY <2>3, <3>2 DEF MixedColumn
  <2>4. Drawn(disk'.name, F) /\ Drawn(disk'.message, F)
    BY <1>1, <2>2, <2>3 DEF Mixed
  <2>. QED
    BY <1>1, <2>2, <2>4 DEF Drawn
<1>. QED
  BY <1>4, <1>5, <1>6, <1>7, <1>8, <1>9, <1>10, <1>11, <1>12, <1>13, <1>14
     DEF Next, AppendEvent, Resume

LEMMA FirstStep == IInv /\ FirstInv /\ Next => FirstInv'
<1>. SUFFICES ASSUME IInv, FirstInv, Next, runner'.attempt = 1 PROVE FirstInv'
  BY DEF FirstInv
<1>1. runner.attempt = 1
  <2>1. CASE Reopen
    BY <2>1 DEF Reopen, IInv, Typed, Runners
  <2>2. CASE ~Reopen
    BY <2>2 DEF IInv, Typed, Runners, Next, Append_, StoreReference, AppendEvent, Close, Resume,
       StagePoint, FlushPoint, ExposePoint, CommitPoint, FailPoint, StageReference,
       FlushReference, PublishReference, CommitReference, FailReference, RecordBoundary,
       WriteEvent, FlushEvent, MarkEvent, CommitEvent, FailEvent, BeginClose, FailClose,
       FinishClose, TrimEvents, FlushTrim, TruncatePrivate, TruncatePublic, FailResume, Crash,
       Evict
  <2>. QED
    BY <2>1, <2>2
<1>2. PICK F : F = Firm
  OBVIOUS
<1>3. F \subseteq Firm'
  BY <1>1, <1>2, FirmStays
<1>4. /\ Held(entry', F)
      /\ AllHeld(mem'.name, F) /\ AllHeld(mem'.message, F)
      /\ AllHeld(disk'.name, F) /\ AllHeld(disk'.message, F)
      /\ pc' \notin {"opened", "trimmed", "truncating", "truncated", "abandoned"}
      /\ entry'.kind # "run_resumed"
  BY <1>1, <1>2, NamedStays
<1>5. runner'.ref # NoRef => runner'.ref.index \in Firm'
  <2>1. CASE CommitReference
    <3>0. PICK k : k = FreeIndex - 1
      OBVIOUS
    <3>1. /\ mem' = mem /\ disk' = mem /\ pc' = "idle" /\ pc = "ref published"
          /\ runner'.ref = [index |-> k, trace |-> mem.refs[k]]
      BY <2>1, <3>0 DEF CommitReference, Flush, IInv, Typed, Runners
    <3>2. FreeIndex - 1 \in DOMAIN mem.refs
      BY <3>1, FreeIndexIs DEF IInv, Typed, PhaseInv, RefInv
    <3>3. Firm' = DOMAIN mem.refs
      BY <3>1 DEF Firm
    <3>4. runner'.ref.index = FreeIndex - 1
      <4>1. PICK t : t = mem.refs[k]
        OBVIOUS
      <4>2. runner'.ref = [index |-> k, trace |-> t]
        BY <3>1, <4>1
      <4>3. runner'.ref.index = k
        BY <4>2
      <4>. QED
        BY <3>0, <4>3
    <3>. QED
      BY <3>2, <3>3, <3>4
  <2>2. CASE Reopen
    BY <1>1, <2>2 DEF Reopen
  <2>3. CASE ~CommitReference /\ ~Reopen
    <3>1. runner'.ref = runner.ref
      BY <2>3 DEF IInv, Typed, Runners, Next, Append_, StoreReference, AppendEvent, Close, Resume,
         StagePoint, FlushPoint, ExposePoint, CommitPoint, FailPoint, StageReference,
         FlushReference, PublishReference, FailReference, RecordBoundary, WriteEvent,
         FlushEvent, MarkEvent, CommitEvent, FailEvent, BeginClose, FailClose, FinishClose,
         TrimEvents, FlushTrim, TruncatePrivate, TruncatePublic, FailResume, Crash, Evict
    <3>. QED
      BY <1>1, <1>2, <1>3, <3>1 DEF FirstInv, Named
  <2>. QED
    BY <2>1, <2>2, <2>3
<1>6. ASSUME NEW s, AllHeld(s, F) PROVE AllHeld(s, Firm')
  BY <1>3, <1>6 DEF AllHeld, Held
<1>7. Named(Firm)'
  BY <1>3, <1>4, <1>5, <1>6 DEF Named, AllHeld, Held
<1>. QED
  BY <1>4, <1>7 DEF FirstInv

LEMMA InitFirst == Init => FirstInv
<1>. SUFFICES ASSUME Init PROVE FirstInv
  OBVIOUS
<1>1. mem.name = <<>> /\ mem.message = <<>> /\ disk = mem /\ entry = Note /\ pc = "idle"
      /\ runner.ref = NoRef
  BY DEF Init, EmptyFile
<1>. QED
  BY <1>1 DEF FirstInv, Named, AllHeld, Held, Note

LEMMA AlwaysFirst == Spec => []FirstInv
<1>1. IInv /\ FirstInv /\ [Next]_vars => FirstInv'
  <2>1. FirstInv /\ UNCHANGED vars => FirstInv'
    BY ZenonT(40) DEF vars, FirstInv, Named, AllHeld, Held, Firm, FreeIndex
  <2>. QED
    BY <2>1, FirstStep
<1>. QED
  BY <1>1, InitFirst, Always, PTL DEF Spec

-----------------------------------------------------------------------------
(* The properties.                                                         *)

\* The types of the file, the writer, the runner and the event being appended.
THEOREM TypeCorrect == Spec => []TypeOK
<1>1. IInv => TypeOK
  <2>. SUFFICES ASSUME IInv PROVE TypeOK
    OBVIOUS
  <2>1. ASSUME NEW f \in Files PROVE FileOK(f)
    <3>1. DOMAIN f = Fields
      BY FieldsAre DEF Files
    <3>2. f.spectra \in Maps(Samples) /\ f.refs \in Maps(Traces)
      BY DEF Files
    <3>3. \A i \in DOMAIN f.spectra : i \in Nat /\ f.spectra[i] \in Samples
      BY <3>2, MapIs DEF Bounded
    <3>4. \A i \in DOMAIN f.refs : i \in Nat /\ f.refs[i] \in Traces
      BY <3>2, MapIs DEF Bounded
    <3>. QED
      BY <3>1, <3>3, <3>4 DEF FileOK, Files, Columns, Statuses
  <2>2. writer.count \in 0..Acquired(Len(Plan))
    <3>1. Len(Plan) \in Nat /\ runner.next \in 0..Len(Plan)
      BY PlanAssumption DEF IInv, Typed, Runners
    <3>2. Acquired(runner.next) <= Acquired(Len(Plan)) /\ Acquired(Len(Plan)) \in Nat
      BY <3>1, AcquiredIs
    <3>3. writer.count = Acquired(runner.next) /\ writer.count \in Nat
      BY DEF IInv, PhaseInv, CountInv, Typed, Writers
    <3>. QED
      BY <3>2, <3>3
  <2>. QED
    BY <2>1, <2>2 DEF IInv, Typed, TypeOK, Writers, Runners
<1>. QED
  BY <1>1, Always, PTL

\* Whatever a crash leaves at any step, the columns of the log agree and recovery accepts
\* the file, unless the rollback of an entry failed half way, no boundary was confirmed, or
\* a resume deleted the boundary's reference; in the last two the points it counts are
\* there (Hdf5RunWriter.append_event and resume, RunRecoveryManager.inspect).
THEOREM EveryRefusalExplained == Spec => []RefusalsExplained
<1>1. IInv /\ FirstInv => RefusalsExplained
  <2>. SUFFICES ASSUME IInv, FirstInv PROVE RefusalsExplained
    OBVIOUS
  <2>. USE DEF IInv
  <2>1. PICK c \in Nat, b \in Events : LogAt(c, b)
    BY DEF LogInv
  <2>2. EventRowsAgree
    BY <2>1, BoundaryOfDisk, ValuesAssumption DEF EventRowsAgree
  <2>3. CASE ~MarkerValid(disk)
    BY <2>1, <2>2, <2>3, BoundaryOfDisk DEF RefusalsExplained, MarkLeft
  <2>4. CASE MarkerValid(disk)
    <3>1. PICK B : B = Boundary(disk)
      OBVIOUS
    <3>2. B = b \/ (B = entry /\ entry.kind = "boundary" /\ disk.marker = c + 1)
      BY <2>1, <3>1, BoundaryOfDisk
    <3>3. Good(B) /\ B \in Events
      BY <2>1, <3>2 DEF LogAt, MarkedAt, Typed
    <3>4. Keeps(disk, writer.count, mem.points)
      BY DEF PointsInv, KeptInv
    <3>5. /\ B.points \in Nat /\ writer.count \in Nat /\ Len(disk.points) \in Nat
          /\ B.points <= writer.count /\ writer.count <= Len(disk.points)
      BY <3>3, <3>4 DEF Events, Typed, Writers, Files, Good, Keeps, PointsOf
    <3>6. PrefixWhole(disk, B.points)
      <4>1. \A i \in 1..writer.count : disk.points[i] \in disk.complete
        BY <3>4 DEF Keeps, PointsOf, CompleteOf
      <4>. QED
        BY <3>5, <4>1 DEF PrefixWhole
    <3>7. BoundaryCovered(disk)
      <4>1. B # Blank
        BY <3>3, ValuesAssumption
      <4>. QED
        BY <2>4, <3>1, <3>3, <3>6, <4>1 DEF BoundaryCovered, Good
    <3>8. CASE LatestBoundary(disk) = 0
      <4>1. B = Start /\ B.points = 0 /\ B.ref = NoRef
        BY <3>1, <3>8 DEF Boundary, Start, Note
      <4>2. Confirmed = 0
        <5>1. CASE Open
          <6>1. runner.boundary = b.points /\ b.points \in Nat /\ runner.boundary \in Nat
            BY <2>1, <5>1 DEF LogAt, Events
          <6>2. B # b => b.points <= B.points
            BY <2>1, <3>2 DEF LogAt, MarkedAt
          <6>. QED
            BY <4>1, <5>1, <6>1, <6>2 DEF Confirmed
        <5>2. CASE ~Open
          BY <3>1, <4>1, <5>2 DEF Confirmed
        <5>. QED
          BY <5>1, <5>2
      <4>. QED
        BY <2>2, <3>7, <3>8, <4>2 DEF RefusalsExplained, NothingConfirmed
    <3>9. CASE LatestBoundary(disk) # 0 /\ (B.ref # NoRef => B.ref \in DOMAIN disk.refs)
      BY <2>2, <3>1, <3>7, <3>9 DEF RefusalsExplained, Inspectable
    <3>10. CASE LatestBoundary(disk) # 0 /\ B.ref # NoRef /\ B.ref \notin DOMAIN disk.refs
      <4>1. runner.attempt > 1
        <5>. SUFFICES ASSUME runner.attempt = 1 PROVE FALSE
          BY DEF Typed, Runners
        <5>1. B \in Events /\ B # Blank
          BY <3>3, ValuesAssumption
        <5>2. Held(B, Firm)
          <6>1. CASE B = entry
            BY <6>1 DEF FirstInv, Named
          <6>2. CASE B # entry
            <7>1. B = b /\ IsLatest(mem.name, c, b) /\ c <= Len(mem.name)
              BY <2>1, <3>2, <6>2 DEF LogAt, Agrees
            <7>2. PICK i \in 1..c : mem.name[i] = b
              BY <3>10, <7>1 DEF IsLatest, Start, Note
            <7>3. Len(mem.name) \in Nat
              BY DEF Typed, Files, Columns
            <7>. QED
              BY <7>1, <7>2, <7>3 DEF FirstInv, Named, AllHeld
          <6>. QED
            BY <6>1, <6>2
        <5>. QED
          BY <3>10, <5>1, <5>2 DEF Held, Firm
      <4>2. ASSUME NEW i \in 1..B.points, disk.points[i].ref # NoRef
            PROVE  disk.points[i].ref.index # B.ref
        <5>1. i \in 1..writer.count
          BY <3>5
        <5>2. disk.points[i] = mem.points[i] /\ disk.points[i].ref.index \in DOMAIN disk.refs
          BY <3>4, <4>2, <5>1 DEF Keeps, PointsOf, RefsOf
        <5>. QED
          BY <3>10, <5>2
      <4>. QED
        BY <2>2, <3>1, <3>7, <4>1, <4>2 DEF RefusalsExplained, ReferenceCut
    <3>. QED
      BY <3>8, <3>9, <3>10
  <2>. QED
    BY <2>3, <2>4
<1>. QED
  BY <1>1, Always, AlwaysFirst, PTL

\* Between two calls of the runner the checkpoints, the spectra, the public rows and the
\* runner's position hold the same points (Hdf5RunWriter.append and its rollback, resume).
THEOREM RepresentationsAgree == Spec => []SamePoints
<1>1. IInv => SamePoints
  <2>. SUFFICES ASSUME IInv, pc = "idle" PROVE SamePoints
    BY DEF SamePoints
  <2>. USE DEF IInv
  <2>1. Keeps(mem, writer.count, mem.points)
    BY DEF PointsInv, KeptInv
  <2>2. /\ writer.count \in Nat /\ mem.points \in Seq(Samples) /\ mem.rows \in Seq(Samples)
    BY DEF Typed, Writers, Files
  <2>3. Len(mem.points) = writer.count /\ Len(mem.rows) = Len(mem.points) /\ mem.pending = {}
    BY <2>2 DEF PhaseInv, LiveInv, Recording
  <2>4. \A i \in 1..writer.count : mem.rows[i] = mem.points[i]
    BY <2>1 DEF Keeps, PointsOf
  <2>5. mem.rows = mem.points
    BY <2>2, <2>3, <2>4, SeqEqual
  <2>6. Acquired(runner.next) = writer.count
    BY DEF PhaseInv, CountInv
  <2>7. PrefixWhole(mem, writer.count)
    BY <2>1, <2>2, <2>3 DEF PrefixWhole, Keeps, CompleteOf
  <2>8. \A i \in DOMAIN mem.points : mem.spectra[i - 1] = mem.points[i]
    BY <2>1, <2>2, <2>3 DEF Keeps, SpectraOf
  <2>. QED
    BY <2>3, <2>5, <2>6, <2>7, <2>8 DEF SamePoints
<1>. QED
  BY <1>1, Always, PTL

\* A run marked completed holds one complete point for every acquisition of its plan, in
\* order, however often it failed and was resumed (Hdf5RunWriter.close).
THEOREM CompletedRunIsWhole == Spec => []CompletedIsWhole
<1>1. IInv => CompletedIsWhole
  <2>. SUFFICES ASSUME IInv, disk.status = "completed" PROVE CompletedIsWhole
    BY DEF CompletedIsWhole
  <2>. USE DEF IInv
  <2>1. Keeps(disk, writer.count, mem.points)
    BY DEF PointsInv, KeptInv
  <2>2. /\ writer.count \in Nat /\ disk.points \in Seq(Samples) /\ disk.rows \in Seq(Samples)
    BY DEF Typed, Writers, Files
  <2>3. /\ writer.count = Acquired(Len(Plan))
        /\ Len(disk.points) = writer.count /\ Len(disk.rows) = writer.count
    BY DEF PhaseInv, DoneInv, Whole
  <2>4. \A i \in 1..writer.count : disk.rows[i] = disk.points[i] /\ disk.points[i] \in disk.complete
    BY <2>1 DEF Keeps, PointsOf, CompleteOf
  <2>5. disk.rows = disk.points
    BY <2>2, <2>3, <2>4, SeqEqual
  <2>6. \A i \in DOMAIN disk.points : Acquired(disk.points[i].step) = i
    BY <2>2 DEF PointsInv, StepsInv, StepsOf
  <2>. QED
    BY <2>2, <2>3, <2>4, <2>5, <2>6 DEF CompletedIsWhole, PrefixWhole
<1>. QED
  BY <1>1, Always, PTL

\* A stored point's reference is the one it was corrected with, although resume removes
\* references and their numbers are used again (Hdf5RunWriter.store_reference, resume).
THEOREM ReferencesKeepTheirIdentity == Spec => []ReferenceIdentity
<1>1. IInv => ReferenceIdentity
  <2>. SUFFICES ASSUME IInv, pc = "idle" PROVE ReferenceIdentity
    BY DEF ReferenceIdentity
  <2>. USE DEF IInv
  <2>1. RefsOf(mem.refs, writer.count, mem.points)
    BY DEF PointsInv, KeptInv, Keeps
  <2>2. mem.points \in Seq(Samples) /\ Len(mem.points) = writer.count
    BY DEF Typed, Writers, Files, PhaseInv, LiveInv, Recording
  <2>. QED
    BY <2>1, <2>2 DEF RefsOf, ReferenceIdentity
<1>. QED
  BY <1>1, Always, PTL

-----------------------------------------------------------------------------
(* The archive implements MeasuredRun.                                     *)

\* What a point file may become when the cache or a flush writes it.
LEMMA RecordMoves ==
    ASSUME NEW p \in Seq(Samples), NEW q \in Seq(Samples), TailOf(q, p), NEW k \in Nat, k <= Len(q)
    PROVE  \/ q = p
           \/ Len(q) = Len(p) + 1 /\ SubSeq(q, 1, Len(p)) = p
           \/ Len(q) \in k..(Len(p) - 1) /\ q = SubSeq(p, 1, Len(q))
<1>1. /\ Len(p) \in Nat /\ Len(q) \in Nat /\ Len(q) <= Len(p) + 1
      /\ \A i \in 1..Len(q) : i <= Len(p) => q[i] = p[i]
  BY DEF TailOf
<1>2. CASE Len(q) = Len(p)
  <2>1. q = p
    BY <1>1, <1>2, SeqEqual
  <2>. QED
    BY <2>1
<1>3. CASE Len(q) = Len(p) + 1
  <2>1. Len(p) \in 0..Len(q)
    BY <1>1, <1>3
  <2>2. /\ Cut(q, Len(p)) \in Seq(Samples) /\ Len(Cut(q, Len(p))) = Len(p)
        /\ \A i \in 1..Len(p) : Cut(q, Len(p))[i] = q[i]
    BY <2>1, CutIs
  <2>3. \A i \in 1..Len(p) : Cut(q, Len(p))[i] = p[i]
    BY <1>1, <1>3, <2>2
  <2>4. Cut(q, Len(p)) = p
    BY SMTT(30), <2>2, <2>3, SeqEqual
  <2>. QED
    BY <1>3, <2>4 DEF Cut
<1>4. CASE Len(q) < Len(p)
  <2>1. Len(q) \in 0..Len(p)
    BY <1>1, <1>4
  <2>2. /\ Cut(p, Len(q)) \in Seq(Samples) /\ Len(Cut(p, Len(q))) = Len(q)
        /\ \A i \in 1..Len(q) : Cut(p, Len(q))[i] = p[i]
    BY <2>1, CutIs
  <2>3. \A i \in 1..Len(q) : q[i] = Cut(p, Len(q))[i]
    BY <1>1, <1>4, <2>2
  <2>4. q = Cut(p, Len(q))
    BY <2>2, <2>3, SeqEqual
  <2>. QED
    <3>1. Len(q) \in k..(Len(p) - 1)
      BY <1>1, <1>4
    <3>2. q = SubSeq(p, 1, Len(q))
      BY <2>4, Zenon DEF Cut
    <3>. QED
      BY <3>1, <3>2
<1>. QED
  BY <1>1, <1>2, <1>3, <1>4

\* No step moves the points on the disk by more than that.
LEMMA DiskMoves ==
    ASSUME IInv, Next
    PROVE  TailOf(disk'.points, disk.points)
<1>. USE DEF IInv
<1>1. /\ TailOf(mem.points, disk.points) /\ mem \in Files /\ disk \in Files
      /\ writer.count \in Nat /\ writer.count <= Len(mem.points)
  BY DEF PointsInv, TailInv, Typed, Writers, KeptInv, Keeps, PointsOf
<1>2. TailOf(disk.points, disk.points)
  BY <1>1 DEF TailOf, Files
<1>3. ASSUME disk' = disk \/ disk' = mem \/ disk'.points \in {disk.points, mem.points}
      PROVE  TailOf(disk'.points, disk.points)
  BY <1>1, <1>2, <1>3
<1>4. CASE FailPoint
  <2>1. PICK kept \in SUBSET {"rows", "pending", "spectra", "points"} :
           mem' = Undo(kept) /\ disk' \in {disk, mem'}
    BY <1>4 DEF FailPoint, RollBack
  <2>2. mem'.points \in {mem.points, Cut(mem.points, writer.count)}
    BY <1>1, <2>1 DEF Undo, Files
  <2>3. TailOf(Cut(mem.points, writer.count), disk.points)
    <3>1. writer.count \in 0..Len(mem.points) /\ mem.points \in Seq(Samples)
          /\ Len(disk.points) \in Nat /\ Len(mem.points) \in Nat
      BY <1>1 DEF Files
    <3>2. /\ Len(Cut(mem.points, writer.count)) = writer.count
          /\ \A i \in 1..writer.count : Cut(mem.points, writer.count)[i] = mem.points[i]
      BY <3>1, CutIs
    <3>. QED
      BY <1>1, <3>1, <3>2 DEF TailOf
  <2>. QED
    BY <1>1, <1>2, <2>1, <2>2, <2>3
<1>5. CASE StagePoint \/ FlushPoint \/ ExposePoint \/ CommitPoint
  BY <1>3, <1>5 DEF StagePoint, FlushPoint, ExposePoint, CommitPoint, Flush
<1>6. CASE StageReference \/ FlushReference \/ PublishReference \/ CommitReference
  BY <1>3, <1>6 DEF StageReference, FlushReference, PublishReference, CommitReference, Flush
<1>7. CASE FailReference
  <2>. DEFINE undone == [mem EXCEPT
              !.pending = @ \ {"reference"},
              !.refs = IF pc = "ref published" THEN Drop(@, FreeIndex - 1) ELSE @]
  <2>1. disk' = disk \/ disk' = undone
    BY <1>7 DEF FailReference
  <2>2. undone.points = mem.points
    BY <1>1 DEF Files
  <2>. QED
    BY <1>3, <2>1, <2>2
<1>8. CASE RecordBoundary \/ WriteEvent \/ FlushEvent \/ MarkEvent \/ CommitEvent
  BY <1>3, <1>8 DEF RecordBoundary, WriteEvent, FlushEvent, MarkEvent, CommitEvent, Flush
<1>9. CASE FailEvent
  <2>1. PICK kept \in SUBSET {"marker", "name", "message"} :
           mem' = UndoEvent(kept) /\ disk' \in {disk, mem'}
    BY <1>9 DEF FailEvent
  <2>2. mem'.points = mem.points
    BY <1>1, <2>1 DEF UndoEvent, Files
  <2>. QED
    BY <1>3, <2>1, <2>2
<1>10. CASE BeginClose \/ FailClose
  BY <1>3, <1>10 DEF BeginClose, FailClose
<1>11. CASE FinishClose
  <2>1. disk' = mem' /\ mem'.points = mem.points
    BY <1>1, <1>11 DEF FinishClose, Files
  <2>. QED
    BY <1>3, <2>1
<1>12. CASE Reopen \/ TrimEvents \/ FlushTrim \/ TruncatePrivate \/ TruncatePublic \/ FailResume
  BY <1>3, <1>12 DEF Reopen, TrimEvents, FlushTrim, TruncatePrivate, TruncatePublic, FailResume, Flush
<1>13. CASE Crash
  BY <1>3, <1>13 DEF Crash
<1>14. CASE \E f \in Fields : Evict(f)
  <2>1. Mixed
    BY <1>14, EvictMixes
  <2>. QED
    BY <1>3, <2>1 DEF Mixed
<1>. QED
  BY <1>4, <1>5, <1>6, <1>7, <1>8, <1>9, <1>10, <1>11, <1>12, <1>13, <1>14
     DEF Next, Append_, StoreReference, AppendEvent, Close, Resume

\* A boundary that the disk holds counts points the writer has counted.
LEMMA ConfirmedIs ==
    ASSUME IInv
    PROVE  Confirmed \in Nat /\ Confirmed <= writer.count /\ writer.count <= Len(disk.points)
<1>. USE DEF IInv
<1>1. PICK c \in Nat, b \in Events : LogAt(c, b)
  BY DEF LogInv
<1>2. b.points \in Nat /\ entry.points \in Nat /\ runner.boundary \in Nat
  BY DEF Events, Typed, Runners
<1>3. Good(b) /\ (disk.marker = c + 1 /\ entry.kind = "boundary" => Good(entry))
  BY <1>1 DEF LogAt, MarkedAt
<1>4. CASE Open
  BY <1>1, <1>2, <1>3, <1>4 DEF LogAt, Confirmed, Good, PointsInv, KeptInv, Keeps, PointsOf
<1>5. CASE ~Open
  <2>1. PICK B : B = Boundary(disk)
    OBVIOUS
  <2>2. B = b \/ (B = entry /\ entry.kind = "boundary" /\ disk.marker = c + 1)
    BY <1>1, <2>1, BoundaryOfDisk
  <2>3. Confirmed = B.points
    BY <1>5, <2>1 DEF Confirmed
  <2>. QED
    BY <1>2, <1>3, <2>2, <2>3 DEF Good, PointsInv, KeptInv, Keeps, PointsOf
<1>. QED
  BY <1>4, <1>5

LEMMA ConfirmedBelow ==
    IInv => Confirmed \in Nat /\ Confirmed <= writer.count /\ writer.count <= Len(disk.points)
BY ConfirmedIs

\* The boundary is as it was, or one more is confirmed and the points are as they were.
LEMMA ConfirmedMoves ==
    ASSUME IInv, Next
    PROVE  Confirmed' = Confirmed \/ (Confirmed' >= Confirmed /\ disk'.points = disk.points)
<1>. USE DEF IInv
<1>1. PICK c \in Nat, b \in Events : LogAt(c, b)
  BY DEF LogInv
<1>2. /\ b.points \in Nat /\ entry \in Events /\ entry.points \in Nat /\ runner \in Runners
      /\ runner.boundary \in Nat
  BY DEF Events, Typed, Runners
<1>3. /\ Open => Confirmed = b.points /\ runner.boundary = b.points
      /\ ~Open => Confirmed = Boundary(disk).points
  BY <1>1 DEF LogAt, Confirmed
<1>4. CASE Open /\ Open' /\ runner'.boundary = runner.boundary
  BY <1>4 DEF Confirmed
<1>5. CASE Crash
  <2>1. Open /\ ~Open' /\ disk' = disk
    BY <1>5 DEF Crash, Open
  <2>2. Confirmed' = Boundary(disk).points
    BY <2>1 DEF Confirmed
  <2>3. CASE Boundary(disk) = b
    BY <1>3, <2>1, <2>2, <2>3
  <2>4. CASE Boundary(disk) = entry /\ entry.kind = "boundary" /\ disk.marker = c + 1
    <3>1. b.points <= entry.points
      BY <1>1, <2>4 DEF LogAt, MarkedAt
    <3>. QED
      BY <1>2, <1>3, <2>1, <2>2, <2>4, <3>1
  <2>. QED
    BY <1>1, <2>3, <2>4, BoundaryOfDisk
<1>6. CASE CommitEvent
  <2>1. /\ pc = "marked" /\ Open /\ Open' /\ disk' = mem
        /\ runner' = [runner EXCEPT !.boundary =
                         IF entry.kind = "boundary" THEN entry.points ELSE @]
    BY <1>6 DEF CommitEvent, Open, Flush
  <2>2. Confirmed' = IF entry.kind = "boundary" THEN entry.points ELSE runner.boundary
    BY <1>2, <2>1 DEF Confirmed, Runners
  <2>3. entry.kind = "boundary" => b.points <= entry.points
    BY <1>1, <2>1 DEF LogAt, Working, MarkedAt
  <2>4. disk.points = mem.points
    BY <2>1 DEF PhaseInv, SyncInv, Working, Truncating, Restarting
  <2>. QED
    BY <1>2, <1>3, <2>1, <2>2, <2>3, <2>4
<1>7. CASE Reopen
  <2>1. /\ ~Open /\ Open' /\ runner'.boundary = Boundary(disk).points
    BY <1>7 DEF Reopen, Open
  <2>. QED
    BY <1>3, <2>1 DEF Confirmed
<1>8. ASSUME Open, ~Open', Mixed, Typed', UNCHANGED entry, disk'.points = mem.points,
             PointsStay, LogStays, writer'.count = writer.count,
             writer'.logFault = writer.logFault
      PROVE  Confirmed' = Confirmed \/ (Confirmed' >= Confirmed /\ disk'.points = disk.points)
  <2>1. LogAt(c, b)'
    <3>1. Working' => Working /\ (pc' = "marked" <=> pc = "marked")
      BY <1>8 DEF Open, Working
    <3>. QED
      BY <1>1, <1>8, <3>1, LogRemains DEF PointsStay, LogStays
  <2>2. HasBoundary(c, b)'
    <3>1. BoundaryHeld'
      BY DiskHasBoundary, PTL
    <3>. QED
      BY <1>8, <2>1, <3>1 DEF BoundaryHeld
  <2>3. Confirmed' = Boundary(disk').points
    BY <1>8 DEF Confirmed
  <2>4. CASE Boundary(disk') = b
    BY <1>3, <1>8, <2>3, <2>4
  <2>5. CASE Boundary(disk') = entry /\ entry.kind = "boundary" /\ disk'.marker = c + 1
    <3>1. MarkedAt(c, b)
      BY <1>1, <1>8, <2>5 DEF LogAt, Mixed
    <3>2. b.points <= entry.points /\ disk.points = mem.points
      BY <2>5, <3>1 DEF MarkedAt
    <3>. QED
      BY <1>2, <1>3, <1>8, <2>3, <2>5, <3>2
  <2>. QED
    BY <1>8, <2>2, <2>4, <2>5 DEF HasBoundary
<1>9. CASE FinishClose
  <2>1. /\ Open /\ ~Open' /\ disk' = mem' /\ UNCHANGED <<writer, runner, entry, faults, crashes>>
    BY <1>9 DEF FinishClose, Open
  <2>2. /\ mem' \in Files /\ PointsStay /\ LogStays /\ mem'.refs = mem.refs
        /\ mem'.pending = mem.pending
    BY <1>9 DEF FinishClose, Typed, Files, Statuses, PointsStay, LogStays
  <2>3. Mixed /\ Typed'
    BY <1>9, <2>1, <2>2 DEF Mixed, MixedColumn, PointsStay, LogStays, Typed, Phases, FinishClose
  <2>. QED
    BY <1>8, <2>1, <2>2, <2>3 DEF PointsStay
<1>10. CASE FailResume
  <2>1. /\ Open /\ ~Open' /\ disk' = mem /\ UNCHANGED <<mem, writer, runner, entry, crashes>>
    BY <1>10 DEF FailResume, Open
  <2>2. Mixed /\ Typed'
    <3>1. faults' \in 0..MaxFaults
      BY <1>10, BoundsAssumption DEF FailResume, Raises, Typed
    <3>. QED
      BY <1>10, <2>1, <3>1, WholeMixes DEF Typed, Phases, FailResume
  <2>. QED
    BY <1>8, <2>1, <2>2 DEF PointsStay, LogStays
<1>11. CASE Append_
  BY <1>4, <1>11 DEF Append_, StagePoint, FlushPoint, ExposePoint, CommitPoint, FailPoint, Open,
     Typed, Runners
<1>12. CASE StoreReference
  BY <1>4, <1>12 DEF StoreReference, StageReference, FlushReference, PublishReference,
     CommitReference, FailReference, Open, Typed, Runners
<1>13. CASE RecordBoundary \/ WriteEvent \/ FlushEvent \/ MarkEvent \/ FailEvent
  BY <1>4, <1>13 DEF RecordBoundary, WriteEvent, FlushEvent, MarkEvent, FailEvent, Open
<1>14. CASE BeginClose \/ FailClose
  BY <1>4, <1>14 DEF BeginClose, FailClose, Open
<1>15. CASE TrimEvents \/ FlushTrim \/ TruncatePrivate \/ TruncatePublic
  BY <1>4, <1>15 DEF TrimEvents, FlushTrim, TruncatePrivate, TruncatePublic, Open
<1>16. CASE \E f \in Fields : Evict(f)
  BY <1>4, <1>16 DEF Evict, Open
<1>. QED
  BY <1>5, <1>6, <1>7, <1>9, <1>10, <1>11, <1>12, <1>13, <1>14, <1>15, <1>16
     DEF Next, AppendEvent, Close, Resume

\* The archive keeps what MeasuredRun promises: no crash, failure or resume loses or
\* replaces a point that a boundary on the disk counts (Hdf5RunWriter, RunRecoveryManager).
THEOREM ConfirmedPointsSurvive == Spec => ConfirmedPointsKept
<1>1. Init => Record!Init
  <2>. SUFFICES ASSUME Init PROVE Record!Init
    OBVIOUS
  <2>1. disk.points = <<>> /\ Open /\ runner.boundary = 0
    BY DEF Init, EmptyFile, Open
  <2>. QED
    BY <2>1 DEF Record!Init, Confirmed
<1>2. IInv /\ IInv' /\ [Next]_vars => [Record!Next]_<<disk.points, Confirmed>>
  <2>. SUFFICES ASSUME IInv, IInv', [Next]_vars
                PROVE  [Record!Next]_<<disk.points, Confirmed>>
    OBVIOUS
  <2>1. CASE UNCHANGED vars
    <3>1. disk' = disk /\ pc' = pc /\ runner' = runner
      BY <2>1 DEF vars
    <3>2. Confirmed' = Confirmed
      BY <3>1 DEF Confirmed, Open
    <3>. QED
      BY <3>1, <3>2
  <2>2. CASE Next
    <3>. DEFINE p == disk.points
                q == disk'.points
    <3>1. p \in Seq(Samples) /\ q \in Seq(Samples)
      BY DEF IInv, Typed, Files
    <3>2. TailOf(q, p)
      BY <2>2, DiskMoves
    <3>3. /\ Confirmed \in Nat /\ Confirmed <= Len(p)
          /\ Confirmed' \in Nat /\ Confirmed' <= Len(q)
      <4>1. IInv => Confirmed \in Nat /\ Confirmed <= writer.count /\ writer.count <= Len(disk.points)
        BY ConfirmedIs
      <4>2. (IInv => Confirmed \in Nat /\ Confirmed <= writer.count
                       /\ writer.count <= Len(disk.points))'
        BY ConfirmedBelow, PTL
      <4>3. writer.count \in Nat /\ writer'.count \in Nat /\ Len(p) \in Nat /\ Len(q) \in Nat
        BY <3>1 DEF IInv, Typed, Writers
      <4>. QED
        BY <4>1, <4>2, <4>3
    <3>4. Confirmed' = Confirmed \/ (Confirmed' >= Confirmed /\ q = p)
      BY <2>2, ConfirmedMoves
    <3>5. CASE Confirmed' = Confirmed
      <4>1. \/ q = p
            \/ Len(q) = Len(p) + 1 /\ SubSeq(q, 1, Len(p)) = p
            \/ Len(q) \in Confirmed..(Len(p) - 1) /\ q = SubSeq(p, 1, Len(q))
        BY <3>1, <3>2, <3>3, <3>5, RecordMoves
      <4>. QED
        BY <3>5, <4>1 DEF Record!Next, Record!Measure, Record!Lose, Record!Kept
    <3>6. CASE Confirmed' > Confirmed /\ q = p
      <4>1. Confirmed' \in (Confirmed + 1)..Len(p)
        BY <3>1, <3>3, <3>6
      <4>. QED
        BY <3>6, <4>1 DEF Record!Next, Record!Confirm
    <3>. QED
      BY <3>3, <3>4, <3>5, <3>6
  <2>. QED
    BY <2>1, <2>2
<1>. QED
  BY <1>1, <1>2, Always, PTL DEF Spec, ConfirmedPointsKept, Record!Spec
=============================================================================
