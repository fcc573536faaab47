----------------------------- MODULE RunArchive -----------------------------
(***************************************************************************)
(* The HDF5 archive of one run: Hdf5RunWriter (points, spectra, references,*)
(* public rows, event log, terminal status), the part of the recipe runner *)
(* that drives it, the crash of the process at any step, and the recovery  *)
(* that follows (RunRecoveryManager.inspect, Hdf5RunWriter.resume).        *)
(*                                                                         *)
(* The library caches the file.  mem is the file as the open handle sees   *)
(* it, disk what a crash leaves behind.  A flush makes disk equal to mem;  *)
(* between two flushes the cache may write any part of the file back by    *)
(* itself (Evict), so a crash finds every mixture of old and new parts.    *)
(***************************************************************************)
EXTENDS Integers, Sequences, FiniteSets

CONSTANTS
    Plan,        \* the actions of the plan that touch the archive
    MaxCrashes,  \* bound: crashes of the process
    MaxFaults,   \* bound: calls of the library that raise
    MaxAttempts, \* bound: how often the run is started or resumed
    NoRef,       \* no reference has been acquired
    Blank        \* a cell that was resized but not written

ASSUME PlanAssumption ==
    Plan \in Seq({"reference", "raw", "corrected"})
ASSUME BoundsAssumption ==
    MaxCrashes \in Nat /\ MaxFaults \in Nat /\ MaxAttempts \in Nat \ {0}

\* A trace is known by the action that acquired it and the attempt it did so in.
Traces == (1..Len(Plan)) \X (1..MaxAttempts)
References == [index : Nat, trace : Traces]
Samples ==
    [step : 1..Len(Plan), attempt : 1..MaxAttempts, ref : References \cup {NoRef}]
Events ==
    [kind : {"note", "boundary", "run_resumed"}, points : Nat, next : 0..Len(Plan),
     ref : Nat \cup {NoRef}]

ASSUME ValuesAssumption ==
    NoRef \notin Nat /\ NoRef \notin References /\ Blank \notin Events

VARIABLES
    mem,      \* the file as the open handle sees it
    disk,     \* the file a crash would leave
    pc,       \* what the process that owns the file is doing
    writer,   \* the writer's own fields
    runner,   \* the runner's position, reference and last boundary; the attempt
    entry,    \* the event being appended
    crashes, faults

vars == <<mem, disk, pc, writer, runner, entry, crashes, faults>>

\* The actions of the plan that store a point.
Acquires(k) == Plan[k] \in {"raw", "corrected"}
Acquired(k) == Cardinality({j \in 1..k : Acquires(j)})

Note == [kind |-> "note", points |-> 0, next |-> 0, ref |-> NoRef]
Resumed == [Note EXCEPT !.kind = "run_resumed"]

EmptyFile ==
    [pending  |-> {},        \* /_pending
     points   |-> <<>>,      \* /points, by index
     complete |-> {},        \* the points whose "complete" attribute is set
     spectra  |-> <<>>,      \* /spectra, by index
     rows     |-> <<>>,      \* the public rows
     refs     |-> <<>>,      \* /references, by index
     name     |-> <<>>,      \* two of the four event columns
     message  |-> <<>>,
     marker   |-> 0,         \* committed_count
     status   |-> "running"]
Fields == DOMAIN EmptyFile

FreshWriter(n) == [count |-> n, faulted |-> FALSE, logFault |-> FALSE]

\* The constructor flushes the file it created.
Init ==
    /\ mem = EmptyFile
    /\ disk = EmptyFile
    /\ pc = "idle"
    /\ writer = FreshWriter(0)
    /\ runner = [next |-> 0, ref |-> NoRef, boundary |-> 0, attempt |-> 1]
    /\ entry = Note
    /\ crashes = 0
    /\ faults = 0

Open == pc \notin {"down", "closed"}
Writable == ~writer.faulted /\ ~writer.logFault

\* What the current action measures.  A repeated measurement is another one.
Current == runner.next + 1
Sample == [step |-> Current, attempt |-> runner.attempt,
           ref |-> IF Plan[Current] = "corrected" THEN runner.ref ELSE NoRef]

\* A map without one of its keys, or restricted to some.
Only(f, S) == [x \in DOMAIN f \cap S |-> f[x]]
With(f, x, v) == [y \in DOMAIN f \cup {x} |-> IF y = x THEN v ELSE f[y]]
Cut(s, n) == SubSeq(s, 1, n)
Drop(f, x) == Only(f, DOMAIN f \ {x})

-----------------------------------------------------------------------------
(* The cache and the library.                                              *)

Flush == disk' = mem

\* The new extent of a column may reach the disk before the new cell does.
Extent(f) == [mem[f] EXCEPT ![Len(mem[f])] = Blank]
Evict(f) ==
    /\ Open
    /\ disk[f] # mem[f]
    /\ \/ disk' = [disk EXCEPT ![f] = mem[f]]
       \/ /\ f \in {"name", "message"}
          /\ Len(mem[f]) > Len(disk[f])
          /\ disk' = [disk EXCEPT ![f] = Extent(f)]
    /\ UNCHANGED <<mem, pc, writer, runner, entry, crashes, faults>>

\* A call of the library raises.
Raises == faults < MaxFaults /\ faults' = faults + 1

Crash ==
    /\ Open
    /\ crashes < MaxCrashes
    /\ crashes' = crashes + 1
    /\ pc' = "down"
    /\ mem' = disk
    /\ UNCHANGED <<disk, writer, runner, entry, faults>>

-----------------------------------------------------------------------------
(* Hdf5RunWriter.append                                                    *)

\* A self-contained pending group, not yet visible to readers.
StagePoint ==
    /\ pc = "idle"
    /\ Writable
    /\ runner.next < Len(Plan)
    /\ Acquires(Current)
    /\ mem' = [mem EXCEPT !.pending = @ \cup {"point"}]
    /\ pc' = "staged"
    /\ UNCHANGED <<disk, writer, runner, entry, crashes, faults>>

\* A point may only name a reference the archive holds.
ReferenceHeld ==
    Sample.ref # NoRef => Sample.ref.index \in DOMAIN mem.refs

FlushPoint ==
    /\ pc = "staged"
    /\ ReferenceHeld
    /\ Flush
    /\ pc' = "flushed"
    /\ UNCHANGED <<mem, writer, runner, entry, crashes, faults>>

\* Moving the group into /points and the trace into /spectra, the public
\* rows, then the attribute that marks the point complete.
Vacant == writer.count \notin DOMAIN mem.spectra
ExposePoint ==
    /\ pc = "flushed"
    /\ Vacant
    /\ mem' = [mem EXCEPT !.pending  = @ \ {"point"},
                          !.points   = Append(@, Sample),
                          !.spectra  = With(@, writer.count, Sample),
                          !.rows     = Append(@, Sample),
                          !.complete = @ \cup {Sample}]
    /\ pc' = "exposed"
    /\ UNCHANGED <<disk, writer, runner, entry, crashes, faults>>

CommitPoint ==
    /\ pc = "exposed"
    /\ Flush
    /\ writer' = [writer EXCEPT !.count = @ + 1]
    /\ runner' = [runner EXCEPT !.next = @ + 1]
    /\ pc' = "stored"
    /\ UNCHANGED <<mem, entry, crashes, faults>>

\* The rollback of a failed append.  Each of its deletions, and the flush
\* after them, may fail as well; the archive then accepts nothing more.
Undo(kept) ==
    [mem EXCEPT
        !.rows    = IF "rows" \in kept THEN @ ELSE Cut(@, writer.count),
        !.pending = IF "pending" \in kept THEN @ ELSE @ \ {"point"},
        !.spectra = IF "spectra" \in kept THEN @ ELSE Drop(@, writer.count),
        !.points  = IF "points" \in kept THEN @ ELSE Cut(@, writer.count)]
RollBack ==
    \/ /\ mem' = Undo({})
       /\ disk' = mem'
       /\ UNCHANGED writer
    \/ \E kept \in SUBSET {"rows", "pending", "spectra", "points"} :
          /\ mem' = Undo(kept)
          /\ kept = {} => UNCHANGED disk
          /\ disk' \in {disk, mem'}
          /\ writer' = [writer EXCEPT !.faulted = TRUE]

FailPoint ==
    /\ pc \in {"staged", "flushed", "exposed"}
    /\ \/ Raises
       \/ /\ \/ pc = "staged" /\ ~ReferenceHeld
             \/ pc = "flushed" /\ ~Vacant
          /\ UNCHANGED faults
    /\ RollBack
    /\ entry' = Note
    /\ pc' = IF writer'.faulted THEN "failing" ELSE "log"
    /\ UNCHANGED <<runner, crashes>>

-----------------------------------------------------------------------------
(* Hdf5RunWriter.store_reference                                           *)

FreeIndex ==
    IF DOMAIN mem.refs = {} THEN 0
    ELSE 1 + CHOOSE i \in DOMAIN mem.refs : \A j \in DOMAIN mem.refs : j <= i

StageReference ==
    /\ pc = "idle"
    /\ Writable
    /\ runner.next < Len(Plan)
    /\ Plan[Current] = "reference"
    /\ mem' = [mem EXCEPT !.pending = @ \cup {"reference"}]
    /\ pc' = "ref staged"
    /\ UNCHANGED <<disk, writer, runner, entry, crashes, faults>>

\* Both flushes of the pending group, without and with its complete mark.
FlushReference ==
    /\ pc = "ref staged"
    /\ Flush
    /\ pc' = "ref flushed"
    /\ UNCHANGED <<mem, writer, runner, entry, crashes, faults>>

PublishReference ==
    /\ pc = "ref flushed"
    /\ mem' = [mem EXCEPT !.pending = @ \ {"reference"},
                          !.refs = With(@, FreeIndex, <<Current, runner.attempt>>)]
    /\ pc' = "ref published"
    /\ UNCHANGED <<disk, writer, runner, entry, crashes, faults>>

CommitReference ==
    /\ pc = "ref published"
    /\ Flush
    /\ runner' = [runner EXCEPT !.next = @ + 1,
                                !.ref = [index |-> FreeIndex - 1,
                                         trace |-> mem.refs[FreeIndex - 1]]]
    /\ pc' = "idle"
    /\ UNCHANGED <<mem, writer, entry, crashes, faults>>

FailReference ==
    /\ pc \in {"ref staged", "ref flushed", "ref published"}
    /\ Raises
    /\ LET undone == [mem EXCEPT
              !.pending = @ \ {"reference"},
              !.refs = IF pc = "ref published" THEN Drop(@, FreeIndex - 1) ELSE @]
       IN  \/ mem' = undone /\ disk' = undone /\ UNCHANGED writer
           \/ /\ mem' \in {mem, undone}
              /\ UNCHANGED disk
              /\ writer' = [writer EXCEPT !.faulted = TRUE]
    /\ pc' = "failing"
    /\ UNCHANGED <<runner, entry, crashes>>

-----------------------------------------------------------------------------
(* Hdf5RunWriter.append_event, for the event in entry.                     *)

\* The runner records a boundary only while every output is confirmed off.
RecordBoundary ==
    /\ pc = "stored"
    /\ \/ /\ entry' = [kind |-> "boundary", points |-> writer.count, next |-> runner.next,
                       ref |-> IF runner.ref = NoRef THEN NoRef ELSE runner.ref.index]
          /\ pc' = "log"
       \/ pc' = "idle" /\ UNCHANGED entry
    /\ UNCHANGED <<mem, disk, writer, runner, crashes, faults>>

WriteEvent ==
    /\ pc = "log"
    /\ mem' = [mem EXCEPT !.name = Append(@, entry), !.message = Append(@, entry)]
    /\ pc' = "logging"
    /\ UNCHANGED <<disk, writer, runner, entry, crashes, faults>>

\* Mutant: the row is marked before it is on the disk.
FlushEventLater ==
    /\ pc = "logging"
    /\ pc' = "logged"
    /\ UNCHANGED <<mem, disk, writer, runner, entry, crashes, faults>>

FlushEvent ==
    /\ pc = "logging"
    /\ Flush
    /\ pc' = "logged"
    /\ UNCHANGED <<mem, writer, runner, entry, crashes, faults>>

MarkEvent ==
    /\ pc = "logged"
    /\ mem' = [mem EXCEPT !.marker = @ + 1]
    /\ pc' = "marked"
    /\ UNCHANGED <<disk, writer, runner, entry, crashes, faults>>

CommitEvent ==
    /\ pc = "marked"
    /\ Flush
    /\ pc' = IF entry.kind = "note" THEN "failing" ELSE "idle"
    /\ runner' = [runner EXCEPT !.boundary = IF entry.kind = "boundary" THEN entry.points ELSE @]
    /\ UNCHANGED <<mem, writer, entry, crashes, faults>>

\* The rollback of a failed event: the marker, every column, a flush; each
\* of them may fail too.  A note about a failed append is best effort; a lost
\* boundary fails the run; a resume that cannot be recorded is given up.
Before == IF pc = "log" THEN Len(mem.name) ELSE Len(mem.name) - 1
UndoEvent(kept) ==
    [mem EXCEPT !.marker  = IF "marker" \in kept THEN @ ELSE Before,
                !.name    = IF "name" \in kept THEN @ ELSE Cut(@, Before),
                !.message = IF "message" \in kept THEN @ ELSE Cut(@, Before)]
FailEvent ==
    /\ pc \in {"log", "logging", "logged", "marked"}
    /\ Raises
    /\ \/ mem' = UndoEvent({}) /\ disk' = mem' /\ UNCHANGED writer
       \/ \E kept \in SUBSET {"marker", "name", "message"} :
             /\ mem' = UndoEvent(kept)
             /\ kept = {} => UNCHANGED disk
             /\ disk' \in {disk, mem'}
             /\ writer' = [writer EXCEPT !.logFault = TRUE]
    /\ pc' = IF entry.kind = "run_resumed" THEN "abandoned" ELSE "failing"
    /\ UNCHANGED <<runner, entry, crashes>>

-----------------------------------------------------------------------------
(* Hdf5RunWriter.close                                                     *)

\* The run completed, the operator stopped it, or it failed.  A faulted
\* writer never closes with another status.
\* Mutant: a stopped run is closed as completed.
StatusOfWriter == IF Writable THEN "completed" ELSE "faulted"

Status ==
    IF pc = "failing" \/ ~Writable THEN "faulted"
    ELSE IF runner.next = Len(Plan) THEN "completed" ELSE "aborted"
BeginClose ==
    /\ pc \in {"idle", "failing"}
    /\ mem' = [mem EXCEPT !.status = Status]
    /\ pc' = "closing"
    /\ UNCHANGED <<disk, writer, runner, entry, crashes, faults>>

FailClose ==
    /\ pc = "closing"
    /\ Raises
    /\ mem' = [mem EXCEPT !.status = "faulted"]
    /\ UNCHANGED <<disk, pc, writer, runner, entry, crashes>>

\* The validation of the closed file may reject it.
FinishClose ==
    /\ pc = "closing"
    /\ mem' \in {mem, [mem EXCEPT !.status = "faulted"]}
    /\ disk' = mem'
    /\ pc' = "closed"
    /\ UNCHANGED <<writer, runner, entry, crashes, faults>>

-----------------------------------------------------------------------------
(* RunRecoveryManager.inspect                                              *)

Shorter(f) == IF Len(f.name) <= Len(f.message) THEN Len(f.name) ELSE Len(f.message)
MarkerValid(f) == f.marker <= Shorter(f)

\* The latest event up to the marker that is a boundary, 0 if there is none.
BoundaryUpTo(f, n) ==
    LET found == {i \in 1..n : f.name[i] # Blank /\ f.name[i].kind = "boundary"}
    IN  IF found = {} THEN 0 ELSE CHOOSE i \in found : \A j \in found : j <= i
LatestBoundary(f) ==
    BoundaryUpTo(f, IF MarkerValid(f) THEN f.marker ELSE Shorter(f))

Start == [Note EXCEPT !.kind = "boundary"]
Boundary(f) ==
    IF LatestBoundary(f) = 0 THEN Start ELSE f.message[LatestBoundary(f)]

\* What inspect accepts.
PrefixWhole(f, n) ==
    n <= Len(f.points) /\ \A i \in 1..n : f.points[i] \in f.complete
BoundaryCovered(f) ==
    /\ MarkerValid(f)
    /\ Boundary(f) # Blank
    /\ PrefixWhole(f, Boundary(f).points)
    /\ Acquired(Boundary(f).next) = Boundary(f).points
Inspectable(f) ==
    /\ LatestBoundary(f) = 0 => f.points = <<>>
    /\ BoundaryCovered(f)
    /\ Boundary(f).ref # NoRef => Boundary(f).ref \in DOMAIN f.refs

-----------------------------------------------------------------------------
(* Hdf5RunWriter.resume                                                    *)

Reopen ==
    /\ ~Open
    /\ runner.attempt < MaxAttempts
    /\ disk.status # "completed"
    /\ Inspectable(disk)
    /\ mem' = disk
    /\ writer' = FreshWriter(Boundary(disk).points)
    /\ runner' = [next |-> Boundary(disk).next,
                  ref |-> LET r == Boundary(disk).ref IN
                          IF r = NoRef THEN NoRef ELSE [index |-> r, trace |-> disk.refs[r]],
                  boundary |-> Boundary(disk).points,
                  attempt |-> runner.attempt + 1]
    /\ pc' = "opened"
    /\ UNCHANGED <<disk, entry, crashes, faults>>

TrimEvents ==
    /\ pc = "opened"
    /\ mem' = [mem EXCEPT !.name = Cut(@, mem.marker), !.message = Cut(@, mem.marker)]
    /\ pc' = "trimmed"
    /\ UNCHANGED <<disk, writer, runner, entry, crashes, faults>>

FlushTrim ==
    /\ pc = "trimmed"
    /\ Flush
    /\ pc' = "truncating"
    /\ UNCHANGED <<mem, writer, runner, entry, crashes, faults>>

\* Points after the boundary, their spectra, pending groups, and references
\* that no retained spectrum can need.
Discarded == writer.count..(Len(mem.points) - 1)
Referenced(spectra) ==
    {spectra[i].ref.index : i \in {j \in DOMAIN spectra : spectra[j].ref # NoRef}}
\* Mutant: the last reference in use is removed as well.
RetainedOffByOne(spectra) ==
    {r \in DOMAIN mem.refs : \E s \in Referenced(spectra) : r < s}

Retained(spectra) ==
    CASE Referenced(spectra) # {} ->
            {r \in DOMAIN mem.refs : \E s \in Referenced(spectra) : r <= s}
      [] Referenced(spectra) = {} /\ writer.count = 0 -> {}
      [] OTHER -> DOMAIN mem.refs
\* Mutant: the last confirmed point is truncated too.
TruncateOneMore ==
    /\ pc = "truncating"
    /\ mem' = [mem EXCEPT !.points = Cut(@, writer.count - 1),
                          !.spectra = Only(@, DOMAIN @ \ Discarded),
                          !.pending = {}]
    /\ pc' = "truncated"
    /\ UNCHANGED <<disk, writer, runner, entry, crashes, faults>>

TruncatePrivate ==
    /\ pc = "truncating"
    /\ LET spectra == Only(mem.spectra, DOMAIN mem.spectra \ Discarded) IN
       mem' = [mem EXCEPT !.points   = Cut(@, writer.count),
                          !.complete = @ \cap {mem.points[i] : i \in 1..writer.count},
                          !.spectra  = spectra,
                          !.pending  = {},
                          !.refs     = Only(@, Retained(spectra))]
    /\ pc' = "truncated"
    /\ UNCHANGED <<disk, writer, runner, entry, crashes, faults>>

\* Public rows are resized to the boundary, then the run is marked running.
\* Mutant: the public rows of the discarded tail stay.
ResizeNothing(s, n) == s

Resize(s, n) == [i \in 1..n |-> IF i <= Len(s) THEN s[i] ELSE Blank]
TruncatePublic ==
    /\ pc = "truncated"
    /\ mem' = [mem EXCEPT !.rows = Resize(@, writer.count), !.status = "running"]
    /\ entry' = Resumed
    /\ pc' = "log"
    /\ UNCHANGED <<disk, writer, runner, crashes, faults>>

\* A failed resume closes the file, which writes back what was changed.
FailResume ==
    /\ \/ pc \in {"opened", "trimmed", "truncating", "truncated"} /\ Raises
       \/ pc = "abandoned" /\ UNCHANGED faults
    /\ disk' = mem
    /\ pc' = "closed"
    /\ UNCHANGED <<mem, writer, runner, entry, crashes>>

-----------------------------------------------------------------------------
Append_ == StagePoint \/ FlushPoint \/ ExposePoint \/ CommitPoint \/ FailPoint
StoreReference ==
    StageReference \/ FlushReference \/ PublishReference \/ CommitReference \/ FailReference
AppendEvent == RecordBoundary \/ WriteEvent \/ FlushEvent \/ MarkEvent \/ CommitEvent \/ FailEvent
Close == BeginClose \/ FailClose \/ FinishClose
Resume == Reopen \/ TrimEvents \/ FlushTrim \/ TruncatePrivate \/ TruncatePublic \/ FailResume
Next ==
    \/ Append_ \/ StoreReference \/ AppendEvent \/ Close \/ Resume
    \/ Crash
    \/ \E f \in Fields : Evict(f)

Spec == Init /\ [][Next]_vars

-----------------------------------------------------------------------------
(* Properties                                                              *)

FileOK(f) ==
    /\ DOMAIN f = Fields
    /\ f.pending \subseteq {"point", "reference"}
    /\ f.points \in Seq(Samples) /\ f.rows \in Seq(Samples) /\ f.complete \subseteq Samples
    /\ \A i \in DOMAIN f.spectra : i \in Nat /\ f.spectra[i] \in Samples
    /\ \A i \in DOMAIN f.refs : i \in Nat /\ f.refs[i] \in Traces
    /\ f.name \in Seq(Events \cup {Blank}) /\ f.message \in Seq(Events \cup {Blank})
    /\ f.marker \in Nat
    /\ f.status \in {"running", "completed", "aborted", "faulted"}

TypeOK ==
    /\ FileOK(mem) /\ FileOK(disk)
    /\ writer.count \in 0..Acquired(Len(Plan))
    /\ writer.faulted \in BOOLEAN /\ writer.logFault \in BOOLEAN
    /\ runner \in [next : 0..Len(Plan), ref : References \cup {NoRef}, boundary : Nat,
                   attempt : 1..MaxAttempts]
    /\ entry \in Events
    /\ crashes \in 0..MaxCrashes /\ faults \in 0..MaxFaults

\* The columns of the log agree about every committed event, although a discarded
\* row's cells are overwritten by the next one.
EventRowsAgree ==
    \A i \in 1..disk.marker : i <= Shorter(disk) => disk.name[i] = disk.message[i] /\ disk.name[i] # Blank

\* What a boundary has confirmed: the runner has recorded it, or recovery reads it.
Confirmed == IF Open THEN runner.boundary ELSE Boundary(disk).points

\* Recovery refuses a file whose log has a mark but no longer its entry, one that
\* holds points but no boundary, and one whose boundary needs a reference that an
\* earlier resume deleted because no point up to the boundary was corrected by it.
MarkLeft == writer.logFault /\ ~MarkerValid(disk)
NothingConfirmed == LatestBoundary(disk) = 0 /\ Confirmed = 0
ReferenceCut ==
    /\ runner.attempt > 1
    /\ \A i \in 1..Boundary(disk).points :
          disk.points[i].ref # NoRef => disk.points[i].ref.index # Boundary(disk).ref

\* Whatever a crash leaves at any step, the columns of the log agree, and recovery
\* accepts the file but in three cases: the rollback of an entry failed half way
\* (the writer is faulted then), no boundary was ever confirmed, or a resume has
\* deleted the boundary's reference.  In the last two the points the boundary
\* counts are there and complete.  (append_event flushes a row before it marks it;
\* the runner stores a point before the boundary that counts it.)
RefusalsExplained ==
    /\ EventRowsAgree
    /\ \/ Inspectable(disk)
       \/ MarkLeft
       \/ BoundaryCovered(disk) /\ (NothingConfirmed \/ ReferenceCut)

\* Between two calls of the runner every representation of the run holds the
\* same points: the checkpoints, the public rows and the runner's position.
SamePoints ==
    pc = "idle" =>
        /\ mem.rows = mem.points
        /\ Len(mem.points) = writer.count
        /\ Acquired(runner.next) = writer.count
        /\ PrefixWhole(mem, writer.count)
        /\ \A i \in DOMAIN mem.points : mem.spectra[i - 1] = mem.points[i]
        /\ mem.pending = {}

\* A run that is marked completed holds one complete point for every
\* acquisition of the plan, in the plan's order, however often it was resumed.
CompletedIsWhole ==
    disk.status = "completed" =>
        /\ Len(disk.points) = Acquired(Len(Plan))
        /\ PrefixWhole(disk, Len(disk.points))
        /\ disk.rows = disk.points
        /\ \A i \in DOMAIN disk.points : Acquired(disk.points[i].step) = i

\* A corrected point names the reference it was corrected with, although
\* recovery removes references and reuses their numbers.
ReferenceIdentity ==
    \A i \in DOMAIN mem.points :
        LET r == mem.points[i].ref IN
        r # NoRef /\ pc = "idle" =>
            r.index \in DOMAIN mem.refs /\ mem.refs[r.index] = r.trace

\* What the archive promises the operator: a point counted by a confirmed
\* boundary is never lost nor replaced, whatever fails; only the tail may be.
Record == INSTANCE MeasuredRun WITH record <- disk.points, confirmed <- Confirmed
ConfirmedPointsKept == Record!Spec

\* A resumed run keeps the reference it recovered: its next corrected point
\* can be stored.
RecoveredReferenceKept ==
    pc = "idle" /\ runner.ref # NoRef => runner.ref.index \in DOMAIN mem.refs
=============================================================================
