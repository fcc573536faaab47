------------------------------ MODULE AuditLog ------------------------------
(***************************************************************************)
(* The audit log of one session (app/audit/logger.py): threads that record *)
(* events through a bounded queue, the daemon thread that writes them, and *)
(* the file.                                                               *)
(*                                                                         *)
(* A record is its sequence number, counted from 1.  What a thread does    *)
(* while it holds the logger's lock is one step; the queue and the acks    *)
(* are used outside of it.  A line that was cut short by a failing write   *)
(* or by a crash counts as not written.                                    *)
(***************************************************************************)
EXTENDS Naturals, Sequences, FiniteSets

CONSTANTS
    Clients,     \* threads that use the logger
    Nobody,      \* the waiter of a record nobody waits for
    Capacity,    \* the queue's maxsize
    MaxRecords   \* bound: records of a session but the one close() adds

ASSUME SizeAssumption ==
    /\ Nobody \notin Clients
    /\ Capacity \in Nat \ {0} /\ MaxRecords \in Nat \ {0}

VARIABLES
    sequence,   \* records accepted: _sequence
    queue,      \* _queue
    failed,     \* _failure is set
    closed,     \* _closed
    stopping,   \* _stop is set
    pc,         \* what each client is doing
    acked,      \* the ack Event of each client's call is set
    goal,       \* how many records each client's call covers
    wpc, item,  \* the writer thread: where it is, and with which item
    file,       \* what the operating system has
    leftover,   \* a record left behind in the stream's buffer, or 0
    durable,    \* how many records have been fsynced
    crashed,    \* the process or the machine has gone
    acknowledged,   \* history: records some caller was told are on the disk
    flushed     \* history: records covered by a flush() of a closed logger

callers == <<pc, acked, goal>>
writer  == <<wpc, item>>
disk    == <<file, leftover, durable, crashed>>
answers == <<acknowledged, flushed>>
vars == <<sequence, queue, failed, closed, stopping, pc, acked, goal, wpc, item,
          file, leftover, durable, crashed, acknowledged, flushed>>

-----------------------------------------------------------------------------
\* close() may add one record to the others.
Records == 1..(MaxRecords + 1)

\* A record with its number, or a flush with the number before it.
Item == [number : Records, flush : BOOLEAN, sync : BOOLEAN,
         waiter : Clients \cup {Nobody}]

TypeOK ==
    /\ sequence \in Records
    /\ queue \in Seq(Item) /\ Len(queue) <= Capacity
    /\ failed \in BOOLEAN /\ closed \in BOOLEAN /\ stopping \in BOOLEAN
    /\ pc \in [Clients -> {"absent", "opening", "idle", "waiting", "closing",
                           "joining", "gone"}]
    /\ acked \in [Clients -> BOOLEAN]
    /\ goal \in [Clients -> Records \cup {0}]
    /\ wpc \in {"loop", "check", "write", "sync", "ack", "ended"}
    /\ item \in Item
    /\ file \in Seq(Records)
    /\ leftover \in Records \cup {0}
    /\ durable \in Records \cup {0}
    /\ crashed \in BOOLEAN
    /\ acknowledged \in Records \cup {0}
    /\ flushed \in Records \cup {0}

Entry(n, flush, sync, waiter) ==
    [number |-> n, flush |-> flush, sync |-> sync, waiter |-> waiter]

\* The constructor has started the writer and waits for the first record.
Init ==
    /\ sequence = 1
    /\ failed = FALSE /\ closed = FALSE /\ stopping = FALSE
    /\ \E opener \in Clients :
         /\ pc = [c \in Clients |-> IF c = opener THEN "opening" ELSE "absent"]
         /\ queue = <<Entry(1, FALSE, TRUE, opener)>>
    /\ acked = [c \in Clients |-> FALSE]
    /\ goal = [c \in Clients |-> 1]
    /\ wpc = "loop" /\ item = Entry(1, FALSE, FALSE, Nobody)
    /\ file = <<>> /\ leftover = 0 /\ durable = 0 /\ crashed = FALSE
    /\ acknowledged = 0 /\ flushed = 0

-----------------------------------------------------------------------------
(* The callers.  A call that finds the failure latched raises and changes  *)
(* nothing; record() of a closed logger raises as well.                    *)

Full == Len(queue) >= Capacity

\* Only what was asked for as critical is fsynced.
SyncCritical(critical, wait) == critical

MustSync(critical, wait) == critical \/ wait

\* _enqueue, under the lock: a full queue is a failure for good.
Enqueue(entry) ==
    IF Full THEN failed' = TRUE /\ queue' = queue
            ELSE failed' = failed /\ queue' = Append(queue, entry)

\* From now on c waits for its ack, or not if the queue was full.
AwaitAck(c, wait) ==
    /\ pc' = [pc EXCEPT ![c] = IF wait /\ ~Full THEN "waiting" ELSE "idle"]
    /\ acked' = [acked EXCEPT ![c] = FALSE]
    /\ goal' = [goal EXCEPT ![c] = sequence']

\* A record that is refused uses up no number.
Record(c, critical, wait) ==
    /\ pc[c] = "idle" /\ ~closed /\ ~failed
    /\ sequence < MaxRecords
    /\ Enqueue(Entry(sequence + 1, FALSE, MustSync(critical, wait),
                     IF wait THEN c ELSE Nobody))
    /\ sequence' = IF Full THEN sequence ELSE sequence + 1
    /\ AwaitAck(c, wait)
    /\ UNCHANGED <<closed, stopping, writer, disk, answers>>

\* flush() of a closed logger answers at once.
Flush(c) ==
    /\ pc[c] = "idle" /\ ~failed
    /\ IF closed
         THEN /\ flushed' = sequence
              /\ UNCHANGED <<queue, failed, sequence, callers>>
         ELSE /\ Enqueue(Entry(sequence, TRUE, TRUE, c))
              /\ sequence' = sequence
              /\ AwaitAck(c, TRUE)
              /\ flushed' = flushed
    /\ UNCHANGED <<closed, stopping, writer, disk, acknowledged>>

\* The answer to a caller that relies on the first n records.
AnswerUnchecked(n) ==
    acknowledged' = IF acknowledged < n THEN n ELSE acknowledged

Answer(n) ==
    acknowledged' = IF ~failed /\ acknowledged < n THEN n ELSE acknowledged

\* _wait_durable: the ack says completed, the health says whether it succeeded.
WaitReturns(c) ==
    /\ pc[c] = "waiting" /\ acked[c]
    /\ pc' = [pc EXCEPT ![c] = "idle"]
    /\ Answer(goal[c])
    /\ UNCHANGED <<sequence, queue, failed, closed, stopping, acked, goal, writer,
                   disk, flushed>>

WaitTimesOut(c) ==
    /\ pc[c] = "waiting" /\ ~acked[c]
    /\ pc' = [pc EXCEPT ![c] = "idle"]
    /\ failed' = TRUE
    /\ UNCHANGED <<sequence, queue, closed, stopping, acked, goal, writer, disk,
                   answers>>

\* The constructor returns, or stops its writer and raises.
Open(c) ==
    /\ pc[c] = "opening"
    /\ failed' \in IF acked[c] THEN {failed} ELSE {TRUE}
    /\ IF failed'
         THEN /\ pc' = [pc EXCEPT ![c] = "gone"]
              /\ stopping' = TRUE
              /\ acknowledged' = acknowledged
         ELSE /\ pc' = [d \in Clients |-> "idle"]
              /\ stopping' = stopping
              /\ Answer(goal[c])
    /\ UNCHANGED <<sequence, queue, closed, acked, goal, writer, disk, flushed>>

\* The first close() adds a record, if it can, and shuts the door in any case.
Close(c) ==
    /\ pc[c] = "idle"
    /\ closed' = TRUE
    /\ IF closed \/ failed
         THEN UNCHANGED <<queue, failed, sequence>>
         ELSE /\ Enqueue(Entry(sequence + 1, FALSE, TRUE, Nobody))
              /\ sequence' = IF Full THEN sequence ELSE sequence + 1
    /\ pc' = [pc EXCEPT ![c] = "closing"]
    /\ goal' = [goal EXCEPT ![c] = sequence']
    /\ UNCHANGED <<stopping, acked, writer, disk, answers>>

StopWriter(c) ==
    /\ pc[c] = "closing"
    /\ stopping' = TRUE
    /\ pc' = [pc EXCEPT ![c] = "joining"]
    /\ UNCHANGED <<sequence, queue, failed, closed, acked, goal, writer, disk,
                   answers>>

\* join(timeout=5.0) and the final check_health.
JoinReturns(c) ==
    /\ pc[c] = "joining" /\ wpc = "ended"
    /\ pc' = [pc EXCEPT ![c] = "idle"]
    /\ Answer(goal[c])
    /\ UNCHANGED <<sequence, queue, failed, closed, stopping, acked, goal, writer,
                   disk, flushed>>

JoinTimesOut(c) ==
    /\ pc[c] = "joining" /\ wpc # "ended"
    /\ pc' = [pc EXCEPT ![c] = "idle"]
    /\ failed' = TRUE
    /\ UNCHANGED <<sequence, queue, closed, stopping, acked, goal, writer, disk,
                   answers>>

-----------------------------------------------------------------------------
(* The writer thread.                                                      *)

Take ==
    /\ wpc = "loop" /\ queue # <<>>
    /\ item' = Head(queue) /\ queue' = Tail(queue)
    /\ wpc' = "check"
    /\ UNCHANGED <<sequence, failed, closed, stopping, callers, disk, answers>>

\* A writer that goes on after a failure.
CheckNothing ==
    /\ wpc = "check"
    /\ wpc' = "write"
    /\ UNCHANGED <<sequence, queue, failed, closed, stopping, item, callers, disk,
                   answers>>

\* Once the failure is latched, items are taken off the queue and dropped.
Check ==
    /\ wpc = "check"
    /\ wpc' = IF failed THEN "ack" ELSE "write"
    /\ UNCHANGED <<sequence, queue, failed, closed, stopping, item, callers, disk,
                   answers>>

\* stream.write and stream.flush.  A failure may leave the line in the buffer.
Write ==
    /\ wpc = "write"
    /\ \/ /\ file' = IF item.flush THEN file ELSE Append(file, item.number)
          /\ wpc' = IF item.sync THEN "sync" ELSE "ack"
          /\ UNCHANGED <<failed, leftover>>
       \/ /\ failed' = TRUE
          /\ leftover' \in IF item.flush THEN {leftover} ELSE {0, item.number}
          /\ wpc' = "ack"
          /\ file' = file
    /\ UNCHANGED <<sequence, queue, closed, stopping, item, durable, crashed,
                   callers, answers>>

Sync ==
    /\ wpc = "sync"
    /\ \/ durable' = Len(file) /\ failed' = failed
       \/ durable' = durable /\ failed' = TRUE
    /\ wpc' = "ack"
    /\ UNCHANGED <<sequence, queue, closed, stopping, item, file, leftover,
                   crashed, callers, answers>>

Ack ==
    /\ wpc = "ack"
    /\ acked' = [c \in Clients |-> acked[c] \/ item.waiter = c]
    /\ wpc' = "loop"
    /\ UNCHANGED <<sequence, queue, failed, closed, stopping, pc, goal, item, disk,
                   answers>>

\* The end of the loop: stream.close tries once more to write its buffer.
EndAtOnce ==
    /\ wpc = "loop" /\ stopping
    /\ wpc' = "ended"
    /\ UNCHANGED <<sequence, queue, failed, closed, stopping, item, callers, disk,
                   answers>>

End ==
    /\ wpc = "loop" /\ stopping /\ queue = <<>>
    /\ wpc' = "ended"
    /\ \/ /\ file' = IF leftover = 0 THEN file ELSE Append(file, leftover)
          /\ leftover' = 0
          /\ failed' = failed
       \/ failed' = TRUE /\ UNCHANGED <<file, leftover>>
    /\ UNCHANGED <<sequence, queue, closed, stopping, item, durable, crashed,
                   callers, answers>>

WriterStep == Take \/ Check \/ Write \/ Sync \/ Ack \/ End

-----------------------------------------------------------------------------
\* The process is killed, or exits without close() (the writer is a daemon), or
\* the machine loses power: what was fsynced remains, later lines may.
Crash ==
    /\ ~crashed
    /\ crashed' = TRUE
    /\ \E n \in durable..Len(file) : file' = SubSeq(file, 1, n)
    /\ leftover' = 0
    /\ pc' = [c \in Clients |-> "gone"]
    /\ wpc' = "ended"
    /\ UNCHANGED <<sequence, queue, failed, closed, stopping, acked, goal, item,
                   durable, answers>>

Next ==
    \/ \E c \in Clients :
         \/ \E critical, wait \in BOOLEAN : Record(c, critical, wait)
         \/ Flush(c) \/ WaitReturns(c) \/ WaitTimesOut(c) \/ Open(c)
         \/ Close(c) \/ StopWriter(c) \/ JoinReturns(c) \/ JoinTimesOut(c)
    \/ WriterStep
    \/ Crash

Spec == Init /\ [][Next]_vars

\* The writer thread is scheduled and its calls to the disk return.
FairSpec == Spec /\ WF_vars(WriterStep)

-----------------------------------------------------------------------------
(* What the session's log is for.                                          *)

\* AuditLogReader.iter_records: it raises unless the numbers count on.
Reads(f) == \A i \in DOMAIN f : f[i] = i

\* What a successful record(wait_durable=True), flush() or close() vouches for
\* survives a crash: its own record and every one accepted before it.
AckedSurvives == acknowledged <= Len(file)

\* The reader never finds a gap or a repetition, whatever failed, timed out,
\* was dropped, was left in a buffer or was lost in a crash.
LogReadable == Reads(file)

\* The detailed log implements the abstract one: a durable acknowledgement is
\* given in health only, and covers no more than has been fsynced in order.
Trail == INSTANCE AuditTrail WITH accepted <- sequence, healthy <- ~failed
TrailSpec == Trail!Spec

\* A record that was accepted is written sooner or later, also when the logger is
\* closed at once; only a failure that callers can see, or a crash, loses it.
AcceptedIsWritten ==
    \A n \in Records :
        sequence >= n ~> n <= Len(file) \/ failed \/ crashed

-----------------------------------------------------------------------------
\* logger.py, flush(): "Wait for all currently queued audit records to be
\* written to disk", which includes the ones that a close() has just queued.
FlushWaits == ~crashed => flushed <= Len(file)
=============================================================================
