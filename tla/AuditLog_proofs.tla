-------------------------- MODULE AuditLog_proofs --------------------------
(***************************************************************************)
(* Proofs, for every set of clients, capacity and number of records, that  *)
(* the audit log stays readable, that what it acknowledged survives, and   *)
(* that it implements AuditTrail.                                          *)
(***************************************************************************)
EXTENDS AuditLog, TLAPS

-----------------------------------------------------------------------------
(* Items in the order of their numbers.                                    *)

\* What an item adds to the file.
Weight(e) == IF e.flush THEN 0 ELSE 1

\* The items of q follow the first base records and lead up to the last one.
Follows(base, q, last) ==
    /\ base <= last
    /\ q = <<>> => last = base
    /\ q # <<>> => /\ q[1].number = base + Weight(q[1])
                   /\ q[Len(q)].number = last
    /\ \A i \in DOMAIN q : q[i].number <= last
    /\ \A i \in 1..(Len(q) - 1) :
         q[i + 1].number = q[i].number + Weight(q[i + 1])

LEMMA FollowsAppend ==
    ASSUME NEW base \in Nat, NEW last \in Nat, NEW q \in Seq(Item), NEW e \in Item,
           Follows(base, q, last), e.number = last + Weight(e)
    PROVE  Follows(base, Append(q, e), e.number)
<1> DEFINE r == Append(q, e)
<1>1. /\ Len(r) = Len(q) + 1 /\ r[Len(r)] = e
      /\ \A i \in DOMAIN q : r[i] = q[i]
      /\ DOMAIN r = 1..(Len(q) + 1)
      /\ DOMAIN q = 1..Len(q) /\ Len(q) \in Nat
  OBVIOUS
<1>0. Len(q) \in Nat
  OBVIOUS
<1>2. Weight(e) \in {0, 1}
  BY DEF Weight
<1>3. \A i \in DOMAIN q : q[i].number \in Nat
  <2>. TAKE i \in DOMAIN q
  <2>1. q[i] \in Item
    OBVIOUS
  <2>. QED BY <2>1 DEF Item, Records
<1>9. e.number \in Nat
  BY DEF Item, Records
<1>. HIDE DEF r
<1>4. base <= e.number /\ last <= e.number
  BY <1>2 DEF Follows
<1>5. \A i \in DOMAIN r : r[i].number <= e.number
  <2>. TAKE i \in DOMAIN r
  <2>1. CASE i = Len(q) + 1
    BY <2>1, <1>1, <1>9
  <2>2. CASE i \in DOMAIN q
    BY <2>2, <1>1, <1>2, <1>3, <1>9 DEF Follows
  <2>. QED BY <2>1, <2>2, <1>1
<1>6. r[1].number = base + Weight(r[1])
  <2>1. CASE q = <<>>
    BY <2>1, <1>1 DEF Follows
  <2>2. CASE q # <<>>
    BY <2>2, <1>1 DEF Follows
  <2>. QED BY <2>1, <2>2
<1>7. \A i \in 1..Len(q) : r[i + 1].number = r[i].number + Weight(r[i + 1])
  <2>. TAKE i \in 1..Len(q)
  <2>1. CASE i = Len(q)
    BY <2>1, <1>1 DEF Follows
  <2>2. CASE i < Len(q)
    <3>1. i \in DOMAIN q /\ i + 1 \in DOMAIN q /\ i \in 1..(Len(q) - 1)
      BY <2>2, <1>1
    <3>. QED BY <3>1, <1>1 DEF Follows
  <2>3. i = Len(q) \/ i < Len(q)
    BY <1>0
  <2>. QED BY <2>1, <2>2, <2>3
<1>8. r # <<>> /\ Len(r) - 1 = Len(q)
  BY <1>1
<1>. QED BY <1>1, <1>4, <1>5, <1>6, <1>7, <1>8 DEF Follows, r

LEMMA FollowsTail ==
    ASSUME NEW base \in Nat, NEW last \in Nat, NEW q \in Seq(Item), q # <<>>,
           Follows(base, q, last)
    PROVE  /\ Head(q).number = base + Weight(Head(q))
           /\ Head(q).number <= last
           /\ Follows(Head(q).number, Tail(q), last)
<1> DEFINE r == Tail(q)
<1>1. /\ Len(q) \in Nat \ {0} /\ DOMAIN q = 1..Len(q) /\ Head(q) = q[1]
      /\ Len(r) = Len(q) - 1 /\ DOMAIN r = 1..(Len(q) - 1)
      /\ \A i \in DOMAIN r : r[i] = q[i + 1]
  OBVIOUS
<1>2. Head(q).number = base + Weight(Head(q)) /\ Head(q).number <= last
  BY <1>1 DEF Follows
<1>3. r = <<>> => last = Head(q).number
  BY <1>1 DEF Follows
<1>4. r # <<>> => /\ r[1].number = Head(q).number + Weight(r[1])
                  /\ r[Len(r)].number = last
  <2>. HAVE r # <<>>
  <2>1. Len(q) > 1 /\ 1 \in DOMAIN r /\ Len(r) \in DOMAIN r
    BY <1>1
  <2>. QED BY <2>1, <1>1 DEF Follows
<1>5. \A i \in DOMAIN r : r[i].number <= last
  BY <1>1 DEF Follows
<1>6. \A i \in 1..(Len(r) - 1) : r[i + 1].number = r[i].number + Weight(r[i + 1])
  <2>. TAKE i \in 1..(Len(r) - 1)
  <2>1. i \in DOMAIN r /\ i + 1 \in DOMAIN r /\ i + 1 \in 1..(Len(q) - 1)
    BY <1>1
  <2>. QED BY <2>1, <1>1 DEF Follows
<1>. QED BY <1>2, <1>3, <1>4, <1>5, <1>6 DEF Follows

-----------------------------------------------------------------------------
(* The inductive invariant.                                                *)

\* close() may still add its record.
TypeInv == TypeOK /\ (~closed => sequence <= MaxRecords)

\* The file holds the first records; the writer's next line is the next one.
FileInv ==
    /\ Reads(file)
    /\ durable <= Len(file) /\ Len(file) <= sequence
    /\ leftover # 0 => /\ failed /\ leftover = Len(file) + 1
                       /\ leftover <= sequence
                       /\ wpc # "write"
    /\ wpc = "write" => /\ item.number = Len(file) + Weight(item)
                        /\ item.number <= sequence
    /\ crashed => wpc = "ended"

\* What the queue continues: the file, or the item that is about to be written.
Base == IF wpc \in {"check", "write"} THEN item.number ELSE Len(file)

\* In health, nothing that was accepted is missing.
QueueInv ==
    ~failed /\ ~crashed =>
        /\ Follows(Base, queue, sequence)
        /\ wpc = "check" => item.number = Len(file) + Weight(item)
        /\ wpc \in {"sync", "ack"} => item.number = Len(file)
        /\ wpc = "ack" /\ item.sync => durable = Len(file)
        /\ wpc = "sync" => item.sync

Waits(c) == pc[c] \in {"waiting", "opening"}

\* Whoever waits for item e relies on no more than the records up to it.
Awaited(e) ==
    e.waiter # Nobody => /\ Waits(e.waiter) /\ ~acked[e.waiter]
                         /\ e.sync /\ goal[e.waiter] = e.number

WaitInv ==
    ~failed /\ ~crashed =>
        /\ \A i \in DOMAIN queue : Awaited(queue[i])
        /\ \A i, j \in DOMAIN queue :
             i # j => queue[i].waiter = Nobody \/ queue[i].waiter # queue[j].waiter
        /\ wpc \in {"check", "write", "sync", "ack"} =>
             /\ Awaited(item)
             /\ \A i \in DOMAIN queue :
                  item.waiter = Nobody \/ queue[i].waiter # item.waiter
        /\ \A c \in Clients : Waits(c) /\ acked[c] => goal[c] <= durable

\* The last record of a closed log is fsynced, and the writer ends after it.
CloseInv ==
    /\ \A c \in Clients : pc[c] \in {"closing", "joining"} =>
                            closed /\ goal[c] <= sequence
    /\ ~failed /\ stopping => closed
    /\ wpc = "ended" /\ ~crashed => queue = <<>> /\ stopping
    /\ ~failed /\ ~crashed /\ closed =>
         /\ queue # <<>> => queue[Len(queue)].sync
         /\ queue = <<>> /\ wpc \in {"check", "write", "sync"} => item.sync
         /\ queue = <<>> /\ wpc \in {"loop", "ack", "ended"} => durable = Len(file)

\* The constructor's caller is alone; a crash ends all of them.
OpenInv ==
    /\ \A c, d \in Clients : pc[c] = "opening" /\ d # c => pc[d] = "absent"
    /\ crashed => \A c \in Clients : pc[c] = "gone"

IInv == /\ TypeInv /\ FileInv /\ QueueInv /\ WaitInv /\ CloseInv /\ OpenInv
        /\ acknowledged <= durable

-----------------------------------------------------------------------------
(* Types.                                                                  *)

LEMMA RecordsAreNumbers ==
    /\ 1 \in Records /\ Records \subseteq Nat
    /\ \A n \in Records \cup {0} : n \in Nat
    /\ MaxRecords \in Nat
    /\ \A n \in Records : n < MaxRecords + 1 => n + 1 \in Records
  BY SizeAssumption DEF Records

LEMMA InitTyped == ASSUME Init PROVE TypeInv
<1>1. PICK opener \in Clients :
        /\ pc = [c \in Clients |-> IF c = opener THEN "opening" ELSE "absent"]
        /\ queue = <<Entry(1, FALSE, TRUE, opener)>>
  BY DEF Init
<1>2. /\ Entry(1, FALSE, TRUE, opener) \in Item
      /\ Entry(1, FALSE, FALSE, Nobody) \in Item
  BY RecordsAreNumbers DEF Entry, Item
<1>3. queue \in Seq(Item) /\ Len(queue) <= Capacity
  <2>1. \A e \in Item : <<e>> \in Seq(Item) /\ Len(<<e>>) = 1
    OBVIOUS
  <2>2. 1 <= Capacity
    BY SizeAssumption
  <2>3. Len(queue) = 1 /\ queue \in Seq(Item)
    BY <1>1, <1>2, <2>1, Zenon
  <2>. QED BY <2>2, <2>3
<1>4. sequence \in Records /\ sequence <= MaxRecords
  BY RecordsAreNumbers, SizeAssumption DEF Init
<1>5. /\ pc \in [Clients -> {"absent", "opening", "idle", "waiting", "closing",
                            "joining", "gone"}]
      /\ acked \in [Clients -> BOOLEAN]
      /\ goal \in [Clients -> Records \cup {0}]
  BY <1>1, RecordsAreNumbers DEF Init
<1>6. item \in Item /\ file \in Seq(Records)
  <2>1. <<>> \in Seq(Records)
    OBVIOUS
  <2>. QED BY <1>2, <2>1, Zenon DEF Init
<1>. QED BY <1>3, <1>4, <1>5, <1>6 DEF Init, TypeInv, TypeOK

\* An item that is admitted keeps the queue within its capacity.
LEMMA EnqueueTyped ==
    ASSUME TypeOK, NEW e \in Item, Enqueue(e)
    PROVE  /\ queue' \in Seq(Item) /\ Len(queue') <= Capacity
           /\ failed' \in BOOLEAN
           /\ Full => failed' /\ queue' = queue
           /\ ~Full => failed' = failed /\ queue' = Append(queue, e)
<1>1. CASE Full
  BY <1>1, Zenon DEF Enqueue, TypeOK
<1>2. CASE ~Full
  <2>1. failed' = failed /\ queue' = Append(queue, e)
    BY <1>2, Zenon DEF Enqueue
  <2>2. Len(queue) < Capacity
    BY <1>2, SizeAssumption DEF Full, TypeOK
  <2>3. queue' \in Seq(Item) /\ Len(queue') <= Capacity
    BY <2>1, <2>2, SizeAssumption DEF TypeOK
  <2>. QED BY <1>2, <2>1, <2>3, Zenon DEF TypeOK
<1>. QED BY <1>1, <1>2

LEMMA RecordTyped ==
    ASSUME TypeInv, NEW c \in Clients, NEW critical \in BOOLEAN,
           NEW wait \in BOOLEAN, Record(c, critical, wait)
    PROVE  TypeInv'
<1> DEFINE e == Entry(sequence + 1, FALSE, MustSync(critical, wait),
                      IF wait THEN c ELSE Nobody)
<1>1. sequence + 1 \in Records /\ sequence < MaxRecords
  BY RecordsAreNumbers DEF Record, TypeInv, TypeOK
<1>2. e \in Item
  <2>1. MustSync(critical, wait) \in BOOLEAN
    BY Zenon DEF MustSync
  <2>. QED BY <1>1, <2>1 DEF Entry, Item
<1>3. Enqueue(e)
  BY Zenon DEF Record
<1>4. /\ queue' \in Seq(Item) /\ Len(queue') <= Capacity
      /\ failed' \in BOOLEAN
  BY <1>2, <1>3, EnqueueTyped DEF TypeInv
<1>5. sequence' \in Records /\ sequence' <= MaxRecords
  BY <1>1, RecordsAreNumbers DEF Record, TypeInv, TypeOK
<1>6. /\ pc' \in [Clients -> {"absent", "opening", "idle", "waiting", "closing",
                              "joining", "gone"}]
      /\ acked' \in [Clients -> BOOLEAN]
      /\ goal' \in [Clients -> Records \cup {0}]
  BY <1>5 DEF Record, AwaitAck, TypeInv, TypeOK
<1>. QED BY <1>4, <1>5, <1>6 DEF Record, TypeInv, TypeOK, writer, disk, answers

LEMMA FlushTyped ==
    ASSUME TypeInv, NEW c \in Clients, Flush(c)
    PROVE  TypeInv'
<1>1. CASE closed
  BY <1>1 DEF Flush, TypeInv, TypeOK, writer, disk, callers
<1>2. CASE ~closed
  <2> DEFINE e == Entry(sequence, TRUE, TRUE, c)
  <2>1. e \in Item
    BY DEF Entry, Item, TypeInv, TypeOK
  <2>2. Enqueue(e) /\ AwaitAck(c, TRUE) /\ sequence' = sequence
    BY <1>2, Zenon DEF Flush
  <2>3. /\ queue' \in Seq(Item) /\ Len(queue') <= Capacity
        /\ failed' \in BOOLEAN
    BY <2>1, <2>2, EnqueueTyped DEF TypeInv
  <2>4. /\ pc' \in [Clients -> {"absent", "opening", "idle", "waiting",
                                "closing", "joining", "gone"}]
        /\ acked' \in [Clients -> BOOLEAN]
        /\ goal' \in [Clients -> Records \cup {0}]
    BY <2>2 DEF AwaitAck, TypeInv, TypeOK
  <2>5. flushed' = flushed
    BY <1>2, Zenon DEF Flush
  <2>. QED BY <1>2, <2>2, <2>3, <2>4, <2>5 DEF Flush, TypeInv, TypeOK, writer, disk
<1>. QED BY <1>1, <1>2

LEMMA CloseTyped ==
    ASSUME TypeInv, NEW c \in Clients, Close(c)
    PROVE  TypeInv'
<1>1. /\ sequence' \in Records
      /\ queue' \in Seq(Item) /\ Len(queue') <= Capacity
      /\ failed' \in BOOLEAN
  <2>1. CASE closed \/ failed
    BY <2>1, Zenon DEF Close, TypeInv, TypeOK
  <2>2. CASE ~(closed \/ failed)
    <3> DEFINE e == Entry(sequence + 1, FALSE, TRUE, Nobody)
    <3>1. sequence + 1 \in Records
      BY <2>2, RecordsAreNumbers DEF TypeInv, TypeOK
    <3>2. e \in Item
      BY <3>1 DEF Entry, Item
    <3>3. Enqueue(e) /\ sequence' = IF Full THEN sequence ELSE sequence + 1
      BY <2>2, Zenon DEF Close
    <3>. QED BY <3>1, <3>2, <3>3, EnqueueTyped DEF TypeInv, TypeOK
  <2>. QED BY <2>1, <2>2
<1>2. /\ pc' \in [Clients -> {"absent", "opening", "idle", "waiting", "closing",
                              "joining", "gone"}]
      /\ goal' \in [Clients -> Records \cup {0}]
  BY <1>1 DEF Close, TypeInv, TypeOK
<1>. QED BY <1>1, <1>2 DEF Close, TypeInv, TypeOK, writer, disk, answers

LEMMA AnswerTyped ==
    ASSUME TypeOK, NEW n \in Records \cup {0}, Answer(n)
    PROVE  acknowledged' \in Records \cup {0}
  BY DEF Answer, TypeOK

LEMMA CallerTyped ==
    ASSUME TypeInv, NEW c \in Clients,
           \/ WaitReturns(c) \/ WaitTimesOut(c) \/ Open(c)
           \/ StopWriter(c) \/ JoinReturns(c) \/ JoinTimesOut(c)
    PROVE  TypeInv'
<1>. USE DEF TypeInv, TypeOK, writer, disk, answers
<1>1. CASE WaitReturns(c)
  <2>1. goal[c] \in Records \cup {0} /\ Answer(goal[c])
    BY <1>1 DEF WaitReturns
  <2>2. acknowledged' \in Records \cup {0}
    BY <2>1, AnswerTyped
  <2>. QED BY <1>1, <2>2 DEF WaitReturns
<1>2. CASE WaitTimesOut(c)
  BY <1>2 DEF WaitTimesOut
<1>3. CASE Open(c)
  <2>1. failed' \in BOOLEAN
    BY <1>3, Zenon DEF Open
  <2>2. stopping' \in BOOLEAN
    BY <1>3, <2>1, Zenon DEF Open
  <2>3. pc' \in [Clients -> {"absent", "opening", "idle", "waiting", "closing",
                             "joining", "gone"}]
    <3>1. \/ pc' = [pc EXCEPT ![c] = "gone"]
          \/ pc' = [d \in Clients |-> "idle"]
      BY <1>3, Zenon DEF Open
    <3>. QED BY <3>1
  <2>4. acknowledged' \in Records \cup {0}
    <3>1. goal[c] \in Records \cup {0}
      OBVIOUS
    <3>2. acknowledged' = acknowledged \/ Answer(goal[c])
      BY <1>3, Zenon DEF Open
    <3>. QED BY <3>1, <3>2, AnswerTyped
  <2>. QED BY <1>3, <2>1, <2>2, <2>3, <2>4 DEF Open
<1>4. CASE StopWriter(c)
  BY <1>4 DEF StopWriter
<1>5. CASE JoinReturns(c)
  <2>1. goal[c] \in Records \cup {0} /\ Answer(goal[c])
    BY <1>5 DEF JoinReturns
  <2>2. acknowledged' \in Records \cup {0}
    BY <2>1, AnswerTyped
  <2>. QED BY <1>5, <2>2 DEF JoinReturns
<1>6. CASE JoinTimesOut(c)
  BY <1>6 DEF JoinTimesOut
<1>. QED BY <1>1, <1>2, <1>3, <1>4, <1>5, <1>6

\* Len(file) fits: FileInv bounds it by the records accepted.
LEMMA WriterTyped ==
    ASSUME TypeInv, FileInv, WriterStep PROVE TypeInv'
<1>. USE DEF TypeInv, TypeOK, callers, disk, answers
<1>1. CASE Take
  <2>1. Head(queue) \in Item /\ Tail(queue) \in Seq(Item)
        /\ Len(Tail(queue)) <= Capacity
    BY <1>1, SizeAssumption DEF Take
  <2>. QED BY <1>1, <2>1 DEF Take
<1>2. CASE Check
  BY <1>2 DEF Check
<1>3. CASE Write
  <2>1. item.number \in Records
    BY DEF Item
  <2>2. /\ file' \in Seq(Records)
        /\ leftover' \in Records \cup {0}
        /\ wpc' \in {"sync", "ack"}
    <3>1. CASE /\ file' = IF item.flush THEN file ELSE Append(file, item.number)
               /\ wpc' = IF item.sync THEN "sync" ELSE "ack"
               /\ UNCHANGED <<failed, leftover>>
      BY <2>1, <3>1
    <3>2. CASE /\ leftover' \in IF item.flush THEN {leftover}
                                              ELSE {0, item.number}
               /\ wpc' = "ack"
               /\ file' = file
      BY <2>1, <3>2
    <3>. QED BY <1>3, <3>1, <3>2, Zenon DEF Write
  <2>3. failed' \in BOOLEAN
    BY <1>3, Zenon DEF Write
  <2>. QED BY <1>3, <2>2, <2>3 DEF Write
<1>4. CASE Sync
  <2>1. durable' \in Records \cup {0}
    <3>1. Len(file) \in Nat /\ Len(file) <= MaxRecords + 1
      BY RecordsAreNumbers DEF FileInv, Records
    <3>2. Len(file) \in Records \cup {0}
      BY <3>1, RecordsAreNumbers DEF Records
    <3>. QED BY <1>4, <3>2 DEF Sync
  <2>2. failed' \in BOOLEAN
    BY <1>4, Zenon DEF Sync
  <2>. QED BY <1>4, <2>1, <2>2 DEF Sync
<1>5. CASE Ack
  BY <1>5 DEF Ack
<1>6. CASE End
  <2>1. file' \in Seq(Records) /\ leftover' \in Records \cup {0}
    <3>1. CASE leftover = 0
      BY <1>6, <3>1 DEF End
    <3>2. CASE leftover # 0
      BY <1>6, <3>2 DEF End
    <3>. QED BY <3>1, <3>2
  <2>2. failed' \in BOOLEAN
    BY <1>6, Zenon DEF End
  <2>. QED BY <1>6, <2>1, <2>2 DEF End
<1>. QED BY <1>1, <1>2, <1>3, <1>4, <1>5, <1>6 DEF WriterStep

LEMMA CrashTyped == ASSUME TypeInv, FileInv, Crash PROVE TypeInv'
<1>1. PICK n \in durable..Len(file) : file' = SubSeq(file, 1, n)
  BY DEF Crash
<1>2. n \in Nat /\ n <= Len(file)
  BY RecordsAreNumbers DEF TypeInv, TypeOK
<1>3. file' \in Seq(Records)
  BY <1>1, <1>2 DEF TypeInv, TypeOK
<1>. QED BY <1>3 DEF Crash, TypeInv, TypeOK, answers

\* What the callers' steps leave to the writer: the disk and its current item.
CallerStep ==
    \E c \in Clients :
         \/ \E critical, wait \in BOOLEAN : Record(c, critical, wait)
         \/ Flush(c) \/ WaitReturns(c) \/ WaitTimesOut(c) \/ Open(c)
         \/ Close(c) \/ StopWriter(c) \/ JoinReturns(c) \/ JoinTimesOut(c)

LEMMA CallersOnlyAccept ==
    ASSUME TypeInv, CallerStep
    PROVE  /\ UNCHANGED <<wpc, item, file, leftover, durable, crashed>>
           /\ sequence' \in Nat /\ sequence <= sequence'
           /\ failed => failed'
           /\ (closed => closed') /\ (stopping => stopping')
<1>1. PICK c \in Clients :
         \/ \E critical, wait \in BOOLEAN : Record(c, critical, wait)
         \/ Flush(c) \/ WaitReturns(c) \/ WaitTimesOut(c) \/ Open(c)
         \/ Close(c) \/ StopWriter(c) \/ JoinReturns(c) \/ JoinTimesOut(c)
  BY DEF CallerStep
<1>2. UNCHANGED <<wpc, item, file, leftover, durable, crashed>>
  BY <1>1, Zenon DEF Record, Flush, WaitReturns, WaitTimesOut, Open, Close,
                     StopWriter, JoinReturns, JoinTimesOut, writer, disk
<1>3. sequence' = sequence \/ sequence' = sequence + 1
  BY <1>1, Zenon DEF Record, Flush, WaitReturns, WaitTimesOut, Open, Close,
                     StopWriter, JoinReturns, JoinTimesOut
<1>4. failed => failed'
  <2>1. CASE Open(c)
    <3>1. failed' = failed \/ failed' = TRUE
      BY <2>1 DEF Open
    <3>. QED BY <3>1, Zenon
  <2>2. CASE ~Open(c)
    BY <1>1, <2>2, Zenon DEF Record, Flush, WaitReturns, WaitTimesOut, Close,
                             StopWriter, JoinReturns, JoinTimesOut
  <2>. QED BY <2>1, <2>2
<1>5. closed' = closed \/ closed' = TRUE
  BY <1>1, Zenon DEF Record, Flush, WaitReturns, WaitTimesOut, Open, Close,
                     StopWriter, JoinReturns, JoinTimesOut
<1>7. stopping' = stopping \/ stopping' = TRUE
  BY <1>1, Zenon DEF Record, Flush, WaitReturns, WaitTimesOut, Open, Close,
                     StopWriter, JoinReturns, JoinTimesOut
<1>8. (closed => closed') /\ (stopping => stopping')
  BY <1>5, <1>7
<1>6. sequence \in Nat
  BY RecordsAreNumbers DEF TypeInv, TypeOK
<1>. QED BY <1>2, <1>3, <1>4, <1>6, <1>8

LEMMA NextCases == ASSUME Next PROVE CallerStep \/ WriterStep \/ Crash
  BY Zenon DEF Next, CallerStep

LEMMA NextTyped == ASSUME TypeInv, FileInv, [Next]_vars PROVE TypeInv'
<1>1. CASE CallerStep
  BY <1>1, RecordTyped, FlushTyped, CallerTyped, CloseTyped DEF CallerStep
<1>2. CASE UNCHANGED vars
  BY <1>2 DEF vars, TypeInv, TypeOK
<1>. QED BY <1>1, <1>2, NextCases, WriterTyped, CrashTyped

-----------------------------------------------------------------------------
(* The file.                                                               *)

LEMMA InitFile == ASSUME Init PROVE FileInv
<1>1. Len(<<>>) = 0 /\ DOMAIN <<>> = {}
  OBVIOUS
<1>. QED BY <1>1 DEF Init, FileInv, Reads

LEMMA ReadsAppend ==
    ASSUME NEW f \in Seq(Records), Reads(f)
    PROVE  Reads(Append(f, Len(f) + 1))
  BY DEF Reads

LEMMA NextFile == ASSUME TypeInv, FileInv, QueueInv, [Next]_vars PROVE FileInv'
<1>. USE DEF FileInv, Weight
<1>0. /\ sequence \in Nat /\ durable \in Nat /\ leftover \in Nat
      /\ Len(file) \in Nat /\ item.number \in Nat
  <2>1. item.number \in Records
    BY DEF TypeInv, TypeOK, Item
  <2>2. /\ sequence \in Records /\ durable \in Records \cup {0}
        /\ leftover \in Records \cup {0} /\ file \in Seq(Records)
    BY DEF TypeInv, TypeOK
  <2>3. Len(file) \in Nat
    BY <2>2
  <2>. QED BY <2>1, <2>2, <2>3, RecordsAreNumbers, Zenon
<1>1. CASE CallerStep
  BY <1>0, <1>1, CallersOnlyAccept, SMT
<1>2. CASE Take
  BY <1>2 DEF Take, disk
<1>3. CASE Check
  <2>1. CASE failed
    BY <1>3, <2>1 DEF Check, disk
  <2>2. CASE ~failed
    <3>1. ~crashed
      BY <1>3 DEF Check
    <3>2. item.number = Len(file) + Weight(item) /\ item.number <= sequence
      BY <1>3, <2>2, <3>1 DEF Check, QueueInv, Follows, Base
    <3>. QED BY <1>3, <2>2, <3>1, <3>2 DEF Check, disk
  <2>. QED BY <2>1, <2>2
<1>4. CASE Write
  <2>1. CASE /\ file' = IF item.flush THEN file ELSE Append(file, item.number)
             /\ wpc' = IF item.sync THEN "sync" ELSE "ack"
             /\ UNCHANGED <<failed, leftover>>
    <3>1. leftover = 0 /\ ~crashed
      BY <1>4 DEF Write
    <3>2. CASE item.flush
      BY <1>4, <2>1, <3>1, <3>2 DEF Write
    <3>3. CASE ~item.flush
      <4>1. file' = Append(file, Len(file) + 1) /\ Len(file) + 1 <= sequence
        BY <1>4, <2>1, <3>3 DEF Write
      <4>2. Reads(file') /\ Len(file') = Len(file) + 1
        BY <4>1, ReadsAppend DEF TypeInv, TypeOK
      <4>. QED BY <1>0, <1>4, <2>1, <3>1, <4>1, <4>2 DEF Write
    <3>. QED BY <3>2, <3>3
  <2>2. CASE /\ failed' = TRUE
             /\ leftover' \in IF item.flush THEN {leftover} ELSE {0, item.number}
             /\ wpc' = "ack"
             /\ file' = file
    BY <1>0, <1>4, <2>2 DEF Write
  <2>. QED BY <1>4, <2>1, <2>2, Zenon DEF Write
<1>5. CASE Sync
  BY <1>0, <1>5 DEF Sync
<1>6. CASE Ack
  BY <1>6 DEF Ack, disk
<1>7. CASE End
  <2>1. CASE leftover = 0 \/ file' = file
    BY <1>0, <1>7, <2>1 DEF End
  <2>2. CASE leftover # 0 /\ file' # file
    <3>1. /\ file' = Append(file, Len(file) + 1) /\ leftover' = 0
          /\ Len(file) + 1 <= sequence
      BY <1>7, <2>2 DEF End
    <3>2. Reads(file') /\ Len(file') = Len(file) + 1
      BY <3>1, ReadsAppend DEF TypeInv, TypeOK
    <3>. QED BY <1>0, <1>7, <3>1, <3>2 DEF End
  <2>. QED BY <2>1, <2>2
<1>8. CASE Crash
  <2>1. PICK n \in durable..Len(file) : file' = SubSeq(file, 1, n)
    BY <1>8 DEF Crash
  <2>2. n \in Nat /\ durable <= n /\ n <= Len(file)
    BY <1>0
  <2>3. Len(file') = n /\ \A i \in DOMAIN file' : i \in DOMAIN file /\ file'[i] = file[i]
    BY <2>1, <2>2 DEF TypeInv, TypeOK
  <2>. QED BY <1>0, <1>8, <2>2, <2>3 DEF Crash, Reads
<1>9. CASE UNCHANGED vars
  BY <1>9 DEF vars, Reads
<1>. QED BY <1>1, <1>2, <1>3, <1>4, <1>5, <1>6, <1>7, <1>8, <1>9, NextCases,
            Zenon DEF WriterStep

-----------------------------------------------------------------------------
(* The queue.                                                              *)

\* What a call that succeeds has put into the queue, if anything.
Admitted(e) ==
    /\ queue' = Append(queue, e)
    /\ e.number = sequence + Weight(e) /\ sequence' = e.number
    /\ ~closed /\ (closed' => e.sync)

LEMMA CallersQueue ==
    ASSUME TypeInv, CallerStep, ~failed'
    PROVE  UNCHANGED <<queue, sequence>> \/ \E e \in Item : Admitted(e)
<1>0. sequence \in Nat /\ sequence \in Records
  BY RecordsAreNumbers DEF TypeInv, TypeOK
<1>1. ASSUME NEW c \in Clients, NEW critical \in BOOLEAN, NEW wait \in BOOLEAN,
             Record(c, critical, wait)
      PROVE  \E e \in Item : Admitted(e)
  <2> DEFINE e == Entry(sequence + 1, FALSE, MustSync(critical, wait),
                        IF wait THEN c ELSE Nobody)
  <2>1. ~Full /\ queue' = Append(queue, e) /\ ~closed /\ closed' = closed
        /\ sequence < MaxRecords
    BY <1>1, Zenon DEF Record, Enqueue
  <2>2. sequence' = sequence + 1
    BY <1>1, <2>1, Zenon DEF Record
  <2>3. e \in Item
    <3>1. sequence + 1 \in Records /\ MustSync(critical, wait) \in BOOLEAN
      BY <1>0, <2>1, RecordsAreNumbers DEF MustSync
    <3>. QED BY <3>1 DEF Entry, Item
  <2>4. e.number = sequence + 1 /\ Weight(e) = 1
    BY DEF Entry, Weight
  <2>. QED BY <2>1, <2>2, <2>3, <2>4 DEF Admitted
<1>2. ASSUME NEW c \in Clients, Flush(c)
      PROVE  UNCHANGED <<queue, sequence>> \/ \E e \in Item : Admitted(e)
  <2>1. CASE closed
    BY <1>2, <2>1, Zenon DEF Flush
  <2>2. CASE ~closed
    <3> DEFINE e == Entry(sequence, TRUE, TRUE, c)
    <3>1. queue' = Append(queue, e) /\ sequence' = sequence /\ closed' = closed
      BY <1>2, <2>2, Zenon DEF Flush, Enqueue
    <3>2. e \in Item
      BY <1>0 DEF Entry, Item
    <3>3. e.number = sequence /\ Weight(e) = 0 /\ e.sync = TRUE
      BY DEF Entry, Weight
    <3>4. ~closed'
      BY <2>2, <3>1
    <3>6. sequence' = sequence
      BY <3>1
    <3> HIDE DEF e
    <3>5. e.number = sequence + Weight(e) /\ sequence' = e.number
      BY <1>0, <3>6, <3>3
    <3>. QED BY <2>2, <3>1, <3>2, <3>4, <3>5 DEF Admitted
  <2>. QED BY <2>1, <2>2
<1>3. ASSUME NEW c \in Clients, Close(c)
      PROVE  UNCHANGED <<queue, sequence>> \/ \E e \in Item : Admitted(e)
  <2>1. CASE closed \/ failed
    BY <1>3, <2>1, Zenon DEF Close
  <2>2. CASE ~(closed \/ failed)
    <3> DEFINE e == Entry(sequence + 1, FALSE, TRUE, Nobody)
    <3>1. ~Full /\ queue' = Append(queue, e)
      BY <1>3, <2>2, Zenon DEF Close, Enqueue
    <3>2. sequence' = sequence + 1
      BY <1>3, <2>2, <3>1, Zenon DEF Close
    <3>3. e \in Item
      <4>1. sequence + 1 \in Records
        BY <1>0, <2>2, RecordsAreNumbers DEF TypeInv
      <4>. QED BY <4>1 DEF Entry, Item
    <3>4. e.number = sequence + 1 /\ Weight(e) = 1 /\ e.sync
      BY DEF Entry, Weight
    <3>. QED BY <2>2, <3>1, <3>2, <3>3, <3>4 DEF Admitted
  <2>. QED BY <2>1, <2>2
<1>4. ASSUME NEW c \in Clients,
             \/ WaitReturns(c) \/ WaitTimesOut(c) \/ Open(c)
             \/ StopWriter(c) \/ JoinReturns(c) \/ JoinTimesOut(c)
      PROVE  UNCHANGED <<queue, sequence>>
  BY <1>4, Zenon DEF WaitReturns, WaitTimesOut, Open, StopWriter, JoinReturns,
                     JoinTimesOut
<1>. QED BY <1>1, <1>2, <1>3, <1>4 DEF CallerStep

LEMMA InitQueue == ASSUME Init PROVE QueueInv
<1>1. PICK opener \in Clients : queue = <<Entry(1, FALSE, TRUE, opener)>>
  BY DEF Init
<1>2. queue # <<>> /\ Len(queue) = 1 /\ DOMAIN queue = {1} /\ Len(file) = 0
  <2>1. \A e : /\ <<e>> # <<>> /\ <<e>>[1] = e
               /\ Len(<<e>>) = 1 /\ DOMAIN <<e>> = {1}
    OBVIOUS
  <2>2. Len(<<>>) = 0
    OBVIOUS
  <2>. QED BY <1>1, <2>1, <2>2, Zenon DEF Init
<1>3. queue[1].number = 1 /\ Weight(queue[1]) = 1
  <2>1. \A e : <<e>>[1] = e
    OBVIOUS
  <2>2. queue[1] = Entry(1, FALSE, TRUE, opener)
    BY <1>1, <2>1, Zenon
  <2>. QED BY <2>2 DEF Entry, Weight
<1>4. Base = 0 /\ sequence = 1 /\ wpc = "loop"
  BY <1>2 DEF Init, Base
<1>5. Follows(Base, queue, sequence)
  <2>1. 1..(Len(queue) - 1) = {}
    BY <1>2
  <2>2. \A i \in DOMAIN queue : queue[i].number <= 1
    BY <1>2, <1>3
  <2>3. queue[1].number = 0 + Weight(queue[1]) /\ queue[Len(queue)].number = 1
    BY <1>2, <1>3
  <2>. QED BY <1>2, <1>4, <2>1, <2>2, <2>3 DEF Follows
<1>. QED BY <1>4, <1>5 DEF QueueInv

LEMMA NextQueue == ASSUME TypeInv, FileInv, QueueInv, [Next]_vars PROVE QueueInv'
<1>. SUFFICES ASSUME ~failed', ~crashed' PROVE QueueInv'
  BY DEF QueueInv
<1>0. /\ sequence \in Nat /\ durable \in Nat /\ Len(file) \in Nat
      /\ item \in Item /\ item.number \in Nat /\ queue \in Seq(Item)
      /\ file \in Seq(Records) /\ Base \in Nat
  <2>1. item.number \in Records /\ item \in Item /\ queue \in Seq(Item)
        /\ file \in Seq(Records) /\ sequence \in Records
        /\ durable \in Records \cup {0}
    BY DEF TypeInv, TypeOK, Item
  <2>2. Len(file) \in Nat
    BY <2>1
  <2>. QED BY <2>1, <2>2, RecordsAreNumbers, Zenon DEF Base
<1>1. CASE CallerStep
  <2>1. /\ UNCHANGED <<wpc, item, file, leftover, durable, crashed>>
        /\ ~failed
    BY <1>1, CallersOnlyAccept
  <2>2. Follows(Base, queue', sequence')
    <3>1. CASE UNCHANGED <<queue, sequence>>
      BY <2>1, <3>1 DEF QueueInv
    <3>2. ASSUME NEW e \in Item, Admitted(e) PROVE Follows(Base, queue', sequence')
      BY <1>0, <2>1, <3>2, FollowsAppend DEF QueueInv, Admitted
    <3>. QED BY <1>1, <3>1, <3>2, CallersQueue
  <2>3. Base' = Base
    BY <2>1 DEF Base
  <2>. QED BY <2>1, <2>2, <2>3 DEF QueueInv
<1>2. CASE Take
  <2>1. ~failed /\ ~crashed /\ wpc = "loop" /\ wpc' = "check"
        /\ queue # <<>> /\ item' = Head(queue) /\ queue' = Tail(queue)
        /\ file' = file /\ sequence' = sequence
    BY <1>2 DEF Take, disk
  <2>2. Follows(Len(file), queue, sequence)
    BY <2>1 DEF QueueInv, Base
  <2>3. /\ Head(queue).number = Len(file) + Weight(Head(queue))
        /\ Follows(Head(queue).number, Tail(queue), sequence)
    BY <1>0, <2>1, <2>2, FollowsTail
  <2>. QED BY <2>1, <2>3 DEF QueueInv, Base, Weight
<1>3. CASE Check
  BY <1>3 DEF Check, disk, QueueInv, Base, Weight
<1>4. CASE Write
  <2>1. /\ file' = IF item.flush THEN file ELSE Append(file, item.number)
        /\ wpc' = IF item.sync THEN "sync" ELSE "ack"
        /\ failed' = failed
    BY <1>4, Zenon DEF Write
  <2>2. ~failed /\ ~crashed /\ wpc = "write"
        /\ UNCHANGED <<item, queue, sequence, durable>>
    BY <1>4, <2>1 DEF Write
  <2>3. item.number = Len(file) + Weight(item)
        /\ Follows(item.number, queue, sequence)
    BY <2>2 DEF QueueInv, FileInv, Base
  <2>4. Len(file') = item.number
    <3>1. CASE item.flush
      BY <1>0, <2>1, <2>3, <3>1 DEF Weight
    <3>2. CASE ~item.flush
      BY <1>0, <2>1, <2>3, <3>2 DEF Weight
    <3>. QED BY <3>1, <3>2
  <2>5. Base' = item.number
    BY <2>1, <2>4 DEF Base
  <2>6. wpc' \in {"sync", "ack"} /\ (wpc' = "sync" <=> item.sync)
    BY <2>1
  <2>. QED BY <2>2, <2>3, <2>4, <2>5, <2>6 DEF QueueInv
<1>5. CASE Sync
  BY <1>5 DEF Sync, QueueInv, Base
<1>6. CASE Ack
  BY <1>6 DEF Ack, disk, QueueInv, Base
<1>7. CASE End
  <2>1. leftover = 0 /\ ~failed /\ file' = file
    BY <1>7 DEF End, FileInv
  <2>. QED BY <1>7, <2>1 DEF End, QueueInv, Base
<1>8. CASE Crash
  BY <1>8 DEF Crash
<1>9. CASE UNCHANGED vars
  BY <1>9 DEF vars, QueueInv, Base
<1>. QED BY <1>1, <1>2, <1>3, <1>4, <1>5, <1>6, <1>7, <1>8, <1>9, NextCases,
            Zenon DEF WriterStep

-----------------------------------------------------------------------------
(* The callers that wait.                                                  *)

LEMMA InitWait == ASSUME Init PROVE WaitInv /\ OpenInv /\ acknowledged <= durable
<1>1. PICK opener \in Clients :
        /\ pc = [c \in Clients |-> IF c = opener THEN "opening" ELSE "absent"]
        /\ queue = <<Entry(1, FALSE, TRUE, opener)>>
  BY DEF Init
<1>2. DOMAIN queue = {1} /\ queue[1] = Entry(1, FALSE, TRUE, opener)
  <2>1. \A e : DOMAIN <<e>> = {1} /\ <<e>>[1] = e
    OBVIOUS
  <2>. QED BY <1>1, <2>1, Zenon
<1>3. Awaited(queue[1])
  <2>1. /\ queue[1].waiter = opener /\ queue[1].sync /\ queue[1].number = 1
    BY <1>2 DEF Entry
  <2>2. pc[opener] = "opening" /\ ~acked[opener] /\ goal[opener] = 1
    BY <1>1 DEF Init
  <2>. QED BY <2>1, <2>2 DEF Awaited, Waits
<1>4. WaitInv
  <2>1. wpc = "loop" /\ \A c \in Clients : ~acked[c]
    BY DEF Init
  <2>. QED BY <1>2, <1>3, <2>1 DEF WaitInv
<1>5. OpenInv
  <2>1. ~crashed
    BY DEF Init
  <2>. QED BY <1>1, <2>1 DEF OpenInv
<1>. QED BY <1>4, <1>5 DEF Init

\* A step of the callers keeps WaitInv if nobody stops waiting without an answer
\* and whoever starts to wait has just queued an item.
LEMMA CallersWait ==
    ASSUME TypeInv, WaitInv, ~failed, UNCHANGED <<writer, disk>>,
           NEW e \in Item, NEW caller \in Clients,
           \/ queue' = queue
           \/ /\ queue' = Append(queue, e)
              /\ e.waiter # Nobody => e.waiter = caller /\ Awaited(e)'
              /\ ~Waits(caller),
           \A c \in Clients :
              Waits(c) /\ ~acked[c] => UNCHANGED <<pc[c], acked[c], goal[c]>>,
           \A c \in Clients :
              Waits(c)' /\ acked'[c] => Waits(c) /\ acked[c] /\ goal'[c] = goal[c]
    PROVE  WaitInv'
<1>. SUFFICES ASSUME ~failed', ~crashed' PROVE WaitInv'
  BY DEF WaitInv
<1>0. ~crashed /\ UNCHANGED <<wpc, item, durable>>
  BY DEF writer, disk
<1>1. \A d \in Item : Awaited(d) => Awaited(d)'
  <2>. SUFFICES ASSUME NEW d \in Item, Awaited(d), d.waiter # Nobody
                PROVE  Awaited(d)'
    BY DEF Awaited
  <2>1. d.waiter \in Clients /\ Waits(d.waiter) /\ ~acked[d.waiter]
    BY DEF Awaited, Item
  <2>. QED BY <2>1, Zenon DEF Awaited, Waits
<1>2. item \in Item /\ \A i \in DOMAIN queue : queue[i] \in Item
  BY DEF TypeInv, TypeOK
<1>3. \A c \in Clients : Waits(c)' /\ acked'[c] => goal'[c] <= durable
  BY <1>0 DEF WaitInv
<1>4. CASE queue' = queue
  BY <1>0, <1>1, <1>2, <1>3, <1>4 DEF WaitInv
<1>5. CASE /\ queue' = Append(queue, e)
           /\ e.waiter # Nobody => e.waiter = caller /\ Awaited(e)'
           /\ ~Waits(caller)
  <2>1. /\ Len(queue) \in Nat /\ DOMAIN queue = 1..Len(queue)
        /\ DOMAIN queue' = 1..(Len(queue) + 1)
        /\ queue'[Len(queue) + 1] = e
        /\ \A i \in DOMAIN queue : queue'[i] = queue[i]
    BY <1>5 DEF TypeInv, TypeOK
  <2>2. \A i \in DOMAIN queue' : i = Len(queue) + 1 \/ i \in DOMAIN queue
    BY <2>1
  <2>3. Awaited(e)'
    BY <1>5 DEF Awaited
  <2>4. \A i \in DOMAIN queue : e.waiter = Nobody \/ queue[i].waiter # e.waiter
    BY <1>0, <1>5 DEF WaitInv, Awaited
  <2>5. wpc \in {"check", "write", "sync", "ack"} =>
          item.waiter = Nobody \/ e.waiter # item.waiter
    BY <1>0, <1>5 DEF WaitInv, Awaited
  <2>6. \A i \in DOMAIN queue' : Awaited(queue[i])'
    <3>. SUFFICES ASSUME NEW i \in DOMAIN queue' PROVE Awaited(queue[i])'
      OBVIOUS
    <3>1. CASE i = Len(queue) + 1
      <4>1. queue'[i] = e
        BY <2>1, <3>1
      <4>. QED BY <2>3, <4>1 DEF Awaited, Waits
    <3>2. CASE i \in DOMAIN queue
      <4>1. queue'[i] = queue[i] /\ queue[i] \in Item /\ Awaited(queue[i])
        BY <1>0, <1>2, <2>1, <3>2 DEF WaitInv
      <4>2. \A d \in Item : d = queue[i] => Awaited(d)'
        BY <1>1, <4>1
      <4>. QED BY <4>1, <4>2 DEF Awaited, Waits
    <3>. QED BY <2>2, <3>1, <3>2
  <2>7. \A i, j \in DOMAIN queue' :
          i # j => queue'[i].waiter = Nobody \/ queue'[i].waiter # queue'[j].waiter
    BY <1>0, <2>1, <2>2, <2>4 DEF WaitInv
  <2>8. wpc \in {"check", "write", "sync", "ack"} =>
          /\ Awaited(item)'
          /\ \A i \in DOMAIN queue' :
               item.waiter = Nobody \/ queue'[i].waiter # item.waiter
    <3>. SUFFICES ASSUME wpc \in {"check", "write", "sync", "ack"}
                  PROVE  /\ Awaited(item)'
                         /\ \A i \in DOMAIN queue' :
                              item.waiter = Nobody \/ queue'[i].waiter # item.waiter
      OBVIOUS
    <3>1. Awaited(item)'
      <4>1. \A d \in Item : d = item => Awaited(d)'
        BY <1>0, <1>1 DEF WaitInv
      <4>. QED BY <1>0, <1>2, <4>1 DEF Awaited, Waits
    <3>. QED BY <1>0, <2>1, <2>2, <2>5, <3>1 DEF WaitInv
  <2>. QED BY <1>0, <1>3, <2>6, <2>7, <2>8 DEF WaitInv
<1>. QED BY <1>4, <1>5

LEMMA NextWait ==
    ASSUME TypeInv, FileInv, QueueInv, WaitInv, OpenInv, [Next]_vars
    PROVE  WaitInv'
<1>. SUFFICES ASSUME ~failed', ~crashed' PROVE WaitInv'
  BY DEF WaitInv
<1>0. item \in Item /\ \A i \in DOMAIN queue : queue[i] \in Item
  BY DEF TypeInv, TypeOK
<1>1. CASE CallerStep
  <2>0. ~failed /\ UNCHANGED <<writer, disk>>
    BY <1>1, CallersOnlyAccept DEF writer, disk
  <2>1. ASSUME NEW c \in Clients, NEW critical \in BOOLEAN, NEW wait \in BOOLEAN,
               Record(c, critical, wait)
        PROVE  WaitInv'
    <3>1. /\ pc[c] = "idle" /\ ~Full /\ sequence < MaxRecords
          /\ queue' = Append(queue, Entry(sequence + 1, FALSE,
                         MustSync(critical, wait), IF wait THEN c ELSE Nobody))
      BY <2>1, Zenon DEF Record, Enqueue
    <3>2. sequence' = sequence + 1
      BY <2>1, <3>1, Zenon DEF Record
    <3>3. /\ pc' = [pc EXCEPT ![c] = IF wait THEN "waiting" ELSE "idle"]
          /\ acked' = [acked EXCEPT ![c] = FALSE]
          /\ goal' = [goal EXCEPT ![c] = sequence']
      BY <2>1, <3>1, Zenon DEF Record, AwaitAck
    <3>4. /\ ~Waits(c) /\ ~acked'[c]
          /\ \A d \in Clients : d # c => UNCHANGED <<pc[d], acked[d], goal[d]>>
      BY <3>1, <3>3 DEF Waits, TypeInv, TypeOK
    <3>5. Entry(sequence + 1, FALSE, MustSync(critical, wait),
                IF wait THEN c ELSE Nobody) \in Item
      <4>1. sequence + 1 \in Records /\ MustSync(critical, wait) \in BOOLEAN
        BY <3>1, RecordsAreNumbers DEF MustSync, TypeInv, TypeOK
      <4>. QED BY <4>1 DEF Entry, Item
    <3>6. PICK e \in Item :
             /\ e = Entry(sequence + 1, FALSE, MustSync(critical, wait),
                          IF wait THEN c ELSE Nobody)
             /\ queue' = Append(queue, e)
      BY <3>1, <3>5, Zenon
    <3>7. e.waiter # Nobody => e.waiter = c /\ Awaited(e)'
      <4>. SUFFICES ASSUME e.waiter # Nobody PROVE e.waiter = c /\ Awaited(e)'
        OBVIOUS
      <4>1. wait /\ e.waiter = c /\ e.number = sequence' /\ e.sync
        BY <3>2, <3>6 DEF Entry, MustSync
      <4>2. pc'[c] = "waiting" /\ goal'[c] = sequence'
        BY <3>3, <4>1 DEF TypeInv, TypeOK
      <4>. QED BY <3>4, <4>1, <4>2 DEF Awaited, Waits
    <3>8. \A d \in Clients :
            /\ Waits(d) /\ ~acked[d] => UNCHANGED <<pc[d], acked[d], goal[d]>>
            /\ Waits(d)' /\ acked'[d] => Waits(d) /\ acked[d] /\ goal'[d] = goal[d]
      BY <3>4 DEF Waits
    <3>9. queue' = Append(queue, e)
      BY <3>6
    <3>. QED BY <2>0, <3>4, <3>7, <3>8, <3>9, CallersWait
  <2>2. ASSUME NEW c \in Clients, Flush(c) PROVE WaitInv'
    <3>1. CASE closed
      BY <2>0, <2>2, <3>1 DEF Flush, WaitInv, Awaited, Waits, callers, writer, disk
    <3>2. CASE ~closed
      <4>1. /\ pc[c] = "idle" /\ ~Full /\ sequence' = sequence
            /\ queue' = Append(queue, Entry(sequence, TRUE, TRUE, c))
        BY <2>2, <3>2, Zenon DEF Flush, Enqueue
      <4>3. /\ pc' = [pc EXCEPT ![c] = "waiting"]
            /\ acked' = [acked EXCEPT ![c] = FALSE]
            /\ goal' = [goal EXCEPT ![c] = sequence']
        BY <2>2, <3>2, <4>1, Zenon DEF Flush, AwaitAck
      <4>4. /\ ~Waits(c) /\ ~acked'[c]
            /\ pc'[c] = "waiting" /\ goal'[c] = sequence
            /\ \A d \in Clients : d # c => UNCHANGED <<pc[d], acked[d], goal[d]>>
        BY <4>1, <4>3 DEF Waits, TypeInv, TypeOK
      <4>2. Entry(sequence, TRUE, TRUE, c) \in Item
        BY DEF Entry, Item, TypeInv, TypeOK
      <4>5. PICK e \in Item : e = Entry(sequence, TRUE, TRUE, c)
        BY <4>2, Zenon
      <4>9. e.waiter = c /\ e.number = sequence /\ e.sync
        BY <4>5 DEF Entry
      <4>10. queue' = Append(queue, e)
        BY <4>1, <4>5, Zenon
      <4>6. e.waiter # Nobody => e.waiter = c /\ Awaited(e)'
        BY <4>4, <4>9 DEF Awaited, Waits
      <4>7. \A d \in Clients :
              Waits(d) /\ ~acked[d] => UNCHANGED <<pc[d], acked[d], goal[d]>>
        BY <4>4
      <4>8. \A d \in Clients :
              Waits(d)' /\ acked'[d] => Waits(d) /\ acked[d] /\ goal'[d] = goal[d]
        BY <4>4 DEF Waits
      <4>. QED BY <2>0, <4>4, <4>6, <4>7, <4>8, <4>10, CallersWait
    <3>. QED BY <3>1, <3>2
  <2>3. ASSUME NEW c \in Clients, Close(c) PROVE WaitInv'
    <3> DEFINE e == Entry(sequence + 1, FALSE, TRUE, Nobody)
    <3>1. queue' = queue \/ (queue' = Append(queue, e) /\ ~closed)
      BY <2>3, Zenon DEF Close, Enqueue
    <3>2. /\ ~Waits(c) /\ ~Waits(c)'
          /\ \A d \in Clients : d # c => UNCHANGED <<pc[d], acked[d], goal[d]>>
      BY <2>3 DEF Close, Waits, TypeInv, TypeOK
    <3>3. \A d \in Clients :
            /\ Waits(d) /\ ~acked[d] => UNCHANGED <<pc[d], acked[d], goal[d]>>
            /\ Waits(d)' /\ acked'[d] => Waits(d) /\ acked[d] /\ goal'[d] = goal[d]
      BY <3>2 DEF Waits
    <3>4. CASE queue' = queue
      BY <1>0, <2>0, <3>3, <3>4, CallersWait
    <3>5. CASE queue' = Append(queue, e) /\ ~closed
      <4>1. sequence + 1 \in Records
        BY <3>5, RecordsAreNumbers DEF TypeInv, TypeOK
      <4>2. e \in Item /\ e.waiter = Nobody
        BY <4>1 DEF Entry, Item
      <4>. HIDE DEF e
      <4>. QED BY <2>0, <3>2, <3>3, <3>5, <4>2, CallersWait
    <3>. QED BY <3>1, <3>4, <3>5
  <2>4. ASSUME NEW c \in Clients,
               \/ WaitReturns(c) \/ WaitTimesOut(c) \/ Open(c)
               \/ StopWriter(c) \/ JoinReturns(c) \/ JoinTimesOut(c)
        PROVE  WaitInv'
    <3>1. queue' = queue /\ acked' = acked /\ goal' = goal
      BY <2>4, Zenon DEF WaitReturns, WaitTimesOut, Open, StopWriter, JoinReturns,
                         JoinTimesOut
    <3>2. \A d \in Clients :
            /\ Waits(d) /\ ~acked[d] => pc'[d] = pc[d]
            /\ Waits(d)' => Waits(d)
      <4>1. CASE WaitReturns(c)
        BY <4>1 DEF WaitReturns, Waits, TypeInv, TypeOK
      <4>2. CASE StopWriter(c) \/ JoinReturns(c)
        BY <4>2 DEF StopWriter, JoinReturns, Waits, TypeInv, TypeOK
      <4>3. CASE Open(c)
        <5>1. acked[c] /\ pc' = [d \in Clients |-> "idle"]
          BY <4>3 DEF Open
        <5>2. \A d \in Clients : d # c => pc[d] = "absent"
          BY <4>3 DEF Open, OpenInv
        <5>. QED BY <5>1, <5>2 DEF Waits
      <4>4. CASE WaitTimesOut(c) \/ JoinTimesOut(c)
        BY <4>4 DEF WaitTimesOut, JoinTimesOut
      <4>. QED BY <2>4, <4>1, <4>2, <4>3, <4>4
    <3>. QED BY <1>0, <2>0, <3>1, <3>2, CallersWait
  <2>. QED BY <1>1, <2>1, <2>2, <2>3, <2>4 DEF CallerStep
<1>2. CASE Take
  <2>1. /\ ~failed /\ ~crashed /\ queue # <<>>
        /\ item' = Head(queue) /\ queue' = Tail(queue) /\ wpc' = "check"
        /\ UNCHANGED <<pc, acked, goal, durable>>
    BY <1>2 DEF Take, disk, callers
  <2>2. /\ Head(queue) = queue[1] /\ 1 \in DOMAIN queue
        /\ \A i \in DOMAIN queue' : i + 1 \in DOMAIN queue /\ queue'[i] = queue[i + 1]
        /\ \A i \in DOMAIN queue' : i \in Nat \ {0}
    BY <2>1 DEF TypeInv, TypeOK
  <2>. QED BY <2>1, <2>2 DEF WaitInv, Awaited, Waits
<1>3. CASE Check
  BY <1>3 DEF Check, callers, disk, WaitInv, Awaited, Waits
<1>4. CASE Write
  <2>1. /\ ~failed /\ ~crashed /\ wpc = "write"
        /\ UNCHANGED <<pc, acked, goal, durable, item, queue>>
    <3>1. failed' = failed
      BY <1>4, Zenon DEF Write
    <3>. QED BY <1>4, <3>1 DEF Write, callers
  <2>. QED BY <2>1 DEF WaitInv, Awaited, Waits
<1>5. CASE Sync
  <2>1. /\ ~failed /\ ~crashed /\ wpc = "sync" /\ durable' = Len(file)
        /\ UNCHANGED <<pc, acked, goal, item, queue>>
    BY <1>5 DEF Sync, callers
  <2>2. \A c \in Clients : goal[c] <= durable => goal[c] <= Len(file)
    <3>1. \A c \in Clients : goal[c] \in Records \cup {0}
      BY DEF TypeInv, TypeOK
    <3>2. Len(file) \in Nat /\ durable \in Records \cup {0} /\ durable <= Len(file)
      BY DEF TypeInv, TypeOK, FileInv
    <3>3. durable \in Nat /\ \A c \in Clients : goal[c] \in Nat
      BY <3>1, <3>2, RecordsAreNumbers, Zenon
    <3>. QED BY <3>2, <3>3
  <2>. QED BY <2>1, <2>2 DEF WaitInv, Awaited, Waits
<1>6. CASE Ack
  <2>1. /\ ~failed /\ ~crashed /\ wpc = "ack" /\ wpc' = "loop"
        /\ acked' = [c \in Clients |-> acked[c] \/ item.waiter = c]
        /\ UNCHANGED <<pc, goal, durable, queue>>
    BY <1>6 DEF Ack, disk
  <2>2. item.waiter # Nobody => goal[item.waiter] <= durable
    <3>1. Len(file) \in Nat
      BY DEF TypeInv, TypeOK
    <3>. QED BY <2>1, <3>1 DEF QueueInv, WaitInv, Awaited
  <2>3. \A c \in Clients : c # Nobody /\ (acked'[c] <=> acked[c] \/ item.waiter = c)
    BY <2>1, SizeAssumption
  <2>4. \A c \in Clients : Waits(c)' /\ acked'[c] => goal'[c] <= durable'
    BY <2>1, <2>2, <2>3 DEF WaitInv, Waits
  <2>5. \A i \in DOMAIN queue' : Awaited(queue[i])'
    <3>. SUFFICES ASSUME NEW i \in DOMAIN queue', queue'[i].waiter # Nobody
                  PROVE  Awaited(queue[i])'
      BY DEF Awaited
    <3>1. queue'[i] = queue[i] /\ i \in DOMAIN queue /\ queue[i].waiter \in Clients
      BY <1>0, <2>1 DEF Item
    <3>2. Awaited(queue[i]) /\ item.waiter # queue[i].waiter
      BY <2>1, <3>1 DEF WaitInv
    <3>3. ~acked'[queue[i].waiter]
      BY <2>3, <3>1, <3>2 DEF Awaited
    <3>. QED BY <2>1, <3>1, <3>2, <3>3 DEF Awaited, Waits
  <2>. QED BY <2>1, <2>4, <2>5 DEF WaitInv
<1>7. CASE End
  BY <1>7 DEF End, callers, WaitInv, Awaited, Waits
<1>8. CASE Crash
  BY <1>8 DEF Crash
<1>9. CASE UNCHANGED vars
  BY <1>9 DEF vars, WaitInv, Awaited, Waits
<1>. QED BY <1>1, <1>2, <1>3, <1>4, <1>5, <1>6, <1>7, <1>8, <1>9, NextCases,
            Zenon DEF WriterStep

-----------------------------------------------------------------------------
(* Opening and closing.                                                    *)

LEMMA NextOpen == ASSUME TypeInv, FileInv, OpenInv, [Next]_vars PROVE OpenInv'
<1>1. CASE CallerStep
  <2>0. crashed' = crashed
    BY <1>1, CallersOnlyAccept
  <2>1. PICK c \in Clients :
         \/ \E critical, wait \in BOOLEAN : Record(c, critical, wait)
         \/ Flush(c) \/ WaitReturns(c) \/ WaitTimesOut(c) \/ Open(c)
         \/ Close(c) \/ StopWriter(c) \/ JoinReturns(c) \/ JoinTimesOut(c)
    BY <1>1 DEF CallerStep
  <2>2. pc[c] # "absent" /\ pc[c] # "gone"
    BY <2>1 DEF Record, Flush, WaitReturns, WaitTimesOut, Open, Close, StopWriter,
                JoinReturns, JoinTimesOut
  <2>3. CASE pc' = [d \in Clients |-> "idle"]
    BY <2>0, <2>2, <2>3 DEF OpenInv
  <2>4. CASE pc' # [d \in Clients |-> "idle"]
    <3>1. /\ \A d \in Clients : d # c => pc'[d] = pc[d]
          /\ pc'[c] # "opening"
      <4>1. CASE Flush(c)
        BY <4>1 DEF Flush, AwaitAck, callers, TypeInv, TypeOK
      <4>2. CASE Open(c)
        <5>1. pc' = [pc EXCEPT ![c] = "gone"]
          BY <2>4, <4>2, Zenon DEF Open
        <5>. QED BY <5>1 DEF TypeInv, TypeOK
      <4>3. CASE ~Flush(c) /\ ~Open(c)
        BY <2>1, <4>3 DEF Record, WaitReturns, WaitTimesOut, Close, StopWriter,
                          JoinReturns, JoinTimesOut, AwaitAck, TypeInv, TypeOK
      <4>. QED BY <4>1, <4>2, <4>3
    <3>. QED BY <2>0, <2>2, <3>1 DEF OpenInv
  <2>. QED BY <2>3, <2>4
<1>2. CASE WriterStep
  <2>1. pc' = pc /\ crashed' = crashed
    BY <1>2, Zenon DEF WriterStep, Take, Check, Write, Sync, Ack, End, callers, disk
  <2>. QED BY <2>1 DEF OpenInv
<1>3. CASE Crash
  BY <1>3 DEF Crash, OpenInv
<1>4. CASE UNCHANGED vars
  BY <1>4 DEF vars, OpenInv
<1>. QED BY <1>1, <1>2, <1>3, <1>4, NextCases

LEMMA InitClose == ASSUME Init PROVE CloseInv
  BY DEF Init, CloseInv

LEMMA CallersClose ==
    ASSUME TypeInv, FileInv, QueueInv, CloseInv, CallerStep PROVE CloseInv'
<1>1. PICK c \in Clients :
         \/ \E critical, wait \in BOOLEAN : Record(c, critical, wait)
         \/ Flush(c) \/ WaitReturns(c) \/ WaitTimesOut(c) \/ Open(c)
         \/ Close(c) \/ StopWriter(c) \/ JoinReturns(c) \/ JoinTimesOut(c)
  BY DEF CallerStep
<1>0. /\ UNCHANGED <<wpc, item, file, leftover, durable, crashed>>
      /\ sequence \in Nat /\ sequence' \in Nat /\ sequence <= sequence'
      /\ failed => failed'
      /\ (closed => closed') /\ (stopping => stopping')
      /\ \A d \in Clients : goal[d] \in Nat
  <2>1. sequence \in Nat /\ \A d \in Clients : goal[d] \in Records \cup {0}
    BY RecordsAreNumbers DEF TypeInv, TypeOK
  <2>. QED BY <2>1, CallersOnlyAccept, RecordsAreNumbers, Zenon
<1>2. \A d \in Clients :
        pc'[d] \in {"closing", "joining"} => closed' /\ goal'[d] <= sequence'
  <2>1. CASE Close(c)
    <3>1. /\ closed'
          /\ \A d \in Clients : d # c => pc'[d] = pc[d] /\ goal'[d] = goal[d]
          /\ goal'[c] = sequence'
      BY <2>1 DEF Close, TypeInv, TypeOK
    <3>. QED BY <1>0, <3>1 DEF CloseInv
  <2>2. CASE ~Close(c)
    <3>1. \A d \in Clients :
            pc'[d] \in {"closing", "joining"} =>
              goal'[d] = goal[d] /\ pc[d] \in {"closing", "joining"}
      <4>1. CASE Flush(c)
        BY <4>1 DEF Flush, AwaitAck, callers, TypeInv, TypeOK
      <4>2. CASE Open(c)
        <5>1. /\ goal' = goal
              /\ \/ pc' = [pc EXCEPT ![c] = "gone"]
                 \/ pc' = [d \in Clients |-> "idle"]
          BY <4>2, Zenon DEF Open
        <5>. QED BY <5>1 DEF TypeInv, TypeOK
      <4>3. CASE ~Flush(c) /\ ~Open(c)
        BY <1>1, <2>2, <4>3 DEF Record, WaitReturns, WaitTimesOut, StopWriter,
                                JoinReturns, JoinTimesOut, AwaitAck, TypeInv, TypeOK
      <4>. QED BY <4>1, <4>2, <4>3
    <3>2. ASSUME NEW d \in Clients, pc'[d] \in {"closing", "joining"}
          PROVE  closed' /\ goal'[d] <= sequence'
      <4>1. closed /\ goal[d] <= sequence /\ goal'[d] = goal[d]
        BY <3>1, <3>2, Zenon DEF CloseInv
      <4>2. closed'
        BY <1>0, <4>1, Zenon
      <4>3. goal'[d] <= sequence'
        BY <1>0, <4>1
      <4>. QED BY <4>2, <4>3
    <3>. QED BY <3>2
  <2>. QED BY <2>1, <2>2
<1>3. ~failed' /\ stopping' => closed'
  <2>1. CASE StopWriter(c)
    BY <1>0, <2>1 DEF StopWriter, CloseInv
  <2>2. CASE Open(c)
    <3>1. failed' \/ stopping' = stopping
      BY <2>2, Zenon DEF Open
    <3>. QED BY <1>0, <3>1, Zenon DEF CloseInv
  <2>3. CASE ~StopWriter(c) /\ ~Open(c)
    <3>1. stopping' = stopping
      BY <1>1, <2>3, Zenon DEF Record, Flush, WaitReturns, WaitTimesOut, Close,
                               JoinReturns, JoinTimesOut
    <3>. QED BY <1>0, <3>1, Zenon DEF CloseInv
  <2>. QED BY <2>1, <2>2, <2>3
<1>4. wpc' = "ended" /\ ~crashed' => queue' = <<>> /\ stopping'
  <2>. SUFFICES ASSUME wpc = "ended", ~crashed PROVE queue' = <<>> /\ stopping'
    BY <1>0
  <2>1. queue = <<>> /\ stopping
    BY DEF CloseInv
  <2>2. failed \/ closed
    BY <2>1 DEF CloseInv
  <2>3. queue' = queue
    BY <1>1, <2>2, Zenon DEF Record, Flush, WaitReturns, WaitTimesOut, Open,
                             StopWriter, Close, JoinReturns, JoinTimesOut
  <2>. QED BY <1>0, <2>1, <2>3, Zenon
<1>5. ~failed' /\ ~crashed' /\ closed' =>
        /\ queue' # <<>> => queue'[Len(queue')].sync
        /\ queue' = <<>> /\ wpc' \in {"check", "write", "sync"} => item'.sync
        /\ queue' = <<>> /\ wpc' \in {"loop", "ack", "ended"} =>
             durable' = Len(file')
  <2>. SUFFICES ASSUME ~failed', ~crashed', closed'
                PROVE  /\ queue' # <<>> => queue'[Len(queue')].sync
                       /\ queue' = <<>> /\ wpc' \in {"check", "write", "sync"} =>
                            item'.sync
                       /\ queue' = <<>> /\ wpc' \in {"loop", "ack", "ended"} =>
                            durable' = Len(file')
    OBVIOUS
  <2>1. ASSUME NEW e \in Item, Admitted(e)
        PROVE  queue' # <<>> /\ queue'[Len(queue')].sync
    BY <2>1 DEF Admitted, TypeInv, TypeOK
  <2>2. CASE UNCHANGED <<queue, sequence>>
    <3>1. closed' = closed
      <4>1. CASE Close(c) /\ ~closed
        <5>1. queue' = Append(queue, Entry(sequence + 1, FALSE, TRUE, Nobody))
          BY <1>0, <4>1, Zenon DEF Close, Enqueue
        <5>2. queue' # queue
          <6>1. \A q \in Seq(Item) : \A e : Append(q, e) # q
            <7>1. \A q \in Seq(Item) : \A e :
                   Len(Append(q, e)) = Len(q) + 1 /\ Len(q) \in Nat
              OBVIOUS
            <7>. QED BY <7>1
          <6>. QED BY <5>1, <6>1 DEF TypeInv, TypeOK
        <5>. QED BY <2>2, <5>2
      <4>2. CASE closed
        BY <1>0, <4>2
      <4>3. CASE ~Close(c)
        BY <1>1, <4>3, Zenon DEF Record, Flush, WaitReturns, WaitTimesOut, Open,
                                 StopWriter, JoinReturns, JoinTimesOut
      <4>. QED BY <4>1, <4>2, <4>3
    <3>. QED BY <1>0, <2>2, <3>1 DEF CloseInv
  <2>. QED BY <2>1, <2>2, CallersQueue
<1>. QED BY <1>2, <1>3, <1>4, <1>5 DEF CloseInv

LEMMA NextClose ==
    ASSUME TypeInv, FileInv, QueueInv, CloseInv, [Next]_vars PROVE CloseInv'
<1>1. CASE CallerStep
  BY <1>1, CallersClose
<1>2. CASE Take
  <2>1. /\ wpc = "loop" /\ wpc' = "check" /\ queue # <<>>
        /\ item' = Head(queue) /\ queue' = Tail(queue)
        /\ UNCHANGED <<pc, goal, sequence, failed, closed, stopping, crashed>>
    BY <1>2 DEF Take, callers, disk
  <2>2. /\ queue' = <<>> => Len(queue) = 1 /\ item' = queue[1]
        /\ queue' # <<>> => queue'[Len(queue')] = queue[Len(queue)]
    <3>1. ASSUME NEW q \in Seq(Item), q # <<>>
          PROVE  /\ Head(q) = q[1]
                 /\ Tail(q) = <<>> => Len(q) = 1
                 /\ Tail(q) # <<>> => Tail(q)[Len(Tail(q))] = q[Len(q)]
      <4>1. /\ Len(q) \in Nat \ {0} /\ Len(Tail(q)) = Len(q) - 1
            /\ Head(q) = q[1] /\ Tail(q) \in Seq(Item)
            /\ \A i \in 1..(Len(q) - 1) : Tail(q)[i] = q[i + 1]
        BY <3>1
      <4>2. Tail(q) = <<>> => Len(Tail(q)) = 0
        <5>1. Len(<<>>) = 0
          OBVIOUS
        <5>. QED BY <5>1, Zenon
      <4>3. Tail(q) # <<>> => Len(Tail(q)) # 0
        BY <4>1
      <4>. QED BY <4>1, <4>2, <4>3
    <3>. QED BY <2>1, <3>1 DEF TypeInv, TypeOK
  <2>3. ~failed /\ ~crashed /\ closed => queue[Len(queue)].sync
    BY <2>1 DEF CloseInv
  <2>4. ~failed' /\ ~crashed' /\ closed' =>
          /\ queue' # <<>> => queue'[Len(queue')].sync
          /\ queue' = <<>> => item'.sync
    BY <2>1, <2>2, <2>3
  <2>. QED BY <2>1, <2>4 DEF CloseInv
<1>3. CASE Check
  BY <1>3 DEF Check, callers, disk, CloseInv
<1>4. CASE Write
  <2>1. /\ UNCHANGED <<pc, goal, sequence, closed, stopping, crashed, item, queue>>
        /\ wpc = "write" /\ wpc' \in {"sync", "ack"}
    <3>1. wpc' = (IF item.sync THEN "sync" ELSE "ack") \/ wpc' = "ack"
      BY <1>4, Zenon DEF Write
    <3>. QED BY <1>4, <3>1 DEF Write, callers
  <2>2. ~failed' => /\ ~failed
                    /\ wpc' = IF item.sync THEN "sync" ELSE "ack"
    BY <1>4, Zenon DEF Write
  <2>. QED BY <2>1, <2>2 DEF CloseInv
<1>5. CASE Sync
  <2>1. /\ UNCHANGED <<pc, goal, sequence, closed, stopping, crashed, item, queue,
                       file>>
        /\ wpc = "sync" /\ wpc' = "ack"
    BY <1>5 DEF Sync, callers
  <2>2. ~failed' => ~failed /\ durable' = Len(file)
    BY <1>5, Zenon DEF Sync
  <2>. QED BY <2>1, <2>2 DEF CloseInv
<1>6. CASE Ack
  <2>1. /\ UNCHANGED <<pc, goal, sequence, failed, closed, stopping, crashed, queue,
                       file, durable>>
        /\ wpc = "ack" /\ wpc' = "loop"
    BY <1>6 DEF Ack, disk
  <2>. QED BY <2>1 DEF CloseInv
<1>7. CASE End
  <2>1. /\ UNCHANGED <<pc, goal, sequence, closed, stopping, crashed, queue, durable>>
        /\ wpc = "loop" /\ wpc' = "ended" /\ queue = <<>> /\ stopping
    BY <1>7 DEF End, callers
  <2>2. ~failed' => ~failed /\ file' = file
    <3>1. ~failed' => /\ ~failed
                      /\ file' = IF leftover = 0 THEN file
                                                 ELSE Append(file, leftover)
      BY <1>7, Zenon DEF End
    <3>. QED BY <3>1 DEF FileInv
  <2>. QED BY <2>1, <2>2 DEF CloseInv
<1>8. CASE Crash
  BY <1>8 DEF Crash, CloseInv
<1>9. CASE UNCHANGED vars
  BY <1>9 DEF vars, CloseInv
<1>. QED BY <1>1, <1>2, <1>3, <1>4, <1>5, <1>6, <1>7, <1>8, <1>9, NextCases,
            Zenon DEF WriterStep

-----------------------------------------------------------------------------
(* The answers.                                                            *)

\* What a successful call vouches for has been fsynced.
LEMMA AnswersAreDurable ==
    ASSUME IInv, CallerStep
    PROVE  \/ acknowledged' = acknowledged
           \/ /\ ~failed /\ ~failed'
              /\ acknowledged < acknowledged' /\ acknowledged' <= durable
<1>0. /\ acknowledged \in Nat /\ durable \in Nat /\ sequence \in Nat
      /\ Len(file) \in Nat /\ \A c \in Clients : goal[c] \in Nat
  <2>1. /\ acknowledged \in Records \cup {0} /\ durable \in Records \cup {0}
        /\ sequence \in Records /\ \A c \in Clients : goal[c] \in Records \cup {0}
        /\ file \in Seq(Records)
    BY DEF IInv, TypeInv, TypeOK
  <2>2. Len(file) \in Nat
    BY <2>1
  <2>. QED BY <2>1, <2>2, RecordsAreNumbers, Zenon
<1>1. PICK c \in Clients :
         \/ \E critical, wait \in BOOLEAN : Record(c, critical, wait)
         \/ Flush(c) \/ WaitReturns(c) \/ WaitTimesOut(c) \/ Open(c)
         \/ Close(c) \/ StopWriter(c) \/ JoinReturns(c) \/ JoinTimesOut(c)
  BY DEF CallerStep
<1>2. ~crashed
  <2>1. pc[c] # "gone"
    BY <1>1 DEF Record, Flush, WaitReturns, WaitTimesOut, Open, Close, StopWriter,
                JoinReturns, JoinTimesOut
  <2>. QED BY <2>1 DEF IInv, OpenInv
<1>3. ASSUME NEW n \in Nat, Answer(n), ~failed => n <= durable, failed' = failed
      PROVE  \/ acknowledged' = acknowledged
             \/ /\ ~failed /\ ~failed'
                /\ acknowledged < acknowledged' /\ acknowledged' <= durable
  BY <1>0, <1>3 DEF Answer
<1>4. CASE WaitReturns(c)
  <2>1. Answer(goal[c]) /\ Waits(c) /\ acked[c] /\ failed' = failed
    BY <1>4 DEF WaitReturns, Waits
  <2>2. ~failed => goal[c] <= durable
    BY <1>2, <2>1 DEF IInv, WaitInv
  <2>. QED BY <1>0, <1>3, <2>1, <2>2
<1>5. CASE Open(c)
  <2>1. CASE failed'
    BY <1>5, <2>1, Zenon DEF Open
  <2>2. CASE ~failed'
    <3>1. Answer(goal[c]) /\ Waits(c)
      BY <1>5, <2>2 DEF Open, Waits
    <3>2. acked[c] /\ failed' = failed
      BY <1>5, <2>2 DEF Open
    <3>3. ~failed => goal[c] <= durable
      BY <1>2, <3>1, <3>2 DEF IInv, WaitInv
    <3>. QED BY <1>0, <1>3, <3>1, <3>2, <3>3
  <2>. QED BY <2>1, <2>2
<1>6. CASE JoinReturns(c)
  <2>1. Answer(goal[c]) /\ wpc = "ended" /\ pc[c] = "joining" /\ failed' = failed
    BY <1>6 DEF JoinReturns
  <2>2. ASSUME ~failed PROVE goal[c] <= durable
    <3>1. closed /\ goal[c] <= sequence /\ queue = <<>>
      BY <1>2, <2>1 DEF IInv, CloseInv
    <3>2. durable = Len(file)
      BY <1>2, <2>1, <2>2, <3>1 DEF IInv, CloseInv
    <3>3. sequence = Len(file)
      BY <1>2, <2>1, <2>2, <3>1 DEF IInv, QueueInv, Follows, Base
    <3>. QED BY <3>1, <3>2, <3>3
  <2>. QED BY <1>0, <1>3, <2>1, <2>2
<1>7. CASE ~WaitReturns(c) /\ ~Open(c) /\ ~JoinReturns(c)
  BY <1>1, <1>7, Zenon DEF Record, Flush, WaitTimesOut, Close, StopWriter,
                           JoinTimesOut, answers
<1>. QED BY <1>4, <1>5, <1>6, <1>7

\* The writer and a crash answer nobody, and fsync no more than was accepted.
LEMMA OthersAnswerNobody ==
    ASSUME IInv, WriterStep \/ Crash
    PROVE  /\ acknowledged' = acknowledged /\ sequence' = sequence
           /\ \/ durable' = durable
              \/ /\ durable < durable' /\ durable' <= sequence
                 /\ failed' = failed
<1>1. acknowledged' = acknowledged /\ sequence' = sequence
  BY Zenon DEF WriterStep, Take, Check, Write, Sync, Ack, End, Crash, answers
<1>2. CASE Sync
  <2>1. \/ durable' = Len(file) /\ failed' = failed
        \/ durable' = durable
    BY <1>2, Zenon DEF Sync
  <2>2. durable <= Len(file) /\ Len(file) <= sequence
    BY DEF IInv, FileInv
  <2>3. durable \in Nat /\ sequence \in Nat /\ Len(file) \in Nat
    <3>1. durable \in Records \cup {0} /\ sequence \in Records /\ file \in Seq(Records)
      BY DEF IInv, TypeInv, TypeOK
    <3>2. Len(file) \in Nat
      BY <3>1
    <3>. QED BY <3>1, <3>2, RecordsAreNumbers, Zenon
  <2>4. CASE durable' = durable
    BY <1>1, <2>4
  <2>5. CASE durable' = Len(file) /\ failed' = failed /\ durable' # durable
    <3>1. durable < durable' /\ durable' <= sequence
      BY <2>2, <2>3, <2>5
    <3>. QED BY <1>1, <2>5, <3>1, Zenon
  <2>. QED BY <2>1, <2>4, <2>5
<1>3. CASE ~Sync
  BY <1>1, <1>3, Zenon DEF WriterStep, Take, Check, Write, Ack, End, Crash, disk
<1>. QED BY <1>2, <1>3

-----------------------------------------------------------------------------
(* The theorems.                                                           *)

LEMMA InitInv == Init => IInv
  BY InitTyped, InitFile, InitQueue, InitWait, InitClose DEF IInv

LEMMA NextInv == IInv /\ [Next]_vars => IInv'
<1>. SUFFICES ASSUME IInv, [Next]_vars PROVE IInv'
  OBVIOUS
<1>1. TypeInv' /\ FileInv' /\ QueueInv' /\ WaitInv' /\ CloseInv' /\ OpenInv'
  BY NextTyped, NextFile, NextQueue, NextWait, NextClose, NextOpen DEF IInv
<1>2. acknowledged' <= durable'
  <2>0. acknowledged \in Nat /\ durable \in Nat
    <3>1. acknowledged \in Records \cup {0} /\ durable \in Records \cup {0}
      BY DEF IInv, TypeInv, TypeOK
    <3>. QED BY <3>1, RecordsAreNumbers, Zenon
  <2>1. CASE CallerStep
    <3>1. durable' = durable
      BY <2>1, CallersOnlyAccept DEF IInv
    <3>. QED BY <2>1, <3>1, AnswersAreDurable DEF IInv
  <2>2. CASE WriterStep \/ Crash
    <3>1. durable' \in Nat
      <4>1. durable' \in Records \cup {0}
        BY <1>1 DEF TypeInv, TypeOK
      <4>. QED BY <4>1, RecordsAreNumbers, Zenon
    <3>2. acknowledged' = acknowledged /\ (durable' = durable \/ durable < durable')
      BY <2>2, OthersAnswerNobody
    <3>3. acknowledged <= durable
      BY DEF IInv
    <3>. QED BY <2>0, <3>1, <3>2, <3>3
  <2>3. CASE UNCHANGED vars
    BY <2>3 DEF vars, IInv
  <2>. QED BY <2>1, <2>2, <2>3, NextCases
<1>. QED BY <1>1, <1>2 DEF IInv

THEOREM Invariance == Spec => []IInv
  BY InitInv, NextInv, PTL DEF Spec

\* The type invariant.
THEOREM LogTyped == Spec => []TypeOK
<1>1. IInv => TypeOK
  BY DEF IInv, TypeInv
<1>. QED BY <1>1, Invariance, PTL

\* Every session's file can be read back, at any time and after any crash.
THEOREM AlwaysReadable == Spec => []LogReadable
<1>1. IInv => LogReadable
  BY DEF IInv, FileInv, LogReadable
<1>. QED BY <1>1, Invariance, PTL

\* What a successful call vouched for is in the file, also after a crash.
THEOREM AcknowledgedSurvives == Spec => []AckedSurvives
<1>1. ASSUME IInv PROVE AckedSurvives
  <2>1. acknowledged \in Records \cup {0} /\ durable \in Records \cup {0}
        /\ file \in Seq(Records)
    BY <1>1 DEF IInv, TypeInv, TypeOK
  <2>2. Len(file) \in Nat
    BY <2>1
  <2>3. acknowledged \in Nat /\ durable \in Nat
    BY <2>1, RecordsAreNumbers, Zenon
  <2>4. acknowledged <= durable /\ durable <= Len(file)
    BY <1>1 DEF IInv, FileInv
  <2>. QED BY <2>2, <2>3, <2>4 DEF AckedSurvives
<1>. QED BY <1>1, Invariance, PTL

LEMMA InitTrail == Init => Trail!Init
  BY DEF Init, Trail!Init

LEMMA NextTrail == IInv /\ [Next]_vars => [Trail!Next]_Trail!vars
<1>. SUFFICES ASSUME IInv, [Next]_vars
              PROVE  [Trail!Next]_<<sequence, durable, acknowledged, ~failed>>
  BY DEF Trail!vars
<1>0. failed \in BOOLEAN /\ failed' \in BOOLEAN
  <2>1. TypeInv /\ TypeInv'
    BY NextTyped DEF IInv
  <2>. QED BY <2>1 DEF TypeInv, TypeOK
<1>1. CASE CallerStep
  <2>0. durable' = durable /\ (failed => failed')
    BY <1>1, CallersOnlyAccept DEF IInv
  <2>1. CASE acknowledged' # acknowledged
    <3>1. /\ ~failed /\ ~failed'
          /\ acknowledged < acknowledged' /\ acknowledged' <= durable
      BY <1>1, <2>1, AnswersAreDurable
    <3>2. sequence' = sequence
      <4>. SUFFICES ASSUME sequence' # sequence PROVE FALSE
        OBVIOUS
      <4>1. \E c \in Clients : \/ \E critical, wait \in BOOLEAN :
                                      Record(c, critical, wait)
                               \/ Close(c)
        BY <1>1, Zenon DEF CallerStep, Flush, WaitReturns, WaitTimesOut, Open,
                           StopWriter, JoinReturns, JoinTimesOut
      <4>. QED BY <2>1, <4>1, Zenon DEF Record, Close, answers
    <3>3. acknowledged' \in (acknowledged + 1)..durable
      <4>1. acknowledged \in Nat /\ durable \in Nat /\ acknowledged' \in Nat
        <5>1. /\ acknowledged \in Records \cup {0} /\ durable \in Records \cup {0}
              /\ acknowledged' \in Records \cup {0}
          BY NextTyped DEF IInv, TypeInv, TypeOK
        <5>. QED BY <5>1, RecordsAreNumbers, Zenon
      <4>. QED BY <3>1, <4>1
    <3>4. Trail!Acknowledge
      BY <1>0, <2>0, <3>1, <3>2, <3>3 DEF Trail!Acknowledge
    <3>. QED BY <3>4 DEF Trail!Next
  <2>2. CASE acknowledged' = acknowledged /\ sequence' # sequence
    <3>1. \E c \in Clients : \/ \E critical, wait \in BOOLEAN :
                                    Record(c, critical, wait)
                             \/ Close(c)
      BY <1>1, <2>2, Zenon DEF CallerStep, Flush, WaitReturns, WaitTimesOut, Open,
                               StopWriter, JoinReturns, JoinTimesOut
    <3>2. ~failed /\ sequence' = sequence + 1 /\ ~Full
      BY <2>2, <3>1, Zenon DEF Record, Close
    <3>3. failed' = failed
      BY <2>2, <3>1, <3>2, Zenon DEF Record, Close, Enqueue
    <3>4. Trail!Accept
      BY <1>0, <2>0, <2>2, <3>2, <3>3 DEF Trail!Accept
    <3>. QED BY <3>4 DEF Trail!Next
  <2>3. CASE acknowledged' = acknowledged /\ sequence' = sequence
    <3>1. CASE failed' = failed
      BY <2>0, <2>3, <3>1
    <3>2. CASE failed' # failed
      <4>1. Trail!Fail
        BY <1>0, <2>0, <2>3, <3>2 DEF Trail!Fail
      <4>. QED BY <4>1 DEF Trail!Next
    <3>. QED BY <3>1, <3>2
  <2>. QED BY <2>1, <2>2, <2>3
<1>2. CASE WriterStep \/ Crash
  <2>1. /\ acknowledged' = acknowledged /\ sequence' = sequence
        /\ \/ durable' = durable
           \/ /\ durable < durable' /\ durable' <= sequence
              /\ failed' = failed
    BY <1>2, OthersAnswerNobody
  <2>2. failed => failed'
    BY <1>2, Zenon DEF WriterStep, Take, Check, Write, Sync, Ack, End, Crash
  <2>3. CASE durable' = durable
    <3>1. CASE failed' = failed
      BY <2>1, <2>3, <3>1
    <3>2. CASE failed' # failed
      <4>1. Trail!Fail
        BY <1>0, <2>1, <2>2, <2>3, <3>2 DEF Trail!Fail
      <4>. QED BY <4>1 DEF Trail!Next
    <3>. QED BY <3>1, <3>2
  <2>4. CASE durable < durable' /\ durable' <= sequence /\ failed' = failed
    <3>1. durable' \in (durable + 1)..sequence
      <4>1. durable \in Nat /\ sequence \in Nat /\ durable' \in Nat
        <5>1. /\ durable \in Records \cup {0} /\ sequence \in Records
              /\ durable' \in Records \cup {0}
          BY NextTyped DEF IInv, TypeInv, TypeOK
        <5>. QED BY <5>1, RecordsAreNumbers, Zenon
      <4>. QED BY <2>4, <4>1
    <3>2. Trail!Persist
      BY <2>1, <2>4, <3>1 DEF Trail!Persist
    <3>. QED BY <3>2 DEF Trail!Next
  <2>. QED BY <2>1, <2>3, <2>4
<1>3. CASE UNCHANGED vars
  BY <1>3 DEF vars
<1>. QED BY <1>1, <1>2, <1>3, NextCases

\* The log implements what it promises: numbers in order of acceptance, written
\* in that order, and no answer before, or after a failure instead of, the fsync.
THEOREM ImplementsTrail == Spec => TrailSpec
  BY Invariance, InitTrail, NextTrail, PTL DEF Spec, TrailSpec, Trail!Spec
=============================================================================
