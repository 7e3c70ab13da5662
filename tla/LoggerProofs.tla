----------------------------- MODULE LoggerProofs -----------------------------
(***************************************************************************)
(* Theorems about Logger, for any producers, limits and commands.  The     *)
(* inductive invariant IInv adds to the type invariant what the place of   *)
(* the logger thread says of the record in its hands and of the stop that  *)
(* was asked for, and the two gauges of the queue; FIFOInv adds the order  *)
(* of the records and LossInv what came too late, and both need IInv.      *)
(***************************************************************************)
EXTENDS Logger, SequenceTheorems, FiniteSetTheorems, TLAPS

\* A record is in the logger's hands where it writes one; a thread with no handle
\* has ended; only mas_logger_stop cancels it.
LoggerInv ==
  /\ held # NoRecord <=> lpc \in {"write", "cwrite"}
  /\ handle \/ lpc = "ended"
  /\ lcancel => stopping
  /\ lpc \in {"cancelled", "cflush", "cwrite", "clean"} => stopping

IInv == TypeOK /\ LoggerInv /\ QueueGauge /\ MemCounts
------------------------------------------------------------------------------
LEMMA InitIInv == Init => IInv
<1>. SUFFICES ASSUME Init PROVE IInv
  OBVIOUS
<1>. USE DEF Init
<1>1. /\ offmem \in BOOLEAN /\ disabled \in BOOLEAN /\ mutex \in BOOLEAN
      /\ woken \in BOOLEAN /\ lcancel \in BOOLEAN /\ handle \in BOOLEAN /\ stopping \in BOOLEAN
      /\ file \in BOOLEAN
  BY Zenon
<1>2. TypeOK
  BY <1>1 DEF TypeOK, LoggerAt
<1>3. LoggerInv /\ QueueGauge /\ MemCounts
  BY DEF LoggerInv, QueueGauge, MemCounts
<1>. QED
  BY <1>2, <1>3 DEF IInv

LEMMA TypeStep == IInv /\ [Next]_vars => TypeOK'
<1>. SUFFICES ASSUME TypeOK, LoggerInv, [Next]_vars PROVE TypeOK'
  BY DEF IInv
<1>. USE DEF TypeOK, LoggerAt, queueVars, producerVars, threadVars, stopVars, recordVars
<1>1. ASSUME NEW p \in Producers, Limit(p) PROVE TypeOK'
  <2>1. offmem' \in BOOLEAN
    BY <1>1, Zenon DEF Limit
  <2>2. note' \in [Producers -> {"none", "off", "on"}]
    BY <1>1 DEF Limit
  <2>3. /\ ppc' = [ppc EXCEPT ![p] = "test"]
        /\ UNCHANGED <<queueVars, disabled, made, threadVars, stopVars, recordVars>>
    BY <1>1, Zenon DEF Limit
  <2>. QED
    BY <2>1, <2>2, <2>3
<1>2. ASSUME NEW p \in Producers, Accepted(p) PROVE TypeOK'
  BY <1>2 DEF Accepted
<1>3. ASSUME NEW p \in Producers, Refused(p) PROVE TypeOK'
  BY <1>3 DEF Refused, Done
<1>4. ASSUME NEW p \in Producers, Add(p) PROVE TypeOK'
  <2>1. [by |-> p, no |-> made[p]] \in Records
    BY DEF Records
  <2>2. queue' \in Seq(Records)
    BY <1>4, <2>1, AppendProperties DEF Add
  <2>. QED
    BY <1>4, <2>2 DEF Add
<1>5. ASSUME NEW p \in Producers, Wake(p) PROVE TypeOK'
  <2>1. woken' \in BOOLEAN
    BY <1>5, Zenon DEF Wake
  <2>. QED
    BY <1>5, <2>1 DEF Wake, Done
<1>6. CASE Lock
  <2>1. mutex' \in BOOLEAN
    BY <1>6, Zenon DEF Lock
  <2>. QED
    BY <1>6, <2>1 DEF Lock
<1>7. CASE Take
  <2>1. held' \in Records /\ queue' \in Seq(Records)
    BY <1>7, HeadTailProperties DEF Take
  <2>. QED
    BY <1>7, <2>1 DEF Take
<1>8. CASE Write
  <2>1. held \in Records
    BY <1>8 DEF Write, LoggerInv
  <2>2. written' = Append(written, held) \/ written' = written
    BY <1>8, Zenon DEF Write
  <2>3. written \in Seq(Records) /\ Append(written, held) \in Seq(Records)
    BY <2>1, AppendProperties
  <2>4. written' \in Seq(Records)
    BY <2>2, <2>3, Zenon
  <2>5. file' \in BOOLEAN
    BY <1>8, Zenon DEF Write
  <2>. QED
    BY <1>8, <2>4, <2>5 DEF Write
<1>9. CASE FlushEnd
  BY <1>9 DEF FlushEnd
<1>10. CASE Sleep
  <2>1. mutex' \in BOOLEAN /\ woken' \in BOOLEAN
    BY <1>10, Zenon DEF Sleep
  <2>. QED
    BY <1>10, <2>1 DEF Sleep
<1>11. CASE CancelWait
  <2>1. mutex' \in BOOLEAN
    BY <1>11, Zenon DEF CancelWait
  <2>. QED
    BY <1>11, <2>1 DEF CancelWait
<1>12. CASE Disable
  <2>1. disabled' \in BOOLEAN
    BY <1>12, Zenon DEF Disable
  <2>. QED
    BY <1>12, <2>1 DEF Disable
<1>13. CASE FlushedOut
  BY <1>13 DEF FlushedOut
<1>14. CASE CleanQueue
  <2>1. Head(queue) \in Records /\ queue' \in Seq(Records)
    BY <1>14, HeadTailProperties DEF CleanQueue
  <2>2. dropped' \in Seq(Records)
    BY <1>14, <2>1, AppendProperties DEF CleanQueue
  <2>. QED
    BY <1>14, <2>1, <2>2 DEF CleanQueue
<1>15. CASE End
  <2>1. file' \in BOOLEAN
    BY <1>15, Zenon DEF End
  <2>. QED
    BY <1>15, <2>1 DEF End
<1>16. CASE WakeUp
  <2>1. mutex' \in BOOLEAN /\ woken' \in BOOLEAN
    BY <1>16, Zenon DEF WakeUp
  <2>. QED
    BY <1>16, <2>1 DEF WakeUp
<1>17. CASE CancelWrite
  <2>1. held \in Records
    BY <1>17 DEF CancelWrite, LoggerInv
  <2>2. lost' \in Seq(Records)
    BY <1>17, <2>1, AppendProperties DEF CancelWrite
  <2>3. file' \in BOOLEAN
    BY <1>17, Zenon DEF CancelWrite
  <2>. QED
    BY <1>17, <2>2, <2>3 DEF CancelWrite
<1>18. CASE MasterStop
  <2>1. lcancel' \in BOOLEAN /\ stopping' \in BOOLEAN
    BY <1>18, Zenon DEF MasterStop
  <2>. QED
    BY <1>18, <2>1 DEF MasterStop
<1>19. CASE MasterJoin
  <2>1. handle' \in BOOLEAN
    BY <1>19, Zenon DEF MasterJoin
  <2>. QED
    BY <1>19, <2>1 DEF MasterJoin
<1>20. ASSUME NEW word, CommandFlag(word) PROVE TypeOK'
  <2>1. disabled' \in BOOLEAN
    BY <1>20, Zenon DEF CommandFlag
  <2>. QED
    BY <1>20, <2>1 DEF CommandFlag
<1>21. CASE CommandStop
  <2>1. lcancel' \in BOOLEAN /\ stopping' \in BOOLEAN
    BY <1>21, Zenon DEF CommandStop
  <2>. QED
    BY <1>21, <2>1 DEF CommandStop
<1>22. CASE CommandJoin
  <2>1. handle' \in BOOLEAN
    BY <1>22, Zenon DEF CommandJoin
  <2>. QED
    BY <1>22, <2>1 DEF CommandJoin
<1>23. CASE CommandStart
  <2>1. handle' \in BOOLEAN /\ lcancel' \in BOOLEAN
    BY <1>23, Zenon DEF CommandStart
  <2>. QED
    BY <1>23, <2>1 DEF CommandStart
<1>24. CASE UNCHANGED vars
  BY <1>24 DEF vars
<1>. HIDE DEF TypeOK
<1>. QED
  BY <1>1, <1>2, <1>3, <1>4, <1>5, <1>6, <1>7, <1>8, <1>9, <1>10, <1>11, <1>12, <1>13, <1>14,
    <1>15, <1>16, <1>17, <1>18, <1>19, <1>20, <1>21, <1>22, <1>23, <1>24, Zenon
    DEF Next, ProducerStep, LoggerStep

\* The steps of the logger and of those who stop it keep LoggerInv; the others
\* leave what it is about alone.
LEMMA LoggerInvStep == IInv /\ [Next]_vars => LoggerInv'
<1>. SUFFICES ASSUME TypeOK, LoggerInv, [Next]_vars PROVE LoggerInv'
  BY DEF IInv
<1>. USE DEF LoggerInv, queueVars, producerVars, threadVars, stopVars, recordVars
<1>1. ASSUME NEW p \in Producers, Limit(p) \/ ProducerStep(p) PROVE LoggerInv'
  <2>1. UNCHANGED <<lpc, held, handle, lcancel, stopping>>
    BY <1>1, Zenon DEF Limit, ProducerStep, Accepted, Refused, Add, Wake
  <2>. QED
    BY <2>1
<1>2. CASE Take
  <2>1. held' # NoRecord
    BY <1>2, HeadTailProperties, NoRecordAssumption DEF Take, TypeOK
  <2>. QED
    BY <1>2, <2>1 DEF Take
<1>3. CASE Lock \/ FlushEnd \/ Sleep \/ WakeUp
  BY <1>3 DEF Lock, FlushEnd, Sleep, WakeUp
<1>4. CASE Write
  BY <1>4 DEF Write
<1>5. CASE CancelWait \/ CancelWrite
  BY <1>5 DEF CancelWait, CancelWrite
<1>6. CASE Disable \/ FlushedOut \/ CleanQueue \/ End
  BY <1>6 DEF Disable, FlushedOut, CleanQueue, End
<1>7. CASE MasterStop
  <2>1. UNCHANGED <<lpc, held, handle>> /\ (lcancel' => stopping') /\ (stopping => stopping')
    BY <1>7, Zenon DEF MasterStop
  <2>. QED
    BY <2>1
<1>8. CASE MasterJoin
  BY <1>8 DEF MasterJoin
<1>9. ASSUME NEW word, CommandFlag(word) PROVE LoggerInv'
  BY <1>9 DEF CommandFlag
<1>10. CASE CommandStop \/ CommandJoin \/ CommandStart
  BY <1>10 DEF CommandStop, CommandJoin, CommandStart
<1>11. CASE UNCHANGED vars
  BY <1>11 DEF vars
<1>. HIDE DEF LoggerInv
<1>. QED
  BY <1>1, <1>2, <1>3, <1>4, <1>5, <1>6, <1>7, <1>8, <1>9, <1>10, <1>11, Zenon
    DEF Next, LoggerStep

\* Add, Take and CleanQueue move the gauges with the queue; nothing else moves it.
LEMMA GaugesStep == IInv /\ [Next]_vars => QueueGauge' /\ MemCounts'
<1>. SUFFICES ASSUME TypeOK, QueueGauge, MemCounts, [Next]_vars PROVE QueueGauge' /\ MemCounts'
  BY DEF IInv
<1>. USE DEF QueueGauge, MemCounts
<1>1. ASSUME NEW p \in Producers, Add(p) PROVE QueueGauge' /\ MemCounts'
  <2>1. [by |-> p, no |-> made[p]] \in Records
    BY DEF TypeOK, Records
  <2>2. Len(queue') = Len(queue) + 1
    BY <1>1, <2>1, AppendProperties DEF Add, TypeOK
  <2>3. came' = came + 1 /\ mem' = mem + 1 /\ gone' = gone /\ dropped' = dropped
    BY <1>1 DEF Add
  <2>. QED
    BY <2>2, <2>3, LenProperties DEF TypeOK
<1>2. CASE Take
  <2>1. Len(queue') = Len(queue) - 1
    BY <1>2, HeadTailProperties DEF Take, TypeOK
  <2>. QED
    BY <1>2, <2>1, LenProperties DEF Take, TypeOK, recordVars
<1>3. CASE CleanQueue
  <2>1. Head(queue) \in Records /\ Len(queue') = Len(queue) - 1
    BY <1>3, HeadTailProperties DEF CleanQueue, TypeOK
  <2>2. Len(dropped') = Len(dropped) + 1
    BY <1>3, <2>1, AppendProperties DEF CleanQueue, TypeOK
  <2>3. came' = came /\ mem' = mem /\ gone' = gone + 1
    BY <1>3 DEF CleanQueue
  <2>. QED
    BY <2>1, <2>2, <2>3, LenProperties DEF TypeOK
<1>4. ASSUME UNCHANGED <<queueVars, dropped>> PROVE QueueGauge' /\ MemCounts'
  BY <1>4 DEF queueVars
<1>. HIDE DEF QueueGauge, MemCounts
<1>. USE DEF recordVars
<1>5. ASSUME NEW p \in Producers, Limit(p) \/ Accepted(p) \/ Refused(p) \/ Wake(p)
      PROVE QueueGauge' /\ MemCounts'
  BY <1>4, <1>5 DEF Limit, Accepted, Refused, Wake
<1>6. CASE Lock \/ FlushEnd \/ Sleep \/ WakeUp \/ Write \/ CancelWait \/ CancelWrite
  BY <1>4, <1>6 DEF Lock, FlushEnd, Sleep, WakeUp, Write, CancelWait, CancelWrite
<1>7. CASE Disable \/ FlushedOut \/ End
  BY <1>4, <1>7 DEF Disable, FlushedOut, End
<1>8. CASE MasterStop \/ MasterJoin \/ CommandStop \/ CommandJoin \/ CommandStart
  BY <1>4, <1>8 DEF MasterStop, MasterJoin, CommandStop, CommandJoin, CommandStart
<1>9. ASSUME NEW word, CommandFlag(word) PROVE QueueGauge' /\ MemCounts'
  BY <1>4, <1>9 DEF CommandFlag
<1>10. CASE UNCHANGED vars
  BY <1>4, <1>10 DEF vars
<1>. QED
  BY <1>1, <1>2, <1>3, <1>5, <1>6, <1>7, <1>8, <1>9, <1>10, Zenon
    DEF Next, ProducerStep, LoggerStep

LEMMA Inductive == IInv /\ [Next]_vars => IInv'
BY TypeStep, LoggerInvStep, GaugesStep DEF IInv

LEMMA Invariance == Spec => []IInv
BY InitIInv, Inductive, PTL DEF Spec
------------------------------------------------------------------------------
\* Every variable of Logger keeps its type.
THEOREM TypeCorrect == Spec => []TypeOK
<1>1. IInv => TypeOK
  BY DEF IInv
<1>. QED
  BY <1>1, Invariance, PTL

\* log_q_came - log_q_gone is the length of the queue, through the flush, the
\* cleanup of a cancelled thread and a restart.
THEOREM GaugeCorrect == Spec => []QueueGauge
<1>1. IInv => QueueGauge
  BY DEF IInv
<1>. QED
  BY <1>1, Invariance, PTL

\* log_q_mem counts what is queued and what mas_logger_clean_queue threw away, so
\* it never wraps.
THEOREM MemCorrect == Spec => []MemCounts
<1>1. IInv => MemCounts
  BY DEF IInv
<1>. QED
  BY <1>1, Invariance, PTL
------------------------------------------------------------------------------
(***************************************************************************)
(* Order.  A thread numbers its records, and they move from the queue to   *)
(* the logger's hands and from there to the file, each time from the head  *)
(* of one to the end of the other.  So what is in the file precedes what   *)
(* is in hand, and both precede the queue.                                 *)
(***************************************************************************)
Precedes(r, s) == r.by = s.by => r.no < s.no
Ordered(q)     == \A i, j \in 1..Len(q) : i < j => Precedes(q[i], q[j])

OrderInv ==
  /\ Ordered(queue) /\ Ordered(written)
  /\ \A i \in 1..Len(written), j \in 1..Len(queue) : Precedes(written[i], queue[j])
  /\ held # NoRecord => /\ \A i \in 1..Len(written) : Precedes(written[i], held)
                        /\ \A j \in 1..Len(queue) : Precedes(held, queue[j])

\* The number of the next record is above all that were given.
NumbersInv ==
  /\ \A j \in 1..Len(queue) : queue[j].no < made[queue[j].by]
  /\ \A i \in 1..Len(written) : written[i].no < made[written[i].by]
  /\ held # NoRecord => held.no < made[held.by]

FIFOInv == OrderInv /\ NumbersInv

\* What follows all of a sequence may be appended to it.
LEMMA AppendOrdered ==
  ASSUME NEW S, NEW q \in Seq(S), NEW r \in S, Ordered(q),
         \A i \in 1..Len(q) : Precedes(q[i], r)
  PROVE  Ordered(Append(q, r))
<1>1. Len(Append(q, r)) = Len(q) + 1 /\ Len(q) \in Nat
  BY AppendProperties, LenProperties
<1>2. /\ \A i \in 1..Len(q) : Append(q, r)[i] = q[i]
      /\ Append(q, r)[Len(q) + 1] = r
  BY AppendProperties
<1>. SUFFICES ASSUME NEW i \in 1..Len(q) + 1, NEW j \in 1..Len(q) + 1, i < j
              PROVE  Precedes(Append(q, r)[i], Append(q, r)[j])
  BY <1>1 DEF Ordered
<1>3. i \in 1..Len(q) /\ Append(q, r)[i] = q[i]
  BY <1>1, <1>2
<1>4. CASE j = Len(q) + 1
  BY <1>2, <1>3, <1>4
<1>5. CASE j # Len(q) + 1
  <2>1. j \in 1..Len(q)
    BY <1>1, <1>5
  <2>2. Append(q, r)[j] = q[j]
    BY <1>2, <2>1
  <2>. QED
    BY <1>3, <2>1, <2>2 DEF Ordered
<1>. QED
  BY <1>4, <1>5

\* The tail of an ordered sequence is ordered, and its head precedes it.
LEMMA TailOrdered ==
  ASSUME NEW S, NEW q \in Seq(S), q # <<>>, Ordered(q)
  PROVE  /\ Ordered(Tail(q))
         /\ \A j \in 1..Len(Tail(q)) : /\ Tail(q)[j] = q[j + 1] /\ j + 1 \in 1..Len(q)
                                       /\ Precedes(Head(q), Tail(q)[j])
         /\ Head(q) = q[1] /\ 1 \in 1..Len(q)
<1>1. /\ Len(Tail(q)) = Len(q) - 1 /\ Len(q) \in Nat \ {0}
      /\ \A j \in 1..Len(Tail(q)) : Tail(q)[j] = q[j + 1]
  BY HeadTailProperties, EmptySeq
<1>2. Head(q) = q[1]
  OBVIOUS
<1>. QED
  BY <1>1, <1>2 DEF Ordered

LEMMA InitFIFO == Init => FIFOInv
BY DEF Init, FIFOInv, OrderInv, NumbersInv, Ordered

LEMMA FIFOStep == IInv /\ FIFOInv /\ [Next]_vars => FIFOInv'
<1>. SUFFICES ASSUME TypeOK, LoggerInv, FIFOInv, [Next]_vars PROVE FIFOInv'
  BY DEF IInv
<1>1. /\ queue \in Seq(Records) /\ written \in Seq(Records) /\ made \in [Producers -> Nat]
      /\ Len(queue) \in Nat /\ Len(written) \in Nat /\ NoRecord \notin Records
  BY LenProperties, NoRecordAssumption DEF TypeOK
<1>2. ASSUME NEW p \in Producers, Add(p) PROVE FIFOInv'
  <2>. DEFINE r == [by |-> p, no |-> made[p]]
  <2>1. r \in Records /\ r.by = p /\ r.no = made[p]
    BY <1>1 DEF Records
  <2>2. queue' = Append(queue, r) /\ made' = [made EXCEPT ![p] = @ + 1]
        /\ written' = written /\ held' = held
    BY <1>2 DEF Add, threadVars
  <2>3. \A s \in Records : s.no < made[s.by] => Precedes(s, r) /\ s.no < made'[s.by]
    BY <1>1, <2>1, <2>2 DEF Precedes, Records
  <2>4. /\ \A j \in 1..Len(queue) : queue[j] \in Records
        /\ \A i \in 1..Len(written) : written[i] \in Records
        /\ held # NoRecord => held \in Records
    BY <1>1, ElementOfSeq DEF TypeOK
  <2>5. /\ Len(queue') = Len(queue) + 1 /\ queue'[Len(queue) + 1] = r
        /\ \A j \in 1..Len(queue) : queue'[j] = queue[j]
    BY <1>1, <2>1, <2>2, AppendProperties
  <2>. HIDE DEF r
  <2>6. \A j \in 1..Len(queue) : Precedes(queue[j], r)
    BY <2>3, <2>4 DEF FIFOInv, NumbersInv
  <2>7. Ordered(queue')
    BY <1>1, <2>1, <2>2, <2>6, AppendOrdered DEF FIFOInv, OrderInv
  <2>8. \A j \in 1..Len(queue') : queue'[j] = r \/ (j \in 1..Len(queue) /\ queue'[j] = queue[j])
    BY <1>1, <2>5
  <2>9. OrderInv'
    BY <2>2, <2>3, <2>4, <2>7, <2>8 DEF FIFOInv, OrderInv, NumbersInv
  <2>10. r.no < made'[r.by]
    BY <1>1, <2>1, <2>2
  <2>11. NumbersInv'
    BY <2>2, <2>3, <2>4, <2>8, <2>10 DEF FIFOInv, NumbersInv
  <2>. QED
    BY <2>9, <2>11 DEF FIFOInv
<1>3. CASE Take
  <2>1. held = NoRecord /\ queue # <<>> /\ queue' = Tail(queue) /\ held' = Head(queue)
        /\ written' = written /\ made' = made
    BY <1>3 DEF Take, LoggerInv, recordVars, producerVars
  <2>2. Ordered(queue)
    BY DEF FIFOInv, OrderInv
  <2>. QED
    BY <1>1, <2>1, <2>2, TailOrdered DEF FIFOInv, OrderInv, NumbersInv
<1>4. CASE CleanQueue
  <2>1. queue # <<>> /\ queue' = Tail(queue)
        /\ held' = held /\ written' = written /\ made' = made
    BY <1>4 DEF CleanQueue, threadVars, producerVars
  <2>2. Ordered(queue)
    BY DEF FIFOInv, OrderInv
  <2>. QED
    BY <1>1, <2>1, <2>2, TailOrdered DEF FIFOInv, OrderInv, NumbersInv
<1>6. ASSUME UNCHANGED <<queue, written, made>>, held' = held \/ held' = NoRecord PROVE FIFOInv'
  BY <1>6 DEF FIFOInv, OrderInv, NumbersInv, Ordered
<1>5. CASE Write
  <2>1. /\ held \in Records /\ held # NoRecord /\ held' = NoRecord
        /\ queue' = queue /\ made' = made
        /\ written' = Append(written, held) \/ written' = written
    BY <1>5 DEF Write, LoggerInv, TypeOK, queueVars, producerVars
  <2>2. CASE written' = Append(written, held)
    <3>1. Ordered(written')
      BY <1>1, <2>1, <2>2, AppendOrdered DEF FIFOInv, OrderInv
    <3>2. \A i \in 1..Len(written') :
            written'[i] = held \/ (i \in 1..Len(written) /\ written'[i] = written[i])
      BY <1>1, <2>1, <2>2, AppendProperties
    <3>. QED
      BY <2>1, <3>1, <3>2 DEF FIFOInv, OrderInv, NumbersInv
  <2>3. CASE written' = written
    BY <1>6, <2>1, <2>3
  <2>. QED
    BY <2>1, <2>2, <2>3
<1>7. CASE CancelWrite
  BY <1>6, <1>7 DEF CancelWrite, queueVars, producerVars
<1>. HIDE DEF FIFOInv
<1>. USE DEF recordVars, queueVars, producerVars, threadVars
<1>8. ASSUME NEW p \in Producers, Limit(p) \/ Accepted(p) \/ Refused(p) \/ Wake(p) PROVE FIFOInv'
  BY <1>6, <1>8 DEF Limit, Accepted, Refused, Wake
<1>9. CASE Lock \/ FlushEnd \/ Sleep \/ WakeUp \/ CancelWait \/ Disable \/ FlushedOut \/ End
  BY <1>6, <1>9 DEF Lock, FlushEnd, Sleep, WakeUp, CancelWait, Disable, FlushedOut, End
<1>10. CASE MasterStop \/ MasterJoin \/ CommandStop \/ CommandJoin \/ CommandStart
  BY <1>6, <1>10 DEF MasterStop, MasterJoin, CommandStop, CommandJoin, CommandStart
<1>11. ASSUME NEW word, CommandFlag(word) PROVE FIFOInv'
  BY <1>6, <1>11 DEF CommandFlag
<1>12. CASE UNCHANGED vars
  BY <1>6, <1>12 DEF vars
<1>. QED
  BY <1>2, <1>3, <1>4, <1>5, <1>7, <1>8, <1>9, <1>10, <1>11, <1>12, Zenon
    DEF Next, ProducerStep, LoggerStep

\* The records of one thread stand in the file in the order it logged them.
THEOREM OrderCorrect == Spec => []OrderKept
<1>1. FIFOInv => OrderKept
  BY DEF FIFOInv, OrderInv, Ordered, Precedes, OrderKept
<1>. QED
  BY <1>1, Invariance, InitFIFO, FIFOStep, PTL DEF Spec
------------------------------------------------------------------------------
(***************************************************************************)
(* Logger implements LogPipe.  What LogPipe calls the pipe is the queue    *)
(* with the record in the logger's hands before it.                        *)
(***************************************************************************)
InPipe == IF held = NoRecord THEN queue ELSE <<held>> \o queue

\* A sequence with one element put before it.
LEMMA HeadBefore ==
  ASSUME NEW S, NEW h \in S, NEW q \in Seq(S)
  PROVE  /\ <<h>> \o q \in Seq(S) /\ <<h>> \o q # <<>>
         /\ Head(<<h>> \o q) = h /\ Tail(<<h>> \o q) = q
<1>1. /\ <<h>> \in Seq(S) /\ Len(<<h>>) = 1 /\ <<h>>[1] = h
      /\ Len(q) \in Nat
  BY LenProperties
<1>. DEFINE t == <<h>> \o q
<1>2. /\ t \in Seq(S) /\ Len(t) = 1 + Len(q) /\ t[1] = h
      /\ \A i \in 1..Len(q) : t[i + 1] = q[i]
  <2>1. /\ t \in Seq(S) /\ Len(t) = 1 + Len(q)
        /\ \A i \in 1..1 + Len(q) : t[i] = IF i <= 1 THEN <<h>>[i] ELSE q[i - 1]
    BY <1>1, ConcatProperties
  <2>. QED
    BY <1>1, <2>1
<1>. HIDE DEF t
<1>3. t # <<>>
  BY <1>1, <1>2, EmptySeq
<1>4. Head(t) = h
  BY <1>2
<1>5. /\ Tail(t) \in Seq(S) /\ Len(Tail(t)) = Len(q)
      /\ \A i \in 1..Len(q) : Tail(t)[i] = q[i]
  BY <1>1, <1>2, <1>3, HeadTailProperties
<1>6. Tail(t) = q
  BY <1>5, SeqEqual
<1>. QED
  BY <1>2, <1>3, <1>4, <1>6 DEF t

LEMMA HeadTail ==
  ASSUME NEW S, NEW q \in Seq(S), q # <<>>
  PROVE  <<Head(q)>> \o Tail(q) = q
<1>1. Len(q) \in Nat \ {0} /\ Head(q) = q[1]
  BY EmptySeq
<1>2. <<q[1]>> \o SubSeq(q, 2, Len(q)) = SubSeq(q, 1, Len(q))
  BY <1>1, SubSeqRecursiveFirst
<1>. QED
  BY <1>1, <1>2, TailIsSubSeq, SubSeqFull

LEMMA InitPipe == Init => Pipe!PInit
BY DEF Init, Pipe!PInit

LEMMA PipeStep == IInv /\ [Next]_vars => [Pipe!PNext]_<<InPipe, written, file, stopping>>
<1>. SUFFICES ASSUME TypeOK, LoggerInv, [Next]_vars
              PROVE  Pipe!PNext \/ UNCHANGED <<InPipe, written, file, stopping>>
  BY DEF IInv
<1>1. queue \in Seq(Records) /\ NoRecord \notin Records /\ (held # NoRecord => held \in Records)
  BY NoRecordAssumption DEF TypeOK
<1>2. ASSUME NEW p \in Producers, Add(p) PROVE Pipe!PPut
  <2>. DEFINE r == [by |-> p, no |-> made[p]]
  <2>1. r \in Records
    BY DEF Records, TypeOK
  <2>2. queue' = Append(queue, r) /\ UNCHANGED <<held, written, file, stopping>>
    BY <1>2 DEF Add, threadVars, stopVars
  <2>. HIDE DEF r
  <2>3. InPipe \in Seq(Records)
    BY <1>1, HeadBefore DEF InPipe
  <2>4. held # NoRecord => <<held>> \o Append(queue, r) = Append(<<held>> \o queue, r)
    <3>. SUFFICES ASSUME held # NoRecord
                  PROVE  <<held>> \o Append(queue, r) = Append(<<held>> \o queue, r)
      OBVIOUS
    <3>1. <<held>> \in Seq(Records) /\ <<r>> \in Seq(Records)
      BY <1>1, <2>1
    <3>2. /\ Append(queue, r) = queue \o <<r>>
          /\ Append(<<held>> \o queue, r) = (<<held>> \o queue) \o <<r>>
      BY <1>1, <2>1, HeadBefore, AppendIsConcat
    <3>. QED
      BY <1>1, <3>1, <3>2, ConcatAssociative
  <2>5. InPipe' = Append(InPipe, r)
    BY <2>2, <2>4 DEF InPipe
  <2>6. InPipe' # <<>> /\ InPipe'[Len(InPipe')] = r
    BY <2>1, <2>3, <2>5, AppendProperties
  <2>7. InPipe' = Append(InPipe, InPipe'[Len(InPipe')])
    BY <2>5, <2>6
  <2>. QED
    BY <2>2, <2>6, <2>7 DEF Pipe!PPut, InPipe
<1>3. CASE Take
  <2>1. /\ held = NoRecord /\ queue # <<>> /\ queue' = Tail(queue) /\ held' = Head(queue)
        /\ UNCHANGED <<written, file, stopping>>
    BY <1>3 DEF Take, LoggerInv, recordVars, stopVars
  <2>2. held' # NoRecord
    BY <1>1, <2>1, HeadTailProperties
  <2>3. InPipe' = InPipe
    BY <1>1, <2>1, <2>2, HeadTail DEF InPipe
  <2>. QED
    BY <2>1, <2>3
<1>4. CASE Write
  <2>1. /\ held # NoRecord /\ held' = NoRecord /\ queue' = queue /\ stopping' = stopping
        /\ \/ file' = TRUE /\ written' = Append(written, held)
           \/ "open" \in FileFaults /\ ~file /\ ~file' /\ written' = written
           \/ "write" \in FileFaults /\ file' /\ written' = written
    BY <1>4 DEF Write, LoggerInv, queueVars, stopVars
  <2>2. InPipe # <<>> /\ Head(InPipe) = held /\ InPipe' = Tail(InPipe)
    BY <1>1, <2>1, HeadBefore DEF InPipe
  <2>. QED
    BY <2>1, <2>2 DEF Pipe!PNext, Pipe!PWrite, Pipe!PFail, InPipe
<1>5. CASE CancelWrite
  <2>1. /\ held # NoRecord /\ held' = NoRecord /\ queue' = queue
        /\ stopping /\ file' \in {file, TRUE} /\ UNCHANGED <<written, stopping>>
    BY <1>5 DEF CancelWrite, LoggerInv, queueVars, stopVars
  <2>2. InPipe # <<>> /\ InPipe' = Tail(InPipe)
    BY <1>1, <2>1, HeadBefore DEF InPipe
  <2>. QED
    BY <2>1, <2>2 DEF Pipe!PNext, Pipe!PLose, InPipe
<1>6. CASE CleanQueue
  <2>1. /\ held = NoRecord /\ held' = held /\ queue # <<>> /\ queue' = Tail(queue)
        /\ stopping /\ UNCHANGED <<written, file, stopping>>
    BY <1>6 DEF CleanQueue, LoggerInv, threadVars, stopVars
  <2>. QED
    BY <2>1 DEF Pipe!PNext, Pipe!PLose, InPipe
<1>7. CASE MasterStop \/ CommandStop
  <2>1. UNCHANGED <<held, queue, written, file>>
    BY <1>7 DEF MasterStop, CommandStop, queueVars, recordVars
  <2>2. stopping' = TRUE \/ stopping' = stopping
    BY <1>7 DEF MasterStop, CommandStop, TypeOK
  <2>. QED
    BY <2>1, <2>2 DEF Pipe!PNext, Pipe!PStop, InPipe
<1>8. ASSUME UNCHANGED <<held, queue, written, file, stopping>>
      PROVE  UNCHANGED <<InPipe, written, file, stopping>>
  BY <1>8 DEF InPipe
<1>. USE DEF recordVars, queueVars, threadVars, stopVars
<1>9. ASSUME NEW p \in Producers, Limit(p) \/ Accepted(p) \/ Refused(p) \/ Wake(p)
      PROVE  UNCHANGED <<InPipe, written, file, stopping>>
  BY <1>8, <1>9 DEF Limit, Accepted, Refused, Wake
<1>10. CASE Lock \/ FlushEnd \/ Sleep \/ WakeUp \/ CancelWait \/ Disable \/ FlushedOut
  BY <1>8, <1>10 DEF Lock, FlushEnd, Sleep, WakeUp, CancelWait, Disable, FlushedOut
<1>11. CASE MasterJoin \/ CommandJoin \/ CommandStart
  <2>1. UNCHANGED <<held, queue, written, file, stopping>>
    BY <1>11 DEF MasterJoin, CommandJoin, CommandStart
  <2>. QED
    BY <1>8, <2>1
<1>12. ASSUME NEW word, CommandFlag(word) PROVE UNCHANGED <<InPipe, written, file, stopping>>
  BY <1>8, <1>12 DEF CommandFlag
<1>13. CASE UNCHANGED vars
  BY <1>8, <1>13 DEF vars
<1>14. CASE End
  <2>1. stopping /\ file' = FALSE /\ UNCHANGED <<held, queue, written, stopping>>
    BY <1>14 DEF End, LoggerInv
  <2>. QED
    BY <2>1 DEF Pipe!PNext, Pipe!PClose, InPipe
<1>. QED
  BY <1>2, <1>3, <1>4, <1>5, <1>6, <1>7, <1>9, <1>10, <1>11, <1>12, <1>13, <1>14, Zenon
    DEF Next, ProducerStep, LoggerStep, Pipe!PNext

\* Logger implements LogPipe: the file has the records in the queue's order, each at
\* most once, and before a stop misses only those that the file did not open for or
\* whose write failed; with no FileFaults it misses none.
THEOREM Refinement == Spec => ImplementsPipe
<1>1. IInv /\ [Next]_vars => [Pipe!PNext]_<<InPipe, written, file, stopping>>
  BY PipeStep
<1>. QED
  BY <1>1, InitPipe, Invariance, PTL DEF Spec, ImplementsPipe, Pipe!PSpec, InPipe
------------------------------------------------------------------------------
(***************************************************************************)
(* What a stop loses.  Once the cleanup has set log_disabled no thread     *)
(* enters mas_vlog any more, so after the last flush each may still queue  *)
(* the one record it had been let in with.                                 *)
(***************************************************************************)
Late == dropped \o queue

LateOnce ==
  /\ \A i, j \in 1..Len(Late) : Late[i].by = Late[j].by => i = j
  /\ \A p \in Producers : ppc[p] = "add" => \A i \in 1..Len(Late) : Late[i].by # p

LossInv ==
  /\ Len(lost) <= 1
  /\ lpc \in {"lock", "flush", "write", "sleep", "wait"} => lost = <<>>
  /\ lpc \in {"cflush", "cwrite", "clean", "ended"} => disabled
  /\ lpc \notin {"clean", "ended"} => dropped = <<>>
  /\ lpc \in {"clean", "ended"} => LateOnce

\* A record that moves from the head of a sequence to the end of the one before it.
LEMMA Moved ==
  ASSUME NEW S, NEW d \in Seq(S), NEW q \in Seq(S), q # <<>>
  PROVE  Append(d, Head(q)) \o Tail(q) = d \o q
<1>1. /\ Head(q) = q[1] /\ Head(q) \in S /\ Tail(q) \in Seq(S) /\ Len(Tail(q)) = Len(q) - 1
      /\ \A i \in 1..Len(q) - 1 : Tail(q)[i] = q[i + 1]
      /\ Len(q) \in Nat /\ Len(q) >= 1 /\ Len(d) \in Nat
  BY HeadTailProperties, EmptySeq, LenProperties
<1>2. PICK a \in Seq(S), t \in Seq(S) : a = Append(d, Head(q)) /\ t = Tail(q)
  BY <1>1, AppendProperties
<1>3. /\ Len(a) = Len(d) + 1 /\ a[Len(d) + 1] = q[1] /\ \A i \in 1..Len(d) : a[i] = d[i]
  BY <1>1, <1>2, AppendProperties
<1>4. /\ Len(t) = Len(q) - 1 /\ \A i \in 1..Len(q) - 1 : t[i] = q[i + 1]
  BY <1>1, <1>2, Zenon
<1>5. /\ a \o t \in Seq(S) /\ d \o q \in Seq(S)
      /\ Len(a \o t) = Len(a) + Len(t) /\ Len(d \o q) = Len(d) + Len(q)
  BY ConcatProperties
<1>6. Len(a \o t) = Len(d \o q) /\ Len(d \o q) = Len(d) + Len(q)
  BY <1>1, <1>3, <1>4, <1>5
<1>7. ASSUME NEW i \in 1..Len(d \o q) PROVE (a \o t)[i] = (d \o q)[i]
  <2>1. CASE i <= Len(d)
    BY <1>1, <1>3, <1>4, <1>6, <2>1
  <2>2. CASE i = Len(d) + 1
    BY <1>1, <1>3, <1>4, <1>6, <2>2
  <2>3. CASE i > Len(d) + 1
    <3>1. (a \o t)[i] = t[i - Len(a)]
      BY <1>1, <1>3, <1>4, <1>6, <2>3
    <3>2. (d \o q)[i] = q[i - Len(d)]
      BY <1>1, <1>6, <2>3
    <3>3. i - Len(a) \in 1..Len(q) - 1 /\ (i - Len(a)) + 1 = i - Len(d)
      BY <1>1, <1>3, <1>6, <2>3
    <3> QED BY <1>4, <3>1, <3>2, <3>3
  <2> QED BY <1>1, <1>6, <2>1, <2>2, <2>3
<1>8. a \o t = d \o q
  BY <1>5, <1>6, <1>7, SeqEqual
<1> QED BY <1>2, <1>8

LEMMA LossStep ==
  ASSUME Commands \cap {"on", "start"} = {}, IInv, LossInv, [Next]_vars
  PROVE  LossInv'
<1>0. TypeOK
  BY DEF IInv
<1>. USE DEF queueVars, producerVars, threadVars, stopVars, recordVars
\* A step that keeps the place of the logger and what came too late.
<1>1. ASSUME UNCHANGED <<queue, lpc, lost, dropped>>, disabled => disabled',
             \A p \in Producers : ppc'[p] = "add" => ppc[p] = "add" \/ ~disabled
      PROVE  LossInv'
  BY <1>1 DEF LossInv, LateOnce, Late
<1>2. ASSUME NEW p \in Producers, Add(p) PROVE LossInv'
  <2> DEFINE r == [by |-> p, no |-> made[p]]
  <2>1. r \in Records /\ r.by = p
    BY <1>0 DEF TypeOK, Records
  <2>2. /\ UNCHANGED <<lpc, lost, dropped, disabled>> /\ queue' = Append(queue, r)
        /\ ppc[p] = "add" /\ ppc'[p] = "wake" /\ \A b \in Producers \ {p} : ppc'[b] = ppc[b]
    BY <1>0, <1>2 DEF Add, TypeOK
  <2> HIDE DEF r
  <2>3. Late \in Seq(Records) /\ Late' = Append(Late, r)
    <3>1. PICK d \in Seq(Records), q \in Seq(Records) : d = dropped /\ q = queue
      BY <1>0 DEF TypeOK
    <3>2. d \o Append(q, r) = Append(d \o q, r)
      BY <2>1
    <3> QED BY <2>2, <3>1, <3>2 DEF Late
  <2>4. /\ Len(Late') = Len(Late) + 1 /\ Len(Late) \in Nat /\ Late'[Len(Late) + 1] = r
        /\ \A i \in 1..Len(Late) : Late'[i] = Late[i]
    BY <2>1, <2>3, AppendProperties, LenProperties
  <2>5. LateOnce => LateOnce'
    BY <2>1, <2>2, <2>4 DEF LateOnce
  <2> QED BY <2>2, <2>5 DEF LossInv
<1>3. CASE CleanQueue
  <2>1. /\ UNCHANGED <<lpc, lost, disabled, ppc>> /\ lpc = "clean" /\ queue # <<>>
        /\ queue' = Tail(queue) /\ dropped' = Append(dropped, Head(queue))
    BY <1>3 DEF CleanQueue
  <2>2. Late' = Late
    BY <1>0, <2>1, Moved DEF Late, TypeOK
  <2> QED BY <2>1, <2>2 DEF LossInv, LateOnce
<1>4. CASE FlushedOut
  <2>1. /\ UNCHANGED <<lost, disabled, dropped>> /\ lpc = "cflush" /\ lpc' = "clean"
        /\ queue' = <<>>
    BY <1>4 DEF FlushedOut
  <2>2. dropped' = <<>>
    BY <2>1 DEF LossInv
  <2>3. Late' = <<>> /\ Len(<<>>) = 0
    BY <2>1, <2>2 DEF Late
  <2>4. LateOnce'
    BY <2>3 DEF LateOnce
  <2> QED BY <2>1, <2>2, <2>4 DEF LossInv
<1>5. CASE CancelWrite
  <2>1. /\ UNCHANGED <<dropped, disabled>> /\ lpc = "write" /\ lpc' = "cancelled"
        /\ lost' = Append(lost, held)
    BY <1>5 DEF CancelWrite
  <2>2. lost = <<>>
    BY <2>1 DEF LossInv
  <2>3. Len(lost') = 1
    BY <2>1, <2>2
  <2> QED BY <2>1, <2>3 DEF LossInv
<1>6. CASE Take \/ Write \/ Lock \/ FlushEnd \/ Sleep \/ WakeUp \/ CancelWait
  <2>1. /\ UNCHANGED <<lost, dropped, disabled>> /\ lpc' \notin {"clean", "ended"}
        /\ lpc \notin {"clean", "ended"}
        /\ lpc' \in {"lock", "flush", "write", "sleep", "wait"}
              => lpc \in {"lock", "flush", "write", "sleep", "wait"}
        /\ lpc' \in {"cflush", "cwrite"} => lpc \in {"cflush", "cwrite"}
    BY <1>6 DEF Take, Write, Lock, FlushEnd, Sleep, WakeUp, CancelWait
  <2> QED BY <2>1 DEF LossInv
<1>7. CASE Disable
  BY <1>7 DEF Disable, LossInv
<1>8. CASE End
  <2>1. UNCHANGED <<queue, lost, dropped, disabled, ppc>> /\ lpc = "clean" /\ lpc' = "ended"
    BY <1>8 DEF End
  <2> QED BY <2>1 DEF LossInv, LateOnce, Late
<1>9. ASSUME NEW p \in Producers, Limit(p) \/ Accepted(p) \/ Refused(p) \/ Wake(p) PROVE LossInv'
  <2>1. UNCHANGED <<queue, lpc, lost, dropped, disabled>>
    BY <1>9 DEF Limit, Accepted, Refused, Wake
  <2>2. \A b \in Producers : ppc'[b] = "add" => ppc[b] = "add" \/ ~disabled
    BY <1>0, <1>9 DEF Limit, Accepted, Refused, Wake, Done, TypeOK
  <2> QED BY <1>1, <2>1, <2>2
<1>10. CASE MasterStop \/ MasterJoin \/ CommandStop \/ CommandJoin
  BY <1>1, <1>10 DEF MasterStop, MasterJoin, CommandStop, CommandJoin
<1>11. CASE CommandFlag("on") \/ CommandFlag("off") \/ CommandStart
  <2>1. CommandFlag("off")
    BY <1>11 DEF CommandFlag, CommandStart
  <2> QED BY <1>1, <2>1 DEF CommandFlag
<1>12. CASE UNCHANGED vars
  BY <1>1, <1>12 DEF vars
<1>. QED
  BY <1>2, <1>3, <1>4, <1>5, <1>6, <1>7, <1>8, <1>9, <1>10, <1>11, <1>12, Zenon
    DEF Next, ProducerStep, LoggerStep

\* A stop loses the record in the logger's hands and at most one of each thread,
\* if no client switches the log on or starts it again.
THEOREM LossCorrect ==
  ASSUME Commands \cap {"on", "start"} = {} PROVE Spec => []FewAreLost
<1>1. Init => LossInv
  <2>1. Len(<<>>) = 0
    OBVIOUS
  <2>. QED
    BY <2>1 DEF Init, LossInv
<1>2. IInv /\ LossInv /\ [Next]_vars => LossInv'
  BY LossStep
<1>3. IInv /\ LossInv => FewAreLost
  <2>. SUFFICES ASSUME LossInv, lpc \in {"clean", "ended"}, NEW p \in Producers
                PROVE  Cardinality({i \in 1..Len(Late) : Late[i].by = p}) <= 1
    BY DEF LossInv, FewAreLost, Late
  <2> DEFINE I == {i \in 1..Len(Late) : Late[i].by = p}
  <2>1. \A i, j \in I : i = j
    BY DEF LossInv, LateOnce
  <2>2. I = {} \/ \E i : I = {i}
    BY <2>1, Zenon
  <2>3. Cardinality(I) = 0 \/ Cardinality(I) = 1
    BY <2>2, FS_EmptySet, FS_Singleton
  <2>. QED
    BY <2>3
<1>. QED
  BY <1>1, <1>2, <1>3, Invariance, PTL DEF Spec
==============================================================================
