------------------------- MODULE SlotScannerProofs -------------------------
(***************************************************************************)
(* Proofs about SlotScanner, for any number of slots and workers, every    *)
(* size of the windows and channels, and every fault.                      *)
(*                                                                         *)
(* A slot that is marked processed has had its trades sent, whichever      *)
(* workers had the slot at the same time and wherever the service stopped  *)
(* (Honest).  No slot of a gap is left out on the way to the live channel  *)
(* (ReaderInv).                                                            *)
(***************************************************************************)
EXTENDS SlotScanner, SequenceTheorems, WellFoundedInduction, TLAPS

-----------------------------------------------------------------------------
(* Slots in order.                                                         *)

\* The maximum of a set of numbers that is bounded: without one there would be
\* no least distance from the bound.
LEMMA MaxIsMember ==
  ASSUME NEW n \in Nat, NEW S \in SUBSET (0..n), S # {}
  PROVE  Max(S) \in S /\ \A s \in S : s <= Max(S)
<1> DEFINE less == OpToRel(<, Nat)
           T == {i \in Nat : n - i \in S}
<1>1. \A i, j \in Nat : <<i, j>> \in less <=> i < j
  BY DEF OpToRel
<1>2. T \in SUBSET Nat
  OBVIOUS
<1>3. T # {}
  <2>1. PICK s \in S : TRUE
    OBVIOUS
  <2>2. s \in 0..n /\ n - s \in Nat /\ n - (n - s) = s
    OBVIOUS
  <2> QED
    BY <2>1, <2>2
<1>4. PICK i \in T : \A j \in T : ~(<<j, i>> \in less)
  BY <1>2, <1>3, NatLessThanWellFounded, WFMin
<1>5. ASSUME NEW s \in S
      PROVE  n - i >= s
  <2>1. s \in 0..n /\ n - s \in Nat /\ n - (n - s) = s
    OBVIOUS
  <2>2. ~(<<n - s, i>> \in less)
    BY <1>4, <2>1
  <2> HIDE DEF less
  <2> QED
    BY <1>1, <1>2, <2>1, <2>2
<1>6. n - i \in S
  BY <1>4
<1> QED
  BY <1>5, <1>6 DEF Max

LEMMA LastSuccessType == LastSuccess \in Slots \cup {0}
<1> DEFINE processed == {s \in Slots : row[s] = "processed"}
<1>1. LastSlot \in Nat /\ processed \in SUBSET (0..LastSlot)
  BY SlotAssumption DEF Slots
<1>2. processed # {} => Max(processed) \in processed
  BY <1>1, MaxIsMember
<1> QED
  BY <1>2 DEF LastSuccess

\* What the reader has in hand is the numbers from a to n, and it hands them out
\* in order.
LEMMA CountType ==
  ASSUME NEW a \in Slots, NEW n \in Slots, a <= n
  PROVE  /\ Count(a, n) \in Seq(Slots)
         /\ Len(Count(a, n)) = n - a + 1
         /\ Count(a, n)[1] = a
         /\ {Count(a, n)[i] : i \in DOMAIN Count(a, n)} = a..n
<1>1. a \in Nat \ {0} /\ n \in Nat /\ n - a + 1 \in Nat \ {0} /\ LastSlot \in Nat /\ n <= LastSlot
  BY SlotAssumption DEF Slots
<1>2. \A i \in 1..(n - a + 1) : a + i - 1 \in Slots
  BY <1>1 DEF Slots
<1>3. Count(a, n) \in [1..(n - a + 1) -> Slots]
  BY <1>2 DEF Count
<1>4. Count(a, n) \in Seq(Slots) /\ Len(Count(a, n)) = n - a + 1
  BY <1>1, <1>3
<1>5. DOMAIN Count(a, n) = 1..(n - a + 1)
  BY <1>3
<1>6. \A i \in 1..(n - a + 1) : Count(a, n)[i] = a + i - 1
  BY DEF Count
<1>7. Count(a, n)[1] = a
  BY <1>1, <1>6
<1>8. {Count(a, n)[i] : i \in DOMAIN Count(a, n)} = a..n
  <2>1. ASSUME NEW s \in a..n
        PROVE  \E i \in DOMAIN Count(a, n) : s = Count(a, n)[i]
    <3>1. s - a + 1 \in 1..(n - a + 1) /\ a + (s - a + 1) - 1 = s
      BY <1>1
    <3>2. Count(a, n)[s - a + 1] = s
      BY <1>6, <3>1
    <3> QED
      BY <1>5, <3>1, <3>2
  <2>2. ASSUME NEW i \in DOMAIN Count(a, n)
        PROVE  Count(a, n)[i] \in a..n
    BY <1>1, <1>5, <1>6, <2>2
  <2> QED
    BY <2>1, <2>2
<1> QED
  BY <1>4, <1>7, <1>8

LEMMA CountTail ==
  ASSUME NEW a \in Slots, NEW n \in Slots, a <= n
  PROVE  /\ Head(Count(a, n)) = a
         /\ a = n => Tail(Count(a, n)) = <<>>
         /\ a # n => a + 1 \in Slots /\ a + 1 <= n /\ Tail(Count(a, n)) = Count(a + 1, n)
<1>1. a \in Nat \ {0} /\ n \in Nat /\ n - a + 1 \in Nat \ {0} /\ LastSlot \in Nat /\ n <= LastSlot
  BY SlotAssumption DEF Slots
<1>2. /\ Count(a, n) \in Seq(Slots) /\ Len(Count(a, n)) = n - a + 1
      /\ Count(a, n)[1] = a
  BY CountType
<1>3. Head(Count(a, n)) = a
  BY <1>1, <1>2
<1>4. ASSUME a = n
      PROVE  Tail(Count(a, n)) = <<>>
  <2> DEFINE s == Count(a, n)
  <2>1. s \in Seq(Slots) /\ Len(s) = 1
    BY <1>1, <1>2, <1>4
  <2> HIDE DEF s
  <2>2. Tail(s) \in Seq(Slots) /\ Len(Tail(s)) = 0
    BY <2>1
  <2>3. Tail(s) = <<>>
    BY <2>2, EmptySeq
  <2> QED
    BY <2>3 DEF s
<1>5. ASSUME a # n
      PROVE  a + 1 \in Slots /\ a + 1 <= n /\ Tail(Count(a, n)) = Count(a + 1, n)
  <2>1. a + 1 \in Slots /\ a + 1 <= n
    BY <1>1, <1>5 DEF Slots
  <2>2. Count(a + 1, n) \in Seq(Slots) /\ Len(Count(a + 1, n)) = n - (a + 1) + 1
    BY <2>1, CountType
  <2>3. Tail(Count(a, n)) \in Seq(Slots) /\ Len(Tail(Count(a, n))) = n - a
    BY <1>1, <1>2
  <2>4. ASSUME NEW i \in 1..(n - a)
        PROVE  Tail(Count(a, n))[i] = Count(a + 1, n)[i]
    <3>1. Tail(Count(a, n))[i] = Count(a, n)[i + 1]
      BY <1>1, <1>2, <2>3
    <3>2. Count(a, n)[i + 1] = a + (i + 1) - 1
      BY <1>1 DEF Count
    <3>3. Count(a + 1, n)[i] = (a + 1) + i - 1
      BY <1>1 DEF Count
    <3>4. a + (i + 1) - 1 = (a + 1) + i - 1
      BY <1>1
    <3> QED
      BY <3>1, <3>2, <3>3, <3>4
  <2> DEFINE s == Tail(Count(a, n))
             t == Count(a + 1, n)
  <2>5. s \in Seq(Slots) /\ t \in Seq(Slots) /\ Len(s) = Len(t)
    BY <1>1, <2>2, <2>3
  <2>6. \A i \in 1..Len(s) : s[i] = t[i]
    BY <2>3, <2>4
  <2> HIDE DEF s, t
  <2>7. s = t
    BY <2>5, <2>6, SeqEqual
  <2> QED
    BY <2>1, <2>7 DEF s, t
<1> QED
  BY <1>3, <1>4, <1>5

-----------------------------------------------------------------------------
(* The inductive invariant.                                                *)

WorkerState == [pc : {"idle", "find", "fetch", "send", "save"},
                slot : Slots \cup {0}, known : BOOLEAN, status : Status]

\* A worker r has a slot to work on, and claims nothing that is not so: before
\* the row of a block that was fetched is written, the trades have been handed
\* to Kafka.
IsHonest(r, sent) ==
  /\ r.pc # "idle" => r.slot \in Slots
  /\ r.pc = "save" /\ r.status = "processed" => r.slot \in sent

Honest == \A w \in Workers : IsHonest(worker[w], published \cup unsent)

\* A slot was queued, is in the reader's hands, or was left out on purpose.
Done(s) == s \in queued \cup capped \cup {reader[i] : i \in DOMAIN reader}

\* What the reader has in hand is the rest of a gap, up to the slot notified;
\* nothing is missing up to that one, nor up to the last one queued.
ReaderInv ==
  /\ first = 0 <=> lastQueued = 0
  /\ first = 0 => reader = <<>>
  /\ reader # <<>> => \E a, n \in Slots : /\ a <= n
                                          /\ reader = Count(a, n)
                                          /\ \A s \in first..n : Done(s)

IInv == TypeOK /\ Honest /\ ProcessedWasPublished /\ ReaderInv /\ GapsAreFilled

\* The parts of the type invariant.
WsType ==
  /\ phase \in {"connect", "bounds", "backlog", "live"}
  /\ cursor \in Nat /\ endSlot \in Slots \cup {0}
  /\ reader \in Seq(Slots)
  /\ lastQueued \in Slots \cup {0} /\ maxSlot \in Slots \cup {0}

ChanType ==
  /\ realtimeCh \in Seq(Slots) /\ Len(realtimeCh) <= QueueSize
  /\ historicalCh \in Seq(Slots \cup {0}) /\ Len(historicalCh) <= QueueSize

WorkerType == worker \in [Workers -> WorkerState]

RetryType == retry \in [pc : {"absent", "failed"}, todo : SUBSET Slots]

DataType == row \in [Slots -> Status] /\ published \subseteq Slots /\ unsent \subseteq Slots

HistoryType == first \in Slots \cup {0} /\ queued \subseteq Slots /\ capped \subseteq Slots

LEMMA TypeParts ==
  TypeOK <=> /\ WsType /\ ChanType /\ WorkerType /\ RetryType /\ DataType /\ HistoryType
             /\ faults \in 0..MaxFaults
  BY DEF TypeOK, WsType, ChanType, WorkerType, WorkerState, RetryType, DataType, HistoryType

LEMMA TypePartsNext ==
  TypeOK' <=> /\ WsType' /\ ChanType' /\ WorkerType' /\ RetryType' /\ DataType' /\ HistoryType'
              /\ faults' \in 0..MaxFaults
  BY DEF TypeOK, WsType, ChanType, WorkerType, WorkerState, RetryType, DataType, HistoryType

\* Slots are numbers.
LEMMA SlotNumbers ==
  /\ LastSlot \in Nat
  /\ \A s \in Slots : s \in Nat \ {0} /\ s <= LastSlot
  /\ Slots \cup {0} = 0..LastSlot
  BY SlotAssumption DEF Slots

\* A fault is counted.
LEMMA FaultType ==
  ASSUME NEW kind, faults \in 0..MaxFaults, Fault(kind)
  PROVE  faults' \in 0..MaxFaults
  BY FaultAssumption DEF Fault

LEMMA IdleWorkerType ==
  /\ IdleWorker \in WorkerState
  /\ \A sent : IsHonest(IdleWorker, sent)
  BY DEF IdleWorker, WorkerState, Status, IsHonest

LEMMA AsleepType == Asleep \in [pc : {"absent", "failed"}, todo : SUBSET Slots]
  BY DEF Asleep

LEMMA InitInv == Init => IInv
<1> SUFFICES ASSUME Init PROVE IInv
  OBVIOUS
<1>1. WsType /\ HistoryType /\ RetryType /\ WorkerType
  BY AsleepType, IdleWorkerType, EmptySeq DEF Init, WsType, HistoryType, RetryType, WorkerType
<1>2. ChanType
  BY EmptySeq, LimitAssumption DEF Init, ChanType
<1>3. DataType /\ faults \in 0..MaxFaults
  BY FaultAssumption DEF Init, DataType, Status
<1>4. Honest
  BY IdleWorkerType DEF Init, Honest
<1>5. ProcessedWasPublished /\ ReaderInv /\ GapsAreFilled
  BY DEF Init, ProcessedWasPublished, ReaderInv, GapsAreFilled
<1> QED
  BY <1>1, <1>2, <1>3, <1>4, <1>5, TypeParts DEF IInv

-----------------------------------------------------------------------------
(* Steps of the slot service.                                              *)

\* A step that is not a worker's, and leaves the data alone, leaves them honest.
LEMMA HonestStays ==
  ASSUME IInv, UNCHANGED <<worker, row, published, unsent>>
  PROVE  WorkerType' /\ DataType' /\ Honest' /\ ProcessedWasPublished'
<1>1. WorkerType /\ DataType /\ Honest /\ ProcessedWasPublished
  BY TypeParts DEF IInv
<1> QED
  BY <1>1 DEF WorkerType, DataType, Honest, ProcessedWasPublished

\* A step that leaves the reader alone leaves no gap.
LEMMA ReaderStays ==
  ASSUME IInv, UNCHANGED <<reader, lastQueued, first, queued, capped>>
  PROVE  HistoryType' /\ ReaderInv' /\ GapsAreFilled'
<1>1. HistoryType /\ ReaderInv /\ GapsAreFilled
  BY TypeParts DEF IInv
<1> QED
  BY <1>1 DEF HistoryType, ReaderInv, GapsAreFilled, Done

\* Queues are extended at one end and consumed at the other.
LEMMA QueueGrows ==
  ASSUME NEW S, NEW q \in Seq(S), Len(q) < QueueSize, NEW s \in S
  PROVE  Append(q, s) \in Seq(S) /\ Len(Append(q, s)) <= QueueSize
<1>1. Append(q, s) \in Seq(S) /\ Len(Append(q, s)) = Len(q) + 1 /\ Len(q) \in Nat
  BY AppendProperties, LenProperties
<1> QED
  BY <1>1, LimitAssumption

LEMMA QueueShrinks ==
  ASSUME NEW S, NEW q \in Seq(S), q # <<>>
  PROVE  /\ Head(q) \in S
         /\ Tail(q) \in Seq(S)
         /\ Len(q) <= QueueSize => Len(Tail(q)) <= QueueSize
<1>1. Head(q) \in S /\ Tail(q) \in Seq(S) /\ Len(Tail(q)) = Len(q) - 1 /\ Len(q) \in Nat
  BY HeadTailProperties, LenProperties
<1> QED
  BY <1>1, LimitAssumption

LEMMA WsStep ==
  ASSUME IInv, SetStartSlot \/ SetEndSlot \/ QueueBacklog \/ BacklogDone
  PROVE  IInv'
<1>1. /\ WsType /\ ChanType /\ RetryType /\ HistoryType /\ faults \in 0..MaxFaults
  BY TypeParts DEF IInv
<1>2. /\ UNCHANGED <<worker, retry, row, published, unsent>>
      /\ UNCHANGED <<reader, lastQueued, maxSlot, first, queued, capped>>
  BY DEF SetStartSlot, SetEndSlot, QueueBacklog, BacklogDone, dataVars, historyVars
<1>3. /\ WorkerType' /\ DataType' /\ Honest' /\ ProcessedWasPublished'
      /\ HistoryType' /\ ReaderInv' /\ GapsAreFilled'
  BY <1>2, HonestStays, ReaderStays
<1>4. RetryType'
  BY <1>1, <1>2 DEF RetryType
<1>5. faults' \in 0..MaxFaults
  BY <1>1, FaultType DEF SetStartSlot, SetEndSlot, QueueBacklog, BacklogDone
<1>6. ChanType'
  <2>1. CASE QueueBacklog
    <3>1. cursor \in Slots \cup {0}
      <4>1. cursor \in Nat /\ cursor <= endSlot /\ endSlot \in 0..LastSlot
        BY <1>1, <2>1, SlotNumbers DEF QueueBacklog, WsType
      <4> QED
        BY <4>1, SlotNumbers
    <3>2. /\ historicalCh \in Seq(Slots \cup {0}) /\ Len(historicalCh) < QueueSize
          /\ historicalCh' = Append(historicalCh, cursor) /\ realtimeCh' = realtimeCh
      BY <1>1, <2>1 DEF QueueBacklog, ChanType, Room
    <3>3. historicalCh' \in Seq(Slots \cup {0}) /\ Len(historicalCh') <= QueueSize
      BY <3>1, <3>2, QueueGrows
    <3> QED
      BY <1>1, <3>2, <3>3 DEF ChanType
  <2>2. CASE SetStartSlot \/ SetEndSlot \/ BacklogDone
    BY <1>1, <2>2 DEF SetStartSlot, SetEndSlot, BacklogDone, chanVars, ChanType
  <2> QED
    BY <2>1, <2>2
<1>7. cursor' \in Nat
  <2>1. CASE SetStartSlot
    BY <2>1, LastSuccessType, SlotNumbers, SlotAssumption DEF SetStartSlot
  <2>2. CASE SetEndSlot \/ QueueBacklog \/ BacklogDone
    BY <1>1, <2>2, SlotNumbers DEF SetEndSlot, QueueBacklog, BacklogDone, WsType
  <2> QED
    BY <2>1, <2>2
<1>8. endSlot' \in Slots \cup {0}
  BY <1>1 DEF SetStartSlot, SetEndSlot, QueueBacklog, BacklogDone, WsType
<1>9. phase' \in {"connect", "bounds", "backlog", "live"}
  BY <1>1 DEF SetStartSlot, SetEndSlot, QueueBacklog, BacklogDone, WsType
<1>10. WsType'
  BY <1>1, <1>2, <1>7, <1>8, <1>9 DEF WsType
<1> QED
  BY <1>3, <1>4, <1>5, <1>6, <1>10, TypePartsNext DEF IInv

\* The step from one slot of the gap to the next: the marks are set when the
\* slot notified is the only one left.
LEMMA MarksType ==
  ASSUME WsType, NEW a \in Slots, NEW n \in Slots, a <= n, SetMarks(Count(a, n))
  PROVE  /\ lastQueued' \in Slots \cup {0} /\ maxSlot' \in Slots \cup {0}
         /\ lastQueued' \in {lastQueued, n}
         /\ a < n => lastQueued' = lastQueued
         /\ a = n => lastQueued' # 0
         /\ lastQueued # 0 => lastQueued' # 0
<1>1. Len(Count(a, n)) = n - a + 1 /\ Count(a, n)[1] = a
  BY CountType
<1>2. a \in Nat \ {0} /\ n \in Nat \ {0} /\ lastQueued \in Nat
  BY SlotNumbers DEF WsType
<1>3. CASE a = n
  <2>1. lastQueued' = Max2(lastQueued, n) /\ maxSlot' = n
    BY <1>1, <1>2, <1>3 DEF SetMarks
  <2> QED
    BY <1>2, <1>3, <2>1 DEF Max2, WsType
<1>4. CASE a < n
  <2>1. UNCHANGED <<lastQueued, maxSlot>>
    BY <1>1, <1>2, <1>4 DEF SetMarks
  <2> QED
    BY <1>2, <1>4, <2>1 DEF WsType
<1> QED
  BY <1>2, <1>3, <1>4

LEMMA FromType ==
  ASSUME WsType, NEW n \in Slots
  PROVE  /\ From(n) \in Slots /\ From(n) <= n
         /\ lastQueued = 0 => From(n) = n
         /\ lastQueued # 0 =>
              \A s \in (lastQueued + 1)..n : s \in (lastQueued + 1)..(n - MaxGap - 1) \/ s \in From(n)..n
<1>1. lastQueued \in 0..LastSlot /\ n \in 1..LastSlot /\ LastSlot \in Nat /\ MaxGap \in Nat
  BY SlotNumbers, LimitAssumption DEF WsType, Slots
<1> QED
  BY <1>1 DEF From, Max2, Slots

LEMMA ReadStep ==
  ASSUME IInv, NEW slot \in Slots, ReadSlotMessage(slot)
  PROVE  IInv'
<1> DEFINE a == From(slot)
           hand == {reader'[i] : i \in DOMAIN reader'}
<1>1. /\ WsType /\ ChanType /\ RetryType /\ HistoryType /\ faults \in 0..MaxFaults
      /\ ReaderInv /\ GapsAreFilled
  BY TypeParts DEF IInv
<1>2. /\ UNCHANGED <<worker, retry, row, published, unsent, realtimeCh, historicalCh>>
      /\ UNCHANGED <<phase, cursor, endSlot, queued>>
      /\ reader = <<>> /\ reader' = Count(a, slot) /\ SetMarks(Count(a, slot))
      /\ first' = IF first = 0 THEN slot ELSE first
      /\ capped' = capped \cup (IF lastQueued = 0 THEN {}
                                ELSE (lastQueued + 1)..(slot - MaxGap - 1))
  BY DEF ReadSlotMessage, dataVars, chanVars
<1>3. /\ a \in Slots /\ a <= slot /\ (lastQueued = 0 => a = slot)
      /\ lastQueued # 0 =>
           \A s \in (lastQueued + 1)..slot :
             s \in (lastQueued + 1)..(slot - MaxGap - 1) \/ s \in a..slot
  BY <1>1, FromType
<1> HIDE DEF a
<1>4. /\ reader' \in Seq(Slots) /\ hand = a..slot
      /\ lastQueued' \in Slots \cup {0} /\ maxSlot' \in Slots \cup {0}
      /\ lastQueued' \in {lastQueued, slot}
      /\ a = slot => lastQueued' # 0
      /\ lastQueued # 0 => lastQueued' # 0
  BY <1>1, <1>2, <1>3, CountType, MarksType
<1>5. WorkerType' /\ DataType' /\ Honest' /\ ProcessedWasPublished'
  BY <1>2, HonestStays
<1>6. RetryType' /\ ChanType'
  BY <1>1, <1>2 DEF RetryType, ChanType
<1>7. faults' \in 0..MaxFaults
  BY <1>1, FaultType DEF ReadSlotMessage
<1>8. WsType'
  BY <1>1, <1>2, <1>4 DEF WsType
<1>9. HistoryType'
  <2>1. (lastQueued + 1)..(slot - MaxGap - 1) \subseteq Slots
    BY <1>1, SlotNumbers, LimitAssumption DEF WsType, Slots
  <2> QED
    BY <1>1, <1>2, <2>1 DEF HistoryType
<1>10. first' # 0 /\ lastQueued' # 0 /\ first' \in Nat /\ lastQueued' \in Nat
  BY <1>1, <1>2, <1>3, <1>4, SlotNumbers DEF ReaderInv, HistoryType
<1>11. ASSUME NEW s \in first'..slot
       PROVE  Done(s)'
  <2>1. s \in Int /\ first' <= s /\ s <= slot /\ slot \in Nat /\ slot # 0
    BY <1>10, <1>11, SlotNumbers
  <2>2. CASE first = 0
    <3>1. s = slot /\ slot \in hand
      BY <1>1, <1>2, <1>3, <1>4, <2>1, <2>2, SlotNumbers DEF ReaderInv
    <3> QED
      BY <3>1 DEF Done
  <2>3. CASE first # 0 /\ s <= lastQueued
    <3>1. s \in first..lastQueued
      BY <1>1, <1>2, <2>1, <2>3, SlotNumbers DEF WsType, HistoryType
    <3>2. s \in queued \cup capped \cup {reader[i] : i \in DOMAIN reader}
      BY <1>1, <2>3, <3>1 DEF GapsAreFilled
    <3>3. s \in queued' \cup capped'
      BY <1>2, <3>2
    <3> QED
      BY <3>3 DEF Done
  <2>4. CASE first # 0 /\ s > lastQueued
    <3>1. lastQueued # 0 /\ s \in (lastQueued + 1)..slot
      BY <1>1, <2>1, <2>4, SlotNumbers DEF ReaderInv, WsType
    <3>2. s \in capped' \/ s \in hand
      BY <1>2, <1>3, <1>4, <3>1
    <3> QED
      BY <3>2 DEF Done
  <2> QED
    BY <1>1, <2>1, <2>2, <2>3, <2>4, SlotNumbers DEF WsType
<1>12. ReaderInv'
  BY <1>2, <1>3, <1>10, <1>11 DEF ReaderInv
<1>13. GapsAreFilled'
  <2>1. ASSUME NEW s \in first'..lastQueued'
        PROVE  Done(s)'
    <3>1. CASE lastQueued' = slot
      BY <1>11, <3>1
    <3>2. CASE lastQueued' = lastQueued /\ first # 0
      <4>1. s \in queued \cup capped \cup {reader[i] : i \in DOMAIN reader}
        BY <1>1, <1>2, <3>2 DEF GapsAreFilled
      <4>2. s \in queued' \cup capped'
        BY <1>2, <4>1
      <4> QED
        BY <4>2 DEF Done
    <3> QED
      BY <1>1, <1>4, <1>10, <3>1, <3>2 DEF ReaderInv
  <2> QED
    BY <2>1 DEF GapsAreFilled, Done
<1> QED
  BY <1>4, <1>5, <1>6, <1>7, <1>8, <1>9, <1>12, <1>13, TypePartsNext DEF IInv

LEMMA QueueStep ==
  ASSUME IInv, QueueSlot
  PROVE  IInv'
<1>1. /\ WsType /\ ChanType /\ RetryType /\ HistoryType /\ faults \in 0..MaxFaults
      /\ ReaderInv /\ GapsAreFilled
  BY TypeParts DEF IInv
<1>2. /\ UNCHANGED <<worker, retry, row, published, unsent, historicalCh, faults>>
      /\ UNCHANGED <<phase, cursor, endSlot, first, capped>>
      /\ reader # <<>> /\ Len(realtimeCh) < QueueSize
      /\ realtimeCh' = Append(realtimeCh, Head(reader))
      /\ queued' = queued \cup {Head(reader)}
      /\ reader' = Tail(reader) /\ SetMarks(Tail(reader))
  BY DEF QueueSlot, dataVars, Room
<1>3. PICK a \in Slots, n \in Slots :
        a <= n /\ reader = Count(a, n) /\ \A s \in first..n : Done(s)
  BY <1>1, <1>2 DEF ReaderInv
<1>4. /\ Head(reader) = a
      /\ a = n => reader' = <<>>
      /\ a # n => a + 1 \in Slots /\ a + 1 <= n /\ reader' = Count(a + 1, n)
      /\ {reader[i] : i \in DOMAIN reader} = a..n
  <2>1. {Count(a, n)[i] : i \in DOMAIN Count(a, n)} = a..n
    BY <1>3, CountType
  <2>2. /\ Head(Count(a, n)) = a
        /\ a = n => Tail(Count(a, n)) = <<>>
        /\ a # n => a + 1 \in Slots /\ a + 1 <= n /\ Tail(Count(a, n)) = Count(a + 1, n)
    BY <1>3, CountTail
  <2> QED
    BY <1>2, <1>3, <2>1, <2>2
<1>5. a \in Nat /\ n \in Nat /\ n # 0
  BY SlotNumbers
<1>6. first # 0 /\ lastQueued # 0
  BY <1>1, <1>2 DEF ReaderInv
<1>7. /\ reader' \in Seq(Slots)
      /\ lastQueued' \in Slots \cup {0} /\ maxSlot' \in Slots \cup {0}
      /\ lastQueued' \in {lastQueued, n} /\ lastQueued' # 0
  <2>1. CASE a = n
    <3>1. reader' = <<>> /\ UNCHANGED <<lastQueued, maxSlot>>
      BY <1>2, <1>4, <2>1, EmptySeq DEF SetMarks
    <3> QED
      BY <1>1, <1>6, <3>1, EmptySeq DEF WsType
  <2>2. CASE a # n
    <3>1. /\ a + 1 \in Slots /\ a + 1 <= n /\ reader' = Count(a + 1, n)
          /\ SetMarks(Count(a + 1, n))
      BY <1>2, <1>4, <2>2
    <3> QED
      BY <1>1, <1>6, <3>1, CountType, MarksType
  <2> QED
    BY <2>1, <2>2
<1>8. ASSUME NEW s, Done(s)
      PROVE  Done(s)'
  <2>1. CASE s \in a..n
    <3>1. CASE s = a
      BY <1>2, <1>4, <3>1 DEF Done
    <3>2. CASE s # a
      <4>1. s \in (a + 1)..n /\ a # n
        BY <1>5, <2>1, <3>2
      <4>2. {reader'[i] : i \in DOMAIN reader'} = (a + 1)..n
        BY <1>4, <4>1, CountType
      <4> QED
        BY <4>1, <4>2 DEF Done
    <3> QED
      BY <3>1, <3>2
  <2>2. CASE s \notin a..n
    BY <1>2, <1>4, <1>8, <2>2 DEF Done
  <2> QED
    BY <2>1, <2>2
<1>9. \A s \in first'..n : Done(s)'
  BY <1>2, <1>3, <1>8
<1>10. \A s \in first'..lastQueued' : Done(s)'
  <2>1. ASSUME NEW s \in first..lastQueued
        PROVE  Done(s)
    BY <1>1, <1>6, <2>1 DEF GapsAreFilled, Done
  <2> QED
    BY <1>2, <1>7, <1>8, <1>9, <2>1
<1>11. GapsAreFilled'
  BY <1>10 DEF GapsAreFilled, Done
<1>12. ReaderInv'
  <2>1. first' # 0 /\ lastQueued' # 0
    BY <1>2, <1>6, <1>7
  <2>2. CASE a = n
    BY <1>4, <2>1, <2>2 DEF ReaderInv
  <2>3. CASE a # n
    BY <1>4, <1>9, <2>1, <2>3 DEF ReaderInv
  <2> QED
    BY <2>2, <2>3
<1>13. WsType'
  BY <1>1, <1>2, <1>7 DEF WsType
<1>14. ChanType'
  <2>1. realtimeCh' \in Seq(Slots) /\ Len(realtimeCh') <= QueueSize
    BY <1>1, <1>2, <1>4, QueueGrows DEF ChanType
  <2> QED
    BY <1>1, <1>2, <2>1 DEF ChanType
<1>15. HistoryType' /\ RetryType' /\ faults' \in 0..MaxFaults
  BY <1>1, <1>2, <1>4 DEF HistoryType, RetryType
<1>16. WorkerType' /\ DataType' /\ Honest' /\ ProcessedWasPublished'
  BY <1>2, HonestStays
<1> QED
  BY <1>11, <1>12, <1>13, <1>14, <1>15, <1>16, TypePartsNext DEF IInv

-----------------------------------------------------------------------------
(* Steps of the retry loop.                                                *)

LEMMA RetryStep ==
  ASSUME IInv, SlotNotCompleted
  PROVE  IInv'
<1>1. /\ WsType /\ ChanType /\ RetryType /\ faults \in 0..MaxFaults
  BY TypeParts DEF IInv
<1>2. /\ UNCHANGED <<worker, row, published, unsent, historicalCh>>
      /\ UNCHANGED <<phase, cursor, endSlot, reader, lastQueued, maxSlot>>
      /\ UNCHANGED <<first, queued, capped>>
  BY DEF SlotNotCompleted, ScanAbsent, ScanFailed, QueueRetry, wsVars, chanVars, dataVars,
         historyVars
<1>3. /\ WorkerType' /\ DataType' /\ Honest' /\ ProcessedWasPublished'
      /\ HistoryType' /\ ReaderInv' /\ GapsAreFilled'
  BY <1>2, HonestStays, ReaderStays
<1>4. WsType'
  BY <1>1, <1>2 DEF WsType
<1>5. faults' \in 0..MaxFaults
  BY <1>1, FaultType DEF SlotNotCompleted, ScanAbsent, ScanFailed, QueueRetry
<1>6. RetryType' /\ ChanType'
  <2>1. CASE ScanAbsent
    <3>1. Oldest(AbsentSlots, ScanBatch) \subseteq Slots
      BY DEF Oldest, AbsentSlots
    <3>2. RetryType'
      BY <2>1, <3>1 DEF ScanAbsent, RetryType
    <3> QED
      BY <1>1, <2>1, <3>2 DEF ScanAbsent, chanVars, ChanType
  <2>2. CASE ScanFailed
    <3>1. Newest(FailedSlots, RetryBatch) \subseteq Slots
      BY DEF Newest, FailedSlots
    <3>2. RetryType'
      BY <2>2, <3>1, AsleepType DEF ScanFailed, RetryType
    <3> QED
      BY <1>1, <2>2, <3>2 DEF ScanFailed, chanVars, ChanType
  <2>3. CASE QueueRetry
    <3>1. PICK s \in retry.todo : /\ realtimeCh' = Append(realtimeCh, s)
                                  /\ retry' = [retry EXCEPT !.todo = @ \ {s}]
      BY <2>3 DEF QueueRetry
    <3>2. s \in Slots /\ RetryType'
      BY <1>1, <3>1 DEF RetryType
    <3>3. realtimeCh \in Seq(Slots) /\ Len(realtimeCh) < QueueSize
      BY <1>1, <2>3 DEF QueueRetry, Room, ChanType
    <3>4. realtimeCh' \in Seq(Slots) /\ Len(realtimeCh') <= QueueSize
      BY <3>1, <3>2, <3>3, QueueGrows
    <3> QED
      BY <1>1, <1>2, <3>2, <3>4 DEF ChanType
  <2> QED
    BY <2>1, <2>2, <2>3 DEF SlotNotCompleted
<1> QED
  BY <1>3, <1>4, <1>5, <1>6, TypePartsNext DEF IInv

-----------------------------------------------------------------------------
(* Steps of a worker.                                                      *)

\* One worker moves on, and what was sent stays sent.
LEMMA StepKeeps ==
  ASSUME WorkerType, Honest, NEW w \in Workers, NEW r \in WorkerState, Step(w, r),
         published \cup unsent \subseteq published' \cup unsent',
         IsHonest(r, published' \cup unsent')
  PROVE  WorkerType' /\ Honest'
<1>1. /\ WorkerType'
      /\ worker'[w] = r
      /\ \A v \in Workers : v # w => worker'[v] = worker[v]
  BY DEF Step, WorkerType
<1>2. ASSUME NEW v \in Workers
      PROVE  IsHonest(worker'[v], published' \cup unsent')
  <2>1. CASE v = w
    BY <1>1, <2>1
  <2>2. CASE v # w
    <3>1. worker'[v] = worker[v] /\ IsHonest(worker[v], published \cup unsent)
      BY <1>1, <2>2 DEF Honest
    <3> QED
      BY <3>1 DEF IsHonest
  <2> QED
    BY <2>1, <2>2
<1> QED
  BY <1>1, <1>2 DEF Honest

LEMMA WorkerStep ==
  ASSUME IInv, NEW w \in Workers, ProcessBlock(w)
  PROVE  IInv'
<1> DEFINE r == worker[w]
           sent == published' \cup unsent'
<1>1. /\ WsType /\ ChanType /\ WorkerType /\ RetryType /\ DataType /\ HistoryType
      /\ faults \in 0..MaxFaults /\ Honest /\ ProcessedWasPublished
  BY TypeParts DEF IInv
<1>2. r \in WorkerState /\ IsHonest(r, published \cup unsent)
  BY <1>1 DEF WorkerType, Honest
<1>3. /\ UNCHANGED <<phase, cursor, endSlot, reader, lastQueued, maxSlot>>
      /\ UNCHANGED <<first, queued, capped, retry>>
  BY DEF ProcessBlock, TakeSlot, FindOneBySlot, GetSolBlockInfo, SendTx, Insert, wsVars,
         historyVars
<1>4. WsType' /\ RetryType' /\ HistoryType' /\ ReaderInv' /\ GapsAreFilled'
  BY <1>1, <1>3, ReaderStays DEF WsType, RetryType
<1>5. faults' \in 0..MaxFaults
  BY <1>1, FaultType DEF ProcessBlock, TakeSlot, FindOneBySlot, GetSolBlockInfo, SendTx, Insert
<1>6. SUFFICES ChanType' /\ WorkerType' /\ DataType' /\ Honest' /\ ProcessedWasPublished'
  BY <1>4, <1>5, TypePartsNext DEF IInv
<1>7. UNCHANGED <<realtimeCh, historicalCh>> => ChanType'
  BY <1>1 DEF ChanType
<1>8. UNCHANGED <<row, published, unsent>> => DataType' /\ ProcessedWasPublished'
  BY <1>1 DEF DataType, ProcessedWasPublished
<1>9. CASE TakeSlot(w)
  <2>1. UNCHANGED <<row, published, unsent>>
    BY <1>9 DEF TakeSlot, dataVars
  <2> DEFINE channel == IF w \in Live THEN realtimeCh ELSE historicalCh
  <2>2. /\ channel # <<>>
        /\ IF w \in Live
           THEN realtimeCh' = Tail(channel) /\ UNCHANGED historicalCh
           ELSE historicalCh' = Tail(channel) /\ UNCHANGED realtimeCh
        /\ IF Head(channel) = 0 THEN UNCHANGED worker
           ELSE Step(w, [IdleWorker EXCEPT !.pc = "find", !.slot = Head(channel)])
    BY <1>9 DEF TakeSlot
  <2>3. ChanType' /\ Head(channel) \in Slots \cup {0}
    <3>1. CASE w \in Live
      BY <1>1, <2>2, <3>1, QueueShrinks DEF ChanType
    <3>2. CASE w \notin Live
      BY <1>1, <2>2, <3>2, QueueShrinks DEF ChanType
    <3> QED
      BY <3>1, <3>2
  <2> HIDE DEF channel
  <2>4. ASSUME UNCHANGED worker
        PROVE  WorkerType' /\ Honest'
    BY <1>1, <2>1, <2>4 DEF WorkerType, Honest
  <2>5. ASSUME Head(channel) # 0
        PROVE  WorkerType' /\ Honest'
    <3> DEFINE begun == [IdleWorker EXCEPT !.pc = "find", !.slot = Head(channel)]
    <3>1. begun \in WorkerState /\ begun.pc = "find" /\ begun.slot = Head(channel)
      BY <2>3, <2>5 DEF IdleWorker, WorkerState, Status
    <3>2. IsHonest(begun, sent)
      BY <2>3, <2>5, <3>1 DEF IsHonest
    <3> HIDE DEF begun
    <3>3. Step(w, begun)
      BY <2>2, <2>5 DEF begun
    <3> QED
      BY <1>1, <2>1, <3>1, <3>2, <3>3, StepKeeps
  <2> QED
    BY <1>8, <2>1, <2>2, <2>3, <2>4, <2>5
<1>10. CASE FindOneBySlot(w)
  <2>1. /\ UNCHANGED <<realtimeCh, historicalCh>> /\ UNCHANGED <<row, published, unsent>>
        /\ r.pc = "find"
    BY <1>10 DEF FindOneBySlot, dataVars, chanVars
  <2>2. ASSUME Step(w, IdleWorker)
        PROVE  WorkerType' /\ Honest'
    BY <1>1, <2>1, <2>2, IdleWorkerType, StepKeeps
  <2>3. ASSUME NEW known \in BOOLEAN, Step(w, [r EXCEPT !.pc = "fetch", !.known = known])
        PROVE  WorkerType' /\ Honest'
    <3> DEFINE found == [r EXCEPT !.pc = "fetch", !.known = known]
    <3>1. found \in WorkerState /\ found.pc = "fetch" /\ found.slot = r.slot
      BY <1>2 DEF WorkerState
    <3>2. IsHonest(found, sent)
      BY <1>2, <2>1, <3>1 DEF IsHonest
    <3> QED
      BY <1>1, <2>1, <2>3, <3>1, <3>2, StepKeeps
  <2>4. \/ Step(w, IdleWorker)
        \/ \E known \in BOOLEAN : Step(w, [r EXCEPT !.pc = "fetch", !.known = known])
    BY <1>10 DEF FindOneBySlot
  <2>5. WorkerType' /\ Honest'
    BY <2>2, <2>3, <2>4
  <2> QED
    BY <1>7, <1>8, <2>1, <2>5
<1>11. CASE GetSolBlockInfo(w)
  <2>1. /\ UNCHANGED <<realtimeCh, historicalCh>> /\ UNCHANGED <<row, published, unsent>>
        /\ r.pc = "fetch"
    BY <1>11 DEF GetSolBlockInfo, dataVars, chanVars
  <2>2. ASSUME NEW q \in WorkerState, Step(w, q), q.slot = r.slot,
               ~(q.pc = "save" /\ q.status = "processed")
        PROVE  WorkerType' /\ Honest'
    <3>1. IsHonest(q, sent)
      BY <1>2, <2>1, <2>2 DEF IsHonest
    <3> QED
      BY <1>1, <2>1, <2>2, <3>1, StepKeeps
  <2> DEFINE skipped == [r EXCEPT !.pc = "save", !.status = "skipped"]
             failed == [r EXCEPT !.pc = "save", !.status = "failed"]
  <2>3. Step(w, skipped) \/ Step(w, failed) \/ Step(w, Fetched(w))
    BY <1>11 DEF GetSolBlockInfo
  <2>4. skipped \in WorkerState /\ skipped.status = "skipped" /\ skipped.slot = r.slot
    BY <1>2 DEF WorkerState, Status
  <2>5. failed \in WorkerState /\ failed.status = "failed" /\ failed.slot = r.slot
    BY <1>2 DEF WorkerState, Status
  <2>6. Fetched(w) \in WorkerState /\ Fetched(w).pc = "send" /\ Fetched(w).slot = r.slot
    BY <1>2 DEF WorkerState, Status, Fetched
  <2> HIDE DEF skipped, failed, r
  <2>7. WorkerType' /\ Honest'
    BY <2>2, <2>3, <2>4, <2>5, <2>6
  <2> QED
    BY <1>7, <1>8, <2>1, <2>7
<1>12. CASE SendTx(w)
  <2> DEFINE q == [r EXCEPT !.pc = "save"]
  <2>1. /\ UNCHANGED <<realtimeCh, historicalCh>> /\ UNCHANGED row
        /\ r.pc = "send" /\ Step(w, q)
    BY <1>12 DEF SendTx, chanVars
  <2>2. q \in WorkerState /\ q.pc = "save" /\ q.slot = r.slot
    BY <1>2 DEF WorkerState
  <2>3. r.slot \in Slots
    BY <1>2, <2>1 DEF IsHonest
  <2>4. /\ r.slot \in sent /\ published \cup unsent \subseteq sent
        /\ published' \subseteq Slots /\ unsent' \subseteq Slots
    BY <1>1, <1>12, <2>3 DEF SendTx, DataType
  <2>5. IsHonest(q, sent)
    BY <2>2, <2>3, <2>4 DEF IsHonest
  <2>6. WorkerType' /\ Honest'
    <3> HIDE DEF q
    <3> QED
      BY <1>1, <2>1, <2>2, <2>4, <2>5, StepKeeps
  <2>7. DataType' /\ ProcessedWasPublished'
    BY <1>1, <2>1, <2>4 DEF DataType, ProcessedWasPublished
  <2> QED
    BY <1>7, <2>1, <2>6, <2>7
<1>13. CASE Insert(w)
  <2>1. /\ r.pc = "save" /\ Step(w, IdleWorker)
        /\ UNCHANGED <<realtimeCh, historicalCh>> /\ UNCHANGED <<published, unsent>>
        /\ row' = row \/ row' = [row EXCEPT ![r.slot] = r.status]
    BY <1>13 DEF Insert, chanVars
  <2>2. WorkerType' /\ Honest'
    BY <1>1, <2>1, IdleWorkerType, StepKeeps
  <2>3. r.status \in Status /\ (r.status = "processed" => r.slot \in published \cup unsent)
    BY <1>2, <2>1 DEF IsHonest, WorkerState
  <2>4. DataType' /\ ProcessedWasPublished'
    <3> HIDE DEF r
    <3> QED
      BY <1>1, <2>1, <2>3 DEF DataType, ProcessedWasPublished
  <2> QED
    BY <1>7, <2>1, <2>2, <2>4
<1> QED
  BY <1>9, <1>10, <1>11, <1>12, <1>13 DEF ProcessBlock

-----------------------------------------------------------------------------
(* The theorems.                                                           *)

LEMMA CrashStep ==
  ASSUME IInv, Crash
  PROVE  IInv'
<1>1. DataType /\ ProcessedWasPublished /\ faults \in 0..MaxFaults
  BY TypeParts DEF IInv
<1>2. WsType' /\ HistoryType' /\ RetryType' /\ WorkerType'
  BY AsleepType, IdleWorkerType, EmptySeq DEF Crash, WsType, HistoryType, RetryType, WorkerType
<1>3. ChanType'
  BY EmptySeq, LimitAssumption DEF Crash, ChanType
<1>4. DataType' /\ ProcessedWasPublished' /\ faults' \in 0..MaxFaults
  BY <1>1, FaultType DEF Crash, dataVars, DataType, ProcessedWasPublished
<1>5. Honest'
  BY IdleWorkerType DEF Crash, Honest
<1>6. ReaderInv' /\ GapsAreFilled'
  BY DEF Crash, ReaderInv, GapsAreFilled
<1> QED
  BY <1>2, <1>3, <1>4, <1>5, <1>6, TypePartsNext DEF IInv

LEMMA StepInv == IInv /\ [Next]_vars => IInv'
<1> SUFFICES ASSUME IInv, [Next]_vars PROVE IInv'
  OBVIOUS
<1>1. CASE UNCHANGED vars
  <2>1. UNCHANGED <<phase, cursor, endSlot, reader, lastQueued, maxSlot, realtimeCh, historicalCh,
                    worker, retry, row, published, unsent, first, queued, capped, faults>>
    BY <1>1 DEF vars, wsVars, chanVars, dataVars, historyVars
  <2>2. /\ WorkerType' /\ DataType' /\ Honest' /\ ProcessedWasPublished'
        /\ HistoryType' /\ ReaderInv' /\ GapsAreFilled'
    BY <2>1, HonestStays, ReaderStays
  <2>3. WsType' /\ ChanType' /\ RetryType' /\ faults' \in 0..MaxFaults
    BY <2>1, TypeParts DEF IInv, WsType, ChanType, RetryType
  <2> QED
    BY <2>2, <2>3, TypePartsNext DEF IInv
<1>2. CASE SlotWs
  BY <1>2, WsStep, ReadStep, QueueStep DEF SlotWs
<1>3. CASE \E w \in Workers : ProcessBlock(w)
  BY <1>3, WorkerStep
<1> QED
  BY <1>1, <1>2, <1>3, RetryStep, CrashStep DEF Next

LEMMA Invariance == Spec => []IInv
<1>1. Init => IInv
  BY InitInv
<1>2. IInv /\ [Next]_vars => IInv'
  BY StepInv
<1> QED
  BY <1>1, <1>2, PTL DEF Spec

\* The channels keep to their capacity and hold slots of the chain; the backlog
\* may begin with slot 0, of a chain that was never read, and never goes below.
THEOREM TypeCorrect == Spec => []TypeOK
<1>1. IInv => TypeOK
  BY DEF IInv
<1> QED
  BY <1>1, Invariance, PTL

\* A slot's row says processed only after its trades were handed to Kafka, by
\* this worker or another one that had the slot, before a crash or after it.
THEOREM ProcessedWasPublishedHolds == Spec => []ProcessedWasPublished
<1>1. IInv => ProcessedWasPublished
  BY DEF IInv
<1> QED
  BY <1>1, Invariance, PTL

\* However notifications skip slots, repeat or fall back, ReadSlotMessage queues
\* every slot between the first and the last one, but for the old end of a gap
\* that is longer than MaxGap.
THEOREM GapsAreFilledHolds == Spec => []GapsAreFilled
<1>1. IInv => GapsAreFilled
  BY DEF IInv
<1> QED
  BY <1>1, Invariance, PTL
=============================================================================
