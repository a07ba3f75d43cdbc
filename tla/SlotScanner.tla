---------------------------- MODULE SlotScanner ----------------------------
(***************************************************************************)
(* Consumer: from slot notifications to block rows and published trades.   *)
(* The slot service turns the notifications of a websocket into a queue of *)
(* slots and fills the gaps between them, first working through a backlog  *)
(* after a start; a retry loop queues slots without a row and slots whose  *)
(* block could not be fetched; block workers fetch a slot's block, publish *)
(* its trades to Kafka and write its row.                                  *)
(*                                                                         *)
(* What is decoded from a block is abstracted to the fact that the slot's  *)
(* trades were published.  Slots are numbered from the oldest one of       *)
(* interest; a worker is a goroutine of a block service's pool.            *)
(***************************************************************************)
EXTENDS Integers, Sequences, FiniteSets, FiniteSetsExt

CONSTANTS
  LastSlot,      \* bound: newest slot of the chain
  NoBlock,       \* slots of the chain without a block
  StartBlock,    \* SOL_STARTBLOCK, 0 for no backlog
  Redundancy,    \* slots before the last success to start from (100)
  MaxGap,        \* longest gap that is filled (300)
  ScanWindow,    \* slots before the newest that are scanned (6000)
  RetryWindow,   \* slots before the newest that are retried (20000)
  Lag,           \* newest slots that are left to the live queue (50)
  ScanBatch,     \* absent slots queued per tick (15)
  RetryBatch,    \* failed slots queued per tick (5)
  QueueSize,     \* capacity of each of the two channels (50)
  Live,          \* workers of the live channel
  History,       \* workers of the backlog's channel
  Faults,        \* the faults that may happen
  MaxFaults      \* bound: how many

FaultKinds ==
  {"rpc",        \* a block cannot be fetched
   "kafka",      \* the trades of a block cannot be sent
   "database",   \* a query fails
   "socket",     \* the first read on the websocket fails
   "lagging",    \* after a reconnect the node is behind
   "crash"}      \* the service stops

Slots == 1..LastSlot
Workers == Live \cup History

ASSUME SlotAssumption ==
  /\ LastSlot \in Nat /\ NoBlock \subseteq Slots
  /\ StartBlock \in 0..LastSlot /\ Redundancy \in Nat
  /\ StartBlock > 0 => Redundancy <= StartBlock
ASSUME LimitAssumption ==
  /\ {MaxGap, ScanWindow, RetryWindow, Lag} \subseteq Nat
  /\ {ScanBatch, RetryBatch, QueueSize} \subseteq Nat \ {0}
ASSUME WorkerAssumption == Live \cap History = {}
ASSUME FaultAssumption == Faults \subseteq FaultKinds /\ MaxFaults \in Nat

VARIABLES
  phase,         \* progress of SlotWs
  cursor,        \* next slot of the backlog
  endSlot,       \* last slot of the backlog
  reader,        \* slots ReadSlotMessage has still to queue
  lastQueued,    \* lastQueuedSlot
  maxSlot,       \* slot of the last notification
  realtimeCh,    \* the live channel
  historicalCh,  \* the backlog's channel
  worker,        \* progress of each worker
  retry,         \* progress of the retry loop
  row,           \* status of each slot's row
  published,     \* slots whose trades reached Kafka
  unsent,        \* history: slots whose trades Kafka refused
  first,         \* history: first slot queued live since the start
  queued,        \* history: slots queued live since the start
  capped,        \* history: slots left out of a gap longer than MaxGap
  faults         \* faults so far

wsVars == <<phase, cursor, endSlot, reader, lastQueued, maxSlot>>
chanVars == <<realtimeCh, historicalCh>>
dataVars == <<row, published, unsent>>
historyVars == <<first, queued, capped>>
vars == <<wsVars, chanVars, worker, retry, dataVars, historyVars, faults>>

Max2(a, b) == IF a > b THEN a ELSE b

IdleWorker == [pc |-> "idle", slot |-> 0, known |-> FALSE, status |-> "none"]
Asleep == [pc |-> "failed", todo |-> {}]

Status == {"none", "processed", "failed", "skipped"}

TypeOK ==
  /\ phase \in {"connect", "bounds", "backlog", "live"}
  /\ cursor \in Nat /\ endSlot \in Slots \cup {0}
  /\ reader \in Seq(Slots)
  /\ lastQueued \in Slots \cup {0} /\ maxSlot \in Slots \cup {0}
  /\ realtimeCh \in Seq(Slots) /\ Len(realtimeCh) <= QueueSize
  /\ historicalCh \in Seq(Slots \cup {0}) /\ Len(historicalCh) <= QueueSize
  /\ worker \in [Workers -> [pc : {"idle", "find", "fetch", "send", "save"},
                             slot : Slots \cup {0}, known : BOOLEAN, status : Status]]
  /\ retry \in [pc : {"absent", "failed"}, todo : SUBSET Slots]
  /\ row \in [Slots -> Status]
  /\ published \subseteq Slots /\ unsent \subseteq Slots
  /\ first \in Slots \cup {0} /\ queued \subseteq Slots /\ capped \subseteq Slots
  /\ faults \in 0..MaxFaults

Init ==
  /\ phase = "connect" /\ cursor = 0 /\ endSlot = 0
  /\ reader = <<>> /\ lastQueued = 0 /\ maxSlot = 0
  /\ realtimeCh = <<>> /\ historicalCh = <<>>
  /\ worker = [w \in Workers |-> IdleWorker]
  /\ retry = Asleep
  /\ row = [s \in Slots |-> "none"]
  /\ published = {} /\ unsent = {}
  /\ first = 0 /\ queued = {} /\ capped = {}
  /\ faults = 0

\* Mutant of Room: one slot too many fits.
RoomForOneMore(channel) == Len(channel) <= QueueSize

\* A channel takes a slot without blocking.
Room(channel) == Len(channel) < QueueSize

Fault(kind) == kind \in Faults /\ faults < MaxFaults /\ faults' = faults + 1

-----------------------------------------------------------------------------
(* The slot service. *)

LastSuccess ==
  LET processed == {s \in Slots : row[s] = "processed"} IN
  IF processed = {} THEN 0 ELSE Max(processed)

\* Connected: where the backlog starts.  A failed query leaves StartBlock.
SetStartSlot ==
  /\ phase = "connect"
  /\ phase' = "bounds"
  /\ \/ /\ cursor' = IF StartBlock > 0 /\ LastSuccess > StartBlock
                     THEN LastSuccess - Redundancy ELSE StartBlock
        /\ UNCHANGED faults
     \/ StartBlock > 0 /\ Fault("database") /\ cursor' = StartBlock
  /\ UNCHANGED <<endSlot, reader, lastQueued, maxSlot, chanVars, worker, retry,
                 dataVars, historyVars>>

\* The first notification is where it ends; there is none if the read fails.
SetEndSlot ==
  /\ phase = "bounds"
  /\ phase' = "backlog"
  /\ \/ endSlot' \in Slots /\ UNCHANGED faults
     \/ Fault("socket") /\ endSlot' = 0
  /\ cursor' = IF cursor = 0 THEN endSlot' ELSE cursor
  /\ UNCHANGED <<reader, lastQueued, maxSlot, chanVars, worker, retry, dataVars,
                 historyVars>>

\* consumeHistoricalSlots queues a slot of the backlog ...
QueueBacklog ==
  /\ phase = "backlog"
  /\ cursor <= endSlot
  /\ Room(historicalCh)
  /\ historicalCh' = Append(historicalCh, cursor)
  /\ cursor' = cursor + 1
  /\ UNCHANGED <<phase, endSlot, reader, lastQueued, maxSlot, realtimeCh, worker,
                 retry, dataVars, historyVars, faults>>

\* ... and live reading begins (historicalDone).
BacklogDone ==
  /\ phase = "backlog"
  /\ cursor > endSlot
  /\ phase' = "live"
  /\ UNCHANGED <<cursor, endSlot, reader, lastQueued, maxSlot, chanVars, worker,
                 retry, dataVars, historyVars, faults>>

\* Mutant of From: gaps are not filled.
FromHere(slot) == slot

\* The first slot to queue: the one after the last one queued, but not more
\* than MaxGap before this one.
From(slot) ==
  IF lastQueued = 0 \/ slot <= lastQueued + 1 THEN slot
  ELSE Max2(lastQueued + 1, slot - MaxGap)

\* The slots from one to another, in order.
Count(from, to) == [i \in 1..(to - from + 1) |-> from + i - 1]

\* Before the last of the slots of a notification is queued, which is the one
\* notified, the two marks are set.
SetMarks(slots) ==
  IF Len(slots) = 1
  THEN lastQueued' = Max2(lastQueued, slots[1]) /\ maxSlot' = slots[1]
  ELSE UNCHANGED <<lastQueued, maxSlot>>

\* ReadSlotMessage.  Notifications may be skipped and are lost while the
\* socket is down; the last slot stands for the ones after it too.
ReadSlotMessage(slot) ==
  LET slots == Count(From(slot), slot) IN
  /\ phase = "live"
  /\ reader = <<>>
  /\ IF slot > maxSlot \/ slot = LastSlot THEN UNCHANGED faults ELSE Fault("lagging")
  /\ reader' = slots
  /\ SetMarks(slots)
  /\ capped' = capped \cup (IF lastQueued = 0 THEN {}
                            ELSE (lastQueued + 1)..(slot - MaxGap - 1))
  /\ first' = IF first = 0 THEN slot ELSE first
  /\ UNCHANGED <<phase, cursor, endSlot, chanVars, worker, retry, dataVars, queued>>

\* It queues the next of its slots.
QueueSlot ==
  /\ reader # <<>>
  /\ Room(realtimeCh)
  /\ realtimeCh' = Append(realtimeCh, Head(reader))
  /\ queued' = queued \cup {Head(reader)}
  /\ reader' = Tail(reader)
  /\ SetMarks(Tail(reader))
  /\ UNCHANGED <<phase, cursor, endSlot, historicalCh, worker, retry, dataVars,
                 first, capped, faults>>

-----------------------------------------------------------------------------
(* The retry loop (SlotNotCompleted). *)

Since == Max2(0, maxSlot - RetryWindow)

\* The n oldest and the n newest of a set of slots.
Oldest(S, n) == {s \in S : Cardinality({r \in S : r <= s}) <= n}
Newest(S, n) == {s \in S : Cardinality({r \in S : r >= s}) <= n}

\* Slots of the window without a row.
AbsentSlots ==
  {s \in Max2(maxSlot - ScanWindow, Since)..(maxSlot - Lag - 1) \cap Slots : row[s] = "none"}

\* Mutant of FailedSlots: rows with the zero status are looked for.
ZeroStatusSlots == {s \in Slots : s >= Since /\ row[s] = "zero"}

\* Failed slots of the larger window (FindProcessingSlots).
FailedSlots == {s \in Slots : s >= Since /\ row[s] = "failed"}

\* The ticker fires: absent slots are looked up, unless the query fails.
ScanAbsent ==
  /\ retry = Asleep
  /\ \/ retry' = [pc |-> "absent",
                  todo |-> IF maxSlot > 0 THEN Oldest(AbsentSlots, ScanBatch) ELSE {}]
        /\ UNCHANGED faults
     \/ Fault("database") /\ retry' = [pc |-> "absent", todo |-> {}]
  /\ UNCHANGED <<wsVars, chanVars, worker, dataVars, historyVars>>

\* Then failed ones.
ScanFailed ==
  /\ retry.pc = "absent"
  /\ retry.todo = {}
  /\ \/ retry' = [pc |-> "failed", todo |-> Newest(FailedSlots, RetryBatch)]
        /\ UNCHANGED faults
     \/ Fault("database") /\ retry' = Asleep
  /\ UNCHANGED <<wsVars, chanVars, worker, dataVars, historyVars>>

\* A slot found is queued on the live channel: absent ones oldest first, failed
\* ones newest first.
QueueRetry ==
  /\ Room(realtimeCh)
  /\ \E s \in retry.todo :
       /\ \A r \in retry.todo : IF retry.pc = "absent" THEN s <= r ELSE s >= r
       /\ realtimeCh' = Append(realtimeCh, s)
       /\ retry' = [retry EXCEPT !.todo = @ \ {s}]
  /\ UNCHANGED <<wsVars, historicalCh, worker, dataVars, historyVars, faults>>

-----------------------------------------------------------------------------
(* Block workers (ProcessBlock). *)

Step(w, state) == worker' = [worker EXCEPT ![w] = state]

\* A worker takes a slot; slot 0 is dropped.
TakeSlot(w) ==
  LET channel == IF w \in Live THEN realtimeCh ELSE historicalCh IN
  /\ worker[w].pc = "idle"
  /\ channel # <<>>
  /\ IF w \in Live
     THEN realtimeCh' = Tail(channel) /\ UNCHANGED historicalCh
     ELSE historicalCh' = Tail(channel) /\ UNCHANGED realtimeCh
  /\ IF Head(channel) = 0 THEN UNCHANGED worker
     ELSE Step(w, [IdleWorker EXCEPT !.pc = "find", !.slot = Head(channel)])
  /\ UNCHANGED <<wsVars, retry, dataVars, historyVars, faults>>

\* FindOneBySlot: is there a row?  The slot is dropped if the query fails.
FindOneBySlot(w) ==
  /\ worker[w].pc = "find"
  /\ \/ /\ Step(w, [worker[w] EXCEPT !.pc = "fetch", !.known = row[worker[w].slot] # "none"])
        /\ UNCHANGED faults
     \/ Fault("database") /\ Step(w, IdleWorker)
  /\ UNCHANGED <<wsVars, chanVars, retry, dataVars, historyVars>>

\* Mutant of Fetched: the row is written before anything was sent.
FetchedUnsent(w) == [worker[w] EXCEPT !.pc = "save", !.status = "processed"]

\* A block was fetched: its trades are to be sent first, then the row written.
Fetched(w) == [worker[w] EXCEPT !.pc = "send", !.status = "processed"]

\* getBlock, with its retries.
GetSolBlockInfo(w) ==
  /\ worker[w].pc = "fetch"
  /\ \/ /\ worker[w].slot \in NoBlock
        /\ Step(w, [worker[w] EXCEPT !.pc = "save", !.status = "skipped"])
        /\ UNCHANGED faults
     \/ /\ worker[w].slot \notin NoBlock
        /\ Step(w, Fetched(w))
        /\ UNCHANGED faults
     \/ /\ Fault("rpc")
        /\ Step(w, [worker[w] EXCEPT !.pc = "save", !.status = "failed"])
  /\ UNCHANGED <<wsVars, chanVars, retry, dataVars, historyVars>>

\* SendTx; an error is only logged.
SendTx(w) ==
  /\ worker[w].pc = "send"
  /\ \/ /\ published' = published \cup {worker[w].slot}
        /\ UNCHANGED <<unsent, faults>>
     \/ /\ Fault("kafka")
        /\ unsent' = unsent \cup {worker[w].slot}
        /\ UNCHANGED published
  /\ Step(w, [worker[w] EXCEPT !.pc = "save"])
  /\ UNCHANGED <<wsVars, chanVars, retry, row, historyVars>>

\* Insert: a row that was found is updated, another one is created, and that
\* fails if the slot has got one meanwhile (slot_index is unique).
Insert(w) ==
  LET s == worker[w].slot IN
  /\ worker[w].pc = "save"
  /\ \/ /\ row' = IF worker[w].known \/ row[s] = "none"
                  THEN [row EXCEPT ![s] = worker[w].status] ELSE row
        /\ UNCHANGED faults
     \/ Fault("database") /\ UNCHANGED row
  /\ Step(w, IdleWorker)
  /\ UNCHANGED <<wsVars, chanVars, retry, published, unsent, historyVars>>

\* The service stops and starts again with nothing but its database.
Crash ==
  /\ Fault("crash")
  /\ phase' = "connect" /\ cursor' = 0 /\ endSlot' = 0
  /\ reader' = <<>> /\ lastQueued' = 0 /\ maxSlot' = 0
  /\ realtimeCh' = <<>> /\ historicalCh' = <<>>
  /\ worker' = [w \in Workers |-> IdleWorker]
  /\ retry' = Asleep
  /\ first' = 0 /\ queued' = {} /\ capped' = {}
  /\ UNCHANGED <<dataVars>>

-----------------------------------------------------------------------------
SlotWs == \/ SetStartSlot \/ SetEndSlot \/ QueueBacklog \/ BacklogDone
          \/ \E slot \in Slots : ReadSlotMessage(slot)
          \/ QueueSlot

SlotNotCompleted == ScanAbsent \/ ScanFailed \/ QueueRetry

ProcessBlock(w) == \/ TakeSlot(w) \/ FindOneBySlot(w) \/ GetSolBlockInfo(w)
                   \/ SendTx(w) \/ Insert(w)

Next == \/ SlotWs \/ SlotNotCompleted \/ Crash
        \/ \E w \in Workers : ProcessBlock(w)

Spec == Init /\ [][Next]_vars

(***************************************************************************)
(* Fairness: the chain goes on, so that the node notifies its newest slot  *)
(* again and again, the loops and workers are scheduled, and the retry     *)
(* loop and the reader, which wait for room in one channel, both get some. *)
(***************************************************************************)
Fairness ==
  /\ WF_vars(SetStartSlot) /\ WF_vars(SetEndSlot)
  /\ WF_vars(QueueBacklog \/ BacklogDone)
  /\ WF_vars(ReadSlotMessage(LastSlot))
  /\ SF_vars(QueueSlot)
  /\ WF_vars(ScanAbsent) /\ WF_vars(ScanFailed)
  /\ SF_vars(QueueRetry)
  /\ \A w \in Workers : WF_vars(ProcessBlock(w))

FairSpec == Spec /\ Fairness

-----------------------------------------------------------------------------
(* Properties. *)

\* A slot is marked processed only after its trades were sent, by whichever
\* worker: a crash in between makes them sent twice, never not at all.
ProcessedWasPublished ==
  \A s \in Slots : row[s] = "processed" => s \in published \cup unsent

\* From the first slot notified live on, no slot up to the newest one queued is
\* left out, however notifications are lost and workers lag, except at the old
\* end of a gap that is longer than MaxGap ("Enqueue every slot between the last
\* one we handed out and this one").
GapsAreFilled ==
  first # 0 => \A s \in first..lastQueued :
                 s \in queued \cup capped \cup {reader[i] : i \in DOMAIN reader}

\* Every slot of the scanned window is processed, or recorded as skipped, for
\* good: lost notifications, failed fetches, failed queries and a restart with
\* full channels delay it only.
EverySlotSettles ==
  \A s \in Slots :
    LastSlot - ScanWindow <= s /\ s < LastSlot - Lag =>
      <>[](row[s] \in {"processed", "skipped"})
=============================================================================
