------------------------ MODULE KlinePipelineProofs ------------------------
(***************************************************************************)
(* Proofs about KlinePipeline, for any trades, candles, partitions and     *)
(* messages, and every fault.                                              *)
(*                                                                         *)
(* Inv is inductive: types, and what a merge holds at each of its points.  *)
(* VersionsStep says where a version of a candle comes from, wherever it   *)
(* is found (Redis, a merge, the channel, the batch, the table): from      *)
(* another one, from a message's candle or from a merge of the two.  What  *)
(* holds of all versions follows from it: NoTradeTwice and                 *)
(* CandleEnclosesTrades, although locks may expire.  CalmInv adds what the *)
(* locks guarantee until a harmful fault, and gives NoTradeMissing and the *)
(* refinement of CandleLedger.  RowsInv orders the versions of a candle    *)
(* that one claim makes, and gives RowNeverFallsBack.                      *)
(***************************************************************************)
EXTENDS KlinePipeline, SequenceTheorems, SumTheorems, TLAPS

-----------------------------------------------------------------------------
(* What the operators on candles return.                                   *)

LEMMA AttrType ==
  ASSUME NEW t \in Trades
  PROVE  /\ Attr[t].candle \in Candles /\ Attr[t].at \in Int
         /\ Attr[t].price \in Nat /\ Attr[t].maker \in Nat
<1> DEFINE Attrs == [candle : Candles, at : 0..Day, price : Nat \ {0}, maker : Nat,
                     side : {"buy", "sell"}]
<1>1. Attr[t] \in Attrs
  BY TradeAssumption
<1> QED
  BY <1>1

LEMMA DayType == Day \in Int
  BY DEF Day

LEMMA NewKlineType ==
  ASSUME NEW e \in Entry
  PROVE  /\ NewKlineByTrade(e) \in Kline
         /\ NewKlineByTrade(e).folded = [t \in Trades |-> IF t = e.trade THEN 1 ELSE 0]
<1> DEFINE k == NewKlineByTrade(e)
<1>1. e.trade \in Trades
  BY DEF Entry
<1>2. Attr[e.trade].price \in Nat /\ Attr[e.trade].at \in Int /\ Day \in Int
  BY <1>1, AttrType, DayType
<1>3. [t \in Trades |-> IF t = e.trade THEN 1 ELSE 0] \in [Trades -> Nat]
  OBVIOUS
<1> QED
  BY <1>2, <1>3 DEF NewKlineByTrade, Kline

LEMMA UpdateKlineType ==
  ASSUME NEW k \in Kline, NEW e \in Entry
  PROVE  /\ UpdateKlineByTrade(k, e) \in Kline
         /\ UpdateKlineByTrade(k, e).folded = [k.folded EXCEPT ![e.trade] = @ + 1]
<1> DEFINE a == Attr[e.trade]
           sums == [k EXCEPT !.folded[e.trade] = @ + 1]
           timed == [sums EXCEPT
             !.open = IF a.at < k.openAt THEN a.price ELSE @,
             !.openAt = Min2(@, a.at),
             !.close = IF a.at > k.closeAt THEN a.price ELSE @,
             !.closeAt = Max2(@, a.at),
             !.high = Max2(@, a.price),
             !.low = Min2(@, a.price)]
<1>1. e.trade \in Trades
  BY DEF Entry
<1>2. a.price \in Nat /\ a.at \in Int
  BY <1>1, AttrType
<1>3. sums \in Kline /\ sums.folded = [k.folded EXCEPT ![e.trade] = @ + 1]
  BY <1>1 DEF Kline
<1> HIDE DEF sums, a
<1>4. timed \in Kline /\ timed.folded = sums.folded
  BY <1>2, <1>3, ZenonT(60) DEF Kline, Min2, Max2
<1>5. UpdateKlineByTrade(k, e) = IF e.clamp THEN sums ELSE timed
  BY DEF UpdateKlineByTrade, sums, a
<1> QED
  BY <1>3, <1>4, <1>5

LEMMA AggregateType ==
  ASSUME NEW k \in Kline \cup {None}, NEW e \in Entry
  PROVE  /\ Aggregate(k, e) \in Kline /\ Aggregate(k, e) # None
         /\ \A t \in Trades :
              /\ t # e.trade =>
                   Aggregate(k, e).folded[t] = IF k = None THEN 0 ELSE k.folded[t]
              /\ t = e.trade =>
                   Aggregate(k, e).folded[t] = IF k = None THEN 1 ELSE k.folded[t] + 1
<1>1. e.trade \in Trades
  BY DEF Entry
<1>2. CASE k = None
  BY <1>1, <1>2, NewKlineType, NoneAssumption DEF Aggregate
<1>3. CASE k # None
  <2>1. k \in Kline /\ k.folded \in [Trades -> Nat]
    BY <1>3 DEF Kline
  <2>2. /\ UpdateKlineByTrade(k, e) \in Kline
        /\ UpdateKlineByTrade(k, e).folded = [k.folded EXCEPT ![e.trade] = @ + 1]
    BY <2>1, UpdateKlineType
  <2>3. Aggregate(k, e) = UpdateKlineByTrade(k, e)
    BY <1>3 DEF Aggregate
  <2> QED
    BY <1>1, <1>3, <2>1, <2>2, <2>3, NoneAssumption
<1> QED
  BY <1>2, <1>3

LEMMA StoredType ==
  ASSUME NEW k \in Kline
  PROVE  /\ Stored(k) \in Kline /\ Stored(k).folded = k.folded
         /\ Stored(k).open = k.open /\ Stored(k).close = k.close
         /\ Stored(k).high = k.high /\ Stored(k).low = k.low
<1>1. -1 \in Int
  OBVIOUS
<1> QED
  BY <1>1 DEF Stored, Kline

LEMMA MergeKlineType ==
  ASSUME NEW old \in Kline, NEW k \in Kline
  PROVE  /\ MergeKline(old, k) \in Kline /\ MergeKline(old, k) # None
         /\ \A t \in Trades : MergeKline(old, k).folded[t] = old.folded[t] + k.folded[t]
<1>1. [t \in Trades |-> old.folded[t] + k.folded[t]] \in [Trades -> Nat]
  BY DEF Kline
<1>2. MergeKline(old, k) \in Kline
  BY <1>1 DEF MergeKline, Kline, Min2, Max2
<1>3. MergeKline(old, k).folded = [t \in Trades |-> old.folded[t] + k.folded[t]]
  BY DEF MergeKline
<1> QED
  BY <1>2, <1>3, NoneAssumption

LEMMA DetectClaimType ==
  ASSUME NEW block \in Seq(Trades)
  PROVE  DetectClaim(block) \in Seq(Entry)
<1> DEFINE flagged(j) ==
      \E i \in j..Len(block) :
          LET his == {a \in 1..i : SameMaker(block, a, i)} IN
          /\ {Attr[block[a]].side : a \in his} = {"buy", "sell"}
          /\ \E a \in his : a <= j
          /\ Attr[block[j]].candle = Attr[block[i]].candle
<1>1. \A j : flagged(j) \in BOOLEAN
  OBVIOUS
<1>2. DetectClaim(block) = [j \in DOMAIN block |-> [trade |-> block[j], clamp |-> flagged(j)]]
  BY DEF DetectClaim
<1> HIDE DEF flagged
<1>3. DOMAIN block = 1..Len(block) /\ Len(block) \in Nat /\ \A j \in 1..Len(block) : block[j] \in Trades
  BY LenProperties, ElementOfSeq
<1>4. \A j \in 1..Len(block) : [trade |-> block[j], clamp |-> flagged(j)] \in Entry
  BY <1>1, <1>3 DEF Entry
<1> QED
  BY <1>2, <1>3, <1>4, IsASeq

-----------------------------------------------------------------------------
(* Types, and the tasks.                                                   *)

\* What a task holds, given its claim's phase and its own progress.
WellFormed(ph, r) ==
  /\ r.kline = None => r.pc \in {"idle", "send"}
  /\ r.old # None => r.pc \in {"rem", "add"}
  /\ r.pc = "rem" => r.old # None
  /\ ph \in {"idle", "filter"} => r.pc = "idle"
  /\ ph # "filter" /\ r.pc = "idle" => r.kline = None

TaskInv == \A p \in Partitions, c \in Candles : WellFormed(phase[p], task[p][c])

Inv == TypeOK /\ TaskInv

Tasks == [Partitions -> [Candles -> Task]]

\* The step of the task for candle c of p's message, and of no other.
Becomes(p, c, pc, kline, old) ==
  /\ task' \in Tasks
  /\ task'[p][c].pc = pc /\ task'[p][c].kline = kline /\ task'[p][c].old = old
  /\ \A q \in Partitions, d \in Candles : q # p \/ d # c => task'[q][d] = task[q][d]

LEMMA SetBecomes ==
  ASSUME task \in Tasks, NEW p \in Partitions, NEW c \in Candles, NEW r \in Task, Set(p, c, r)
  PROVE  Becomes(p, c, r.pc, r.kline, r.old)
<1>1. task' = [task EXCEPT ![p][c] = r]
  BY DEF Set
<1>2. task' \in Tasks
  BY <1>1 DEF Tasks
<1>3. task'[p][c] = r
  BY <1>1 DEF Tasks
<1>4. \A q \in Partitions, d \in Candles : q # p \/ d # c => task'[q][d] = task[q][d]
  BY <1>1 DEF Tasks
<1> QED
  BY <1>2, <1>3, <1>4 DEF Becomes

LEMMA IdleTaskType ==
  IdleTask \in Task /\ IdleTask.pc = "idle" /\ IdleTask.kline = None /\ IdleTask.old = None
  BY DEF IdleTask, Task

LEMMA KeepBecomes ==
  ASSUME task \in Tasks, NEW p \in Partitions, NEW e \in Entry, Keep(p, e)
  PROVE  LET c == Attr[e.trade].candle IN
         /\ c \in Candles
         /\ Becomes(p, c, task[p][c].pc, Aggregate(task[p][c].kline, e), task[p][c].old)
<1> DEFINE c == Attr[e.trade].candle
           r == [task[p][c] EXCEPT !.kline = Aggregate(@, e)]
<1>1. c \in Candles
  BY AttrType DEF Entry
<1>2. task[p][c] \in Task /\ task[p][c].kline \in Kline \cup {None}
  BY <1>1 DEF Tasks, Task
<1>3. Aggregate(task[p][c].kline, e) \in Kline
  BY <1>2, AggregateType
<1>4. /\ r \in Task /\ r.pc = task[p][c].pc /\ r.old = task[p][c].old
      /\ r.kline = Aggregate(task[p][c].kline, e)
  BY <1>2, <1>3 DEF Task
<1>5. Set(p, c, r)
  BY <1>1 DEF Keep, Set, Tasks
<1> QED
  BY <1>1, <1>4, <1>5, SetBecomes

\* The steps of a merge, as the task sees them.
LEMMA MergeSteps ==
  ASSUME Inv, NEW p \in Partitions, NEW c \in Candles
  PROVE  LET r == task[p][c] IN
         /\ GetLock(p, c) => r.pc = "lock" /\ Becomes(p, c, "locked", r.kline, r.old)
         /\ LockFails(p, c) => r.pc = "lock" /\ Becomes(p, c, "send", None, None)
         /\ ReadStored(p, c) =>
              /\ r.pc = "locked"
              /\ \/ stored[c] = {} /\ Becomes(p, c, "add", r.kline, r.old)
                 \/ \E old \in stored[c] : Becomes(p, c, "rem", r.kline, old)
         /\ ReadStoredFails(p, c) => r.pc = "locked" /\ Becomes(p, c, "send", r.kline, r.old)
         /\ RemoveStored(p, c) =>
              /\ r.pc = "rem" /\ r.kline \in Kline /\ r.old \in Kline
              /\ Becomes(p, c, "add", MergeKline(r.old, r.kline), r.old)
         /\ AddStored(p, c) =>
              r.pc = "add" /\ r.kline \in Kline /\ Becomes(p, c, "send", r.kline, None)
         /\ Send(p, c) => r.pc = "send" /\ Becomes(p, c, "idle", None, None)
<1> DEFINE r == task[p][c]
<1>1. task \in Tasks /\ r \in Task /\ WellFormed(phase[p], r)
  BY DEF Inv, TypeOK, TaskInv, Tasks
<1>2. ASSUME GetLock(p, c)
      PROVE  r.pc = "lock" /\ Becomes(p, c, "locked", r.kline, r.old)
  <2> DEFINE s == [r EXCEPT !.pc = "locked"]
  <2>1. s \in Task /\ s.pc = "locked" /\ s.kline = r.kline /\ s.old = r.old
    BY <1>1 DEF Task
  <2>2. r.pc = "lock" /\ Set(p, c, s)
    BY <1>2 DEF GetLock
  <2> QED
    BY <1>1, <2>1, <2>2, SetBecomes
<1>3. ASSUME LockFails(p, c)
      PROVE  r.pc = "lock" /\ Becomes(p, c, "send", None, None)
  <2> DEFINE s == [IdleTask EXCEPT !.pc = "send"]
  <2>1. s \in Task /\ s.pc = "send" /\ s.kline = None /\ s.old = None
    BY IdleTaskType DEF Task
  <2>2. r.pc = "lock" /\ Set(p, c, s)
    BY <1>3 DEF LockFails
  <2> QED
    BY <1>1, <2>1, <2>2, SetBecomes
<1>4. ASSUME ReadStored(p, c)
      PROVE  /\ r.pc = "locked"
             /\ \/ stored[c] = {} /\ Becomes(p, c, "add", r.kline, r.old)
                \/ \E old \in stored[c] : Becomes(p, c, "rem", r.kline, old)
  <2> DEFINE s == [r EXCEPT !.pc = "add"]
             m(old) == [r EXCEPT !.pc = "rem", !.old = old]
  <2>1. s \in Task /\ s.pc = "add" /\ s.kline = r.kline /\ s.old = r.old
    BY <1>1 DEF Task
  <2>2. \A old \in stored[c] :
          m(old) \in Task /\ m(old).pc = "rem" /\ m(old).kline = r.kline /\ m(old).old = old
    <3>1. stored[c] \subseteq Kline
      BY DEF Inv, TypeOK
    <3> QED
      BY <1>1, <3>1 DEF Task
  <2>3. /\ r.pc = "locked"
        /\ \/ stored[c] = {} /\ Set(p, c, s)
           \/ \E old \in stored[c] : Set(p, c, m(old))
    BY <1>4 DEF ReadStored
  <2>4. CASE stored[c] = {} /\ Set(p, c, s)
    BY <1>1, <2>1, <2>3, <2>4, SetBecomes
  <2>5. ASSUME NEW old \in stored[c], Set(p, c, m(old))
        PROVE  Becomes(p, c, "rem", r.kline, old)
    <3> HIDE DEF m
    <3> QED
      BY <1>1, <2>2, <2>5, SetBecomes
  <2> QED
    BY <2>3, <2>4, <2>5
<1>5. ASSUME ReadStoredFails(p, c)
      PROVE  r.pc = "locked" /\ Becomes(p, c, "send", r.kline, r.old)
  <2> DEFINE s == [r EXCEPT !.pc = "send"]
  <2>1. s \in Task /\ s.pc = "send" /\ s.kline = r.kline /\ s.old = r.old
    BY <1>1 DEF Task
  <2>2. r.pc = "locked" /\ Set(p, c, s)
    BY <1>5 DEF ReadStoredFails
  <2> QED
    BY <1>1, <2>1, <2>2, SetBecomes
<1>6. ASSUME RemoveStored(p, c)
      PROVE  /\ r.pc = "rem" /\ r.kline \in Kline /\ r.old \in Kline
             /\ Becomes(p, c, "add", MergeKline(r.old, r.kline), r.old)
  <2> DEFINE k == MergeKline(r.old, r.kline)
             s == [pc |-> "add", old |-> r.old, kline |-> k]
  <2>1. r.pc = "rem" /\ Set(p, c, s)
    BY <1>6 DEF RemoveStored
  <2>2. r.kline \in Kline /\ r.old \in Kline
    BY <1>1, <2>1 DEF WellFormed, Task
  <2>3. k \in Kline
    BY <2>2, MergeKlineType
  <2>4. s \in Task /\ s.pc = "add" /\ s.kline = k /\ s.old = r.old
    BY <2>2, <2>3 DEF Task
  <2> QED
    BY <1>1, <2>1, <2>2, <2>4, SetBecomes
<1>7. ASSUME AddStored(p, c)
      PROVE  r.pc = "add" /\ r.kline \in Kline /\ Becomes(p, c, "send", r.kline, None)
  <2> DEFINE s == [r EXCEPT !.pc = "send", !.old = None]
  <2>1. s \in Task /\ s.pc = "send" /\ s.kline = r.kline /\ s.old = None
    BY <1>1 DEF Task
  <2>2. r.pc = "add" /\ Set(p, c, s)
    BY <1>7 DEF AddStored
  <2>3. r.kline \in Kline
    BY <1>1, <2>2 DEF WellFormed, Task
  <2> QED
    BY <1>1, <2>1, <2>2, <2>3, SetBecomes
<1>8. ASSUME Send(p, c)
      PROVE  r.pc = "send" /\ Becomes(p, c, "idle", None, None)
  BY <1>1, <1>8, IdleTaskType, SetBecomes DEF Send
<1> QED
  BY <1>2, <1>3, <1>4, <1>5, <1>6, <1>7, <1>8

\* Submit starts the tasks that have a candle.
LEMMA SubmitSteps ==
  ASSUME Inv, NEW p \in Partitions, Submit(p)
  PROVE  /\ task' \in Tasks
         /\ \A q \in Partitions, c \in Candles :
              IF q = p /\ task[p][c].kline # None
              THEN /\ task[p][c].pc = "idle" /\ task'[p][c].pc = "lock"
                   /\ task'[p][c].kline = task[p][c].kline /\ task'[p][c].old = task[p][c].old
              ELSE task'[q][c] = IF q = p THEN IdleTask ELSE task[q][c]
<1> DEFINE started(c) == [task[p][c] EXCEPT !.pc = "lock"]
           new == [c \in Candles |-> IF task[p][c].kline = None THEN IdleTask ELSE started(c)]
<1>1. phase[p] = "filter" /\ task' = [task EXCEPT ![p] = new]
  BY DEF Submit
<1>2. task \in Tasks
  BY DEF Inv, TypeOK, Tasks
<1>3. ASSUME NEW c \in Candles
      PROVE  /\ task[p][c].pc = "idle" /\ started(c) \in Task /\ started(c).pc = "lock"
             /\ started(c).kline = task[p][c].kline /\ started(c).old = task[p][c].old
  <2>1. task[p][c] \in Task
    BY <1>2 DEF Tasks
  <2>2. task[p][c].pc = "idle"
    BY <1>1 DEF Inv, TaskInv, WellFormed
  <2> QED
    BY <2>1, <2>2 DEF Task
<1> HIDE DEF started
<1>4. new \in [Candles -> Task]
  BY <1>3, IdleTaskType
<1>5. task' \in Tasks
  BY <1>1, <1>2, <1>4 DEF Tasks
<1>6. ASSUME NEW q \in Partitions, NEW c \in Candles
      PROVE  task'[q][c] = IF q = p
                           THEN IF task[p][c].kline = None THEN IdleTask ELSE started(c)
                           ELSE task[q][c]
  BY <1>1, <1>2 DEF Tasks
<1> QED
  BY <1>3, <1>5, <1>6

LEMMA BecomesKeepsTaskInv ==
  ASSUME Inv, NEW p \in Partitions, NEW c \in Candles, NEW pc, NEW kline, NEW old,
         Becomes(p, c, pc, kline, old), UNCHANGED phase,
         kline = None => pc \in {"idle", "send"},
         old # None => pc \in {"rem", "add"},
         pc = "rem" => old # None,
         phase[p] \in {"idle", "filter"} => pc = "idle",
         phase[p] # "filter" /\ pc = "idle" => kline = None
  PROVE  TaskInv'
<1>1. ASSUME NEW q \in Partitions, NEW d \in Candles
      PROVE  WellFormed(phase'[q], task'[q][d])
  <2>1. CASE q = p /\ d = c
    BY <2>1 DEF Becomes, WellFormed
  <2>2. CASE q # p \/ d # c
    BY <2>2 DEF Becomes, Inv, TaskInv
  <2> QED
    BY <2>1, <2>2
<1> QED
  BY <1>1 DEF TaskInv

LEMMA MergeInv ==
  ASSUME Inv, NEW p \in Partitions, NEW c \in Candles, Merge(p, c)
  PROVE  Inv'
<1> USE DEF claimVars, redisVars, flushVars, faultVars
<1> DEFINE r == task[p][c]
<1>1. /\ r \in Task /\ WellFormed(phase[p], r)
      /\ phase[p] \in {"idle", "filter", "merge"}
      /\ stored \in [Candles -> SUBSET Kline] /\ stored[c] \subseteq Kline
  BY DEF Inv, TypeOK, TaskInv
<1>2. /\ r.pc \in {"lock", "locked", "rem", "add", "send"} /\ phase[p] = "merge"
      /\ UNCHANGED <<log, claimVars, todo, phase, seen, flusher, batch, row, failedOpen>>
  <2>1. r.pc \in {"lock", "locked", "rem", "add", "send"}
    BY DEF Merge, GetLock, LockFails, ReadStored, ReadStoredFails, RemoveStored, AddStored, Send
  <2>2. UNCHANGED <<log, claimVars, todo, phase, seen, flusher, batch, row, failedOpen>>
    BY DEF Merge, GetLock, LockFails, ReadStored, ReadStoredFails, RemoveStored, AddStored, Send
  <2> QED
    BY <1>1, <2>1, <2>2 DEF WellFormed
<1>3. task' \in Tasks /\ TaskInv'
  <2>1. CASE GetLock(p, c) \/ LockFails(p, c)
    BY <1>1, <1>2, <2>1, MergeSteps, BecomesKeepsTaskInv DEF WellFormed, Becomes
  <2>2. CASE ReadStored(p, c)
    <3>1. CASE Becomes(p, c, "add", r.kline, r.old)
      BY <1>1, <1>2, <2>2, <3>1, MergeSteps, BecomesKeepsTaskInv DEF WellFormed, Becomes
    <3>2. ASSUME NEW old \in stored[c], Becomes(p, c, "rem", r.kline, old)
          PROVE  task' \in Tasks /\ TaskInv'
      <4>1. old # None /\ r.pc = "locked"
        BY <1>1, <2>2, NoneAssumption, MergeSteps
      <4> QED
        BY <1>1, <1>2, <3>2, <4>1, BecomesKeepsTaskInv DEF WellFormed, Becomes
    <3> QED
      BY <2>2, <3>1, <3>2, MergeSteps
  <2>3. CASE ReadStoredFails(p, c)
    BY <1>1, <1>2, <2>3, MergeSteps, BecomesKeepsTaskInv DEF WellFormed, Becomes
  <2>4. CASE RemoveStored(p, c)
    <3>1. MergeKline(r.old, r.kline) # None
      BY <2>4, MergeSteps, MergeKlineType
    <3> QED
      BY <1>1, <1>2, <2>4, <3>1, MergeSteps, BecomesKeepsTaskInv DEF WellFormed, Becomes
  <2>5. CASE AddStored(p, c) \/ Send(p, c)
    BY <1>1, <1>2, <2>5, MergeSteps, BecomesKeepsTaskInv DEF WellFormed, Becomes
  <2> QED
    BY <2>1, <2>2, <2>3, <2>4, <2>5 DEF Merge
<1>4. stored' \in [Candles -> SUBSET Kline]
  <2>1. CASE AddStored(p, c)
    <3>1. Stored(r.kline) \in Kline
      BY <2>1, MergeSteps, StoredType
    <3> DEFINE added == [stored EXCEPT ![c] = @ \cup {Stored(r.kline)}]
    <3>2. added \in [Candles -> SUBSET Kline]
      BY <1>1, <3>1
    <3>3. stored' = added \/ UNCHANGED stored
      BY <2>1 DEF AddStored
    <3> QED
      BY <1>1, <3>2, <3>3
  <2>2. CASE ~AddStored(p, c)
    <3>1. UNCHANGED stored \/ stored' = [stored EXCEPT ![c] = {}]
      BY <2>2 DEF Merge, GetLock, LockFails, ReadStored, ReadStoredFails, RemoveStored, Send
    <3> QED
      BY <1>1, <3>1
  <2> QED
    BY <2>1, <2>2
<1>5. lock' \in [Candles -> Partitions \cup {Free}]
  <2>1. \/ UNCHANGED lock \/ lock' = [lock EXCEPT ![c] = p] \/ lock' = [lock EXCEPT ![c] = Free]
    BY DEF Merge, GetLock, LockFails, ReadStored, ReadStoredFails, RemoveStored, AddStored, Send,
           Release
  <2> QED
    BY <2>1 DEF Inv, TypeOK
<1>6. channel' \in Seq([candle : Candles, kline : Kline \cup {None}])
  <2> DEFINE Entries == [candle : Candles, kline : Kline \cup {None}]
             entry == [candle |-> c, kline |-> r.kline]
  <2>1. UNCHANGED channel \/ channel' = Append(channel, entry)
    BY DEF Merge, GetLock, LockFails, ReadStored, ReadStoredFails, RemoveStored, AddStored, Send
  <2>2. entry \in Entries
    BY <1>1 DEF Task
  <2>3. channel \in Seq(Entries)
    BY DEF Inv, TypeOK
  <2> HIDE DEF entry, Entries
  <2>4. Append(channel, entry) \in Seq(Entries)
    BY <2>2, <2>3, AppendProperties
  <2>5. channel' \in Seq(Entries)
    BY <2>1, <2>3, <2>4
  <2> QED
    BY <2>5 DEF Entries
<1>7. occurred' \subseteq FaultKinds /\ faults' \in 0..MaxFaults
  <2>1. NoFault \/ \E kind \in FaultKinds : Fault(kind)
    BY DEF Merge, GetLock, LockFails, ReadStored, ReadStoredFails, RemoveStored, AddStored, Send,
           CommandFails, NoFault, FaultKinds
  <2> QED
    BY <2>1, LimitAssumption DEF Inv, TypeOK, NoFault, Fault
<1>8. UNCHANGED <<log, next, marked, committed, cancelled, todo, phase, seen, flusher, batch, row,
                  failedOpen>>
  BY <1>2
<1> QED
  BY <1>3, <1>4, <1>5, <1>6, <1>7, <1>8 DEF Inv, TypeOK, Tasks

LEMMA FaultType ==
  ASSUME TypeOK, NoFault \/ \E kind \in FaultKinds : Fault(kind)
  PROVE  occurred \subseteq occurred' /\ occurred' \subseteq FaultKinds /\ faults' \in 0..MaxFaults
BY LimitAssumption DEF TypeOK, NoFault, Fault

LEMMA HeadOfTodo ==
  ASSUME TypeOK, NEW p \in Partitions, todo[p] # <<>>
  PROVE  /\ Head(todo[p]) \in Entry /\ Head(todo[p]) = todo[p][1] /\ Head(todo[p]).trade \in Trades
         /\ Tail(todo[p]) \in Seq(Entry) /\ Len(todo[p]) \in Nat \ {0}
         /\ Len(Tail(todo[p])) = Len(todo[p]) - 1
         /\ \A i \in 1..Len(Tail(todo[p])) : Tail(todo[p])[i] = todo[p][i + 1]
<1>1. todo[p] \in Seq(Entry)
  BY DEF TypeOK
<1>2. Head(todo[p]) \in Entry /\ Head(todo[p]) = todo[p][1]
  BY <1>1, HeadTailProperties
<1>3. Head(todo[p]).trade \in Trades
  BY <1>2 DEF Entry
<1> QED
  BY <1>1, <1>2, <1>3, HeadTailProperties, EmptySeq, LenProperties

\* Both outcomes of the check for one trade.
LEMMA CheckInv ==
  ASSUME Inv, NEW p \in Partitions, CheckSeen(p) \/ CheckSeenFails(p)
  PROVE  Inv'
<1> USE DEF claimVars, redisVars, flushVars, faultVars
<1> DEFINE e == Head(todo[p])
           c == Attr[e.trade].candle
<1>1. /\ phase[p] = "filter" /\ todo[p] # <<>>
      /\ todo' = [todo EXCEPT ![p] = Tail(@)]
      /\ Keep(p, e) \/ UNCHANGED task
      /\ UNCHANGED <<log, next, marked, committed, cancelled, phase, stored, lock, flushVars>>
  BY DEF CheckSeen, CheckSeenFails
<1>2. e \in Entry /\ e.trade \in Trades /\ Tail(todo[p]) \in Seq(Entry)
  BY <1>1, HeadOfTodo DEF Inv
<1>3. todo' \in [Partitions -> Seq(Entry)]
  BY <1>1, <1>2 DEF Inv, TypeOK
<1>4. seen' \subseteq Trades /\ failedOpen' \subseteq Trades
  BY <1>2 DEF CheckSeen, CheckSeenFails, Inv, TypeOK
<1>5. occurred' \subseteq FaultKinds /\ faults' \in 0..MaxFaults
  <2>1. NoFault \/ \E kind \in FaultKinds : Fault(kind)
    BY DEF CheckSeen, CheckSeenFails, NoFault, FaultKinds
  <2> QED
    BY <2>1, FaultType DEF Inv
<1>6. task' \in Tasks /\ TaskInv'
  <2>1. CASE UNCHANGED task
    BY <1>1, <2>1 DEF Inv, TypeOK, Tasks, TaskInv
  <2>2. CASE Keep(p, e)
    <3> DEFINE r == task[p][c]
               k == Aggregate(r.kline, e)
    <3>1. c \in Candles /\ Becomes(p, c, r.pc, k, r.old) /\ task \in Tasks
      BY <1>2, <2>2, KeepBecomes, SMTT(30) DEF Inv, TypeOK, Tasks
    <3>2. r \in Task /\ WellFormed(phase[p], r) /\ r.kline \in Kline \cup {None}
      <4> HIDE DEF c
      <4>1. r \in Task
        BY <3>1 DEF Tasks
      <4>2. WellFormed(phase[p], r)
        BY <3>1 DEF Inv, TaskInv
      <4> QED
        BY <4>1, <4>2 DEF Task
    <3>3. k # None
      BY <1>2, <3>2, AggregateType
    <3> HIDE DEF k, c
    <3> QED
      BY <1>1, <3>1, <3>2, <3>3, BecomesKeepsTaskInv DEF WellFormed, Becomes
  <2> QED
    BY <1>1, <2>1, <2>2
<1> QED
  BY <1>1, <1>3, <1>4, <1>5, <1>6 DEF Inv, TypeOK, Tasks

LEMMA ClaimInv ==
  ASSUME Inv, NEW p \in Partitions, Claim(p)
  PROVE  Inv'
<1> USE DEF claimVars, redisVars, flushVars, faultVars
<1>1. ASSUME NEW message \in Messages[p], Publish(p, message)
      PROVE  Inv'
  <2>1. DetectClaim(message) \in Seq(Entry)
    BY MessageAssumption, DetectClaimType
  <2>2. log[p] \in Seq(Seq(Entry))
    BY DEF Inv, TypeOK
  <2>3. Append(log[p], DetectClaim(message)) \in Seq(Seq(Entry))
    BY <2>1, <2>2, AppendProperties
  <2>4. log' \in [Partitions -> Seq(Seq(Entry))]
    BY <1>1, <2>3 DEF Publish, Inv, TypeOK
  <2> QED
    BY <1>1, <2>4 DEF Publish, Inv, TypeOK, TaskInv
<1>2. CASE Receive(p)
  <2>1. log[p] \in Seq(Seq(Entry)) /\ next[p] \in Nat /\ next[p] < Len(log[p])
    BY <1>2 DEF Receive, Inv, TypeOK
  <2>2. log[p][next[p] + 1] \in Seq(Entry)
    <3>1. Len(log[p]) \in Nat
      BY <2>1, LenProperties
    <3>2. next[p] + 1 \in 1..Len(log[p])
      BY <2>1, <3>1
    <3> QED
      BY <2>1, <3>2, ElementOfSeq
  <2>3. todo' \in [Partitions -> Seq(Entry)] /\ next' \in [Partitions -> Nat]
    BY <1>2, <2>1, <2>2 DEF Receive, Inv, TypeOK
  <2>4. phase' = [phase EXCEPT ![p] = "filter"] /\ UNCHANGED task /\ phase[p] = "idle"
    BY <1>2 DEF Receive
  <2>5. TaskInv'
    BY <2>4 DEF Inv, TypeOK, TaskInv, WellFormed
  <2> QED
    BY <1>2, <2>3, <2>4, <2>5 DEF Receive, Inv, TypeOK
<1>3. CASE CheckSeen(p) \/ CheckSeenFails(p)
  BY <1>3, CheckInv
<1>4. CASE Submit(p)
  <2>1. /\ phase' = [phase EXCEPT ![p] = "merge"] /\ phase[p] = "filter"
        /\ UNCHANGED <<log, claimVars, todo, redisVars, flushVars, faultVars>>
    BY <1>4 DEF Submit
  <2>2. task' \in Tasks
    BY <1>4, SubmitSteps
  <2>3. ASSUME NEW q \in Partitions, NEW c \in Candles
        PROVE  WellFormed(phase'[q], task'[q][c])
    <3>1. WellFormed(phase[q], task[q][c]) /\ phase' \in [Partitions -> {"idle", "filter", "merge"}]
      BY <2>1 DEF Inv, TypeOK, TaskInv
    <3>2. CASE q = p
      BY <1>4, <2>1, <3>1, <3>2, SubmitSteps, IdleTaskType DEF WellFormed, Inv, TypeOK
    <3>3. CASE q # p
      <4>1. task'[q][c] = task[q][c]
        BY <1>4, <3>3, SubmitSteps
      <4>2. phase'[q] = phase[q]
        BY <2>1, <3>3 DEF Inv, TypeOK
      <4> QED
        BY <3>1, <4>1, <4>2
    <3> QED
      BY <3>2, <3>3
  <2> QED
    BY <2>1, <2>2, <2>3 DEF Inv, TypeOK, Tasks, TaskInv
<1>5. CASE Finish(p)
  <2>1. /\ phase' = [phase EXCEPT ![p] = "idle"] /\ phase[p] = "merge"
        /\ \A c \in Candles : task[p][c].pc = "idle"
        /\ UNCHANGED <<log, next, committed, cancelled, todo, task, redisVars, flushVars,
                       faultVars>>
    BY <1>5 DEF Finish
  <2>2. marked' \in [Partitions -> Nat]
    BY <1>5 DEF Finish, Inv, TypeOK, Max2
  <2>3. TaskInv'
    BY <2>1 DEF Inv, TypeOK, TaskInv, WellFormed
  <2> QED
    BY <2>1, <2>2, <2>3 DEF Inv, TypeOK
<1>6. CASE Commit(p)
  BY <1>6 DEF Commit, Inv, TypeOK, TaskInv
<1>7. CASE Rebalance(p)
  <2>1. occurred' \subseteq FaultKinds /\ faults' \in 0..MaxFaults
    BY <1>7, FaultType DEF Rebalance, FaultKinds, Inv
  <2> QED
    BY <1>7, <2>1 DEF Rebalance, Inv, TypeOK, TaskInv
<1>8. CASE Resume(p)
  <2>1. ResumeAt(p) \in Nat
    <3>1. committed[p] \in Nat /\ Len(log[p]) \in Nat
      BY LenProperties DEF Inv, TypeOK
    <3> QED
      BY <3>1 DEF ResumeAt
  <2> QED
    BY <1>8, <2>1 DEF Resume, Inv, TypeOK, TaskInv
<1> QED
  BY <1>1, <1>2, <1>3, <1>4, <1>5, <1>6, <1>7, <1>8 DEF Claim

LEMMA CrashInv ==
  ASSUME Inv, Crash
  PROVE  Inv'
<1> USE DEF redisVars
<1>1. \A p \in Partitions : ResumeAt(p) \in Nat
  <2>1. \A p \in Partitions : committed[p] \in Nat /\ Len(log[p]) \in Nat
    BY LenProperties DEF Inv, TypeOK
  <2> QED
    BY <2>1 DEF ResumeAt
<1>2. task' = [p \in Partitions |-> IdleTasks] /\ phase' = [p \in Partitions |-> "idle"]
  BY DEF Crash
<1>3. task' \in Tasks /\ TaskInv'
  BY <1>2, IdleTaskType DEF Tasks, IdleTasks, TaskInv, WellFormed
<1>4. occurred' \subseteq FaultKinds /\ faults' \in 0..MaxFaults
  BY FaultType DEF Crash, FaultKinds, Inv
<1>5. /\ next' \in [Partitions -> Nat] /\ marked' \in [Partitions -> Nat]
      /\ cancelled' \in [Partitions -> BOOLEAN] /\ flusher' \in BOOLEAN
      /\ batch' \in [Candles -> Kline \cup {None}]
      /\ phase' \in [Partitions -> {"idle", "filter", "merge"}]
  BY <1>1 DEF Crash, Inv, TypeOK
<1>6. todo' \in [Partitions -> Seq(Entry)]
  BY EmptySeq DEF Crash
<1>7. channel' \in Seq([candle : Candles, kline : Kline \cup {None}])
  BY EmptySeq DEF Crash
<1>8. UNCHANGED <<log, committed, seen, stored, lock, row, failedOpen>>
  BY DEF Crash
<1> QED
  BY <1>3, <1>4, <1>5, <1>6, <1>7, <1>8 DEF Inv, TypeOK, Tasks

LEMMA HeadOfChannel ==
  ASSUME TypeOK, channel # <<>>
  PROVE  /\ Head(channel) = channel[1] /\ 1 \in 1..Len(channel)
         /\ Head(channel).candle \in Candles /\ Head(channel).kline \in Kline \cup {None}
         /\ Tail(channel) \in Seq([candle : Candles, kline : Kline \cup {None}])
         /\ Len(Tail(channel)) = Len(channel) - 1
         /\ \A i \in 1..Len(Tail(channel)) :
              i + 1 \in 1..Len(channel) /\ Tail(channel)[i] = channel[i + 1]
<1> DEFINE Entries == [candle : Candles, kline : Kline \cup {None}]
<1>1. channel \in Seq(Entries)
  BY DEF TypeOK
<1>2. \A x \in Entries : x.candle \in Candles /\ x.kline \in Kline \cup {None}
  OBVIOUS
<1> HIDE DEF Entries
<1>3. /\ Head(channel) \in Entries /\ Head(channel) = channel[1]
      /\ Tail(channel) \in Seq(Entries) /\ Len(Tail(channel)) = Len(channel) - 1
      /\ \A i \in 1..Len(Tail(channel)) : Tail(channel)[i] = channel[i + 1]
  BY <1>1, HeadTailProperties
<1>4. Len(channel) \in Nat \ {0}
  BY <1>1, LenProperties, EmptySeq
<1>5. 1 \in 1..Len(channel) /\ \A i \in 1..(Len(channel) - 1) : i + 1 \in 1..Len(channel)
  BY <1>4
<1>6. Tail(channel) \in Seq([candle : Candles, kline : Kline \cup {None}])
  BY <1>3 DEF Entries
<1> QED
  BY <1>2, <1>3, <1>5, <1>6

LEMMA TakeKlineInv ==
  ASSUME Inv, TakeKline
  PROVE  Inv'
<1> USE DEF claimVars, redisVars, faultVars
<1> DEFINE head == Head(channel)
<1>1. channel # <<>> /\ channel' = Tail(channel) /\ flusher' \in BOOLEAN
  BY DEF TakeKline, Inv, TypeOK
<1>2. head.candle \in Candles /\ head.kline \in Kline \cup {None}
  BY <1>1, HeadOfChannel DEF Inv
<1>3. channel' \in Seq([candle : Candles, kline : Kline \cup {None}])
  BY <1>1, HeadOfChannel DEF Inv
<1>4. UNCHANGED batch \/ batch' = [batch EXCEPT ![head.candle] = head.kline]
  BY DEF TakeKline
<1>5. batch' \in [Candles -> Kline \cup {None}]
  BY <1>2, <1>4 DEF Inv, TypeOK
<1>6. UNCHANGED <<log, claimVars, todo, phase, task, redisVars, row, faultVars>>
  BY DEF TakeKline
<1> QED
  BY <1>1, <1>3, <1>5, <1>6 DEF Inv, TypeOK, TaskInv

LEMMA FlushInv ==
  ASSUME Inv, Flush
  PROVE  Inv'
<1> USE DEF claimVars, redisVars
<1>1. PICK failed \in SUBSET Candles :
        /\ IF failed = {} THEN NoFault ELSE Fault("mysql")
        /\ row' = [c \in Candles |-> IF batch[c] = None \/ c \in failed THEN row[c] ELSE batch[c]]
  BY DEF Flush
<1>2. occurred' \subseteq FaultKinds /\ faults' \in 0..MaxFaults
  <2>1. NoFault \/ Fault("mysql")
    BY <1>1
  <2> QED
    BY <2>1, FaultType DEF Inv, FaultKinds
<1>3. /\ row' \in [Candles -> Kline \cup {None}] /\ batch' \in [Candles -> Kline \cup {None}]
      /\ UNCHANGED <<log, claimVars, todo, phase, task, redisVars, channel, flusher, failedOpen>>
  BY <1>1 DEF Flush, Inv, TypeOK
<1> QED
  BY <1>2, <1>3 DEF Inv, TypeOK, TaskInv

LEMMA LockExpiresInv ==
  ASSUME Inv, NEW c \in Candles, LockExpires(c)
  PROVE  Inv'
<1> USE DEF claimVars, flushVars
<1>1. NoFault \/ Fault("expiry")
  BY DEF LockExpires
<1>2. occurred' \subseteq FaultKinds /\ faults' \in 0..MaxFaults
  BY <1>1, FaultType DEF Inv, FaultKinds
<1>3. /\ lock' \in [Candles -> Partitions \cup {Free}]
      /\ UNCHANGED <<log, claimVars, todo, phase, task, seen, stored, flushVars, failedOpen>>
  BY DEF LockExpires, Inv, TypeOK
<1> QED
  BY <1>2, <1>3 DEF Inv, TypeOK, TaskInv

LEMMA InitInv == Init => Inv
<1> SUFFICES ASSUME Init PROVE Inv
  OBVIOUS
<1>1. task \in Tasks /\ \A p \in Partitions, c \in Candles : task[p][c] = IdleTask
  BY IdleTaskType DEF Init, Tasks, IdleTasks
<1>2. TaskInv
  BY <1>1, IdleTaskType DEF Init, TaskInv, WellFormed
<1>3. log \in [Partitions -> Seq(Seq(Entry))] /\ todo \in [Partitions -> Seq(Entry)]
  BY EmptySeq DEF Init
<1>4. channel \in Seq([candle : Candles, kline : Kline \cup {None}])
  BY EmptySeq DEF Init
<1>5. faults \in 0..MaxFaults
  BY LimitAssumption DEF Init
<1>6. /\ next \in [Partitions -> Nat] /\ marked \in [Partitions -> Nat]
      /\ committed \in [Partitions -> Nat] /\ cancelled \in [Partitions -> BOOLEAN]
      /\ phase \in [Partitions -> {"idle", "filter", "merge"}]
      /\ seen \subseteq Trades /\ stored \in [Candles -> SUBSET Kline]
      /\ lock \in [Candles -> Partitions \cup {Free}] /\ flusher \in BOOLEAN
      /\ batch \in [Candles -> Kline \cup {None}] /\ row \in [Candles -> Kline \cup {None}]
      /\ occurred \subseteq FaultKinds /\ failedOpen \subseteq Trades
  BY DEF Init
<1> QED
  BY <1>1, <1>2, <1>3, <1>4, <1>5, <1>6 DEF Inv, TypeOK, Tasks

LEMMA StepInv == Inv /\ [Next]_vars => Inv'
<1> SUFFICES ASSUME Inv, [Next]_vars PROVE Inv'
  OBVIOUS
<1>1. CASE UNCHANGED vars
  BY <1>1 DEF vars, claimVars, redisVars, flushVars, faultVars, Inv, TypeOK, TaskInv
<1>2. ASSUME NEW p \in Partitions, Claim(p) PROVE Inv'
  BY <1>2, ClaimInv
<1>3. ASSUME NEW p \in Partitions, NEW c \in Candles, Merge(p, c) PROVE Inv'
  BY <1>3, MergeInv
<1>4. ASSUME NEW c \in Candles, LockExpires(c) PROVE Inv'
  BY <1>4, LockExpiresInv
<1> QED
  BY <1>1, <1>2, <1>3, <1>4, CrashInv, TakeKlineInv, FlushInv DEF Next

LEMMA InvHolds == Spec => []Inv
  BY InitInv, StepInv, PTL DEF Spec

\* The variables keep their types.
THEOREM TypeCorrect == Spec => []TypeOK
<1>1. Inv => TypeOK
  BY DEF Inv
<1> QED
  BY <1>1, InvHolds, PTL

-----------------------------------------------------------------------------
(* The versions of a candle: where they are, and where they come from.     *)

\* On its way to the table, or there.
IsSent(k, c) ==
  \/ k = row[c] \/ k = batch[c]
  \/ \E i \in 1..Len(channel) : channel[i].candle = c /\ channel[i].kline = k

\* In a merge: the member that was read, or the result.
IsMerging(k, c) ==
  \E p \in Partitions :
    \/ k = task[p][c].old
    \/ task[p][c].pc \in {"add", "send"} /\ k = task[p][c].kline

IsVersion(k, c) == k \in stored[c] \/ IsSent(k, c) \/ IsMerging(k, c)

LEMMA KlinesAreVersions ==
  ASSUME TypeOK, NEW c \in Candles, NEW k \in Klines(c)
  PROVE  k \in Kline /\ IsVersion(k, c)
<1>1. /\ stored[c] \subseteq Kline /\ row[c] \in Kline \cup {None} /\ batch[c] \in Kline \cup {None}
      /\ channel \in Seq([candle : Candles, kline : Kline \cup {None}])
  BY DEF TypeOK
<1>2. CASE k \in stored[c]
  BY <1>1, <1>2 DEF IsVersion
<1>3. CASE k \in {row[c], batch[c]} \ {None}
  BY <1>1, <1>3 DEF IsVersion, IsSent
<1>4. CASE k \in {channel[i].kline : i \in {j \in 1..Len(channel) : channel[j].candle = c}} \ {None}
  <2>1. PICK i \in 1..Len(channel) : channel[i].candle = c /\ channel[i].kline = k
    BY <1>4
  <2>2. channel[i] \in [candle : Candles, kline : Kline \cup {None}]
    BY <1>1, ElementOfSeq
  <2>3. k \in Kline \cup {None}
    BY <2>1, <2>2
  <2> QED
    BY <1>4, <2>1, <2>3 DEF IsVersion, IsSent
<1> QED
  BY <1>2, <1>3, <1>4 DEF Klines

\* The same candle, but for the two times.
Alike(k, l) ==
  /\ k.folded = l.folded /\ k.open = l.open /\ k.close = l.close
  /\ k.high = l.high /\ k.low = l.low

\* The step makes a version of candle c out of a message's candle, as it is ...
Unmerged(k, c) ==
  \E p \in Partitions :
    task[p][c].pc = "locked" /\ k = task[p][c].kline /\ task'[p][c].pc \in {"add", "send"}

\* ... or merged with the member that was read.
Merging(k, c) ==
  \E p \in Partitions :
    /\ task[p][c].pc = "rem" /\ task'[p][c].pc = "add"
    /\ task[p][c].old \in Kline /\ task[p][c].kline \in Kline
    /\ k = MergeKline(task[p][c].old, task[p][c].kline)

Origin(k, c) ==
  \/ \E l \in Kline : IsVersion(l, c) /\ Alike(k, l)
  \/ Unmerged(k, c)
  \/ Merging(k, c)

LEMMA SameOrigin ==
  ASSUME NEW k \in Kline, NEW c, IsVersion(k, c)
  PROVE  Origin(k, c)
BY DEF Origin, Alike

\* Versions in merges, when one task moves on.
LEMMA MergeOrigin ==
  ASSUME Inv, NEW p \in Partitions, NEW d \in Candles, Merge(p, d),
         NEW c \in Candles, NEW k \in Kline, IsVersion(k, c)'
  PROVE  Origin(k, c)
<1> USE DEF flushVars
<1> DEFINE r == task[p][d]
<1>1. ASSUME k \in stored'[c], k \notin stored[c]
      PROVE  Origin(k, c)
  <2>1. /\ AddStored(p, d) /\ stored' = [stored EXCEPT ![d] = @ \cup {Stored(r.kline)}]
    BY <1>1 DEF Merge, GetLock, LockFails, ReadStored, ReadStoredFails, RemoveStored, AddStored,
                Send, redisVars, Inv, TypeOK
  <2>2. d = c /\ k = Stored(r.kline)
    BY <1>1, <2>1 DEF Inv, TypeOK
  <2>3. r.pc = "add" /\ r.kline \in Kline
    BY <2>1, MergeSteps
  <2>4. Alike(k, r.kline)
    BY <2>2, <2>3, StoredType DEF Alike
  <2>5. IsVersion(r.kline, c)
    BY <2>2, <2>3 DEF IsVersion, IsMerging
  <2> QED
    BY <2>3, <2>4, <2>5 DEF Origin
<1>2. ASSUME IsSent(k, c)'
      PROVE  Origin(k, c)
  <2>1. UNCHANGED <<row, batch>>
    BY DEF Merge, GetLock, LockFails, ReadStored, ReadStoredFails, RemoveStored, AddStored, Send
  <2>2. CASE IsSent(k, c)
    BY <2>2, SameOrigin DEF IsVersion
  <2>3. CASE ~IsSent(k, c)
    <3> DEFINE entry == [candle |-> d, kline |-> r.kline]
               Entries == [candle : Candles, kline : Kline \cup {None}]
    <3>1. Send(p, d) /\ channel' = Append(channel, entry)
      BY <1>2, <2>1, <2>3 DEF IsSent, Merge, GetLock, LockFails, ReadStored, ReadStoredFails,
                              RemoveStored, AddStored, Send
    <3>2. r.pc = "send" /\ entry \in Entries
      BY <3>1, MergeSteps DEF Inv, TypeOK, Task
    <3>3. channel \in Seq(Entries)
      BY DEF Inv, TypeOK
    <3>4. entry.candle = d /\ entry.kline = r.kline
      OBVIOUS
    <3> HIDE DEF entry, Entries
    <3>5. /\ Len(channel') = Len(channel) + 1 /\ channel'[Len(channel) + 1] = entry
          /\ \A i \in 1..Len(channel) : channel'[i] = channel[i]
      BY <3>1, <3>2, <3>3, AppendProperties
    <3>6. Len(channel) \in Nat
      BY <3>3, LenProperties
    <3>7. d = c /\ k = r.kline
      BY <1>2, <2>1, <2>3, <3>4, <3>5, <3>6 DEF IsSent
    <3> QED
      BY <3>2, <3>7, SameOrigin, SMTT(30) DEF IsVersion, IsMerging
  <2> QED
    BY <2>2, <2>3
<1>3. ASSUME IsMerging(k, c)', ~IsMerging(k, c)
      PROVE  Origin(k, c)
  <2>1. k # None
    BY NoneAssumption
  <2>2. PICK q \in Partitions : \/ k = task'[q][c].old
                                \/ task'[q][c].pc \in {"add", "send"} /\ k = task'[q][c].kline
    BY <1>3 DEF IsMerging
  <2>3. task'[q][c] # task[q][c]
    BY <1>3, <2>2 DEF IsMerging
  <2>4. \E pc, kline, old : Becomes(p, d, pc, kline, old)
    BY MergeSteps DEF Merge
  <2>5. q = p /\ c = d
    BY <2>3, <2>4 DEF Becomes
  <2>6. CASE GetLock(p, c) \/ LockFails(p, c) \/ AddStored(p, c) \/ Send(p, c)
    BY <1>3, <2>1, <2>2, <2>5, <2>6, MergeSteps DEF Becomes, IsMerging
  <2>7. CASE ReadStored(p, c)
    <3>1. CASE Becomes(p, c, "add", r.kline, r.old)
      BY <1>3, <2>2, <2>5, <2>7, <3>1, MergeSteps DEF Becomes, IsMerging, Unmerged, Origin
    <3>2. ASSUME NEW old \in stored[c], Becomes(p, c, "rem", r.kline, old)
          PROVE  Origin(k, c)
      <4>1. k \in stored[c]
        BY <2>2, <2>5, <3>2 DEF Becomes
      <4> QED
        BY <4>1, SameOrigin DEF IsVersion
    <3> QED
      BY <2>5, <2>7, <3>1, <3>2, MergeSteps
  <2>8. CASE ReadStoredFails(p, c)
    BY <1>3, <2>2, <2>5, <2>8, MergeSteps DEF Becomes, IsMerging, Unmerged, Origin
  <2>9. CASE RemoveStored(p, c)
    BY <1>3, <2>2, <2>5, <2>9, MergeSteps DEF Becomes, IsMerging, Merging, Origin
  <2> QED
    BY <2>5, <2>6, <2>7, <2>8, <2>9 DEF Merge
<1> QED
  BY <1>1, <1>2, <1>3, SameOrigin DEF IsVersion

\* The other steps only move versions.
LEMMA ClaimOrigin ==
  ASSUME Inv, NEW p \in Partitions, Claim(p),
         NEW c \in Candles, NEW k \in Kline, IsVersion(k, c)'
  PROVE  IsVersion(k, c)
<1> USE DEF redisVars, flushVars
<1>1. UNCHANGED <<stored, row, batch, channel>>
  BY DEF Claim, Publish, Receive, CheckSeen, CheckSeenFails, Submit, Finish, Commit, Rebalance,
         Resume
<1>2. ASSUME IsMerging(k, c)'
      PROVE  IsMerging(k, c)
  <2>1. k # None
    BY NoneAssumption
  <2>2. PICK q \in Partitions : \/ k = task'[q][c].old
                                \/ task'[q][c].pc \in {"add", "send"} /\ k = task'[q][c].kline
    BY <1>2 DEF IsMerging
  <2>3. CASE UNCHANGED task
    BY <1>2, <2>3 DEF IsMerging
  <2>4. CASE Submit(p)
    <3>1. task'[q][c] = task[q][c] \/ (task'[q][c].pc = "lock" /\ task'[q][c].old = task[q][c].old)
            \/ task'[q][c] = IdleTask
      BY <2>4, SubmitSteps
    <3> QED
      BY <2>1, <2>2, <3>1, IdleTaskType DEF IsMerging
  <2>5. CASE (CheckSeen(p) \/ CheckSeenFails(p)) /\ Keep(p, Head(todo[p]))
    <3> DEFINE d == Attr[Head(todo[p]).trade].candle
    <3>1. Head(todo[p]) \in Entry /\ phase[p] = "filter" /\ task \in Tasks
      BY <2>5, HeadOfTodo DEF CheckSeen, CheckSeenFails, Inv, TypeOK, Tasks
    <3>2. PICK kline : d \in Candles /\ Becomes(p, d, task[p][d].pc, kline, task[p][d].old)
      BY <2>5, <3>1, KeepBecomes, SMTT(30)
    <3>3. task[p][d].pc = "idle"
      BY <3>1, <3>2 DEF Inv, TaskInv, WellFormed
    <3> HIDE DEF d
    <3> QED
      BY <2>2, <3>2, <3>3 DEF Becomes, IsMerging
  <2> QED
    BY <2>3, <2>4, <2>5 DEF Claim, Publish, Receive, CheckSeen, CheckSeenFails, Finish, Commit,
                            Rebalance, Resume
<1> QED
  BY <1>1, <1>2 DEF IsVersion, IsSent

LEMMA TakeKlineOrigin ==
  ASSUME Inv, TakeKline, NEW c \in Candles, NEW k \in Kline, IsVersion(k, c)'
  PROVE  IsVersion(k, c)
<1> DEFINE head == Head(channel)
<1>1. /\ channel # <<>> /\ channel' = Tail(channel)
      /\ UNCHANGED batch \/ batch' = [batch EXCEPT ![head.candle] = head.kline]
      /\ UNCHANGED <<stored, task, row>>
  BY DEF TakeKline, redisVars
<1>2. /\ head = channel[1] /\ 1 \in 1..Len(channel)
      /\ \A i \in 1..Len(Tail(channel)) :
           i + 1 \in 1..Len(channel) /\ Tail(channel)[i] = channel[i + 1]
  BY <1>1, HeadOfChannel DEF Inv
<1>3. IsMerging(k, c)' => IsMerging(k, c)
  BY <1>1 DEF IsMerging
<1>4. IsSent(k, c)' => IsSent(k, c)
  <2>1. k = batch'[c] => IsSent(k, c)
    BY <1>1, <1>2, ZenonT(60) DEF IsSent, Inv, TypeOK
  <2>2. ASSUME NEW i \in 1..Len(channel'), channel'[i].candle = c, channel'[i].kline = k
        PROVE  IsSent(k, c)
    BY <1>1, <1>2, <2>2 DEF IsSent
  <2> QED
    BY <1>1, <2>1, <2>2 DEF IsSent
<1> QED
  BY <1>1, <1>3, <1>4 DEF IsVersion

LEMMA FlushOrigin ==
  ASSUME Inv, Flush \/ Crash \/ (\E d \in Candles : LockExpires(d)) \/ UNCHANGED vars,
         NEW c \in Candles, NEW k \in Kline, IsVersion(k, c)'
  PROVE  IsVersion(k, c)
<1> USE DEF redisVars, flushVars
<1>1. k # None
  BY NoneAssumption
<1>2. CASE (\E d \in Candles : LockExpires(d)) \/ UNCHANGED vars
  BY <1>2 DEF LockExpires, vars, IsVersion, IsSent, IsMerging
<1>3. CASE Flush
  <2>1. /\ row'[c] = row[c] \/ row'[c] = batch[c]
        /\ batch'[c] = None /\ UNCHANGED <<stored, task, channel>>
    BY <1>3 DEF Flush
  <2> QED
    BY <1>1, <2>1 DEF IsVersion, IsSent, IsMerging
<1>4. CASE Crash
  <2>1. /\ batch'[c] = None /\ UNCHANGED <<stored, row>> /\ channel' = <<>>
        /\ \A p \in Partitions : task'[p][c] = IdleTask
    BY <1>4 DEF Crash, IdleTasks
  <2>2. ~IsMerging(k, c)'
    BY <1>1, <2>1, IdleTaskType DEF IsMerging
  <2>3. IsSent(k, c)' => k = row[c]
    BY <1>1, <2>1 DEF IsSent
  <2> QED
    BY <2>1, <2>2, <2>3 DEF IsVersion, IsSent
<1> QED
  BY <1>2, <1>3, <1>4

LEMMA VersionsStep ==
  ASSUME Inv, [Next]_vars, NEW c \in Candles, NEW k \in Kline, IsVersion(k, c)'
  PROVE  Origin(k, c)
<1>1. ASSUME NEW p \in Partitions, Claim(p) PROVE Origin(k, c)
  BY <1>1, ClaimOrigin, SameOrigin
<1>2. ASSUME NEW p \in Partitions, NEW d \in Candles, Merge(p, d) PROVE Origin(k, c)
  BY <1>2, MergeOrigin
<1>3. CASE TakeKline
  BY <1>3, TakeKlineOrigin, SameOrigin
<1>4. CASE Flush \/ Crash \/ (\E d \in Candles : LockExpires(d)) \/ UNCHANGED vars
  BY <1>4, FlushOrigin, SameOrigin
<1> QED
  BY <1>1, <1>2, <1>3, <1>4 DEF Next

-----------------------------------------------------------------------------
(* No trade twice.                                                         *)

\* The candle of p's message has trade t and has not been merged, but will be
\* if nothing fails: a session that has ended gets no lock any more.
HoldsNew(p, c, t) ==
  /\ task[p][c].kline # None
  /\ task[p][c].kline.folded[t] > 0
  /\ task[p][c].pc \in {"idle", "lock", "locked", "rem"}
  /\ cancelled[p] => task[p][c].pc \in {"locked", "rem"}

\* A trade that was let through is in one message's candle, once ...
NewOnce ==
  \A t \in Trades \ failedOpen, p \in Partitions, c \in Candles : HoldsNew(p, c, t) =>
    /\ task[p][c].kline.folded[t] = 1
    /\ t \in seen
    /\ \A q \in Partitions, d \in Candles : HoldsNew(q, d, t) => q = p /\ d = c

\* ... and in no version of a candle until that one is merged.
VersionsOnce ==
  \A t \in Trades \ failedOpen, c \in Candles, k \in Kline : IsVersion(k, c) =>
    /\ k.folded[t] <= 1
    /\ k.folded[t] > 0 =>
         t \in seen /\ \A p \in Partitions, d \in Candles : ~HoldsNew(p, d, t)

OnceInv == NewOnce /\ VersionsOnce

LEMMA HistoryGrows ==
  ASSUME Inv, [Next]_vars
  PROVE  seen \subseteq seen' /\ failedOpen \subseteq failedOpen'
<1> USE DEF claimVars, redisVars, flushVars, faultVars
<1>1. ASSUME NEW p \in Partitions, Claim(p)
      PROVE  seen \subseteq seen' /\ failedOpen \subseteq failedOpen'
  BY <1>1 DEF Claim, Publish, Receive, CheckSeen, CheckSeenFails, Submit, Finish, Commit,
              Rebalance, Resume
<1>2. ASSUME NEW p \in Partitions, NEW c \in Candles, Merge(p, c)
      PROVE  UNCHANGED <<seen, failedOpen>>
  BY <1>2 DEF Merge, GetLock, LockFails, ReadStored, ReadStoredFails, RemoveStored, AddStored, Send
<1>3. CASE Crash \/ TakeKline \/ Flush \/ (\E c \in Candles : LockExpires(c)) \/ UNCHANGED vars
  BY <1>3 DEF Crash, TakeKline, Flush, LockExpires, vars
<1> QED
  BY <1>1, <1>2, <1>3 DEF Next

\* Trade t is new for candle c of p's message.
Passes(p, c, t) ==
  /\ t \in seen' \ seen
  /\ task'[p][c].kline.folded[t] = 1 \/ HoldsNew(p, c, t)

StillHolds(p, c, t) ==
  HoldsNew(p, c, t) /\ task'[p][c].kline.folded[t] = task[p][c].kline.folded[t]

\* Only the check that lets a trade through adds it to a message's candle.
HeldBy(r, s) ==
  \A t \in Trades \ failedOpen', p \in Partitions, c \in Candles : HoldsNew(p, c, t)' =>
    StillHolds(p, c, t) \/ (p = r /\ c = s /\ Passes(p, c, t))

HeldStep == \E r, s : HeldBy(r, s)

LEMMA HeldMerge ==
  ASSUME Inv, NEW p \in Partitions, NEW c \in Candles, Merge(p, c)
  PROVE  HeldStep
<1> USE DEF claimVars
<1> DEFINE r == task[p][c]
<1>1. UNCHANGED cancelled
  BY DEF Merge, GetLock, LockFails, ReadStored, ReadStoredFails, RemoveStored, AddStored, Send
<1>2. GetLock(p, c) \/ ReadStored(p, c) => ~cancelled[p]
  BY DEF GetLock, ReadStored
<1>3. PICK pc, kline, old :
        /\ Becomes(p, c, pc, kline, old)
        /\ \/ kline = None \/ pc \in {"add", "send"}
           \/ kline = r.kline /\ r.pc \in {"lock", "locked"} /\ ~cancelled[p]
  BY <1>2, MergeSteps DEF Merge
<1>4. ASSUME NEW t \in Trades, NEW q \in Partitions, NEW d \in Candles, HoldsNew(q, d, t)'
      PROVE  StillHolds(q, d, t)
  <2>1. CASE q = p /\ d = c
    BY <1>1, <1>3, <1>4, <2>1 DEF Becomes, HoldsNew, StillHolds
  <2>2. CASE q # p \/ d # c
    BY <1>1, <1>3, <1>4, <2>2 DEF Becomes, HoldsNew, StillHolds
  <2> QED
    BY <2>1, <2>2
<1> QED
  BY <1>4 DEF HeldStep, HeldBy

LEMMA HeldCheck ==
  ASSUME Inv, NEW p \in Partitions, CheckSeen(p) \/ CheckSeenFails(p)
  PROVE  HeldStep
<1> USE DEF claimVars
<1> DEFINE e == Head(todo[p])
           c == Attr[e.trade].candle
           r == task[p][c]
           k == Aggregate(r.kline, e)
<1>1. /\ phase[p] = "filter" /\ todo[p] # <<>> /\ UNCHANGED cancelled
      /\ Keep(p, e) \/ UNCHANGED task
  BY DEF CheckSeen, CheckSeenFails
<1>2. CASE UNCHANGED task
  BY <1>1, <1>2 DEF HeldStep, HeldBy, StillHolds, HoldsNew
<1>3. CASE Keep(p, e)
  <2>1. e \in Entry /\ e.trade \in Trades /\ task \in Tasks
    BY <1>1, HeadOfTodo DEF Inv, TypeOK, Tasks
  <2>2. c \in Candles /\ Becomes(p, c, r.pc, k, r.old)
    BY <1>3, <2>1, KeepBecomes, SMTT(30)
  <2>3. r.pc = "idle" /\ r.kline \in Kline \cup {None}
    <3> HIDE DEF c
    <3>1. r \in Task
      BY <2>1, <2>2 DEF Tasks
    <3>2. WellFormed(phase[p], r)
      BY <2>2 DEF Inv, TaskInv
    <3> HIDE DEF r
    <3> QED
      BY <1>1, <3>1, <3>2 DEF WellFormed, Task
  <2>4. \A t \in Trades :
          /\ t # e.trade => k.folded[t] = IF r.kline = None THEN 0 ELSE r.kline.folded[t]
          /\ t = e.trade => k.folded[t] = IF r.kline = None THEN 1 ELSE r.kline.folded[t] + 1
    BY <2>1, <2>3, AggregateType
  <2>5. \/ cancelled[p] \/ e.trade \in failedOpen'
        \/ seen' = seen \cup {e.trade} /\ e.trade \notin seen
        \/ UNCHANGED task
    BY DEF CheckSeen, CheckSeenFails, FreshTrade
  <2> HIDE DEF k, c, e
  <2>6. ASSUME NEW t \in Trades \ failedOpen', NEW q \in Partitions, NEW d \in Candles,
               HoldsNew(q, d, t)'
        PROVE  StillHolds(q, d, t) \/ (q = p /\ d = c /\ Passes(q, d, t))
    <3>1. CASE q # p \/ d # c
      BY <1>1, <2>2, <2>6, <3>1 DEF Becomes, HoldsNew, StillHolds
    <3>2. CASE q = p /\ d = c
      <4>1. /\ k.folded[t] > 0 /\ ~cancelled[p]
            /\ task'[p][c].kline = k
        BY <1>1, <2>2, <2>3, <2>6, <3>2 DEF Becomes, HoldsNew
      <4>2. CASE t # e.trade
        BY <1>1, <2>3, <2>4, <3>2, <4>1, <4>2 DEF HoldsNew, StillHolds
      <4>3. CASE t = e.trade /\ UNCHANGED task
        BY <1>1, <2>6, <4>3 DEF HoldsNew, StillHolds
      <4>4. CASE t = e.trade /\ ~UNCHANGED task
        <5>1. t \in seen' \ seen
          BY <2>5, <2>6, <4>1, <4>4
        <5>2. CASE r.kline = None
          BY <2>4, <3>2, <4>1, <4>4, <5>1, <5>2 DEF Passes
        <5>3. CASE r.kline # None
          <6>1. r.kline.folded[t] \in Nat
            BY <2>3, <5>3 DEF Kline
          <6> QED
            BY <2>3, <2>4, <3>2, <4>1, <4>4, <5>1, <5>3, <6>1 DEF Passes, HoldsNew
        <5> QED
          BY <5>2, <5>3
      <4> QED
        BY <4>2, <4>3, <4>4
    <3> QED
      BY <3>1, <3>2
  <2> QED
    BY <2>6 DEF HeldStep, HeldBy
<1> QED
  BY <1>1, <1>2, <1>3

LEMMA HeldNext ==
  ASSUME Inv, [Next]_vars
  PROVE  HeldStep
<1> USE DEF claimVars
<1>1. ASSUME NEW p \in Partitions, NEW c \in Candles, Merge(p, c)
      PROVE  HeldStep
  BY <1>1, HeldMerge
<1>2. ASSUME NEW p \in Partitions, CheckSeen(p) \/ CheckSeenFails(p)
      PROVE  HeldStep
  BY <1>2, HeldCheck
<1>3. ASSUME UNCHANGED task, UNCHANGED cancelled
      PROVE  HeldStep
  BY <1>3 DEF HeldStep, HeldBy, StillHolds, HoldsNew
<1>4. ASSUME NEW p \in Partitions, Receive(p) \/ Finish(p) \/ Commit(p)
      PROVE  HeldStep
  BY <1>3, <1>4 DEF Receive, Finish, Commit
<1>5. ASSUME NEW p \in Partitions, Rebalance(p)
      PROVE  HeldStep
  <2>1. UNCHANGED task /\ \A q \in Partitions : cancelled[q] => cancelled'[q]
    BY <1>5 DEF Rebalance, Inv, TypeOK
  <2> QED
    BY <2>1 DEF HeldStep, HeldBy, StillHolds, HoldsNew
<1>6. ASSUME NEW p \in Partitions, Resume(p)
      PROVE  HeldStep
  <2>1. UNCHANGED task /\ \A q \in Partitions : q # p => cancelled'[q] = cancelled[q]
    BY <1>6 DEF Resume, Inv, TypeOK
  <2>2. \A c \in Candles : task[p][c].kline = None
    BY <1>6 DEF Resume, Inv, TaskInv, WellFormed
  <2> QED
    BY <2>1, <2>2 DEF HeldStep, HeldBy, StillHolds, HoldsNew
<1>7. ASSUME NEW p \in Partitions, Submit(p)
      PROVE  HeldStep
  <2>1. UNCHANGED cancelled
    BY <1>7 DEF Submit
  <2>2. ASSUME NEW t \in Trades, NEW q \in Partitions, NEW c \in Candles, HoldsNew(q, c, t)'
        PROVE  StillHolds(q, c, t)
    BY <1>7, <2>1, <2>2, SubmitSteps, IdleTaskType DEF HoldsNew, StillHolds
  <2> QED
    BY <2>2 DEF HeldStep, HeldBy
<1>8. CASE Crash
  <2>1. \A p \in Partitions, c \in Candles : task'[p][c].kline = None
    BY <1>8, IdleTaskType DEF Crash, IdleTasks
  <2> QED
    BY <2>1 DEF HeldStep, HeldBy, HoldsNew
<1>9. CASE TakeKline \/ Flush \/ (\E c \in Candles : LockExpires(c)) \/ UNCHANGED vars
  BY <1>3, <1>9 DEF TakeKline, Flush, LockExpires, vars
<1>10. ASSUME NEW p \in Partitions, \E message \in Messages[p] : Publish(p, message)
       PROVE  HeldStep
  BY <1>3, <1>10 DEF Publish
<1> QED
  BY <1>1, <1>2, <1>4, <1>5, <1>6, <1>7, <1>8, <1>9, <1>10 DEF Next, Claim

LEMMA NewOnceStep ==
  ASSUME Inv, OnceInv, [Next]_vars
  PROVE  NewOnce'
<1>1. PICK r, s : HeldBy(r, s)
  BY HeldNext DEF HeldStep
<1>2. seen \subseteq seen' /\ failedOpen \subseteq failedOpen'
  BY HistoryGrows
<1>3. ASSUME NEW t \in Trades \ failedOpen', NEW p \in Partitions, NEW c \in Candles,
             HoldsNew(p, c, t)'
      PROVE  /\ task'[p][c].kline.folded[t] = 1
             /\ t \in seen'
             /\ \A q \in Partitions, d \in Candles : HoldsNew(q, d, t)' => q = p /\ d = c
  <2>1. t \in Trades \ failedOpen
    BY <1>2
  <2>2. CASE t \in seen
    <3>1. \A q \in Partitions, d \in Candles : HoldsNew(q, d, t)' => StillHolds(q, d, t)
      BY <1>1, <2>2 DEF HeldBy, Passes
    <3> QED
      BY <1>2, <1>3, <2>1, <3>1 DEF StillHolds, OnceInv, NewOnce
  <2>3. CASE t \notin seen
    <3>1. \A q \in Partitions, d \in Candles : ~HoldsNew(q, d, t)
      BY <2>1, <2>3 DEF OnceInv, NewOnce
    <3>2. \A q \in Partitions, d \in Candles :
            HoldsNew(q, d, t)' => q = r /\ d = s /\ Passes(q, d, t)
      BY <1>1, <3>1 DEF HeldBy, StillHolds
    <3> QED
      BY <1>3, <3>1, <3>2 DEF Passes
  <2> QED
    BY <2>2, <2>3
<1> QED
  BY <1>3 DEF NewOnce

LEMMA VersionsOnceStep ==
  ASSUME Inv, OnceInv, [Next]_vars
  PROVE  VersionsOnce'
<1>1. PICK r, s : HeldBy(r, s)
  BY HeldNext DEF HeldStep
<1>2. seen \subseteq seen' /\ failedOpen \subseteq failedOpen'
  BY HistoryGrows
<1>3. ASSUME NEW t \in Trades \ failedOpen', NEW c \in Candles, NEW k \in Kline,
             IsVersion(k, c)'
      PROVE  /\ k.folded[t] <= 1
             /\ k.folded[t] > 0 =>
                  t \in seen' /\ \A p \in Partitions, d \in Candles : ~HoldsNew(p, d, t)'
  <2>1. t \in Trades \ failedOpen /\ k.folded[t] \in Nat
    BY <1>2 DEF Kline
  <2>2. t \in seen => \A q \in Partitions, d \in Candles : HoldsNew(q, d, t)' => HoldsNew(q, d, t)
    BY <1>1 DEF HeldBy, StillHolds, Passes
  <2>3. ASSUME NEW l \in Kline, IsVersion(l, c), Alike(k, l)
        PROVE  /\ k.folded[t] <= 1
               /\ k.folded[t] > 0 =>
                    t \in seen' /\ \A p \in Partitions, d \in Candles : ~HoldsNew(p, d, t)'
    BY <1>2, <2>1, <2>2, <2>3 DEF Alike, OnceInv, VersionsOnce
  <2>4. ASSUME Unmerged(k, c)
        PROVE  /\ k.folded[t] <= 1
               /\ k.folded[t] > 0 =>
                    t \in seen' /\ \A p \in Partitions, d \in Candles : ~HoldsNew(p, d, t)'
    <3>1. PICK p \in Partitions :
            task[p][c].pc = "locked" /\ k = task[p][c].kline /\ task'[p][c].pc \in {"add", "send"}
      BY <2>4 DEF Unmerged
    <3>2. ~HoldsNew(p, c, t)'
      BY <3>1 DEF HoldsNew
    <3>3. CASE k.folded[t] = 0
      BY <3>3
    <3>4. CASE k.folded[t] > 0
      <4>1. HoldsNew(p, c, t)
        BY <3>1, <3>4, NoneAssumption DEF HoldsNew
      <4>2. /\ k.folded[t] = 1 /\ t \in seen
            /\ \A q \in Partitions, d \in Candles : HoldsNew(q, d, t) => q = p /\ d = c
        BY <2>1, <3>1, <4>1 DEF OnceInv, NewOnce
      <4> QED
        BY <1>2, <2>2, <3>2, <4>2
    <3> QED
      BY <2>1, <3>3, <3>4
  <2>5. ASSUME Merging(k, c)
        PROVE  /\ k.folded[t] <= 1
               /\ k.folded[t] > 0 =>
                    t \in seen' /\ \A p \in Partitions, d \in Candles : ~HoldsNew(p, d, t)'
    <3>1. PICK p \in Partitions :
            /\ task[p][c].pc = "rem" /\ task'[p][c].pc = "add"
            /\ task[p][c].old \in Kline /\ task[p][c].kline \in Kline
            /\ k = MergeKline(task[p][c].old, task[p][c].kline)
      BY <2>5 DEF Merging
    <3> DEFINE old == task[p][c].old
               new == task[p][c].kline
    <3>2. k.folded[t] = old.folded[t] + new.folded[t]
      BY <2>1, <3>1, MergeKlineType
    <3>3. old.folded[t] \in Nat /\ new.folded[t] \in Nat /\ IsVersion(old, c)
      BY <2>1, <3>1 DEF Kline, IsVersion, IsMerging
    <3>4. /\ old.folded[t] <= 1
          /\ old.folded[t] > 0 =>
               t \in seen /\ \A q \in Partitions, d \in Candles : ~HoldsNew(q, d, t)
      BY <2>1, <3>1, <3>3 DEF OnceInv, VersionsOnce
    <3>5. ~HoldsNew(p, c, t)'
      BY <3>1 DEF HoldsNew
    <3>6. CASE new.folded[t] = 0
      BY <1>2, <2>2, <3>2, <3>3, <3>4, <3>6
    <3>7. CASE new.folded[t] > 0
      <4>1. HoldsNew(p, c, t)
        BY <3>1, <3>7, NoneAssumption DEF HoldsNew
      <4>2. /\ new.folded[t] = 1 /\ t \in seen
            /\ \A q \in Partitions, d \in Candles : HoldsNew(q, d, t) => q = p /\ d = c
        BY <2>1, <4>1 DEF OnceInv, NewOnce
      <4>3. old.folded[t] = 0
        BY <3>3, <3>4, <4>1
      <4> QED
        BY <1>2, <2>2, <3>2, <3>5, <4>2, <4>3
    <3> QED
      BY <3>3, <3>6, <3>7
  <2> QED
    BY <1>3, <2>3, <2>4, <2>5, VersionsStep DEF Origin
<1> QED
  BY <1>3 DEF VersionsOnce

\* However often a trade is published and delivered, whichever claims merge at
\* the same time, with or without their locks, it is counted once at most.
THEOREM NoTradeTwiceHolds == Spec => []NoTradeTwice
<1>1. Init => OnceInv
  <2> SUFFICES ASSUME Init PROVE OnceInv
    OBVIOUS
  <2>1. \A p \in Partitions, c \in Candles :
          /\ task[p][c].kline = None /\ task[p][c].old = None /\ task[p][c].pc = "idle"
          /\ stored[c] = {} /\ row[c] = None /\ batch[c] = None
    BY IdleTaskType DEF Init, IdleTasks
  <2>2. NewOnce
    BY <2>1 DEF NewOnce, HoldsNew
  <2>3. \A c \in Candles, k \in Kline : ~IsVersion(k, c)
    BY <2>1, NoneAssumption DEF Init, IsVersion, IsSent, IsMerging
  <2> QED
    BY <2>2, <2>3 DEF OnceInv, VersionsOnce
<1>2. Inv /\ OnceInv /\ [Next]_vars => OnceInv'
  BY NewOnceStep, VersionsOnceStep DEF OnceInv
<1>3. Inv /\ OnceInv => NoTradeTwice
  BY KlinesAreVersions DEF Inv, OnceInv, VersionsOnce, NoTradeTwice
<1> QED
  BY <1>1, <1>2, <1>3, InvHolds, PTL DEF Spec

-----------------------------------------------------------------------------
(* A candle encloses its trades.                                           *)

Encloses(k) ==
  /\ {k.open, k.close} \subseteq k.low..k.high
  /\ \A t \in Folds(k) \ Flagged : Attr[t].price \in k.low..k.high
  /\ {k.low, k.high} \subseteq {Attr[t].price : t \in Folds(k)}

\* What is still to be checked was flagged by a message.
FlagInv ==
  \A p \in Partitions : \A i \in 1..Len(todo[p]) :
    todo[p][i].clamp => todo[p][i].trade \in Flagged

EncloseInv ==
  /\ FlagInv
  /\ \A c \in Candles, k \in Kline : IsVersion(k, c) => Encloses(k)
  /\ \A p \in Partitions, c \in Candles : task[p][c].kline # None => Encloses(task[p][c].kline)

LEMMA NewEncloses ==
  ASSUME NEW e \in Entry
  PROVE  Encloses(NewKlineByTrade(e))
<1> DEFINE k == NewKlineByTrade(e)
           price == Attr[e.trade].price
<1>1. e.trade \in Trades /\ price \in Nat
  BY AttrType DEF Entry
<1>2. k.open = price /\ k.close = price /\ k.high = price /\ k.low = price
  BY DEF NewKlineByTrade
<1>3. k.folded = [t \in Trades |-> IF t = e.trade THEN 1 ELSE 0]
  BY NewKlineType
<1> HIDE DEF k, price
<1>4. Folds(k) = {e.trade}
  BY <1>1, <1>3 DEF Folds
<1>5. {k.open, k.close} \subseteq k.low..k.high
  BY <1>1, <1>2
<1>6. \A t \in Folds(k) \ Flagged : Attr[t].price \in k.low..k.high
  BY <1>1, <1>2, <1>4 DEF price
<1>7. {k.low, k.high} \subseteq {Attr[t].price : t \in Folds(k)}
  BY <1>2, <1>4 DEF price
<1>8. Encloses(k)
  BY <1>5, <1>6, <1>7 DEF Encloses
<1> QED
  BY <1>8 DEF k

LEMMA UpdateEncloses ==
  ASSUME NEW k \in Kline, NEW e \in Entry, Encloses(k), e.clamp => e.trade \in Flagged
  PROVE  Encloses(UpdateKlineByTrade(k, e))
<1> DEFINE a == Attr[e.trade]
           u == UpdateKlineByTrade(k, e)
<1>1. /\ e.trade \in Trades /\ a.price \in Nat /\ a.at \in Int
      /\ \A t \in Trades : Attr[t].price \in Nat
  BY AttrType DEF Entry
<1>2. Folds(u) = Folds(k) \cup {e.trade}
  <2>1. u.folded = [k.folded EXCEPT ![e.trade] = @ + 1] /\ k.folded \in [Trades -> Nat]
    BY UpdateKlineType DEF Kline
  <2> QED
    BY <1>1, <2>1 DEF Folds
<1>3. /\ k.open \in Nat /\ k.close \in Nat /\ k.high \in Nat /\ k.low \in Nat
      /\ k.openAt \in Int /\ k.closeAt \in Int
  BY DEF Kline
<1>4. CASE e.clamp
  <2>1. u.open = k.open /\ u.close = k.close /\ u.high = k.high /\ u.low = k.low
    BY <1>4 DEF UpdateKlineByTrade, Kline
  <2> HIDE DEF u
  <2>2. Encloses(u)
    BY <1>2, <1>4, <2>1 DEF Encloses
  <2> QED
    BY <2>2 DEF u
<1>5. CASE ~e.clamp
  <2>1. /\ u.open \in {k.open, a.price} /\ u.close \in {k.close, a.price}
        /\ u.high = Max2(k.high, a.price) /\ u.low = Min2(k.low, a.price)
    BY <1>5 DEF UpdateKlineByTrade, Kline
  <2> HIDE DEF u, a
  <2>2. /\ u.low \in Nat /\ u.high \in Nat /\ u.low <= k.low /\ k.high <= u.high
        /\ u.low <= a.price /\ a.price <= u.high
        /\ u.low \in {k.low, a.price} /\ u.high \in {k.high, a.price}
    BY <1>1, <1>3, <2>1 DEF Min2, Max2
  <2>3. {u.open, u.close} \subseteq u.low..u.high
    BY <1>1, <1>3, <2>1, <2>2 DEF Encloses
  <2>4. \A t \in Folds(u) \ Flagged : Attr[t].price \in u.low..u.high
    <3> SUFFICES ASSUME NEW t \in Folds(u) \ Flagged
                 PROVE  Attr[t].price \in u.low..u.high
      OBVIOUS
    <3>1. CASE t = e.trade
      BY <1>1, <2>2, <3>1 DEF a
    <3>2. CASE t \in Folds(k)
      BY <1>1, <1>3, <2>2, <3>2 DEF Encloses
    <3> QED
      BY <1>2, <3>1, <3>2
  <2>5. {u.low, u.high} \subseteq {Attr[t].price : t \in Folds(u)}
    BY <1>2, <2>2 DEF Encloses, a
  <2>6. Encloses(u)
    BY <2>3, <2>4, <2>5 DEF Encloses
  <2> QED
    BY <2>6 DEF u
<1> QED
  BY <1>4, <1>5

LEMMA MergeEncloses ==
  ASSUME NEW old \in Kline, NEW k \in Kline, Encloses(old), Encloses(k)
  PROVE  Encloses(MergeKline(old, k))
<1> DEFINE m == MergeKline(old, k)
<1>1. Folds(m) = Folds(old) \cup Folds(k)
  <2>1. \A t \in Trades : /\ m.folded[t] = old.folded[t] + k.folded[t]
                          /\ old.folded[t] \in Nat /\ k.folded[t] \in Nat
    BY MergeKlineType DEF Kline
  <2> HIDE DEF m
  <2> QED
    BY <2>1 DEF Folds
<1>2. /\ m.open \in {old.open, k.open} /\ m.close \in {old.close, k.close}
      /\ m.high = Max2(k.high, old.high) /\ m.low = Min2(k.low, old.low)
  BY DEF MergeKline
<1>3. /\ old.open \in Nat /\ old.close \in Nat /\ old.high \in Nat /\ old.low \in Nat
      /\ k.open \in Nat /\ k.close \in Nat /\ k.high \in Nat /\ k.low \in Nat
  BY DEF Kline
<1> HIDE DEF m
<1>4. /\ m.low \in Nat /\ m.high \in Nat
      /\ m.low <= old.low /\ m.low <= k.low /\ old.high <= m.high /\ k.high <= m.high
      /\ m.low \in {old.low, k.low} /\ m.high \in {old.high, k.high}
  BY <1>2, <1>3 DEF Min2, Max2
<1>5. {m.open, m.close} \subseteq m.low..m.high
  BY <1>2, <1>3, <1>4 DEF Encloses
<1>6. \A t \in Folds(m) \ Flagged : Attr[t].price \in m.low..m.high
  <2> SUFFICES ASSUME NEW t \in Folds(m) \ Flagged
               PROVE  Attr[t].price \in m.low..m.high
    OBVIOUS
  <2>1. CASE t \in Folds(old)
    BY <1>3, <1>4, <2>1 DEF Encloses
  <2>2. CASE t \in Folds(k)
    BY <1>3, <1>4, <2>2 DEF Encloses
  <2> QED
    BY <1>1, <2>1, <2>2
<1>7. {m.low, m.high} \subseteq {Attr[t].price : t \in Folds(m)}
  BY <1>1, <1>4 DEF Encloses
<1>8. Encloses(m)
  BY <1>5, <1>6, <1>7 DEF Encloses
<1> QED
  BY <1>8 DEF m

\* More messages flag more trades.
LEMMA FlaggedGrows ==
  ASSUME Inv, [Next]_vars
  PROVE  Flagged \subseteq Flagged'
<1> USE DEF claimVars, redisVars, flushVars, faultVars
<1>1. ASSUME UNCHANGED log
      PROVE  Flagged \subseteq Flagged'
  BY <1>1 DEF Flagged
<1>2. ASSUME NEW p \in Partitions, NEW message \in Messages[p], Publish(p, message)
      PROVE  Flagged \subseteq Flagged'
  <2>1. \A q \in Partitions : log[q] \in Seq(Seq(Entry))
    BY DEF Inv, TypeOK
  <2>2. DetectClaim(message) \in Seq(Entry)
    BY MessageAssumption, DetectClaimType
  <2>3. /\ log'[p] = Append(log[p], DetectClaim(message))
        /\ \A q \in Partitions : q # p => log'[q] = log[q]
    BY <1>2 DEF Publish, Inv, TypeOK
  <2>4. Range(log[p]) \subseteq Range(log'[p])
    <3>1. /\ Len(log'[p]) = Len(log[p]) + 1 /\ log'[p] \in Seq(Seq(Entry))
          /\ \A i \in 1..Len(log[p]) : log'[p][i] = log[p][i]
      BY <2>1, <2>2, <2>3, AppendProperties
    <3>2. DOMAIN log[p] = 1..Len(log[p]) /\ DOMAIN log'[p] = 1..Len(log'[p]) /\ Len(log[p]) \in Nat
      BY <2>1, <3>1, LenProperties
    <3>3. DOMAIN log[p] \subseteq DOMAIN log'[p]
      BY <3>1, <3>2
    <3> QED
      BY <3>1, <3>2, <3>3 DEF Range
  <2>5. \A q \in Partitions : Range(log[q]) \subseteq Range(log'[q])
    BY <2>3, <2>4
  <2> QED
    BY <2>5 DEF Flagged
<1>3. ASSUME NEW p \in Partitions, Claim(p)
      PROVE  Flagged \subseteq Flagged'
  <2>1. UNCHANGED log \/ \E message \in Messages[p] : Publish(p, message)
    BY <1>3 DEF Claim, Receive, CheckSeen, CheckSeenFails, Submit, Finish, Commit, Rebalance,
                Resume
  <2> QED
    BY <1>1, <1>2, <2>1
<1>4. ASSUME NEW p \in Partitions, NEW c \in Candles, Merge(p, c)
      PROVE  UNCHANGED log
  BY <1>4 DEF Merge, GetLock, LockFails, ReadStored, ReadStoredFails, RemoveStored, AddStored, Send
<1>5. CASE Crash \/ TakeKline \/ Flush \/ (\E c \in Candles : LockExpires(c)) \/ UNCHANGED vars
  BY <1>1, <1>5 DEF Crash, TakeKline, Flush, LockExpires, vars
<1> QED
  BY <1>1, <1>3, <1>4, <1>5 DEF Next

LEMMA EnclosesStays ==
  ASSUME Inv, [Next]_vars, NEW k, Encloses(k)
  PROVE  Encloses(k)'
BY FlaggedGrows DEF Encloses, Folds

LEMMA FlagInvStep ==
  ASSUME Inv, FlagInv, [Next]_vars
  PROVE  FlagInv'
<1> USE DEF claimVars, redisVars, flushVars, faultVars
<1>1. Flagged \subseteq Flagged'
  BY FlaggedGrows
<1>2. ASSUME UNCHANGED todo
      PROVE  FlagInv'
  BY <1>1, <1>2 DEF FlagInv
<1>3. ASSUME NEW p \in Partitions, Receive(p)
      PROVE  FlagInv'
  <2> DEFINE message == log[p][next[p] + 1]
  <2>1. /\ todo' = [todo EXCEPT ![p] = message]
        /\ log[p] \in Seq(Seq(Entry)) /\ next[p] \in Nat /\ next[p] < Len(log[p])
    BY <1>3 DEF Receive, Inv, TypeOK
  <2>2. next[p] + 1 \in 1..Len(log[p]) /\ DOMAIN log[p] = 1..Len(log[p])
    BY <2>1, LenProperties
  <2>3. message \in Range(log[p]) /\ message \in Seq(Entry)
    BY <2>1, <2>2, ElementOfSeq DEF Range
  <2> HIDE DEF message
  <2>4. ASSUME NEW i \in 1..Len(message), message[i].clamp
        PROVE  message[i].trade \in Flagged
    <3>1. message[i] \in Entry /\ message[i] \in Range(message)
      BY <2>3, ElementOfSeq, LenProperties DEF Range
    <3>2. message[i] = [trade |-> message[i].trade, clamp |-> TRUE] /\ message[i].trade \in Trades
      BY <2>4, <3>1 DEF Entry
    <3> QED
      BY <2>3, <3>1, <3>2 DEF Flagged
  <2> QED
    BY <1>1, <2>1, <2>4 DEF FlagInv, Inv, TypeOK
<1>4. ASSUME NEW p \in Partitions, CheckSeen(p) \/ CheckSeenFails(p)
      PROVE  FlagInv'
  <2>1. todo[p] # <<>> /\ todo' = [todo EXCEPT ![p] = Tail(@)]
    BY <1>4 DEF CheckSeen, CheckSeenFails
  <2>2. /\ todo'[p] = Tail(todo[p])
        /\ \A q \in Partitions : q # p => todo'[q] = todo[q]
    BY <2>1 DEF Inv, TypeOK
  <2>3. /\ Len(Tail(todo[p])) = Len(todo[p]) - 1 /\ Len(todo[p]) \in Nat
        /\ \A i \in 1..Len(Tail(todo[p])) : Tail(todo[p])[i] = todo[p][i + 1]
    BY <2>1, HeadOfTodo DEF Inv
  <2>4. ASSUME NEW i \in 1..Len(Tail(todo[p])), Tail(todo[p])[i].clamp
        PROVE  Tail(todo[p])[i].trade \in Flagged
    <3>1. i + 1 \in 1..Len(todo[p])
      BY <2>3
    <3> QED
      BY <2>3, <2>4, <3>1 DEF FlagInv
  <2> QED
    BY <1>1, <2>2, <2>4 DEF FlagInv
<1>5. ASSUME NEW p \in Partitions, Claim(p)
      PROVE  FlagInv'
  BY <1>2, <1>3, <1>4, <1>5 DEF Claim, Publish, Submit, Finish, Commit, Rebalance, Resume
<1>6. ASSUME NEW p \in Partitions, NEW c \in Candles, Merge(p, c)
      PROVE  FlagInv'
  <2>1. UNCHANGED todo
    BY <1>6 DEF Merge, GetLock, LockFails, ReadStored, ReadStoredFails, RemoveStored, AddStored,
                Send
  <2> QED
    BY <1>2, <2>1, SMTT(30)
<1>7. CASE Crash
  <2>1. \A p \in Partitions : Len(todo'[p]) = 0
    BY <1>7 DEF Crash
  <2> QED
    BY <2>1 DEF FlagInv
<1>8. CASE TakeKline \/ Flush \/ (\E c \in Candles : LockExpires(c)) \/ UNCHANGED vars
  BY <1>2, <1>8 DEF TakeKline, Flush, LockExpires, vars
<1> QED
  BY <1>5, <1>6, <1>7, <1>8 DEF Next

\* Where the candle of a task comes from: it is the one before, or None, or
\* one more trade was added, or it was merged.
LEMMA TaskStep ==
  ASSUME Inv, [Next]_vars, NEW p \in Partitions, NEW c \in Candles, task'[p][c].kline # None
  PROVE  \/ task[p][c].kline # None /\ task'[p][c].kline = task[p][c].kline
         \/ /\ todo[p] # <<>> /\ c = Attr[Head(todo[p]).trade].candle
            /\ task[p][c].kline \in Kline \cup {None}
            /\ task'[p][c].kline = Aggregate(task[p][c].kline, Head(todo[p]))
         \/ /\ task[p][c].old \in Kline /\ task[p][c].kline \in Kline /\ task[p][c].pc = "rem"
            /\ task'[p][c].kline = MergeKline(task[p][c].old, task[p][c].kline)
<1> USE DEF claimVars, redisVars, flushVars, faultVars
<1> DEFINE Goal ==
         \/ task[p][c].kline # None /\ task'[p][c].kline = task[p][c].kline
         \/ /\ todo[p] # <<>> /\ c = Attr[Head(todo[p]).trade].candle
            /\ task[p][c].kline \in Kline \cup {None}
            /\ task'[p][c].kline = Aggregate(task[p][c].kline, Head(todo[p]))
         \/ /\ task[p][c].old \in Kline /\ task[p][c].kline \in Kline /\ task[p][c].pc = "rem"
            /\ task'[p][c].kline = MergeKline(task[p][c].old, task[p][c].kline)
<1>1. ASSUME UNCHANGED task
      PROVE  Goal
  BY <1>1
<1>2. ASSUME NEW q \in Partitions, NEW d \in Candles, Merge(q, d)
      PROVE  Goal
  <2>1. CASE q # p \/ d # c
    <3>1. \E pc, kline, old : Becomes(q, d, pc, kline, old)
      BY <1>2, MergeSteps DEF Merge
    <3> QED
      BY <2>1, <3>1 DEF Becomes
  <2>2. CASE q = p /\ d = c
    BY <1>2, <2>2, MergeSteps DEF Merge, Becomes
  <2> QED
    BY <2>1, <2>2
<1>3. ASSUME NEW q \in Partitions, CheckSeen(q) \/ CheckSeenFails(q)
      PROVE  Goal
  <2>1. todo[q] # <<>> /\ (UNCHANGED task \/ Keep(q, Head(todo[q]))) /\ task \in Tasks
    BY <1>3 DEF CheckSeen, CheckSeenFails, Inv, TypeOK, Tasks
  <2>2. CASE Keep(q, Head(todo[q]))
    <3> DEFINE d == Attr[Head(todo[q]).trade].candle
    <3>1. Head(todo[q]) \in Entry
      BY <2>1, HeadOfTodo DEF Inv
    <3>2. /\ d \in Candles
          /\ Becomes(q, d, task[q][d].pc, Aggregate(task[q][d].kline, Head(todo[q])), task[q][d].old)
      BY <2>1, <2>2, <3>1, KeepBecomes, SMTT(30)
    <3>3. task[q][d].kline \in Kline \cup {None}
      BY <2>1, <3>2 DEF Tasks, Task
    <3> HIDE DEF d
    <3>4. CASE q # p \/ d # c
      BY <3>2, <3>4 DEF Becomes
    <3>5. CASE q = p /\ d = c
      BY <2>1, <3>2, <3>3, <3>5 DEF Becomes, d
    <3> QED
      BY <3>4, <3>5
  <2> QED
    BY <1>1, <2>1, <2>2
<1>4. ASSUME NEW q \in Partitions, Submit(q)
      PROVE  Goal
  BY <1>4, SubmitSteps, IdleTaskType
<1>5. ASSUME NEW q \in Partitions, Claim(q)
      PROVE  Goal
  <2>1. UNCHANGED task \/ CheckSeen(q) \/ CheckSeenFails(q) \/ Submit(q)
    BY <1>5 DEF Claim, Publish, Receive, Finish, Commit, Rebalance, Resume
  <2> QED
    BY <1>1, <1>3, <1>4, <2>1
<1>6. ASSUME Crash
      PROVE  Goal
  BY <1>6, IdleTaskType DEF Crash, IdleTasks
<1>7. ASSUME TakeKline \/ Flush \/ (\E d \in Candles : LockExpires(d)) \/ UNCHANGED vars
      PROVE  Goal
  <2>1. UNCHANGED task
    BY <1>7 DEF TakeKline, Flush, LockExpires, vars
  <2> QED
    BY <1>1, <2>1
<1> HIDE DEF Goal
<1>8. Goal
  BY <1>2, <1>5, <1>6, <1>7 DEF Next
<1> QED
  BY <1>8 DEF Goal

LEMMA EncloseStep ==
  ASSUME Inv, EncloseInv, [Next]_vars
  PROVE  EncloseInv'
<1>1. FlagInv'
  BY FlagInvStep DEF EncloseInv
<1>2. ASSUME NEW c \in Candles, NEW k \in Kline, IsVersion(k, c)'
      PROVE  Encloses(k)
  <2>1. ASSUME NEW l \in Kline, IsVersion(l, c), Alike(k, l)
        PROVE  Encloses(k)
    BY <2>1 DEF EncloseInv, Encloses, Alike, Folds
  <2>2. CASE Unmerged(k, c)
    BY <2>2, NoneAssumption DEF Unmerged, EncloseInv
  <2>3. CASE Merging(k, c)
    <3>1. PICK p \in Partitions :
            /\ task[p][c].old \in Kline /\ task[p][c].kline \in Kline
            /\ k = MergeKline(task[p][c].old, task[p][c].kline)
      BY <2>3 DEF Merging
    <3>2. Encloses(task[p][c].old) /\ Encloses(task[p][c].kline)
      BY <3>1, NoneAssumption DEF EncloseInv, IsVersion, IsMerging
    <3> QED
      BY <3>1, <3>2, MergeEncloses
  <2> QED
    BY <1>2, <2>1, <2>2, <2>3, VersionsStep DEF Origin
<1>3. ASSUME NEW p \in Partitions, NEW c \in Candles, task'[p][c].kline # None
      PROVE  Encloses(task'[p][c].kline)
  <2> DEFINE r == task[p][c]
  <2>1. CASE r.kline # None /\ task'[p][c].kline = r.kline
    BY <2>1 DEF EncloseInv
  <2>2. CASE /\ todo[p] # <<>> /\ r.kline \in Kline \cup {None}
             /\ task'[p][c].kline = Aggregate(r.kline, Head(todo[p]))
    <3> DEFINE e == Head(todo[p])
    <3>1. e \in Entry /\ e = todo[p][1] /\ 1 \in 1..Len(todo[p])
      BY <2>2, HeadOfTodo DEF Inv
    <3>2. e.clamp => e.trade \in Flagged
      BY <3>1 DEF EncloseInv, FlagInv
    <3> HIDE DEF e
    <3>3. CASE r.kline = None
      BY <2>2, <3>1, <3>3, NewEncloses DEF Aggregate, e
    <3>4. CASE r.kline # None
      <4>1. Encloses(r.kline) /\ r.kline \in Kline
        BY <2>2, <3>4 DEF EncloseInv
      <4> QED
        BY <2>2, <3>1, <3>2, <3>4, <4>1, UpdateEncloses DEF Aggregate, e
    <3> QED
      BY <3>3, <3>4
  <2>3. CASE /\ r.old \in Kline /\ r.kline \in Kline
             /\ task'[p][c].kline = MergeKline(r.old, r.kline)
    <3>1. Encloses(r.old) /\ Encloses(r.kline)
      BY <2>3, NoneAssumption DEF EncloseInv, IsVersion, IsMerging
    <3> QED
      BY <2>3, <3>1, MergeEncloses
  <2> QED
    BY <1>3, <2>1, <2>2, <2>3, TaskStep
<1>4. \A c \in Candles, k \in Kline : IsVersion(k, c)' => Encloses(k)'
  BY <1>2, EnclosesStays
<1>5. ASSUME NEW p \in Partitions, NEW c \in Candles, task'[p][c].kline # None
      PROVE  Encloses(task[p][c].kline)'
  <2>1. Encloses(task'[p][c].kline)
    BY <1>3, <1>5
  <2> QED
    BY <2>1, FlaggedGrows DEF Encloses, Folds
<1> QED
  BY <1>1, <1>4, <1>5 DEF EncloseInv

\* No order of merges and no loss makes a candle whose low and high are not
\* those of its trades.
THEOREM CandleEnclosesTradesHolds == Spec => []CandleEnclosesTrades
<1>1. Init => EncloseInv
  <2> SUFFICES ASSUME Init PROVE EncloseInv
    OBVIOUS
  <2>1. \A p \in Partitions, c \in Candles :
          /\ task[p][c].kline = None /\ task[p][c].old = None /\ task[p][c].pc = "idle"
          /\ stored[c] = {} /\ row[c] = None /\ batch[c] = None
    BY IdleTaskType DEF Init, IdleTasks
  <2>2. FlagInv
    BY DEF Init, FlagInv
  <2>3. \A c \in Candles, k \in Kline : ~IsVersion(k, c)
    BY <2>1, NoneAssumption DEF Init, IsVersion, IsSent, IsMerging
  <2> QED
    BY <2>1, <2>2, <2>3 DEF EncloseInv
<1>2. Inv /\ EncloseInv /\ [Next]_vars => EncloseInv'
  BY EncloseStep
<1>3. Inv /\ EncloseInv => CandleEnclosesTrades
  BY KlinesAreVersions DEF Inv, EncloseInv, Encloses, CandleEnclosesTrades
<1> QED
  BY <1>1, <1>2, <1>3, InvHolds, PTL DEF Spec

-----------------------------------------------------------------------------
(* Without a harmful fault: the locks exclude, and nothing gets lost.      *)

Undisturbed == occurred \cap Harmful = {}

\* Who is between MustLock and Release holds the lock, and knows what is stored.
Holds(p, c) ==
  /\ task[p][c].pc \in {"locked", "rem", "add"} => lock[c] = p
  /\ task[p][c].pc = "rem" => stored[c] = {task[p][c].old}
  /\ task[p][c].pc = "add" => stored[c] = {}

LockInv ==
  /\ \A p \in Partitions : ~cancelled[p]
  /\ \A p \in Partitions, c \in Candles : Holds(p, c)
  /\ \A c \in Candles : \A k, l \in stored[c] : k = l

CalmInv == Undisturbed => LockInv /\ SeenIsFolded

LEMMA OccurredGrows ==
  ASSUME Inv, [Next]_vars
  PROVE  occurred \subseteq occurred'
<1> USE DEF faultVars, NoFault, Fault
<1>1. ASSUME NEW p \in Partitions, Claim(p)
      PROVE  occurred \subseteq occurred'
  BY <1>1, SMTT(30) DEF Claim, Publish, Receive, CheckSeen, CheckSeenFails, Submit, Finish, Commit,
              Rebalance, Resume
<1>2. ASSUME NEW p \in Partitions, NEW c \in Candles, Merge(p, c)
      PROVE  occurred \subseteq occurred'
  BY <1>2 DEF Merge, GetLock, LockFails, ReadStored, ReadStoredFails, RemoveStored, AddStored,
              Send, CommandFails
<1>3. CASE Crash \/ TakeKline \/ Flush \/ (\E c \in Candles : LockExpires(c)) \/ UNCHANGED vars
  BY <1>3 DEF Crash, TakeKline, Flush, LockExpires, vars
<1> QED
  BY <1>1, <1>2, <1>3 DEF Next

\* What the steps of a merge then do in Redis.
LEMMA CalmMerge ==
  ASSUME Inv, LockInv, Undisturbed', NEW p \in Partitions, NEW c \in Candles, Merge(p, c)
  PROVE  /\ ~LockFails(p, c) /\ ~ReadStoredFails(p, c)
         /\ GetLock(p, c) =>
              lock[c] = Free /\ lock' = [lock EXCEPT ![c] = p] /\ UNCHANGED stored
         /\ ReadStored(p, c) \/ Send(p, c) => UNCHANGED <<lock, stored>>
         /\ RemoveStored(p, c) => stored' = [stored EXCEPT ![c] = {}] /\ UNCHANGED lock
         /\ AddStored(p, c) =>
              /\ stored' = [stored EXCEPT ![c] = @ \cup {Stored(task[p][c].kline)}]
              /\ lock[c] = p /\ lock' = [lock EXCEPT ![c] = Free]
<1> USE DEF redisVars
<1>1. \A kind \in Harmful : ~Fault(kind)
  BY DEF Undisturbed, Fault
<1>2. ~cancelled[p] /\ ~CommandFails(p)
  BY <1>1 DEF LockInv, CommandFails, Harmful
<1>3. ~LockFails(p, c) /\ ~ReadStoredFails(p, c)
  BY <1>1, <1>2 DEF LockFails, ReadStoredFails, Harmful
<1>4. ASSUME GetLock(p, c)
      PROVE  lock[c] = Free /\ lock' = [lock EXCEPT ![c] = p] /\ UNCHANGED stored
  BY <1>4 DEF GetLock, LockFree
<1>5. ASSUME ReadStored(p, c) \/ Send(p, c)
      PROVE  UNCHANGED <<lock, stored>>
  BY <1>5 DEF ReadStored, Send
<1>6. ASSUME RemoveStored(p, c)
      PROVE  stored' = [stored EXCEPT ![c] = {}] /\ UNCHANGED lock
  BY <1>1, <1>2, <1>6 DEF RemoveStored, Harmful
<1>7. ASSUME AddStored(p, c)
      PROVE  /\ stored' = [stored EXCEPT ![c] = @ \cup {Stored(task[p][c].kline)}]
             /\ lock[c] = p /\ lock' = [lock EXCEPT ![c] = Free]
  <2>1. lock[c] = p
    BY <1>7 DEF AddStored, LockInv, Holds
  <2> QED
    BY <1>1, <1>2, <1>7, <2>1 DEF AddStored, Release, Harmful
<1> QED
  BY <1>3, <1>4, <1>5, <1>6, <1>7

LEMMA LockMerge ==
  ASSUME Inv, LockInv, Undisturbed', NEW p \in Partitions, NEW c \in Candles, Merge(p, c)
  PROVE  LockInv'
<1> DEFINE r == task[p][c]
<1>1. UNCHANGED cancelled
  BY DEF Merge, GetLock, LockFails, ReadStored, ReadStoredFails, RemoveStored, AddStored, Send,
         claimVars
<1>2. /\ stored \in [Candles -> SUBSET Kline] /\ lock \in [Candles -> Partitions \cup {Free}]
      /\ Holds(p, c) /\ \A k, l \in stored[c] : k = l
  BY DEF Inv, TypeOK, LockInv
<1>3. PICK pc, kline, old : Becomes(p, c, pc, kline, old)
  BY MergeSteps DEF Merge
<1>4. /\ \A d \in Candles : d # c => lock'[d] = lock[d] /\ stored'[d] = stored[d]
      /\ \A k, l \in stored'[c] : k = l
      /\ Holds(p, c)'
      /\ \A q \in Partitions : q # p /\ lock[c] = q => lock'[c] = q /\ stored'[c] = stored[c]
  <2>1. CASE GetLock(p, c)
    <3>1. Becomes(p, c, "locked", r.kline, r.old)
      BY <2>1, MergeSteps
    <3>2. lock[c] = Free /\ lock' = [lock EXCEPT ![c] = p] /\ UNCHANGED stored
      BY <2>1, CalmMerge
    <3> QED
      BY <1>2, <3>1, <3>2, FreeAssumption DEF Becomes, Holds
  <2>2. CASE ReadStored(p, c)
    <3>1. /\ r.pc = "locked"
          /\ \/ stored[c] = {} /\ Becomes(p, c, "add", r.kline, r.old)
             \/ \E m \in stored[c] : Becomes(p, c, "rem", r.kline, m)
      BY <2>2, MergeSteps
    <3>2. UNCHANGED <<lock, stored>>
      BY <2>2, CalmMerge
    <3> QED
      BY <1>2, <3>1, <3>2 DEF Becomes, Holds
  <2>3. CASE RemoveStored(p, c)
    <3>1. r.pc = "rem" /\ Becomes(p, c, "add", MergeKline(r.old, r.kline), r.old)
      BY <2>3, MergeSteps
    <3>2. stored' = [stored EXCEPT ![c] = {}] /\ UNCHANGED lock
      BY <2>3, CalmMerge
    <3> QED
      BY <1>2, <3>1, <3>2 DEF Becomes, Holds
  <2>4. CASE AddStored(p, c)
    <3>1. r.pc = "add" /\ Becomes(p, c, "send", r.kline, None)
      BY <2>4, MergeSteps
    <3>2. /\ stored' = [stored EXCEPT ![c] = @ \cup {Stored(r.kline)}]
          /\ lock[c] = p /\ lock' = [lock EXCEPT ![c] = Free]
      BY <2>4, CalmMerge
    <3> QED
      BY <1>2, <3>1, <3>2 DEF Becomes, Holds
  <2>5. CASE Send(p, c)
    <3>1. Becomes(p, c, "idle", None, None)
      BY <2>5, MergeSteps
    <3>2. UNCHANGED <<lock, stored>>
      BY <2>5, CalmMerge
    <3> QED
      BY <1>2, <3>1, <3>2 DEF Becomes, Holds
  <2> QED
    BY <2>1, <2>2, <2>3, <2>4, <2>5, CalmMerge DEF Merge
<1>5. ASSUME NEW q \in Partitions, NEW d \in Candles
      PROVE  Holds(q, d)'
  <2>1. Holds(q, d)
    BY DEF LockInv
  <2>2. CASE q = p /\ d = c
    BY <1>4, <2>2
  <2>3. CASE d # c
    BY <1>3, <1>4, <2>1, <2>3 DEF Becomes, Holds
  <2>4. CASE q # p /\ d = c
    BY <1>3, <1>4, <2>1, <2>4 DEF Becomes, Holds
  <2> QED
    BY <2>2, <2>3, <2>4
<1>6. \A d \in Candles : \A k, l \in stored'[d] : k = l
  BY <1>4 DEF LockInv
<1> QED
  BY <1>1, <1>5, <1>6, SMTT(30) DEF LockInv

\* A merge takes nothing out that it does not put back.
LEMMA PresentMerge ==
  ASSUME Inv, LockInv, Undisturbed', SeenIsFolded,
         NEW p \in Partitions, NEW c \in Candles, Merge(p, c)
  PROVE  SeenIsFolded'
<1> DEFINE r == task[p][c]
<1>1. UNCHANGED seen /\ stored \in [Candles -> SUBSET Kline] /\ seen \subseteq Trades
  BY DEF Merge, GetLock, LockFails, ReadStored, ReadStoredFails, RemoveStored, AddStored, Send,
         redisVars, Inv, TypeOK
<1>2. PICK pc, kline, old : Becomes(p, c, pc, kline, old)
  BY MergeSteps DEF Merge
<1>3. \A d \in Candles : d # c => stored'[d] = stored[d]
  BY <1>1, CalmMerge DEF Merge
<1>4. ASSUME NEW t \in seen
      PROVE  (InHand(t) \/ \E k \in stored[Attr[t].candle] : t \in Folds(k))'
  <2> DEFINE d == Attr[t].candle
  <2>1. t \in Trades /\ d \in Candles
    BY <1>1, AttrType
  <2>2. CASE d # c
    <3>1. \A q \in Partitions : task'[q][d] = task[q][d]
      BY <1>2, <2>1, <2>2 DEF Becomes
    <3>2. stored'[d] = stored[d]
      BY <1>3, <2>1, <2>2
    <3> QED
      BY <3>1, <3>2 DEF SeenIsFolded, InHand, Folds
  <2>3. ASSUME d = c, NEW q \in Partitions, q # p, task[q][c].kline # None,
               t \in Folds(task[q][c].kline), task[q][c].pc # "send"
        PROVE  InHand(t)'
    <3>1. task'[q][c] = task[q][c]
      BY <1>2, <2>3 DEF Becomes
    <3> QED
      BY <2>3, <3>1 DEF InHand, Folds
  <2>4. CASE d = c /\ (GetLock(p, c) \/ ReadStored(p, c) \/ Send(p, c))
    <3>1. UNCHANGED stored
      BY <2>4, CalmMerge
    <3>2. /\ task'[p][c].kline = r.kline \/ r.pc = "send"
          /\ task'[p][c].pc # "send"
      BY <2>4, MergeSteps DEF Becomes
    <3> QED
      BY <2>3, <2>4, <3>1, <3>2 DEF SeenIsFolded, InHand, Folds
  <2>5. CASE d = c /\ RemoveStored(p, c)
    <3>1. /\ r.pc = "rem" /\ r.kline \in Kline /\ r.old \in Kline
          /\ Becomes(p, c, "add", MergeKline(r.old, r.kline), r.old)
      BY <2>5, MergeSteps
    <3>2. stored[c] = {r.old}
      BY <3>1 DEF LockInv, Holds
    <3>3. t \in Folds(r.old) \/ t \in Folds(r.kline) => InHand(t)'
      <4>1. /\ MergeKline(r.old, r.kline) # None
            /\ MergeKline(r.old, r.kline).folded[t] = r.old.folded[t] + r.kline.folded[t]
        BY <2>1, <3>1, MergeKlineType
      <4>2. r.old.folded[t] \in Nat /\ r.kline.folded[t] \in Nat
        BY <2>1, <3>1 DEF Kline
      <4> QED
        BY <2>1, <2>5, <3>1, <4>1, <4>2 DEF Becomes, InHand, Folds
    <3> QED
      BY <2>3, <2>5, <3>2, <3>3 DEF SeenIsFolded, InHand
  <2>6. CASE d = c /\ AddStored(p, c)
    <3>1. r.kline \in Kline /\ stored' = [stored EXCEPT ![c] = @ \cup {Stored(r.kline)}]
      BY <2>6, MergeSteps, CalmMerge
    <3>2. stored'[c] = stored[c] \cup {Stored(r.kline)}
      BY <1>1, <3>1
    <3>3. t \in Folds(r.kline) => \E k \in stored'[c] : t \in Folds(k)
      BY <3>1, <3>2, StoredType DEF Folds
    <3> QED
      BY <2>3, <2>6, <3>2, <3>3 DEF SeenIsFolded, InHand, Folds
  <2> QED
    BY <2>2, <2>4, <2>5, <2>6, CalmMerge DEF Merge
<1> QED
  BY <1>1, <1>4 DEF SeenIsFolded

\* Both hold as long as the tasks' progress, the locks and Redis are the same.
LEMMA LockStays ==
  ASSUME LockInv, UNCHANGED <<lock, stored>>, \A p \in Partitions : ~cancelled'[p],
         \A p \in Partitions, c \in Candles :
           \/ task'[p][c].pc \notin {"locked", "rem", "add"}
           \/ task'[p][c].pc = task[p][c].pc /\ task'[p][c].old = task[p][c].old
  PROVE  LockInv'
<1>1. ASSUME NEW p \in Partitions, NEW c \in Candles
      PROVE  Holds(p, c)'
  BY DEF LockInv, Holds
<1> QED
  BY <1>1 DEF LockInv

LEMMA CalmClaim ==
  ASSUME Inv, LockInv, Undisturbed', SeenIsFolded, NEW p \in Partitions, Claim(p)
  PROVE  LockInv' /\ SeenIsFolded'
<1> USE DEF redisVars, claimVars
<1>1. UNCHANGED <<lock, stored>>
  BY DEF Claim, Publish, Receive, CheckSeen, CheckSeenFails, Submit, Finish, Commit, Rebalance,
         Resume
<1>2. ~Rebalance(p)
  BY DEF Rebalance, Fault, Undisturbed, Harmful
<1>3. \A q \in Partitions : ~cancelled'[q]
  BY <1>2 DEF LockInv, Claim, Publish, Receive, CheckSeen, CheckSeenFails, Submit, Finish, Commit,
              Resume
<1>4. CASE UNCHANGED <<task, seen>>
  <2>1. LockInv'
    BY <1>1, <1>3, <1>4, LockStays
  <2> QED
    BY <1>1, <1>4, <2>1 DEF SeenIsFolded, InHand, Folds
<1>5. CASE Submit(p)
  <2>1. LockInv'
    BY <1>1, <1>3, <1>5, SubmitSteps, IdleTaskType, LockStays
  <2>2. UNCHANGED seen /\ seen \subseteq Trades
    BY <1>5 DEF Submit, Inv, TypeOK
  <2>3. ASSUME NEW t \in seen, InHand(t)
        PROVE  InHand(t)'
    <3>1. Attr[t].candle \in Candles
      BY <2>2, AttrType
    <3> QED
      BY <1>5, <2>3, <3>1, SubmitSteps DEF InHand, Folds
  <2> QED
    BY <1>1, <2>1, <2>2, <2>3 DEF SeenIsFolded, Folds
<1>6. CASE CheckSeen(p) \/ CheckSeenFails(p)
  <2> DEFINE e == Head(todo[p])
             c == Attr[e.trade].candle
             r == task[p][c]
             k == Aggregate(r.kline, e)
  <2>1. /\ phase[p] = "filter" /\ todo[p] # <<>> /\ task \in Tasks /\ seen \subseteq Trades
    BY <1>6 DEF CheckSeen, CheckSeenFails, Inv, TypeOK, Tasks
  <2>2. /\ seen' \subseteq seen \cup {e.trade}
        /\ Keep(p, e) \/ UNCHANGED <<task, seen>>
    <3>1. CASE CheckSeen(p) /\ e.trade \in seen
      <4>1. seen' = seen \cup {e.trade} /\ UNCHANGED task
        BY <3>1 DEF CheckSeen, FreshTrade
      <4>2. seen' = seen
        BY <3>1, <4>1
      <4> QED
        BY <4>1, <4>2
    <3>2. CASE CheckSeen(p) /\ e.trade \notin seen
      BY <3>2 DEF CheckSeen, FreshTrade
    <3>3. CASE CheckSeenFails(p)
      BY <3>3 DEF CheckSeenFails
    <3> QED
      BY <1>6, <3>1, <3>2, <3>3
  <2>3. CASE Keep(p, e)
    <3>1. e \in Entry /\ e.trade \in Trades
      BY <2>1, HeadOfTodo DEF Inv
    <3>2. c \in Candles /\ Becomes(p, c, r.pc, k, r.old)
      BY <2>1, <2>3, <3>1, KeepBecomes, SMTT(30)
    <3>3. r.pc = "idle" /\ r.kline \in Kline \cup {None}
      <4>1. c \in Candles /\ r \in Task
        BY <2>1, <3>2 DEF Tasks
      <4>2. WellFormed(phase[p], r)
        BY <4>1 DEF Inv, TaskInv
      <4> HIDE DEF c, r
      <4> QED
        BY <2>1, <4>1, <4>2 DEF WellFormed, Task
    <3>4. /\ k # None /\ k.folded[e.trade] > 0
          /\ r.kline # None => Folds(r.kline) \subseteq Folds(k)
      <4>1. /\ k # None
            /\ \A t \in Trades :
                 /\ t # e.trade => k.folded[t] = IF r.kline = None THEN 0 ELSE r.kline.folded[t]
                 /\ t = e.trade => k.folded[t] = IF r.kline = None THEN 1 ELSE r.kline.folded[t] + 1
        <5> HIDE DEF r, e
        <5> QED
          BY <3>1, <3>3, AggregateType, SMTT(30)
      <4>2. r.kline # None => \A t \in Trades : r.kline.folded[t] \in Nat
        BY <3>3 DEF Kline
      <4> HIDE DEF k, r
      <4> QED
        BY <3>1, <4>1, <4>2 DEF Folds
    <3> HIDE DEF k, c, e
    <3>5. LockInv'
      BY <1>1, <1>3, <3>2, <3>3, LockStays DEF Becomes
    <3>6. ASSUME NEW t \in seen, InHand(t)
          PROVE  InHand(t)'
      <4>1. PICK q \in Partitions :
              /\ task[q][Attr[t].candle].kline # None
              /\ t \in Folds(task[q][Attr[t].candle].kline)
              /\ task[q][Attr[t].candle].pc # "send"
        BY <3>6 DEF InHand
      <4>2. Attr[t].candle \in Candles
        BY <2>1, AttrType
      <4>3. CASE q = p /\ Attr[t].candle = c
        BY <3>2, <3>3, <3>4, <4>1, <4>3 DEF Becomes, InHand, Folds
      <4>4. CASE q # p \/ Attr[t].candle # c
        BY <3>2, <4>1, <4>2, <4>4 DEF Becomes, InHand, Folds
      <4> QED
        BY <4>3, <4>4
    <3>7. PICK new \in Trades : new = e.trade
      BY <3>1
    <3>8. Attr[new].candle = c
      BY <3>7 DEF c
    <3>9. InHand(new)'
      BY <3>2, <3>3, <3>4, <3>7, <3>8 DEF Becomes, InHand, Folds
    <3>10. \A t \in seen' : t \in seen \/ t = new
      BY <2>2, <3>7
    <3>11. SeenIsFolded'
      BY <1>1, <3>6, <3>9, <3>10 DEF SeenIsFolded, Folds
    <3> QED
      BY <3>5, <3>11
  <2> QED
    BY <1>4, <2>2, <2>3
<1> QED
  BY <1>2, <1>4, <1>5, <1>6 DEF Claim, Publish, Receive, Finish, Commit, Resume

LEMMA CalmStep ==
  ASSUME Inv, CalmInv, [Next]_vars
  PROVE  CalmInv'
<1> USE DEF claimVars, redisVars
<1> SUFFICES ASSUME Undisturbed'
             PROVE  LockInv' /\ SeenIsFolded'
  BY DEF CalmInv
<1>1. LockInv /\ SeenIsFolded
  BY OccurredGrows DEF CalmInv, Undisturbed
<1>2. ASSUME NEW p \in Partitions, Claim(p)
      PROVE  LockInv' /\ SeenIsFolded'
  BY <1>1, <1>2, CalmClaim
<1>3. ASSUME NEW p \in Partitions, NEW c \in Candles, Merge(p, c)
      PROVE  LockInv' /\ SeenIsFolded'
  BY <1>1, <1>3, LockMerge, PresentMerge
<1>4. ~Crash
  BY DEF Crash, Fault, Undisturbed, Harmful
<1>5. ASSUME NEW c \in Candles, LockExpires(c)
      PROVE  LockInv' /\ SeenIsFolded'
  <2>1. ~Working(c)
    BY <1>5 DEF LockExpires, Fault, Undisturbed, Harmful
  <2>2. lock' = [lock EXCEPT ![c] = Free] /\ UNCHANGED <<task, seen, stored, cancelled>>
    BY <1>5 DEF LockExpires
  <2>3. ASSUME NEW p \in Partitions, NEW d \in Candles
        PROVE  Holds(p, d)'
    <3>1. Holds(p, d) /\ lock \in [Candles -> Partitions \cup {Free}]
      BY <1>1 DEF LockInv, Inv, TypeOK
    <3>2. d = c => task[p][d].pc \notin {"locked", "rem", "add"}
      BY <2>1, <3>1 DEF Working, Holds
    <3> QED
      BY <2>2, <3>1, <3>2 DEF Holds
  <2> QED
    BY <1>1, <2>2, <2>3 DEF LockInv, SeenIsFolded, InHand, Folds
<1>6. CASE TakeKline \/ Flush \/ UNCHANGED vars
  <2>1. UNCHANGED <<task, seen, stored, lock, cancelled>>
    BY <1>6 DEF TakeKline, Flush, vars
  <2>2. LockInv'
    BY <1>1, <2>1, LockStays DEF LockInv
  <2> QED
    BY <1>1, <2>1, <2>2 DEF SeenIsFolded, InHand, Folds
<1> QED
  BY <1>2, <1>3, <1>4, <1>5, <1>6 DEF Next

LEMMA CalmHolds == Spec => []CalmInv
<1>1. Init => CalmInv
  BY IdleTaskType DEF Init, IdleTasks, CalmInv, LockInv, Holds, SeenIsFolded
<1>2. Inv /\ CalmInv /\ [Next]_vars => CalmInv'
  BY CalmStep
<1> QED
  BY <1>1, <1>2, InvHolds, PTL DEF Spec

\* As long as no harmful fault happens, and whatever the claims of the other
\* partitions do between the commands of a merge, no trade that was let through
\* gets lost on its way to Redis.
THEOREM NoTradeMissingHolds == Spec => []NoTradeMissing
<1>1. CalmInv => NoTradeMissing
  BY DEF CalmInv, Undisturbed, SeenIsFolded, NoTradeMissing
<1> QED
  BY <1>1, CalmHolds, PTL

-----------------------------------------------------------------------------
(* A merge acts like one step.                                             *)

\* The trades in a candle are trades of that candle ...
Own(k, c) == \A t \in Trades : k.folded[t] > 0 => Attr[t].candle = c

OwnInv ==
  /\ \A c \in Candles, k \in Kline : IsVersion(k, c) => Own(k, c)
  /\ \A p \in Partitions, c \in Candles : task[p][c].kline # None => Own(task[p][c].kline, c)

\* ... and the result of a merge has those of the member it replaces.
OldIsPart ==
  \A p \in Partitions, c \in Candles :
    task[p][c].pc = "add" /\ task[p][c].old # None =>
      Folds(task[p][c].old) \subseteq Folds(task[p][c].kline)

LEMMA MergeOwn ==
  ASSUME NEW old \in Kline, NEW k \in Kline, NEW c, Own(old, c), Own(k, c)
  PROVE  Own(MergeKline(old, k), c)
<1>1. \A t \in Trades : /\ MergeKline(old, k).folded[t] = old.folded[t] + k.folded[t]
                        /\ old.folded[t] \in Nat /\ k.folded[t] \in Nat
  BY MergeKlineType DEF Kline
<1> QED
  BY <1>1 DEF Own

LEMMA OwnStep ==
  ASSUME Inv, OwnInv, [Next]_vars
  PROVE  OwnInv'
<1>1. ASSUME NEW c \in Candles, NEW k \in Kline, IsVersion(k, c)'
      PROVE  Own(k, c)
  <2>1. ASSUME NEW l \in Kline, IsVersion(l, c), Alike(k, l)
        PROVE  Own(k, c)
    BY <2>1 DEF OwnInv, Own, Alike
  <2>2. CASE Unmerged(k, c)
    BY <2>2, NoneAssumption DEF Unmerged, OwnInv
  <2>3. CASE Merging(k, c)
    <3>1. PICK p \in Partitions :
            /\ task[p][c].old \in Kline /\ task[p][c].kline \in Kline
            /\ k = MergeKline(task[p][c].old, task[p][c].kline)
      BY <2>3 DEF Merging
    <3>2. Own(task[p][c].old, c) /\ Own(task[p][c].kline, c)
      BY <3>1, NoneAssumption DEF OwnInv, IsVersion, IsMerging
    <3> QED
      BY <3>1, <3>2, MergeOwn
  <2> QED
    BY <1>1, <2>1, <2>2, <2>3, VersionsStep DEF Origin
<1>2. ASSUME NEW p \in Partitions, NEW c \in Candles, task'[p][c].kline # None
      PROVE  Own(task'[p][c].kline, c)
  <2> DEFINE r == task[p][c]
  <2>1. CASE r.kline # None /\ task'[p][c].kline = r.kline
    BY <2>1 DEF OwnInv
  <2>2. CASE /\ todo[p] # <<>> /\ c = Attr[Head(todo[p]).trade].candle
             /\ r.kline \in Kline \cup {None}
             /\ task'[p][c].kline = Aggregate(r.kline, Head(todo[p]))
    <3> DEFINE e == Head(todo[p])
    <3>1. e \in Entry
      BY <2>2, HeadOfTodo, SMTT(30) DEF Inv
    <3>2. /\ Attr[e.trade].candle = c
          /\ \A t \in Trades : t # e.trade =>
               Aggregate(r.kline, e).folded[t] = IF r.kline = None THEN 0 ELSE r.kline.folded[t]
      BY <2>2, <3>1, AggregateType
    <3>3. r.kline # None => Own(r.kline, c)
      BY DEF OwnInv
    <3> HIDE DEF e, r
    <3>4. Own(Aggregate(r.kline, e), c)
      BY <3>2, <3>3 DEF Own
    <3>5. task'[p][c].kline = Aggregate(r.kline, e)
      BY <2>2 DEF e, r
    <3> QED
      BY <3>4, <3>5, SMTT(30)
  <2>3. CASE /\ r.old \in Kline /\ r.kline \in Kline
             /\ task'[p][c].kline = MergeKline(r.old, r.kline)
    <3>1. Own(r.old, c) /\ Own(r.kline, c)
      BY <2>3, NoneAssumption DEF OwnInv, IsVersion, IsMerging
    <3> QED
      BY <2>3, <3>1, MergeOwn
  <2> QED
    BY <1>2, <2>1, <2>2, <2>3, TaskStep
<1> QED
  BY <1>1, <1>2 DEF OwnInv, Own

\* Only a merge brings its task to the point where it adds, or beyond.
LEMMA AddingStays ==
  ASSUME Inv, [Next]_vars, ~Crash, NEW q \in Partitions, NEW d \in Candles, ~Merge(q, d),
         task[q][d].pc = "add" \/ task'[q][d].pc = "add"
  PROVE  task'[q][d] = task[q][d]
<1> USE DEF flushVars, redisVars
<1>1. ASSUME NEW p \in Partitions, NEW c \in Candles, Merge(p, c)
      PROVE  task'[q][d] = task[q][d]
  <2>1. \E pc, kline, old : Becomes(p, c, pc, kline, old)
    BY <1>1, MergeSteps DEF Merge
  <2>2. q # p \/ d # c
    BY <1>1
  <2> QED
    BY <2>1, <2>2 DEF Becomes
<1>2. ASSUME NEW p \in Partitions, Submit(p)
      PROVE  task'[q][d] = task[q][d]
  BY <1>2, SubmitSteps, IdleTaskType DEF Inv, TaskInv, WellFormed, Submit
<1>3. ASSUME NEW p \in Partitions, CheckSeen(p) \/ CheckSeenFails(p)
      PROVE  task'[q][d] = task[q][d]
  <2>1. /\ todo[p] # <<>> /\ phase[p] = "filter" /\ task \in Tasks
        /\ UNCHANGED task \/ Keep(p, Head(todo[p]))
    BY <1>3 DEF CheckSeen, CheckSeenFails, Inv, TypeOK, Tasks
  <2>2. CASE Keep(p, Head(todo[p]))
    <3>1. PICK c \in Candles : \E kline : Becomes(p, c, task[p][c].pc, kline, task[p][c].old)
      BY <2>1, <2>2, KeepBecomes, HeadOfTodo DEF Inv
    <3>2. task[p][c].pc = "idle"
      BY <2>1 DEF Inv, TaskInv, WellFormed
    <3> QED
      BY <3>1, <3>2 DEF Becomes
  <2> QED
    BY <2>1, <2>2
<1>4. ASSUME NEW p \in Partitions, Claim(p)
      PROVE  task'[q][d] = task[q][d]
  <2>1. UNCHANGED task \/ CheckSeen(p) \/ CheckSeenFails(p) \/ Submit(p)
    BY <1>4 DEF Claim, Publish, Receive, Finish, Commit, Rebalance, Resume
  <2> QED
    BY <1>2, <1>3, <2>1
<1>5. CASE TakeKline \/ Flush \/ (\E c \in Candles : LockExpires(c)) \/ UNCHANGED vars
  BY <1>5 DEF TakeKline, Flush, LockExpires, vars
<1> QED
  BY <1>1, <1>4, <1>5 DEF Next

LEMMA OldIsPartStep ==
  ASSUME Inv, OldIsPart, [Next]_vars
  PROVE  OldIsPart'
<1> SUFFICES ASSUME NEW p \in Partitions, NEW c \in Candles,
                    task'[p][c].pc = "add", task'[p][c].old # None
             PROVE  Folds(task'[p][c].old) \subseteq Folds(task'[p][c].kline)
  BY DEF OldIsPart, Folds
<1>1. ~Crash
  BY IdleTaskType DEF Crash, IdleTasks
<1>2. CASE ~Merge(p, c)
  BY <1>1, <1>2, AddingStays DEF OldIsPart
<1>3. CASE Merge(p, c)
  <2> DEFINE r == task[p][c]
  <2>1. WellFormed(phase[p], r)
    BY DEF Inv, TaskInv
  <2>2. /\ r.old \in Kline /\ r.kline \in Kline
        /\ task'[p][c].old = r.old /\ task'[p][c].kline = MergeKline(r.old, r.kline)
    BY <1>3, <2>1, MergeSteps DEF Merge, Becomes, WellFormed
  <2>3. \A t \in Trades : /\ MergeKline(r.old, r.kline).folded[t] = r.old.folded[t] + r.kline.folded[t]
                          /\ r.old.folded[t] \in Nat /\ r.kline.folded[t] \in Nat
    BY <2>2, MergeKlineType DEF Kline
  <2> QED
    BY <2>2, <2>3 DEF Folds
<1> QED
  BY <1>2, <1>3

LedgerInv == Inv /\ CalmInv /\ OwnInv /\ OldIsPart

LEMMA LedgerInvHolds == Spec => []LedgerInv
<1>1. Init => OwnInv /\ OldIsPart
  <2> SUFFICES ASSUME Init PROVE OwnInv /\ OldIsPart
    OBVIOUS
  <2>1. \A p \in Partitions, c \in Candles :
          /\ task[p][c].kline = None /\ task[p][c].old = None /\ task[p][c].pc = "idle"
          /\ stored[c] = {} /\ row[c] = None /\ batch[c] = None
    BY IdleTaskType DEF Init, IdleTasks
  <2>2. \A c \in Candles, k \in Kline : ~IsVersion(k, c)
    BY <2>1, NoneAssumption DEF Init, IsVersion, IsSent, IsMerging
  <2> QED
    BY <2>1, <2>2 DEF OwnInv, OldIsPart
<1>2. Inv /\ OwnInv /\ OldIsPart /\ [Next]_vars => OwnInv' /\ OldIsPart'
  BY OwnStep, OldIsPartStep
<1> QED
  BY <1>1, <1>2, InvHolds, CalmHolds, PTL DEF Spec, LedgerInv

\* The trades counted in a candle, when no merge of it is under way but perhaps
\* one whose member is removed.
LEMMA CountedStored ==
  ASSUME NEW c \in Candles, NEW p \in Partitions,
         \A q \in Partitions : q # p => task[q][c].pc # "add",
         task[p][c].pc = "add" => stored[c] = {}
  PROVE  /\ task[p][c].pc = "add" =>
              Counted(c) = IF task[p][c].old = None THEN {} ELSE Folds(task[p][c].old)
         /\ \A k : task[p][c].pc # "add" /\ stored[c] = {k} => Counted(c) = Folds(k)
<1> DEFINE adding == {q \in Partitions : task[q][c].pc = "add" /\ task[q][c].old # None}
           counted == {Folds(k) : k \in stored[c]} \cup {Folds(task[q][c].old) : q \in adding}
<1>1. Counted(c) = UNION counted
  BY DEF Counted
<1>2. ASSUME task[p][c].pc = "add"
      PROVE  Counted(c) = IF task[p][c].old = None THEN {} ELSE Folds(task[p][c].old)
  <2>1. CASE task[p][c].old = None
    <3>1. counted = {}
      BY <1>2, <2>1
    <3> QED
      BY <1>1, <2>1, <3>1
  <2>2. CASE task[p][c].old # None
    <3>1. adding = {p}
      BY <1>2, <2>2
    <3> HIDE DEF adding
    <3>2. counted = {Folds(task[p][c].old)}
      BY <1>2, <3>1
    <3> QED
      BY <1>1, <2>2, <3>2
  <2> QED
    BY <2>1, <2>2
<1>3. ASSUME NEW k, task[p][c].pc # "add", stored[c] = {k}
      PROVE  Counted(c) = Folds(k)
  <2>1. adding = {}
    BY <1>3
  <2> HIDE DEF adding
  <2>2. counted = {Folds(k)}
    BY <1>3, <2>1
  <2> QED
    BY <1>1, <2>2
<1> QED
  BY <1>2, <1>3

LEMMA CountedSame ==
  ASSUME NEW c \in Candles, stored'[c] = stored[c],
         \A q \in Partitions :
           \/ task'[q][c] = task[q][c]
           \/ /\ task[q][c].pc # "add" \/ task[q][c].old = None
              /\ task'[q][c].pc # "add" \/ task'[q][c].old = None
  PROVE  Counted(c)' = Counted(c)
<1> DEFINE adding == {q \in Partitions : task[q][c].pc = "add" /\ task[q][c].old # None}
<1>1. {q \in Partitions : task'[q][c].pc = "add" /\ task'[q][c].old # None} = adding
  OBVIOUS
<1>2. \A q \in adding : task'[q][c].old = task[q][c].old
  OBVIOUS
<1> HIDE DEF adding
<1>3. {Folds(task'[q][c].old) : q \in adding} = {Folds(task[q][c].old) : q \in adding}
  BY <1>2
<1>4. {Folds(k) : k \in stored'[c]} = {Folds(k) : k \in stored[c]}
  OBVIOUS
<1>5. Counted(c) = UNION ({Folds(k) : k \in stored[c]} \cup {Folds(task[q][c].old) : q \in adding})
  BY DEF Counted, adding
<1>6. Counted(c)' =
        UNION ({Folds(k) : k \in stored'[c]} \cup {Folds(task'[q][c].old) : q \in adding})
  BY <1>1 DEF Counted, Folds
<1> QED
  BY <1>3, <1>4, <1>5, <1>6

\* A step of a merge changes nothing or adds the trades of the message.
LEMMA LedgerMerge ==
  ASSUME LedgerInv, LockInv, LockInv', Undisturbed',
         NEW p \in Partitions, NEW c \in Candles, Merge(p, c)
  PROVE  /\ \A d \in Candles : d # c => Counted(d)' = Counted(d)
         /\ Counted(c) \subseteq Counted(c)'
         /\ \A t \in Counted(c)' \ Counted(c) : Attr[t].candle = c
<1> DEFINE r == task[p][c]
<1>1. Inv /\ OwnInv /\ OldIsPart /\ stored \in [Candles -> SUBSET Kline] /\ WellFormed(phase[p], r)
  BY DEF LedgerInv, Inv, TypeOK, TaskInv
<1>2. PICK pc, kline, old : Becomes(p, c, pc, kline, old)
  BY <1>1, MergeSteps DEF Merge
<1>3. ASSUME NEW d \in Candles, d # c
      PROVE  Counted(d)' = Counted(d)
  <2>1. stored'[d] = stored[d]
    BY <1>1, <1>3, CalmMerge DEF Merge
  <2>2. \A q \in Partitions : task'[q][d] = task[q][d]
    BY <1>2, <1>3 DEF Becomes
  <2> QED
    BY <2>1, <2>2, CountedSame
<1>4. ASSUME GetLock(p, c) \/ ReadStored(p, c) \/ Send(p, c)
      PROVE  Counted(c)' = Counted(c)
  <2>1. stored'[c] = stored[c]
    BY <1>1, <1>4, CalmMerge
  <2>2. \A q \in Partitions : q # p => task'[q][c] = task[q][c]
    BY <1>2 DEF Becomes
  <2>3. r.pc # "add" /\ (task'[p][c].pc # "add" \/ task'[p][c].old = None)
    BY <1>1, <1>4, MergeSteps DEF Becomes, WellFormed
  <2> QED
    BY <2>1, <2>2, <2>3, CountedSame
<1>5. ASSUME NEW q \in Partitions, q # p, r.pc \in {"rem", "add"}
      PROVE  task[q][c].pc # "add" /\ task'[q][c].pc # "add"
  <2>1. lock[c] = p /\ task'[q][c] = task[q][c]
    BY <1>2, <1>5 DEF LockInv, Holds, Becomes
  <2> QED
    BY <1>5, <2>1 DEF LockInv, Holds
<1>6. ASSUME RemoveStored(p, c)
      PROVE  Counted(c)' = Counted(c)
  <2>1. /\ r.pc = "rem" /\ r.old \in Kline /\ stored' = [stored EXCEPT ![c] = {}]
        /\ task'[p][c].pc = "add" /\ task'[p][c].old = r.old
    BY <1>1, <1>6, MergeSteps, CalmMerge DEF Becomes
  <2>2. stored[c] = {r.old} /\ stored'[c] = {}
    BY <1>1, <2>1 DEF LockInv, Holds
  <2>3. Counted(c) = Folds(r.old)
    BY <1>5, <2>1, <2>2, CountedStored
  <2>4. Counted(c)' = Folds(task'[p][c].old)
    <3> DEFINE adding == {q \in Partitions : task'[q][c].pc = "add" /\ task'[q][c].old # None}
    <3>1. adding = {p}
      BY <1>5, <2>1, NoneAssumption
    <3>2. Counted(c)' =
            UNION ({Folds(k) : k \in stored'[c]} \cup {Folds(task'[q][c].old) : q \in adding})
      BY DEF Counted, Folds
    <3> HIDE DEF adding
    <3> QED
      BY <2>2, <3>1, <3>2
  <2> QED
    BY <2>1, <2>3, <2>4
<1>7. ASSUME AddStored(p, c)
      PROVE  /\ Counted(c) \subseteq Counted(c)'
             /\ \A t \in Counted(c)' \ Counted(c) : Attr[t].candle = c
  <2>1. /\ r.pc = "add" /\ r.kline \in Kline /\ task'[p][c].pc = "send"
        /\ stored' = [stored EXCEPT ![c] = @ \cup {Stored(r.kline)}]
    BY <1>1, <1>7, MergeSteps, CalmMerge DEF Becomes
  <2>2. stored[c] = {} /\ stored'[c] = {Stored(r.kline)}
    BY <1>1, <2>1 DEF LockInv, Holds
  <2>3. Counted(c) = IF r.old = None THEN {} ELSE Folds(r.old)
    BY <1>5, <2>1, <2>2, CountedStored
  <2>4. Counted(c)' = Folds(r.kline)
    <3>1. \A q \in Partitions : task'[q][c].pc # "add"
      BY <1>5, <2>1
    <3>2. Folds(Stored(r.kline)) = Folds(r.kline)
      BY <2>1, StoredType DEF Folds
    <3> QED
      BY <2>2, <3>1, <3>2 DEF Counted, Folds
  <2>5. Counted(c) \subseteq Folds(r.kline)
    BY <1>1, <2>1, <2>3 DEF OldIsPart
  <2>6. \A t \in Folds(r.kline) : Attr[t].candle = c
    BY <1>1, <2>1, NoneAssumption DEF OwnInv, Own, Folds
  <2> QED
    BY <2>4, <2>5, <2>6
<1> QED
  BY <1>1, <1>3, <1>4, <1>6, <1>7, CalmMerge DEF Merge

\* Other steps do not change what is counted.
LEMMA LedgerOthers ==
  ASSUME LedgerInv, Undisturbed', [Next]_vars,
         \A p \in Partitions, c \in Candles : ~Merge(p, c), NEW c \in Candles
  PROVE  Counted(c)' = Counted(c)
<1> USE DEF redisVars
<1>1. ~Crash
  BY DEF Crash, Fault, Undisturbed, Harmful
<1>2. UNCHANGED stored
  BY <1>1 DEF Next, Claim, Publish, Receive, CheckSeen, CheckSeenFails, Submit, Finish, Commit,
              Rebalance, Resume, TakeKline, Flush, LockExpires, vars
<1>3. \A q \in Partitions : \/ task'[q][c] = task[q][c]
                            \/ task[q][c].pc # "add" /\ task'[q][c].pc # "add"
  BY <1>1, AddingStays DEF LedgerInv
<1> QED
  BY <1>2, <1>3, CountedSame

Harmed == occurred \cap (Harmful \cup {"seen"}) # {}

total == [c \in Candles |-> Counted(c)]

LEMMA LedgerStep ==
  ASSUME LedgerInv, LedgerInv', [Next]_vars
  PROVE  [Ledger!Next]_<<total, Harmed>>
<1> USE DEF total, Harmed
<1>1. CASE Harmed'
  <2>1. \A c \in Candles : Counted(c)' \subseteq Trades
    BY DEF Counted, Folds
  <2>2. Ledger!Harm
    BY <1>1, <2>1 DEF Ledger!Harm
  <2> QED
    BY <2>2 DEF Ledger!Next
<1>2. CASE ~Harmed'
  <2>1. occurred \subseteq occurred'
    BY OccurredGrows DEF LedgerInv
  <2>2. Undisturbed /\ Undisturbed' /\ Harmed' = Harmed
    BY <1>2, <2>1 DEF Undisturbed
  <2>3. LockInv /\ LockInv'
    BY <2>2 DEF LedgerInv, CalmInv
  <2>4. ASSUME NEW p \in Partitions, NEW c \in Candles, Merge(p, c)
        PROVE  Ledger!Next
    <3> DEFINE added == Counted(c)' \ Counted(c)
    <3>1. PICK new : new = added
      OBVIOUS
    <3>2. new \in SUBSET Trades
      BY <3>1 DEF Counted, Folds
    <3>3. /\ \A t \in new : Attr[t].candle = c
          /\ new \cap Counted(c) = {} /\ Counted(c)' = Counted(c) \cup new
          /\ \A d \in Candles : d # c => Counted(d)' = Counted(d)
      BY <2>2, <2>3, <2>4, <3>1, LedgerMerge
    <3>4. total' = [total EXCEPT ![c] = @ \cup new]
      BY <3>3
    <3>5. Ledger!Fold(c, new)
      BY <2>2, <3>2, <3>3, <3>4 DEF Ledger!Fold
    <3> QED
      BY <3>2, <3>5 DEF Ledger!Next
  <2>5. CASE \A p \in Partitions, c \in Candles : ~Merge(p, c)
    <3>1. \A c \in Candles : Counted(c)' = Counted(c)
      BY <2>2, <2>5, LedgerOthers
    <3>2. UNCHANGED <<total, Harmed>>
      BY <2>2, <3>1
    <3> QED
      BY <3>2
  <2> QED
    BY <2>4, <2>5
<1> QED
  BY <1>1, <1>2

\* The three commands of a merge, each of which other claims may see and come
\* between, add the message's trades to their candle in one step and take
\* nothing out: the pipeline implements the ledger.
THEOREM MergeIsAtomicHolds == Spec => MergeIsAtomic
<1>1. Init => Ledger!Init
  <2> SUFFICES ASSUME Init PROVE Ledger!Init
    OBVIOUS
  <2>1. \A c \in Candles : Counted(c) = {}
    <3>1. /\ \A p \in Partitions, c \in Candles : task[p][c].pc # "add"
          /\ \A c \in Candles : stored[c] = {}
      BY IdleTaskType DEF Init, IdleTasks
    <3> SUFFICES ASSUME NEW c \in Candles PROVE Counted(c) = {}
      OBVIOUS
    <3> DEFINE adding == {q \in Partitions : task[q][c].pc = "add" /\ task[q][c].old # None}
    <3>2. Counted(c) =
            UNION ({Folds(k) : k \in stored[c]} \cup {Folds(task[q][c].old) : q \in adding})
      BY DEF Counted
    <3>3. adding = {}
      BY <3>1
    <3> HIDE DEF adding
    <3> QED
      BY <3>1, <3>2, <3>3
  <2> QED
    BY <2>1 DEF Init, Ledger!Init
<1>2. LedgerInv /\ LedgerInv' /\ [Next]_vars => [Ledger!Next]_<<total, Harmed>>
  BY LedgerStep
<1> QED
  BY <1>1, <1>2, LedgerInvHolds, PTL DEF Spec, MergeIsAtomic, Ledger!Spec, total, Harmed

-----------------------------------------------------------------------------
(* One claim: the versions of a candle leave in the order they were made.  *)

\* One partition has all messages, and no fault costs Redis a candle or ends
\* the work on one: checks and flushes may fail, locks may expire or be
\* waited for in vain.
OneClaim ==
  /\ \A p, q \in Partitions : p = q
  /\ Faults \cap {"redis", "rebalance", "crash"} = {}

\* Candle l has all that k has.
Extends(k, l) == \A t \in Trades : k.folded[t] <= l.folded[t]

\* The result of a merge has been added, and is about to be sent.
IsAdded(k, c) == \E p \in Partitions : task[p][c].pc = "send" /\ k = task[p][c].kline

\* A version that left, or is about to: what is stored extends it, and so does
\* what a merge is going to store.
Superseded(k, c) ==
  /\ stored[c] # {} \/ \E p \in Partitions : task[p][c].pc = "add"
  /\ \A l \in stored[c] : Extends(k, l)
  /\ \A p \in Partitions :
       task[p][c].pc = "add" \/ (task[p][c].pc = "send" /\ task[p][c].kline # None)
         => Extends(k, task[p][c].kline)

\* The row, the batch and the channel hold the versions in their order.
InOrder(c) ==
  /\ \A k \in Kline : row[c] # None /\ IsSent(k, c) => Extends(row[c], k)
  /\ \A i \in 1..Len(channel) :
       channel[i].candle = c /\ channel[i].kline # None =>
         /\ batch[c] # None => Extends(batch[c], channel[i].kline)
         /\ \A j \in 1..Len(channel) :
              i < j /\ channel[j].candle = c /\ channel[j].kline # None =>
                Extends(channel[i].kline, channel[j].kline)

\* What the only claim read is still all that is stored, with or without a lock.
AloneInv ==
  /\ \A p \in Partitions : ~cancelled[p]
  /\ \A p \in Partitions, c \in Candles :
       /\ task[p][c].pc = "rem" => stored[c] = {task[p][c].old}
       /\ task[p][c].pc = "add" => stored[c] = {}
  /\ \A c \in Candles : \A k, l \in stored[c] : k = l

ChainInv ==
  \A c \in Candles :
    /\ InOrder(c)
    /\ \A k \in Kline : IsSent(k, c) \/ IsAdded(k, c) => Superseded(k, c)

RowsInv == AloneInv /\ ChainInv

\* An order, as far as is needed here.
LEMMA ExtendsOrder ==
  /\ \A k \in Kline : Extends(k, k)
  /\ \A k, l, m \in Kline : Extends(k, l) /\ Extends(l, m) => Extends(k, m)
<1>1. \A k \in Kline, t \in Trades : k.folded[t] \in Nat
  BY DEF Kline
<1> QED
  BY <1>1 DEF Extends

\* The result of a merge has what the member has that it replaces.
LEMMA MergeExtends ==
  ASSUME NEW old \in Kline, NEW k \in Kline
  PROVE  Extends(old, MergeKline(old, k))
<1>1. \A t \in Trades : /\ MergeKline(old, k).folded[t] = old.folded[t] + k.folded[t]
                        /\ old.folded[t] \in Nat /\ k.folded[t] \in Nat
  BY MergeKlineType DEF Kline
<1> QED
  BY <1>1 DEF Extends

\* The steps of a merge in Redis, when commands do not fail.
LEMMA AloneMerge ==
  ASSUME Inv, OneClaim, AloneInv, NEW p \in Partitions, NEW c \in Candles, Merge(p, c)
  PROVE  /\ ~ReadStoredFails(p, c) /\ UNCHANGED <<cancelled, row, batch>>
         /\ GetLock(p, c) \/ LockFails(p, c) \/ ReadStored(p, c) \/ Send(p, c) => UNCHANGED stored
         /\ RemoveStored(p, c) => stored' = [stored EXCEPT ![c] = {}]
         /\ AddStored(p, c) => stored' = [stored EXCEPT ![c] = @ \cup {Stored(task[p][c].kline)}]
         /\ ~Send(p, c) => UNCHANGED channel
         /\ Send(p, c) => channel' = Append(channel, [candle |-> c, kline |-> task[p][c].kline])
<1> USE DEF claimVars, redisVars, flushVars
<1>1. ~Fault("redis") /\ ~cancelled[p]
  BY DEF OneClaim, Fault, AloneInv
<1>2. ~CommandFails(p)
  BY <1>1 DEF CommandFails
<1>3. ~ReadStoredFails(p, c)
  BY <1>2 DEF ReadStoredFails
<1>4. ASSUME GetLock(p, c) \/ LockFails(p, c) \/ ReadStored(p, c)
      PROVE  UNCHANGED <<cancelled, row, batch, stored, channel>>
  <2>1. GetLock(p, c) => UNCHANGED <<cancelled, row, batch, stored, channel>>
    BY DEF GetLock
  <2>2. LockFails(p, c) => UNCHANGED <<cancelled, row, batch, stored, channel>>
    BY DEF LockFails
  <2>3. ReadStored(p, c) => UNCHANGED <<cancelled, row, batch, stored, channel>>
    BY Zenon DEF ReadStored
  <2> QED
    BY <1>4, <2>1, <2>2, <2>3
<1>5. ASSUME Send(p, c)
      PROVE  /\ UNCHANGED <<cancelled, row, batch, stored>>
             /\ channel' = Append(channel, [candle |-> c, kline |-> task[p][c].kline])
  BY <1>5 DEF Send
<1>6. ASSUME RemoveStored(p, c)
      PROVE  /\ UNCHANGED <<cancelled, row, batch, channel>>
             /\ stored' = [stored EXCEPT ![c] = {}]
  BY <1>1, <1>2, <1>6 DEF RemoveStored
<1>7. ASSUME AddStored(p, c)
      PROVE  /\ UNCHANGED <<cancelled, row, batch, channel>>
             /\ stored' = [stored EXCEPT ![c] = @ \cup {Stored(task[p][c].kline)}]
  BY <1>1, <1>2, <1>7 DEF AddStored
<1>8. Send(p, c) =>
        ~GetLock(p, c) /\ ~LockFails(p, c) /\ ~ReadStored(p, c) /\ ~RemoveStored(p, c)
          /\ ~AddStored(p, c)
  BY MergeSteps
<1> QED
  BY <1>3, <1>4, <1>5, <1>6, <1>7, <1>8 DEF Merge

\* What is stored for candle c after a step of its merge.
LEMMA AloneStored ==
  ASSUME Inv, OneClaim, AloneInv, NEW p \in Partitions, NEW c \in Candles, Merge(p, c)
  PROVE  /\ \A d \in Candles : d # c => stored'[d] = stored[d]
         /\ GetLock(p, c) \/ LockFails(p, c) \/ ReadStored(p, c) \/ Send(p, c)
              => stored'[c] = stored[c]
         /\ RemoveStored(p, c) => stored'[c] = {}
         /\ AddStored(p, c) => stored'[c] = {Stored(task[p][c].kline)}
<1>1. stored \in [Candles -> SUBSET Kline]
  BY DEF Inv, TypeOK
<1>2. ASSUME GetLock(p, c) \/ LockFails(p, c) \/ ReadStored(p, c) \/ Send(p, c)
      PROVE  stored' = stored
  BY <1>2, AloneMerge
<1>3. ASSUME RemoveStored(p, c)
      PROVE  stored'[c] = {} /\ \A d \in Candles : d # c => stored'[d] = stored[d]
  BY <1>1, <1>3, AloneMerge
<1>4. ASSUME AddStored(p, c)
      PROVE  /\ stored'[c] = {Stored(task[p][c].kline)}
             /\ \A d \in Candles : d # c => stored'[d] = stored[d]
  <2>1. stored[c] = {}
    BY <1>4, MergeSteps DEF AloneInv
  <2>2. stored' = [stored EXCEPT ![c] = @ \cup {Stored(task[p][c].kline)}]
    BY <1>4, AloneMerge
  <2> QED
    BY <1>1, <2>1, <2>2
<1>5. ~ReadStoredFails(p, c)
  BY AloneMerge
<1> QED
  BY <1>2, <1>3, <1>4, <1>5 DEF Merge

\* A merge of the only claim is not disturbed between its commands.
LEMMA AloneMergeStep ==
  ASSUME Inv, OneClaim, AloneInv, NEW p \in Partitions, NEW c \in Candles, Merge(p, c)
  PROVE  AloneInv'
<1> DEFINE r == task[p][c]
<1>1. \A q \in Partitions : q = p
  BY DEF OneClaim
<1>2. UNCHANGED cancelled /\ ~ReadStoredFails(p, c)
  BY AloneMerge
<1>3. PICK pc, kline, old : Becomes(p, c, pc, kline, old)
  BY MergeSteps DEF Merge
<1>4. /\ task'[p][c].pc = "rem" => stored'[c] = {task'[p][c].old}
      /\ task'[p][c].pc = "add" => stored'[c] = {}
      /\ \A k, l \in stored'[c] : k = l
  <2>1. CASE GetLock(p, c) \/ LockFails(p, c) \/ Send(p, c)
    <3>1. stored'[c] = stored[c] /\ task'[p][c].pc \notin {"rem", "add"}
      BY <2>1, AloneStored, MergeSteps DEF Becomes
    <3> QED
      BY <3>1 DEF AloneInv
  <2>2. CASE ReadStored(p, c)
    <3>1. stored'[c] = stored[c]
      BY <2>2, AloneStored
    <3>2. \/ stored[c] = {} /\ task'[p][c].pc = "add"
          \/ task'[p][c].pc = "rem" /\ task'[p][c].old \in stored[c]
      BY <2>2, MergeSteps DEF Becomes
    <3> QED
      BY <3>1, <3>2 DEF AloneInv
  <2>3. CASE RemoveStored(p, c)
    BY <2>3, AloneStored, MergeSteps DEF Becomes
  <2>4. CASE AddStored(p, c)
    BY <2>4, AloneStored, MergeSteps DEF Becomes
  <2> QED
    BY <1>2, <2>1, <2>2, <2>3, <2>4 DEF Merge
<1>5. ASSUME NEW d \in Candles, d # c
      PROVE  task'[p][d] = task[p][d] /\ stored'[d] = stored[d]
  BY <1>3, <1>5, AloneStored DEF Becomes
<1>6. \A q \in Partitions : ~cancelled'[q]
  BY <1>2 DEF AloneInv
<1> QED
  BY <1>1, <1>4, <1>5, <1>6 DEF AloneInv

\* A claim starts tasks and gives them trades, before their merges.
LEMMA ClaimTasks ==
  ASSUME Inv, NEW p \in Partitions, Claim(p), NEW q \in Partitions, NEW c \in Candles
  PROVE  \/ task'[q][c] = task[q][c]
         \/ task[q][c].pc = "idle" /\ task'[q][c].pc \in {"idle", "lock"}
<1>1. CASE UNCHANGED task
  BY <1>1
<1>2. CASE Submit(p)
  BY <1>2, SubmitSteps, IdleTaskType DEF Inv, TaskInv, WellFormed, Submit
<1>3. CASE (CheckSeen(p) \/ CheckSeenFails(p)) /\ Keep(p, Head(todo[p]))
  <2>1. todo[p] # <<>> /\ phase[p] = "filter" /\ task \in Tasks
    BY <1>3 DEF CheckSeen, CheckSeenFails, Inv, TypeOK, Tasks
  <2>2. PICK d \in Candles : \E kline : Becomes(p, d, task[p][d].pc, kline, task[p][d].old)
    BY <1>3, <2>1, KeepBecomes, HeadOfTodo DEF Inv
  <2>3. task[p][d].pc = "idle"
    BY <2>1 DEF Inv, TaskInv, WellFormed
  <2> QED
    BY <2>2, <2>3 DEF Becomes
<1> QED
  BY <1>1, <1>2, <1>3 DEF Claim, Publish, Receive, CheckSeen, CheckSeenFails, Finish, Commit,
                          Rebalance, Resume

\* The steps that are not of a merge leave Redis and the merges as they are.
LEMMA OtherSteps ==
  ASSUME Inv, OneClaim, AloneInv, [Next]_vars, \A p \in Partitions, c \in Candles : ~Merge(p, c)
  PROVE  /\ UNCHANGED stored /\ ~Crash
         /\ \A q \in Partitions : ~cancelled'[q]
         /\ \A q \in Partitions, d \in Candles :
              \/ task'[q][d] = task[q][d]
              \/ task[q][d].pc = "idle" /\ task'[q][d].pc \in {"idle", "lock"}
         /\ TakeKline \/ Flush \/ UNCHANGED <<row, batch, channel>>
<1> USE DEF claimVars, redisVars, flushVars
<1>1. ~Crash
  BY DEF OneClaim, Crash, Fault
<1>2. ASSUME NEW p \in Partitions, Claim(p)
      PROVE  UNCHANGED <<stored, row, batch, channel>> /\ \A q \in Partitions : ~cancelled'[q]
  <2>1. ~Rebalance(p)
    BY DEF OneClaim, Rebalance, Fault
  <2> QED
    BY <1>2, <2>1 DEF AloneInv, Claim, Publish, Receive, CheckSeen, CheckSeenFails, Submit,
                      Finish, Commit, Resume
<1>3. ASSUME TakeKline \/ Flush
      PROVE  UNCHANGED <<stored, task, cancelled>>
  BY <1>3 DEF TakeKline, Flush
<1>4. ASSUME (\E c \in Candles : LockExpires(c)) \/ UNCHANGED vars
      PROVE  UNCHANGED <<stored, task, cancelled, row, batch, channel>>
  BY <1>4 DEF LockExpires, vars
<1> QED
  BY <1>1, <1>2, <1>3, <1>4, ClaimTasks DEF Next, AloneInv

\* Nor is it by any other step.
LEMMA AloneStep ==
  ASSUME Inv, OneClaim, AloneInv, [Next]_vars
  PROVE  AloneInv'
<1>1. CASE \E p \in Partitions, c \in Candles : Merge(p, c)
  BY <1>1, AloneMergeStep
<1>2. CASE \A p \in Partitions, c \in Candles : ~Merge(p, c)
  BY <1>2, OtherSteps DEF AloneInv
<1> QED
  BY <1>1, <1>2

\* Each step of a merge keeps what left behind what it makes.
LEMMA ChainOfMerge ==
  ASSUME Inv, OneClaim, AloneInv, NEW p \in Partitions, NEW c \in Candles, Merge(p, c),
         \A k \in Kline : IsSent(k, c) \/ IsAdded(k, c) => Superseded(k, c),
         NEW k \in Kline, IsSent(k, c) \/ IsAdded(k, c) \/ (AddStored(p, c) /\ k = task[p][c].kline)
  PROVE  Superseded(k, c)'
<1> DEFINE r == task[p][c]
           r2 == task'[p][c]
<1>1. \A q \in Partitions : q = p
  BY DEF OneClaim
<1>2. Superseded(k, c)' <=>
        /\ stored'[c] # {} \/ r2.pc = "add"
        /\ \A l \in stored'[c] : Extends(k, l)
        /\ r2.pc = "add" \/ (r2.pc = "send" /\ r2.kline # None) => Extends(k, r2.kline)
  BY <1>1 DEF Superseded, Extends
<1>3. Superseded(k, c) <=>
        /\ stored[c] # {} \/ r.pc = "add"
        /\ \A l \in stored[c] : Extends(k, l)
        /\ r.pc = "add" \/ (r.pc = "send" /\ r.kline # None) => Extends(k, r.kline)
  BY <1>1 DEF Superseded
<1>4. CASE GetLock(p, c) \/ LockFails(p, c) \/ Send(p, c)
  <2>1. stored'[c] = stored[c] /\ r.pc # "add"
    BY <1>4, AloneStored, MergeSteps
  <2>2. r2.pc \in {"locked", "idle"} \/ (r2.pc = "send" /\ r2.kline = None)
    BY <1>4, MergeSteps DEF Becomes
  <2>3. Superseded(k, c)
    BY <2>1, MergeSteps
  <2>4. stored'[c] # {} /\ \A l \in stored'[c] : Extends(k, l)
    BY <1>3, <2>1, <2>3
  <2> QED
    BY <1>2, <2>2, <2>4
<1>5. CASE ReadStored(p, c)
  <2>1. stored'[c] = stored[c] /\ r.pc = "locked" /\ Superseded(k, c)
    BY <1>5, AloneStored, MergeSteps DEF AddStored
  <2>2. stored[c] # {}
    BY <1>3, <2>1
  <2>3. r2.pc = "rem"
    BY <1>5, <2>2, MergeSteps DEF Becomes
  <2> QED
    BY <1>2, <1>3, <2>1, <2>2, <2>3, SMTT(30)
<1>6. CASE RemoveStored(p, c)
  <2>1. /\ stored'[c] = {} /\ r.pc = "rem" /\ r.old \in Kline /\ r.kline \in Kline
        /\ r2.pc = "add" /\ r2.kline = MergeKline(r.old, r.kline)
    BY <1>6, AloneStored, MergeSteps DEF Becomes
  <2>2. stored[c] = {r.old} /\ Superseded(k, c)
    BY <2>1 DEF AloneInv, AddStored
  <2>3. Extends(k, r.old) /\ Extends(r.old, r2.kline)
    BY <1>3, <2>1, <2>2, MergeExtends
  <2>4. r2.kline \in Kline
    BY <2>1, MergeKlineType
  <2>5. Extends(k, r2.kline)
    BY <2>1, <2>3, <2>4, ExtendsOrder
  <2> QED
    BY <1>2, <2>1, <2>5
<1>7. CASE AddStored(p, c)
  <2>1. /\ stored'[c] = {Stored(r.kline)} /\ r.pc = "add" /\ r.kline \in Kline
        /\ r2.pc = "send" /\ r2.kline = r.kline
    BY <1>7, AloneStored, MergeSteps DEF Becomes
  <2>2. Extends(k, r.kline)
    BY <1>3, <2>1, ExtendsOrder
  <2>3. Extends(k, Stored(r.kline))
    BY <2>1, <2>2, StoredType DEF Extends
  <2> QED
    BY <1>2, <2>1, <2>2, <2>3
<1> QED
  BY <1>4, <1>5, <1>6, <1>7, AloneMerge DEF Merge

\* The channel after a version was sent.
LEMMA ChannelOfSend ==
  ASSUME Inv, NEW p \in Partitions, NEW c \in Candles, Send(p, c)
  PROVE  /\ Len(channel) \in Nat /\ Len(channel') = Len(channel) + 1
         /\ channel'[Len(channel) + 1].candle = c
         /\ channel'[Len(channel) + 1].kline = task[p][c].kline
         /\ \A i \in 1..Len(channel) : channel'[i] = channel[i]
         /\ task[p][c].pc = "send" /\ UNCHANGED <<row, batch>>
<1> DEFINE entry == [candle |-> c, kline |-> task[p][c].kline]
<1>1. task[p][c].pc = "send" /\ channel' = Append(channel, entry) /\ UNCHANGED <<row, batch>>
  BY DEF Send
<1>2. channel \in Seq([candle : Candles, kline : Kline \cup {None}]) /\ task[p][c] \in Task
  BY DEF Inv, TypeOK
<1>3. entry \in [candle : Candles, kline : Kline \cup {None}]
  BY <1>2 DEF Task
<1>4. entry.candle = c /\ entry.kline = task[p][c].kline
  OBVIOUS
<1> HIDE DEF entry
<1> QED
  BY <1>1, <1>2, <1>3, <1>4, AppendProperties, LenProperties

\* It comes behind those that were sent before.
LEMMA OrderOfSend ==
  ASSUME Inv, NEW p \in Partitions, NEW c \in Candles, Send(p, c), NEW d \in Candles, InOrder(d),
         \A k \in Kline : IsSent(k, d) => Superseded(k, d)
  PROVE  /\ InOrder(d)'
         /\ \A k \in Kline : IsSent(k, d)' => IsSent(k, d) \/ IsAdded(k, d)
<1> DEFINE last == task[p][c].kline
           n == Len(channel)
<1>1. /\ n \in Nat /\ Len(channel') = n + 1
      /\ channel'[n + 1].candle = c /\ channel'[n + 1].kline = last
      /\ \A i \in 1..n : channel'[i] = channel[i]
      /\ task[p][c].pc = "send" /\ UNCHANGED <<row, batch>>
  BY ChannelOfSend
<1>2. ASSUME NEW k \in Kline, IsSent(k, d), c = d, last # None
      PROVE  Extends(k, last)
  BY <1>1, <1>2 DEF Superseded
<1> HIDE DEF last, n
<1>3. ASSUME NEW k \in Kline, IsSent(k, d)'
      PROVE  IsSent(k, d) \/ (d = c /\ k = last)
  BY <1>1, <1>3 DEF IsSent, n
<1>4. \A i \in 1..n : /\ channel[i].candle = d /\ channel[i].kline # None =>
                           channel[i].kline \in Kline /\ IsSent(channel[i].kline, d)
  <2>1. channel \in Seq([candle : Candles, kline : Kline \cup {None}])
    BY DEF Inv, TypeOK
  <2>2. \A i \in 1..n : channel[i] \in [candle : Candles, kline : Kline \cup {None}]
    BY <2>1, ElementOfSeq DEF n
  <2>3. \A i \in 1..n : channel[i].kline \in Kline \cup {None}
    BY <2>2
  <2> QED
    BY <2>3 DEF IsSent, n
<1>5. row[d] \in Kline \cup {None} /\ batch[d] \in Kline \cup {None}
  BY DEF Inv, TypeOK
<1>6. ASSUME NEW k \in Kline, row[d] # None, IsSent(k, d)'
      PROVE  Extends(row[d], k)
  BY <1>2, <1>3, <1>5, <1>6, NoneAssumption DEF InOrder, IsSent
<1>7. ASSUME NEW i \in 1..(n + 1), channel'[i].candle = d, channel'[i].kline # None
      PROVE  /\ batch[d] # None => Extends(batch[d], channel'[i].kline)
             /\ \A j \in 1..(n + 1) :
                  i < j /\ channel'[j].candle = d /\ channel'[j].kline # None =>
                    Extends(channel'[i].kline, channel'[j].kline)
  <2>1. batch[d] # None => Extends(batch[d], channel'[i].kline)
    <3>1. CASE i \in 1..n
      BY <1>1, <1>7, <3>1 DEF InOrder, n
    <3>2. CASE i = n + 1
      BY <1>1, <1>2, <1>5, <1>7, <3>2 DEF IsSent
    <3> QED
      BY <1>1, <3>1, <3>2
  <2>2. ASSUME NEW j \in 1..(n + 1), i < j, channel'[j].candle = d, channel'[j].kline # None
        PROVE  Extends(channel'[i].kline, channel'[j].kline)
    <3>1. i \in 1..n /\ channel'[i] = channel[i]
      BY <1>1, <2>2
    <3>2. CASE j \in 1..n
      BY <1>1, <1>7, <2>2, <3>1, <3>2 DEF InOrder, n
    <3>3. CASE j = n + 1
      BY <1>1, <1>2, <1>4, <1>7, <2>2, <3>1, <3>3
    <3> QED
      BY <1>1, <3>2, <3>3
  <2> QED
    BY <2>1, <2>2
<1>8. InOrder(d)'
  <2>1. \A k \in Kline : row'[d] # None /\ IsSent(k, d)' => Extends(row'[d], k)
    BY <1>1, <1>6
  <2>2. UNCHANGED batch /\ Len(channel') = n + 1
    BY <1>1
  <2> QED
    BY <1>7, <2>1, <2>2 DEF InOrder, Extends
<1> QED
  BY <1>1, <1>3, <1>8 DEF IsAdded, last

\* What the flusher takes, and what it writes, keeps its place in the order.
LEMMA OrderOfTake ==
  ASSUME Inv, TakeKline, NEW c \in Candles, InOrder(c)
  PROVE  InOrder(c)' /\ \A k \in Kline : IsSent(k, c)' => IsSent(k, c)
<1> DEFINE head == Head(channel)
<1>1. /\ channel # <<>> /\ channel' = Tail(channel) /\ UNCHANGED row
      /\ \/ UNCHANGED batch
         \/ head.kline # None /\ batch' = [batch EXCEPT ![head.candle] = head.kline]
  BY DEF TakeKline
<1>2. /\ head = channel[1] /\ 1 \in 1..Len(channel) /\ Len(channel') = Len(channel) - 1
      /\ Len(channel) \in Nat
      /\ \A i \in 1..Len(channel') :
           i + 1 \in 1..Len(channel) /\ channel'[i] = channel[i + 1]
  BY <1>1, HeadOfChannel, LenProperties DEF Inv, TypeOK
<1>3. \/ batch'[c] = batch[c]
      \/ channel[1].candle = c /\ channel[1].kline # None /\ batch'[c] = channel[1].kline
  BY <1>1, <1>2 DEF Inv, TypeOK
<1> HIDE DEF head
<1>4. ASSUME NEW k \in Kline, IsSent(k, c)'
      PROVE  IsSent(k, c)
  BY <1>1, <1>2, <1>3, <1>4 DEF IsSent
<1>5. ASSUME NEW i \in 1..Len(channel'), channel'[i].candle = c, channel'[i].kline # None
      PROVE  /\ batch'[c] # None => Extends(batch'[c], channel'[i].kline)
             /\ \A j \in 1..Len(channel') :
                  i < j /\ channel'[j].candle = c /\ channel'[j].kline # None =>
                    Extends(channel'[i].kline, channel'[j].kline)
  <2>1. /\ i + 1 \in 1..Len(channel) /\ channel'[i] = channel[i + 1] /\ 1 < i + 1
    BY <1>2
  <2>2. batch'[c] # None => Extends(batch'[c], channel'[i].kline)
    BY <1>2, <1>3, <1>5, <2>1 DEF InOrder
  <2>3. ASSUME NEW j \in 1..Len(channel'), i < j, channel'[j].candle = c, channel'[j].kline # None
        PROVE  Extends(channel'[i].kline, channel'[j].kline)
    <3>1. j + 1 \in 1..Len(channel) /\ channel'[j] = channel[j + 1] /\ i + 1 < j + 1
      BY <1>2, <2>3
    <3> QED
      BY <1>5, <2>1, <2>3, <3>1 DEF InOrder
  <2> QED
    BY <2>2, <2>3
<1>6. \A k \in Kline : row'[c] # None /\ IsSent(k, c)' => Extends(row'[c], k)
  BY <1>1, <1>4 DEF InOrder
<1> QED
  BY <1>4, <1>5, <1>6 DEF InOrder, Extends

\* A row is only replaced by a version that was sent later.
LEMMA OrderOfFlush ==
  ASSUME Inv, Flush, NEW c \in Candles, InOrder(c)
  PROVE  /\ InOrder(c)' /\ \A k \in Kline : IsSent(k, c)' => IsSent(k, c)
         /\ row[c] # None => row'[c] # None /\ Extends(row[c], row'[c])
<1>1. /\ row'[c] = row[c] \/ (batch[c] # None /\ row'[c] = batch[c])
      /\ batch'[c] = None /\ UNCHANGED channel
  BY DEF Flush
<1>2. /\ row[c] \in Kline \cup {None} /\ batch[c] \in Kline \cup {None}
      /\ channel \in Seq([candle : Candles, kline : Kline \cup {None}])
  BY DEF Inv, TypeOK
<1>3. ASSUME NEW k \in Kline, IsSent(k, c)'
      PROVE  /\ IsSent(k, c)
             /\ k # row'[c] =>
                  \E i \in 1..Len(channel) : channel[i].candle = c /\ channel[i].kline = k
  BY <1>1, <1>3, NoneAssumption DEF IsSent
<1>4. ASSUME NEW k \in Kline, row'[c] # None, IsSent(k, c)'
      PROVE  Extends(row'[c], k)
  <2>1. CASE k = row'[c]
    BY <2>1, ExtendsOrder
  <2>2. CASE k # row'[c]
    <3>1. PICK i \in 1..Len(channel) : channel[i].candle = c /\ channel[i].kline = k
      BY <1>3, <1>4, <2>2
    <3>2. k # None /\ IsSent(k, c)
      BY <1>3, <1>4, NoneAssumption
    <3> QED
      BY <1>1, <1>4, <3>1, <3>2 DEF InOrder
  <2> QED
    BY <2>1, <2>2
<1>5. row[c] # None => row'[c] # None /\ Extends(row[c], row'[c])
  BY <1>1, <1>2, ExtendsOrder DEF InOrder, IsSent
<1>6. InOrder(c)'
  BY <1>1, <1>4 DEF InOrder, Extends
<1> QED
  BY <1>3, <1>5, <1>6

\* As long as no version is stored or added, what left stays superseded.
LEMMA SupersededStays ==
  ASSUME NEW c \in Candles, stored'[c] = stored[c],
         \A p \in Partitions : \/ task'[p][c] = task[p][c]
                               \/ task[p][c].pc = "idle" /\ task'[p][c].pc \in {"idle", "lock"},
         NEW k, Superseded(k, c)
  PROVE  Superseded(k, c)'
BY DEF Superseded, Extends

\* Every step keeps the versions in their order.
LEMMA ChainStep ==
  ASSUME Inv, OneClaim, AloneInv, ChainInv, [Next]_vars
  PROVE  ChainInv'
<1>1. ASSUME NEW p \in Partitions, NEW c \in Candles, Merge(p, c), NEW d \in Candles
      PROVE  InOrder(d)' /\ \A k \in Kline : IsSent(k, d)' => IsSent(k, d) \/ IsAdded(k, d)
  <2>1. CASE Send(p, c)
    BY <1>1, <2>1, OrderOfSend DEF ChainInv
  <2>2. CASE ~Send(p, c)
    <3>1. UNCHANGED <<row, batch, channel>>
      BY <1>1, <2>2, AloneMerge
    <3> QED
      BY <3>1 DEF ChainInv, InOrder, IsSent, Extends
  <2> QED
    BY <2>1, <2>2
<1>2. ASSUME NEW p \in Partitions, NEW c \in Candles, Merge(p, c),
             NEW d \in Candles, NEW k \in Kline, IsSent(k, d)' \/ IsAdded(k, d)'
      PROVE  Superseded(k, d)'
  <2>1. PICK pc, kline, old : Becomes(p, c, pc, kline, old)
    BY <1>2, MergeSteps DEF Merge
  <2>2. CASE d # c
    <3>1. stored'[d] = stored[d] /\ \A q \in Partitions : task'[q][d] = task[q][d]
      BY <1>2, <2>1, <2>2, AloneStored DEF Becomes
    <3>2. IsSent(k, d) \/ IsAdded(k, d)
      BY <1>1, <1>2, <3>1 DEF IsAdded
    <3> QED
      BY <3>1, <3>2, SupersededStays DEF ChainInv
  <2>3. CASE d = c
    <3>1. IsAdded(k, c)' => AddStored(p, c) /\ k = task[p][c].kline
      <4>1. \A q \in Partitions : q = p
        BY DEF OneClaim
      <4>2. IsAdded(k, c)' => task'[p][c].pc = "send" /\ k = task'[p][c].kline /\ k # None
        BY <4>1, NoneAssumption DEF IsAdded
      <4> QED
        BY <1>2, <4>2, MergeSteps, AloneMerge DEF Merge, Becomes
    <3>2. IsSent(k, c) \/ IsAdded(k, c) \/ (AddStored(p, c) /\ k = task[p][c].kline)
      BY <1>1, <1>2, <2>3, <3>1
    <3> QED
      BY <1>2, <2>3, <3>2, ChainOfMerge DEF ChainInv
  <2> QED
    BY <2>2, <2>3
<1>3. CASE \E p \in Partitions, c \in Candles : Merge(p, c)
  BY <1>1, <1>2, <1>3 DEF ChainInv
<1>4. CASE \A p \in Partitions, c \in Candles : ~Merge(p, c)
  <2> SUFFICES ASSUME NEW c \in Candles
               PROVE  /\ InOrder(c)'
                      /\ \A k \in Kline : IsSent(k, c)' \/ IsAdded(k, c)' => Superseded(k, c)'
    BY DEF ChainInv
  <2>1. /\ UNCHANGED stored
        /\ \A q \in Partitions : \/ task'[q][c] = task[q][c]
                                 \/ task[q][c].pc = "idle" /\ task'[q][c].pc \in {"idle", "lock"}
        /\ TakeKline \/ Flush \/ UNCHANGED <<row, batch, channel>>
    BY <1>4, OtherSteps
  <2>2. InOrder(c) /\ \A k \in Kline : IsSent(k, c) \/ IsAdded(k, c) => Superseded(k, c)
    BY DEF ChainInv
  <2>3. InOrder(c)' /\ \A k \in Kline : IsSent(k, c)' => IsSent(k, c)
    <3>1. CASE UNCHANGED <<row, batch, channel>>
      BY <2>2, <3>1 DEF InOrder, IsSent, Extends
    <3> QED
      BY <2>1, <2>2, <3>1, OrderOfTake, OrderOfFlush
  <2>4. \A k \in Kline : IsAdded(k, c)' => IsAdded(k, c)
    BY <2>1 DEF IsAdded
  <2> QED
    BY <2>1, <2>2, <2>3, <2>4, SupersededStays
<1> QED
  BY <1>3, <1>4

\* The rows are written by the flusher only.
LEMMA RowStep ==
  ASSUME Inv, OneClaim, RowsInv, [Next]_vars, NEW c \in Candles, row[c] # None
  PROVE  Folds(row[c]) \subseteq Folds(row'[c])
<1>1. CASE Flush
  <2>1. row'[c] # None /\ Extends(row[c], row'[c])
    BY <1>1, OrderOfFlush DEF RowsInv, ChainInv
  <2>2. row[c] \in Kline /\ row'[c] \in Kline
    <3>1. Inv'
      BY StepInv
    <3> QED
      BY <2>1, <3>1 DEF Inv, TypeOK
  <2>3. \A t \in Trades : row[c].folded[t] \in Nat /\ row'[c].folded[t] \in Nat
    BY <2>2 DEF Kline
  <2> QED
    BY <2>1, <2>3 DEF Extends, Folds
<1>2. CASE ~Flush
  <2>1. UNCHANGED row
    <3>1. CASE \E p \in Partitions, d \in Candles : Merge(p, d)
      BY <3>1, AloneMerge DEF RowsInv
    <3>2. CASE \A p \in Partitions, d \in Candles : ~Merge(p, d)
      BY <1>2, <3>2, OtherSteps DEF RowsInv, TakeKline
    <3> QED
      BY <3>1, <3>2
  <2> QED
    BY <2>1
<1> QED
  BY <1>1, <1>2

\* The versions of every candle are in order, as long as one claim makes them.
LEMMA RowsInvHolds == ASSUME OneClaim PROVE Spec => []RowsInv
<1>1. Init => RowsInv
  <2> SUFFICES ASSUME Init PROVE RowsInv
    OBVIOUS
  <2>1. /\ \A p \in Partitions, c \in Candles : task[p][c].pc = "idle"
        /\ \A p \in Partitions : ~cancelled[p]
        /\ \A c \in Candles : stored[c] = {} /\ row[c] = None /\ batch[c] = None
    BY IdleTaskType DEF Init, IdleTasks
  <2>2. channel = <<>> /\ Len(channel) = 0
    BY EmptySeq DEF Init
  <2>3. \A c \in Candles, k \in Kline : ~IsSent(k, c) /\ ~IsAdded(k, c)
    BY <2>1, <2>2, NoneAssumption DEF IsSent, IsAdded
  <2>4. \A c \in Candles : InOrder(c)
    BY <2>2, <2>3 DEF InOrder
  <2> QED
    BY <2>1, <2>3, <2>4 DEF RowsInv, AloneInv, ChainInv
<1>2. Inv /\ RowsInv /\ [Next]_vars => RowsInv'
  BY OneClaim, AloneStep, ChainStep DEF RowsInv
<1> QED
  BY <1>1, <1>2, InvHolds, PTL DEF Spec

\* The flusher picks versions by their volume and overwrites whole rows, and
\* may fail to: with one claim no row ever loses a trade, since the versions
\* reach it in the order they were made.
THEOREM RowNeverFallsBackHolds == ASSUME OneClaim PROVE Spec => RowNeverFallsBack
<1>1. Inv /\ RowsInv /\ [Next]_vars =>
        [\A c \in Candles : row[c] # None => Folds(row[c]) \subseteq Folds(row'[c])]_vars
  BY OneClaim, RowStep
<1> QED
  BY <1>1, InvHolds, RowsInvHolds, PTL DEF Spec, RowNeverFallsBack

-----------------------------------------------------------------------------
(* The table and Redis: what is on its way to a row, and what was added.   *)

LEMMA OnTheWayIs ==
  Inv => \A c \in Candles : \A k :
           k \in OnTheWay(c) <=> k \in Kline /\ (IsSent(k, c) \/ IsAdded(k, c))
<1> SUFFICES ASSUME Inv, NEW c \in Candles, NEW k
             PROVE  k \in OnTheWay(c) <=> k \in Kline /\ (IsSent(k, c) \/ IsAdded(k, c))
  OBVIOUS
<1>1. /\ row[c] \in Kline \cup {None} /\ batch[c] \in Kline \cup {None}
      /\ \A p \in Partitions : task[p][c].kline \in Kline \cup {None}
  BY DEF Inv, TypeOK, Task
<1>2. \A i \in 1..Len(channel) : channel[i].kline \in Kline \cup {None}
  <2>1. channel \in Seq([candle : Candles, kline : Kline \cup {None}])
    BY DEF Inv, TypeOK
  <2>2. \A i \in 1..Len(channel) : channel[i] \in [candle : Candles, kline : Kline \cup {None}]
    BY <2>1, ElementOfSeq
  <2> QED
    BY <2>2
<1>3. k \in OnTheWay(c) => k \in Kline /\ (IsSent(k, c) \/ IsAdded(k, c))
  BY <1>1, <1>2 DEF OnTheWay, IsSent, IsAdded
<1>4. k \in Kline /\ (IsSent(k, c) \/ IsAdded(k, c)) => k \in OnTheWay(c)
  BY NoneAssumption DEF OnTheWay, IsSent, IsAdded
<1> QED
  BY <1>3, <1>4

LEMMA OnTheWayNext ==
  Inv' => (\A c \in Candles : \A k :
             k \in OnTheWay(c) <=> k \in Kline /\ (IsSent(k, c) \/ IsAdded(k, c)))'
  BY OnTheWayIs, PTL

\* The flusher takes nothing in that was not sent.
LEMMA SentStep ==
  ASSUME Inv, [Next]_vars, NEW c \in Candles, NEW k \in Kline, IsSent(k, c)'
  PROVE  IsSent(k, c) \/ IsAdded(k, c)
<1> USE DEF flushVars
<1>1. ASSUME NEW p \in Partitions, Claim(p)
      PROVE  IsSent(k, c)
  <2>1. UNCHANGED <<row, batch, channel>>
    BY <1>1 DEF Claim, Publish, Receive, CheckSeen, CheckSeenFails, Submit, Finish, Commit,
                Rebalance, Resume
  <2> QED
    BY <2>1 DEF IsSent
<1>2. ASSUME NEW p \in Partitions, NEW d \in Candles, Merge(p, d)
      PROVE  IsSent(k, c) \/ IsAdded(k, c)
  <2>1. CASE Send(p, d)
    <3>1. /\ Len(channel) \in Nat /\ Len(channel') = Len(channel) + 1
          /\ channel'[Len(channel) + 1].candle = d
          /\ channel'[Len(channel) + 1].kline = task[p][d].kline
          /\ \A i \in 1..Len(channel) : channel'[i] = channel[i]
          /\ task[p][d].pc = "send" /\ UNCHANGED <<row, batch>>
      BY <2>1, ChannelOfSend
    <3> QED
      BY <3>1 DEF IsSent, IsAdded
  <2>2. CASE ~Send(p, d)
    <3>1. UNCHANGED <<row, batch, channel>>
      BY <1>2, <2>2 DEF Merge, GetLock, LockFails, ReadStored, ReadStoredFails, RemoveStored,
                        AddStored
    <3> QED
      BY <3>1 DEF IsSent
  <2> QED
    BY <2>1, <2>2
<1>3. CASE TakeKline
  <2>1. /\ channel # <<>> /\ channel' = Tail(channel) /\ UNCHANGED row
        /\ UNCHANGED batch \/ batch' = [batch EXCEPT ![Head(channel).candle] = Head(channel).kline]
    BY <1>3 DEF TakeKline
  <2>2. /\ Head(channel) = channel[1] /\ 1 \in 1..Len(channel)
        /\ \A i \in 1..Len(channel') :
             i + 1 \in 1..Len(channel) /\ channel'[i] = channel[i + 1]
    BY <2>1, HeadOfChannel DEF Inv
  <2>3. k = batch'[c] => IsSent(k, c)
    BY <2>1, <2>2, ZenonT(60) DEF IsSent, Inv, TypeOK
  <2> QED
    BY <2>1, <2>2, <2>3 DEF IsSent
<1>4. CASE Flush
  <2>1. (row'[c] = row[c] \/ row'[c] = batch[c]) /\ batch'[c] = None /\ UNCHANGED channel
    BY <1>4 DEF Flush
  <2> QED
    BY <2>1, NoneAssumption DEF IsSent
<1>5. CASE Crash
  <2>1. batch'[c] = None /\ row'[c] = row[c] /\ channel' = <<>>
    BY <1>5 DEF Crash
  <2> QED
    BY <2>1, NoneAssumption DEF IsSent
<1>6. CASE (\E d \in Candles : LockExpires(d)) \/ UNCHANGED vars
  BY <1>6 DEF LockExpires, vars, IsSent
<1> QED
  BY <1>1, <1>2, <1>3, <1>4, <1>5, <1>6 DEF Next

\* A version is to be sent once it was added, or could not be read.
LEMMA AddedStep ==
  ASSUME Inv, [Next]_vars, NEW c \in Candles, NEW k \in Kline, IsAdded(k, c)', ~IsAdded(k, c)
  PROVE  \E p \in Partitions :
           (AddStored(p, c) \/ ReadStoredFails(p, c)) /\ k = task[p][c].kline
<1>1. PICK q \in Partitions : task'[q][c].pc = "send" /\ k = task'[q][c].kline
  BY DEF IsAdded
<1>2. task'[q][c] # task[q][c] /\ k # None
  BY <1>1, NoneAssumption DEF IsAdded
<1>3. ASSUME NEW p \in Partitions, Claim(p)
      PROVE  FALSE
  BY <1>1, <1>2, <1>3, ClaimTasks
<1>4. ASSUME NEW p \in Partitions, NEW d \in Candles, Merge(p, d)
      PROVE  p = q /\ d = c /\ (AddStored(q, c) \/ ReadStoredFails(q, c)) /\ k = task[q][c].kline
  <2>1. \E pc, kline, old : Becomes(p, d, pc, kline, old)
    BY <1>4, MergeSteps DEF Merge
  <2>2. p = q /\ d = c
    BY <1>2, <2>1 DEF Becomes
  <2>3. AddStored(q, c) \/ ReadStoredFails(q, c)
    BY <1>1, <1>2, <1>4, <2>2, MergeSteps DEF Merge, Becomes
  <2>4. k = task[q][c].kline
    BY <1>1, <2>3, MergeSteps DEF Becomes
  <2> QED
    BY <2>2, <2>3, <2>4
<1>5. CASE Crash
  <2>1. task'[q][c] = IdleTask
    BY <1>5 DEF Crash, IdleTasks
  <2> QED
    BY <1>1, <1>2, <2>1, IdleTaskType
<1>6. CASE TakeKline \/ Flush \/ (\E d \in Candles : LockExpires(d)) \/ UNCHANGED vars
  BY <1>2, <1>6 DEF TakeKline, Flush, LockExpires, vars, redisVars
<1> QED
  BY <1>3, <1>4, <1>5, <1>6 DEF Next

\* Nothing is taken out of what is counted, and what was added is counted.
LEMMA BehindStep ==
  ASSUME LedgerInv, LedgerInv', RowBehindStored, [Next]_vars
  PROVE  RowBehindStored'
<1> SUFFICES ASSUME Undisturbed', NEW c \in Candles, NEW k \in OnTheWay(c)'
             PROVE  Folds(k) \subseteq Counted(c)'
  BY DEF RowBehindStored, Undisturbed, Folds
<1>1. Inv /\ Inv'
  BY DEF LedgerInv
<1>2. Undisturbed
  BY <1>1, OccurredGrows DEF Undisturbed
<1>3. LockInv /\ LockInv'
  BY <1>2 DEF LedgerInv, CalmInv
<1>4. Counted(c) \subseteq Counted(c)'
  <2>1. ASSUME NEW p \in Partitions, NEW d \in Candles, Merge(p, d)
        PROVE  Counted(c) \subseteq Counted(c)'
    BY <1>3, <2>1, LedgerMerge
  <2>2. CASE \A p \in Partitions, d \in Candles : ~Merge(p, d)
    BY <2>2, LedgerOthers
  <2> QED
    BY <2>1, <2>2
<1>5. k \in Kline /\ (IsSent(k, c)' \/ IsAdded(k, c)')
  BY <1>1, OnTheWayNext
<1>6. CASE IsSent(k, c) \/ IsAdded(k, c)
  BY <1>1, <1>2, <1>4, <1>5, <1>6, OnTheWayIs DEF RowBehindStored, Undisturbed
<1>7. CASE ~IsSent(k, c) /\ ~IsAdded(k, c)
  <2>1. PICK p \in Partitions : (AddStored(p, c) \/ ReadStoredFails(p, c)) /\ k = task[p][c].kline
    BY <1>1, <1>5, <1>7, SentStep, AddedStep
  <2>2. /\ AddStored(p, c)
        /\ stored' = [stored EXCEPT ![c] = @ \cup {Stored(k)}]
    BY <1>1, <1>3, <2>1, CalmMerge DEF Merge
  <2>3. Stored(k) \in stored'[c]
    BY <1>1, <2>2 DEF Inv, TypeOK
  <2>4. Folds(Stored(k)) = Folds(k)
    BY <1>5, StoredType DEF Folds
  <2> QED
    BY <2>3, <2>4 DEF Counted, Folds
<1> QED
  BY <1>6, <1>7

\* Trades reach the table only from Redis: a row, a batch or a version in the
\* channel never has one that the stored candle has lost or has not yet, in
\* whichever order the claims of several partitions merge and send.
THEOREM RowBehindStoredHolds == Spec => []RowBehindStored
<1>1. Init => RowBehindStored
  <2> SUFFICES ASSUME Init PROVE RowBehindStored
    OBVIOUS
  <2>1. /\ \A p \in Partitions, c \in Candles : task[p][c].pc = "idle"
        /\ \A c \in Candles : row[c] = None /\ batch[c] = None
    BY IdleTaskType DEF Init, IdleTasks
  <2>2. channel = <<>> /\ Len(channel) = 0
    BY EmptySeq DEF Init
  <2>3. \A c \in Candles : OnTheWay(c) = {}
    BY <2>1, <2>2 DEF OnTheWay
  <2> QED
    BY <2>3 DEF RowBehindStored
<1>2. LedgerInv /\ LedgerInv' /\ RowBehindStored /\ [Next]_vars => RowBehindStored'
  BY BehindStep
<1> QED
  BY <1>1, <1>2, LedgerInvHolds, PTL DEF Spec

\* A version as large as one that extends it has the same trades.
LEMMA NotBetter ==
  ASSUME IsFiniteSet(Trades), NEW k \in Kline, NEW old \in Kline,
         Extends(old, k), ~Better(k, old)
  PROVE  Folds(k) = Folds(old)
<1>1. k.folded \in [Trades -> Int] /\ old.folded \in [Trades -> Int]
  BY DEF Kline
<1>2. SumFunction(k.folded) \in Int /\ SumFunction(old.folded) \in Int
  BY <1>1, SumType
<1>3. SumFunction(k.folded) <= SumFunction(old.folded)
  BY <1>2 DEF Better, Volume
<1>4. \A t \in Trades : old.folded[t] <= k.folded[t]
  BY DEF Extends
<1>5. ASSUME NEW t \in Trades
      PROVE  old.folded[t] = k.folded[t]
  BY <1>1, <1>3, <1>4, SumUnchanged
<1> QED
  BY <1>5 DEF Folds

LEMMA ExtendsFolds ==
  ASSUME NEW k \in Kline, NEW l \in Kline, Extends(k, l)
  PROVE  Folds(k) \subseteq Folds(l)
<1>1. \A t \in Trades : k.folded[t] \in Nat /\ l.folded[t] \in Nat
  BY DEF Kline
<1> QED
  BY <1>1 DEF Extends, Folds

\* A version that the flusher takes, or does not, leaves no trade behind.
LEMMA TakeKeeps ==
  ASSUME IsFiniteSet(Trades), Inv, TakeKline, NEW c \in Candles, InOrder(c),
         NEW k \in Kline, IsSent(k, c)
  PROVE  \E l \in Kline : IsSent(l, c)' /\ Folds(k) \subseteq Folds(l)
<1> DEFINE head == channel[1]
<1>1. /\ channel # <<>> /\ channel' = Tail(channel) /\ UNCHANGED row
      /\ Head(channel) = head /\ 1 \in 1..Len(channel) /\ Len(channel) \in Nat
      /\ Len(channel') = Len(channel) - 1
      /\ \A i \in 1..Len(channel') : channel'[i] = channel[i + 1]
      /\ head.candle \in Candles /\ head.kline \in Kline \cup {None}
  BY HeadOfChannel, LenProperties DEF TakeKline, Inv, TypeOK
<1>2. batch[c] \in Kline \cup {None} /\ batch \in [Candles -> Kline \cup {None}]
  BY DEF Inv, TypeOK
<1>3. \/ head.candle = c /\ head.kline # None /\ Better(head.kline, batch[c])
           /\ batch'[c] = head.kline
      \/ head.candle = c /\ head.kline # None /\ ~Better(head.kline, batch[c])
           /\ batch'[c] = batch[c]
      \/ (head.candle # c \/ head.kline = None) /\ batch'[c] = batch[c]
  BY <1>1, <1>2 DEF TakeKline
<1>4. ASSUME head.candle = c, head.kline # None, batch[c] # None
      PROVE  Extends(batch[c], head.kline)
  BY <1>1, <1>4 DEF InOrder
<1> HIDE DEF head
<1>5. CASE k = row[c]
  BY <1>1, <1>5 DEF IsSent
<1>6. CASE k = batch[c]
  <2>1. CASE batch'[c] = batch[c]
    BY <1>6, <2>1 DEF IsSent
  <2>2. CASE head.candle = c /\ head.kline # None /\ batch'[c] = head.kline
    <3>1. head.kline \in Kline /\ Extends(k, head.kline)
      BY <1>1, <1>4, <1>6, <2>2, NoneAssumption
    <3> QED
      BY <2>2, <3>1, ExtendsFolds DEF IsSent
  <2> QED
    BY <1>3, <2>1, <2>2
<1>7. ASSUME NEW i \in 1..Len(channel), channel[i].candle = c, channel[i].kline = k
      PROVE  \E l \in Kline : IsSent(l, c)' /\ Folds(k) \subseteq Folds(l)
  <2>1. CASE i # 1
    <3>1. i - 1 \in 1..Len(channel') /\ channel'[i - 1] = channel[i]
      BY <1>1, <2>1
    <3>2. IsSent(k, c)'
      BY <1>7, <3>1 DEF IsSent
    <3> QED
      BY <3>2
  <2>2. CASE i = 1
    <3>1. head.candle = c /\ head.kline = k /\ k # None
      BY <1>7, <2>2, NoneAssumption DEF head
    <3>2. CASE batch'[c] = head.kline
      BY <3>1, <3>2 DEF IsSent
    <3>3. CASE ~Better(head.kline, batch[c]) /\ batch'[c] = batch[c]
      <4>1. batch[c] # None /\ batch[c] \in Kline
        BY <1>2, <3>3 DEF Better
      <4>2. Folds(k) = Folds(batch[c])
        BY <1>4, <3>1, <3>3, <4>1, NotBetter
      <4> QED
        BY <3>3, <4>1, <4>2 DEF IsSent
    <3> QED
      BY <1>3, <3>1, <3>2, <3>3
  <2> QED
    BY <2>1, <2>2
<1> QED
  BY <1>5, <1>6, <1>7 DEF IsSent

\* Nor does a batch that reaches the table.
LEMMA FlushKeeps ==
  ASSUME Inv, Flush, "mysql" \notin occurred', NEW c \in Candles, InOrder(c),
         NEW k \in Kline, IsSent(k, c)
  PROVE  \E l \in Kline : IsSent(l, c)' /\ Folds(k) \subseteq Folds(l)
<1>1. ~Fault("mysql")
  BY DEF Fault
<1>2. row'[c] = (IF batch[c] = None THEN row[c] ELSE batch[c]) /\ UNCHANGED channel
  BY <1>1 DEF Flush
<1>3. batch[c] \in Kline \cup {None} /\ k # None
  BY NoneAssumption DEF Inv, TypeOK
<1>4. CASE k = row[c] /\ batch[c] # None
  <2>1. batch[c] \in Kline /\ IsSent(batch[c], c) /\ row[c] # None
    BY <1>3, <1>4 DEF IsSent
  <2>2. Extends(k, batch[c])
    BY <1>4, <2>1 DEF InOrder
  <2> QED
    BY <1>2, <1>4, <2>1, <2>2, ExtendsFolds DEF IsSent
<1>5. CASE ~(k = row[c] /\ batch[c] # None)
  BY <1>2, <1>3, <1>5 DEF IsSent
<1> QED
  BY <1>4, <1>5

\* A trade on its way stays there or arrives.
LEMMA OnTheWayKeeps ==
  ASSUME IsFiniteSet(Trades), OneClaim, Inv, RowsInv, [Next]_vars, "mysql" \notin occurred',
         NEW c \in Candles, NEW k \in Kline, IsSent(k, c) \/ IsAdded(k, c)
  PROVE  \E l \in Kline : (IsSent(l, c)' \/ IsAdded(l, c)') /\ Folds(k) \subseteq Folds(l)
<1>1. AloneInv /\ InOrder(c)
  BY DEF RowsInv, ChainInv
<1>2. ASSUME NEW p \in Partitions, NEW d \in Candles, Merge(p, d)
      PROVE  IsSent(k, c)' \/ IsAdded(k, c)'
  <2>1. PICK pc, kline, old : Becomes(p, d, pc, kline, old)
    BY <1>2, MergeSteps DEF Merge
  <2>2. CASE Send(p, d)
    <3>1. /\ Len(channel) \in Nat /\ Len(channel') = Len(channel) + 1
          /\ channel'[Len(channel) + 1].candle = d
          /\ channel'[Len(channel) + 1].kline = task[p][d].kline
          /\ \A i \in 1..Len(channel) : channel'[i] = channel[i]
          /\ UNCHANGED <<row, batch>>
      BY <2>2, ChannelOfSend
    <3>2. CASE IsSent(k, c)
      BY <3>1, <3>2 DEF IsSent
    <3>3. ASSUME NEW q \in Partitions, task[q][c].pc = "send", k = task[q][c].kline
          PROVE  IsSent(k, c)' \/ IsAdded(k, c)'
      <4>1. CASE q = p /\ c = d
        BY <3>1, <3>3, <4>1 DEF IsSent
      <4>2. CASE ~(q = p /\ c = d)
        BY <2>1, <3>3, <4>2 DEF Becomes, IsAdded
      <4> QED
        BY <4>1, <4>2
    <3> QED
      BY <3>2, <3>3 DEF IsAdded
  <2>3. CASE ~Send(p, d)
    <3>1. UNCHANGED <<row, batch, channel>>
      BY <1>1, <1>2, <2>3, AloneMerge
    <3>2. task[p][d].pc # "send"
      BY <1>2, <2>3, MergeSteps DEF Merge
    <3>3. IsAdded(k, c) => IsAdded(k, c)'
      BY <2>1, <3>2 DEF Becomes, IsAdded
    <3> QED
      BY <3>1, <3>3 DEF IsSent
  <2> QED
    BY <2>2, <2>3
<1>3. CASE \A p \in Partitions, d \in Candles : ~Merge(p, d)
  <2>1. /\ \A q \in Partitions : task'[q][c] = task[q][c] \/ task[q][c].pc = "idle"
        /\ TakeKline \/ Flush \/ UNCHANGED <<row, batch, channel>>
    BY <1>1, <1>3, OtherSteps
  <2>2. IsAdded(k, c) => IsAdded(k, c)'
    BY <2>1 DEF IsAdded
  <2>3. CASE IsSent(k, c) /\ UNCHANGED <<row, batch, channel>>
    BY <2>3 DEF IsSent
  <2>4. CASE IsSent(k, c) /\ TakeKline
    BY <1>1, <2>4, TakeKeeps
  <2>5. CASE IsSent(k, c) /\ Flush
    BY <1>1, <2>5, FlushKeeps
  <2> QED
    BY <2>1, <2>2, <2>3, <2>4, <2>5
<1> QED
  BY <1>2, <1>3

LEMMA ReachStep ==
  ASSUME IsFiniteSet(Trades), OneClaim, Inv, Inv', RowsInv, StoredReachesRow, [Next]_vars
  PROVE  StoredReachesRow'
<1> SUFFICES ASSUME "mysql" \notin occurred', NEW c \in Candles, NEW k \in stored'[c],
                    NEW t \in Folds(k)
             PROVE  \E l \in OnTheWay(c)' : t \in Folds(l)
  BY DEF StoredReachesRow, Folds
<1>1. "mysql" \notin occurred
  BY OccurredGrows
<1>2. SUFFICES \E l \in Kline : (IsSent(l, c)' \/ IsAdded(l, c)') /\ t \in Folds(l)
  BY <1>2, OnTheWayNext
<1>3. CASE k \in stored[c]
  <2>1. PICK l \in OnTheWay(c) : t \in Folds(l)
    BY <1>1, <1>3 DEF StoredReachesRow
  <2>2. l \in Kline /\ (IsSent(l, c) \/ IsAdded(l, c))
    BY <2>1, OnTheWayIs
  <2> QED
    BY <2>1, <2>2, OnTheWayKeeps
<1>4. CASE k \notin stored[c]
  <2>1. PICK p \in Partitions, d \in Candles : Merge(p, d)
    BY <1>4, OtherSteps DEF RowsInv
  <2>2. d = c /\ AddStored(p, c)
    BY <1>4, <2>1, AloneStored, AloneMerge DEF RowsInv, Merge
  <2>3. PICK l \in Kline : l = task[p][c].kline /\ k = Stored(l)
    BY <2>1, <2>2, AloneStored, MergeSteps DEF RowsInv
  <2>4. IsAdded(l, c)'
    BY <2>2, <2>3, MergeSteps DEF Becomes, IsAdded
  <2>5. Folds(k) = Folds(l)
    BY <2>3, StoredType DEF Folds
  <2> QED
    BY <2>3, <2>4, <2>5
<1> QED
  BY <1>3, <1>4

\* The flusher drops a version that is no larger than the one it holds, and
\* overwrites whole rows: with one claim and a table that takes every batch,
\* each trade in Redis still is in its row or on its way there.
THEOREM StoredReachesRowHolds ==
  ASSUME OneClaim, IsFiniteSet(Trades)
  PROVE  Spec => []StoredReachesRow
<1>1. Init => StoredReachesRow
  <2> SUFFICES ASSUME Init PROVE StoredReachesRow
    OBVIOUS
  <2>1. \A c \in Candles : stored[c] = {}
    BY DEF Init
  <2> QED
    BY <2>1 DEF StoredReachesRow
<1>2. Inv /\ Inv' /\ RowsInv /\ StoredReachesRow /\ [Next]_vars => StoredReachesRow'
  BY OneClaim, IsFiniteSet(Trades), ReachStep
<1> QED
  BY <1>1, <1>2, InvHolds, RowsInvHolds, PTL DEF Spec

\* What has arrived when nothing is on its way is exactly what Redis has: the
\* two theorems before together.
THEOREM RowIsCurrentHolds ==
  ASSUME OneClaim, IsFiniteSet(Trades)
  PROVE  Spec => []RowIsCurrent
<1>1. ASSUME LedgerInv, CandleEnclosesTrades, StoredReachesRow, RowBehindStored
      PROVE  RowIsCurrent
  <2> SUFFICES ASSUME occurred \cap (Harmful \cup {"mysql"}) = {}, NEW c \in Candles,
                      OnTheWay(c) \subseteq {row[c]}, NEW k \in stored[c]
               PROVE  row[c] # None /\ Folds(row[c]) = Folds(k)
    BY DEF RowIsCurrent
  <2>1. k \in Klines(c)
    BY DEF Klines
  <2>2. PICK s \in Trades : s \in Folds(k)
    BY <1>1, <2>1 DEF CandleEnclosesTrades, Folds
  <2>3. \A t \in Folds(k) : row[c] \in OnTheWay(c) /\ t \in Folds(row[c])
    BY <1>1 DEF StoredReachesRow
  <2>4. row[c] # None /\ Folds(row[c]) \subseteq Counted(c)
    BY <1>1, <2>2, <2>3 DEF OnTheWay, RowBehindStored
  <2>5. Counted(c) = Folds(k)
    <3>1. LockInv
      BY <1>1 DEF LedgerInv, CalmInv, Undisturbed
    <3>2. stored[c] = {k}
      BY <3>1 DEF LockInv
    <3>3. \A q \in Partitions : task[q][c].pc # "add"
      BY <3>1, <3>2 DEF LockInv, Holds
    <3> QED
      BY <3>2, <3>3 DEF Counted
  <2> QED
    BY <2>3, <2>4, <2>5
<1> QED
  BY <1>1, OneClaim, IsFiniteSet(Trades), LedgerInvHolds, CandleEnclosesTradesHolds,
     StoredReachesRowHolds, RowBehindStoredHolds, PTL
=============================================================================
