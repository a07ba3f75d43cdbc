--------------------------- MODULE KlinePipeline ---------------------------
(***************************************************************************)
(* DataFlow: trades come from Kafka, are de-duplicated, aggregated to      *)
(* candles of their block, merged into the candle stored in Redis, and the *)
(* merged candles are flushed to the candle table.                         *)
(*                                                                         *)
(* A candle is one pair, interval and candle time; the candles of the      *)
(* several intervals of a pair are alike, so a trade has one candle here.  *)
(* The sums of a candle (volume, tokens, numbers of buys and sells) are    *)
(* abstracted to the number of times each trade is in them, and every      *)
(* trade has volume one.  Times are relative to the candle time.           *)
(***************************************************************************)
EXTENDS Integers, Sequences, FiniteSets, Functions

CONSTANTS
  Trades,        \* trades, each with its own de-duplication key
  Attr,          \* candle, block time, price, maker (0: none) and side of each trade
  Candles,       \* candles
  Partitions,    \* partitions of the topic, each with a claim goroutine
  Messages,      \* the blocks of trades that may be published to each partition
  MaxMessages,   \* bound: messages published to each partition
  Free,          \* a candle's lock is free
  None,          \* no candle
  ChanSize,      \* capacity of KlineProcessedCh
  Faults,        \* the faults that may happen
  MaxFaults      \* bound: how many

FaultKinds ==
  {"seen",       \* SETNX reports an error, perhaps after it took effect
   "redis",      \* a command on the stored candle fails
   "timeout",    \* MustLock waits for three seconds in vain
   "rebalance",  \* the consumer group rebalances: the session's context ends
   "crash",      \* the service stops
   "expiry",     \* the lock's TTL passes while its holder still works
   "mysql"}      \* a flush fails for good

\* The faults after which a trade may be missing from the stored candles.
Harmful == {"redis", "timeout", "rebalance", "crash", "expiry"}

Day == 24 * 60 * 60

ASSUME TradeAssumption ==
  Attr \in [Trades -> [candle : Candles, at : 0..Day, price : Nat \ {0}, maker : Nat,
                      side : {"buy", "sell"}]]
ASSUME MessageAssumption ==
  /\ Messages \in [Partitions -> SUBSET Seq(Trades)]
  /\ MaxMessages \in [Partitions -> Nat]
ASSUME FreeAssumption == Free \notin Partitions
ASSUME LimitAssumption ==
  ChanSize \in Nat \ {0} /\ Faults \subseteq FaultKinds /\ MaxFaults \in Nat

VARIABLES
  log,           \* messages published to each partition: trades and clamp flags
  next,          \* position of each claim in its partition
  marked,        \* offset marked by each session
  committed,     \* offset committed to the group, 0 if none yet
  cancelled,     \* the session's context has ended
  todo,          \* trades of the claimed message still to be checked
  phase,         \* progress of Consume for the claimed message
  task,          \* progress of the merge of each candle of the message
  seen,          \* the dataflow:seen_trade keys
  stored,        \* members of the sorted set at the score of each candle
  lock,          \* holder of each candle's lock
  channel,       \* KlineProcessedCh
  flusher,       \* the goroutine that flushes is alive
  batch,         \* what it will write for each candle
  row,           \* rows of the candle table
  occurred,      \* history: kinds of fault that happened
  failedOpen,    \* history: trades that passed the check by an error
  faults         \* faults so far

claimVars == <<next, marked, committed, cancelled>>
redisVars == <<seen, stored, lock>>
flushVars == <<channel, flusher, batch, row>>
faultVars == <<occurred, failedOpen, faults>>
vars == <<log, claimVars, todo, phase, task, redisVars, flushVars, faultVars>>

Max2(a, b) == IF a > b THEN a ELSE b
Min2(a, b) == IF a < b THEN a ELSE b

-----------------------------------------------------------------------------
(* The consumer's messages. *)

Entry == [trade : Trades, clamp : BOOLEAN]

\* The trades i and j of a block are of one pair and one maker.
SameMaker(block, i, j) ==
  /\ Attr[block[i]].candle = Attr[block[j]].candle
  /\ Attr[block[i]].maker = Attr[block[j]].maker /\ Attr[block[i]].maker # 0

\* DetectClaim: from a maker's first trade of a block to one by which he has
\* both bought and sold, all trades of the pair are flagged, others' as well.
DetectClaim(block) ==
  LET flagged(j) ==
        \E i \in j..Len(block) :
          LET his == {a \in 1..i : SameMaker(block, a, i)} IN
          /\ {Attr[block[a]].side : a \in his} = {"buy", "sell"}
          /\ \E a \in his : a <= j
          /\ Attr[block[j]].candle = Attr[block[i]].candle
  IN [j \in DOMAIN block |-> [trade |-> block[j], clamp |-> flagged(j)]]

-----------------------------------------------------------------------------
(* Candles. *)

Kline == [folded : [Trades -> Nat], open : Nat, close : Nat, high : Nat, low : Nat,
          openAt : Int, closeAt : Int]

ASSUME NoneAssumption == None \notin Kline

Folds(k) == {t \in Trades : k.folded[t] > 0}

\* AmountUsd: every trade has volume one.
Volume(k) == SumFunction(k.folded)

\* The candle of a trade.  A clamped one leaves its open and close to others.
NewKlineByTrade(e) ==
  LET a == Attr[e.trade] IN
  [folded |-> [t \in Trades |-> IF t = e.trade THEN 1 ELSE 0],
   open |-> a.price, close |-> a.price, high |-> a.price, low |-> a.price,
   openAt |-> IF e.clamp THEN Day ELSE a.at,
   closeAt |-> IF e.clamp THEN 0 ELSE a.at]

\* A clamped trade adds to the sums only.
UpdateKlineByTrade(k, e) ==
  LET a == Attr[e.trade]
      sums == [k EXCEPT !.folded[e.trade] = @ + 1]
  IN IF e.clamp THEN sums
     ELSE [sums EXCEPT
             !.open = IF a.at < k.openAt THEN a.price ELSE @,
             !.openAt = Min2(@, a.at),
             !.close = IF a.at > k.closeAt THEN a.price ELSE @,
             !.closeAt = Max2(@, a.at),
             !.high = Max2(@, a.price),
             !.low = Min2(@, a.price)]

\* The candle of a message's trades so far (None at first) with another one.
Aggregate(k, e) == IF k = None THEN NewKlineByTrade(e) ELSE UpdateKlineByTrade(k, e)

\* compress and decompress: the two times are not stored, and read back as
\* zero, which is before every candle.
Stored(k) == [k EXCEPT !.openAt = -1, !.closeAt = -1]

\* Mutant of MergeKline: the larger high of the stored candle is forgotten.
MergeForgetsHigh(old, k) ==
  [k EXCEPT !.folded = [t \in Trades |-> old.folded[t] + k.folded[t]],
            !.low = Min2(@, old.low)]

\* Mutant of MergeKline: the stored candle is replaced.
MergeReplaces(old, k) == k

\* The stored candle with the one of a message.
MergeKline(old, k) ==
  [folded |-> [t \in Trades |-> old.folded[t] + k.folded[t]],
   open |-> IF k.openAt > old.openAt THEN old.open ELSE k.open,
   openAt |-> Min2(k.openAt, old.openAt),
   close |-> IF k.closeAt < old.closeAt THEN old.close ELSE k.close,
   closeAt |-> Max2(k.closeAt, old.closeAt),
   high |-> Max2(k.high, old.high),
   low |-> Min2(k.low, old.low)]

-----------------------------------------------------------------------------
IdleTask == [pc |-> "idle", kline |-> None, old |-> None]
IdleTasks == [c \in Candles |-> IdleTask]

Task == [pc : {"idle", "lock", "locked", "rem", "add", "send"},
         kline : Kline \cup {None}, old : Kline \cup {None}]

TypeOK ==
  /\ log \in [Partitions -> Seq(Seq(Entry))]
  /\ next \in [Partitions -> Nat] /\ marked \in [Partitions -> Nat]
  /\ committed \in [Partitions -> Nat]
  /\ cancelled \in [Partitions -> BOOLEAN]
  /\ todo \in [Partitions -> Seq(Entry)]
  /\ phase \in [Partitions -> {"idle", "filter", "merge"}]
  /\ task \in [Partitions -> [Candles -> Task]]
  /\ seen \subseteq Trades
  /\ stored \in [Candles -> SUBSET Kline]
  /\ lock \in [Candles -> Partitions \cup {Free}]
  /\ channel \in Seq([candle : Candles, kline : Kline \cup {None}])
  /\ flusher \in BOOLEAN
  /\ batch \in [Candles -> Kline \cup {None}]
  /\ row \in [Candles -> Kline \cup {None}]
  /\ occurred \subseteq FaultKinds
  /\ failedOpen \subseteq Trades
  /\ faults \in 0..MaxFaults

Init ==
  /\ log = [p \in Partitions |-> <<>>]
  /\ next = [p \in Partitions |-> 0]
  /\ marked = [p \in Partitions |-> 0]
  /\ committed = [p \in Partitions |-> 0]
  /\ cancelled = [p \in Partitions |-> FALSE]
  /\ todo = [p \in Partitions |-> <<>>]
  /\ phase = [p \in Partitions |-> "idle"]
  /\ task = [p \in Partitions |-> IdleTasks]
  /\ seen = {}
  /\ stored = [c \in Candles |-> {}]
  /\ lock = [c \in Candles |-> Free]
  /\ channel = <<>>
  /\ flusher = TRUE
  /\ batch = [c \in Candles |-> None]
  /\ row = [c \in Candles |-> None]
  /\ occurred = {}
  /\ failedOpen = {}
  /\ faults = 0

Fault(kind) ==
  /\ kind \in Faults
  /\ faults < MaxFaults
  /\ faults' = faults + 1
  /\ occurred' = occurred \cup {kind}

NoFault == UNCHANGED <<occurred, faults>>

\* A Redis command of claim p fails: by a fault, or because the context ended.
CommandFails(p) == Fault("redis") \/ (cancelled[p] /\ NoFault)

-----------------------------------------------------------------------------
(* The topic and the claims. *)

\* The consumer publishes the trades of a block, and publishes them again when
\* it indexes the block again or its producer retries.
Publish(p, message) ==
  /\ Len(log[p]) < MaxMessages[p]
  /\ log' = [log EXCEPT ![p] = Append(@, DetectClaim(message))]
  /\ UNCHANGED <<claimVars, todo, phase, task, redisVars, flushVars, faultVars>>

\* ConsumeClaim receives the next message, perhaps as the session ends.
Receive(p) ==
  /\ phase[p] = "idle"
  /\ next[p] < Len(log[p])
  /\ next' = [next EXCEPT ![p] = @ + 1]
  /\ todo' = [todo EXCEPT ![p] = log[p][next[p] + 1]]
  /\ phase' = [phase EXCEPT ![p] = "filter"]
  /\ UNCHANGED <<log, marked, committed, cancelled, task, redisVars, flushVars, faultVars>>

\* A trade that passes the check joins the candle of its message.
Keep(p, e) ==
  task' = [task EXCEPT ![p][Attr[e.trade].candle].kline = Aggregate(@, e)]

\* Mutant of FreshTrade: a trade seen before is kept.
AnyTrade(t) == TRUE

\* SETNX creates the key.
FreshTrade(t) == t \notin seen

\* dropSeenTrades, one trade: SETNX tells whether it is new.
CheckSeen(p) ==
  /\ phase[p] = "filter"
  /\ todo[p] # <<>>
  /\ ~cancelled[p]
  /\ seen' = seen \cup {Head(todo[p]).trade}
  /\ IF FreshTrade(Head(todo[p]).trade) THEN Keep(p, Head(todo[p])) ELSE UNCHANGED task
  /\ todo' = [todo EXCEPT ![p] = Tail(@)]
  /\ UNCHANGED <<log, claimVars, phase, stored, lock, flushVars, faultVars>>

\* An error of SETNX: the trade is kept ("fails open").
CheckSeenFails(p) ==
  /\ phase[p] = "filter"
  /\ todo[p] # <<>>
  /\ \/ /\ Fault("seen")
        /\ failedOpen' = failedOpen \cup {Head(todo[p]).trade}
        /\ seen' \in {seen, seen \cup {Head(todo[p]).trade}}
     \/ cancelled[p] /\ NoFault /\ UNCHANGED <<failedOpen, seen>>
  /\ Keep(p, Head(todo[p]))
  /\ todo' = [todo EXCEPT ![p] = Tail(@)]
  /\ UNCHANGED <<log, claimVars, phase, stored, lock, flushVars>>

\* The candles of the message are handed to the worker pool.
Submit(p) ==
  /\ phase[p] = "filter"
  /\ todo[p] = <<>>
  /\ phase' = [phase EXCEPT ![p] = "merge"]
  /\ task' = [task EXCEPT ![p] = [c \in Candles |->
       IF task[p][c].kline = None THEN IdleTask ELSE [task[p][c] EXCEPT !.pc = "lock"]]]
  /\ UNCHANGED <<log, claimVars, todo, redisVars, flushVars, faultVars>>

\* All workers are done (wg.Wait), the message is marked.
Finish(p) ==
  /\ phase[p] = "merge"
  /\ \A c \in Candles : task[p][c].pc = "idle"
  /\ phase' = [phase EXCEPT ![p] = "idle"]
  /\ marked' = [marked EXCEPT ![p] = Max2(@, next[p])]
  /\ UNCHANGED <<log, next, committed, cancelled, todo, task, redisVars, flushVars,
                 faultVars>>

\* The marked offset is committed, every second and when a session ends.
Commit(p) ==
  /\ committed[p] < marked[p]
  /\ committed' = [committed EXCEPT ![p] = marked[p]]
  /\ UNCHANGED <<log, next, marked, cancelled, todo, phase, task, redisVars, flushVars,
                 faultVars>>

\* The context of the session ends; what is under way goes on without it.
Rebalance(p) ==
  /\ ~cancelled[p]
  /\ Fault("rebalance")
  /\ cancelled' = [cancelled EXCEPT ![p] = TRUE]
  /\ UNCHANGED <<log, next, marked, committed, todo, phase, task, redisVars, flushVars,
                 failedOpen>>

\* Mutant of ResumeAt: the offset before the committed one.
ResumeBefore(p) == committed[p] - 1

\* A position to resume at: without a committed offset, the end of the log.
ResumeAt(p) == IF committed[p] = 0 THEN Len(log[p]) ELSE committed[p]

\* The claim has returned and the next session begins.
Resume(p) ==
  /\ cancelled[p]
  /\ phase[p] = "idle"
  /\ cancelled' = [cancelled EXCEPT ![p] = FALSE]
  /\ next' = [next EXCEPT ![p] = ResumeAt(p)]
  /\ marked' = [marked EXCEPT ![p] = committed[p]]
  /\ UNCHANGED <<log, committed, todo, phase, task, redisVars, flushVars, faultVars>>

\* The service stops and starts again; Redis, the table and the topic stay.
Crash ==
  /\ Fault("crash")
  /\ next' = [p \in Partitions |-> ResumeAt(p)]
  /\ marked' = committed
  /\ cancelled' = [p \in Partitions |-> FALSE]
  /\ todo' = [p \in Partitions |-> <<>>]
  /\ phase' = [p \in Partitions |-> "idle"]
  /\ task' = [p \in Partitions |-> IdleTasks]
  /\ channel' = <<>>
  /\ flusher' = TRUE
  /\ batch' = [c \in Candles |-> None]
  /\ UNCHANGED <<log, committed, redisVars, row, failedOpen>>

-----------------------------------------------------------------------------
(* Merging a candle of the message into the stored one (newPush). *)

Set(p, c, value) == task' = [task EXCEPT ![p][c] = value]

\* Mutant of LockFree: the candle's lock does not exclude.
LockIgnored(c) == TRUE

LockFree(c) == lock[c] = Free

\* MustLock: the lock is had ...
GetLock(p, c) ==
  /\ task[p][c].pc = "lock"
  /\ ~cancelled[p]
  /\ LockFree(c)
  /\ lock' = [lock EXCEPT ![c] = p]
  /\ Set(p, c, [task[p][c] EXCEPT !.pc = "locked"])
  /\ UNCHANGED <<log, claimVars, todo, phase, seen, stored, flushVars, faultVars>>

\* ... or not within three seconds, or the context ends: nil is returned.
LockFails(p, c) ==
  /\ task[p][c].pc = "lock"
  /\ Fault("timeout") \/ (cancelled[p] /\ NoFault)
  /\ Set(p, c, [IdleTask EXCEPT !.pc = "send"])
  /\ UNCHANGED <<log, claimVars, todo, phase, redisVars, flushVars, failedOpen>>

\* Release deletes the key only if it still holds the caller's token.
Release(p, c) == lock' = IF lock[c] = p THEN [lock EXCEPT ![c] = Free] ELSE lock

\* ZRANGEBYSCORE finds nothing, or a member to merge with.
ReadStored(p, c) ==
  /\ task[p][c].pc = "locked"
  /\ ~cancelled[p]
  /\ \/ stored[c] = {} /\ Set(p, c, [task[p][c] EXCEPT !.pc = "add"])
     \/ \E old \in stored[c] : Set(p, c, [task[p][c] EXCEPT !.pc = "rem", !.old = old])
  /\ UNCHANGED <<log, claimVars, todo, phase, redisVars, flushVars, faultVars>>

\* It reports an error: the candle is returned without a merge.
ReadStoredFails(p, c) ==
  /\ task[p][c].pc = "locked"
  /\ CommandFails(p)
  /\ Set(p, c, [task[p][c] EXCEPT !.pc = "send"])
  /\ Release(p, c)
  /\ UNCHANGED <<log, claimVars, todo, phase, seen, stored, flushVars, failedOpen>>

\* ZREMRANGEBYSCORE; an error is only logged.  Then the two are merged.
RemoveStored(p, c) ==
  /\ task[p][c].pc = "rem"
  /\ \/ ~cancelled[p] /\ stored' = [stored EXCEPT ![c] = {}] /\ NoFault
     \/ CommandFails(p) /\ UNCHANGED stored
     \/ Fault("redis") /\ stored' = [stored EXCEPT ![c] = {}]
  /\ Set(p, c, [pc |-> "add", old |-> task[p][c].old,
                kline |-> MergeKline(task[p][c].old, task[p][c].kline)])
  /\ UNCHANGED <<log, claimVars, todo, phase, seen, lock, flushVars, failedOpen>>

\* ZADD; an error is only logged.  The lock is released.
AddStored(p, c) ==
  LET added == [stored EXCEPT ![c] = @ \cup {Stored(task[p][c].kline)}] IN
  /\ task[p][c].pc = "add"
  /\ \/ ~cancelled[p] /\ stored' = added /\ NoFault
     \/ CommandFails(p) /\ UNCHANGED stored
     \/ Fault("redis") /\ stored' = added
  /\ Set(p, c, [task[p][c] EXCEPT !.pc = "send", !.old = None])
  /\ Release(p, c)
  /\ UNCHANGED <<log, claimVars, todo, phase, seen, flushVars, failedOpen>>

\* The result goes to KlineProcessedCh, nil too.
Send(p, c) ==
  /\ task[p][c].pc = "send"
  /\ Len(channel) < ChanSize
  /\ channel' = Append(channel, [candle |-> c, kline |-> task[p][c].kline])
  /\ Set(p, c, IdleTask)
  /\ UNCHANGED <<log, claimVars, todo, phase, redisVars, flusher, batch, row, faultVars>>

\* The holder of candle c's lock is between MustLock and Release.
Working(c) == /\ lock[c] \in Partitions
              /\ task[lock[c]][c].pc \in {"locked", "rem", "add"}

\* A lock's TTL passes, of a holder that crashed or of one that still works.
LockExpires(c) ==
  /\ lock[c] # Free
  /\ IF Working(c) THEN Fault("expiry") ELSE NoFault
  /\ lock' = [lock EXCEPT ![c] = Free]
  /\ UNCHANGED <<log, claimVars, todo, phase, task, seen, stored, flushVars, failedOpen>>

-----------------------------------------------------------------------------
(* Flushing the merged candles to the table. *)

\* Mutant of Better: the first candle of a batch is kept.
FirstWins(k, old) == old = None

\* Of the candles of a batch the one with the larger volume is written.
Better(k, old) == old = None \/ Volume(old) < Volume(k)

\* The flusher takes a candle; nil ends its goroutine.
TakeKline ==
  LET head == Head(channel) IN
  /\ flusher
  /\ channel # <<>>
  /\ channel' = Tail(channel)
  /\ IF head.kline = None
     THEN flusher' = FALSE /\ UNCHANGED batch
     ELSE /\ batch' = IF Better(head.kline, batch[head.candle])
                      THEN [batch EXCEPT ![head.candle] = head.kline] ELSE batch
          /\ UNCHANGED flusher
  /\ UNCHANGED <<log, claimVars, todo, phase, task, redisVars, row, faultVars>>

\* The ticker fires or the batch is full: the rows are overwritten, except
\* those of a table whose statement fails for good.
Flush ==
  /\ flusher
  /\ \E c \in Candles : batch[c] # None
  /\ \E failed \in SUBSET Candles :
       /\ IF failed = {} THEN NoFault ELSE Fault("mysql")
       /\ row' = [c \in Candles |->
                    IF batch[c] = None \/ c \in failed THEN row[c] ELSE batch[c]]
  /\ batch' = [c \in Candles |-> None]
  /\ UNCHANGED <<log, claimVars, todo, phase, task, redisVars, channel, flusher, failedOpen>>

-----------------------------------------------------------------------------
Merge(p, c) == \/ GetLock(p, c) \/ LockFails(p, c) \/ ReadStored(p, c)
               \/ ReadStoredFails(p, c) \/ RemoveStored(p, c) \/ AddStored(p, c)
               \/ Send(p, c)

Claim(p) == \/ \E message \in Messages[p] : Publish(p, message)
            \/ Receive(p) \/ CheckSeen(p) \/ CheckSeenFails(p) \/ Submit(p)
            \/ Finish(p) \/ Commit(p) \/ Rebalance(p) \/ Resume(p)

Next == \/ \E p \in Partitions : Claim(p) \/ \E c \in Candles : Merge(p, c)
        \/ \E c \in Candles : LockExpires(c)
        \/ Crash \/ TakeKline \/ Flush

Spec == Init /\ [][Next]_vars

(***************************************************************************)
(* Fairness: claims, workers and the flusher are scheduled and a lock's    *)
(* TTL runs out.  Nothing makes the consumer publish.                      *)
(***************************************************************************)
Fairness ==
  /\ \A p \in Partitions :
       WF_vars(Receive(p) \/ CheckSeen(p) \/ Submit(p) \/ Finish(p) \/ Resume(p))
  /\ \A p \in Partitions, c \in Candles :
       /\ SF_vars(GetLock(p, c))
       /\ WF_vars(ReadStored(p, c) \/ RemoveStored(p, c) \/ AddStored(p, c) \/ Send(p, c))
  /\ \A c \in Candles : WF_vars(LockExpires(c))
  /\ WF_vars(TakeKline)
  /\ WF_vars(Flush)

FairSpec == Spec /\ Fairness

-----------------------------------------------------------------------------
(* Properties. *)

Klines(c) ==
  stored[c] \cup ({row[c], batch[c]} \ {None})
    \cup ({channel[i].kline : i \in {j \in 1..Len(channel) : channel[j].candle = c}} \ {None})

\* Trade t is in the candle of a message that is still to be merged.
InHand(t) ==
  \E p \in Partitions :
    /\ task[p][Attr[t].candle].kline # None
    /\ t \in Folds(task[p][Attr[t].candle].kline)
    /\ task[p][Attr[t].candle].pc # "send"

\* However often a block's trades are published, delivered again after a
\* rebalance or a crash, or merged by two claims whose lock expired, no trade
\* that the check did not let through by an error is twice in a candle
\* (dropSeenTrades: it "would otherwise double candle volume").
NoTradeTwice ==
  \A c \in Candles : \A k \in Klines(c) : \A t \in Trades \ failedOpen : k.folded[t] <= 1

\* Without a harmful fault every trade that was seen is in the stored candle
\* or on its way there, although the merge is three commands and the claims of
\* all partitions merge into the same candle.
NoTradeMissing ==
  occurred \cap Harmful = {} =>
    \A t \in seen : InHand(t) \/ \E k \in stored[Attr[t].candle] : t \in Folds(k)

\* The trades that some message flags.
Flagged ==
  {t \in Trades : \E p \in Partitions : \E message \in Range(log[p]) :
                    [trade |-> t, clamp |-> TRUE] \in Range(message)}

\* A candle's low and high enclose its open, its close and the price of every
\* trade in it that was not flagged, and are prices of its trades, whatever was
\* lost or merged in whichever order.
CandleEnclosesTrades ==
  \A c \in Candles : \A k \in Klines(c) :
    /\ {k.open, k.close} \subseteq k.low..k.high
    /\ \A t \in Folds(k) \ Flagged : Attr[t].price \in k.low..k.high
    /\ {k.low, k.high} \subseteq {Attr[t].price : t \in Folds(k)}

\* The high of a candle is the price of a trade that is not flagged, if it has
\* one (README: "a self-trading wallet can't put a spike in the candle").
NoWashSpike ==
  \A c \in Candles : \A k \in stored[c] :
    Folds(k) \ Flagged # {} => \E t \in Folds(k) \ Flagged : Attr[t].price = k.high

\* A trade that will be skipped from now on is in the stored candle, or on its
\* way there ("dropSeenTrades skips trades already folded into candles").
SeenIsFolded ==
  \A t \in seen : InHand(t) \/ \E k \in stored[Attr[t].candle] : t \in Folds(k)

\* The stored candles, read through the merges that have removed a member and
\* not yet added its successor.
Counted(c) ==
  UNION ({Folds(k) : k \in stored[c]} \cup
         {Folds(task[p][c].old) : p \in {q \in Partitions : task[q][c].pc = "add"
                                                            /\ task[q][c].old # None}})

Ledger == INSTANCE CandleLedger WITH
  CandleOf <- [t \in Trades |-> Attr[t].candle],
  total <- [c \in Candles |-> Counted(c)],
  harmed <- occurred \cap (Harmful \cup {"seen"}) # {}

\* The three commands of a merge, under the candle's lock and behind the check
\* for seen trades, act like one step that adds a batch to a set.
MergeIsAtomic == Ledger!Spec

\* The row of a candle in the table never loses a trade, although a batch
\* holds several versions of it and overwrites every column.
RowNeverFallsBack ==
  [][\A c \in Candles : row[c] # None => Folds(row[c]) \subseteq Folds(row'[c])]_vars

\* The versions of candle c that a merge has added: about to be sent, sent, and
\* what arrived.
OnTheWay(c) ==
  ({row[c], batch[c]}
    \cup {channel[i].kline : i \in {j \in 1..Len(channel) : channel[j].candle = c}}
    \cup {task[p][c].kline : p \in {q \in Partitions : task[q][c].pc = "send"}}) \ {None}

\* Unless the table refused a batch, every stored trade is in its candle's row
\* or in a version on its way there: neither the flusher, which drops a version
\* that is no larger than the one it has, nor a lock that expired leaves a
\* trade behind.
StoredReachesRow ==
  "mysql" \notin occurred =>
    \A c \in Candles : \A k \in stored[c] : \A t \in Folds(k) :
      \E l \in OnTheWay(c) : t \in Folds(l)

\* Without a harmful fault no row, and nothing on its way to one, has a trade
\* that the stored candle has not, however the claims of several partitions
\* take turns in merging and sending.
RowBehindStored ==
  occurred \cap Harmful = {} =>
    \A c \in Candles : \A l \in OnTheWay(c) : Folds(l) \subseteq Counted(c)

\* When nothing is on its way any more, the row has the trades of the stored
\* candle, those and no others.
RowIsCurrent ==
  occurred \cap (Harmful \cup {"mysql"}) = {} =>
    \A c \in Candles : OnTheWay(c) \subseteq {row[c]} =>
      \A k \in stored[c] : row[c] # None /\ Folds(row[c]) = Folds(k)

\* The row of a candle catches up with the stored candle.
RowCatchesUp ==
  \A c \in Candles, t \in Trades :
    (\E k \in stored[c] : t \in Folds(k)) ~> (row[c] # None /\ t \in Folds(row[c]))
=============================================================================
