---------------------------- MODULE TriggerList ----------------------------
(***************************************************************************)
(* One token's trigger list in Redis and the trade_order rows it stands    *)
(* for: the handlers that create and cancel orders, and the goroutines     *)
(* that handle the token's price ticks.                                    *)
(*                                                                         *)
(* A list is rewritten as DEL and RPUSH in a pipeline that is no           *)
(* transaction.  Creating a trailing stop takes the list's lock, creating  *)
(* a limit order and cancelling do not.  A list is abstracted to the set   *)
(* of its entries: neither their order nor a repeated entry changes what   *)
(* a tick does, since the second execution finds the row no longer         *)
(* waiting.  What happens to an order after Proc is in TradeOrders.        *)
(***************************************************************************)
EXTENDS Integers, FiniteSets

CONSTANTS
  Orders,       \* ids of trade_order rows
  Matchers,     \* goroutines that handle ticks of the token
  Free,         \* the list's lock is free
  Kind,         \* the list: limit buys, limit sells or trailing stops
  Prices,       \* prices of the token
  Percent,      \* TrailingPercent
  Faults,       \* the faults that may happen
  MaxFaults     \* bound: how many

FaultKinds ==
  {"redis",     \* a Redis call fails, an RPUSH perhaps after it took effect
   "pipeline",  \* a pipeline's RPUSH fails after its DEL
   "timeout",   \* MustLock waits for ten seconds in vain
   "deadline",  \* the request's context ends before its Redis call
   "database",  \* a query on the row fails
   "crash",     \* the trade service stops
   "expiry"}    \* the lock's TTL passes while its holder still works

ASSUME KindAssumption == Kind \in {"buy", "sell", "trailing"}
ASSUME PriceAssumption == Prices \subseteq Nat /\ Percent \in 1..99
ASSUME ActorAssumption == Orders \cap Matchers = {} /\ Free \notin Orders \cup Matchers
ASSUME FaultAssumption == Faults \subseteq FaultKinds /\ MaxFaults \in Nat

VARIABLES
  status,       \* status column, "none" while no row has the id
  anchor,       \* order_price_base column: the limit, or the price at placement
  creator,      \* progress of the handler that creates an order
  canceller,    \* progress of the handler that cancels an order
  matcher,      \* progress of each goroutine that handles a tick
  book,         \* the entries of the list
  lock,         \* holder of the list's lock
  stored,       \* history: every entry ever pushed
  faults        \* faults so far

vars == <<status, anchor, creator, canceller, matcher, book, lock, stored, faults>>

Entry == [id : Orders, base : Prices]

\* Mutant of EntryOf: the trigger line is stored as the base.
EntryOfLine(o, p) == [id |-> o, base |-> (p * (100 - Percent)) \div 100]

EntryOf(o, p) == [id |-> o, base |-> p]
Ids(entries) == {e.id : e \in entries}

IdleCanceller == [pc |-> "idle", kept |-> {}]
IdleMatcher == [pc |-> "idle", price |-> 0, todo |-> {}, rest |-> {}]

TypeOK ==
  /\ status \in [Orders -> {"none", "waiting", "proc", "fail", "cancel"}]
  /\ anchor \in [Orders -> Prices \cup {0}]
  /\ creator \in [Orders -> {"none", "push", "locked", "failed", "done"}]
  /\ canceller \in [Orders -> [pc : {"idle", "read", "del", "push"}, kept : SUBSET Entry]]
  /\ matcher \in [Matchers -> [pc : {"idle", "wait", "locked", "exec", "push"},
                               price : Prices \cup {0}, todo : SUBSET Orders,
                               rest : SUBSET Entry]]
  /\ book \subseteq Entry
  /\ lock \in Orders \cup Matchers \cup {Free}
  /\ stored \subseteq Entry
  /\ faults \in 0..MaxFaults

Init ==
  /\ status = [o \in Orders |-> "none"]
  /\ anchor = [o \in Orders |-> 0]
  /\ creator = [o \in Orders |-> "none"]
  /\ canceller = [o \in Orders |-> IdleCanceller]
  /\ matcher = [m \in Matchers |-> IdleMatcher]
  /\ book = {}
  /\ lock = Free
  /\ stored = {}
  /\ faults = 0

Fault(kind) == kind \in Faults /\ faults < MaxFaults /\ faults' = faults + 1

\* ReleaseLock deletes the key only if it still holds the caller's token.
Release(a) == lock' = IF lock = a THEN Free ELSE lock

\* The actor is between its MustLock and its ReleaseLock.
Working(a) == \/ a \in Orders /\ creator[a] = "locked"
              \/ a \in Matchers /\ matcher[a].pc \in {"locked", "exec", "push"}

\* RPUSH of entries.
RPush(entries) == book' = book \cup entries /\ stored' = stored \cup entries

-----------------------------------------------------------------------------
(* Creating an order. *)

\* The row is inserted as Waiting; a trailing stop starts from the price now.
CreateOrder(o, p) ==
  /\ status[o] = "none"
  /\ status' = [status EXCEPT ![o] = "waiting"]
  /\ anchor' = [anchor EXCEPT ![o] = p]
  /\ creator' = [creator EXCEPT ![o] = "push"]
  /\ UNCHANGED <<canceller, matcher, book, lock, stored, faults>>

\* Only the trailing-stop handler waits for the list's lock (MustLock).
LockForPush(o) ==
  /\ Kind = "trailing"
  /\ creator[o] = "push"
  /\ lock = Free
  /\ lock' = o
  /\ creator' = [creator EXCEPT ![o] = "locked"]
  /\ UNCHANGED <<status, anchor, canceller, matcher, book, stored, faults>>

\* Mutant of ReadyToPush: the trailing-stop handler does not take the lock.
ReadyWithoutLock(o) == creator[o] \in {"push", "locked"}

\* addOrderToRedis gets to its RPUSH.
ReadyToPush(o) == creator[o] = IF Kind = "trailing" THEN "locked" ELSE "push"

AddOrderToRedis(o) ==
  /\ ReadyToPush(o)
  /\ RPush({EntryOf(o, anchor[o])})
  /\ Release(o)
  /\ creator' = [creator EXCEPT ![o] = "done"]
  /\ UNCHANGED <<status, anchor, canceller, matcher, faults>>

\* The push fails: the lock is not had within ten seconds, or Redis reports an
\* error, perhaps after pushing.  If the request's context has ended, so does
\* the handler, because the update of the row would be refused too.
AddOrderToRedisFails(o) ==
  /\ \/ /\ Kind = "trailing" /\ creator[o] = "push" /\ lock # Free
        /\ Fault("timeout")
        /\ creator' = [creator EXCEPT ![o] = "failed"]
        /\ UNCHANGED <<book, stored>>
     \/ /\ ReadyToPush(o)
        /\ Fault("redis")
        /\ RPush({EntryOf(o, anchor[o])}) \/ UNCHANGED <<book, stored>>
        /\ creator' = [creator EXCEPT ![o] = "failed"]
     \/ /\ creator[o] \in {"push", "locked"}
        /\ Fault("deadline")
        /\ creator' = [creator EXCEPT ![o] = "done"]
        /\ UNCHANGED <<book, stored>>
  /\ Release(o)
  /\ UNCHANGED <<status, anchor, canceller, matcher>>

\* After a failed push the row is marked Fail, whatever its status is by now.
MarkFailed(o) ==
  /\ creator[o] = "failed"
  /\ \/ status' = [status EXCEPT ![o] = "fail"] /\ UNCHANGED faults
     \/ Fault("database") /\ UNCHANGED status
  /\ creator' = [creator EXCEPT ![o] = "done"]
  /\ UNCHANGED <<anchor, canceller, matcher, book, lock, stored>>

\* The service stops between the insert and the handler's last write.
CreatorCrash(o) ==
  /\ creator[o] \in {"push", "locked", "failed"}
  /\ Fault("crash")
  /\ creator' = [creator EXCEPT ![o] = "done"]
  /\ UNCHANGED <<status, anchor, canceller, matcher, book, lock, stored>>

-----------------------------------------------------------------------------
(* Cancelling an order. *)

\* The compare-and-swap to Cancel, from Waiting or from a Proc that is old
\* (its age is in TradeOrders).  Afterwards the handler looks for the order in
\* the limit lists only: nothing to do for the list of trailing stops.
CancelOrder(o) ==
  /\ status[o] \in {"waiting", "proc"}
  /\ status' = [status EXCEPT ![o] = "cancel"]
  /\ canceller' = [canceller EXCEPT ![o].pc = IF Kind = "trailing" THEN "idle" ELSE "read"]
  /\ UNCHANGED <<anchor, creator, matcher, book, lock, stored, faults>>

\* LRANGE, without the lock; if the order is not listed there is nothing to do.
ReadForCancel(o) ==
  LET kept == {e \in book : e.id # o} IN
  /\ canceller[o].pc = "read"
  /\ canceller' = [canceller EXCEPT ![o] =
       IF kept = book THEN IdleCanceller ELSE [pc |-> "del", kept |-> kept]]
  /\ UNCHANGED <<status, anchor, creator, matcher, book, lock, stored, faults>>

\* The pipeline's DEL ...
DelForCancel(o) ==
  /\ canceller[o].pc = "del"
  /\ book' = {}
  /\ canceller' = [canceller EXCEPT ![o].pc = "push"]
  /\ UNCHANGED <<status, anchor, creator, matcher, lock, stored, faults>>

\* ... and its RPUSH of the entries kept.
PushForCancel(o) ==
  /\ canceller[o].pc = "push"
  /\ RPush(canceller[o].kept)
  /\ canceller' = [canceller EXCEPT ![o] = IdleCanceller]
  /\ UNCHANGED <<status, anchor, creator, matcher, lock, faults>>

\* An error of Redis is only logged, a crash ends the handler.
CancelInterrupted(o) ==
  /\ \/ canceller[o].pc \in {"read", "del"} /\ Fault("redis")
     \/ canceller[o].pc = "push" /\ Fault("pipeline")
     \/ canceller[o].pc # "idle" /\ Fault("crash")
  /\ canceller' = [canceller EXCEPT ![o] = IdleCanceller]
  /\ UNCHANGED <<status, anchor, creator, matcher, book, lock, stored>>

-----------------------------------------------------------------------------
(* Handling a price tick. *)

\* ProcTokenPrice publishes the tick, a goroutine of the pool takes it.
TakeTick(m, p) ==
  /\ matcher[m].pc = "idle"
  /\ matcher' = [matcher EXCEPT ![m] = [IdleMatcher EXCEPT !.pc = "wait", !.price = p]]
  /\ UNCHANGED <<status, anchor, creator, canceller, book, lock, stored, faults>>

\* MustLock: the lock is had ...
LockList(m) ==
  /\ matcher[m].pc = "wait"
  /\ lock = Free
  /\ lock' = m
  /\ matcher' = [matcher EXCEPT ![m].pc = "locked"]
  /\ UNCHANGED <<status, anchor, creator, canceller, book, stored, faults>>

\* ... or not within ten seconds, and the tick is dropped.
LockTimesOut(m) ==
  /\ matcher[m].pc = "wait"
  /\ lock # Free
  /\ Fault("timeout")
  /\ matcher' = [matcher EXCEPT ![m] = IdleMatcher]
  /\ UNCHANGED <<status, anchor, creator, canceller, book, lock, stored>>

\* Mutant of Fires: the comparisons of buys and sells are swapped, and a
\* trailing stop fires at its base.
FiresSwapped(e, p) == \/ Kind = "sell" /\ e.base >= p
                      \/ Kind = "buy" /\ e.base <= p
                      \/ Kind = "trailing" /\ p <= e.base

\* Mutant of Fires: the percentage is subtracted as if it were an amount.
FiresByAmount(e, p) == \/ Kind = "buy" /\ e.base >= p
                       \/ Kind = "sell" /\ e.base <= p
                       \/ Kind = "trailing" /\ p <= e.base - Percent

\* The price p triggers entry e: a buy at its limit or below, a sell at its
\* limit or above, a trailing stop Percent below its base (DrawdownPrice).
Fires(e, p) == \/ Kind = "buy" /\ e.base >= p
               \/ Kind = "sell" /\ e.base <= p
               \/ Kind = "trailing" /\ 100 * p <= e.base * (100 - Percent)

\* Mutant of Ratcheted: the base follows every price.
RatchetedDown(e, p) == IF Kind = "trailing" THEN [e EXCEPT !.base = p] ELSE e

\* A trailing stop that does not fire ratchets its base upward.
Ratcheted(e, p) == IF Kind = "trailing" /\ p > e.base THEN [e EXCEPT !.base = p] ELSE e

Fired(m) == {e \in book : Fires(e, matcher[m].price)}

\* LRANGE, and no entry fires: the early return, the list is not written.
NothingFires(m) ==
  /\ matcher[m].pc = "locked"
  /\ Fired(m) = {}
  /\ matcher' = [matcher EXCEPT ![m] = IdleMatcher]
  /\ Release(m)
  /\ UNCHANGED <<status, anchor, creator, canceller, book, stored, faults>>

\* LRANGE, and some entries fire; the others are kept, ratcheted.
SomeFire(m) ==
  /\ matcher[m].pc = "locked"
  /\ Fired(m) # {}
  /\ matcher' = [matcher EXCEPT ![m] =
       [pc |-> "exec", price |-> matcher[m].price, todo |-> Ids(Fired(m)),
        rest |-> {Ratcheted(e, matcher[m].price) : e \in book \ Fired(m)}]]
  /\ UNCHANGED <<status, anchor, creator, canceller, book, lock, stored, faults>>

\* One order is executed: the compare-and-swap Waiting -> Proc, and for a
\* trailing stop the swap, with the lock held.  An error is only logged.
ExecuteOrder(m, o) ==
  /\ matcher[m].pc = "exec"
  /\ o \in matcher[m].todo
  /\ \/ /\ status' = IF status[o] = "waiting" THEN [status EXCEPT ![o] = "proc"] ELSE status
        /\ UNCHANGED faults
     \/ Fault("database") /\ UNCHANGED status
  /\ matcher' = [matcher EXCEPT ![m].todo = @ \ {o}]
  /\ UNCHANGED <<anchor, creator, canceller, book, lock, stored>>

\* The rewrite: the pipeline's DEL ...
DelList(m) ==
  /\ matcher[m].pc = "exec"
  /\ matcher[m].todo = {}
  /\ book' = {}
  /\ matcher' = [matcher EXCEPT ![m].pc = "push"]
  /\ UNCHANGED <<status, anchor, creator, canceller, lock, stored, faults>>

\* ... and its RPUSH of the other entries; the lock is released.
PushRest(m) ==
  /\ matcher[m].pc = "push"
  /\ RPush(matcher[m].rest)
  /\ matcher' = [matcher EXCEPT ![m] = IdleMatcher]
  /\ Release(m)
  /\ UNCHANGED <<status, anchor, creator, canceller, faults>>

\* An error of Redis ends the tick and releases the lock (the error of the
\* rewrite is ignored); a crash leaves the lock to its TTL.
TickInterrupted(m) ==
  /\ \/ /\ matcher[m].pc \in {"locked", "exec"} /\ matcher[m].todo = {}
        /\ Fault("redis")
        /\ Release(m)
     \/ matcher[m].pc = "push" /\ Fault("pipeline") /\ Release(m)
     \/ Working(m) /\ Fault("crash") /\ UNCHANGED lock
  /\ matcher' = [matcher EXCEPT ![m] = IdleMatcher]
  /\ UNCHANGED <<status, anchor, creator, canceller, book, stored>>

\* A lock's TTL passes, of a holder that crashed or of one that still works.
LockExpires ==
  /\ lock # Free
  /\ IF Working(lock) THEN Fault("expiry") ELSE UNCHANGED faults
  /\ lock' = Free
  /\ UNCHANGED <<status, anchor, creator, canceller, matcher, book, stored>>

-----------------------------------------------------------------------------
Create(o) == \/ \E p \in Prices : CreateOrder(o, p)
             \/ LockForPush(o) \/ AddOrderToRedis(o) \/ AddOrderToRedisFails(o)
             \/ MarkFailed(o) \/ CreatorCrash(o)

Cancel(o) == \/ CancelOrder(o) \/ ReadForCancel(o) \/ DelForCancel(o)
             \/ PushForCancel(o) \/ CancelInterrupted(o)

Tick(m) == \/ \E p \in Prices : TakeTick(m, p)
           \/ LockList(m) \/ LockTimesOut(m) \/ NothingFires(m) \/ SomeFire(m)
           \/ \E o \in Orders : ExecuteOrder(m, o)
           \/ DelList(m) \/ PushRest(m) \/ TickInterrupted(m)

Next == \/ \E o \in Orders : Create(o) \/ Cancel(o)
        \/ \E m \in Matchers : Tick(m)
        \/ LockExpires

Spec == Init /\ [][Next]_vars

(***************************************************************************)
(* Fairness: handlers and goroutines are scheduled, a lock's TTL runs out, *)
(* the token goes on being traded at each of Prices, and MustLock, which   *)
(* polls the lock, gets it unless it times out.                            *)
(***************************************************************************)
Fairness ==
  /\ \A o \in Orders :
       SF_vars(LockForPush(o)) /\ WF_vars(AddOrderToRedis(o) \/ MarkFailed(o))
  /\ \A m \in Matchers :
       WF_vars(\/ NothingFires(m) \/ SomeFire(m) \/ DelList(m) \/ PushRest(m)
               \/ \E o \in Orders : ExecuteOrder(m, o))
  /\ \A p \in Prices :
       /\ SF_vars(\E m \in Matchers : TakeTick(m, p))
       /\ SF_vars(\E m \in Matchers : matcher[m].price = p /\ LockList(m))
  /\ WF_vars(LockExpires)

FairSpec == Spec /\ Fairness

-----------------------------------------------------------------------------
(* Properties. *)

\* Order o will still be pushed or marked Fail by its creator, executed by a
\* tick, or written back by a rewrite that is under way.
InHand(o) ==
  \/ creator[o] \in {"push", "locked", "failed"}
  \/ \E m \in Matchers : \/ o \in matcher[m].todo
                         \/ matcher[m].pc = "push" /\ o \in Ids(matcher[m].rest)
  \/ \E c \in Orders : canceller[c].pc = "push" /\ o \in Ids(canceller[c].kept)

\* An order that is Waiting can still trigger: it is listed or in somebody's
\* hands (the comments of addOrderToRedis and "No zombie Waiting rows").
NoOrderLost ==
  \A o \in Orders : status[o] = "waiting" => o \in Ids(book) \/ InHand(o)

\* As long as nobody cancels, ticks and creations alone lose no order: the RPUSH
\* of one never lands between the LRANGE and the DEL of the other, where it
\* "would be silently erased" (addOrderToRedis of trailing stops).
TickLosesNoOrder == (\A o \in Orders : status[o] # "cancel") => NoOrderLost

\* The trigger line of an order never falls back, whichever snapshots the
\* rewrites started from (CreateTrailingStop: it "only ratchets upward").
LineNeverFalls ==
  \A e \in book, s \in stored : s.id = e.id => s.base <= e.base

\* A tick triggers an order only at a price that crosses the order's own line:
\* the limit in its row, or Percent below a base it really reached, whatever
\* rewrites of the list raced with the tick.
TriggeredByItsLine ==
  [][\A o \in Orders : status[o] = "waiting" /\ status'[o] = "proc" =>
       \E m \in Matchers, s \in stored :
         /\ o \in matcher[m].todo \ matcher'[m].todo
         /\ s.id = o
         /\ Kind = "buy" => matcher[m].price <= anchor[o]
         /\ Kind = "sell" => matcher[m].price >= anchor[o]
         /\ Kind = "trailing" => 100 * matcher[m].price <= s.base * (100 - Percent)]_vars

\* Once a tick has been handled, no entry left in the list has a base below its
\* price ("BasePrice = highest seen").
HighestSeen ==
  [][\A m \in Matchers :
       matcher[m].pc \in {"locked", "push"} /\ matcher'[m].pc = "idle" =>
         \A e \in book' : e.base >= matcher[m].price]_vars

\* A trailing stop whose line is above some price of the token triggers, or is
\* cancelled or failed: no tick, handler or lock blocks the list for ever.
ReachableStopTriggers ==
  \A o \in Orders :
    (\E p \in Prices : status[o] = "waiting" /\ 100 * p <= anchor[o] * (100 - Percent))
      ~> (status[o] # "waiting")
=============================================================================
