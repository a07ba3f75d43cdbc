------------------------- MODULE TriggerListProofs -------------------------
(***************************************************************************)
(* Proofs about TriggerList, for any orders, goroutines and prices.        *)
(*                                                                         *)
(* Inv is inductive for every kind of list and all faults; it gives type   *)
(* correctness and TriggeredByItsLine.  QuietInv adds what holds for the   *)
(* list of trailing stops when no fault defeats its lock, and gives        *)
(* NoOrderLost and LineNeverFalls: its core is that whoever works on the   *)
(* list holds the lock (LockInv), so that the snapshot a tick works on     *)
(* stays equal to the list (ExecInv, RestInv).                             *)
(***************************************************************************)
EXTENDS TriggerList, TLAPS

\* An entry stands for an order that exists, a limit order at its own limit.
Known(e) == status[e.id] # "none" /\ (Kind # "trailing" => e.base = anchor[e.id])

\* Wherever an entry is held, it is known; what is listed was pushed.
EntryInv ==
  /\ book \subseteq stored
  /\ \A e \in stored : Known(e)
  /\ \A m \in Matchers : \A e \in matcher[m].rest : Known(e)
  /\ \A o \in Orders : \A e \in canceller[o].kept : Known(e)
  /\ \A o \in Orders : status[o] = "none" => creator[o] = "none"
  /\ \A o \in Orders : creator[o] # "none" => anchor[o] \in Prices

\* An order a tick is about to execute has an entry that its price fires.
TodoInv ==
  \A m \in Matchers : \A o \in matcher[m].todo :
    \E s \in stored : s.id = o /\ Fires(s, matcher[m].price)

Inv == TypeOK /\ EntryInv /\ TodoInv

\* No fault defeats the lock of the list of trailing stops.
Quiet == Kind = "trailing" /\ Faults \subseteq {"redis", "timeout"}

\* Cancelling does not rewrite the list of trailing stops.
CancellerInv == \A o \in Orders : canceller[o].pc = "idle"

\* Whoever works on the list holds the lock.
LockInv == \A a \in Orders \cup Matchers : Working(a) => lock = a

\* Orders are executed before the DEL, and the list is empty until the RPUSH.
PhaseInv ==
  \A m \in Matchers :
    /\ matcher[m].pc # "exec" => matcher[m].todo = {}
    /\ matcher[m].pc = "push" => book = {}

\* An order has no entry before its creator has tried to push it.
FreshInv ==
  /\ \A e \in stored : creator[e.id] \in {"failed", "done"}
  /\ \A m \in Matchers : \A e \in matcher[m].rest : creator[e.id] \in {"failed", "done"}

\* A snapshot has one entry per order, not below any that was ever stored.
RestInv ==
  \A m \in Matchers : matcher[m].pc \in {"exec", "push"} =>
    \A e \in matcher[m].rest :
      /\ \A s \in stored : s.id = e.id => s.base <= e.base
      /\ \A f \in matcher[m].rest : f.id = e.id => f = e

\* Until the DEL, a waiting order of the list is executed or kept.
ExecInv ==
  \A m \in Matchers : matcher[m].pc = "exec" =>
    \A e \in book : status[e.id] = "waiting" =>
      e.id \in matcher[m].todo \/ e.id \in Ids(matcher[m].rest)

QuietInv ==
  /\ CancellerInv
  /\ LockInv
  /\ PhaseInv
  /\ FreshInv
  /\ RestInv
  /\ ExecInv
  /\ NoOrderLost
  /\ LineNeverFalls

-----------------------------------------------------------------------------
(* The lock excludes everybody else from the list. *)

\* While a creator holds the lock, no tick is between MustLock and ReleaseLock.
LEMMA CreatorAlone ==
  ASSUME LockInv, NEW o \in Orders, creator[o] = "locked"
  PROVE  \A n \in Matchers : matcher[n].pc \notin {"locked", "exec", "push"}
BY ActorAssumption DEF LockInv, Working

\* While a tick holds the lock, no other tick does.
LEMMA TickAlone ==
  ASSUME LockInv, NEW m \in Matchers, matcher[m].pc \in {"locked", "exec", "push"}
  PROVE  \A n \in Matchers : n # m => matcher[n].pc \notin {"locked", "exec", "push"}
BY DEF LockInv, Working

-----------------------------------------------------------------------------
(* Every step keeps Inv. *)

\* The handler that creates an order inserts a known order and pushes its own entry.
LEMMA CreateKeepsInv ==
  ASSUME Inv, NEW o \in Orders, Create(o)
  PROVE  Inv'
<1> USE DEF Inv
<1>1. ASSUME NEW p \in Prices, CreateOrder(o, p) PROVE Inv'
  <2>1. TypeOK'
    BY <1>1, FaultAssumption, ActorAssumption DEF CreateOrder, TypeOK
  <2>2. EntryInv'
    BY <1>1 DEF CreateOrder, EntryInv, TypeOK, Known
  <2>3. TodoInv'
    BY <1>1 DEF CreateOrder, TodoInv, Fires
  <2> QED BY <2>1, <2>2, <2>3 DEF Inv
<1>2. ASSUME LockForPush(o) PROVE Inv'
  <2>1. TypeOK'
    BY <1>2, FaultAssumption, ActorAssumption DEF LockForPush, TypeOK
  <2>2. EntryInv'
    BY <1>2 DEF LockForPush, EntryInv, Known
  <2>3. TodoInv'
    BY <1>2 DEF LockForPush, TodoInv, Fires
  <2> QED BY <2>1, <2>2, <2>3 DEF Inv
<1>3. ASSUME AddOrderToRedis(o) PROVE Inv'
  <2>1. TypeOK'
    <3>1. EntryOf(o, anchor[o]) \in Entry
      BY <1>3 DEF TypeOK, EntryInv, EntryOf, Entry, ReadyToPush, AddOrderToRedis
    <3> QED BY <3>1, <1>3 DEF TypeOK, AddOrderToRedis, RPush, Release
  <2>2. EntryInv'
    BY <1>3 DEF AddOrderToRedis, RPush, ReadyToPush, EntryOf, EntryInv, Known
  <2>3. TodoInv'
    BY <1>3 DEF AddOrderToRedis, RPush, TodoInv
  <2> QED BY <2>1, <2>2, <2>3 DEF Inv
<1>4. ASSUME AddOrderToRedisFails(o) PROVE Inv'
  <2>1. TypeOK'
    <3>1. creator[o] # "none" => EntryOf(o, anchor[o]) \in Entry
      BY DEF TypeOK, EntryInv, EntryOf, Entry
    <3>2. faults' \in 0..MaxFaults
      BY <1>4, FaultAssumption DEF TypeOK, AddOrderToRedisFails, Fault
    <3> QED BY <3>1, <3>2, <1>4 DEF TypeOK, AddOrderToRedisFails, RPush, Release, ReadyToPush
  <2>2. EntryInv'
    BY <1>4 DEF AddOrderToRedisFails, RPush, ReadyToPush, EntryOf, EntryInv, TypeOK,
        Known
  <2>3. TodoInv'
    BY <1>4 DEF AddOrderToRedisFails, RPush, TodoInv
  <2> QED BY <2>1, <2>2, <2>3 DEF Inv
<1>5. ASSUME MarkFailed(o) PROVE Inv'
  <2>1. TypeOK'
    BY <1>5, FaultAssumption, ActorAssumption DEF MarkFailed, Fault, TypeOK
  <2>2. EntryInv'
    BY <1>5 DEF MarkFailed, EntryInv, TypeOK, Known, Entry
  <2>3. TodoInv'
    BY <1>5 DEF MarkFailed, TodoInv, Fires
  <2> QED BY <2>1, <2>2, <2>3 DEF Inv
<1>6. ASSUME CreatorCrash(o) PROVE Inv'
  <2>1. TypeOK'
    BY <1>6, FaultAssumption, ActorAssumption DEF CreatorCrash, Fault, TypeOK
  <2>2. EntryInv'
    BY <1>6 DEF CreatorCrash, EntryInv, Known
  <2>3. TodoInv'
    BY <1>6 DEF CreatorCrash, TodoInv, Fires
  <2> QED BY <2>1, <2>2, <2>3 DEF Inv
<1> QED BY <1>1, <1>2, <1>3, <1>4, <1>5, <1>6 DEF Create

\* The handler that cancels an order pushes back entries it has read.
LEMMA CancelKeepsInv ==
  ASSUME Inv, NEW o \in Orders, Cancel(o)
  PROVE  Inv'
<1> USE DEF Inv
<1>1. ASSUME CancelOrder(o) PROVE Inv'
  <2>1. TypeOK'
    BY <1>1, FaultAssumption, ActorAssumption DEF CancelOrder, TypeOK
  <2>2. EntryInv'
    BY <1>1 DEF CancelOrder, EntryInv, Known
  <2>3. TodoInv'
    BY <1>1 DEF CancelOrder, TodoInv, Fires
  <2> QED BY <2>1, <2>2, <2>3 DEF Inv
<1>2. ASSUME ReadForCancel(o) PROVE Inv'
  <2>1. TypeOK'
    BY <1>2, FaultAssumption, ActorAssumption DEF ReadForCancel, IdleCanceller, TypeOK
  <2>2. EntryInv'
    BY <1>2 DEF ReadForCancel, IdleCanceller, EntryInv, Known
  <2>3. TodoInv'
    BY <1>2 DEF ReadForCancel, TodoInv, Fires
  <2> QED BY <2>1, <2>2, <2>3 DEF Inv
<1>3. ASSUME DelForCancel(o) PROVE Inv'
  <2>1. TypeOK'
    BY <1>3, FaultAssumption, ActorAssumption DEF DelForCancel, TypeOK
  <2>2. EntryInv'
    BY <1>3 DEF DelForCancel, EntryInv, Known
  <2>3. TodoInv'
    BY <1>3 DEF DelForCancel, TodoInv, Fires
  <2> QED BY <2>1, <2>2, <2>3 DEF Inv
<1>4. ASSUME PushForCancel(o) PROVE Inv'
  <2>1. TypeOK'
    BY <1>4, FaultAssumption, ActorAssumption DEF PushForCancel, RPush, IdleCanceller,
        TypeOK
  <2>2. EntryInv'
    BY <1>4 DEF PushForCancel, RPush, IdleCanceller, EntryInv, Known
  <2>3. TodoInv'
    BY <1>4 DEF PushForCancel, RPush, TodoInv
  <2> QED BY <2>1, <2>2, <2>3 DEF Inv
<1>5. ASSUME CancelInterrupted(o) PROVE Inv'
  <2>1. TypeOK'
    BY <1>5, FaultAssumption, ActorAssumption DEF CancelInterrupted, Fault,
        IdleCanceller, TypeOK
  <2>2. EntryInv'
    BY <1>5 DEF CancelInterrupted, IdleCanceller, EntryInv, Known
  <2>3. TodoInv'
    BY <1>5 DEF CancelInterrupted, TodoInv, Fires
  <2> QED BY <2>1, <2>2, <2>3 DEF Inv
<1> QED BY <1>1, <1>2, <1>3, <1>4, <1>5 DEF Cancel

\* A tick executes what it has read and fires, and pushes back the rest, ratcheted.
LEMMA TickKeepsInv ==
  ASSUME Inv, NEW m \in Matchers, Tick(m)
  PROVE  Inv'
<1> USE DEF Inv
<1>1. ASSUME NEW p \in Prices, TakeTick(m, p) PROVE Inv'
  <2>1. TypeOK'
    BY <1>1, FaultAssumption, ActorAssumption DEF TakeTick, IdleMatcher, TypeOK
  <2>2. EntryInv'
    BY <1>1 DEF TakeTick, IdleMatcher, EntryInv, Known
  <2>3. TodoInv'
    BY <1>1 DEF TakeTick, IdleMatcher, TodoInv
  <2> QED BY <2>1, <2>2, <2>3 DEF Inv
<1>2. ASSUME LockList(m) PROVE Inv'
  <2>1. TypeOK'
    <3>1. matcher' \in [Matchers -> [pc : {"idle", "wait", "locked", "exec", "push"},
                                     price : Prices \cup {0}, todo : SUBSET Orders,
                                     rest : SUBSET Entry]]
      BY <1>2, ZenonT(60) DEF LockList, TypeOK
    <3> QED BY <3>1, <1>2 DEF LockList, TypeOK
  <2>2. EntryInv'
    BY <1>2 DEF LockList, EntryInv, Known
  <2>3. TodoInv'
    BY <1>2 DEF LockList, TodoInv
  <2> QED BY <2>1, <2>2, <2>3 DEF Inv
<1>3. ASSUME LockTimesOut(m) PROVE Inv'
  <2>1. TypeOK'
    BY <1>3, FaultAssumption, ActorAssumption DEF LockTimesOut, Fault, IdleMatcher,
        TypeOK
  <2>2. EntryInv'
    BY <1>3 DEF LockTimesOut, IdleMatcher, EntryInv, Known
  <2>3. TodoInv'
    BY <1>3 DEF LockTimesOut, IdleMatcher, TodoInv
  <2> QED BY <2>1, <2>2, <2>3 DEF Inv
<1>4. ASSUME NothingFires(m) PROVE Inv'
  <2>1. TypeOK'
    BY <1>4, FaultAssumption, ActorAssumption DEF NothingFires, Release, IdleMatcher,
        TypeOK
  <2>2. EntryInv'
    BY <1>4 DEF NothingFires, IdleMatcher, EntryInv, Known
  <2>3. TodoInv'
    BY <1>4 DEF NothingFires, IdleMatcher, TodoInv
  <2> QED BY <2>1, <2>2, <2>3 DEF Inv
<1>5. ASSUME SomeFire(m) PROVE Inv'
  <2>1. TypeOK'
    <3>1. Ids(Fired(m)) \subseteq Orders
      BY DEF TypeOK, Ids, Fired, Entry
    <3>2. {Ratcheted(e, matcher[m].price) : e \in book \ Fired(m)} \subseteq Entry
      <4>1. SUFFICES ASSUME NEW e \in book PROVE Ratcheted(e, matcher[m].price) \in Entry
        OBVIOUS
      <4>2. e.id \in Orders /\ e.base \in Prices
        BY DEF TypeOK, Entry
      <4> QED BY <4>2, PriceAssumption DEF TypeOK, Ratcheted, Entry
    <3> QED BY <3>1, <3>2, <1>5 DEF SomeFire, TypeOK
  <2>2. EntryInv'
    <3>1. ASSUME NEW e \in book
          PROVE  /\ Ratcheted(e, matcher[m].price).id = e.id
                 /\ Kind # "trailing" => Ratcheted(e, matcher[m].price) = e
      BY DEF TypeOK, Ratcheted, Entry
    <3>2. \A f \in {Ratcheted(e, matcher[m].price) : e \in book \ Fired(m)} : Known(f)
      BY <3>1 DEF EntryInv, Known
    <3> QED BY <3>2, <1>5 DEF SomeFire, EntryInv, TypeOK, Known
  <2>3. TodoInv'
    <3>1. \A o \in Ids(Fired(m)) : \E s \in stored : s.id = o /\ Fires(s, matcher[m].price)
      BY DEF EntryInv, Ids, Fired
    <3> QED BY <3>1, <1>5 DEF TodoInv, SomeFire, TypeOK, Fires
  <2> QED BY <2>1, <2>2, <2>3 DEF Inv
<1>6. ASSUME NEW o \in Orders, ExecuteOrder(m, o) PROVE Inv'
  <2>1. TypeOK'
    <3>1. matcher' \in [Matchers -> [pc : {"idle", "wait", "locked", "exec", "push"},
                                     price : Prices \cup {0}, todo : SUBSET Orders,
                                     rest : SUBSET Entry]]
      BY <1>6, ZenonT(60) DEF ExecuteOrder, TypeOK
    <3>2. status' \in [Orders -> {"none", "waiting", "proc", "fail", "cancel"}]
      BY <1>6 DEF ExecuteOrder, TypeOK
    <3>3. faults' \in 0..MaxFaults /\ UNCHANGED <<anchor, creator, canceller, book, lock, stored>>
      BY <1>6, FaultAssumption DEF ExecuteOrder, TypeOK, Fault
    <3> QED BY <3>1, <3>2, <3>3 DEF TypeOK
  <2>2. EntryInv'
    BY <1>6 DEF ExecuteOrder, EntryInv, TypeOK, Known, Entry
  <2>3. TodoInv'
    BY <1>6 DEF ExecuteOrder, TodoInv
  <2> QED BY <2>1, <2>2, <2>3 DEF Inv
<1>7. ASSUME DelList(m) PROVE Inv'
  <2>1. TypeOK'
    <3>1. matcher' \in [Matchers -> [pc : {"idle", "wait", "locked", "exec", "push"},
                                     price : Prices \cup {0}, todo : SUBSET Orders,
                                     rest : SUBSET Entry]]
      BY <1>7 DEF DelList, TypeOK
    <3> QED BY <3>1, <1>7 DEF DelList, TypeOK
  <2>2. EntryInv'
    BY <1>7 DEF DelList, EntryInv, Known
  <2>3. TodoInv'
    BY <1>7 DEF DelList, TodoInv
  <2> QED BY <2>1, <2>2, <2>3 DEF Inv
<1>8. ASSUME PushRest(m) PROVE Inv'
  <2>1. TypeOK'
    BY <1>8, FaultAssumption, ActorAssumption DEF PushRest, RPush, Release, IdleMatcher,
        TypeOK
  <2>2. EntryInv'
    BY <1>8 DEF PushRest, RPush, IdleMatcher, EntryInv, Known
  <2>3. TodoInv'
    BY <1>8 DEF PushRest, RPush, IdleMatcher, TodoInv
  <2> QED BY <2>1, <2>2, <2>3 DEF Inv
<1>9. ASSUME TickInterrupted(m) PROVE Inv'
  <2>1. TypeOK'
    BY <1>9, FaultAssumption, ActorAssumption DEF TickInterrupted, Release, Fault,
        IdleMatcher, TypeOK
  <2>2. EntryInv'
    BY <1>9 DEF TickInterrupted, IdleMatcher, EntryInv, Known
  <2>3. TodoInv'
    BY <1>9 DEF TickInterrupted, IdleMatcher, TodoInv
  <2> QED BY <2>1, <2>2, <2>3 DEF Inv
<1> QED BY <1>1, <1>2, <1>3, <1>4, <1>5, <1>6, <1>7, <1>8, <1>9 DEF Tick

\* Inv says nothing of the lock but its type.
LEMMA LockExpiresKeepsInv ==
  ASSUME Inv, LockExpires
  PROVE  Inv'
<1> USE DEF Inv
<1>1. TypeOK'
  BY FaultAssumption DEF LockExpires, Fault, TypeOK
<1>2. EntryInv' /\ TodoInv'
  BY DEF LockExpires, EntryInv, TodoInv, Fires, Known
<1> QED BY <1>1, <1>2 DEF Inv

-----------------------------------------------------------------------------
(* Every step keeps QuietInv, when no fault defeats the lock. *)

\* A creator pushes only while it holds the lock, when no tick has a snapshot.
LEMMA CreateKeepsQuietInv ==
  ASSUME Inv, QuietInv, Quiet, NEW o \in Orders, Create(o)
  PROVE  QuietInv'
<1> USE DEF Inv, QuietInv, Quiet
<1>1. ASSUME NEW p \in Prices, CreateOrder(o, p) PROVE QuietInv'
  <2>1. LockInv'
    BY <1>1, ActorAssumption DEF CreateOrder, LockInv, Working
  <2>2. FreshInv'
    BY <1>1 DEF CreateOrder, FreshInv, EntryInv
  <2>3. ExecInv'
    BY <1>1 DEF CreateOrder, ExecInv, EntryInv, FreshInv
  <2>4. NoOrderLost'
    BY <1>1 DEF CreateOrder, NoOrderLost, TypeOK, InHand
  <2>5. CancellerInv' /\ PhaseInv' /\ RestInv' /\ LineNeverFalls'
    BY <1>1 DEF CreateOrder, CancellerInv, PhaseInv, RestInv, LineNeverFalls
  <2> QED BY <2>1, <2>2, <2>3, <2>4, <2>5 DEF QuietInv
<1>2. ASSUME LockForPush(o) PROVE QuietInv'
  <2>1. LockInv'
    BY <1>2, ActorAssumption DEF LockForPush, LockInv, Working
  <2>2. FreshInv'
    BY <1>2 DEF LockForPush, FreshInv
  <2>3. NoOrderLost'
    BY <1>2 DEF LockForPush, NoOrderLost, InHand
  <2>4. CancellerInv' /\ PhaseInv' /\ RestInv' /\ ExecInv' /\ LineNeverFalls'
    BY <1>2 DEF LockForPush, CancellerInv, PhaseInv, RestInv, ExecInv, LineNeverFalls,
        Ids
  <2> QED BY <2>1, <2>2, <2>3, <2>4 DEF QuietInv
<1>3. ASSUME AddOrderToRedis(o) PROVE QuietInv'
  <2>1. LockInv'
    BY <1>3, ActorAssumption DEF AddOrderToRedis, ReadyToPush, LockInv, TypeOK, Working
  <2>2. PhaseInv'
    <3>1. creator[o] = "locked" =>
          \A n \in Matchers : matcher[n].pc \notin {"locked", "exec", "push"}
      BY CreatorAlone
    <3> QED BY <3>1, <1>3 DEF AddOrderToRedis, ReadyToPush, RPush, PhaseInv
  <2>3. FreshInv'
    BY <1>3 DEF AddOrderToRedis, RPush, EntryOf, FreshInv, TypeOK
  <2>4. RestInv'
    <3>1. creator[o] = "locked" =>
          \A n \in Matchers : matcher[n].pc \notin {"locked", "exec", "push"}
      BY CreatorAlone
    <3> QED BY <3>1, <1>3 DEF AddOrderToRedis, ReadyToPush, RPush, RestInv, TypeOK
  <2>5. ExecInv'
    <3>1. creator[o] = "locked" =>
          \A n \in Matchers : matcher[n].pc \notin {"locked", "exec", "push"}
      BY CreatorAlone
    <3> QED BY <3>1, <1>3 DEF AddOrderToRedis, ReadyToPush, RPush, ExecInv, TypeOK
  <2>6. NoOrderLost'
    <3>1. ASSUME NEW b \in Orders, status[b] = "waiting" PROVE b \in Ids(book)' \/ InHand(b)'
      <4>1. CASE b = o
        <5>1. EntryOf(o, anchor[o]) \in book' /\ EntryOf(o, anchor[o]).id = b
          BY <4>1, <1>3 DEF AddOrderToRedis, RPush, EntryOf
        <5> QED BY <5>1 DEF Ids
      <4>2. CASE b # o
        BY <3>1, <4>2, <1>3 DEF AddOrderToRedis, RPush, NoOrderLost, Ids, InHand, TypeOK
      <4> QED BY <4>1, <4>2
    <3> QED BY <3>1, <1>3 DEF NoOrderLost, AddOrderToRedis
  <2>7. LineNeverFalls'
    <3>1. EntryOf(o, anchor[o]).id = o /\ (creator[o] # "none" =>
          EntryOf(o, anchor[o]).base \in Nat)
      BY PriceAssumption DEF EntryOf, EntryInv
    <3>2. creator[o] \in {"push", "locked"} => \A e \in stored : e.id # o
      BY DEF FreshInv
    <3> QED BY <3>1, <3>2, <1>3
       DEF AddOrderToRedis, ReadyToPush, RPush, LineNeverFalls, EntryInv
  <2>8. CancellerInv'
    BY <1>3 DEF AddOrderToRedis, CancellerInv
  <2> QED BY <2>1, <2>2, <2>3, <2>4, <2>5, <2>6, <2>7, <2>8 DEF QuietInv
<1>4. ASSUME AddOrderToRedisFails(o) PROVE QuietInv'
  <2>1. LockInv'
    BY <1>4, ActorAssumption DEF AddOrderToRedisFails, Release, LockInv, TypeOK, Working
  <2>2. PhaseInv'
    <3>1. creator[o] = "locked" =>
          \A n \in Matchers : matcher[n].pc \notin {"locked", "exec", "push"}
      BY CreatorAlone
    <3> QED BY <3>1, <1>4 DEF AddOrderToRedisFails, ReadyToPush, RPush, PhaseInv
  <2>3. FreshInv'
    BY <1>4 DEF AddOrderToRedisFails, RPush, EntryOf, FreshInv, TypeOK, RestInv, Entry
  <2>4. RestInv'
    <3>1. creator[o] = "locked" =>
          \A n \in Matchers : matcher[n].pc \notin {"locked", "exec", "push"}
      BY CreatorAlone
    <3> QED BY <3>1, <1>4 DEF AddOrderToRedisFails, ReadyToPush, RPush, RestInv, TypeOK
  <2>5. ExecInv'
    <3>1. creator[o] = "locked" =>
          \A n \in Matchers : matcher[n].pc \notin {"locked", "exec", "push"}
      BY CreatorAlone
    <3>2. creator[o] = "locked" \/ UNCHANGED book
      BY <1>4 DEF AddOrderToRedisFails, ReadyToPush
    <3>3. UNCHANGED <<matcher, status>>
      BY <1>4 DEF AddOrderToRedisFails
    <3> QED BY <3>1, <3>2, <3>3 DEF ExecInv, Ids
  <2>6. NoOrderLost'
    BY <1>4, SMTT(30) DEF AddOrderToRedisFails, RPush, Release, Fault, EntryOf, NoOrderLost,
        TypeOK, PhaseInv, FreshInv, ExecInv, LineNeverFalls, Ids, InHand, Entry
  <2>7. LineNeverFalls'
    <3>1. EntryOf(o, anchor[o]).id = o /\ (creator[o] # "none" =>
          EntryOf(o, anchor[o]).base \in Nat)
      BY PriceAssumption DEF EntryOf, EntryInv
    <3>2. creator[o] \in {"push", "locked"} => \A e \in stored : e.id # o
      BY DEF FreshInv
    <3> QED BY <3>1, <3>2, <1>4
       DEF AddOrderToRedisFails, ReadyToPush, RPush, LineNeverFalls, EntryInv
  <2>8. CancellerInv'
    BY <1>4 DEF AddOrderToRedisFails, CancellerInv
  <2> QED BY <2>1, <2>2, <2>3, <2>4, <2>5, <2>6, <2>7, <2>8 DEF QuietInv
<1>5. ASSUME MarkFailed(o) PROVE QuietInv'
  <2>1. LockInv'
    BY <1>5, ActorAssumption DEF MarkFailed, LockInv, Working
  <2>2. FreshInv'
    BY <1>5 DEF MarkFailed, FreshInv
  <2>3. ExecInv'
    <3>1. \A b \in Orders : status'[b] = "waiting" => status[b] = "waiting"
      BY <1>5 DEF MarkFailed, TypeOK
    <3>2. UNCHANGED <<matcher, book>>
      BY <1>5 DEF MarkFailed
    <3>3. \A e \in book : e.id \in Orders
      BY DEF TypeOK, Entry
    <3> QED BY <3>1, <3>2, <3>3 DEF ExecInv, Ids
  <2>4. NoOrderLost'
    BY <1>5 DEF MarkFailed, Fault, NoOrderLost, TypeOK, EntryInv, CancellerInv, LockInv,
        InHand
  <2>5. CancellerInv' /\ PhaseInv' /\ RestInv' /\ LineNeverFalls'
    BY <1>5 DEF MarkFailed, CancellerInv, PhaseInv, RestInv, LineNeverFalls
  <2> QED BY <2>1, <2>2, <2>3, <2>4, <2>5 DEF QuietInv
<1>6. ASSUME CreatorCrash(o) PROVE QuietInv'
  <2>1. LockInv'
    BY <1>6, ActorAssumption DEF CreatorCrash, Fault
  <2>2. FreshInv'
    BY <1>6 DEF CreatorCrash, Fault
  <2>3. NoOrderLost'
    BY <1>6 DEF CreatorCrash, Fault
  <2>4. CancellerInv' /\ PhaseInv' /\ RestInv' /\ ExecInv' /\ LineNeverFalls'
    BY <1>6 DEF CreatorCrash, CancellerInv, PhaseInv, RestInv, ExecInv, LineNeverFalls,
        Ids
  <2> QED BY <2>1, <2>2, <2>3, <2>4 DEF QuietInv
<1> QED BY <1>1, <1>2, <1>3, <1>4, <1>5, <1>6 DEF Create

\* Cancelling changes a status and leaves the list of trailing stops alone.
LEMMA CancelKeepsQuietInv ==
  ASSUME Inv, QuietInv, Quiet, NEW o \in Orders, Cancel(o)
  PROVE  QuietInv'
<1> USE DEF Inv, QuietInv, Quiet
<1>1. ASSUME CancelOrder(o) PROVE QuietInv'
  <2>1. CancellerInv'
    BY <1>1 DEF CancelOrder, CancellerInv
  <2>2. ExecInv'
    BY <1>1 DEF CancelOrder, ExecInv
  <2>3. NoOrderLost'
    BY <1>1 DEF CancelOrder, NoOrderLost, CancellerInv, InHand
  <2>4. LockInv' /\ PhaseInv' /\ FreshInv' /\ RestInv' /\ LineNeverFalls'
    BY <1>1 DEF CancelOrder, LockInv, PhaseInv, FreshInv, RestInv, LineNeverFalls,
        Working
  <2> QED BY <2>1, <2>2, <2>3, <2>4 DEF QuietInv
<1>2. ASSUME ReadForCancel(o) PROVE QuietInv'
  <2>1. CancellerInv'
    BY <1>2 DEF ReadForCancel, CancellerInv
  <2>2. NoOrderLost'
    BY <1>2 DEF ReadForCancel, NoOrderLost, InHand
  <2>3. LockInv' /\ PhaseInv' /\ FreshInv' /\ RestInv' /\ ExecInv' /\ LineNeverFalls'
    BY <1>2 DEF ReadForCancel, LockInv, PhaseInv, FreshInv, RestInv, ExecInv,
        LineNeverFalls, Ids, Working
  <2> QED BY <2>1, <2>2, <2>3 DEF QuietInv
<1>3. ASSUME DelForCancel(o) PROVE QuietInv'
  <2>1. CancellerInv'
    BY <1>3 DEF DelForCancel, CancellerInv
  <2>2. PhaseInv'
    BY <1>3 DEF DelForCancel, PhaseInv
  <2>3. ExecInv'
    BY <1>3 DEF DelForCancel, ExecInv
  <2>4. NoOrderLost'
    BY <1>3 DEF DelForCancel, CancellerInv
  <2>5. LineNeverFalls'
    BY <1>3, PriceAssumption DEF DelForCancel, LineNeverFalls
  <2>6. LockInv' /\ FreshInv' /\ RestInv'
    BY <1>3 DEF DelForCancel, LockInv, FreshInv, RestInv, Working
  <2> QED BY <2>1, <2>2, <2>3, <2>4, <2>5, <2>6 DEF QuietInv
<1>4. ASSUME PushForCancel(o) PROVE QuietInv'
  <2>1. CancellerInv'
    BY <1>4 DEF PushForCancel, CancellerInv
  <2>2. PhaseInv'
    BY <1>4 DEF PushForCancel, CancellerInv
  <2>3. FreshInv'
    BY <1>4 DEF PushForCancel, CancellerInv
  <2>4. RestInv'
    BY <1>4, PriceAssumption DEF PushForCancel, CancellerInv
  <2>5. ExecInv'
    BY <1>4 DEF PushForCancel, CancellerInv
  <2>6. NoOrderLost'
    BY <1>4 DEF PushForCancel, RPush, NoOrderLost, Ids, InHand
  <2>7. LineNeverFalls'
    BY <1>4, PriceAssumption DEF PushForCancel, CancellerInv
  <2>8. LockInv'
    BY <1>4 DEF PushForCancel, LockInv, Working
  <2> QED BY <2>1, <2>2, <2>3, <2>4, <2>5, <2>6, <2>7, <2>8 DEF QuietInv
<1>5. ASSUME CancelInterrupted(o) PROVE QuietInv'
  <2>1. CancellerInv'
    BY <1>5 DEF CancelInterrupted, CancellerInv
  <2>2. NoOrderLost'
    BY <1>5 DEF CancelInterrupted, Fault, NoOrderLost, InHand
  <2>3. LockInv' /\ PhaseInv' /\ FreshInv' /\ RestInv' /\ ExecInv' /\ LineNeverFalls'
    BY <1>5 DEF CancelInterrupted, LockInv, PhaseInv, FreshInv, RestInv, ExecInv,
        LineNeverFalls, Ids, Working
  <2> QED BY <2>1, <2>2, <2>3 DEF QuietInv
<1> QED BY <1>1, <1>2, <1>3, <1>4, <1>5 DEF Cancel

\* A tick that holds the lock takes a snapshot that stays the list until its DEL.
LEMMA TickKeepsQuietInv ==
  ASSUME Inv, QuietInv, Quiet, NEW m \in Matchers, Tick(m)
  PROVE  QuietInv'
<1> USE DEF Inv, QuietInv, Quiet
<1>1. ASSUME NEW p \in Prices, TakeTick(m, p) PROVE QuietInv'
  <2>1. LockInv'
    BY <1>1, ActorAssumption DEF TakeTick, LockInv, Working
  <2>2. PhaseInv'
    BY <1>1 DEF TakeTick, IdleMatcher, PhaseInv
  <2>3. FreshInv'
    BY <1>1 DEF TakeTick, IdleMatcher, FreshInv
  <2>4. RestInv'
    BY <1>1, PriceAssumption DEF TakeTick, RestInv
  <2>5. ExecInv'
    BY <1>1 DEF TakeTick, ExecInv
  <2>6. NoOrderLost'
    BY <1>1 DEF TakeTick, NoOrderLost, PhaseInv, InHand
  <2>7. CancellerInv' /\ LineNeverFalls'
    BY <1>1 DEF TakeTick, CancellerInv, LineNeverFalls
  <2> QED BY <2>1, <2>2, <2>3, <2>4, <2>5, <2>6, <2>7 DEF QuietInv
<1>2. ASSUME LockList(m) PROVE QuietInv'
  <2>1. LockInv'
    BY <1>2, ActorAssumption DEF LockList, LockInv, Working
  <2>2. PhaseInv'
    BY <1>2 DEF LockList, PhaseInv
  <2>3. FreshInv'
    BY <1>2 DEF LockList, FreshInv
  <2>4. RestInv'
    BY <1>2, PriceAssumption DEF LockList, RestInv
  <2>5. ExecInv'
    BY <1>2 DEF LockList, ExecInv
  <2>6. NoOrderLost'
    BY <1>2 DEF LockList, NoOrderLost, InHand
  <2>7. CancellerInv' /\ LineNeverFalls'
    BY <1>2 DEF LockList, CancellerInv, LineNeverFalls
  <2> QED BY <2>1, <2>2, <2>3, <2>4, <2>5, <2>6, <2>7 DEF QuietInv
<1>3. ASSUME LockTimesOut(m) PROVE QuietInv'
  <2>1. LockInv'
    BY <1>3, ActorAssumption DEF LockTimesOut, IdleMatcher, LockInv, Working
  <2>2. PhaseInv'
    BY <1>3 DEF LockTimesOut, IdleMatcher, PhaseInv
  <2>3. FreshInv'
    BY <1>3 DEF LockTimesOut, IdleMatcher, FreshInv
  <2>4. RestInv'
    BY <1>3, PriceAssumption DEF LockTimesOut, IdleMatcher, RestInv
  <2>5. ExecInv'
    BY <1>3 DEF LockTimesOut, IdleMatcher, ExecInv
  <2>6. NoOrderLost'
    BY <1>3 DEF LockTimesOut, NoOrderLost, PhaseInv, InHand
  <2>7. CancellerInv' /\ LineNeverFalls'
    BY <1>3 DEF LockTimesOut, CancellerInv, LineNeverFalls
  <2> QED BY <2>1, <2>2, <2>3, <2>4, <2>5, <2>6, <2>7 DEF QuietInv
<1>4. ASSUME NothingFires(m) PROVE QuietInv'
  <2>1. LockInv'
    BY <1>4, ActorAssumption DEF NothingFires, IdleMatcher, LockInv, TypeOK, Working
  <2>2. PhaseInv'
    BY <1>4 DEF NothingFires, IdleMatcher, PhaseInv
  <2>3. FreshInv'
    BY <1>4 DEF NothingFires, IdleMatcher, FreshInv
  <2>4. RestInv'
    BY <1>4, PriceAssumption DEF NothingFires, IdleMatcher, RestInv
  <2>5. ExecInv'
    BY <1>4 DEF NothingFires, IdleMatcher, ExecInv
  <2>6. NoOrderLost'
    BY <1>4 DEF NothingFires, NoOrderLost, PhaseInv, InHand
  <2>7. CancellerInv' /\ LineNeverFalls'
    BY <1>4 DEF NothingFires, CancellerInv, LineNeverFalls
  <2> QED BY <2>1, <2>2, <2>3, <2>4, <2>5, <2>6, <2>7 DEF QuietInv
<1>5. ASSUME SomeFire(m) PROVE QuietInv'
  <2>1. LockInv'
    BY <1>5, ActorAssumption DEF SomeFire, LockInv, Working
  <2>2. PhaseInv'
    BY <1>5 DEF SomeFire, PhaseInv
  <2>3. FreshInv'
    BY <1>5, SMTT(30) DEF SomeFire, Ratcheted, FreshInv, TypeOK, EntryInv, RestInv, Entry
  <2>4. RestInv'
    <3>1. \A n \in Matchers : n # m => matcher[n].pc \notin {"locked", "exec", "push"}
      BY <1>5, TickAlone DEF SomeFire
    <3>2. ASSUME NEW e \in book
          PROVE  /\ e.base \in Nat
                 /\ Ratcheted(e, matcher[m].price).id = e.id
                 /\ Ratcheted(e, matcher[m].price).base \in Nat
                 /\ e.base <= Ratcheted(e, matcher[m].price).base
      BY PriceAssumption DEF TypeOK, Ratcheted, Entry
    <3>3. \A e \in book, f \in book : e.id = f.id => e = f
      <4>1. SUFFICES ASSUME NEW e \in book, NEW f \in book, e.id = f.id PROVE e = f
        OBVIOUS
      <4>2. e.base <= f.base /\ f.base <= e.base
        BY <4>1 DEF LineNeverFalls, EntryInv
      <4>3. e.base = f.base
        BY <4>2, <3>2
      <4>4. e \in Entry /\ f \in Entry
        BY DEF TypeOK
      <4> QED BY <4>1, <4>3, <4>4 DEF Entry
    <3> DEFINE rest == {Ratcheted(e, matcher[m].price) : e \in book \ Fired(m)}
    <3>4. \A g \in rest, h \in rest : g.id = h.id => g = h
      BY <3>2, <3>3
    <3>5. \A g \in rest, s \in stored : s.id = g.id => s.base <= g.base
      <4>1. SUFFICES ASSUME NEW e \in book, NEW s \in stored, s.id = e.id
                     PROVE  s.base <= Ratcheted(e, matcher[m].price).base
        BY <3>2
      <4>2. s.base <= e.base /\ s.base \in Nat
        BY <4>1, PriceAssumption DEF LineNeverFalls, TypeOK, Entry
      <4> QED BY <4>2, <3>2
    <3>6. \A n \in Matchers : matcher'[n].pc \in {"exec", "push"} =>
          n = m /\ matcher'[n].rest = rest
      BY <3>1, <1>5 DEF SomeFire, TypeOK
    <3> HIDE DEF rest
    <3> QED BY <3>4, <3>5, <3>6, <1>5 DEF RestInv, SomeFire
  <2>5. ExecInv'
    <3>1. \A n \in Matchers : n # m => matcher[n].pc \notin {"locked", "exec", "push"}
      BY <1>5, TickAlone DEF SomeFire
    <3>2. \A e \in book : Ratcheted(e, matcher[m].price).id = e.id
      BY DEF TypeOK, Ratcheted, Entry
    <3>3. \A e \in book : \/ e.id \in Ids(Fired(m))
                         \/ e.id \in Ids({Ratcheted(f, matcher[m].price) : f \in book \ Fired(m)})
      BY <3>2 DEF Ids
    <3> QED BY <3>1, <3>3, <1>5 DEF SomeFire, ExecInv, TypeOK
  <2>6. NoOrderLost'
    BY <1>5 DEF SomeFire, NoOrderLost, PhaseInv, InHand
  <2>7. CancellerInv' /\ LineNeverFalls'
    BY <1>5 DEF SomeFire, CancellerInv, LineNeverFalls
  <2> QED BY <2>1, <2>2, <2>3, <2>4, <2>5, <2>6, <2>7 DEF QuietInv
<1>6. ASSUME NEW o \in Orders, ExecuteOrder(m, o) PROVE QuietInv'
  <2>1. LockInv'
    BY <1>6, ActorAssumption DEF ExecuteOrder, LockInv, Working
  <2>2. PhaseInv'
    BY <1>6 DEF ExecuteOrder, PhaseInv
  <2>3. FreshInv'
    BY <1>6 DEF ExecuteOrder, FreshInv
  <2>4. RestInv'
    BY <1>6, PriceAssumption DEF ExecuteOrder, RestInv
  <2>5. ExecInv'
    <3>1. SUFFICES ASSUME NEW n \in Matchers, matcher'[n].pc = "exec",
                          NEW e \in book, status'[e.id] = "waiting"
                   PROVE  e.id \in matcher'[n].todo \/ e.id \in Ids(matcher'[n].rest)
      BY <1>6 DEF ExecInv, ExecuteOrder, Ids
    <3>2. n = m
      BY <3>1, <1>6, TickAlone DEF ExecuteOrder, TypeOK
    <3>3. ~Fault("database")
      BY DEF Fault
    <3>4. e.id \in Orders
      BY DEF TypeOK, Entry
    <3>5. status[e.id] = "waiting" /\ e.id # o
      BY <3>1, <3>3, <3>4, <1>6 DEF ExecuteOrder, TypeOK
    <3> QED BY <3>5, <3>1, <3>2, <1>6 DEF ExecuteOrder, ExecInv, TypeOK, Ids
  <2>6. NoOrderLost'
    <3>1. ASSUME NEW b \in Orders, status'[b] = "waiting" PROVE b \in Ids(book)' \/ InHand(b)'
      <4>1. status[b] = "waiting" /\ b # o
        BY <3>1, <1>6 DEF ExecuteOrder, Fault, TypeOK
      <4> QED BY <4>1, <1>6, ZenonT(60) DEF ExecuteOrder, NoOrderLost, Ids, InHand, TypeOK
    <3> QED BY <3>1 DEF NoOrderLost
  <2>7. CancellerInv' /\ LineNeverFalls'
    BY <1>6 DEF ExecuteOrder, CancellerInv, LineNeverFalls
  <2> QED BY <2>1, <2>2, <2>3, <2>4, <2>5, <2>6, <2>7 DEF QuietInv
<1>7. ASSUME DelList(m) PROVE QuietInv'
  <2>1. LockInv'
    BY <1>7, ActorAssumption DEF DelList, LockInv, Working
  <2>2. PhaseInv'
    BY <1>7 DEF DelList, PhaseInv
  <2>3. FreshInv'
    BY <1>7 DEF DelList, FreshInv
  <2>4. RestInv'
    BY <1>7, PriceAssumption DEF DelList, RestInv
  <2>5. ExecInv'
    BY <1>7 DEF DelList, ExecInv
  <2>6. NoOrderLost'
    <3>1. SUFFICES ASSUME NEW b \in Orders, status'[b] = "waiting" PROVE InHand(b)'
      BY DEF NoOrderLost
    <3>2. UNCHANGED <<status, creator, canceller>> /\ matcher' = [matcher EXCEPT ![m].pc = "push"]
      BY <1>7 DEF DelList
    <3>3. matcher[m].pc = "exec" /\ matcher[m].todo = {}
      BY <1>7 DEF DelList
    <3>4. CASE b \in Ids(book)
      <4>1. b \in Ids(matcher[m].rest)
        BY <3>1, <3>2, <3>3, <3>4 DEF ExecInv, Ids
      <4>2. matcher'[m].pc = "push" /\ matcher'[m].rest = matcher[m].rest
        BY <3>2 DEF TypeOK
      <4> QED BY <4>1, <4>2 DEF InHand
    <3>5. CASE InHand(b)
      <4>1. \A n \in Matchers : /\ matcher'[n].todo = matcher[n].todo
                                 /\ matcher'[n].rest = matcher[n].rest
                                 /\ matcher[n].pc = "push" => matcher'[n].pc = "push"
        BY <3>2 DEF TypeOK
      <4> QED BY <4>1, <3>2, <3>5 DEF InHand
    <3> QED BY <3>1, <3>2, <3>4, <3>5 DEF NoOrderLost
  <2>7. LineNeverFalls'
    BY <1>7, PriceAssumption DEF DelList, LineNeverFalls
  <2>8. CancellerInv'
    BY <1>7 DEF DelList, CancellerInv
  <2> QED BY <2>1, <2>2, <2>3, <2>4, <2>5, <2>6, <2>7, <2>8 DEF QuietInv
<1>8. ASSUME PushRest(m) PROVE QuietInv'
  <2>1. LockInv'
    BY <1>8, ActorAssumption DEF PushRest, IdleMatcher, LockInv, TypeOK, Working
  <2>2. PhaseInv'
    <3>1. \A n \in Matchers : n # m => matcher[n].pc \notin {"locked", "exec", "push"}
      BY <1>8, TickAlone DEF PushRest
    <3> QED BY <3>1, <1>8 DEF PushRest, PhaseInv, TypeOK, IdleMatcher
  <2>3. FreshInv'
    BY <1>8 DEF PushRest, RPush, IdleMatcher, FreshInv
  <2>4. RestInv'
    <3>1. \A n \in Matchers : n # m => matcher[n].pc \notin {"locked", "exec", "push"}
      BY <1>8, TickAlone DEF PushRest
    <3> QED BY <3>1, <1>8 DEF PushRest, RestInv, TypeOK, IdleMatcher
  <2>5. ExecInv'
    <3>1. \A n \in Matchers : n # m => matcher[n].pc \notin {"locked", "exec", "push"}
      BY <1>8, TickAlone DEF PushRest
    <3> QED BY <3>1, <1>8 DEF PushRest, ExecInv, TypeOK, IdleMatcher
  <2>6. NoOrderLost'
    BY <1>8 DEF PushRest, RPush, NoOrderLost, PhaseInv, Ids, InHand
  <2>7. LineNeverFalls'
    <3>1. book' = matcher[m].rest /\ stored' = stored \cup matcher[m].rest
      BY <1>8 DEF PushRest, RPush, PhaseInv
    <3>2. \A e \in matcher[m].rest :
            /\ \A s \in stored : s.id = e.id => s.base <= e.base
            /\ \A f \in matcher[m].rest : f.id = e.id => f = e
            /\ e.base \in Nat
      <4>1. matcher[m].rest \subseteq Entry /\ matcher[m].pc = "push"
        BY <1>8 DEF PushRest, TypeOK
      <4> QED BY <4>1, PriceAssumption DEF RestInv, Entry
    <3> QED BY <3>1, <3>2 DEF LineNeverFalls
  <2>8. CancellerInv'
    BY <1>8 DEF PushRest, CancellerInv
  <2> QED BY <2>1, <2>2, <2>3, <2>4, <2>5, <2>6, <2>7, <2>8 DEF QuietInv
<1>9. ASSUME TickInterrupted(m) PROVE QuietInv'
  <2>1. LockInv'
    BY <1>9, ActorAssumption DEF TickInterrupted, IdleMatcher, Working, LockInv, TypeOK
  <2>2. PhaseInv'
    BY <1>9 DEF TickInterrupted, IdleMatcher, PhaseInv
  <2>3. FreshInv'
    BY <1>9 DEF TickInterrupted, IdleMatcher, FreshInv
  <2>4. RestInv'
    BY <1>9, PriceAssumption DEF TickInterrupted, IdleMatcher, RestInv
  <2>5. ExecInv'
    BY <1>9 DEF TickInterrupted, IdleMatcher, ExecInv
  <2>6. NoOrderLost'
    BY <1>9 DEF TickInterrupted, Fault, NoOrderLost, InHand
  <2>7. CancellerInv' /\ LineNeverFalls'
    BY <1>9 DEF TickInterrupted, CancellerInv, LineNeverFalls
  <2> QED BY <2>1, <2>2, <2>3, <2>4, <2>5, <2>6, <2>7 DEF QuietInv
<1> QED BY <1>1, <1>2, <1>3, <1>4, <1>5, <1>6, <1>7, <1>8, <1>9 DEF Tick

\* Without crashes and early expiry, a lock that expires has no holder at work.
LEMMA LockExpiresKeepsQuietInv ==
  ASSUME Inv, QuietInv, Quiet, LockExpires
  PROVE  QuietInv'
<1> USE DEF Inv, QuietInv, Quiet
<1>1. LockInv'
  BY ActorAssumption DEF LockExpires, Fault, Working, LockInv
<1>2. CancellerInv' /\ PhaseInv' /\ FreshInv' /\ RestInv' /\ ExecInv' /\ NoOrderLost'
      /\ LineNeverFalls'
  BY DEF LockExpires, CancellerInv, PhaseInv, FreshInv, RestInv, ExecInv,
        NoOrderLost, LineNeverFalls, Ids, InHand
<1> QED BY <1>1, <1>2 DEF QuietInv

-----------------------------------------------------------------------------
(* The theorems. *)

\* Both invariants hold before anything was ordered.
LEMMA InitEstablishesInvs == Init => Inv /\ QuietInv
<1> SUFFICES ASSUME Init PROVE Inv /\ QuietInv
  OBVIOUS
<1> USE DEF Init
<1>1. TypeOK
  BY FaultAssumption DEF TypeOK, IdleCanceller, IdleMatcher
<1>2. EntryInv /\ TodoInv
  BY DEF EntryInv, TodoInv, IdleCanceller, IdleMatcher
<1>3. CancellerInv /\ LockInv /\ PhaseInv
  BY DEF CancellerInv, LockInv, PhaseInv, Working, IdleCanceller, IdleMatcher
<1>4. FreshInv /\ RestInv /\ ExecInv
  BY DEF FreshInv, RestInv, ExecInv, IdleMatcher
<1>5. NoOrderLost /\ LineNeverFalls
  BY DEF NoOrderLost, LineNeverFalls
<1> QED BY <1>1, <1>2, <1>3, <1>4, <1>5 DEF Inv, QuietInv

\* A stuttering step keeps whatever is said about the variables.
LEMMA StutterKeepsInvs ==
  ASSUME UNCHANGED vars
  PROVE  (Inv => Inv') /\ (QuietInv => QuietInv')
BY DEF vars, Inv, TypeOK, EntryInv, Known, TodoInv, Fires, QuietInv, CancellerInv, LockInv,
    Working, PhaseInv, FreshInv, RestInv, ExecInv, Ids, NoOrderLost, InHand, LineNeverFalls

\* Inv is inductive.
LEMMA NextKeepsInv == Inv /\ [Next]_vars => Inv'
<1> SUFFICES ASSUME Inv, [Next]_vars PROVE Inv'
  OBVIOUS
<1>1. CASE Next
  BY <1>1, CreateKeepsInv, CancelKeepsInv, TickKeepsInv, LockExpiresKeepsInv DEF Next
<1>2. CASE UNCHANGED vars
  BY <1>2, StutterKeepsInvs
<1> QED BY <1>1, <1>2

\* QuietInv is inductive on top of Inv when no fault defeats the lock.
LEMMA NextKeepsQuietInv == Quiet /\ Inv /\ QuietInv /\ [Next]_vars => QuietInv'
<1> SUFFICES ASSUME Quiet, Inv, QuietInv, [Next]_vars PROVE QuietInv'
  OBVIOUS
<1>1. CASE Next
  BY <1>1, CreateKeepsQuietInv, CancelKeepsQuietInv, TickKeepsQuietInv,
      LockExpiresKeepsQuietInv DEF Next
<1>2. CASE UNCHANGED vars
  BY <1>2, StutterKeepsInvs
<1> QED BY <1>1, <1>2

\* Inv holds of every kind of list, whatever the faults.
THEOREM InvHolds == Spec => []Inv
<1>1. Init => Inv
  BY InitEstablishesInvs
<1> QED BY <1>1, NextKeepsInv, PTL DEF Spec

\* Type correctness.
THEOREM TypeCorrect == Spec => []TypeOK
<1>1. Inv => TypeOK
  BY DEF Inv
<1> QED BY <1>1, InvHolds, PTL

\* Only the execution of an order by a tick takes it from Waiting to Proc.
LEMMA StepTriggersByItsLine ==
  ASSUME Inv, [Next]_vars,
         NEW b \in Orders, status[b] = "waiting", status'[b] = "proc"
  PROVE  \E m \in Matchers, s \in stored :
           /\ b \in matcher[m].todo \ matcher'[m].todo
           /\ s.id = b
           /\ Kind = "buy" => matcher[m].price <= anchor[b]
           /\ Kind = "sell" => matcher[m].price >= anchor[b]
           /\ Kind = "trailing" => 100 * matcher[m].price <= s.base * (100 - Percent)
<1> USE DEF Inv
<1>1. PICK m \in Matchers : ExecuteOrder(m, b)
  <2>1. \A o \in Orders : ~Create(o)
    BY DEF Create, CreateOrder, LockForPush, AddOrderToRedis, AddOrderToRedisFails,
        MarkFailed, CreatorCrash, TypeOK
  <2>2. \A o \in Orders : ~Cancel(o)
    BY DEF Cancel, CancelOrder, ReadForCancel, DelForCancel, PushForCancel,
        CancelInterrupted, TypeOK
  <2>3. ~LockExpires /\ ~UNCHANGED vars
    BY DEF LockExpires, vars
  <2>4. PICK m \in Matchers : Tick(m)
    BY <2>1, <2>2, <2>3 DEF Next
  <2>5. PICK o \in Orders : ExecuteOrder(m, o)
    BY <2>4 DEF Tick, TakeTick, LockList, LockTimesOut, NothingFires, SomeFire, DelList,
        PushRest, TickInterrupted
  <2>6. o = b
    BY <2>5 DEF ExecuteOrder, TypeOK
  <2> QED BY <2>5, <2>6
<1>2. b \in matcher[m].todo /\ b \notin matcher'[m].todo
  BY <1>1 DEF ExecuteOrder, TypeOK
<1>3. PICK s \in stored : s.id = b /\ Fires(s, matcher[m].price)
  BY <1>2 DEF TodoInv
<1>4. Kind # "trailing" => s.base = anchor[b]
  BY <1>3 DEF EntryInv, Known
<1> QED BY <1>2, <1>3, <1>4 DEF Fires

\* A tick triggers an order only at a price that crosses the order's own line,
\* for every kind of list and under all faults.
THEOREM TriggeredByItsLineHolds == Spec => TriggeredByItsLine
<1>1. Inv /\ [Next]_vars =>
        [\A o \in Orders : status[o] = "waiting" /\ status'[o] = "proc" =>
           \E m \in Matchers, s \in stored :
             /\ o \in matcher[m].todo \ matcher'[m].todo
             /\ s.id = o
             /\ Kind = "buy" => matcher[m].price <= anchor[o]
             /\ Kind = "sell" => matcher[m].price >= anchor[o]
             /\ Kind = "trailing" => 100 * matcher[m].price <= s.base * (100 - Percent)]_vars
  BY StepTriggersByItsLine
<1> QED BY <1>1, InvHolds, PTL DEF Spec, TriggeredByItsLine

\* QuietInv holds of a list of trailing stops whose lock no fault defeats.
THEOREM QuietInvHolds == ASSUME Quiet PROVE Spec => []QuietInv
<1>1. Init => QuietInv
  BY InitEstablishesInvs
<1>2. Inv /\ QuietInv /\ [Next]_vars => QuietInv'
  BY Quiet, NextKeepsQuietInv
<1> QED BY <1>1, <1>2, InvHolds, PTL DEF Spec

\* No waiting trailing stop is ever lost, as long as no lock expires under its
\* holder, no request is cut off, and the service does not crash.
THEOREM NoOrderLostHolds == ASSUME Quiet PROVE Spec => []NoOrderLost
<1>1. QuietInv => NoOrderLost
  BY DEF QuietInv
<1> QED BY <1>1, QuietInvHolds, PTL

\* Under the same conditions the trigger line of a trailing stop never falls.
THEOREM LineNeverFallsHolds == ASSUME Quiet PROVE Spec => []LineNeverFalls
<1>1. QuietInv => LineNeverFalls
  BY DEF QuietInv
<1> QED BY <1>1, QuietInvHolds, PTL
=============================================================================
