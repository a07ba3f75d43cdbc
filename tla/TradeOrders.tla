---------------------------- MODULE TradeOrders ----------------------------
(***************************************************************************)
(* The rows of trade_order and everything that writes their status: the    *)
(* RPC handlers that create, confirm and cancel orders, the matcher        *)
(* goroutines that execute triggered orders, and the ticker that settles   *)
(* the swaps found on the chain and creates the follow-up sells.           *)
(*                                                                         *)
(* A write through UpdateOrderStatus is a compare-and-swap on the status   *)
(* column; a write through UpdateOrderBySelect is unconditional.  Prices   *)
(* and the Redis trigger lists are abstracted: an order whose entry was    *)
(* pushed may trigger at any time (TriggerList has the lists).  Amounts    *)
(* are abstracted to "the Final* columns are filled".  A tick's RPC budget *)
(* and the order of ids in which it is spent are in the model.             *)
(***************************************************************************)
EXTENDS Naturals, FiniteSets

CONSTANTS
  Orders,       \* ids of trade_order rows
  NoOrder,      \* no row
  Requests,     \* the requests users make
  MaxPlaced,    \* bound: how many orders users place
  Before,       \* pairs of ids, the lower one first; {} leaves their order open
  Confirmers,   \* handlers of ConfirmMarketOrder that can overlap
  Matchers,     \* goroutines of the matcher pool
  Tickers,      \* instances of the ticker
  NoTicker,     \* the ticker lock is free
  MaxFaults,    \* bound: crashes, database errors and Redis errors
  LostReplies,  \* whether Redis may push an entry and its reply get lost
  RpcChecks,    \* RPC calls per tick (3)
  Traces        \* what, but an answer of the RPC, a swap may leave to the ticker

\* CreateMarketOrder takes a trailing stop on buys only and not together with
\* double-out; a limit order may carry double-out; a trailing stop is a sell.
ValidRequests ==
  [kind : {"market"}, side : {"buy"}, attach : {"none", "double", "trailing"}]
    \cup [kind : {"market"}, side : {"sell"}, attach : {"none", "double"}]
    \cup [kind : {"limit"}, side : {"buy", "sell"}, attach : {"none", "double"}]
    \cup [kind : {"trailing"}, side : {"sell"}, attach : {"trailing"}]

ASSUME RequestsAssumption == Requests \subseteq ValidRequests
ASSUME SentinelAssumption == NoOrder \notin Orders /\ NoTicker \notin Tickers
ASSUME BoundAssumption == MaxPlaced \in Nat /\ MaxFaults \in Nat
ASSUME ReplyAssumption == LostReplies \in BOOLEAN
ASSUME TickerAssumption == RpcChecks \in Nat \ {0} /\ Traces \subseteq {"index", "never"}

VARIABLES
  status,       \* status column, "none" while no row has the id
  order,        \* the columns fixed at creation
  parent,       \* history: the buy a follow-up sell was created for
  filled,       \* orders whose Final* columns are persisted
  age,          \* time since created_at: 0, > 2 min, > 15 min, > 24 h
  chain,        \* the order's swap on the chain
  trace,        \* how the ticker can learn of it: "rpc", "index" (from the
                \* indexed trades) or "never"
  client,       \* the browser's side of a market order
  confirm,      \* the order each ConfirmMarketOrder handler has read
  pushing,      \* rows inserted whose Redis push has not returned
  pushed,       \* orders whose entry was pushed on a trigger list
  matcher,      \* what each matcher goroutine is executing
  tick,         \* progress of each ticker instance
  tickLock,     \* holder of dex:ticker:check_onchain_tx:lock
  budget,       \* RPC calls each ticker instance has left in its tick
  retracted,    \* history: orders cancelled while they were waiting
  faults        \* crashes and errors so far

rowVars    == <<status, order, parent, filled, age>>
clientVars == <<client, confirm>>
listVars   == <<pushing, pushed>>
chainVars  == <<chain, trace>>
tickVars   == <<tick, tickLock, budget>>
vars == <<rowVars, chainVars, clientVars, listVars, matcher, tickVars, retracted, faults>>

Status == {"none", "waiting", "proc", "onchain", "fail", "suc", "cancel"}

\* Ages an order goes through, by the thresholds the code compares with:
\* stuckOrderAge, rpcAbandonAfter and scanWindow.
Young == 0
Stuck == 1
Abandoned == 2
OutOfWindow == 3

Unplaced == [kind |-> "market", side |-> "buy", attach |-> "none"]

IdleTick == [pc |-> "idle", batch |-> {}, cur |-> NoOrder]
IdleMatcher == [pc |-> "idle", cur |-> NoOrder]

TypeOK ==
  /\ status \in [Orders -> Status]
  /\ order \in [Orders -> ValidRequests]
  /\ parent \in [Orders -> Orders \cup {NoOrder}]
  /\ filled \subseteq Orders
  /\ age \in [Orders -> Young..OutOfWindow]
  /\ chain \in [Orders -> {"none", "sent", "landed", "reverted", "expired"}]
  /\ client \in [Orders -> {"none", "building", "signing", "sent", "hash", "error", "done"}]
  /\ confirm \in [Confirmers -> Orders \cup {NoOrder}]
  /\ pushing \subseteq Orders
  /\ pushed \subseteq Orders
  /\ matcher \in [Matchers -> [pc : {"idle", "swap", "ok", "err"}, cur : Orders \cup {NoOrder}]]
  /\ tick \in [Tickers -> [pc : {"idle", "scan", "backfill", "attach"},
                           batch : SUBSET Orders, cur : Orders \cup {NoOrder}]]
  /\ tickLock \in Tickers \cup {NoTicker}
  /\ budget \in [Tickers -> 0..RpcChecks]
  /\ trace \in [Orders -> Traces \cup {"rpc"}]
  /\ retracted \subseteq Orders
  /\ faults \in 0..MaxFaults

Init ==
  /\ status = [o \in Orders |-> "none"]
  /\ order = [o \in Orders |-> Unplaced]
  /\ parent = [o \in Orders |-> NoOrder]
  /\ filled = {}
  /\ age = [o \in Orders |-> Young]
  /\ chain = [o \in Orders |-> "none"]
  /\ client = [o \in Orders |-> "none"]
  /\ confirm = [c \in Confirmers |-> NoOrder]
  /\ pushing = {}
  /\ pushed = {}
  /\ matcher = [m \in Matchers |-> IdleMatcher]
  /\ tick = [t \in Tickers |-> IdleTick]
  /\ tickLock = NoTicker
  /\ budget = [t \in Tickers |-> RpcChecks]
  /\ trace = [o \in Orders |-> "rpc"]
  /\ retracted = {}
  /\ faults = 0

-----------------------------------------------------------------------------
(* The model's tables. *)

\* Mutant of UpdateOrderStatus: the WHERE on the old status is forgotten.
UpdateOrderStatusUnguarded(o, old, new) == status' = [status EXCEPT ![o] = new]

\* UpdateOrderStatus: the compare-and-swap, enabled when it affects a row.
UpdateOrderStatus(o, old, new) ==
  /\ status[o] = old
  /\ status' = [status EXCEPT ![o] = new]

\* UpdateOrderBySelect: writes the status whatever it is by now.
UpdateOrderBySelect(o, new) == status' = [status EXCEPT ![o] = new]

\* InsertWithLog: a new row, with the next auto-increment id o.
InsertWithLog(o, r, s) ==
  /\ status[o] = "none"
  /\ \A p \in Orders : <<p, o>> \in Before => status[p] # "none"
  /\ status' = [status EXCEPT ![o] = s]
  /\ order' = [order EXCEPT ![o] = r]

\* One more crash, database error or Redis error.
Fault == faults < MaxFaults /\ faults' = faults + 1

\* A write that the database may refuse.
MayFail(write) == \/ write /\ UNCHANGED faults
                  \/ Fault /\ UNCHANGED status

\* Orders placed by users, and those of them that will have a follow-up.
Placed == {o \in Orders : status[o] # "none" /\ parent[o] = NoOrder}
Attached == {o \in Placed : order[o].side = "buy" /\ order[o].attach # "none"}

\* The bound on orders: the ids left suffice for the follow-ups still to come.
MayPlace(r) ==
  /\ Cardinality(Placed) < MaxPlaced
  /\ Cardinality(Placed) + Cardinality(Attached)
       + (IF r.side = "buy" /\ r.attach # "none" THEN 2 ELSE 1) <= Cardinality(Orders)

-----------------------------------------------------------------------------
(* Market orders: the service builds, the browser signs, sends and reports. *)

CreateMarketOrder(o, r) ==
  /\ MayPlace(r)
  /\ r.kind = "market"
  /\ InsertWithLog(o, r, "proc")
  /\ client' = [client EXCEPT ![o] = "building"]
  /\ UNCHANGED <<parent, filled, age, chainVars, confirm, listVars, matcher, tickVars, retracted, faults>>

\* The unsigned transaction goes back to the browser, the row is not touched.
CreateMarketTx(o) ==
  /\ client[o] = "building"
  /\ client' = [client EXCEPT ![o] = "signing"]
  /\ UNCHANGED <<rowVars, chainVars, confirm, listVars, matcher, tickVars, retracted, faults>>

\* Building fails: updateDbByTxResult marks the row, whatever its status now.
CreateMarketTxFails(o) ==
  /\ client[o] = "building"
  /\ MayFail(UpdateOrderBySelect(o, "fail"))
  /\ client' = [client EXCEPT ![o] = "done"]
  /\ UNCHANGED <<order, parent, filled, age, chainVars, confirm, listVars, matcher, tickVars, retracted>>

\* The wallet signs and sends; the blockhash was fetched before its prompt.
ClientSends(o) ==
  /\ client[o] = "signing"
  /\ age[o] < Abandoned
  /\ chain' = [chain EXCEPT ![o] = "sent"]
  /\ client' = [client EXCEPT ![o] = "sent"]
  /\ UNCHANGED <<rowVars, trace, confirm, listVars, matcher, tickVars, retracted, faults>>

\* confirmTransaction returned: the swap was executed, perhaps reverted.
ClientSeesSwap(o) ==
  /\ client[o] = "sent"
  /\ chain[o] \in {"landed", "reverted"}
  /\ client' = [client EXCEPT ![o] = "hash"]
  /\ UNCHANGED <<rowVars, chainVars, confirm, listVars, matcher, tickVars, retracted, faults>>

\* The user rejects, or sending or confirming throws in the browser.
ClientGivesUp(o) ==
  /\ client[o] \in {"signing", "sent"}
  /\ client' = [client EXCEPT ![o] = "error"]
  /\ UNCHANGED <<rowVars, chainVars, confirm, listVars, matcher, tickVars, retracted, faults>>

\* ConfirmMarketOrder reads the row; anything but Proc needs no work.
ConfirmMarketOrder(c, o) ==
  /\ confirm[c] = NoOrder
  /\ client[o] \in {"hash", "error"}
  /\ status[o] = "proc"
  /\ confirm' = [confirm EXCEPT ![c] = o]
  /\ UNCHANGED <<rowVars, chainVars, client, listVars, matcher, tickVars, retracted, faults>>

\* ... and then writes OnChain and the hash, or Fail, unconditionally.
ConfirmUpdate(c) ==
  /\ confirm[c] # NoOrder
  /\ MayFail(UpdateOrderBySelect(confirm[c],
               IF client[confirm[c]] = "hash" THEN "onchain" ELSE "fail"))
  /\ confirm' = [confirm EXCEPT ![c] = NoOrder]
  /\ UNCHANGED <<order, parent, filled, age, chainVars, client, listVars, matcher, tickVars, retracted>>

-----------------------------------------------------------------------------
(* Limit and trailing-stop orders. *)

\* CreateTradeOrder and CreateTrailingStopOrder insert a Waiting row ...
CreateTradeOrder(o, r) ==
  /\ MayPlace(r)
  /\ r.kind \in {"limit", "trailing"}
  /\ InsertWithLog(o, r, "waiting")
  /\ pushing' = pushing \cup {o}
  /\ UNCHANGED <<parent, filled, age, chainVars, clientVars, pushed, matcher, tickVars, retracted, faults>>

\* ... and addOrderToRedis appends its entry to the trigger list.  If the reply
\* is lost the handler takes the push for failed.
AddOrderToRedis(o) ==
  /\ o \in pushing \ pushed
  /\ pushed' = pushed \cup {o}
  /\ \/ pushing' = pushing \ {o} /\ UNCHANGED faults
     \/ LostReplies /\ Fault /\ UNCHANGED pushing
  /\ UNCHANGED <<rowVars, chainVars, clientVars, matcher, tickVars, retracted>>

\* The push failed, or its reply was lost: the row is marked Fail, whatever it
\* says by now.  Otherwise it is a crash, or an update refused because the
\* request's context is already cancelled.
AddOrderToRedisFails(o) ==
  /\ o \in pushing
  /\ \/ o \notin pushed /\ Fault /\ UpdateOrderBySelect(o, "fail")
     \/ o \in pushed /\ UpdateOrderBySelect(o, "fail") /\ UNCHANGED faults
     \/ Fault /\ UNCHANGED status
  /\ pushing' = pushing \ {o}
  /\ UNCHANGED <<order, parent, filled, age, chainVars, clientVars, pushed, matcher, tickVars, retracted>>

\* CancelOrder: by compare-and-swap from Waiting, or from a Proc older than
\* stuckOrderAge.  The status read before the CAS only chooses between the
\* two.  The list entry is removed too, but a matcher may have read it.
CancelOrder(o) ==
  /\ \/ UpdateOrderStatus(o, "waiting", "cancel") /\ retracted' = retracted \cup {o}
     \/ /\ age[o] >= Stuck
        /\ UpdateOrderStatus(o, "proc", "cancel")
        /\ UNCHANGED retracted
  /\ UNCHANGED <<order, parent, filled, age, chainVars, clientVars, listVars, matcher, tickVars, faults>>

\* A matcher executes a triggered entry: the read of the row only skips
\* terminal orders, the CAS decides.  A limit order stops at Proc.
ExecuteOrder(m, o) ==
  /\ matcher[m].pc = "idle"
  /\ o \in pushed
  /\ UpdateOrderStatus(o, "waiting", "proc")
  /\ matcher' = IF order[o].kind = "trailing"
                  THEN [matcher EXCEPT ![m] = [pc |-> "swap", cur |-> o]]
                  ELSE matcher
  /\ UNCHANGED <<order, parent, filled, age, chainVars, clientVars, listVars, tickVars, retracted, faults>>

\* CreateMarketTx signs with the server key and sends.  An error may reach
\* the service although the node accepted the transaction.
ServerSwap(m) ==
  /\ matcher[m].pc = "swap"
  /\ \/ /\ matcher' = [matcher EXCEPT ![m].pc = "ok"]
        /\ chain' = [chain EXCEPT ![matcher[m].cur] = "sent"]
     \/ /\ matcher' = [matcher EXCEPT ![m].pc = "err"]
        /\ chain' \in {chain, [chain EXCEPT ![matcher[m].cur] = "sent"]}
  /\ UNCHANGED <<rowVars, trace, clientVars, listVars, tickVars, retracted, faults>>

\* updateDbByTxResult writes OnChain and the hash, or Fail, unconditionally.
UpdateDbByTxResult(m) ==
  /\ matcher[m].pc \in {"ok", "err"}
  /\ MayFail(UpdateOrderBySelect(matcher[m].cur,
               IF matcher[m].pc = "ok" THEN "onchain" ELSE "fail"))
  /\ matcher' = [matcher EXCEPT ![m] = IdleMatcher]
  /\ UNCHANGED <<order, parent, filled, age, chainVars, clientVars, listVars, tickVars, retracted>>

MatcherCrash(m) ==
  /\ matcher[m].pc # "idle"
  /\ Fault
  /\ matcher' = [matcher EXCEPT ![m] = IdleMatcher]
  /\ UNCHANGED <<rowVars, chainVars, clientVars, listVars, tickVars, retracted>>

-----------------------------------------------------------------------------
(* The ticker. *)

\* Mutant of InScanWindow: the scan gives up at rpcAbandonAfter.
InAbandonWindow(o) == age[o] < Abandoned

\* The scan's created_at condition, scanWindow.
InScanWindow(o) == age[o] < OutOfWindow

\* One tick: take the lock if it is free, scan the OnChain orders of the last
\* scanWindow, with a full RPC budget.  The limit of scanBatch rows is not
\* reached in the model.
CheckOnChainTx(t) ==
  LET found == {o \in Orders : status[o] = "onchain" /\ InScanWindow(o)} IN
  /\ tick[t].pc = "idle"
  /\ tickLock = NoTicker
  /\ found # {}
  /\ tickLock' = t
  /\ tick' = [tick EXCEPT ![t] = [pc |-> "scan", batch |-> found, cur |-> NoOrder]]
  /\ budget' = [budget EXCEPT ![t] = RpcChecks]
  /\ UNCHANGED <<rowVars, chainVars, clientVars, listVars, matcher, retracted, faults>>

\* The next order of the batch, by id.
Scanning(t, o) ==
  /\ tick[t].pc = "scan"
  /\ o \in tick[t].batch
  /\ \A p \in tick[t].batch : <<p, o>> \notin Before

\* tick[t] once order o of the batch is done.
Done(t, o) == [tick EXCEPT ![t] = [pc |-> "scan", batch |-> tick[t].batch \ {o}, cur |-> NoOrder]]

\* Mutant of SwapExecuted: meta.Err is not looked at.
SwapFound(o) == chain[o] \in {"landed", "reverted"}

\* The swap was executed.
SwapExecuted(o) == chain[o] = "landed"

\* The chain does not have the swap rpcAbandonAfter after the row's creation.
SwapAbsent(o) == chain[o] \in {"sent", "expired"} /\ age[o] >= Abandoned

\* The consumer has indexed the swap: the ticker need not ask the chain.
Indexed(o) == trace[o] = "index"

\* One of the tick's rpcChecksPerTick calls is made.
AskRpc(t) ==
  /\ budget[t] > 0
  /\ budget' = [budget EXCEPT ![t] = @ - 1]

\* confirmOrderViaRPC gets an answer it can use.  It never does if the hash is
\* not a signature or the balance deltas are not those of a swap.
Answers(t, o) == AskRpc(t) /\ trace[o] # "never"

\* finalizeOrder: the swap is on the chain, CAS OnChain -> Suc.
FinalizeOrder(t, o) ==
  /\ Scanning(t, o)
  /\ SwapExecuted(o)
  /\ IF Indexed(o) THEN UNCHANGED budget ELSE Answers(t, o)
  /\ UpdateOrderStatus(o, "onchain", "suc")
  /\ tick' = [tick EXCEPT ![t] = [pc |-> "backfill", batch |-> tick[t].batch, cur |-> o]]
  /\ UNCHANGED <<order, parent, filled, age, chainVars, clientVars, listVars, matcher, tickLock,
                 retracted, faults>>

\* failOrder: the swap was reverted or is absent, CAS OnChain -> Fail.
FailOrder(t, o) ==
  /\ Scanning(t, o)
  /\ chain[o] = "reverted" \/ SwapAbsent(o)
  /\ Answers(t, o)
  /\ UpdateOrderStatus(o, "onchain", "fail")
  /\ tick' = Done(t, o)
  /\ UNCHANGED <<order, parent, filled, age, chainVars, clientVars, listVars, matcher, tickLock,
                 retracted, faults>>

\* Nothing comes of this order in this tick: another instance settled it, the
\* database or the RPC failed, the chain does not have the swap yet, the order
\* is too young to ask, the budget is used up, or, in this tick and all later
\* ones, the answer is of no use.
SkipOrder(t, o) ==
  /\ Scanning(t, o)
  /\ UNCHANGED budget \/ AskRpc(t)
  /\ tick' = Done(t, o)
  /\ UNCHANGED <<rowVars, chainVars, clientVars, listVars, matcher, tickLock, retracted,
                 faults>>

\* The Final* columns are written; an error is only logged.
BackfillFinal(t) ==
  /\ tick[t].pc = "backfill"
  /\ \/ filled' = filled \cup {tick[t].cur} /\ UNCHANGED faults
     \/ Fault /\ UNCHANGED filled
  /\ tick' = [tick EXCEPT ![t].pc = "attach"]
  /\ UNCHANGED <<status, order, parent, age, chainVars, clientVars, listVars, matcher, tickLock, budget, retracted>>

\* Mutant of NeedsFollowUp: the guard on buys is forgotten.
NeedsFollowUpAnySide(o) == order[o].attach # "none"

\* Mutant of NeedsFollowUp: the guard tests for the wrong side.
NeedsFollowUpSells(o) == order[o].side = "sell" /\ order[o].attach # "none"

\* The guards of processDoubleOut and processTrailingAttach: only a buy gets a
\* follow-up, since the follow-up itself carries the same lineage columns.
NeedsFollowUp(o) == order[o].side = "buy" /\ order[o].attach # "none"

\* The fill the follow-up is computed from is usable: the trailing stop takes
\* it from memory, double-out from the reloaded row.
UsableFill(o) == order[o].attach = "double" => o \in filled

\* Mutant of FollowUpOf: the side is copied from the buy.
FollowUpSameSide(o) == [kind |-> IF order[o].attach = "double" THEN "limit" ELSE "trailing",
                        side |-> order[o].side, attach |-> order[o].attach]

\* The limit sell at twice the price, or the trailing stop at the fill price.
FollowUpOf(o) == [kind |-> IF order[o].attach = "double" THEN "limit" ELSE "trailing",
                  side |-> "sell", attach |-> order[o].attach]

CreateFollowUp(t, c) ==
  LET o == tick[t].cur IN
  /\ tick[t].pc = "attach"
  /\ NeedsFollowUp(o)
  /\ IF UsableFill(o) THEN UNCHANGED faults ELSE Fault   \* the reload failed too
  /\ InsertWithLog(c, FollowUpOf(o), "waiting")
  /\ parent' = [parent EXCEPT ![c] = o]
  /\ pushing' = pushing \cup {c}
  /\ tick' = Done(t, o)
  /\ UNCHANGED <<filled, age, chainVars, clientVars, pushed, matcher, tickLock, budget, retracted>>

\* No follow-up to create, or its insert fails: the error is only logged.
NoFollowUp(t) ==
  /\ tick[t].pc = "attach"
  /\ IF NeedsFollowUp(tick[t].cur) /\ UsableFill(tick[t].cur) THEN Fault ELSE UNCHANGED faults
  /\ tick' = Done(t, tick[t].cur)
  /\ UNCHANGED <<rowVars, chainVars, clientVars, listVars, matcher, tickLock, budget, retracted>>

\* The batch is done; releasing a lock that expired meanwhile does nothing.
TickEnds(t) ==
  /\ tick[t].pc = "scan"
  /\ tick[t].batch = {}
  /\ tick' = [tick EXCEPT ![t] = IdleTick]
  /\ tickLock' = IF tickLock = t THEN NoTicker ELSE tickLock
  /\ UNCHANGED <<rowVars, chainVars, clientVars, listVars, matcher, budget, retracted, faults>>

\* lockExpire passes while the holder still works, or after it crashed.
LockExpires ==
  /\ tickLock # NoTicker
  /\ tickLock' = NoTicker
  /\ UNCHANGED <<rowVars, chainVars, clientVars, listVars, matcher, tick, budget, retracted, faults>>

TickerCrash(t) ==
  /\ tick[t].pc # "idle"
  /\ Fault
  /\ tick' = [tick EXCEPT ![t] = IdleTick]
  /\ UNCHANGED <<rowVars, chainVars, clientVars, listVars, matcher, tickLock, budget, retracted>>

-----------------------------------------------------------------------------
(* The chain and the clock. *)

\* A swap is executed, reverted, or its blockhash dies.  The browser sends
\* right after the row is created, so its swap is dead by rpcAbandonAfter.  With
\* it is settled whether the consumer will index the swap, and if it does not,
\* whether the ticker can make use of what the RPC answers: not if the balance
\* deltas of the executed swap are unusable, nor if what the browser reported is
\* not a signature.
ChainDecides(o) ==
  /\ chain[o] = "sent"
  /\ \E outcome \in {"landed", "reverted", "expired"}, s \in Traces \cup {"rpc"} :
       /\ outcome # "expired" /\ order[o].kind = "market" => age[o] < Abandoned
       /\ s = "index" => outcome = "landed"
       /\ s = "never" => outcome = "landed" \/ order[o].kind = "market"
       /\ chain' = [chain EXCEPT ![o] = outcome]
       /\ trace' = [trace EXCEPT ![o] = s]
  /\ UNCHANGED <<rowVars, clientVars, listVars, matcher, tickVars, retracted, faults>>

\* Time passes.  The RPC timeout (30 s) ends CreateMarketOrder before
\* stuckOrderAge.
Ages(o) ==
  /\ status[o] # "none"
  /\ age[o] < OutOfWindow
  /\ client[o] # "building"
  /\ age' = [age EXCEPT ![o] = @ + 1]
  /\ UNCHANGED <<status, order, parent, filled, chainVars, clientVars, listVars, matcher, tickVars, retracted, faults>>

-----------------------------------------------------------------------------
UserStep(o) == \/ \E r \in Requests : CreateMarketOrder(o, r) \/ CreateTradeOrder(o, r)
               \/ ClientSends(o) \/ ClientSeesSwap(o) \/ ClientGivesUp(o)
               \/ CancelOrder(o)

ServiceStep(o) == \/ CreateMarketTx(o) \/ CreateMarketTxFails(o)
                  \/ AddOrderToRedis(o) \/ AddOrderToRedisFails(o)
                  \/ \E c \in Confirmers : ConfirmMarketOrder(c, o)

MatcherStep(m) == \/ \E o \in Orders : ExecuteOrder(m, o)
                  \/ ServerSwap(m) \/ UpdateDbByTxResult(m) \/ MatcherCrash(m)

TickerStep(t) == \/ CheckOnChainTx(t)
                 \/ \E o \in Orders : \/ FinalizeOrder(t, o) \/ FailOrder(t, o)
                                      \/ SkipOrder(t, o) \/ CreateFollowUp(t, o)
                 \/ BackfillFinal(t) \/ NoFollowUp(t) \/ TickEnds(t) \/ TickerCrash(t)

Next == \/ \E o \in Orders : UserStep(o) \/ ServiceStep(o) \/ ChainDecides(o) \/ Ages(o)
        \/ \E c \in Confirmers : ConfirmUpdate(c)
        \/ \E m \in Matchers : MatcherStep(m)
        \/ \E t \in Tickers : TickerStep(t)
        \/ LockExpires

Spec == Init /\ [][Next]_vars

(***************************************************************************)
(* Fairness: goroutines and the ticker are scheduled, the chain decides a  *)
(* swap or its blockhash dies, a lock's TTL runs out and time passes, but  *)
(* an order need not grow out of the scan window.  The database and the    *)
(* RPC do not refuse a tick for ever: an order that tick after tick comes  *)
(* to, with RPC calls left if it needs one and with an answer of use, is   *)
(* settled in one of them (SF).  Nothing is assumed of an order that comes *)
(* when the budget is used up or whose answer is of no use.  Users owe     *)
(* nothing.                                                                *)
(***************************************************************************)
Fairness ==
  /\ \A o \in Orders :
       /\ WF_vars(AddOrderToRedis(o) \/ AddOrderToRedisFails(o))
       /\ WF_vars(ChainDecides(o))
       /\ WF_vars(age[o] < Abandoned /\ Ages(o))
       /\ SF_vars(\E t \in Tickers : FinalizeOrder(t, o) \/ FailOrder(t, o))
  /\ \A c \in Confirmers : WF_vars(ConfirmUpdate(c))
  /\ \A m \in Matchers : WF_vars(ServerSwap(m)) /\ WF_vars(UpdateDbByTxResult(m))
  /\ \A t \in Tickers :
       /\ WF_vars(CheckOnChainTx(t))
       /\ WF_vars(\E o \in Orders : FinalizeOrder(t, o) \/ FailOrder(t, o) \/ SkipOrder(t, o))
       /\ WF_vars(BackfillFinal(t))
       /\ WF_vars(NoFollowUp(t) \/ \E o \in Orders : CreateFollowUp(t, o))
       /\ WF_vars(TickEnds(t))
  /\ WF_vars(LockExpires)

FairSpec == Spec /\ Fairness

-----------------------------------------------------------------------------
(* Properties. *)

\* The browser does not repeat a ConfirmMarketOrder call while one is running.
SequentialClient == \A c, d \in Confirmers : c = d

\* An order is shown as filled only if its swap really was executed: no
\* interleaving of the client's report, a cancellation, the matcher's late
\* write and two ticker instances settles an order whose swap did not land.
FilledMeansLanded ==
  \A o \in Orders : status[o] = "suc" => chain[o] = "landed"

\* A follow-up sell belongs to a buy of a user whose swap was executed, and
\* sells with the kind of follow-up that buy asked for; a follow-up never
\* gets a follow-up of its own, although it carries the same lineage columns.
FollowUpLineage ==
  \A c \in Orders : parent[c] # NoOrder =>
    /\ chain[parent[c]] = "landed"
    /\ parent[parent[c]] = NoOrder
    /\ order[parent[c]].side = "buy" /\ order[c].side = "sell"
    /\ order[parent[c]].attach = order[c].attach
    /\ order[c].kind = IF order[c].attach = "double" THEN "limit" ELSE "trailing"

\* A confirmed buy gets at most one follow-up sell, whichever ticker instances
\* run, crash or lose their lock in between (finalizeOrder's CAS).
OneFollowUp ==
  \A c, d \in Orders : parent[c] # NoOrder /\ parent[c] = parent[d] => c = d

\* Two matcher goroutines never submit a swap for the same order, whatever
\* stale lists they have read (the CAS Waiting -> Proc).
OneExecutor ==
  \A m, n \in Matchers :
    matcher[m].cur # NoOrder /\ matcher[m].cur = matcher[n].cur => m = n

\* Once a user has cancelled a waiting order, no swap is ever submitted for it,
\* even by a matcher that had read its entry before the cancellation.
NoSwapAfterCancel ==
  \A o \in retracted : chain[o] = "none"

\* Every write of the status column moves the order forward, as OrderLifecycle
\* promises, although half of the writers write unconditionally.
Lifecycle == INSTANCE OrderLifecycle
LifecycleSpec == Lifecycle!Spec

\* The swap of o may still be executed.
CanLand(o) ==
  /\ chain[o] = "sent"
  /\ order[o].kind = "market" => age[o] < Abandoned

\* The ticker gives an order up only when its swap can no longer be executed
\* (the comment of rpcAbandonAfter).
FailedOnlyWhenDead ==
  [][\A o \in Orders : status[o] = "onchain" /\ status'[o] = "fail" => ~CanLand(o)]_vars

\* A cancellation that was acknowledged stays (CancelOrder assumes that nothing
\* else will ever move an order it takes out of Proc).
CancelIsFinal ==
  [][\A o \in Orders : status[o] = "cancel" => status'[o] = "cancel"]_vars

\* A buy that was settled gets its follow-up sell (finalizeOrder).
FollowUpCreated ==
  \A o \in Orders :
    (status[o] = "suc" /\ order[o].side = "buy" /\ order[o].attach # "none")
      ~> (\E c \in Orders : parent[c] = o)

\* Orders with lower ids that the ticker scans in vain and for good use up the
\* RPC budget before it comes to o.
Starved(o) ==
  LET hopeless == {p \in Orders : /\ <<p, o>> \in Before
                                 /\ trace[p] = "never"
                                 /\ status[p] = "onchain"
                                 /\ age[p] < OutOfWindow}
  IN ~Indexed(o) /\ Cardinality(hopeless) >= RpcChecks

\* No order stays OnChain for ever while the ticker scans it, whatever other
\* orders share its ticks and however long the chain does not have them
\* (confirmOrder, "would otherwise stay OnChain forever").  Three reasons
\* remain: it has grown older than scanWindow, which counts from its creation;
\* the answer of the RPC is of no use for it; or such orders starve it.
OnChainSettlesInWindow ==
  \A o \in Orders : []<>(\/ status[o] # "onchain"
                         \/ age[o] = OutOfWindow
                         \/ trace[o] = "never"
                         \/ Starved(o))

\* Once the chain has an answer an order is settled: "terminal either way when
\* the chain has an answer" (the comment of confirmOrderViaRPC).
TerminalEitherWay ==
  \A o \in Orders :
    (status[o] = "onchain" /\ chain[o] # "sent") ~> status[o] # "onchain"

\* A limit order that was triggered is signed with the server's key and
\* submitted (the comment on createAndSendTx's ServerSign); it stays in Proc
\* only until then, unless its user cancels it.
TriggeredLimitSwaps ==
  \A o \in Orders :
    (status[o] = "proc" /\ order[o].kind = "limit") ~> (chain[o] # "none" \/ status[o] # "proc")
=============================================================================
