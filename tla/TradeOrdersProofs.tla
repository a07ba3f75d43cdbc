------------------------- MODULE TradeOrdersProofs -------------------------
(***************************************************************************)
(* Proofs about TradeOrders, for any number of orders, confirmers,         *)
(* matchers and tickers and any number of faults.                          *)
(*                                                                         *)
(* Inv is inductive without any assumption on the client and gives type    *)
(* correctness, FilledMeansLanded, FollowUpLineage, OneExecutor and        *)
(* NoSwapAfterCancel.  SeqInv adds what holds when ConfirmMarketOrder      *)
(* calls do not overlap, and gives OneFollowUp; if moreover no reply of    *)
(* Redis is lost, it gives the refinement of OrderLifecycle.               *)
(***************************************************************************)
EXTENDS TradeOrders, TLAPS

\* A row that does not exist yet has no history at all.
NoRowInv ==
  \A o \in Orders : status[o] = "none" =>
    /\ parent[o] = NoOrder
    /\ o \notin pushing \cup pushed \cup retracted
    /\ \A c \in Orders : parent[c] # o
    /\ \A t \in Tickers : tick[t].pc \in {"backfill", "attach"} => tick[t].cur # o

\* Before it is triggered, nobody works on an order and it has no swap.
WaitingInv ==
  \A o \in Orders : status[o] \in {"none", "waiting"} =>
    /\ chain[o] = "none"
    /\ client[o] = "none"
    /\ \A m \in Matchers : matcher[m].cur # o

\* The browser works on market orders only, and sends their swap once.
ClientInv ==
  \A o \in Orders :
    /\ client[o] # "none" => order[o].kind = "market"
    /\ client[o] \in {"building", "signing"} => chain[o] = "none"

\* A handler of ConfirmMarketOrder reports what the browser knows for good.
ConfirmInv ==
  \A c \in Confirmers : confirm[c] # NoOrder => client[confirm[c]] \in {"hash", "error"}

\* A busy matcher executes a trailing stop of its own, and sends it once.
MatcherInv ==
  \A m \in Matchers :
    /\ matcher[m].pc = "idle" <=> matcher[m].cur = NoOrder
    /\ matcher[m].pc # "idle" => order[matcher[m].cur].kind = "trailing"
    /\ matcher[m].pc = "swap" => chain[matcher[m].cur] = "none"

\* A ticker backfills and attaches only to an order whose swap was executed.
TickInv ==
  \A t \in Tickers : tick[t].pc \in {"backfill", "attach"} =>
    tick[t].cur \in Orders /\ chain[tick[t].cur] = "landed"

\* An order cancelled while waiting has nobody left who could revive it.
RetractedInv ==
  \A o \in retracted :
    /\ status[o] \in {"cancel", "fail"}
    /\ chain[o] = "none"
    /\ client[o] = "none"
    /\ \A m \in Matchers : matcher[m].cur # o

\* A limit order never has a swap: it stops at Proc.
LimitInv ==
  \A o \in Orders : order[o].kind = "limit" => chain[o] = "none"

Inv ==
  /\ TypeOK
  /\ NoRowInv
  /\ WaitingInv
  /\ ClientInv
  /\ ConfirmInv
  /\ MatcherInv
  /\ TickInv
  /\ LimitInv
  /\ RetractedInv
  /\ FilledMeansLanded
  /\ FollowUpLineage
  /\ OneExecutor

\* The order that ticker t has settled and whose follow-up it has not created.
Pending(t, o) == tick[t].pc \in {"backfill", "attach"} /\ tick[t].cur = o

\* While its transaction is being built, an order is where it was created, or
\* cancelled; likewise while a confirmation is under way, and while a swap or a
\* push is, unless the reply to a push was lost and the row marked Fail.
BuildingInv ==
  \A o \in Orders : client[o] = "building" => status[o] \in {"proc", "cancel"}

ConfirmingInv ==
  \A c \in Confirmers : confirm[c] # NoOrder => status[confirm[c]] \in {"proc", "cancel"}

ExecutingInv == ~LostReplies =>
  \A m \in Matchers : matcher[m].cur # NoOrder => status[matcher[m].cur] \in {"proc", "cancel"}

PushingInv == ~LostReplies =>
  \A o \in pushing : status[o] \in {"waiting", "cancel"}

\* An order is pushed once, and only pushed orders are executed by a matcher.
ListInv ==
  /\ ~LostReplies => pushing \cap pushed = {}
  /\ \A o \in pushing \cup pushed : order[o].kind # "market"
  /\ \A m \in Matchers : matcher[m].cur # NoOrder => matcher[m].cur \in pushed

\* Only market orders have follow-ups.  One exists or is about to be created
\* for settled orders only, and at most one ticker is about to create it.
PendingInv ==
  /\ \A c \in Orders : parent[c] # NoOrder => order[parent[c]].kind = "market"
  /\ \A o \in Orders : order[o].kind = "market" =>
       /\ \A c \in Orders : parent[c] = o => status[o] = "suc"
       /\ \A t \in Tickers : Pending(t, o) =>
            /\ status[o] = "suc"
            /\ \A c \in Orders : parent[c] # o
            /\ \A s \in Tickers : Pending(s, o) => s = t

SeqInv ==
  /\ BuildingInv
  /\ ConfirmingInv
  /\ ExecutingInv
  /\ PushingInv
  /\ ListInv
  /\ PendingInv
  /\ OneFollowUp

-----------------------------------------------------------------------------
(* Every step keeps Inv: one step per action, one leaf per part it disturbs. *)

\* What users and their browsers do.
LEMMA UserStepKeepsInv ==
  ASSUME Inv, NEW o \in Orders, UserStep(o)
  PROVE  Inv'
<1> USE DEF Inv, rowVars, chainVars, clientVars, listVars, tickVars
<1>1. ASSUME NEW r \in Requests, CreateMarketOrder(o, r) PROVE Inv'
  <2>1. TypeOK'
    BY <1>1, RequestsAssumption DEF CreateMarketOrder, InsertWithLog, TypeOK, Status,
        ValidRequests
  <2>2. NoRowInv'
    BY <1>1, SentinelAssumption DEF CreateMarketOrder, InsertWithLog, NoRowInv
  <2>3. WaitingInv'
    BY <1>1 DEF CreateMarketOrder, InsertWithLog, WaitingInv, TypeOK
  <2>4. ClientInv'
    BY <1>1 DEF CreateMarketOrder, InsertWithLog, ClientInv, TypeOK, WaitingInv
  <2>5. ConfirmInv'
    BY <1>1, SentinelAssumption DEF CreateMarketOrder, InsertWithLog, ConfirmInv,
        TypeOK, WaitingInv
  <2>6. MatcherInv'
    BY <1>1, SentinelAssumption DEF CreateMarketOrder, InsertWithLog, MatcherInv,
        TypeOK, WaitingInv
  <2>7. RetractedInv'
    BY <1>1 DEF CreateMarketOrder, InsertWithLog, RetractedInv
  <2>8. FilledMeansLanded'
    BY <1>1 DEF CreateMarketOrder, InsertWithLog, FilledMeansLanded
  <2>9. FollowUpLineage'
    BY <1>1, SentinelAssumption DEF CreateMarketOrder, InsertWithLog, FollowUpLineage,
        TypeOK, NoRowInv
  <2>10. TickInv' /\ OneExecutor'
    BY <1>1 DEF CreateMarketOrder, TickInv, OneExecutor
  <2>11. LimitInv'
    BY <1>1 DEF CreateMarketOrder, InsertWithLog, LimitInv, TypeOK, WaitingInv
  <2> QED BY <2>1, <2>2, <2>3, <2>4, <2>5, <2>6, <2>7, <2>8, <2>9, <2>10, <2>11 DEF Inv
<1>2. ASSUME NEW r \in Requests, CreateTradeOrder(o, r) PROVE Inv'
  <2>1. TypeOK'
    BY <1>2, RequestsAssumption DEF CreateTradeOrder, InsertWithLog, TypeOK, Status,
        ValidRequests
  <2>2. NoRowInv'
    BY <1>2, SentinelAssumption DEF CreateTradeOrder, InsertWithLog, NoRowInv, TypeOK
  <2>3. WaitingInv'
    BY <1>2 DEF CreateTradeOrder, InsertWithLog, WaitingInv
  <2>4. ClientInv'
    BY <1>2 DEF CreateTradeOrder, InsertWithLog, ClientInv, TypeOK, WaitingInv
  <2>5. MatcherInv'
    BY <1>2, SentinelAssumption DEF CreateTradeOrder, InsertWithLog, MatcherInv, TypeOK,
        WaitingInv
  <2>6. RetractedInv'
    BY <1>2 DEF CreateTradeOrder, InsertWithLog, RetractedInv
  <2>7. FilledMeansLanded'
    BY <1>2 DEF CreateTradeOrder, InsertWithLog, FilledMeansLanded
  <2>8. FollowUpLineage'
    BY <1>2, SentinelAssumption DEF CreateTradeOrder, InsertWithLog, FollowUpLineage,
        TypeOK, NoRowInv
  <2>9. ConfirmInv' /\ TickInv' /\ OneExecutor'
    BY <1>2 DEF CreateTradeOrder, ConfirmInv, TickInv, OneExecutor
  <2>10. LimitInv'
    BY <1>2 DEF CreateTradeOrder, InsertWithLog, LimitInv, TypeOK, WaitingInv
  <2> QED BY <2>1, <2>2, <2>3, <2>4, <2>5, <2>6, <2>7, <2>8, <2>9, <2>10 DEF Inv
<1>3. ASSUME ClientSends(o) PROVE Inv'
  <2>1. TypeOK'
    BY <1>3 DEF ClientSends, TypeOK
  <2>2. WaitingInv'
    BY <1>3 DEF ClientSends, WaitingInv
  <2>3. ClientInv'
    BY <1>3 DEF ClientSends, ClientInv, TypeOK
  <2>4. ConfirmInv'
    BY <1>3, SentinelAssumption DEF ClientSends, ConfirmInv
  <2>5. MatcherInv'
    BY <1>3, SentinelAssumption DEF ClientSends, MatcherInv, TypeOK, ClientInv
  <2>6. TickInv'
    BY <1>3 DEF ClientSends, TickInv, TypeOK, ClientInv
  <2>7. RetractedInv'
    BY <1>3 DEF ClientSends, RetractedInv
  <2>8. FilledMeansLanded'
    BY <1>3 DEF ClientSends, FilledMeansLanded, TypeOK, ClientInv
  <2>9. FollowUpLineage'
    BY <1>3, SentinelAssumption DEF ClientSends, FollowUpLineage, TypeOK, ClientInv
  <2>10. NoRowInv' /\ OneExecutor'
    BY <1>3 DEF ClientSends, NoRowInv, OneExecutor
  <2>11. LimitInv'
    BY <1>3 DEF ClientSends, LimitInv, TypeOK, ClientInv
  <2> QED BY <2>1, <2>2, <2>3, <2>4, <2>5, <2>6, <2>7, <2>8, <2>9, <2>10, <2>11 DEF Inv
<1>4. ASSUME ClientSeesSwap(o) PROVE Inv'
  <2>1. TypeOK'
    BY <1>4 DEF ClientSeesSwap, TypeOK
  <2>2. WaitingInv'
    BY <1>4 DEF ClientSeesSwap, WaitingInv
  <2>3. ClientInv'
    BY <1>4 DEF ClientSeesSwap, ClientInv
  <2>4. ConfirmInv'
    BY <1>4, SentinelAssumption DEF ClientSeesSwap, ConfirmInv
  <2>5. RetractedInv'
    BY <1>4 DEF ClientSeesSwap, RetractedInv
  <2>6. NoRowInv' /\ MatcherInv' /\ TickInv' /\ FilledMeansLanded' /\ FollowUpLineage'
      /\ OneExecutor' /\ LimitInv'
    BY <1>4 DEF ClientSeesSwap, NoRowInv, MatcherInv, TickInv, FilledMeansLanded,
        FollowUpLineage, OneExecutor, LimitInv
  <2> QED BY <2>1, <2>2, <2>3, <2>4, <2>5, <2>6 DEF Inv
<1>5. ASSUME ClientGivesUp(o) PROVE Inv'
  <2>1. TypeOK'
    BY <1>5 DEF ClientGivesUp, TypeOK
  <2>2. WaitingInv'
    BY <1>5 DEF ClientGivesUp, WaitingInv
  <2>3. ClientInv'
    BY <1>5 DEF ClientGivesUp, ClientInv
  <2>4. ConfirmInv'
    BY <1>5, SentinelAssumption DEF ClientGivesUp, ConfirmInv
  <2>5. RetractedInv'
    BY <1>5 DEF ClientGivesUp, RetractedInv
  <2>6. NoRowInv' /\ MatcherInv' /\ TickInv' /\ FilledMeansLanded' /\ FollowUpLineage'
      /\ OneExecutor' /\ LimitInv'
    BY <1>5 DEF ClientGivesUp, NoRowInv, MatcherInv, TickInv, FilledMeansLanded,
        FollowUpLineage, OneExecutor, LimitInv
  <2> QED BY <2>1, <2>2, <2>3, <2>4, <2>5, <2>6 DEF Inv
<1>6. ASSUME CancelOrder(o) PROVE Inv'
  <2>1. TypeOK'
    BY <1>6, ZenonT(60) DEF CancelOrder, UpdateOrderStatus, TypeOK, Status
  <2>2. NoRowInv'
    BY <1>6, SentinelAssumption DEF CancelOrder, UpdateOrderStatus, NoRowInv, TypeOK
  <2>3. WaitingInv'
    BY <1>6 DEF CancelOrder, UpdateOrderStatus, WaitingInv, TypeOK
  <2>4. RetractedInv'
    BY <1>6 DEF CancelOrder, UpdateOrderStatus, RetractedInv, TypeOK, WaitingInv
  <2>5. FilledMeansLanded'
    BY <1>6 DEF CancelOrder, UpdateOrderStatus, FilledMeansLanded, TypeOK
  <2>6. ClientInv' /\ ConfirmInv' /\ MatcherInv' /\ TickInv' /\ FollowUpLineage' /\
      OneExecutor' /\ LimitInv'
    BY <1>6 DEF CancelOrder, ClientInv, ConfirmInv, MatcherInv, TickInv,
        FollowUpLineage, OneExecutor, LimitInv
  <2> QED BY <2>1, <2>2, <2>3, <2>4, <2>5, <2>6 DEF Inv
<1> QED BY <1>1, <1>2, <1>3, <1>4, <1>5, <1>6 DEF UserStep

\* What the request handlers do.
LEMMA ServiceStepKeepsInv ==
  ASSUME Inv, NEW o \in Orders, ServiceStep(o)
  PROVE  Inv'
<1> USE DEF Inv, rowVars, chainVars, clientVars, listVars, tickVars
<1>1. ASSUME CreateMarketTx(o) PROVE Inv'
  <2>1. TypeOK'
    BY <1>1 DEF CreateMarketTx, TypeOK
  <2>2. WaitingInv'
    BY <1>1 DEF CreateMarketTx, WaitingInv
  <2>3. ClientInv'
    BY <1>1 DEF CreateMarketTx, ClientInv
  <2>4. ConfirmInv'
    BY <1>1, SentinelAssumption DEF CreateMarketTx, ConfirmInv
  <2>5. RetractedInv'
    BY <1>1 DEF CreateMarketTx, RetractedInv
  <2>6. NoRowInv' /\ MatcherInv' /\ TickInv' /\ FilledMeansLanded' /\ FollowUpLineage'
      /\ OneExecutor' /\ LimitInv'
    BY <1>1 DEF CreateMarketTx, NoRowInv, MatcherInv, TickInv, FilledMeansLanded,
        FollowUpLineage, OneExecutor, LimitInv
  <2> QED BY <2>1, <2>2, <2>3, <2>4, <2>5, <2>6 DEF Inv
<1>2. ASSUME CreateMarketTxFails(o) PROVE Inv'
  <2>1. TypeOK'
    BY <1>2, BoundAssumption DEF CreateMarketTxFails, MayFail, UpdateOrderBySelect,
        Fault, TypeOK, Status
  <2>2. NoRowInv'
    BY <1>2, SentinelAssumption DEF CreateMarketTxFails, MayFail, UpdateOrderBySelect,
        Fault, NoRowInv, TypeOK
  <2>3. WaitingInv'
    BY <1>2 DEF CreateMarketTxFails, MayFail, UpdateOrderBySelect, Fault, WaitingInv,
        TypeOK
  <2>4. ClientInv'
    BY <1>2 DEF CreateMarketTxFails, MayFail, UpdateOrderBySelect, Fault, ClientInv
  <2>5. ConfirmInv'
    BY <1>2, SentinelAssumption DEF CreateMarketTxFails, MayFail, UpdateOrderBySelect,
        Fault, ConfirmInv
  <2>6. RetractedInv'
    BY <1>2 DEF CreateMarketTxFails, MayFail, UpdateOrderBySelect, Fault, RetractedInv,
        TypeOK
  <2>7. FilledMeansLanded'
    BY <1>2 DEF CreateMarketTxFails, MayFail, UpdateOrderBySelect, Fault,
        FilledMeansLanded, TypeOK
  <2>8. MatcherInv' /\ TickInv' /\ FollowUpLineage' /\ OneExecutor' /\ LimitInv'
    BY <1>2 DEF CreateMarketTxFails, MatcherInv, TickInv, FollowUpLineage, OneExecutor,
        LimitInv
  <2> QED BY <2>1, <2>2, <2>3, <2>4, <2>5, <2>6, <2>7, <2>8 DEF Inv
<1>3. ASSUME AddOrderToRedis(o) PROVE Inv'
  <2>1. TypeOK'
    BY <1>3, BoundAssumption DEF AddOrderToRedis, Fault, TypeOK
  <2>2. NoRowInv'
    BY <1>3, SentinelAssumption DEF AddOrderToRedis, NoRowInv
  <2>3. WaitingInv' /\ ClientInv' /\ ConfirmInv' /\ MatcherInv' /\ TickInv' /\
      RetractedInv' /\ FilledMeansLanded' /\ FollowUpLineage' /\ OneExecutor' /\
      LimitInv'
    BY <1>3 DEF AddOrderToRedis, WaitingInv, ClientInv, ConfirmInv, MatcherInv, TickInv,
        RetractedInv, FilledMeansLanded, FollowUpLineage, OneExecutor, LimitInv
  <2> QED BY <2>1, <2>2, <2>3 DEF Inv
<1>4. ASSUME AddOrderToRedisFails(o) PROVE Inv'
  <2>1. TypeOK'
    BY <1>4, BoundAssumption DEF AddOrderToRedisFails, Fault, UpdateOrderBySelect,
        TypeOK, Status
  <2>2. NoRowInv'
    BY <1>4, SentinelAssumption DEF AddOrderToRedisFails, Fault, UpdateOrderBySelect,
        NoRowInv, TypeOK
  <2>3. WaitingInv'
    BY <1>4 DEF AddOrderToRedisFails, Fault, UpdateOrderBySelect, WaitingInv, TypeOK
  <2>4. RetractedInv'
    BY <1>4 DEF AddOrderToRedisFails, Fault, UpdateOrderBySelect, RetractedInv, TypeOK
  <2>5. FilledMeansLanded'
    BY <1>4 DEF AddOrderToRedisFails, Fault, UpdateOrderBySelect, FilledMeansLanded,
        TypeOK
  <2>6. ClientInv' /\ ConfirmInv' /\ MatcherInv' /\ TickInv' /\ FollowUpLineage' /\
      OneExecutor' /\ LimitInv'
    BY <1>4 DEF AddOrderToRedisFails, ClientInv, ConfirmInv, MatcherInv, TickInv,
        FollowUpLineage, OneExecutor, LimitInv
  <2> QED BY <2>1, <2>2, <2>3, <2>4, <2>5, <2>6 DEF Inv
<1>5. ASSUME NEW c \in Confirmers, ConfirmMarketOrder(c, o) PROVE Inv'
  <2>1. TypeOK'
    BY <1>5 DEF ConfirmMarketOrder, TypeOK
  <2>2. ConfirmInv'
    BY <1>5, SentinelAssumption DEF ConfirmMarketOrder, ConfirmInv
  <2>3. NoRowInv' /\ WaitingInv' /\ ClientInv' /\ MatcherInv' /\ TickInv' /\
      RetractedInv' /\ FilledMeansLanded' /\ FollowUpLineage' /\ OneExecutor' /\
      LimitInv'
    BY <1>5 DEF ConfirmMarketOrder, NoRowInv, WaitingInv, ClientInv, MatcherInv,
        TickInv, RetractedInv, FilledMeansLanded, FollowUpLineage, OneExecutor, LimitInv
  <2> QED BY <2>1, <2>2, <2>3 DEF Inv
<1> QED BY <1>1, <1>2, <1>3, <1>4, <1>5 DEF ServiceStep

\* What the matcher goroutines do.
LEMMA MatcherStepKeepsInv ==
  ASSUME Inv, NEW m \in Matchers, MatcherStep(m)
  PROVE  Inv'
<1> USE DEF Inv, rowVars, chainVars, clientVars, listVars, tickVars
<1>1. ASSUME NEW o \in Orders, ExecuteOrder(m, o) PROVE Inv'
  <2>1. TypeOK'
    BY <1>1 DEF ExecuteOrder, UpdateOrderStatus, TypeOK, Status
  <2>2. NoRowInv'
    BY <1>1, SentinelAssumption DEF ExecuteOrder, UpdateOrderStatus, NoRowInv
  <2>3. WaitingInv'
    BY <1>1 DEF ExecuteOrder, UpdateOrderStatus, WaitingInv, TypeOK
  <2>4. MatcherInv'
    BY <1>1, SentinelAssumption DEF ExecuteOrder, UpdateOrderStatus, MatcherInv, TypeOK,
        WaitingInv
  <2>5. RetractedInv'
    BY <1>1 DEF ExecuteOrder, UpdateOrderStatus, RetractedInv
  <2>6. FilledMeansLanded'
    BY <1>1 DEF ExecuteOrder, UpdateOrderStatus, FilledMeansLanded
  <2>7. OneExecutor'
    BY <1>1, SentinelAssumption DEF ExecuteOrder, UpdateOrderStatus, OneExecutor,
        TypeOK, WaitingInv
  <2>8. ClientInv' /\ ConfirmInv' /\ TickInv' /\ FollowUpLineage' /\ LimitInv'
    BY <1>1 DEF ExecuteOrder, ClientInv, ConfirmInv, TickInv, FollowUpLineage, LimitInv
  <2> QED BY <2>1, <2>2, <2>3, <2>4, <2>5, <2>6, <2>7, <2>8 DEF Inv
<1>2. ASSUME ServerSwap(m) PROVE Inv'
  <2>a. /\ chain' = chain \/ chain' = [chain EXCEPT ![matcher[m].cur] = "sent"]
        /\ status' = status /\ client' = client /\ retracted' = retracted
    BY <1>2 DEF ServerSwap
  <2>b. \/ matcher' = [matcher EXCEPT ![m].pc = "ok"]
        \/ matcher' = [matcher EXCEPT ![m].pc = "err"]
    BY <1>2 DEF ServerSwap
  <2>m. matcher \in [Matchers -> [pc : {"idle", "swap", "ok", "err"},
                                  cur : Orders \cup {NoOrder}]]
    BY DEF TypeOK
  <2>c. \A n \in Matchers : matcher'[n].cur = matcher[n].cur
    BY <2>b, <2>m
  <2>1. TypeOK'
    <3>1. chain' \in [Orders -> {"none", "sent", "landed", "reverted", "expired"}]
      BY <1>2 DEF ServerSwap, TypeOK
    <3>2. matcher' = [matcher EXCEPT ![m].pc = matcher'[m].pc] /\ matcher'[m].pc \in {"ok", "err"}
      BY <1>2 DEF ServerSwap, TypeOK
    <3>3. matcher' \in [Matchers -> [pc : {"idle", "swap", "ok", "err"},
                                      cur : Orders \cup {NoOrder}]]
      BY <3>2 DEF TypeOK
    <3>4. UNCHANGED <<status, order, parent, filled, age, trace, client, confirm, pushing,
                      pushed, tick, tickLock, budget, retracted, faults>>
      BY <1>2 DEF ServerSwap
    <3> QED BY <3>1, <3>3, <3>4 DEF TypeOK
  <2>2. WaitingInv'
    BY <1>2, <2>a, <2>c DEF ServerSwap, WaitingInv, TypeOK
  <2>3. ClientInv'
    BY <1>2 DEF ServerSwap, ClientInv, TypeOK, MatcherInv
  <2>4. MatcherInv'
    BY <1>2, SentinelAssumption, SMTT(30) DEF ServerSwap, MatcherInv, TypeOK, OneExecutor
  <2>5. TickInv'
    BY <1>2 DEF ServerSwap, TickInv, TypeOK, MatcherInv
  <2>6. RetractedInv'
    BY <1>2, <2>a, <2>c DEF ServerSwap, RetractedInv, TypeOK
  <2>7. FilledMeansLanded'
    BY <1>2 DEF ServerSwap, FilledMeansLanded, TypeOK, MatcherInv
  <2>8. FollowUpLineage'
    BY <1>2, SentinelAssumption DEF ServerSwap, FollowUpLineage, TypeOK, MatcherInv
  <2>9. OneExecutor'
    BY <1>2, SentinelAssumption DEF ServerSwap, OneExecutor, TypeOK
  <2>10. NoRowInv' /\ ConfirmInv'
    BY <1>2 DEF ServerSwap, NoRowInv, ConfirmInv
  <2>11. LimitInv'
    BY <1>2 DEF ServerSwap, LimitInv, TypeOK, MatcherInv
  <2> QED BY <2>1, <2>2, <2>3, <2>4, <2>5, <2>6, <2>7, <2>8, <2>9, <2>10, <2>11 DEF Inv
<1>3. ASSUME UpdateDbByTxResult(m) PROVE Inv'
  <2>1. TypeOK'
    BY <1>3, BoundAssumption DEF UpdateDbByTxResult, MayFail, UpdateOrderBySelect,
        IdleMatcher, Fault, TypeOK, Status
  <2>2. NoRowInv'
    BY <1>3, SentinelAssumption DEF UpdateDbByTxResult, MayFail, UpdateOrderBySelect,
        IdleMatcher, Fault, NoRowInv, TypeOK
  <2>3. WaitingInv'
    BY <1>3, SentinelAssumption DEF UpdateDbByTxResult, MayFail, UpdateOrderBySelect,
        IdleMatcher, Fault, WaitingInv, TypeOK
  <2>4. MatcherInv'
    BY <1>3, SentinelAssumption DEF UpdateDbByTxResult, MayFail, UpdateOrderBySelect,
        IdleMatcher, Fault, MatcherInv
  <2>5. RetractedInv'
    BY <1>3, SentinelAssumption DEF UpdateDbByTxResult, MayFail, UpdateOrderBySelect,
        IdleMatcher, Fault, RetractedInv, TypeOK
  <2>6. FilledMeansLanded'
    BY <1>3 DEF UpdateDbByTxResult, MayFail, UpdateOrderBySelect, IdleMatcher, Fault,
        FilledMeansLanded, TypeOK
  <2>7. OneExecutor'
    BY <1>3, SentinelAssumption DEF UpdateDbByTxResult, MayFail, UpdateOrderBySelect,
        IdleMatcher, Fault, OneExecutor
  <2>8. ClientInv' /\ ConfirmInv' /\ TickInv' /\ FollowUpLineage' /\ LimitInv'
    BY <1>3 DEF UpdateDbByTxResult, ClientInv, ConfirmInv, TickInv, FollowUpLineage,
        LimitInv
  <2> QED BY <2>1, <2>2, <2>3, <2>4, <2>5, <2>6, <2>7, <2>8 DEF Inv
<1>4. ASSUME MatcherCrash(m) PROVE Inv'
  <2>1. TypeOK'
    BY <1>4, BoundAssumption DEF MatcherCrash, Fault, IdleMatcher, TypeOK
  <2>2. WaitingInv'
    BY <1>4, SentinelAssumption DEF MatcherCrash, Fault, IdleMatcher, WaitingInv
  <2>3. MatcherInv'
    BY <1>4, SentinelAssumption DEF MatcherCrash, Fault, IdleMatcher, MatcherInv
  <2>4. RetractedInv'
    BY <1>4, SentinelAssumption DEF MatcherCrash, Fault, IdleMatcher, RetractedInv,
        TypeOK
  <2>5. OneExecutor'
    BY <1>4, SentinelAssumption DEF MatcherCrash, Fault, IdleMatcher, OneExecutor
  <2>6. NoRowInv' /\ ClientInv' /\ ConfirmInv' /\ TickInv' /\ FilledMeansLanded' /\
      FollowUpLineage' /\ LimitInv'
    BY <1>4 DEF MatcherCrash, NoRowInv, ClientInv, ConfirmInv, TickInv,
        FilledMeansLanded, FollowUpLineage, LimitInv
  <2> QED BY <2>1, <2>2, <2>3, <2>4, <2>5, <2>6 DEF Inv
<1> QED BY <1>1, <1>2, <1>3, <1>4 DEF MatcherStep

\* What the ticker does.
LEMMA TickerStepKeepsInv ==
  ASSUME Inv, NEW t \in Tickers, TickerStep(t)
  PROVE  Inv'
<1> USE DEF Inv, rowVars, chainVars, clientVars, listVars, tickVars
<1>1. ASSUME CheckOnChainTx(t) PROVE Inv'
  <2>1. TypeOK'
    BY <1>1, TickerAssumption DEF CheckOnChainTx, TypeOK
  <2>2. NoRowInv'
    BY <1>1, SentinelAssumption DEF CheckOnChainTx, NoRowInv
  <2>3. TickInv'
    BY <1>1 DEF CheckOnChainTx, TickInv
  <2>4. WaitingInv' /\ ClientInv' /\ ConfirmInv' /\ MatcherInv' /\ RetractedInv' /\
      FilledMeansLanded' /\ FollowUpLineage' /\ OneExecutor' /\ LimitInv'
    BY <1>1 DEF CheckOnChainTx, WaitingInv, ClientInv, ConfirmInv, MatcherInv,
        RetractedInv, FilledMeansLanded, FollowUpLineage, OneExecutor, LimitInv
  <2> QED BY <2>1, <2>2, <2>3, <2>4 DEF Inv
<1>2. ASSUME NEW o \in Orders, FinalizeOrder(t, o) PROVE Inv'
  <2>1. TypeOK'
    <3>1. budget' = budget \/ (budget[t] > 0 /\ budget' = [budget EXCEPT ![t] = @ - 1])
      BY <1>2 DEF FinalizeOrder, Answers, AskRpc
    <3>2. budget' \in [Tickers -> 0..RpcChecks]
      BY <3>1, TickerAssumption DEF TypeOK
    <3>3. status' \in [Orders -> Status]
      BY <1>2 DEF FinalizeOrder, UpdateOrderStatus, TypeOK, Status
    <3>4. tick' \in [Tickers -> [pc : {"idle", "scan", "backfill", "attach"},
                                batch : SUBSET Orders, cur : Orders \cup {NoOrder}]]
      BY <1>2 DEF FinalizeOrder, TypeOK
    <3>5. UNCHANGED <<order, parent, filled, age, chain, trace, client, confirm, pushing, pushed,
                      matcher, tickLock, retracted, faults>>
      BY <1>2 DEF FinalizeOrder
    <3> QED BY <3>2, <3>3, <3>4, <3>5 DEF TypeOK
  <2>2. NoRowInv'
    BY <1>2, SentinelAssumption DEF FinalizeOrder, UpdateOrderStatus, NoRowInv, TypeOK
  <2>3. WaitingInv'
    BY <1>2 DEF FinalizeOrder, UpdateOrderStatus, WaitingInv
  <2>4. TickInv'
    BY <1>2 DEF FinalizeOrder, UpdateOrderStatus, SwapExecuted, TickInv, TypeOK
  <2>5. RetractedInv'
    BY <1>2 DEF FinalizeOrder, UpdateOrderStatus, RetractedInv
  <2>6. FilledMeansLanded'
    BY <1>2 DEF FinalizeOrder, UpdateOrderStatus, SwapExecuted, FilledMeansLanded
  <2>7. ClientInv' /\ ConfirmInv' /\ MatcherInv' /\ FollowUpLineage' /\ OneExecutor' /\
      LimitInv'
    BY <1>2 DEF FinalizeOrder, ClientInv, ConfirmInv, MatcherInv, FollowUpLineage,
        OneExecutor, LimitInv
  <2> QED BY <2>1, <2>2, <2>3, <2>4, <2>5, <2>6, <2>7 DEF Inv
<1>3. ASSUME NEW o \in Orders, FailOrder(t, o) PROVE Inv'
  <2>1. TypeOK'
    BY <1>3, TickerAssumption DEF FailOrder, Answers, AskRpc, UpdateOrderStatus, Done, TypeOK, Status
  <2>2. NoRowInv'
    BY <1>3, SentinelAssumption DEF FailOrder, UpdateOrderStatus, Done, NoRowInv
  <2>3. WaitingInv'
    BY <1>3 DEF FailOrder, UpdateOrderStatus, Done, WaitingInv
  <2>4. TickInv'
    BY <1>3 DEF FailOrder, UpdateOrderStatus, Done, TickInv
  <2>5. RetractedInv'
    BY <1>3 DEF FailOrder, UpdateOrderStatus, Done, RetractedInv
  <2>6. FilledMeansLanded'
    BY <1>3 DEF FailOrder, UpdateOrderStatus, Done, FilledMeansLanded
  <2>7. ClientInv' /\ ConfirmInv' /\ MatcherInv' /\ FollowUpLineage' /\ OneExecutor' /\
      LimitInv'
    BY <1>3 DEF FailOrder, ClientInv, ConfirmInv, MatcherInv, FollowUpLineage,
        OneExecutor, LimitInv
  <2> QED BY <2>1, <2>2, <2>3, <2>4, <2>5, <2>6, <2>7 DEF Inv
<1>4. ASSUME NEW o \in Orders, SkipOrder(t, o) PROVE Inv'
  <2>1. TypeOK'
    BY <1>4, TickerAssumption DEF SkipOrder, AskRpc, Done, TypeOK
  <2>2. NoRowInv'
    BY <1>4, SentinelAssumption DEF SkipOrder, Done, NoRowInv
  <2>3. TickInv'
    BY <1>4 DEF SkipOrder, Done, TickInv
  <2>4. WaitingInv' /\ ClientInv' /\ ConfirmInv' /\ MatcherInv' /\ RetractedInv' /\
      FilledMeansLanded' /\ FollowUpLineage' /\ OneExecutor' /\ LimitInv'
    BY <1>4 DEF SkipOrder, WaitingInv, ClientInv, ConfirmInv, MatcherInv, RetractedInv,
        FilledMeansLanded, FollowUpLineage, OneExecutor, LimitInv
  <2> QED BY <2>1, <2>2, <2>3, <2>4 DEF Inv
<1>5. ASSUME NEW o \in Orders, CreateFollowUp(t, o) PROVE Inv'
  <2>1. TypeOK'
    BY <1>5, BoundAssumption DEF CreateFollowUp, Fault, InsertWithLog, FollowUpOf, Done,
        TypeOK, Status, ValidRequests, TickInv, NeedsFollowUp
  <2>2. NoRowInv'
    BY <1>5, SentinelAssumption DEF CreateFollowUp, Fault, InsertWithLog, FollowUpOf,
        Done, NoRowInv, TypeOK
  <2>3. WaitingInv'
    BY <1>5 DEF CreateFollowUp, Fault, InsertWithLog, FollowUpOf, Done, WaitingInv
  <2>4. ClientInv'
    BY <1>5 DEF CreateFollowUp, Fault, InsertWithLog, FollowUpOf, Done, ClientInv,
        TypeOK, WaitingInv
  <2>5. MatcherInv'
    BY <1>5, SentinelAssumption DEF CreateFollowUp, Fault, InsertWithLog, FollowUpOf,
        Done, MatcherInv, TypeOK, WaitingInv
  <2>6. TickInv'
    BY <1>5 DEF CreateFollowUp, Fault, InsertWithLog, FollowUpOf, Done, TickInv
  <2>7. RetractedInv'
    BY <1>5 DEF CreateFollowUp, Fault, InsertWithLog, FollowUpOf, Done, RetractedInv
  <2>8. FilledMeansLanded'
    BY <1>5 DEF CreateFollowUp, Fault, InsertWithLog, FollowUpOf, Done,
        FilledMeansLanded
  <2>9. FollowUpLineage'
    BY <1>5, SentinelAssumption DEF CreateFollowUp, Fault, InsertWithLog, FollowUpOf,
        Done, NeedsFollowUp, FollowUpLineage, TypeOK, NoRowInv, TickInv
  <2>10. ConfirmInv' /\ OneExecutor'
    BY <1>5 DEF CreateFollowUp, ConfirmInv, OneExecutor
  <2>11. LimitInv'
    BY <1>5 DEF CreateFollowUp, InsertWithLog, LimitInv, TypeOK, WaitingInv
  <2> QED BY <2>1, <2>2, <2>3, <2>4, <2>5, <2>6, <2>7, <2>8, <2>9, <2>10, <2>11 DEF Inv
<1>6. ASSUME BackfillFinal(t) PROVE Inv'
  <2>1. TypeOK'
    <3>1. filled' \subseteq Orders /\ faults' \in 0..MaxFaults
      BY <1>6, BoundAssumption DEF BackfillFinal, Fault, TypeOK, TickInv
    <3>2. tick' \in [Tickers -> [pc : {"idle", "scan", "backfill", "attach"},
                                batch : SUBSET Orders, cur : Orders \cup {NoOrder}]]
      <4>1. tick \in [Tickers -> [pc : {"idle", "scan", "backfill", "attach"},
                                  batch : SUBSET Orders, cur : Orders \cup {NoOrder}]]
        BY DEF TypeOK
      <4>2. tick' = [tick EXCEPT ![t].pc = "attach"]
        BY <1>6 DEF BackfillFinal
      <4> QED BY <4>1, <4>2
    <3>3. UNCHANGED <<status, order, parent, age, chain, trace, client, confirm, pushing,
                      pushed, matcher, tickLock, budget, retracted>>
      BY <1>6 DEF BackfillFinal
    <3> QED BY <3>1, <3>2, <3>3 DEF TypeOK
  <2>2. NoRowInv'
    BY <1>6, SentinelAssumption DEF BackfillFinal, Fault, NoRowInv
  <2>3. TickInv'
    BY <1>6 DEF BackfillFinal, Fault, TickInv
  <2>4. WaitingInv' /\ ClientInv' /\ ConfirmInv' /\ MatcherInv' /\ RetractedInv' /\
      FilledMeansLanded' /\ FollowUpLineage' /\ OneExecutor' /\ LimitInv'
    BY <1>6 DEF BackfillFinal, WaitingInv, ClientInv, ConfirmInv, MatcherInv,
        RetractedInv, FilledMeansLanded, FollowUpLineage, OneExecutor, LimitInv
  <2> QED BY <2>1, <2>2, <2>3, <2>4 DEF Inv
<1>7. ASSUME NoFollowUp(t) PROVE Inv'
  <2>1. TypeOK'
    BY <1>7, BoundAssumption DEF NoFollowUp, Fault, Done, TypeOK
  <2>2. NoRowInv'
    BY <1>7, SentinelAssumption DEF NoFollowUp, Fault, Done, NoRowInv
  <2>3. TickInv'
    BY <1>7 DEF NoFollowUp, Fault, Done, TickInv
  <2>4. WaitingInv' /\ ClientInv' /\ ConfirmInv' /\ MatcherInv' /\ RetractedInv' /\
      FilledMeansLanded' /\ FollowUpLineage' /\ OneExecutor' /\ LimitInv'
    BY <1>7 DEF NoFollowUp, WaitingInv, ClientInv, ConfirmInv, MatcherInv, RetractedInv,
        FilledMeansLanded, FollowUpLineage, OneExecutor, LimitInv
  <2> QED BY <2>1, <2>2, <2>3, <2>4 DEF Inv
<1>8. ASSUME TickEnds(t) PROVE Inv'
  <2>1. TypeOK'
    BY <1>8 DEF TickEnds, IdleTick, TypeOK
  <2>2. NoRowInv'
    BY <1>8, SentinelAssumption DEF TickEnds, IdleTick, NoRowInv
  <2>3. TickInv'
    BY <1>8 DEF TickEnds, IdleTick, TickInv
  <2>4. WaitingInv' /\ ClientInv' /\ ConfirmInv' /\ MatcherInv' /\ RetractedInv' /\
      FilledMeansLanded' /\ FollowUpLineage' /\ OneExecutor' /\ LimitInv'
    BY <1>8 DEF TickEnds, WaitingInv, ClientInv, ConfirmInv, MatcherInv, RetractedInv,
        FilledMeansLanded, FollowUpLineage, OneExecutor, LimitInv
  <2> QED BY <2>1, <2>2, <2>3, <2>4 DEF Inv
<1>9. ASSUME TickerCrash(t) PROVE Inv'
  <2>1. TypeOK'
    BY <1>9, BoundAssumption DEF TickerCrash, Fault, IdleTick, TypeOK
  <2>2. NoRowInv'
    BY <1>9, SentinelAssumption DEF TickerCrash, Fault, IdleTick, NoRowInv
  <2>3. TickInv'
    BY <1>9 DEF TickerCrash, Fault, IdleTick, TickInv
  <2>4. WaitingInv' /\ ClientInv' /\ ConfirmInv' /\ MatcherInv' /\ RetractedInv' /\
      FilledMeansLanded' /\ FollowUpLineage' /\ OneExecutor' /\ LimitInv'
    BY <1>9 DEF TickerCrash, WaitingInv, ClientInv, ConfirmInv, MatcherInv,
        RetractedInv, FilledMeansLanded, FollowUpLineage, OneExecutor, LimitInv
  <2> QED BY <2>1, <2>2, <2>3, <2>4 DEF Inv
<1> QED BY <1>1, <1>2, <1>3, <1>4, <1>5, <1>6, <1>7, <1>8, <1>9 DEF TickerStep

\* What the chain, the clock, the lock's TTL and a pending confirmation do.
LEMMA EnvironmentKeepsInv ==
  ASSUME Inv,
         \/ \E o \in Orders : ChainDecides(o) \/ Ages(o)
         \/ \E c \in Confirmers : ConfirmUpdate(c)
         \/ LockExpires
  PROVE  Inv'
<1> USE DEF Inv, rowVars, chainVars, clientVars, listVars, tickVars
<1>1. ASSUME NEW o \in Orders, ChainDecides(o) PROVE Inv'
  <2>1. TypeOK'
    BY <1>1 DEF ChainDecides, TypeOK
  <2>2. WaitingInv'
    BY <1>1 DEF ChainDecides, WaitingInv, TypeOK
  <2>3. ClientInv'
    BY <1>1 DEF ChainDecides, ClientInv, TypeOK
  <2>4. MatcherInv'
    BY <1>1, SentinelAssumption DEF ChainDecides, MatcherInv, TypeOK
  <2>5. TickInv'
    BY <1>1 DEF ChainDecides, TickInv, TypeOK
  <2>6. RetractedInv'
    BY <1>1 DEF ChainDecides, RetractedInv, TypeOK
  <2>7. FilledMeansLanded'
    BY <1>1 DEF ChainDecides, FilledMeansLanded, TypeOK
  <2>8. FollowUpLineage'
    BY <1>1, SentinelAssumption DEF ChainDecides, FollowUpLineage, TypeOK
  <2>9. NoRowInv' /\ ConfirmInv' /\ OneExecutor'
    BY <1>1 DEF ChainDecides, NoRowInv, ConfirmInv, OneExecutor
  <2>10. LimitInv'
    BY <1>1 DEF ChainDecides, LimitInv, TypeOK
  <2> QED BY <2>1, <2>2, <2>3, <2>4, <2>5, <2>6, <2>7, <2>8, <2>9, <2>10 DEF Inv
<1>2. ASSUME NEW o \in Orders, Ages(o) PROVE Inv'
  <2>1. TypeOK'
    BY <1>2 DEF Ages, TypeOK, Young, OutOfWindow
  <2>2. NoRowInv' /\ WaitingInv' /\ ClientInv' /\ ConfirmInv' /\ MatcherInv' /\ TickInv'
      /\ RetractedInv' /\ FilledMeansLanded' /\ FollowUpLineage' /\ OneExecutor' /\
      LimitInv'
    BY <1>2 DEF Ages, NoRowInv, WaitingInv, ClientInv, ConfirmInv, MatcherInv, TickInv,
        RetractedInv, FilledMeansLanded, FollowUpLineage, OneExecutor, LimitInv
  <2> QED BY <2>1, <2>2 DEF Inv
<1>3. ASSUME NEW c \in Confirmers, ConfirmUpdate(c) PROVE Inv'
  <2>1. TypeOK'
    BY <1>3, BoundAssumption DEF ConfirmUpdate, MayFail, UpdateOrderBySelect, Fault,
        TypeOK, Status
  <2>2. NoRowInv'
    BY <1>3, SentinelAssumption DEF ConfirmUpdate, MayFail, UpdateOrderBySelect, Fault,
        NoRowInv, TypeOK
  <2>3. WaitingInv'
    BY <1>3 DEF ConfirmUpdate, MayFail, UpdateOrderBySelect, Fault, WaitingInv, TypeOK
  <2>4. ConfirmInv'
    BY <1>3, SentinelAssumption DEF ConfirmUpdate, MayFail, UpdateOrderBySelect, Fault,
        ConfirmInv
  <2>5. RetractedInv'
    BY <1>3 DEF ConfirmUpdate, MayFail, UpdateOrderBySelect, Fault, RetractedInv, TypeOK
  <2>6. FilledMeansLanded'
    BY <1>3 DEF ConfirmUpdate, MayFail, UpdateOrderBySelect, Fault, FilledMeansLanded,
        TypeOK
  <2>7. ClientInv' /\ MatcherInv' /\ TickInv' /\ FollowUpLineage' /\ OneExecutor' /\
      LimitInv'
    BY <1>3 DEF ConfirmUpdate, ClientInv, MatcherInv, TickInv, FollowUpLineage,
        OneExecutor, LimitInv
  <2> QED BY <2>1, <2>2, <2>3, <2>4, <2>5, <2>6, <2>7 DEF Inv
<1>4. ASSUME LockExpires PROVE Inv'
  <2>1. TypeOK'
    BY <1>4 DEF LockExpires, TypeOK
  <2>2. NoRowInv' /\ WaitingInv' /\ ClientInv' /\ ConfirmInv' /\ MatcherInv' /\ TickInv'
      /\ RetractedInv' /\ FilledMeansLanded' /\ FollowUpLineage' /\ OneExecutor' /\
      LimitInv'
    BY <1>4 DEF LockExpires, NoRowInv, WaitingInv, ClientInv, ConfirmInv, MatcherInv,
        TickInv, RetractedInv, FilledMeansLanded, FollowUpLineage, OneExecutor, LimitInv
  <2> QED BY <2>1, <2>2 DEF Inv
<1> QED BY <1>1, <1>2, <1>3, <1>4

-----------------------------------------------------------------------------
(* Every step keeps SeqInv. *)

\* A user's step touches neither a pending confirmation nor a settled buy.
LEMMA UserStepKeepsSeqInv ==
  ASSUME Inv, SeqInv, NEW o \in Orders, UserStep(o)
  PROVE  SeqInv'
<1> USE DEF Inv, SeqInv, rowVars, chainVars, clientVars, listVars, tickVars
<1>1. ASSUME NEW r \in Requests, CreateMarketOrder(o, r) PROVE SeqInv'
  <2>1. BuildingInv'
    BY <1>1 DEF CreateMarketOrder, InsertWithLog, BuildingInv, TypeOK
  <2>2. ConfirmingInv'
    BY <1>1, SentinelAssumption DEF CreateMarketOrder, InsertWithLog, ConfirmingInv
  <2>3. ExecutingInv'
    BY <1>1, SentinelAssumption DEF CreateMarketOrder, InsertWithLog, ExecutingInv
  <2>4. PushingInv'
    BY <1>1 DEF CreateMarketOrder, InsertWithLog, PushingInv
  <2>5. ListInv'
    BY <1>1, SentinelAssumption DEF CreateMarketOrder, InsertWithLog, ListInv, NoRowInv
  <2>6. PendingInv'
    BY <1>1, SentinelAssumption DEF CreateMarketOrder, InsertWithLog, PendingInv,
        Pending, NoRowInv, TypeOK
  <2>7. OneFollowUp'
    BY <1>1 DEF CreateMarketOrder, OneFollowUp
  <2> QED BY <2>1, <2>2, <2>3, <2>4, <2>5, <2>6, <2>7 DEF SeqInv
<1>2. ASSUME NEW r \in Requests, CreateTradeOrder(o, r) PROVE SeqInv'
  <2>1. BuildingInv'
    BY <1>2 DEF CreateTradeOrder, InsertWithLog, BuildingInv
  <2>2. ConfirmingInv'
    BY <1>2, SentinelAssumption DEF CreateTradeOrder, InsertWithLog, ConfirmingInv
  <2>3. ExecutingInv'
    BY <1>2, SentinelAssumption DEF CreateTradeOrder, InsertWithLog, ExecutingInv
  <2>4. PushingInv'
    BY <1>2 DEF CreateTradeOrder, InsertWithLog, PushingInv, TypeOK
  <2>5. ListInv'
    BY <1>2, SentinelAssumption DEF CreateTradeOrder, InsertWithLog, ListInv, TypeOK,
        NoRowInv
  <2>6. PendingInv'
    BY <1>2, SentinelAssumption DEF CreateTradeOrder, InsertWithLog, PendingInv,
        Pending, NoRowInv, TypeOK
  <2>7. OneFollowUp'
    BY <1>2 DEF CreateTradeOrder, OneFollowUp
  <2> QED BY <2>1, <2>2, <2>3, <2>4, <2>5, <2>6, <2>7 DEF SeqInv
<1>3. ASSUME ClientSends(o) PROVE SeqInv'
  <2>1. BuildingInv'
    BY <1>3 DEF ClientSends, BuildingInv
  <2>2. ConfirmingInv' /\ ExecutingInv' /\ PushingInv' /\ ListInv' /\ PendingInv' /\
      OneFollowUp'
    BY <1>3 DEF ClientSends, ConfirmingInv, ExecutingInv, PushingInv, ListInv,
        PendingInv, OneFollowUp, Pending
  <2> QED BY <2>1, <2>2 DEF SeqInv
<1>4. ASSUME ClientSeesSwap(o) PROVE SeqInv'
  <2>1. BuildingInv'
    BY <1>4 DEF ClientSeesSwap, BuildingInv
  <2>2. ConfirmingInv' /\ ExecutingInv' /\ PushingInv' /\ ListInv' /\ PendingInv' /\
      OneFollowUp'
    BY <1>4 DEF ClientSeesSwap, ConfirmingInv, ExecutingInv, PushingInv, ListInv,
        PendingInv, OneFollowUp, Pending
  <2> QED BY <2>1, <2>2 DEF SeqInv
<1>5. ASSUME ClientGivesUp(o) PROVE SeqInv'
  <2>1. BuildingInv'
    BY <1>5 DEF ClientGivesUp, BuildingInv
  <2>2. ConfirmingInv' /\ ExecutingInv' /\ PushingInv' /\ ListInv' /\ PendingInv' /\
      OneFollowUp'
    BY <1>5 DEF ClientGivesUp, ConfirmingInv, ExecutingInv, PushingInv, ListInv,
        PendingInv, OneFollowUp, Pending
  <2> QED BY <2>1, <2>2 DEF SeqInv
<1>6. ASSUME CancelOrder(o) PROVE SeqInv'
  <2>1. BuildingInv'
    BY <1>6 DEF CancelOrder, UpdateOrderStatus, BuildingInv, TypeOK
  <2>2. ConfirmingInv'
    BY <1>6, SentinelAssumption DEF CancelOrder, UpdateOrderStatus, ConfirmingInv,
        TypeOK
  <2>3. ExecutingInv'
    BY <1>6, SentinelAssumption DEF CancelOrder, UpdateOrderStatus, ExecutingInv, TypeOK
  <2>4. PushingInv'
    BY <1>6 DEF CancelOrder, UpdateOrderStatus, PushingInv, TypeOK
  <2>5. PendingInv'
    BY <1>6, SentinelAssumption DEF CancelOrder, UpdateOrderStatus, PendingInv, Pending,
        TypeOK
  <2>6. ListInv' /\ OneFollowUp'
    BY <1>6 DEF CancelOrder, ListInv, OneFollowUp
  <2> QED BY <2>1, <2>2, <2>3, <2>4, <2>5, <2>6 DEF SeqInv
<1> QED BY <1>1, <1>2, <1>3, <1>4, <1>5, <1>6 DEF UserStep

\* The handlers find an order Proc that no other handler has read.
LEMMA ServiceStepKeepsSeqInv ==
  ASSUME Inv, SeqInv, NEW o \in Orders, ServiceStep(o)
  PROVE  SeqInv'
<1> USE DEF Inv, SeqInv, rowVars, chainVars, clientVars, listVars, tickVars
<1>1. ASSUME CreateMarketTx(o) PROVE SeqInv'
  <2>1. BuildingInv'
    BY <1>1 DEF CreateMarketTx, BuildingInv
  <2>2. ConfirmingInv' /\ ExecutingInv' /\ PushingInv' /\ ListInv' /\ PendingInv' /\
      OneFollowUp'
    BY <1>1 DEF CreateMarketTx, ConfirmingInv, ExecutingInv, PushingInv, ListInv,
        PendingInv, OneFollowUp, Pending
  <2> QED BY <2>1, <2>2 DEF SeqInv
<1>2. ASSUME CreateMarketTxFails(o) PROVE SeqInv'
  <2>1. BuildingInv'
    BY <1>2 DEF CreateMarketTxFails, MayFail, UpdateOrderBySelect, Fault, BuildingInv,
        TypeOK
  <2>2. ConfirmingInv'
    BY <1>2, SentinelAssumption DEF CreateMarketTxFails, MayFail, UpdateOrderBySelect,
        Fault, ConfirmingInv, TypeOK, ConfirmInv
  <2>3. ExecutingInv'
    BY <1>2, SentinelAssumption DEF CreateMarketTxFails, MayFail, UpdateOrderBySelect,
        Fault, ExecutingInv, ListInv, TypeOK, ClientInv
  <2>4. PushingInv'
    BY <1>2 DEF CreateMarketTxFails, MayFail, UpdateOrderBySelect, Fault, PushingInv,
        ListInv, TypeOK, ClientInv
  <2>5. PendingInv'
    BY <1>2, SentinelAssumption DEF CreateMarketTxFails, MayFail, UpdateOrderBySelect,
        Fault, PendingInv, Pending, BuildingInv, TypeOK
  <2>6. ListInv' /\ OneFollowUp'
    BY <1>2 DEF CreateMarketTxFails, ListInv, OneFollowUp
  <2> QED BY <2>1, <2>2, <2>3, <2>4, <2>5, <2>6 DEF SeqInv
<1>3. ASSUME AddOrderToRedis(o) PROVE SeqInv'
  <2>1. PushingInv'
    BY <1>3 DEF AddOrderToRedis, PushingInv
  <2>2. ListInv'
    BY <1>3, SentinelAssumption DEF AddOrderToRedis, ListInv
  <2>3. BuildingInv' /\ ConfirmingInv' /\ ExecutingInv' /\ PendingInv' /\ OneFollowUp'
    BY <1>3 DEF AddOrderToRedis, BuildingInv, ConfirmingInv, ExecutingInv, PendingInv,
        OneFollowUp, Pending
  <2> QED BY <2>1, <2>2, <2>3 DEF SeqInv
<1>4. ASSUME AddOrderToRedisFails(o) PROVE SeqInv'
  <2>1. BuildingInv'
    BY <1>4 DEF AddOrderToRedisFails, Fault, UpdateOrderBySelect, BuildingInv, ListInv,
        TypeOK, ClientInv
  <2>2. ConfirmingInv'
    BY <1>4, SentinelAssumption DEF AddOrderToRedisFails, Fault, UpdateOrderBySelect,
        ConfirmingInv, ListInv, TypeOK, ClientInv, ConfirmInv
  <2>3. ExecutingInv'
    BY <1>4, SentinelAssumption DEF AddOrderToRedisFails, Fault, UpdateOrderBySelect,
        ExecutingInv, ListInv, TypeOK
  <2>4. PushingInv'
    BY <1>4 DEF AddOrderToRedisFails, Fault, UpdateOrderBySelect, PushingInv, TypeOK
  <2>5. ListInv'
    BY <1>4, SentinelAssumption DEF AddOrderToRedisFails, Fault, UpdateOrderBySelect,
        ListInv
  <2>6. PendingInv'
    BY <1>4, SentinelAssumption DEF AddOrderToRedisFails, Fault, UpdateOrderBySelect,
        PendingInv, Pending, ListInv, TypeOK
  <2>7. OneFollowUp'
    BY <1>4 DEF AddOrderToRedisFails, OneFollowUp
  <2> QED BY <2>1, <2>2, <2>3, <2>4, <2>5, <2>6, <2>7 DEF SeqInv
<1>5. ASSUME NEW c \in Confirmers, ConfirmMarketOrder(c, o) PROVE SeqInv'
  <2>1. ConfirmingInv'
    BY <1>5, SentinelAssumption DEF ConfirmMarketOrder, ConfirmingInv
  <2>2. BuildingInv' /\ ExecutingInv' /\ PushingInv' /\ ListInv' /\ PendingInv' /\
      OneFollowUp'
    BY <1>5 DEF ConfirmMarketOrder, BuildingInv, ExecutingInv, PushingInv, ListInv,
        PendingInv, OneFollowUp, Pending
  <2> QED BY <2>1, <2>2 DEF SeqInv
<1> QED BY <1>1, <1>2, <1>3, <1>4, <1>5 DEF ServiceStep

\* A matcher writes only to the order whose CAS it won.
LEMMA MatcherStepKeepsSeqInv ==
  ASSUME Inv, SeqInv, NEW m \in Matchers, MatcherStep(m)
  PROVE  SeqInv'
<1> USE DEF Inv, SeqInv, rowVars, chainVars, clientVars, listVars, tickVars
<1>1. ASSUME NEW o \in Orders, ExecuteOrder(m, o) PROVE SeqInv'
  <2>1. BuildingInv'
    BY <1>1 DEF ExecuteOrder, UpdateOrderStatus, BuildingInv
  <2>2. ConfirmingInv'
    BY <1>1, SentinelAssumption DEF ExecuteOrder, UpdateOrderStatus, ConfirmingInv
  <2>3. ExecutingInv'
    BY <1>1, SentinelAssumption DEF ExecuteOrder, UpdateOrderStatus, ExecutingInv,
        TypeOK
  <2>4. PushingInv'
    BY <1>1 DEF ExecuteOrder, UpdateOrderStatus, PushingInv, ListInv
  <2>5. ListInv'
    BY <1>1, SentinelAssumption DEF ExecuteOrder, UpdateOrderStatus, ListInv
  <2>6. PendingInv'
    BY <1>1, SentinelAssumption DEF ExecuteOrder, UpdateOrderStatus, PendingInv, Pending
  <2>7. OneFollowUp'
    BY <1>1 DEF ExecuteOrder, OneFollowUp
  <2> QED BY <2>1, <2>2, <2>3, <2>4, <2>5, <2>6, <2>7 DEF SeqInv
<1>2. ASSUME ServerSwap(m) PROVE SeqInv'
  <2>a. \/ matcher' = [matcher EXCEPT ![m].pc = "ok"]
        \/ matcher' = [matcher EXCEPT ![m].pc = "err"]
    BY <1>2 DEF ServerSwap
  <2>m. matcher \in [Matchers -> [pc : {"idle", "swap", "ok", "err"},
                                  cur : Orders \cup {NoOrder}]]
    BY DEF TypeOK
  <2>b. \A n \in Matchers : matcher'[n].cur = matcher[n].cur
    BY <2>a, <2>m
  <2>c. UNCHANGED <<status, order, pushing, pushed>>
    BY <1>2 DEF ServerSwap
  <2>1. ExecutingInv'
    BY <2>b, <2>c DEF ExecutingInv
  <2>2. ListInv'
    BY <2>b, <2>c DEF ListInv
  <2>3. BuildingInv' /\ ConfirmingInv' /\ PushingInv' /\ PendingInv' /\ OneFollowUp'
    BY <1>2 DEF ServerSwap, BuildingInv, ConfirmingInv, PushingInv, PendingInv,
        OneFollowUp, Pending
  <2> QED BY <2>1, <2>2, <2>3 DEF SeqInv
<1>3. ASSUME UpdateDbByTxResult(m) PROVE SeqInv'
  <2>1. BuildingInv'
    BY <1>3 DEF UpdateDbByTxResult, MayFail, UpdateOrderBySelect, IdleMatcher, Fault,
        BuildingInv, TypeOK, ClientInv, MatcherInv
  <2>2. ConfirmingInv'
    BY <1>3, SentinelAssumption DEF UpdateDbByTxResult, MayFail, UpdateOrderBySelect,
        IdleMatcher, Fault, ConfirmingInv, ListInv, TypeOK, ClientInv, ConfirmInv
  <2>3. ExecutingInv'
    BY <1>3, SentinelAssumption DEF UpdateDbByTxResult, MayFail, UpdateOrderBySelect,
        IdleMatcher, Fault, ExecutingInv, TypeOK, OneExecutor
  <2>4. PushingInv'
    BY <1>3 DEF UpdateDbByTxResult, MayFail, UpdateOrderBySelect, IdleMatcher, Fault,
        PushingInv, ListInv, TypeOK, MatcherInv
  <2>5. ListInv'
    BY <1>3, SentinelAssumption DEF UpdateDbByTxResult, MayFail, UpdateOrderBySelect,
        IdleMatcher, Fault, ListInv
  <2>6. PendingInv'
    BY <1>3, SentinelAssumption DEF UpdateDbByTxResult, MayFail, UpdateOrderBySelect,
        IdleMatcher, Fault, PendingInv, Pending, MatcherInv, TypeOK
  <2>7. OneFollowUp'
    BY <1>3 DEF UpdateDbByTxResult, OneFollowUp
  <2> QED BY <2>1, <2>2, <2>3, <2>4, <2>5, <2>6, <2>7 DEF SeqInv
<1>4. ASSUME MatcherCrash(m) PROVE SeqInv'
  <2>1. ExecutingInv'
    BY <1>4, SentinelAssumption DEF MatcherCrash, Fault, IdleMatcher, ExecutingInv
  <2>2. ListInv'
    BY <1>4, SentinelAssumption DEF MatcherCrash, Fault, IdleMatcher, ListInv
  <2>3. BuildingInv' /\ ConfirmingInv' /\ PushingInv' /\ PendingInv' /\ OneFollowUp'
    BY <1>4 DEF MatcherCrash, BuildingInv, ConfirmingInv, PushingInv, PendingInv,
        OneFollowUp, Pending
  <2> QED BY <2>1, <2>2, <2>3 DEF SeqInv
<1> QED BY <1>1, <1>2, <1>3, <1>4 DEF MatcherStep

\* The CAS to Suc is won once, so a buy is settled and followed up once.
LEMMA TickerStepKeepsSeqInv ==
  ASSUME Inv, SeqInv, NEW t \in Tickers, TickerStep(t)
  PROVE  SeqInv'
<1> USE DEF Inv, SeqInv, rowVars, chainVars, clientVars, listVars, tickVars
<1>1. ASSUME CheckOnChainTx(t) PROVE SeqInv'
  <2>1. PendingInv'
    BY <1>1, SentinelAssumption DEF CheckOnChainTx, PendingInv, Pending
  <2>2. BuildingInv' /\ ConfirmingInv' /\ ExecutingInv' /\ PushingInv' /\ ListInv' /\
      OneFollowUp'
    BY <1>1 DEF CheckOnChainTx, BuildingInv, ConfirmingInv, ExecutingInv, PushingInv,
        ListInv, OneFollowUp
  <2> QED BY <2>1, <2>2 DEF SeqInv
<1>2. ASSUME NEW o \in Orders, FinalizeOrder(t, o) PROVE SeqInv'
  <2>1. BuildingInv'
    BY <1>2 DEF FinalizeOrder, UpdateOrderStatus, BuildingInv
  <2>2. ConfirmingInv'
    BY <1>2, SentinelAssumption DEF FinalizeOrder, UpdateOrderStatus, ConfirmingInv
  <2>3. ExecutingInv'
    BY <1>2, SentinelAssumption DEF FinalizeOrder, UpdateOrderStatus, ExecutingInv
  <2>4. PushingInv'
    BY <1>2 DEF FinalizeOrder, UpdateOrderStatus, PushingInv
  <2>5. PendingInv'
    BY <1>2, SentinelAssumption DEF FinalizeOrder, UpdateOrderStatus, PendingInv,
        Pending, TypeOK
  <2>6. ListInv' /\ OneFollowUp'
    BY <1>2 DEF FinalizeOrder, ListInv, OneFollowUp
  <2> QED BY <2>1, <2>2, <2>3, <2>4, <2>5, <2>6 DEF SeqInv
<1>3. ASSUME NEW o \in Orders, FailOrder(t, o) PROVE SeqInv'
  <2>1. BuildingInv'
    BY <1>3 DEF FailOrder, UpdateOrderStatus, Done, BuildingInv
  <2>2. ConfirmingInv'
    BY <1>3, SentinelAssumption DEF FailOrder, UpdateOrderStatus, Done, ConfirmingInv
  <2>3. ExecutingInv'
    BY <1>3, SentinelAssumption DEF FailOrder, UpdateOrderStatus, Done, ExecutingInv
  <2>4. PushingInv'
    BY <1>3 DEF FailOrder, UpdateOrderStatus, Done, PushingInv
  <2>5. PendingInv'
    BY <1>3, SentinelAssumption DEF FailOrder, UpdateOrderStatus, Done, PendingInv,
        Pending
  <2>6. ListInv' /\ OneFollowUp'
    BY <1>3 DEF FailOrder, ListInv, OneFollowUp
  <2> QED BY <2>1, <2>2, <2>3, <2>4, <2>5, <2>6 DEF SeqInv
<1>4. ASSUME NEW o \in Orders, SkipOrder(t, o) PROVE SeqInv'
  <2>1. PendingInv'
    BY <1>4, SentinelAssumption DEF SkipOrder, Done, PendingInv, Pending
  <2>2. BuildingInv' /\ ConfirmingInv' /\ ExecutingInv' /\ PushingInv' /\ ListInv' /\
      OneFollowUp'
    BY <1>4 DEF SkipOrder, BuildingInv, ConfirmingInv, ExecutingInv, PushingInv,
        ListInv, OneFollowUp
  <2> QED BY <2>1, <2>2 DEF SeqInv
<1>5. ASSUME NEW o \in Orders, CreateFollowUp(t, o) PROVE SeqInv'
  <2>1. BuildingInv'
    BY <1>5 DEF CreateFollowUp, Fault, InsertWithLog, FollowUpOf, Done, BuildingInv
  <2>2. ConfirmingInv'
    BY <1>5, SentinelAssumption DEF CreateFollowUp, Fault, InsertWithLog, FollowUpOf,
        Done, ConfirmingInv
  <2>3. ExecutingInv'
    BY <1>5, SentinelAssumption DEF CreateFollowUp, Fault, InsertWithLog, FollowUpOf,
        Done, ExecutingInv
  <2>4. PushingInv'
    BY <1>5 DEF CreateFollowUp, Fault, InsertWithLog, FollowUpOf, Done, PushingInv,
        TypeOK
  <2>5. ListInv'
    BY <1>5, SentinelAssumption DEF CreateFollowUp, Fault, InsertWithLog, FollowUpOf,
        Done, ListInv, TypeOK, NoRowInv
  <2>6. Pending(t, tick[t].cur) /\ tick[t].cur \in Orders /\ order[tick[t].cur].kind = "market"
    <3>1. /\ tick[t].cur \in Orders /\ chain[tick[t].cur] = "landed"
          /\ order[tick[t].cur].side = "buy" /\ order[tick[t].cur] \in ValidRequests
      BY <1>5 DEF CreateFollowUp, NeedsFollowUp, TickInv, TypeOK
    <3>2. order[tick[t].cur].kind \notin {"limit", "trailing"}
      BY <3>1 DEF LimitInv, ValidRequests
    <3> QED BY <1>5, <3>1, <3>2 DEF CreateFollowUp, Pending, ValidRequests
  <2>7. PendingInv'
    BY <1>5, <2>6, SentinelAssumption DEF CreateFollowUp, InsertWithLog, FollowUpOf,
        Done, PendingInv, Pending, TypeOK, NoRowInv
  <2>8. OneFollowUp'
    BY <1>5, <2>6, SentinelAssumption DEF CreateFollowUp, OneFollowUp, PendingInv, TypeOK
  <2> QED BY <2>1, <2>2, <2>3, <2>4, <2>5, <2>6, <2>7, <2>8 DEF SeqInv
<1>6. ASSUME BackfillFinal(t) PROVE SeqInv'
  <2>1. PendingInv'
    BY <1>6, SentinelAssumption DEF BackfillFinal, Fault, PendingInv, Pending
  <2>2. BuildingInv' /\ ConfirmingInv' /\ ExecutingInv' /\ PushingInv' /\ ListInv' /\
      OneFollowUp'
    BY <1>6 DEF BackfillFinal, BuildingInv, ConfirmingInv, ExecutingInv, PushingInv,
        ListInv, OneFollowUp
  <2> QED BY <2>1, <2>2 DEF SeqInv
<1>7. ASSUME NoFollowUp(t) PROVE SeqInv'
  <2>1. PendingInv'
    BY <1>7, SentinelAssumption DEF NoFollowUp, Fault, Done, PendingInv, Pending
  <2>2. BuildingInv' /\ ConfirmingInv' /\ ExecutingInv' /\ PushingInv' /\ ListInv' /\
      OneFollowUp'
    BY <1>7 DEF NoFollowUp, BuildingInv, ConfirmingInv, ExecutingInv, PushingInv,
        ListInv, OneFollowUp
  <2> QED BY <2>1, <2>2 DEF SeqInv
<1>8. ASSUME TickEnds(t) PROVE SeqInv'
  <2>1. PendingInv'
    BY <1>8, SentinelAssumption DEF TickEnds, IdleTick, PendingInv, Pending
  <2>2. BuildingInv' /\ ConfirmingInv' /\ ExecutingInv' /\ PushingInv' /\ ListInv' /\
      OneFollowUp'
    BY <1>8 DEF TickEnds, BuildingInv, ConfirmingInv, ExecutingInv, PushingInv, ListInv,
        OneFollowUp
  <2> QED BY <2>1, <2>2 DEF SeqInv
<1>9. ASSUME TickerCrash(t) PROVE SeqInv'
  <2>1. PendingInv'
    BY <1>9, SentinelAssumption DEF TickerCrash, Fault, IdleTick, PendingInv, Pending
  <2>2. BuildingInv' /\ ConfirmingInv' /\ ExecutingInv' /\ PushingInv' /\ ListInv' /\
      OneFollowUp'
    BY <1>9 DEF TickerCrash, BuildingInv, ConfirmingInv, ExecutingInv, PushingInv,
        ListInv, OneFollowUp
  <2> QED BY <2>1, <2>2 DEF SeqInv
<1> QED BY <1>1, <1>2, <1>3, <1>4, <1>5, <1>6, <1>7, <1>8, <1>9 DEF TickerStep

\* The only confirmation writes to an order that nobody settled meanwhile.
LEMMA EnvironmentKeepsSeqInv ==
  ASSUME Inv, SeqInv, SequentialClient,
         \/ \E o \in Orders : ChainDecides(o) \/ Ages(o)
         \/ \E c \in Confirmers : ConfirmUpdate(c)
         \/ LockExpires
  PROVE  SeqInv'
<1> USE DEF Inv, SeqInv, rowVars, chainVars, clientVars, listVars, tickVars
<1>1. ASSUME NEW o \in Orders, ChainDecides(o) PROVE SeqInv'
  <2>1. BuildingInv' /\ ConfirmingInv' /\ ExecutingInv' /\ PushingInv' /\ ListInv' /\
      PendingInv' /\ OneFollowUp'
    BY <1>1 DEF ChainDecides, BuildingInv, ConfirmingInv, ExecutingInv, PushingInv,
        ListInv, PendingInv, OneFollowUp, Pending
  <2> QED BY <2>1 DEF SeqInv
<1>2. ASSUME NEW o \in Orders, Ages(o) PROVE SeqInv'
  <2>1. BuildingInv' /\ ConfirmingInv' /\ ExecutingInv' /\ PushingInv' /\ ListInv' /\
      PendingInv' /\ OneFollowUp'
    BY <1>2 DEF Ages, BuildingInv, ConfirmingInv, ExecutingInv, PushingInv, ListInv,
        PendingInv, OneFollowUp, Pending
  <2> QED BY <2>1 DEF SeqInv
<1>3. ASSUME NEW c \in Confirmers, ConfirmUpdate(c) PROVE SeqInv'
  <2>1. BuildingInv'
    BY <1>3 DEF ConfirmUpdate, MayFail, UpdateOrderBySelect, Fault, BuildingInv, TypeOK,
        ConfirmInv
  <2>2. ConfirmingInv'
    BY <1>3, SentinelAssumption DEF ConfirmUpdate, MayFail, UpdateOrderBySelect, Fault,
        ConfirmingInv, SequentialClient, TypeOK
  <2>3. ExecutingInv'
    BY <1>3, SentinelAssumption DEF ConfirmUpdate, MayFail, UpdateOrderBySelect, Fault,
        ExecutingInv, ListInv, TypeOK, ClientInv, ConfirmInv
  <2>4. PushingInv'
    BY <1>3 DEF ConfirmUpdate, MayFail, UpdateOrderBySelect, Fault, PushingInv, ListInv,
        TypeOK, ClientInv, ConfirmInv
  <2>5. PendingInv'
    BY <1>3, SentinelAssumption DEF ConfirmUpdate, MayFail, UpdateOrderBySelect, Fault,
        PendingInv, Pending, ConfirmingInv, TypeOK
  <2>6. ListInv' /\ OneFollowUp'
    BY <1>3 DEF ConfirmUpdate, ListInv, OneFollowUp
  <2> QED BY <2>1, <2>2, <2>3, <2>4, <2>5, <2>6 DEF SeqInv
<1>4. ASSUME LockExpires PROVE SeqInv'
  <2>1. BuildingInv' /\ ConfirmingInv' /\ ExecutingInv' /\ PushingInv' /\ ListInv' /\
      PendingInv' /\ OneFollowUp'
    BY <1>4 DEF LockExpires, BuildingInv, ConfirmingInv, ExecutingInv, PushingInv,
        ListInv, PendingInv, OneFollowUp, Pending
  <2> QED BY <2>1 DEF SeqInv
<1> QED BY <1>1, <1>2, <1>3, <1>4

-----------------------------------------------------------------------------
(* The invariants of the specification. *)

\* Both invariants hold while the table is empty.
LEMMA InitEstablishesInv == Init => Inv /\ SeqInv
<1> SUFFICES ASSUME Init PROVE Inv /\ SeqInv
  OBVIOUS
<1> USE SentinelAssumption DEF Init
<1>1. TypeOK
  BY BoundAssumption, TickerAssumption DEF TypeOK, Status, ValidRequests, Unplaced, Young, OutOfWindow,
     IdleMatcher, IdleTick
<1>2. NoRowInv /\ WaitingInv /\ ClientInv /\ LimitInv /\ RetractedInv
  BY DEF NoRowInv, WaitingInv, ClientInv, LimitInv, RetractedInv, IdleMatcher, IdleTick
<1>3. ConfirmInv /\ MatcherInv /\ TickInv
  BY DEF ConfirmInv, MatcherInv, TickInv, IdleMatcher, IdleTick
<1>4. FilledMeansLanded /\ FollowUpLineage /\ OneExecutor
  BY DEF FilledMeansLanded, FollowUpLineage, OneExecutor, IdleMatcher
<1>5. BuildingInv /\ ConfirmingInv /\ ExecutingInv /\ PushingInv /\ ListInv
  BY DEF BuildingInv, ConfirmingInv, ExecutingInv, PushingInv, ListInv, IdleMatcher
<1>6. PendingInv /\ OneFollowUp
  BY DEF PendingInv, OneFollowUp, Pending, IdleTick
<1> QED BY <1>1, <1>2, <1>3, <1>4, <1>5, <1>6 DEF Inv, SeqInv

\* Inv is inductive.
LEMMA NextKeepsInv == Inv /\ [Next]_vars => Inv'
<1>1. ASSUME Inv, Next PROVE Inv'
  BY <1>1, UserStepKeepsInv, ServiceStepKeepsInv, MatcherStepKeepsInv, TickerStepKeepsInv,
     EnvironmentKeepsInv DEF Next
<1>2. ASSUME Inv, UNCHANGED vars PROVE Inv'
  BY <1>2 DEF vars, rowVars, chainVars, clientVars, listVars, tickVars, Inv, TypeOK, NoRowInv,
     WaitingInv, ClientInv, ConfirmInv, MatcherInv, TickInv, LimitInv, RetractedInv,
     FilledMeansLanded, FollowUpLineage, OneExecutor
<1> QED BY <1>1, <1>2

\* For any number of orders and any interleaving of their writers, Inv holds.
THEOREM InvHolds == Spec => []Inv
<1>1. Init => Inv
  BY InitEstablishesInv
<1> QED BY <1>1, NextKeepsInv, PTL DEF Spec

\* Type correctness.
THEOREM TypeCorrect == Spec => []TypeOK
<1>1. Inv => TypeOK
  BY DEF Inv
<1> QED BY <1>1, InvHolds, PTL

\* Only an order whose swap was executed is shown as filled (finalizeOrder).
THEOREM FilledMeansLandedHolds == Spec => []FilledMeansLanded
<1>1. Inv => FilledMeansLanded
  BY DEF Inv
<1> QED BY <1>1, InvHolds, PTL

\* A follow-up sell always belongs to a user's executed buy that asked for it
\* (processDoubleOut, processTrailingAttach).
THEOREM FollowUpLineageHolds == Spec => []FollowUpLineage
<1>1. Inv => FollowUpLineage
  BY DEF Inv
<1> QED BY <1>1, InvHolds, PTL

\* No order is executed by two matchers at a time (executeTrailingStopOrder).
THEOREM OneExecutorHolds == Spec => []OneExecutor
<1>1. Inv => OneExecutor
  BY DEF Inv
<1> QED BY <1>1, InvHolds, PTL

\* No swap is submitted for an order cancelled while it waited (CancelOrder).
THEOREM NoSwapAfterCancelHolds == Spec => []NoSwapAfterCancel
<1>1. Inv => NoSwapAfterCancel
  BY DEF Inv, RetractedInv, NoSwapAfterCancel
<1> QED BY <1>1, InvHolds, PTL

\* SeqInv is inductive on top of Inv when confirmations do not overlap.
LEMMA NextKeepsSeqInv ==
  ASSUME SequentialClient
  PROVE  Inv /\ SeqInv /\ [Next]_vars => SeqInv'
<1>1. ASSUME Inv, SeqInv, Next PROVE SeqInv'
  BY <1>1, UserStepKeepsSeqInv, ServiceStepKeepsSeqInv, MatcherStepKeepsSeqInv,
     TickerStepKeepsSeqInv, EnvironmentKeepsSeqInv DEF Next
<1>2. ASSUME SeqInv, UNCHANGED vars PROVE SeqInv'
  BY <1>2 DEF vars, rowVars, chainVars, clientVars, listVars, tickVars, SeqInv, BuildingInv,
     ConfirmingInv, ExecutingInv, PushingInv, ListInv, PendingInv, Pending, OneFollowUp
<1> QED BY <1>1, <1>2

\* With a client that does not overlap its confirmations, SeqInv holds too.
THEOREM SeqInvHolds ==
  ASSUME SequentialClient
  PROVE  Spec => []SeqInv
<1>1. Init => SeqInv
  BY InitEstablishesInv
<1>2. Inv /\ SeqInv /\ [Next]_vars => SeqInv'
  BY NextKeepsSeqInv
<1> QED BY <1>1, <1>2, InvHolds, PTL DEF Spec

\* With such a client, a buy gets at most one follow-up sell, however many
\* tickers run, crash or lose their lock (finalizeOrder).
THEOREM OneFollowUpHolds ==
  ASSUME SequentialClient
  PROVE  Spec => []OneFollowUp
<1>1. SeqInv => OneFollowUp
  BY DEF SeqInv
<1> QED BY <1>1, SeqInvHolds, PTL

-----------------------------------------------------------------------------
(* TradeOrders implements OrderLifecycle. *)

\* A write along one of the lifecycle's arrows is a step of OrderLifecycle.
LEMMA ForwardWrite ==
  ASSUME NEW o \in Orders, NEW s \in Lifecycle!Status,
         <<status[o], s>> \in Lifecycle!Forward,
         status' = [status EXCEPT ![o] = s]
  PROVE  Lifecycle!Next
BY DEF Lifecycle!Next, Lifecycle!Advance

\* Users only create orders, and cancel them by compare-and-swap.
LEMMA UserForward ==
  ASSUME Inv, SeqInv, NEW o \in Orders, UserStep(o)
  PROVE  [Lifecycle!Next]_status
<1> USE DEF Lifecycle!Status, Lifecycle!Forward
<1>1. ASSUME NEW r \in Requests, CreateMarketOrder(o, r) PROVE Lifecycle!Next
  BY <1>1, ForwardWrite DEF CreateMarketOrder, InsertWithLog
<1>2. ASSUME NEW r \in Requests, CreateTradeOrder(o, r) PROVE Lifecycle!Next
  BY <1>2, ForwardWrite DEF CreateTradeOrder, InsertWithLog
<1>3. ASSUME CancelOrder(o) PROVE Lifecycle!Next
  BY <1>3, ForwardWrite DEF CancelOrder, UpdateOrderStatus
<1>4. ASSUME ClientSends(o) \/ ClientSeesSwap(o) \/ ClientGivesUp(o) PROVE UNCHANGED status
  BY <1>4 DEF ClientSends, ClientSeesSwap, ClientGivesUp, rowVars
<1> QED BY <1>1, <1>2, <1>3, <1>4 DEF UserStep

\* A handler writes Fail to an order that is still Proc or Waiting, or Cancel
\* by now.
LEMMA ServiceForward ==
  ASSUME Inv, SeqInv, ~LostReplies, NEW o \in Orders, ServiceStep(o)
  PROVE  [Lifecycle!Next]_status
<1> USE DEF Lifecycle!Status, Lifecycle!Forward, SeqInv
<1>1. ASSUME CreateMarketTxFails(o) PROVE [Lifecycle!Next]_status
  BY <1>1, ForwardWrite DEF CreateMarketTxFails, MayFail, UpdateOrderBySelect, BuildingInv
<1>2. ASSUME AddOrderToRedisFails(o) PROVE [Lifecycle!Next]_status
  BY <1>2, ForwardWrite DEF AddOrderToRedisFails, UpdateOrderBySelect, PushingInv
<1>3. ASSUME \/ CreateMarketTx(o) \/ AddOrderToRedis(o)
             \/ \E c \in Confirmers : ConfirmMarketOrder(c, o)
      PROVE  UNCHANGED status
  BY <1>3 DEF CreateMarketTx, AddOrderToRedis, ConfirmMarketOrder, rowVars
<1> QED BY <1>1, <1>2, <1>3 DEF ServiceStep

\* A matcher takes an order to Proc by compare-and-swap, and owns it until it
\* has written the result.
LEMMA MatcherForward ==
  ASSUME Inv, SeqInv, ~LostReplies, NEW m \in Matchers, MatcherStep(m)
  PROVE  [Lifecycle!Next]_status
<1> USE DEF Lifecycle!Status, Lifecycle!Forward
<1>1. ASSUME NEW o \in Orders, ExecuteOrder(m, o) PROVE Lifecycle!Next
  BY <1>1, ForwardWrite DEF ExecuteOrder, UpdateOrderStatus
<1>2. ASSUME UpdateDbByTxResult(m) PROVE [Lifecycle!Next]_status
  <2> DEFINE o == matcher[m].cur
  <2>1. o \in Orders /\ status[o] \in {"proc", "cancel"}
    BY <1>2 DEF UpdateDbByTxResult, Inv, SeqInv, TypeOK, MatcherInv, ExecutingInv
  <2> QED BY <1>2, <2>1, ForwardWrite DEF UpdateDbByTxResult, MayFail, UpdateOrderBySelect
<1>3. ASSUME ServerSwap(m) \/ MatcherCrash(m) PROVE UNCHANGED status
  BY <1>3 DEF ServerSwap, MatcherCrash, rowVars
<1> QED BY <1>1, <1>2, <1>3 DEF MatcherStep

\* The ticker settles by compare-and-swap and inserts new rows.
LEMMA TickerForward ==
  ASSUME Inv, SeqInv, NEW t \in Tickers, TickerStep(t)
  PROVE  [Lifecycle!Next]_status
<1> USE DEF Lifecycle!Status, Lifecycle!Forward
<1>1. ASSUME NEW o \in Orders, FinalizeOrder(t, o) PROVE Lifecycle!Next
  BY <1>1, ForwardWrite DEF FinalizeOrder, UpdateOrderStatus
<1>2. ASSUME NEW o \in Orders, FailOrder(t, o) PROVE Lifecycle!Next
  BY <1>2, ForwardWrite DEF FailOrder, UpdateOrderStatus
<1>3. ASSUME NEW c \in Orders, CreateFollowUp(t, c) PROVE Lifecycle!Next
  BY <1>3, ForwardWrite DEF CreateFollowUp, InsertWithLog
<1>4. ASSUME \/ CheckOnChainTx(t) \/ \E o \in Orders : SkipOrder(t, o)
             \/ BackfillFinal(t) \/ NoFollowUp(t) \/ TickEnds(t) \/ TickerCrash(t)
      PROVE  UNCHANGED status
  BY <1>4 DEF CheckOnChainTx, SkipOrder, BackfillFinal, NoFollowUp, TickEnds, TickerCrash,
     rowVars
<1> QED BY <1>1, <1>2, <1>3, <1>4 DEF TickerStep

\* Every step of TradeOrders is a step of OrderLifecycle or leaves every status alone.
LEMMA NextForward ==
  ASSUME ~LostReplies
  PROVE  Inv /\ SeqInv /\ [Next]_vars => [Lifecycle!Next]_status
<1> SUFFICES ASSUME Inv, SeqInv, [Next]_vars PROVE [Lifecycle!Next]_status
  OBVIOUS
<1>1. ASSUME NEW c \in Confirmers, ConfirmUpdate(c) PROVE [Lifecycle!Next]_status
  <2> DEFINE o == confirm[c]
  <2>1. o \in Orders /\ status[o] \in {"proc", "cancel"}
    BY <1>1 DEF ConfirmUpdate, Inv, SeqInv, TypeOK, ConfirmingInv
  <2> QED BY <1>1, <2>1, ForwardWrite
          DEF ConfirmUpdate, MayFail, UpdateOrderBySelect, Lifecycle!Status, Lifecycle!Forward
<1>2. ASSUME LockExpires \/ \E o \in Orders : ChainDecides(o) \/ Ages(o)
      PROVE  UNCHANGED status
  BY <1>2 DEF LockExpires, ChainDecides, Ages, rowVars
<1>3. ASSUME UNCHANGED vars PROVE UNCHANGED status
  BY <1>3 DEF vars, rowVars
<1> QED BY <1>1, <1>2, <1>3, UserForward, ServiceForward, MatcherForward, TickerForward
        DEF Next

\* With a client that does not overlap its confirmations, and no lost reply of
\* Redis, every write of the status column moves the order forward, whoever does it.
THEOREM LifecycleRefined ==
  ASSUME SequentialClient, ~LostReplies
  PROVE  Spec => LifecycleSpec
<1>1. Init => Lifecycle!Init
  BY DEF Init, Lifecycle!Init
<1> QED BY <1>1, NextForward, InvHolds, SeqInvHolds, PTL DEF Spec, LifecycleSpec, Lifecycle!Spec
=============================================================================
