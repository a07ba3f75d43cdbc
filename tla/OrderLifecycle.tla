-------------------------- MODULE OrderLifecycle --------------------------
(***************************************************************************)
(* What the trade service promises about the status column of trade_order, *)
(* whatever the interleaving of its request handlers, matchers and ticker: *)
(* an order only moves forward.  The statuses are those of trade.proto     *)
(* (FailTimeout is declared there but never written by the service).       *)
(***************************************************************************)

CONSTANT Orders             \* ids of trade_order rows

VARIABLE status             \* status[o], "none" while no row has id o

\* The statuses the service writes.
Status == {"waiting", "proc", "onchain", "fail", "suc", "cancel"}

\* An order waits for its price (waiting), is being swapped (proc), has a swap
\* on the chain (onchain), and ends filled (suc) or failed.  A cancelled order
\* may still move: its swap may already be under way when the user cancels.
Forward ==
  {<<"none", "waiting">>, <<"none", "proc">>,
   <<"waiting", "proc">>, <<"waiting", "cancel">>, <<"waiting", "fail">>,
   <<"proc", "onchain">>, <<"proc", "fail">>, <<"proc", "cancel">>,
   <<"cancel", "onchain">>, <<"cancel", "fail">>,
   <<"onchain", "suc">>, <<"onchain", "fail">>}

Init == status = [o \in Orders |-> "none"]

Advance(o) ==
  \E s \in Status :
    /\ <<status[o], s>> \in Forward
    /\ status' = [status EXCEPT ![o] = s]

Next == \E o \in Orders : Advance(o)

Spec == Init /\ [][Next]_status
=============================================================================
