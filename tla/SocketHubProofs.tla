-------------------------- MODULE SocketHubProofs --------------------------
(***************************************************************************)
(* Proofs about SocketHub, for any number of clients, channel capacity and *)
(* number of updates: no channel is closed twice, nor written to after it  *)
(* was closed.                                                             *)
(***************************************************************************)
EXTENDS SocketHub, TLAPS

-----------------------------------------------------------------------------
(* The inductive invariant.                                                *)

\* A channel is closed in the step in which its client leaves the map ...
ClosedInv == clients \cap closed = {}

\* ... and a connection joins the map once, before it is ever closed.
JoinInv ==
  \A c \in Clients : handler[c] \in {"none", "upgraded"} => c \notin clients \cup closed

\* Nobody is visited without the read lock, which keeps the map as it was.
VisitInv == ~offering => visiting = {}

\* An update starts at most one dropping goroutine for a client.
DropInv ==
  \A c \in Clients : dropping[c] + (IF c \in visiting THEN 1 ELSE 0) <= updates

IInv == TypeOK /\ ClosedInv /\ JoinInv /\ VisitInv /\ DropInv /\ NoPanic

LEMMA InitInv == Init => IInv
<1> SUFFICES ASSUME Init PROVE IInv
  OBVIOUS
<1> USE DEF Init
<1>1. panicked \in BOOLEAN /\ offering \in BOOLEAN
  BY Zenon
<1>2. TypeOK
  BY <1>1, HubAssumption, SMT DEF TypeOK
<1>3. ClosedInv /\ JoinInv /\ VisitInv /\ DropInv /\ NoPanic
  BY SMT DEF ClosedInv, JoinInv, VisitInv, DropInv, NoPanic
<1> QED
  BY <1>2, <1>3 DEF IInv

\* Connecting: only Register touches the map.
LEMMA HandlerStep ==
  ASSUME IInv, NEW c \in Clients,
         Upgrade(c) \/ Register(c) \/ SendWelcomeMessage(c) \/ StartLoops(c)
  PROVE  IInv'
<1> USE HubAssumption DEF IInv, TypeOK, mapVars, loopVars, offerVars, dropVars
<1>1. CASE Upgrade(c)
  BY <1>1, SMT DEF Upgrade, ClosedInv, JoinInv, VisitInv, DropInv, NoPanic
<1>2. CASE Register(c)
  BY <1>2, SMT DEF Register, Lockable, ClosedInv, JoinInv, VisitInv, DropInv, NoPanic
<1>3. CASE SendWelcomeMessage(c)
  BY <1>3, SMT DEF SendWelcomeMessage, Room, ClosedInv, JoinInv, VisitInv, DropInv, NoPanic
<1>4. CASE StartLoops(c)
  BY <1>4, SMT DEF StartLoops, ClosedInv, JoinInv, VisitInv, DropInv, NoPanic
<1> QED
  BY <1>1, <1>2, <1>3, <1>4

\* A client leaves the map once: a second removal finds it gone.
LEMMA RemovalIsClean ==
  ASSUME IInv, NEW c \in Clients, RemoveClient(c)
  PROVE  /\ clients' \subseteq clients
         /\ clients' \cup closed' = clients \cup closed
         /\ closed' \subseteq Clients
         /\ visiting \subseteq clients'
         /\ ClosedInv' /\ NoPanic' /\ panicked' = FALSE
<1> USE DEF IInv, TypeOK, RemoveClient, Lockable, mapVars
<1>1. panicked = FALSE
  BY Zenon DEF NoPanic
<1>2. c \in clients => c \notin closed
  BY DEF ClosedInv
<1>3. panicked' = FALSE
  BY <1>1, <1>2, Zenon
<1>4. NoPanic'
  BY <1>3 DEF NoPanic
<1>5. visiting = {}
  BY DEF VisitInv
<1> QED
  BY <1>3, <1>4, <1>5, SMT DEF ClosedInv

LEMMA ReaderStep ==
  ASSUME IInv, NEW c \in Clients, ReadLoop(c) \/ PeerCloses(c)
  PROVE  IInv'
<1> USE DEF IInv, TypeOK, mapVars, loopVars, offerVars, dropVars
<1>1. CASE PeerCloses(c)
  BY <1>1, SMT DEF PeerCloses, Close, ClosedInv, JoinInv, VisitInv, DropInv, NoPanic
<1>2. CASE ReadFails(c)
  BY <1>2, SMT DEF ReadFails, ClosedInv, JoinInv, VisitInv, DropInv, NoPanic
<1>3. CASE ReaderRemoves(c)
  <2>1. RemoveClient(c)
    BY <1>3 DEF ReaderRemoves
  <2>2. /\ clients' \subseteq clients /\ clients' \cup closed' = clients \cup closed
        /\ closed' \subseteq Clients /\ visiting \subseteq clients'
        /\ ClosedInv' /\ NoPanic' /\ panicked' = FALSE
    BY <2>1, RemovalIsClean
  <2>3. panicked' \in BOOLEAN
    BY <2>2, Zenon
  <2>4. TypeOK'
    BY <1>3, <2>2, <2>3, SMT DEF ReaderRemoves
  <2>5. JoinInv' /\ VisitInv' /\ DropInv'
    BY <1>3, <2>2, SMT DEF ReaderRemoves, JoinInv, VisitInv, DropInv
  <2> QED
    BY <2>2, <2>4, <2>5
<1>4. CASE ReaderCloses(c)
  BY <1>4, SMT DEF ReaderCloses, Close, ClosedInv, JoinInv, VisitInv, DropInv, NoPanic
<1> QED
  BY <1>1, <1>2, <1>3, <1>4 DEF ReadLoop

LEMMA WriterStep ==
  ASSUME IInv, NEW c \in Clients, WriteLoop(c) \/ PingFails(c)
  PROVE  IInv'
<1> USE HubAssumption DEF IInv, TypeOK, mapVars, loopVars, offerVars, dropVars
<1>1. CASE WriteMessage(c)
  BY <1>1, SMT DEF WriteMessage, ClosedInv, JoinInv, VisitInv, DropInv, NoPanic
<1>2. CASE WriterEnds(c)
  BY <1>2, SMT DEF WriterEnds, ClosedInv, JoinInv, VisitInv, DropInv, NoPanic
<1>3. CASE PingFails(c)
  BY <1>3, SMT DEF PingFails, ClosedInv, JoinInv, VisitInv, DropInv, NoPanic
<1> QED
  BY <1>1, <1>2, <1>3 DEF WriteLoop

LEMMA DropperStep ==
  ASSUME IInv, NEW c \in Clients, Dropper(c)
  PROVE  IInv'
<1> USE HubAssumption DEF IInv, TypeOK, mapVars, loopVars, offerVars, dropVars
<1>1. CASE Drop(c)
  <2>1. RemoveClient(c)
    BY <1>1 DEF Drop
  <2>2. /\ clients' \subseteq clients /\ clients' \cup closed' = clients \cup closed
        /\ closed' \subseteq Clients /\ visiting \subseteq clients'
        /\ ClosedInv' /\ NoPanic' /\ panicked' = FALSE
    BY <2>1, RemovalIsClean
  <2>3. panicked' \in BOOLEAN
    BY <2>2, Zenon
  <2>4. TypeOK'
    BY <1>1, <2>2, <2>3, SMT DEF Drop
  <2>5. JoinInv' /\ VisitInv' /\ DropInv'
    BY <1>1, <2>2, SMT DEF Drop, JoinInv, VisitInv, DropInv
  <2> QED
    BY <2>2, <2>4, <2>5
<1>2. CASE DropCloses(c)
  BY <1>2, SMT DEF DropCloses, Close, ClosedInv, JoinInv, VisitInv, DropInv, NoPanic
<1> QED
  BY <1>1, <1>2 DEF Dropper

LEMMA SubscriptionStep ==
  ASSUME IInv, Subscription
  PROVE  IInv'
<1> USE HubAssumption DEF IInv, TypeOK, mapVars, loopVars, offerVars, dropVars
<1>1. CASE TakeUpdate
  <2>1. offering' \in BOOLEAN /\ offering'
    BY <1>1, Zenon DEF TakeUpdate
  <2>2. TypeOK'
    BY <1>1, <2>1, SMT DEF TakeUpdate
  <2>3. ClosedInv' /\ JoinInv' /\ VisitInv' /\ NoPanic'
    BY <1>1, <2>1, SMT DEF TakeUpdate, ClosedInv, JoinInv, VisitInv, NoPanic
  <2>4. DropInv'
    BY <1>1, SMT DEF TakeUpdate, DropInv, VisitInv
  <2> QED
    BY <2>2, <2>3, <2>4
<1>2. CASE EndOffer
  <2>1. offering' \in BOOLEAN
    BY <1>2, Zenon DEF EndOffer
  <2>2. visiting' = {}
    BY <1>2 DEF EndOffer
  <2>3. TypeOK'
    BY <1>2, <2>1, SMT DEF EndOffer
  <2>4. ClosedInv' /\ JoinInv' /\ VisitInv' /\ DropInv' /\ NoPanic'
    BY <1>2, <2>2, SMT DEF EndOffer, ClosedInv, JoinInv, VisitInv, DropInv, NoPanic
  <2> QED
    BY <2>3, <2>4
<1>3. ASSUME NEW c \in Clients, Offer(c)
      PROVE  IInv'
  <2>1. c \in clients /\ c \notin closed
    BY <1>3, SMT DEF Offer, ClosedInv
  <2>2. ~panicked /\ panicked' = FALSE
    <3>1. ~panicked
      BY DEF NoPanic
    <3>2. panicked' = panicked \/ panicked' = (panicked \/ c \in closed)
      BY <1>3, Zenon DEF Offer
    <3> QED
      BY <3>1, <3>2, <2>1
  <2>3. /\ send' \in [Clients -> 0..Capacity]
        /\ lagged' \subseteq Clients
        /\ \/ dropping' = dropping
           \/ dropping' = [dropping EXCEPT ![c] = @ + 1]
    BY <1>3, SMT DEF Offer, Room, Lags
  <2>4. /\ c \in visiting /\ visiting' = visiting \ {c}
        /\ UNCHANGED <<conn, handler, clients, closed, reader, writer, updates, offering, closing>>
    BY <1>3 DEF Offer
  <2>5. DropInv' /\ dropping' \in [Clients -> 0..MaxUpdates]
    BY <2>3, <2>4, SMT DEF DropInv
  <2>6. TypeOK'
    <3>1. panicked' \in BOOLEAN
      BY <2>2, Zenon
    <3> QED
      BY <3>1, <2>3, <2>4, <2>5, SMT
  <2>7. ClosedInv' /\ JoinInv' /\ VisitInv' /\ NoPanic'
    BY <2>2, <2>4, SMT DEF ClosedInv, JoinInv, VisitInv, NoPanic
  <2> QED
    BY <2>5, <2>6, <2>7
<1> QED
  BY <1>1, <1>2, <1>3 DEF Subscription

LEMMA StepInv == IInv /\ [Next]_vars => IInv'
<1> SUFFICES ASSUME IInv, [Next]_vars PROVE IInv'
  OBVIOUS
<1>1. CASE Subscription
  BY <1>1, SubscriptionStep
<1>2. ASSUME NEW c \in Clients, Upgrade(c) \/ Handle(c)
      PROVE  IInv'
  BY <1>2, HandlerStep DEF Handle
<1>3. ASSUME NEW c \in Clients, PeerCloses(c) \/ ReadLoop(c)
      PROVE  IInv'
  BY <1>3, ReaderStep
<1>4. ASSUME NEW c \in Clients, WriteLoop(c) \/ PingFails(c)
      PROVE  IInv'
  BY <1>4, WriterStep
<1>5. ASSUME NEW c \in Clients, Dropper(c)
      PROVE  IInv'
  BY <1>5, DropperStep
<1>6. CASE UNCHANGED vars
  BY <1>6 DEF vars, mapVars, loopVars, offerVars, dropVars, IInv, TypeOK, ClosedInv, JoinInv,
              VisitInv, DropInv, NoPanic
<1> QED
  BY <1>1, <1>2, <1>3, <1>4, <1>5, <1>6 DEF Next

-----------------------------------------------------------------------------
(* The theorems.                                                           *)

LEMMA InvariantHolds == Spec => []IInv
<1>1. Init => IInv
  BY InitInv
<1>2. IInv /\ [Next]_vars => IInv'
  BY StepInv
<1> QED
  BY <1>1, <1>2, PTL DEF Spec

\* The map, the channels and the goroutines keep their types: what is visited
\* is in the map, and no more goroutines drop a client than there were updates.
THEOREM TypeCorrect == Spec => []TypeOK
  BY InvariantHolds, PTL DEF IInv

\* However its readLoop, its dropping goroutines and an update in progress
\* interleave, the channel of a client is closed once, and no update is offered
\* to it afterwards: the server does not panic.
THEOREM NoPanicHolds == Spec => []NoPanic
  BY InvariantHolds, PTL DEF IInv
=============================================================================
