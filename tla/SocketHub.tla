----------------------------- MODULE SocketHub -----------------------------
(***************************************************************************)
(* WebSocket: the server that fans updates out to browsers.  An endpoint   *)
(* keeps a map of its clients under a read-write lock, and for each client *)
(* a bounded channel, a goroutine that reads the connection and one that   *)
(* writes what is in the channel to it.  A subscription takes updates from *)
(* Redis and offers each to every client of the map; a client whose        *)
(* channel is full is dropped by a goroutine of its own.                   *)
(*                                                                         *)
(* The token and the kline endpoint differ in the welcome message.  Which  *)
(* update is for which client (chain, category, pair) is a free choice: a  *)
(* client changes its categories while an update is offered, unprotected.  *)
(***************************************************************************)
EXTENDS Integers

CONSTANTS
  Clients,     \* connections that may be made
  Capacity,    \* of a client's channel (256)
  Welcomes,    \* the endpoint sends a welcome message
  MaxUpdates   \* bound: updates taken from Redis

ASSUME HubAssumption ==
  Capacity \in Nat \ {0} /\ Welcomes \in BOOLEAN /\ MaxUpdates \in Nat

VARIABLES
  conn,        \* each connection
  handler,     \* progress of the HTTP handler of each connection
  clients,     \* the map, as the set of its keys
  send,        \* messages in the channel of each client
  closed,      \* clients whose channel is closed
  reader,      \* progress of each readLoop
  writer,      \* progress of each writeLoop
  updates,     \* updates taken so far
  offering,    \* the subscription is iterating, under RLock
  visiting,    \* clients it has still to offer the update to
  dropping,    \* goroutines about to remove each client
  closing,     \* clients whose connection a dropping goroutine is about to close
  lagged,      \* history: clients whose channel an update found full
  panicked     \* the server died: a channel was closed, or sent to, after its close

mapVars == <<clients, closed, panicked>>
loopVars == <<reader, writer>>
offerVars == <<updates, offering, visiting>>
dropVars == <<dropping, closing, lagged>>
vars == <<conn, handler, mapVars, send, loopVars, offerVars, dropVars>>

TypeOK ==
  /\ conn \in [Clients -> {"none", "open", "closed"}]
  /\ handler \in [Clients -> {"none", "upgraded", "registered", "welcomed", "returned",
                              "aborted"}]
  /\ clients \subseteq Clients /\ closed \subseteq Clients
  /\ send \in [Clients -> 0..Capacity]
  /\ reader \in [Clients -> {"none", "reading", "leaving", "closing", "done"}]
  /\ writer \in [Clients -> {"none", "writing", "done"}]
  /\ updates \in 0..MaxUpdates /\ offering \in BOOLEAN
  /\ visiting \subseteq clients
  /\ dropping \in [Clients -> 0..MaxUpdates]
  /\ closing \subseteq Clients /\ lagged \subseteq Clients /\ panicked \in BOOLEAN

Init ==
  /\ conn = [c \in Clients |-> "none"] /\ handler = [c \in Clients |-> "none"]
  /\ clients = {} /\ closed = {} /\ panicked = FALSE
  /\ send = [c \in Clients |-> 0]
  /\ reader = [c \in Clients |-> "none"] /\ writer = [c \in Clients |-> "none"]
  /\ updates = 0 /\ offering = FALSE /\ visiting = {}
  /\ dropping = [c \in Clients |-> 0] /\ closing = {} /\ lagged = {}

\* Mutant of Room: one message too many.
RoomForOneMore(c) == send[c] <= Capacity

Room(c) == send[c] < Capacity

\* Lock is had when no update is being offered; the code between Lock and
\* Unlock is one step.
Lockable == ~offering

-----------------------------------------------------------------------------
(* HandleTokenWebSocket, HandleKlineWebSocket. *)

Upgrade(c) ==
  /\ handler[c] = "none"
  /\ handler' = [handler EXCEPT ![c] = "upgraded"]
  /\ conn' = [conn EXCEPT ![c] = "open"]
  /\ UNCHANGED <<mapVars, send, loopVars, offerVars, dropVars>>

Register(c) ==
  /\ handler[c] = "upgraded"
  /\ Lockable
  /\ clients' = clients \cup {c}
  /\ handler' = [handler EXCEPT ![c] = IF Welcomes THEN "registered" ELSE "welcomed"]
  /\ UNCHANGED <<conn, closed, panicked, send, loopVars, offerVars, dropVars>>

\* sendWelcomeMessage: after the lock was released.  If the client has been
\* dropped meanwhile the handler panics, which net/http recovers.
SendWelcomeMessage(c) ==
  /\ handler[c] = "registered"
  /\ handler' = [handler EXCEPT ![c] = IF c \in closed THEN "aborted" ELSE "welcomed"]
  /\ send' = IF c \notin closed /\ Room(c) THEN [send EXCEPT ![c] = @ + 1] ELSE send
  /\ UNCHANGED <<conn, mapVars, loopVars, offerVars, dropVars>>

StartLoops(c) ==
  /\ handler[c] = "welcomed"
  /\ handler' = [handler EXCEPT ![c] = "returned"]
  /\ reader' = [reader EXCEPT ![c] = "reading"]
  /\ writer' = [writer EXCEPT ![c] = "writing"]
  /\ UNCHANGED <<conn, mapVars, send, offerVars, dropVars>>

-----------------------------------------------------------------------------
(* Leaving the map. *)

\* Mutant of RemoveClient: the channel is closed whether or not the client is
\* still in the map.
RemoveClientUnchecked(c) ==
  /\ Lockable
  /\ closed' = closed \cup {c}
  /\ clients' = clients \ {c}
  /\ panicked' = (panicked \/ c \in closed)

\* removeClient: the channel is closed and the client leaves the map, once.
RemoveClient(c) ==
  /\ Lockable
  /\ IF c \in clients
     THEN /\ closed' = closed \cup {c}
          /\ clients' = clients \ {c}
          /\ panicked' = (panicked \/ c \in closed)
     ELSE UNCHANGED mapVars

Close(c) == conn' = [conn EXCEPT ![c] = "closed"]

\* The browser goes away.
PeerCloses(c) ==
  /\ conn[c] = "open"
  /\ Close(c)
  /\ UNCHANGED <<handler, mapVars, send, loopVars, offerVars, dropVars>>

\* readLoop: a failed read ends it; the client is removed, the connection closed.
ReadFails(c) ==
  /\ reader[c] = "reading"
  /\ conn[c] = "closed"
  /\ reader' = [reader EXCEPT ![c] = "leaving"]
  /\ UNCHANGED <<conn, handler, mapVars, send, writer, offerVars, dropVars>>

ReaderRemoves(c) ==
  /\ reader[c] = "leaving"
  /\ RemoveClient(c)
  /\ reader' = [reader EXCEPT ![c] = "closing"]
  /\ UNCHANGED <<conn, handler, send, writer, offerVars, dropVars>>

ReaderCloses(c) ==
  /\ reader[c] = "closing"
  /\ Close(c)
  /\ reader' = [reader EXCEPT ![c] = "done"]
  /\ UNCHANGED <<handler, mapVars, send, writer, offerVars, dropVars>>

\* The goroutine of a client whose channel was full.
Drop(c) ==
  /\ dropping[c] > 0
  /\ RemoveClient(c)
  /\ dropping' = [dropping EXCEPT ![c] = @ - 1]
  /\ closing' = closing \cup {c}
  /\ UNCHANGED <<conn, handler, send, loopVars, offerVars, lagged>>

DropCloses(c) ==
  /\ c \in closing
  /\ Close(c)
  /\ closing' = closing \ {c}
  /\ UNCHANGED <<handler, mapVars, send, loopVars, offerVars, dropping, lagged>>

-----------------------------------------------------------------------------
(* writeLoop. *)

\* A message is written.  A failed write, to a slow browser too, loses it and
\* ends the loop, and that is all: the client stays in the map and, if it was
\* open, its connection stays open.
WriteMessage(c) ==
  /\ writer[c] = "writing"
  /\ send[c] > 0
  /\ send' = [send EXCEPT ![c] = @ - 1]
  /\ \/ conn[c] = "open" /\ UNCHANGED writer
     \/ writer' = [writer EXCEPT ![c] = "done"]
  /\ UNCHANGED <<conn, handler, mapVars, reader, offerVars, dropVars>>

\* So does a failed ping, with a connection that is open ...
PingFails(c) ==
  /\ writer[c] = "writing"
  /\ conn[c] = "open"
  /\ writer' = [writer EXCEPT ![c] = "done"]
  /\ UNCHANGED <<conn, handler, mapVars, send, reader, offerVars, dropVars>>

\* ... or closed; and the loop ends with a channel that is closed and empty.
WriterEnds(c) ==
  /\ writer[c] = "writing"
  /\ conn[c] = "closed" \/ (c \in closed /\ send[c] = 0)
  /\ writer' = [writer EXCEPT ![c] = "done"]
  /\ UNCHANGED <<conn, handler, mapVars, send, reader, offerVars, dropVars>>

-----------------------------------------------------------------------------
(* StartTokenSubscription, StartKlineSubscription. *)

\* An update is taken, RLock is had.
TakeUpdate ==
  /\ ~offering
  /\ updates < MaxUpdates
  /\ updates' = updates + 1
  /\ offering' = TRUE
  /\ visiting' = clients
  /\ UNCHANGED <<conn, handler, mapVars, send, loopVars, dropVars>>

\* Mutant of Lags: the update is left out and nothing else.
LagsUnnoticed(c) ==
  /\ lagged' = lagged \cup {c}
  /\ UNCHANGED <<dropping, send>>

\* The channel is full: a goroutine will drop the client.
Lags(c) ==
  /\ lagged' = lagged \cup {c}
  /\ dropping' = [dropping EXCEPT ![c] = @ + 1]
  /\ UNCHANGED send

\* The next client of the iteration: the update is not for it, or is offered.
Offer(c) ==
  /\ c \in visiting
  /\ visiting' = visiting \ {c}
  /\ \/ UNCHANGED <<send, dropping, lagged, panicked>>
     \/ /\ panicked' = (panicked \/ c \in closed)
        /\ IF Room(c)
           THEN send' = [send EXCEPT ![c] = @ + 1] /\ UNCHANGED <<dropping, lagged>>
           ELSE Lags(c)
  /\ UNCHANGED <<conn, handler, clients, closed, loopVars, updates, offering, closing>>

EndOffer ==
  /\ offering /\ visiting = {}
  /\ offering' = FALSE
  /\ UNCHANGED <<conn, handler, mapVars, send, loopVars, updates, visiting, dropVars>>

-----------------------------------------------------------------------------
Handle(c) == Register(c) \/ SendWelcomeMessage(c) \/ StartLoops(c)
ReadLoop(c) == ReadFails(c) \/ ReaderRemoves(c) \/ ReaderCloses(c)
WriteLoop(c) == WriteMessage(c) \/ WriterEnds(c)
Dropper(c) == Drop(c) \/ DropCloses(c)
Subscription == TakeUpdate \/ EndOffer \/ \E c \in Clients : Offer(c)

Next == \/ Subscription
        \/ \E c \in Clients : \/ Upgrade(c) \/ PeerCloses(c) \/ PingFails(c)
                              \/ Handle(c) \/ ReadLoop(c) \/ WriteLoop(c) \/ Dropper(c)

Spec == Init /\ [][Next]_vars

(***************************************************************************)
(* Fairness: goroutines are scheduled, an iteration goes on, and a Lock    *)
(* that waits is had between two iterations (a waiting Lock holds new      *)
(* RLocks back).  A write or a ping ends within its deadline, one way or   *)
(* the other.  Updates need not come, browsers need not leave, pings need  *)
(* not fail.                                                               *)
(***************************************************************************)
Fairness ==
  /\ WF_vars(EndOffer \/ \E c \in Clients : Offer(c))
  /\ \A c \in Clients : /\ SF_vars(Handle(c)) /\ SF_vars(ReadLoop(c))
                       /\ SF_vars(Dropper(c)) /\ WF_vars(WriteLoop(c))

FairSpec == Spec /\ Fairness

-----------------------------------------------------------------------------
(* Properties. *)

\* The server never closes a channel twice nor offers an update to a closed
\* one, although a client may be removed at once by its readLoop and by several
\* dropping goroutines, while an update is offered to the map (removeClient,
\* BroadcastNewToken, BroadcastKlineUpdate).
NoPanic == ~panicked

Gone(c) ==
  /\ c \notin clients
  /\ conn[c] = "closed"
  /\ reader[c] \in {"none", "done"} /\ writer[c] \in {"none", "done"}

\* A client whose connection was closed, or whose channel an update found full,
\* leaves the map, its connection is closed and its goroutines end, wherever its
\* handler and its loops were and whether or not its writer still runs ("Client
\* buffer full, dropping client").  It says nothing of a client whose writer has
\* ended on an open connection, for as long as its channel has room.
LaggingClientsLeave ==
  \A c \in Clients : (conn[c] = "closed" \/ c \in lagged) ~> Gone(c)

\* A client to which nothing is written any more leaves.  It need not: after a
\* failed write or ping writeLoop returns, and nobody removes the client or
\* closes its connection until its channel is full or its browser goes.
NobodyLeftUnserved ==
  \A c \in Clients : writer[c] = "done" ~> Gone(c)
=============================================================================
