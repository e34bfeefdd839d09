------------------------------ MODULE TcpServer ------------------------------
(***************************************************************************)
(* rms::net::TcpServer with its Acceptor and the TcpSockets it accepted    *)
(* (flatasync/src/net/{tcp_server,acceptor,tcp_socket,util}.{h,cc}), on    *)
(* one SequentialScheduler, as Engine and the tests run it.                *)
(*                                                                         *)
(* Everything the three classes do is a closure given to RunAsync without  *)
(* a scheduler, which posts it to the scheduler of the operation that      *)
(* calls: strand is that scheduler's queue, and an entry names the closure *)
(* or, for the ...Done and read... entries, the rest of a closure that     *)
(* waited in DeferIo.  The strand runs one entry at a time, so an entry is *)
(* one step; what it posts with several RunAsync is adjacent in the queue. *)
(* Accepts, reads and writes complete at any time and post the rest.       *)
(*                                                                         *)
(* A closed socket here is one whose descriptor is closed (is_open() is    *)
(* false).  The subscriber of OnData may Write to the client, as Engine's  *)
(* does, or not; Stop and StopClient are called at any time after Start.   *)
(***************************************************************************)
EXTENDS Naturals, Sequences, FiniteSets, Functions

CONSTANTS
    Sockets,          \* TcpSocket objects made by the Acceptor, one for each accept
    MaxConnections,   \* the constructor's argument
    Null,             \* nullptr
    MaxData,          \* bound on what the clients send together
    MaxCalls,         \* bound on the calls of Stop, StopClient and a second Start together
    AcceptorMayFail   \* opening the Acceptor may throw, async_accept complete with an error

ASSUME ServerAssumption ==
    /\ MaxConnections \in Nat \ {0}
    /\ Null \notin Sockets
    /\ MaxData \in Nat /\ MaxCalls \in Nat
    /\ AcceptorMayFail \in BOOLEAN

VARIABLES
    strand,               \* posted closures
    is_running,           \* is_running_
    acceptor,             \* acceptor_: "null", "open", "closed"; "crashed" when null was used
    client_connections,   \* [Slots -> Sockets \cup {Null}]
    open,                 \* socket_.is_open()
    stopped,              \* TcpSocket::stopped_
    id,                   \* TcpSocket::id_
    accepting,            \* an async_accept is outstanding
    reading,              \* sockets with an async_read_some outstanding
    writing,              \* the socket the subscriber of a socket's data writes to
    peer,                 \* [Sockets -> PeerStates], the client
    unread,               \* there is data of the client to be read
    sent, delivered,      \* what the client sent; on_data_ raised
    told,                 \* the last of on_connected_ and on_disconnected_ raised
    disconnects,          \* on_disconnected_ raised
    stops,                \* on_stopped_ raised
    calls                 \* calls of Stop, StopClient and a second Start so far

socketVars == <<open, stopped, id>>
ioVars == <<accepting, reading, writing>>
peerVars == <<peer, unread, sent>>
events == <<delivered, told, disconnects, stops>>
vars == <<strand, is_running, acceptor, client_connections, socketVars, ioVars, peerVars, events,
          calls>>

Slots == 1 .. MaxConnections
\* "phantom": the socket of an accept that failed, without a client.
PeerStates == {"idle", "connecting", "connected", "closed", "failed", "phantom"}
Closures == {"listen", "onListening", "acceptDone", "OnAccepted", "onConnected", "rearm", "start",
             "read", "readOk", "readClosed", "readError", "writeDone", "disconnected", "release",
             "close", "stop", "stopClient"}
Entry == [op : Closures, arg : Sockets \cup {Null}]

E(op, arg) == [op |-> op, arg |-> arg]

Init ==
    /\ strand = <<>>
    /\ is_running = FALSE
    /\ acceptor = "null"
    /\ client_connections = [i \in Slots |-> Null]
    /\ open = [s \in Sockets |-> FALSE]
    /\ stopped = [s \in Sockets |-> FALSE]
    /\ id = [s \in Sockets |-> 0]
    /\ accepting = FALSE
    /\ reading = {}
    /\ writing = [s \in Sockets |-> Null]
    /\ peer = [s \in Sockets |-> "idle"]
    /\ unread = [s \in Sockets |-> FALSE]
    /\ sent = [s \in Sockets |-> 0]
    /\ delivered = [s \in Sockets |-> 0]
    /\ told = [s \in Sockets |-> "nothing"]
    /\ disconnects = [s \in Sockets |-> 0]
    /\ stops = 0
    /\ calls = 0

-----------------------------------------------------------------------------

Runs(op, arg) == strand # <<>> /\ Head(strand) = E(op, arg) /\ acceptor # "crashed"

\* The strand runs the entry, which posts others.
Step(op, arg, posts) ==
    /\ Runs(op, arg)
    /\ strand' = Tail(strand) \o posts

Post(op, arg) == strand' = Append(strand, E(op, arg))

\* Bugs: Stop of a socket does nothing; on_stopped_ is raised too early.
StopSocketNot(s) == <<>>

RaiseOnClosedAlways(connections) == stops' = stops + 1

\* TcpSocket::Stop: a socket that is open is closed by a closure.
StopSocket(s) == IF open[s] THEN <<E("close", s)>> ELSE <<>>

\* RaiseOnClosed, with the connections as they are after the step.
RaiseOnClosed(connections) ==
    stops' = IF \A i \in Slots : connections[i] = Null THEN stops + 1 ELSE stops

-----------------------------------------------------------------------------
(* Listening and accepting. *)

\* Some operation of the server exists.
Busy ==
    \/ strand # <<>>
    \/ accepting
    \/ reading # {}
    \/ \E s \in Sockets : writing[s] # Null

\* TcpServer::Start, which looks at is_running_ only.  ~Busy is asked of the
\* caller: a server is started again when everything of its last run has ended.
\* Before that, the new Acceptor would replace the one in which the old accept
\* loop still waits.  on_stopped_ is counted from here.
Start ==
    /\ ~is_running
    /\ acceptor # "crashed"
    /\ ~Busy
    /\ acceptor = "closed" => calls < MaxCalls
    /\ calls' = IF acceptor = "closed" THEN calls + 1 ELSE calls
    /\ is_running' = TRUE
    /\ stops' = 0
    /\ Post("listen", Null)
    /\ UNCHANGED <<acceptor, client_connections, socketVars, ioVars, peerVars, delivered, told,
                   disconnects>>

\* Start's closure: make the Acceptor, post on_listening_, DoAccept.  When the
\* socket cannot be opened, set_option throws and the closure ends, with the
\* Acceptor there was before.
Listen ==
    /\ \/ /\ is_running
          /\ Step("listen", Null, <<E("onListening", Null)>>)
          /\ acceptor' = "open"
          /\ accepting' = TRUE
       \/ /\ ~is_running \/ AcceptorMayFail
          /\ Step("listen", Null, <<>>)
          /\ UNCHANGED <<acceptor, accepting>>
    /\ UNCHANGED <<is_running, client_connections, socketVars, reading, writing, peerVars, events,
                   calls>>

\* on_listening_ is raised.
OnListening ==
    /\ Step("onListening", Null, <<>>)
    /\ UNCHANGED <<is_running, acceptor, client_connections, socketVars, ioVars, peerVars, events,
                   calls>>

\* async_accept completes: with a client, with an error (which Accept ignores,
\* making a TcpSocket that is not open), or because the Acceptor was stopped.
AcceptComplete(s) ==
    /\ accepting
    /\ \/ peer[s] = "connecting" /\ peer' = [peer EXCEPT ![s] = "connected"]
       \/ AcceptorMayFail /\ peer[s] = "idle" /\ peer' = [peer EXCEPT ![s] = "phantom"]
    /\ open' = [open EXCEPT ![s] = peer[s] = "connecting"]
    /\ accepting' = FALSE
    /\ Post("acceptDone", s)
    /\ UNCHANGED <<is_running, acceptor, client_connections, stopped, id, reading, writing, unread,
                   sent, events, calls>>

AcceptAborted ==
    /\ accepting
    /\ acceptor = "closed"
    /\ accepting' = FALSE
    /\ Post("acceptDone", Null)
    /\ UNCHANGED <<is_running, acceptor, client_connections, socketVars, reading, writing, peerVars,
                   events, calls>>

\* A bug: the next accept is started here as well as after OnAccepted.
DoAcceptTwice(s) ==
    /\ acceptor = "open"
    /\ Step("acceptDone", s, <<E("OnAccepted", s)>>)
    /\ accepting' = TRUE
    /\ UNCHANGED <<is_running, acceptor, client_connections, socketVars, reading, writing, peerVars,
                   events, calls>>

\* The rest of DoAccept: a socket that came too late is dropped.
DoAccept(s) ==
    /\ IF acceptor = "open"
       THEN Step("acceptDone", s, <<E("OnAccepted", s)>>) /\ UNCHANGED open
       ELSE /\ Step("acceptDone", s, <<>>)
            /\ open' = [c \in Sockets |-> open[c] /\ c # s]
    /\ UNCHANGED <<is_running, acceptor, client_connections, stopped, id, ioVars, peerVars, events,
                   calls>>

\* The socket of an id, or none.
GetSocket(i) == IF i \in Slots THEN client_connections[i] ELSE Null

FreeSlots == {i \in Slots : client_connections[i] = Null}

GetNewConnectionIndex == CHOOSE i \in FreeSlots : \A j \in FreeSlots : i <= j

\* A bug: DoAccept is called again only for a socket that reads.
AdmitOnce(s) ==
    LET i == GetNewConnectionIndex IN
    /\ client_connections' = [client_connections EXCEPT ![i] = s]
    /\ id' = [id EXCEPT ![s] = i]
    /\ Step("OnAccepted", s,
            <<E("onConnected", s)>>
            \o (IF open[s] THEN <<E("read", s), E("rearm", Null)>> ELSE <<>>))
    /\ UNCHANGED open

\* OnAccepted with a free slot: store the socket, give it its id, post
\* on_connected_, Start the socket, and post the next DoAccept.
Admit(s) ==
    LET i == GetNewConnectionIndex IN
    /\ client_connections' = [client_connections EXCEPT ![i] = s]
    /\ id' = [id EXCEPT ![s] = i]
    /\ Step("OnAccepted", s,
            <<E("onConnected", s)>>
            \o (IF open[s] THEN <<E("read", s)>> ELSE <<>>)
            \o <<E("rearm", Null)>>)
    /\ UNCHANGED open

\* TcpServer::OnAccepted.
OnAccepted(s) ==
    /\ CASE ~is_running ->
              /\ Step("OnAccepted", s, <<>>)
              /\ open' = [open EXCEPT ![s] = FALSE]
              /\ UNCHANGED <<client_connections, id>>
         [] is_running /\ FreeSlots = {} ->
              /\ Step("OnAccepted", s, StopSocket(s))
              /\ UNCHANGED <<client_connections, id, open>>
         [] OTHER -> Admit(s)
    /\ UNCHANGED <<is_running, acceptor, stopped, ioVars, peerVars, events, calls>>

\* on_connected_ is raised.
OnConnected(s) ==
    /\ Step("onConnected", s, <<>>)
    /\ told' = [told EXCEPT ![s] = "connected"]
    /\ UNCHANGED <<is_running, acceptor, client_connections, socketVars, ioVars, peerVars, delivered,
                   disconnects, stops, calls>>

\* The last closure of OnAccepted: DoAccept unless the server was stopped.
Rearm ==
    /\ Step("rearm", Null, <<>>)
    /\ accepting' = (accepting \/ is_running)
    /\ UNCHANGED <<is_running, acceptor, client_connections, socketVars, reading, writing, peerVars,
                   events, calls>>

-----------------------------------------------------------------------------
(* The read loop of a socket. *)

\* TcpSocket::Start, called again after each read.
StartSocket(s) ==
    /\ Step("start", s, IF open[s] THEN <<E("read", s)>> ELSE <<>>)
    /\ UNCHANGED <<is_running, acceptor, client_connections, socketVars, ioVars, peerVars, events,
                   calls>>

\* A bug: the next turn of the loop is posted while the subscriber writes.
RaiseOnDataAhead(s, op, posts) ==
    LET to == GetSocket(id[s]) IN
    /\ delivered' = [delivered EXCEPT ![s] = @ + 1]
    /\ writing' = [writing EXCEPT ![s] = to]
    /\ Step(op, s, posts \o <<E("start", s)>>)

\* on_data_ is raised, after `posts`.  A subscriber that writes waits in Write
\* for the socket the server finds under the id; then the loop goes on.
RaiseOnData(s, op, posts) ==
    LET to == GetSocket(id[s]) IN
    /\ delivered' = [delivered EXCEPT ![s] = @ + 1]
    /\ \/ to # Null /\ writing' = [writing EXCEPT ![s] = to] /\ Step(op, s, posts)
       \/ UNCHANGED writing /\ Step(op, s, posts \o <<E("start", s)>>)

\* Start's closure up to DeferIo in ReadPartial, which for a socket that is
\* not open returns its zeroed buffer and no error.
Read(s) ==
    /\ Runs("read", s)
    /\ IF open[s]
       THEN /\ Step("read", s, <<>>)
            /\ reading' = reading \cup {s}
            /\ UNCHANGED <<delivered, writing>>
       ELSE RaiseOnData(s, "read", <<>>) /\ UNCHANGED reading
    /\ UNCHANGED <<is_running, acceptor, client_connections, socketVars, accepting, peerVars, told,
                   disconnects, stops, calls>>

\* async_read_some completes: with data; because either side closed the
\* connection (eof, connection_reset, operation_aborted); or with an error.
ReadComplete(s) ==
    /\ s \in reading
    /\ reading' = reading \ {s}
    /\ \/ unread[s] /\ unread' = [unread EXCEPT ![s] = FALSE] /\ Post("readOk", s)
       \/ /\ ~open[s] \/ (peer[s] = "closed" /\ ~unread[s])
          /\ Post("readClosed", s)
          /\ UNCHANGED unread
       \/ open[s] /\ peer[s] = "failed" /\ Post("readError", s) /\ UNCHANGED unread
    /\ UNCHANGED <<is_running, acceptor, client_connections, socketVars, accepting, writing, peer,
                   sent, events, calls>>

\* A bug: stopped_ is not looked at.
NoticedAgain(s) == ~open[s]

\* After its asynchronous call a socket that was closed meanwhile posts
\* on_disconnected_, once.
Noticed(s) == ~open[s] /\ ~stopped[s]

ClosedAfter(s) ==
    stopped' = IF Noticed(s) THEN [stopped EXCEPT ![s] = TRUE] ELSE stopped

PostDisconnected(s) == IF Noticed(s) THEN <<E("disconnected", s)>> ELSE <<>>

\* The rest of ReadPartial and of Start's closure, with data.
ReadOk(s) ==
    /\ Runs("readOk", s)
    /\ ClosedAfter(s)
    /\ RaiseOnData(s, "readOk", PostDisconnected(s))
    /\ UNCHANGED <<is_running, acceptor, client_connections, open, id, accepting, reading, peerVars,
                   told, disconnects, stops, calls>>

\* A bug: the end of the connection is noticed only on a closed socket.
ReadEndsSilently(s, op) ==
    /\ ClosedAfter(s)
    /\ Step(op, s, PostDisconnected(s))
    /\ UNCHANGED <<is_running, acceptor, client_connections, open, id, ioVars, peerVars, events,
                   calls>>

\* The same without data: unless that was done, on_disconnected_ is raised
\* here, and the server's subscriber posts the release.  An error that does
\* not mean a disconnection stops the socket first.
ReadEnds(s, op) ==
    /\ Runs(op, s)
    /\ ClosedAfter(s)
    /\ Step(op, s, PostDisconnected(s)
                   \o (IF op = "readError" THEN StopSocket(s) ELSE <<>>)
                   \o (IF stopped'[s] THEN <<>> ELSE <<E("release", s)>>))
    /\ UNCHANGED <<is_running, acceptor, client_connections, open, id, ioVars, peerVars, events,
                   calls>>

\* async_write completes, and the rest of Write and of Start's closure runs.
WriteComplete(s) ==
    /\ writing[s] # Null
    /\ E("writeDone", s) \notin {strand[i] : i \in DOMAIN strand}
    /\ Post("writeDone", s)
    /\ UNCHANGED <<is_running, acceptor, client_connections, socketVars, ioVars, peerVars, events,
                   calls>>

WriteDone(s) ==
    /\ Step("writeDone", s, PostDisconnected(writing[s]) \o <<E("start", s)>>)
    /\ ClosedAfter(writing[s])
    /\ writing' = [writing EXCEPT ![s] = Null]
    /\ UNCHANGED <<is_running, acceptor, client_connections, open, id, accepting, reading, peerVars,
                   events, calls>>

\* on_disconnected_ of the socket is raised by its own closure.
OnSocketDisconnected(s) ==
    /\ Step("disconnected", s, <<E("release", s)>>)
    /\ UNCHANGED <<is_running, acceptor, client_connections, socketVars, ioVars, peerVars, events,
                   calls>>

\* A bug: the slot is kept.
ReleaseKeeps(s) ==
    /\ Step("release", s, <<>>)
    /\ told' = [told EXCEPT ![s] = "disconnected"]
    /\ disconnects' = [disconnects EXCEPT ![s] = @ + 1]
    /\ open' = [open EXCEPT ![s] = FALSE]
    /\ UNCHANGED <<is_running, acceptor, client_connections, stopped, id, ioVars, peerVars,
                   delivered, stops, calls>>

\* The closure of the server's subscriber: raise on_disconnected_, reset the
\* slot (the last owner closes the descriptor), RaiseOnClosed if stopping.
Release(s) ==
    /\ Step("release", s, <<>>)
    /\ told' = [told EXCEPT ![s] = "disconnected"]
    /\ disconnects' = [disconnects EXCEPT ![s] = @ + 1]
    /\ client_connections' = [client_connections EXCEPT ![id[s]] = Null]
    /\ open' = [open EXCEPT ![s] = FALSE]
    /\ IF is_running THEN UNCHANGED stops ELSE RaiseOnClosed(client_connections')
    /\ UNCHANGED <<is_running, acceptor, stopped, id, ioVars, peerVars, delivered, calls>>

-----------------------------------------------------------------------------
(* Stopping. *)

\* The closure of TcpSocket::Stop: shutdown and close.
Close(s) ==
    /\ Step("close", s, <<>>)
    /\ open' = [open EXCEPT ![s] = FALSE]
    /\ UNCHANGED <<is_running, acceptor, client_connections, stopped, id, ioVars, peerVars, events,
                   calls>>

\* Start was called.
Started == (is_running \/ acceptor # "null") /\ acceptor # "crashed"

\* TcpServer::Stop.
CallStop ==
    /\ Started
    /\ calls < MaxCalls
    /\ calls' = calls + 1
    /\ Post("stop", Null)
    /\ UNCHANGED <<is_running, acceptor, client_connections, socketVars, ioVars, peerVars, events>>

\* Connected sockets are stopped in the order of their slots.
StopSockets[i \in 0 .. MaxConnections] ==
    IF i = 0 THEN <<>>
    ELSE StopSockets[i - 1]
         \o (IF client_connections[i] = Null THEN <<>> ELSE StopSocket(client_connections[i]))

\* The closure of Stop; a second one finds the server stopped.  If Start's
\* closure threw, there is no Acceptor to stop.
Stop ==
    /\ CASE is_running /\ acceptor # "null" ->
              /\ Step("stop", Null, StopSockets[MaxConnections])
              /\ acceptor' = "closed"
              /\ RaiseOnClosed(client_connections)
         [] is_running /\ acceptor = "null" ->
              /\ Step("stop", Null, <<>>)
              /\ acceptor' = "crashed"
              /\ UNCHANGED stops
         [] OTHER -> Step("stop", Null, <<>>) /\ UNCHANGED <<acceptor, stops>>
    /\ is_running' = FALSE
    /\ UNCHANGED <<client_connections, socketVars, ioVars, peerVars, delivered, told, disconnects,
                   calls>>

\* TcpServer::StopClient.  Its closure refers to the parameter, which is gone
\* when the closure runs: the value read may be any, and GetSocket finds the
\* socket of that slot or none.
CallStopClient ==
    /\ Started
    /\ calls < MaxCalls
    /\ calls' = calls + 1
    /\ Post("stopClient", Null)
    /\ UNCHANGED <<is_running, acceptor, client_connections, socketVars, ioVars, peerVars, events>>

StopClient ==
    /\ \E j \in 0 .. MaxConnections :
          Step("stopClient", Null,
               IF GetSocket(j) = Null THEN <<>> ELSE StopSocket(GetSocket(j)))
    /\ UNCHANGED <<is_running, acceptor, client_connections, socketVars, ioVars, peerVars, events,
                   calls>>

-----------------------------------------------------------------------------
(* Clients. *)

\* The system queues a connection while the Acceptor listens.
Connect(s) ==
    /\ acceptor = "open"
    /\ peer[s] = "idle"
    /\ peer' = [peer EXCEPT ![s] = "connecting"]
    /\ UNCHANGED <<strand, is_running, acceptor, client_connections, socketVars, ioVars, unread, sent,
                   events, calls>>

Send(s) ==
    /\ peer[s] = "connected"
    /\ open[s]
    /\ FoldFunction(+, 0, sent) < MaxData
    /\ sent' = [sent EXCEPT ![s] = @ + 1]
    /\ unread' = [unread EXCEPT ![s] = TRUE]
    /\ UNCHANGED <<strand, is_running, acceptor, client_connections, socketVars, ioVars, peer, events,
                   calls>>

\* The client closes the connection, or the connection breaks.  What a client
\* does after the server closed the socket makes no difference to the server.
Leave(s, how) ==
    /\ peer[s] = "connected"
    /\ open[s]
    /\ peer' = [peer EXCEPT ![s] = how]
    /\ UNCHANGED <<strand, is_running, acceptor, client_connections, socketVars, ioVars, unread, sent,
                   events, calls>>

-----------------------------------------------------------------------------

\* The strand runs its next entry.
RunStrand ==
    \/ Listen \/ OnListening \/ Rearm \/ Stop \/ StopClient
    \/ DoAccept(Null)
    \/ \E s \in Sockets :
          \/ DoAccept(s) \/ OnAccepted(s) \/ OnConnected(s)
          \/ StartSocket(s) \/ Read(s) \/ ReadOk(s)
          \/ ReadEnds(s, "readClosed") \/ ReadEnds(s, "readError")
          \/ WriteDone(s) \/ OnSocketDisconnected(s) \/ Release(s) \/ Close(s)

Complete ==
    \/ AcceptAborted
    \/ \E s \in Sockets : AcceptComplete(s) \/ ReadComplete(s) \/ WriteComplete(s)

Clients == \E s \in Sockets :
    Connect(s) \/ Send(s) \/ Leave(s, "closed") \/ Leave(s, "failed")

Next ==
    \/ RunStrand
    \/ Complete
    \/ Clients
    \/ Start
    \/ CallStop
    \/ CallStopClient

Spec == Init /\ [][Next]_vars

\* The strand is served, and what was given to the system completes once it
\* can.  Clients, and who calls Stop, are free.
Fairness ==
    /\ WF_vars(RunStrand)
    /\ WF_vars(AcceptAborted)
    /\ WF_vars(\E s \in Sockets : AcceptComplete(s))
    /\ \A s \in Sockets : WF_vars(ReadComplete(s)) /\ WF_vars(WriteComplete(s))

FairSpec == Spec /\ Fairness

-----------------------------------------------------------------------------
(* Properties. *)

\* Every variable of the server, its sockets and their clients has its type.
TypeOK ==
    /\ strand \in Seq(Entry)
    /\ is_running \in BOOLEAN
    /\ acceptor \in {"null", "open", "closed", "crashed"}
    /\ client_connections \in [Slots -> Sockets \cup {Null}]
    /\ open \in [Sockets -> BOOLEAN]
    /\ stopped \in [Sockets -> BOOLEAN]
    /\ id \in [Sockets -> 0 .. MaxConnections]
    /\ accepting \in BOOLEAN
    /\ reading \in SUBSET Sockets
    /\ writing \in [Sockets -> Sockets \cup {Null}]
    /\ peer \in [Sockets -> PeerStates]
    /\ unread \in [Sockets -> BOOLEAN]
    /\ sent \in [Sockets -> Nat]
    /\ delivered \in [Sockets -> Nat]
    /\ told \in [Sockets -> {"nothing", "connected", "disconnected"}]
    /\ disconnects \in [Sockets -> Nat]
    /\ stops \in Nat
    /\ calls \in 0 .. MaxCalls

Pending(ops) == {i \in DOMAIN strand : strand[i].op \in ops}

\* The accept loop: an outstanding async_accept, its rest, the OnAccepted it
\* leads to, or the closure that accepts again.
AcceptLoop ==
    Cardinality(Pending({"listen", "acceptDone", "OnAccepted", "rearm"}))
        + (IF accepting THEN 1 ELSE 0)

\* There is one accept loop: of an outstanding async_accept, its rest, the
\* OnAccepted it leads to and the closure that accepts again, at most one
\* exists at a time, so no client is accepted twice and slots are not raced for.
OneAcceptLoop == AcceptLoop <= 1

\* A socket has one read loop: it reads, writes, or has one closure that will
\* continue, never two, although each turn ends in a new RunAsync.
OneReadLoop ==
    \A s \in Sockets :
        Cardinality({i \in Pending({"start", "read", "readOk", "readClosed", "readError"}) :
                        strand[i].arg = s})
            + (IF s \in reading THEN 1 ELSE 0) + (IF writing[s] # Null THEN 1 ELSE 0) <= 1

\* A slot's socket has the slot's id and no other slot, and a socket whose
\* connection has ended for the subscribers is in none: a Write to an id that
\* on_data_ gave reaches the client the id was given to.
SlotsAgree ==
    \A i \in Slots :
        LET s == client_connections[i] IN
        s # Null => id[s] = i /\ disconnects[s] = 0

\* on_connected_, on_data_ and on_disconnected_ of a client come in this order,
\* on_disconnected_ once, and data is raised while the client's id still leads
\* to its socket, whatever order the closures of several sockets, Stop and
\* StopClient take on the strand.
EventOrder ==
    [][\A s \in Sockets :
          /\ told'[s] # told[s] => <<told[s], told'[s]>> \in {<<"nothing", "connected">>,
                                                             <<"connected", "disconnected">>}
          /\ disconnects'[s] <= 1
          /\ delivered'[s] # delivered[s] =>
                told[s] = "connected" /\ client_connections[id[s]] = s]_vars

\* on_stopped_ is raised once, when no connection is left, and no event of a
\* client follows it.
StoppedIsLast ==
    /\ stops <= 1
    /\ stops = 1 =>
          /\ ~is_running
          /\ \A i \in Slots : client_connections[i] = Null
          /\ Pending({"onConnected", "read", "readOk", "release", "disconnected"}) = {}

\* After Stop everything the server started ends, so that WaitAll returns.
StopDrains == (acceptor = "closed" /\ ~is_running) ~> ~Busy

\* A client that leaves is noticed, on_disconnected_ is raised and its slot
\* becomes free, unless a call of Stop or StopClient closed its socket first.
DepartureIsNoticed ==
    \A s \in Sockets :
        (peer[s] \in {"closed", "failed"} /\ told[s] = "connected")
            ~> \/ told[s] = "disconnected"
               \/ ~open[s] /\ calls > 0

\* What the callers of Start and Stop see of the server.
Phase ==
    CASE acceptor = "crashed" -> "crashed"
      [] acceptor = "open" -> IF AcceptLoop > 0 THEN "serving" ELSE "deaf"
      [] acceptor \in {"null", "closed"} /\ is_running ->
            IF AcceptLoop > 0 THEN "starting" ELSE "broken"
      [] OTHER -> IF acceptor = "null" THEN "new" ELSE "stopped"

Life == INSTANCE ServerLife
            WITH phase <- Phase, busy <- Busy, room <- FreeSlots # {},
                 made <- acceptor \in {"open", "closed"}, stops <- Cardinality(Pending({"stop"}))

\* The server lives as ServerLife says: it has an operation outstanding for as
\* long as it listens and accepts, however its clients and calls interleave
\* (so WaitAll does not return under a server that serves), it stops accepting
\* only when a client comes while the slots are taken, or when it is stopped,
\* and nothing but a Stop after a failed Start crashes it.
ImplementsLife == Life!LifeSpec

\* on_data_ is raised at most once more than the client sent data, and not at
\* all more often while the socket is open.  The one is the zeroed buffer of a
\* read that was posted before the server closed the socket and runs after it:
\* tcp_server.h:127 says that OnData is raised "when data is received".
OneMadeUpBuffer ==
    \A s \in Sockets : delivered[s] <= sent[s] + (IF open[s] THEN 0 ELSE 1)

\* As documented for SubscribeOnStopped, on_stopped_ is raised after Stop.
StoppedIsRaised == (acceptor = "closed" /\ ~is_running) ~> stops = 1

\* As documented for the constructor, new connections are rejected while the
\* slots are taken: a client is answered, one way or the other, until the
\* server is stopped.
ClientIsAnswered ==
    \A s \in Sockets : peer[s] = "connecting" ~> (peer[s] # "connecting" \/ acceptor = "closed")

=============================================================================
