------------------------------ MODULE ServerLife ------------------------------
(***************************************************************************)
(* What rms::net::TcpServer promises to whoever starts and stops it, and   *)
(* what it does not: its phases, and whether it has operations outstanding *)
(* (which is all that WaitAll sees of it).  TcpServer implements it, and   *)
(* Launcher is composed with it.                                           *)
(***************************************************************************)
EXTENDS Naturals

VARIABLES
    phase,   \* one of Phases
    busy,    \* some operation of the server exists
    room,    \* there is a slot for one more client
    made,    \* there is an Acceptor
    stops    \* calls of Stop whose closure has not run

lifeVars == <<phase, busy, room, made, stops>>

\* starting: Start's closure has not run; deaf: listening, but nobody accepts;
\* broken: Start's closure threw, and the server counts as running with the
\* Acceptor it had, if any; crashed: an Acceptor that is not there was used.
Phases == {"new", "starting", "serving", "deaf", "stopped", "broken", "crashed"}

\* While it is in these phases the server keeps an operation outstanding.
Kept == {"starting", "serving"}

LifeInit ==
    /\ phase = "new"
    /\ busy = FALSE
    /\ room = TRUE
    /\ made = FALSE
    /\ stops = 0

\* TcpServer::Start, again when everything of the last time is over.
Starts ==
    /\ phase \in {"new", "stopped"}
    /\ ~busy
    /\ stops = 0
    /\ phase' = "starting"
    /\ busy' = TRUE
    /\ UNCHANGED <<room, made, stops>>

\* Start's closure.  If the Acceptor cannot be made, it ends there.
Listens ==
    /\ phase = "starting"
    /\ \/ phase' = "serving" /\ busy' = TRUE /\ made' = TRUE
       \/ phase' = "broken" /\ busy' \in {stops > 0, TRUE} /\ UNCHANGED made
    /\ UNCHANGED <<room, stops>>

\* Clients come and go.
Serves ==
    /\ phase \in {"serving", "deaf", "stopped"}
    /\ busy
    /\ room' \in BOOLEAN
    /\ phase # "serving" /\ ~room' => ~room
    /\ UNCHANGED <<phase, busy, made, stops>>

\* A connection is refused for want of a slot; with it the accept loop ends.
Refuses ==
    /\ phase = "serving"
    /\ ~room
    /\ phase' = "deaf"
    /\ busy' \in {stops > 0, TRUE}
    /\ UNCHANGED <<room, made, stops>>

\* The last operation ends.
Settles ==
    /\ phase \notin Kept \cup {"crashed"}
    /\ busy
    /\ stops = 0
    /\ busy' = FALSE
    /\ room' \in {room, TRUE}
    /\ UNCHANGED <<phase, made, stops>>

\* TcpServer::Stop.
CallStop ==
    /\ phase # "crashed"
    /\ busy' = TRUE
    /\ stops' = stops + 1
    /\ UNCHANGED <<phase, room, made>>

\* TcpServer::StopClient.
CallStopClient ==
    /\ phase \notin {"new", "crashed"}
    /\ busy' = TRUE
    /\ UNCHANGED <<phase, room, made, stops>>

\* The closure of Stop.  The strand runs it after Start's.
Stops ==
    /\ stops > 0
    /\ phase \notin {"starting", "crashed"}
    /\ phase' = CASE phase = "new" -> "new"
                  [] phase = "broken" /\ ~made -> "crashed"
                  [] OTHER -> "stopped"
    /\ stops' = stops - 1
    /\ busy' \in {stops' > 0, TRUE}
    /\ UNCHANGED <<room, made>>

LifeNext ==
    \/ Starts \/ Listens \/ Serves \/ Refuses \/ Settles
    \/ CallStop \/ CallStopClient \/ Stops

LifeSpec == LifeInit /\ [][LifeNext]_lifeVars

\* A server that keeps its operations for ever is a server that serves: once
\* started it gets to listen, a closure of Stop runs, and a server without an
\* accept loop comes to rest unless clients keep it busy.
LifeFairness ==
    /\ WF_lifeVars(Listens)
    /\ WF_lifeVars(Stops)
    /\ WF_lifeVars(phase # "deaf" /\ Settles)

=============================================================================
