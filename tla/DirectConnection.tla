-------------------------- MODULE DirectConnection --------------------------
(***************************************************************************)
(* The attempt of two clients to connect directly: TcpConnection::connect  *)
(* (p2p/tcp.rs) and attempt_direct_connection (client.rs).  Each client    *)
(* connects to the port the other listens on while it listens itself, and  *)
(* takes whichever socket it has first; at the same time it tries UDP; and *)
(* when both attempts are over it prefers TCP.                             *)
(***************************************************************************)
EXTENDS Naturals

CONSTANTS
  Clients,    \* the two clients
  Reachable,  \* those whose TCP listener the other can reach
  UdpWorks    \* whether datagrams get through

VARIABLES
  socket,   \* the socket each client opened, as the kernels see it
  queued,   \* the peer's socket is in the backlog of the client's listener
  tcp, udp, \* the two attempts: "idle", "trying", "failed", "listener" ...
  stream    \* what the client streams over: "none" until it has decided

vars == <<socket, queued, tcp, udp, stream>>

Peer(c) == CHOOSE d \in Clients : d # c

\* The owner of the socket a TCP attempt ended with.
SocketOf(c) == IF tcp[c] = "connected" THEN c ELSE Peer(c)

-----------------------------------------------------------------------------

\* The server said AttemptDirectConnect; both listeners are bound by then.
Start(c) ==
  /\ tcp[c] = "idle"
  /\ tcp' = [tcp EXCEPT ![c] = "trying"]
  /\ udp' = [udp EXCEPT ![c] = "trying"]
  /\ socket' = [socket EXCEPT ![c] = "connecting"]
  /\ UNCHANGED <<queued, stream>>

\* The kernels establish the socket, whether or not the peer accepts it yet.
\* A connect that fails is pending for ever.
Establish(c) ==
  /\ socket[c] = "connecting" /\ tcp[c] = "trying" /\ Peer(c) \in Reachable
  /\ socket' = [socket EXCEPT ![c] = "open"]
  /\ queued' = [queued EXCEPT ![Peer(c)] = TRUE]
  /\ UNCHANGED <<tcp, udp, stream>>

\* The select! takes the branch that is ready, any one if both are, and drops
\* the other: a socket dropped there is closed, one in the backlog is not.
TakeConnected(c) ==
  /\ tcp[c] = "trying" /\ socket[c] = "open"
  /\ tcp' = [tcp EXCEPT ![c] = "connected"]
  /\ UNCHANGED <<socket, queued, udp, stream>>

TakeAccepted(c) ==
  /\ tcp[c] = "trying" /\ queued[c]
  /\ tcp' = [tcp EXCEPT ![c] = "accepted"]
  /\ queued' = [queued EXCEPT ![c] = FALSE]
  /\ socket' = [socket EXCEPT ![c] = "closed"]
  /\ UNCHANGED <<udp, stream>>

\* The timeout around the TCP attempt drops it with its socket.
TcpTimeout(c) ==
  /\ tcp[c] = "trying"
  /\ tcp' = [tcp EXCEPT ![c] = "failed"]
  /\ socket' = [socket EXCEPT ![c] = "closed"]
  /\ UNCHANGED <<queued, udp, stream>>

\* UdpNegotiation, whose ends may differ, seen from here.
UdpConnects(c) ==
  /\ udp[c] = "trying" /\ UdpWorks /\ udp[Peer(c)] # "idle"
  /\ udp' = [udp EXCEPT ![c] = "connected"]
  /\ UNCHANGED <<socket, queued, tcp, stream>>

UdpFails(c) ==
  /\ udp[c] = "trying"
  /\ udp' = [udp EXCEPT ![c] = "failed"]
  /\ UNCHANGED <<socket, queued, tcp, stream>>

\* join waits for both attempts; TCP comes first.
Decide(c) ==
  /\ stream[c] = "none"
  /\ tcp[c] \in {"connected", "accepted", "failed"}
  /\ udp[c] \in {"connected", "failed"}
  /\ stream' = [stream EXCEPT ![c] =
       IF tcp[c] # "failed" THEN "tcp"
       ELSE IF udp[c] = "connected" THEN "udp" ELSE "no_stream"]
  /\ UNCHANGED <<socket, queued, tcp, udp>>

-----------------------------------------------------------------------------

Init ==
  /\ socket = [c \in Clients |-> "none"]
  /\ queued = [c \in Clients |-> FALSE]
  /\ tcp = [c \in Clients |-> "idle"] /\ udp = [c \in Clients |-> "idle"]
  /\ stream = [c \in Clients |-> "none"]

Next == \E c \in Clients :
  \/ Start(c) \/ Establish(c) \/ TakeConnected(c) \/ TakeAccepted(c)
  \/ TcpTimeout(c) \/ UdpConnects(c) \/ UdpFails(c) \/ Decide(c)

Spec == Init /\ [][Next]_vars

-----------------------------------------------------------------------------
(* Properties.                                                             *)

Both(s) == \A c \in Clients : stream[c] = s

\* relay.rs: "In the case of a direct connection between the peers the relay
\* server does not have to do much, since the clients will stream between
\* themselves": two clients that both stream over TCP hold the two ends of one
\* socket.
SameSocket ==
  Both("tcp") => \A c, d \in Clients : SocketOf(c) = SocketOf(d)

=============================================================================
