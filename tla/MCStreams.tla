----------------------------- MODULE MCStreams -----------------------------
(***************************************************************************)
(* A client's two streams in one small instance: the one to the relay      *)
(* server, which it has to get (Joining), and the encrypted one through    *)
(* the tunnel, which it reads and writes (EncryptedStream).  A behaviour   *)
(* is a behaviour of one of them, the other stays as it starts.            *)
(***************************************************************************)
EXTENDS EncryptedStream

CONSTANTS Clients, Silent, Invited, QueueSize

VARIABLES
  stream,
  client, left, key_sent, place, answer, backlog, acceptor, queue, listening,
  server, session

joiningVars == <<client, left, key_sent, place, answer, backlog, acceptor, queue,
                 listening, server, session>>
streamVars == <<stream, vars, joiningVars>>

Join == INSTANCE Joining

ASSUME JoiningAssumption == Join!JoiningConstants

StreamInit ==
  /\ stream \in {"server", "tunnel"} /\ Init /\ Join!Init
  /\ stream = "server" => \A i \in DOMAIN size : \A n \in Sizes : size[i] <= n

ToServer(A) == stream = "server" /\ A /\ UNCHANGED <<stream, vars>>
ThroughTunnel(A) == stream = "tunnel" /\ A /\ UNCHANGED <<stream, joiningVars>>

StreamNext == ToServer(Join!Next) \/ ThroughTunnel(Next)

\* What the client, and what the server's tasks do by themselves.
ClientGoesOn == \E c \in Clients : Join!Connecting(c) \/ Join!HearsAnswer(c)
ServerGoesOn ==
  \/ Join!Listening \/ Join!Loop
  \/ \E s \in Join!Sockets : Join!AskedFor(s) \/ Join!Negotiation(s)

\* No more than the fairness of the two modules: of the server's tasks, that one
\* of them goes on while any can.
StreamSpec ==
  /\ StreamInit /\ [][StreamNext]_streamVars
  /\ WF_streamVars(ThroughTunnel(Polls) \/ ToServer(ClientGoesOn))
  /\ WF_streamVars(ThroughTunnel(Reads) \/ ToServer(ServerGoesOn))

\* The property of Joining, by its own name.
EveryConnectionIsDecided == Join!EveryConnectionIsDecided
=============================================================================
