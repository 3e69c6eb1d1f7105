------------------------------ MODULE Joining ------------------------------
(***************************************************************************)
(* How a client reaches the relay server and has its key checked: the      *)
(* client's attempt over TLS and then over a websocket (ServerStream), the *)
(* server's two listeners with their channels, the loop that takes         *)
(* connections from both, a task per connection that waits for the key,    *)
(* and the sessions that the API stores.  It ends where RelayServer goes   *)
(* on: with a connection in the loop's pools.                              *)
(*                                                                         *)
(* Time is left out: a timeout may come at any moment of what it limits.   *)
(***************************************************************************)
EXTENDS Naturals, Sequences, FiniteSets

CONSTANTS
  Clients,      \* hosts that run the client
  Silent,       \* hosts that open connections and at some point say no more
  Invited,      \* the clients that were given a key of the session
  QueueSize     \* the 128 connections a listener's channel holds

\* What a module that holds an instance assumes of the constants.
JoiningConstants ==
  /\ IsFiniteSet(Clients \cup Silent) /\ Clients \cap Silent = {}
  /\ Invited \subseteq Clients /\ QueueSize \in Nat \ {0}

Transports == {"tls", "ws"}
Sockets == (Clients \cup Silent) \X Transports

VARIABLES
  client,       \* "idle", the transport being tried, "sent_key", "joined", "failed"
  left,         \* the sockets their host has closed
  key_sent,     \* the sockets over which a key was sent
  place,        \* where the server has each socket
  answer,       \* the first message it wrote to each
  backlog,      \* connections the TLS listener has not accepted
  acceptor,     \* what listen_for_connections of TlsListener is at
  queue,        \* con_rx of each listener
  listening,    \* the transports whose listener is bound
  server,       \* Server::start: "running" or "stopped"
  session       \* the session in the database: "none", "young", "old"

clientVars == <<client, left, key_sent>>
listenVars == <<backlog, acceptor, queue, listening>>
vars == <<clientVars, place, answer, listenVars, server, session>>

None == "none"
Failed == <<>>  \* the Err that an attempt to accept sends through the channel

Moves(s, where) == place' = [place EXCEPT ![s] = where]
Answers(s, message) == answer' = [answer EXCEPT ![s] = message]

\* A TLS stream that is dropped is closed; a websocket is shared with the task
\* that sends its pings.
Gone(s) == IF s[2] = "tls" THEN "closed" ELSE "dropped"
Drops(s) == Moves(s, Gone(s))

-----------------------------------------------------------------------------
(* The API and the session store.                                          *)

\* POST /api/sessions; saving may fail, which stores nothing.
CreateSession ==
  /\ session = "none" /\ session' = "young"
  /\ UNCHANGED <<clientVars, place, answer, listenVars, server>>

\* The session is a day old.
SessionAges ==
  /\ session = "young" /\ session' = "old"
  /\ UNCHANGED <<clientVars, place, answer, listenVars, server>>

-----------------------------------------------------------------------------
(* The client: ServerStream::connect and send_key.                         *)

Goes(c, where) == client' = [client EXCEPT ![c] = where]
Leaves(s) == left' = left \cup {s}

Start(c) ==
  /\ client[c] = "idle" /\ (c \in Invited => session # "none")
  /\ Goes(c, "tls")
  /\ UNCHANGED <<left, key_sent, place, answer, listenVars, server, session>>

\* The host's TCP connection is established, which the server need not notice.
Open(s) ==
  /\ s[1] \in Clients => client[s[1]] = s[2]
  /\ place[s] = None /\ s[2] \in listening
  /\ Moves(s, "backlog")
  /\ backlog' = IF s[2] = "tls" THEN Append(backlog, s) ELSE backlog
  /\ UNCHANGED <<clientVars, answer, acceptor, queue, listening, server, session>>

\* What the client needs from the server to go on has been sent; that includes
\* a server that has gone again since.
Reached(s) ==
  /\ place[s] \notin {None, "backlog"}
  /\ place[s] = "closed" => answer[s] # None

\* The stream is there, and the key goes out.
Connected(c) ==
  LET s == <<c, client[c]>>
  IN /\ client[c] \in Transports /\ Reached(s)
     /\ key_sent' = key_sent \cup {s}
     /\ Goes(c, "sent_key")
     /\ UNCHANGED <<left, place, answer, listenVars, server, session>>

\* Any error of the attempt, the proxy's included, or server_connection_timeout:
\* after TLS the websocket is tried, after that the session is over.
ConnectFails(c) ==
  /\ client[c] \in Transports
  /\ Leaves(<<c, client[c]>>)
  /\ Goes(c, IF client[c] = "tls" THEN "ws" ELSE "failed")
  /\ UNCHANGED <<key_sent, place, answer, listenVars, server, session>>

Waits(c, s) == client[c] = "sent_key" /\ s \in key_sent /\ s[1] = c

\* There is no timeout: the client is sent an answer or the end of the stream.
HearsAnswer(c) ==
  /\ \E s \in key_sent :
       /\ Waits(c, s)
       /\ \/ answer[s] = "KeyAccepted" /\ Goes(c, "joined") /\ UNCHANGED left
          \/ /\ answer[s] \in {"KeyRejected", "Close"}
                  \/ (answer[s] = None /\ place[s] = "closed")
             /\ Goes(c, "failed") /\ Leaves(s)
  /\ UNCHANGED <<key_sent, place, answer, listenVars, server, session>>

\* The client is stopped, or its stream fails.
ClientFails(c) ==
  /\ \E s \in key_sent : Waits(c, s) /\ Leaves(s)
  /\ Goes(c, "failed")
  /\ UNCHANGED <<key_sent, place, answer, listenVars, server, session>>

-----------------------------------------------------------------------------
(* The TLS listener: one connection at a time.                             *)

Accepting(at, socket) == acceptor' = [at |-> at, socket |-> socket]

Accept ==
  /\ acceptor.at = "accepting" /\ backlog # <<>>
  /\ backlog' = Tail(backlog)
  /\ Accepting("handshake", Head(backlog))
  /\ Moves(Head(backlog), "handshake")
  /\ UNCHANGED <<clientVars, answer, queue, listening, server, session>>

HandshakeDone ==
  LET s == acceptor.socket
  IN /\ acceptor.at = "handshake" /\ s \notin left
     /\ Accepting("sending", s)
     /\ Moves(s, "sending")
     /\ UNCHANGED <<clientVars, answer, backlog, queue, listening, server, session>>

\* Mutant: the handshake has no timeout.
HandshakeBreaks ==
  LET s == acceptor.socket
  IN /\ acceptor.at = "handshake" /\ s \in left
     /\ Accepting("sending", Failed)
     /\ Moves(s, "closed")
     /\ UNCHANGED <<clientVars, answer, backlog, queue, listening, server, session>>

\* An error, or five seconds have gone by.
HandshakeFails ==
  LET s == acceptor.socket
  IN /\ acceptor.at = "handshake"
     /\ Accepting("sending", Failed)
     /\ Moves(s, "closed")
     /\ UNCHANGED <<clientVars, answer, backlog, queue, listening, server, session>>

Queues(t, result) ==
  /\ server = "running" /\ Len(queue[t]) < QueueSize
  /\ queue' = [queue EXCEPT ![t] = Append(@, result)]

\* con_tx.send, an error of the attempt included.
SendAccepted ==
  LET s == acceptor.socket
  IN /\ acceptor.at = "sending"
     /\ Queues("tls", s)
     /\ place' = IF s = Failed THEN place ELSE [place EXCEPT ![s] = "queued"]
     /\ Accepting("accepting", Failed)
     /\ UNCHANGED <<clientVars, answer, backlog, listening, server, session>>

\* It is told to terminate or, at the channel, finds nobody: the listener's
\* socket is closed, and with it what was not accepted.
TlsListenerEnds ==
  /\ server = "stopped" /\ acceptor.at # "ended"
  /\ Accepting("ended", Failed)
  /\ place' = [s \in Sockets |->
                 IF \/ s = acceptor.socket
                    \/ \E i \in DOMAIN backlog : s = backlog[i]
                 THEN "closed" ELSE place[s]]
  /\ backlog' = <<>> /\ listening' = listening \ {"tls"}
  /\ UNCHANGED <<clientVars, answer, queue, server, session>>

-----------------------------------------------------------------------------
(* The websocket listener: a task for each connection, which the end of    *)
(* the listener leaves alone.                                              *)

Upgrade(s) ==
  /\ s[2] = "ws" /\ place[s] = "backlog"
  /\ Moves(s, IF s \in left THEN "closed" ELSE "sending")
  /\ UNCHANGED <<clientVars, answer, listenVars, server, session>>

SendUpgraded(s) ==
  /\ s[2] = "ws" /\ place[s] = "sending"
  /\ \/ Queues("ws", s) /\ Moves(s, "queued")
     \/ server = "stopped" /\ Drops(s) /\ UNCHANGED queue
  /\ UNCHANGED <<clientVars, answer, backlog, acceptor, listening, server, session>>

WsListenerEnds ==
  /\ server = "stopped" /\ "ws" \in listening
  /\ listening' = listening \ {"ws"}
  /\ UNCHANGED <<clientVars, place, answer, backlog, acceptor, queue, server, session>>

\* send_pings wakes up every 30 seconds and sees that the stream was dropped.
PingTaskEnds(s) ==
  /\ place[s] = "dropped"
  /\ Moves(s, "closed")
  /\ UNCHANGED <<clientVars, answer, listenVars, server, session>>

-----------------------------------------------------------------------------
(* The loop of Server::start and its negotiate_key tasks.                  *)

HandleNewConnection(t) ==
  /\ server = "running" /\ queue[t] # <<>>
  /\ queue' = [queue EXCEPT ![t] = Tail(@)]
  /\ LET s == Head(queue[t])
     IN place' = IF s = Failed THEN place ELSE [place EXCEPT ![s] = "negotiating"]
  /\ UNCHANGED <<clientVars, answer, backlog, acceptor, listening, server, session>>

\* A session with this key as one of its two is stored, however old.
FindByKey(s) == s[1] \in Invited /\ session # "none"

\* is_session_valid_to_join, of the session that was found.
Valid(s) == FindByKey(s) /\ session = "young"

\* The task's result is the loop's; nobody takes it once the loop has ended.
\* A write to a client that has left may fail, and so may the database.
ReceiveKey(s) ==
  /\ place[s] = "negotiating" /\ s \in key_sent
  /\ \/ /\ Valid(s) /\ Answers(s, "KeyAccepted")
        /\ IF server = "running" THEN Moves(s, "accepted") ELSE Drops(s)
     \/ ~Valid(s) /\ Answers(s, "KeyRejected") /\ Drops(s)
     \/ Answers(s, "Close") /\ Drops(s)
  /\ UNCHANGED <<clientVars, listenVars, server, session>>

\* Nothing for client_key_timeout, or the end of the stream.
NoKey(s) ==
  /\ place[s] = "negotiating" /\ s \notin key_sent
  /\ Answers(s, "Close") /\ Drops(s)
  /\ UNCHANGED <<clientVars, listenVars, server, session>>

\* RelayServer goes on from here.
HandleAcceptedConnection(s) ==
  /\ server = "running" /\ place[s] = "accepted"
  /\ Moves(s, "handed")
  /\ UNCHANGED <<clientVars, answer, listenVars, server, session>>

\* The terminate message: the listeners are dropped with what they had queued,
\* and the server with what was accepted.
Stop ==
  /\ server = "running" /\ server' = "stopped"
  /\ place' = [s \in Sockets |->
                 IF place[s] \in {"queued", "accepted"} THEN Gone(s) ELSE place[s]]
  /\ queue' = [t \in Transports |-> <<>>]
  /\ UNCHANGED <<clientVars, answer, backlog, acceptor, listening, session>>

-----------------------------------------------------------------------------

Init ==
  /\ client = [c \in Clients |-> "idle"]
  /\ left = {} /\ key_sent = {}
  /\ place = [s \in Sockets |-> None]
  /\ answer = [s \in Sockets |-> None]
  /\ backlog = <<>> /\ acceptor = [at |-> "accepting", socket |-> Failed]
  /\ queue = [t \in Transports |-> <<>>] /\ listening = Transports
  /\ server = "running" /\ session = "none"

Connecting(c) == Connected(c) \/ ConnectFails(c)
Handshake == HandshakeDone \/ HandshakeFails
TlsListener == Accept \/ Handshake \/ SendAccepted \/ TlsListenerEnds
WsConnection(s) == Upgrade(s) \/ SendUpgraded(s) \/ PingTaskEnds(s)
Negotiation(s) == ReceiveKey(s) \/ NoKey(s)
Loop == \/ \E t \in Transports : HandleNewConnection(t)
        \/ \E s \in Sockets : HandleAcceptedConnection(s)

Next ==
  \/ CreateSession \/ SessionAges \/ Stop
  \/ \E c \in Clients :
       Start(c) \/ Connecting(c) \/ HearsAnswer(c) \/ ClientFails(c)
  \/ \E s \in Sockets : Open(s) \/ WsConnection(s) \/ Negotiation(s)
  \/ TlsListener \/ WsListenerEnds \/ Loop

Spec == Init /\ [][Next]_vars

\* A websocket connection whose host never asks for the upgrade: no timeout ends
\* it, but it holds up nobody else.
NeverAsked(s) == s[1] \in Silent /\ s[2] = "ws" /\ place[s] = "backlog"

\* What the server does in any case.
Listening == Accept \/ HandshakeFails \/ SendAccepted \/ TlsListenerEnds
AskedFor(s) == ~NeverAsked(s) /\ WsConnection(s)

\* Every attempt of a client ends, if by its timeout, what it is sent it reads,
\* and the server's tasks and its loop run, as do their timers.  A silent host
\* need neither finish its handshake nor ask for the upgrade.
FairSpec ==
  /\ Spec
  /\ \A c \in Clients : WF_vars(Connecting(c)) /\ WF_vars(HearsAnswer(c))
  /\ WF_vars(Listening) /\ WF_vars(Loop)
  /\ \A s \in Sockets : /\ WF_vars(AskedFor(s)) /\ WF_vars(Negotiation(s))

-----------------------------------------------------------------------------
(* Properties.                                                             *)

\* A client that has sent its key hears of it, although it sets no timeout.
ClientHearsBack ==
  \A c \in Clients : client[c] = "sent_key" ~> client[c] \in {"joined", "failed"}

\* Whatever became of its host, a connection the server has is handed to the
\* pools of the relay or closed: it is not left in a backlog behind a host that
\* says nothing, nor in a channel, a task or a ping's hands when the server
\* stops.  Only one that never asks for the upgrade to a websocket stays as it
\* is.  So every client hears back.
Undecided ==
  {s \in Sockets : place[s] \notin {None, "handed", "closed"} /\ ~NeverAsked(s)}

EveryConnectionIsDecided ==
  /\ Undecided # {} ~> Undecided = {}
  /\ ClientHearsBack
=============================================================================
