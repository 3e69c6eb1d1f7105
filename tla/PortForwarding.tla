--------------------------- MODULE PortForwarding ---------------------------
(***************************************************************************)
(* Forwarding of TCP connections through an established shell session      *)
(* (tunshell-client/src/shell/network.rs): the NetworkPeer of each side    *)
(* accepts connections of local applications, asks the other side to       *)
(* connect to theirs, and carries what both write in messages that share   *)
(* the shell's stream.  UdpForwarding adds the UDP bindings and, for them,  *)
(* the bounded channels between a NetworkPeer and its shell's loop.        *)
(***************************************************************************)
EXTENDS Naturals, Sequences, FiniteSets, SequencesExt

CONSTANTS
  Client, Server,  \* the NetworkPeerRole of each side
  Listeners,       \* the sides that have a TCP listener
  MaxCons,         \* bound: connections each listener accepts
  Writers,         \* bound: the sides whose applications write
  MaxWrites        \* bound: payloads an application writes to one connection

Sides == {Client, Server}

ASSUME ForwardingAssumption ==
  /\ Client # Server /\ Listeners \subseteq Sides
  /\ Writers \subseteq Sides
  /\ MaxCons \in Nat /\ MaxWrites \in Nat

Far(s) == IF s = Client THEN Server ELSE Client
ConIds == 1 .. 2 * MaxCons

VARIABLES
  next_tcp_con_id, tcp_pending, tcp_pending_writes,
  tcp_connections,  \* the connections with a write half
  tcp_reads,        \* those with a read half, and a read under way
  messages,         \* what is on its way to each NetworkPeer
  app,              \* the application at each end of a connection
  written,          \* how many payloads it has written
  unread,           \* what the NetworkPeer has not read from it yet
  got               \* what it was given

peerVars == <<next_tcp_con_id, tcp_pending, tcp_pending_writes,
              tcp_connections, tcp_reads>>
appVars  == <<app, written, unread, got>>
vars     == <<peerVars, messages, appVars>>

Eof == 0
Sending(s, m) == messages' = [messages EXCEPT ![Far(s)] = Append(@, m)]
With(f, s, id) == [f EXCEPT ![s] = @ \cup {id}]
Without(f, s, id) == [f EXCEPT ![s] = @ \ {id}]
At(f, s, id, v) == [f EXCEPT ![s][id] = v]

-----------------------------------------------------------------------------
(* The applications.                                                       *)

AppWrites(s, id) ==
  /\ s \in Writers /\ app[s][id] = "open" /\ written[s][id] < MaxWrites
  /\ written' = At(written, s, id, written[s][id] + 1)
  /\ unread' = At(unread, s, id, Append(unread[s][id], written[s][id] + 1))
  /\ UNCHANGED <<peerVars, messages, app, got>>

\* It shuts its side down, or closes the connection.
AppEnds(s, id) ==
  /\ app[s][id] = "open"
  /\ \E how \in {"shut", "closed"} : app' = At(app, s, id, how)
  /\ unread' = At(unread, s, id, Append(unread[s][id], Eof))
  /\ UNCHANGED <<peerVars, messages, written, got>>

-----------------------------------------------------------------------------
(* NetworkPeer::run.                                                       *)

\* The first id of this side's parity, from the counter on, that is not used.
FreeConId(s) ==
  LET used(id) == id \in tcp_pending[s] \cup tcp_connections[s]
  IN CHOOSE id \in next_tcp_con_id[s] .. 2 * MaxCons :
       /\ id % 2 = next_tcp_con_id[s] % 2 /\ ~used(id)
       /\ \A i \in next_tcp_con_id[s] .. id - 1 :
            i % 2 = id % 2 => used(i)

Accept(s) ==
  /\ s \in Listeners /\ next_tcp_con_id[s] \in ConIds
  /\ LET id == FreeConId(s)
     IN /\ next_tcp_con_id' = [next_tcp_con_id EXCEPT ![s] = id + 2]
        /\ tcp_pending' = With(tcp_pending, s, id)
        /\ app' = At(app, s, id, "open")
        /\ Sending(s, [type |-> "TcpConnect", id |-> id])
  /\ UNCHANGED <<tcp_pending_writes, tcp_connections, tcp_reads, written,
                 unread, got>>

\* handle_tcp_read: the end of what the application writes ends the connection.
HandleTcpRead(s, id) ==
  /\ id \in tcp_reads[s] /\ unread[s][id] # <<>>
  /\ LET payload == Head(unread[s][id])
     IN IF payload = Eof
        THEN /\ tcp_connections' = Without(tcp_connections, s, id)
             /\ tcp_reads' = Without(tcp_reads, s, id)
             /\ Sending(s, [type |-> "TcpClose", id |-> id])
        ELSE /\ Sending(s, [type |-> "TcpSend", id |-> id, payload |-> payload])
             /\ UNCHANGED <<tcp_connections, tcp_reads>>
  /\ unread' = At(unread, s, id, Tail(unread[s][id]))
  /\ UNCHANGED <<next_tcp_con_id, tcp_pending, tcp_pending_writes, app,
                 written, got>>

\* The application reads what is written to it unless it closed.
Given(s, id, payloads) ==
  got' = IF app[s][id] = "closed" THEN got
         ELSE At(got, s, id, got[s][id] \o payloads)

\* Mutant: the write half is not kept.
ActivateReads(s, id) ==
  /\ tcp_reads' = With(tcp_reads, s, id)
  /\ Given(s, id, tcp_pending_writes[s][id])
  /\ tcp_pending_writes' = At(tcp_pending_writes, s, id, <<>>)
  /\ UNCHANGED tcp_connections

\* activate_tcp_connection: what had to wait is written first.
Activate(s, id) ==
  /\ tcp_connections' = With(tcp_connections, s, id)
  /\ tcp_reads' = With(tcp_reads, s, id)
  /\ Given(s, id, tcp_pending_writes[s][id])
  /\ tcp_pending_writes' = At(tcp_pending_writes, s, id, <<>>)

Incoming(s, type) == messages[s] # <<>> /\ Head(messages[s]).type = type
Handled(s) == [messages EXCEPT ![s] = Tail(@)]
Answering(s, m) ==
  messages' = [Handled(s) EXCEPT ![Far(s)] = Append(@, m)]

\* Mutant: a connection that cannot be made is not answered.
ConnectFailsSilently(s) ==
  /\ Incoming(s, "TcpConnect")
  /\ LET id == Head(messages[s]).id
     IN \/ /\ Activate(s, id)
           /\ app' = At(app, s, id, "open")
           /\ Answering(s, [type |-> "TcpConnectResult", id |-> id,
                            connected |-> TRUE])
        \/ /\ messages' = Handled(s)
           /\ UNCHANGED <<tcp_pending_writes, tcp_connections, tcp_reads, app,
                          got>>
  /\ UNCHANGED <<next_tcp_con_id, tcp_pending, written, unread>>

HandleTcpConnect(s) ==
  /\ Incoming(s, "TcpConnect")
  /\ LET id == Head(messages[s]).id
     IN \/ /\ Activate(s, id)
           /\ app' = At(app, s, id, "open")
           /\ Answering(s, [type |-> "TcpConnectResult", id |-> id,
                            connected |-> TRUE])
        \/ /\ Answering(s, [type |-> "TcpConnectResult", id |-> id,
                            connected |-> FALSE])
           /\ UNCHANGED <<tcp_pending_writes, tcp_connections, tcp_reads, app,
                          got>>
  /\ UNCHANGED <<next_tcp_con_id, tcp_pending, written, unread>>

\* If what had to wait cannot be written, activate_tcp_connection returns
\* before it reads: the write half is kept, the read half is dropped.
ActivateFails(s, id) ==
  /\ app[s][id] = "closed" /\ tcp_pending_writes[s][id] # <<>>
  /\ tcp_connections' = With(tcp_connections, s, id)
  /\ tcp_pending_writes' = At(tcp_pending_writes, s, id, <<>>)
  /\ unread' = At(unread, s, id, <<>>)
  /\ UNCHANGED <<tcp_reads, got>>

HandleTcpConnectResult(s) ==
  /\ Incoming(s, "TcpConnectResult")
  /\ LET m == Head(messages[s])
     IN /\ tcp_pending' = Without(tcp_pending, s, m.id)
        /\ m.id \in tcp_pending[s]
        /\ \/ m.connected /\ Activate(s, m.id) /\ UNCHANGED <<app, unread>>
           \/ m.connected /\ ActivateFails(s, m.id) /\ UNCHANGED app
           \/ /\ ~m.connected
              /\ tcp_pending_writes' = At(tcp_pending_writes, s, m.id, <<>>)
              /\ app' = At(app, s, m.id, "closed")
              /\ UNCHANGED <<tcp_connections, tcp_reads, unread, got>>
  /\ messages' = Handled(s)
  /\ UNCHANGED <<next_tcp_con_id, written>>

\* A payload for a connection that is not there is reported and dropped.
HandleTcpSend(s) ==
  /\ Incoming(s, "TcpSend")
  /\ LET m == Head(messages[s])
         waits == m.id \notin tcp_connections[s] /\ m.id \in tcp_pending[s]
     IN /\ Given(s, m.id, IF m.id \in tcp_connections[s] THEN <<m.payload>>
                          ELSE <<>>)
        /\ tcp_pending_writes' =
             At(tcp_pending_writes, s, m.id, tcp_pending_writes[s][m.id] \o
                  (IF waits THEN <<m.payload>> ELSE <<>>))
  /\ messages' = Handled(s)
  /\ UNCHANGED <<next_tcp_con_id, tcp_pending, tcp_connections, tcp_reads, app,
                 written, unread>>

\* The write half goes; the read half is in tcp_reads and stays there.
HandleTcpClose(s) ==
  /\ Incoming(s, "TcpClose")
  /\ LET id == Head(messages[s]).id
     IN /\ tcp_pending' = Without(tcp_pending, s, id)
        /\ tcp_pending_writes' = At(tcp_pending_writes, s, id, <<>>)
        /\ tcp_connections' = Without(tcp_connections, s, id)
  /\ messages' = Handled(s)
  /\ UNCHANGED <<next_tcp_con_id, tcp_reads, appVars>>

HandleMessage(s) ==
  \/ HandleTcpConnect(s) \/ HandleTcpConnectResult(s)
  \/ HandleTcpSend(s) \/ HandleTcpClose(s)

-----------------------------------------------------------------------------

Init ==
  LET each(v) == [s \in Sides |-> [id \in ConIds |-> v]]
  IN /\ next_tcp_con_id = [s \in Sides |-> IF s = Client THEN 1 ELSE 2]
     /\ tcp_pending = [s \in Sides |-> {}]
     /\ tcp_pending_writes = each(<<>>)
     /\ tcp_connections = [s \in Sides |-> {}]
     /\ tcp_reads = [s \in Sides |-> {}]
     /\ messages = [s \in Sides |-> <<>>]
     /\ app = each("none") /\ written = each(0)
     /\ unread = each(<<>>) /\ got = each(<<>>)

Next == \E s \in Sides :
  \/ Accept(s) \/ HandleMessage(s)
  \/ \E id \in ConIds : AppWrites(s, id) \/ AppEnds(s, id) \/ HandleTcpRead(s, id)

Spec == Init /\ [][Next]_vars

-----------------------------------------------------------------------------
(* Properties.                                                             *)

TypeOK ==
  /\ tcp_pending \in [Sides -> SUBSET ConIds]
  /\ tcp_connections \in [Sides -> SUBSET ConIds]
  /\ tcp_reads \in [Sides -> SUBSET ConIds]
  /\ \A s \in Sides, id \in ConIds :
       /\ tcp_pending_writes[s][id] \in Seq(1 .. MaxWrites)
       /\ app[s][id] \in {"none", "open", "shut", "closed"}
       /\ written[s][id] \in 0 .. MaxWrites
       /\ got[s][id] \in Seq(1 .. MaxWrites)

\* When an application has ended its connection and all it wrote was taken from
\* it and handled, the one at the other end, if it has not ended it too, was
\* given everything: the close does not overtake the data.  Only an application
\* that closed on data which waited for it may lose its own.
NothingLostAtClose ==
  \A s \in Sides, id \in ConIds :
    (/\ app[s][id] = "open" /\ app[Far(s)][id] \in {"shut", "closed"}
     /\ id \notin tcp_pending[Far(s)] /\ unread[Far(s)][id] = <<>>
     /\ id \notin tcp_connections[Far(s)] \ tcp_reads[Far(s)]
     /\ \A i \in 1 .. Len(messages[s]) : messages[s][i].id # id)
      => Len(got[s][id]) = written[Far(s)][id]

\* An application is given what the other end of its own connection wrote, in
\* order and without gaps, whatever other connections do: ids of the two sides
\* never meet, and no message of an old connection reaches a new one.  And it
\* is given all of it before the other end's close.
ForwardedInOrder ==
  /\ \A s \in Sides, id \in ConIds :
       IsPrefix(got[s][id], [i \in 1 .. written[Far(s)][id] |-> i])
  /\ NothingLostAtClose

\* Once both sides are done with a connection neither keeps anything of it.
BothDoneNothingLeft ==
  \A id \in ConIds :
    (/\ \A s \in Sides : app[s][id] \in {"shut", "closed"}
     /\ \A s \in Sides : unread[s][id] = <<>> /\ messages[s] = <<>>)
      => \A s \in Sides :
           id \notin tcp_pending[s] \cup tcp_connections[s] \cup tcp_reads[s]

\* A connection that waits for the other side is never forgotten: the question
\* is on its way there, or an answer or a close is on its way back.
PendingIsBeingDecided ==
  \A s \in Sides : \A id \in tcp_pending[s] :
    \/ \E i \in DOMAIN messages[Far(s)] :
         messages[Far(s)][i] = [type |-> "TcpConnect", id |-> id]
    \/ \E i \in DOMAIN messages[s] :
         /\ messages[s][i].type \in {"TcpConnectResult", "TcpClose"}
         /\ messages[s][i].id = id

\* No connection stays behind: one that waits will be decided, and of one that
\* is over nothing is kept.
NothingIsLeftBehind == PendingIsBeingDecided /\ BothDoneNothingLeft
=============================================================================
