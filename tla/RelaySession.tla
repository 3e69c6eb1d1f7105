---------------------------- MODULE RelaySession ----------------------------
(***************************************************************************)
(* The relay server with its clients (tunshell-client/src/client.rs and    *)
(* stream/relay_stream.rs).  A client may fail, or be killed, at any       *)
(* moment, and two clients may present the same key.                       *)
(***************************************************************************)
EXTENDS RelayServer, SequencesExt

CONSTANT MaxPayloads  \* bound: what a participant's client writes to its relay stream

ASSUME PayloadsAssumption == MaxPayloads \in [Keys -> Nat]

VARIABLES
  client,    \* where start_session of each client is
  bound,     \* negotiate_peer_connection has bound its ports
  peer,      \* peer_info: the connection a client was told it joined
  sent,      \* how many payloads it has written
  received   \* the payloads it has read

clientVars == <<client, bound, peer, sent, received>>
vars == <<channels, serverVars, clientVars>>

Nobody == "nobody"
ASSUME NobodyAssumption == Nobody \notin Conns

Ended == {"finished", "failed"}

Say(c, m) == toServer' = [toServer EXCEPT ![c] = Append(@, m)]
Quit(c, msgs) == toServer' = [toServer EXCEPT ![c] = @ \o msgs \o <<Eof>>]
Goes(c, stage) == client' = [client EXCEPT ![c] = stage]
Hears(c, type) == Unread(toClient, c) /\ Head(toClient[c]).type = type
Heard(c) == toClient' = [toClient EXCEPT ![c] = Tail(@)]

\* The connection is gone for good: nothing that is left in it is ever read.
Hangup(c) == toClient' = [toClient EXCEPT ![c] = <<>>]

-----------------------------------------------------------------------------

Connect(c) ==
  /\ client[c] = "idle"
  /\ HandleNewConnection(c)
  /\ Say(c, Message("Key")) /\ Goes(c, "sent_key")
  /\ UNCHANGED <<toClient, waiting, pairs, bound, peer, sent, received>>

\* What send_key and wait_for_peer_to_join hope for.
KeyAccepted(c) ==
  /\ client[c] = "sent_key" /\ Hears(c, "KeyAccepted")
  /\ Heard(c) /\ Goes(c, "wait_for_peer")
  /\ UNCHANGED <<toServer, serverVars, bound, peer, sent, received>>

PeerJoined(c) ==
  /\ client[c] = "wait_for_peer" /\ Hears(c, "PeerJoined")
  /\ peer' = [peer EXCEPT ![c] = Head(toClient[c]).peer]
  /\ Heard(c) /\ Goes(c, "negotiating")
  /\ UNCHANGED <<toServer, serverVars, bound, sent, received>>

\* negotiate_peer_connection.  Direct connections may be disabled, and either
\* port may fail to be bound.
Bind(c) ==
  /\ client[c] = "negotiating" /\ Hears(c, "BindForDirectConnect")
  /\ \/ \E ports \in SUBSET Protocols :
          /\ Say(c, [type |-> "DirectConnectBound", ports |-> ports])
          /\ bound' = [bound EXCEPT ![c] = TRUE]
     \/ Say(c, Message("DirectConnectFailed")) /\ UNCHANGED bound
  /\ Heard(c)
  /\ UNCHANGED <<serverVars, client, peer, sent, received>>

\* The attempt succeeds or not on each side by itself (see UdpNegotiation).
AttemptDirect(c) ==
  /\ client[c] = "negotiating" /\ Hears(c, "AttemptDirectConnect") /\ bound[c]
  /\ bound' = [bound EXCEPT ![c] = FALSE]
  /\ \/ Say(c, Message("DirectConnectSucceeded")) /\ Goes(c, "direct")
     \/ Say(c, Message("DirectConnectFailed")) /\ UNCHANGED client
  /\ Heard(c)
  /\ UNCHANGED <<serverVars, peer, sent, received>>

StartRelayMode(c) ==
  /\ client[c] = "negotiating" /\ Hears(c, "StartRelayMode")
  /\ Heard(c) /\ Goes(c, "relayed")
  /\ UNCHANGED <<toServer, serverVars, bound, peer, sent, received>>

Expected(c) ==
  CASE client[c] = "sent_key"      -> {"KeyAccepted"}
    [] client[c] = "wait_for_peer" -> {"PeerJoined"}
    [] client[c] = "negotiating"   ->
         {"BindForDirectConnect", "StartRelayMode"}
           \cup (IF bound[c] THEN {"AttemptDirectConnect"} ELSE {})
    [] client[c] = "relayed"       -> {"Relay", "Close"}
    [] OTHER                       -> {}

\* Any other answer, KeyRejected and AlreadyJoined too, is an error: the
\* client returns and its stream is dropped.
UnexpectedMessage(c) ==
  /\ client[c] \in {"sent_key", "wait_for_peer", "negotiating", "relayed"}
  /\ Unread(toClient, c) /\ Head(toClient[c]).type \notin Expected(c)
  /\ Quit(c, <<>>) /\ Hangup(c) /\ Goes(c, "failed")
  /\ UNCHANGED <<serverVars, bound, peer, sent, received>>

\* RelayStream, used by the shells on both sides.
RelayWrite(c) ==
  /\ client[c] = "relayed" /\ sent[c] < MaxPayloads[KeyOf[c]]
  /\ sent' = [sent EXCEPT ![c] = @ + 1]
  /\ Say(c, [type |-> "Relay", from |-> c, n |-> sent[c] + 1])
  /\ UNCHANGED <<toClient, serverVars, client, bound, peer, received>>

RelayRead(c) ==
  /\ client[c] = "relayed" /\ Hears(c, "Relay")
  /\ LET m == Head(toClient[c])
     IN received' = [received EXCEPT ![c] = Append(@, <<m.from, m.n>>)]
  /\ Heard(c)
  /\ UNCHANGED <<toServer, serverVars, client, bound, peer, sent>>

\* The stream ends where the server says Close, and with it the shell.
RelayClosed(c) ==
  /\ client[c] = "relayed" /\ Hears(c, "Close")
  /\ Quit(c, <<>>) /\ Hangup(c) /\ Goes(c, "finished")
  /\ UNCHANGED <<serverVars, bound, peer, sent, received>>

\* The shell is over: Close is sent if the message stream is not shared any
\* more with the relay stream.
Finish(c) ==
  /\ client[c] \in {"direct", "relayed"}
  /\ \/ Quit(c, <<Message("Close")>>)
     \/ client[c] = "relayed" /\ Quit(c, <<>>)
  /\ Hangup(c) /\ Goes(c, "finished")
  /\ UNCHANGED <<serverVars, bound, peer, sent, received>>

\* An error of the network or the end of the process.
ClientFails(c) ==
  /\ client[c] \notin {"idle"} \cup Ended
  /\ Quit(c, <<>>) /\ Hangup(c) /\ Goes(c, "failed")
  /\ UNCHANGED <<serverVars, bound, peer, sent, received>>

-----------------------------------------------------------------------------

Init ==
  /\ ServerInit
  /\ toServer = [c \in Conns |-> <<>>] /\ toClient = [c \in Conns |-> <<>>]
  /\ client = [c \in Conns |-> "idle"]
  /\ bound = [c \in Conns |-> FALSE]
  /\ peer = [c \in Conns |-> Nobody]
  /\ sent = [c \in Conns |-> 0]
  /\ received = [c \in Conns |-> <<>>]

\* What a client does with what it reads.
ClientReads(c) ==
  \/ KeyAccepted(c) \/ PeerJoined(c) \/ Bind(c) \/ AttemptDirect(c)
  \/ StartRelayMode(c) \/ UnexpectedMessage(c) \/ RelayRead(c)
  \/ RelayClosed(c)

Client(c) == \/ Connect(c) \/ ClientReads(c) \/ RelayWrite(c) \/ Finish(c)
             \/ ClientFails(c)

Timers == CleanExpiredConnections \/ \E p \in pairs : PairExpires(p)

Server == \/ \E c \in Conns : KeyTask(c)
          \/ Loop
          \/ \E p \in pairs : PairTask(p)
          \/ Timers

Next == (\E c \in Conns : Client(c)) \/ (Server /\ UNCHANGED clientVars)

Spec == Init /\ [][Next]_vars

\* Behaviours in which nobody fails, gives up or leaves.
HealthyNext ==
  \/ \E c \in Conns : Connect(c) \/ ClientReads(c) \/ RelayWrite(c)
  \/ /\ \/ \E c \in Conns : KeyTask(c)
        \/ Loop
        \/ \E p \in pairs : PairTask(p)
     /\ UNCHANGED clientVars

HealthySpec == Init /\ [][HealthyNext]_vars

-----------------------------------------------------------------------------
(* Fairness: messages that are there are read, and the server's tasks and  *)
(* its loop run.  No timer has to expire, no client has to write, to       *)
(* finish or to connect.  All of them together take finitely many steps,   *)
(* as a client connects once and writes at most MaxPayloads payloads, so   *)
(* that fairness for all clients, or all tasks, is fairness for each.      *)

ServerTask ==
  \/ \E c \in Conns : ReceiveKey(c)
  \/ Loop
  \/ \E p \in pairs : PairTask(p)

FairSpec ==
  /\ Spec
  /\ WF_vars(\E c \in Conns : ClientReads(c))
  /\ WF_vars(ServerTask /\ UNCHANGED clientVars)

-----------------------------------------------------------------------------
(* Properties.                                                             *)

Paired(c) == \E p \in pairs : c \in ConnsOf(p)
Waits(c)  == \E k \in DOMAIN waiting : waiting[k] = c

TypeOK ==
  /\ accepting \in [Conns -> {"none", "waiting_key", "accepted", "done"}]
  /\ DOMAIN waiting \subseteq Keys
  /\ \A k \in DOMAIN waiting : waiting[k] \in Conns /\ KeyOf[waiting[k]] = k
  /\ \A p \in pairs :
       /\ p.con1 \in Conns /\ p.con2 \in Conns
       /\ p.stage \in {"joining", "joined", "binding", "attempting", "direct",
                       "relaying"}
       /\ DOMAIN p.results \subseteq ConnsOf(p)
  /\ client \in [Conns -> {"idle", "sent_key", "wait_for_peer", "negotiating",
                          "direct", "relayed"} \cup Ended]
  /\ bound \in [Conns -> BOOLEAN]
  /\ peer \in [Conns -> Conns \cup {Nobody}]
  /\ \A c \in Conns : sent[c] \in 0 .. MaxPayloads[KeyOf[c]]

\* The loop never lets the two participants of a session wait for each other:
\* whichever joins second is paired with the first.
NeverBothWaiting == \A k \in DOMAIN waiting : Other[k] \notin DOMAIN waiting

\* A connection is served by at most one pair, one that joins the participants
\* of one session, and a paired connection does not wait any more.
PairsAreSessions ==
  /\ \A p \in pairs : KeyOf[p.con2] = Other[KeyOf[p.con1]]
  /\ \A p, q \in pairs : ConnsOf(p) \cap ConnsOf(q) # {} => p = q
  /\ \A c \in Conns : ~(Paired(c) /\ Waits(c))

\* Two clients that were joined never use different streams: when one of them
\* runs over the direct connection the other does not run over the relay,
\* whatever the answers of the two and the order they came in.
StreamsAgree ==
  \A c \in Conns : client[c] = "direct" =>
    /\ peer[c] # Nobody /\ peer[peer[c]] \in {c, Nobody}
    /\ client[peer[c]] # "relayed"

\* What a client reads from the relay stream is what the peer it joined wrote
\* to its own, from the start, in order, nothing missing and nothing twice.
RelayedInOrder ==
  \A c \in Conns : peer[c] # Nobody =>
    IsPrefix(received[c], [i \in 1 .. sent[peer[c]] |-> <<peer[c], i>>])

\* relay.rs: "If the direct connection fails the relay server becomes
\* responsible for proxying data between the two peers": once two clients are
\* joined and neither leaves, neither of them ends with an error.
JoinedClientsConnect ==
  \A c \in Conns : client[c] = "failed" => peer[c] = Nobody

\* A client whose peer is gone learns it, while it negotiates and while it is
\* relayed, without any expiry: the server ends the pair and says so.  (Once
\* it has a direct stream, that stream is what ends.)
PeerFailureIsNoticed ==
  \A c \in Conns :
    (/\ client[c] \in {"negotiating", "relayed"}
     /\ peer[c] # Nobody /\ client[peer[c]] \in Ended)
      ~> client[c] \in Ended \cup {"direct"}

\* A client that waits for a peer after its key was accepted really waits at
\* the server, or is told otherwise: no accepted client is forgotten.
AcceptedIsNotForgotten ==
  \A c \in Conns :
    client[c] = "wait_for_peer" ~>
      (client[c] # "wait_for_peer" \/ Waits(c))
=============================================================================
