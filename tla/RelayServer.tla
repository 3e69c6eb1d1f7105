---------------------------- MODULE RelayServer ----------------------------
(***************************************************************************)
(* The relay server (tunshell-server/src/relay/server): it checks the key  *)
(* of every new connection, lets the first participant of a session wait,  *)
(* pairs it with the second, leads the two through an attempt to connect   *)
(* directly, and relays between them when that fails.  Every connection    *)
(* has a task that checks its key, every pair a task that serves it, and   *)
(* one loop owns the pools; all of them interleave.  The clients are in    *)
(* RelaySession.                                                           *)
(***************************************************************************)
EXTENDS Naturals, Sequences, FiniteSets, Functions

CONSTANTS
  Conns,        \* the connections that clients may make
  Keys,        \* the keys of the participants
  KeyOf,       \* the key each connection presents
  Other,       \* Session::other_participant: the key of the other one
  Protocols    \* the protocols a port may be bound for

ASSUME ServerAssumption ==
  /\ IsFiniteSet(Conns) /\ KeyOf \in [Conns -> Keys]
  /\ Other \in [Keys -> Keys]
  /\ \A k \in Keys : Other[k] # k /\ Other[Other[k]] = k

VARIABLES
  toServer, toClient,  \* the two directions of each connection
  accepting,           \* the key negotiation of each connection
  waiting,             \* connections.waiting: from keys to connections
  pairs                \* the tasks pair_connections spawned

channels   == <<toServer, toClient>>
serverVars == <<accepting, waiting, pairs>>

Message(type) == [type |-> type]

\* How a reader sees the end of a connection the other side has closed.
Eof == Message("Eof")

\* A client that closed its end: what is still sent to it goes nowhere.
Gone(c) == toServer[c] # <<>> /\ toServer[c][Len(toServer[c])] = Eof

Unread(chan, c) == chan[c] # <<>>

\* The channels after the messages of sends[c] have gone to each client c.
Sending(sends) ==
  [c \in Conns |-> IF c \in DOMAIN sends /\ ~Gone(c)
                  THEN toClient[c] \o sends[c] ELSE toClient[c]]

SendingTo(c, msgs) == Sending([x \in {c} |-> msgs])
SendingBoth(c1, m1, c2, m2) ==
  Sending([x \in {c1, c2} |-> IF x = c1 THEN <<m1>> ELSE <<m2>>])

\* Mutant: the stream is dropped without a word and stays open.
NoGoodbye == <<>>

\* Drop of ClientMessageStream: a client that did not say Close is told so.
Goodbye == <<Message("Close"), Eof>>
Dropping(S, saidClose) ==
  [c \in S |-> IF c \in saidClose THEN <<Eof>> ELSE Goodbye]

-----------------------------------------------------------------------------
(* negotiate_key, a task per connection.                                   *)

\* handle_new_connection: a listener accepted a connection.
HandleNewConnection(c) == accepting' = [accepting EXCEPT ![c] = "waiting_key"]

\* The session is found and young enough, or not, at this moment; or the
\* database fails, and the client is told nothing but the end.
ReceiveKey(c) ==
  /\ accepting[c] = "waiting_key"
  /\ Unread(toServer, c) /\ Head(toServer[c]).type = "Key"
  /\ toServer' = [toServer EXCEPT ![c] = Tail(@)]
  /\ \/ /\ toClient' = SendingTo(c, <<Message("KeyAccepted")>>)
        /\ accepting' = [accepting EXCEPT ![c] = "accepted"]
     \/ /\ \/ toClient' = SendingTo(c, <<Message("KeyRejected")>> \o Goodbye)
           \/ toClient' = SendingTo(c, Goodbye)
        /\ accepting' = [accepting EXCEPT ![c] = "done"]
  /\ UNCHANGED <<waiting, pairs>>

\* Something else came, or nothing for client_key_timeout.
NoKey(c) ==
  /\ accepting[c] = "waiting_key"
  /\ Unread(toServer, c) => Head(toServer[c]).type # "Key"
  /\ accepting' = [accepting EXCEPT ![c] = "done"]
  /\ toClient' = SendingTo(c, Goodbye)
  /\ UNCHANGED <<toServer, waiting, pairs>>

-----------------------------------------------------------------------------
(* The loop of Server::start.                                              *)

NewPair(c1, c2) == [con1 |-> c1, con2 |-> c2, stage |-> "joining",
                    results |-> <<>>]

\* Mutant: a waiting peer that has sent something is passed over.
SilentPeerWaits(c) ==
  /\ Other[KeyOf[c]] \in DOMAIN waiting
  /\ ~Unread(toServer, waiting[Other[KeyOf[c]]])

PeerWaits(c) == Other[KeyOf[c]] \in DOMAIN waiting

\* HashMap::insert.
Insert(f, k, v) == [x \in DOMAIN f \cup {k} |-> IF x = k THEN v ELSE f[x]]

\* Mutants: the connection waits under its peer's key; it is forgotten.
StartWaitingNowhere(c) == waiting' = waiting

StartWaiting(c) == waiting' = Insert(waiting, KeyOf[c], c)

\* Mutant: the peer that waited is not removed.
PairKeepsWaiting(c) ==
  /\ pairs' = pairs \cup {NewPair(c, waiting[Other[KeyOf[c]]])}
  /\ waiting' = waiting

PairWithWaiting(c) ==
  LET k == Other[KeyOf[c]]
  IN /\ pairs' = pairs \cup {NewPair(c, waiting[k])}
     /\ waiting' = Restrict(waiting, DOMAIN waiting \ {k})

HandleAcceptedConnection(c) ==
  LET key == KeyOf[c] IN
  /\ accepting[c] = "accepted"
  /\ accepting' = [accepting EXCEPT ![c] = "done"]
  /\ \/ /\ key \in DOMAIN waiting
        /\ toClient' = SendingTo(c, <<Message("AlreadyJoined")>> \o Goodbye)
        /\ UNCHANGED <<waiting, pairs>>
     \/ /\ key \notin DOMAIN waiting /\ PeerWaits(c)
        /\ PairWithWaiting(c)
        /\ UNCHANGED toClient
     \/ /\ key \notin DOMAIN waiting /\ ~PeerWaits(c)
        /\ StartWaiting(c)
        /\ UNCHANGED <<toClient, pairs>>
  /\ UNCHANGED toServer

StopWaiting(S) ==
  /\ waiting' = Restrict(waiting, DOMAIN waiting \ S)
  /\ toClient' = Sending(Dropping({waiting[k] : k \in S}, {}))
  /\ UNCHANGED <<accepting, pairs>>

\* A waiting connection received something, or its client closed it.
HandleClosedWaitingConnection(k) ==
  /\ k \in DOMAIN waiting /\ Unread(toServer, waiting[k])
  /\ toServer' = [toServer EXCEPT ![waiting[k]] =
                    IF Head(@) = Eof THEN @ ELSE Tail(@)]
  /\ StopWaiting({k})

\* Those that wait for waiting_connection_expiry.  (A pair that is too old
\* loses its JoinHandle, which leaves its task alone: see PairExpires.)
CleanExpiredConnections ==
  /\ \E S \in SUBSET DOMAIN waiting : S # {} /\ StopWaiting(S)
  /\ UNCHANGED toServer

-----------------------------------------------------------------------------
(* pair_connections, a task per pair.                                      *)

ConnsOf(p) == {p.con1, p.con2}
PeerIn(p, c) == IF c = p.con1 THEN p.con2 ELSE p.con1

Becomes(p, q) == pairs' = (pairs \ {p}) \cup {q}
AtStage(p, s) == [p EXCEPT !.stage = s, !.results = <<>>]

\* The task returns, well or not, and drops both connections.
PairEnds(p, saidClose) ==
  /\ pairs' = pairs \ {p}
  /\ toClient' = Sending(Dropping(ConnsOf(p), saidClose))

\* Mutant: each client is told about itself.
SendSelfJoined(p) ==
  /\ p.stage = "joining"
  /\ toClient' = SendingBoth(p.con1, [type |-> "PeerJoined", peer |-> p.con1],
                             p.con2, [type |-> "PeerJoined", peer |-> p.con2])
  /\ Becomes(p, AtStage(p, "joined"))
  /\ UNCHANGED <<toServer, accepting, waiting>>

SendPeerJoined(p) ==
  /\ p.stage = "joining"
  /\ toClient' = SendingBoth(p.con1, [type |-> "PeerJoined", peer |-> p.con2],
                             p.con2, [type |-> "PeerJoined", peer |-> p.con1])
  /\ Becomes(p, AtStage(p, "joined"))
  /\ UNCHANGED <<toServer, accepting, waiting>>

SendBind(p) ==
  /\ p.stage = "joined"
  /\ toClient' = SendingBoth(p.con1, Message("BindForDirectConnect"),
                             p.con2, Message("BindForDirectConnect"))
  /\ Becomes(p, AtStage(p, "binding"))
  /\ UNCHANGED <<toServer, accepting, waiting>>

StartRelay(p) ==
  /\ toClient' = SendingBoth(p.con1, Message("StartRelayMode"),
                             p.con2, Message("StartRelayMode"))
  /\ Becomes(p, AtStage(p, "relaying"))

\* Both answers to BindForDirectConnect are there.
BoundResults(p, r1, r2) ==
  LET Failed(r) == r.type = "DirectConnectFailed"
      Bound(r)  == r.type = "DirectConnectBound"
  IN \/ /\ Bound(r1) /\ Bound(r2) /\ r1.ports \cap r2.ports # {}
        /\ toClient' = SendingBoth(
             p.con1, [type |-> "AttemptDirectConnect", ports |-> r2.ports],
             p.con2, [type |-> "AttemptDirectConnect", ports |-> r1.ports])
        /\ Becomes(p, AtStage(p, "attempting"))
     \/ /\ Bound(r1) /\ Bound(r2) /\ r1.ports \cap r2.ports = {}
        /\ StartRelay(p)
     \/ /\ \A r \in {r1, r2} : Failed(r) \/ Bound(r)
        /\ Failed(r1) \/ Failed(r2)
        /\ StartRelay(p)
     \/ /\ \E r \in {r1, r2} : ~Failed(r) /\ ~Bound(r)
        /\ PairEnds(p, {})

\* Mutant: one failure is enough to fall back to the relay.
EitherFailureRelays(p, r1, r2) ==
  \/ /\ r1.type = "DirectConnectSucceeded" /\ r2.type = r1.type
     /\ Becomes(p, AtStage(p, "direct")) /\ UNCHANGED toClient
  \/ /\ "DirectConnectFailed" \in {r1.type, r2.type}
     /\ StartRelay(p)

\* Both answers to AttemptDirectConnect: they must agree.
AttemptResults(p, r1, r2) ==
  \/ /\ r1.type = "DirectConnectSucceeded" /\ r2.type = r1.type
     /\ Becomes(p, AtStage(p, "direct")) /\ UNCHANGED toClient
  \/ /\ r1.type = "DirectConnectFailed" /\ r2.type = r1.type
     /\ StartRelay(p)
  \/ /\ ~(r1.type = r2.type /\ r1.type \in {"DirectConnectSucceeded",
                                            "DirectConnectFailed"})
     /\ PairEnds(p, {})

\* try_join! of the two next(): the answers come in any order, and the end of
\* one connection ends the wait for both.
ReceiveResult(p, c) ==
  /\ p.stage \in {"binding", "attempting"}
  /\ c \notin DOMAIN p.results /\ Unread(toServer, c)
  /\ LET m  == Head(toServer[c])
         r  == Insert(p.results, c, m)
     IN /\ toServer' = [toServer EXCEPT ![c] = IF m = Eof THEN @ ELSE Tail(@)]
        /\ \/ m = Eof /\ PairEnds(p, {})
           \/ /\ m # Eof /\ PeerIn(p, c) \notin DOMAIN r
              /\ Becomes(p, [p EXCEPT !.results = r]) /\ UNCHANGED toClient
           \/ /\ m # Eof /\ PeerIn(p, c) \in DOMAIN r
              /\ IF p.stage = "binding"
                 THEN BoundResults(p, r[p.con1], r[p.con2])
                 ELSE AttemptResults(p, r[p.con1], r[p.con2])
  /\ UNCHANGED <<accepting, waiting>>

SaidClose(c, m) == IF m.type = "Close" THEN {c} ELSE {}

\* The clients are connected: any message, Close or not, ends the pair.
DirectEnds(p, c) ==
  /\ p.stage = "direct" /\ Unread(toServer, c)
  /\ toServer' = [toServer EXCEPT ![c] = IF Head(@) = Eof THEN @ ELSE Tail(@)]
  /\ PairEnds(p, SaidClose(c, Head(toServer[c])))
  /\ UNCHANGED <<accepting, waiting>>

\* One turn of relay_loop.
Relay(p, c) ==
  /\ p.stage = "relaying" /\ Unread(toServer, c)
  /\ LET m == Head(toServer[c])
     IN /\ toServer' = [toServer EXCEPT ![c] = IF m = Eof THEN @ ELSE Tail(@)]
        /\ \/ /\ m.type = "Relay"
              /\ toClient' = SendingTo(PeerIn(p, c), <<m>>)
              /\ UNCHANGED pairs
           \/ m.type # "Relay" /\ PairEnds(p, SaidClose(c, m))
  /\ UNCHANGED <<accepting, waiting>>

\* A write to a client that is gone returns an error.
WriteFails(p) ==
  /\ \E c \in ConnsOf(p) :
       /\ Gone(c)
       /\ \/ p.stage \in {"joining", "joined"}
          \/ p.stage = "relaying" /\ Unread(toServer, PeerIn(p, c))
  /\ PairEnds(p, {})
  /\ UNCHANGED <<toServer, accepting, waiting>>

\* The timeout of paired_connection_expiry around the task.
PairExpires(p) ==
  /\ PairEnds(p, {})
  /\ UNCHANGED <<toServer, accepting, waiting>>

-----------------------------------------------------------------------------

ServerInit ==
  /\ accepting = [c \in Conns |-> "none"]
  /\ waiting = <<>>
  /\ pairs = {}

KeyTask(c) == ReceiveKey(c) \/ NoKey(c)

Loop == \/ \E c \in Conns : HandleAcceptedConnection(c)
        \/ \E k \in Keys : HandleClosedWaitingConnection(k)

\* What a pair's task does without its timeout.
PairTask(p) ==
  \/ SendPeerJoined(p) \/ SendBind(p) \/ WriteFails(p)
  \/ \E c \in ConnsOf(p) : ReceiveResult(p, c) \/ DirectEnds(p, c) \/ Relay(p, c)
=============================================================================
