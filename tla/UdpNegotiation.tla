--------------------------- MODULE UdpNegotiation ---------------------------
(***************************************************************************)
(* How two peers open a UDP connection (negotiator.rs, state.rs and        *)
(* UdpConnection::do_connect): both send a hello, wait for the other's,    *)
(* send a second one, and then the master's sync packet is answered by the *)
(* other's.  Every wait has a timeout, every send may fail, and datagrams  *)
(* are lost, repeated and reordered.                                       *)
(***************************************************************************)
EXTENDS SeqNumber, FiniteSets

CONSTANTS
  Peers,       \* the two peers
  Master,      \* the one told to take the master side
  SyncSeqs,    \* the random sequence numbers rand::thread_rng may produce
  RecvWindow,  \* config.recv_window
  MaxFaults    \* bound: datagrams lost or repeated, and sends that fail

\* What the constants are: MCUdpStages checks it of its instance.
NegotiationConstants ==
  /\ IsFiniteSet(Peers) /\ Cardinality(Peers) = 2 /\ Master \in Peers
  /\ SyncSeqs \subseteq SeqNum /\ SyncSeqs # {}
  /\ RecvWindow \in Nat /\ MaxFaults \in Nat

VARIABLES
  state,            \* UdpConnectionState, or "Panicked" at a failed assertion
  sequence_number, ack_number, peer_ack_number, peer_window,
  network,          \* the datagrams on their way to each peer
  faults

conVars == <<sequence_number, ack_number, peer_ack_number, peer_window>>
vars    == <<state, conVars, network, faults>>

Peer(p) == CHOOSE q \in Peers : q # p

Hello == [type |-> "Hello"]

\* Mutant: the sync packet carries the number before the one it takes.
OpenPacketBehind(p, seq) ==
  [type |-> "Open", seq |-> seq, ack |-> ack_number[p], window |-> RecvWindow]

OpenPacket(p, seq) ==
  [type |-> "Open", seq |-> SeqAdd(seq, 1), ack |-> ack_number[p],
   window |-> RecvWindow]

\* The first packet of an established connection, a keep-alive say.
DataPacket(p) ==
  [type |-> "Data", seq |-> sequence_number[p], ack |-> ack_number[p],
   window |-> RecvWindow]

Sent(p, packets) == [network EXCEPT ![Peer(p)] = @ \cup packets]

\* set_state_connect_failed and its assertion on the state it is called in.
ConnectFailed(p) ==
  state' = [state EXCEPT ![p] =
             IF @ \in {"SentHello", "SentSync", "WaitingForSync"}
             THEN "ConnectFailed" ELSE "Panicked"]

\* The network hands p a datagram and forgets or repeats it.
Takes(p, pkt, net) ==
  \/ network' = [net EXCEPT ![p] = @ \ {pkt}] /\ faults' = faults
  \/ network' = net /\ faults < MaxFaults /\ faults' = faults + 1

-----------------------------------------------------------------------------

SendHello(p) ==
  /\ state[p] = "New"
  /\ network' = Sent(p, {Hello})
  /\ state' = [state EXCEPT ![p] = "SentHello"]
  /\ UNCHANGED <<conVars, faults>>

\* The very first send returns an error: the state is still NEW.
SendFails(p) ==
  /\ state[p] = "New"
  /\ faults < MaxFaults /\ faults' = faults + 1
  /\ ConnectFailed(p)
  /\ UNCHANGED <<conVars, network>>

\* wait_for_magic_hello returns the peer's address.  The second hello is sent;
\* the master goes on with its sync packet, the other waits for it.
ReceiveHello(p) ==
  /\ state[p] = "SentHello"
  /\ Hello \in network[p]
  /\ \/ /\ p = Master
        /\ \E s \in SyncSeqs :
             /\ sequence_number' = [sequence_number EXCEPT ![p] = SeqAdd(s, 1)]
             /\ peer_ack_number' = [peer_ack_number EXCEPT ![p] = s]
             /\ Takes(p, Hello, Sent(p, {Hello, OpenPacket(p, s)}))
        /\ state' = [state EXCEPT ![p] = "SentSync"]
     \/ /\ p # Master
        /\ Takes(p, Hello, Sent(p, {Hello}))
        /\ state' = [state EXCEPT ![p] = "WaitingForSync"]
        /\ UNCHANGED <<sequence_number, peer_ack_number>>
  /\ UNCHANGED <<ack_number, peer_window>>

\* A datagram other than a hello while waiting for one.
ReceiveNotHello(p) ==
  /\ state[p] = "SentHello"
  /\ \E pkt \in network[p] \ {Hello} : Takes(p, pkt, network)
  /\ ConnectFailed(p)
  /\ UNCHANGED conVars

\* wait_for_sync_packet ignores hellos.
IgnoreHello(p) ==
  /\ state[p] \in {"SentSync", "WaitingForSync"}
  /\ Hello \in network[p]
  /\ Takes(p, Hello, network)
  /\ UNCHANGED <<state, conVars>>

\* The sync packet arrives: the master is connected, the other one answers
\* with its own and is connected.
ReceiveSync(p) ==
  /\ \E pkt \in network[p] :
       /\ pkt.type = "Open"
       /\ ack_number' = [ack_number EXCEPT ![p] = pkt.seq]
       /\ peer_window' = [peer_window EXCEPT ![p] = pkt.window]
       /\ \/ /\ state[p] = "SentSync"
             /\ Takes(p, pkt, network)
             /\ UNCHANGED <<sequence_number, peer_ack_number>>
          \/ /\ state[p] = "WaitingForSync"
             /\ \E s \in SyncSeqs :
                  /\ sequence_number' =
                       [sequence_number EXCEPT ![p] = SeqAdd(s, 1)]
                  /\ peer_ack_number' = [peer_ack_number EXCEPT ![p] = s]
                  /\ Takes(p, pkt,
                       Sent(p, {[OpenPacket(p, s) EXCEPT !.ack = pkt.seq]}))
  /\ state' = [state EXCEPT ![p] = "Connected"]

\* Any other packet where the sync packet is expected.
ReceiveNotSync(p) ==
  /\ state[p] \in {"SentSync", "WaitingForSync"}
  /\ \E pkt \in network[p] : pkt.type = "Data" /\ Takes(p, pkt, network)
  /\ ConnectFailed(p)
  /\ UNCHANGED conVars

\* A timeout, or the error of a later send or receive, ends the attempt.
GiveUp(p) ==
  /\ state[p] \in {"SentHello", "SentSync", "WaitingForSync"}
  /\ ConnectFailed(p)
  /\ UNCHANGED <<conVars, network, faults>>

-----------------------------------------------------------------------------
(* The orchestrator takes over once connected.                             *)

\* The send loop sends its first packet.
SendData(p) ==
  /\ state[p] = "Connected"
  /\ network' = Sent(p, {DataPacket(p)})
  /\ UNCHANGED <<state, conVars, faults>>

\* handle_recv_packet: a hello does not parse and is dropped, data is welcome,
\* and a sync packet that comes a second time ends the connection.
ReceiveConnected(p) ==
  /\ state[p] = "Connected"
  /\ \E pkt \in network[p] :
       /\ Takes(p, pkt, network)
       /\ state' = IF pkt.type = "Open"
                   THEN [state EXCEPT ![p] = "Disconnected"] ELSE state
  /\ UNCHANGED conVars

\* Mutant: only the master's receive loop has a timeout.
RecvTimeoutOfMaster(p) ==
  /\ p = Master
  /\ state[p] = "Connected"
  /\ network[p] = {} /\ state[Peer(p)] # "Connected"
  /\ state' = [state EXCEPT ![p] = "Disconnected"]
  /\ UNCHANGED <<conVars, network, faults>>

\* Nothing came for recv_timeout: the peer does not send, or it is all lost.
RecvTimeout(p) ==
  /\ state[p] = "Connected"
  /\ network[p] = {} /\ state[Peer(p)] # "Connected"
  /\ state' = [state EXCEPT ![p] = "Disconnected"]
  /\ UNCHANGED <<conVars, network, faults>>

Lose(p) ==
  /\ faults < MaxFaults /\ faults' = faults + 1
  /\ \E pkt \in network[p] : network' = [network EXCEPT ![p] = @ \ {pkt}]
  /\ UNCHANGED <<state, conVars>>

-----------------------------------------------------------------------------

Init ==
  /\ state = [p \in Peers |-> "New"]
  /\ sequence_number = [p \in Peers |-> 0]
  /\ ack_number = [p \in Peers |-> 0]
  /\ peer_ack_number = [p \in Peers |-> 0]
  /\ peer_window = [p \in Peers |-> 0]
  /\ network = [p \in Peers |-> {}]
  /\ faults = 0

Waits(p) == \/ ReceiveHello(p) \/ ReceiveNotHello(p) \/ IgnoreHello(p)
            \/ ReceiveSync(p) \/ ReceiveNotSync(p) \/ GiveUp(p)

Established(p) == SendData(p) \/ ReceiveConnected(p) \/ RecvTimeout(p)

Next == \E p \in Peers : \/ SendHello(p) \/ SendFails(p) \/ Waits(p)
                         \/ Established(p) \/ Lose(p)

Spec == Init /\ [][Next]_vars

\* Calls return, the timers run, and an established connection receives.
FairSpec ==
  Spec /\ \A p \in Peers : /\ WF_vars(SendHello(p) \/ SendFails(p))
                           /\ WF_vars(Waits(p))
                           /\ WF_vars(ReceiveConnected(p))
                           /\ WF_vars(RecvTimeout(p))

-----------------------------------------------------------------------------
(* Properties.                                                             *)

TypeOK ==
  /\ state \in [Peers -> {"New", "SentHello", "SentSync", "WaitingForSync",
                          "Connected", "ConnectFailed", "Disconnected",
                          "Panicked"}]
  /\ {sequence_number, ack_number, peer_ack_number} \subseteq [Peers -> SeqNum]
  /\ peer_window \in [Peers -> 0 .. RecvWindow]
  /\ faults \in 0 .. MaxFaults

\* Two connected peers agree on everything the data transfer starts from: each
\* expects the number after the other's sync packet, counts only its own sync
\* as unacknowledged, and knows the other's window (Init of UdpConnection).
ConnectedPeersAgree ==
  (\A p \in Peers : state[p] = "Connected") =>
    \A p \in Peers : /\ ack_number[p] = sequence_number[Peer(p)]
                     /\ SeqAdd(peer_ack_number[p], 1) = sequence_number[p]
                     /\ peer_window[p] = RecvWindow

\* A peer connected to one that gave up does not stay so for ever: the half
\* open connection left by a lost sync packet ends.
HalfOpenEnds ==
  \A p \in Peers :
    (state[p] = "Connected" /\ state[Peer(p)] = "ConnectFailed")
      ~> state[p] = "Disconnected"
=============================================================================
