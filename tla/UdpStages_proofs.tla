-------------------------- MODULE UdpStages_proofs --------------------------
(***************************************************************************)
(* The stages before and after a UDP connection's transfer.                *)
(*                                                                         *)
(* Opening: that two peers which both think they are connected agree, for  *)
(* any random numbers and any number of lost and repeated datagrams and    *)
(* failed sends.  A sync packet may arrive at any later time, so the proof *)
(* says what it tells of its sender for as long as it is on its way: a     *)
(* peer that sent one never takes another sequence number.                 *)
(*                                                                         *)
(* Ending: that an ended connection is disconnected, for any number of     *)
(* collisions on the mutex (MaxCollisions).                                *)
(***************************************************************************)
EXTENDS UdpNegotiation, UdpLifecycle, FiniteSetTheorems, TLAPS

-----------------------------------------------------------------------------
(* Opening a connection (UdpNegotiation).                                  *)

Packets == [type : {"Open", "Data"}, seq : SeqNum, ack : SeqNum,
            window : {RecvWindow}]

States == {"New", "SentHello", "SentSync", "WaitingForSync", "Connected",
           "ConnectFailed", "Disconnected", "Panicked"}

NetworkOK == network \in [Peers -> SUBSET (Packets \cup {Hello})]

\* p takes no sequence number any more.
Settled(p) == state[p] \notin {"New", "SentHello", "WaitingForSync"}

SyncsAreCurrent ==
  \A p \in Peers : \A pkt \in network[p] :
    pkt.type = "Open" => pkt.seq = sequence_number[Peer(p)] /\ Settled(Peer(p))

OwnSyncCounts ==
  \A p \in Peers : state[p] \in {"SentSync", "Connected"} =>
    SeqAdd(peer_ack_number[p], 1) = sequence_number[p]

ConnectedKnow ==
  \A p \in Peers : state[p] = "Connected" =>
    /\ ack_number[p] = sequence_number[Peer(p)] /\ Settled(Peer(p))
    /\ peer_window[p] = RecvWindow

\* ConnectedPeersAgree is not inductive: nothing in it says what the packets
\* that have yet to arrive hold.
NegotiationInv ==
  TypeOK /\ NetworkOK /\ SyncsAreCurrent /\ OwnSyncCounts /\ ConnectedKnow

\* There are two peers.
LEMMA PeerIsOther ==
  ASSUME NegotiationConstants, NEW p \in Peers
  PROVE  /\ Peer(p) \in Peers /\ Peer(p) # p
         /\ \A q \in Peers : q # p => Peer(q) = p
<1>1. \E q \in Peers : q # p
  <2> SUFFICES ASSUME \A q \in Peers : q = p PROVE FALSE
    OBVIOUS
  <2>1. Peers = {p}
    OBVIOUS
  <2>2. QED
    BY <2>1, FS_Singleton DEF NegotiationConstants
<1>2. Peer(p) \in Peers /\ Peer(p) # p
  BY <1>1 DEF Peer
<1>3. ASSUME NEW q \in Peers, q # p PROVE Peer(q) = p
  <2> DEFINE r == Peer(q)
  <2>1. r \in Peers /\ r # q
    BY <1>3 DEF Peer
  <2>2. SUFFICES ASSUME r # p PROVE FALSE
    OBVIOUS
  <2>3. {p, q, r} \subseteq Peers
    BY <2>1
  <2> HIDE DEF r
  <2>4. Cardinality({p, q, r}) = 3
    <3>1. IsFiniteSet({p}) /\ Cardinality({p}) = 1
      BY FS_Singleton
    <3>2. IsFiniteSet({p} \cup {q}) /\ Cardinality({p} \cup {q}) = 2
      BY <1>3, <3>1, FS_AddElement
    <3>3. Cardinality({p} \cup {q} \cup {r}) = 3
      BY <2>1, <2>2, <3>2, FS_AddElement
    <3>4. {p} \cup {q} \cup {r} = {p, q, r}
      OBVIOUS
    <3>5. QED
      BY <3>3, <3>4
  <2>5. QED
    BY <2>3, <2>4, FS_Subset DEF NegotiationConstants
<1>4. QED
  BY <1>2, <1>3

\* Sequence numbers, and the packets that carry them.
LEMMA SyncType ==
  ASSUME NegotiationConstants, NEW s \in SyncSeqs
  PROVE  s \in SeqNum /\ SeqAdd(s, 1) \in SeqNum
  BY SeqModulusAssumption DEF NegotiationConstants, SeqNum, SeqAdd

\* A datagram that is taken leaves the network typed, and the other ones in it.
LEMMA TakesType ==
  ASSUME NegotiationConstants, NEW D, NEW net \in [Peers -> SUBSET D],
         NEW p \in Peers, NEW pkt, faults \in 0 .. MaxFaults,
         Takes(p, pkt, net)
  PROVE  /\ network' \in [Peers -> SUBSET D] /\ faults' \in 0 .. MaxFaults
         /\ \A q \in Peers : network'[q] \subseteq net[q]
<1>1. MaxFaults \in Nat
  BY DEF NegotiationConstants
<1>2. QED
  BY <1>1 DEF Takes

\* A peer that leaves the negotiation, or does not move.
StaysOrLeaves(p) ==
  \/ state'[p] = state[p]
  \/ /\ state'[p] \notin {"SentSync", "Connected"}
     /\ Settled(p) => Settled(p)'

\* Steps that hand out no number and send no sync packet.
LEMMA QuietStepsKeep ==
  ASSUME NegotiationConstants, NegotiationInv, UNCHANGED conVars,
         state' \in [Peers -> States], faults' \in 0 .. MaxFaults, NetworkOK',
         \A q \in Peers : StaysOrLeaves(q),
         \A q \in Peers : \A pkt \in network'[q] :
           pkt \in network[q] \/ pkt.type # "Open"
  PROVE  NegotiationInv'
<1>1. TypeOK' /\ NetworkOK'
  BY DEF NegotiationInv, TypeOK, conVars, States
<1>2. \A q \in Peers : Peer(q) \in Peers
  BY PeerIsOther
<1>3. \A q \in Peers : Settled(q) => Settled(q)'
  BY DEF StaysOrLeaves, Settled
<1>4. SyncsAreCurrent'
  BY <1>2, <1>3 DEF SyncsAreCurrent, NegotiationInv, conVars
<1>5. OwnSyncCounts'
  BY DEF StaysOrLeaves, OwnSyncCounts, NegotiationInv, conVars
<1>6. ConnectedKnow'
  BY <1>2, <1>3 DEF StaysOrLeaves, ConnectedKnow, NegotiationInv, conVars
<1>7. QED
  BY <1>1, <1>4, <1>5, <1>6 DEF NegotiationInv

\* set_state_connect_failed ends a negotiation that goes on, and panics else.
LEMMA FailsType ==
  ASSUME TypeOK, NEW p \in Peers, ConnectFailed(p)
  PROVE  /\ state' \in [Peers -> States]
         /\ \A q \in Peers : StaysOrLeaves(q)
  BY DEF TypeOK, States, ConnectFailed, StaysOrLeaves, Settled

LEMMA SendsKeep ==
  ASSUME NegotiationConstants, NegotiationInv, NEW p \in Peers,
         SendHello(p) \/ SendFails(p) \/ SendData(p)
  PROVE  NegotiationInv'
<1>1. TypeOK /\ NetworkOK /\ Peer(p) \in Peers /\ MaxFaults \in Nat
  BY PeerIsOther DEF NegotiationInv, NegotiationConstants
<1>2. CASE SendHello(p)
  <2>1. state' \in [Peers -> States] /\ \A q \in Peers : StaysOrLeaves(q)
    BY <1>1, <1>2 DEF SendHello, TypeOK, States, StaysOrLeaves, Settled
  <2>2. NetworkOK' /\ \A q \in Peers : \A pkt \in network'[q] :
                        pkt \in network[q] \/ pkt.type # "Open"
    BY <1>1, <1>2 DEF SendHello, Sent, NetworkOK, Hello
  <2>3. QED
    BY <1>1, <1>2, <2>1, <2>2, QuietStepsKeep DEF SendHello, TypeOK
<1>3. CASE SendFails(p)
  BY <1>1, <1>3, FailsType, QuietStepsKeep DEF SendFails, TypeOK, NetworkOK
<1>4. CASE SendData(p)
  <2>1. DataPacket(p) \in Packets /\ DataPacket(p).type = "Data"
    BY <1>1 DEF DataPacket, Packets, TypeOK
  <2>2. NetworkOK' /\ \A q \in Peers : \A pkt \in network'[q] :
                        pkt \in network[q] \/ pkt.type # "Open"
    <3> HIDE DEF DataPacket
    <3>1. QED
      BY <1>1, <1>4, <2>1 DEF SendData, Sent, NetworkOK
  <2>3. QED
    BY <1>1, <1>4, <2>2, QuietStepsKeep
    DEF SendData, TypeOK, States, StaysOrLeaves
<1>5. QED
  BY <1>2, <1>3, <1>4

\* Whatever is received and changes no number.
LEMMA ReceivesKeep ==
  ASSUME NegotiationConstants, NegotiationInv, NEW p \in Peers,
         \/ ReceiveNotHello(p) \/ IgnoreHello(p) \/ ReceiveNotSync(p)
         \/ ReceiveConnected(p) \/ Lose(p)
  PROVE  NegotiationInv'
<1>1. TypeOK /\ NetworkOK /\ faults \in 0 .. MaxFaults /\ MaxFaults \in Nat
  BY DEF NegotiationInv, TypeOK, NegotiationConstants
<1>2. UNCHANGED conVars
  BY DEF ReceiveNotHello, IgnoreHello, ReceiveNotSync, ReceiveConnected, Lose
<1>3. /\ NetworkOK' /\ faults' \in 0 .. MaxFaults
      /\ \A q \in Peers : network'[q] \subseteq network[q]
  <2>1. CASE Lose(p)
    BY <1>1, <2>1 DEF Lose, NetworkOK
  <2>2. CASE ~Lose(p)
    <3>1. PICK pkt : Takes(p, pkt, network)
      BY <2>2
      DEF ReceiveNotHello, IgnoreHello, ReceiveNotSync, ReceiveConnected
    <3>2. QED
      BY <1>1, <3>1, TakesType DEF NetworkOK
  <2>3. QED
    BY <2>1, <2>2
<1>4. state' \in [Peers -> States] /\ \A q \in Peers : StaysOrLeaves(q)
  <2>1. CASE ReceiveNotHello(p) \/ ReceiveNotSync(p)
    BY <1>1, <2>1, FailsType DEF ReceiveNotHello, ReceiveNotSync
  <2>2. CASE IgnoreHello(p) \/ Lose(p)
    BY <1>1, <2>2 DEF IgnoreHello, Lose, TypeOK, States, StaysOrLeaves
  <2>3. CASE ReceiveConnected(p)
    <3>1. state' \in {state, [state EXCEPT ![p] = "Disconnected"]}
      BY <2>3 DEF ReceiveConnected
    <3>2. QED
      BY <1>1, <3>1 DEF TypeOK, States, StaysOrLeaves, Settled
  <2>4. QED
    BY <2>1, <2>2, <2>3
<1>5. QED
  BY <1>2, <1>3, <1>4, QuietStepsKeep

\* Timeouts and errors.
LEMMA GivesUpKeep ==
  ASSUME NegotiationConstants, NegotiationInv, NEW p \in Peers,
         GiveUp(p) \/ RecvTimeout(p)
  PROVE  NegotiationInv'
<1>1. TypeOK /\ NetworkOK
  BY DEF NegotiationInv
<1>2. UNCHANGED <<conVars, network, faults>>
  BY DEF GiveUp, RecvTimeout
<1>3. state' \in [Peers -> States] /\ \A q \in Peers : StaysOrLeaves(q)
  <2>1. CASE GiveUp(p)
    BY <1>1, <2>1, FailsType DEF GiveUp
  <2>2. CASE RecvTimeout(p)
    BY <1>1, <2>2 DEF RecvTimeout, TypeOK, States, StaysOrLeaves, Settled
  <2>3. QED
    BY <2>1, <2>2
<1>4. QED
  BY <1>1, <1>2, <1>3, QuietStepsKeep DEF TypeOK, NetworkOK

\* A peer that takes the number after s and sends it: its sync packet, and no
\* other of its own, is on the way from then on.
LEMMA TakingANumberKeeps ==
  ASSUME NegotiationConstants, NegotiationInv,
         NEW p \in Peers, NEW s \in SyncSeqs, NEW pkt \in Packets,
         ~Settled(p), Settled(p)', state' \in [Peers -> States],
         faults' \in 0 .. MaxFaults, NetworkOK', TypeOK',
         \A q \in Peers \ {p} : state'[q] = state[q],
         sequence_number' = [sequence_number EXCEPT ![p] = SeqAdd(s, 1)],
         peer_ack_number' = [peer_ack_number EXCEPT ![p] = s],
         pkt.seq = SeqAdd(s, 1),
         network'[p] \subseteq network[p],
         network'[Peer(p)] \subseteq network[Peer(p)] \cup {Hello, pkt},
         \A q \in Peers \ {p} : /\ ack_number'[q] = ack_number[q]
                                /\ peer_window'[q] = peer_window[q],
         state'[p] = "Connected" =>
           /\ ack_number'[p] = sequence_number[Peer(p)] /\ Settled(Peer(p))
           /\ peer_window'[p] = RecvWindow
  PROVE  NegotiationInv'
<1> DEFINE o == Peer(p)
<1>1. /\ o \in Peers /\ o # p /\ Peer(o) = p
      /\ \A q \in Peers : q # p => Peer(q) = p
  BY PeerIsOther
<1>2. Peers = {p, o}
  <2>1. ASSUME NEW q \in Peers, q # p PROVE q = o
    BY <1>1, <2>1, PeerIsOther
  <2>2. QED
    BY <1>1, <2>1
<1>3. TypeOK
  BY DEF NegotiationInv
<1>4. /\ sequence_number'[p] = SeqAdd(s, 1) /\ peer_ack_number'[p] = s
      /\ sequence_number'[o] = sequence_number[o]
      /\ peer_ack_number'[o] = peer_ack_number[o]
  BY <1>1, <1>3 DEF TypeOK
<1>5. Settled(o) => Settled(o)'
  BY <1>1 DEF Settled
<1>6. \A q \in network[o] : q.type # "Open"
  BY <1>1 DEF NegotiationInv, SyncsAreCurrent
<1>7. SyncsAreCurrent'
  <2>1. ASSUME NEW q \in network'[p], q.type = "Open"
        PROVE  q.seq = sequence_number'[o] /\ Settled(o)'
    BY <1>4, <1>5, <2>1 DEF NegotiationInv, SyncsAreCurrent
  <2>2. ASSUME NEW q \in network'[o], q.type = "Open"
        PROVE  q.seq = sequence_number'[p] /\ Settled(p)'
    <3>1. q = pkt
      BY <1>6, <2>2 DEF Hello
    <3>2. QED
      BY <1>4, <3>1
  <2> HIDE DEF o
  <2>3. QED
    BY <1>1, <1>2, <2>1, <2>2 DEF SyncsAreCurrent, o
<1>8. OwnSyncCounts'
  <2>1. state'[o] \in {"SentSync", "Connected"} =>
          SeqAdd(peer_ack_number'[o], 1) = sequence_number'[o]
    BY <1>1, <1>4 DEF NegotiationInv, OwnSyncCounts
  <2> HIDE DEF o
  <2>2. QED
    BY <1>2, <1>4, <2>1 DEF OwnSyncCounts
<1>9. ConnectedKnow'
  <2>1. state'[o] # "Connected"
    BY <1>1 DEF NegotiationInv, ConnectedKnow
  <2>2. state'[p] = "Connected" =>
          /\ ack_number'[p] = sequence_number'[o] /\ Settled(o)'
          /\ peer_window'[p] = RecvWindow
    BY <1>4, <1>5
  <2> HIDE DEF o
  <2>3. QED
    BY <1>2, <2>1, <2>2 DEF ConnectedKnow, o
<1>10. QED
  BY <1>7, <1>8, <1>9 DEF NegotiationInv

LEMMA ReceiveHelloKeeps ==
  ASSUME NegotiationConstants, NegotiationInv, NEW p \in Peers, ReceiveHello(p)
  PROVE  NegotiationInv'
<1>1. /\ TypeOK /\ NetworkOK /\ Peer(p) \in Peers /\ Peer(p) # p
      /\ faults \in 0 .. MaxFaults /\ MaxFaults \in Nat
  BY PeerIsOther DEF NegotiationInv, TypeOK, NegotiationConstants
<1>2. CASE p = Master
  <2>1. PICK s \in SyncSeqs :
          /\ sequence_number' = [sequence_number EXCEPT ![p] = SeqAdd(s, 1)]
          /\ peer_ack_number' = [peer_ack_number EXCEPT ![p] = s]
          /\ Takes(p, Hello, Sent(p, {Hello, OpenPacket(p, s)}))
    BY <1>2 DEF ReceiveHello
  <2> DEFINE pkt == OpenPacket(p, s)
             net == Sent(p, {Hello, pkt})
  <2>2. s \in SeqNum /\ SeqAdd(s, 1) \in SeqNum
    BY SyncType
  <2>3. pkt \in Packets /\ pkt.seq = SeqAdd(s, 1)
    BY <1>1, <2>2 DEF OpenPacket, Packets, TypeOK
  <2> HIDE DEF pkt
  <2>4. /\ net \in [Peers -> SUBSET (Packets \cup {Hello})]
        /\ net[p] = network[p]
        /\ net[Peer(p)] = network[Peer(p)] \cup {Hello, pkt}
    BY <1>1, <2>3 DEF Sent, NetworkOK
  <2>5. Takes(p, Hello, net)
    BY <2>1 DEF pkt
  <2> HIDE DEF net
  <2>6. /\ NetworkOK' /\ faults' \in 0 .. MaxFaults
        /\ \A q \in Peers : network'[q] \subseteq net[q]
    BY <1>1, <2>4, <2>5, TakesType DEF NetworkOK
  <2>7. /\ state[p] = "SentHello"
        /\ state' = [state EXCEPT ![p] = "SentSync"]
        /\ UNCHANGED <<ack_number, peer_window>>
    BY <1>2 DEF ReceiveHello
  <2>8. state' \in [Peers -> States] /\ state'[p] = "SentSync"
    BY <1>1, <2>7 DEF TypeOK, States
  <2>9. TypeOK'
    BY <1>1, <2>1, <2>2, <2>6, <2>7, <2>8 DEF TypeOK, States
  <2>10. QED
    BY <1>1, <2>1, <2>3, <2>4, <2>6, <2>7, <2>8, <2>9, TakingANumberKeeps
    DEF Settled, TypeOK
<1>3. CASE p # Master
  <2> DEFINE net == Sent(p, {Hello})
  <2>1. Takes(p, Hello, net) /\ UNCHANGED conVars
        /\ state' = [state EXCEPT ![p] = "WaitingForSync"]
        /\ state[p] = "SentHello"
    BY <1>3 DEF ReceiveHello, conVars
  <2>2. /\ net \in [Peers -> SUBSET (Packets \cup {Hello})]
        /\ \A q \in Peers : net[q] \subseteq network[q] \cup {Hello}
    BY <1>1 DEF Sent, NetworkOK
  <2> HIDE DEF net
  <2>3. /\ NetworkOK' /\ faults' \in 0 .. MaxFaults
        /\ \A q \in Peers : network'[q] \subseteq net[q]
    BY <1>1, <2>1, <2>2, TakesType DEF NetworkOK
  <2>4. state' \in [Peers -> States] /\ \A q \in Peers : StaysOrLeaves(q)
    BY <1>1, <2>1 DEF TypeOK, States, StaysOrLeaves, Settled
  <2>5. \A q \in Peers : \A pkt \in network'[q] :
          pkt \in network[q] \/ pkt.type # "Open"
    BY <2>2, <2>3 DEF Hello
  <2>6. QED
    BY <2>1, <2>3, <2>4, <2>5, QuietStepsKeep
<1>4. QED
  BY <1>2, <1>3

LEMMA ReceiveSyncKeeps ==
  ASSUME NegotiationConstants, NegotiationInv, NEW p \in Peers, ReceiveSync(p)
  PROVE  NegotiationInv'
<1>1. /\ TypeOK /\ NetworkOK /\ Peer(p) \in Peers /\ Peer(p) # p
      /\ faults \in 0 .. MaxFaults /\ MaxFaults \in Nat /\ RecvWindow \in Nat
  BY PeerIsOther DEF NegotiationInv, TypeOK, NegotiationConstants
<1>2. PICK sync \in network[p] :
        /\ sync.type = "Open"
        /\ ack_number' = [ack_number EXCEPT ![p] = sync.seq]
        /\ peer_window' = [peer_window EXCEPT ![p] = sync.window]
        /\ \/ /\ state[p] = "SentSync"
              /\ Takes(p, sync, network)
              /\ UNCHANGED <<sequence_number, peer_ack_number>>
           \/ /\ state[p] = "WaitingForSync"
              /\ \E s \in SyncSeqs :
                   /\ sequence_number' =
                        [sequence_number EXCEPT ![p] = SeqAdd(s, 1)]
                   /\ peer_ack_number' = [peer_ack_number EXCEPT ![p] = s]
                   /\ Takes(p, sync,
                        Sent(p, {[OpenPacket(p, s) EXCEPT !.ack = sync.seq]}))
  BY DEF ReceiveSync
<1>3. /\ sync \in Packets /\ sync.seq = sequence_number[Peer(p)]
      /\ sync.seq \in SeqNum /\ sync.window = RecvWindow /\ Settled(Peer(p))
  <2>1. sync \in Packets
    BY <1>1, <1>2 DEF NetworkOK, Hello
  <2>2. QED
    BY <1>2, <2>1 DEF Packets, NegotiationInv, SyncsAreCurrent
<1>4. /\ state' = [state EXCEPT ![p] = "Connected"]
      /\ state' \in [Peers -> States] /\ state'[p] = "Connected"
  BY <1>1 DEF ReceiveSync, TypeOK, States
<1>5. /\ ack_number' \in [Peers -> SeqNum] /\ ack_number'[p] = sync.seq
      /\ peer_window' \in [Peers -> 0 .. RecvWindow]
      /\ peer_window'[p] = RecvWindow
      /\ \A q \in Peers \ {p} : /\ ack_number'[q] = ack_number[q]
                                /\ peer_window'[q] = peer_window[q]
  BY <1>1, <1>2, <1>3 DEF TypeOK
<1>6. CASE state[p] = "SentSync"
  <2>1. Takes(p, sync, network) /\ UNCHANGED <<sequence_number, peer_ack_number>>
    BY <1>2, <1>6
  <2>2. /\ NetworkOK' /\ faults' \in 0 .. MaxFaults
        /\ \A q \in Peers : network'[q] \subseteq network[q]
    BY <1>1, <2>1, TakesType DEF NetworkOK
  <2>3. TypeOK'
    BY <1>1, <1>4, <1>5, <2>1, <2>2 DEF TypeOK, States
  <2>4. \A q \in Peers : Settled(q) => Settled(q)'
    BY <1>1, <1>4 DEF Settled, TypeOK
  <2>5. \A q \in Peers : Peer(q) \in Peers
    BY PeerIsOther
  <2>6. SyncsAreCurrent'
    BY <2>1, <2>2, <2>4, <2>5 DEF SyncsAreCurrent, NegotiationInv
  <2>7. OwnSyncCounts'
    BY <1>1, <1>4, <1>6, <2>1 DEF OwnSyncCounts, NegotiationInv, TypeOK
  <2>8. ConnectedKnow'
    <3>1. ASSUME NEW q \in Peers, q # p, state'[q] = "Connected"
          PROVE  /\ ack_number'[q] = sequence_number'[Peer(q)]
                 /\ Settled(Peer(q))' /\ peer_window'[q] = RecvWindow
      BY <1>1, <1>4, <1>5, <2>1, <2>4, <2>5, <3>1
      DEF ConnectedKnow, NegotiationInv, TypeOK
    <3>2. /\ ack_number'[p] = sequence_number'[Peer(p)]
          /\ Settled(Peer(p))' /\ peer_window'[p] = RecvWindow
      BY <1>1, <1>3, <1>5, <2>1, <2>4
    <3>3. QED
      BY <3>1, <3>2 DEF ConnectedKnow
  <2>9. QED
    BY <2>2, <2>3, <2>6, <2>7, <2>8 DEF NegotiationInv
<1>7. CASE state[p] = "WaitingForSync"
  <2>1. PICK s \in SyncSeqs :
          /\ sequence_number' = [sequence_number EXCEPT ![p] = SeqAdd(s, 1)]
          /\ peer_ack_number' = [peer_ack_number EXCEPT ![p] = s]
          /\ Takes(p, sync,
               Sent(p, {[OpenPacket(p, s) EXCEPT !.ack = sync.seq]}))
    BY <1>2, <1>7
  <2> DEFINE pkt == [OpenPacket(p, s) EXCEPT !.ack = sync.seq]
             net == Sent(p, {pkt})
  <2>2. s \in SeqNum /\ SeqAdd(s, 1) \in SeqNum
    BY SyncType
  <2>3. pkt \in Packets /\ pkt.seq = SeqAdd(s, 1)
    BY <1>1, <1>3, <2>2 DEF OpenPacket, Packets, TypeOK
  <2> HIDE DEF pkt
  <2>4. /\ net \in [Peers -> SUBSET (Packets \cup {Hello})]
        /\ net[p] = network[p] /\ net[Peer(p)] = network[Peer(p)] \cup {pkt}
    BY <1>1, <2>3 DEF Sent, NetworkOK
  <2>5. Takes(p, sync, net)
    BY <2>1 DEF pkt
  <2> HIDE DEF net
  <2>6. /\ NetworkOK' /\ faults' \in 0 .. MaxFaults
        /\ \A q \in Peers : network'[q] \subseteq net[q]
    BY <1>1, <2>4, <2>5, TakesType DEF NetworkOK
  <2>7. TypeOK'
    BY <1>1, <1>4, <1>5, <2>1, <2>2, <2>6 DEF TypeOK, States
  <2>8. /\ ~Settled(p) /\ Settled(p)'
        /\ \A q \in Peers \ {p} : state'[q] = state[q]
    BY <1>1, <1>4, <1>7 DEF Settled, TypeOK
  <2>9. /\ network'[p] \subseteq network[p]
        /\ network'[Peer(p)] \subseteq network[Peer(p)] \cup {Hello, pkt}
    BY <1>1, <2>4, <2>6
  <2>10. /\ ack_number'[p] = sequence_number[Peer(p)] /\ Settled(Peer(p))
         /\ peer_window'[p] = RecvWindow
    BY <1>3, <1>5
  <2>11. QED
    BY <1>4, <1>5, <2>1, <2>3, <2>6, <2>7, <2>8, <2>9, <2>10,
       TakingANumberKeeps
<1>8. QED
  BY <1>2, <1>6, <1>7

\* The inductive invariant.
THEOREM NegotiationHolds ==
  ASSUME NegotiationConstants
  PROVE  Spec => []NegotiationInv
<1>1. Init => NegotiationInv
  <2>1. 0 \in SeqNum /\ RecvWindow \in Nat /\ MaxFaults \in Nat
    BY SeqModulusAssumption DEF SeqNum, NegotiationConstants
  <2>2. QED
    BY <2>1
    DEF Init, NegotiationInv, TypeOK, NetworkOK, SyncsAreCurrent, OwnSyncCounts,
        ConnectedKnow
<1>2. NegotiationInv /\ [Next]_vars => NegotiationInv'
  <2> SUFFICES ASSUME NegotiationInv, [Next]_vars PROVE NegotiationInv'
    OBVIOUS
  <2>1. CASE Next
    BY <2>1, SendsKeep, ReceivesKeep, GivesUpKeep, ReceiveHelloKeeps,
       ReceiveSyncKeeps
    DEF Next, Waits, Established
  <2>2. CASE UNCHANGED vars
    BY <2>2
    DEF vars, conVars, NegotiationInv, TypeOK, NetworkOK, SyncsAreCurrent,
        OwnSyncCounts, ConnectedKnow, Settled
  <2>3. QED
    BY <2>1, <2>2
<1>3. QED
  BY <1>1, <1>2, PTL DEF Spec

\* Two peers that both think they are connected start their transfer from the
\* same numbers, whatever was lost, repeated or late: do_connect of both ends in
\* the Init of UdpConnection.
THEOREM ConnectedPeersStartAlike ==
  ASSUME NegotiationConstants
  PROVE  Spec => []ConnectedPeersAgree
<1>1. NegotiationInv => ConnectedPeersAgree
  BY DEF NegotiationInv, OwnSyncCounts, ConnectedKnow, ConnectedPeersAgree
<1>2. QED
  BY <1>1, NegotiationHolds, PTL

-----------------------------------------------------------------------------
(* Ending a connection (UdpLifecycle).                                     *)

\* How many of the two loops have ended.
Ended(loop) == IF loop = "ended" THEN 1 ELSE 0
EndedLoops == Ended(recv_loop) + Ended(send_loop)

\* EndedIsDisconnected is not inductive: it says nothing of the collisions a
\* first loop met when it ended.  Every loop that ended without disconnecting
\* the connection met one of its own.
LifecycleInv ==
  /\ collisions \in Nat
  /\ con = "Disconnected" \/ collisions >= EndedLoops

\* try_disconnect disconnects the connection or counts a collision.
LEMMA DisconnectsOrCollides ==
  ASSUME collisions \in Nat, TryDisconnect
  PROVE  /\ collisions' \in Nat
         /\ con' = "Disconnected" \/ (con' = con /\ collisions' = collisions + 1)
         /\ collisions' >= collisions
<1>1. CASE lock = "nobody"
  <2>1. con' = "Disconnected" /\ collisions' = collisions
    BY <1>1, Zenon DEF TryDisconnect
  <2>2. QED
    BY <2>1
<1>2. CASE lock # "nobody"
  <2>1. con' = con /\ collisions' = collisions + 1
    BY <1>2, Zenon DEF TryDisconnect
  <2>2. QED
    BY <2>1
<1>3. QED
  BY <1>1, <1>2

\* No step of the application connects an ended connection again, nor takes a
\* collision back.
LEMMA ApplicationKeeps ==
  ASSUME LifecycleInv, ApplicationTask
  PROVE  LifecycleInv'
<1>1. UNCHANGED <<recv_loop, send_loop>>
  BY DEF ApplicationTask, PollRead, ReadLock, ReadBody, PollShutdown,
         ShutdownRegister, ShutdownDone, DropConnection, taskVars
<1>2. /\ con' = con \/ con' = "Disconnected"
      /\ collisions' = collisions \/ collisions' = collisions + 1
  BY DEF ApplicationTask, PollRead, ReadLock, ReadBody, PollShutdown,
         ShutdownRegister, ShutdownDone, DropConnection
<1>3. QED
  BY <1>1, <1>2 DEF LifecycleInv, EndedLoops, Ended

\* A loop ends by trying to disconnect; its other steps end nothing.
LEMMA LoopsKeep ==
  ASSUME LifecycleInv, Loops
  PROVE  LifecycleInv'
<1>1. CASE ReceiveCloseOrTimeout \/ RecvLoopEnds
  <2>1. TryDisconnect /\ send_loop' = send_loop
    BY <1>1 DEF ReceiveCloseOrTimeout, RecvLoopEnds
  <2>2. EndedLoops' <= EndedLoops + 1 /\ EndedLoops \in Nat
        /\ EndedLoops' \in Nat
    BY <2>1 DEF EndedLoops, Ended
  <2>3. QED
    BY <2>1, <2>2, DisconnectsOrCollides DEF LifecycleInv
<1>2. CASE SendClose \/ SendLoopEnds
  <2>1. TryDisconnect /\ recv_loop' = recv_loop
    BY <1>2 DEF SendClose, SendLoopEnds
  <2>2. EndedLoops' <= EndedLoops + 1 /\ EndedLoops \in Nat
        /\ EndedLoops' \in Nat
    BY <2>1 DEF EndedLoops, Ended
  <2>3. QED
    BY <2>1, <2>2, DisconnectsOrCollides DEF LifecycleInv
<1>3. CASE ReceivePacket \/ ReceiveBreaks \/ SendOther \/ SendBreaks
  <2>1. UNCHANGED <<con, collisions>>
    BY <1>3 DEF ReceivePacket, ReceiveBreaks, SendOther, SendBreaks
  <2>2. /\ recv_loop' = recv_loop \/ recv_loop' # "ended"
        /\ send_loop' = send_loop \/ send_loop' # "ended"
    BY <1>3 DEF ReceivePacket, ReceiveBreaks, SendOther, SendBreaks, LoopState
  <2>3. EndedLoops' <= EndedLoops /\ EndedLoops \in Nat /\ EndedLoops' \in Nat
    BY <2>2 DEF EndedLoops, Ended
  <2>4. QED
    BY <2>1, <2>3 DEF LifecycleInv
<1>4. QED
  BY <1>1, <1>2, <1>3 DEF Loops

\* However the loops, the timers and the application interleave, a connection
\* both of whose loops ended is disconnected, unless try_lock failed twice.
THEOREM EndsDisconnected == LifecycleSpec => []EndedIsDisconnected
<1>1. LifecycleInit => LifecycleInv
  BY DEF LifecycleInit, LifecycleInv, EndedLoops, Ended
<1>2. LifecycleInv /\ [LifecycleNext]_lifecycleVars => LifecycleInv'
  <2> SUFFICES ASSUME LifecycleInv, [LifecycleNext]_lifecycleVars
               PROVE  LifecycleInv'
    OBVIOUS
  <2>1. CASE ApplicationTask
    BY <2>1, ApplicationKeeps
  <2>2. CASE Loops
    BY <2>2, LoopsKeep
  <2>3. CASE TimerLock \/ TimerUnlock
    BY <2>3 DEF TimerLock, TimerUnlock, LifecycleInv, EndedLoops, Ended,
                taskVars
  <2>4. CASE UNCHANGED lifecycleVars
    BY <2>4 DEF lifecycleVars, LifecycleInv, EndedLoops, Ended, taskVars
  <2>5. QED
    BY <2>1, <2>2, <2>3, <2>4 DEF LifecycleNext
<1>3. LifecycleInv => EndedIsDisconnected
  BY DEF LifecycleInv, EndedIsDisconnected, EndedLoops, Ended
<1>4. QED
  BY <1>1, <1>2, <1>3, PTL DEF LifecycleSpec
=============================================================================
