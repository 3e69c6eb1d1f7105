--------------------------- MODULE UdpConnection ---------------------------
(***************************************************************************)
(* The reliable byte stream over UDP (tunshell-client/src/p2p/udp) between *)
(* two peers that have finished negotiating: the connection variables of   *)
(* state.rs, the application's reads and writes, the send loop with its    *)
(* event channel and its packets waiting for the window, the receive loop, *)
(* the resend timers, and a network that loses, repeats and reorders.      *)
(*                                                                         *)
(* A step is what one task does between two awaits or while it holds the   *)
(* connection's mutex.  Time is left out: a timer may fire whenever it is  *)
(* armed.  The bytes of a stream are its positions 1, 2, 3, ...            *)
(***************************************************************************)
EXTENDS SeqNumber, Sequences, FiniteSets

CONSTANTS
  Peers,              \* the two ends of the connection
  InitSeq,            \* the sequence number each peer's sync packet chose
  RecvWindow,         \* config.recv_window
  InitTransitWindow,  \* config.initial_transit_window
  MaxPacketSize,      \* MAX_PACKET_SIZE
  HeaderSize,         \* UDP_PACKET_HEADER_SIZE
  ResendLimit,        \* config.packet_resend_limit
  Bounds              \* what the environment may do, one of which it chooses:
                      \* quota, the bytes each application may write; faults,
                      \* the datagrams lost, repeated or delayed; close, the
                      \* peers whose application may shut down; timeout, the
                      \* peers that may hear nothing for 30 seconds

ASSUME PeersAssumption ==
  /\ IsFiniteSet(Peers) /\ Cardinality(Peers) = 2
  /\ InitSeq \in [Peers -> SeqNum]
  /\ \A b \in Bounds : /\ b.quota \in [Peers -> Nat] /\ b.faults \in Nat
                       /\ b.close \subseteq Peers /\ b.timeout \subseteq Peers

ASSUME SizeAssumption ==
  /\ MaxPacketSize \in Nat /\ HeaderSize \in Nat
  /\ HeaderSize >= 2 /\ MaxPacketSize > HeaderSize
  /\ RecvWindow \in Nat /\ RecvWindow >= MaxPacketSize
  /\ InitTransitWindow \in Nat /\ InitTransitWindow >= MaxPacketSize
  /\ ResendLimit \in Nat \ {0}

VARIABLES
  state,              \* "Connected" or "Disconnected"
  running,            \* FALSE once the application has shut its end down
  sequence_number,    \* the last sequence number handed out
  ack_number,         \* the highest number received without a gap
  peer_ack_number,    \* the highest number the peer has acknowledged
  peer_window,        \* the room the peer last advertised
  transit_window,     \* the bytes allowed in flight
  recv_packets,       \* packets received ahead of a gap, in order
  reassembled_buffer, \* payloads in order that nobody has read yet
  sent_packets,       \* packets kept until acknowledged; each has a timer
  resending,          \* packets a timer took out and is about to queue again
  posting,            \* events made under the lock, not yet in the channel
  events,             \* the unbounded channel of SendEvents
  updating,           \* the send loop holds an ack/window update back
  waiting,            \* the futures of packets waiting for the window
  network,            \* the datagrams on their way to each peer
  written,            \* history: bytes each application's writes accepted
  delivered,          \* history: bytes each application has read
  faults,             \* how many datagrams were lost, repeated or delayed
  bound               \* which of Bounds holds: chosen at the start, then fixed

endVars  == <<state, running, sequence_number, ack_number, peer_ack_number, peer_window,
              transit_window, recv_packets, reassembled_buffer, sent_packets>>
loopVars == <<resending, posting, events, updating, waiting>>
envVars  == <<network, written, delivered, faults, bound>>
vars     == <<endVars, loopVars, envVars>>

Peer(p) == CHOOSE q \in Peers : q # p

-----------------------------------------------------------------------------
(* Packets and events.                                                     *)

MaxPayload == MaxPacketSize - HeaderSize

Byte == Nat \ {0}

Packet == [type   : {"Open", "Data", "Close"}, seq : SeqNum, ack : SeqNum,
           window : Nat, payload : Seq(Byte), resend_count : Nat]

End(pkt) == SeqAdd(pkt.seq, Len(pkt.payload))

\* What the peer parses from the datagram: everything but the resend count.
Datagram(pkt) == [pkt EXCEPT !.resend_count = 0]

Event == [kind : {"Send", "Resend"}, packet : Packet]
           \cup [kind : {"AckUpdate", "WindowUpdate", "Close"}]

IsUpdate(e) == e.kind \in {"AckUpdate", "WindowUpdate"}

\* Compares the raw numbers, as the code does: not the wrapping order.
Overlaps(x, y) == x.seq <= End(y) /\ y.seq <= End(x)

-----------------------------------------------------------------------------
(* Windows.                                                                *)

Min2(a, b) == IF a <= b THEN a ELSE b
Max2(a, b) == IF a >= b THEN a ELSE b

\* The number of bytes in a sequence of payloads.
Bytes(s) == Cardinality(UNION {{i} \X DOMAIN s[i] : i \in DOMAIN s})

PacketBytes(s) == HeaderSize * Len(s) + Bytes([i \in DOMAIN s |-> s[i].payload])

RecvWindowOf(packets, buffer) ==
  LET buffered == PacketBytes(packets) + Bytes(buffer)
  IN  IF buffered > RecvWindow THEN 0 ELSE RecvWindow - buffered

CalculateRecvWindow(p) == RecvWindowOf(recv_packets[p], reassembled_buffer[p])

MaxSendSequenceNumber(p) ==
  SeqAdd(peer_ack_number[p], Min2(peer_window[p], transit_window[p]))

IsCongested(p) == SeqGeq(sequence_number[p], MaxSendSequenceNumber(p))

CanSend(p, pkt) ==
  pkt.type = "Close" \/ SeqLt(End(pkt), MaxSendSequenceNumber(p))

\* Mutant: the window grows by a packet with every packet.
IncreasedByPacket(w) == w + MaxPacketSize

IncreasedAfterSend(w) == w + MaxPacketSize \div (w \div MaxPacketSize)
DecreasedAfterDrop(w) == Max2(MaxPacketSize, (w * 3) \div 4)

-----------------------------------------------------------------------------
(* Making packets and handing them to the send loop.                       *)

DataPacket(p, payload) ==
  [type |-> "Data",
   seq |-> IF payload = <<>> THEN sequence_number[p]
                             ELSE SeqAdd(sequence_number[p], 1),
   ack |-> ack_number[p], window |-> CalculateRecvWindow(p),
   payload |-> payload, resend_count |-> 0]

ClosePacket(p) ==
  [type |-> "Close", seq |-> SeqAdd(sequence_number[p], 1),
   ack |-> ack_number[p], window |-> 0, payload |-> <<>>, resend_count |-> 0]

Connected(p) == state[p] = "Connected"

\* poll_write: the packet is made under the lock; its event is sent after.
\* is_connected has taken the lock before: a disconnect in between is the same
\* as one right after, here and in Read.
Write(p) ==
  /\ Connected(p) /\ running[p]
  /\ ~IsCongested(p)
  /\ \A e \in posting[p] : e.kind # "Send"
  /\ \E n \in 1 .. MaxPayload :
       /\ written[p] + n <= bound.quota[p]
       /\ LET pkt == DataPacket(p, [i \in 1 .. n |-> written[p] + i])
          IN  /\ sequence_number' = [sequence_number EXCEPT ![p] = End(pkt)]
              /\ posting' = [posting EXCEPT ![p] =
                               @ \cup {[kind |-> "Send", packet |-> pkt]}]
       /\ written' = [written EXCEPT ![p] = @ + n]
  /\ UNCHANGED <<state, running, ack_number, peer_ack_number, peer_window,
                 transit_window, recv_packets, reassembled_buffer,
                 sent_packets, resending, events, updating, waiting, network,
                 delivered, faults, bound>>

\* `sender.send(event)` of a writer or a resend timer, without the lock.
Post(p) ==
  /\ \E e \in posting[p] :
       /\ posting' = [posting EXCEPT ![p] = @ \ {e}]
       /\ events' = [events EXCEPT ![p] = Append(@, e)]
  /\ UNCHANGED <<endVars, resending, updating, waiting, envVars>>

\* poll_read takes n bytes; a read that spans payloads is several of these.
Read(p) ==
  /\ Connected(p) /\ running[p]
  /\ reassembled_buffer[p] # <<>>
  /\ \E n \in 1 .. Len(Head(reassembled_buffer[p])) :
       LET chunk == Head(reassembled_buffer[p])
           rest  == IF n = Len(chunk) THEN Tail(reassembled_buffer[p])
                    ELSE <<SubSeq(chunk, n + 1, Len(chunk))>>
                            \o Tail(reassembled_buffer[p])
           opens == /\ CalculateRecvWindow(p) < MaxPacketSize
                    /\ RecvWindowOf(recv_packets[p], rest) >= MaxPacketSize
       IN  /\ reassembled_buffer' = [reassembled_buffer EXCEPT ![p] = rest]
           /\ delivered' = [delivered EXCEPT ![p] = @ \o SubSeq(chunk, 1, n)]
           /\ events' = IF opens
                        THEN [events EXCEPT ![p] =
                                Append(@, [kind |-> "WindowUpdate"])]
                        ELSE events
  /\ UNCHANGED <<state, running, sequence_number, ack_number, peer_ack_number,
                 peer_window, transit_window, recv_packets, sent_packets,
                 resending, posting, updating, waiting, network, written,
                 faults, bound>>

\* poll_shutdown of a running connection.
Shutdown(p) ==
  /\ p \in bound.close /\ running[p]
  /\ running' = [running EXCEPT ![p] = FALSE]
  /\ events' = [events EXCEPT ![p] = Append(@, [kind |-> "Close"])]
  /\ UNCHANGED <<state, sequence_number, ack_number, peer_ack_number,
                 peer_window, transit_window, recv_packets,
                 reassembled_buffer, sent_packets, resending, posting,
                 updating, waiting, envVars>>

-----------------------------------------------------------------------------
(* The send loop.                                                          *)

\* wait_for_next_packet drops updates and holds one back for a tenth of the
\* round trip, in case a packet that carries the same news comes along.
TakeUpdate(p) ==
  /\ Connected(p)
  /\ events[p] # <<>> /\ IsUpdate(Head(events[p]))
  /\ events' = [events EXCEPT ![p] = Tail(@)]
  /\ updating' = [updating EXCEPT ![p] = TRUE]
  /\ UNCHANGED <<endVars, resending, posting, waiting, envVars>>

TakePacket(p) ==
  /\ Connected(p)
  /\ events[p] # <<>> /\ Head(events[p]).kind \in {"Send", "Resend"}
  /\ events' = [events EXCEPT ![p] = Tail(@)]
  /\ waiting' = [waiting EXCEPT ![p] = Append(@, Head(events[p]).packet)]
  /\ updating' = [updating EXCEPT ![p] = FALSE]
  /\ UNCHANGED <<endVars, resending, posting, envVars>>

TakeClose(p) ==
  /\ Connected(p)
  /\ events[p] # <<>> /\ Head(events[p]).kind = "Close"
  /\ events' = [events EXCEPT ![p] = Tail(@)]
  /\ waiting' = [waiting EXCEPT ![p] = Append(@, ClosePacket(p))]
  /\ sequence_number' = [sequence_number EXCEPT ![p] = End(ClosePacket(p))]
  /\ updating' = [updating EXCEPT ![p] = FALSE]
  /\ UNCHANGED <<state, running, ack_number, peer_ack_number, peer_window,
                 transit_window, recv_packets, reassembled_buffer,
                 sent_packets, resending, posting, envVars>>

\* The channel stayed empty: the update becomes an empty packet.
MakeUpdatePacket(p) ==
  /\ Connected(p)
  /\ updating[p] /\ events[p] = <<>>
  /\ updating' = [updating EXCEPT ![p] = FALSE]
  /\ waiting' = [waiting EXCEPT ![p] = Append(@, DataPacket(p, <<>>))]
  /\ UNCHANGED <<endVars, resending, posting, events, envVars>>

\* handle_send_packet, once the datagram is out: a packet with a payload is
\* kept and gets a resend timer; sending a close packet disconnects.
HandleSendPacket(p, pkt) ==
  /\ network' = [network EXCEPT ![Peer(p)] = @ \cup {Datagram(pkt)}]
  /\ \/ /\ pkt.type = "Data"
        /\ transit_window' =
             [transit_window EXCEPT ![p] = IncreasedAfterSend(@)]
        /\ sent_packets' =
             IF pkt.payload = <<>> THEN sent_packets
             ELSE [sent_packets EXCEPT ![p] =
                     {x \in @ : x.seq # pkt.seq} \cup {pkt}]
        /\ state' = state
     \/ /\ pkt.type = "Close"
        /\ state' = [state EXCEPT ![p] = "Disconnected"]
        /\ UNCHANGED <<transit_window, sent_packets>>

\* select_all finds the first waiting packet the window lets through.  The
\* other branch of the select is dropped, and with it an update held back.
SendPacket(p) ==
  /\ Connected(p)
  /\ \E i \in DOMAIN waiting[p] :
       /\ CanSend(p, waiting[p][i])
       /\ \A j \in 1 .. (i - 1) : ~CanSend(p, waiting[p][j])
       /\ waiting' = [waiting EXCEPT ![p] =
                        SubSeq(@, 1, i - 1) \o SubSeq(@, i + 1, Len(@))]
       /\ HandleSendPacket(p, waiting[p][i])
  /\ updating' = [updating EXCEPT ![p] = FALSE]
  /\ UNCHANGED <<running, sequence_number, ack_number, peer_ack_number,
                 peer_window, recv_packets, reassembled_buffer, resending,
                 posting, events, written, delivered, faults, bound>>

\* handle_keep_alive: the send loop had nothing to do for keep_alive_interval,
\* far longer than a datagram is on its way.  The window is not asked.
KeepAlive(p) ==
  /\ Connected(p)
  /\ events[p] = <<>> /\ posting[p] = {} /\ ~updating[p]
  /\ \A q \in Peers : network[q] = {}
  /\ \A i \in DOMAIN waiting[p] : ~CanSend(p, waiting[p][i])
  /\ HandleSendPacket(p, DataPacket(p, <<>>))
  /\ UNCHANGED <<running, sequence_number, ack_number, peer_ack_number,
                 peer_window, recv_packets, reassembled_buffer, resending,
                 posting, events, updating, waiting, written, delivered, faults,
                 bound>>

-----------------------------------------------------------------------------
(* The resend timers: one task for each packet in sent_packets.            *)

\* The packet is still on its way, or its acknowledgement is or will be.
InFlight(p, pkt) ==
  LET q == Peer(p)
  IN  \/ \E x \in network[q] : x.seq = pkt.seq /\ x.payload # <<>>
      \/ \E x \in network[p] : SeqGeq(x.ack, End(pkt))
      \/ /\ SeqGeq(ack_number[q], End(pkt))
         /\ \/ updating[q]
            \/ \E i \in DOMAIN events[q] : IsUpdate(events[q][i])
            \/ \E i \in DOMAIN waiting[q] : SeqGeq(waiting[q][i].ack, End(pkt))

\* The timer fires, finds its packet the first one missing and takes it out.
\* It waits for two round trips: firing earlier counts as a fault.
ResendTimer(p) ==
  /\ Connected(p)
  /\ \E pkt \in sent_packets[p] :
       /\ SeqAdd(peer_ack_number[p], 1) = pkt.seq
       /\ faults' = IF InFlight(p, pkt) THEN faults + 1 ELSE faults
       /\ faults' <= bound.faults
       /\ sent_packets' = [sent_packets EXCEPT ![p] = @ \ {pkt}]
       /\ resending' = [resending EXCEPT ![p] = @ \cup {pkt}]
  /\ UNCHANGED <<state, running, sequence_number, ack_number,
                 peer_ack_number, peer_window, transit_window, recv_packets,
                 reassembled_buffer, posting, events, updating, waiting,
                 network, written, delivered, bound>>

\* The lock is taken again: one resend too many closes the connection,
\* otherwise the packet is brought up to date and queued.
ScheduleResend(p) ==
  /\ \E pkt \in resending[p] :
       LET count == pkt.resend_count + 1
           again == [pkt EXCEPT !.resend_count = count,
                                !.ack = ack_number[p],
                                !.window = CalculateRecvWindow(p)]
       IN  /\ resending' = [resending EXCEPT ![p] = @ \ {pkt}]
           /\ \/ /\ count >= ResendLimit
                 /\ events' = [events EXCEPT ![p] =
                                 Append(@, [kind |-> "Close"])]
                 /\ UNCHANGED <<transit_window, posting>>
              \/ /\ count < ResendLimit
                 /\ posting' = [posting EXCEPT ![p] =
                          @ \cup {[kind |-> "Resend", packet |-> again]}]
                 /\ transit_window' =
                      [transit_window EXCEPT ![p] = DecreasedAfterDrop(@)]
                 /\ events' = events
  /\ UNCHANGED <<state, running, sequence_number, ack_number,
                 peer_ack_number, peer_window, recv_packets,
                 reassembled_buffer, sent_packets, updating, waiting,
                 envVars>>

-----------------------------------------------------------------------------
(* The receive loop.                                                       *)

\* `.take_while(Test).count()` over the indices 1 .. n.
LeadingCount(n, Test(_)) == Cardinality({i \in 1 .. n : \A j \in 1 .. i : Test(j)})

\* Mutant: the raw numbers are compared, as overlaps does.
InRawWindow(p, pkt) ==
  /\ pkt.seq > ack_number[p]
  /\ End(pkt) <= SeqAdd(ack_number[p], RecvWindow)

InRecvWindow(p, pkt) ==
  /\ ~SeqLeq(pkt.seq, ack_number[p])
  /\ ~SeqGt(End(pkt), SeqAdd(ack_number[p], RecvWindow))

OverlapsBuffered(p, pkt) ==
  \E i \in DOMAIN recv_packets[p] : Overlaps(pkt, recv_packets[p][i])

\* recv_process_packet returns Ok.
Accepts(p, pkt) ==
  pkt.payload = <<>> \/ (InRecvWindow(p, pkt) /\ ~OverlapsBuffered(p, pkt))

InsertInOrder(packets, pkt) ==
  LET n == LeadingCount(Len(packets), LAMBDA i : SeqLt(packets[i].seq, pkt.seq))
  IN  SubSeq(packets, 1, n) \o <<pkt>> \o SubSeq(packets, n + 1, Len(packets))

\* Mutant: gaps are not looked for.
ReassembledAcrossGaps(packets, ack) == Len(packets)

\* How many packets at the front follow the acknowledged bytes without a gap.
Reassembled(packets, ack) ==
  LeadingCount(Len(packets),
    LAMBDA i : packets[i].seq =
                 SeqAdd(IF i = 1 THEN ack ELSE End(packets[i - 1]), 1))

\* recv_process_packet and recv_reassemble_packets on an accepted packet.
BufferAndReassemble(p, pkt) ==
  IF pkt.payload = <<>>
  THEN UNCHANGED <<ack_number, recv_packets, reassembled_buffer, events>>
  ELSE LET packets == InsertInOrder(recv_packets[p], pkt)
           k       == Reassembled(packets, ack_number[p])
       IN  /\ recv_packets' =
                [recv_packets EXCEPT ![p] = SubSeq(packets, k + 1, Len(packets))]
           /\ reassembled_buffer' =
                [reassembled_buffer EXCEPT ![p] =
                   @ \o [i \in 1 .. k |-> packets[i].payload]]
           /\ ack_number' =
                [ack_number EXCEPT ![p] = IF k = 0 THEN @ ELSE End(packets[k])]
           /\ events' =
                IF k = 0 THEN events
                ELSE [events EXCEPT ![p] = Append(@, [kind |-> "AckUpdate"])]

\* Mutant: the packet after the acknowledged ones is cleared with them.
ClearsNext(p, ack) ==
  IF SeqGt(ack, peer_ack_number[p])
  THEN /\ peer_ack_number' = [peer_ack_number EXCEPT ![p] = ack]
       /\ sent_packets' = [sent_packets EXCEPT ![p] =
                             {x \in @ : SeqGt(x.seq, SeqAdd(ack, 1))}]
  ELSE UNCHANGED <<peer_ack_number, sent_packets>>

\* update_peer_ack_number.
UpdatePeerAckNumber(p, ack) ==
  IF SeqGt(ack, peer_ack_number[p])
  THEN /\ peer_ack_number' = [peer_ack_number EXCEPT ![p] = ack]
       /\ sent_packets' = [sent_packets EXCEPT ![p] =
                             {x \in @ : SeqGt(x.seq, ack)}]
  ELSE UNCHANGED <<peer_ack_number, sent_packets>>

UpdatePeerWindow(p, window) ==
  peer_window' = [peer_window EXCEPT ![p] = window]

\* handle_recv_packet on a data packet.
ReceiveData(p, pkt) ==
  /\ pkt.type = "Data"
  /\ \/ /\ Accepts(p, pkt)
        /\ BufferAndReassemble(p, pkt)
        /\ UpdatePeerAckNumber(p, pkt.ack)
        /\ UpdatePeerWindow(p, pkt.window)
     \/ /\ ~Accepts(p, pkt)
        /\ UNCHANGED <<ack_number, recv_packets, reassembled_buffer, events,
                       peer_ack_number, sent_packets, peer_window>>
  /\ state' = state

\* handle_recv_packet on any other packet ends the loop and the connection.
ReceiveOther(p, pkt) ==
  /\ pkt.type # "Data"
  /\ state' = [state EXCEPT ![p] = "Disconnected"]
  /\ UNCHANGED <<ack_number, recv_packets, reassembled_buffer, events,
                 peer_ack_number, sent_packets, peer_window>>

\* A datagram arrives, and the network may keep a copy of it.
Receive(p) ==
  /\ Connected(p)
  /\ \E pkt \in network[p] :
       /\ ReceiveData(p, pkt) \/ ReceiveOther(p, pkt)
       /\ \/ /\ network' = [network EXCEPT ![p] = @ \ {pkt}]
             /\ faults' = faults
          \/ /\ faults < bound.faults
             /\ faults' = faults + 1
             /\ network' = network
  /\ UNCHANGED <<running, sequence_number, transit_window, resending, posting,
                 updating, waiting, written, delivered, bound>>

\* handle_recv_timeout: nothing arrived, nothing is on its way.
RecvTimeout(p) ==
  /\ p \in bound.timeout /\ Connected(p)
  /\ network[p] = {}
  /\ state' = [state EXCEPT ![p] = "Disconnected"]
  /\ UNCHANGED <<running, sequence_number, ack_number, peer_ack_number,
                 peer_window, transit_window, recv_packets,
                 reassembled_buffer, sent_packets, loopVars, envVars>>

\* The network loses a datagram.
Lose(p) ==
  /\ faults < bound.faults
  /\ faults' = faults + 1
  /\ \E pkt \in network[p] : network' = [network EXCEPT ![p] = @ \ {pkt}]
  /\ UNCHANGED <<endVars, loopVars, written, delivered, bound>>

-----------------------------------------------------------------------------

\* Both peers have exchanged sync packets: each sent InitSeq + 1 and knows the
\* other's; neither counts its own as acknowledged.
Init ==
  /\ state = [p \in Peers |-> "Connected"]
  /\ running = [p \in Peers |-> TRUE]
  /\ sequence_number = [p \in Peers |-> SeqAdd(InitSeq[p], 1)]
  /\ ack_number = [p \in Peers |-> SeqAdd(InitSeq[Peer(p)], 1)]
  /\ peer_ack_number = InitSeq
  /\ peer_window = [p \in Peers |-> RecvWindow]
  /\ transit_window = [p \in Peers |-> InitTransitWindow]
  /\ recv_packets = [p \in Peers |-> <<>>]
  /\ reassembled_buffer = [p \in Peers |-> <<>>]
  /\ sent_packets = [p \in Peers |-> {}]
  /\ resending = [p \in Peers |-> {}]
  /\ posting = [p \in Peers |-> {}]
  /\ events = [p \in Peers |-> <<>>]
  /\ updating = [p \in Peers |-> FALSE]
  /\ waiting = [p \in Peers |-> <<>>]
  /\ network = [p \in Peers |-> {}]
  /\ written = [p \in Peers |-> 0]
  /\ delivered = [p \in Peers |-> <<>>]
  /\ faults = 0
  /\ bound \in Bounds

Application(p) == Write(p) \/ Read(p) \/ Shutdown(p)

SendLoop(p) == \/ TakeUpdate(p) \/ TakePacket(p) \/ TakeClose(p)
               \/ MakeUpdatePacket(p) \/ SendPacket(p) \/ KeepAlive(p)

RecvLoop(p) == Receive(p) \/ RecvTimeout(p)

Timers(p) == ResendTimer(p) \/ ScheduleResend(p)

Next == \E p \in Peers : \/ Application(p) \/ Post(p) \/ SendLoop(p)
                         \/ RecvLoop(p) \/ Timers(p) \/ Lose(p)

Spec == Init /\ [][Next]_vars

\* Every task that can run does, and what the network keeps it delivers; the
\* applications read, but nobody has to write or to shut down, and losing and
\* repeating are never required.
Fairness ==
  \A p \in Peers :
    /\ WF_vars(Read(p)) /\ WF_vars(Post(p)) /\ WF_vars(Receive(p))
    /\ WF_vars(TakeUpdate(p) \/ TakePacket(p) \/ TakeClose(p) \/ MakeUpdatePacket(p))
    /\ WF_vars(SendPacket(p)) /\ SF_vars(KeepAlive(p))
    /\ WF_vars(ResendTimer(p)) /\ WF_vars(ScheduleResend(p))

FairSpec == Spec /\ Fairness

-----------------------------------------------------------------------------
(* Properties.                                                             *)

\* Every variable holds a value the code's types allow.
TypeOK ==
  /\ state \in [Peers -> {"Connected", "Disconnected"}]
  /\ running \in [Peers -> BOOLEAN]
  /\ sequence_number \in [Peers -> SeqNum]
  /\ ack_number \in [Peers -> SeqNum]
  /\ peer_ack_number \in [Peers -> SeqNum]
  /\ peer_window \in [Peers -> Nat]
  /\ transit_window \in [Peers -> Nat]
  /\ recv_packets \in [Peers -> Seq(Packet)]
  /\ reassembled_buffer \in [Peers -> Seq(Seq(Byte))]
  /\ sent_packets \in [Peers -> SUBSET Packet]
  /\ resending \in [Peers -> SUBSET Packet]
  /\ posting \in [Peers -> SUBSET Event]
  /\ events \in [Peers -> Seq(Event)]
  /\ updating \in [Peers -> BOOLEAN]
  /\ waiting \in [Peers -> Seq(Packet)]
  /\ network \in [Peers -> SUBSET Packet]
  /\ written \in [Peers -> Nat]
  /\ delivered \in [Peers -> Seq(Byte)]
  /\ faults \in Nat

\* The congestion window never falls below one packet, so that a packet always
\* fits and the division in increase_transit_window_after_send is never by
\* zero, and it stops growing at about MAX_PACKET_SIZE packets.
MaxTransitWindow ==
  Max2(InitTransitWindow, MaxPacketSize * (MaxPacketSize + 1))

TransitWindowBounded ==
  \A p \in Peers : transit_window[p] \in MaxPacketSize .. MaxTransitWindow

\* The two ends are a reliable stream: every step of the protocol is a step of
\* ReliableStream or changes nothing the applications can see.
Stream == INSTANCE ReliableStream
            WITH ended <- {p \in Peers : state[p] = "Disconnected"}

ImplementsStream == Stream!Spec

\* What a peer believes acknowledged was received, and what was received had
\* been sent: the three counters of a direction stay in order whatever the
\* network repeats or reorders.
AckedWasReceived ==
  \A p \in Peers :
    /\ SeqLeq(peer_ack_number[p], ack_number[Peer(p)])
    /\ SeqLeq(ack_number[Peer(p)], sequence_number[p])

\* The packets a peer still answers for, wherever its tasks keep them.
Held(p) ==
  sent_packets[p] \cup resending[p] \cup {waiting[p][i] : i \in DOMAIN waiting[p]}
    \cup {e.packet : e \in {x \in posting[p] : x.kind \in {"Send", "Resend"}}}
    \cup {events[p][i].packet : i \in {j \in DOMAIN events[p] :
                                        events[p][j].kind \in {"Send", "Resend"}}}

\* The connection has ended or a task has asked for its end.
Closing(p) == \/ state[p] = "Disconnected"
              \/ \E i \in DOMAIN events[p] : events[p][i].kind = "Close"
              \/ \E i \in DOMAIN waiting[p] : waiting[p][i].type = "Close"

BytesReceived(p) == Len(delivered[p]) + Bytes(reassembled_buffer[p])

\* No byte a write accepted is forgotten before the peer has it: nothing counts
\* as acknowledged that was not received, and some task of the writer keeps the
\* packet of what was not, so it can be sent again.
NoByteForgotten ==
  /\ AckedWasReceived
  /\ \A p \in Peers : \A n \in BytesReceived(Peer(p)) + 1 .. written[p] :
       \/ Closing(p)
       \/ \E pkt \in Held(p) : \E i \in DOMAIN pkt.payload : pkt.payload[i] = n

\* packet.rs compares the raw numbers: it knows no copy of a packet that
\* straddles the wrap-around.
Straddles(pkt) == End(pkt) < pkt.seq

\* A data packet that is sent is never refused for lying beyond the receive
\* window: it is new and fits, or it was received before.  What was kept waits
\* for a gap to be filled, except behind the copy of a packet that straddles the
\* wrap-around: it stays for good and keeps back all that comes after it.
SentPacketsFit ==
  \A p \in Peers :
    /\ \A pkt \in network[p] :
         pkt.payload # <<>> =>
           \/ SeqLeq(End(pkt), ack_number[p])
           \/ InRecvWindow(p, pkt)
    /\ \A i \in DOMAIN recv_packets[p] :
         \/ SeqGt(recv_packets[p][i].seq, SeqAdd(ack_number[p], 1))
         \/ /\ Straddles(Head(recv_packets[p]))
            /\ SeqLeq(End(Head(recv_packets[p])), ack_number[p])

\* What an application wrote reaches the other one, unless the connection ends.
WrittenIsDelivered ==
  \A p \in Peers, b \in Bounds : \A n \in 1 .. b.quota[p] :
    written[p] >= n ~> \/ Len(delivered[Peer(p)]) >= n
                      \/ \E q \in Peers : ~Connected(q)

\* resender.rs: a packet still not acknowledged after two round trips was likely
\* dropped, so we resend it: once queued again, it goes out.
DroppedPacketIsResent ==
  \A p \in Peers :
    (\E i \in DOMAIN waiting[p] : waiting[p][i].resend_count > 0)
      ~> \/ \A i \in DOMAIN waiting[p] : waiting[p][i].resend_count = 0
         \/ \E q \in Peers : ~Connected(q)
=============================================================================
