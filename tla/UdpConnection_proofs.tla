------------------------ MODULE UdpConnection_proofs ------------------------
(***************************************************************************)
(* Proofs about UdpConnection and its sequence numbers, for any modulus,   *)
(* two peers, sizes, limits and amounts of traffic: numbers compare as     *)
(* they were handed out, the connection's variables keep their types, and  *)
(* the congestion window its bounds.  Neither of the last two is inductive *)
(* alone: the window divides by the number of packets that fit into it, so *)
(* it has a type only while it holds at least one.                         *)
(***************************************************************************)
EXTENDS UdpConnection, FiniteSetTheorems, SequenceTheorems, TLAPS

-----------------------------------------------------------------------------
(* Wrapping sequence numbers, for every modulus.                           *)

\* Below twice the modulus, wrapping subtracts the modulus at most once.
LEMMA WrapsOnce ==
  ASSUME NEW x \in 0 .. (2 * SeqModulus - 1)
  PROVE  x % SeqModulus = IF x < SeqModulus THEN x ELSE x - SeqModulus
  BY SeqModulusAssumption

\* wrapping_add stays a sequence number.
LEMMA SeqAddType ==
  ASSUME NEW a \in SeqNum, NEW n \in Nat
  PROVE  SeqAdd(a, n) \in SeqNum
  BY SeqModulusAssumption DEF SeqNum, SeqAdd

\* u32::MAX / 2 is half the range, rounded down.
LEMMA HalfRangeBounds ==
  /\ HalfRange \in Nat /\ HalfRange >= 1
  /\ 2 * HalfRange \in {SeqModulus - 1, SeqModulus - 2}
  BY SeqModulusAssumption DEF HalfRange

\* partial_cmp answers consistently whatever way round it is asked: of two
\* different numbers exactly one is the greater, even half the circle apart.
THEOREM SeqOrderTotal ==
  ASSUME NEW a \in SeqNum, NEW b \in SeqNum
  PROVE  /\ SeqGt(a, b) <=> SeqLt(b, a)
         /\ a # b => (SeqGt(a, b) <=> ~SeqLt(a, b))
         /\ ~SeqGt(a, a) /\ ~SeqLt(a, a)
  BY HalfRangeBounds, SeqModulusAssumption DEF SeqNum, SeqGt, SeqLt

\* A number handed out later is greater, wrapped around or not, as long as fewer
\* than half the numbers lie between: 2^31 - 2 of them, one less than the
\* comment on partial_cmp says.
THEOREM SeqGtAsHandedOut ==
  ASSUME NEW a \in SeqNum, NEW n \in 1 .. (HalfRange - 1)
  PROVE  SeqGt(SeqAdd(a, n), a)
  BY HalfRangeBounds, WrapsOnce, SeqModulusAssumption DEF SeqNum, SeqAdd, SeqGt

-----------------------------------------------------------------------------
(* Windows and sequences.                                                  *)

\* Sending a packet grows the window by at most a packet, and by nothing once
\* MAX_PACKET_SIZE + 1 packets fit.
LEMMA IncreasedAfterSendBounds ==
  ASSUME NEW w \in Nat, w >= MaxPacketSize
  PROVE  /\ IncreasedAfterSend(w) \in Nat
         /\ w <= IncreasedAfterSend(w)
         /\ IncreasedAfterSend(w) <= w + MaxPacketSize
         /\ w >= MaxPacketSize * (MaxPacketSize + 1) => IncreasedAfterSend(w) = w
<1> DEFINE k == w \div MaxPacketSize
           g == MaxPacketSize \div k
<1>1. MaxPacketSize \in Nat /\ MaxPacketSize > 0
  BY SizeAssumption
<1>2. k \in Nat /\ k >= 1
  BY <1>1
<1>3. g \in Nat /\ g <= MaxPacketSize
  BY <1>1, <1>2
<1>4. w >= MaxPacketSize * (MaxPacketSize + 1) => g = 0
  <2> SUFFICES ASSUME w >= MaxPacketSize * (MaxPacketSize + 1)
               PROVE  g = 0
    OBVIOUS
  <2>1. k >= MaxPacketSize + 1
    BY <1>1
  <2>2. QED
    BY <1>1, <1>2, <2>1
<1>5. IncreasedAfterSend(w) = w + g
  BY DEF IncreasedAfterSend
<1> HIDE DEF g
<1>6. QED
  BY <1>1, <1>3, <1>4, <1>5

\* There are two peers.
LEMMA PeerIsPeer ==
  ASSUME NEW p \in Peers
  PROVE  Peer(p) \in Peers /\ Peer(p) # p
<1>1. \E q \in Peers : q # p
  <2> SUFFICES ASSUME \A q \in Peers : q = p PROVE FALSE
    OBVIOUS
  <2>1. Peers = {p}
    OBVIOUS
  <2>2. QED
    BY <2>1, PeersAssumption, FS_Singleton
<1>2. QED
  BY <1>1 DEF Peer

\* Counting the bytes of a sequence of payloads.
LEMMA BytesType ==
  ASSUME NEW s \in Seq(Seq(Byte))
  PROVE  Bytes(s) \in Nat
<1> DEFINE I == 1 .. Len(s)
           Part(i) == {i} \X DOMAIN s[i]
           Parts == {Part(i) : i \in I}
           f == [i \in I |-> Part(i)]
<1>1. Len(s) \in Nat /\ DOMAIN s = I
  OBVIOUS
<1>2. IsFiniteSet(I)
  BY <1>1, FS_Interval
<1>3. f \in Surjection(I, Parts)
  BY DEF Surjection
<1>4. IsFiniteSet(Parts)
  BY <1>2, <1>3, FS_Surjection DEF ExistsSurjection
<1>5. ASSUME NEW i \in I PROVE IsFiniteSet(Part(i))
  <2>1. s[i] \in Seq(Byte)
    BY <1>1
  <2>2. Len(s[i]) \in Nat /\ DOMAIN s[i] = 1 .. Len(s[i])
    BY <2>1
  <2>3. IsFiniteSet(DOMAIN s[i])
    BY <2>2, FS_Interval
  <2>4. QED
    BY <2>3, FS_Singleton, FS_Product
<1>6. IsFiniteSet(UNION Parts)
  BY <1>4, <1>5, FS_UNION
<1>7. Bytes(s) = Cardinality(UNION Parts)
  BY <1>1 DEF Bytes
<1>8. QED
  BY <1>6, <1>7, FS_CardinalityType

\* A function on 1 .. n is a sequence.
LEMMA FunctionIsSeq ==
  ASSUME NEW S, NEW n \in Nat, NEW f \in [1 .. n -> S]
  PROVE  f \in Seq(S) /\ Len(f) = n
  OBVIOUS

\* The advertised window is a number: what is buffered beyond it counts as zero.
LEMMA RecvWindowOfType ==
  ASSUME NEW packets \in Seq(Packet), NEW buffer \in Seq(Seq(Byte))
  PROVE  RecvWindowOf(packets, buffer) \in Nat
<1> DEFINE payloads == [i \in DOMAIN packets |-> packets[i].payload]
<1>1. Len(packets) \in Nat /\ DOMAIN packets = 1 .. Len(packets)
  OBVIOUS
<1>2. ASSUME NEW i \in 1 .. Len(packets) PROVE packets[i].payload \in Seq(Byte)
  <2>1. packets[i] \in Packet
    OBVIOUS
  <2>2. QED
    BY <2>1 DEF Packet
<1>3. payloads \in [1 .. Len(packets) -> Seq(Byte)]
  BY <1>1, <1>2
<1>4. payloads \in Seq(Seq(Byte))
  BY <1>1, <1>3, FunctionIsSeq
<1>5. PacketBytes(packets) \in Nat
  <2>1. Bytes(payloads) \in Nat
    BY <1>4, BytesType
  <2>2. PacketBytes(packets) = HeaderSize * Len(packets) + Bytes(payloads)
    BY DEF PacketBytes
  <2>3. HeaderSize \in Nat /\ HeaderSize * Len(packets) \in Nat
    BY <1>1, SizeAssumption
  <2>4. QED
    BY <2>1, <2>2, <2>3, SMTT(30)
<1>6. QED
  BY <1>5, BytesType, SizeAssumption DEF RecvWindowOf

\* Packets, the datagrams made of them and the events that carry them.
LEMMA EndType ==
  ASSUME NEW pkt \in Packet
  PROVE  End(pkt) \in SeqNum
<1>1. pkt.seq \in SeqNum /\ Len(pkt.payload) \in Nat
  BY DEF Packet
<1>2. QED
  BY <1>1, SeqAddType DEF End

\* The packet of a write, with the numbers and window of the moment, is one.
LEMMA DataPacketType ==
  ASSUME TypeOK, NEW p \in Peers, NEW payload \in Seq(Byte)
  PROVE  DataPacket(p, payload) \in Packet
<1>1. CalculateRecvWindow(p) \in Nat
  BY RecvWindowOfType DEF TypeOK, CalculateRecvWindow
<1>2. sequence_number[p] \in SeqNum /\ ack_number[p] \in SeqNum
  BY DEF TypeOK
<1>3. SeqAdd(sequence_number[p], 1) \in SeqNum
  BY <1>2, SeqAddType
<1>4. QED
  BY <1>1, <1>2, <1>3 DEF DataPacket, Packet

\* So is the packet that closes.
LEMMA ClosePacketType ==
  ASSUME TypeOK, NEW p \in Peers
  PROVE  ClosePacket(p) \in Packet
<1>1. sequence_number[p] \in SeqNum /\ ack_number[p] \in SeqNum
  BY DEF TypeOK
<1>2. SeqAdd(sequence_number[p], 1) \in SeqNum
  BY <1>1, SeqAddType
<1>3. <<>> \in Seq(Byte)
  OBVIOUS
<1>4. QED
  BY <1>1, <1>2, <1>3 DEF ClosePacket, Packet

\* What goes over the wire of a packet is a packet.
LEMMA DatagramType ==
  ASSUME NEW pkt \in Packet
  PROVE  Datagram(pkt) \in Packet
  BY DEF Datagram, Packet

\* The events of the channel are of the kinds SendEvent has.
LEMMA EventType ==
  /\ \A pkt \in Packet : /\ [kind |-> "Send", packet |-> pkt] \in Event
                         /\ [kind |-> "Resend", packet |-> pkt] \in Event
  /\ \A k \in {"AckUpdate", "WindowUpdate", "Close"} : [kind |-> k] \in Event
  /\ \A e \in Event : e.kind \in {"Send", "Resend"} => e.packet \in Packet
  BY DEF Event

\* One lemma for each step that it keeps the types.
LEMMA WriteType ==
  ASSUME TypeOK, NEW p \in Peers, Write(p)
  PROVE  TypeOK'
<1>1. PICK n \in 1 .. MaxPayload :
        LET pkt == DataPacket(p, [i \in 1 .. n |-> written[p] + i])
        IN  /\ sequence_number' = [sequence_number EXCEPT ![p] = End(pkt)]
            /\ posting' = [posting EXCEPT ![p] =
                             @ \cup {[kind |-> "Send", packet |-> pkt]}]
            /\ written' = [written EXCEPT ![p] = @ + n]
  BY DEF Write
<1> DEFINE payload == [i \in 1 .. n |-> written[p] + i]
           pkt == DataPacket(p, payload)
<1>2. n \in Nat /\ written[p] \in Nat
  BY DEF TypeOK
<1>3. payload \in Seq(Byte)
  <2>1. payload \in [1 .. n -> Byte]
    BY <1>2 DEF Byte
  <2>2. QED
    BY <1>2, <2>1, FunctionIsSeq
<1>4. pkt \in Packet
  BY <1>3, DataPacketType
<1>5. End(pkt) \in SeqNum /\ [kind |-> "Send", packet |-> pkt] \in Event
  BY <1>4, EndType, EventType
<1>6. sequence_number' \in [Peers -> SeqNum]
  BY <1>1, <1>5 DEF TypeOK
<1>7. posting' \in [Peers -> SUBSET Event]
  BY <1>1, <1>5 DEF TypeOK
<1>8. written' \in [Peers -> Nat]
  BY <1>1, <1>2 DEF TypeOK
<1>9. QED
  BY <1>6, <1>7, <1>8 DEF TypeOK, Write

\* Sending the event that a write or a timer prepared keeps the types.
LEMMA PostType ==
  ASSUME TypeOK, NEW p \in Peers, Post(p)
  PROVE  TypeOK'
<1>1. posting' \in [Peers -> SUBSET Event] /\ events' \in [Peers -> Seq(Event)]
  BY DEF TypeOK, Post
<1>2. QED
  BY <1>1 DEF TypeOK, Post, endVars, envVars

\* Shutting down keeps the types.
LEMMA ShutdownType ==
  ASSUME TypeOK, NEW p \in Peers, Shutdown(p)
  PROVE  TypeOK'
<1>1. running' \in [Peers -> BOOLEAN] /\ events' \in [Peers -> Seq(Event)]
  BY EventType DEF TypeOK, Shutdown
<1>2. QED
  BY <1>1 DEF TypeOK, Shutdown, envVars

\* The send loop's taking an update event keeps the types.
LEMMA TakeUpdateType ==
  ASSUME TypeOK, NEW p \in Peers, TakeUpdate(p)
  PROVE  TypeOK'
<1>1. events' \in [Peers -> Seq(Event)] /\ updating' \in [Peers -> BOOLEAN]
  BY DEF TypeOK, TakeUpdate
<1>2. QED
  BY <1>1 DEF TypeOK, TakeUpdate, endVars, envVars

\* Its taking a packet, to send or to keep until it fits, keeps them.
LEMMA TakePacketType ==
  ASSUME TypeOK, NEW p \in Peers, TakePacket(p)
  PROVE  TypeOK'
<1>1. events' \in [Peers -> Seq(Event)] /\ updating' \in [Peers -> BOOLEAN]
  BY DEF TypeOK, TakePacket
<1>2. Head(events[p]).packet \in Packet
  BY EventType DEF TypeOK, TakePacket
<1>3. waiting' \in [Peers -> Seq(Packet)]
  BY <1>2 DEF TypeOK, TakePacket
<1>4. QED
  BY <1>1, <1>3 DEF TypeOK, TakePacket, endVars, envVars

\* Its taking the close event keeps them.
LEMMA TakeCloseType ==
  ASSUME TypeOK, NEW p \in Peers, TakeClose(p)
  PROVE  TypeOK'
<1>1. events' \in [Peers -> Seq(Event)] /\ updating' \in [Peers -> BOOLEAN]
  BY DEF TypeOK, TakeClose
<1>2. ClosePacket(p) \in Packet /\ End(ClosePacket(p)) \in SeqNum
  BY ClosePacketType, EndType
<1>3. waiting' \in [Peers -> Seq(Packet)] /\ sequence_number' \in [Peers -> SeqNum]
  BY <1>2 DEF TypeOK, TakeClose
<1>4. QED
  BY <1>1, <1>3 DEF TypeOK, TakeClose, envVars

\* Its making the packet of an update it held back keeps them.
LEMMA MakeUpdatePacketType ==
  ASSUME TypeOK, NEW p \in Peers, MakeUpdatePacket(p)
  PROVE  TypeOK'
<1>1. <<>> \in Seq(Byte)
  OBVIOUS
<1>2. DataPacket(p, <<>>) \in Packet
  BY <1>1, DataPacketType
<1>3. waiting' \in [Peers -> Seq(Packet)] /\ updating' \in [Peers -> BOOLEAN]
  BY <1>2 DEF TypeOK, MakeUpdatePacket
<1>4. QED
  BY <1>3 DEF TypeOK, MakeUpdatePacket, endVars, envVars

\* Reading shortens the reassembled bytes and changes no other type.
LEMMA ReadType ==
  ASSUME TypeOK, NEW p \in Peers, Read(p)
  PROVE  TypeOK'
<1> DEFINE buffer == reassembled_buffer[p]
           chunk  == Head(buffer)
<1>1. buffer \in Seq(Seq(Byte)) /\ buffer # <<>>
  BY DEF TypeOK, Read
<1>2. chunk \in Seq(Byte) /\ Tail(buffer) \in Seq(Seq(Byte))
  BY <1>1
<1>3. PICK n \in 1 .. Len(chunk) :
        LET rest == IF n = Len(chunk) THEN Tail(buffer)
                    ELSE <<SubSeq(chunk, n + 1, Len(chunk))>> \o Tail(buffer)
        IN  /\ reassembled_buffer' = [reassembled_buffer EXCEPT ![p] = rest]
            /\ delivered' = [delivered EXCEPT ![p] = @ \o SubSeq(chunk, 1, n)]
            /\ \/ events' = [events EXCEPT ![p] =
                               Append(@, [kind |-> "WindowUpdate"])]
               \/ events' = events
  BY DEF Read
<1>4. SubSeq(chunk, 1, n) \in Seq(Byte) /\ SubSeq(chunk, n + 1, Len(chunk)) \in Seq(Byte)
  BY <1>2
<1>5. <<SubSeq(chunk, n + 1, Len(chunk))>> \o Tail(buffer) \in Seq(Seq(Byte))
  BY <1>2, <1>4
<1>6. reassembled_buffer' \in [Peers -> Seq(Seq(Byte))]
  BY <1>2, <1>3, <1>5 DEF TypeOK
<1>7. delivered' \in [Peers -> Seq(Byte)]
  BY <1>3, <1>4, SMTT(30) DEF TypeOK
<1>8. events' \in [Peers -> Seq(Event)]
  <2>1. [kind |-> "WindowUpdate"] \in Event
    BY EventType
  <2>2. events[p] \in Seq(Event) /\ events \in [Peers -> Seq(Event)]
    BY DEF TypeOK
  <2>3. Append(events[p], [kind |-> "WindowUpdate"]) \in Seq(Event)
    BY <2>1, <2>2
  <2>4. QED
    BY <1>3, <2>2, <2>3
<1>9. QED
  BY <1>6, <1>7, <1>8 DEF TypeOK, Read

\* The part of a step that sends a packet.
LEMMA HandleSendPacketType ==
  ASSUME TypeOK, TransitWindowBounded, NEW p \in Peers, NEW pkt \in Packet,
         HandleSendPacket(p, pkt)
  PROVE  /\ network' \in [Peers -> SUBSET Packet]
         /\ sent_packets' \in [Peers -> SUBSET Packet]
         /\ state' \in [Peers -> {"Connected", "Disconnected"}]
         /\ transit_window' \in [Peers -> Nat]
<1>1. Datagram(pkt) \in Packet
  BY DatagramType
<1>2. network' \in [Peers -> SUBSET Packet]
  BY <1>1, PeerIsPeer DEF TypeOK, HandleSendPacket
<1>3. IncreasedAfterSend(transit_window[p]) \in Nat
  BY IncreasedAfterSendBounds, SizeAssumption DEF TypeOK, TransitWindowBounded
<1>4. transit_window' \in [Peers -> Nat]
  BY <1>3, ZenonT(30) DEF TypeOK, HandleSendPacket
<1>5. sent_packets' \in [Peers -> SUBSET Packet]
  <2> DEFINE kept == {x \in sent_packets[p] : x.seq # pkt.seq} \cup {pkt}
  <2>1. sent_packets \in [Peers -> SUBSET Packet] /\ kept \in SUBSET Packet
    BY DEF TypeOK
  <2>2. \/ sent_packets' = sent_packets
        \/ sent_packets' = [sent_packets EXCEPT ![p] = kept]
    BY DEF HandleSendPacket
  <2>3. QED
    BY <2>1, <2>2
<1>6. state' \in [Peers -> {"Connected", "Disconnected"}]
  BY DEF TypeOK, HandleSendPacket
<1>7. QED
  BY <1>2, <1>4, <1>5, <1>6

\* Sending a packet keeps the types: the window it grows is a number.
LEMMA SendPacketType ==
  ASSUME TypeOK, TransitWindowBounded, NEW p \in Peers, SendPacket(p)
  PROVE  TypeOK'
<1>1. PICK i \in DOMAIN waiting[p] :
        /\ waiting' = [waiting EXCEPT ![p] =
                         SubSeq(@, 1, i - 1) \o SubSeq(@, i + 1, Len(@))]
        /\ HandleSendPacket(p, waiting[p][i])
  BY DEF SendPacket
<1>2. waiting[p] \in Seq(Packet)
  BY DEF TypeOK
<1>3. waiting[p][i] \in Packet
  BY <1>2
<1>4. SubSeq(waiting[p], 1, i - 1) \o SubSeq(waiting[p], i + 1, Len(waiting[p]))
        \in Seq(Packet)
  <2>1. i \in 1 .. Len(waiting[p]) /\ Len(waiting[p]) \in Nat
    BY <1>2
  <2>2. SubSeq(waiting[p], 1, i - 1) \in Seq(Packet)
    BY <1>2, <2>1, SubSeqProperties
  <2>3. SubSeq(waiting[p], i + 1, Len(waiting[p])) \in Seq(Packet)
    BY <1>2, <2>1, SubSeqProperties
  <2>4. QED
    BY <2>2, <2>3
<1>5. waiting' \in [Peers -> Seq(Packet)]
  BY <1>1, <1>4 DEF TypeOK
<1>6. updating' \in [Peers -> BOOLEAN]
  BY DEF TypeOK, SendPacket
<1>7. QED
  BY <1>1, <1>3, <1>5, <1>6, HandleSendPacketType DEF TypeOK, SendPacket

\* A keep-alive keeps the types.
LEMMA KeepAliveType ==
  ASSUME TypeOK, TransitWindowBounded, NEW p \in Peers, KeepAlive(p)
  PROVE  TypeOK'
<1>1. <<>> \in Seq(Byte)
  OBVIOUS
<1>2. DataPacket(p, <<>>) \in Packet
  BY <1>1, DataPacketType
<1>3. HandleSendPacket(p, DataPacket(p, <<>>))
  BY DEF KeepAlive
<1>4. QED
  BY <1>2, <1>3, HandleSendPacketType DEF TypeOK, KeepAlive

\* A timer that finds its packet unacknowledged keeps the types: the window it
\* shrinks stays a number.
LEMMA ResendTimerType ==
  ASSUME TypeOK, NEW p \in Peers, ResendTimer(p)
  PROVE  TypeOK'
<1>1. PICK pkt \in sent_packets[p] :
        /\ faults' = IF InFlight(p, pkt) THEN faults + 1 ELSE faults
        /\ sent_packets' = [sent_packets EXCEPT ![p] = @ \ {pkt}]
        /\ resending' = [resending EXCEPT ![p] = @ \cup {pkt}]
  BY DEF ResendTimer
<1>2. sent_packets' \in [Peers -> SUBSET Packet] /\ resending' \in [Peers -> SUBSET Packet]
  BY <1>1 DEF TypeOK
<1>3. faults' \in Nat
  BY <1>1 DEF TypeOK
<1>4. QED
  BY <1>2, <1>3 DEF TypeOK, ResendTimer

\* Queueing that packet again keeps the types.
LEMMA ScheduleResendType ==
  ASSUME TypeOK, NEW p \in Peers, ScheduleResend(p)
  PROVE  TypeOK'
<1> DEFINE Again(pkt) == [pkt EXCEPT !.resend_count = pkt.resend_count + 1,
                                     !.ack = ack_number[p],
                                     !.window = CalculateRecvWindow(p)]
<1>1. PICK pkt \in resending[p] :
        /\ resending' = [resending EXCEPT ![p] = @ \ {pkt}]
        /\ \/ /\ events' = [events EXCEPT ![p] = Append(@, [kind |-> "Close"])]
              /\ UNCHANGED <<transit_window, posting>>
           \/ /\ posting' = [posting EXCEPT ![p] =
                       @ \cup {[kind |-> "Resend", packet |-> Again(pkt)]}]
              /\ transit_window' =
                   [transit_window EXCEPT ![p] = DecreasedAfterDrop(@)]
              /\ events' = events
  BY DEF ScheduleResend
<1> DEFINE resend == [kind |-> "Resend", packet |-> Again(pkt)]
           close  == [kind |-> "Close"]
<1>2. Again(pkt) \in Packet
  <2>1. CalculateRecvWindow(p) \in Nat
    BY RecvWindowOfType DEF TypeOK, CalculateRecvWindow
  <2>2. ack_number[p] \in SeqNum /\ pkt \in Packet
    BY DEF TypeOK
  <2>3. pkt.resend_count + 1 \in Nat
    BY <2>2 DEF Packet
  <2>4. QED
    BY <2>1, <2>2, <2>3 DEF Packet
<1>3. resend \in Event /\ close \in Event
  BY <1>2, EventType
<1>4. resending' \in [Peers -> SUBSET Packet]
  BY <1>1 DEF TypeOK
<1>5. /\ \/ posting' = posting
         \/ posting' = [posting EXCEPT ![p] = @ \cup {resend}]
      /\ \/ events' = events
         \/ events' = [events EXCEPT ![p] = Append(@, close)]
      /\ \/ transit_window' = transit_window
         \/ transit_window' = [transit_window EXCEPT ![p] = DecreasedAfterDrop(@)]
  BY <1>1
<1> HIDE DEF resend, close
<1>6. posting' \in [Peers -> SUBSET Event]
  <2>1. posting \in [Peers -> SUBSET Event] /\ posting[p] \cup {resend} \in SUBSET Event
    BY <1>3 DEF TypeOK
  <2>2. QED
    BY <1>5, <2>1
<1>7. events' \in [Peers -> Seq(Event)]
  <2>1. events \in [Peers -> Seq(Event)] /\ Append(events[p], close) \in Seq(Event)
    BY <1>3 DEF TypeOK
  <2>2. QED
    BY <1>5, <2>1
<1>8. transit_window' \in [Peers -> Nat]
  <2>1. /\ transit_window \in [Peers -> Nat]
        /\ DecreasedAfterDrop(transit_window[p]) \in Nat
    BY SizeAssumption, SMTT(30) DEF TypeOK, DecreasedAfterDrop, Max2
  <2>2. QED
    BY <1>5, <2>1
<1>9. QED
  BY <1>4, <1>6, <1>7, <1>8 DEF TypeOK, ScheduleResend, envVars

\* take_while(..).count() is an index.
LEMMA PrefixCount ==
  ASSUME NEW n \in Nat, NEW S \in SUBSET (1 .. n)
  PROVE  Cardinality(S) \in 0 .. n
<1>1. IsFiniteSet(1 .. n) /\ Cardinality(1 .. n) = n
  BY FS_Interval
<1>2. IsFiniteSet(S) /\ Cardinality(S) <= n
  BY <1>1, FS_Subset
<1>3. Cardinality(S) \in Nat
  BY <1>2, FS_CardinalityType
<1>4. QED
  BY <1>2, <1>3

\* Inserting keeps a sequence of packets one.
LEMMA InsertInOrderType ==
  ASSUME NEW packets \in Seq(Packet), NEW pkt \in Packet
  PROVE  InsertInOrder(packets, pkt) \in Seq(Packet)
<1> DEFINE earlier == {i \in 1 .. Len(packets) :
                         \A j \in 1 .. i : SeqLt(packets[j].seq, pkt.seq)}
           n == Cardinality(earlier)
<1>1. Len(packets) \in Nat
  OBVIOUS
<1>2. n \in 0 .. Len(packets)
  BY <1>1, PrefixCount
<1>3. InsertInOrder(packets, pkt) =
        SubSeq(packets, 1, n) \o <<pkt>> \o SubSeq(packets, n + 1, Len(packets))
  BY DEF InsertInOrder, LeadingCount
<1> HIDE DEF n
<1>4. SubSeq(packets, 1, n) \in Seq(Packet)
  BY <1>1, <1>2, SubSeqProperties
<1>5. SubSeq(packets, n + 1, Len(packets)) \in Seq(Packet)
  BY <1>1, <1>2, SubSeqProperties
<1>6. <<pkt>> \in Seq(Packet)
  OBVIOUS
<1>7. QED
  BY <1>3, <1>4, <1>5, <1>6

\* No more packets are reassembled than there are.
LEMMA ReassembledRange ==
  ASSUME NEW packets \in Seq(Packet), NEW ack
  PROVE  Reassembled(packets, ack) \in 0 .. Len(packets)
<1>1. Len(packets) \in Nat
  OBVIOUS
<1>2. QED
  BY <1>1, PrefixCount DEF Reassembled, LeadingCount

\* The parts of a step that receives a packet.
LEMMA BufferAndReassembleType ==
  ASSUME TypeOK, NEW p \in Peers, NEW pkt \in Packet, BufferAndReassemble(p, pkt)
  PROVE  /\ ack_number' \in [Peers -> SeqNum]
         /\ recv_packets' \in [Peers -> Seq(Packet)]
         /\ reassembled_buffer' \in [Peers -> Seq(Seq(Byte))]
         /\ events' \in [Peers -> Seq(Event)]
<1>1. CASE pkt.payload = <<>>
  BY <1>1 DEF TypeOK, BufferAndReassemble
<1>2. CASE pkt.payload # <<>>
  <2> DEFINE packets == InsertInOrder(recv_packets[p], pkt)
             k    == Reassembled(packets, ack_number[p])
             rest == SubSeq(packets, k + 1, Len(packets))
             next == [i \in 1 .. k |-> packets[i].payload]
             update == [kind |-> "AckUpdate"]
  <2>1. packets \in Seq(Packet)
    BY InsertInOrderType DEF TypeOK
  <2>2. k \in 0 .. Len(packets) /\ Len(packets) \in Nat
    BY <2>1, ReassembledRange
  <2>3. /\ recv_packets' = [recv_packets EXCEPT ![p] = rest]
        /\ reassembled_buffer' = [reassembled_buffer EXCEPT ![p] = @ \o next]
        /\ ack_number' = [ack_number EXCEPT ![p] =
                            IF k = 0 THEN @ ELSE End(packets[k])]
        /\ events' = IF k = 0 THEN events
                     ELSE [events EXCEPT ![p] = Append(@, update)]
    BY <1>2 DEF BufferAndReassemble
  <2> HIDE DEF packets, k
  <2>4. rest \in Seq(Packet)
    BY <2>1, <2>2, SubSeqProperties
  <2>5. next \in Seq(Seq(Byte))
    <3>1. ASSUME NEW i \in 1 .. k PROVE packets[i].payload \in Seq(Byte)
      <4>1. packets[i] \in Packet
        BY <2>1, <2>2
      <4>2. QED
        BY <4>1 DEF Packet
    <3>2. next \in [1 .. k -> Seq(Byte)]
      BY <3>1
    <3>3. QED
      BY <2>2, <3>2, FunctionIsSeq
  <2>6. k # 0 => End(packets[k]) \in SeqNum
    BY <2>1, <2>2, EndType
  <2>7. update \in Event
    BY EventType
  <2> HIDE DEF rest, next, update
  <2>8. recv_packets' \in [Peers -> Seq(Packet)]
    BY <2>3, <2>4 DEF TypeOK
  <2>9. reassembled_buffer' \in [Peers -> Seq(Seq(Byte))]
    BY <2>3, <2>5 DEF TypeOK
  <2>10. ack_number' \in [Peers -> SeqNum]
    BY <2>3, <2>6 DEF TypeOK
  <2>11. events' \in [Peers -> Seq(Event)]
    <3>1. events \in [Peers -> Seq(Event)] /\ Append(events[p], update) \in Seq(Event)
      BY <2>7 DEF TypeOK
    <3>2. QED
      BY <2>3, <3>1
  <2>12. QED
    BY <2>8, <2>9, <2>10, <2>11
<1>3. QED
  BY <1>1, <1>2

\* Handling an acknowledgement leaves numbers, packets kept and window typed.
LEMMA UpdatePeerAckNumberType ==
  ASSUME TypeOK, NEW p \in Peers, NEW ack \in SeqNum, UpdatePeerAckNumber(p, ack)
  PROVE  /\ peer_ack_number' \in [Peers -> SeqNum]
         /\ sent_packets' \in [Peers -> SUBSET Packet]
<1> DEFINE left == {x \in sent_packets[p] : SeqGt(x.seq, ack)}
<1>1. /\ peer_ack_number \in [Peers -> SeqNum]
      /\ sent_packets \in [Peers -> SUBSET Packet] /\ left \in SUBSET Packet
  BY DEF TypeOK
<1>2. \/ UNCHANGED <<peer_ack_number, sent_packets>>
      \/ /\ peer_ack_number' = [peer_ack_number EXCEPT ![p] = ack]
         /\ sent_packets' = [sent_packets EXCEPT ![p] = left]
  BY DEF UpdatePeerAckNumber
<1> HIDE DEF left
<1>3. QED
  BY <1>1, <1>2

\* Receiving any packet of the network keeps the types.
LEMMA ReceiveType ==
  ASSUME TypeOK, NEW p \in Peers, Receive(p)
  PROVE  TypeOK'
<1>1. PICK pkt \in network[p] :
        /\ ReceiveData(p, pkt) \/ ReceiveOther(p, pkt)
        /\ \/ /\ network' = [network EXCEPT ![p] = @ \ {pkt}]
              /\ faults' = faults
           \/ /\ faults' = faults + 1
              /\ network' = network
  BY DEF Receive
<1>2. pkt \in Packet
  BY DEF TypeOK
<1>3. network' \in [Peers -> SUBSET Packet] /\ faults' \in Nat
  <2>1. /\ network \in [Peers -> SUBSET Packet] /\ faults \in Nat
        /\ network[p] \ {pkt} \in SUBSET Packet
    BY DEF TypeOK
  <2>2. QED
    BY <1>1, <2>1
<1>4. /\ ack_number' \in [Peers -> SeqNum]
      /\ recv_packets' \in [Peers -> Seq(Packet)]
      /\ reassembled_buffer' \in [Peers -> Seq(Seq(Byte))]
      /\ events' \in [Peers -> Seq(Event)]
      /\ peer_ack_number' \in [Peers -> SeqNum]
      /\ sent_packets' \in [Peers -> SUBSET Packet]
      /\ peer_window' \in [Peers -> Nat]
      /\ state' \in [Peers -> {"Connected", "Disconnected"}]
  <2>1. CASE ReceiveData(p, pkt) /\ Accepts(p, pkt)
    <3>1. /\ BufferAndReassemble(p, pkt) /\ UpdatePeerAckNumber(p, pkt.ack)
          /\ UpdatePeerWindow(p, pkt.window) /\ state' = state
      BY <2>1 DEF ReceiveData
    <3>2. pkt.ack \in SeqNum /\ pkt.window \in Nat
      BY <1>2 DEF Packet
    <3>3. peer_window' \in [Peers -> Nat] /\ state' \in [Peers -> {"Connected", "Disconnected"}]
      BY <3>1, <3>2 DEF TypeOK, UpdatePeerWindow
    <3>4. QED
      BY <1>2, <3>1, <3>2, <3>3, BufferAndReassembleType, UpdatePeerAckNumberType
  <2>2. CASE ReceiveData(p, pkt) /\ ~Accepts(p, pkt)
    BY <2>2 DEF TypeOK, ReceiveData
  <2>3. CASE ReceiveOther(p, pkt)
    BY <2>3 DEF TypeOK, ReceiveOther
  <2>4. QED
    BY <1>1, <2>1, <2>2, <2>3
<1>5. QED
  BY <1>3, <1>4 DEF TypeOK, Receive

\* A receive loop that times out keeps the types.
LEMMA RecvTimeoutType ==
  ASSUME TypeOK, NEW p \in Peers, RecvTimeout(p)
  PROVE  TypeOK'
  BY DEF TypeOK, RecvTimeout, loopVars, envVars

\* A lost datagram keeps the types.
LEMMA LoseType ==
  ASSUME TypeOK, NEW p \in Peers, Lose(p)
  PROVE  TypeOK'
  BY DEF TypeOK, Lose, endVars, loopVars

\* Both peers start with well-typed variables.
LEMMA InitType == Init => TypeOK
<1> SUFFICES ASSUME Init PROVE TypeOK
  OBVIOUS
<1>1. ASSUME NEW p \in Peers
      PROVE  SeqAdd(InitSeq[p], 1) \in SeqNum /\ SeqAdd(InitSeq[Peer(p)], 1) \in SeqNum
  BY PeerIsPeer, PeersAssumption, SeqAddType
<1>2. /\ sequence_number \in [Peers -> SeqNum]
      /\ ack_number \in [Peers -> SeqNum]
      /\ peer_ack_number \in [Peers -> SeqNum]
  BY <1>1, PeersAssumption DEF Init
<1>3. \A S : <<>> \in Seq(S)
  OBVIOUS
<1>4. QED
  BY <1>2, <1>3, SizeAssumption DEF Init, TypeOK

\* The window grows up to its ceiling and not beyond: the last packet it grows by
\* is rounded down to less than the distance.
LEMMA IncreasedAfterSendCeiling ==
  ASSUME NEW w \in MaxPacketSize .. MaxTransitWindow
  PROVE  IncreasedAfterSend(w) \in MaxPacketSize .. MaxTransitWindow
<1> DEFINE ceiling == MaxPacketSize * (MaxPacketSize + 1)
           k == w \div MaxPacketSize
           g == MaxPacketSize \div k
<1>1. MaxPacketSize \in Nat /\ MaxPacketSize > 0 /\ InitTransitWindow \in Nat
  BY SizeAssumption
<1>2. ceiling \in Nat /\ MaxTransitWindow = Max2(InitTransitWindow, ceiling)
  BY <1>1 DEF MaxTransitWindow
<1>3. MaxTransitWindow \in Nat /\ ceiling <= MaxTransitWindow
  BY <1>1, <1>2 DEF Max2
<1>4. w \in Nat /\ w >= MaxPacketSize
  BY <1>1, <1>3
<1>5. CASE w >= ceiling
  BY <1>4, <1>5, IncreasedAfterSendBounds
<1>6. CASE w < ceiling
  <2>1. k \in Nat /\ k >= 1 /\ k <= MaxPacketSize /\ w <= k * MaxPacketSize + MaxPacketSize - 1
    BY <1>1, <1>4, <1>6
  <2>2. g \in Nat /\ g <= MaxPacketSize /\ IncreasedAfterSend(w) = w + g
    BY <1>1, <2>1 DEF IncreasedAfterSend
  <2>3. w + g <= ceiling
    <3>1. CASE k = MaxPacketSize
      BY <1>1, <1>4, <1>6, <2>1, <3>1
    <3>2. CASE k <= MaxPacketSize - 1
      BY <1>1, <1>4, <2>1, <2>2, <3>2
    <3>3. QED
      BY <1>1, <2>1, <3>1, <3>2
  <2>4. QED
    BY <1>1, <1>2, <1>3, <1>4, <2>2, <2>3
<1>7. QED
  BY <1>2, <1>4, <1>5, <1>6

\* A dropped packet shrinks the window, to no less than one packet.
LEMMA DecreasedAfterDropBounds ==
  ASSUME NEW w \in MaxPacketSize .. MaxTransitWindow
  PROVE  DecreasedAfterDrop(w) \in MaxPacketSize .. MaxTransitWindow
<1>1. MaxPacketSize \in Nat /\ MaxTransitWindow \in Nat
  BY SizeAssumption DEF MaxTransitWindow, Max2
<1>2. QED
  BY <1>1 DEF DecreasedAfterDrop, Max2

\* Only one peer's window changes in a step.
LEMMA TransitWindowOfOne ==
  ASSUME TypeOK, TransitWindowBounded, NEW p \in Peers, NEW w,
         w \in MaxPacketSize .. MaxTransitWindow,
         \/ transit_window' = transit_window
         \/ transit_window' = [transit_window EXCEPT ![p] = w]
  PROVE  TransitWindowBounded'
  BY DEF TypeOK, TransitWindowBounded

\* Sending and resending are the steps that change a window.
LEMMA TransitWindowStep ==
  ASSUME TypeOK, TransitWindowBounded, [Next]_vars
  PROVE  TransitWindowBounded'
<1>1. ASSUME NEW p \in Peers
      PROVE  /\ transit_window[p] \in MaxPacketSize .. MaxTransitWindow
             /\ IncreasedAfterSend(transit_window[p]) \in MaxPacketSize .. MaxTransitWindow
             /\ DecreasedAfterDrop(transit_window[p]) \in MaxPacketSize .. MaxTransitWindow
  BY IncreasedAfterSendCeiling, DecreasedAfterDropBounds DEF TransitWindowBounded
<1>2. ASSUME NEW p \in Peers, NEW pkt, HandleSendPacket(p, pkt)
      PROVE  TransitWindowBounded'
  <2>1. \/ transit_window' = transit_window
        \/ transit_window' =
             [transit_window EXCEPT ![p] = IncreasedAfterSend(transit_window[p])]
    BY <1>2 DEF HandleSendPacket
  <2>2. QED
    BY <1>1, <2>1, TransitWindowOfOne
<1>3. ASSUME NEW p \in Peers, SendPacket(p)
      PROVE  TransitWindowBounded'
  <2>1. PICK i \in DOMAIN waiting[p] : HandleSendPacket(p, waiting[p][i])
    BY <1>3 DEF SendPacket
  <2>2. QED
    BY <1>2, <2>1
<1>4. ASSUME NEW p \in Peers, KeepAlive(p)
      PROVE  TransitWindowBounded'
  BY <1>2, <1>4 DEF KeepAlive
<1>5. ASSUME NEW p \in Peers, ScheduleResend(p)
      PROVE  TransitWindowBounded'
  <2>1. \/ transit_window' = transit_window
        \/ transit_window' =
             [transit_window EXCEPT ![p] = DecreasedAfterDrop(transit_window[p])]
    BY <1>5 DEF ScheduleResend
  <2>2. QED
    BY <1>1, <2>1, TransitWindowOfOne
<1>6. ASSUME UNCHANGED transit_window
      PROVE  TransitWindowBounded'
  BY <1>6 DEF TransitWindowBounded
<1>7. ASSUME NEW p \in Peers, Application(p) \/ Post(p) \/ RecvLoop(p) \/ Lose(p)
      PROVE  UNCHANGED transit_window
  BY <1>7 DEF Application, Write, Read, Shutdown, Post, RecvLoop, Receive,
              RecvTimeout, Lose, endVars
<1>8. ASSUME NEW p \in Peers,
             \/ TakeUpdate(p) \/ TakePacket(p) \/ TakeClose(p)
             \/ MakeUpdatePacket(p) \/ ResendTimer(p)
      PROVE  UNCHANGED transit_window
  BY <1>8 DEF TakeUpdate, TakePacket, TakeClose, MakeUpdatePacket, ResendTimer,
              endVars
<1>9. QED
  <2>1. CASE UNCHANGED vars
    BY <1>6, <2>1 DEF vars, endVars
  <2>2. ASSUME NEW p \in Peers, SendLoop(p) \/ Timers(p)
        PROVE  TransitWindowBounded'
    BY <1>3, <1>4, <1>5, <1>6, <1>8, <2>2 DEF SendLoop, Timers
  <2>3. QED
    BY <1>6, <1>7, <2>1, <2>2 DEF Next

\* No step leaves the types, given windows that hold a packet.
LEMMA TypeStep ==
  ASSUME TypeOK, TransitWindowBounded, [Next]_vars
  PROVE  TypeOK'
<1>1. ASSUME NEW p \in Peers, Application(p) \/ Post(p)
      PROVE  TypeOK'
  BY <1>1, WriteType, ReadType, ShutdownType, PostType DEF Application
<1>2. ASSUME NEW p \in Peers, SendLoop(p)
      PROVE  TypeOK'
  BY <1>2, TakeUpdateType, TakePacketType, TakeCloseType, MakeUpdatePacketType,
     SendPacketType, KeepAliveType DEF SendLoop
<1>3. ASSUME NEW p \in Peers, RecvLoop(p) \/ Lose(p)
      PROVE  TypeOK'
  BY <1>3, ReceiveType, RecvTimeoutType, LoseType DEF RecvLoop
<1>4. ASSUME NEW p \in Peers, Timers(p)
      PROVE  TypeOK'
  BY <1>4, ResendTimerType, ScheduleResendType DEF Timers
<1>5. CASE UNCHANGED vars
  BY <1>5 DEF TypeOK, vars, endVars, loopVars, envVars
<1>6. QED
  BY <1>1, <1>2, <1>3, <1>4, <1>5 DEF Next

\* The types, strengthened by the windows they depend on.
IInv == TypeOK /\ TransitWindowBounded

\* The inductive invariant holds in every reachable state.
THEOREM TypesAndWindows == Spec => []IInv
<1>1. Init => IInv
  <2> SUFFICES ASSUME Init PROVE TransitWindowBounded
    BY InitType DEF IInv
  <2>1. /\ MaxPacketSize \in Nat /\ MaxTransitWindow \in Nat
        /\ InitTransitWindow \in MaxPacketSize .. MaxTransitWindow
    BY SizeAssumption DEF MaxTransitWindow, Max2
  <2>2. QED
    BY <2>1 DEF Init, TransitWindowBounded
<1>2. IInv /\ [Next]_vars => IInv'
  BY TypeStep, TransitWindowStep DEF IInv
<1>3. QED
  BY <1>1, <1>2, PTL DEF Spec

\* Every variable of the connection keeps the type the code gives it: wrapped
\* sequence numbers, windows that never go below zero, well-formed packets in
\* every place a packet is kept.
THEOREM TypeCorrect == Spec => []TypeOK
<1>1. IInv => TypeOK
  BY DEF IInv
<1>2. QED
  BY <1>1, TypesAndWindows, PTL

\* The congestion window never falls below a packet, so the division by the number
\* of packets that fit into it is defined, and never grows past its ceiling.
THEOREM TransitWindowStaysBounded == Spec => []TransitWindowBounded
<1>1. IInv => TransitWindowBounded
  BY DEF IInv
<1>2. QED
  BY <1>1, TypesAndWindows, PTL

=============================================================================
