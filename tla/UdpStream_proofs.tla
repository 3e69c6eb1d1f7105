--------------------------- MODULE UdpStream_proofs ---------------------------
(***************************************************************************)
(* That UdpConnection is a reliable stream, for any two peers, sizes and   *)
(* limits: what one application reads is what the other one wrote, in      *)
(* order, and no byte is forgotten on the way.                             *)
(*                                                                         *)
(* A ledger B of a direction counts the bytes numbered up to each sequence *)
(* number.  Every packet carries the bytes the ledger gives to its number, *)
(* wherever the tasks and the network have put it, and the receiver has    *)
(* what the ledger counts up to the number it acknowledges.  Packets are   *)
(* told apart by their numbers alone, so this needs that no number is used *)
(* twice; a budget bounds the numbers by the bytes written: each byte has  *)
(* one, each packet one more, and a close packet is asked for only once,   *)
(* or by a packet resent too often.                                        *)
(*                                                                         *)
(* The network may keep a datagram for ever.  With as many bytes as there  *)
(* are numbers an old one would be new again, so the theorems assume fewer *)
(* (NumbersSuffice); comparing numbers takes half of them (NumbersInHalf). *)
(***************************************************************************)
EXTENDS UdpConnection_proofs, FunctionTheorems, WellFoundedInduction


-----------------------------------------------------------------------------
(* Numbers as distances from the first one.                                *)

\* How many numbers peer q had handed out when it handed out s.
Off(q, s) == IF s >= InitSeq[q] THEN s - InitSeq[q]
                                ELSE s - InitSeq[q] + SeqModulus

\* A distance is a number below the modulus.
LEMMA OffType ==
  ASSUME NEW q \in Peers, NEW s \in SeqNum
  PROVE  Off(q, s) \in 0 .. (SeqModulus - 1)
<1>1. InitSeq[q] \in SeqNum
  BY PeersAssumption
<1>2. QED
  BY <1>1, SeqModulusAssumption DEF SeqNum, Off

\* Adding less than the modulus wraps at most once.
LEMMA SeqAddOnce ==
  ASSUME NEW s \in SeqNum, NEW n \in Nat, n < SeqModulus
  PROVE  SeqAdd(s, n) = IF s + n < SeqModulus THEN s + n ELSE s + n - SeqModulus
  BY SeqModulusAssumption, WrapsOnce DEF SeqNum, SeqAdd

\* Adding to a number adds to its distance, as long as that does not wrap.
LEMMA OffAdd ==
  ASSUME NEW q \in Peers, NEW s \in SeqNum, NEW n \in Nat,
         Off(q, s) + n < SeqModulus
  PROVE  Off(q, SeqAdd(s, n)) = Off(q, s) + n
<1>1. InitSeq[q] \in SeqNum
  BY PeersAssumption
<1>2. Off(q, s) \in 0 .. (SeqModulus - 1)
  BY OffType
<1>3. n < SeqModulus
  BY <1>2, SeqModulusAssumption
<1>4. SeqAdd(s, n) = IF s + n < SeqModulus THEN s + n ELSE s + n - SeqModulus
  BY <1>3, SeqAddOnce
<1>5. QED
  BY <1>1, <1>2, <1>4, SeqModulusAssumption DEF SeqNum, Off

\* A number is known by its distance.
LEMMA OffInjective ==
  ASSUME NEW q \in Peers, NEW s \in SeqNum, NEW t \in SeqNum,
         Off(q, s) = Off(q, t)
  PROVE  s = t
<1>1. InitSeq[q] \in SeqNum
  BY PeersAssumption
<1>2. QED
  BY <1>1, SeqModulusAssumption DEF SeqNum, Off

\* Below half the range, the wrapping comparisons of utils.rs order numbers
\* as their distances are ordered.
LEMMA OffOrder ==
  ASSUME NEW q \in Peers, NEW s \in SeqNum, NEW t \in SeqNum,
         Off(q, s) < HalfRange, Off(q, t) < HalfRange
  PROVE  /\ SeqGt(s, t) <=> Off(q, s) > Off(q, t)
         /\ SeqLt(s, t) <=> Off(q, s) < Off(q, t)
         /\ SeqLeq(s, t) <=> Off(q, s) <= Off(q, t)
<1>1. InitSeq[q] \in SeqNum
  BY PeersAssumption
<1>2. QED
  BY <1>1, HalfRangeBounds, SeqModulusAssumption
  DEF SeqNum, Off, SeqGt, SeqLt, SeqLeq

-----------------------------------------------------------------------------
(* Elements of a sequence, and how many of them are of some set.           *)

\* The elements of a sequence.
Elems(s) == {s[i] : i \in DOMAIN s}

\* The elements of a sequence, by index.
LEMMA ElemsIs ==
  ASSUME NEW S, NEW s \in Seq(S)
  PROVE  /\ Elems(s) = {s[i] : i \in 1 .. Len(s)}
         /\ Len(s) \in Nat /\ Elems(s) \subseteq S
  BY DEF Elems

\* Appending adds one element.
LEMMA ElemsAppend ==
  ASSUME NEW S, NEW s \in Seq(S), NEW e \in S
  PROVE  Elems(Append(s, e)) = Elems(s) \cup {e}
<1> DEFINE t == Append(s, e)
<1>1. /\ t \in Seq(S) /\ Len(t) = Len(s) + 1 /\ Len(s) \in Nat /\ t[Len(s) + 1] = e
      /\ \A i \in 1 .. Len(s) : t[i] = s[i]
  OBVIOUS
<1> HIDE DEF t
<1>2. Elems(t) \subseteq Elems(s) \cup {e}
  <2> SUFFICES ASSUME NEW i \in 1 .. Len(t) PROVE t[i] \in Elems(s) \cup {e}
    BY <1>1, ElemsIs
  <2>1. i = Len(s) + 1 \/ i \in 1 .. Len(s)
    BY <1>1
  <2>2. QED
    BY <1>1, <2>1, ElemsIs
<1>3. Elems(s) \cup {e} \subseteq Elems(t)
  <2>1. Len(s) + 1 \in 1 .. Len(t) /\ \A i \in 1 .. Len(s) : i \in 1 .. Len(t)
    BY <1>1
  <2>2. QED
    BY <1>1, <2>1, ElemsIs
<1>4. QED
  BY <1>2, <1>3 DEF t

\* A sequence without its k-th element.
Without(s, k) == SubSeq(s, 1, k - 1) \o SubSeq(s, k + 1, Len(s))

\* What is left when one entry is taken out, by index.
LEMMA WithoutIs ==
  ASSUME NEW S, NEW s \in Seq(S), NEW k \in 1 .. Len(s)
  PROVE  /\ Without(s, k) \in Seq(S) /\ Len(Without(s, k)) = Len(s) - 1
         /\ \A i \in 1 .. Len(s) - 1 :
              Without(s, k)[i] = IF i < k THEN s[i] ELSE s[i + 1]
<1> DEFINE x == SubSeq(s, 1, k - 1)
           y == SubSeq(s, k + 1, Len(s))
<1>1. Len(s) \in Nat /\ k \in Nat /\ k >= 1 /\ k <= Len(s)
  OBVIOUS
<1>2. /\ x \in Seq(S) /\ Len(x) = k - 1
      /\ \A i \in 1 .. k - 1 : x[i] = s[i]
  BY <1>1
<1>3. /\ y \in Seq(S) /\ Len(y) = Len(s) - k
      /\ \A i \in 1 .. Len(s) - k : y[i] = s[k + i]
  BY <1>1
<1> HIDE DEF x, y
<1>4. /\ x \o y \in Seq(S) /\ Len(x \o y) = Len(s) - 1
      /\ \A i \in 1 .. Len(s) - 1 :
           (x \o y)[i] = IF i <= k - 1 THEN x[i] ELSE y[i - (k - 1)]
  BY <1>1, <1>2, <1>3
<1>5. ASSUME NEW i \in 1 .. Len(s) - 1
      PROVE  (x \o y)[i] = IF i < k THEN s[i] ELSE s[i + 1]
  <2>1. CASE i < k
    BY <1>1, <1>2, <1>4, <2>1
  <2>2. CASE ~(i < k)
    <3>1. i - (k - 1) \in 1 .. Len(s) - k
      BY <1>1, <2>2
    <3>2. y[i - (k - 1)] = s[k + (i - (k - 1))] /\ k + (i - (k - 1)) = i + 1
      BY <1>1, <1>3, <3>1
    <3>3. QED
      BY <1>1, <1>4, <2>2, <3>2
  <2>3. QED
    BY <2>1, <2>2
<1>6. QED
  BY <1>4, <1>5 DEF Without, x, y

\* Taking the head off takes out the first entry.
LEMMA TailIsWithout ==
  ASSUME NEW S, NEW s \in Seq(S), s # <<>>
  PROVE  /\ 1 \in 1 .. Len(s) /\ Head(s) = s[1] /\ Head(s) \in S
         /\ Tail(s) = Without(s, 1)
<1>1. Len(s) \in Nat /\ Len(s) >= 1 /\ Head(s) = s[1]
  OBVIOUS
<1>2. Tail(s) \in Seq(S) /\ Len(Tail(s)) = Len(s) - 1
      /\ \A i \in 1 .. Len(s) - 1 : Tail(s)[i] = s[i + 1]
  BY <1>1
<1>3. /\ Without(s, 1) \in Seq(S) /\ Len(Without(s, 1)) = Len(s) - 1
      /\ \A i \in 1 .. Len(s) - 1 : Without(s, 1)[i] = s[i + 1]
  BY <1>1, WithoutIs
<1>4. QED
  BY <1>1, <1>2, <1>3

\* Taking an entry out takes away at most that element.
LEMMA ElemsWithout ==
  ASSUME NEW S, NEW s \in Seq(S), NEW k \in 1 .. Len(s)
  PROVE  /\ s[k] \in Elems(s)
         /\ Elems(Without(s, k)) \subseteq Elems(s)
         /\ Elems(s) \subseteq Elems(Without(s, k)) \cup {s[k]}
<1> DEFINE t == Without(s, k)
<1>1. /\ t \in Seq(S) /\ Len(t) = Len(s) - 1 /\ Len(s) \in Nat
      /\ \A i \in 1 .. Len(s) - 1 : t[i] = IF i < k THEN s[i] ELSE s[i + 1]
  BY WithoutIs
<1> HIDE DEF t
<1>2. \A i \in 1 .. Len(t) : t[i] \in Elems(s)
  <2> TAKE i \in 1 .. Len(t)
  <2>1. i \in 1 .. Len(s) /\ i + 1 \in 1 .. Len(s)
    BY <1>1
  <2>2. t[i] = s[i] \/ t[i] = s[i + 1]
    BY <1>1
  <2>3. QED
    BY <2>1, <2>2, ElemsIs
<1>3. \A i \in 1 .. Len(s) : s[i] \in Elems(t) \cup {s[k]}
  <2> TAKE i \in 1 .. Len(s)
  <2>1. CASE i < k
    <3>1. i \in 1 .. Len(t) /\ t[i] = s[i]
      BY <1>1, <2>1
    <3>2. QED
      BY <1>1, <3>1, ElemsIs
  <2>2. CASE i > k
    <3>1. i - 1 \in 1 .. Len(t) /\ t[i - 1] = s[i]
      BY <1>1, <2>2
    <3>2. QED
      BY <1>1, <3>1, ElemsIs
  <2>3. QED
    BY <1>1, <2>1, <2>2
<1>4. Elems(t) = {t[i] : i \in 1 .. Len(t)} /\ Elems(s) = {s[i] : i \in 1 .. Len(s)}
  BY <1>1, ElemsIs
<1>5. QED
  BY <1>2, <1>3, <1>4 DEF t

\* How many elements of s are in T.
Count(s, T) == Cardinality({i \in DOMAIN s : s[i] \in T})

\* The count of entries in T is the size of a finite set of indices.
LEMMA CountIs ==
  ASSUME NEW S, NEW s \in Seq(S), NEW T
  PROVE  /\ Count(s, T) \in Nat
         /\ IsFiniteSet({i \in 1 .. Len(s) : s[i] \in T})
         /\ Count(s, T) = Cardinality({i \in 1 .. Len(s) : s[i] \in T})
<1>1. Len(s) \in Nat /\ DOMAIN s = 1 .. Len(s)
  OBVIOUS
<1>2. IsFiniteSet(1 .. Len(s))
  BY <1>1, FS_Interval
<1>3. IsFiniteSet({i \in 1 .. Len(s) : s[i] \in T})
  BY <1>2, FS_Subset
<1>4. QED
  BY <1>1, <1>3, FS_CardinalityType DEF Count

\* Appending counts at most one more.
LEMMA CountAppend ==
  ASSUME NEW S, NEW s \in Seq(S), NEW e \in S, NEW T
  PROVE  /\ Count(Append(s, e), T) <= Count(s, T) + 1
         /\ e \notin T => Count(Append(s, e), T) = Count(s, T)
<1> DEFINE t == Append(s, e)
           I == {i \in 1 .. Len(s) : s[i] \in T}
           J == {i \in 1 .. Len(t) : t[i] \in T}
<1>1. /\ t \in Seq(S) /\ Len(t) = Len(s) + 1 /\ Len(s) \in Nat /\ t[Len(s) + 1] = e
      /\ \A i \in 1 .. Len(s) : t[i] = s[i]
  OBVIOUS
<1> HIDE DEF t
<1> DEFINE l == Len(s) + 1
<1>2. J \subseteq I \cup {l} /\ (e \notin T => J = I)
  BY <1>1
<1>3. /\ IsFiniteSet(I) /\ Count(s, T) = Cardinality(I) /\ Count(s, T) \in Nat
      /\ Count(t, T) = Cardinality(J) /\ Count(t, T) \in Nat
  BY <1>1, CountIs
<1> HIDE DEF I, J, l
<1>4. /\ IsFiniteSet(I \cup {l})
      /\ Cardinality(I \cup {l}) = IF l \in I THEN Cardinality(I) ELSE Cardinality(I) + 1
  BY <1>3, FS_AddElement
<1>5. Cardinality(J) <= Cardinality(I \cup {l})
  BY <1>2, <1>4, FS_Subset
<1>6. QED
  BY <1>2, <1>3, <1>4, <1>5 DEF t

\* Taking out an entry that counts counts one less.
LEMMA CountWithout ==
  ASSUME NEW S, NEW s \in Seq(S), NEW k \in 1 .. Len(s), NEW T
  PROVE  /\ Count(Without(s, k), T) <= Count(s, T)
         /\ s[k] \in T => Count(Without(s, k), T) <= Count(s, T) - 1
<1> DEFINE t == Without(s, k)
           I == {i \in 1 .. Len(s) : s[i] \in T}
           J == {i \in 1 .. Len(t) : t[i] \in T}
           f == [i \in J |-> IF i < k THEN i ELSE i + 1]
<1>1. /\ t \in Seq(S) /\ Len(t) = Len(s) - 1 /\ Len(s) \in Nat
      /\ \A i \in 1 .. Len(s) - 1 : t[i] = IF i < k THEN s[i] ELSE s[i + 1]
  <2>1. /\ Without(s, k) \in Seq(S) /\ Len(Without(s, k)) = Len(s) - 1
        /\ \A i \in 1 .. Len(s) - 1 :
             Without(s, k)[i] = IF i < k THEN s[i] ELSE s[i + 1]
    BY WithoutIs, Zenon
  <2>2. Len(s) \in Nat
    OBVIOUS
  <2>3. QED
    BY <2>1, <2>2, Zenon
<1> HIDE DEF t
<1>2. /\ IsFiniteSet(I) /\ Count(s, T) = Cardinality(I) /\ Count(s, T) \in Nat
      /\ Count(t, T) = Cardinality(J) /\ Count(t, T) \in Nat
  BY <1>1, CountIs
<1>3. f \in Injection(J, I \ {k})
  <2>1. ASSUME NEW i \in J PROVE f[i] \in I \ {k}
    BY <1>1
  <2>2. ASSUME NEW i \in J, NEW j \in J, i # j PROVE f[i] # f[j]
    BY <1>1, <2>2
  <2>3. QED
    BY <2>1, <2>2 DEF Injection, IsInjective
<1> HIDE DEF I, J, f
<1>4. IsFiniteSet(I \ {k}) /\ Cardinality(I \ {k}) \in Nat
  BY <1>2, FS_Subset, FS_CardinalityType
<1>5. Cardinality(J) <= Cardinality(I \ {k})
  BY <1>3, <1>4, FS_Injection DEF ExistsInjection
<1>6. Cardinality(I \ {k}) = IF k \in I THEN Cardinality(I) - 1 ELSE Cardinality(I)
  BY <1>2, FS_RemoveElement
<1>7. s[k] \in T => k \in I
  BY DEF I
<1>8. QED
  BY <1>2, <1>4, <1>5, <1>6, <1>7 DEF t

\* The concatenation of two sequences, by index.
LEMMA ConcatIs ==
  ASSUME NEW S, NEW s \in Seq(S), NEW t \in Seq(S)
  PROVE  /\ Len(s \o t) = Len(s) + Len(t)
         /\ \A i \in 1 .. Len(s) + Len(t) :
              (s \o t)[i] = IF i <= Len(s) THEN s[i] ELSE t[i - Len(s)]
  OBVIOUS

-----------------------------------------------------------------------------
(* A step of one peer leaves the variables of the other one alone.         *)

\* What one peer's tasks, or the network on the way to it, do in a step.
Step(p) == \/ Application(p) \/ Post(p) \/ SendLoop(p) \/ RecvLoop(p)
           \/ Timers(p) \/ Lose(p)

\* The variables of peer q do not change.
Untouched(q) ==
  /\ state'[q] = state[q] /\ running'[q] = running[q]
  /\ sequence_number'[q] = sequence_number[q]
  /\ ack_number'[q] = ack_number[q]
  /\ peer_ack_number'[q] = peer_ack_number[q]
  /\ recv_packets'[q] = recv_packets[q]
  /\ reassembled_buffer'[q] = reassembled_buffer[q]
  /\ sent_packets'[q] = sent_packets[q] /\ resending'[q] = resending[q]
  /\ posting'[q] = posting[q] /\ events'[q] = events[q]
  /\ waiting'[q] = waiting[q]
  /\ written'[q] = written[q] /\ delivered'[q] = delivered[q]

\* A step of one peer leaves the other peer's variables as they are.
LEMMA OthersUntouched ==
  ASSUME TypeOK, NEW p \in Peers, Step(p), NEW q \in Peers, q # p
  PROVE  Untouched(q)
<1>1. CASE Write(p)
  BY <1>1 DEF TypeOK, Write, Untouched
<1>2. CASE Read(p)
  BY <1>2 DEF TypeOK, Read, Untouched
<1>3. CASE Shutdown(p)
  BY <1>3 DEF TypeOK, Shutdown, Untouched, envVars
<1>4. CASE Post(p)
  BY <1>4 DEF TypeOK, Post, Untouched, endVars, envVars
<1>5. CASE TakeUpdate(p)
  BY <1>5 DEF TypeOK, TakeUpdate, Untouched, endVars, envVars
<1>6. CASE TakePacket(p)
  BY <1>6 DEF TypeOK, TakePacket, Untouched, endVars, envVars
<1>7. CASE TakeClose(p)
  BY <1>7 DEF TypeOK, TakeClose, Untouched, envVars
<1>8. CASE MakeUpdatePacket(p)
  BY <1>8 DEF TypeOK, MakeUpdatePacket, Untouched, endVars, envVars
<1>9. CASE SendPacket(p)
  <2>1. PICK pkt : HandleSendPacket(p, pkt)
    BY <1>9 DEF SendPacket
  <2>2. \E s : waiting' = [waiting EXCEPT ![p] = s]
    BY <1>9 DEF SendPacket
  <2>3. /\ state' = state \/ state' = [state EXCEPT ![p] = "Disconnected"]
        /\ \/ sent_packets' = sent_packets
           \/ \E S : sent_packets' = [sent_packets EXCEPT ![p] = S]
    BY <2>1, Zenon DEF HandleSendPacket
  <2>4. QED
    BY <1>9, <2>2, <2>3 DEF TypeOK, SendPacket, Untouched
<1>10. CASE KeepAlive(p)
  BY <1>10, SMTT(30) DEF TypeOK, KeepAlive, HandleSendPacket, Untouched
<1>11. CASE ResendTimer(p)
  BY <1>11 DEF TypeOK, ResendTimer, Untouched
<1>12. CASE ScheduleResend(p)
  BY <1>12 DEF TypeOK, ScheduleResend, Untouched, envVars
<1>13. CASE Receive(p)
  <2>1. PICK pkt : ReceiveData(p, pkt) \/ ReceiveOther(p, pkt)
    BY <1>13 DEF Receive
  <2>2. CASE ReceiveData(p, pkt) /\ Accepts(p, pkt)
    <3>1. /\ BufferAndReassemble(p, pkt) /\ state' = state
          /\ UpdatePeerAckNumber(p, pkt.ack)
      BY <2>2 DEF ReceiveData
    <3>2. /\ \/ UNCHANGED <<peer_ack_number, sent_packets>>
             \/ \E n, S : /\ peer_ack_number' = [peer_ack_number EXCEPT ![p] = n]
                          /\ sent_packets' = [sent_packets EXCEPT ![p] = S]
          /\ \/ UNCHANGED <<ack_number, recv_packets, reassembled_buffer, events>>
             \/ \E n, s, t, u :
                   /\ ack_number' = [ack_number EXCEPT ![p] = n]
                   /\ recv_packets' = [recv_packets EXCEPT ![p] = s]
                   /\ reassembled_buffer' = [reassembled_buffer EXCEPT ![p] = t]
                   /\ events' = events \/ events' = [events EXCEPT ![p] = u]
      <4>1. \/ UNCHANGED <<peer_ack_number, sent_packets>>
            \/ \E n, S : /\ peer_ack_number' = [peer_ack_number EXCEPT ![p] = n]
                         /\ sent_packets' = [sent_packets EXCEPT ![p] = S]
        BY <3>1, Zenon DEF UpdatePeerAckNumber
      <4>2. \/ UNCHANGED <<ack_number, recv_packets, reassembled_buffer, events>>
            \/ \E n, s, t, u :
                  /\ ack_number' = [ack_number EXCEPT ![p] = n]
                  /\ recv_packets' = [recv_packets EXCEPT ![p] = s]
                  /\ reassembled_buffer' = [reassembled_buffer EXCEPT ![p] = t]
                  /\ events' = events \/ events' = [events EXCEPT ![p] = u]
        <5>1. CASE pkt.payload = <<>>
          BY <3>1, <5>1 DEF BufferAndReassemble
        <5>2. CASE pkt.payload # <<>>
          <6> DEFINE packets == InsertInOrder(recv_packets[p], pkt)
                     k       == Reassembled(packets, ack_number[p])
                     n       == IF k = 0 THEN ack_number[p] ELSE End(packets[k])
                     s       == SubSeq(packets, k + 1, Len(packets))
                     t       == reassembled_buffer[p] \o [i \in 1 .. k |-> packets[i].payload]
                     u       == Append(events[p], [kind |-> "AckUpdate"])
          <6>1. /\ ack_number' = [ack_number EXCEPT ![p] = n]
                /\ recv_packets' = [recv_packets EXCEPT ![p] = s]
                /\ reassembled_buffer' = [reassembled_buffer EXCEPT ![p] = t]
                /\ events' = IF k = 0 THEN events ELSE [events EXCEPT ![p] = u]
            BY <3>1, <5>2 DEF BufferAndReassemble
          <6> HIDE DEF packets, k, n, s, t, u
          <6>2. QED
            BY <6>1
        <5>3. QED
          BY <5>1, <5>2
      <4>3. QED
        BY <4>1, <4>2
    <3>3. QED
      BY <1>13, <3>1, <3>2 DEF TypeOK, Receive, Untouched
  <2>3. CASE ReceiveData(p, pkt) /\ ~Accepts(p, pkt)
    BY <1>13, <2>3 DEF TypeOK, Receive, ReceiveData, Untouched
  <2>4. CASE ReceiveOther(p, pkt)
    BY <1>13, <2>4 DEF TypeOK, Receive, ReceiveOther, Untouched
  <2>5. QED
    BY <2>1, <2>2, <2>3, <2>4
<1>14. CASE RecvTimeout(p)
  BY <1>14 DEF TypeOK, RecvTimeout, Untouched, loopVars, envVars
<1>15. CASE Lose(p)
  BY <1>15 DEF TypeOK, Lose, Untouched, endVars, loopVars
<1>16. QED
  BY <1>1, <1>2, <1>3, <1>4, <1>5, <1>6, <1>7, <1>8, <1>9, <1>10, <1>11, <1>12,
     <1>13, <1>14, <1>15
  DEF Step, Application, SendLoop, RecvLoop, Timers

-----------------------------------------------------------------------------
(* How many numbers a peer can have handed out.                            *)

\* The numbers peer q has handed out.
Used(q) == Off(q, sequence_number[q])

\* Events that a packet comes of, and packets that carry bytes.
Sending  == {e \in Event : ~IsUpdate(e)}
Payloads == {x \in Packet : x.payload # <<>>}

\* Only finitely many packets and events are held.
FiniteSets(q) == /\ IsFiniteSet(sent_packets[q]) /\ IsFiniteSet(resending[q])
                 /\ IsFiniteSet(posting[q])

\* The packets and events that hold a number, or may come to use one.
Tokens(q) == Cardinality(sent_packets[q]) + Cardinality(resending[q])
               + Cardinality(posting[q]) + Count(events[q], Sending)
               + Count(waiting[q], Payloads)

\* The application may still ask for one close packet.
MayClose(q) == IF running[q] THEN 1 ELSE 0

\* Of the numbers used one is the sync packet's, one goes to each byte, one to
\* each of k packets that carry bytes and one to each of c close packets.
Budget(q) ==
  /\ FiniteSets(q)
  /\ \E k, c \in Nat :
       /\ Used(q) = 1 + written[q] + k + c /\ k <= written[q]
       /\ Tokens(q) + c + MayClose(q) <= 1 + k

\* No application writes more than it may.
WithinQuota == /\ bound \in Bounds
               /\ \A q \in Peers : written[q] <= bound.quota[q]

\* No session can use all the numbers, so none is used twice.
NumbersSuffice ==
  \A b \in Bounds : \A q \in Peers : 3 * b.quota[q] + 2 < SeqModulus

\* Within the budget, at most three numbers are used for each byte, and two.
LEMMA UsedBound ==
  ASSUME TypeOK, WithinQuota, NumbersSuffice, NEW q \in Peers, Budget(q)
  PROVE  /\ Used(q) <= 3 * written[q] + 2
         /\ 3 * written[q] + 2 < SeqModulus
<1>1. written[q] \in Nat
  BY DEF TypeOK
<1>2. /\ bound.quota[q] \in Nat /\ written[q] <= bound.quota[q]
      /\ 3 * bound.quota[q] + 2 < SeqModulus
  BY PeersAssumption DEF WithinQuota, NumbersSuffice
<1>3. PICK k, c \in Nat : /\ Used(q) = 1 + written[q] + k + c /\ k <= written[q]
                          /\ Tokens(q) + c + MayClose(q) <= 1 + k
  BY DEF Budget
<1>4. Tokens(q) \in Nat /\ MayClose(q) \in Nat
  <2>1. Cardinality(sent_packets[q]) \in Nat /\ Cardinality(resending[q]) \in Nat
        /\ Cardinality(posting[q]) \in Nat
    BY FS_CardinalityType DEF Budget, FiniteSets
  <2>2. Count(events[q], Sending) \in Nat /\ Count(waiting[q], Payloads) \in Nat
    BY CountIs DEF TypeOK
  <2>3. QED
    BY <2>1, <2>2 DEF Tokens, MayClose
<1>5. QED
  BY <1>1, <1>2, <1>3, <1>4, SeqModulusAssumption

\* The parts of a budget are natural numbers.
LEMMA TokenTypes ==
  ASSUME TypeOK, NEW q \in Peers, FiniteSets(q)
  PROVE  /\ Cardinality(sent_packets[q]) \in Nat
         /\ Cardinality(resending[q]) \in Nat
         /\ Cardinality(posting[q]) \in Nat
         /\ Count(events[q], Sending) \in Nat /\ Count(waiting[q], Payloads) \in Nat
         /\ Tokens(q) \in Nat /\ MayClose(q) \in {0, 1}
<1>1. Cardinality(sent_packets[q]) \in Nat /\ Cardinality(resending[q]) \in Nat
      /\ Cardinality(posting[q]) \in Nat
  BY FS_CardinalityType DEF FiniteSets
<1>2. Count(events[q], Sending) \in Nat /\ Count(waiting[q], Payloads) \in Nat
  BY CountIs DEF TypeOK
<1>3. QED
  BY <1>1, <1>2 DEF Tokens, MayClose

\* A step that makes no packet moves tokens and may use some up.
LEMMA BudgetCarried ==
  ASSUME TypeOK, TypeOK', NEW q \in Peers, Budget(q), FiniteSets(q)',
         sequence_number'[q] = sequence_number[q], written'[q] = written[q],
         Tokens(q)' + MayClose(q)' <= Tokens(q) + MayClose(q)
  PROVE  Budget(q)'
<1>1. Used(q)' = Used(q)
  BY DEF Used
<1>2. PICK k, c \in Nat : /\ Used(q) = 1 + written[q] + k + c /\ k <= written[q]
                          /\ Tokens(q) + c + MayClose(q) <= 1 + k
  BY DEF Budget
<1>3. /\ Tokens(q) \in Nat /\ MayClose(q) \in Nat
      /\ Tokens(q)' \in Nat /\ MayClose(q)' \in Nat
  <2>1. /\ Cardinality(sent_packets'[q]) \in Nat
        /\ Cardinality(resending'[q]) \in Nat
        /\ Cardinality(posting'[q]) \in Nat
    BY FS_CardinalityType DEF FiniteSets
  <2>2. events'[q] \in Seq(Event) /\ waiting'[q] \in Seq(Packet)
    BY DEF TypeOK
  <2>3. Count(events'[q], Sending) \in Nat /\ Count(waiting'[q], Payloads) \in Nat
    BY <2>2, CountIs
  <2>4. Tokens(q)' \in Nat /\ MayClose(q)' \in Nat
    BY <2>1, <2>3 DEF Tokens, MayClose
  <2>5. QED
    BY <2>4, TokenTypes DEF Budget
<1>4. Tokens(q)' + c + MayClose(q)' <= 1 + k
  BY <1>2, <1>3
<1>5. QED
  BY <1>1, <1>2, <1>4 DEF Budget

\* A budget depends on the peer's own variables only.
LEMMA BudgetUntouched ==
  ASSUME TypeOK, NEW q \in Peers, Budget(q), Untouched(q)
  PROVE  Budget(q)'
<1>1. /\ FiniteSets(q)' = FiniteSets(q) /\ Used(q)' = Used(q)
      /\ Tokens(q)' = Tokens(q) /\ MayClose(q)' = MayClose(q)
      /\ written'[q] = written[q]
  BY DEF Untouched, FiniteSets, Used, Tokens, MayClose
<1>2. QED
  BY <1>1 DEF Budget

\* A write uses up as many numbers as its packet has bytes and one more.
LEMMA WriteNumbers ==
  ASSUME TypeOK, WithinQuota, NumbersSuffice, NEW p \in Peers, Budget(p), Write(p)
  PROVE  \E n \in 1 .. MaxPayload :
           LET pkt == DataPacket(p, [i \in 1 .. n |-> written[p] + i])
           IN  /\ sequence_number'[p] = End(pkt)
               /\ posting'[p] = posting[p] \cup {[kind |-> "Send", packet |-> pkt]}
               /\ written'[p] = written[p] + n /\ n \in Nat /\ n >= 1
               /\ Len(pkt.payload) = n /\ pkt.payload = [i \in 1 .. n |-> written[p] + i]
               /\ pkt.ack = ack_number[p]
               /\ pkt \in Packet
               /\ Off(p, pkt.seq) = Used(p) + 1
               /\ Used(p)' = Used(p) + 1 + n
               /\ WithinQuota'
<1>1. PICK n \in 1 .. MaxPayload :
        LET pkt == DataPacket(p, [i \in 1 .. n |-> written[p] + i])
        IN  /\ written[p] + n <= bound.quota[p]
            /\ sequence_number' = [sequence_number EXCEPT ![p] = End(pkt)]
            /\ posting' = [posting EXCEPT ![p] =
                             @ \cup {[kind |-> "Send", packet |-> pkt]}]
            /\ written' = [written EXCEPT ![p] = @ + n]
  BY DEF Write
<1> DEFINE payload == [i \in 1 .. n |-> written[p] + i]
           pkt == DataPacket(p, payload)
<1>2. n \in Nat /\ n >= 1 /\ written[p] \in Nat
  BY DEF TypeOK
<1>3. payload \in Seq(Byte) /\ Len(payload) = n /\ payload # <<>>
  <2>1. payload \in [1 .. n -> Byte]
    BY <1>2 DEF Byte
  <2>2. payload \in Seq(Byte) /\ Len(payload) = n
    BY <1>2, <2>1, FunctionIsSeq
  <2>3. QED
    BY <1>2, <2>2, EmptySeq
<1>4. pkt \in Packet
  BY <1>3, DataPacketType
<1> HIDE DEF payload
<1>5. pkt.payload = payload /\ pkt.seq = SeqAdd(sequence_number[p], 1)
      /\ pkt.ack = ack_number[p]
  BY <1>3 DEF DataPacket
<1> HIDE DEF pkt
<1>6. /\ sequence_number' = [sequence_number EXCEPT ![p] = End(pkt)]
      /\ posting' = [posting EXCEPT ![p] = @ \cup {[kind |-> "Send", packet |-> pkt]}]
      /\ written' = [written EXCEPT ![p] = @ + n]
      /\ written[p] + n <= bound.quota[p]
  BY <1>1 DEF pkt, payload
<1>7. sequence_number'[p] = End(pkt)
      /\ posting'[p] = posting[p] \cup {[kind |-> "Send", packet |-> pkt]}
      /\ written'[p] = written[p] + n
  BY <1>6 DEF TypeOK
<1>8. Used(p) \in Nat /\ Used(p) + 1 + n < SeqModulus
  <2>1. PICK k, c \in Nat : /\ Used(p) = 1 + written[p] + k + c /\ k <= written[p]
                            /\ Tokens(p) + c + MayClose(p) <= 1 + k
    BY DEF Budget
  <2>2. Tokens(p) \in Nat /\ MayClose(p) \in Nat
    BY TokenTypes DEF Budget, MayClose
  <2>3. bound.quota[p] \in Nat /\ 3 * bound.quota[p] + 2 < SeqModulus
    BY PeersAssumption DEF WithinQuota, NumbersSuffice
  <2>4. QED
    BY <1>2, <1>6, <2>1, <2>2, <2>3, SeqModulusAssumption
<1>9. Off(p, pkt.seq) = Used(p) + 1 /\ pkt.seq \in SeqNum
  <2>1. sequence_number[p] \in SeqNum
    BY DEF TypeOK
  <2>2. Off(p, sequence_number[p]) + 1 < SeqModulus
    BY <1>2, <1>8, SeqModulusAssumption DEF Used
  <2>3. QED
    BY <1>5, <2>1, <2>2, OffAdd, SeqAddType DEF Used
<1>10. Used(p)' = Used(p) + 1 + n
  <2>1. Off(p, pkt.seq) + n < SeqModulus
    BY <1>8, <1>9
  <2>2. Off(p, End(pkt)) = Off(p, pkt.seq) + n
    BY <1>2, <1>3, <1>5, <1>9, <2>1, OffAdd DEF End
  <2>3. Used(p)' = Off(p, End(pkt))
    BY <1>7 DEF Used
  <2>4. QED
    BY <1>9, <2>2, <2>3
<1>11. WithinQuota'
  <2>1. bound' = bound
    BY DEF Write
  <2>2. ASSUME NEW q \in Peers PROVE written'[q] <= bound.quota[q]
    BY <1>6, <2>2 DEF TypeOK, WithinQuota
  <2>3. QED
    BY <2>1, <2>2 DEF WithinQuota
<1>12. QED
  <2> WITNESS n \in 1 .. MaxPayload
  <2>1. QED
    BY <1>2, <1>3, <1>4, <1>5, <1>7, <1>9, <1>10, <1>11 DEF pkt, payload

-----------------------------------------------------------------------------
(* What each step does to the packets its peer keeps.                      *)

\* One posted event moves to the end of the channel.
LEMMA PostEffect ==
  ASSUME TypeOK, NEW p \in Peers, Post(p)
  PROVE  \E e \in posting[p] :
           /\ e \in Event /\ posting'[p] = posting[p] \ {e}
           /\ events'[p] = Append(events[p], e)
  BY DEF TypeOK, Post

\* What taking the head of the channel leaves.
LEMMA TakenEvent ==
  ASSUME TypeOK, NEW p \in Peers, events[p] # <<>>,
         events' = [events EXCEPT ![p] = Tail(@)]
  PROVE  /\ events[p] \in Seq(Event) /\ 1 \in 1 .. Len(events[p])
         /\ Head(events[p]) = events[p][1] /\ events[p][1] \in Event
         /\ events'[p] = Without(events[p], 1)
<1>1. events[p] \in Seq(Event) /\ events'[p] = Tail(events[p])
  BY DEF TypeOK
<1>2. QED
  BY <1>1, TailIsWithout

\* The packet of the first event joins the waiting ones.
LEMMA TakePacketEffect ==
  ASSUME TypeOK, NEW p \in Peers, TakePacket(p)
  PROVE  /\ events[p] \in Seq(Event) /\ 1 \in 1 .. Len(events[p])
         /\ events[p][1] \in Event /\ events[p][1].kind \in {"Send", "Resend"}
         /\ events[p][1].packet \in Packet
         /\ events'[p] = Without(events[p], 1)
         /\ waiting'[p] = Append(waiting[p], events[p][1].packet)
<1>1. events[p] # <<>> /\ events' = [events EXCEPT ![p] = Tail(@)]
      /\ Head(events[p]).kind \in {"Send", "Resend"}
      /\ waiting' = [waiting EXCEPT ![p] = Append(@, Head(events[p]).packet)]
  BY DEF TakePacket
<1>2. waiting'[p] = Append(waiting[p], Head(events[p]).packet)
  BY <1>1 DEF TypeOK
<1>3. QED
  BY <1>1, <1>2, TakenEvent, EventType

\* A waiting packet goes out, and is kept if it has a payload.
LEMMA SendPacketEffect ==
  ASSUME TypeOK, NEW p \in Peers, SendPacket(p)
  PROVE  \E i \in 1 .. Len(waiting[p]) :
           /\ waiting[p] \in Seq(Packet) /\ waiting[p][i] \in Packet
           /\ waiting'[p] = Without(waiting[p], i)
           /\ network' = [network EXCEPT ![Peer(p)] = @ \cup {Datagram(waiting[p][i])}]
           /\ \/ /\ waiting[p][i].type = "Data" /\ state' = state
                 /\ sent_packets'[p] =
                      IF waiting[p][i].payload = <<>> THEN sent_packets[p]
                      ELSE {x \in sent_packets[p] : x.seq # waiting[p][i].seq}
                             \cup {waiting[p][i]}
              \/ /\ waiting[p][i].type = "Close" /\ state'[p] = "Disconnected"
                 /\ sent_packets' = sent_packets
<1>1. PICK i \in DOMAIN waiting[p] :
        /\ waiting' = [waiting EXCEPT ![p] =
                         SubSeq(@, 1, i - 1) \o SubSeq(@, i + 1, Len(@))]
        /\ HandleSendPacket(p, waiting[p][i])
  BY DEF SendPacket
<1>2. waiting[p] \in Seq(Packet) /\ DOMAIN waiting = Peers
  BY DEF TypeOK
<1>3. waiting[p][i] \in Packet /\ i \in 1 .. Len(waiting[p])
  BY <1>1, <1>2
<1>4. waiting'[p] = Without(waiting[p], i)
  BY <1>1, <1>2 DEF Without
<1> DEFINE pkt == waiting[p][i]
<1> HIDE DEF pkt
<1>5. /\ network' = [network EXCEPT ![Peer(p)] = @ \cup {Datagram(pkt)}]
      /\ \/ /\ pkt.type = "Data" /\ state' = state
            /\ sent_packets'[p] =
                 IF pkt.payload = <<>> THEN sent_packets[p]
                 ELSE {x \in sent_packets[p] : x.seq # pkt.seq} \cup {pkt}
         \/ /\ pkt.type = "Close" /\ state'[p] = "Disconnected"
            /\ sent_packets' = sent_packets
  <2>1. HandleSendPacket(p, pkt)
    BY <1>1 DEF pkt
  <2> DEFINE kept == {x \in sent_packets[p] : x.seq # pkt.seq} \cup {pkt}
  <2>2. /\ network' = [network EXCEPT ![Peer(p)] = @ \cup {Datagram(pkt)}]
        /\ \/ /\ pkt.type = "Data" /\ state' = state
              /\ sent_packets' = IF pkt.payload = <<>> THEN sent_packets
                                 ELSE [sent_packets EXCEPT ![p] = kept]
           \/ /\ pkt.type = "Close" /\ state' = [state EXCEPT ![p] = "Disconnected"]
              /\ sent_packets' = sent_packets
    BY <2>1, Zenon DEF HandleSendPacket
  <2> HIDE DEF kept
  <2>3. DOMAIN sent_packets = Peers /\ DOMAIN state = Peers
    BY DEF TypeOK
  <2>4. ASSUME sent_packets' = IF pkt.payload = <<>> THEN sent_packets
                              ELSE [sent_packets EXCEPT ![p] = kept]
        PROVE  sent_packets'[p] = IF pkt.payload = <<>> THEN sent_packets[p] ELSE kept
    <3>1. CASE pkt.payload = <<>>
      BY <2>4, <3>1
    <3>2. CASE pkt.payload # <<>>
      BY <2>3, <2>4, <3>2
    <3>3. QED
      BY <3>1, <3>2
  <2>5. pkt.type = "Close" /\ state' = [state EXCEPT ![p] = "Disconnected"]
          => state'[p] = "Disconnected"
    BY <2>3
  <2>6. QED
    BY <2>2, <2>4, <2>5 DEF kept
<1>6. QED
  BY <1>2, <1>3, <1>4, <1>5 DEF pkt

\* A keep-alive only reaches the network.
LEMMA KeepAliveEffect ==
  ASSUME TypeOK, NEW p \in Peers, KeepAlive(p)
  PROVE  /\ network' = [network EXCEPT ![Peer(p)] = @ \cup {Datagram(DataPacket(p, <<>>))}]
         /\ UNCHANGED <<sent_packets, resending, posting, events, waiting>>
<1>1. HandleSendPacket(p, DataPacket(p, <<>>))
  BY DEF KeepAlive
<1>2. DataPacket(p, <<>>).payload = <<>> /\ DataPacket(p, <<>>).type = "Data"
  BY DEF DataPacket
<1>3. QED
  BY <1>1, <1>2 DEF HandleSendPacket, KeepAlive

\* A timer takes its packet out of the kept ones.
LEMMA ResendTimerEffect ==
  ASSUME TypeOK, NEW p \in Peers, ResendTimer(p)
  PROVE  \E pkt \in sent_packets[p] :
           /\ sent_packets'[p] = sent_packets[p] \ {pkt}
           /\ resending'[p] = resending[p] \cup {pkt}
<1>1. PICK pkt \in sent_packets[p] :
        /\ sent_packets' = [sent_packets EXCEPT ![p] = @ \ {pkt}]
        /\ resending' = [resending EXCEPT ![p] = @ \cup {pkt}]
  BY DEF ResendTimer
<1>2. QED
  BY <1>1 DEF TypeOK

\* The packet is queued again with the same bytes and number, or the
\* connection is asked to close.
LEMMA ScheduleResendEffect ==
  ASSUME TypeOK, NEW p \in Peers, ScheduleResend(p)
  PROVE  \E pkt \in resending[p], again \in Packet :
           /\ pkt \in Packet
           /\ resending'[p] = resending[p] \ {pkt}
           /\ again.seq = pkt.seq /\ again.payload = pkt.payload
           /\ again.ack = ack_number[p]
           /\ \/ /\ events'[p] = Append(events[p], [kind |-> "Close"])
                 /\ posting' = posting
              \/ /\ posting'[p] = posting[p] \cup {[kind |-> "Resend", packet |-> again]}
                 /\ events' = events
<1> DEFINE Again(pkt) == [pkt EXCEPT !.resend_count = pkt.resend_count + 1,
                                     !.ack = ack_number[p],
                                     !.window = CalculateRecvWindow(p)]
<1>1. PICK pkt \in resending[p] :
        /\ resending' = [resending EXCEPT ![p] = @ \ {pkt}]
        /\ \/ /\ events' = [events EXCEPT ![p] = Append(@, [kind |-> "Close"])]
              /\ posting' = posting
           \/ /\ posting' = [posting EXCEPT ![p] =
                       @ \cup {[kind |-> "Resend", packet |-> Again(pkt)]}]
              /\ events' = events
  BY DEF ScheduleResend
<1>2. /\ Again(pkt) \in Packet /\ pkt \in Packet
      /\ Again(pkt).seq = pkt.seq /\ Again(pkt).payload = pkt.payload
      /\ Again(pkt).ack = ack_number[p]
  <2>1. CalculateRecvWindow(p) \in Nat
    BY RecvWindowOfType DEF TypeOK, CalculateRecvWindow
  <2>2. ack_number[p] \in SeqNum /\ pkt \in Packet
    BY DEF TypeOK
  <2>3. pkt.resend_count + 1 \in Nat
    BY <2>2 DEF Packet
  <2>4. QED
    BY <2>1, <2>2, <2>3 DEF Packet
<1> DEFINE again == Again(pkt)
<1> HIDE DEF Again
<1> HIDE DEF again
<1>3. QED
  <2>1. resending'[p] = resending[p] \ {pkt}
    BY <1>1 DEF TypeOK
  <2>2. \/ /\ events'[p] = Append(events[p], [kind |-> "Close"])
           /\ posting' = posting
        \/ /\ posting'[p] = posting[p] \cup {[kind |-> "Resend", packet |-> again]}
           /\ events' = events
    BY <1>1 DEF TypeOK, again
  <2>3. /\ again \in Packet /\ again.seq = pkt.seq /\ again.payload = pkt.payload
        /\ again.ack = ack_number[p]
    BY <1>2 DEF again
  <2>4. QED
    BY <1>2, <2>1, <2>2, <2>3

\* Shutting down asks the send loop to close.
LEMMA ShutdownEffect ==
  ASSUME TypeOK, NEW p \in Peers, Shutdown(p)
  PROVE  /\ running[p] = TRUE /\ running'[p] = FALSE
         /\ events'[p] = Append(events[p], [kind |-> "Close"])
  BY DEF TypeOK, Shutdown

\* An update is only taken off the channel.
LEMMA TakeUpdateEffect ==
  ASSUME TypeOK, NEW p \in Peers, TakeUpdate(p)
  PROVE  /\ events[p] \in Seq(Event) /\ 1 \in 1 .. Len(events[p])
         /\ events[p][1].kind \in {"AckUpdate", "WindowUpdate"}
         /\ events'[p] = Without(events[p], 1)
  BY TakenEvent DEF TakeUpdate, IsUpdate

\* A close event becomes a packet with the next number and no payload.
LEMMA TakeCloseEffect ==
  ASSUME TypeOK, NEW p \in Peers, TakeClose(p)
  PROVE  /\ events[p] \in Seq(Event) /\ 1 \in 1 .. Len(events[p])
         /\ events[p][1] \in Event /\ events[p][1].kind = "Close"
         /\ events'[p] = Without(events[p], 1)
         /\ \E x \in Packet :
              /\ waiting'[p] = Append(waiting[p], x)
              /\ x.payload = <<>> /\ x.ack = ack_number[p] /\ x.type = "Close"
              /\ sequence_number'[p] = SeqAdd(SeqAdd(sequence_number[p], 1), 0)
<1>1. events[p] # <<>> /\ events' = [events EXCEPT ![p] = Tail(@)]
      /\ Head(events[p]).kind = "Close"
      /\ waiting' = [waiting EXCEPT ![p] = Append(@, ClosePacket(p))]
      /\ sequence_number' = [sequence_number EXCEPT ![p] = End(ClosePacket(p))]
  BY DEF TakeClose
<1>2. waiting'[p] = Append(waiting[p], ClosePacket(p))
      /\ sequence_number'[p] = End(ClosePacket(p))
  BY <1>1 DEF TypeOK
<1>3. ClosePacket(p).payload = <<>> /\ ClosePacket(p).ack = ack_number[p]
      /\ ClosePacket(p).type = "Close"
      /\ End(ClosePacket(p)) = SeqAdd(SeqAdd(sequence_number[p], 1), 0)
  BY DEF ClosePacket, End
<1>4. ClosePacket(p) \in Packet
  BY ClosePacketType
<1>5. QED
  BY <1>1, <1>2, <1>3, <1>4, TakenEvent

\* An update held back becomes a packet without a payload.
LEMMA MakeUpdatePacketEffect ==
  ASSUME TypeOK, NEW p \in Peers, MakeUpdatePacket(p)
  PROVE  \E x \in Packet : /\ waiting'[p] = Append(waiting[p], x)
                           /\ x.payload = <<>> /\ x.ack = ack_number[p]
<1>1. <<>> \in Seq(Byte)
  OBVIOUS
<1>2. DataPacket(p, <<>>) \in Packet
  BY <1>1, DataPacketType
<1>3. DataPacket(p, <<>>).payload = <<>> /\ DataPacket(p, <<>>).ack = ack_number[p]
  BY DEF DataPacket
<1>4. waiting'[p] = Append(waiting[p], DataPacket(p, <<>>))
  BY DEF TypeOK, MakeUpdatePacket
<1>5. QED
  BY <1>2, <1>3, <1>4

\* A read moves bytes from the front of the buffer to the application.
LEMMA ReadEffect ==
  ASSUME TypeOK, NEW p \in Peers, Read(p)
  PROVE  /\ reassembled_buffer[p] \in Seq(Seq(Byte)) /\ reassembled_buffer[p] # <<>>
         /\ Head(reassembled_buffer[p]) \in Seq(Byte)
         /\ \E n \in 1 .. Len(Head(reassembled_buffer[p])) :
              /\ reassembled_buffer'[p] =
                   IF n = Len(Head(reassembled_buffer[p]))
                   THEN Tail(reassembled_buffer[p])
                   ELSE <<SubSeq(Head(reassembled_buffer[p]), n + 1,
                                 Len(Head(reassembled_buffer[p])))>>
                          \o Tail(reassembled_buffer[p])
              /\ delivered' = [delivered EXCEPT ![p] =
                                 @ \o SubSeq(Head(reassembled_buffer[p]), 1, n)]
         /\ \/ events'[p] = events[p]
            \/ events'[p] = Append(events[p], [kind |-> "WindowUpdate"])
<1> DEFINE buffer == reassembled_buffer[p]
           chunk  == Head(buffer)
           Rest(n) == IF n = Len(chunk) THEN Tail(buffer)
                      ELSE <<SubSeq(chunk, n + 1, Len(chunk))>> \o Tail(buffer)
<1>1. buffer \in Seq(Seq(Byte)) /\ buffer # <<>>
  BY DEF TypeOK, Read
<1>2. chunk \in Seq(Byte)
  BY <1>1
<1>3. PICK n \in 1 .. Len(chunk) :
        /\ reassembled_buffer' = [reassembled_buffer EXCEPT ![p] = Rest(n)]
        /\ delivered' = [delivered EXCEPT ![p] = @ \o SubSeq(chunk, 1, n)]
        /\ \/ events' = [events EXCEPT ![p] = Append(@, [kind |-> "WindowUpdate"])]
           \/ events' = events
  BY DEF Read
<1> HIDE DEF Rest
<1>4. /\ reassembled_buffer'[p] = Rest(n)
      /\ \/ events'[p] = events[p]
         \/ events'[p] = Append(events[p], [kind |-> "WindowUpdate"])
  BY <1>3 DEF TypeOK
<1>5. QED
  BY <1>1, <1>2, <1>3, <1>4 DEF Rest

\* What receiving a packet that carries bytes does to the buffers.
Buffers(p, pkt) ==
  LET packets == InsertInOrder(recv_packets[p], pkt)
      k       == Reassembled(packets, ack_number[p])
  IN  /\ recv_packets'[p] = SubSeq(packets, k + 1, Len(packets))
      /\ reassembled_buffer'[p] =
           reassembled_buffer[p] \o [i \in 1 .. k |-> packets[i].payload]
      /\ ack_number'[p] = IF k = 0 THEN ack_number[p] ELSE End(packets[k])
      /\ events'[p] = events[p]
           \/ events'[p] = Append(events[p], [kind |-> "AckUpdate"])

\* A datagram is dropped, or buffered in the window; its acknowledgement may
\* clear what it covers.
LEMMA ReceiveEffect ==
  ASSUME TypeOK, NEW p \in Peers, Receive(p)
  PROVE  \E pkt \in network[p] :
           /\ pkt \in Packet
           /\ \E N \in SUBSET network[p] : network' = [network EXCEPT ![p] = N]
           /\ \/ /\ UNCHANGED <<ack_number, recv_packets, reassembled_buffer>>
                 /\ events'[p] = events[p]
              \/ /\ pkt.payload # <<>> /\ Buffers(p, pkt)
                 /\ InRecvWindow(p, pkt) /\ ~OverlapsBuffered(p, pkt)
           /\ \/ UNCHANGED <<peer_ack_number, sent_packets>>
              \/ /\ peer_ack_number'[p] = pkt.ack
                 /\ sent_packets'[p] = {x \in sent_packets[p] : SeqGt(x.seq, pkt.ack)}
<1>1. PICK pkt \in network[p] :
        /\ ReceiveData(p, pkt) \/ ReceiveOther(p, pkt)
        /\ network' = [network EXCEPT ![p] = @ \ {pkt}] \/ network' = network
  BY DEF Receive
<1>2. pkt \in Packet /\ DOMAIN network = Peers
  BY DEF TypeOK
<1>3. \E N \in SUBSET network[p] : network' = [network EXCEPT ![p] = N]
  <2>1. network = [network EXCEPT ![p] = network[p]]
    BY DEF TypeOK
  <2>2. QED
    BY <1>1, <2>1
<1>4. CASE ReceiveData(p, pkt) /\ Accepts(p, pkt)
  <2>1. /\ BufferAndReassemble(p, pkt) /\ UpdatePeerAckNumber(p, pkt.ack)
        /\ pkt.payload = <<>> \/ (InRecvWindow(p, pkt) /\ ~OverlapsBuffered(p, pkt))
    BY <1>4 DEF ReceiveData, Accepts
  <2>2. \/ UNCHANGED <<peer_ack_number, sent_packets>>
        \/ /\ peer_ack_number'[p] = pkt.ack
           /\ sent_packets'[p] = {x \in sent_packets[p] : SeqGt(x.seq, pkt.ack)}
    BY <2>1 DEF TypeOK, UpdatePeerAckNumber
  <2>3. CASE pkt.payload = <<>>
    BY <1>1, <1>2, <1>3, <2>1, <2>2, <2>3 DEF BufferAndReassemble
  <2>4. CASE pkt.payload # <<>>
    <3> DEFINE packets == InsertInOrder(recv_packets[p], pkt)
               k == Reassembled(packets, ack_number[p])
               rest == SubSeq(packets, k + 1, Len(packets))
               next == [i \in 1 .. k |-> packets[i].payload]
               n    == IF k = 0 THEN ack_number[p] ELSE End(packets[k])
               more == Append(events[p], [kind |-> "AckUpdate"])
    <3>1. /\ recv_packets' = [recv_packets EXCEPT ![p] = rest]
          /\ reassembled_buffer' = [reassembled_buffer EXCEPT ![p] = @ \o next]
          /\ ack_number' = [ack_number EXCEPT ![p] = n]
          /\ events' = IF k = 0 THEN events ELSE [events EXCEPT ![p] = more]
      BY <2>1, <2>4 DEF BufferAndReassemble
    <3>2. /\ DOMAIN recv_packets = Peers /\ DOMAIN reassembled_buffer = Peers
          /\ DOMAIN ack_number = Peers /\ DOMAIN events = Peers
      BY DEF TypeOK
    <3> HIDE DEF packets, k, rest, next, n, more
    <3>3. /\ recv_packets'[p] = rest
          /\ reassembled_buffer'[p] = reassembled_buffer[p] \o next
          /\ ack_number'[p] = n
          /\ events'[p] = events[p] \/ events'[p] = more
      BY <3>1, <3>2
    <3>4. Buffers(p, pkt)
      BY <3>3 DEF Buffers, packets, k, rest, next, n, more
    <3>5. QED
      BY <1>1, <1>2, <1>3, <2>1, <2>2, <2>4, <3>4
  <2>5. QED
    BY <2>3, <2>4
<1>5. CASE ReceiveData(p, pkt) /\ ~Accepts(p, pkt)
  BY <1>2, <1>3, <1>5 DEF ReceiveData
<1>6. CASE ReceiveOther(p, pkt)
  BY <1>2, <1>3, <1>6 DEF ReceiveOther
<1>7. QED
  BY <1>1, <1>4, <1>5, <1>6

-----------------------------------------------------------------------------
(* No step hands out more numbers than the budget allows.                  *)

\* The size of a finite set that gains or loses an element.
LEMMA SetChanges ==
  ASSUME NEW S, IsFiniteSet(S), NEW x
  PROVE  /\ IsFiniteSet(S \cup {x}) /\ IsFiniteSet(S \ {x})
         /\ Cardinality(S) \in Nat
         /\ Cardinality(S \cup {x}) \in Nat /\ Cardinality(S \ {x}) \in Nat
         /\ Cardinality(S \cup {x}) <= Cardinality(S) + 1
         /\ x \in S => Cardinality(S \ {x}) = Cardinality(S) - 1
<1>1. /\ IsFiniteSet(S \cup {x})
      /\ Cardinality(S \cup {x}) = IF x \in S THEN Cardinality(S) ELSE Cardinality(S) + 1
  BY FS_AddElement
<1>2. /\ IsFiniteSet(S \ {x})
      /\ Cardinality(S \ {x}) = IF x \in S THEN Cardinality(S) - 1 ELSE Cardinality(S)
  BY FS_RemoveElement
<1>3. /\ Cardinality(S) \in Nat /\ Cardinality(S \cup {x}) \in Nat
      /\ Cardinality(S \ {x}) \in Nat
  BY <1>1, <1>2, FS_CardinalityType
<1>4. QED
  BY <1>1, <1>2, <1>3

\* A subset is finite and no larger.
LEMMA SubsetCount ==
  ASSUME NEW S, IsFiniteSet(S), NEW T \in SUBSET S
  PROVE  /\ IsFiniteSet(T) /\ Cardinality(T) <= Cardinality(S)
         /\ Cardinality(S) \in Nat /\ Cardinality(T) \in Nat
  BY FS_Subset, FS_CardinalityType

\* Which events may become a numbered packet.
LEMMA EventTokens ==
  /\ \A e \in Event : e.kind \in {"Send", "Resend", "Close"} <=> e \in Sending
  /\ \A k \in {"AckUpdate", "WindowUpdate"} : [kind |-> k] \in Event \ Sending
  /\ [kind |-> "Close"] \in Event
  BY EventType DEF Sending, Event, IsUpdate

\* The steps that make no packet and change none of the sets' tokens upwards.
LEMMA BudgetOfMoves ==
  ASSUME TypeOK, TypeOK', NEW p \in Peers, Budget(p),
         sequence_number' = sequence_number, written' = written,
         \/ Post(p) \/ Shutdown(p) \/ TakeUpdate(p) \/ TakePacket(p)
         \/ MakeUpdatePacket(p) \/ ResendTimer(p) \/ ScheduleResend(p)
  PROVE  Budget(p)'
<1>1. FiniteSets(p) /\ events[p] \in Seq(Event) /\ waiting[p] \in Seq(Packet)
  BY DEF Budget, TypeOK
<1>2. /\ Cardinality(sent_packets[p]) \in Nat
      /\ Cardinality(resending[p]) \in Nat
      /\ Cardinality(posting[p]) \in Nat
      /\ Count(events[p], Sending) \in Nat /\ Count(waiting[p], Payloads) \in Nat
      /\ MayClose(p) \in {0, 1}
  BY <1>1, TokenTypes
<1>3. events'[p] \in Seq(Event) /\ waiting'[p] \in Seq(Packet)
      /\ running'[p] \in BOOLEAN
  BY DEF TypeOK
<1>4. Count(events'[p], Sending) \in Nat /\ Count(waiting'[p], Payloads) \in Nat
  BY <1>3, CountIs
<1>5. MayClose(p)' \in {0, 1} /\ (running'[p] = running[p] => MayClose(p)' = MayClose(p))
  BY DEF MayClose
<1>6. SUFFICES /\ FiniteSets(p)'
               /\ Tokens(p)' + MayClose(p)' <= Tokens(p) + MayClose(p)
  BY BudgetCarried
<1>7. CASE Post(p)
  <2>1. PICK e \in posting[p] : /\ e \in Event /\ posting'[p] = posting[p] \ {e}
                                /\ events'[p] = Append(events[p], e)
    BY <1>7, PostEffect
  <2>2. /\ UNCHANGED <<sent_packets, resending, waiting, running>>
    BY <1>7 DEF Post, endVars
  <2>3. /\ IsFiniteSet(posting'[p])
        /\ Cardinality(posting'[p]) = Cardinality(posting[p]) - 1
    BY <1>1, <2>1, SetChanges, ZenonT(30) DEF FiniteSets
  <2>4. Count(events'[p], Sending) <= Count(events[p], Sending) + 1
    BY <1>1, <2>1, CountAppend
  <2>5. QED
    BY <1>1, <1>2, <1>4, <1>5, <2>2, <2>3, <2>4 DEF FiniteSets, Tokens
<1>8. CASE Shutdown(p)
  <2>1. /\ running[p] = TRUE /\ running'[p] = FALSE
        /\ events'[p] = Append(events[p], [kind |-> "Close"])
        /\ UNCHANGED <<sent_packets, resending, waiting, posting>>
    BY <1>8, ShutdownEffect DEF Shutdown
  <2>2. Count(events'[p], Sending) <= Count(events[p], Sending) + 1
    BY <1>1, <2>1, CountAppend, EventTokens
  <2>3. MayClose(p) = 1 /\ MayClose(p)' = 0
    BY <2>1 DEF MayClose
  <2>4. QED
    BY <1>1, <1>2, <1>4, <2>1, <2>2, <2>3 DEF FiniteSets, Tokens
<1>9. CASE TakeUpdate(p)
  <2>1. UNCHANGED <<sent_packets, resending, waiting, posting, running>>
    BY <1>9 DEF TakeUpdate, endVars
  <2>2. Count(events'[p], Sending) <= Count(events[p], Sending)
    BY <1>1, <1>9, TakeUpdateEffect, CountWithout
  <2>3. QED
    BY <1>1, <1>2, <1>4, <1>5, <2>1, <2>2 DEF FiniteSets, Tokens
<1>10. CASE TakePacket(p)
  <2>1. UNCHANGED <<sent_packets, resending, posting, running>>
    BY <1>10 DEF TakePacket, endVars
  <2>2. /\ 1 \in 1 .. Len(events[p]) /\ events[p][1] \in Sending
        /\ events'[p] = Without(events[p], 1) /\ events[p][1].packet \in Packet
        /\ waiting'[p] = Append(waiting[p], events[p][1].packet)
    BY <1>10, TakePacketEffect, EventTokens
  <2>3. Count(events'[p], Sending) <= Count(events[p], Sending) - 1
    BY <1>1, <2>2, CountWithout
  <2>4. Count(waiting'[p], Payloads) <= Count(waiting[p], Payloads) + 1
    BY <1>1, <2>2, CountAppend
  <2>5. QED
    BY <1>1, <1>2, <1>4, <1>5, <2>1, <2>3, <2>4, SMTT(30) DEF FiniteSets, Tokens
<1>11. CASE MakeUpdatePacket(p)
  <2>1. UNCHANGED <<sent_packets, resending, posting, events, running>>
    BY <1>11 DEF MakeUpdatePacket, endVars
  <2>2. PICK x \in Packet : waiting'[p] = Append(waiting[p], x) /\ x.payload = <<>>
    BY <1>11, MakeUpdatePacketEffect
  <2>3. x \notin Payloads
    BY <2>2 DEF Payloads
  <2>4. Count(waiting'[p], Payloads) = Count(waiting[p], Payloads)
    BY <1>1, <2>2, <2>3, CountAppend
  <2>5. QED
    BY <1>1, <1>2, <1>4, <1>5, <2>1, <2>4 DEF FiniteSets, Tokens
<1>12. CASE ResendTimer(p)
  <2>1. UNCHANGED <<posting, events, waiting, running>>
    BY <1>12 DEF ResendTimer
  <2>2. PICK pkt \in sent_packets[p] :
          /\ sent_packets'[p] = sent_packets[p] \ {pkt}
          /\ resending'[p] = resending[p] \cup {pkt}
    BY <1>12, ResendTimerEffect
  <2>3. /\ IsFiniteSet(sent_packets'[p]) /\ IsFiniteSet(resending'[p])
        /\ Cardinality(sent_packets'[p]) = Cardinality(sent_packets[p]) - 1
        /\ Cardinality(resending'[p]) <= Cardinality(resending[p]) + 1
        /\ Cardinality(resending'[p]) \in Nat
    <3>1. IsFiniteSet(sent_packets[p]) /\ IsFiniteSet(resending[p])
      BY <1>1 DEF FiniteSets
    <3>2. /\ IsFiniteSet(sent_packets[p] \ {pkt})
          /\ Cardinality(sent_packets[p] \ {pkt}) = Cardinality(sent_packets[p]) - 1
      BY <2>2, <3>1, SetChanges
    <3>3. /\ IsFiniteSet(resending[p] \cup {pkt})
          /\ Cardinality(resending[p] \cup {pkt}) <= Cardinality(resending[p]) + 1
          /\ Cardinality(resending[p] \cup {pkt}) \in Nat
      BY <3>1, SetChanges
    <3>4. QED
      BY <2>2, <3>2, <3>3
  <2>4. QED
    BY <1>1, <1>2, <1>4, <1>5, <2>1, <2>3, SMTT(60) DEF FiniteSets, Tokens
<1>13. CASE ScheduleResend(p)
  <2>1. UNCHANGED <<sent_packets, waiting, running>>
    BY <1>13 DEF ScheduleResend
  <2>2. PICK pkt \in resending[p], again \in Packet :
          /\ resending'[p] = resending[p] \ {pkt}
          /\ \/ /\ events'[p] = Append(events[p], [kind |-> "Close"])
                /\ posting' = posting
             \/ /\ posting'[p] = posting[p] \cup {[kind |-> "Resend", packet |-> again]}
                /\ events' = events
    BY <1>13, ScheduleResendEffect
  <2>3. /\ IsFiniteSet(resending'[p])
        /\ Cardinality(resending'[p]) = Cardinality(resending[p]) - 1
    <3>1. IsFiniteSet(resending[p])
      BY <1>1 DEF FiniteSets
    <3>2. /\ IsFiniteSet(resending[p] \ {pkt})
          /\ Cardinality(resending[p] \ {pkt}) = Cardinality(resending[p]) - 1
      BY <2>2, <3>1, SetChanges
    <3>3. QED
      BY <2>2, <3>2
  <2>4. CASE posting' = posting /\ events'[p] = Append(events[p], [kind |-> "Close"])
    <3>1. Count(events'[p], Sending) <= Count(events[p], Sending) + 1
      BY <1>1, <2>4, CountAppend, EventTokens
    <3>2. /\ posting'[p] = posting[p] /\ sent_packets'[p] = sent_packets[p]
          /\ Cardinality(posting'[p]) = Cardinality(posting[p])
          /\ Cardinality(sent_packets'[p]) = Cardinality(sent_packets[p])
          /\ Cardinality(resending'[p]) \in Nat
          /\ Count(waiting'[p], Payloads) = Count(waiting[p], Payloads)
          /\ MayClose(p)' = MayClose(p)
      BY <1>2, <1>5, <2>1, <2>3, <2>4, FS_CardinalityType
    <3>3. FiniteSets(p)'
      BY <1>1, <2>3, <3>2 DEF FiniteSets
    <3>4. Tokens(p)' <= Tokens(p)
      BY <1>2, <1>4, <2>3, <3>1, <3>2 DEF Tokens
    <3>5. Tokens(p) \in Nat /\ Tokens(p)' \in Nat
      BY <1>2, <1>4, <2>3, <3>2 DEF Tokens
    <3>6. QED
      BY <1>2, <3>2, <3>3, <3>4, <3>5
  <2>5. CASE /\ posting'[p] = posting[p] \cup {[kind |-> "Resend", packet |-> again]}
             /\ events' = events
    <3>1. /\ IsFiniteSet(posting'[p]) /\ Cardinality(posting'[p]) \in Nat
          /\ Cardinality(posting'[p]) <= Cardinality(posting[p]) + 1
      BY <1>1, <2>5, SetChanges, ZenonT(30) DEF FiniteSets
    <3>2. QED
      BY <1>1, <1>2, <1>4, <1>5, <2>1, <2>3, <2>5, <3>1, SMTT(30) DEF FiniteSets, Tokens
  <2>6. QED
    BY <2>2, <2>4, <2>5
<1>14. QED
  BY <1>7, <1>8, <1>9, <1>10, <1>11, <1>12, <1>13

\* The steps that hand out no number and queue none keep the budget.
LEMMA BudgetOfSends ==
  ASSUME TypeOK, TypeOK', NEW p \in Peers, Budget(p),
         sequence_number' = sequence_number, written' = written,
         \/ SendPacket(p) \/ KeepAlive(p) \/ Read(p) \/ Receive(p)
         \/ RecvTimeout(p) \/ Lose(p)
  PROVE  Budget(p)'
<1>1. FiniteSets(p) /\ events[p] \in Seq(Event) /\ waiting[p] \in Seq(Packet)
  BY DEF Budget, TypeOK
<1>2. /\ Cardinality(sent_packets[p]) \in Nat
      /\ Cardinality(resending[p]) \in Nat
      /\ Cardinality(posting[p]) \in Nat
      /\ Count(events[p], Sending) \in Nat /\ Count(waiting[p], Payloads) \in Nat
      /\ MayClose(p) \in {0, 1}
  BY <1>1, TokenTypes
<1>3. events'[p] \in Seq(Event) /\ waiting'[p] \in Seq(Packet)
  BY DEF TypeOK
<1>4. Count(events'[p], Sending) \in Nat /\ Count(waiting'[p], Payloads) \in Nat
  BY <1>3, CountIs
<1>5. SUFFICES /\ FiniteSets(p)'
               /\ Tokens(p)' + MayClose(p)' <= Tokens(p) + MayClose(p)
  BY BudgetCarried
<1>6. UNCHANGED <<resending, posting, running>>
  BY DEF SendPacket, KeepAlive, Read, Receive, RecvTimeout, Lose, loopVars, endVars
<1>7. MayClose(p)' = MayClose(p)
  BY <1>6 DEF MayClose
<1>8. ASSUME events' = events, IsFiniteSet(sent_packets'[p]),
              Cardinality(sent_packets'[p]) \in Nat,
              Cardinality(sent_packets'[p]) + Count(waiting'[p], Payloads)
                <= Cardinality(sent_packets[p]) + Count(waiting[p], Payloads)
       PROVE  /\ FiniteSets(p)'
              /\ Tokens(p)' + MayClose(p)' <= Tokens(p) + MayClose(p)
  BY <1>1, <1>2, <1>4, <1>6, <1>7, <1>8, SMTT(30) DEF FiniteSets, Tokens
<1>9. CASE SendPacket(p)
  <2>1. events' = events
    BY <1>9 DEF SendPacket
  <2>2. PICK i \in 1 .. Len(waiting[p]) :
          /\ waiting[p][i] \in Packet /\ waiting'[p] = Without(waiting[p], i)
          /\ \/ sent_packets'[p] =
                  IF waiting[p][i].payload = <<>> THEN sent_packets[p]
                  ELSE {x \in sent_packets[p] : x.seq # waiting[p][i].seq}
                         \cup {waiting[p][i]}
             \/ sent_packets' = sent_packets
    BY <1>9, SendPacketEffect
  <2> DEFINE pkt == waiting[p][i]
             rest == {x \in sent_packets[p] : x.seq # pkt.seq}
  <2>3. /\ Count(waiting'[p], Payloads) <= Count(waiting[p], Payloads)
        /\ pkt \in Payloads =>
             Count(waiting'[p], Payloads) <= Count(waiting[p], Payloads) - 1
    BY <1>1, <2>2, CountWithout
  <2>4. pkt \in Payloads <=> pkt.payload # <<>>
    BY <2>2 DEF Payloads
  <2>5. rest \in SUBSET sent_packets[p]
    OBVIOUS
  <2>6. \/ sent_packets'[p] = sent_packets[p]
        \/ pkt.payload # <<>> /\ sent_packets'[p] = rest \cup {pkt}
    BY <2>2
  <2> HIDE DEF pkt, rest
  <2>7. CASE sent_packets'[p] = sent_packets[p]
    BY <1>1, <1>2, <1>4, <1>6, <1>7, <2>1, <2>3, <2>7 DEF FiniteSets, Tokens
  <2>8. CASE pkt.payload # <<>> /\ sent_packets'[p] = rest \cup {pkt}
    <3>1. IsFiniteSet(rest) /\ Cardinality(rest) <= Cardinality(sent_packets[p])
          /\ Cardinality(rest) \in Nat
      BY <1>1, <2>5, SubsetCount DEF FiniteSets
    <3>2. /\ IsFiniteSet(sent_packets'[p]) /\ Cardinality(sent_packets'[p]) \in Nat
          /\ Cardinality(sent_packets'[p]) <= Cardinality(rest) + 1
      BY <2>8, <3>1, SetChanges
    <3>3. Count(waiting'[p], Payloads) <= Count(waiting[p], Payloads) - 1
      BY <2>3, <2>4, <2>8
    <3>4. Cardinality(sent_packets'[p]) + Count(waiting'[p], Payloads)
            <= Cardinality(sent_packets[p]) + Count(waiting[p], Payloads)
      BY <1>2, <1>4, <3>1, <3>2, <3>3
    <3>5. QED
      BY <2>1, <3>2, <3>4, <1>8
  <2>9. QED
    BY <2>6, <2>7, <2>8
<1>10. CASE KeepAlive(p)
  <2>1. UNCHANGED <<sent_packets, events, waiting>>
    BY <1>10, KeepAliveEffect
  <2>2. QED
    BY <1>1, <1>2, <1>6, <1>7, <2>1 DEF FiniteSets, Tokens
<1>11. ASSUME waiting' = waiting,
              \/ events'[p] = events[p]
              \/ \E k \in {"AckUpdate", "WindowUpdate"} :
                   events'[p] = Append(events[p], [kind |-> k]),
              sent_packets'[p] \subseteq sent_packets[p]
       PROVE  /\ FiniteSets(p)'
              /\ Tokens(p)' + MayClose(p)' <= Tokens(p) + MayClose(p)
  <2>1. Count(events'[p], Sending) = Count(events[p], Sending)
    <3>1. CASE events'[p] = events[p]
      BY <3>1
    <3>2. ASSUME NEW k \in {"AckUpdate", "WindowUpdate"},
                 events'[p] = Append(events[p], [kind |-> k])
          PROVE  Count(events'[p], Sending) = Count(events[p], Sending)
      BY <1>1, <3>2, EventTokens, CountAppend
    <3>3. QED
      BY <1>11, <3>1, <3>2
  <2>2. /\ IsFiniteSet(sent_packets'[p]) /\ Cardinality(sent_packets'[p]) \in Nat
        /\ Cardinality(sent_packets'[p]) <= Cardinality(sent_packets[p])
    BY <1>1, <1>11, SubsetCount DEF FiniteSets
  <2>3. QED
    BY <1>1, <1>2, <1>6, <1>7, <1>11, <2>1, <2>2, SMTT(30) DEF FiniteSets, Tokens
<1>12. CASE Read(p)
  BY <1>11, <1>12, ReadEffect DEF Read
<1>13. CASE Receive(p)
  <2>1. waiting' = waiting
    BY <1>13 DEF Receive
  <2>2. PICK pkt \in network[p] :
          /\ events'[p] = events[p]
               \/ events'[p] = Append(events[p], [kind |-> "AckUpdate"])
          /\ \/ UNCHANGED sent_packets
             \/ sent_packets'[p] = {x \in sent_packets[p] : SeqGt(x.seq, pkt.ack)}
    BY <1>13, ReceiveEffect DEF Buffers
  <2>3. sent_packets'[p] \subseteq sent_packets[p]
    BY <2>2
  <2>4. QED
    BY <1>11, <2>1, <2>2, <2>3
<1>14. CASE RecvTimeout(p) \/ Lose(p)
  BY <1>11, <1>14 DEF RecvTimeout, Lose, loopVars, endVars
<1>15. QED
  BY <1>9, <1>10, <1>12, <1>13, <1>14

\* A write uses at most one number more than it has bytes, which it pays for.
LEMMA WriteBudget ==
  ASSUME TypeOK, TypeOK', WithinQuota, NumbersSuffice, NEW p \in Peers,
         Budget(p), Write(p)
  PROVE  Budget(p)' /\ WithinQuota'
<1>1. PICK n \in 1 .. MaxPayload :
        \E pkt :
          /\ posting'[p] = posting[p] \cup {[kind |-> "Send", packet |-> pkt]}
          /\ written'[p] = written[p] + n /\ n \in Nat /\ n >= 1
          /\ Used(p)' = Used(p) + 1 + n
          /\ WithinQuota'
  BY WriteNumbers
<1>2. PICK k, c \in Nat : /\ Used(p) = 1 + written[p] + k + c /\ k <= written[p]
                          /\ Tokens(p) + c + MayClose(p) <= 1 + k
  BY DEF Budget
<1>3. written[p] \in Nat /\ FiniteSets(p)
  BY DEF TypeOK, Budget
<1>4. Tokens(p) \in Nat /\ MayClose(p) \in {0, 1} /\ Cardinality(posting[p]) \in Nat
  BY <1>3, TokenTypes
<1>5. UNCHANGED <<sent_packets, resending, events, waiting, running>>
  BY DEF Write
<1>6. /\ IsFiniteSet(posting'[p]) /\ Cardinality(posting'[p]) \in Nat
      /\ Cardinality(posting'[p]) <= Cardinality(posting[p]) + 1
  <2>1. PICK e : posting'[p] = posting[p] \cup {e}
    BY <1>1
  <2>2. IsFiniteSet(posting[p])
    BY <1>3 DEF FiniteSets
  <2>3. QED
    BY <2>1, <2>2, SetChanges
<1>7. FiniteSets(p)'
  BY <1>3, <1>5, <1>6 DEF FiniteSets
<1>8. Tokens(p)' + MayClose(p)' <= Tokens(p) + 1 + MayClose(p)
  <2>1. /\ Cardinality(sent_packets[p]) \in Nat
        /\ Cardinality(resending[p]) \in Nat
        /\ Count(events[p], Sending) \in Nat /\ Count(waiting[p], Payloads) \in Nat
    BY <1>3, TokenTypes
  <2>2. MayClose(p)' = MayClose(p)
    BY <1>5 DEF MayClose
  <2>3. QED
    BY <1>4, <1>5, <1>6, <2>1, <2>2 DEF Tokens
<1>9. Tokens(p)' \in Nat /\ MayClose(p)' \in Nat
  <2>1. Cardinality(sent_packets[p]) \in Nat /\ Cardinality(resending[p]) \in Nat
        /\ Count(events[p], Sending) \in Nat /\ Count(waiting[p], Payloads) \in Nat
    BY <1>3, TokenTypes
  <2>2. QED
    BY <1>5, <1>6, <2>1 DEF Tokens, MayClose
<1>10. /\ k + 1 \in Nat /\ k + 1 <= written'[p]
       /\ Used(p)' = 1 + written'[p] + (k + 1) + c
       /\ Tokens(p)' + c + MayClose(p)' <= 1 + (k + 1)
  BY <1>1, <1>2, <1>3, <1>4, <1>8, <1>9
<1>11. Budget(p)'
  BY <1>7, <1>10 DEF Budget
<1>12. QED
  BY <1>1, <1>11

\* Taking a close event uses up a number and the event's token.
LEMMA TakeCloseBudget ==
  ASSUME TypeOK, TypeOK', WithinQuota, NumbersSuffice, NEW p \in Peers,
         Budget(p), TakeClose(p)
  PROVE  Budget(p)' /\ Used(p)' = Used(p) + 1
<1>1. PICK x \in Packet :
        /\ events[p] \in Seq(Event) /\ 1 \in 1 .. Len(events[p])
        /\ events[p][1] \in Event /\ events[p][1].kind = "Close"
        /\ events'[p] = Without(events[p], 1)
        /\ waiting'[p] = Append(waiting[p], x) /\ x.payload = <<>>
        /\ sequence_number'[p] = SeqAdd(SeqAdd(sequence_number[p], 1), 0)
  BY TakeCloseEffect
<1>2. PICK k, c \in Nat : /\ Used(p) = 1 + written[p] + k + c /\ k <= written[p]
                          /\ Tokens(p) + c + MayClose(p) <= 1 + k
  BY DEF Budget
<1>3. /\ written[p] \in Nat /\ FiniteSets(p) /\ sequence_number[p] \in SeqNum
      /\ waiting[p] \in Seq(Packet)
  BY DEF TypeOK, Budget
<1>4. /\ Cardinality(sent_packets[p]) \in Nat
      /\ Cardinality(resending[p]) \in Nat
      /\ Cardinality(posting[p]) \in Nat
      /\ Count(events[p], Sending) \in Nat /\ Count(waiting[p], Payloads) \in Nat
      /\ MayClose(p) \in {0, 1} /\ Tokens(p) \in Nat
  BY <1>3, TokenTypes
<1>5. UNCHANGED <<sent_packets, resending, posting, running, written>>
  BY DEF TakeClose, envVars
<1>6. events[p][1] \in Sending /\ x \notin Payloads
  BY <1>1, EventTokens DEF Payloads
<1>7. /\ Count(events'[p], Sending) <= Count(events[p], Sending) - 1
      /\ Count(waiting'[p], Payloads) = Count(waiting[p], Payloads)
  BY <1>1, <1>3, <1>6, CountWithout, CountAppend
<1>8. Count(events'[p], Sending) \in Nat
  <2>1. events'[p] \in Seq(Event)
    BY DEF TypeOK
  <2>2. QED
    BY <2>1, CountIs
<1>9. /\ FiniteSets(p)' /\ MayClose(p)' = MayClose(p)
      /\ Tokens(p)' <= Tokens(p) - 1 /\ Tokens(p)' \in Nat
  <2>1. FiniteSets(p)' /\ MayClose(p)' = MayClose(p)
    BY <1>3, <1>5 DEF FiniteSets, MayClose
  <2>2. QED
    BY <1>4, <1>5, <1>7, <1>8, <2>1 DEF Tokens
<1>10. Used(p) \in Nat /\ Used(p) + 1 < SeqModulus
  <2>1. bound.quota[p] \in Nat /\ 3 * bound.quota[p] + 2 < SeqModulus
        /\ written[p] <= bound.quota[p]
    BY PeersAssumption DEF WithinQuota, NumbersSuffice
  <2>2. Tokens(p) >= 1
    BY <1>4, <1>9
  <2>3. c <= k
    BY <1>2, <1>4, <2>2
  <2>4. Used(p) \in Nat /\ Used(p) + 1 <= 3 * bound.quota[p] + 2
    <3>1. Used(p) = 1 + written[p] + k + c /\ k <= written[p]
      BY <1>2
    <3>2. written[p] \in Nat
      BY <1>3
    <3>3. QED
      BY <2>1, <2>3, <3>1, <3>2
  <2>5. QED
    BY <2>1, <2>4, SeqModulusAssumption
<1>11. Used(p)' = Used(p) + 1
  <2>1. /\ Off(p, SeqAdd(sequence_number[p], 1)) = Used(p) + 1
        /\ SeqAdd(sequence_number[p], 1) \in SeqNum
    BY <1>3, <1>10, OffAdd, SeqAddType DEF Used
  <2>2. Off(p, SeqAdd(SeqAdd(sequence_number[p], 1), 0)) = Used(p) + 1 + 0
    BY <1>10, <2>1, OffAdd
  <2>3. QED
    BY <1>1, <1>10, <2>2 DEF Used
<1>12. /\ c + 1 \in Nat /\ k <= written'[p]
       /\ Used(p)' = 1 + written'[p] + k + (c + 1)
       /\ Tokens(p)' + (c + 1) + MayClose(p)' <= 1 + k
  <2>1. written'[p] = written[p] /\ MayClose(p)' \in Nat
    BY <1>4, <1>5, <1>9
  <2>2. Tokens(p)' + (c + 1) + MayClose(p)' <= 1 + k
    BY <1>2, <1>4, <1>9
  <2>3. Used(p) = 1 + written[p] + k + c /\ k <= written[p]
    BY <1>2
  <2>4. /\ c + 1 \in Nat /\ k <= written'[p]
        /\ Used(p)' = 1 + written'[p] + k + (c + 1)
    <3>1. written[p] \in Nat /\ written'[p] = written[p]
      BY <1>3, <2>1
    <3>2. Used(p)' = Used(p) + 1
      BY <1>11
    <3>3. Used(p)' = 1 + written[p] + k + (c + 1)
      BY <2>3, <3>1, <3>2
    <3>4. QED
      BY <2>3, <3>1, <3>3
  <2>5. QED
    BY <2>2, <2>4
<1>13. QED
  BY <1>9, <1>11, <1>12 DEF Budget

\* No step overdraws a budget.
LEMMA BudgetStep ==
  ASSUME TypeOK, TypeOK', WithinQuota, NumbersSuffice,
         \A q \in Peers : Budget(q), NEW p \in Peers, Step(p)
  PROVE  (\A q \in Peers : Budget(q)') /\ WithinQuota'
<1>1. ASSUME NEW q \in Peers, q # p PROVE Budget(q)'
  BY <1>1, OthersUntouched, BudgetUntouched
<1>2. Budget(p)' /\ WithinQuota'
  <2>1. CASE Write(p)
    BY <2>1, WriteBudget
  <2>2. ASSUME UNCHANGED <<written, bound>> PROVE WithinQuota'
    BY <2>2 DEF WithinQuota
  <2>3. CASE TakeClose(p)
    BY <2>2, <2>3, TakeCloseBudget DEF TakeClose, envVars
  <2>4. CASE \/ Post(p) \/ Shutdown(p) \/ TakeUpdate(p) \/ TakePacket(p)
             \/ MakeUpdatePacket(p) \/ ResendTimer(p) \/ ScheduleResend(p)
    <3>1. UNCHANGED <<sequence_number, written, bound>>
      BY <2>4 DEF Post, Shutdown, TakeUpdate, TakePacket, MakeUpdatePacket,
                  ResendTimer, ScheduleResend, envVars, endVars
    <3>2. QED
      BY <2>2, <2>4, <3>1, BudgetOfMoves
  <2>5. CASE \/ SendPacket(p) \/ KeepAlive(p) \/ Read(p) \/ Receive(p)
             \/ RecvTimeout(p) \/ Lose(p)
    <3>1. UNCHANGED <<sequence_number, written, bound>>
      BY <2>5 DEF SendPacket, KeepAlive, Read, Receive, RecvTimeout, Lose,
                  envVars, endVars
    <3>2. QED
      BY <2>2, <2>5, <3>1, BudgetOfSends
  <2>6. QED
    BY <2>1, <2>3, <2>4, <2>5 DEF Step, Application, SendLoop, RecvLoop, Timers
<1>3. QED
  BY <1>1, <1>2

-----------------------------------------------------------------------------
(* The packets of a peer, wherever they are.                               *)

\* The packets that events carry.
Carried(E) == {e.packet : e \in {x \in E : x.kind \in {"Send", "Resend"}}}

\* The packets events carry, from the elements of the channel.
LEMMA CarriedElems ==
  ASSUME NEW s
  PROVE  {s[i].packet : i \in {j \in DOMAIN s : s[j].kind \in {"Send", "Resend"}}}
           = Carried(Elems(s))
  BY DEF Carried, Elems

\* One event more carries at most one packet more.
LEMMA CarriedMore ==
  ASSUME NEW E, NEW e
  PROVE  /\ e.kind \in {"Send", "Resend"} => Carried(E \cup {e}) = Carried(E) \cup {e.packet}
         /\ e.kind \notin {"Send", "Resend"} => Carried(E \cup {e}) = Carried(E)
         /\ \A F \in SUBSET E : Carried(F) \subseteq Carried(E)
  BY DEF Carried

\* What a peer holds, as a union of sets.
LEMMA HeldIs ==
  ASSUME NEW q
  PROVE  /\ Held(q) = sent_packets[q] \cup resending[q] \cup Elems(waiting[q])
                        \cup Carried(posting[q]) \cup Carried(Elems(events[q]))
         /\ Held(q)' = sent_packets'[q] \cup resending'[q] \cup Elems(waiting'[q])
                         \cup Carried(posting'[q]) \cup Carried(Elems(events'[q]))
<1>1. Held(q) = sent_packets[q] \cup resending[q] \cup Elems(waiting[q])
                  \cup Carried(posting[q]) \cup Carried(Elems(events[q]))
  BY CarriedElems, Zenon DEF Held, Carried, Elems
<1>2. Held(q)' = sent_packets'[q] \cup resending'[q] \cup Elems(waiting'[q])
                   \cup Carried(posting'[q]) \cup Carried(Elems(events'[q]))
  BY CarriedElems, Zenon DEF Held, Carried, Elems
<1>3. QED
  BY <1>1, <1>2

\* The other peer's other peer is the first one.
LEMMA TwoPeers ==
  ASSUME NEW p \in Peers
  PROVE  /\ Peer(p) \in Peers /\ Peer(p) # p /\ Peer(Peer(p)) = p
         /\ Peers = {p, Peer(p)}
<1>1. Peer(p) \in Peers /\ Peer(p) # p /\ Peer(Peer(p)) \in Peers /\ Peer(Peer(p)) # Peer(p)
  BY PeerIsPeer
<1>2. IsFiniteSet({p}) /\ Cardinality({p}) = 1
  BY FS_Singleton
<1>3. IsFiniteSet({p} \cup {Peer(p)}) /\ Cardinality({p} \cup {Peer(p)}) = 2
  BY <1>1, <1>2, FS_AddElement
<1>4. Peers = {p} \cup {Peer(p)}
  BY <1>1, <1>3, PeersAssumption, FS_Subset
<1>5. QED
  BY <1>1, <1>4

\* Every packet of q's that is held, on its way, or waiting for a gap to be filled.
Flow(q) == Held(q) \cup network[Peer(q)] \cup Elems(recv_packets[Peer(q)])

\* What is on its way is packets.
LEMMA FlowType ==
  ASSUME TypeOK, NEW q \in Peers
  PROVE  Flow(q) \subseteq Packet
<1>1. /\ sent_packets[q] \subseteq Packet /\ resending[q] \subseteq Packet
      /\ posting[q] \subseteq Event /\ network[Peer(q)] \subseteq Packet
  BY PeerIsPeer DEF TypeOK
<1>2. /\ Elems(waiting[q]) \subseteq Packet /\ Elems(events[q]) \subseteq Event
      /\ Elems(recv_packets[Peer(q)]) \subseteq Packet
  BY PeerIsPeer, ElemsIs DEF TypeOK
<1>3. \A E \in SUBSET Event : Carried(E) \subseteq Packet
  BY EventType DEF Carried
<1>4. QED
  BY <1>1, <1>2, <1>3, HeldIs DEF Flow

\* A packet is made of another one of its peer, or it carries no bytes; its
\* acknowledgement is the other one's or the newest.
MadeFrom(x, S, q) ==
  /\ x.payload # <<>> => \E y \in S : y.seq = x.seq /\ y.payload = x.payload
  /\ x.ack = ack_number[q] \/ \E y \in S : y.ack = x.ack

\* A packet is made of itself.
LEMMA MadeFromItself ==
  ASSUME NEW S, NEW q, NEW x \in S
  PROVE  MadeFrom(x, S, q)
  BY DEF MadeFrom

\* What is made from a set is made from a larger one.
LEMMA MadeFromMore ==
  ASSUME NEW S, NEW T, S \subseteq T, NEW q, NEW x, MadeFrom(x, S, q)
  PROVE  MadeFrom(x, T, q)
  BY DEF MadeFrom

\* Every packet held is made of one held before.
HeldGrows(p) == \A x \in Held(p)' : MadeFrom(x, Held(p), p)

\* A datagram acknowledges the packet, and is taken up.
Answered(p, x) ==
  \E y \in network[p] : ~SeqGt(x.seq, y.ack) /\ peer_ack_number'[p] = y.ack

\* A packet with bytes stays until it is acknowledged or the end is asked for.
HeldStays(p) ==
  \A x \in Held(p) : x.payload # <<>> =>
    \/ \E y \in Held(p)' : y.payload # <<>> /\ y.seq = x.seq
    \/ Closing(p)'
    \/ Answered(p, x)

\* Who has asked for the end goes on asking, or has ended.
ClosingStays(p) == Closing(p) => Closing(p)'

\* What a step of a peer does with its packets.
Keeps(p) == HeldGrows(p) /\ HeldStays(p) /\ ClosingStays(p)

\* Who holds the same packets keeps what has to be kept.
LEMMA SameHeldKeeps ==
  ASSUME NEW p, Held(p)' = Held(p), ClosingStays(p)
  PROVE  Keeps(p)
  BY MadeFromItself DEF Keeps, HeldGrows, HeldStays

\* Closing, from the elements of the queues.
LEMMA ClosingIs ==
  ASSUME NEW p
  PROVE  /\ Closing(p) <=> \/ state[p] = "Disconnected"
                           \/ \E e \in Elems(events[p]) : e.kind = "Close"
                           \/ \E x \in Elems(waiting[p]) : x.type = "Close"
         /\ Closing(p)' <=> \/ state'[p] = "Disconnected"
                            \/ \E e \in Elems(events'[p]) : e.kind = "Close"
                            \/ \E x \in Elems(waiting'[p]) : x.type = "Close"
  BY Zenon DEF Closing, Elems

\* Posting keeps every packet held.
LEMMA PostKeeps ==
  ASSUME TypeOK, NEW p \in Peers, Post(p)
  PROVE  Keeps(p)
<1>1. PICK e \in posting[p] : /\ e \in Event /\ posting'[p] = posting[p] \ {e}
                              /\ events'[p] = Append(events[p], e)
  BY PostEffect
<1>2. UNCHANGED <<state, sent_packets, resending, waiting>>
  BY DEF Post, endVars
<1>3. Elems(events'[p]) = Elems(events[p]) \cup {e}
  BY <1>1, ElemsAppend DEF TypeOK
<1>4. posting[p] = posting'[p] \cup {e}
  BY <1>1
<1>5. Held(p)' = Held(p)
  <2> DEFINE E == Elems(events[p])
             F == posting'[p]
             C == IF e.kind \in {"Send", "Resend"} THEN {e.packet} ELSE {}
  <2>1. Carried(E \cup {e}) = Carried(E) \cup C /\ Carried(F \cup {e}) = Carried(F) \cup C
    BY CarriedMore
  <2>2. /\ Carried(Elems(events'[p])) = Carried(E) \cup C
        /\ Carried(posting[p]) = Carried(F) \cup C
    BY <1>3, <1>4, <2>1
  <2> DEFINE S == sent_packets[p] \cup resending[p] \cup Elems(waiting[p])
  <2>3. /\ Held(p) = S \cup Carried(posting[p]) \cup Carried(E)
        /\ Held(p)' = S \cup Carried(F) \cup Carried(Elems(events'[p]))
    BY <1>2, HeldIs
  <2> HIDE DEF C, S, E, F
  <2>4. QED
    BY <2>2, <2>3
<1>6. ClosingStays(p)
  BY <1>2, <1>3, ClosingIs DEF ClosingStays
<1>7. QED
  BY <1>5, <1>6, SameHeldKeeps

\* Taking an update keeps every packet held.
LEMMA TakeUpdateKeeps ==
  ASSUME TypeOK, NEW p \in Peers, TakeUpdate(p)
  PROVE  Keeps(p)
<1>1. /\ events[p] \in Seq(Event) /\ 1 \in 1 .. Len(events[p])
      /\ events[p][1].kind \in {"AckUpdate", "WindowUpdate"}
      /\ events'[p] = Without(events[p], 1)
  BY TakeUpdateEffect
<1>2. UNCHANGED <<state, sent_packets, resending, waiting, posting>>
  BY DEF TakeUpdate, endVars
<1> DEFINE e == events[p][1]
<1>3. Elems(events[p]) = Elems(events'[p]) \cup {e}
  BY <1>1, ElemsWithout
<1> HIDE DEF e
<1>4. Carried(Elems(events'[p])) = Carried(Elems(events[p]))
  BY <1>1, <1>3, CarriedMore DEF e
<1>5. Held(p)' = Held(p)
  BY <1>2, <1>4, HeldIs
<1>6. ClosingStays(p)
  BY <1>1, <1>2, <1>3, ClosingIs DEF ClosingStays, e
<1>7. QED
  BY <1>5, <1>6, SameHeldKeeps

\* Taking a packet keeps every packet held.
LEMMA TakePacketKeeps ==
  ASSUME TypeOK, NEW p \in Peers, TakePacket(p)
  PROVE  Keeps(p)
<1>1. /\ events[p] \in Seq(Event) /\ 1 \in 1 .. Len(events[p])
      /\ events[p][1].kind \in {"Send", "Resend"}
      /\ events[p][1].packet \in Packet
      /\ events'[p] = Without(events[p], 1)
      /\ waiting'[p] = Append(waiting[p], events[p][1].packet)
  BY TakePacketEffect
<1>2. UNCHANGED <<state, sent_packets, resending, posting>>
  BY DEF TakePacket, endVars
<1> DEFINE e == events[p][1]
<1>3. Elems(events[p]) = Elems(events'[p]) \cup {e}
  BY <1>1, ElemsWithout
<1>4. Elems(waiting'[p]) = Elems(waiting[p]) \cup {e.packet}
  BY <1>1, ElemsAppend DEF TypeOK
<1> HIDE DEF e
<1>5. Carried(Elems(events[p])) = Carried(Elems(events'[p])) \cup {e.packet}
  BY <1>1, <1>3, CarriedMore DEF e
<1>6. Held(p)' = Held(p)
  BY <1>2, <1>4, <1>5, HeldIs, SMTT(30)
<1>7. ClosingStays(p)
  BY <1>1, <1>2, <1>3, <1>4, ClosingIs DEF ClosingStays, e
<1>8. QED
  BY <1>6, <1>7, SameHeldKeeps

\* Shutting down keeps every packet held.
LEMMA ShutdownKeeps ==
  ASSUME TypeOK, NEW p \in Peers, Shutdown(p)
  PROVE  Keeps(p)
<1>1. events'[p] = Append(events[p], [kind |-> "Close"])
  BY ShutdownEffect
<1>2. UNCHANGED <<state, sent_packets, resending, waiting, posting>>
  BY DEF Shutdown
<1>3. PICK e \in Event : e.kind = "Close" /\ Elems(events'[p]) = Elems(events[p]) \cup {e}
  <2> DEFINE e == [kind |-> "Close"]
  <2>1. e \in Event /\ e.kind = "Close" /\ events'[p] = Append(events[p], e)
    BY <1>1, EventTokens
  <2> HIDE DEF e
  <2>2. Elems(events'[p]) = Elems(events[p]) \cup {e}
    BY <2>1, ElemsAppend DEF TypeOK
  <2>3. QED
    BY <2>1, <2>2
<1>4. Carried(Elems(events'[p])) = Carried(Elems(events[p]))
  BY <1>3, CarriedMore
<1>5. Held(p)' = Held(p)
  BY <1>2, <1>4, HeldIs
<1>6. ClosingStays(p)
  BY <1>2, <1>3, ClosingIs DEF ClosingStays
<1>7. QED
  BY <1>5, <1>6, SameHeldKeeps

\* The send loop makes a packet without bytes.
LEMMA EmptyPacketKeeps ==
  ASSUME TypeOK, NEW p \in Peers, TakeClose(p) \/ MakeUpdatePacket(p)
  PROVE  Keeps(p)
<1>1. PICK x \in Packet : /\ waiting'[p] = Append(waiting[p], x)
                          /\ x.payload = <<>> /\ x.ack = ack_number[p]
                          /\ TakeClose(p) => x.type = "Close"
  <2>1. CASE TakeClose(p)
    BY <2>1, TakeCloseEffect
  <2>2. CASE ~TakeClose(p)
    BY <2>2, MakeUpdatePacketEffect
  <2>3. QED
    BY <2>1, <2>2
<1>2. UNCHANGED <<state, sent_packets, resending, posting>>
  BY DEF TakeClose, MakeUpdatePacket, endVars
<1>3. Elems(waiting'[p]) = Elems(waiting[p]) \cup {x}
  BY <1>1, ElemsAppend DEF TypeOK
<1>4. \/ events' = events
      \/ \E e : /\ Elems(events[p]) = Elems(events'[p]) \cup {e} /\ e.kind = "Close"
                /\ TakeClose(p)
  <2>1. CASE TakeClose(p)
    <3>1. /\ events[p] \in Seq(Event) /\ 1 \in 1 .. Len(events[p])
          /\ events[p][1].kind = "Close" /\ events'[p] = Without(events[p], 1)
      BY <2>1, TakeCloseEffect
    <3>2. Elems(events[p]) = Elems(events'[p]) \cup {events[p][1]}
      BY <3>1, ElemsWithout
    <3>3. QED
      BY <2>1, <3>1, <3>2
  <2>2. CASE MakeUpdatePacket(p)
    BY <2>2 DEF MakeUpdatePacket
  <2>3. QED
    BY <2>1, <2>2
<1>5. Carried(Elems(events'[p])) = Carried(Elems(events[p]))
  BY <1>4, CarriedMore
<1>6. Held(p)' = Held(p) \cup {x}
  BY <1>2, <1>3, <1>5, HeldIs
<1>7. ClosingStays(p)
  BY <1>1, <1>2, <1>3, <1>4, ClosingIs DEF ClosingStays
<1>8. MadeFrom(x, Held(p), p)
  BY <1>1 DEF MadeFrom
<1>9. QED
  BY <1>6, <1>7, <1>8, MadeFromItself DEF Keeps, HeldGrows, HeldStays

\* Sending keeps every packet with a payload, in its place by number.
LEMMA SendPacketKeeps ==
  ASSUME TypeOK, NEW p \in Peers, SendPacket(p)
  PROVE  Keeps(p)
<1>1. PICK i \in 1 .. Len(waiting[p]) :
        /\ waiting[p] \in Seq(Packet) /\ waiting[p][i] \in Packet
        /\ waiting'[p] = Without(waiting[p], i)
        /\ \/ /\ waiting[p][i].type = "Data" /\ state' = state
              /\ sent_packets'[p] =
                   IF waiting[p][i].payload = <<>> THEN sent_packets[p]
                   ELSE {x \in sent_packets[p] : x.seq # waiting[p][i].seq}
                          \cup {waiting[p][i]}
           \/ /\ waiting[p][i].type = "Close" /\ state'[p] = "Disconnected"
              /\ sent_packets' = sent_packets
  BY SendPacketEffect
<1>2. UNCHANGED <<resending, posting, events>>
  BY DEF SendPacket
<1> DEFINE pkt == waiting[p][i]
           rest == {x \in sent_packets[p] : x.seq # pkt.seq}
<1>3. /\ pkt \in Elems(waiting[p])
      /\ Elems(waiting'[p]) \subseteq Elems(waiting[p])
      /\ Elems(waiting[p]) \subseteq Elems(waiting'[p]) \cup {pkt}
  BY <1>1, ElemsWithout
<1>4. \/ pkt.type = "Data" /\ state' = state
      \/ pkt.type = "Close" /\ state'[p] = "Disconnected"
  BY <1>1
<1>5. \/ /\ sent_packets'[p] = sent_packets[p]
         /\ pkt.payload = <<>> \/ state'[p] = "Disconnected"
      \/ pkt.payload # <<>> /\ sent_packets'[p] = rest \cup {pkt}
  BY <1>1
<1>6. rest \subseteq sent_packets[p]
      /\ \A x \in sent_packets[p] : x \in rest \/ x.seq = pkt.seq
  OBVIOUS
<1> HIDE DEF pkt, rest
<1>7. Held(p)' \subseteq Held(p)
  <2>1. sent_packets'[p] \subseteq sent_packets[p] \cup Elems(waiting[p])
    BY <1>3, <1>5, <1>6
  <2>2. QED
    BY <1>2, <1>3, <2>1, HeldIs
<1>8. HeldGrows(p)
  BY <1>7, MadeFromItself DEF HeldGrows
<1>9. HeldStays(p)
  <2> SUFFICES ASSUME NEW x \in Held(p), x.payload # <<>>,
                      state'[p] # "Disconnected"
               PROVE  \E y \in Held(p)' : y.payload # <<>> /\ y.seq = x.seq
    BY ClosingIs DEF HeldStays
  <2>1. CASE x \in sent_packets[p]
    <3>1. x \in sent_packets'[p]
            \/ (pkt.payload # <<>> /\ pkt.seq = x.seq /\ pkt \in sent_packets'[p])
      BY <1>5, <1>6, <2>1
    <3>2. QED
      BY <3>1, HeldIs
  <2>2. CASE x \in Elems(waiting[p])
    <3>1. x \in Elems(waiting'[p]) \/ (x = pkt /\ pkt \in sent_packets'[p])
      BY <1>3, <1>5, <2>2
    <3>2. QED
      BY <3>1, HeldIs
  <2>3. CASE x \notin sent_packets[p] /\ x \notin Elems(waiting[p])
    <3>1. x \in Held(p)'
      BY <1>2, <2>3, HeldIs
    <3>2. QED
      BY <3>1
  <2>4. QED
    BY <2>1, <2>2, <2>3
<1>10. ClosingStays(p)
  BY <1>2, <1>3, <1>4, ClosingIs DEF ClosingStays
<1>11. QED
  BY <1>8, <1>9, <1>10 DEF Keeps

\* A timer keeps the packet it takes out.
LEMMA ResendTimerKeeps ==
  ASSUME TypeOK, NEW p \in Peers, ResendTimer(p)
  PROVE  Keeps(p)
<1>1. PICK pkt \in sent_packets[p] :
        /\ sent_packets'[p] = sent_packets[p] \ {pkt}
        /\ resending'[p] = resending[p] \cup {pkt}
  BY ResendTimerEffect
<1>2. UNCHANGED <<state, posting, events, waiting>>
  BY DEF ResendTimer
<1>3. sent_packets'[p] \cup resending'[p] = sent_packets[p] \cup resending[p]
  BY <1>1
<1>4. Held(p)' = Held(p)
  BY <1>2, <1>3, HeldIs
<1>5. ClosingStays(p)
  BY <1>2, ClosingIs DEF ClosingStays
<1>6. QED
  BY <1>4, <1>5, SameHeldKeeps

\* Queueing a resend keeps the packet's bytes; giving up asks to close.
LEMMA ScheduleResendKeeps ==
  ASSUME TypeOK, NEW p \in Peers, ScheduleResend(p)
  PROVE  Keeps(p)
<1>1. PICK pkt \in resending[p], again \in Packet :
        /\ pkt \in Packet
        /\ resending'[p] = resending[p] \ {pkt}
        /\ again.seq = pkt.seq /\ again.payload = pkt.payload
        /\ again.ack = ack_number[p]
        /\ \/ /\ events'[p] = Append(events[p], [kind |-> "Close"])
              /\ posting' = posting
           \/ /\ posting'[p] = posting[p] \cup {[kind |-> "Resend", packet |-> again]}
              /\ events' = events
  BY ScheduleResendEffect
<1>2. UNCHANGED <<state, sent_packets, waiting>>
  BY DEF ScheduleResend
<1>3. resending[p] = resending'[p] \cup {pkt}
  BY <1>1
<1>4. CASE /\ events'[p] = Append(events[p], [kind |-> "Close"])
           /\ posting' = posting
  <2> DEFINE e == [kind |-> "Close"]
  <2>1. e \in Event /\ e.kind = "Close"
    BY EventTokens
  <2>2. events'[p] = Append(events[p], e)
    BY <1>4
  <2> HIDE DEF e
  <2>3. Elems(events'[p]) = Elems(events[p]) \cup {e}
    BY <2>1, <2>2, ElemsAppend DEF TypeOK
  <2>4. Carried(Elems(events'[p])) = Carried(Elems(events[p]))
    BY <2>1, <2>3, CarriedMore
  <2>5. Held(p)' \subseteq Held(p)
    BY <1>2, <1>3, <1>4, <2>4, HeldIs
  <2>6. HeldGrows(p)
    BY <2>5, MadeFromItself DEF HeldGrows
  <2>7. Closing(p)'
    BY <2>1, <2>3, ClosingIs
  <2>8. QED
    BY <2>6, <2>7 DEF Keeps, HeldStays, ClosingStays
<1>5. CASE /\ posting'[p] = posting[p] \cup {[kind |-> "Resend", packet |-> again]}
           /\ events' = events
  <2> DEFINE e == [kind |-> "Resend", packet |-> again]
  <2>1. e.kind = "Resend" /\ e.packet = again
    OBVIOUS
  <2>2. posting'[p] = posting[p] \cup {e}
    BY <1>5
  <2> HIDE DEF e
  <2>3. Carried(posting'[p]) = Carried(posting[p]) \cup {again}
    BY <2>1, <2>2, CarriedMore
  <2>4. Held(p)' \subseteq Held(p) \cup {again} /\ again \in Held(p)'
        /\ Held(p) \subseteq Held(p)' \cup {pkt} /\ pkt \in Held(p)
    <3> DEFINE S == sent_packets[p] \cup Elems(waiting[p]) \cup Carried(Elems(events[p]))
    <3>1. /\ Held(p) = S \cup resending[p] \cup Carried(posting[p])
          /\ Held(p)' = S \cup resending'[p] \cup Carried(posting'[p])
      BY <1>2, <1>5, HeldIs, ZenonT(30)
    <3> HIDE DEF S
    <3>2. QED
      BY <1>3, <2>3, <3>1
  <2>5. MadeFrom(again, Held(p), p)
    BY <1>1, <2>4 DEF MadeFrom
  <2>6. HeldGrows(p)
    BY <2>4, <2>5, MadeFromItself DEF HeldGrows
  <2>7. HeldStays(p)
    BY <1>1, <2>4 DEF HeldStays
  <2>8. ClosingStays(p)
    BY <1>2, <1>5, ClosingIs DEF ClosingStays
  <2>9. QED
    BY <2>6, <2>7, <2>8 DEF Keeps
<1>6. QED
  BY <1>1, <1>4, <1>5

\* An event that carries no packet changes nothing.
LEMMA UpdateKeeps ==
  ASSUME TypeOK, NEW p \in Peers,
         \/ events'[p] = events[p]
         \/ \E k \in {"AckUpdate", "WindowUpdate"} :
              events'[p] = Append(events[p], [kind |-> k])
  PROVE  /\ Carried(Elems(events'[p])) = Carried(Elems(events[p]))
         /\ \A e \in Elems(events[p]) : e \in Elems(events'[p])
<1>1. CASE events'[p] = events[p]
  BY <1>1
<1>2. ASSUME NEW k \in {"AckUpdate", "WindowUpdate"},
             events'[p] = Append(events[p], [kind |-> k])
      PROVE  /\ Carried(Elems(events'[p])) = Carried(Elems(events[p]))
             /\ \A e \in Elems(events[p]) : e \in Elems(events'[p])
  <2> DEFINE e == [kind |-> k]
  <2>1. e \in Event /\ e.kind = k
    BY EventTokens
  <2>2. events'[p] = Append(events[p], e)
    BY <1>2
  <2> HIDE DEF e
  <2>3. Elems(events'[p]) = Elems(events[p]) \cup {e}
    BY <2>1, <2>2, ElemsAppend DEF TypeOK
  <2>4. e.kind \notin {"Send", "Resend"}
    BY <2>1
  <2>5. QED
    BY <2>3, <2>4, CarriedMore
<1>3. QED
  BY <1>1, <1>2

\* Reading keeps every packet held.
LEMMA ReadKeeps ==
  ASSUME TypeOK, NEW p \in Peers, Read(p)
  PROVE  Keeps(p)
<1>1. UNCHANGED <<state, sent_packets, resending, waiting, posting>>
  BY DEF Read
<1>2. /\ Carried(Elems(events'[p])) = Carried(Elems(events[p]))
      /\ \A e \in Elems(events[p]) : e \in Elems(events'[p])
  BY ReadEffect, UpdateKeeps
<1>3. Held(p)' = Held(p)
  BY <1>1, <1>2, HeldIs
<1>4. ClosingStays(p)
  BY <1>1, <1>2, ClosingIs DEF ClosingStays
<1>5. QED
  BY <1>3, <1>4, SameHeldKeeps

\* Receiving lets go of what the acknowledgement covers, and no more.
LEMMA ReceiveKeeps ==
  ASSUME TypeOK, NEW p \in Peers, Receive(p)
  PROVE  Keeps(p)
<1>1. PICK pkt \in network[p] :
        /\ \/ events'[p] = events[p]
           \/ events'[p] = Append(events[p], [kind |-> "AckUpdate"])
        /\ \/ sent_packets' = sent_packets
           \/ /\ peer_ack_number'[p] = pkt.ack
              /\ sent_packets'[p] = {x \in sent_packets[p] : SeqGt(x.seq, pkt.ack)}
  BY ReceiveEffect DEF Buffers
<1>2. UNCHANGED <<resending, waiting, posting>>
  BY DEF Receive
<1>3. /\ Carried(Elems(events'[p])) = Carried(Elems(events[p]))
      /\ \A e \in Elems(events[p]) : e \in Elems(events'[p])
  BY <1>1, UpdateKeeps
<1>4. sent_packets'[p] \subseteq sent_packets[p]
      /\ \A x \in sent_packets[p] : x \in sent_packets'[p] \/ Answered(p, x)
  BY <1>1 DEF Answered
<1>5. Held(p)' \subseteq Held(p) /\ \A x \in Held(p) : x \in Held(p)' \/ Answered(p, x)
  BY <1>2, <1>3, <1>4, HeldIs
<1>6. HeldGrows(p) /\ HeldStays(p)
  BY <1>5, MadeFromItself DEF HeldGrows, HeldStays
<1>7. state'[p] = state[p] \/ state'[p] = "Disconnected"
  BY DEF TypeOK, Receive, ReceiveData, ReceiveOther
<1>8. ClosingStays(p)
  BY <1>2, <1>3, <1>7, ClosingIs DEF ClosingStays
<1>9. QED
  BY <1>6, <1>8 DEF Keeps

\* What a step makes of the packets its own peer answers for.
LEMMA StepKeeps ==
  ASSUME TypeOK, NEW p \in Peers, Step(p), ~Write(p)
  PROVE  Keeps(p)
<1>1. CASE KeepAlive(p)
  <2>1. UNCHANGED <<sent_packets, resending, posting, events, waiting>>
    BY <1>1, KeepAliveEffect
  <2>2. state' = state
    BY <1>1 DEF KeepAlive, HandleSendPacket, DataPacket
  <2>3. Held(p)' = Held(p)
    BY <2>1, HeldIs
  <2>4. ClosingStays(p)
    BY <2>1, <2>2, ClosingIs DEF ClosingStays
  <2>5. QED
    BY <2>3, <2>4, SameHeldKeeps
<1>2. CASE RecvTimeout(p)
  <2>1. UNCHANGED <<sent_packets, resending, posting, events, waiting>>
        /\ state'[p] = "Disconnected"
    BY <1>2 DEF TypeOK, RecvTimeout, loopVars
  <2>2. Held(p)' = Held(p)
    BY <2>1, HeldIs
  <2>3. ClosingStays(p)
    BY <2>1, ClosingIs DEF ClosingStays
  <2>4. QED
    BY <2>2, <2>3, SameHeldKeeps
<1>3. CASE Lose(p)
  <2>1. UNCHANGED <<state, sent_packets, resending, posting, events, waiting>>
    BY <1>3 DEF Lose, endVars, loopVars
  <2>2. Held(p)' = Held(p)
    BY <2>1, HeldIs
  <2>3. ClosingStays(p)
    BY <2>1, ClosingIs DEF ClosingStays
  <2>4. QED
    BY <2>2, <2>3, SameHeldKeeps
<1>4. QED
  BY <1>1, <1>2, <1>3, ReadKeeps, ShutdownKeeps, PostKeeps, TakeUpdateKeeps,
     TakePacketKeeps, EmptyPacketKeeps, SendPacketKeeps, ResendTimerKeeps,
     ScheduleResendKeeps, ReceiveKeeps
  DEF Step, Application, SendLoop, RecvLoop, Timers

-----------------------------------------------------------------------------
(* Putting packets in order and taking off what has no gap before it.      *)

\* A concatenation has the elements of its parts.
LEMMA ElemsConcat ==
  ASSUME NEW S, NEW s \in Seq(S), NEW t \in Seq(S)
  PROVE  Elems(s \o t) \subseteq Elems(s) \cup Elems(t)
<1> DEFINE u == s \o t
<1>1. /\ u \in Seq(S) /\ Len(s) \in Nat /\ Len(t) \in Nat /\ Len(u) = Len(s) + Len(t)
      /\ \A i \in 1 .. Len(u) : u[i] = IF i <= Len(s) THEN s[i] ELSE t[i - Len(s)]
  OBVIOUS
<1> HIDE DEF u
<1>2. ASSUME NEW i \in 1 .. Len(u) PROVE u[i] \in Elems(s) \cup Elems(t)
  <2>1. CASE i <= Len(s)
    <3>1. i \in 1 .. Len(s) /\ u[i] = s[i]
      BY <1>1, <2>1
    <3>2. QED
      BY <3>1, ElemsIs
  <2>2. CASE i > Len(s)
    <3>1. i - Len(s) \in 1 .. Len(t) /\ u[i] = t[i - Len(s)]
      BY <1>1, <2>2
    <3>2. QED
      BY <3>1, ElemsIs
  <2>3. QED
    BY <1>1, <2>1, <2>2
<1>3. Elems(u) = {u[i] : i \in 1 .. Len(u)}
  BY <1>1, ElemsIs
<1>4. QED
  BY <1>2, <1>3 DEF u

\* A part of a sequence has some of its elements.
LEMMA ElemsSubSeq ==
  ASSUME NEW S, NEW s \in Seq(S), NEW m \in 1 .. Len(s) + 1, NEW n \in 0 .. Len(s)
  PROVE  SubSeq(s, m, n) \in Seq(S) /\ Elems(SubSeq(s, m, n)) \subseteq Elems(s)
<1> DEFINE u == SubSeq(s, m, n)
<1>1. /\ u \in Seq(S) /\ Len(s) \in Nat /\ Len(u) = IF m <= n THEN n - m + 1 ELSE 0
      /\ \A i \in 1 .. Len(u) : u[i] = s[m + i - 1]
  BY SubSeqProperties
<1> HIDE DEF u
<1>2. ASSUME NEW i \in 1 .. Len(u) PROVE u[i] \in Elems(s)
  <2>1. m + i - 1 \in 1 .. Len(s) /\ u[i] = s[m + i - 1]
    BY <1>1
  <2>2. QED
    BY <2>1, ElemsIs
<1>3. Elems(u) = {u[i] : i \in 1 .. Len(u)}
  BY <1>1, ElemsIs
<1>4. QED
  BY <1>1, <1>2, <1>3 DEF u

\* Inserting in order adds one packet.
LEMMA InsertedElems ==
  ASSUME NEW packets \in Seq(Packet), NEW pkt \in Packet
  PROVE  Elems(InsertInOrder(packets, pkt)) \subseteq Elems(packets) \cup {pkt}
<1> DEFINE earlier == {i \in 1 .. Len(packets) :
                         \A j \in 1 .. i : SeqLt(packets[j].seq, pkt.seq)}
           n == Cardinality(earlier)
           x == SubSeq(packets, 1, n)
           y == SubSeq(packets, n + 1, Len(packets))
<1>1. Len(packets) \in Nat
  OBVIOUS
<1>2. n \in 0 .. Len(packets)
  BY <1>1, PrefixCount
<1>3. InsertInOrder(packets, pkt) = x \o <<pkt>> \o y
  BY DEF InsertInOrder, LeadingCount
<1> HIDE DEF n
<1>4. /\ x \in Seq(Packet) /\ Elems(x) \subseteq Elems(packets)
      /\ y \in Seq(Packet) /\ Elems(y) \subseteq Elems(packets)
  <2>1. 1 \in 1 .. Len(packets) + 1 /\ n + 1 \in 1 .. Len(packets) + 1
        /\ Len(packets) \in 0 .. Len(packets)
    BY <1>1, <1>2
  <2>2. QED
    BY <1>2, <2>1, ElemsSubSeq
<1> HIDE DEF x, y
<1>5. <<pkt>> \in Seq(Packet) /\ Elems(<<pkt>>) = {pkt}
  BY DEF Elems
<1> DEFINE z == <<pkt>>
<1>6. z \in Seq(Packet) /\ Elems(z) = {pkt} /\ InsertInOrder(packets, pkt) = (x \o z) \o y
  BY <1>3, <1>5
<1> HIDE DEF z
<1>7. x \o z \in Seq(Packet) /\ Elems(x \o z) \subseteq Elems(x) \cup Elems(z)
  BY <1>4, <1>6, ElemsConcat
<1>8. Elems((x \o z) \o y) \subseteq Elems(x \o z) \cup Elems(y)
  BY <1>4, <1>7, ElemsConcat
<1>9. QED
  BY <1>4, <1>6, <1>7, <1>8

\* A set of the first ones of 1 .. n is as long as it is large.
LEMMA LeadingIsPrefix ==
  ASSUME NEW n \in Nat, NEW S \in SUBSET (1 .. n),
         \A i \in S : \A j \in 1 .. i : j \in S
  PROVE  \A i \in 1 .. Cardinality(S) : i \in S
<1> SUFFICES ASSUME NEW i \in 1 .. Cardinality(S), i \notin S PROVE FALSE
  OBVIOUS
<1>1. Cardinality(S) \in 0 .. n
  BY PrefixCount
<1>2. S \in SUBSET (1 .. i - 1) /\ i - 1 \in Nat
  <2>1. ASSUME NEW j \in S PROVE j \in 1 .. i - 1
    <3>1. CASE i <= j
      BY <1>1, <3>1
    <3>2. QED
      BY <1>1, <3>1
  <2>2. QED
    BY <1>1, <2>1
<1>3. Cardinality(S) \in 0 .. i - 1
  BY <1>2, PrefixCount
<1>4. QED
  BY <1>1, <1>3

\* What is reassembled follows the acknowledged bytes without a gap.
LEMMA ReassembledChain ==
  ASSUME NEW packets \in Seq(Packet), NEW ack
  PROVE  /\ Len(packets) \in Nat
         /\ Reassembled(packets, ack) \in 0 .. Len(packets)
         /\ \A i \in 1 .. Reassembled(packets, ack) :
              packets[i].seq =
                SeqAdd(IF i = 1 THEN ack ELSE End(packets[i - 1]), 1)
<1> DEFINE Test(i) == packets[i].seq =
                        SeqAdd(IF i = 1 THEN ack ELSE End(packets[i - 1]), 1)
           S == {i \in 1 .. Len(packets) : \A j \in 1 .. i : Test(j)}
<1>1. Len(packets) \in Nat
  OBVIOUS
<1>2. Reassembled(packets, ack) = Cardinality(S)
  BY DEF Reassembled, LeadingCount
<1>3. S \in SUBSET (1 .. Len(packets))
  OBVIOUS
<1>4. \A i \in S : \A j \in 1 .. i : j \in S
  <2> SUFFICES ASSUME NEW i \in S, NEW j \in 1 .. i PROVE j \in S
    OBVIOUS
  <2> HIDE DEF Test
  <2>1. i \in 1 .. Len(packets) /\ \A l \in 1 .. i : Test(l)
    OBVIOUS
  <2>2. j \in 1 .. Len(packets) /\ \A l \in 1 .. j : l \in 1 .. i
    BY <1>1, <2>1
  <2>3. QED
    BY <2>1, <2>2
<1>5. \A i \in S : Test(i)
  <2> HIDE DEF Test
  <2> SUFFICES ASSUME NEW i \in S PROVE Test(i)
    OBVIOUS
  <2>1. i \in 1 .. i
    BY <1>1
  <2>2. QED
    BY <2>1
<1> HIDE DEF S
<1>6. \A i \in 1 .. Cardinality(S) : i \in S
  BY <1>1, <1>3, <1>4, LeadingIsPrefix
<1>7. QED
  BY <1>1, <1>2, <1>3, <1>5, <1>6, PrefixCount

-----------------------------------------------------------------------------
(* Every packet of a stream comes from the write that made it.             *)

\* Only a peer's own packets are added to what is on its way.
LEMMA NetworkEffect ==
  ASSUME TypeOK, NEW p \in Peers, Step(p)
  PROVE  /\ network'[p] \subseteq network[p]
         /\ \A x \in network'[Peer(p)] :
              x \in network[Peer(p)] \/ MadeFrom(x, Held(p), p)
<1> USE TwoPeers
<1>1. DOMAIN network = Peers
  BY DEF TypeOK
<1>2. CASE SendPacket(p)
  <2>1. PICK i \in 1 .. Len(waiting[p]) :
          /\ waiting[p] \in Seq(Packet) /\ waiting[p][i] \in Packet
          /\ network' = [network EXCEPT ![Peer(p)] = @ \cup {Datagram(waiting[p][i])}]
    BY <1>2, SendPacketEffect
  <2> DEFINE pkt == waiting[p][i]
  <2>2. pkt \in Held(p)
    BY <2>1, ElemsWithout, HeldIs
  <2>3. Datagram(pkt).seq = pkt.seq /\ Datagram(pkt).payload = pkt.payload
        /\ Datagram(pkt).ack = pkt.ack
    BY <2>1 DEF Datagram, Packet
  <2> HIDE DEF pkt
  <2>4. MadeFrom(Datagram(pkt), Held(p), p)
    BY <2>2, <2>3 DEF MadeFrom
  <2>5. network'[p] = network[p] /\ network'[Peer(p)] = network[Peer(p)] \cup {Datagram(pkt)}
    BY <1>1, <2>1 DEF pkt
  <2>6. QED
    BY <2>4, <2>5
<1>3. CASE KeepAlive(p)
  <2> DEFINE pkt == Datagram(DataPacket(p, <<>>))
  <2>1. network' = [network EXCEPT ![Peer(p)] = @ \cup {pkt}]
    BY <1>3, KeepAliveEffect
  <2>2. pkt.payload = <<>> /\ pkt.ack = ack_number[p]
    BY DEF Datagram, DataPacket
  <2> HIDE DEF pkt
  <2>3. MadeFrom(pkt, Held(p), p)
    BY <2>2 DEF MadeFrom
  <2>4. network'[p] = network[p] /\ network'[Peer(p)] = network[Peer(p)] \cup {pkt}
    BY <1>1, <2>1
  <2>5. QED
    BY <2>3, <2>4
<1>4. CASE Receive(p) \/ Lose(p)
  <2>1. \E N \in SUBSET network[p] : network' = [network EXCEPT ![p] = N]
    <3>1. CASE Receive(p)
      BY <3>1, ReceiveEffect
    <3>2. CASE Lose(p)
      BY <3>2 DEF Lose
    <3>3. QED
      BY <1>4, <3>1, <3>2
  <2>2. QED
    BY <1>1, <2>1
<1>5. ASSUME network' = network
      PROVE  /\ network'[p] \subseteq network[p]
             /\ \A x \in network'[Peer(p)] :
                  x \in network[Peer(p)] \/ MadeFrom(x, Held(p), p)
  BY <1>5
<1>6. CASE Application(p) \/ Post(p) \/ Timers(p) \/ RecvTimeout(p)
  BY <1>5, <1>6 DEF Application, Write, Read, Shutdown, Post, Timers, ResendTimer,
                    ScheduleResend, RecvTimeout, envVars
<1>7. CASE TakeUpdate(p) \/ TakePacket(p) \/ TakeClose(p) \/ MakeUpdatePacket(p)
  BY <1>5, <1>7 DEF TakeUpdate, TakePacket, TakeClose, MakeUpdatePacket, envVars
<1>8. QED
  BY <1>2, <1>3, <1>4, <1>6, <1>7 DEF Step, SendLoop, RecvLoop

\* What is buffered came from the network, with a payload.
LEMMA RecvEffect ==
  ASSUME TypeOK, NEW p \in Peers, Step(p)
  PROVE  \A x \in Elems(recv_packets'[p]) :
           \/ x \in Elems(recv_packets[p])
           \/ x \in network[p] /\ x.payload # <<>>
<1>1. CASE Receive(p)
  <2>1. PICK pkt \in network[p] :
          /\ pkt \in Packet
          /\ \/ recv_packets' = recv_packets
             \/ Buffers(p, pkt) /\ pkt.payload # <<>>
    BY <1>1, ReceiveEffect
  <2>2. CASE Buffers(p, pkt) /\ pkt.payload # <<>>
    <3> DEFINE packets == InsertInOrder(recv_packets[p], pkt)
               k == Reassembled(packets, ack_number[p])
    <3>1. recv_packets'[p] = SubSeq(packets, k + 1, Len(packets))
      BY <2>2 DEF Buffers
    <3>2. packets \in Seq(Packet)
          /\ Elems(packets) \subseteq Elems(recv_packets[p]) \cup {pkt}
      BY <2>1, InsertInOrderType, InsertedElems DEF TypeOK
    <3> HIDE DEF packets
    <3>3. k \in 0 .. Len(packets) /\ Len(packets) \in Nat
      BY <3>2, ReassembledChain
    <3> HIDE DEF k
    <3>4. k + 1 \in 1 .. Len(packets) + 1 /\ Len(packets) \in 0 .. Len(packets)
      BY <3>3
    <3>5. Elems(SubSeq(packets, k + 1, Len(packets))) \subseteq Elems(packets)
      BY <3>2, <3>4, ElemsSubSeq
    <3>6. QED
      BY <2>2, <3>1, <3>2, <3>5
  <2>3. QED
    BY <2>1, <2>2
<1>2. ASSUME recv_packets' = recv_packets
      PROVE  Elems(recv_packets'[p]) \subseteq Elems(recv_packets[p])
  BY <1>2
<1>3. CASE Application(p) \/ Post(p) \/ Timers(p) \/ RecvTimeout(p) \/ Lose(p)
  BY <1>2, <1>3 DEF Application, Write, Read, Shutdown, Post, Timers, ResendTimer,
                    ScheduleResend, RecvTimeout, Lose, endVars
<1>4. CASE SendLoop(p)
  BY <1>2, <1>4 DEF SendLoop, TakeUpdate, TakePacket, TakeClose, MakeUpdatePacket,
                    SendPacket, KeepAlive, endVars
<1>5. QED
  BY <1>1, <1>3, <1>4 DEF Step, RecvLoop

\* Every packet of q's is made of one there was before.
FlowGrows(q) == \A x \in Flow(q)' : MadeFrom(x, Flow(q), q)

\* No step but a write makes bytes: what is on its way is copied from what was.
LEMMA StepFlow ==
  ASSUME TypeOK, NEW p \in Peers, Step(p), ~Write(p), NEW q \in Peers
  PROVE  FlowGrows(q)
<1> USE TwoPeers
<1>1. CASE q = p
  <2>1. /\ Held(p) \subseteq Flow(p) /\ network[Peer(p)] \subseteq Flow(p)
        /\ Elems(recv_packets[Peer(p)]) \subseteq Flow(p)
    BY DEF Flow
  <2>2. \A x \in Held(p)' : MadeFrom(x, Flow(p), p)
    BY <2>1, StepKeeps, MadeFromMore DEF Keeps, HeldGrows
  <2>3. \A x \in network'[Peer(p)] : MadeFrom(x, Flow(p), p)
    BY <2>1, NetworkEffect, MadeFromMore, MadeFromItself
  <2>4. recv_packets'[Peer(p)] = recv_packets[Peer(p)]
    BY OthersUntouched DEF Untouched
  <2>5. \A x \in Elems(recv_packets[Peer(p)]) : MadeFrom(x, Flow(p), p)
    BY <2>1, MadeFromItself
  <2>6. QED
    BY <1>1, <2>2, <2>3, <2>4, <2>5 DEF FlowGrows, Flow
<1>2. CASE q # p
  <2>1. Peer(q) = p
    BY <1>2
  <2>2. Held(q)' = Held(q)
    <3>1. Untouched(q)
      BY <1>2, OthersUntouched
    <3>2. /\ sent_packets'[q] = sent_packets[q] /\ resending'[q] = resending[q]
          /\ waiting'[q] = waiting[q] /\ posting'[q] = posting[q]
          /\ events'[q] = events[q]
      BY <3>1 DEF Untouched
    <3>3. QED
      BY <3>2, HeldIs, ZenonT(30)
  <2>3. Flow(q)' \subseteq Flow(q)
    BY <2>1, <2>2, NetworkEffect, RecvEffect DEF Flow
  <2>4. QED
    BY <2>3, MadeFromItself DEF FlowGrows
<1>3. QED
  BY <1>1, <1>2

-----------------------------------------------------------------------------
(* Induction, over sets of numbers.                                        *)

\* A set of natural numbers has a smallest element.
LEMMA Smallest ==
  ASSUME NEW T, T \subseteq Nat, T # {}
  PROVE  \E x \in T : \A y \in T : x <= y
<1>1. \E x \in T : \A y \in T : ~ (<<y, x>> \in OpToRel(<, Nat))
  BY NatLessThanWellFounded, WFMin
<1>2. PICK x \in T : \A y \in T : ~ (<<y, x>> \in OpToRel(<, Nat))
  BY <1>1
<1>3. \A y \in T : ~ (y < x)
  BY <1>2 DEF OpToRel
<1>4. QED
  BY <1>3

\* Induction over a set of natural numbers.
LEMMA Induct ==
  ASSUME NEW T, 0 \in T, \A n \in Nat : n \in T => n + 1 \in T
  PROVE  \A n \in Nat : n \in T
<1> SUFFICES ASSUME Nat \ T # {} PROVE FALSE
  OBVIOUS
<1>1. PICK x \in Nat \ T : \A y \in Nat \ T : x <= y
  BY Smallest
<1>2. x # 0 /\ x - 1 \in Nat /\ x - 1 < x
  BY <1>1
<1>3. x - 1 \in T
  BY <1>1, <1>2
<1>4. QED
  BY <1>1, <1>2, <1>3

-----------------------------------------------------------------------------
(* Payloads that hold the bytes d + 1 .. n in order.                       *)

\* C says where one chunk ends and the next one starts.
Cuts(s, d, n, C) ==
  /\ C \in [0 .. Len(s) -> Nat]
  /\ C[0] = d /\ C[Len(s)] = n
  /\ \A i \in 1 .. Len(s) :
       /\ C[i] = C[i - 1] + Len(s[i])
       /\ \A j \in 1 .. Len(s[i]) : s[i][j] = C[i - 1] + j

\* The chunks of s hold the bytes d + 1 .. n.
InOrder(s, d, n) == \E C : Cuts(s, d, n, C)

\* No chunks hold no bytes.
LEMMA NothingInOrder ==
  ASSUME NEW d \in Nat
  PROVE  InOrder(<<>>, d, d)
<1> DEFINE C == [i \in 0 .. 0 |-> d]
<1>1. Len(<<>>) = 0
  OBVIOUS
<1>2. Cuts(<<>>, d, d, C)
  BY <1>1 DEF Cuts
<1>3. QED
  BY <1>2 DEF InOrder

\* A chunk of consecutive bytes is in order.
LEMMA OneInOrder ==
  ASSUME NEW d \in Nat, NEW chunk \in Seq(Byte),
         \A j \in 1 .. Len(chunk) : chunk[j] = d + j
  PROVE  InOrder(<<chunk>>, d, d + Len(chunk))
<1> DEFINE C == [i \in 0 .. 1 |-> IF i = 0 THEN d ELSE d + Len(chunk)]
           s == <<chunk>>
<1>1. Len(s) = 1 /\ s[1] = chunk /\ Len(chunk) \in Nat
  OBVIOUS
<1>2. C \in [0 .. 1 -> Nat] /\ C[0] = d /\ C[1] = d + Len(chunk)
  BY <1>1
<1> HIDE DEF C, s
<1>3. Cuts(s, d, d + Len(chunk), C)
  BY <1>1, <1>2 DEF Cuts
<1>4. QED
  BY <1>3 DEF InOrder, s

\* Chunks in order after chunks in order are in order.
LEMMA ConcatInOrder ==
  ASSUME NEW s \in Seq(Seq(Byte)), NEW t \in Seq(Seq(Byte)), NEW d, NEW m, NEW n,
         InOrder(s, d, m), InOrder(t, m, n)
  PROVE  InOrder(s \o t, d, n)
<1>1. PICK C : Cuts(s, d, m, C)
  BY DEF InOrder
<1>2. PICK D : Cuts(t, m, n, D)
  BY DEF InOrder
<1> DEFINE u == s \o t
           E == [i \in 0 .. Len(s) + Len(t) |->
                   IF i <= Len(s) THEN C[i] ELSE D[i - Len(s)]]
<1>3. /\ Len(s) \in Nat /\ Len(t) \in Nat /\ Len(u) = Len(s) + Len(t)
      /\ \A i \in 1 .. Len(s) : u[i] = s[i]
      /\ \A i \in 1 .. Len(t) : u[Len(s) + i] = t[i]
  OBVIOUS
<1> HIDE DEF u
<1>4. /\ C \in [0 .. Len(s) -> Nat] /\ C[0] = d /\ C[Len(s)] = m
      /\ D \in [0 .. Len(t) -> Nat] /\ D[0] = m /\ D[Len(t)] = n
  BY <1>1, <1>2 DEF Cuts
<1>5. E \in [0 .. Len(u) -> Nat]
  <2>1. ASSUME NEW i \in 0 .. Len(s) + Len(t)
        PROVE  (IF i <= Len(s) THEN C[i] ELSE D[i - Len(s)]) \in Nat
    <3>1. CASE i <= Len(s)
      <4>1. i \in 0 .. Len(s)
        BY <1>3, <3>1
      <4>2. QED
        BY <1>4, <3>1, <4>1
    <3>2. CASE ~(i <= Len(s))
      <4>1. i - Len(s) \in 0 .. Len(t)
        BY <1>3, <3>2
      <4>2. QED
        BY <1>4, <3>2, <4>1
    <3>3. QED
      BY <3>1, <3>2
  <2>2. QED
    BY <1>3, <2>1
<1>6. /\ \A i \in 0 .. Len(s) : E[i] = C[i]
      /\ \A i \in 0 .. Len(t) : E[Len(s) + i] = D[i]
  <2>1. ASSUME NEW i \in 0 .. Len(s) PROVE E[i] = C[i]
    BY <1>3
  <2>2. ASSUME NEW i \in 0 .. Len(t) PROVE E[Len(s) + i] = D[i]
    <3>1. CASE i = 0
      BY <1>3, <1>4, <3>1
    <3>2. CASE i # 0
      <4>1. /\ Len(s) + i \in 0 .. Len(s) + Len(t) /\ ~(Len(s) + i <= Len(s))
            /\ (Len(s) + i) - Len(s) = i
        BY <1>3, <3>2
      <4>2. QED
        BY <4>1
    <3>3. QED
      BY <3>1, <3>2
  <2>3. QED
    BY <2>1, <2>2
<1> HIDE DEF E
<1>7. E[0] = d /\ E[Len(u)] = n
  <2>1. 0 \in 0 .. Len(s) /\ Len(t) \in 0 .. Len(t)
    BY <1>3
  <2>2. QED
    BY <1>3, <1>4, <1>6, <2>1
<1>8. ASSUME NEW i \in 1 .. Len(u)
      PROVE  /\ E[i] = E[i - 1] + Len(u[i])
             /\ \A j \in 1 .. Len(u[i]) : u[i][j] = E[i - 1] + j
  <2>1. CASE i <= Len(s)
    <3>1. i \in 1 .. Len(s) /\ i \in 0 .. Len(s) /\ i - 1 \in 0 .. Len(s)
      BY <1>3, <2>1
    <3>2. u[i] = s[i] /\ E[i] = C[i] /\ E[i - 1] = C[i - 1]
      BY <1>3, <1>6, <3>1
    <3>3. /\ C[i] = C[i - 1] + Len(s[i])
          /\ \A j \in 1 .. Len(s[i]) : s[i][j] = C[i - 1] + j
      BY <1>1, <3>1 DEF Cuts
    <3>4. QED
      BY <3>2, <3>3
  <2>2. CASE i > Len(s)
    <3> DEFINE l == i - Len(s)
    <3>1. /\ l \in 1 .. Len(t) /\ l \in 0 .. Len(t) /\ l - 1 \in 0 .. Len(t)
          /\ Len(s) + l = i /\ Len(s) + (l - 1) = i - 1
      BY <1>3, <2>2
    <3> HIDE DEF l
    <3>2. u[i] = t[l] /\ E[i] = D[l] /\ E[i - 1] = D[l - 1]
      <4>1. u[Len(s) + l] = t[l] /\ E[Len(s) + l] = D[l] /\ E[Len(s) + (l - 1)] = D[l - 1]
        BY <1>3, <1>6, <3>1
      <4>2. QED
        BY <3>1, <4>1
    <3>3. /\ D[l] = D[l - 1] + Len(t[l])
          /\ \A j \in 1 .. Len(t[l]) : t[l][j] = D[l - 1] + j
      BY <1>2, <3>1 DEF Cuts
    <3>4. QED
      BY <3>2, <3>3
  <2>3. QED
    BY <1>3, <2>1, <2>2
<1>9. Cuts(u, d, n, E)
  BY <1>5, <1>7, <1>8 DEF Cuts
<1>10. QED
  BY <1>9 DEF InOrder, u

\* The first chunk holds the next bytes, the rest those after them.
LEMMA TailInOrder ==
  ASSUME NEW s \in Seq(Seq(Byte)), s # <<>>, NEW d, NEW n, InOrder(s, d, n)
  PROVE  /\ d \in Nat /\ n \in Nat
         /\ \A j \in 1 .. Len(Head(s)) : Head(s)[j] = d + j
         /\ InOrder(Tail(s), d + Len(Head(s)), n)
<1>1. PICK C : Cuts(s, d, n, C)
  BY DEF InOrder
<1> DEFINE t == Tail(s)
           D == [i \in 0 .. Len(t) |-> C[i + 1]]
<1>2. /\ Len(s) \in Nat /\ Len(s) >= 1 /\ Len(t) = Len(s) - 1 /\ Head(s) = s[1]
      /\ \A i \in 1 .. Len(t) : t[i] = s[i + 1]
  OBVIOUS
<1> HIDE DEF t
<1>3. /\ C \in [0 .. Len(s) -> Nat] /\ C[0] = d /\ C[Len(s)] = n
      /\ C[1] = C[0] + Len(s[1])
      /\ \A j \in 1 .. Len(s[1]) : s[1][j] = C[0] + j
  <2>1. 1 \in 1 .. Len(s) /\ 1 - 1 = 0
    BY <1>2
  <2>2. QED
    BY <1>1, <2>1 DEF Cuts
<1>4. D \in [0 .. Len(t) -> Nat] /\ D[0] = C[1] /\ D[Len(t)] = C[Len(s)]
  BY <1>2, <1>3
<1>5. ASSUME NEW i \in 1 .. Len(t)
      PROVE  /\ D[i] = D[i - 1] + Len(t[i])
             /\ \A j \in 1 .. Len(t[i]) : t[i][j] = D[i - 1] + j
  <2>1. i + 1 \in 1 .. Len(s) /\ (i + 1) - 1 = i /\ (i - 1) + 1 = i
        /\ i \in 0 .. Len(t) /\ i - 1 \in 0 .. Len(t)
    BY <1>2
  <2>2. D[i] = C[i + 1] /\ D[i - 1] = C[i] /\ t[i] = s[i + 1]
    BY <1>2, <2>1
  <2>3. /\ C[i + 1] = C[(i + 1) - 1] + Len(s[i + 1])
        /\ \A j \in 1 .. Len(s[i + 1]) : s[i + 1][j] = C[(i + 1) - 1] + j
    BY <1>1, <2>1 DEF Cuts
  <2> HIDE DEF D
  <2>4. QED
    BY <2>1, <2>2, <2>3
<1> HIDE DEF D
<1>6. Cuts(t, C[1], n, D)
  BY <1>3, <1>4, <1>5 DEF Cuts
<1>7. d \in Nat /\ n \in Nat
  <2>1. 0 \in 0 .. Len(s) /\ Len(s) \in 0 .. Len(s)
    BY <1>2
  <2>2. QED
    BY <1>3, <2>1
<1>8. QED
  BY <1>2, <1>3, <1>6, <1>7 DEF InOrder, t

-----------------------------------------------------------------------------
(* How many bytes come before a number.                                    *)

\* The distance of the next number, when that is not the first one again.
LEMMA OffNext ==
  ASSUME NEW q \in Peers, NEW s \in SeqNum, Off(q, SeqAdd(s, 1)) >= 1
  PROVE  Off(q, SeqAdd(s, 1)) = Off(q, s) + 1
<1>1. InitSeq[q] \in SeqNum
  BY PeersAssumption
<1>2. 1 < SeqModulus
  BY SeqModulusAssumption
<1>3. SeqAdd(s, 1) = IF s + 1 < SeqModulus THEN s + 1 ELSE s + 1 - SeqModulus
  BY <1>2, SeqAddOnce
<1>4. QED
  BY <1>1, <1>3, SeqModulusAssumption DEF SeqNum, Off

\* How many numbers of q's the other peer has received without a gap.
Received(q) == Off(q, ack_number[Peer(q)])

\* B counts the bytes numbered up to each number: w of them up to number u.
Counts(B, u, w) ==
  /\ B \in [Nat -> Nat]
  /\ \A m, n \in Nat : m <= n => B[m] <= B[n]
  /\ \A n \in Nat : n >= u => B[n] = w

\* The number after n is no byte's: n may be the last number of a packet.
Boundary(B, n) == B[n + 1] = B[n]

\* The packet with number o holds the next bytes, and all up to a boundary.
Carries(B, u, o, payload) ==
  /\ o >= 1 /\ o + Len(payload) <= u
  /\ B[o - 1] = B[o] /\ Boundary(B, o + Len(payload))
  /\ \A i \in 1 .. Len(payload) : B[o + i] = B[o] + i /\ payload[i] = B[o] + i

\* The packets of q hold what q wrote, and acknowledge what q has received.
Sent(q, B) ==
  /\ Counts(B, Used(q), written[q])
  /\ \A x \in Flow(q) :
       /\ x.payload # <<>> => Carries(B, Used(q), Off(q, x.seq), x.payload)
       /\ Off(Peer(q), x.ack) <= Received(Peer(q))

\* What the other peer has of them is what comes first.
Got(q, B) ==
  /\ Received(q) <= Used(q) /\ Boundary(B, Received(q))
  /\ Off(q, peer_ack_number[q]) <= Received(q)
  /\ \A x \in Elems(recv_packets[Peer(q)]) : x.payload # <<>>
  /\ InOrder(reassembled_buffer[Peer(q)], Len(delivered[Peer(q)]), B[Received(q)])
  /\ \A i \in 1 .. Len(delivered[Peer(q)]) : delivered[Peer(q)][i] = i

Ledger(q, B) == Sent(q, B) /\ Got(q, B)

\* The numbers a ledger speaks of are natural numbers.
LEMMA LedgerTypes ==
  ASSUME TypeOK, NEW q \in Peers
  PROVE  /\ Used(q) \in Nat /\ Received(q) \in Nat /\ written[q] \in Nat
         /\ Off(q, peer_ack_number[q]) \in Nat
         /\ Received(Peer(q)) = Off(Peer(q), ack_number[q])
         /\ Received(Peer(q)) \in Nat
<1>1. /\ sequence_number[q] \in SeqNum /\ peer_ack_number[q] \in SeqNum
      /\ ack_number[q] \in SeqNum /\ ack_number[Peer(q)] \in SeqNum
      /\ written[q] \in Nat
  BY TwoPeers DEF TypeOK
<1>2. /\ Off(q, sequence_number[q]) \in Nat /\ Off(q, ack_number[Peer(q)]) \in Nat
      /\ Off(q, peer_ack_number[q]) \in Nat /\ Off(Peer(q), ack_number[q]) \in Nat
  BY <1>1, TwoPeers, OffType
<1>3. QED
  BY <1>1, <1>2, TwoPeers DEF Used, Received

\* Packets that follow each other without a gap hold bytes that do.
LEMMA ChainInOrder ==
  ASSUME NEW q \in Peers, NEW B, NEW u \in Nat, NEW w, Counts(B, u, w),
         u < SeqModulus, NEW ack \in SeqNum, NEW packets \in Seq(Packet),
         NEW k \in Nat, k <= Len(packets), Off(q, ack) <= u, Boundary(B, Off(q, ack)),
         \A i \in 1 .. k : Carries(B, u, Off(q, packets[i].seq), packets[i].payload),
         \A i \in 1 .. k :
           packets[i].seq = SeqAdd(IF i = 1 THEN ack ELSE End(packets[i - 1]), 1)
  PROVE  LET last == Off(q, IF k = 0 THEN ack ELSE End(packets[k]))
         IN  /\ last \in Nat /\ Off(q, ack) <= last /\ last <= u /\ Boundary(B, last)
             /\ InOrder([i \in 1 .. k |-> packets[i].payload], B[Off(q, ack)], B[last])
<1> DEFINE Before(i) == IF i = 0 THEN ack ELSE End(packets[i])
           E(i) == Off(q, Before(i))
           n(i) == Len(packets[i].payload)
<1>1. B \in [Nat -> Nat]
  BY DEF Counts
<1>2. ASSUME NEW i \in 1 .. k
      PROVE  /\ packets[i] \in Packet /\ packets[i].seq \in SeqNum
             /\ packets[i].payload \in Seq(Byte) /\ n(i) \in Nat
  <2>1. i \in 1 .. Len(packets)
    OBVIOUS
  <2>2. packets[i] \in Packet
    BY <2>1
  <2>3. QED
    BY <2>2 DEF Packet
<1>3. ASSUME NEW i \in 0 .. k PROVE Before(i) \in SeqNum /\ E(i) \in Nat
  <2>1. Before(i) \in SeqNum
    <3>1. CASE i = 0
      BY <3>1
    <3>2. CASE i # 0
      <4>1. i \in 1 .. k
        BY <3>2
      <4>2. QED
        BY <1>2, <3>2, <4>1, EndType
    <3>3. QED
      BY <3>1, <3>2
  <2> HIDE DEF Before
  <2>2. QED
    BY <2>1, OffType
<1>4. ASSUME NEW i \in 1 .. k
      PROVE  /\ i - 1 \in 0 .. k /\ i \in 0 .. k
             /\ E(i) = E(i - 1) + 1 + n(i) /\ E(i) <= u
             /\ B[E(i)] = B[E(i - 1)] + n(i) /\ Boundary(B, E(i))
             /\ \A j \in 1 .. n(i) : packets[i].payload[j] = B[E(i - 1)] + j
  <2> DEFINE o == Off(q, packets[i].seq)
             m == n(i)
             pay == packets[i].payload
  <2>1. i - 1 \in 0 .. k /\ i \in 0 .. k /\ (i - 1 = 0 <=> i = 1) /\ i # 0
    OBVIOUS
  <2>2. packets[i].seq = SeqAdd(Before(i - 1), 1)
    BY <2>1
  <2>3. Before(i - 1) \in SeqNum /\ E(i - 1) \in Nat
    BY <1>3, <2>1
  <2>4. /\ o >= 1 /\ o + m <= u /\ B[o - 1] = B[o] /\ Boundary(B, o + m)
        /\ \A j \in 1 .. m : B[o + j] = B[o] + j /\ pay[j] = B[o] + j
    BY DEF Carries
  <2>5. o = E(i - 1) + 1
    BY <2>2, <2>3, <2>4, OffNext
  <2>6. Before(i) = SeqAdd(packets[i].seq, m)
    BY <2>1 DEF End
  <2>7. m \in Nat /\ packets[i].seq \in SeqNum /\ o \in Nat
    BY <1>2, <2>3, <2>5
  <2>8. E(i) = o + m
    <3>1. o + m < SeqModulus
      BY <2>4, <2>7, SeqModulusAssumption
    <3> HIDE DEF m
    <3>2. Off(q, SeqAdd(packets[i].seq, m)) = o + m
      BY <2>7, <3>1, OffAdd
    <3> HIDE DEF o
    <3>3. QED
      BY <2>6, <3>2
  <2> DEFINE e == E(i - 1)
  <2> HIDE DEF o, m, E, e, Before, pay
  <2>9. o - 1 = e /\ e \in Nat
    BY <2>3, <2>5 DEF e
  <2>10. B[o] = B[e] /\ B[e] \in Nat
    BY <1>1, <2>4, <2>9
  <2>11. B[o + m] = B[o] + m
    <3>1. CASE m = 0
      BY <1>1, <2>7, <3>1
    <3>2. CASE m # 0
      <4>1. m \in 1 .. m
        BY <2>7, <3>2
      <4>2. QED
        BY <2>4, <4>1
    <3>3. QED
      BY <3>1, <3>2
  <2>12. E(i) = e + 1 + m
    BY <2>5, <2>7, <2>8, <2>9 DEF e
  <2>13. B[E(i)] = B[e] + m /\ Boundary(B, E(i)) /\ E(i) <= u
    BY <2>4, <2>8, <2>10, <2>11
  <2>14. \A j \in 1 .. m : pay[j] = B[e] + j
    BY <2>4, <2>10
  <2>15. QED
    BY <2>1, <2>12, <2>13, <2>14 DEF e, m, pay
<1> DEFINE C == [i \in 0 .. k |-> B[E(i)]]
           s == [i \in 1 .. k |-> packets[i].payload]
<1> HIDE DEF E, n
<1>5. s \in Seq(Seq(Byte)) /\ Len(s) = k /\ \A i \in 1 .. k : s[i] = packets[i].payload
  <2>1. s \in [1 .. k -> Seq(Byte)]
    BY <1>2
  <2>2. QED
    BY <2>1, FunctionIsSeq
<1> HIDE DEF s
<1>6. C \in [0 .. k -> Nat] /\ C[0] = B[E(0)] /\ C[k] = B[E(k)]
  <2>1. \A i \in 0 .. k : B[E(i)] \in Nat
    BY <1>1, <1>3
  <2>2. QED
    BY <2>1
<1>7. Cuts(s, B[E(0)], B[E(k)], C)
  <2>1. ASSUME NEW i \in 1 .. k
        PROVE  /\ C[i] = C[i - 1] + Len(s[i])
               /\ \A j \in 1 .. Len(s[i]) : s[i][j] = C[i - 1] + j
    <3>1. C[i] = B[E(i)] /\ C[i - 1] = B[E(i - 1)] /\ Len(s[i]) = n(i)
      BY <1>4, <1>5 DEF n
    <3> HIDE DEF C
    <3>2. /\ B[E(i)] = B[E(i - 1)] + n(i)
          /\ \A j \in 1 .. n(i) : packets[i].payload[j] = B[E(i - 1)] + j
      BY <1>4
    <3>3. s[i] = packets[i].payload
      BY <1>5
    <3>4. QED
      BY <3>1, <3>2, <3>3
  <2> HIDE DEF C
  <2>2. QED
    BY <1>5, <1>6, <2>1 DEF Cuts
<1> HIDE DEF C
<1>8. E(0) <= E(k)
  <2> DEFINE T == {i \in Nat : i <= k => E(0) <= E(i)}
  <2>1. 0 \in T
    BY <1>3
  <2>2. ASSUME NEW i \in Nat, i \in T PROVE i + 1 \in T
    <3> SUFFICES ASSUME i + 1 <= k PROVE E(0) <= E(i + 1)
      OBVIOUS
    <3>1. i + 1 \in 1 .. k /\ (i + 1) - 1 = i /\ i <= k
      OBVIOUS
    <3>2. E(i + 1) = E(i) + 1 + n(i + 1) /\ n(i + 1) \in Nat
      BY <1>2, <1>4, <3>1
    <3>3. E(i) \in Nat /\ E(0) \in Nat /\ E(0) <= E(i)
      BY <1>3, <2>2, <3>1
    <3>4. QED
      BY <3>2, <3>3
  <2> HIDE DEF T
  <2>3. k \in T
    BY <2>1, <2>2, Induct
  <2>4. QED
    BY <2>3 DEF T
<1>9. E(k) \in Nat /\ E(k) <= u /\ Boundary(B, E(k))
  <2>1. CASE k = 0
    BY <1>3, <2>1 DEF E
  <2>2. CASE k # 0
    <3>1. k \in 1 .. k
      BY <2>2
    <3>2. QED
      BY <1>3, <1>4, <3>1
  <2>3. QED
    BY <2>1, <2>2
<1>10. InOrder(s, B[E(0)], B[E(k)])
  BY <1>7 DEF InOrder
<1>11. QED
  BY <1>8, <1>9, <1>10 DEF E, s

\* Chunks in order end where they start, or later.
LEMMA InOrderGrows ==
  ASSUME NEW s \in Seq(Seq(Byte)), NEW d, NEW n, InOrder(s, d, n)
  PROVE  d \in Nat /\ n \in Nat /\ d <= n
<1>1. PICK C : Cuts(s, d, n, C)
  BY DEF InOrder
<1>2. Len(s) \in Nat /\ \A i \in 1 .. Len(s) : Len(s[i]) \in Nat
  OBVIOUS
<1>3. /\ C \in [0 .. Len(s) -> Nat] /\ C[0] = d /\ C[Len(s)] = n
      /\ \A i \in 1 .. Len(s) : C[i] = C[i - 1] + Len(s[i])
  BY <1>1 DEF Cuts
<1> DEFINE T == {i \in Nat : i <= Len(s) => C[0] <= C[i]}
<1>4. 0 \in 0 .. Len(s) /\ Len(s) \in 0 .. Len(s)
  BY <1>2
<1>5. 0 \in T
  BY <1>3, <1>4
<1>6. ASSUME NEW i \in Nat, i \in T PROVE i + 1 \in T
  <2> SUFFICES ASSUME i + 1 <= Len(s) PROVE C[0] <= C[i + 1]
    OBVIOUS
  <2>1. i + 1 \in 1 .. Len(s) /\ (i + 1) - 1 = i /\ i <= Len(s) /\ i \in 0 .. Len(s)
    BY <1>2
  <2>2. C[i + 1] = C[i] + Len(s[i + 1]) /\ Len(s[i + 1]) \in Nat
    BY <1>2, <1>3, <2>1
  <2>3. C[i] \in Nat /\ C[0] \in Nat /\ C[0] <= C[i]
    BY <1>3, <1>4, <1>6, <2>1
  <2>4. QED
    BY <2>2, <2>3
<1> HIDE DEF T
<1>7. Len(s) \in T
  BY <1>2, <1>5, <1>6, Induct
<1>8. QED
  BY <1>2, <1>3, <1>4, <1>7 DEF T

\* Receiving moves the acknowledged number over whole packets and puts their
\* bytes, which come next, at the end of the buffer.
LEMMA ReceiveGot ==
  ASSUME TypeOK, NEW q \in Peers, NEW B, Ledger(q, B), Used(q) < SeqModulus,
         Receive(Peer(q))
  PROVE  /\ Received(q)' \in Nat /\ Received(q) <= Received(q)'
         /\ Received(q)' <= Used(q) /\ Boundary(B, Received(q)')
         /\ InOrder(reassembled_buffer'[Peer(q)], Len(delivered[Peer(q)]),
                    B[Received(q)'])
<1> DEFINE p == Peer(q)
<1>1. p \in Peers
  BY TwoPeers
<1>2. /\ Used(q) \in Nat /\ Received(q) \in Nat /\ Received(q) <= Used(q)
      /\ Boundary(B, Received(q)) /\ Counts(B, Used(q), written[q])
      /\ InOrder(reassembled_buffer[p], Len(delivered[p]), B[Received(q)])
      /\ Received(q) = Off(q, ack_number[p])
      /\ Received(q)' = Off(q, ack_number'[p])
  BY LedgerTypes DEF Ledger, Sent, Got, Received
<1> HIDE DEF p
<1>3. Receive(p)
  BY DEF p
<1>4. PICK pkt \in network[p] :
        /\ pkt \in Packet
        /\ \/ UNCHANGED <<ack_number, recv_packets, reassembled_buffer>>
           \/ pkt.payload # <<>> /\ Buffers(p, pkt)
  BY <1>1, <1>3, ReceiveEffect
<1>5. CASE UNCHANGED <<ack_number, recv_packets, reassembled_buffer>>
  BY <1>2, <1>5 DEF p
<1>6. CASE pkt.payload # <<>> /\ Buffers(p, pkt)
  <2> DEFINE packets == InsertInOrder(recv_packets[p], pkt)
             ack == ack_number[p]
             k == Reassembled(packets, ack)
             s == [i \in 1 .. k |-> packets[i].payload]
             new == IF k = 0 THEN ack ELSE End(packets[k])
  <2>1. /\ recv_packets[p] \in Seq(Packet) /\ reassembled_buffer[p] \in Seq(Seq(Byte))
        /\ ack \in SeqNum
    BY <1>1 DEF TypeOK
  <2>2. packets \in Seq(Packet)
        /\ Elems(packets) \subseteq Elems(recv_packets[p]) \cup {pkt}
    BY <1>4, <2>1, InsertInOrderType, InsertedElems
  <2>3. /\ ack_number'[p] = new
        /\ reassembled_buffer'[p] = reassembled_buffer[p] \o s
    BY <1>6 DEF Buffers
  <2>4. Elems(packets) \subseteq Flow(q) /\ \A x \in Elems(packets) : x.payload # <<>>
    <3>1. /\ Elems(recv_packets[p]) \subseteq Flow(q) /\ pkt \in Flow(q)
          /\ \A x \in Elems(recv_packets[p]) : x.payload # <<>>
      BY <1>4 DEF Flow, p, Ledger, Got
    <3>2. QED
      BY <1>6, <2>2, <3>1
  <2>5. \A x \in Flow(q) : x.payload # <<>> => Carries(B, Used(q), Off(q, x.seq), x.payload)
    BY DEF Ledger, Sent
  <2> HIDE DEF packets
  <2>6. /\ Len(packets) \in Nat /\ k \in 0 .. Len(packets)
        /\ \A i \in 1 .. k :
             packets[i].seq = SeqAdd(IF i = 1 THEN ack ELSE End(packets[i - 1]), 1)
    BY <2>2, ReassembledChain
  <2> HIDE DEF k
  <2>7. \A i \in 1 .. k : packets[i] \in Elems(packets) /\ packets[i] \in Packet
    <3>1. \A i \in 1 .. k : i \in 1 .. Len(packets)
      BY <2>6
    <3>2. QED
      BY <2>2, <3>1, ElemsIs
  <2>8. \A i \in 1 .. k : Carries(B, Used(q), Off(q, packets[i].seq), packets[i].payload)
    BY <2>4, <2>5, <2>7
  <2>9. /\ Off(q, new) \in Nat /\ Off(q, ack) <= Off(q, new) /\ Off(q, new) <= Used(q)
        /\ Boundary(B, Off(q, new))
        /\ InOrder(s, B[Off(q, ack)], B[Off(q, new)])
    <3>1. k \in Nat /\ k <= Len(packets)
      BY <2>6
    <3>2. Off(q, ack) <= Used(q) /\ Boundary(B, Off(q, ack))
      BY <1>2
    <3> HIDE DEF ack
    <3>3. QED
      BY <1>2, <2>1, <2>2, <2>6, <2>8, <3>1, <3>2, ChainInOrder
  <2>10. s \in Seq(Seq(Byte))
    <3>1. \A i \in 1 .. k : packets[i].payload \in Seq(Byte)
      BY <2>7 DEF Packet
    <3>2. s \in [1 .. k -> Seq(Byte)]
      BY <3>1
    <3>3. QED
      BY <2>6, <3>2, FunctionIsSeq
  <2> HIDE DEF s, new
  <2>11. InOrder(reassembled_buffer[p] \o s, Len(delivered[p]), B[Off(q, new)])
    BY <1>2, <2>1, <2>9, <2>10, ConcatInOrder
  <2>12. QED
    BY <1>2, <2>3, <2>9, <2>11 DEF p
<1>7. QED
  BY <1>4, <1>5, <1>6

\* Reading takes the next bytes off the buffer.
LEMMA ReadGot ==
  ASSUME TypeOK, NEW q \in Peers, NEW B, Got(q, B), Read(Peer(q))
  PROVE  \E n \in Nat \ {0} :
           /\ delivered' = [delivered EXCEPT ![Peer(q)] =
                              @ \o [i \in 1 .. n |-> Len(@) + i]]
           /\ Len(delivered'[Peer(q)]) = Len(delivered[Peer(q)]) + n
           /\ \A i \in 1 .. Len(delivered'[Peer(q)]) : delivered'[Peer(q)][i] = i
           /\ InOrder(reassembled_buffer'[Peer(q)], Len(delivered'[Peer(q)]),
                      B[Received(q)])
<1> DEFINE p == Peer(q)
           buffer == reassembled_buffer[p]
           read == delivered[p]
           chunk == Head(buffer)
           d == Len(read)
           m == B[Received(q)]
<1>1. p \in Peers /\ read \in Seq(Byte) /\ d \in Nat
  BY TwoPeers DEF TypeOK
<1>2. InOrder(buffer, d, m) /\ \A i \in 1 .. d : read[i] = i
  BY DEF Got
<1>3. /\ buffer \in Seq(Seq(Byte)) /\ buffer # <<>> /\ chunk \in Seq(Byte)
      /\ Len(chunk) \in Nat /\ Tail(buffer) \in Seq(Seq(Byte))
  <2>1. buffer \in Seq(Seq(Byte)) /\ buffer # <<>>
    BY <1>1, ReadEffect
  <2>2. QED
    BY <2>1
<1>4. PICK n \in 1 .. Len(chunk) :
        /\ reassembled_buffer'[p] = IF n = Len(chunk) THEN Tail(buffer)
                                    ELSE <<SubSeq(chunk, n + 1, Len(chunk))>> \o Tail(buffer)
        /\ delivered' = [delivered EXCEPT ![p] = @ \o SubSeq(chunk, 1, n)]
  BY <1>1, ReadEffect
<1>5. d \in Nat /\ m \in Nat /\ (\A j \in 1 .. Len(chunk) : chunk[j] = d + j)
      /\ InOrder(Tail(buffer), d + Len(chunk), m)
  <2> HIDE DEF buffer, d, m
  <2>1. QED
    BY <1>2, <1>3, TailInOrder
<1> DEFINE first == SubSeq(chunk, 1, n)
           rest == SubSeq(chunk, n + 1, Len(chunk))
           next == [i \in 1 .. n |-> d + i]
<1>6. n \in Nat /\ n >= 1 /\ n <= Len(chunk)
  BY <1>3
<1> HIDE DEF chunk
<1>7. /\ first \in Seq(Byte) /\ Len(first) = n /\ \A i \in 1 .. n : first[i] = chunk[i]
      /\ rest \in Seq(Byte) /\ Len(rest) = Len(chunk) - n
      /\ \A i \in 1 .. Len(chunk) - n : rest[i] = chunk[n + i]
  BY <1>3, <1>6
<1> HIDE DEF first, rest
<1>8. first = next
  <2>1. /\ DOMAIN first = 1 .. n /\ DOMAIN next = 1 .. n
        /\ first = [i \in DOMAIN first |-> first[i]]
    BY <1>6, <1>7
  <2>2. \A i \in 1 .. n : first[i] = next[i]
    <3> HIDE DEF d
    <3>1. ASSUME NEW i \in 1 .. n PROVE first[i] = d + i
      <4>1. i \in 1 .. Len(chunk)
        BY <1>3, <1>6
      <4>2. QED
        BY <1>5, <1>7, <4>1
    <3>2. QED
      BY <3>1
  <2> HIDE DEF next
  <2>3. next = [i \in DOMAIN next |-> next[i]]
    BY DEF next
  <2>4. QED
    BY <2>1, <2>2, <2>3
<1>9. delivered'[p] = read \o first
  BY <1>1, <1>4 DEF TypeOK, first
<1>10. /\ Len(read \o first) = d + n
       /\ \A i \in 1 .. d + n : (read \o first)[i] = i
  <2>1. /\ Len(read \o first) = d + n
        /\ \A i \in 1 .. d + n : (read \o first)[i] = IF i <= d THEN read[i] ELSE first[i - d]
    <3> DEFINE both == read \o first
    <3> HIDE DEF read
    <3>1. /\ Len(both) = Len(read) + Len(first)
          /\ \A i \in 1 .. Len(read) + Len(first) :
               both[i] = IF i <= Len(read) THEN read[i] ELSE first[i - Len(read)]
      BY <1>1, <1>7, ConcatIs
    <3> HIDE DEF both
    <3>2. QED
      BY <1>7, <3>1 DEF both
  <2>2. ASSUME NEW i \in 1 .. d + n PROVE (read \o first)[i] = i
    <3> HIDE DEF read, d
    <3>1. CASE i <= d
      <4>1. i \in 1 .. d
        BY <1>1, <3>1
      <4>2. QED
        BY <1>2, <2>1, <3>1, <4>1
    <3>2. CASE i > d
      <4>1. i - d \in 1 .. n /\ i - d \in 1 .. Len(chunk) /\ d + (i - d) = i
        BY <1>1, <1>3, <1>6, <3>2
      <4>2. first[i - d] = chunk[i - d] /\ chunk[i - d] = d + (i - d)
        BY <1>5, <1>7, <4>1
      <4>3. QED
        BY <1>1, <2>1, <3>2, <4>1, <4>2
    <3>3. i <= d \/ i > d
      BY <1>1, <1>6
    <3>4. QED
      BY <3>1, <3>2, <3>3
  <2>3. QED
    BY <2>1, <2>2
<1>11. InOrder(reassembled_buffer'[p], d + n, m)
  <2> HIDE DEF d, m, buffer
  <2>1. CASE n = Len(chunk)
    <3>1. reassembled_buffer'[p] = Tail(buffer)
      BY <1>4, <2>1 DEF chunk, buffer
    <3>2. QED
      BY <1>5, <2>1, <3>1
  <2>2. CASE n # Len(chunk)
    <3>1. reassembled_buffer'[p] = <<rest>> \o Tail(buffer)
      BY <1>4, <2>2 DEF chunk, buffer, rest
    <3>2. \A j \in 1 .. Len(rest) : rest[j] = (d + n) + j
      <4> SUFFICES ASSUME NEW j \in 1 .. Len(rest) PROVE rest[j] = (d + n) + j
        OBVIOUS
      <4>1. j \in 1 .. Len(chunk) - n /\ n + j \in 1 .. Len(chunk)
        BY <1>3, <1>6, <1>7
      <4>2. rest[j] = chunk[n + j] /\ chunk[n + j] = d + (n + j)
        BY <1>5, <1>7, <4>1
      <4>3. QED
        BY <1>1, <1>6, <4>1, <4>2
    <3>3. InOrder(<<rest>>, d + n, (d + n) + Len(rest)) /\ (d + n) + Len(rest) = d + Len(chunk)
      <4>1. d + n \in Nat /\ (d + n) + Len(rest) = d + Len(chunk)
        BY <1>1, <1>3, <1>6, <1>7
      <4>2. QED
        BY <1>7, <3>2, <4>1, OneInOrder
    <3>4. <<rest>> \in Seq(Seq(Byte))
      BY <1>7
    <3>5. InOrder(<<rest>> \o Tail(buffer), d + n, m)
      BY <1>3, <1>5, <3>3, <3>4, ConcatInOrder DEF buffer
    <3>6. QED
      BY <3>1, <3>5
  <2>3. QED
    BY <2>1, <2>2
<1>12. delivered' = [delivered EXCEPT ![p] = @ \o [i \in 1 .. n |-> Len(@) + i]]
  BY <1>4, <1>8 DEF first, next, d, read
<1>13. QED
  <2>1. Len(delivered'[p]) = d + n /\ \A i \in 1 .. Len(delivered'[p]) : delivered'[p][i] = i
    BY <1>9, <1>10
  <2> HIDE DEF first, next
  <2>2. n \in Nat \ {0}
    BY <1>6
  <2>3. QED
    BY <1>11, <1>12, <2>1, <2>2

-----------------------------------------------------------------------------
(* The ledger is kept.                                                     *)

\* Who changes what was received and read.
LEMMA BufferEffect ==
  ASSUME TypeOK, NEW p \in Peers, Step(p)
  PROVE  /\ ~Receive(p) => UNCHANGED ack_number
         /\ ~Read(p) => UNCHANGED delivered
         /\ ~Read(p) /\ ~Receive(p) => UNCHANGED reassembled_buffer
<1>1. CASE Receive(p) \/ Read(p)
  BY <1>1 DEF Receive, Read
<1>2. CASE Write(p) \/ Shutdown(p) \/ Post(p) \/ RecvTimeout(p) \/ Timers(p) \/ Lose(p)
  BY <1>2 DEF Write, Shutdown, Post, Timers, ResendTimer, ScheduleResend,
              RecvTimeout, Lose, endVars, envVars
<1>3. CASE SendLoop(p)
  BY <1>3 DEF SendLoop, TakeUpdate, TakePacket, TakeClose, MakeUpdatePacket,
              SendPacket, KeepAlive, endVars, envVars
<1>4. QED
  BY <1>1, <1>2, <1>3 DEF Step, Application, RecvLoop

\* What a peer takes for acknowledged is what a datagram said.
LEMMA PeerAckEffect ==
  ASSUME TypeOK, NEW p \in Peers, Step(p)
  PROVE  \/ UNCHANGED peer_ack_number
         \/ \E x \in network[p] : peer_ack_number'[p] = x.ack
<1>1. CASE Receive(p)
  BY <1>1, ReceiveEffect
<1>2. CASE Application(p) \/ Post(p) \/ RecvTimeout(p) \/ Timers(p) \/ Lose(p)
  BY <1>2 DEF Application, Write, Read, Shutdown, Post, Timers, ResendTimer,
              ScheduleResend, RecvTimeout, Lose, endVars
<1>3. CASE SendLoop(p)
  BY <1>3 DEF SendLoop, TakeUpdate, TakePacket, TakeClose, MakeUpdatePacket,
              SendPacket, KeepAlive, endVars
<1>4. QED
  BY <1>1, <1>2, <1>3 DEF Step, RecvLoop

\* Numbers are handed out by writes and close packets.
LEMMA NumbersEffect ==
  ASSUME TypeOK, NEW p \in Peers, Step(p), ~Write(p)
  PROVE  /\ UNCHANGED written
         /\ ~TakeClose(p) => UNCHANGED sequence_number
<1>1. CASE Read(p) \/ Shutdown(p) \/ Post(p) \/ RecvLoop(p) \/ Timers(p) \/ Lose(p)
  BY <1>1 DEF Read, Shutdown, Post, Timers, ResendTimer, ScheduleResend,
              RecvLoop, Receive, RecvTimeout, Lose, endVars, envVars
<1>2. CASE SendLoop(p)
  BY <1>2 DEF SendLoop, TakeUpdate, TakePacket, TakeClose, MakeUpdatePacket,
              SendPacket, KeepAlive, endVars, envVars
<1>3. QED
  BY <1>1, <1>2 DEF Step, Application

\* Numbers are never given back.
LEMMA UsedGrows ==
  ASSUME TypeOK, TypeOK', WithinQuota, NumbersSuffice,
         \A r \in Peers : Budget(r), NEW p \in Peers, Step(p), ~Write(p),
         NEW q \in Peers
  PROVE  Used(q) <= Used(q)' /\ Used(q)' \in Nat /\ written'[q] = written[q]
<1>1. Used(q) \in Nat
  BY LedgerTypes
<1>2. CASE q = p /\ TakeClose(p)
  <2>1. Used(q)' = Used(q) + 1
    BY <1>2, TakeCloseBudget
  <2>2. QED
    BY <1>1, <2>1, NumbersEffect
<1>3. CASE q # p \/ ~TakeClose(p)
  <2>1. sequence_number'[q] = sequence_number[q]
    BY <1>3, NumbersEffect, OthersUntouched DEF Untouched
  <2>2. Used(q)' = Used(q)
    BY <2>1 DEF Used
  <2>3. QED
    BY <1>1, <2>2, NumbersEffect
<1>4. QED
  BY <1>2, <1>3

\* What the receiving side has only grows, by what comes next.
LEMMA GotGrows ==
  ASSUME TypeOK, NEW q \in Peers, NEW B, Ledger(q, B), Used(q) < SeqModulus,
         NEW p \in Peers, Step(p)
  PROVE  /\ Received(q)' \in Nat /\ Received(q) <= Received(q)'
         /\ Received(q)' <= Used(q) /\ Boundary(B, Received(q)')
         /\ InOrder(reassembled_buffer'[Peer(q)], Len(delivered'[Peer(q)]),
                    B[Received(q)'])
         /\ \A i \in 1 .. Len(delivered'[Peer(q)]) : delivered'[Peer(q)][i] = i
<1> DEFINE r == Peer(q)
<1>1. /\ Received(q) \in Nat /\ Received(q) <= Used(q) /\ Boundary(B, Received(q))
      /\ InOrder(reassembled_buffer[r], Len(delivered[r]), B[Received(q)])
      /\ \A i \in 1 .. Len(delivered[r]) : delivered[r][i] = i
      /\ Got(q, B)
  BY LedgerTypes DEF Ledger, Got
<1>2. Received(q) = Off(q, ack_number[r]) /\ Received(q)' = Off(q, ack_number'[r])
  BY DEF Received
<1>3. CASE p = r /\ Receive(p)
  <2>1. /\ Received(q)' \in Nat /\ Received(q) <= Received(q)'
        /\ Received(q)' <= Used(q) /\ Boundary(B, Received(q)')
        /\ InOrder(reassembled_buffer'[r], Len(delivered[r]), B[Received(q)'])
    BY <1>3, ReceiveGot
  <2>2. delivered' = delivered
    BY <1>3 DEF Receive
  <2>3. QED
    BY <1>1, <2>1, <2>2
<1>4. CASE p = r /\ Read(p)
  <2>1. /\ \A i \in 1 .. Len(delivered'[r]) : delivered'[r][i] = i
        /\ InOrder(reassembled_buffer'[r], Len(delivered'[r]), B[Received(q)])
    BY <1>1, <1>4, ReadGot
  <2>2. ack_number' = ack_number
    BY <1>4 DEF Read
  <2>3. Received(q)' = Received(q)
    BY <1>2, <2>2
  <2> HIDE DEF r
  <2>4. QED
    BY <1>1, <2>1, <2>3 DEF r
<1>5. CASE p # r \/ (~Receive(p) /\ ~Read(p))
  <2>1. /\ ack_number'[r] = ack_number[r] /\ delivered'[r] = delivered[r]
        /\ reassembled_buffer'[r] = reassembled_buffer[r]
    <3>1. CASE p # r
      <4>1. Untouched(r)
        BY <3>1, TwoPeers, OthersUntouched
      <4>2. QED
        BY <4>1 DEF Untouched
    <3>2. CASE ~Receive(p) /\ ~Read(p)
      BY <3>2, BufferEffect
    <3>3. QED
      BY <1>5, <3>1, <3>2
  <2>2. Received(q)' = Received(q)
    BY <1>2, <2>1
  <2> HIDE DEF r
  <2>3. QED
    BY <1>1, <2>1, <2>2 DEF r
<1>6. QED
  BY <1>3, <1>4, <1>5

\* What a peer takes as acknowledged, the other one has acknowledged.
LEMMA AckedGrows ==
  ASSUME TypeOK, NEW q \in Peers, NEW B, Ledger(q, B), NEW A, Ledger(Peer(q), A),
         NEW p \in Peers, Step(p)
  PROVE  Off(q, peer_ack_number'[q]) <= Received(q)
<1>1. Off(q, peer_ack_number[q]) <= Received(q)
  BY DEF Ledger, Got
<1>2. CASE p = q
  <2>1. ASSUME NEW x \in network[p] PROVE Off(q, x.ack) <= Received(q)
    <3> DEFINE r == Peer(q)
    <3>1. r \in Peers /\ Peer(r) = q
      BY TwoPeers
    <3> HIDE DEF r
    <3>2. x \in Flow(r) /\ Ledger(r, A)
      BY <1>2, <3>1 DEF Flow, r
    <3>3. QED
      BY <3>1, <3>2 DEF Ledger, Sent
  <2>2. QED
    BY <1>1, <1>2, <2>1, PeerAckEffect
<1>3. CASE p # q
  BY <1>1, <1>3, OthersUntouched DEF Untouched
<1>4. QED
  BY <1>2, <1>3

\* A packet's bytes are the same in a ledger that goes on.
LEMMA CarriesMore ==
  ASSUME NEW B, NEW C, NEW u \in Nat, NEW v \in Nat, u <= v, NEW o \in Nat,
         NEW payload \in Seq(Byte),
         \A n \in Nat : n <= u + 1 => C[n] = B[n],
         Carries(B, u, o, payload)
  PROVE  Carries(C, v, o, payload)
<1> DEFINE m == Len(payload)
<1>1. m \in Nat /\ o >= 1 /\ o + m <= u
  BY DEF Carries
<1>2. /\ B[o - 1] = B[o] /\ B[o + m + 1] = B[o + m]
      /\ \A i \in 1 .. m : B[o + i] = B[o] + i /\ payload[i] = B[o] + i
  BY DEF Carries, Boundary
<1> HIDE DEF m
<1>3. C[o - 1] = B[o - 1] /\ C[o] = B[o] /\ C[o + m] = B[o + m]
      /\ C[o + m + 1] = B[o + m + 1] /\ o + m <= v
  BY <1>1
<1>4. ASSUME NEW i \in 1 .. m PROVE C[o + i] = B[o + i]
  <2>1. o + i \in Nat /\ o + i <= u + 1
    BY <1>1
  <2>2. QED
    BY <2>1
<1>5. /\ C[o - 1] = C[o] /\ C[o + m + 1] = C[o + m]
      /\ \A i \in 1 .. m : C[o + i] = C[o] + i /\ payload[i] = C[o] + i
  BY <1>2, <1>3, <1>4
<1>6. QED
  BY <1>1, <1>3, <1>5 DEF Carries, Boundary, m

\* The ledger of a direction stays what it is until its writer writes.
LEMMA LedgerKept ==
  ASSUME TypeOK, TypeOK', WithinQuota, NumbersSuffice, \A r \in Peers : Budget(r),
         NEW q \in Peers, NEW B, Ledger(q, B), NEW A, Ledger(Peer(q), A),
         NEW p \in Peers, Step(p), ~Write(p)
  PROVE  Ledger(q, B)'
<1> DEFINE r == Peer(q)
<1>1. r \in Peers /\ r # q /\ Peer(r) = q /\ (p = q \/ p = r)
  BY TwoPeers
<1>2. /\ Used(q) \in Nat /\ Used(q) < SeqModulus /\ Used(r) < SeqModulus
      /\ Used(q)' \in Nat /\ Used(q) <= Used(q)' /\ written'[q] = written[q]
  <2>1. ASSUME NEW s \in Peers PROVE Used(s) \in Nat /\ Used(s) < SeqModulus
    <3>1. Used(s) <= 3 * written[s] + 2 /\ 3 * written[s] + 2 < SeqModulus
      BY UsedBound
    <3>2. QED
      BY <3>1, LedgerTypes, SeqModulusAssumption
  <2>2. QED
    BY <1>1, <2>1, UsedGrows
<1>3. /\ Received(q) \in Nat /\ Received(r) \in Nat
      /\ Received(r) = Off(r, ack_number[q])
  BY LedgerTypes
<1>4. /\ Received(q)' \in Nat /\ Received(q) <= Received(q)'
      /\ Received(q)' <= Used(q) /\ Boundary(B, Received(q)')
      /\ InOrder(reassembled_buffer'[r], Len(delivered'[r]), B[Received(q)'])
      /\ \A i \in 1 .. Len(delivered'[r]) : delivered'[r][i] = i
  BY <1>2, GotGrows
<1>5. Received(r)' \in Nat /\ Received(r) <= Received(r)'
  BY <1>1, <1>2, GotGrows
<1>6. Off(q, peer_ack_number'[q]) <= Received(q) /\ Off(q, peer_ack_number'[q]) \in Nat
  <2>1. peer_ack_number'[q] \in SeqNum
    BY DEF TypeOK
  <2>2. QED
    BY <2>1, AckedGrows, OffType
<1>7. \A x \in Elems(recv_packets'[r]) : x.payload # <<>>
  <2>1. \A x \in Elems(recv_packets[r]) : x.payload # <<>>
    BY DEF Ledger, Got
  <2>2. CASE p = r
    BY <2>1, <2>2, RecvEffect
  <2>3. CASE p # r
    <3>1. recv_packets'[r] = recv_packets[r]
      BY <1>1, <2>3, OthersUntouched DEF Untouched
    <3>2. QED
      BY <2>1, <3>1
  <2>4. QED
    BY <2>2, <2>3
<1> HIDE DEF r
<1>8. Got(q, B)'
  <2>1. Received(q)' <= Used(q)' /\ Off(q, peer_ack_number'[q]) <= Received(q)'
    BY <1>2, <1>3, <1>4, <1>6
  <2>2. QED
    BY <1>4, <1>7, <2>1 DEF Got, r
<1>9. Counts(B, Used(q)', written'[q])
  <2>1. Counts(B, Used(q), written[q])
    BY DEF Ledger, Sent
  <2>2. \A n \in Nat : n >= Used(q)' => n >= Used(q)
    BY <1>2
  <2>3. QED
    BY <1>2, <2>1, <2>2 DEF Counts
<1>10. ASSUME NEW x \in Flow(q)'
       PROVE  /\ x.payload # <<>> => Carries(B, Used(q)', Off(q, x.seq), x.payload)
              /\ Off(r, x.ack) <= Received(r)'
  <2>1. MadeFrom(x, Flow(q), q)
    BY StepFlow DEF FlowGrows
  <2>2. \A y \in Flow(q) :
          /\ y \in Packet
          /\ y.payload # <<>> => Carries(B, Used(q), Off(q, y.seq), y.payload)
          /\ Off(r, y.ack) <= Received(r)
    BY FlowType DEF Ledger, Sent, r
  <2>3. ASSUME x.payload # <<>>
        PROVE  Carries(B, Used(q)', Off(q, x.seq), x.payload)
    <3>1. PICK y \in Flow(q) : y.seq = x.seq /\ y.payload = x.payload
      BY <2>1, <2>3 DEF MadeFrom
    <3>2. y.seq \in SeqNum /\ y.payload \in Seq(Byte)
      BY <2>2 DEF Packet
    <3>3. Carries(B, Used(q), Off(q, y.seq), y.payload) /\ Off(q, y.seq) \in Nat
      BY <2>2, <2>3, <3>1, <3>2, OffType
    <3>4. Carries(B, Used(q)', Off(q, y.seq), y.payload)
      <4> DEFINE u == Used(q)
                 v == Used(q)'
                 o == Off(q, y.seq)
      <4> HIDE DEF u, v, o
      <4>1. u \in Nat /\ v \in Nat /\ u <= v /\ o \in Nat /\ Carries(B, u, o, y.payload)
        BY <1>2, <3>3 DEF u, v, o
      <4>2. Carries(B, v, o, y.payload)
        BY <3>2, <4>1, CarriesMore
      <4>3. QED
        BY <4>2 DEF v, o
    <3>5. QED
      BY <3>1, <3>4
  <2>4. Off(r, x.ack) <= Received(r)
    <3>1. CASE x.ack = ack_number[q]
      BY <1>3, <3>1
    <3>2. CASE x.ack # ack_number[q]
      BY <2>1, <2>2, <3>2 DEF MadeFrom
    <3>3. QED
      BY <3>1, <3>2
  <2>5. Off(r, x.ack) \in Nat
    <3>1. x.ack = ack_number[q] \/ \E y \in Flow(q) : y.ack = x.ack
      BY <2>1 DEF MadeFrom
    <3>2. x.ack \in SeqNum
      BY <2>2, <3>1 DEF TypeOK, Packet
    <3>3. QED
      BY <1>1, <3>2, OffType
  <2>6. Off(r, x.ack) <= Received(r)'
    BY <1>3, <1>5, <2>4, <2>5
  <2>7. QED
    BY <2>3, <2>6
<1>11. Sent(q, B)'
  BY <1>9, <1>10 DEF Sent, r
<1>12. QED
  BY <1>8, <1>11 DEF Ledger

\* C counts n bytes more than B does.
Extends(C, B, u, w, n) ==
  /\ Counts(C, u + 1 + n, w + n)
  /\ \A o \in Nat : o <= u + 1 => C[o] = B[o]
  /\ \A i \in 0 .. n : C[u + 1 + i] = w + i

\* More bytes can be counted, after one number that is no byte's.
LEMMA ExtendCounts ==
  ASSUME NEW B, NEW u \in Nat, NEW w \in Nat, NEW n \in Nat, Counts(B, u, w)
  PROVE  \E C : Extends(C, B, u, w, n)
<1> DEFINE C == [o \in Nat |-> IF o <= u + 1 THEN B[o]
                               ELSE IF o <= u + 1 + n THEN w + (o - (u + 1))
                               ELSE w + n]
<1>1. /\ B \in [Nat -> Nat] /\ \A i, j \in Nat : i <= j => B[i] <= B[j]
      /\ \A o \in Nat : o >= u => B[o] = w
  BY DEF Counts
<1>2. C \in [Nat -> Nat]
  BY <1>1
<1>3. /\ \A o \in Nat : o <= u + 1 => C[o] = B[o]
      /\ \A o \in Nat : o > u + 1 /\ o <= u + 1 + n => C[o] = w + (o - (u + 1))
      /\ \A o \in Nat : o > u + 1 + n => C[o] = w + n
  OBVIOUS
<1> HIDE DEF C
<1>4. \A o \in Nat : o <= u => B[o] <= w
  <2> SUFFICES ASSUME NEW o \in Nat, o <= u PROVE B[o] <= w
    OBVIOUS
  <2>1. B[u] = w /\ B[o] <= B[u]
    BY <1>1
  <2>2. QED
    BY <2>1
<1>5. \A i \in 0 .. n : C[u + 1 + i] = w + i
  <2> SUFFICES ASSUME NEW i \in 0 .. n PROVE C[u + 1 + i] = w + i
    OBVIOUS
  <2>1. CASE i = 0
    <3>1. u + 1 \in Nat /\ u + 1 <= u + 1 /\ u + 1 >= u
      OBVIOUS
    <3>2. C[u + 1] = w
      BY <1>1, <1>3, <3>1
    <3>3. QED
      BY <2>1, <3>2
  <2>2. CASE i # 0
    <3>1. /\ u + 1 + i \in Nat /\ u + 1 + i > u + 1 /\ u + 1 + i <= u + 1 + n
          /\ (u + 1 + i) - (u + 1) = i
      BY <2>2
    <3>2. QED
      BY <1>3, <3>1
  <2>3. QED
    BY <2>1, <2>2
<1>6. \A o \in Nat : o >= u + 1 + n => C[o] = w + n
  <2> SUFFICES ASSUME NEW o \in Nat, o >= u + 1 + n PROVE C[o] = w + n
    OBVIOUS
  <2>1. CASE o = u + 1 + n
    <3>1. n \in 0 .. n
      OBVIOUS
    <3>2. C[u + 1 + n] = w + n
      BY <1>5, <3>1
    <3>3. QED
      BY <2>1, <3>2
  <2>2. CASE o > u + 1 + n
    BY <1>3, <2>2
  <2>3. QED
    BY <2>1, <2>2
<1>7. ASSUME NEW i \in Nat, NEW j \in Nat, i <= j PROVE C[i] <= C[j]
  <2>1. CASE j <= u + 1
    <3>1. C[i] = B[i] /\ C[j] = B[j] /\ B[i] <= B[j]
      BY <1>1, <1>3, <1>7, <2>1
    <3>2. QED
      BY <3>1
  <2>2. CASE j > u + 1 /\ i <= u + 1
    <3>1. B[i] <= w /\ B[i] \in Nat
      BY <1>1, <1>4, <2>2
    <3>2. C[i] = B[i]
      BY <1>3, <2>2
    <3>3. C[j] >= w /\ C[j] \in Nat
      <4>1. CASE j <= u + 1 + n
        BY <1>3, <2>2, <4>1
      <4>2. CASE j > u + 1 + n
        BY <1>3, <4>2
      <4>3. QED
        BY <4>1, <4>2
    <3>4. QED
      BY <3>1, <3>2, <3>3
  <2>3. CASE i > u + 1
    <3>1. j > u + 1
      BY <1>7, <2>3
    <3>2. C[i] = IF i <= u + 1 + n THEN w + (i - (u + 1)) ELSE w + n
      BY <1>3, <2>3
    <3>3. C[j] = IF j <= u + 1 + n THEN w + (j - (u + 1)) ELSE w + n
      BY <1>3, <3>1
    <3>4. QED
      BY <1>7, <2>3, <3>1, <3>2, <3>3
  <2>4. QED
    BY <2>1, <2>2, <2>3
<1>8. Counts(C, u + 1 + n, w + n)
  BY <1>2, <1>6, <1>7 DEF Counts
<1>9. Extends(C, B, u, w, n)
  BY <1>3, <1>5, <1>8 DEF Extends
<1>10. QED
  BY <1>9

\* A write adds its packet to what is held and on its way.
LEMMA WriteFlow ==
  ASSUME TypeOK, NEW p \in Peers, Write(p), NEW pkt,
         posting'[p] = posting[p] \cup {[kind |-> "Send", packet |-> pkt]}
  PROVE  /\ Held(p)' = Held(p) \cup {pkt} /\ Flow(p)' = Flow(p) \cup {pkt}
         /\ Flow(Peer(p))' = Flow(Peer(p))
<1>1. UNCHANGED <<state, sent_packets, resending, events, waiting, network, recv_packets>>
  BY DEF Write
<1> DEFINE e == [kind |-> "Send", packet |-> pkt]
<1>2. e.kind = "Send" /\ e.packet = pkt /\ posting'[p] = posting[p] \cup {e}
  OBVIOUS
<1> HIDE DEF e
<1>3. Carried(posting'[p]) = Carried(posting[p]) \cup {pkt}
  BY <1>2, CarriedMore
<1>4. Held(p)' = Held(p) \cup {pkt}
  BY <1>1, <1>3, HeldIs
<1>5. Held(Peer(p))' = Held(Peer(p))
  <2>1. Peer(p) \in Peers /\ Peer(p) # p
    BY TwoPeers
  <2>2. Untouched(Peer(p))
    BY <2>1, OthersUntouched DEF Step, Application
  <2>3. posting'[Peer(p)] = posting[Peer(p)]
    BY <2>2 DEF Untouched
  <2>4. QED
    BY <1>1, <2>3, HeldIs
<1>6. QED
  BY <1>1, <1>4, <1>5 DEF Flow

\* A write leaves the other direction's ledger alone.
LEMMA LedgerAside ==
  ASSUME TypeOK, NEW p \in Peers, Write(p), NEW q, q = Peer(p), NEW B, Ledger(q, B)
  PROVE  Ledger(q, B)'
<1>1. q \in Peers /\ q # p /\ Peer(q) = p
  BY TwoPeers
<1>2. Untouched(q)
  BY <1>1, OthersUntouched DEF Step, Application
<1>3. UNCHANGED <<ack_number, peer_ack_number, recv_packets, reassembled_buffer, delivered>>
  BY DEF Write
<1>4. Flow(q)' = Flow(q)
  <2>1. \E pkt : posting'[p] = posting[p] \cup {[kind |-> "Send", packet |-> pkt]}
    BY ZenonT(30) DEF TypeOK, Write
  <2>2. QED
    BY <2>1, WriteFlow
<1>5. Used(q)' = Used(q) /\ Received(q)' = Received(q) /\ Received(p)' = Received(p)
      /\ written'[q] = written[q]
  BY <1>2, <1>3 DEF Untouched, Used, Received
<1>6. Sent(q, B)'
  BY <1>1, <1>4, <1>5 DEF Ledger, Sent
<1>7. Got(q, B)'
  BY <1>1, <1>3, <1>5 DEF Ledger, Got
<1>8. QED
  BY <1>6, <1>7 DEF Ledger

\* A write that turns the ledger B into C makes a packet of its bytes.
Enters(p, B, C, pkt) ==
  /\ Ledger(p, C)' /\ C[Received(p)'] = B[Received(p)]
  /\ Held(p)' = Held(p) \cup {pkt}
  /\ \A i \in written[p] + 1 .. written'[p] :
       \E j \in DOMAIN pkt.payload : pkt.payload[j] = i

\* A write counts its bytes after those there are.
LEMMA LedgerWritten ==
  ASSUME TypeOK, TypeOK', WithinQuota, NumbersSuffice, NEW p \in Peers, Budget(p),
         NEW B, Ledger(p, B), Write(p)
  PROVE  \E C, pkt : Enters(p, B, C, pkt)
<1>1. PICK n \in 1 .. MaxPayload :
        LET x == DataPacket(p, [i \in 1 .. n |-> written[p] + i])
        IN  /\ posting'[p] = posting[p] \cup {[kind |-> "Send", packet |-> x]}
            /\ written'[p] = written[p] + n /\ n \in Nat /\ n >= 1
            /\ Len(x.payload) = n /\ x.payload = [i \in 1 .. n |-> written[p] + i]
            /\ x.ack = ack_number[p]
            /\ x \in Packet
            /\ Off(p, x.seq) = Used(p) + 1
            /\ Used(p)' = Used(p) + 1 + n
  BY WriteNumbers, Zenon
<1> DEFINE pkt == DataPacket(p, [i \in 1 .. n |-> written[p] + i])
<1>2. /\ posting'[p] = posting[p] \cup {[kind |-> "Send", packet |-> pkt]}
      /\ written'[p] = written[p] + n /\ n \in Nat /\ n >= 1
      /\ Len(pkt.payload) = n /\ pkt.payload = [i \in 1 .. n |-> written[p] + i]
      /\ pkt.ack = ack_number[p]
      /\ pkt \in Packet
      /\ Off(p, pkt.seq) = Used(p) + 1
      /\ Used(p)' = Used(p) + 1 + n
  BY <1>1, Zenon
<1> HIDE DEF pkt
<1> DEFINE u == Used(p)
           w == written[p]
           v == Used(p)'
<1>3. u \in Nat /\ w \in Nat /\ v \in Nat /\ u <= v /\ v = u + 1 + n
  BY <1>2, LedgerTypes
<1>4. Counts(B, u, w)
  BY DEF Ledger, Sent
<1>5. PICK C : /\ Counts(C, u + 1 + n, w + n)
               /\ \A o \in Nat : o <= u + 1 => C[o] = B[o]
               /\ \A i \in 0 .. n : C[u + 1 + i] = w + i
  <2>1. \E C : Extends(C, B, u, w, n)
    <3>1. u \in Nat /\ w \in Nat /\ n \in Nat /\ Counts(B, u, w)
      BY <1>2, <1>3, <1>4
    <3> HIDE DEF u, v, w
    <3>2. QED
      BY <3>1, ExtendCounts
  <2>2. QED
    BY <2>1 DEF Extends
<1>6. Held(p)' = Held(p) \cup {pkt} /\ Flow(p)' = Flow(p) \cup {pkt}
  BY <1>2, WriteFlow
<1>7. /\ UNCHANGED <<ack_number, peer_ack_number, recv_packets, reassembled_buffer, delivered>>
      /\ Received(p)' = Received(p) /\ Received(Peer(p))' = Received(Peer(p))
      /\ Received(p) \in Nat /\ Received(Peer(p)) = Off(Peer(p), ack_number[p])
  BY LedgerTypes DEF Write, Received
<1>8. Received(p) <= u /\ Boundary(B, Received(p))
  BY DEF Ledger, Got
<1> HIDE DEF u, v, w
<1>9. C[Received(p)] = B[Received(p)] /\ Boundary(C, Received(p)) /\ Received(p) <= v
  BY <1>3, <1>5, <1>7, <1>8 DEF Boundary
<1>10. Carries(C, v, u + 1, pkt.payload)
  <2>1. B[u] = w /\ C[u] = B[u] /\ C[u + 1] = w /\ C[u + 1 + n] = w + n
    <3>1. B[u] = w
      BY <1>3, <1>4 DEF Counts
    <3>2. 0 \in 0 .. n /\ n \in 0 .. n /\ u + 1 + 0 = u + 1 /\ w + 0 = w
      BY <1>2, <1>3
    <3>3. C[u + 1 + 0] = w + 0 /\ C[u + 1 + n] = w + n
      BY <1>5, <3>2
    <3>4. C[u] = B[u]
      BY <1>3, <1>5
    <3>5. QED
      BY <3>1, <3>2, <3>3, <3>4
  <2>2. C[u + 1 + n + 1] = w + n
    BY <1>2, <1>3, <1>5 DEF Counts
  <2>3. \A i \in 1 .. n : C[u + 1 + i] = C[u + 1] + i /\ pkt.payload[i] = C[u + 1] + i
    <3> SUFFICES ASSUME NEW i \in 1 .. n
                 PROVE  C[u + 1 + i] = C[u + 1] + i /\ pkt.payload[i] = C[u + 1] + i
      OBVIOUS
    <3>1. C[u + 1 + i] = w + i
      BY <1>2, <1>5
    <3>2. pkt.payload[i] = w + i
      BY <1>2 DEF w
    <3>3. QED
      BY <2>1, <3>1, <3>2
  <2>4. u + 1 >= 1 /\ u + 1 + n <= v /\ (u + 1) - 1 = u
    BY <1>2, <1>3
  <2>5. Len(pkt.payload) = n
    BY <1>2
  <2>6. QED
    BY <2>1, <2>2, <2>3, <2>4, <2>5 DEF Carries, Boundary
<1>11. ASSUME NEW x \in Flow(p)'
       PROVE  /\ x.payload # <<>> => Carries(C, v, Off(p, x.seq), x.payload)
              /\ Off(Peer(p), x.ack) <= Received(Peer(p))
  <2>1. CASE x = pkt
    <3>1. Off(p, pkt.seq) = u + 1
      BY <1>2 DEF u
    <3>2. Off(Peer(p), pkt.ack) <= Received(Peer(p))
      <4>1. Received(Peer(p)) \in Nat
        BY LedgerTypes
      <4>2. QED
        BY <1>2, <1>7, <4>1
    <3>3. QED
      BY <1>10, <2>1, <3>1, <3>2
  <2>2. CASE x \in Flow(p)
    <3>1. /\ x \in Packet /\ Off(Peer(p), x.ack) <= Received(Peer(p))
          /\ x.payload # <<>> => Carries(B, u, Off(p, x.seq), x.payload)
      BY <2>2, FlowType DEF Ledger, Sent, u
    <3>2. x.seq \in SeqNum /\ x.payload \in Seq(Byte)
      BY <3>1 DEF Packet
    <3> DEFINE o == Off(p, x.seq)
    <3>3. o \in Nat
      BY <3>2, OffType
    <3> HIDE DEF o
    <3>4. x.payload # <<>> => Carries(C, v, o, x.payload)
      <4> SUFFICES ASSUME x.payload # <<>> PROVE Carries(C, v, o, x.payload)
        OBVIOUS
      <4>1. Carries(B, u, o, x.payload)
        BY <3>1 DEF o
      <4>2. QED
        BY <1>3, <1>5, <3>2, <3>3, <4>1, CarriesMore
    <3>5. QED
      BY <3>1, <3>4 DEF o
  <2>3. QED
    BY <1>6, <2>1, <2>2
<1>12. Sent(p, C)'
  <2>1. Counts(C, Used(p)', written'[p])
    BY <1>2, <1>3, <1>5 DEF v, w
  <2>2. QED
    BY <1>7, <1>11, <2>1 DEF Sent, v
<1>13. Got(p, C)'
  <2>1. Got(p, B)
    BY DEF Ledger
  <2>2. QED
    BY <1>7, <1>9, <2>1 DEF Got, v
<1>14. \A i \in written[p] + 1 .. written'[p] :
         \E j \in DOMAIN pkt.payload : pkt.payload[j] = i
  <2> SUFFICES ASSUME NEW i \in w + 1 .. w + n
               PROVE  \E j \in 1 .. n : [l \in 1 .. n |-> w + l][j] = i
    BY <1>2 DEF w
  <2>1. i - w \in 1 .. n /\ w + (i - w) = i
    BY <1>2, <1>3
  <2>2. [l \in 1 .. n |-> w + l][i - w] = i
    BY <2>1
  <2>3. QED
    BY <2>1, <2>2
<1>15. QED
  BY <1>6, <1>7, <1>9, <1>12, <1>13, <1>14 DEF Ledger, Enters

-----------------------------------------------------------------------------
(* The invariant, and the stream it implements.                            *)

\* The invariant of a session that does not use up the numbers.
StreamInv ==
  /\ IInv /\ WithinQuota
  /\ \A q \in Peers : Budget(q) /\ \E B : Ledger(q, B)

\* A session starts with one number used, received and not acknowledged.
LEMMA InitNumbers ==
  ASSUME Init, NEW q \in Peers
  PROVE  /\ Used(q) = 1 /\ Received(q) = 1 /\ Off(q, peer_ack_number[q]) = 0
<1>1. InitSeq[q] \in SeqNum
  BY PeersAssumption
<1>2. Off(q, InitSeq[q]) = 0
  BY <1>1, SeqModulusAssumption DEF Off, SeqNum
<1>3. Off(q, SeqAdd(InitSeq[q], 1)) = 1
  <2>1. Off(q, InitSeq[q]) + 1 < SeqModulus
    BY <1>2, SeqModulusAssumption
  <2>2. QED
    BY <1>1, <1>2, <2>1, OffAdd
<1>4. /\ sequence_number[q] = SeqAdd(InitSeq[q], 1)
      /\ ack_number[Peer(q)] = SeqAdd(InitSeq[q], 1)
      /\ peer_ack_number[q] = InitSeq[q]
  BY TwoPeers DEF Init
<1>5. QED
  BY <1>2, <1>3, <1>4 DEF Used, Received

\* A session starts within its budget.
LEMMA InitBudget ==
  ASSUME Init, NEW q \in Peers
  PROVE  Budget(q) /\ WithinQuota
<1>1. /\ sent_packets[q] = {} /\ resending[q] = {} /\ posting[q] = {}
      /\ events[q] = <<>> /\ waiting[q] = <<>> /\ running[q] = TRUE
      /\ written[q] = 0
  BY DEF Init
<1>2. FiniteSets(q)
  BY <1>1, FS_EmptySet DEF FiniteSets
<1>3. Tokens(q) = 0
  <2>1. \A T : Count(<<>>, T) = 0
    <3>1. \A T : {i \in DOMAIN <<>> : <<>>[i] \in T} = {}
      OBVIOUS
    <3>2. QED
      BY <3>1, FS_EmptySet DEF Count
  <2>2. QED
    BY <1>1, <2>1, FS_EmptySet DEF Tokens
<1>4. MayClose(q) = 1 /\ Used(q) = 1
  BY <1>1, InitNumbers DEF MayClose
<1>5. Budget(q)
  BY <1>1, <1>2, <1>3, <1>4 DEF Budget
<1>6. WithinQuota
  BY PeersAssumption DEF Init, WithinQuota
<1>7. QED
  BY <1>5, <1>6

\* A session starts with nothing on its way.
LEMMA InitHeld ==
  ASSUME Init, NEW q \in Peers
  PROVE  Held(q) = {} /\ Flow(q) = {} /\ Elems(recv_packets[Peer(q)]) = {}
<1>1. /\ sent_packets[q] = {} /\ resending[q] = {} /\ posting[q] = {}
      /\ events[q] = <<>> /\ waiting[q] = <<>>
      /\ network[Peer(q)] = {} /\ recv_packets[Peer(q)] = <<>>
  BY TwoPeers DEF Init
<1>2. Elems(<<>>) = {} /\ Carried({}) = {}
  BY DEF Elems, Carried
<1>3. Held(q) = {}
  BY <1>1, <1>2, HeldIs
<1>4. QED
  BY <1>1, <1>2, <1>3 DEF Flow

\* A session starts with an empty ledger.
LEMMA InitLedger ==
  ASSUME Init, NEW q \in Peers,
         NEW B \in [Nat -> Nat], \A n \in Nat : B[n] = 0
  PROVE  Ledger(q, B)
<1>1. /\ written[q] = 0 /\ reassembled_buffer[Peer(q)] = <<>>
      /\ delivered[Peer(q)] = <<>>
  BY TwoPeers DEF Init
<1>2. Used(q) = 1 /\ Received(q) = 1 /\ Off(q, peer_ack_number[q]) = 0
  BY InitNumbers
<1>3. Flow(q) = {} /\ Elems(recv_packets[Peer(q)]) = {}
  BY InitHeld
<1>4. B \in [Nat -> Nat] /\ \A n \in Nat : B[n] = 0
  OBVIOUS
<1>5. Sent(q, B)
  BY <1>1, <1>2, <1>3, <1>4 DEF Sent, Counts
<1>6. InOrder(<<>>, 0, 0)
  BY NothingInOrder
<1>7. Got(q, B)
  <2>1. B[1] = 0 /\ Boundary(B, 1) /\ Len(<<>>) = 0
    BY <1>4 DEF Boundary
  <2>2. QED
    BY <1>1, <1>2, <1>3, <1>6, <2>1 DEF Got
<1>8. QED
  BY <1>5, <1>7 DEF Ledger

\* The invariant holds in the initial states.
LEMMA StreamInvInit ==
  ASSUME Init
  PROVE  WithinQuota /\ \A q \in Peers : Budget(q) /\ \E B : Ledger(q, B)
<1>1. ASSUME NEW q \in Peers PROVE Budget(q) /\ WithinQuota /\ \E B : Ledger(q, B)
  <2> DEFINE B == [n \in Nat |-> 0]
  <2>1. B \in [Nat -> Nat] /\ \A n \in Nat : B[n] = 0
    OBVIOUS
  <2> HIDE DEF B
  <2>2. Ledger(q, B)
    BY <2>1, InitLedger
  <2>3. QED
    BY <2>2, InitBudget
<1>2. WithinQuota
  BY PeersAssumption DEF Init, WithinQuota
<1>3. QED
  BY <1>1, <1>2

\* A step that changes nothing changes no ledger.
LEMMA LedgerStutters ==
  ASSUME UNCHANGED vars, NEW q \in Peers, NEW B, Ledger(q, B)
  PROVE  Ledger(q, B)'
<1>1. UNCHANGED <<sequence_number, ack_number, peer_ack_number, recv_packets,
                  reassembled_buffer, sent_packets, resending, posting, events,
                  waiting, network, written, delivered>>
  BY DEF vars, endVars, loopVars, envVars
<1>2. Held(q)' = Held(q)
  BY <1>1, HeldIs
<1>3. /\ Flow(q)' = Flow(q) /\ Used(q)' = Used(q) /\ Received(q)' = Received(q)
      /\ Received(Peer(q))' = Received(Peer(q))
  BY <1>1, <1>2 DEF Flow, Used, Received
<1>4. Sent(q, B)'
  BY <1>1, <1>3 DEF Ledger, Sent
<1>5. Got(q, B)'
  BY <1>1, <1>3 DEF Ledger, Got
<1>6. QED
  BY <1>4, <1>5 DEF Ledger

\* Every step keeps the invariant.
LEMMA StreamInvStep ==
  ASSUME NumbersSuffice, StreamInv, IInv', [Next]_vars
  PROVE  StreamInv'
<1>1. /\ TypeOK /\ TypeOK' /\ WithinQuota /\ \A q \in Peers : Budget(q)
  BY DEF StreamInv, IInv
<1>2. CASE UNCHANGED vars
  <2>1. WithinQuota'
    BY <1>1, <1>2 DEF WithinQuota, vars, envVars
  <2>2. ASSUME NEW q \in Peers PROVE Budget(q)' /\ (\E B : Ledger(q, B))'
    <3>1. Untouched(q)
      BY <1>2 DEF Untouched, vars, endVars, loopVars, envVars
    <3>2. Budget(q)'
      BY <1>1, <3>1, BudgetUntouched
    <3>3. PICK B : Ledger(q, B)
      BY DEF StreamInv
    <3>4. Ledger(q, B)'
      BY <1>2, <3>3, LedgerStutters
    <3>5. QED
      BY <3>2, <3>4
  <2>3. QED
    BY <2>1, <2>2 DEF StreamInv
<1>3. ASSUME NEW p \in Peers, Step(p) PROVE StreamInv'
  <2>1. (\A q \in Peers : Budget(q)') /\ WithinQuota'
    BY <1>1, <1>3, BudgetStep
  <2>2. ASSUME NEW q \in Peers PROVE (\E B : Ledger(q, B))'
    <3>1. PICK B : Ledger(q, B)
      BY DEF StreamInv
    <3>2. Peer(q) \in Peers /\ Peer(Peer(q)) = q /\ (p = q \/ p = Peer(q))
      BY TwoPeers
    <3>3. PICK A : Ledger(Peer(q), A)
      BY <3>2 DEF StreamInv
    <3>4. CASE ~Write(p)
      <4>1. Ledger(q, B)'
        BY <1>1, <1>3, <3>1, <3>3, <3>4, LedgerKept
      <4>2. QED
        BY <4>1
    <3>5. CASE Write(p) /\ q = p
      <4>1. \E C : Ledger(q, C)'
        BY <1>1, <3>1, <3>5, LedgerWritten DEF Enters
      <4>2. QED
        BY <4>1
    <3>6. CASE Write(p) /\ q # p
      <4>1. q = Peer(p)
        BY <3>2, <3>6
      <4>2. Ledger(q, B)'
        BY <1>1, <3>1, <3>6, <4>1, LedgerAside
      <4>3. QED
        BY <4>2
    <3>7. QED
      BY <3>4, <3>5, <3>6
  <2>3. QED
    BY <2>1, <2>2 DEF StreamInv
<1>4. Next => \E p \in Peers : Step(p)
  BY DEF Next, Step
<1>5. QED
  BY <1>2, <1>3, <1>4

\* The connection's ends are the stream's.
LEMMA StateEffect ==
  ASSUME TypeOK, NEW p \in Peers, Step(p)
  PROVE  \/ UNCHANGED state
         \/ /\ ~Write(p) /\ ~Read(p) /\ Connected(p)
            /\ state' = [state EXCEPT ![p] = "Disconnected"]
<1>1. CASE Receive(p)
  BY <1>1 DEF Receive, ReceiveData, ReceiveOther, Write, Read
<1>2. CASE RecvTimeout(p)
  BY <1>2 DEF RecvTimeout, Write, Read
<1>3. CASE SendPacket(p)
  <2>1. \E x : HandleSendPacket(p, x)
    BY <1>3 DEF SendPacket
  <2>2. UNCHANGED state \/ state' = [state EXCEPT ![p] = "Disconnected"]
    BY <2>1, Zenon DEF HandleSendPacket
  <2>3. Connected(p) /\ (Write(p) \/ Read(p) => UNCHANGED state)
    BY <1>3 DEF SendPacket, Write, Read
  <2>4. QED
    BY <2>2, <2>3
<1>4. CASE KeepAlive(p)
  BY <1>4 DEF KeepAlive, HandleSendPacket, DataPacket
<1>5. CASE Application(p) \/ Post(p) \/ Timers(p) \/ Lose(p)
  BY <1>5 DEF Application, Write, Read, Shutdown, Post, Timers, ResendTimer,
              ScheduleResend, Lose, endVars
<1>6. CASE TakeUpdate(p) \/ TakePacket(p) \/ TakeClose(p) \/ MakeUpdatePacket(p)
  BY <1>6 DEF TakeUpdate, TakePacket, TakeClose, MakeUpdatePacket, endVars
<1>7. QED
  BY <1>1, <1>2, <1>3, <1>4, <1>5, <1>6 DEF Step, SendLoop, RecvLoop

\* Every step is one of the stream's, or one that nobody sees.
LEMMA StreamStep ==
  ASSUME NumbersSuffice, StreamInv, [Next]_vars
  PROVE  [Stream!Next]_(Stream!vars)
<1>1. TypeOK
  BY DEF StreamInv, IInv
<1>2. CASE UNCHANGED vars
  BY <1>2 DEF Stream!vars, vars, endVars, envVars
<1>3. ASSUME NEW p \in Peers, Step(p) PROVE [Stream!Next]_(Stream!vars)
  <2> DEFINE ended == {q \in Peers : state[q] = "Disconnected"}
  <2>1. DOMAIN state = Peers /\ DOMAIN delivered = Peers /\ DOMAIN written = Peers
    BY <1>1 DEF TypeOK
  <2>2. CASE Write(p)
    <3>1. PICK n \in 1 .. MaxPayload : written' = [written EXCEPT ![p] = @ + n]
      BY <2>2 DEF Write
    <3>2. written[p] \in Nat /\ n \in Nat /\ n >= 1
      BY <1>1 DEF TypeOK
    <3>3. written'[p] = written[p] + n
      BY <2>1, <3>1
    <3>4. p \notin ended /\ UNCHANGED <<delivered, state>>
      BY <2>2 DEF Write, Connected
    <3>5. Stream!Accept(p)
      <4>1. written'[p] \in Nat /\ written'[p] > written[p]
        BY <3>2, <3>3
      <4>2. written' = [written EXCEPT ![p] = written'[p]]
        BY <3>1, <3>3
      <4>3. QED
        BY <3>4, <4>1, <4>2 DEF Stream!Accept
    <3>6. QED
      BY <3>5 DEF Stream!Next
  <2>3. CASE Read(p)
    <3> DEFINE q == Peer(p)
    <3>1. q \in Peers /\ Peer(q) = p
      BY TwoPeers
    <3> HIDE DEF q
    <3>2. PICK B : Ledger(q, B)
      BY <3>1 DEF StreamInv
    <3>3. Got(q, B)
      BY <3>2 DEF Ledger
    <3>4. PICK n \in Nat \ {0} :
            /\ delivered' = [delivered EXCEPT ![p] =
                               @ \o [i \in 1 .. n |-> Len(@) + i]]
            /\ Len(delivered'[p]) = Len(delivered[p]) + n
            /\ InOrder(reassembled_buffer'[p], Len(delivered'[p]), B[Received(q)])
      <4>1. \E n \in Nat \ {0} :
              /\ delivered' = [delivered EXCEPT ![Peer(q)] =
                                 @ \o [i \in 1 .. n |-> Len(@) + i]]
              /\ Len(delivered'[Peer(q)]) = Len(delivered[Peer(q)]) + n
              /\ \A i \in 1 .. Len(delivered'[Peer(q)]) : delivered'[Peer(q)][i] = i
              /\ InOrder(reassembled_buffer'[Peer(q)], Len(delivered'[Peer(q)]),
                         B[Received(q)])
        BY <1>1, <2>3, <3>1, <3>3, ReadGot
      <4>2. QED
        BY <3>1, <4>1
    <3>5. Len(delivered'[p]) <= B[Received(q)] /\ B[Received(q)] \in Nat
      <4>1. reassembled_buffer'[p] \in Seq(Seq(Byte))
        <5>1. TypeOK'
          BY <1>1, <2>3, ReadType
        <5>2. QED
          BY <5>1 DEF TypeOK
      <4>2. QED
        BY <3>4, <4>1, InOrderGrows
    <3>6. B[Received(q)] <= written[q]
      <4>1. /\ Received(q) \in Nat /\ Used(q) \in Nat /\ Received(q) <= Used(q)
            /\ Counts(B, Used(q), written[q])
        BY <1>1, <3>1, <3>2, LedgerTypes DEF Ledger, Sent, Got
      <4>2. B[Received(q)] <= B[Used(q)] /\ B[Used(q)] = written[q]
        BY <4>1 DEF Counts
      <4>3. QED
        BY <4>2
    <3>7. n \in 1 .. written[q] - Len(delivered[p])
      <4>1. Len(delivered[p]) \in Nat /\ written[q] \in Nat
        BY <1>1, <3>1 DEF TypeOK
      <4>2. QED
        BY <3>4, <3>5, <3>6, <4>1
    <3>8. p \notin ended /\ UNCHANGED <<written, state>>
      BY <2>3 DEF Read, Connected
    <3>9. Stream!Other(p) = q
      BY DEF Stream!Other, q, Peer
    <3>10. Stream!Deliver(p)
      BY <3>4, <3>7, <3>8, <3>9 DEF Stream!Deliver
    <3>11. QED
      BY <3>10 DEF Stream!Next
  <2>4. CASE ~Write(p) /\ ~Read(p)
    <3>1. UNCHANGED <<written, delivered>>
      BY <1>1, <1>3, <2>4, NumbersEffect, BufferEffect
    <3>2. CASE UNCHANGED state
      BY <3>1, <3>2 DEF Stream!vars
    <3>3. CASE Connected(p) /\ state' = [state EXCEPT ![p] = "Disconnected"]
      <4>1. p \notin ended
        BY <3>3 DEF Connected
      <4>2. ended' = ended \cup {p}
        BY <2>1, <3>3
      <4>3. Stream!Finish(p)
        BY <3>1, <4>1, <4>2 DEF Stream!Finish
      <4>4. QED
        BY <4>3 DEF Stream!Next
    <3>4. QED
      BY <1>1, <1>3, <3>2, <3>3, StateEffect
  <2>5. QED
    BY <2>2, <2>3, <2>4
<1>4. Next => \E p \in Peers : Step(p)
  BY DEF Next, Step
<1>5. QED
  BY <1>2, <1>3, <1>4

\* The initial states are initial states of the stream.
LEMMA StreamInit ==
  ASSUME Init
  PROVE  Stream!Init
  BY DEF Init, Stream!Init

\* The invariant holds in every reachable state.
THEOREM LedgersBalance ==
  ASSUME NumbersSuffice
  PROVE  Spec => []StreamInv
<1>1. Init /\ IInv => StreamInv
  BY StreamInvInit DEF StreamInv
<1>2. StreamInv /\ IInv' /\ [Next]_vars => StreamInv'
  BY StreamInvStep
<1>3. QED
  BY <1>1, <1>2, TypesAndWindows, PTL DEF Spec

\* The two ends are a reliable stream, whatever the network does.
THEOREM StreamIsReliable ==
  ASSUME NumbersSuffice
  PROVE  Spec => ImplementsStream
<1>1. Init => Stream!Init
  BY StreamInit
<1>2. StreamInv /\ [Next]_vars => [Stream!Next]_(Stream!vars)
  BY StreamStep
<1>3. QED
  BY <1>1, <1>2, LedgersBalance, PTL DEF Spec, ImplementsStream, Stream!Spec

-----------------------------------------------------------------------------
(* No byte is forgotten.                                                   *)

\* Fewer than half of the numbers can be used.
NumbersInHalf ==
  \A b \in Bounds : \A q \in Peers : 3 * b.quota[q] + 2 < HalfRange

\* Half of the numbers is fewer than all of them.
LEMMA HalfSuffices ==
  ASSUME NumbersInHalf
  PROVE  NumbersSuffice
<1> SUFFICES ASSUME NEW b \in Bounds, NEW q \in Peers
             PROVE  3 * b.quota[q] + 2 < SeqModulus
  BY DEF NumbersSuffice
<1>1. b.quota[q] \in Nat /\ 3 * b.quota[q] + 2 < HalfRange
  BY PeersAssumption DEF NumbersInHalf
<1>2. HalfRange \in Nat /\ HalfRange <= SeqModulus
  BY HalfRangeBounds, SeqModulusAssumption
<1>3. QED
  BY <1>1, <1>2, SeqModulusAssumption

\* A session within its budget uses fewer than half of the numbers.
LEMMA UsedInHalf ==
  ASSUME TypeOK, WithinQuota, NumbersInHalf, NEW q \in Peers, Budget(q)
  PROVE  Used(q) \in Nat /\ Used(q) < HalfRange
<1>1. Used(q) \in Nat /\ written[q] \in Nat
  BY LedgerTypes
<1>2. Used(q) <= 3 * written[q] + 2
  BY UsedBound, HalfSuffices
<1>3. /\ bound.quota[q] \in Nat /\ written[q] <= bound.quota[q]
      /\ 3 * bound.quota[q] + 2 < HalfRange
  BY PeersAssumption DEF WithinQuota, NumbersInHalf
<1>4. QED
  BY <1>1, <1>2, <1>3, HalfRangeBounds

\* Every byte that has not arrived is in a packet its writer answers for.
Covered(q, B) ==
  \A n \in B[Received(q)] + 1 .. written[q] :
    \/ Closing(q)
    \/ \E x \in Held(q) : \E i \in DOMAIN x.payload : x.payload[i] = n

\* Two packets with the same number hold the same bytes.
LEMMA SamePayload ==
  ASSUME NEW B, NEW u, NEW v, NEW w, Counts(B, u, w), NEW o \in Nat,
         NEW s \in Seq(Byte), NEW t \in Seq(Byte), s # <<>>, t # <<>>,
         Carries(B, u, o, s), Carries(B, v, o, t)
  PROVE  \A i \in DOMAIN s : i \in DOMAIN t /\ t[i] = s[i]
<1> DEFINE m == Len(s)
           n == Len(t)
<1>1. m \in Nat /\ n \in Nat /\ m >= 1 /\ n >= 1 /\ DOMAIN s = 1 .. m /\ DOMAIN t = 1 .. n
  OBVIOUS
<1>2. /\ B \in [Nat -> Nat]
      /\ B[o + m + 1] = B[o + m] /\ B[o + n + 1] = B[o + n]
      /\ \A i \in 1 .. m : B[o + i] = B[o] + i /\ s[i] = B[o] + i
      /\ \A i \in 1 .. n : B[o + i] = B[o] + i /\ t[i] = B[o] + i
  BY DEF Counts, Carries, Boundary
<1> HIDE DEF m, n
<1>3. ~(m < n)
  <2> SUFFICES ASSUME m < n PROVE FALSE
    OBVIOUS
  <2>1. m + 1 \in 1 .. n /\ m \in 1 .. m /\ o + (m + 1) = o + m + 1
    BY <1>1
  <2>2. B[o + (m + 1)] = B[o] + (m + 1) /\ B[o + m] = B[o] + m /\ B[o] \in Nat
    BY <1>2, <2>1
  <2>3. QED
    BY <1>1, <1>2, <2>1, <2>2
<1>4. ~(n < m)
  <2> SUFFICES ASSUME n < m PROVE FALSE
    OBVIOUS
  <2>1. n + 1 \in 1 .. m /\ n \in 1 .. n /\ o + (n + 1) = o + n + 1
    BY <1>1
  <2>2. B[o + (n + 1)] = B[o] + (n + 1) /\ B[o + n] = B[o] + n /\ B[o] \in Nat
    BY <1>2, <2>1
  <2>3. QED
    BY <1>1, <1>2, <2>1, <2>2
<1>5. m = n
  BY <1>1, <1>3, <1>4
<1>6. QED
  BY <1>1, <1>2, <1>5

\* Who acknowledges a packet's number acknowledges all of the packet.
LEMMA PassedAll ==
  ASSUME NEW B, NEW u, NEW w, Counts(B, u, w), NEW o \in Nat, NEW r \in Nat,
         NEW s \in Seq(Byte), s # <<>>, Carries(B, u, o, s), o <= r, Boundary(B, r)
  PROVE  \A i \in DOMAIN s : s[i] <= B[r] /\ s[i] \in Nat
<1> DEFINE m == Len(s)
<1>1. m \in Nat /\ m >= 1 /\ DOMAIN s = 1 .. m
  OBVIOUS
<1>2. /\ B \in [Nat -> Nat] /\ \A i, j \in Nat : i <= j => B[i] <= B[j]
      /\ \A i \in 1 .. m : B[o + i] = B[o] + i /\ s[i] = B[o] + i
      /\ B[r + 1] = B[r]
  BY DEF Counts, Carries, Boundary
<1> HIDE DEF m
<1>3. r >= o + m
  <2> SUFFICES ASSUME r < o + m PROVE FALSE
    BY <1>1
  <2> DEFINE j == r - o
  <2>1. j \in Nat /\ j + 1 \in 1 .. m /\ o + j = r /\ o + (j + 1) = r + 1
    BY <1>1
  <2> HIDE DEF j
  <2>2. B[o] \in Nat /\ B[o + (j + 1)] = B[o] + (j + 1)
    BY <1>2, <2>1
  <2>3. B[o + j] = B[o] + j
    <3>1. CASE j = 0
      BY <2>2, <3>1
    <3>2. CASE j # 0
      <4>1. j \in 1 .. m
        BY <1>1, <2>1, <3>2
      <4>2. QED
        BY <1>2, <4>1
    <3>3. QED
      BY <3>1, <3>2
  <2>4. B[r] = B[o] + j /\ B[r + 1] = B[o] + (j + 1)
    BY <2>1, <2>2, <2>3
  <2>5. QED
    BY <1>2, <2>1, <2>2, <2>4
<1>4. B[r] >= B[o] + m /\ B[o] \in Nat /\ B[r] \in Nat
  <2>1. m \in 1 .. m /\ o + m \in Nat
    BY <1>1
  <2>2. B[o + m] = B[o] + m /\ B[o + m] <= B[r]
    BY <1>2, <1>3, <2>1
  <2>3. B[o] \in Nat /\ B[r] \in Nat
    BY <1>2
  <2>4. QED
    BY <2>2, <2>3
<1>5. ASSUME NEW i \in 1 .. m PROVE s[i] <= B[r] /\ s[i] \in Nat
  <2>1. s[i] = B[o] + i
    BY <1>2
  <2>2. QED
    BY <1>1, <1>4, <2>1
<1>6. QED
  BY <1>1, <1>5

\* What is held depends on the peer's own variables only.
LEMMA HeldUntouched ==
  ASSUME NEW q, Untouched(q)
  PROVE  Held(q)' = Held(q) /\ (Closing(q) => Closing(q)')
<1>1. /\ state'[q] = state[q] /\ sent_packets'[q] = sent_packets[q]
      /\ resending'[q] = resending[q] /\ waiting'[q] = waiting[q]
      /\ posting'[q] = posting[q] /\ events'[q] = events[q]
  BY DEF Untouched
<1>2. QED
  BY <1>1, HeldIs, ClosingIs

\* What a peer answers for it keeps until the other one has it.
LEMMA CoveredKept ==
  ASSUME TypeOK, TypeOK', WithinQuota, NumbersInHalf, \A r \in Peers : Budget(r),
         NEW q \in Peers, NEW B, Ledger(q, B), Ledger(q, B)', NEW A, Ledger(Peer(q), A),
         NEW p \in Peers, Step(p), ~Write(p), Covered(q, B)
  PROVE  Covered(q, B)'
<1> SUFFICES ASSUME NEW n \in B[Received(q)'] + 1 .. written'[q], ~Closing(q)'
             PROVE  \E y \in Held(q)' : \E i \in DOMAIN y.payload : y.payload[i] = n
  BY DEF Covered
<1>1. /\ Used(q) \in Nat /\ Used(q) < HalfRange /\ Used(q) < SeqModulus
      /\ NumbersSuffice
  <2>1. Used(q) \in Nat /\ Used(q) < HalfRange
    BY UsedInHalf
  <2>2. HalfRange <= SeqModulus /\ HalfRange \in Nat
    BY HalfRangeBounds, SeqModulusAssumption
  <2>3. QED
    BY <2>1, <2>2, HalfSuffices, SeqModulusAssumption
<1>2. /\ Counts(B, Used(q), written[q]) /\ Boundary(B, Received(q))
      /\ Received(q) <= Used(q)
      /\ \A x \in Flow(q) : x.payload # <<>> =>
           Carries(B, Used(q), Off(q, x.seq), x.payload)
  BY DEF Ledger, Sent, Got
<1>3. /\ Received(q) \in Nat /\ Received(q)' \in Nat /\ Received(q) <= Received(q)'
      /\ written'[q] = written[q] /\ written[q] \in Nat
  <2>1. Received(q)' \in Nat /\ Received(q) <= Received(q)'
    BY <1>1, GotGrows
  <2>2. QED
    BY <1>1, <2>1, LedgerTypes, NumbersEffect
<1>4. /\ n \in B[Received(q)] + 1 .. written[q] /\ n > B[Received(q)]
      /\ B[Received(q)] \in Nat
  <2>1. /\ B[Received(q)] \in Nat /\ B[Received(q)'] \in Nat
        /\ B[Received(q)] <= B[Received(q)']
    BY <1>2, <1>3 DEF Counts
  <2>2. QED
    BY <1>3, <2>1
<1>5. ClosingStays(q)
  <2>1. CASE p = q
    BY <2>1, StepKeeps DEF Keeps
  <2>2. CASE p # q
    BY <2>2, OthersUntouched, HeldUntouched DEF ClosingStays
  <2>3. QED
    BY <2>1, <2>2
<1>6. PICK x \in Held(q) : \E i \in DOMAIN x.payload : x.payload[i] = n
  BY <1>4, <1>5 DEF Covered, ClosingStays
<1>7. PICK i \in DOMAIN x.payload : x.payload[i] = n
  BY <1>6
<1>8. x \in Flow(q) /\ x \in Packet /\ x.seq \in SeqNum /\ x.payload \in Seq(Byte)
      /\ x.payload # <<>>
  <2>1. x \in Flow(q) /\ x \in Packet
    BY FlowType DEF Flow
  <2>2. x.seq \in SeqNum /\ x.payload \in Seq(Byte)
    BY <2>1 DEF Packet
  <2>3. x.payload # <<>>
    BY <1>7
  <2>4. QED
    BY <2>1, <2>2, <2>3
<1>9. CASE p # q
  <2>1. Held(q)' = Held(q)
    BY <1>9, OthersUntouched, HeldUntouched
  <2>2. QED
    BY <1>7, <2>1
<1>10. CASE p = q
  <2>1. Keeps(q)
    BY <1>10, StepKeeps
  <2>2. Carries(B, Used(q), Off(q, x.seq), x.payload) /\ Off(q, x.seq) \in Nat
    BY <1>2, <1>8, OffType
  <2>3. CASE Answered(q, x)
    <3>1. PICK y \in network[q] : ~SeqGt(x.seq, y.ack)
      BY <2>3 DEF Answered
    <3>2. Off(q, y.ack) <= Received(q) /\ y \in Packet
      <4> DEFINE r == Peer(q)
      <4>1. r \in Peers /\ Peer(r) = q
        BY TwoPeers
      <4> HIDE DEF r
      <4>2. y \in Flow(r) /\ Ledger(r, A)
        BY <4>1 DEF Flow, r
      <4>3. QED
        BY <4>1, <4>2, FlowType DEF Ledger, Sent
    <3>3. y.ack \in SeqNum /\ Off(q, y.ack) \in Nat
      <4>1. y.ack \in SeqNum
        BY <3>2 DEF Packet
      <4>2. QED
        BY <4>1, OffType
    <3>4. Off(q, x.seq) < HalfRange /\ Off(q, y.ack) < HalfRange
      <4>1. Off(q, x.seq) + Len(x.payload) <= Used(q) /\ Len(x.payload) \in Nat
        BY <1>8, <2>2 DEF Carries
      <4>2. QED
        BY <1>1, <1>2, <1>3, <2>2, <3>2, <3>3, <4>1, HalfRangeBounds, SMTT(30)
    <3>5. Off(q, x.seq) <= Off(q, y.ack)
      <4>1. SeqGt(x.seq, y.ack) <=> Off(q, x.seq) > Off(q, y.ack)
        BY <1>8, <3>3, <3>4, OffOrder
      <4>2. QED
        BY <2>2, <3>1, <3>3, <4>1
    <3>6. Off(q, x.seq) <= Received(q)
      BY <1>3, <2>2, <3>2, <3>3, <3>5
    <3>7. x.payload[i] <= B[Received(q)]
      <4> DEFINE o == Off(q, x.seq)
      <4> HIDE DEF o
      <4>1. o \in Nat /\ o <= Received(q) /\ Carries(B, Used(q), o, x.payload)
        BY <2>2, <3>6 DEF o
      <4>2. QED
        BY <1>2, <1>3, <1>7, <1>8, <4>1, PassedAll
    <3>8. QED
      BY <1>4, <1>7, <3>7
  <2>4. CASE \E y \in Held(q)' : y.payload # <<>> /\ y.seq = x.seq
    <3>1. PICK y \in Held(q)' : y.payload # <<>> /\ y.seq = x.seq
      BY <2>4
    <3>2. y.payload \in Seq(Byte)
      <4>1. PICK z \in Held(q) : z.payload = y.payload
        BY <2>1, <3>1 DEF Keeps, HeldGrows, MadeFrom
      <4>2. z \in Packet
        BY FlowType DEF Flow
      <4>3. QED
        BY <4>1, <4>2 DEF Packet
    <3>3. Carries(B, Used(q)', Off(q, y.seq), y.payload)
      <4>1. y \in Flow(q)'
        BY DEF Flow
      <4>2. QED
        BY <3>1, <4>1 DEF Ledger, Sent
    <3>4. i \in DOMAIN y.payload /\ y.payload[i] = x.payload[i]
      <4> DEFINE o == Off(q, x.seq)
                 v == Used(q)'
                 u == Used(q)
      <4> HIDE DEF o, v, u
      <4>1. o \in Nat /\ Carries(B, u, o, x.payload) /\ Carries(B, v, o, y.payload)
            /\ Counts(B, u, written[q])
        BY <1>2, <2>2, <3>1, <3>3 DEF o, v, u
      <4>2. QED
        BY <1>7, <1>8, <3>1, <3>2, <4>1, SamePayload
    <3>5. QED
      BY <1>7, <3>4
  <2>5. QED
    BY <1>8, <2>1, <2>3, <2>4 DEF Keeps, HeldStays
<1>11. QED
  BY <1>9, <1>10

\* The packet a write makes covers the bytes it adds.
LEMMA CoveredWritten ==
  ASSUME TypeOK, TypeOK', WithinQuota, NumbersSuffice, NEW p \in Peers, Budget(p),
         NEW B, Ledger(p, B), Write(p), Covered(p, B)
  PROVE  \E C : Ledger(p, C)' /\ Covered(p, C)'
<1>0. PICK C, pkt : Enters(p, B, C, pkt)
  BY LedgerWritten
<1>1. /\ Ledger(p, C)' /\ C[Received(p)'] = B[Received(p)]
      /\ Held(p)' = Held(p) \cup {pkt}
      /\ \A i \in written[p] + 1 .. written'[p] :
           \E j \in DOMAIN pkt.payload : pkt.payload[j] = i
  BY <1>0 DEF Enters
<1>2. UNCHANGED <<state, events, waiting>>
  BY DEF Write
<1>3. Closing(p)' = Closing(p)
  BY <1>2 DEF Closing
<1>4. /\ B[Received(p)] \in Nat /\ written[p] \in Nat /\ written'[p] \in Nat
  <2>1. B \in [Nat -> Nat] /\ Received(p) \in Nat
    BY LedgerTypes DEF Ledger, Sent, Counts
  <2>2. QED
    BY <2>1 DEF TypeOK
<1>5. ASSUME NEW n \in C[Received(p)'] + 1 .. written'[p]
      PROVE  \/ Closing(p)'
             \/ \E x \in Held(p)' : \E i \in DOMAIN x.payload : x.payload[i] = n
  <2>1. CASE n <= written[p]
    <3>1. n \in B[Received(p)] + 1 .. written[p]
      BY <1>1, <1>4, <2>1
    <3>2. QED
      BY <1>1, <1>3, <3>1 DEF Covered
  <2>2. CASE n > written[p]
    <3>1. n \in written[p] + 1 .. written'[p]
      BY <1>1, <1>4, <2>2
    <3>2. QED
      BY <1>1, <3>1
  <2>3. QED
    BY <1>1, <1>4, <2>1, <2>2
<1>6. Covered(p, C)'
  BY <1>5 DEF Covered
<1>7. QED
  BY <1>1, <1>6

\* The other peer's steps uncover nothing unless they receive.
LEMMA CoveredAside ==
  ASSUME TypeOK, NEW p \in Peers, Step(p), NEW q \in Peers, q # p, NEW B,
         Covered(q, B), Received(q)' = Received(q)
  PROVE  Covered(q, B)'
<1>1. Untouched(q)
  BY OthersUntouched
<1>2. Held(q)' = Held(q) /\ (Closing(q) => Closing(q)') /\ written'[q] = written[q]
  BY <1>1, HeldUntouched DEF Untouched
<1>3. QED
  BY <1>2 DEF Covered

\* The invariant of a session that uses fewer than half of the numbers.
SafeInv ==
  /\ IInv /\ WithinQuota
  /\ \A q \in Peers : Budget(q) /\ \E B : Ledger(q, B) /\ Covered(q, B)

\* The invariant holds in the initial states.
LEMMA SafeInvInit ==
  ASSUME Init
  PROVE  WithinQuota /\ \A q \in Peers : Budget(q) /\ \E B : Ledger(q, B) /\ Covered(q, B)
<1>1. ASSUME NEW q \in Peers
      PROVE  Budget(q) /\ \E B : Ledger(q, B) /\ Covered(q, B)
  <2> DEFINE B == [n \in Nat |-> 0]
  <2>1. B \in [Nat -> Nat] /\ \A n \in Nat : B[n] = 0
    OBVIOUS
  <2> HIDE DEF B
  <2>2. Ledger(q, B)
    BY <2>1, InitLedger
  <2>3. B[Received(q)] = 0 /\ written[q] = 0
    BY <2>1, InitNumbers DEF Init
  <2>4. Covered(q, B)
    BY <2>3 DEF Covered
  <2>5. QED
    BY <2>2, <2>4, InitBudget
<1>2. QED
  BY <1>1, StreamInvInit

\* Every step keeps the invariant.
LEMMA SafeInvStep ==
  ASSUME NumbersInHalf, SafeInv, IInv', [Next]_vars
  PROVE  SafeInv'
<1>1. /\ TypeOK /\ TypeOK' /\ WithinQuota /\ \A q \in Peers : Budget(q)
  BY DEF SafeInv, IInv
<1>2. NumbersSuffice
  BY HalfSuffices
<1>3. CASE UNCHANGED vars
  <2>1. WithinQuota'
    BY <1>1, <1>3 DEF WithinQuota, vars, envVars
  <2>2. ASSUME NEW q \in Peers
        PROVE  Budget(q)' /\ (\E B : Ledger(q, B) /\ Covered(q, B))'
    <3>1. Untouched(q)
      BY <1>3 DEF Untouched, vars, endVars, loopVars, envVars
    <3>2. Budget(q)'
      BY <1>1, <3>1, BudgetUntouched
    <3>3. PICK B : Ledger(q, B) /\ Covered(q, B)
      BY DEF SafeInv
    <3>4. Ledger(q, B)'
      BY <1>3, <3>3, LedgerStutters
    <3>5. Covered(q, B)'
      <4>1. ack_number' = ack_number /\ written' = written
        BY <1>3 DEF vars, endVars, envVars
      <4>2. Received(q)' = Received(q)
        BY <4>1 DEF Received
      <4>3. Held(q)' = Held(q) /\ (Closing(q) => Closing(q)')
        BY <3>1, HeldUntouched
      <4>4. QED
        BY <3>3, <4>1, <4>2, <4>3 DEF Covered
    <3>6. QED
      BY <3>2, <3>4, <3>5
  <2>3. QED
    BY <2>1, <2>2 DEF SafeInv
<1>4. ASSUME NEW p \in Peers, Step(p) PROVE SafeInv'
  <2>1. (\A q \in Peers : Budget(q)') /\ WithinQuota'
    BY <1>1, <1>2, <1>4, BudgetStep
  <2>2. ASSUME NEW q \in Peers PROVE (\E B : Ledger(q, B) /\ Covered(q, B))'
    <3>1. PICK B : Ledger(q, B) /\ Covered(q, B)
      BY DEF SafeInv
    <3>2. Peer(q) \in Peers /\ Peer(Peer(q)) = q /\ (p = q \/ p = Peer(q))
      BY TwoPeers
    <3>3. PICK A : Ledger(Peer(q), A)
      BY <3>2 DEF SafeInv
    <3>4. CASE ~Write(p)
      <4>1. Ledger(q, B)'
        BY <1>1, <1>2, <1>4, <3>1, <3>3, <3>4, LedgerKept
      <4>2. Covered(q, B)'
        BY <1>1, <1>4, <3>1, <3>3, <3>4, <4>1, CoveredKept
      <4>3. QED
        BY <4>1, <4>2
    <3>5. CASE Write(p) /\ q = p
      <4>1. \E C : Ledger(q, C)' /\ Covered(q, C)'
        BY <1>1, <1>2, <3>1, <3>5, CoveredWritten
      <4>2. QED
        BY <4>1
    <3>6. CASE Write(p) /\ q # p
      <4>1. q = Peer(p)
        BY <3>2, <3>6
      <4>2. Ledger(q, B)'
        BY <1>1, <3>1, <3>6, <4>1, LedgerAside
      <4>3. Received(q)' = Received(q)
        BY <3>6 DEF Write, Received
      <4>4. Covered(q, B)'
        BY <1>1, <1>4, <3>1, <3>6, <4>3, CoveredAside
      <4>5. QED
        BY <4>2, <4>4
    <3>7. QED
      BY <3>4, <3>5, <3>6
  <2>3. QED
    BY <2>1, <2>2 DEF SafeInv
<1>5. Next => \E p \in Peers : Step(p)
  BY DEF Next, Step
<1>6. QED
  BY <1>3, <1>4, <1>5

\* As many bytes as there are numbers between the first and the last.
LEMMA BytesInOrder ==
  ASSUME NEW s \in Seq(Seq(Byte)), NEW d, NEW n, InOrder(s, d, n)
  PROVE  d \in Nat /\ n \in Nat /\ d <= n /\ Bytes(s) = n - d
<1>1. d \in Nat /\ n \in Nat /\ d <= n
  BY InOrderGrows
<1>2. PICK C : Cuts(s, d, n, C)
  BY DEF InOrder
<1>3. /\ Len(s) \in Nat /\ DOMAIN s = 1 .. Len(s)
      /\ \A i \in 1 .. Len(s) : Len(s[i]) \in Nat /\ DOMAIN s[i] = 1 .. Len(s[i])
  OBVIOUS
<1>4. /\ C \in [0 .. Len(s) -> Nat] /\ C[0] = d /\ C[Len(s)] = n
      /\ \A i \in 1 .. Len(s) : C[i] = C[i - 1] + Len(s[i])
  BY <1>2 DEF Cuts
<1>5. \A i \in 1 .. Len(s) : i \in 0 .. Len(s) /\ i - 1 \in 0 .. Len(s)
  BY <1>3
\* The places in s and the numbers of the bytes correspond.
<1> DEFINE Places == UNION {{i} \X DOMAIN s[i] : i \in DOMAIN s}
           f == [x \in Places |-> C[x[1] - 1] + x[2]]
<1>6. ASSUME NEW x \in Places
      PROVE  /\ x[1] \in 1 .. Len(s) /\ x[2] \in 1 .. Len(s[x[1]])
             /\ x = <<x[1], x[2]>>
  BY <1>3
<1>7. ASSUME NEW i \in 1 .. Len(s), NEW j \in 1 .. Len(s[i])
      PROVE  <<i, j>> \in Places
  BY <1>3
<1> DEFINE T == {l \in Nat : \A i \in 0 .. Len(s) : i + l <= Len(s) => C[i] <= C[i + l]}
<1>8. 0 \in T
  BY <1>4
<1>9. ASSUME NEW l \in Nat, l \in T PROVE l + 1 \in T
  <2> SUFFICES ASSUME NEW i \in 0 .. Len(s), i + (l + 1) <= Len(s)
               PROVE  C[i] <= C[i + (l + 1)]
    OBVIOUS
  <2>1. i + (l + 1) \in 1 .. Len(s) /\ (i + (l + 1)) - 1 = i + l /\ i + l <= Len(s)
        /\ i + l \in 0 .. Len(s)
    BY <1>3
  <2>2. C[i] <= C[i + l]
    BY <1>9, <2>1
  <2>3. C[i + (l + 1)] = C[i + l] + Len(s[i + (l + 1)]) /\ Len(s[i + (l + 1)]) \in Nat
    BY <1>3, <1>4, <2>1
  <2>4. C[i] \in Nat /\ C[i + l] \in Nat
    BY <1>4, <2>1
  <2>5. QED
    BY <2>2, <2>3, <2>4
<1>10. \A l \in Nat : l \in T
  <2> HIDE DEF T
  <2>1. QED
    BY <1>8, <1>9, Induct
<1>11. ASSUME NEW i \in 0 .. Len(s), NEW j \in 0 .. Len(s), i <= j
       PROVE  C[i] <= C[j]
  <2>1. j - i \in Nat /\ i + (j - i) = j
    BY <1>3, <1>11
  <2>2. j - i \in T
    BY <1>10, <2>1
  <2>3. i + (j - i) <= Len(s) => C[i] <= C[i + (j - i)]
    BY <2>2
  <2>4. QED
    BY <1>3, <2>1, <2>3
<1> HIDE DEF T
<1>12. ASSUME NEW x \in Places
       PROVE  /\ C[x[1] - 1] \in Nat /\ C[x[1]] \in Nat
              /\ f[x] = C[x[1] - 1] + x[2] /\ f[x] <= C[x[1]] /\ f[x] > C[x[1] - 1]
              /\ f[x] \in Nat
  <2>1. x[1] \in 1 .. Len(s) /\ x[2] \in 1 .. Len(s[x[1]])
    BY <1>6
  <2>2. /\ C[x[1] - 1] \in Nat /\ C[x[1]] \in Nat /\ Len(s[x[1]]) \in Nat
        /\ C[x[1]] = C[x[1] - 1] + Len(s[x[1]])
    BY <1>3, <1>4, <1>5, <2>1
  <2>3. f[x] = C[x[1] - 1] + x[2]
    OBVIOUS
  <2> DEFINE c == C[x[1] - 1]
             e == C[x[1]]
             l == Len(s[x[1]])
             j == x[2]
             v == f[x]
  <2>4. c \in Nat /\ e \in Nat /\ l \in Nat /\ e = c + l /\ j \in 1 .. l /\ v = c + j
    BY <2>1, <2>2, <2>3
  <2> HIDE DEF c, e, l, j, v
  <2>5. c \in Nat /\ e \in Nat /\ v = c + j /\ v <= e /\ v > c /\ v \in Nat
    BY <2>4
  <2>6. QED
    BY <2>5 DEF c, e, j, v
<1>13. ASSUME NEW x \in Places PROVE f[x] \in d + 1 .. n
  <2>1. x[1] \in 1 .. Len(s)
    BY <1>6
  <2>2. x[1] - 1 \in 0 .. Len(s) /\ x[1] \in 0 .. Len(s)
        /\ 0 \in 0 .. Len(s) /\ Len(s) \in 0 .. Len(s) /\ 0 <= x[1] - 1 /\ x[1] <= Len(s)
    BY <1>3, <2>1
  <2>3. C[0] <= C[x[1] - 1] /\ C[x[1]] <= C[Len(s)]
    BY <1>11, <2>2
  <2> HIDE DEF f, Places
  <2>4. QED
    BY <1>1, <1>4, <1>12, <2>3, SMTT(30)
<1>14. ASSUME NEW x \in Places, NEW y \in Places, x[1] < y[1] PROVE f[x] < f[y]
  <2>1. x[1] \in 1 .. Len(s) /\ y[1] \in 1 .. Len(s)
    BY <1>6
  <2>2. x[1] \in 0 .. Len(s) /\ y[1] - 1 \in 0 .. Len(s) /\ x[1] <= y[1] - 1
    BY <1>3, <1>14, <2>1
  <2>3. C[x[1]] <= C[y[1] - 1]
    BY <1>11, <2>2
  <2> HIDE DEF f, Places
  <2>4. f[x] <= C[x[1]] /\ f[x] \in Nat /\ C[x[1]] \in Nat
    BY <1>12
  <2>5. f[y] > C[y[1] - 1] /\ f[y] \in Nat /\ C[y[1] - 1] \in Nat
    BY <1>12
  <2>6. QED
    BY <2>3, <2>4, <2>5
<1>15. ASSUME NEW x \in Places, NEW y \in Places, f[x] = f[y] PROVE x = y
  <2>1. x[1] \in 1 .. Len(s) /\ y[1] \in 1 .. Len(s) /\ x = <<x[1], x[2]>> /\ y = <<y[1], y[2]>>
        /\ x[2] \in 1 .. Len(s[x[1]]) /\ y[2] \in 1 .. Len(s[y[1]])
    BY <1>6
  <2>2. f[x] \in Nat /\ f[y] \in Nat
    BY <1>12
  <2> HIDE DEF f, Places
  <2>3. ~(x[1] < y[1]) /\ ~(y[1] < x[1])
    BY <1>14, <1>15, <2>2
  <2>4. x[1] = y[1]
    BY <2>1, <2>3
  <2>5. /\ f[x] = C[x[1] - 1] + x[2] /\ f[y] = C[y[1] - 1] + y[2]
        /\ C[x[1] - 1] \in Nat
    BY <1>12
  <2>6. x[2] = y[2]
    <3> DEFINE c == C[x[1] - 1]
               i == x[2]
               j == y[2]
    <3>1. i \in Nat /\ j \in Nat /\ c \in Nat
      BY <1>3, <2>1, <2>5
    <3>2. f[x] = c + i /\ f[y] = c + j
      BY <2>4, <2>5, Zenon
    <3>3. c + i = c + j
      BY <1>15, <3>2, Zenon
    <3> HIDE DEF c, i, j
    <3>4. i = j
      BY <3>1, <3>3
    <3>5. QED
      BY <3>4 DEF i, j
  <2>7. QED
    BY <2>1, <2>4, <2>6
<1>16. ASSUME NEW m \in d + 1 .. n PROVE \E x \in Places : f[x] = m
  <2> DEFINE I == {i \in 1 .. Len(s) : C[i] >= m}
  <2>1. Len(s) # 0
    BY <1>1, <1>4
  <2>2. Len(s) \in I /\ I \subseteq Nat
    BY <1>1, <1>3, <1>4, <2>1
  <2>3. PICK i \in I : \A k \in I : i <= k
    BY <2>2, Smallest
  <2>4. i \in 1 .. Len(s) /\ C[i] >= m /\ i - 1 \in 0 .. Len(s)
    BY <1>3
  <2>5. C[i - 1] < m
    <3>1. CASE i = 1
      BY <1>1, <1>4, <3>1
    <3>2. CASE i # 1
      <4>1. i - 1 \in 1 .. Len(s) /\ ~(i <= i - 1)
        BY <1>3, <2>4, <3>2
      <4>2. i - 1 \notin I
        BY <2>3, <4>1
      <4>3. ~(C[i - 1] >= m) /\ C[i - 1] \in Nat
        BY <1>4, <2>4, <4>1, <4>2
      <4>4. QED
        BY <1>1, <4>3
    <3>3. QED
      BY <3>1, <3>2
  <2> HIDE DEF I
  <2>6. /\ C[i - 1] \in Nat /\ C[i] \in Nat /\ Len(s[i]) \in Nat
        /\ C[i] = C[i - 1] + Len(s[i])
    BY <1>3, <1>4, <1>5, <2>4
  <2>7. m - C[i - 1] \in 1 .. Len(s[i]) /\ C[i - 1] + (m - C[i - 1]) = m
    <3> DEFINE c == C[i - 1]
               e == C[i]
               l == Len(s[i])
    <3>1. c \in Nat /\ e \in Nat /\ l \in Nat /\ e = c + l /\ e >= m /\ c < m /\ m \in Nat
      BY <1>1, <2>4, <2>5, <2>6
    <3> HIDE DEF c, e, l
    <3>2. m - c \in 1 .. l /\ c + (m - c) = m
      BY <3>1
    <3>3. QED
      BY <3>2 DEF c, l
  <2> DEFINE x == <<i, m - C[i - 1]>>
  <2>8. x \in Places
    BY <1>7, <2>4, <2>7
  <2>9. f[x] = m
    BY <2>7, <2>8
  <2>10. QED
    BY <2>8, <2>9
<1>17. f \in Bijection(Places, d + 1 .. n)
  <2>1. f \in [Places -> d + 1 .. n]
    BY <1>13
  <2> HIDE DEF f, Places
  <2>2. QED
    BY <1>15, <1>16, <2>1, Fun_IsBij
<1>18. Bytes(s) = Cardinality(Places)
  BY DEF Bytes
<1> HIDE DEF f, Places
<1>19. IsFiniteSet(d + 1 .. n) /\ Cardinality(d + 1 .. n) = n - d
  <2>1. d + 1 \in Int /\ n \in Int
    BY <1>1
  <2>2. /\ IsFiniteSet(d + 1 .. n)
        /\ Cardinality(d + 1 .. n) = IF d + 1 > n THEN 0 ELSE n - (d + 1) + 1
    BY <2>1, FS_Interval
  <2> DEFINE k == Cardinality(d + 1 .. n)
  <2>3. k = IF d + 1 > n THEN 0 ELSE n - (d + 1) + 1
    BY <2>2
  <2> HIDE DEF k
  <2>4. k = n - d
    BY <1>1, <2>3
  <2>5. QED
    BY <2>2, <2>4 DEF k
<1>20. Cardinality(Places) = Cardinality(d + 1 .. n)
  <2>1. ExistsBijection(d + 1 .. n, Places)
    BY <1>17, Fun_ExistsBijSymmetric, Zenon DEF ExistsBijection
  <2>2. QED
    BY <1>19, <2>1, FS_Bijection
<1>21. QED
  BY <1>1, <1>18, <1>19, <1>20

\* The counters of a direction: acknowledged, received, sent.
LEMMA SafeAcked ==
  ASSUME SafeInv, NumbersInHalf
  PROVE  AckedWasReceived
<1> SUFFICES ASSUME NEW p \in Peers
             PROVE  /\ SeqLeq(peer_ack_number[p], ack_number[Peer(p)])
                    /\ SeqLeq(ack_number[Peer(p)], sequence_number[p])
  BY DEF AckedWasReceived
<1>1. TypeOK /\ WithinQuota /\ Budget(p)
  BY DEF SafeInv, IInv
<1>2. PICK B : Ledger(p, B)
  BY DEF SafeInv
<1>3. Used(p) \in Nat /\ Used(p) < HalfRange
  BY <1>1, UsedInHalf
<1>4. /\ Received(p) \in Nat /\ Received(p) <= Used(p)
      /\ Off(p, peer_ack_number[p]) \in Nat /\ Off(p, peer_ack_number[p]) <= Received(p)
  BY <1>1, <1>2, LedgerTypes DEF Ledger, Got
<1>5. /\ sequence_number[p] \in SeqNum /\ peer_ack_number[p] \in SeqNum
      /\ ack_number[Peer(p)] \in SeqNum
  BY <1>1, TwoPeers DEF TypeOK
<1>6. /\ Off(p, ack_number[Peer(p)]) = Received(p)
      /\ Off(p, sequence_number[p]) = Used(p)
  BY DEF Received, Used
<1>7. HalfRange \in Nat
  BY HalfRangeBounds, SeqModulusAssumption
<1>8. SeqLeq(peer_ack_number[p], ack_number[Peer(p)])
  <2>1. Off(p, peer_ack_number[p]) < HalfRange /\ Received(p) < HalfRange
    BY <1>3, <1>4, <1>7
  <2>2. QED
    BY <1>4, <1>5, <1>6, <2>1, OffOrder
<1>9. SeqLeq(ack_number[Peer(p)], sequence_number[p])
  <2>1. Received(p) < HalfRange
    BY <1>3, <1>4, <1>7
  <2>2. QED
    BY <1>3, <1>4, <1>5, <1>6, <2>1, OffOrder
<1>10. QED
  BY <1>8, <1>9

\* What the other peer has, counted in bytes, ends where the ledger says.
LEMMA SafeCovered ==
  ASSUME SafeInv, NEW p \in Peers
  PROVE  \A n \in BytesReceived(Peer(p)) + 1 .. written[p] :
           \/ Closing(p)
           \/ \E pkt \in Held(p) : \E i \in DOMAIN pkt.payload : pkt.payload[i] = n
<1>1. PICK B : Ledger(p, B) /\ Covered(p, B)
  BY DEF SafeInv
<1> DEFINE s == reassembled_buffer[Peer(p)]
           d == Len(delivered[Peer(p)])
<1>2. s \in Seq(Seq(Byte)) /\ d \in Nat
  BY TwoPeers DEF SafeInv, IInv, TypeOK
<1>3. InOrder(s, d, B[Received(p)])
  BY <1>1 DEF Ledger, Got
<1> HIDE DEF s, d
<1>4. d \in Nat /\ B[Received(p)] \in Nat /\ Bytes(s) = B[Received(p)] - d
  BY <1>2, <1>3, BytesInOrder
<1>5. d + Bytes(s) = B[Received(p)]
  BY <1>4
<1>6. BytesReceived(Peer(p)) = B[Received(p)]
  BY <1>5 DEF BytesReceived, s, d
<1>7. QED
  BY <1>1, <1>6 DEF Covered

\* state.rs, connection.rs: as long as each application writes less than
\* half of the sequence numbers allow, no byte is forgotten before the other
\* peer has it, and nobody takes for acknowledged what was not received.
THEOREM NothingForgotten ==
  ASSUME NumbersInHalf
  PROVE  Spec => []NoByteForgotten
<1>1. Init /\ IInv => SafeInv
  BY SafeInvInit DEF SafeInv
<1>2. SafeInv /\ IInv' /\ [Next]_vars => SafeInv'
  BY SafeInvStep
<1>3. SafeInv => NoByteForgotten
  BY SafeAcked, SafeCovered DEF NoByteForgotten
<1>4. QED
  BY <1>1, <1>2, <1>3, TypesAndWindows, PTL DEF Spec
=============================================================================
