----------------------- MODULE EncryptedStream_proofs -----------------------
(***************************************************************************)
(* Proofs about EncryptedStream, for any number of messages of any sizes,  *)
(* any cut of what the tunnel's stream takes and gives, and any errors:    *)
(* order, what a flush leaves behind, and what a clean end means.          *)
(*                                                                         *)
(* The invariant follows the bytes.  Writing: all that was produced, in    *)
(* the tunnel or still in the buffer, is a sequence of frames whose        *)
(* messages do not go back and leave out only those that are refused.      *)
(* Reading: whole frames were taken from it, and at most one message is    *)
(* between the last one received and the last one taken.                   *)
(***************************************************************************)
EXTENDS EncryptedStream, SequenceTheorems, WellFoundedInduction, TLAPS

-----------------------------------------------------------------------------
(* What the writing side has produced.                                     *)

\* The units of a frame, and of a decrypted message.
Units == (Nat \ {0}) \X (1 .. FrameSize)
Pairs == Nat \X Nat

\* Message b may come after message a: the same one, or a later one if every
\* message between them is refused.
Follows(a, b) == a <= b /\ \A m \in a + 1 .. b - 1 : ~Seals(m)

\* The k-th unit of s; before the first one all is as after a frame's end.
At(s, k) == IF k = 0 THEN <<0, FrameSize>> ELSE s[k]

\* Unit v may come after unit u.
Succeeds(u, v) ==
  IF u[2] < FrameSize THEN v = <<u[1], u[2] + 1>>
  ELSE v[2] = 1 /\ Follows(u[1], v[1])

\* s is a sequence of frames, the last of which may be incomplete.
Framed(s) ==
  \A k \in 1 .. Len(s) :
    /\ Seals(s[k][1]) /\ s[k][1] <= message
    /\ Succeeds(At(s, k - 1), s[k])

\* All the units that the writer's side has produced.
Line == tunnel \o ms_buff

EndOf(s) == At(s, Len(s))

TypeInv ==
  /\ message \in Nat
  /\ closed \in BOOLEAN /\ own_closed \in BOOLEAN
  /\ tunnel \in Seq(Units) /\ ms_buff \in Seq(Units)
  /\ read \in Nat /\ frame_buff \in Seq(Units)
  /\ plain_buff \in Seq(Pairs) /\ shell_buff \in Seq(Pairs)
  /\ received \in Seq(Nat \ {0})
  /\ reader \in {"reading", "ended", "failed"}

\* What waits in the cipher or as a frame is the message that is flushed.
TaskInv ==
  /\ message > 0
  /\ encrypt # Idle => task = "flush" /\ encrypt = message /\ aes_buff = Idle
  /\ aes_buff # Idle => /\ task = "flush" /\ aes_buff = message
                        /\ Seals(message) /\ ~closed
  /\ tunnel_end = "eof" => task = "over"

\* What was given to the tunnel's stream is there or in ms_buff, where some of
\* it remains only while the flush goes on, or after an error.  Whatever closed
\* the stream, the tunnel ends within a frame only if something is left there.
LineInv ==
  /\ Framed(tunnel)
  /\ closed /\ ms_buff = <<>> => EndOf(tunnel)[2] = FrameSize
  /\ ~closed =>
       /\ Framed(Line) /\ EndOf(Line)[2] = FrameSize
       /\ aes_buff = Idle => ms_buff = <<>>

\* Of the messages before n, those that are not refused are in the line.
SentTo(n) ==
  /\ Follows(EndOf(Line)[1], n)
  /\ \A m \in 1 .. n - 1 : Seals(m) => Contains(Line, <<m, FrameSize>>)

\* The frame of the message that is flushed is the last of the line.
Framing == task = "flush" /\ encrypt = Idle

SentInv ==
  ~closed /\ task \in {"idle", "write", "flush"} =>
    SentTo(message) /\ (Framing => EndOf(Line)[1] = message)

WriterInv == TaskInv /\ LineInv /\ SentInv

-----------------------------------------------------------------------------
(* What the reading side has of it.                                        *)

\* How much of the tunnel has left the frames' MessageStream, as whole frames.
Taken == read - Len(frame_buff)

PiecesInv ==
  /\ read <= Len(tunnel) /\ Len(frame_buff) <= read
  /\ \A k \in 1 .. Len(frame_buff) : frame_buff[k] = tunnel[Taken + k]
  /\ At(tunnel, Taken)[2] = FrameSize

LastReceived == IF received = <<>> THEN 0 ELSE received[Len(received)]

Nothing == /\ decrypt = IF reader = "reading" THEN Idle ELSE Swapping
           /\ plain_buff = <<>> /\ shell_buff = <<>>

\* The layers above hold message m and nothing else.
Holds(m) == /\ reader = "reading"
            /\ \/ decrypt = m /\ plain_buff = <<>> /\ shell_buff = <<>>
               \/ decrypt = Idle /\ shell_buff \o plain_buff = Plain(m)

\* Between the tunnel and what was received there is one message at most: the
\* last that was taken.
HeldInv ==
  \/ Nothing /\ LastReceived = At(tunnel, Taken)[1]
  \/ /\ Taken > 0 /\ Holds(At(tunnel, Taken)[1])
     /\ Follows(LastReceived, At(tunnel, Taken)[1])

Before(i) == IF i = 1 THEN 0 ELSE received[i - 1]

ReceivedInv ==
  /\ \A i \in 1 .. Len(received) :
       /\ Follows(Before(i), received[i])
       /\ received[i] <= message /\ Seals(received[i])
       /\ \E k \in 1 .. Taken : tunnel[k] = <<received[i], FrameSize>>
  /\ \A k \in 1 .. Taken :
       \/ tunnel[k][2] < FrameSize
       \/ \E i \in 1 .. Len(received) : received[i] = tunnel[k][1]
       \/ ~Nothing /\ tunnel[k][1] = At(tunnel, Taken)[1]

EndInv ==
  /\ reader = "ended" =>
       \/ own_closed
       \/ tunnel_end = "eof" /\ read = Len(tunnel) /\ frame_buff = <<>>
  /\ reader = "failed" =>
       \/ tunnel_end = "error" \/ own_closed
       \/ tunnel_end = "eof" /\ ms_buff # <<>>

ReaderInv == PiecesInv /\ HeldInv /\ ReceivedInv /\ EndInv

StreamInv == TypeInv /\ WriterInv /\ ReaderInv

-----------------------------------------------------------------------------
(* Sequences of units.                                                     *)

\* What the assumption says of each constant.
LEMMA Lengths ==
  /\ FrameSize \in Nat \ {0} /\ PlainSize \in Nat \ {0}
  /\ ReadSize \in Nat \ {0} /\ MaxMessages \in Nat
BY StreamAssumption DEF StreamAssumption

\* A unit is a pair of its message and its place.
LEMMA UnitIs ==
  ASSUME NEW u \in Units
  PROVE  u[1] \in Nat \ {0} /\ u[2] \in 1 .. FrameSize /\ u = <<u[1], u[2]>>
BY DEF Units

LEMMA FrameIs ==
  ASSUME NEW m \in Nat \ {0}
  PROVE  /\ Frame(m) \in Seq(Units) /\ Len(Frame(m)) = FrameSize
         /\ \A i \in 1 .. FrameSize : Frame(m)[i] = <<m, i>>
<1>1. FrameSize \in Nat
  BY Lengths
<1>2. \A i \in 1 .. FrameSize : <<m, i>> \in Units
  BY DEF Units
<1>3. Frame(m) \in [1 .. FrameSize -> Units]
  BY <1>2 DEF Frame
<1>4. QED
  BY <1>1, <1>3 DEF Frame

LEMMA PlainIs ==
  ASSUME NEW m \in Nat \ {0}
  PROVE  /\ Plain(m) \in Seq(Pairs) /\ Len(Plain(m)) = PlainSize
         /\ \A i \in 1 .. PlainSize : Plain(m)[i] = <<m, i>>
<1>1. PlainSize \in Nat
  BY Lengths
<1>2. Plain(m) \in [1 .. PlainSize -> Pairs]
  BY DEF Plain, Pairs
<1>3. QED
  BY <1>1, <1>2 DEF Plain

\* Whatever the first n elements are taken from, the rest is what is skipped.
LEMMA TakeAndSkip ==
  ASSUME NEW S, NEW s \in Seq(S), NEW n \in 0 .. Len(s)
  PROVE  /\ Take(s, n) \in Seq(S) /\ Len(Take(s, n)) = n
         /\ \A i \in 1 .. n : Take(s, n)[i] = s[i]
         /\ Skip(s, n) \in Seq(S) /\ Len(Skip(s, n)) = Len(s) - n
         /\ \A i \in 1 .. Len(s) - n : Skip(s, n)[i] = s[n + i]
         /\ Take(s, n) \o Skip(s, n) = s
<1>1. Len(s) \in Nat /\ n \in Nat
  BY LenProperties
<1>2. \A i \in 1 .. Len(s) : s[i] \in S
  BY ElementOfSeq
<1>3. /\ Take(s, n) \in Seq(S) /\ Len(Take(s, n)) = n
      /\ \A i \in 1 .. n : Take(s, n)[i] = s[i]
  <2>1. /\ SubSeq(s, 1, n) \in Seq(S)
        /\ Len(SubSeq(s, 1, n)) = IF 1 <= n THEN n - 1 + 1 ELSE 0
        /\ \A i \in 1 .. n - 1 + 1 : SubSeq(s, 1, n)[i] = s[1 + i - 1]
    BY <1>1, <1>2, SubSeqProperties
  <2>2. QED
    BY <1>1, <2>1 DEF Take
<1>4. /\ Skip(s, n) \in Seq(S) /\ Len(Skip(s, n)) = Len(s) - n
      /\ \A i \in 1 .. Len(s) - n : Skip(s, n)[i] = s[n + i]
  <2>1. /\ SubSeq(s, n + 1, Len(s)) \in Seq(S)
        /\ Len(SubSeq(s, n + 1, Len(s)))
             = IF n + 1 <= Len(s) THEN Len(s) - (n + 1) + 1 ELSE 0
        /\ \A i \in 1 .. Len(s) - (n + 1) + 1 :
             SubSeq(s, n + 1, Len(s))[i] = s[(n + 1) + i - 1]
    BY <1>1, <1>2, SubSeqProperties
  <2>2. QED
    BY <1>1, <2>1 DEF Skip
<1>5. Take(s, n) \o Skip(s, n) = s
  <2>1. SubSeq(s, 1, n) \o SubSeq(s, n + 1, Len(s)) = SubSeq(s, 1, Len(s))
    <3>1. /\ 1 \in 1 .. Len(s) + 1 /\ n \in 1 - 1 .. Len(s)
          /\ Len(s) \in n .. Len(s)
      BY <1>1
    <3>2. QED
      BY <3>1, ConcatAdjacentSubSeq
  <2>2. QED
    BY <2>1, SubSeqFull DEF Take, Skip
<1>6. QED
  BY <1>3, <1>4, <1>5

\* t begins with s.
Begins(s, t) == Len(s) <= Len(t) /\ \A k \in 1 .. Len(s) : t[k] = s[k]

LEMMA ConcatBegins ==
  ASSUME NEW S, NEW s \in Seq(S), NEW t \in Seq(S)
  PROVE  Begins(s, s \o t) /\ s \o t \in Seq(S)
BY ConcatProperties, LenProperties DEF Begins

\* What is framed is framed up to each of its units.
LEMMA FramedBeginning ==
  ASSUME NEW s \in Seq(Units), NEW t \in Seq(Units), Framed(s), Begins(t, s)
  PROVE  Framed(t)
<1> SUFFICES ASSUME NEW k \in 1 .. Len(t)
             PROVE  /\ Seals(t[k][1]) /\ t[k][1] <= message
                    /\ Succeeds(At(t, k - 1), t[k])
  BY DEF Framed
<1>1. k \in 1 .. Len(s) /\ t[k] = s[k] /\ Len(t) \in Nat
  BY LenProperties DEF Begins
<1>2. At(t, k - 1) = At(s, k - 1)
  <2>1. CASE k = 1
    BY <2>1 DEF At
  <2>2. CASE k # 1
    <3>1. k - 1 \in 1 .. Len(t) /\ k - 1 # 0
      BY <1>1, <2>2
    <3>2. QED
      BY <3>1 DEF Begins, At
  <2>3. QED
    BY <2>1, <2>2
<1>3. QED
  BY <1>1, <1>2 DEF Framed

\* Later the same is framed: messages keep their length, and the last one
\* that was written only becomes a later one.
LEMMA FramedLater ==
  ASSUME NEW s \in Seq(Units), Framed(s), size' = size,
         message \in Nat, message' \in Nat, message <= message'
  PROVE  Framed(s)'
<1>1. ASSUME NEW k \in 1 .. Len(s)
      PROVE  /\ Seals(s[k][1])' /\ s[k][1] <= message'
             /\ Succeeds(At(s, k - 1), s[k])'
  <2>1. /\ Seals(s[k][1]) /\ s[k][1] <= message
        /\ Succeeds(At(s, k - 1), s[k])
    BY DEF Framed
  <2>2. s[k][1] \in Nat
    BY ElementOfSeq, UnitIs
  <2>3. Seals(s[k][1])'
    BY <2>1 DEF Seals
  <2>4. Succeeds(At(s, k - 1), s[k])'
    BY <2>1 DEF Succeeds, Follows, Seals
  <2>5. QED
    BY <2>1, <2>2, <2>3, <2>4
<1>2. QED
  BY <1>1 DEF Framed

\* The end of a sequence that was added to.
LEMMA EndOfConcat ==
  ASSUME NEW s \in Seq(Units), NEW t \in Seq(Units), t # <<>>
  PROVE  EndOf(s \o t) = t[Len(t)]
<1>1. Len(t) \in Nat \ {0} /\ Len(s) \in Nat
  BY EmptySeq, LenProperties
<1>2. Len(s \o t) = Len(s) + Len(t) /\ (s \o t)[Len(s) + Len(t)] = t[Len(t)]
  BY <1>1, ConcatProperties
<1>3. QED
  BY <1>1, <1>2 DEF EndOf, At

\* A frame may be added after the end of a frame.
LEMMA FramedAppend ==
  ASSUME NEW s \in Seq(Units), Framed(s), EndOf(s)[2] = FrameSize,
         message \in Nat \ {0}, Follows(EndOf(s)[1], message), Seals(message)
  PROVE  /\ s \o Frame(message) \in Seq(Units) /\ Framed(s \o Frame(message))
         /\ EndOf(s \o Frame(message)) = <<message, FrameSize>>
         /\ Begins(s, s \o Frame(message))
         /\ Contains(s \o Frame(message), <<message, FrameSize>>)
<1> DEFINE t == s \o Frame(message)
           n == Len(s)
<1>1. FrameSize \in Nat \ {0} /\ n \in Nat
  BY Lengths, LenProperties
<1>2. /\ Frame(message) \in Seq(Units) /\ Len(Frame(message)) = FrameSize
      /\ \A i \in 1 .. FrameSize : Frame(message)[i] = <<message, i>>
  BY FrameIs
<1>3. /\ t \in Seq(Units) /\ Len(t) = n + FrameSize
      /\ \A k \in 1 .. n : t[k] = s[k]
      /\ \A k \in n + 1 .. n + FrameSize : t[k] = <<message, k - n>>
  <2>1. /\ t \in Seq(Units) /\ Len(t) = n + FrameSize
        /\ \A i \in 1 .. n + FrameSize :
             t[i] = IF i <= n THEN s[i] ELSE Frame(message)[i - n]
    BY <1>2, ConcatProperties
  <2>2. ASSUME NEW k \in n + 1 .. n + FrameSize
        PROVE  t[k] = <<message, k - n>>
    <3>1. ~(k <= n) /\ k - n \in 1 .. FrameSize /\ k \in 1 .. n + FrameSize
      BY <1>1
    <3>2. QED
      BY <1>2, <2>1, <3>1
  <2>3. ASSUME NEW k \in 1 .. n PROVE t[k] = s[k]
    BY <1>1, <2>1
  <2>4. QED
    BY <2>1, <2>2, <2>3
<1>4. Begins(s, t)
  BY <1>1, <1>3 DEF Begins
<1> HIDE DEF t
<1>5. ASSUME NEW k \in 1 .. Len(t)
      PROVE  /\ Seals(t[k][1]) /\ t[k][1] <= message
             /\ Succeeds(At(t, k - 1), t[k])
  <2>1. CASE k <= n
    <3>1. k \in 1 .. n /\ t[k] = s[k]
      BY <1>1, <1>3, <2>1
    <3>2. At(t, k - 1) = At(s, k - 1)
      <4>1. CASE k = 1
        BY <4>1 DEF At
      <4>2. CASE k # 1
        <5>1. k - 1 \in 1 .. n /\ k - 1 # 0
          BY <1>1, <3>1, <4>2
        <5>2. QED
          BY <1>3, <5>1 DEF At
      <4>3. QED
        BY <4>1, <4>2
    <3>3. QED
      BY <3>1, <3>2 DEF Framed
  <2>2. CASE ~(k <= n)
    <3>1. k \in n + 1 .. n + FrameSize /\ t[k] = <<message, k - n>>
      BY <1>1, <1>3, <2>2
    <3>2. CASE k = n + 1
      <4>1. At(t, k - 1) = EndOf(s)
        <5>1. k - 1 = n
          BY <1>1, <3>2
        <5>2. CASE n = 0
          BY <5>1, <5>2 DEF At, EndOf
        <5>3. CASE n # 0
          <6>1. n \in 1 .. n
            BY <1>1, <5>3
          <6>2. QED
            BY <1>3, <5>1, <5>3, <6>1 DEF At, EndOf
        <5>4. QED
          BY <5>2, <5>3
      <4>2. t[k] = <<message, 1>>
        BY <1>1, <3>1, <3>2
      <4>3. Succeeds(At(t, k - 1), t[k])
        BY <1>1, <4>1, <4>2 DEF Succeeds
      <4>4. QED
        BY <4>2, <4>3
    <3>3. CASE k # n + 1
      <4>1. k - 1 \in n + 1 .. n + FrameSize /\ k - 1 # 0
            /\ k - 1 - n < FrameSize /\ k - 1 - n + 1 = k - n
        BY <1>1, <3>1, <3>3
      <4>2. At(t, k - 1) = <<message, k - 1 - n>>
        BY <1>3, <4>1 DEF At
      <4>3. Succeeds(At(t, k - 1), t[k])
        BY <3>1, <4>1, <4>2 DEF Succeeds
      <4>4. QED
        BY <3>1, <4>3
    <3>4. QED
      BY <3>2, <3>3
  <2>3. QED
    BY <2>1, <2>2
<1>6. Framed(t)
  BY <1>5 DEF Framed
<1>7. t[n + FrameSize] = <<message, FrameSize>> /\ n + FrameSize \in 1 .. Len(t)
      /\ n + FrameSize # 0
  BY <1>1, <1>3
<1>8. EndOf(t) = <<message, FrameSize>> /\ Contains(t, <<message, FrameSize>>)
  BY <1>3, <1>7 DEF EndOf, At, Contains
<1>9. QED
  BY <1>3, <1>4, <1>6, <1>8 DEF t

\* A set of natural numbers has a smallest element.
LEMMA Smallest ==
  ASSUME NEW T, T \subseteq Nat, T # {}
  PROVE  \E x \in T : \A y \in T : x <= y
<1>1. \E x \in T : \A y \in T : ~ (<<y, x>> \in OpToRel(<, Nat))
  BY NatLessThanWellFounded, WFMin
<1>2. PICK x \in T : \A y \in T : ~ (<<y, x>> \in OpToRel(<, Nat))
  BY <1>1
<1>3. \A y \in T : ~ (y < x)
  BY <1>2 DEF OpToRel
<1>4. QED
  BY <1>3

\* The units after the end of a frame are those of a frame.
LEMMA FrameFollows ==
  ASSUME NEW s \in Seq(Units), Framed(s), NEW c \in 0 .. Len(s),
         At(s, c)[2] = FrameSize
  PROVE  /\ \A i \in 1 .. FrameSize :
              c + i <= Len(s) => s[c + i] = <<s[c + 1][1], i>>
         /\ c < Len(s) => Follows(At(s, c)[1], s[c + 1][1])
<1>1. FrameSize \in Nat \ {0} /\ Len(s) \in Nat /\ c \in Nat
  BY Lengths, LenProperties
<1>2. ASSUME c < Len(s)
      PROVE  s[c + 1] = <<s[c + 1][1], 1>> /\ Follows(At(s, c)[1], s[c + 1][1])
  <2>1. c + 1 \in 1 .. Len(s) /\ (c + 1) - 1 = c
    BY <1>1, <1>2
  <2>2. Succeeds(At(s, (c + 1) - 1), s[c + 1])
    BY <2>1 DEF Framed
  <2>3. Succeeds(At(s, c), s[c + 1])
    BY <2>1, <2>2
  <2>4. ~(FrameSize < FrameSize)
    BY <1>1
  <2>5. s[c + 1][2] = 1 /\ Follows(At(s, c)[1], s[c + 1][1])
    BY <2>3, <2>4 DEF Succeeds
  <2>6. s[c + 1] = <<s[c + 1][1], s[c + 1][2]>>
    BY <2>1, ElementOfSeq, UnitIs
  <2>7. QED
    BY <2>5, <2>6
<1>3. ASSUME NEW i \in 1 .. FrameSize, c + i <= Len(s),
             s[c + i] # <<s[c + 1][1], i>>
      PROVE  FALSE
  <2> DEFINE T == {j \in 1 .. FrameSize :
                     c + j <= Len(s) /\ s[c + j] # <<s[c + 1][1], j>>}
  <2>1. T \subseteq Nat /\ T # {}
    BY <1>1, <1>3
  <2>2. PICK j \in T : \A k \in T : j <= k
    BY <2>1, Smallest
  <2>3. j \in 1 .. FrameSize /\ c + j <= Len(s) /\ s[c + j] # <<s[c + 1][1], j>>
    BY <2>2
  <2>4. j # 1
    BY <1>1, <1>2, <2>3
  <2>5. /\ j - 1 \in 1 .. FrameSize /\ c + (j - 1) <= Len(s) /\ ~(j <= j - 1)
        /\ c + j \in 1 .. Len(s) /\ (c + j) - 1 = c + (j - 1)
        /\ c + (j - 1) # 0 /\ j - 1 < FrameSize /\ (j - 1) + 1 = j
    BY <1>1, <2>3, <2>4
  <2>6. j - 1 \notin T
    BY <2>2, <2>5
  <2>7. s[c + (j - 1)] = <<s[c + 1][1], j - 1>>
    BY <2>5, <2>6
  <2>8. At(s, (c + j) - 1) = <<s[c + 1][1], j - 1>>
    BY <2>5, <2>7 DEF At
  <2>9. Succeeds(At(s, (c + j) - 1), s[c + j])
    BY <2>5 DEF Framed
  <2>10. s[c + j] = <<s[c + 1][1], (j - 1) + 1>>
    BY <2>5, <2>8, <2>9 DEF Succeeds
  <2>11. QED
    BY <2>3, <2>5, <2>10
<1>4. QED
  BY <1>2, <1>3

-----------------------------------------------------------------------------
(* Writing.                                                                *)

\* What MessageStream::poll_write may have done with frame m: taken it, ...
Appended(m, done, more) ==
  /\ ~closed /\ closed' = FALSE /\ Seals(m)
  /\ tunnel' \in Seq(Units) /\ ms_buff' \in Seq(Units)
  /\ tunnel' \o ms_buff' = Line \o Frame(m)
  /\ Begins(tunnel, tunnel')
  /\ \/ aes_buff' = Idle /\ ms_buff' = <<>> /\ Returns(done)
     \/ aes_buff' = m /\ Returns(more)

\* ... refused it, ...
Refused(m) ==
  /\ ~closed /\ closed' = FALSE /\ ~Seals(m)
  /\ UNCHANGED <<tunnel, ms_buff>>
  /\ aes_buff' = Idle /\ Fails

\* ... or met an error now or earlier.
Broke(m) ==
  /\ closed' = TRUE /\ aes_buff' = Idle /\ Fails
  /\ tunnel' \in Seq(Units) /\ ms_buff' \in Seq(Units)
  /\ \/ closed /\ UNCHANGED <<tunnel, ms_buff>>
     \/ /\ ~closed /\ Seals(m) /\ ms_buff' # <<>>
        /\ Begins(tunnel, tunnel') /\ Begins(tunnel', Line \o Frame(m))

\* A part of the line is added to the tunnel and the rest stays.
LEMMA PartIsTaken ==
  ASSUME NEW s \in Seq(Units), NEW b \in Seq(Units), NEW n \in 0 .. Len(b)
  PROVE  /\ s \o Take(b, n) \in Seq(Units) /\ Skip(b, n) \in Seq(Units)
         /\ Begins(s, s \o Take(b, n))
         /\ (s \o Take(b, n)) \o Skip(b, n) = s \o b
         /\ Begins(s \o Take(b, n), s \o b)
<1>1. /\ Take(b, n) \in Seq(Units) /\ Skip(b, n) \in Seq(Units)
      /\ Take(b, n) \o Skip(b, n) = b
  BY TakeAndSkip
<1>2. s \o Take(b, n) \in Seq(Units) /\ Begins(s, s \o Take(b, n))
  BY <1>1, ConcatBegins
<1>3. (s \o Take(b, n)) \o Skip(b, n) = s \o b
  <2>1. \A t, u \in Seq(Units) : (s \o t) \o u = s \o (t \o u)
    BY ConcatAssociative, SMTT(30)
  <2>2. (s \o Take(b, n)) \o Skip(b, n) = s \o (Take(b, n) \o Skip(b, n))
    BY <1>1, <2>1, Zenon
  <2>3. QED
    BY <1>1, <2>2, Zenon
<1>4. Begins(s \o Take(b, n), (s \o Take(b, n)) \o Skip(b, n))
  BY <1>1, <1>2, ConcatBegins
<1>5. QED
  BY <1>1, <1>2, <1>3, <1>4

LEMMA PollWriteEffect ==
  ASSUME TypeInv, NEW m \in Nat \ {0}, NEW done, NEW more,
         InnerPollWrite(m, done, more)
  PROVE  Appended(m, done, more) \/ Refused(m) \/ Broke(m)
<1> DEFINE buff == ms_buff \o Frame(m)
<1>1. /\ tunnel \in Seq(Units) /\ ms_buff \in Seq(Units) /\ closed \in BOOLEAN
      /\ Frame(m) \in Seq(Units)
  BY FrameIs DEF TypeInv
<1>2. /\ buff \in Seq(Units) /\ tunnel \o buff = Line \o Frame(m)
      /\ Len(buff) \in Nat \ {0} /\ buff # <<>>
  <2>1. buff \in Seq(Units) /\ Len(buff) = Len(ms_buff) + Len(Frame(m))
    BY <1>1, ConcatProperties
  <2>2. Len(buff) \in Nat \ {0}
    BY <1>1, <2>1, FrameIs, Lengths, LenProperties
  <2>3. tunnel \o buff = Line \o Frame(m)
    BY <1>1, ConcatAssociative, SMTT(30) DEF Line
  <2>4. QED
    BY <2>1, <2>2, <2>3, EmptySeq
<1> HIDE DEF buff
<1>3. CASE /\ ~closed /\ Seals(m)
           /\ tunnel' = tunnel \o buff /\ ms_buff' = <<>>
           /\ aes_buff' = Idle
           /\ Returns(done)
           /\ UNCHANGED <<closed, pending>>
  <2>1. tunnel \o buff \in Seq(Units) /\ Begins(tunnel, tunnel \o buff)
    BY <1>1, <1>2, ConcatBegins
  <2>2. <<>> \in Seq(Units) /\ (tunnel \o buff) \o <<>> = tunnel \o buff
    BY <2>1, EmptySeq, ConcatEmptySeq
  <2>3. tunnel' \o ms_buff' = Line \o Frame(m)
    BY <1>2, <1>3, <2>2
  <2>4. QED
    BY <1>3, <2>1, <2>2, <2>3 DEF Appended
<1>4. CASE /\ ~closed /\ Seals(m) /\ Pends
           /\ \E n \in 0 .. Len(buff) - 1 :
                /\ tunnel' = tunnel \o Take(buff, n)
                /\ ms_buff' = Skip(buff, n)
           /\ aes_buff' = m
           /\ Returns(more)
           /\ UNCHANGED closed
  <2>1. PICK n \in 0 .. Len(buff) - 1 :
          tunnel' = tunnel \o Take(buff, n) /\ ms_buff' = Skip(buff, n)
    BY <1>4
  <2>2. n \in 0 .. Len(buff)
    BY <1>2
  <2>3. /\ tunnel' \in Seq(Units) /\ ms_buff' \in Seq(Units)
        /\ Begins(tunnel, tunnel') /\ tunnel' \o ms_buff' = tunnel \o buff
    BY <1>1, <1>2, <2>1, <2>2, PartIsTaken
  <2>4. tunnel' \o ms_buff' = Line \o Frame(m)
    BY <1>2, <2>3
  <2>5. QED
    BY <1>4, <2>3, <2>4 DEF Appended
<1>5. CASE /\ ~closed /\ ~Seals(m)
           /\ aes_buff' = Idle
           /\ Fails
           /\ UNCHANGED <<tunnel, ms_buff, closed, pending>>
  BY <1>5 DEF Refused
<1>6. CASE /\ closed \/ Seals(m)
           /\ closed' = TRUE
           /\ \/ /\ ~closed /\ ms_buff' = buff
                 /\ \E n \in 0 .. Len(buff) - 1 : tunnel' = tunnel \o Take(buff, n)
              \/ closed /\ UNCHANGED <<tunnel, ms_buff>>
           /\ aes_buff' = Idle
           /\ Fails
           /\ UNCHANGED pending
  <2>1. CASE closed
    BY <1>1, <1>6, <2>1 DEF Broke
  <2>2. CASE ~closed
    <3>1. PICK n \in 0 .. Len(buff) - 1 : tunnel' = tunnel \o Take(buff, n)
      BY <1>6, <2>2
    <3>2. n \in 0 .. Len(buff)
      BY <1>2
    <3>3. /\ tunnel' \in Seq(Units) /\ Begins(tunnel, tunnel')
          /\ Begins(tunnel', tunnel \o buff)
      BY <1>1, <1>2, <3>1, <3>2, PartIsTaken
    <3>4. ms_buff' \in Seq(Units) /\ ms_buff' # <<>>
      BY <1>2, <1>6, <2>2
    <3>5. Begins(tunnel', Line \o Frame(m))
      BY <1>2, <3>3
    <3>6. QED
      BY <1>6, <2>2, <3>3, <3>4, <3>5 DEF Broke
  <2>3. QED
    BY <2>1, <2>2
<1>7. QED
  BY <1>3, <1>4, <1>5, <1>6 DEF InnerPollWrite, buff

\* What a step of the writer's side does not undo, wherever the reader is.
Wrote ==
  /\ tunnel' \in Seq(Units) /\ ms_buff' \in Seq(Units) /\ closed' \in BOOLEAN
  /\ Begins(tunnel, tunnel')
  /\ message' \in Nat /\ message <= message'
  /\ WriterInv'

\* The same line is as well framed when the message has become a later one.
LEMMA LineStays ==
  ASSUME TypeInv, LineInv, size' = size, message' \in Nat, message <= message',
         UNCHANGED <<tunnel, ms_buff, closed>>,
         aes_buff' = Idle => aes_buff = Idle
  PROVE  /\ LineInv' /\ Begins(tunnel, tunnel')
         /\ tunnel' \in Seq(Units) /\ ms_buff' \in Seq(Units)
         /\ closed' \in BOOLEAN
<1>1. PICK t : t = tunnel
  OBVIOUS
<1>2. PICK s : s = tunnel \o ms_buff
  OBVIOUS
<1>3. t \in Seq(Units) /\ s \in Seq(Units) /\ message \in Nat
  BY <1>1, <1>2, ConcatProperties DEF TypeInv
<1>4. Framed(t)'
  BY <1>1, <1>3, FramedLater DEF LineInv
<1>5. t = tunnel' /\ s = tunnel' \o ms_buff'
  BY <1>1, <1>2
<1>6. Framed(tunnel)'
  BY <1>4, <1>5 DEF Framed, Succeeds, At, Follows, Seals
<1>7. ASSUME ~closed
      PROVE  Framed(Line)' /\ (EndOf(Line)[2] = FrameSize)'
  <2>1. Framed(s) /\ EndOf(s)[2] = FrameSize
    BY <1>2, <1>7 DEF LineInv, Line
  <2>2. Framed(s)'
    BY <1>3, <2>1, FramedLater
  <2>3. Line' = s
    BY <1>5 DEF Line
  <2>4. Framed(Line)'
    BY <2>2, <2>3 DEF Framed, Succeeds, At, Follows, Seals
  <2>5. QED
    BY <2>1, <2>3, <2>4 DEF EndOf, At
<1>8. Begins(tunnel, tunnel')
  BY <1>1, <1>3, <1>5, LenProperties DEF Begins
<1>9. ASSUME closed, ms_buff = <<>>
      PROVE  (EndOf(tunnel)[2] = FrameSize)'
  BY <1>1, <1>5, <1>9 DEF LineInv, EndOf, At
<1>10. QED
  BY <1>3, <1>5, <1>6, <1>7, <1>8, <1>9 DEF LineInv, TypeInv

\* When nothing is left in the buffer, the tunnel ends with a frame.
LEMMA TunnelEnds ==
  ASSUME TypeInv, LineInv, ms_buff = <<>>
  PROVE  Framed(tunnel) /\ EndOf(tunnel)[2] = FrameSize
<1>1. CASE closed
  BY <1>1 DEF LineInv
<1>2. CASE ~closed
  <2>1. Line = tunnel
    BY ConcatEmptySeq DEF TypeInv, Line
  <2>2. QED
    BY <1>2, <2>1 DEF LineInv
<1>3. QED
  BY <1>1, <1>2

\* The types that a step leaves alone, and those it has to keep.
LEMMA WriterTypes ==
  ASSUME TypeInv
  PROVE  /\ tunnel \in Seq(Units) /\ ms_buff \in Seq(Units)
         /\ Line \in Seq(Units) /\ message \in Nat /\ closed \in BOOLEAN
BY ConcatProperties DEF TypeInv, Line

\* What was given to the tunnel's stream is a sequence of frames, as far as
\* it is in the tunnel and with what is left of it.
LEMMA FramedAgain ==
  ASSUME NEW l \in Seq(Units), Framed(l), EndOf(l)[2] = FrameSize,
         size' = size, message \in Nat, message' \in Nat, message <= message',
         tunnel' \in Seq(Units), ms_buff' \in Seq(Units), tunnel' \o ms_buff' = l
  PROVE  Framed(tunnel)' /\ Framed(Line)' /\ (EndOf(Line)[2] = FrameSize)'
<1>1. PICK t : t = tunnel'
  OBVIOUS
<1>2. t \in Seq(Units) /\ Begins(t, l)
  <2>1. Begins(tunnel', tunnel' \o ms_buff')
    BY ConcatBegins
  <2>2. QED
    BY <1>1, <2>1
<1>3. Framed(t)' /\ Framed(l)'
  <2>1. Framed(t)
    BY <1>2, FramedBeginning
  <2>2. QED
    BY <1>2, <2>1, FramedLater
<1>4. Framed(tunnel)'
  BY <1>1, <1>3 DEF Framed, Succeeds, At, Follows, Seals
<1>5. Line' = l
  BY DEF Line
<1>6. Framed(Line)'
  BY <1>3, <1>5 DEF Framed, Succeeds, At, Follows, Seals
<1>7. QED
  BY <1>4, <1>5, <1>6 DEF EndOf, At

\* A poll that appends the frame of the message, takes it or keeps it.
LEMMA AppendedKeeps ==
  ASSUME TypeInv, WriterInv, size' = size, UNCHANGED tunnel_end,
         encrypt' = Idle, task \in {"write", "flush"},
         NEW more, more = IF task = "write" THEN "ready" ELSE "pending",
         Appended(message, "ready", more)
  PROVE  Wrote
<1> DEFINE l == Line \o Frame(message)
<1>1. /\ tunnel \in Seq(Units) /\ ms_buff \in Seq(Units)
      /\ Line \in Seq(Units) /\ message \in Nat /\ closed \in BOOLEAN
  BY WriterTypes
<1>2. message \in Nat \ {0} /\ tunnel_end # "eof"
  BY <1>1 DEF WriterInv, TaskInv
<1>3. /\ l \in Seq(Units) /\ Framed(l) /\ EndOf(l) = <<message, FrameSize>>
      /\ Begins(Line, l) /\ Contains(l, <<message, FrameSize>>)
  <2>1. /\ Framed(Line) /\ EndOf(Line)[2] = FrameSize
        /\ Follows(EndOf(Line)[1], message) /\ Seals(message)
    BY DEF WriterInv, LineInv, SentInv, SentTo, Appended
  <2>2. QED
    BY <1>1, <1>2, <2>1, FramedAppend
<1>4. \A m \in 1 .. message : Seals(m) => Contains(l, <<m, FrameSize>>)
  <2> SUFFICES ASSUME NEW m \in 1 .. message, Seals(m)
               PROVE  Contains(l, <<m, FrameSize>>)
    OBVIOUS
  <2>1. CASE m = message
    BY <1>3, <2>1
  <2>2. CASE m # message
    <3>1. m \in 1 .. message - 1
      BY <1>1, <2>2
    <3>2. Contains(Line, <<m, FrameSize>>)
      BY <3>1 DEF WriterInv, SentInv, SentTo, Appended
    <3>3. PICK i \in 1 .. Len(Line) : Line[i] = <<m, FrameSize>>
      BY <3>2 DEF Contains
    <3>4. Len(Line) \in Nat /\ Len(l) \in Nat
      BY <1>1, <1>3, LenProperties
    <3>5. i \in 1 .. Len(l) /\ l[i] = <<m, FrameSize>>
      BY <1>3, <3>3, <3>4 DEF Begins
    <3>6. QED
      BY <3>5 DEF Contains
  <2>3. QED
    BY <2>1, <2>2
<1>5. /\ tunnel' \in Seq(Units) /\ ms_buff' \in Seq(Units) /\ closed' = FALSE
      /\ Begins(tunnel, tunnel') /\ tunnel' \o ms_buff' = l
  BY DEF Appended
<1> HIDE DEF l
<1>6. Line' = l
  BY <1>5 DEF Line
<1>7. \/ /\ aes_buff' = Idle /\ ms_buff' = <<>> /\ task = "write"
         /\ task' = "flush" /\ message' = message
      \/ /\ aes_buff' = Idle /\ ms_buff' = <<>> /\ task = "flush"
         /\ task' = "idle" /\ message' = message + 1
      \/ /\ aes_buff' = message /\ task' = "flush" /\ message' = message
  BY DEF Appended, Returns
<1>8. message' \in Nat \ {0} /\ message <= message'
  BY <1>2, <1>7
<1>9. LineInv'
  <2>1. Framed(tunnel)' /\ Framed(Line)' /\ (EndOf(Line)[2] = FrameSize)'
    <3>1. EndOf(l)[2] = FrameSize
      BY <1>3
    <3>2. QED
      BY <1>1, <1>3, <1>5, <1>8, <3>1, FramedAgain
  <2>2. aes_buff' = Idle => ms_buff' = <<>>
    BY <1>2, <1>7 DEF Idle
  <2>3. QED
    BY <1>5, <2>1, <2>2 DEF LineInv
<1>10. TaskInv'
  <2>1. aes_buff' # Idle => Seals(message)'
    BY <1>7 DEF Appended, Seals
  <2>2. QED
    BY <1>2, <1>5, <1>7, <1>8, <2>1 DEF TaskInv, Idle
<1>11. SentInv'
  <2>1. (EndOf(Line)[1])' = message
    BY <1>3, <1>6 DEF EndOf, At
  <2>2. message <= message' /\ message + 1 .. message' - 1 = {}
    BY <1>2, <1>7
  <2>3. Framing' => message' = message
    BY <1>7 DEF Framing
  <2>4. ASSUME NEW m \in 1 .. message' - 1, Seals(m)'
        PROVE  Contains(Line, <<m, FrameSize>>)'
    <3>1. m \in 1 .. message
      BY <1>2, <1>7
    <3>2. Contains(l, <<m, FrameSize>>)
      BY <1>4, <2>4, <3>1 DEF Seals
    <3>3. QED
      BY <1>6, <3>2 DEF Contains
  <2>5. Follows(EndOf(Line)[1], message)'
    BY <2>1, <2>2, Zenon DEF Follows
  <2>6. QED
    BY <2>1, <2>3, <2>4, <2>5 DEF SentInv, SentTo
<1>12. QED
  BY <1>5, <1>8, <1>9, <1>10, <1>11 DEF Wrote, WriterInv

\* The end of a sequence of units is a message's, or is before the first one.
LEMMA EndIs ==
  ASSUME NEW s \in Seq(Units)
  PROVE  /\ EndOf(s)[1] \in Nat /\ EndOf(s)[2] \in 1 .. FrameSize
         /\ EndOf(s) = <<EndOf(s)[1], EndOf(s)[2]>>
         /\ EndOf(s)[1] # 0 => Len(s) \in 1 .. Len(s) /\ s[Len(s)] = EndOf(s)
<1>1. Len(s) \in Nat /\ FrameSize \in Nat \ {0}
  BY LenProperties, Lengths
<1>2. CASE Len(s) = 0
  BY <1>1, <1>2 DEF EndOf, At
<1>3. CASE Len(s) # 0
  <2>1. Len(s) \in 1 .. Len(s) /\ s[Len(s)] = EndOf(s)
    BY <1>1, <1>3 DEF EndOf, At
  <2>2. EndOf(s) \in Units
    BY <2>1, ElementOfSeq
  <2>3. QED
    BY <2>1, <2>2, UnitIs
<1>4. QED
  BY <1>2, <1>3

\* A message that is refused or is the last of the line is done with.
LEMMA NextMessage ==
  ASSUME TypeInv, SentTo(message), message > 0,
         ~Seals(message) \/ EndOf(Line) = <<message, FrameSize>>
  PROVE  SentTo(message + 1)
<1>1. Line \in Seq(Units) /\ message \in Nat
  BY WriterTypes
<1>2. PICK e : e = EndOf(Line)[1]
  OBVIOUS
<1>3. /\ e \in Nat /\ e <= message
      /\ \A m \in e + 1 .. message - 1 : ~Seals(m)
  BY <1>1, <1>2, EndIs DEF SentTo, Follows
<1>4. ~Seals(message) \/ e = message
  BY <1>2
<1>5. Follows(e, message + 1)
  <2>1. e <= message + 1
    BY <1>1, <1>3
  <2>2. ASSUME NEW m \in e + 1 .. (message + 1) - 1
        PROVE  ~Seals(m)
    <3>1. m \in e + 1 .. message - 1 \/ (m = message /\ e # message)
      BY <1>1, <1>3
    <3>2. QED
      BY <1>3, <1>4, <3>1
  <2>3. QED
    BY <2>1, <2>2 DEF Follows
<1>6. ASSUME NEW m \in 1 .. (message + 1) - 1, Seals(m)
      PROVE  Contains(Line, <<m, FrameSize>>)
  <2>1. CASE m = message
    <3>1. EndOf(Line) = <<message, FrameSize>> /\ EndOf(Line)[1] # 0
      BY <1>1, <1>6, <2>1
    <3>2. Len(Line) \in 1 .. Len(Line) /\ Line[Len(Line)] = <<m, FrameSize>>
      BY <1>1, <2>1, <3>1, EndIs
    <3>3. QED
      BY <3>2 DEF Contains
  <2>2. CASE m # message
    <3>1. m \in 1 .. message - 1
      BY <1>1, <2>2
    <3>2. QED
      BY <1>6, <3>1 DEF SentTo
  <2>3. QED
    BY <2>1, <2>2
<1>7. QED
  BY <1>2, <1>5, <1>6 DEF SentTo

LEMMA SentStays ==
  ASSUME NEW n, SentTo(n), UNCHANGED <<size, tunnel, ms_buff>>
  PROVE  SentTo(n)'
<1>1. Line' = Line
  BY DEF Line
<1>2. (EndOf(Line)[1])' = EndOf(Line)[1]
  BY <1>1 DEF EndOf, At
<1>3. \A m : Seals(m)' <=> Seals(m)
  BY DEF Seals
<1>4. \A m : Contains(Line, <<m, FrameSize>>)' <=> Contains(Line, <<m, FrameSize>>)
  BY <1>1 DEF Contains
<1>5. QED
  BY <1>2, <1>3, <1>4 DEF SentTo, Follows

\* What a step keeps that writes nothing into the tunnel.
LEMMA NothingAppended ==
  ASSUME TypeInv, WriterInv, UNCHANGED <<size, tunnel, ms_buff, closed>>,
         aes_buff' = Idle => aes_buff = Idle,
         \/ message' = message
         \/ /\ message' = message + 1
            /\ task \in {"idle", "write", "flush"}
            /\ closed \/ ~Seals(message) \/ EndOf(Line)[1] = message,
         task' \in {"idle", "write", "flush"} /\ ~closed =>
           /\ task \in {"idle", "write", "flush"}
           /\ Framing' => Framing /\ message' = message,
         TaskInv'
  PROVE  Wrote
<1>1. /\ tunnel \in Seq(Units) /\ ms_buff \in Seq(Units)
      /\ Line \in Seq(Units) /\ message \in Nat /\ closed \in BOOLEAN
  BY WriterTypes
<1>2. message > 0 /\ message' \in Nat /\ message <= message'
  BY <1>1 DEF WriterInv, TaskInv
<1>3. /\ LineInv' /\ Begins(tunnel, tunnel')
      /\ tunnel' \in Seq(Units) /\ ms_buff' \in Seq(Units)
      /\ closed' \in BOOLEAN
  BY <1>2, LineStays DEF WriterInv
<1>4. ASSUME ~closed, task' \in {"idle", "write", "flush"}
      PROVE  SentTo(message)' /\ (Framing' => (EndOf(Line)[1] = message)')
  <2>1. task \in {"idle", "write", "flush"} /\ SentTo(message)
        /\ (Framing => EndOf(Line)[1] = message)
    BY <1>4 DEF WriterInv, SentInv
  <2>2. PICK n : n = message'
    OBVIOUS
  <2>3. SentTo(n)
    <3>1. CASE message' = message
      BY <2>1, <2>2, <3>1
    <3>2. CASE message' = message + 1 /\ ~Seals(message)
      BY <1>2, <2>1, <2>2, <3>2, NextMessage
    <3>3. CASE message' = message + 1 /\ EndOf(Line)[1] = message
      <4>1. EndOf(Line) = <<message, FrameSize>>
        BY <1>1, <1>4, <3>3, EndIs DEF WriterInv, LineInv
      <4>2. QED
        BY <1>2, <2>1, <2>2, <3>3, <4>1, NextMessage
    <3>4. QED
      BY <1>4, <3>1, <3>2, <3>3
  <2>4. SentTo(n)'
    BY <2>3, SentStays
  <2>5. SentTo(message)'
    BY <2>2, <2>4 DEF SentTo, Follows
  <2>6. Line' = Line
    BY DEF Line
  <2>7. Framing' => (EndOf(Line)[1] = message)'
    BY <1>4, <2>1, <2>6 DEF EndOf, At
  <2>8. QED
    BY <2>5, <2>7
<1>5. SentInv'
  BY <1>4 DEF SentInv
<1>6. QED
  BY <1>2, <1>3, <1>5 DEF Wrote, WriterInv

\* A poll that meets an error leaves what is in the tunnel as it is, or adds
\* a part of what it had; nothing is added any more.
LEMMA BrokeKeeps ==
  ASSUME TypeInv, WriterInv, size' = size, UNCHANGED tunnel_end,
         encrypt' = Idle, task \in {"write", "flush"}, Broke(message)
  PROVE  Wrote
<1>1. /\ tunnel \in Seq(Units) /\ ms_buff \in Seq(Units)
      /\ Line \in Seq(Units) /\ message \in Nat /\ closed \in BOOLEAN
  BY WriterTypes
<1>2. message > 0 /\ tunnel_end # "eof"
  BY DEF WriterInv, TaskInv
<1>3. \/ task' = "failed" /\ message' = message
      \/ task' = "idle" /\ message' = message + 1
  BY DEF Broke, Fails, Returns
<1>4. message' \in Nat \ {0} /\ message <= message'
  BY <1>1, <1>2, <1>3
<1>5. TaskInv'
  BY <1>2, <1>4 DEF TaskInv, Broke, Idle
<1>6. /\ tunnel' \in Seq(Units) /\ ms_buff' \in Seq(Units) /\ closed' = TRUE
      /\ LineInv' /\ Begins(tunnel, tunnel')
  <2>1. CASE closed
    <3>1. aes_buff' = Idle => aes_buff = Idle
      BY <2>1 DEF WriterInv, TaskInv
    <3>2. UNCHANGED <<tunnel, ms_buff, closed>>
      BY <1>1, <2>1 DEF Broke
    <3>3. LineInv' /\ Begins(tunnel, tunnel')
      BY <1>4, <3>1, <3>2, LineStays DEF WriterInv
    <3>4. QED
      BY <3>3 DEF Broke
  <2>2. CASE ~closed
    <3>1. PICK t : t = tunnel'
      OBVIOUS
    <3>2. /\ Framed(Line) /\ EndOf(Line)[2] = FrameSize
          /\ Follows(EndOf(Line)[1], message) /\ Seals(message)
      BY <2>2 DEF WriterInv, LineInv, SentInv, SentTo, Broke
    <3>3. Line \o Frame(message) \in Seq(Units) /\ Framed(Line \o Frame(message))
      BY <1>1, <1>2, <3>2, FramedAppend
    <3>4. t \in Seq(Units) /\ Begins(t, Line \o Frame(message))
      BY <2>2, <3>1 DEF Broke
    <3>5. Framed(t)
      BY <3>3, <3>4, FramedBeginning
    <3>6. Framed(t)'
      BY <1>1, <1>4, <3>4, <3>5, FramedLater
    <3>7. Framed(tunnel)'
      BY <3>1, <3>6 DEF Framed, Succeeds, At, Follows, Seals
    <3>8. QED
      BY <2>2, <3>7 DEF Broke, LineInv
  <2>3. QED
    BY <2>1, <2>2
<1>7. SentInv'
  BY <1>6 DEF SentInv
<1>8. QED
  BY <1>4, <1>5, <1>6, <1>7 DEF Wrote, WriterInv

\* A frame that is too long is given up.
LEMMA RefusedKeeps ==
  ASSUME TypeInv, WriterInv, size' = size, UNCHANGED tunnel_end,
         encrypt' = Idle, task \in {"write", "flush"}, Refused(message)
  PROVE  Wrote
<1>1. message > 0 /\ message \in Nat /\ tunnel_end # "eof" /\ aes_buff = Idle
  BY WriterTypes DEF WriterInv, TaskInv, Refused
<1>2. \/ task' = "failed" /\ message' = message
      \/ task' = "idle" /\ message' = message + 1
  BY DEF Refused, Fails, Returns
<1>3. TaskInv'
  BY <1>1, <1>2 DEF TaskInv, Refused, Idle
<1>4. UNCHANGED <<size, tunnel, ms_buff, closed>>
  BY WriterTypes DEF Refused
<1>5. ~Framing'
  BY <1>2 DEF Framing
<1>6. QED
  BY <1>1, <1>2, <1>3, <1>4, <1>5, NothingAppended DEF Refused

\* Every poll of MessageStream::poll_write with the message's frame.
LEMMA PolledKeeps ==
  ASSUME TypeInv, WriterInv, size' = size, UNCHANGED tunnel_end,
         encrypt' = Idle, task \in {"write", "flush"},
         NEW more, more = IF task = "write" THEN "ready" ELSE "pending",
         InnerPollWrite(message, "ready", more)
  PROVE  Wrote
<1>1. message \in Nat \ {0}
  BY WriterTypes DEF WriterInv, TaskInv
<1>2. Appended(message, "ready", more) \/ Refused(message) \/ Broke(message)
  BY <1>1, PollWriteEffect
<1>3. QED
  BY <1>2, AppendedKeeps, RefusedKeeps, BrokeKeeps

\* The cipher keeps the message it was given.
LEMMA CipherKeeps ==
  ASSUME TypeInv, WriterInv, size' = size, UNCHANGED tunnel_end,
         aes_buff = Idle, NEW result,
         \/ task = "write" /\ result = "ready" /\ encrypt = Idle
         \/ task = "flush" /\ result = "pending" /\ encrypt # Idle,
         CipherPends(message, result)
  PROVE  Wrote
<1>1. message > 0 /\ message \in Nat /\ tunnel_end # "eof"
  BY WriterTypes DEF WriterInv, TaskInv
<1>2. task' = "flush" /\ message' = message /\ encrypt' = message
  BY DEF CipherPends, Returns
<1>3. UNCHANGED <<size, tunnel, ms_buff, closed, aes_buff>>
  BY DEF CipherPends
<1>4. TaskInv'
  BY <1>1, <1>2, <1>3 DEF TaskInv
<1>5. ~Framing'
  BY <1>1, <1>2 DEF Framing, Idle
<1>6. QED
  BY <1>2, <1>3, <1>4, <1>5, NothingAppended

LEMMA PollWriteKeeps ==
  ASSUME TypeInv, WriterInv, UNCHANGED <<size, tunnel_end>>, PollWrite
  PROVE  Wrote
<1>1. CASE CipherPends(message, "ready")
  BY <1>1, CipherKeeps DEF PollWrite
<1>2. CASE CipherDone(message, "ready", "ready")
  BY <1>2, PolledKeeps DEF PollWrite, CipherDone
<1>3. QED
  BY <1>1, <1>2 DEF PollWrite

LEMMA FlushKeeps ==
  ASSUME TypeInv, WriterInv, UNCHANGED <<size, tunnel_end>>, Flush
  PROVE  Wrote
<1>1. CASE FlushFrame
  <2>1. task = "flush" /\ aes_buff = message /\ encrypt' = Idle
    BY <1>1 DEF FlushFrame, WriterInv, TaskInv
  <2>2. InnerPollWrite(message, "ready", "pending")
    BY <1>1, <2>1 DEF FlushFrame
  <2>3. QED
    BY <2>1, <2>2, PolledKeeps
<1>2. CASE FlushCipher
  <2>1. task = "flush" /\ encrypt = message /\ encrypt # Idle /\ aes_buff = Idle
    BY <1>2 DEF FlushCipher, WriterInv, TaskInv
  <2>2. CASE CipherPends(encrypt, "pending")
    BY <2>1, <2>2, CipherKeeps
  <2>3. CASE CipherDone(encrypt, "ready", "pending")
    <3>1. encrypt' = Idle /\ InnerPollWrite(message, "ready", "pending")
      BY <2>1, <2>3 DEF CipherDone
    <3>2. QED
      BY <2>1, <3>1, PolledKeeps
  <2>4. QED
    BY <1>2, <2>2, <2>3 DEF FlushCipher
<1>3. CASE FlushNothing
  <2>1. /\ message > 0 /\ message \in Nat /\ tunnel_end # "eof"
        /\ task = "flush" /\ aes_buff = Idle /\ encrypt = Idle
    BY <1>3, WriterTypes DEF FlushNothing, WriterInv, TaskInv
  <2>2. task' = "idle" /\ message' = message + 1
    BY <1>3, <2>1 DEF FlushNothing, Returns
  <2>3. UNCHANGED <<encrypt, aes_buff, ms_buff, tunnel, closed>>
    BY <1>3 DEF FlushNothing
  <2>4. closed \/ EndOf(Line)[1] = message
    BY <2>1 DEF WriterInv, SentInv, Framing
  <2>5. TaskInv'
    BY <2>1, <2>2, <2>3 DEF TaskInv
  <2>6. ~Framing'
    BY <2>2 DEF Framing
  <2>7. QED
    BY <2>1, <2>2, <2>3, <2>4, <2>5, <2>6, NothingAppended
<1>4. QED
  BY <1>1, <1>2, <1>3 DEF Flush

LEMMA StartWriteKeeps ==
  ASSUME TypeInv, WriterInv, UNCHANGED <<size, tunnel_end>>, StartWrite
  PROVE  Wrote
<1>1. /\ UNCHANGED <<message, encrypt, aes_buff, ms_buff, tunnel, closed>>
      /\ task = "idle" /\ task' \in {"write", "failed"}
  BY DEF StartWrite
<1>2. TaskInv'
  BY <1>1 DEF WriterInv, TaskInv, Seals
<1>3. ~Framing'
  BY <1>1 DEF Framing
<1>4. QED
  BY <1>1, <1>2, <1>3, NothingAppended

LEMMA WriterEndsKeeps ==
  ASSUME TypeInv, WriterInv, WriterEnds
  PROVE  Wrote
<1>1. /\ UNCHANGED <<size, message, encrypt, aes_buff, ms_buff, tunnel, closed>>
      /\ task \in {"idle", "failed"} /\ task' = "over"
  BY DEF WriterEnds
<1>2. TaskInv'
  BY <1>1 DEF WriterInv, TaskInv, Seals
<1>3. QED
  BY <1>1, <1>2, NothingAppended

\* The read half that closes the stream finds nothing under way in it.
LEMMA ReadHalfEndsKeeps ==
  ASSUME TypeInv, WriterInv, ReadHalfEnds
  PROVE  Wrote
<1>1. /\ UNCHANGED <<size, message, encrypt, aes_buff, ms_buff, tunnel, tunnel_end>>
      /\ task = "idle" /\ task' = "failed" /\ closed' = TRUE
  BY DEF ReadHalfEnds
<1>2. /\ tunnel \in Seq(Units) /\ ms_buff \in Seq(Units) /\ message \in Nat
  BY WriterTypes
<1>3. TaskInv'
  BY <1>1, <1>2 DEF WriterInv, TaskInv
<1>4. LineInv'
  <2>1. PICK t : t = tunnel
    OBVIOUS
  <2>2. t \in Seq(Units) /\ Framed(t) /\ t = tunnel'
    BY <1>1, <1>2, <2>1 DEF WriterInv, LineInv
  <2>3. Framed(t)'
    BY <1>1, <1>2, <2>2, FramedLater
  <2>4. Framed(tunnel)'
    BY <2>2, <2>3 DEF Framed, Succeeds, At, Follows, Seals
  <2>5. ms_buff' = <<>> => (EndOf(tunnel)[2] = FrameSize)'
    BY <1>1, TunnelEnds DEF WriterInv, EndOf, At
  <2>6. QED
    BY <1>1, <2>4, <2>5 DEF LineInv
<1>5. SentInv'
  BY <1>1 DEF SentInv
<1>6. Begins(tunnel, tunnel')
  BY <1>1, <1>2, LenProperties DEF Begins
<1>7. QED
  BY <1>1, <1>2, <1>3, <1>4, <1>5, <1>6 DEF Wrote, WriterInv

\* The reader's side and the tunnel leave the writer's side alone.
LEMMA OthersKeep ==
  ASSUME TypeInv, WriterInv, UNCHANGED <<writeVars, tunnel>>,
         tunnel_end' = tunnel_end \/ tunnel_end' = "error"
  PROVE  Wrote
<1>1. UNCHANGED <<size, task, message, encrypt, aes_buff, ms_buff, closed, tunnel>>
  BY DEF writeVars
<1>2. TaskInv'
  BY <1>1 DEF WriterInv, TaskInv, Seals
<1>3. Framing' => Framing
  BY <1>1 DEF Framing
<1>4. QED
  BY <1>1, <1>2, <1>3, NothingAppended

-----------------------------------------------------------------------------
(* Reading.                                                                *)

\* As long as no more is taken and nothing is passed on, what is held and
\* what was received is as it was, also when the tunnel gets longer.
LEMMA HeldStays ==
  ASSUME TypeInv, PiecesInv, HeldInv, ReceivedInv,
         Taken' = Taken, \A k \in 1 .. Taken : tunnel'[k] = tunnel[k],
         UNCHANGED <<decrypt, plain_buff, shell_buff, reader, received, size>>,
         message' \in Nat, message <= message'
  PROVE  HeldInv' /\ ReceivedInv'
<1>1. PICK c : c = Taken
  OBVIOUS
<1>2. /\ c \in Nat /\ c <= Len(tunnel) /\ message \in Nat
      /\ Len(received) \in Nat
  <2>1. Len(frame_buff) \in Nat /\ read \in Nat /\ Len(received) \in Nat
    BY LenProperties DEF TypeInv
  <2>2. QED
    BY <1>1, <2>1 DEF PiecesInv, Taken, TypeInv
<1>3. At(tunnel', c) = At(tunnel, c)
  BY <1>1, <1>2 DEF At
<1>4. /\ Nothing' <=> Nothing
      /\ \A m : Holds(m)' <=> Holds(m)
      /\ LastReceived' = LastReceived
      /\ \A a, b : Follows(a, b)' <=> Follows(a, b)
      /\ \A i : Before(i)' = Before(i)
      /\ \A m : Seals(m)' <=> Seals(m)
  BY DEF Nothing, Holds, LastReceived, Follows, Before, Seals, Plain
<1>5. HeldInv'
  <2>1. CASE Nothing /\ LastReceived = At(tunnel, Taken)[1]
    <3>1. Nothing' /\ LastReceived' = At(tunnel', c)[1]
      BY <1>1, <1>3, <1>4, <2>1
    <3>2. QED
      BY <1>1, <3>1 DEF HeldInv, At
  <2>2. CASE /\ Taken > 0 /\ Holds(At(tunnel, Taken)[1])
             /\ Follows(LastReceived, At(tunnel, Taken)[1])
    <3>1. PICK m : m = At(tunnel, c)[1]
      OBVIOUS
    <3>2. Holds(m)' /\ Follows(LastReceived, m)'
      <4>1. Holds(m) /\ Follows(LastReceived, m)
        BY <1>1, <2>2, <3>1
      <4>2. Follows(LastReceived, m)'
        BY <1>4, <4>1 DEF Follows
      <4>3. QED
        BY <1>4, <4>1, <4>2
    <3>3. m = At(tunnel, Taken)[1]' /\ Taken' > 0
      BY <1>1, <1>3, <2>2, <3>1 DEF At
    <3>4. QED
      BY <3>2, <3>3 DEF HeldInv, Holds, Follows, Plain
  <2>3. QED
    BY <2>1, <2>2 DEF HeldInv
<1>6. ASSUME NEW i \in 1 .. Len(received)
      PROVE  /\ Follows(Before(i), received[i])'
             /\ received[i] <= message' /\ Seals(received[i])'
             /\ \E k \in 1 .. c : tunnel'[k] = <<received[i], FrameSize>>
  <2>1. /\ Follows(Before(i), received[i])
        /\ received[i] <= message /\ Seals(received[i])
        /\ \E k \in 1 .. c : tunnel[k] = <<received[i], FrameSize>>
    BY <1>1 DEF ReceivedInv
  <2>2. received[i] \in Nat
    BY ElementOfSeq DEF TypeInv
  <2>3. Follows(Before(i), received[i])'
    BY <1>4, <2>1 DEF Follows
  <2>4. QED
    BY <1>1, <1>2, <1>4, <2>1, <2>2, <2>3
<1>7. ASSUME NEW k \in 1 .. c
      PROVE  \/ tunnel'[k][2] < FrameSize
             \/ \E i \in 1 .. Len(received) : received[i] = tunnel'[k][1]
             \/ ~Nothing' /\ tunnel'[k][1] = At(tunnel', c)[1]
  BY <1>1, <1>3, <1>4 DEF ReceivedInv
<1>8. ReceivedInv'
  BY <1>1, <1>6, <1>7 DEF ReceivedInv, At
<1>9. QED
  BY <1>5, <1>8

\* How much was taken, and the message it ended with.
LEMMA TakenIs ==
  ASSUME TypeInv, PiecesInv
  PROVE  /\ Taken \in 0 .. Len(tunnel) /\ Len(tunnel) \in Nat
         /\ Len(frame_buff) \in Nat /\ read \in Nat
         /\ read = Taken + Len(frame_buff)
         /\ At(tunnel, Taken)[1] \in Nat
         /\ Taken > 0 => /\ Taken \in 1 .. Taken
                         /\ At(tunnel, Taken) = tunnel[Taken]
                         /\ tunnel[Taken][1] \in Nat \ {0}
                         /\ tunnel[Taken] = <<tunnel[Taken][1], FrameSize>>
<1>1. /\ Taken \in 0 .. Len(tunnel) /\ Len(tunnel) \in Nat
      /\ Len(frame_buff) \in Nat /\ read \in Nat
      /\ read = Taken + Len(frame_buff)
  <2>1. Len(tunnel) \in Nat /\ Len(frame_buff) \in Nat /\ read \in Nat
    BY LenProperties DEF TypeInv
  <2>2. QED
    BY <2>1 DEF Taken, PiecesInv
<1>2. ASSUME Taken > 0
      PROVE  /\ Taken \in 1 .. Taken /\ At(tunnel, Taken) = tunnel[Taken]
             /\ tunnel[Taken][1] \in Nat \ {0}
             /\ tunnel[Taken] = <<tunnel[Taken][1], FrameSize>>
  <2>1. Taken \in 1 .. Len(tunnel) /\ Taken \in 1 .. Taken /\ Taken # 0
    BY <1>1, <1>2
  <2>2. tunnel[Taken] \in Units /\ At(tunnel, Taken) = tunnel[Taken]
    BY <2>1, ElementOfSeq DEF TypeInv, At
  <2>3. tunnel[Taken][2] = FrameSize
    BY <2>2 DEF PiecesInv
  <2>4. QED
    BY <2>1, <2>2, <2>3, UnitIs
<1>3. At(tunnel, Taken)[1] \in Nat
  <2>1. CASE Taken = 0
    BY <2>1 DEF At
  <2>2. CASE Taken # 0
    BY <1>1, <1>2, <2>2
  <2>3. QED
    BY <2>1, <2>2
<1>4. QED
  BY <1>1, <1>2, <1>3

\* The layers above hold no message when they ask for a frame.
LEMMA AsksHoldNothing ==
  ASSUME TypeInv, PiecesInv, HeldInv, AsksFrames
  PROVE  Nothing /\ LastReceived = At(tunnel, Taken)[1]
<1> SUFFICES ASSUME Taken > 0, Holds(At(tunnel, Taken)[1])
             PROVE  FALSE
  BY DEF HeldInv
<1>1. PICK m : m = At(tunnel, Taken)[1]
  OBVIOUS
<1>2. m \in Nat \ {0}
  BY <1>1, TakenIs
<1>3. /\ decrypt = Idle /\ plain_buff = <<>> /\ Len(shell_buff) < PlainSize
      /\ shell_buff \in Seq(Pairs)
  BY DEF AsksFrames, TypeInv
<1>4. shell_buff \o plain_buff = Plain(m)
  BY <1>1, <1>2, <1>3 DEF Holds, Idle
<1>5. shell_buff = Plain(m)
  <2>1. shell_buff \o <<>> = shell_buff
    BY <1>3, ConcatEmptySeq
  <2>2. QED
    BY <1>3, <1>4, <2>1
<1>6. QED
  BY <1>2, <1>3, <1>5, PlainIs, Lengths

\* What a step of the reading side keeps.
ReadOn ==
  /\ read' \in Nat /\ frame_buff' \in Seq(Units)
  /\ plain_buff' \in Seq(Pairs) /\ shell_buff' \in Seq(Pairs)
  /\ received' \in Seq(Nat \ {0})
  /\ reader' \in {"reading", "ended", "failed"}
  /\ ReaderInv'

LEMMA ReadTunnelKeeps ==
  ASSUME TypeInv, ReaderInv, UNCHANGED <<writeVars, tunnel, tunnel_end>>,
         ReadTunnel
  PROVE  ReadOn
<1>1. PICK n \in 1 .. ReadSize :
        /\ read + n <= Len(tunnel)
        /\ read' = read + n
        /\ frame_buff' = frame_buff \o SubSeq(tunnel, read + 1, read + n)
  BY DEF ReadTunnel
<1>2. /\ Taken \in 0 .. Len(tunnel) /\ Len(tunnel) \in Nat
      /\ Len(frame_buff) \in Nat /\ read \in Nat
      /\ read = Taken + Len(frame_buff) /\ n \in Nat \ {0}
  BY TakenIs, Lengths DEF ReaderInv
<1>3. tunnel \in Seq(Units) /\ frame_buff \in Seq(Units) /\ message \in Nat
  BY DEF TypeInv
<1>4. PICK u : u = SubSeq(tunnel, read + 1, read + n)
  OBVIOUS
<1>5. /\ u \in Seq(Units) /\ Len(u) = n
      /\ \A i \in 1 .. n : u[i] = tunnel[read + i]
  <2>1. read + 1 \in Int /\ read + n \in Int
        /\ \A i \in read + 1 .. read + n : tunnel[i] \in Units
    <3>1. \A i \in read + 1 .. read + n : i \in 1 .. Len(tunnel)
      BY <1>1, <1>2
    <3>2. QED
      BY <1>2, <1>3, <3>1, ElementOfSeq
  <2>2. /\ u \in Seq(Units)
        /\ Len(u) = IF read + 1 <= read + n THEN (read + n) - (read + 1) + 1 ELSE 0
        /\ \A i \in 1 .. (read + n) - (read + 1) + 1 :
             u[i] = tunnel[(read + 1) + i - 1]
    BY <1>4, <2>1, SubSeqProperties
  <2>3. QED
    BY <1>2, <2>2
<1>6. /\ frame_buff' \in Seq(Units)
      /\ Len(frame_buff') = Len(frame_buff) + n
      /\ \A k \in 1 .. Len(frame_buff) + n :
           frame_buff'[k] = IF k <= Len(frame_buff) THEN frame_buff[k]
                            ELSE u[k - Len(frame_buff)]
  BY <1>1, <1>3, <1>4, <1>5, ConcatProperties, SMTT(30)
<1>7. Taken' = Taken
  BY <1>1, <1>2, <1>6 DEF Taken
<1>8. ASSUME NEW k \in 1 .. Len(frame_buff) + n
      PROVE  frame_buff'[k] = tunnel[Taken + k]
  <2>1. CASE k <= Len(frame_buff)
    <3>1. k \in 1 .. Len(frame_buff)
      BY <1>2, <2>1
    <3>2. QED
      BY <1>6, <2>1, <3>1 DEF ReaderInv, PiecesInv
  <2>2. CASE ~(k <= Len(frame_buff))
    <3>1. k - Len(frame_buff) \in 1 .. n
          /\ read + (k - Len(frame_buff)) = Taken + k
      BY <1>2, <2>2
    <3>2. QED
      BY <1>5, <1>6, <2>2, <3>1
  <2>3. QED
    BY <2>1, <2>2
<1>9. PiecesInv'
  <2>1. read' <= Len(tunnel') /\ Len(frame_buff') <= read'
    BY <1>1, <1>2, <1>6
  <2>2. At(tunnel, Taken)' = At(tunnel, Taken)
    BY <1>7 DEF At
  <2>3. QED
    BY <1>6, <1>7, <1>8, <2>1, <2>2 DEF PiecesInv, ReaderInv
<1>10. UNCHANGED <<decrypt, plain_buff, shell_buff, reader, received, size,
                   message>> /\ reader = "reading"
  BY DEF ReadTunnel, AsksTunnel, AsksFrames, writeVars
<1>11. HeldInv' /\ ReceivedInv'
  <2>1. \A k \in 1 .. Taken : tunnel'[k] = tunnel[k]
    OBVIOUS
  <2>2. QED
    BY <1>3, <1>7, <1>10, <2>1, HeldStays DEF ReaderInv
<1>12. EndInv'
  BY <1>10 DEF EndInv
<1>13. read' \in Nat
  BY <1>1, <1>2
<1>14. QED
  BY <1>6, <1>9, <1>10, <1>11, <1>12, <1>13 DEF ReadOn, ReaderInv, TypeInv

\* What a step changes of the messages held and received, the tunnel and what
\* was taken of it being as they were.
LEMMA PiecesStay ==
  ASSUME PiecesInv, UNCHANGED <<tunnel, read, frame_buff>>
  PROVE  PiecesInv' /\ Taken' = Taken /\ At(tunnel, Taken)' = At(tunnel, Taken)
<1>1. Taken' = Taken
  BY DEF Taken
<1>2. At(tunnel, Taken)' = At(tunnel, Taken)
  BY <1>1 DEF At
<1>3. QED
  BY <1>1, <1>2 DEF PiecesInv

\* A reader that ends or fails holds nothing.
LEMMA StopKeeps ==
  ASSUME TypeInv, ReaderInv, UNCHANGED <<writeVars, tunnel, tunnel_end>>,
         AsksFrames, decrypt' = Swapping, reader' \in {"ended", "failed"},
         UNCHANGED <<read, frame_buff, own_closed, plain_buff, shell_buff, received>>,
         EndInv'
  PROVE  ReadOn
<1>1. Nothing /\ LastReceived = At(tunnel, Taken)[1]
  BY AsksHoldNothing DEF ReaderInv
<1>2. PiecesInv' /\ Taken' = Taken /\ At(tunnel, Taken)' = At(tunnel, Taken)
  BY PiecesStay DEF ReaderInv
<1>3. Nothing'
  BY <1>1 DEF Nothing
<1>4. HeldInv'
  BY <1>1, <1>2, <1>3 DEF HeldInv, LastReceived
<1>5. ReceivedInv'
  <2>1. size' = size /\ message' = message
    BY DEF writeVars
  <2>2. QED
    BY <1>1, <1>2, <2>1 DEF ReaderInv, ReceivedInv, Before, Follows, Seals
<1>6. QED
  BY <1>2, <1>4, <1>5 DEF ReadOn, ReaderInv, TypeInv

LEMMA ReadFailsKeeps ==
  ASSUME TypeInv, ReaderInv, UNCHANGED <<writeVars, tunnel, tunnel_end>>,
         ReadFails
  PROVE  ReadOn
<1>1. EndInv'
  BY DEF ReadFails, EndInv
<1>2. QED
  BY <1>1, StopKeeps DEF ReadFails, AsksTunnel

\* After an error of its own, the reader is stopped wherever it is.
LEMMA ReadClosedKeeps ==
  ASSUME TypeInv, ReaderInv, UNCHANGED <<writeVars, tunnel, tunnel_end>>,
         ReadClosed
  PROVE  ReadOn
<1>1. EndInv'
  BY DEF ReadClosed, EndInv
<1>2. QED
  BY <1>1, StopKeeps DEF ReadClosed

\* An end within a frame leaves some of it in the writer's buffer.
LEMMA ReadEndsKeeps ==
  ASSUME TypeInv, WriterInv, ReaderInv,
         UNCHANGED <<writeVars, tunnel, tunnel_end>>, ReadEnds
  PROVE  ReadOn
<1>1. AsksFrames /\ AsksTunnel /\ tunnel_end = "eof" /\ read = Len(tunnel)
  BY DEF ReadEnds, AsksTunnel
<1>2. Nothing
  BY <1>1, AsksHoldNothing DEF ReaderInv
<1>3. ASSUME frame_buff # <<>>, ms_buff = <<>>
      PROVE  FALSE
  <2>1. /\ Taken \in 0 .. Len(tunnel) /\ Len(tunnel) \in Nat
        /\ Len(frame_buff) \in Nat /\ read = Taken + Len(frame_buff)
    BY TakenIs DEF ReaderInv
  <2>2. tunnel \in Seq(Units) /\ frame_buff \in Seq(Units)
    BY DEF TypeInv
  <2>3. Len(frame_buff) \in 1 .. FrameSize - 1 /\ FrameSize \in Nat
    <3>1. Len(frame_buff) # 0
      BY <1>3, <2>2, EmptySeq
    <3>2. Len(frame_buff) < FrameSize
      BY <1>1 DEF AsksTunnel
    <3>3. QED
      BY <2>1, <3>1, <3>2, Lengths
  <2>4. Framed(tunnel) /\ EndOf(tunnel)[2] = FrameSize
    BY <1>3, TunnelEnds DEF WriterInv
  <2>5. tunnel[Taken + Len(frame_buff)] = <<tunnel[Taken + 1][1], Len(frame_buff)>>
    <3>1. Taken + Len(frame_buff) <= Len(tunnel)
          /\ Len(frame_buff) \in 1 .. FrameSize
      BY <1>1, <2>1, <2>3
    <3>2. At(tunnel, Taken)[2] = FrameSize
      BY DEF ReaderInv, PiecesInv
    <3>3. QED
      BY <2>1, <2>2, <2>4, <3>1, <3>2, FrameFollows
  <2>6. EndOf(tunnel)[2] = Len(frame_buff)
    <3>1. Len(tunnel) # 0 /\ Len(tunnel) = Taken + Len(frame_buff)
      BY <1>1, <2>1, <2>3
    <3>2. QED
      BY <2>5, <3>1 DEF EndOf, At
  <2>7. QED
    BY <2>3, <2>4, <2>6
<1>4. ms_buff' = ms_buff /\ UNCHANGED frame_buff
  BY DEF writeVars, ReadEnds
<1>5. EndInv'
  BY <1>1, <1>2, <1>3, <1>4 DEF EndInv, ReadEnds, Nothing
<1>6. QED
  BY <1>1, <1>5, StopKeeps DEF ReadEnds

\* A frame is taken: it is the one that was sealed, and the next that may come
\* after what was received.
LEMMA ReadFrameKeeps ==
  ASSUME TypeInv, WriterInv, ReaderInv,
         UNCHANGED <<writeVars, tunnel, tunnel_end>>, ReadFrame
  PROVE  ReadOn
<1>1. /\ AsksFrames /\ Len(frame_buff) >= FrameSize /\ reader = "reading"
      /\ frame_buff' = Skip(frame_buff, FrameSize)
      /\ UNCHANGED <<read, plain_buff, shell_buff, received>>
  BY DEF ReadFrame, AsksFrames
<1>2. PICK c : c = Taken
  OBVIOUS
<1>3. /\ c \in 0 .. Len(tunnel) /\ Len(tunnel) \in Nat
      /\ Len(frame_buff) \in Nat /\ read = c + Len(frame_buff)
      /\ read <= Len(tunnel) /\ FrameSize \in Nat \ {0}
  BY <1>2, TakenIs, Lengths DEF ReaderInv, PiecesInv
<1>4. /\ tunnel \in Seq(Units) /\ frame_buff \in Seq(Units) /\ message \in Nat
      /\ UNCHANGED <<tunnel, size, message>>
  BY DEF TypeInv, writeVars
<1>5. Nothing /\ LastReceived = At(tunnel, c)[1]
  BY <1>1, <1>2, AsksHoldNothing DEF ReaderInv
<1>6. PICK m : m = tunnel[c + 1][1]
  OBVIOUS
<1>7. /\ \A i \in 1 .. FrameSize : tunnel[c + i] = <<m, i>>
      /\ Follows(LastReceived, m) /\ m \in Nat \ {0}
      /\ m <= message /\ Seals(m)
  <2>1. /\ c + 1 \in 1 .. Len(tunnel) /\ c < Len(tunnel)
        /\ \A i \in 1 .. FrameSize : c + i <= Len(tunnel)
    BY <1>1, <1>3
  <2>2. Framed(tunnel) /\ At(tunnel, c)[2] = FrameSize
    BY <1>2 DEF WriterInv, LineInv, ReaderInv, PiecesInv
  <2>3. /\ \A i \in 1 .. FrameSize :
             c + i <= Len(tunnel) => tunnel[c + i] = <<tunnel[c + 1][1], i>>
        /\ c < Len(tunnel) => Follows(At(tunnel, c)[1], tunnel[c + 1][1])
    BY <1>3, <1>4, <2>2, FrameFollows
  <2>4. m \in Nat \ {0}
    BY <1>4, <1>6, <2>1, ElementOfSeq, UnitIs
  <2>5. m <= message /\ Seals(m)
    BY <1>6, <2>1, <2>2 DEF Framed
  <2>6. QED
    BY <1>5, <1>6, <2>1, <2>3, <2>4, <2>5
<1>8. /\ Len(Take(frame_buff, FrameSize)) = FrameSize
      /\ Take(frame_buff, FrameSize) \in Seq(Units)
      /\ \A i \in 1 .. FrameSize : Take(frame_buff, FrameSize)[i] = frame_buff[i]
      /\ frame_buff' \in Seq(Units)
      /\ Len(frame_buff') = Len(frame_buff) - FrameSize
      /\ \A i \in 1 .. Len(frame_buff) - FrameSize :
           frame_buff'[i] = frame_buff[FrameSize + i]
  <2>1. FrameSize \in 0 .. Len(frame_buff)
    BY <1>1, <1>3
  <2>2. QED
    BY <1>1, <1>4, <2>1, TakeAndSkip
<1>9. \A i \in 1 .. Len(frame_buff) : frame_buff[i] = tunnel[c + i]
  BY <1>2 DEF ReaderInv, PiecesInv
<1>10. Take(frame_buff, FrameSize) = Frame(m) /\ frame_buff[1][1] = m
  <2>1. \A i \in 1 .. FrameSize : i \in 1 .. Len(frame_buff)
    BY <1>1, <1>3
  <2>2. \A i \in 1 .. FrameSize : frame_buff[i] = <<m, i>>
    BY <1>7, <1>9, <2>1
  <2>3. /\ Frame(m) \in Seq(Units) /\ Len(Frame(m)) = FrameSize
        /\ \A i \in 1 .. FrameSize : Frame(m)[i] = <<m, i>>
    BY <1>7, FrameIs
  <2>4. Take(frame_buff, FrameSize) = Frame(m)
    BY <1>8, <2>2, <2>3, SeqEqual
  <2>5. 1 \in 1 .. FrameSize
    BY <1>3
  <2>6. QED
    BY <2>2, <2>4, <2>5
<1>11. decrypt' = m /\ reader' = "reading"
  BY <1>1, <1>10, Zenon DEF ReadFrame
<1>12. /\ Taken' = c + FrameSize /\ c + FrameSize <= Len(tunnel)
       /\ c + FrameSize > 0 /\ c + FrameSize # 0
  BY <1>1, <1>3, <1>8 DEF Taken
<1>13. tunnel[c + FrameSize] = <<m, FrameSize>>
  <2>1. FrameSize \in 1 .. FrameSize
    BY <1>3
  <2>2. QED
    BY <1>7, <2>1
<1>14. At(tunnel, Taken)' = <<m, FrameSize>>
  BY <1>4, <1>12, <1>13 DEF At
<1>15. PiecesInv'
  <2>1. ASSUME NEW k \in 1 .. Len(frame_buff) - FrameSize
        PROVE  frame_buff'[k] = tunnel[(c + FrameSize) + k]
    <3>1. FrameSize + k \in 1 .. Len(frame_buff)
          /\ c + (FrameSize + k) = (c + FrameSize) + k
      BY <1>3
    <3>2. QED
      BY <1>8, <1>9, <3>1
  <2>2. read' <= Len(tunnel') /\ Len(frame_buff') <= read'
    BY <1>1, <1>3, <1>4, <1>8
  <2>3. QED
    BY <1>4, <1>8, <1>12, <1>14, <2>1, <2>2 DEF PiecesInv
<1>16. HeldInv'
  <2>1. Holds(m)'
    BY <1>1, <1>5, <1>11 DEF Holds, Nothing
  <2>2. Follows(LastReceived, m)'
    BY <1>1, <1>4, <1>7 DEF Follows, LastReceived, Seals
  <2>3. QED
    BY <1>12, <1>14, <2>1, <2>2 DEF HeldInv, Holds, Follows, Plain
<1>17. ~Nothing'
  BY <1>7, <1>11 DEF Nothing, Idle
<1>18. ReceivedInv'
  <2>1. ASSUME NEW i \in 1 .. Len(received)
        PROVE  /\ Follows(Before(i), received[i])'
               /\ received[i] <= message /\ Seals(received[i])'
               /\ \E k \in 1 .. c + FrameSize :
                    tunnel[k] = <<received[i], FrameSize>>
    <3>1. /\ Follows(Before(i), received[i])
          /\ received[i] <= message /\ Seals(received[i])
          /\ \E k \in 1 .. c : tunnel[k] = <<received[i], FrameSize>>
      BY <1>2 DEF ReaderInv, ReceivedInv
    <3>2. \A k \in 1 .. c : k \in 1 .. c + FrameSize
      BY <1>3
    <3>3. QED
      BY <1>1, <1>4, <3>1, <3>2 DEF Follows, Before, Seals
  <2>2. ASSUME NEW k \in 1 .. c + FrameSize
        PROVE  \/ tunnel[k][2] < FrameSize
               \/ \E i \in 1 .. Len(received) : received[i] = tunnel[k][1]
               \/ tunnel[k][1] = m
    <3>1. CASE k <= c
      <4>1. k \in 1 .. c
        BY <1>3, <3>1
      <4>2. QED
        BY <1>2, <1>5, <4>1 DEF ReaderInv, ReceivedInv
    <3>2. CASE ~(k <= c)
      <4>1. k - c \in 1 .. FrameSize /\ c + (k - c) = k
        BY <1>3, <3>2
      <4>2. tunnel[k] = <<m, k - c>>
        BY <1>7, <4>1
      <4>3. QED
        BY <4>2
    <3>3. QED
      BY <3>1, <3>2
  <2>3. /\ Taken' = c + FrameSize /\ (At(tunnel, Taken)[1])' = m
        /\ UNCHANGED <<tunnel, received, message>>
    BY <1>1, <1>4, <1>12, <1>14
  <2>4. QED
    BY <1>17, <2>1, <2>2, <2>3 DEF ReceivedInv, Seals
<1>19. EndInv'
  BY <1>11 DEF EndInv
<1>20. QED
  BY <1>1, <1>8, <1>11, <1>15, <1>16, <1>18, <1>19
     DEF ReadOn, ReaderInv, TypeInv

\* The layers above pass the message on that they hold.
LEMMA PassedOn ==
  ASSUME TypeInv, ReaderInv, UNCHANGED <<writeVars, tunnel, tunnel_end>>,
         UNCHANGED <<read, frame_buff, reader, received>>,
         plain_buff' \in Seq(Pairs), shell_buff' \in Seq(Pairs),
         ~Nothing, decrypt' = Idle,
         Holds(At(tunnel, Taken)[1]) =>
           shell_buff' \o plain_buff' = Plain(At(tunnel, Taken)[1])
  PROVE  ReadOn
<1>1. PICK m : m = At(tunnel, Taken)[1]
  OBVIOUS
<1>2. /\ Taken > 0 /\ Holds(m) /\ Follows(LastReceived, m)
      /\ m \in Nat \ {0} /\ reader = "reading"
  BY <1>1, TakenIs DEF ReaderInv, HeldInv, Holds
<1>3. PiecesInv' /\ Taken' = Taken /\ At(tunnel, Taken)' = At(tunnel, Taken)
  BY PiecesStay DEF ReaderInv
<1>4. shell_buff' \o plain_buff' = Plain(m)
  BY <1>1, <1>2
<1>5. Holds(m)'
  BY <1>2, <1>4 DEF Holds, Plain
<1>6. size' = size /\ message' = message
  BY DEF writeVars
<1>7. HeldInv'
  <2>1. Follows(LastReceived, m)'
    BY <1>2, <1>6 DEF Follows, LastReceived, Seals
  <2>2. m = At(tunnel, Taken)[1]' /\ Taken' > 0
    BY <1>1, <1>2, <1>3
  <2>3. QED
    BY <1>5, <2>1, <2>2 DEF HeldInv, Holds, Follows, Plain
<1>8. ~Nothing'
  <2>1. Plain(m) # <<>>
    BY <1>2, PlainIs, Lengths
  <2>2. <<>> \o <<>> = <<>>
    BY EmptySeq, ConcatEmptySeq
  <2>3. QED
    BY <1>4, <2>1, <2>2 DEF Nothing
<1>9. ReceivedInv'
  BY <1>3, <1>6, <1>8 DEF ReaderInv, ReceivedInv, Before, Follows, Seals
<1>10. EndInv'
  BY <1>2 DEF EndInv
<1>11. QED
  BY <1>3, <1>7, <1>9, <1>10 DEF ReadOn, ReaderInv, TypeInv

LEMMA DecryptedKeeps ==
  ASSUME TypeInv, ReaderInv, UNCHANGED <<writeVars, tunnel, tunnel_end>>,
         Decrypted
  PROVE  ReadOn
<1>1. /\ decrypt \in Nat \ {0} /\ plain_buff' = Plain(decrypt)
      /\ decrypt' = Idle
      /\ UNCHANGED <<read, frame_buff, shell_buff, reader, received>>
  BY Lengths DEF Decrypted
<1>2. ~Nothing
  BY <1>1 DEF Nothing, Idle, Swapping
<1>3. PICK m : m = At(tunnel, Taken)[1]
  OBVIOUS
<1>4. ASSUME Holds(m)
      PROVE  shell_buff' \o plain_buff' = Plain(m)
  <2>1. decrypt = m /\ shell_buff = <<>>
    BY <1>1, <1>4 DEF Holds, Idle
  <2>2. Plain(m) \in Seq(Pairs)
    BY <1>1, <2>1, PlainIs
  <2>3. <<>> \o Plain(m) = Plain(m)
    BY <2>2, ConcatEmptySeq
  <2>4. QED
    BY <1>1, <2>1, <2>3
<1>5. plain_buff' \in Seq(Pairs) /\ shell_buff' \in Seq(Pairs)
  BY <1>1, PlainIs DEF TypeInv
<1>6. QED
  BY <1>1, <1>2, <1>3, <1>4, <1>5, PassedOn

LEMMA ReadPlainKeeps ==
  ASSUME TypeInv, ReaderInv, UNCHANGED <<writeVars, tunnel, tunnel_end>>,
         ReadPlain
  PROVE  ReadOn
<1>1. PICK n : n = IF Len(plain_buff) < ReadSize THEN Len(plain_buff) ELSE ReadSize
  OBVIOUS
<1>2. /\ plain_buff # <<>>
      /\ shell_buff' = shell_buff \o Take(plain_buff, n)
      /\ plain_buff' = Skip(plain_buff, n)
      /\ UNCHANGED <<read, frame_buff, decrypt, reader, received>>
  BY <1>1, Zenon DEF ReadPlain
<1>3. plain_buff \in Seq(Pairs) /\ shell_buff \in Seq(Pairs)
  BY DEF TypeInv
<1>4. n \in 0 .. Len(plain_buff)
  BY <1>1, <1>3, LenProperties, Lengths
<1>5. PICK t, u : t = Take(plain_buff, n) /\ u = Skip(plain_buff, n)
  OBVIOUS
<1>6. t \in Seq(Pairs) /\ u \in Seq(Pairs) /\ t \o u = plain_buff
  BY <1>3, <1>4, <1>5, TakeAndSkip
<1>7. shell_buff' \o plain_buff' = shell_buff \o plain_buff
  <2>1. \A s, v, w \in Seq(Pairs) : (s \o v) \o w = s \o (v \o w)
    BY ConcatAssociative, SMTT(30)
  <2>2. (shell_buff \o t) \o u = shell_buff \o (t \o u)
    BY <1>3, <1>6, <2>1, Zenon
  <2>3. QED
    BY <1>2, <1>5, <1>6, <2>2, Zenon
<1>8. plain_buff' \in Seq(Pairs) /\ shell_buff' \in Seq(Pairs)
  BY <1>2, <1>3, <1>5, <1>6, ConcatProperties
<1>9. ~Nothing /\ decrypt = Idle /\ \A m : Holds(m) => shell_buff \o plain_buff = Plain(m)
  <2>1. ~Nothing
    BY <1>2 DEF Nothing
  <2>2. \A m : Holds(m) => decrypt = Idle /\ shell_buff \o plain_buff = Plain(m)
    BY <1>2 DEF Holds
  <2>3. QED
    BY <2>1, <2>2 DEF ReaderInv, HeldInv
<1>10. QED
  BY <1>2, <1>7, <1>8, <1>9, PassedOn

LEMMA ReadMessageKeeps ==
  ASSUME TypeInv, WriterInv, ReaderInv,
         UNCHANGED <<writeVars, tunnel, tunnel_end>>, ReadMessage
  PROVE  ReadOn
<1>1. /\ reader = "reading" /\ Len(shell_buff) >= PlainSize
      /\ received' = Append(received, shell_buff[1][1])
      /\ shell_buff' = Skip(shell_buff, PlainSize)
      /\ UNCHANGED <<read, frame_buff, decrypt, plain_buff, reader>>
  BY DEF ReadMessage
<1>2. /\ plain_buff \in Seq(Pairs) /\ shell_buff \in Seq(Pairs)
      /\ Len(plain_buff) \in Nat /\ Len(shell_buff) \in Nat
      /\ PlainSize \in Nat \ {0} /\ received \in Seq(Nat \ {0})
      /\ Len(received) \in Nat /\ message \in Nat
  BY LenProperties, Lengths DEF TypeInv
<1>3. shell_buff # <<>>
  BY <1>1, <1>2
<1>4. PICK c : c = Taken
  OBVIOUS
<1>5. PICK m : m = At(tunnel, Taken)[1]
  OBVIOUS
<1>6. /\ c > 0 /\ c \in 1 .. c /\ tunnel[c] = <<m, FrameSize>>
      /\ m \in Nat \ {0}
      /\ Holds(m) /\ Follows(LastReceived, m) /\ c \in 1 .. Len(tunnel)
  <2>1. Taken > 0 /\ Holds(m) /\ Follows(LastReceived, m)
    BY <1>3, <1>5 DEF ReaderInv, HeldInv, Nothing
  <2>2. /\ Taken \in 1 .. Taken /\ tunnel[Taken][1] = m
        /\ tunnel[Taken][1] \in Nat \ {0}
        /\ tunnel[Taken] = <<tunnel[Taken][1], FrameSize>>
        /\ Taken \in 0 .. Len(tunnel)
    BY <1>5, <2>1, TakenIs DEF ReaderInv
  <2>3. QED
    BY <1>4, <2>1, <2>2
<1>7. decrypt = Idle /\ shell_buff \o plain_buff = Plain(m)
  BY <1>3, <1>6 DEF Holds
<1>8. plain_buff = <<>> /\ shell_buff[1] = <<m, 1>> /\ shell_buff' = <<>>
  <2>1. /\ Len(shell_buff \o plain_buff) = Len(shell_buff) + Len(plain_buff)
        /\ \A i \in 1 .. Len(shell_buff) + Len(plain_buff) :
             (shell_buff \o plain_buff)[i] =
               IF i <= Len(shell_buff) THEN shell_buff[i]
               ELSE plain_buff[i - Len(shell_buff)]
    BY <1>2, ConcatProperties
  <2>2. Len(Plain(m)) = PlainSize /\ \A i \in 1 .. PlainSize : Plain(m)[i] = <<m, i>>
    BY <1>6, PlainIs
  <2>3. Len(shell_buff) + Len(plain_buff) = PlainSize
    BY <1>7, <2>1, <2>2, Zenon
  <2>4. Len(plain_buff) = 0 /\ Len(shell_buff) = PlainSize
    BY <1>1, <1>2, <2>3
  <2>5. plain_buff = <<>>
    BY <1>2, <2>4, EmptySeq
  <2>6. 1 \in 1 .. PlainSize /\ 1 <= Len(shell_buff)
        /\ 1 \in 1 .. Len(shell_buff) + Len(plain_buff)
    BY <1>2, <2>4
  <2>7. shell_buff[1] = <<m, 1>>
    BY <1>7, <2>1, <2>2, <2>6, Zenon
  <2>8. PICK u : u = Skip(shell_buff, PlainSize)
    OBVIOUS
  <2>9. u \in Seq(Pairs) /\ Len(u) = 0
    <3>1. PlainSize \in 0 .. Len(shell_buff)
      BY <1>2, <2>4
    <3>2. Len(u) = Len(shell_buff) - PlainSize /\ u \in Seq(Pairs)
      BY <1>2, <2>8, <3>1, TakeAndSkip
    <3>3. QED
      BY <1>2, <2>4, <3>2
  <2>10. u = <<>>
    BY <2>9, EmptySeq
  <2>11. QED
    BY <1>1, <2>5, <2>7, <2>8, <2>10
<1>9. /\ received' \in Seq(Nat \ {0}) /\ Len(received') = Len(received) + 1
      /\ \A i \in 1 .. Len(received) : received'[i] = received[i]
      /\ received'[Len(received) + 1] = m
  <2>1. received' = Append(received, m)
    BY <1>1, <1>8
  <2>2. QED
    BY <1>2, <1>6, <2>1
<1>10. PiecesInv' /\ Taken' = Taken /\ At(tunnel, Taken)' = At(tunnel, Taken)
  BY <1>1, PiecesStay DEF ReaderInv
<1>11. UNCHANGED <<size, message>> /\ m <= message /\ Seals(m)
  <2>1. Framed(tunnel)
    BY DEF WriterInv, LineInv
  <2>2. Seals(tunnel[c][1]) /\ tunnel[c][1] <= message
    BY <1>6, <2>1 DEF Framed
  <2>3. QED
    BY <1>6, <2>2 DEF writeVars
<1>12. Nothing' /\ LastReceived' = m
  <2>1. Len(received) + 1 # 0 /\ received' # <<>>
    BY <1>2, <1>9
  <2>2. LastReceived' = m
    BY <1>9, <2>1 DEF LastReceived
  <2>3. Nothing'
    BY <1>1, <1>7, <1>8 DEF Nothing
  <2>4. QED
    BY <2>2, <2>3
<1>13. HeldInv'
  BY <1>5, <1>10, <1>12 DEF HeldInv
<1>14. ReceivedInv'
  <2>1. ASSUME NEW i \in 1 .. Len(received')
        PROVE  /\ Follows(Before(i), received[i])'
               /\ received'[i] <= message /\ Seals(received[i])'
               /\ \E k \in 1 .. c : tunnel[k] = <<received'[i], FrameSize>>
    <3>1. CASE i \in 1 .. Len(received)
      <4>1. /\ Follows(Before(i), received[i])
            /\ received[i] <= message /\ Seals(received[i])
            /\ \E k \in 1 .. c : tunnel[k] = <<received[i], FrameSize>>
        BY <1>4, <3>1 DEF ReaderInv, ReceivedInv
      <4>2. received'[i] = received[i]
        BY <1>9, <3>1
      <4>3. Before(i)' = Before(i)
        <5>1. CASE i = 1
          BY <5>1 DEF Before
        <5>2. CASE i # 1
          <6>1. i - 1 \in 1 .. Len(received)
            BY <1>2, <3>1, <5>2
          <6>2. QED
            BY <1>9, <5>2, <6>1 DEF Before
        <5>3. QED
          BY <5>1, <5>2
      <4>4. QED
        BY <1>11, <4>1, <4>2, <4>3 DEF Follows, Seals
    <3>2. CASE i = Len(received) + 1
      <4>1. received'[i] = m
        BY <1>9, <3>2
      <4>2. Before(i)' = LastReceived
        <5>1. CASE Len(received) = 0
          <6>1. received = <<>> /\ i = 1
            BY <1>2, <3>2, <5>1, EmptySeq
          <6>2. QED
            BY <6>1 DEF Before, LastReceived
        <5>2. CASE Len(received) # 0
          <6>1. /\ received # <<>> /\ i # 1 /\ i - 1 = Len(received)
                /\ Len(received) \in 1 .. Len(received)
            BY <1>2, <3>2, <5>2, EmptySeq
          <6>2. QED
            BY <1>9, <6>1 DEF Before, LastReceived
        <5>3. QED
          BY <5>1, <5>2
      <4>3. Follows(Before(i), received[i])'
        BY <1>6, <1>11, <4>1, <4>2 DEF Follows, Seals
      <4>4. QED
        BY <1>6, <1>11, <4>1, <4>3 DEF Seals
    <3>3. QED
      BY <1>2, <1>9, <3>1, <3>2, SMTT(30)
  <2>2. ASSUME NEW k \in 1 .. c
        PROVE  \/ tunnel[k][2] < FrameSize
               \/ \E i \in 1 .. Len(received') : received'[i] = tunnel[k][1]
    <3>1. CASE tunnel[k][2] < FrameSize
      BY <3>1
    <3>2. CASE \E i \in 1 .. Len(received) : received[i] = tunnel[k][1]
      <4>1. PICK i \in 1 .. Len(received) : received[i] = tunnel[k][1]
        BY <3>2
      <4>2. i \in 1 .. Len(received') /\ received'[i] = tunnel[k][1]
        BY <1>2, <1>9, <4>1
      <4>3. QED
        BY <4>2
    <3>3. CASE tunnel[k][1] = m
      <4>1. Len(received) + 1 \in 1 .. Len(received')
        BY <1>2, <1>9
      <4>2. QED
        BY <1>9, <3>3, <4>1
    <3>4. QED
      BY <1>4, <1>5, <3>1, <3>2, <3>3 DEF ReaderInv, ReceivedInv
  <2>3. Taken' = c /\ UNCHANGED <<tunnel, message>>
    BY <1>4, <1>10, <1>11
  <2>4. QED
    BY <2>1, <2>2, <2>3 DEF ReceivedInv, Seals
<1>15. EndInv'
  BY <1>1 DEF EndInv
<1>16. shell_buff' \in Seq(Pairs)
  BY <1>8, EmptySeq
<1>17. QED
  BY <1>1, <1>9, <1>10, <1>13, <1>14, <1>15, <1>16 DEF ReadOn, ReaderInv, TypeInv

-----------------------------------------------------------------------------
(* The invariant.                                                          *)

\* The writer's side or the tunnel moves, or nothing does: what the reader has
\* is as it was.
LEMMA WriterStep ==
  ASSUME StreamInv,
         Writes \/ WriterEnds \/ TunnelBreaks \/ OtherHalves \/ UNCHANGED vars
  PROVE  StreamInv'
<1>1. /\ TypeInv /\ WriterInv /\ ReaderInv
      /\ PiecesInv /\ HeldInv /\ ReceivedInv /\ EndInv
  BY DEF StreamInv, ReaderInv
<1>2. size' = size /\ (own_closed' = own_closed \/ own_closed' = TRUE)
  BY DEF Writes, Polls, WriterEnds, TunnelBreaks, OtherHalves, ReadHalfEnds,
         OwnWriteFails, writeVars, readVars, vars
<1>3. UNCHANGED <<read, frame_buff, decrypt, plain_buff, shell_buff, reader,
                  received>>
  BY DEF Writes, Polls, WriterEnds, TunnelBreaks, OtherHalves, ReadHalfEnds,
         OwnWriteFails, readVars, vars
<1>4. Wrote
  <2>1. CASE StartWrite /\ UNCHANGED <<size, tunnel_end, readVars>>
    BY <1>1, <2>1, StartWriteKeeps
  <2>2. CASE Polls
    BY <1>1, <2>2, PollWriteKeeps, FlushKeeps DEF Polls
  <2>3. CASE WriterEnds
    BY <1>1, <2>3, WriterEndsKeeps
  <2>4. CASE TunnelBreaks
    BY <1>1, <2>4, OthersKeep DEF TunnelBreaks
  <2>5. CASE ReadHalfEnds
    BY <1>1, <2>5, ReadHalfEndsKeeps
  <2>6. CASE UNCHANGED <<writeVars, tunnel, tunnel_end>>
    BY <1>1, <2>6, OthersKeep
  <2>7. QED
    BY <2>1, <2>2, <2>3, <2>4, <2>5, <2>6 DEF Writes, OtherHalves, vars
<1>5. /\ tunnel \in Seq(Units) /\ message \in Nat /\ Begins(tunnel, tunnel')
      /\ tunnel' \in Seq(Units) /\ message' \in Nat /\ message <= message'
      /\ Len(tunnel) \in Nat /\ Len(tunnel') \in Nat
  BY <1>1, <1>4, LenProperties DEF TypeInv, Wrote
<1>6. PICK c : c = Taken
  OBVIOUS
<1>7. c \in 0 .. Len(tunnel) /\ c \in Nat /\ Taken' = c
      /\ read = c + Len(frame_buff) /\ Len(frame_buff) \in Nat
  BY <1>1, <1>3, <1>6, TakenIs DEF Taken
<1>8. \A k \in 1 .. c : tunnel'[k] = tunnel[k]
  BY <1>5, <1>7 DEF Begins
<1>9. PiecesInv'
  <2>1. At(tunnel', c) = At(tunnel, c)
    BY <1>7, <1>8 DEF At
  <2>2. At(tunnel, c)[2] = FrameSize
    BY <1>1, <1>6 DEF PiecesInv
  <2>3. (At(tunnel, Taken)[2] = FrameSize)'
    BY <1>7, <2>1, <2>2 DEF At
  <2>4. ASSUME NEW k \in 1 .. Len(frame_buff)
        PROVE  frame_buff[k] = tunnel'[c + k]
    <3>1. frame_buff[k] = tunnel[c + k] /\ read <= Len(tunnel)
      BY <1>1, <1>6 DEF PiecesInv
    <3>2. c + k \in 1 .. Len(tunnel)
      BY <1>5, <1>7, <3>1
    <3>3. QED
      BY <1>5, <3>1, <3>2 DEF Begins
  <2>5. read <= Len(tunnel') /\ Len(frame_buff) <= read
    <3>1. read <= Len(tunnel) /\ Len(frame_buff) <= read
      BY <1>1 DEF PiecesInv
    <3>2. Len(tunnel) <= Len(tunnel')
      BY <1>5 DEF Begins
    <3>3. QED
      BY <1>1, <1>5, <3>1, <3>2 DEF TypeInv
  <2>6. QED
    BY <1>3, <1>7, <2>3, <2>4, <2>5 DEF PiecesInv
<1>10. HeldInv' /\ ReceivedInv'
  BY <1>1, <1>2, <1>3, <1>5, <1>6, <1>7, <1>8, HeldStays
<1>11. EndInv'
  <2>1. CASE tunnel_end = "eof"
    <3>1. task = "over"
      BY <1>1, <2>1 DEF WriterInv, TaskInv
    <3>2. UNCHANGED <<ms_buff, tunnel, tunnel_end>>
      BY <2>1, <3>1 DEF Writes, Polls, StartWrite, PollWrite, Flush, FlushFrame,
                        FlushCipher, FlushNothing, WriterEnds, TunnelBreaks,
                        OtherHalves, ReadHalfEnds, writeVars, vars
    <3>3. QED
      BY <1>1, <1>2, <1>3, <3>2 DEF EndInv
  <2>2. CASE tunnel_end # "eof"
    <3>1. /\ reader' = "ended" => own_closed
          /\ reader' = "failed" => tunnel_end = "error" \/ own_closed
      BY <1>1, <1>3, <2>2 DEF EndInv
    <3>2. tunnel_end = "error" => tunnel_end' = "error"
      BY DEF Writes, Polls, WriterEnds, TunnelBreaks, OtherHalves, ReadHalfEnds, vars
    <3>3. QED
      BY <1>2, <3>1, <3>2 DEF EndInv
  <2>3. QED
    BY <2>1, <2>2
<1>12. TypeInv'
  BY <1>1, <1>2, <1>3, <1>4 DEF TypeInv, Wrote
<1>13. QED
  BY <1>4, <1>9, <1>10, <1>11, <1>12 DEF StreamInv, ReaderInv, Wrote

LEMMA ReaderStep ==
  ASSUME StreamInv, Reads
  PROVE  StreamInv'
<1>1. TypeInv /\ WriterInv /\ ReaderInv
  BY DEF StreamInv
<1>2. UNCHANGED <<writeVars, tunnel, tunnel_end>>
  BY DEF Reads
<1>3. ReadOn
  BY <1>1, <1>2, ReadTunnelKeeps, ReadFrameKeeps, DecryptedKeeps, ReadPlainKeeps,
     ReadMessageKeeps, ReadEndsKeeps, ReadFailsKeeps, ReadClosedKeeps DEF Reads
<1>4. Wrote
  BY <1>1, <1>2, OthersKeep
<1>5. own_closed' \in BOOLEAN
  <2>1. own_closed' = own_closed
    BY DEF Reads, ReadTunnel, ReadFrame, Decrypted, ReadPlain, ReadMessage,
           ReadEnds, ReadFails, ReadClosed
  <2>2. QED
    BY <1>1, <2>1, Zenon DEF TypeInv
<1>6. TypeInv'
  BY <1>3, <1>4, <1>5 DEF TypeInv, ReadOn, Wrote
<1>7. QED
  BY <1>3, <1>4, <1>6 DEF StreamInv, ReadOn, Wrote

LEMMA StreamStart ==
  ASSUME Init
  PROVE  StreamInv
<1>1. /\ message = 1 /\ tunnel = <<>> /\ ms_buff = <<>> /\ frame_buff = <<>>
      /\ plain_buff = <<>> /\ shell_buff = <<>> /\ received = <<>>
      /\ read = 0 /\ closed = FALSE /\ task = "idle" /\ tunnel_end = "open"
      /\ encrypt = Idle /\ aes_buff = Idle /\ decrypt = Idle
      /\ reader = "reading" /\ own_closed = FALSE
  BY DEF Init
<1>2. Len(tunnel) = 0 /\ Len(frame_buff) = 0 /\ Len(received) = 0
  BY <1>1
<1>3. /\ \A S : <<>> \in Seq(S)
      /\ FrameSize \in Nat \ {0}
  BY EmptySeq, Lengths
<1>4. TypeInv
  BY <1>1, <1>3, Zenon DEF TypeInv
<1>5. TaskInv
  BY <1>1 DEF TaskInv
<1>6. Line = <<>>
  <2>1. <<>> \o <<>> = <<>>
    BY EmptySeq, ConcatEmptySeq
  <2>2. QED
    BY <1>1, <2>1 DEF Line
<1>7. EndOf(Line) = <<0, FrameSize>>
  BY <1>6 DEF EndOf, At
<1>8. LineInv
  BY <1>1, <1>2, <1>6, <1>7 DEF LineInv, Framed
<1>9. SentInv
  BY <1>1, <1>7 DEF SentInv, SentTo, Follows, Framing
<1>10. Taken = 0
  <2>1. Taken = 0 - 0
    BY <1>1, <1>2, Zenon DEF Taken
  <2>2. QED
    BY <2>1
<1>11. PiecesInv
  BY <1>1, <1>2, <1>10 DEF PiecesInv, At
<1>12. HeldInv
  BY <1>1, <1>10 DEF HeldInv, Nothing, LastReceived, At
<1>13. ReceivedInv
  BY <1>2, <1>10 DEF ReceivedInv
<1>14. EndInv
  BY <1>1 DEF EndInv
<1>15. QED
  BY <1>4, <1>5, <1>8, <1>9, <1>11, <1>12, <1>13, <1>14
     DEF StreamInv, WriterInv, ReaderInv

\* Wherever the streams below are pending, fail or cut what passes through
\* them, the line is a sequence of frames, each reader has taken whole frames,
\* and the layers hold one message at most.
THEOREM LayersAgree == Spec => []StreamInv
<1>1. Init => StreamInv
  BY StreamStart
<1>2. StreamInv /\ [Next]_vars => StreamInv'
  <2> SUFFICES ASSUME StreamInv, [Next]_vars PROVE StreamInv'
    OBVIOUS
  <2>1. CASE Writes \/ WriterEnds \/ TunnelBreaks \/ OtherHalves \/ UNCHANGED vars
    BY <2>1, WriterStep
  <2>2. CASE Reads
    BY <2>2, ReaderStep
  <2>3. QED
    BY <2>1, <2>2 DEF Next
<1>3. QED
  BY <1>1, <1>2, PTL DEF Spec

\* What is received are messages that were written, in order, only refused
\* ones missing, and a reader fails only where the tunnel or its own write did.
THEOREM MessagesInOrder == Spec => []ReceivedInOrder
<1>1. StreamInv => ReceivedInOrder
  <2> SUFFICES ASSUME StreamInv PROVE ReceivedInOrder
    OBVIOUS
  <2>1. received \in Seq(Nat \ {0}) /\ ReceivedInv /\ EndInv
    BY DEF StreamInv, TypeInv, ReaderInv
  <2>2. DOMAIN received = 1 .. Len(received)
    BY <2>1, LenProperties
  <2>3. QED
    BY <2>1, <2>2 DEF ReceivedInOrder, ReceivedInv, EndInv, Follows, Before
<1>2. QED
  BY <1>1, LayersAgree, PTL

\* What was written and flushed without an error is in the tunnel.
THEOREM FlushesAreSent == Spec => []FlushedIsSent
<1>1. StreamInv => FlushedIsSent
  <2> SUFFICES ASSUME StreamInv, task = "idle", ~closed
               PROVE  /\ aes_buff = Idle /\ encrypt = Idle /\ ms_buff = <<>>
                      /\ \A m \in 1 .. message - 1 :
                           Seals(m) => Contains(tunnel, <<m, FrameSize>>)
    BY DEF FlushedIsSent
  <2>1. TypeInv /\ TaskInv /\ LineInv /\ SentInv
    BY DEF StreamInv, WriterInv
  <2>2. aes_buff = Idle /\ encrypt = Idle /\ ms_buff = <<>>
    BY <2>1 DEF TaskInv, LineInv
  <2>3. Line = tunnel
    <3>1. tunnel \o <<>> = tunnel
      BY <2>1, ConcatEmptySeq DEF TypeInv
    <3>2. QED
      BY <2>2, <3>1 DEF Line
  <2>4. SentTo(message)
    BY <2>1 DEF SentInv
  <2>5. QED
    BY <2>2, <2>3, <2>4 DEF SentTo
<1>2. QED
  BY <1>1, LayersAgree, PTL

\* A reader that was told of an end has received every frame it had taken as a
\* whole, and all that was in the tunnel unless its own write had failed.
THEOREM CleanEndsAreComplete == Spec => []CleanEndIsComplete
<1>1. StreamInv => CleanEndIsComplete
  <2> DEFINE Rest(k) == Contains(received, tunnel[k][1])
                          \/ Contains(frame_buff, tunnel[k])
  <2> SUFFICES ASSUME StreamInv, reader = "ended"
               PROVE  /\ plain_buff = <<>> /\ shell_buff = <<>>
                      /\ \A k \in 1 .. read : tunnel[k][2] = FrameSize => Rest(k)
                      /\ \/ own_closed
                         \/ /\ tunnel_end = "eof" /\ frame_buff = <<>>
                            /\ tunnel # <<>> => Last(tunnel)[2] = FrameSize
                            /\ \A m \in 1 .. MaxMessages :
                                 Contains(tunnel, <<m, FrameSize>>)
                                   <=> Contains(received, m)
    BY DEF CleanEndIsComplete
  <2>1. TypeInv /\ PiecesInv /\ HeldInv /\ ReceivedInv /\ EndInv
    BY DEF StreamInv, ReaderInv
  <2>2. Nothing
    BY <2>1 DEF HeldInv, Holds
  <2>3. /\ Taken \in 0 .. Len(tunnel) /\ Len(tunnel) \in Nat
        /\ Len(frame_buff) \in Nat /\ read = Taken + Len(frame_buff)
    BY <2>1, TakenIs
  <2>4. ASSUME NEW k \in 1 .. Taken, tunnel[k][2] = FrameSize
        PROVE  Contains(received, tunnel[k][1])
    <3>1. ~(tunnel[k][2] < FrameSize)
      BY <2>4, Lengths
    <3>2. QED
      BY <2>1, <2>2, <3>1 DEF ReceivedInv, Contains
  <2>5. ASSUME NEW k \in 1 .. read, tunnel[k][2] = FrameSize
        PROVE  Rest(k)
    <3>1. CASE k \in 1 .. Taken
      BY <2>4, <2>5, <3>1
    <3>2. CASE k \notin 1 .. Taken
      <4>1. k - Taken \in 1 .. Len(frame_buff) /\ Taken + (k - Taken) = k
        BY <2>3, <3>2
      <4>2. frame_buff[k - Taken] = tunnel[k]
        BY <2>1, <4>1 DEF PiecesInv
      <4>3. QED
        BY <4>1, <4>2 DEF Contains
    <3>3. QED
      BY <3>1, <3>2
  <2>6. ASSUME ~own_closed
        PROVE  /\ tunnel_end = "eof" /\ frame_buff = <<>>
               /\ tunnel # <<>> => Last(tunnel)[2] = FrameSize
               /\ \A m \in 1 .. MaxMessages :
                    Contains(tunnel, <<m, FrameSize>>) <=> Contains(received, m)
    <3>1. tunnel_end = "eof" /\ read = Len(tunnel) /\ frame_buff = <<>>
      BY <2>1, <2>6 DEF EndInv
    <3>2. Taken = Len(tunnel)
      BY <2>3, <3>1
    <3>3. tunnel # <<>> => Last(tunnel)[2] = FrameSize
      <4>1. tunnel # <<>> => Len(tunnel) # 0
        BY <2>1, EmptySeq DEF TypeInv
      <4>2. QED
        BY <2>1, <3>2, <4>1 DEF PiecesInv, At, Last
    <3>4. ASSUME NEW m \in 1 .. MaxMessages, Contains(tunnel, <<m, FrameSize>>)
          PROVE  Contains(received, m)
      <4>1. PICK k \in 1 .. Len(tunnel) : tunnel[k] = <<m, FrameSize>>
        BY <3>4 DEF Contains
      <4>2. QED
        BY <2>4, <3>2, <4>1
    <3>5. ASSUME NEW m \in 1 .. MaxMessages, Contains(received, m)
          PROVE  Contains(tunnel, <<m, FrameSize>>)
      <4>1. PICK i \in 1 .. Len(received) : received[i] = m
        BY <3>5 DEF Contains
      <4>2. QED
        BY <2>1, <3>2, <4>1 DEF ReceivedInv, Contains
    <3>6. QED
      BY <3>1, <3>3, <3>4, <3>5
  <2>7. QED
    BY <2>2, <2>5, <2>6 DEF Nothing
<1>2. QED
  BY <1>1, LayersAgree, PTL
=============================================================================
