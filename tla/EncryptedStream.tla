--------------------------- MODULE EncryptedStream ---------------------------
(***************************************************************************)
(* The way of a shell message through the tunnel (tunshell-shared/src/     *)
(* message_stream.rs over tunshell-client/src/stream/aes_stream.rs).  The  *)
(* shell's MessageStream writes and flushes, the AesStream encrypts into a *)
(* frame, a second MessageStream hands the frame to the tunnel's stream,   *)
(* which takes what it has room for and may be pending at any byte.  At    *)
(* the other end the same layers read: pieces of any length, frames out of *)
(* pieces, messages out of what the frames held.  The other direction is    *)
(* present only where it disturbs this one: a MessageStream has one flag    *)
(* for both of its halves, and after an error of either neither goes on.    *)
(***************************************************************************)
EXTENDS Integers, Sequences, SequencesExt

CONSTANTS
  MaxMessages,  \* bound: messages the shell writes
  Sizes,        \* bound: the lengths of their data
  MaxLength,    \* i16::MAX: the data a RawMessage may have
  Header,       \* what a RawMessage adds to its data
  Overhead,     \* what encryption adds: lengths, nonce and tag
  FrameSize,    \* the units a frame is cut into
  PlainSize,    \* the units a decrypted message is cut into
  ReadSize,     \* the units the buffer of poll_read_inner_stream holds
  MaxPending    \* bound: how often the tunnel's stream or the cipher is pending

ASSUME StreamAssumption ==
  /\ {MaxMessages, MaxPending, MaxLength, Header, Overhead} \subseteq Nat
  /\ Sizes \subseteq Nat
  /\ {FrameSize, PlainSize, ReadSize} \subseteq Nat \ {0}

VARIABLES
  size,         \* the length of each message
  task,         \* what MessageStream::write is at: "idle", "write", "flush"
  message,      \* the message it writes; the ones before are written
  encrypt,      \* CryptoState: the message being encrypted, Idle for Pending
  aes_buff,     \* AesStream.write_buff: a message, Idle for None
  ms_buff,      \* write_buff of the MessageStream below
  tunnel,       \* the units the tunnel's stream has taken
  closed,       \* that MessageStream saw an error, or its read half an end
  pending,
  tunnel_end,   \* "open", "eof" after the writer's end, "error"
  read,         \* how much of tunnel the reader has taken
  frame_buff,   \* read_buff of the MessageStream of frames
  decrypt,      \* CryptoState of the reading side
  own_closed,   \* a write to the tunnel has failed at the reader's end
  plain_buff,   \* AesStream.read_buff
  shell_buff,   \* read_buff of the shell's MessageStream
  reader,       \* what next() returned: "reading", "ended", "failed"
  received      \* the messages it returned

writeVars == <<size, task, message, encrypt, aes_buff, ms_buff, closed>>
readVars  == <<read, frame_buff, decrypt, own_closed, plain_buff, shell_buff, reader,
               received>>
vars == <<writeVars, readVars, tunnel, tunnel_end, pending>>

Idle == 0
Swapping == -1  \* what is left when poll_read returns without its key

\* RawMessage::new refuses what is longer; the frame of a message that just
\* fits is refused too.
Serialises(m) == size[m] <= MaxLength
Seals(m) == size[m] + Header + Overhead <= MaxLength

Frame(m) == [i \in 1 .. FrameSize |-> <<m, i>>]
Plain(m) == [i \in 1 .. PlainSize |-> <<m, i>>]
Take(s, n) == SubSeq(s, 1, n)
\* Mutant: what the stream took is not drained from the buffer.
SkipNothing(s, n) == s

Skip(s, n) == SubSeq(s, n + 1, Len(s))

\* Waiting costs one of the MaxPending turns.
Pends == pending < MaxPending /\ pending' = pending + 1

\* What a poll returns to MessageStream::write, which polls again if pending.
Returns(result) ==
  CASE result = "pending" -> task' = task /\ message' = message
    [] result = "error"   -> task' = "failed" /\ message' = message
    [] result = "ready"   ->
         /\ task' = IF task = "write" THEN "flush" ELSE "idle"
         /\ message' = IF task = "write" THEN message ELSE message + 1

\* An error of the write is returned, one that poll_flush meets is not: what
\* it returns is the result of flushing the tunnel's stream.
Fails == Returns("error") \/ (task = "flush" /\ Returns("ready"))

\* MessageStream::poll_write of frame m: the frame is added to what is left,
\* and the tunnel's stream takes all of it, or some before it is pending, or
\* fails.  done and more are what AesStream::poll_write returns then.  A frame
\* that was left over is added once more by the poll that goes on with it.
InnerPollWrite(m, done, more) ==
  LET buff == ms_buff \o Frame(m)
  IN \/ /\ ~closed /\ Seals(m)
        /\ tunnel' = tunnel \o buff /\ ms_buff' = <<>>
        /\ aes_buff' = Idle
        /\ Returns(done)
        /\ UNCHANGED <<closed, pending>>
     \/ /\ ~closed /\ Seals(m) /\ Pends
        /\ \E n \in 0 .. Len(buff) - 1 :
             /\ tunnel' = tunnel \o Take(buff, n)
             /\ ms_buff' = Skip(buff, n)
        /\ aes_buff' = m
        /\ Returns(more)
        /\ UNCHANGED closed
     \/ /\ ~closed /\ ~Seals(m)
        /\ aes_buff' = Idle
        /\ Fails
        /\ UNCHANGED <<tunnel, ms_buff, closed, pending>>
     \/ /\ closed \/ Seals(m)
        /\ closed' = TRUE
        /\ \/ /\ ~closed /\ ms_buff' = buff
              /\ \E n \in 0 .. Len(buff) - 1 : tunnel' = tunnel \o Take(buff, n)
           \/ closed /\ UNCHANGED <<tunnel, ms_buff>>
        /\ aes_buff' = Idle
        /\ Fails
        /\ UNCHANGED pending

\* The cipher is not done yet.
CipherPends(m, result) ==
  /\ Pends
  /\ encrypt' = m
  /\ Returns(result)
  /\ UNCHANGED <<aes_buff, ms_buff, tunnel, closed>>

CipherDone(m, done, more) ==
  /\ encrypt' = Idle
  /\ InnerPollWrite(m, done, more)

-----------------------------------------------------------------------------

\* A message that is too long is refused before anything is written.
StartWrite ==
  /\ task = "idle" /\ message <= MaxMessages
  /\ task' = IF Serialises(message) THEN "write" ELSE "failed"
  /\ UNCHANGED <<message, encrypt, aes_buff, ms_buff, tunnel, closed, pending>>

\* AesStream::poll_write with the shell's bytes.  They are taken if nothing is
\* being encrypted and no frame waits.
PollWrite ==
  /\ task = "write"
  /\ aes_buff = Idle /\ encrypt = Idle
  /\ \/ CipherPends(message, "ready")
     \/ CipherDone(message, "ready", "ready")

\* AesStream::poll_flush: poll_write with no bytes, if there is work.
FlushFrame ==
  /\ task = "flush" /\ aes_buff # Idle
  /\ InnerPollWrite(aes_buff, "ready", "pending")
  /\ UNCHANGED encrypt

\* Mutant: the flush only works when a frame waits.
FlushCipherOfFrame ==
  /\ task = "flush" /\ aes_buff # Idle /\ encrypt # Idle
  /\ \/ CipherPends(encrypt, "pending")
     \/ CipherDone(encrypt, "ready", "pending")

FlushCipher ==
  /\ task = "flush" /\ aes_buff = Idle /\ encrypt # Idle
  /\ \/ CipherPends(encrypt, "pending")
     \/ CipherDone(encrypt, "ready", "pending")

\* Mutant: an encryption that is under way is not waited for.
FlushIgnoresCipher ==
  /\ task = "flush" /\ aes_buff = Idle
  /\ Returns("ready")
  /\ UNCHANGED <<encrypt, aes_buff, ms_buff, tunnel, closed, pending>>

FlushNothing ==
  /\ task = "flush" /\ aes_buff = Idle /\ encrypt = Idle
  /\ Returns("ready")
  /\ UNCHANGED <<encrypt, aes_buff, ms_buff, tunnel, closed, pending>>

Flush == FlushFrame \/ FlushCipher \/ FlushNothing

\* The writer's side shuts its stream down or drops it, between two messages
\* or after an error; what is still buffered stays where it is.
WriterEnds ==
  /\ task \in {"idle", "failed"}
  /\ tunnel_end = "open" /\ tunnel_end' = "eof" /\ task' = "over"
  /\ UNCHANGED <<size, message, encrypt, aes_buff, ms_buff, closed, readVars,
                 tunnel, pending>>

\* The stream's read half saw an end or an error, between two messages: one
\* task reads and writes.  The writes that come fail at once.
ReadHalfEnds ==
  /\ task = "idle" /\ task' = "failed" /\ closed' = TRUE
  /\ UNCHANGED <<size, message, encrypt, aes_buff, ms_buff, readVars, tunnel,
                 tunnel_end, pending>>

\* The tunnel breaks; what the reader has not taken may be lost.
TunnelBreaks ==
  /\ tunnel_end = "open" /\ tunnel_end' = "error"
  /\ UNCHANGED <<writeVars, readVars, tunnel, pending>>

-----------------------------------------------------------------------------
(* Reading.  Each layer asks the one below only when what it has buffered  *)
(* is not enough, and a call returns as soon as one of them is pending.    *)

AsksFrames == reader = "reading" /\ Len(shell_buff) < PlainSize
                /\ plain_buff = <<>> /\ decrypt = Idle

AsksTunnel == AsksFrames /\ ~own_closed /\ Len(frame_buff) < FrameSize

\* poll_read_inner_stream of the frames' MessageStream.
ReadTunnel ==
  /\ AsksTunnel
  /\ \E n \in 1 .. ReadSize :
       /\ read + n <= Len(tunnel)
       /\ read' = read + n
       /\ frame_buff' = frame_buff \o SubSeq(tunnel, read + 1, read + n)
  /\ UNCHANGED <<decrypt, own_closed, plain_buff, shell_buff, reader,
                 received>>

\* poll_next returns a frame, which is decrypted; one that is not what the
\* other side sealed does not parse or decrypt.
ReadFrame ==
  /\ AsksFrames /\ ~own_closed /\ Len(frame_buff) >= FrameSize
  /\ LET m == frame_buff[1][1]
         genuine == Take(frame_buff, FrameSize) = Frame(m)
     IN /\ decrypt' = IF genuine THEN m ELSE Swapping
        /\ reader' = IF genuine THEN reader ELSE "failed"
  /\ frame_buff' = Skip(frame_buff, FrameSize)
  /\ UNCHANGED <<read, own_closed, plain_buff, shell_buff, received>>

Decrypted ==
  /\ decrypt \in 1 .. MaxMessages
  /\ plain_buff' = Plain(decrypt) /\ decrypt' = Idle
  /\ UNCHANGED <<read, frame_buff, own_closed, shell_buff, reader, received>>

\* AesStream::poll_read gives the shell's MessageStream what it has room for.
ReadPlain ==
  /\ reader = "reading" /\ Len(shell_buff) < PlainSize /\ plain_buff # <<>>
  /\ LET n == IF Len(plain_buff) < ReadSize THEN Len(plain_buff) ELSE ReadSize
     IN /\ shell_buff' = shell_buff \o Take(plain_buff, n)
        /\ plain_buff' = Skip(plain_buff, n)
  /\ UNCHANGED <<read, frame_buff, decrypt, own_closed, reader, received>>

ReadMessage ==
  /\ reader = "reading" /\ Len(shell_buff) >= PlainSize
  /\ received' = Append(received, shell_buff[1][1])
  /\ shell_buff' = Skip(shell_buff, PlainSize)
  /\ UNCHANGED <<read, frame_buff, decrypt, own_closed, plain_buff, reader>>

\* Mutant: an end within a frame is an end like any other.
EndsAnywhere ==
  /\ AsksTunnel /\ tunnel_end = "eof" /\ read = Len(tunnel)
  /\ decrypt' = Swapping
  /\ reader' = IF shell_buff = <<>> THEN "ended" ELSE "failed"
  /\ UNCHANGED <<read, frame_buff, own_closed, plain_buff, shell_buff, received>>

\* An end between two frames is Ok(0) for the shell's MessageStream, which
\* looks in its own buffer; one within a frame is an error.  Either way the
\* AesStream has lost its key and must not be polled again.
ReadEnds ==
  /\ AsksTunnel /\ tunnel_end = "eof" /\ read = Len(tunnel)
  /\ decrypt' = Swapping
  /\ reader' = IF frame_buff = <<>> /\ shell_buff = <<>> THEN "ended"
               ELSE "failed"
  /\ UNCHANGED <<read, frame_buff, own_closed, plain_buff, shell_buff, received>>

ReadFails ==
  /\ AsksTunnel /\ tunnel_end = "error"
  /\ decrypt' = Swapping /\ reader' = "failed"
  /\ UNCHANGED <<read, frame_buff, own_closed, plain_buff, shell_buff, received>>

\* A write of the reader's own end fails in the tunnel's stream.
OwnWriteFails ==
  /\ reader = "reading" /\ ~own_closed /\ own_closed' = TRUE
  /\ UNCHANGED <<read, frame_buff, decrypt, plain_buff, shell_buff, reader, received>>

\* err_if_closed comes first: poll_next returns None, whatever the tunnel and
\* frame_buff hold, and AesStream makes that Ok(0), an end like any other.
ReadClosed ==
  /\ AsksFrames /\ own_closed
  /\ decrypt' = Swapping
  /\ reader' = IF shell_buff = <<>> THEN "ended" ELSE "failed"
  /\ UNCHANGED <<read, frame_buff, own_closed, plain_buff, shell_buff, received>>

-----------------------------------------------------------------------------

Init ==
  /\ size \in [1 .. MaxMessages -> Sizes]
  /\ task = "idle" /\ message = 1
  /\ encrypt = Idle /\ aes_buff = Idle /\ ms_buff = <<>> /\ tunnel = <<>>
  /\ closed = FALSE /\ pending = 0 /\ tunnel_end = "open" /\ read = 0
  /\ frame_buff = <<>> /\ decrypt = Idle /\ own_closed = FALSE /\ plain_buff = <<>>
  /\ shell_buff = <<>> /\ reader = "reading" /\ received = <<>>

Polls == (PollWrite \/ Flush) /\ UNCHANGED <<size, tunnel_end, readVars>>
Writes == (StartWrite /\ UNCHANGED <<size, tunnel_end, readVars>>) \/ Polls
Reads == /\ \/ ReadTunnel \/ ReadFrame \/ Decrypted \/ ReadPlain
            \/ ReadMessage \/ ReadEnds \/ ReadFails \/ ReadClosed
         /\ UNCHANGED <<writeVars, tunnel, tunnel_end, pending>>
OtherHalves ==
  \/ ReadHalfEnds
  \/ OwnWriteFails /\ UNCHANGED <<writeVars, tunnel, tunnel_end, pending>>

Next == Writes \/ WriterEnds \/ TunnelBreaks \/ Reads \/ OtherHalves

Spec == Init /\ [][Next]_vars

FairSpec == Spec /\ WF_vars(Polls) /\ WF_vars(Reads)

-----------------------------------------------------------------------------
(* Properties.                                                             *)

\* What is received are messages that were written, in order, skipping only
\* those whose frame is too long, wherever the tunnel's stream was pending and
\* however the pieces fell; and the reader fails only where the tunnel broke or
\* ended within a frame, or its own write failed: what is read can always be
\* parsed and decrypted.
\* (A message may come more than once: EachMessageOnce.)
ReceivedInOrder ==
  /\ \A i \in DOMAIN received :
       LET prev == IF i = 1 THEN 0 ELSE received[i - 1]
       IN /\ prev <= received[i] /\ received[i] <= message /\ Seals(received[i])
          /\ \A m \in prev + 1 .. received[i] - 1 : ~Seals(m)
  /\ reader = "failed" =>
       \/ tunnel_end = "error" \/ own_closed
       \/ tunnel_end = "eof" /\ ms_buff # <<>>

\* A message whose write and flush have returned is in the tunnel as a whole,
\* nothing of it is still buffered.  (Not so after an error: see Fails; nor if
\* its frame was found too long only when it was flushed.)
FlushedIsSent ==
  (task = "idle" /\ ~closed) =>
    /\ aes_buff = Idle /\ encrypt = Idle /\ ms_buff = <<>>
    /\ \A m \in 1 .. message - 1 : Seals(m) => Contains(tunnel, <<m, FrameSize>>)

\* A reader that was told of an end and not of an error has received all that
\* was written: an end within a frame or a message, or one that overtakes what
\* a layer has buffered, is never taken for an orderly one.  The exception is a
\* reader whose own write has failed: it is told of an end wherever it is, and
\* only what was decrypted already is sure to come before.
CleanEndIsComplete ==
  reader = "ended" =>
    /\ plain_buff = <<>> /\ shell_buff = <<>>
    /\ \A i \in 1 .. read :
         tunnel[i][2] = FrameSize =>
           Contains(received, tunnel[i][1]) \/ Contains(frame_buff, tunnel[i])
    /\ \/ own_closed
       \/ /\ tunnel_end = "eof" /\ frame_buff = <<>>
          /\ tunnel # <<>> => Last(tunnel)[2] = FrameSize
          /\ \A m \in 1 .. MaxMessages :
               Contains(tunnel, <<m, FrameSize>>) <=> Contains(received, m)

\* A write that was started returns, once the tunnel's stream and the cipher
\* are not pending any more, and what is in the tunnel is received unless
\* the tunnel breaks or the reader's own write fails: no layer waits for more
\* while it has a message.
AllReceived ==
  \A m \in 1 .. MaxMessages :
    Contains(tunnel, <<m, FrameSize>>) => Contains(received, m)

WritesAndReadsReturn ==
  /\ task = "write" ~> task \in {"idle", "failed", "over"}
  /\ ~AllReceived ~> AllReceived \/ tunnel_end = "error" \/ own_closed

\* Each message is received once.
EachMessageOnce == \A i, j \in DOMAIN received : received[i] = received[j] => i = j
=============================================================================
