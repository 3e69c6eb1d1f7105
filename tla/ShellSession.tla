---------------------------- MODULE ShellSession ----------------------------
(***************************************************************************)
(* A shell session over an established tunnel: the client of               *)
(* shell/client/mod.rs, the server of shell/server/mod.rs and the PTY      *)
(* shell of shell/server/pty.rs with its blocking reader and writer tasks, *)
(* their bounded channels, and the program behind the terminal.            *)
(*                                                                         *)
(* Bytes of the program's output and payloads typed at the client are      *)
(* numbered from 1.  The tunnel delivers in order and then reports its     *)
(* end.  Time is left out: a timeout may strike whenever it is armed.  The *)
(* terminal has no user but the program.                                   *)
(*                                                                         *)
(* ShellState::exit_shell is called by the reader, the writer and the drop *)
(* of the shell, and looks at the exit status before it takes the lock of  *)
(* the child: "locking" is who has found no status and not yet the lock,   *)
(* "waiting" and "killing" who has it.                                     *)
(* Resizing, forwarded ports, what the tunnel has room for and the other   *)
(* two shells are left out.                                                *)
(***************************************************************************)
EXTENDS Naturals, Sequences, SequencesExt

CONSTANTS
  Keys, ServerKey,  \* session keys a client may send, and the right one
  ReadSize,         \* the 1024 bytes of each read buffer
  ReaderChannel, WriterChannel,  \* the 10 places of each task's channel
  PtySize,          \* what the terminal buffers in each direction
  MaxTyped,         \* bound: payloads typed at the client
  MaxOutput         \* bound: bytes the program writes

ASSUME ShellAssumption ==
  /\ ServerKey \in Keys
  /\ {ReadSize, ReaderChannel, WriterChannel, PtySize} \subseteq Nat \ {0}
  /\ {MaxTyped, MaxOutput} \subseteq Nat

VARIABLES
  client,       \* where ShellClient::connect is, or how it ended
  client_key, code,
  server,       \* where ShellServer::run is
  drop,         \* what PtyShell::drop is at, while the server leaves or fails
  stdin,        \* the payload that waits for room in the writer's channel
  to_server, to_client,
  program,      \* the shell process; detached: it has closed the terminal
  program_code, exit_status,
  reader, reader_chunk, reader_rx, recv_buff,
  writer, writer_data, writer_rx,
  pty_in, pty_out,
  typed, taken, \* history: payloads typed, and those the program has read
  output, shown \* history: bytes it wrote, and those the client displayed

clientVars  == <<client, client_key, code, typed, shown>>
serverVars  == <<server, drop, stdin, recv_buff>>
streamVars  == <<to_server, to_client>>
programVars == <<program, program_code, pty_in, pty_out, taken, output>>
readerVars  == <<reader, reader_chunk, reader_rx>>
writerVars  == <<writer, writer_data, writer_rx>>
vars == <<clientVars, serverVars, streamVars, programVars, readerVars,
          writerVars, exit_status>>

None == "none"

ClientOver == client \in {"exited", "failed"}
\* The PtyShell and with it the server's ends of both channels are gone.
Dropped == server \in {"lingering", "ended"}
TerminalClosed == program \in {"detached", "exited"}

ToServer(m) == to_server' = Append(to_server, m)
ToClient(m) == to_client' = Append(to_client, m)

-----------------------------------------------------------------------------
(* The client.                                                             *)

ClientGoes(phase) == client' = phase /\ UNCHANGED <<client_key, code, typed, shown>>

SendKey ==
  /\ client = "new" /\ ClientGoes("authenticating")
  /\ ToServer([type |-> "Key", key |-> client_key])
  /\ UNCHANGED <<serverVars, to_client, programVars, readerVars, writerVars,
                 exit_status>>

\* authenticate and connect: the one message each of them waits for.
ReceiveAnswer ==
  /\ client \in {"authenticating", "starting"} /\ to_client # <<>>
  /\ to_client' = Tail(to_client)
  /\ LET type == Head(to_client).type
     IN \/ /\ client = "authenticating" /\ type = "KeyAccepted"
           /\ ClientGoes("starting")
           /\ ToServer([type |-> "StartShell"])
        \/ /\ client = "starting" /\ type = "ShellStarted"
           /\ ClientGoes("streaming")
           /\ UNCHANGED to_server
        \/ /\ type # IF client = "starting" THEN "ShellStarted"
                                            ELSE "KeyAccepted"
           /\ ClientGoes("failed")
           /\ UNCHANGED to_server
  /\ UNCHANGED <<serverVars, programVars, readerVars, writerVars, exit_status>>

\* Mutant: once the shell has started neither a timeout nor the tunnel's end is seen.
ClientFailsEarly ==
  /\ client \in {"authenticating", "starting"}
  /\ ClientGoes("failed")
  /\ UNCHANGED <<serverVars, streamVars, programVars, readerVars, writerVars,
                 exit_status>>

\* A timeout, the end of the stream or of stdin, or an error of either.
ClientFails ==
  /\ client \in {"authenticating", "starting", "streaming"}
  /\ ClientGoes("failed")
  /\ UNCHANGED <<serverVars, streamVars, programVars, readerVars, writerVars,
                 exit_status>>

ReadStdin ==
  /\ client = "streaming" /\ typed < MaxTyped
  /\ typed' = typed + 1
  /\ ToServer([type |-> "Stdin", payload |-> typed + 1])
  /\ UNCHANGED <<client, client_key, code, shown, serverVars, to_client,
                 programVars, readerVars, writerVars, exit_status>>

ReceiveOutput ==
  /\ client = "streaming" /\ to_client # <<>>
  /\ to_client' = Tail(to_client)
  /\ LET m == Head(to_client)
     IN \/ /\ m.type = "Stdout"
           /\ shown' = shown \o m.payload
           /\ UNCHANGED <<client, code>>
        \/ /\ m.type = "Exited"
           /\ client' = "exited" /\ code' = m.code
           /\ UNCHANGED shown
  /\ UNCHANGED <<client_key, typed, serverVars, to_server, programVars,
                 readerVars, writerVars, exit_status>>

-----------------------------------------------------------------------------
(* The server.                                                             *)

ServerGoes(phase) == server' = phase /\ UNCHANGED <<drop, stdin, recv_buff>>

\* wait_for_key.
ReceiveKey ==
  /\ server = "waiting_for_key" /\ to_server # <<>>
  /\ to_server' = Tail(to_server)
  /\ LET m == Head(to_server)
     IN \/ /\ m.type = "Key" /\ m.key = ServerKey
           /\ ToClient([type |-> "KeyAccepted"])
           /\ ServerGoes("waiting_for_request")
        \/ /\ m.type = "Key" /\ m.key # ServerKey
           /\ ToClient([type |-> "KeyRejected"])
           /\ ServerGoes("ended")
  /\ UNCHANGED <<clientVars, programVars, readerVars, writerVars, exit_status>>

\* start_shell: the terminal, the program and the two tasks.
StartShell ==
  /\ server = "waiting_for_request"
  /\ to_server # <<>> /\ Head(to_server).type = "StartShell"
  /\ to_server' = Tail(to_server)
  /\ program' = "running" /\ reader' = "reading" /\ writer' = "receiving"
  /\ ToClient([type |-> "ShellStarted"])
  /\ ServerGoes("streaming")
  /\ UNCHANGED <<clientVars, program_code, pty_in, pty_out, taken, output,
                 reader_chunk, reader_rx, writer_data, writer_rx, exit_status>>

\* A timeout, or the client's end.
NoRequest ==
  /\ server \in {"waiting_for_key", "waiting_for_request"}
  /\ ServerGoes("ended")
  /\ UNCHANGED <<clientVars, streamVars, programVars, readerVars, writerVars,
                 exit_status>>

\* The shell.read branch: all that was read from the terminal is buffered, and
\* one buffer of it is sent.
ReadShell ==
  LET all == recv_buff \o FlattenSeq(reader_rx)
      n   == IF Len(all) < ReadSize THEN Len(all) ELSE ReadSize
  IN /\ server = "streaming" /\ all # <<>>
     /\ reader_rx' = <<>>
     /\ recv_buff' = SubSeq(all, n + 1, Len(all))
     /\ ToClient([type |-> "Stdout", payload |-> SubSeq(all, 1, n)])
     /\ UNCHANGED <<server, drop, stdin, clientVars, to_server, programVars, reader,
                    reader_chunk, writerVars, exit_status>>

\* Mutant: the exit is reported as soon as the shell is not running.
ReadShellEndsAtExit ==
  /\ server = "streaming" /\ exit_status # None
  /\ ToClient([type |-> "Exited", code |-> exit_status])
  /\ ServerGoes("lingering")
  /\ UNCHANGED <<clientVars, to_server, programVars, readerVars, writerVars,
                 exit_status>>

\* The reader's channel is empty and closed: the shell has exited, or reading
\* it failed.
ReadShellEnds ==
  /\ server = "streaming"
  /\ recv_buff = <<>> /\ reader_rx = <<>> /\ reader \in {"ended", "failed"}
  /\ \/ /\ exit_status # None
        /\ ToClient([type |-> "Exited", code |-> exit_status])
        /\ ServerGoes("lingering")
     \/ /\ exit_status = None
        /\ ServerGoes("failing")
        /\ UNCHANGED to_client
  /\ UNCHANGED <<clientVars, to_server, programVars, readerVars, writerVars,
                 exit_status>>

\* The stream.next branch on Stdin: shell.write, awaited inside the loop.
ReceiveStdin ==
  /\ server = "streaming"
  /\ to_server # <<>> /\ Head(to_server).type = "Stdin"
  /\ to_server' = Tail(to_server)
  /\ server' = "writing" /\ stdin' = Head(to_server).payload
  /\ UNCHANGED <<drop, recv_buff, clientVars, to_client, programVars, readerVars,
                 writerVars, exit_status>>

WriteShell ==
  /\ server = "writing"
  /\ \/ /\ writer # "ended" /\ Len(writer_rx) < WriterChannel
        /\ writer_rx' = Append(writer_rx, stdin)
        /\ ServerGoes("streaming")
     \/ /\ writer = "ended"
        /\ ServerGoes("failing")
        /\ UNCHANGED writer_rx
  /\ UNCHANGED <<clientVars, streamVars, programVars, readerVars, writer,
                 writer_data, exit_status>>

\* Mutant: the end of the stream is ignored.
ClientLeftUnread ==
  /\ server = "streaming" /\ ClientOver
  /\ reader_rx # <<>> /\ ServerGoes("failing")
  /\ UNCHANGED <<clientVars, streamVars, programVars, readerVars, writerVars,
                 exit_status>>

\* The client's end is seen by the next read, or by a write that fails.
ClientLeft ==
  /\ server = "streaming" /\ ClientOver
  /\ \/ to_server = <<>> /\ ServerGoes("leaving")
     \/ recv_buff \o reader_rx # <<>> /\ ServerGoes("failing")
  /\ UNCHANGED <<clientVars, streamVars, programVars, readerVars, writerVars,
                 exit_status>>

-----------------------------------------------------------------------------
(* PtyShell::drop: exit_shell(false).                                      *)

LockFree == reader # "waiting" /\ writer # "waiting" /\ drop # "killing"

DropGoes(phase) == drop' = phase /\ UNCHANGED server
DropIsOver ==
  /\ drop' = None
  /\ server' = IF server = "leaving" THEN "lingering" ELSE "ended"

DropLooks ==
  /\ server \in {"leaving", "failing"} /\ drop = None
  /\ \/ exit_status # None /\ DropIsOver
     \/ exit_status = None /\ DropGoes("locking")
  /\ UNCHANGED <<stdin, recv_buff, clientVars, streamVars, programVars,
                 readerVars, writerVars, exit_status>>

\* Mutant: the child is killed without another look at it.
DropLocksOnly ==
  /\ drop = "locking" /\ LockFree
  /\ DropGoes("killing")
  /\ UNCHANGED <<stdin, recv_buff, clientVars, streamVars, programVars,
                 readerVars, writerVars, exit_status>>

\* try_wait, under the lock.
DropLocks ==
  /\ drop = "locking" /\ LockFree
  /\ \/ program = "exited" /\ exit_status' = program_code /\ DropIsOver
     \/ program # "exited" /\ DropGoes("killing") /\ UNCHANGED exit_status
  /\ UNCHANGED <<stdin, recv_buff, clientVars, streamVars, programVars,
                 readerVars, writerVars>>

\* Mutant: the program is left alone.
DropOnly ==
  /\ drop = "killing" /\ DropIsOver
  /\ exit_status' = "failure"
  /\ UNCHANGED <<stdin, recv_buff, clientVars, streamVars, programVars,
                 readerVars, writerVars>>

\* kill, which finds the program running or finds that it has just exited, and
\* a status of its own.
DropKills ==
  /\ drop = "killing" /\ DropIsOver
  /\ exit_status' = "failure" /\ program' = "exited"
  /\ program_code' = IF program = "exited" THEN program_code ELSE "failure"
  /\ UNCHANGED <<stdin, recv_buff, clientVars, streamVars, pty_in, pty_out, taken,
                 output, readerVars, writerVars>>

DropShell == DropLooks \/ DropLocks \/ DropKills

\* The half second that lets the client receive the last message.
Linger ==
  /\ server = "lingering" /\ ServerGoes("ended")
  /\ UNCHANGED <<clientVars, streamVars, programVars, readerVars, writerVars,
                 exit_status>>

-----------------------------------------------------------------------------
(* The reader task.                                                        *)

ReaderReads ==
  LET n == IF Len(pty_out) < ReadSize THEN Len(pty_out) ELSE ReadSize
  IN /\ reader = "reading" /\ pty_out # <<>>
     /\ reader' = "sending"
     /\ reader_chunk' = SubSeq(pty_out, 1, n)
     /\ pty_out' = SubSeq(pty_out, n + 1, Len(pty_out))
     /\ UNCHANGED <<clientVars, serverVars, streamVars, program, program_code,
                    pty_in, taken, output, reader_rx, writerVars, exit_status>>

\* send_sync blocks while the channel is full and fails when it is closed.
ReaderSends ==
  /\ reader = "sending"
  /\ \/ /\ ~Dropped /\ Len(reader_rx) < ReaderChannel
        /\ reader_rx' = Append(reader_rx, reader_chunk)
        /\ reader' = "reading"
     \/ /\ Dropped
        /\ reader' = "ended" /\ UNCHANGED reader_rx
  /\ reader_chunk' = <<>>
  /\ UNCHANGED <<clientVars, serverVars, streamVars, programVars, writerVars,
                 exit_status>>

\* The terminal's end: exit_shell(true), unless the shell has exited already.
ReaderEof ==
  /\ reader = "reading" /\ pty_out = <<>> /\ TerminalClosed
  /\ reader' = IF exit_status = None THEN "locking" ELSE "ended"
  /\ UNCHANGED <<clientVars, serverVars, streamVars, programVars, reader_chunk,
                 reader_rx, writerVars, exit_status>>

ReaderLocks ==
  /\ reader = "locking" /\ LockFree
  /\ reader' = "waiting"
  /\ UNCHANGED <<clientVars, serverVars, streamVars, programVars, reader_chunk,
                 reader_rx, writerVars, exit_status>>

ReaderFails ==
  /\ reader = "reading"
  /\ reader' = "failed"
  /\ UNCHANGED <<clientVars, serverVars, streamVars, programVars, reader_chunk,
                 reader_rx, writerVars, exit_status>>

\* wait returns the program's status, also to the second who asks for it.
ReaderExits ==
  /\ reader = "waiting" /\ program = "exited"
  /\ reader' = "ended" /\ exit_status' = program_code
  /\ UNCHANGED <<clientVars, serverVars, streamVars, programVars, reader_chunk,
                 reader_rx, writerVars>>

-----------------------------------------------------------------------------
(* The writer task.                                                        *)

WriterReceives ==
  /\ writer = "receiving" /\ writer_rx # <<>>
  /\ writer' = "writing"
  /\ writer_data' = Head(writer_rx) /\ writer_rx' = Tail(writer_rx)
  /\ UNCHANGED <<clientVars, serverVars, streamVars, programVars, readerVars,
                 exit_status>>

WriterWrites ==
  /\ writer = "writing" /\ ~TerminalClosed /\ Len(pty_in) < PtySize
  /\ pty_in' = Append(pty_in, writer_data)
  /\ writer' = "receiving"
  /\ UNCHANGED <<clientVars, serverVars, streamVars, program, program_code,
                 pty_out, taken, output, readerVars, writer_data, writer_rx,
                 exit_status>>

\* Writing to a terminal that nobody has open fails: exit_shell(true).
WriterFails ==
  /\ writer = "writing" /\ TerminalClosed
  /\ writer' = IF exit_status = None THEN "locking" ELSE "ended"
  /\ UNCHANGED <<clientVars, serverVars, streamVars, programVars, readerVars,
                 writer_data, writer_rx, exit_status>>

WriterLocks ==
  /\ writer = "locking" /\ LockFree
  /\ writer' = "waiting"
  /\ UNCHANGED <<clientVars, serverVars, streamVars, programVars, readerVars,
                 writer_data, writer_rx, exit_status>>

WriterExits ==
  /\ writer = "waiting" /\ program = "exited"
  /\ writer' = "ended" /\ exit_status' = program_code
  /\ UNCHANGED <<clientVars, serverVars, streamVars, programVars, readerVars,
                 writer_data, writer_rx>>

WriterEnds ==
  /\ writer = "receiving" /\ writer_rx = <<>> /\ Dropped
  /\ writer' = "ended"
  /\ UNCHANGED <<clientVars, serverVars, streamVars, programVars, readerVars,
                 writer_data, writer_rx, exit_status>>

-----------------------------------------------------------------------------
(* The program.                                                            *)

ProgramReads ==
  /\ program = "running" /\ pty_in # <<>>
  /\ taken' = Append(taken, Head(pty_in)) /\ pty_in' = Tail(pty_in)
  /\ UNCHANGED <<clientVars, serverVars, streamVars, program, program_code,
                 pty_out, output, readerVars, writerVars, exit_status>>

ProgramWrites ==
  /\ program = "running" /\ output < MaxOutput /\ Len(pty_out) < PtySize
  /\ output' = output + 1 /\ pty_out' = Append(pty_out, output + 1)
  /\ UNCHANGED <<clientVars, serverVars, streamVars, program, program_code,
                 pty_in, taken, readerVars, writerVars, exit_status>>

ProgramDetaches ==
  /\ program = "running" /\ program' = "detached"
  /\ UNCHANGED <<clientVars, serverVars, streamVars, program_code, pty_in,
                 pty_out, taken, output, readerVars, writerVars, exit_status>>

ProgramExits ==
  /\ program \in {"running", "detached"}
  /\ program' = "exited" /\ program_code' \in {"success", "failure"}
  /\ UNCHANGED <<clientVars, serverVars, streamVars, pty_in, pty_out, taken,
                 output, readerVars, writerVars, exit_status>>

-----------------------------------------------------------------------------

Init ==
  /\ client = "new" /\ client_key \in Keys /\ code = None
  /\ server = "waiting_for_key" /\ drop = None /\ stdin = 0
  /\ to_server = <<>> /\ to_client = <<>>
  /\ program = "none" /\ program_code = None /\ exit_status = None
  /\ reader = "none" /\ reader_chunk = <<>> /\ reader_rx = <<>>
  /\ recv_buff = <<>>
  /\ writer = "none" /\ writer_data = 0 /\ writer_rx = <<>>
  /\ pty_in = <<>> /\ pty_out = <<>>
  /\ typed = 0 /\ taken = <<>> /\ output = 0 /\ shown = <<>>

Client == SendKey \/ ReceiveAnswer \/ ClientFails \/ ReadStdin \/ ReceiveOutput
Server == \/ ReceiveKey \/ StartShell \/ NoRequest \/ ReadShell \/ ReadShellEnds
          \/ ReceiveStdin \/ WriteShell \/ ClientLeft \/ DropShell \/ Linger
Reader == \/ ReaderReads \/ ReaderSends \/ ReaderEof \/ ReaderFails \/ ReaderLocks
          \/ ReaderExits
Writer == \/ WriterReceives \/ WriterWrites \/ WriterFails \/ WriterLocks
          \/ WriterExits \/ WriterEnds
Program == ProgramReads \/ ProgramWrites \/ ProgramDetaches \/ ProgramExits

Next == Client \/ Server \/ Reader \/ Writer \/ Program

Spec == Init /\ [][Next]_vars

\* A timeout before the shell has started, or the end of the tunnel.
ClientGivesUp ==
  /\ client # "streaming" \/ (server = "ended" /\ to_client = <<>>)
  /\ ClientFails

\* Every task runs and the client's select looks at the tunnel; nobody has to
\* type, to write or to read, but a program without a terminal comes to its end.
FairSpec ==
  /\ Spec
  /\ WF_vars(SendKey \/ ReceiveAnswer \/ ReceiveOutput \/ ClientGivesUp)
  /\ WF_vars(Server)
  /\ WF_vars(ReaderReads \/ ReaderSends \/ ReaderEof \/ ReaderLocks \/ ReaderExits)
  /\ WF_vars(Writer)
  /\ WF_vars(program = "detached" /\ ProgramExits)

-----------------------------------------------------------------------------
(* Properties.                                                             *)

\* Every variable holds a value the code's types allow, within the capacities.
TypeOK ==
  /\ client \in {"new", "authenticating", "starting", "streaming", "exited",
                 "failed"}
  /\ server \in {"waiting_for_key", "waiting_for_request", "streaming",
                 "writing", "leaving", "failing", "lingering", "ended"}
  /\ drop \in {None, "locking", "killing"}
  /\ program \in {"none", "running", "detached", "exited"}
  /\ {program_code, exit_status, code} \subseteq {None, "success", "failure"}
  /\ reader \in {"none", "reading", "sending", "locking", "waiting", "ended",
                 "failed"}
  /\ writer \in {"none", "receiving", "writing", "locking", "waiting", "ended"}
  /\ Len(reader_rx) <= ReaderChannel /\ Len(writer_rx) <= WriterChannel
  /\ Len(pty_in) <= PtySize /\ Len(pty_out) <= PtySize
  /\ typed \in 0 .. MaxTyped /\ output \in 0 .. MaxOutput

\* A client that returns an exit code has displayed all the program wrote, and
\* the code is the program's, unless reading the terminal failed: the three
\* buffers between them are empty before the code is sent.
OutputBeforeExit ==
  client = "exited" /\ reader # "failed" =>
    shown = [i \in 1 .. output |-> i] /\ code = program_code

\* Neither what is typed nor what is written is lost, repeated or reordered on
\* its way through channels, buffers and tunnel, up to the exit.
StreamsInOrder ==
  /\ IsPrefix(shown, [i \in 1 .. output |-> i])
  /\ IsPrefix(taken, [i \in 1 .. typed |-> i])
  /\ OutputBeforeExit

\* The exit status is that of a program that has exited, and final, though each
\* of the reader, the writer and the drop of the shell may have found none and
\* go on to the lock when another has recorded it.  The exception comes after
\* the drop, when nobody reads it: the status of a kill may be replaced by that
\* of a program which had just exited by itself.
StatusIsFinal ==
  [][exit_status # None =>
       \/ exit_status' = exit_status
       \/ Dropped /\ exit_status' = program_code]_vars

\* shell.write is awaited inside the server's loop: it waits for a program that
\* does not read what fills the terminal and the writer's channel.
InputStuck ==
  /\ server = "writing" /\ Len(writer_rx) = WriterChannel
  /\ writer = "writing" /\ program = "running" /\ Len(pty_in) = PtySize

\* Once the client has left, the server ends the session, unless its loop waits
\* for the program to read; once the server has ended it, so does the client.
EndIsNoticed == ClientOver ~> server = "ended" \/ InputStuck
ExitIsReported == server = "ended" ~> ClientOver

\* A program does not outlive the session that started it.
ProgramEndsWithSession ==
  (server = "ended" /\ program # "none") ~> program = "exited"
=============================================================================
