---------------------------- MODULE FallbackShell ----------------------------
(***************************************************************************)
(* A shell session on a host that has no terminal to give: start_shell     *)
(* falls back to the shell that is built in (shell/server/fallback).  The  *)
(* client and the frame of the server are those of ShellSession; here are  *)
(* the server's loop over a FallbackShell, the Interpreter task, the two   *)
(* in-memory channels between them, and the process of a command with its  *)
(* three pipes.                                                            *)
(*                                                                         *)
(* A script is what will be typed, one sequence of bytes for each payload. *)
(* A line of one byte stands for a command: "q" is exit, "c" cd to some    *)
(* directory, "h" is no UTF-8, and Programs are those a process is spawned *)
(* for.  The working directory, the window's size and the environment are  *)
(* left out.                                                               *)
(*                                                                         *)
(* The tunnel is bounded here.  Both loops await stream.write inside a     *)
(* branch of their select, and look at nothing else until it is done: the  *)
(* message they write is the one that exceeds what the tunnel holds.       *)
(***************************************************************************)
EXTENDS ShellSession, LineEditor

CONSTANTS
  Bytes,         \* those that are typed, and that a process writes
  Scripts,       \* bound: what may be typed
  Impatient,     \* bound: those of them whose client may leave before the end
  Programs,      \* lines that name a program
  ProcessOutput, ProcessErrors, \* what each of them writes, byte by byte
  PipeSize,      \* the bytes a pipe holds
  MaxInFlight    \* messages the tunnel holds in each direction

ASSUME FallbackAssumption ==
  /\ {PipeSize, MaxInFlight} \subseteq Nat \ {0}
  /\ Bytes \cap {"left", "right", "prompt"} = {}
  /\ Scripts \subseteq Seq(Seq(Bytes))
  /\ {ProcessOutput, ProcessErrors} \subseteq [Programs -> Seq(Bytes)]

VARIABLES
  script,
  armed,      \* the shell.read of the server's loop waits for output
  interp,     \* where Interpreter::start_loop is
  ed,         \* its line, cursor and history
  input,      \* the InputStream
  feeding,    \* what waits for room in the process's stdin
  out_stream, \* the OutputStream: its channel, and the last byte written to it
  exited,     \* Inner::exit_code, whose being set also shuts both streams
  process, in_pipe, out_pipe, err_pipe,
  to_write, to_complain, \* what the process is still to write
  came,       \* history: bytes written to the InputStream
  handled,    \* history: keys the interpreter has taken
  written     \* history: bytes written to the OutputStream

processVars  == <<process, in_pipe, out_pipe, err_pipe, to_write, to_complain>>
interpVars   == <<interp, ed, feeding, handled>>
outputVars   == <<out_stream, written>>
inputVars    == <<input, came>>
fallbackVars == <<script, armed, interpVars, inputVars, outputVars, exited,
                  processVars>>
ptyVars      == <<programVars, readerVars, writerVars, exit_status, drop, stdin,
                  recv_buff>>
sessionVars  == <<clientVars, server, streamVars, ptyVars>>
allVars      == <<vars, fallbackVars>>

NoOutput == [chan |-> <<>>, last |-> None]

\* The loop does not wait in a stream.write.
ClientFree == Len(to_server) <= MaxInFlight
ServerFree == Len(to_client) <= MaxInFlight

-----------------------------------------------------------------------------
(* What the shell and the interpreter share.                               *)

\* OutputStream::write.
Write(bytes) ==
  IF bytes = <<>> THEN UNCHANGED outputVars
  ELSE LET sent == Converted(out_stream.last, bytes)
       IN /\ out_stream' = [chan |-> out_stream.chan \o sent, last |-> Last(bytes)]
          /\ written' = written \o bytes

\* InputStream::poll_next parses only when there is no token left.
Fetched ==
  IF input.tokens # <<>> THEN input
  ELSE LET parsed == Parsed(input.buff)
       IN [tokens |-> parsed.tokens, buff |-> parsed.rest]

\* read_input takes this token, if there is one.
NextToken == {Fetched.tokens[i] : i \in DOMAIN Fetched.tokens \cap {1}}
Take(token) ==
  /\ input' = [Fetched EXCEPT !.tokens = Tail(@)]
  /\ handled' = handled \o Keys1(<<token>>)
  /\ UNCHANGED came

-----------------------------------------------------------------------------
(* The client.                                                             *)

TypeScript == ClientFree /\ typed < Len(script) /\ ReadStdin /\ UNCHANGED fallbackVars

\* A message that is still being written is cut.
LeavesWriting ==
  /\ ~ClientFree /\ client = "streaming" /\ ClientGoes("failed")
  /\ to_server' = Front(to_server)
  /\ UNCHANGED <<to_client, server, ptyVars>>

ClientLeaves == ((ClientFree /\ ClientFails) \/ LeavesWriting) /\ UNCHANGED fallbackVars

\* Bound: who leaves a session that goes on.
ClientGoesAway ==
  (script \in Impatient \cup {<<>>} \/ server = "ended") /\ ClientLeaves

ClientRuns ==
  ClientFree /\ (SendKey \/ ReceiveAnswer \/ ReceiveOutput) /\ UNCHANGED fallbackVars

-----------------------------------------------------------------------------
(* The server.                                                             *)

ServerRuns ==
  /\ ReceiveKey \/ NoRequest \/ ((ServerFree \/ ClientOver) /\ Linger)
  /\ UNCHANGED fallbackVars

\* start_shell when there is no terminal: the interpreter's task is spawned
\* before the notice is written, so either comes first.
StartFallback ==
  /\ server = "waiting_for_request"
  /\ to_server # <<>> /\ Head(to_server).type = "StartShell"
  /\ to_server' = Tail(to_server)
  /\ ToClient([type |-> "ShellStarted"])
  /\ server' = "streaming"
  /\ script' \in Scripts /\ interp' = "reading"
  /\ \/ Write(<<"prompt", "CR", "LF", "notice", "CR", "LF">>)
     \/ Write(<<"CR", "LF", "notice", "CR", "LF", "prompt">>)
  /\ UNCHANGED <<clientVars, ptyVars, armed, ed, feeding, handled, inputVars, exited,
                 processVars>>

\* FallbackShell::read looks at the exit code before it waits for output.
StartRead ==
  /\ server = "streaming" /\ ServerFree /\ ~armed /\ exited = None
  /\ armed' = TRUE
  /\ UNCHANGED <<sessionVars, script, interpVars, inputVars, outputVars, exited,
                 processVars>>

\* Until all of it is written, the loop reads neither keys nor output.
ReadOutput ==
  LET n == IF Len(out_stream.chan) < ReadSize THEN Len(out_stream.chan)
                                              ELSE ReadSize
  IN /\ server = "streaming" /\ ServerFree /\ armed /\ out_stream.chan # <<>>
     /\ armed' = FALSE
     /\ out_stream' = [out_stream EXCEPT !.chan = SubSeq(@, n + 1, Len(@))]
     /\ ToClient([type |-> "Stdout", payload |-> SubSeq(out_stream.chan, 1, n)])
     /\ UNCHANGED <<clientVars, server, to_server, ptyVars, script, interpVars,
                    inputVars, written, exited, processVars>>

\* Mutant: exit does not wake the reader of the output.
ReadExitUnwoken ==
  /\ server = "streaming" /\ ServerFree /\ exited # None /\ ~armed
  /\ server' = "lingering" /\ ToClient([type |-> "Exited", code |-> exited])
  /\ UNCHANGED <<clientVars, to_server, ptyVars, fallbackVars>>

\* No output is left, or the read comes after the exit and looks at none.
ReadExit ==
  /\ server = "streaming" /\ ServerFree /\ exited # None
  /\ armed => out_stream.chan = <<>>
  /\ server' = "lingering" /\ ToClient([type |-> "Exited", code |-> exited])
  /\ UNCHANGED <<clientVars, to_server, ptyVars, fallbackVars>>

\* The Stdin branch with FallbackShell::write, which fails after the exit.
WriteInput ==
  /\ server = "streaming" /\ ServerFree
  /\ to_server # <<>> /\ Head(to_server).type = "Stdin"
  /\ to_server' = Tail(to_server)
  /\ armed' = FALSE
  /\ \/ /\ exited = None
        /\ LET payload == script[Head(to_server).payload]
           IN /\ input' = [input EXCEPT !.buff = @ \o payload]
              /\ came' = came \o payload
        /\ UNCHANGED server
     \/ /\ exited # None
        /\ server' = "failing"
        /\ UNCHANGED inputVars
  /\ UNCHANGED <<clientVars, to_client, ptyVars, script, interpVars, outputVars,
                 exited, processVars>>

\* Mutant: the end of the stream is not looked at while output is to be sent.
ClientGoneUnread ==
  /\ server = "streaming" /\ ClientOver
  /\ ~ServerFree \/ (armed /\ out_stream.chan # <<>>)
  /\ server' = "failing"
  /\ UNCHANGED <<clientVars, streamVars, ptyVars, fallbackVars>>

\* The client's end is seen by the next read, which finds the end or a message
\* that was cut, or by a write that fails.
ClientGone ==
  /\ server = "streaming" /\ ClientOver
  /\ \/ ServerFree /\ to_server = <<>> /\ server' \in {"leaving", "failing"}
     \/ ServerFree /\ armed /\ out_stream.chan # <<>> /\ server' = "failing"
     \/ ~ServerFree /\ server' = "failing"
  /\ UNCHANGED <<clientVars, streamVars, ptyVars, fallbackVars>>

\* FallbackShell::drop does nothing: the interpreter's task is not stopped.
DropFallback ==
  /\ server \in {"leaving", "failing"}
  /\ server' = IF server = "leaving" THEN "lingering" ELSE "ended"
  /\ UNCHANGED <<clientVars, streamVars, ptyVars, fallbackVars>>

-----------------------------------------------------------------------------
(* The interpreter at its prompt.                                          *)

\* A token that is not Enter.
EditLine ==
  /\ interp = "reading"
  /\ \E token \in NextToken :
       /\ token.key # "Enter" /\ Take(token)
       /\ \E edit \in {EditOf(ed, token)} : ed' = edit.ed /\ Write(edit.out)
  /\ UNCHANGED <<sessionVars, script, armed, interp, feeding, exited, processVars>>

\* Half a character is no text either.
IsText(line) ==
  /\ "h" \notin ToSet(line)
  /\ \A i \in 0 .. Len(line) :
       (i \in DOMAIN line /\ line[i] = "LEAD")
         <=> (i + 1 \in DOMAIN line /\ line[i + 1] = "TAIL")
IsBlank(line) == ToSet(line) \subseteq {" ", "TAB", "LF"}

\* Enter ends the line.  If from_utf8 fails the task is over, with nothing set
\* or shut.
ReadLine ==
  /\ interp = "reading"
  /\ \E token \in NextToken : token.key = "Enter" /\ Take(token)
  /\ Write(NewLine(ed).out)
  /\ \/ IsText(ed.line) /\ interp' = "running" /\ ed' = NewLine(ed).ed
     \/ ~IsText(ed.line) /\ interp' = "dead" /\ UNCHANGED ed
  /\ UNCHANGED <<sessionVars, script, armed, feeding, exited, processVars>>

\* Interpreter::run, up to where the task next waits.
Command == Last(ed.history)
Runs ==
  /\ interp = "running"
  /\ UNCHANGED <<sessionVars, script, armed, ed, feeding, handled, inputVars>>

\* out is what the command answers before the next prompt.
Answers(out) ==
  /\ interp' = "reading" /\ Write(out \o <<"prompt">>)
  /\ UNCHANGED <<exited, processVars>>

RunNothing == Runs /\ Command = <<>> /\ Answers(<<>>)

\* A line of blanks has no first word to unwrap: the task panics.
RunBlank ==
  /\ Runs /\ IsBlank(Command) /\ Command # <<>>
  /\ interp' = "dead"
  /\ UNCHANGED <<outputVars, exited, processVars>>

Exit ==
  /\ Runs /\ Command = <<"q">>
  /\ exited' = "success" /\ interp' = "exited"
  /\ UNCHANGED <<outputVars, processVars>>

\* The directory is there, or is not, or is gone when it is looked up again.
ChangePwd ==
  /\ Runs /\ Command = <<"c">>
  /\ \/ Answers(<<>>)
     \/ Answers(<<"?">>)
     \/ interp' = "dead" /\ UNCHANGED <<outputVars, exited, processVars>>

IsOther == ~IsBlank(Command) /\ Command \notin {<<"q">>, <<"c">>}

SpawnFails == Runs /\ IsOther /\ Answers(<<"!", "CR", "LF">>)

Spawn ==
  /\ Runs /\ IsOther /\ Command \in Programs
  /\ interp' = "streaming"
  /\ process' = "running"
  /\ to_write' = ProcessOutput[Command] /\ to_complain' = ProcessErrors[Command]
  /\ in_pipe' = <<>> /\ out_pipe' = <<>> /\ err_pipe' = <<>>
  /\ UNCHANGED <<outputVars, exited>>

-----------------------------------------------------------------------------
(* The interpreter with a process: stream_process_io.                      *)

\* Mutant: what is typed while a process runs is kept for the next prompt.
StreamNoToken == FALSE

StreamToken ==
  /\ interp = "streaming"
  /\ \E token \in NextToken :
       /\ Take(token)
       /\ \/ /\ token.key = "ControlC"
             /\ process' = "exited"
             /\ UNCHANGED <<interp, feeding>>
          \/ /\ token.key # "ControlC"
             /\ interp' = "feeding" /\ feeding' = token.bytes
             /\ UNCHANGED process
  /\ UNCHANGED <<sessionVars, script, armed, ed, outputVars, exited, in_pipe,
                 out_pipe, err_pipe, to_write, to_complain>>

\* stdin.write_all, awaited inside the branch of the select.
Feed ==
  /\ interp = "feeding" /\ process # "exited" /\ Len(in_pipe) < PipeSize
  /\ in_pipe' = Append(in_pipe, Head(feeding)) /\ feeding' = Tail(feeding)
  /\ interp' = IF Tail(feeding) = <<>> THEN "streaming" ELSE "feeding"
  /\ UNCHANGED <<sessionVars, script, armed, ed, handled, inputVars, outputVars,
                 exited, process, out_pipe, err_pipe, to_write, to_complain>>

\* The pipe has no reader: the error ends the task.
FeedFails ==
  /\ interp = "feeding" /\ process = "exited"
  /\ interp' = "dead"
  /\ UNCHANGED <<sessionVars, script, armed, ed, feeding, handled, inputVars,
                 outputVars, exited, processVars>>

StreamStdout ==
  /\ interp = "streaming" /\ out_pipe # <<>>
  /\ Write(out_pipe) /\ out_pipe' = <<>>
  /\ UNCHANGED <<sessionVars, script, armed, interpVars, inputVars, exited, process,
                 in_pipe, err_pipe, to_write, to_complain>>

StreamStderr ==
  /\ interp = "streaming" /\ err_pipe # <<>>
  /\ Write(err_pipe) /\ err_pipe' = <<>>
  /\ UNCHANGED <<sessionVars, script, armed, interpVars, inputVars, exited, process,
                 in_pipe, out_pipe, to_write, to_complain>>

\* The end of stdout ends the streaming, and drops stdin and what stderr holds.
StdoutEnds ==
  /\ interp = "streaming" /\ out_pipe = <<>> /\ process \in {"mute", "exited"}
  /\ interp' = "waiting" /\ err_pipe' = <<>>
  /\ UNCHANGED <<sessionVars, script, armed, ed, feeding, handled, inputVars,
                 outputVars, exited, process, in_pipe, out_pipe, to_write,
                 to_complain>>

Reap ==
  /\ interp = "waiting" /\ process = "exited"
  /\ interp' = "reading" /\ process' = "none" /\ Write(<<"prompt">>)
  /\ UNCHANGED <<sessionVars, script, armed, ed, feeding, handled, inputVars, exited,
                 in_pipe, out_pipe, err_pipe, to_write, to_complain>>

-----------------------------------------------------------------------------
(* The process.                                                            *)

ProcessReads ==
  /\ process \in {"running", "mute"} /\ in_pipe # <<>>
  /\ in_pipe' = Tail(in_pipe)
  /\ UNCHANGED <<process, out_pipe, err_pipe, to_write, to_complain>>

ProcessWrites ==
  /\ process = "running" /\ interp \in {"streaming", "feeding"}
  /\ to_write # <<>> /\ Len(out_pipe) < PipeSize
  /\ to_write' = Tail(to_write) /\ out_pipe' = Append(out_pipe, Head(to_write))
  /\ UNCHANGED <<process, in_pipe, err_pipe, to_complain>>

ProcessComplains ==
  /\ process = "running" /\ interp \in {"streaming", "feeding"}
  /\ to_complain # <<>> /\ Len(err_pipe) < PipeSize
  /\ to_complain' = Tail(to_complain)
  /\ err_pipe' = Append(err_pipe, Head(to_complain))
  /\ UNCHANGED <<process, in_pipe, out_pipe, to_write>>

\* It closes its stdout.
ProcessMutes ==
  /\ process = "running" /\ process' = "mute"
  /\ UNCHANGED <<in_pipe, out_pipe, err_pipe, to_write, to_complain>>

ProcessExits ==
  /\ process \in {"running", "mute"} /\ process' = "exited"
  /\ UNCHANGED <<in_pipe, out_pipe, err_pipe, to_write, to_complain>>

\* Bound: what becomes of a process that is left alone is not followed.
Process ==
  /\ interp \in {"streaming", "feeding", "waiting"}
  /\ \/ ProcessReads \/ ProcessWrites \/ ProcessComplains \/ ProcessMutes
     \/ ProcessExits
  /\ UNCHANGED <<sessionVars, script, armed, interpVars, inputVars, outputVars, exited>>

-----------------------------------------------------------------------------

FallbackInit ==
  /\ Init
  /\ script = <<>> /\ armed = FALSE
  /\ interp = "none" /\ ed = NewEditor /\ feeding = <<>>
  /\ input = [tokens |-> <<>>, buff |-> <<>>]
  /\ out_stream = NoOutput /\ exited = None
  /\ process = "none" /\ in_pipe = <<>> /\ out_pipe = <<>> /\ err_pipe = <<>>
  /\ to_write = <<>> /\ to_complain = <<>>
  /\ came = <<>> /\ handled = <<>> /\ written = <<>>

FallbackServer ==
  \/ ServerRuns \/ StartFallback \/ StartRead \/ ReadOutput \/ ReadExit
  \/ WriteInput \/ ClientGone \/ DropFallback
Prompting ==
  \/ EditLine \/ ReadLine \/ RunNothing \/ RunBlank \/ Exit \/ ChangePwd
  \/ SpawnFails \/ Spawn
Streaming ==
  \/ StreamToken \/ Feed \/ FeedFails \/ StreamStdout \/ StreamStderr
  \/ StdoutEnds \/ Reap

FallbackNext ==
  \/ TypeScript \/ ClientGoesAway \/ ClientRuns \/ FallbackServer \/ Prompting
  \/ Streaming \/ Process

\* Both tasks run and the client's select looks at the tunnel; nobody has to
\* type, and a process need neither read nor write nor end.
FallbackSpec ==
  /\ FallbackInit /\ [][FallbackNext]_allVars
  /\ WF_allVars(ClientRuns) /\ WF_allVars(FallbackServer)
  /\ WF_allVars(server = "ended" /\ (to_client = <<>> \/ ~ClientFree) /\ ClientLeaves)
  /\ WF_allVars(Prompting) /\ WF_allVars(Streaming)

-----------------------------------------------------------------------------
(* Properties.                                                             *)

InFlight(stream, type, payload(_)) ==
  FlattenSeq([i \in DOMAIN stream |->
    IF stream[i].type = type THEN payload(stream[i]) ELSE <<>>])

\* At the prompt the client's terminal will show the line that is edited and
\* nothing after it, with the cursor where the editor has it: refresh_line and
\* the escape sequences undo what the terminal shows of the line before.  The
\* editor counts bytes, so this is claimed only as long as every byte typed
\* takes one column, and no program has written an escape sequence or a control
\* character that may change how the terminal draws.
DisplayAgrees ==
  interp = "reading" /\ ToSet(handled) \cap NotOneColumn = {}
      /\ ToSet(written) \cap {"ESC", "CTL"} = {} =>
    Agree(Shows(BlankScreen, Converted(None, written)), ed)

\* However the bytes typed are cut into payloads, and whenever the interpreter
\* looks at them, it takes the keys they make as a whole, in order.
KeysAreWhole ==
  /\ handled \o Keys1(input.tokens) \o Keys1(Parsed(input.buff).tokens)
       = Keys1(Parsed(came).tokens)
  /\ Parsed(input.buff).rest = Parsed(came).rest

\* What the client displays, what is on its way and what waits in the channel
\* are what the interpreter wrote, in order, each line feed with one carriage
\* return before it wherever the writes and reads were cut.
OutputIsConverted ==
  shown \o InFlight(to_client, "Stdout", LAMBDA m : m.payload) \o out_stream.chan
    = Converted(None, written)

\* The interpreter waits inside its loop for a process that does not read, or
\* outside it for one that has closed its stdout but does not end.
FeedStuck == interp = "feeding" /\ Len(in_pipe) = PipeSize /\ process # "exited"
WaitStuck == interp = "waiting" /\ process # "exited"

\* Each loop waits in its stream.write for the other to read: neither a key nor
\* the exit of the shell ends that.
TunnelStuck == ~ClientFree /\ ~ServerFree

KeyWaits ==
  \/ \E i \in DOMAIN to_server : to_server[i].type = "Stdin"
  \/ handled # Keys1(Parsed(came).tokens)

\* A key that is typed is taken by the interpreter, unless the session ends,
\* its task has ended with an error, it waits for a process, or both loops wait
\* for each other.
KeyIsTaken ==
  KeyWaits ~> \/ ~KeyWaits \/ exited # None \/ ClientOver
              \/ interp = "dead" \/ FeedStuck \/ WaitStuck \/ TunnelStuck

\* The exit of the shell ends the session at both ends, unless both loops wait
\* for each other; the client's end ends the server's whatever the interpreter
\* or the server's loop waits for.
SessionEnds ==
  /\ exited # None ~> (server = "ended" /\ ClientOver) \/ TunnelStuck
  /\ ClientOver ~> server = "ended"
=============================================================================
