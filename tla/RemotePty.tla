----------------------------- MODULE RemotePty -----------------------------
(***************************************************************************)
(* The remote PTY shell: bash on the server's host talks to a terminal on  *)
(* the client's through connections of a unix socket, which the server     *)
(* (shell/server/remote_pty.rs) and the client (shell/client/remote_pty.rs)*)
(* multiplex over the tunnel.  The programs that connect and the library   *)
(* that serves the terminal are arbitrary.  Forwarded network messages     *)
(* share the loops but none of this state and are left out.                *)
(***************************************************************************)
EXTENDS Naturals, Sequences, SequencesExt

CONSTANTS
  MaxCons,   \* bound: connections that are made
  MaxWrites  \* bound: payloads written at each end, to all connections

ASSUME BoundsAssumption == MaxCons \in Nat /\ MaxWrites \in Nat

ConIds == 0 .. MaxCons - 1

VARIABLES
  con_id, connections,  \* the server's next id, and its write halves
  peer,        \* the program's end: "none", "open", "closed"
  sock,        \* what it wrote that its reader task has not read
  read_rx,     \* the channel of the reader tasks
  proc,        \* bash: "running", "exited", "killed"
  server,      \* its loop: "running", "returned", "failed"
  toClient, toServer,   \* the tunnel
  state,       \* the connections the client's demuxer knows
  replies,     \* what the library wrote, for streamed_to
  demuxed,     \* the channel read_tx, read_rx of the demuxer
  master,      \* the library: "running", "ended"
  client,      \* "running", "exited", "rejected", "cut", "master ended"
  sent, got,   \* history: what a program wrote and was given
  wrote, given \* history: what the library wrote and was given

serverVars == <<con_id, connections, read_rx, server, proc>>
tunnelVars == <<toClient, toServer>>
clientVars == <<state, demuxed, client>>
socketVars == <<peer, sock, sent, got>>
masterVars == <<replies, master, wrote, given>>
vars == <<serverVars, tunnelVars, clientVars, socketVars, masterVars>>

Eof == 0
Written(type, id) == toClient' = Append(toClient, [type |-> type, id |-> id])

-----------------------------------------------------------------------------
(* The programs: bash and its children.                                    *)

ProgramWrites(id) ==
  /\ peer[id] = "open" /\ SumFunction(sent) < MaxWrites
  /\ sent' = [sent EXCEPT ![id] = @ + 1]
  /\ sock' = [sock EXCEPT ![id] = Append(@, sent[id] + 1)]
  /\ UNCHANGED <<serverVars, tunnelVars, clientVars, peer, got, masterVars>>

ProgramCloses(id) ==
  /\ peer[id] = "open"
  /\ peer' = [peer EXCEPT ![id] = "closed"]
  /\ sock' = [sock EXCEPT ![id] = Append(@, Eof)]
  /\ UNCHANGED <<serverVars, tunnelVars, clientVars, sent, got, masterVars>>

ProgramExits ==
  /\ proc = "running" /\ proc' = "exited"
  /\ UNCHANGED <<con_id, connections, read_rx, server, tunnelVars, clientVars,
                 socketVars, masterVars>>

-----------------------------------------------------------------------------
(* The server: do_stream_io.                                               *)

\* Mutant: bash is left alone.
EndsLeavingBash(how) ==
  /\ server' = how
  /\ UNCHANGED <<con_id, connections, read_rx, proc>>

\* Whatever ends the loop drops its state and with it kills bash.
Ends(how) ==
  /\ server' = how
  /\ proc' = IF proc = "running" THEN "killed" ELSE proc
  /\ UNCHANGED <<con_id, connections, read_rx>>

\* Mutant: the counter stays.
SameConId ==
  /\ server = "running" /\ proc = "running" /\ con_id \in ConIds
  /\ connections' = connections \cup {con_id}
  /\ peer' = [peer EXCEPT ![con_id] = "open"]
  /\ Written("Connect", con_id)
  /\ UNCHANGED <<con_id, read_rx, server, proc, toServer, clientVars, sock,
                 sent, got, masterVars>>

\* A program connects and is accepted.
HandleNewConnection ==
  /\ server = "running" /\ proc = "running" /\ con_id \in ConIds
  /\ con_id' = con_id + 1
  /\ connections' = connections \cup {con_id}
  /\ peer' = [peer EXCEPT ![con_id] = "open"]
  /\ Written("Connect", con_id)
  /\ UNCHANGED <<read_rx, server, proc, toServer, clientVars, sock, sent, got,
                 masterVars>>

\* The task of a connection: a failing read ends it as the end does.  What it
\* reads for a loop that has ended goes nowhere.
ReadTask(id) ==
  /\ server = "running" /\ sock[id] # <<>>
  /\ read_rx' = Append(read_rx, [id |-> id, data |-> Head(sock[id])])
  /\ sock' = [sock EXCEPT ![id] = Tail(@)]
  /\ UNCHANGED <<con_id, connections, server, proc, tunnelVars, clientVars,
                 peer, sent, got, masterVars>>

HandleNewRead ==
  /\ server = "running" /\ read_rx # <<>>
  /\ LET read == Head(read_rx)
     IN \/ /\ read.data = Eof
           /\ connections' = connections \ {read.id}
           /\ Written("Close", read.id)
        \/ /\ read.data # Eof
           /\ toClient' = Append(toClient, [type |-> "Payload", id |-> read.id,
                                            data |-> read.data])
           /\ UNCHANGED connections
  /\ read_rx' = Tail(read_rx)
  /\ UNCHANGED <<con_id, server, proc, toServer, clientVars, socketVars,
                 masterVars>>

\* Writing to a program that has closed fails at once.
HandleData ==
  /\ server = "running" /\ toServer # <<>>
  /\ LET m == Head(toServer)
     IN \/ /\ m.id \in connections /\ peer[m.id] = "open"
           /\ got' = [got EXCEPT ![m.id] = Append(@, m.data)]
           /\ toServer' = Tail(toServer)
           /\ UNCHANGED <<serverVars, toClient>>
        \/ /\ m.id \in connections /\ peer[m.id] = "closed"
           /\ Written("Close", m.id)
           /\ Ends("failed") /\ UNCHANGED <<toServer, got>>
        \/ /\ m.id \notin connections
           /\ Ends("failed") /\ UNCHANGED <<tunnelVars, got>>
  /\ UNCHANGED <<clientVars, peer, sock, sent, masterVars>>

\* The loop may see the exit before what the programs wrote.
HandleExit ==
  /\ server = "running" /\ proc = "exited"
  /\ Written("Exited", 0)
  /\ Ends("returned")
  /\ UNCHANGED <<toServer, clientVars, socketVars, masterVars>>

\* The client's end of the tunnel is gone: the stream ends, or a write fails.
ClientGone ==
  /\ server = "running" /\ client # "running"
  /\ toServer = <<>> \/ read_rx # <<>>
  /\ Ends("returned")
  /\ UNCHANGED <<tunnelVars, clientVars, socketVars, masterVars>>

-----------------------------------------------------------------------------
(* The client: start_remote_pty_master and its ChannelDemuxer.             *)

Incoming(type) ==
  client = "running" /\ toClient # <<>> /\ Head(toClient).type = type

\* An error of the demuxer ends the client; the message stays where it is.
Rejected ==
  /\ client' = "rejected"
  /\ UNCHANGED <<toClient, state, given>>

HandleConnect ==
  /\ Incoming("Connect")
  /\ LET id == Head(toClient).id
     IN IF id \notin state /\ master = "running"
        THEN /\ state' = state \cup {id}
             /\ toClient' = Tail(toClient) /\ UNCHANGED <<client, given>>
        ELSE Rejected
  /\ UNCHANGED <<serverVars, toServer, demuxed, socketVars, replies, master,
                 wrote>>

HandlePayload ==
  /\ Incoming("Payload")
  /\ LET m == Head(toClient)
     IN IF m.id \in state /\ master = "running"
        THEN /\ given' = [given EXCEPT ![m.id] = Append(@, m.data)]
             /\ toClient' = Tail(toClient) /\ UNCHANGED <<client, state>>
        ELSE Rejected
  /\ UNCHANGED <<serverVars, toServer, demuxed, socketVars, replies, master,
                 wrote>>

HandleClose ==
  /\ Incoming("Close")
  /\ LET id == Head(toClient).id
     IN IF id \in state
        THEN /\ state' = state \ {id}
             /\ toClient' = Tail(toClient) /\ UNCHANGED <<client, given>>
        ELSE Rejected
  /\ UNCHANGED <<serverVars, toServer, demuxed, socketVars, replies, master,
                 wrote>>

HandleExited ==
  /\ Incoming("Exited")
  /\ client' = "exited"
  /\ UNCHANGED <<serverVars, tunnelVars, state, demuxed, socketVars,
                 masterVars>>

\* The server's end is gone: the stream ends, or a write fails.
ServerGone ==
  /\ client = "running" /\ server # "running"
  /\ toClient = <<>> \/ demuxed # <<>>
  /\ client' = "cut"
  /\ UNCHANGED <<serverVars, tunnelVars, state, demuxed, socketVars,
                 masterVars>>

\* The library writes to a connection it was given ...
MasterWrites(id) ==
  /\ master = "running" /\ id \in state /\ SumFunction(wrote) < MaxWrites
  /\ wrote' = [wrote EXCEPT ![id] = @ + 1]
  /\ replies' = [replies EXCEPT ![id] = Append(@, wrote[id] + 1)]
  /\ UNCHANGED <<serverVars, tunnelVars, clientVars, socketVars, master, given>>

\* Mutant: the newest reply goes first.
StreamsNewestFirst(id) ==
  /\ client = "running" /\ id \in state /\ replies[id] # <<>>
  /\ demuxed' = Append(demuxed, [id |-> id, data |-> Last(replies[id])])
  /\ replies' = [replies EXCEPT ![id] = Front(@)]
  /\ UNCHANGED <<serverVars, tunnelVars, state, client, socketVars, master,
                 wrote, given>>

\* ... and streamed_to passes it on unless the connection was terminated.  A
\* Close handled between its look at `terminated` and its send has the effect
\* of one right after.
StreamedTo(id) ==
  /\ client = "running" /\ id \in state /\ replies[id] # <<>>
  /\ demuxed' = Append(demuxed, [id |-> id, data |-> Head(replies[id])])
  /\ replies' = [replies EXCEPT ![id] = Tail(@)]
  /\ UNCHANGED <<serverVars, tunnelVars, state, client, socketVars, master,
                 wrote, given>>

SendData ==
  /\ client = "running" /\ demuxed # <<>>
  /\ toServer' = Append(toServer, Head(demuxed))
  /\ demuxed' = Tail(demuxed)
  /\ UNCHANGED <<serverVars, toClient, state, client, socketVars, masterVars>>

\* The library's thread ends; the loop returns when it sees that.
MasterEnds ==
  /\ master = "running" /\ client = "running" /\ master' = "ended"
  /\ UNCHANGED <<serverVars, tunnelVars, clientVars, socketVars, replies,
                 wrote, given>>

MasterEnded ==
  /\ client = "running" /\ master = "ended"
  /\ client' = "master ended"
  /\ UNCHANGED <<serverVars, tunnelVars, state, demuxed, socketVars,
                 masterVars>>

-----------------------------------------------------------------------------

Init ==
  /\ con_id = 0 /\ connections = {} /\ read_rx = <<>>
  /\ proc = "running" /\ server = "running"
  /\ toClient = <<>> /\ toServer = <<>>
  /\ state = {} /\ demuxed = <<>> /\ client = "running" /\ master = "running"
  /\ peer = [id \in ConIds |-> "none"]
  /\ sock = [id \in ConIds |-> <<>>] /\ replies = [id \in ConIds |-> <<>>]
  /\ sent = [id \in ConIds |-> 0] /\ wrote = [id \in ConIds |-> 0]
  /\ got = [id \in ConIds |-> <<>>] /\ given = [id \in ConIds |-> <<>>]

Programs == ProgramExits \/ \E id \in ConIds : ProgramWrites(id) \/ ProgramCloses(id)

ServerLoop == HandleNewRead \/ HandleData \/ HandleExit \/ ClientGone

ClientLoop == \/ HandleConnect \/ HandlePayload \/ HandleClose \/ HandleExited
              \/ ServerGone \/ SendData \/ MasterEnded

Tasks == \E id \in ConIds : ReadTask(id) \/ StreamedTo(id)

Next == \/ Programs \/ HandleNewConnection \/ ServerLoop \/ ClientLoop \/ Tasks
        \/ MasterEnds \/ \E id \in ConIds : MasterWrites(id)

Spec == Init /\ [][Next]_vars

-----------------------------------------------------------------------------
(* Properties.                                                             *)

Numbers(n) == [i \in 1 .. n |-> i]

\* Each end of a connection is given what the other one wrote to that same
\* connection, in order and without gaps, however the connections interleave.
StreamsInOrder ==
  \A id \in ConIds : /\ IsPrefix(given[id], Numbers(sent[id]))
                   /\ IsPrefix(got[id], Numbers(wrote[id]))

\* Each end knows the connections as the other one told of them.  No event that
\* reaches the demuxer names an id that is taken or that does not exist, so only
\* a terminal that is gone makes it refuse one; and the server fails on data
\* only because a program has closed its connection while an answer was on its
\* way, never on data for one that is open.
NoIdIsUnknown ==
  /\ client = "rejected" => master = "ended"
  /\ server = "failed" => peer[Head(toServer).id] = "closed"

\* However a session ends, at whichever end, the other end ends too and bash
\* does not outlive it; and bash does not exit unnoticed.
SessionEndsTogether ==
  (proc # "running" \/ server # "running" \/ client # "running")
    ~> (proc # "running" /\ server # "running" /\ client # "running")
=============================================================================
