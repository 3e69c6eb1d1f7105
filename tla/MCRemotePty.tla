---------------------------- MODULE MCRemotePty ----------------------------
(***************************************************************************)
(* The two stages of a remote PTY shell in one small instance: starting it *)
(* (RemotePtyStart) and streaming through it (RemotePty).  A behaviour is  *)
(* a behaviour of one of them, the other stays as it starts.               *)
(***************************************************************************)
EXTENDS RemotePtyStart, RemotePty

VARIABLE stage

stageVars == <<stage, startVars, vars>>

StageInit == stage \in {"starting", "streaming"} /\ StartInit /\ Init

Starts(A) == stage = "starting" /\ A /\ UNCHANGED <<stage, vars>>
Streams(A) == stage = "streaming" /\ A /\ UNCHANGED <<stage, startVars>>

StageNext == Starts(StartNext) \/ Streams(Next)

\* Nothing is asked of a start.  The two loops of a session run: no program has
\* to write, to close or to exit, and the library need not answer.
StageSpec ==
  /\ StageInit /\ [][StageNext]_stageVars
  /\ WF_stageVars(Streams(ServerLoop)) /\ WF_stageVars(Streams(ClientLoop))
=============================================================================
