---------------------------- MODULE MCUdpStages ----------------------------
(***************************************************************************)
(* The three stages of a UDP connection in one small instance: opening it  *)
(* (UdpNegotiation), transferring over it (UdpConnection) and ending it    *)
(* (UdpLifecycle).  A behaviour is a behaviour of one of them, while the   *)
(* others stay in their initial states: ConnectedPeersAgree says that      *)
(* opening ends where transferring begins.                                 *)
(***************************************************************************)
EXTENDS MCUdpConnection, UdpLifecycle

CONSTANTS Master, SyncSeqs, MaxFaults

VARIABLES
  stage,
  opening, open_sequence_number, open_ack_number, open_peer_ack_number,
  open_peer_window, open_network, open_faults

openingVars ==
  <<opening, open_sequence_number, open_ack_number, open_peer_ack_number,
    open_peer_window, open_network, open_faults>>
stageVars == <<stage, vars, openingVars, lifecycleVars>>

Opening == INSTANCE UdpNegotiation
  WITH state <- opening, sequence_number <- open_sequence_number,
       ack_number <- open_ack_number, peer_ack_number <- open_peer_ack_number,
       peer_window <- open_peer_window, network <- open_network,
       faults <- open_faults

ASSUME OpeningAssumption == Opening!NegotiationConstants

StageInit ==
  /\ stage \in {"opening", "transferring", "ending"}
  /\ Opening!Init /\ Init /\ LifecycleInit

Opens(A) ==
  stage = "opening" /\ A /\ UNCHANGED <<stage, vars, lifecycleVars>>
Transfers(A) ==
  stage = "transferring" /\ A /\ UNCHANGED <<stage, openingVars, lifecycleVars>>
Ends(A) == stage = "ending" /\ A /\ UNCHANGED <<stage, vars, openingVars>>

StageNext == Opens(Opening!Next) \/ Transfers(Next) \/ Ends(LifecycleNext)

\* The fairness of UdpConnection for a transfer; what is received, and the
\* timeout for want of it, when opening; and the steps that a loop which has
\* ended needs of the other one, when ending.
StageFair ==
  /\ \A p \in Peers :
       /\ WF_stageVars(Transfers(Read(p))) /\ WF_stageVars(Transfers(Post(p)))
       /\ WF_stageVars(Transfers(Receive(p)))
       /\ WF_stageVars(Transfers(\/ TakeUpdate(p) \/ TakePacket(p)
                                 \/ TakeClose(p) \/ MakeUpdatePacket(p)))
       /\ WF_stageVars(Transfers(SendPacket(p)))
       /\ SF_stageVars(Transfers(KeepAlive(p)))
       /\ WF_stageVars(Transfers(ResendTimer(p)))
       /\ WF_stageVars(Transfers(ScheduleResend(p)))
       /\ WF_stageVars(Opens(Opening!ReceiveConnected(p)))
       /\ WF_stageVars(Opens(Opening!RecvTimeout(p)))
  /\ WF_stageVars(Ends(TimerUnlock)) /\ WF_stageVars(Ends(ReadBody))
  /\ WF_stageVars(Ends(RecvTerminated))
  /\ WF_stageVars(Ends(SendTerminated))
  /\ SF_stageVars(Ends(RecvLoopEnds))
  /\ SF_stageVars(Ends(SendLoopEnds))

StageSpec == StageInit /\ [][StageNext]_stageVars /\ StageFair

\* The properties of UdpNegotiation, by their own names.
ConnectedPeersAgree == Opening!ConnectedPeersAgree
HalfOpenEnds == Opening!HalfOpenEnds
=============================================================================
