---------------------------- MODULE UdpLifecycle ----------------------------
(***************************************************************************)
(* How an established UDP connection ends on one side (connection.rs and   *)
(* orchestrator.rs): the application's task polling reads and the shutdown,*)
(* the task that runs the receive and the send loop, the resend timers'    *)
(* threads, and the mutex they share.  try_disconnect only tries to take   *)
(* it; wakers are what a pending call waits for.                           *)
(***************************************************************************)
EXTENDS Naturals

CONSTANT MaxCollisions  \* bound: how often try_lock finds the mutex taken

VARIABLES
  con,          \* UdpConnectionState: "Connected" or "Disconnected"
  wrapper,      \* the State of UdpConnection
  lock,         \* who holds the mutex: "nobody", "application", "timer"
  app,          \* where the application's task is
  available,    \* whether the reassembled buffer has bytes
  recv_waker,   \* the application's waker is in recv_wakers
  close_waker,  \* the application's waker is in close_wakers
  close_event,  \* SendEvent::Close is in the channel
  recv_loop, send_loop,  \* "running", "ending", "ended"
  recv_term, send_term,  \* a message for the loop's terminator channel
  collisions

appVars  == <<wrapper, app, available>>
wakers   == <<recv_waker, close_waker>>
taskVars == <<recv_loop, send_loop, recv_term, send_term>>
lifecycleVars ==
  <<con, lock, appVars, wakers, close_event, taskVars, collisions>>

\* What waking the task does to a pending call: it is polled again.
Woken(pc) == CASE pc = "read_pending" -> "idle"
               [] pc = "shutdown_pending" -> "shutdown_woken"
               [] OTHER -> pc

\* set_state_disconnected and wake_recv_tasks, if the mutex can be had.
TryDisconnect ==
  \/ /\ lock = "nobody"
     /\ con' = "Disconnected"
     /\ recv_waker' = FALSE
     /\ close_waker' = IF con = "Connected" THEN FALSE ELSE close_waker
     /\ app' = IF \/ recv_waker /\ app = "read_pending"
                  \/ close_waker /\ con = "Connected"
               THEN Woken(app) ELSE app
     /\ collisions' = collisions
  \/ /\ lock # "nobody"
     /\ collisions < MaxCollisions /\ collisions' = collisions + 1
     /\ UNCHANGED <<con, wakers, app>>

-----------------------------------------------------------------------------
(* The application's task.                                                 *)

\* poll_read first asks is_connected, which takes and releases the mutex.
PollRead ==
  /\ app = "idle" /\ lock = "nobody"
  /\ app' = IF wrapper = "Running" /\ con = "Connected"
            THEN "read_checked" ELSE "failed"
  /\ UNCHANGED <<con, wrapper, lock, available, wakers, close_event, taskVars,
                 collisions>>

\* Then it takes the mutex again ...
ReadLock ==
  /\ app = "read_checked" /\ lock = "nobody"
  /\ lock' = "application" /\ app' = "reading"
  /\ UNCHANGED <<con, wrapper, available, wakers, close_event, taskVars,
                 collisions>>

\* ... and returns what there is or leaves its waker.
ReadBody ==
  /\ app = "reading"
  /\ lock' = "nobody"
  /\ \/ available /\ app' = "idle" /\ available' = FALSE /\ UNCHANGED wakers
     \/ ~available /\ app' = "read_pending" /\ recv_waker' = TRUE
          /\ UNCHANGED <<available, close_waker>>
  /\ UNCHANGED <<con, wrapper, close_event, taskVars, collisions>>

\* poll_shutdown sends the close event before it takes the mutex.
PollShutdown ==
  /\ app \in {"idle", "read_pending"} /\ wrapper = "Running"
  /\ wrapper' = "Stopping" /\ app' = "shutdown_sent"
  /\ close_event' = TRUE
  /\ UNCHANGED <<con, lock, available, wakers, taskVars, collisions>>

ShutdownRegister ==
  /\ app = "shutdown_sent" /\ lock = "nobody"
  /\ close_waker' = TRUE
  /\ wrapper' = "Disconnecting" /\ app' = "shutdown_pending"
  /\ UNCHANGED <<con, lock, available, recv_waker, close_event, taskVars,
                 collisions>>

\* Polled again, poll_shutdown is done: is_connected is FALSE in this State.
ShutdownDone ==
  /\ app = "shutdown_woken"
  /\ wrapper' = "Disconnected" /\ app' = "closed"
  /\ UNCHANGED <<con, lock, available, wakers, close_event, taskVars,
                 collisions>>

\* The connection is dropped: Drop of the orchestrator stops the loops.
DropConnection ==
  /\ app \in {"idle", "read_pending", "shutdown_pending", "closed", "failed"}
  /\ \/ lock = "nobody" /\ con' = "Disconnected" /\ collisions' = collisions
     \/ lock # "nobody" /\ collisions < MaxCollisions
          /\ collisions' = collisions + 1 /\ con' = con
  /\ wrapper' = "Dropped" /\ app' = "gone"
  /\ recv_waker' = FALSE /\ close_waker' = FALSE
  /\ recv_term' = TRUE /\ send_term' = TRUE
  /\ UNCHANGED <<lock, available, close_event, recv_loop, send_loop>>

ApplicationTask == \/ PollRead \/ ReadLock \/ ReadBody \/ PollShutdown
                   \/ ShutdownRegister \/ ShutdownDone \/ DropConnection

\* A resend timer, or any other holder on another thread.
TimerLock ==
  /\ lock = "nobody" /\ lock' = "timer"
  /\ UNCHANGED <<con, appVars, wakers, close_event, taskVars, collisions>>

TimerUnlock ==
  /\ lock = "timer" /\ lock' = "nobody"
  /\ UNCHANGED <<con, appVars, wakers, close_event, taskVars, collisions>>

-----------------------------------------------------------------------------
(* The loops.  Each looks at the connection's state before it waits.       *)

LoopState == IF con = "Connected" THEN "running" ELSE "ending"

ReceivePacket ==
  /\ recv_loop = "running" /\ lock = "nobody"
  /\ available' = TRUE
  /\ recv_waker' = FALSE
  /\ app' = IF recv_waker /\ app = "read_pending" THEN Woken(app) ELSE app
  /\ recv_loop' = LoopState
  /\ UNCHANGED <<con, wrapper, lock, close_waker, close_event, send_loop,
                 recv_term, send_term, collisions>>

\* A close packet, or nothing for recv_timeout.
ReceiveCloseOrTimeout ==
  /\ recv_loop = "running"
  /\ TryDisconnect
  /\ recv_loop' = "ending"
  /\ UNCHANGED <<wrapper, lock, available, close_event, send_loop, recv_term,
                 send_term>>

\* The socket fails, another packet type comes, or the terminator speaks.
ReceiveBreaks ==
  /\ recv_loop = "running"
  /\ recv_loop' = "ending"
  /\ UNCHANGED <<con, lock, appVars, wakers, close_event, send_loop,
                 recv_term, send_term, collisions>>

\* Mutant: the receive loop leaves the connection as it is.
RecvLoopEndsQuietly ==
  /\ recv_loop = "ending"
  /\ recv_loop' = "ended" /\ send_term' = TRUE
  /\ UNCHANGED <<con, lock, appVars, wakers, close_event, send_loop,
                 recv_term, collisions>>

RecvLoopEnds ==
  /\ recv_loop = "ending"
  /\ TryDisconnect
  /\ recv_loop' = "ended" /\ send_term' = TRUE
  /\ UNCHANGED <<wrapper, lock, available, close_event, send_loop, recv_term>>

\* handle_send_packet on the close packet the event asks for.
SendClose ==
  /\ send_loop = "running" /\ close_event
  /\ close_event' = FALSE
  /\ TryDisconnect
  /\ send_loop' = IF con' = "Connected" THEN "running" ELSE "ending"
  /\ UNCHANGED <<wrapper, lock, available, recv_loop, recv_term, send_term>>

\* A data packet or a keep-alive went out, and the loop looks again.
SendOther ==
  /\ send_loop = "running" /\ con = "Disconnected"
  /\ send_loop' = "ending"
  /\ UNCHANGED <<con, lock, appVars, wakers, close_event, recv_loop,
                 recv_term, send_term, collisions>>

\* The socket fails or the terminator speaks.
SendBreaks ==
  /\ send_loop = "running"
  /\ send_loop' = "ending"
  /\ UNCHANGED <<con, lock, appVars, wakers, close_event, recv_loop,
                 recv_term, send_term, collisions>>

\* Mutant: the send loop does not stop the receive loop.
SendLoopEndsAlone ==
  /\ send_loop = "ending"
  /\ TryDisconnect
  /\ send_loop' = "ended"
  /\ UNCHANGED <<wrapper, lock, available, close_event, recv_loop, recv_term,
                 send_term>>

SendLoopEnds ==
  /\ send_loop = "ending"
  /\ TryDisconnect
  /\ send_loop' = "ended" /\ recv_term' = TRUE
  /\ UNCHANGED <<wrapper, lock, available, close_event, recv_loop, send_term>>

\* Breaking on the terminator is the one break that has to happen.
RecvTerminated == recv_term /\ ReceiveBreaks
SendTerminated == send_term /\ SendBreaks

Loops == \/ ReceivePacket \/ ReceiveCloseOrTimeout \/ ReceiveBreaks
         \/ RecvLoopEnds \/ SendClose \/ SendOther \/ SendBreaks \/ SendLoopEnds

-----------------------------------------------------------------------------

LifecycleInit ==
  /\ con = "Connected" /\ wrapper = "Running" /\ lock = "nobody"
  /\ app = "idle" /\ available = FALSE
  /\ recv_waker = FALSE /\ close_waker = FALSE /\ close_event = FALSE
  /\ recv_loop = "running" /\ send_loop = "running"
  /\ recv_term = FALSE /\ send_term = FALSE
  /\ collisions = 0

LifecycleNext == ApplicationTask \/ TimerLock \/ TimerUnlock \/ Loops

LifecycleSpec == LifecycleInit /\ [][LifecycleNext]_lifecycleVars

-----------------------------------------------------------------------------
(* Properties.                                                             *)

\* When both loops are gone the connection is marked disconnected, so that
\* reads and writes fail instead of going nowhere: a single collision on the
\* mutex, which makes one try_disconnect do nothing, is made up for by another.
\* (It takes two collisions to leave an ended connection connected.)
EndedIsDisconnected ==
  recv_loop = "ended" /\ send_loop = "ended"
    => con = "Disconnected" \/ collisions >= 2

\* Neither loop outlives the other: whichever ends first stops the other one,
\* also when nothing is ever received or sent again.
LoopsEndTogether ==
  (recv_loop = "ended" \/ send_loop = "ended")
    ~> (recv_loop = "ended" /\ send_loop = "ended")

=============================================================================
