-------------------------- MODULE MCUdpConnection --------------------------
(* Small instances of UdpConnection. *)
EXTENDS UdpConnection, TLC

CONSTANTS a, b

MCPeers == {a, b}

Writes(m, n) == a :> m @@ b :> n

\* Two bytes one way over a network with two faults, or traffic both ways over
\* one without, with an orderly end at one side and a timeout at the other.
FaultsOrClose ==
  {[quota |-> Writes(2, 0), faults |-> 2, close |-> {}, timeout |-> {a}],
   [quota |-> Writes(1, 1), faults |-> 0, close |-> {b}, timeout |-> {a}]}

OneFault ==
  {[quota |-> Writes(2, 0), faults |-> 1, close |-> {}, timeout |-> {}]}

ThreeBytes ==
  {[quota |-> Writes(3, 0), faults |-> 1, close |-> {}, timeout |-> {}]}

\* Far from the end of the number range, and about to pass it: the second of two
\* packets of one byte straddles the wrap-around.
FarFromWrap == a :> 1 @@ b :> 5
AtWrap == a :> 27 @@ b :> 5
=============================================================================
