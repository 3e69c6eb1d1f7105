--------------------------- MODULE ReliableStream ---------------------------
(***************************************************************************)
(* What the UDP connection promises the two applications: two independent  *)
(* byte streams.  The bytes a peer reads are the bytes the other wrote, in *)
(* order, each once; what was written but not read may be lost, and only   *)
(* when the connection ends.  UdpConnection implements this specification. *)
(***************************************************************************)
EXTENDS Naturals, Sequences

CONSTANT Peers

VARIABLES
  written,    \* how many bytes each peer wrote: they are the bytes 1 .. written
  delivered,  \* the bytes each peer read
  ended       \* the peers for which the connection has ended

Other(p) == CHOOSE q \in Peers : q # p

Init ==
  /\ written = [p \in Peers |-> 0]
  /\ delivered = [p \in Peers |-> <<>>]
  /\ ended = {}

\* The connection takes over some more bytes of p.
Accept(p) ==
  /\ p \notin ended
  /\ written'[p] \in Nat /\ written'[p] > written[p]
  /\ written' = [written EXCEPT ![p] = written'[p]]
  /\ UNCHANGED <<delivered, ended>>

\* The next n bytes reach p.
Deliver(p) ==
  /\ p \notin ended
  /\ \E n \in 1 .. written[Other(p)] - Len(delivered[p]) :
       delivered' = [delivered EXCEPT ![p] =
                       @ \o [i \in 1 .. n |-> Len(@) + i]]
  /\ UNCHANGED <<written, ended>>

\* An end that has ended stays so.
Finish(p) ==
  /\ p \notin ended
  /\ ended' = ended \cup {p}
  /\ UNCHANGED <<written, delivered>>

Next == \E p \in Peers : Accept(p) \/ Deliver(p) \/ Finish(p)

vars == <<written, delivered, ended>>

Spec == Init /\ [][Next]_vars
=============================================================================
