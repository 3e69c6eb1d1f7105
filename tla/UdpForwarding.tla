--------------------------- MODULE UdpForwarding ---------------------------
(***************************************************************************)
(* Forwarding of datagrams (UDP bindings of network.rs), with what lies    *)
(* between the two NetworkPeers: on each side a bounded channel to the     *)
(* shell's loop and one from it, and a tunnel that holds a bounded number  *)
(* of messages.  A NetworkPeer waits inside its loop for room in its       *)
(* channel, and so does the shell's loop for the other channel and for the *)
(* tunnel.                                                                 *)
(*                                                                         *)
(* A session forwards TCP, as PortForwarding has it, or UDP, one binding.  *)
(* Datagrams are numbered on each side as they reach its socket.           *)
(***************************************************************************)
EXTENDS PortForwarding

CONSTANTS
  LocalSide,     \* the side that binds the local address
  Apps,          \* who sends to the address it binds
  ChannelSize,   \* the 100 messages a channel holds
  TunnelSize,    \* the messages the tunnel holds in each direction
  MaxDatagrams,  \* bound: what reaches each socket
  LargeDatagrams \* the numbers of those that fit no message of the tunnel

ASSUME UdpAssumption ==
  /\ LocalSide \in Sides
  /\ {ChannelSize, TunnelSize} \subseteq Nat \ {0} /\ MaxDatagrams \in Nat
  /\ LargeDatagrams \subseteq 1 .. MaxDatagrams

VARIABLES
  protocol,
  peer,              \* NetworkPeer::run of each side, or that it has ended
  loop,              \* the shell's loop
  offered,           \* what the NetworkPeer waits to send
  carried,           \* what the loop waits to write or to pass on
  tx, rx,            \* the channels of the NetworkPeer
  tunnel,            \* what is on its way to each side
  bound,             \* the sides whose setup_binding has succeeded
  last_peer_addr, pending_payloads,
  socket,            \* what the NetworkPeer has not read from its socket
  arrived,           \* history: how much has reached the socket
  given              \* history: what was sent from it, and to whom

channelVars == <<loop, carried, rx, tunnel>>
bindingVars == <<bound, last_peer_addr, pending_payloads>>
socketVars  == <<socket, arrived, given>>
udpVars     == <<peer, offered, tx, channelVars, bindingVars, socketVars>>
allVars     == <<vars, protocol, udpVars>>

None == "none"
Nothing == [type |-> None]
Datagram(n) == [type |-> "UdpSend", payload |-> n]
Notice == [type |-> "Notice"]
Target == "target"

Offers(s, m) ==
  /\ offered' = [offered EXCEPT ![s] = m]
  /\ peer' = [peer EXCEPT ![s] = "sending"]

-----------------------------------------------------------------------------
(* The NetworkPeer.                                                        *)

\* Bound: MaxDatagrams.
DatagramArrives(s) ==
  /\ s \in bound /\ arrived[s] < MaxDatagrams
  /\ \E from \in IF s = LocalSide THEN Apps ELSE {Target} :
       socket' = [socket EXCEPT ![s] =
                    Append(@, [from |-> from, payload |-> arrived[s] + 1])]
  /\ arrived' = [arrived EXCEPT ![s] = @ + 1]
  /\ UNCHANGED <<peer, offered, tx, channelVars, bindingVars, given>>

SentTo(to, payloads) == [i \in DOMAIN payloads |-> [to |-> to, payload |-> payloads[i]]]

\* Mutant: what waited for a peer is sent to every peer that comes.
ReadKeepsPending(s) ==
  /\ peer[s] = "running" /\ socket[s] # <<>>
  /\ socket' = [socket EXCEPT ![s] = Tail(@)]
  /\ LET from == Head(socket[s]).from
     IN IF s = LocalSide
        THEN /\ last_peer_addr' = from
             /\ given' = [given EXCEPT ![s] = @ \o SentTo(from, pending_payloads)]
        ELSE UNCHANGED <<last_peer_addr, given>>
  /\ Offers(s, Datagram(Head(socket[s]).payload))
  /\ UNCHANGED <<pending_payloads, bound, tx, channelVars, arrived>>

\* handle_udp_read: whoever sent to the local address is answered from now on,
\* and first with what has waited for somebody.
HandleUdpRead(s) ==
  /\ peer[s] = "running" /\ socket[s] # <<>>
  /\ socket' = [socket EXCEPT ![s] = Tail(@)]
  /\ LET from == Head(socket[s]).from
     IN IF s = LocalSide
        THEN /\ last_peer_addr' = from /\ pending_payloads' = <<>>
             /\ given' = [given EXCEPT ![s] = @ \o SentTo(from, pending_payloads)]
        ELSE UNCHANGED <<last_peer_addr, pending_payloads, given>>
  /\ Offers(s, Datagram(Head(socket[s]).payload))
  /\ UNCHANGED <<bound, tx, channelVars, arrived>>

\* A send_to of what has waited fails: the error ends NetworkPeer::run.
FlushFails(s) ==
  /\ s = LocalSide /\ peer[s] = "running"
  /\ socket[s] # <<>> /\ pending_payloads # <<>>
  /\ socket' = [socket EXCEPT ![s] = Tail(@)]
  /\ last_peer_addr' = Head(socket[s]).from /\ pending_payloads' = <<>>
  /\ \E n \in 0 .. Len(pending_payloads) - 1 :
       given' = [given EXCEPT ![s] =
                   @ \o SentTo(last_peer_addr', SubSeq(pending_payloads, 1, n))]
  /\ peer' = [peer EXCEPT ![s] = "dead"]
  /\ UNCHANGED <<offered, bound, tx, channelVars, arrived>>

\* tx.send, awaited inside the loop.
PeerSends(s) ==
  /\ peer[s] = "sending" /\ loop[s] # "ended" /\ Len(tx[s]) < ChannelSize
  /\ tx' = [tx EXCEPT ![s] = Append(@, offered[s])]
  /\ offered' = [offered EXCEPT ![s] = Nothing]
  /\ peer' = [peer EXCEPT ![s] = "running"]
  /\ UNCHANGED <<channelVars, bindingVars, socketVars>>

Receives(s) ==
  /\ peer[s] = "running" /\ rx[s] # <<>>
  /\ rx' = [rx EXCEPT ![s] = Tail(@)]
  /\ UNCHANGED <<tx, loop, carried, tunnel, bound, last_peer_addr, socket,
                 arrived>>

\* handle_udp_payload: a send_to that fails loses the datagram only.
HandleUdpPayload(s) ==
  LET to == IF s = LocalSide THEN last_peer_addr ELSE Target
  IN /\ Receives(s) /\ Head(rx[s]).type = "UdpSend"
     /\ IF s \notin bound
        THEN Offers(s, Notice) /\ UNCHANGED <<pending_payloads, given>>
        ELSE /\ UNCHANGED <<peer, offered>>
             /\ IF to = None
                THEN /\ pending_payloads' = Append(pending_payloads, Head(rx[s]).payload)
                     /\ UNCHANGED given
                ELSE /\ \E where \in {to, "lost"} :
                          given' = [given EXCEPT ![s] =
                                      @ \o SentTo(where, <<Head(rx[s]).payload>>)]
                     /\ UNCHANGED pending_payloads

HandleNotice(s) ==
  /\ Receives(s) /\ Head(rx[s]).type = "Notice"
  /\ UNCHANGED <<peer, offered, pending_payloads, given>>

-----------------------------------------------------------------------------
(* The shell's loop, on either side.                                       *)

\* The network_peer_rx branch.
TakeFromPeer(s) ==
  /\ loop[s] = "selecting" /\ tx[s] # <<>>
  /\ loop' = [loop EXCEPT ![s] = "writing"]
  /\ carried' = [carried EXCEPT ![s] = Head(tx[s])]
  /\ tx' = [tx EXCEPT ![s] = Tail(@)]
  /\ UNCHANGED <<peer, offered, rx, tunnel, bindingVars, socketVars>>

Selects(s) ==
  /\ loop' = [loop EXCEPT ![s] = "selecting"]
  /\ carried' = [carried EXCEPT ![s] = Nothing]
  /\ UNCHANGED <<peer, offered, tx, bindingVars, socketVars>>

Serialises(m) == m.type = "UdpSend" => m.payload \notin LargeDatagrams

WriteTunnel(s) ==
  /\ loop[s] = "writing" /\ Serialises(carried[s])
  /\ Len(tunnel[Far(s)]) < TunnelSize
  /\ tunnel' = [tunnel EXCEPT ![Far(s)] = Append(@, carried[s])]
  /\ Selects(s) /\ UNCHANGED rx

\* The Network branch.
TakeFromTunnel(s) ==
  /\ loop[s] = "selecting" /\ tunnel[s] # <<>>
  /\ loop' = [loop EXCEPT ![s] = "passing"]
  /\ carried' = [carried EXCEPT ![s] = Head(tunnel[s])]
  /\ tunnel' = [tunnel EXCEPT ![s] = Tail(@)]
  /\ UNCHANGED <<peer, offered, tx, rx, bindingVars, socketVars>>

\* Mutant: the channel hands over only to a NetworkPeer that waits for it.
PassWhenAwaited(s) ==
  /\ loop[s] = "passing"
  /\ \/ /\ peer[s] = "running" /\ Len(rx[s]) < ChannelSize
        /\ rx' = [rx EXCEPT ![s] = Append(@, carried[s])]
     \/ peer[s] = "dead" /\ UNCHANGED rx
  /\ Selects(s) /\ UNCHANGED tunnel

\* network_peer_tx.send; that it fails when nobody receives is ignored.
PassToPeer(s) ==
  /\ loop[s] = "passing"
  /\ \/ /\ peer[s] # "dead" /\ Len(rx[s]) < ChannelSize
        /\ rx' = [rx EXCEPT ![s] = Append(@, carried[s])]
     \/ peer[s] = "dead" /\ UNCHANGED rx
  /\ Selects(s) /\ UNCHANGED tunnel

\* A datagram of up to 65535 bytes was read, a message holds 32767: the error of
\* the write ends the loop, and the session.  The loop of the other side ends
\* when it has read what came before or writes once more.
LoopEnds(s) ==
  /\ \/ loop[s] = "writing" /\ ~Serialises(carried[s])
     \/ /\ loop[Far(s)] = "ended"
        /\ loop[s] = "writing" \/ (loop[s] = "selecting" /\ tunnel[s] = <<>>)
  /\ loop' = [loop EXCEPT ![s] = "ended"]
  /\ UNCHANGED <<peer, offered, carried, tx, rx, tunnel, bindingVars, socketVars>>

\* Both ends of the channels that the loop held are gone.
PeerEnds(s) ==
  /\ loop[s] = "ended"
  /\ peer[s] = "sending" \/ (peer[s] = "running" /\ rx[s] = <<>>)
  /\ peer' = [peer EXCEPT ![s] = "ended"]
  /\ UNCHANGED <<offered, tx, channelVars, bindingVars, socketVars>>

-----------------------------------------------------------------------------

\* setup_binding: a name that does not resolve or an address that cannot be bound
\* leaves a side without its binding, which it announces to the other side.
UdpInit ==
  /\ bound \in SUBSET Sides
  /\ peer = [s \in Sides |-> IF s \in bound THEN "running" ELSE "sending"]
  /\ offered = [s \in Sides |-> IF s \in bound THEN Nothing ELSE Notice]
  /\ loop = [s \in Sides |-> "selecting"] /\ carried = [s \in Sides |-> Nothing]
  /\ tx = [s \in Sides |-> <<>>] /\ rx = [s \in Sides |-> <<>>]
  /\ tunnel = [s \in Sides |-> <<>>]
  /\ last_peer_addr = None /\ pending_payloads = <<>>
  /\ socket = [s \in Sides |-> <<>>] /\ given = [s \in Sides |-> <<>>]
  /\ arrived = [s \in Sides |-> 0]

Peer(s) ==
  HandleUdpRead(s) \/ PeerSends(s) \/ HandleUdpPayload(s) \/ HandleNotice(s)
  \/ PeerEnds(s)
Loop(s) == TakeFromPeer(s) \/ WriteTunnel(s) \/ TakeFromTunnel(s) \/ PassToPeer(s)
           \/ LoopEnds(s)

UdpNext == \E s \in Sides : DatagramArrives(s) \/ FlushFails(s) \/ Peer(s) \/ Loop(s)

ForwardingInit ==
  /\ protocol \in {"tcp", "udp"}
  /\ Init /\ UdpInit
  /\ protocol = "tcp" => bound = {}

ForwardingNext ==
  \/ protocol = "tcp" /\ Next /\ UNCHANGED <<protocol, udpVars>>
  \/ protocol = "udp" /\ UdpNext /\ UNCHANGED <<protocol, vars>>

\* The tasks of both sides run; datagrams need not come.
ForwardingSpec ==
  /\ ForwardingInit /\ [][ForwardingNext]_allVars
  /\ \A s \in Sides :
       /\ WF_allVars(protocol = "udp" /\ Peer(s) /\ UNCHANGED <<protocol, vars>>)
       /\ WF_allVars(protocol = "udp" /\ Loop(s) /\ UNCHANGED <<protocol, vars>>)

-----------------------------------------------------------------------------
(* Properties.                                                             *)

Payloads(ms) ==
  FlattenSeq([i \in DOMAIN ms |->
    IF ms[i].type = "UdpSend" THEN <<ms[i].payload>> ELSE <<>>])
SentOn(s) == [i \in DOMAIN given[s] |-> given[s][i].payload]
Carried(s, doing) == IF loop[s] = doing THEN <<carried[s]>> ELSE <<>>
Over == \E s \in Sides : peer[s] = "dead" \/ loop[s] = "ended"

\* What s has read and the far side has not handled, the oldest first.
InTransit(s) ==
  LET f == Far(s)
  IN Payloads(rx[f] \o Carried(f, "passing") \o tunnel[f]
                \o Carried(s, "writing") \o tx[s] \o <<offered[s]>>)
Waiting(s) == IF Far(s) = LocalSide THEN pending_payloads ELSE <<>>

\* Every datagram that was read is sent on once, in order, is on its way in one
\* place, or waits for somebody to be sent to: nothing is lost or repeated on
\* its way through the two NetworkPeers, their loops and four channels, as long
\* as both run.
DatagramsInOrder ==
  \A s \in Sides :
    LET read == [i \in 1 .. arrived[s] - Len(socket[s]) |-> i]
    IN IF Over \/ bound # Sides THEN IsPrefix(SentOn(Far(s)), read)
       ELSE SentOn(Far(s)) \o Waiting(s) \o InTransit(s) = read

\* A NetworkPeer waits for room in the channel its shell's loop drains, while
\* that loop waits for room in the channel the NetworkPeer drains; or both
\* loops wait for room in the tunnel, which neither of them reads.
LocalDeadlock(s) ==
  /\ peer[s] = "sending" /\ Len(tx[s]) = ChannelSize
  /\ loop[s] = "passing" /\ Len(rx[s]) = ChannelSize
TunnelDeadlock ==
  \A s \in Sides : loop[s] = "writing" /\ Len(tunnel[s]) = TunnelSize

\* What was read is sent on or waits for somebody to be sent to, unless the
\* NetworkPeer that is to do so or the session has ended, or full channels have
\* stopped it: nothing else makes the loops wait for each other.  Once the
\* session has ended both loops and both NetworkPeers end.
DatagramsAreForwarded ==
  \A s \in Sides :
    (InTransit(s) # <<>> \/ loop[s] = "ended") ~>
      \/ InTransit(s) = <<>> /\ loop[s] # "ended"
      \/ peer[Far(s)] \in {"dead", "ended"} \/ TunnelDeadlock
      \/ \E t \in Sides : LocalDeadlock(t)
=============================================================================
