-------------------------- MODULE Forwarding_proofs --------------------------
(***************************************************************************)
(* Proofs about the forwarding of TCP connections and of datagrams         *)
(* (PortForwarding and UdpForwarding).                                     *)
(*                                                                         *)
(* All connections share the shell's stream.  The proof takes them apart:  *)
(* for every connection id there are two sequences, what is on its way for *)
(* it to either side (Part), and the connection is at one of six stages,   *)
(* which say what these sequences hold and what the two NetworkPeers and   *)
(* the two applications keep (Stage): not used, asked for, refused, given  *)
(* up, answered, and in use.  In use, what is on its way to a side is the  *)
(* payloads after those that were handled, in order, and then perhaps the  *)
(* close (Carries).  A step is about one connection (About): it takes the  *)
(* first message of its part, or puts one at its end, and leaves the parts *)
(* of all others alone.  The invariant also shows that nothing ever has to *)
(* wait in tcp_pending_writes: the answer is sent before the first payload *)
(* and arrives before it.                                                  *)
(*                                                                         *)
(* Datagrams are forwarded through one chain of channels and tasks in each *)
(* direction.  What a side has read is cut into the stretches that lie at  *)
(* the places of that chain, and a step moves the end of one stretch.      *)
(***************************************************************************)
EXTENDS UdpForwarding, SequenceTheorems, WellFoundedInduction, TLAPS

-----------------------------------------------------------------------------
(* The life of a connection.                                               *)

\* The side that hands the id out.
Owner(id) == IF id % 2 = 1 THEN Client ELSE Server

ConnectOf(id)   == [type |-> "TcpConnect", id |-> id]
AnswerOf(id, b) == [type |-> "TcpConnectResult", id |-> id, connected |-> b]
SendOf(id, n)   == [type |-> "TcpSend", id |-> id, payload |-> n]
CloseOf(id)     == [type |-> "TcpClose", id |-> id]

Msg == {ConnectOf(id) : id \in ConIds} \cup {CloseOf(id) : id \in ConIds}
             \cup {AnswerOf(id, b) : id \in ConIds, b \in BOOLEAN}
             \cup {SendOf(id, n) : id \in ConIds, n \in Nat}

Ended(s, id) == app[s][id] \in {"shut", "closed"}

\* c holds the payloads d + 1 .. n, and then the close if there is one.
Carries(c, id, d, n, close) ==
  /\ d \in Nat /\ n \in Nat /\ d <= n
  /\ Len(c) = (n - d) + (IF close THEN 1 ELSE 0)
  /\ \A i \in 1 .. n - d : c[i] = SendOf(id, d + i)
  /\ close => c[Len(c)] = CloseOf(id)

\* u holds the payloads n + 1 .. w, and then the end if there is one.
Left(u, n, w, end) ==
  /\ n \in Nat /\ w \in Nat /\ n <= w
  /\ Len(u) = (w - n) + (IF end THEN 1 ELSE 0)
  /\ \A i \in 1 .. w - n : u[i] = n + i
  /\ end => u[Len(u)] = Eof

\* What the NetworkPeer has not read is what was written after payload n.
Unread(s, id, n) == Left(unread[s][id], n, written[s][id], Ended(s, id))

\* The side has nothing to do with the connection.
Idle(s, id) ==
  /\ id \notin tcp_pending[s] \cup tcp_connections[s] \cup tcp_reads[s]
  /\ app[s][id] = "none" /\ written[s][id] = 0
  /\ unread[s][id] = <<>> /\ got[s][id] = <<>>

\* It has accepted the connection and waits for the answer.
Asking(s, id) ==
  /\ id \in tcp_pending[s] /\ id \notin tcp_connections[s] \cup tcp_reads[s]
  /\ app[s][id] # "none" /\ got[s][id] = <<>> /\ Unread(s, id, 0)

\* It reads what its application writes, of which it has sent n payloads, or it
\* has read all of it.
Reading(s, id, n) ==
  /\ id \notin tcp_pending[s] /\ app[s][id] # "none"
  /\ IF id \in tcp_reads[s] THEN Unread(s, id, n)
     ELSE /\ id \notin tcp_connections[s] /\ Ended(s, id)
          /\ n = written[s][id] /\ unread[s][id] = <<>>

\* Its application was given what it was sent, up to payload d at most.
Served(s, id, d) ==
  /\ Len(got[s][id]) <= d
  /\ \A i \in 1 .. Len(got[s][id]) : got[s][id][i] = i

\* Everything the far side has sent is on its way or was handled.
Forwards(s, id, c) ==
  \E d, n \in Nat, close \in BOOLEAN :
    /\ Carries(c, id, d, n, close) /\ Reading(Far(s), id, n) /\ Served(s, id, d)
    /\ close => id \notin tcp_reads[Far(s)]
    /\ id \in tcp_connections[s] /\ id \notin tcp_reads[Far(s)] => close
    /\ id \in tcp_connections[s] /\ app[s][id] # "closed" => Len(got[s][id]) = d
    /\ id \notin tcp_connections[s] /\ app[s][id] = "open"
         => id \notin tcp_reads[Far(s)] /\ c = <<>> /\ Len(got[s][id]) = n

\* The stages of connection id of side s; c is what is on its way to s, f what
\* is on its way to the far side.
Unused(s, id, c, f)   == Idle(s, id) /\ Idle(Far(s), id) /\ c = <<>> /\ f = <<>>
Asked(s, id, c, f)   == /\ Asking(s, id) /\ Idle(Far(s), id)
                        /\ c = <<>> /\ f = <<ConnectOf(id)>>
Refused(s, id, c, f) == /\ Asking(s, id) /\ Idle(Far(s), id)
                        /\ c = <<AnswerOf(id, FALSE)>> /\ f = <<>>
Failed(s, id, c, f)    == /\ id \notin tcp_pending[s] \cup tcp_connections[s] \cup tcp_reads[s]
                        /\ app[s][id] = "closed" /\ got[s][id] = <<>>
                        /\ Idle(Far(s), id) /\ c = <<>> /\ f = <<>>
Answered(s, id, c, f) ==
  /\ Asking(s, id) /\ f = <<>> /\ got[Far(s)][id] = <<>>
  /\ app[Far(s)][id] = "open" => id \in tcp_connections[Far(s)]
  /\ c # <<>> /\ Head(c) = AnswerOf(id, TRUE)
  /\ \E n \in Nat : /\ Reading(Far(s), id, n)
                    /\ Carries(Tail(c), id, 0, n, id \notin tcp_reads[Far(s)])
Live(s, id, c, f) == Forwards(s, id, c) /\ Forwards(Far(s), id, f)

Stage(s, id, c, f) ==
  \/ Unused(s, id, c, f) \/ Asked(s, id, c, f) \/ Refused(s, id, c, f)
  \/ Failed(s, id, c, f) \/ Answered(s, id, c, f) \/ Live(s, id, c, f)

\* e says where the l messages of c are among the n of ms.
Embeds(e, ms, n, c, l, id) ==
  /\ e \in [1 .. l -> 1 .. n]
  /\ \A i, j \in 1 .. l : i < j => e[i] < e[j]
  /\ \A i \in 1 .. l : c[i] = ms[e[i]] /\ ms[e[i]].id = id
  /\ \A k \in 1 .. n : ms[k].id = id => \E i \in 1 .. l : e[i] = k

\* c is the part of ms about connection id.
Part(ms, id, c) == \E e : Embeds(e, ms, Len(ms), c, Len(c), id)

\* Of no messages no part is about a connection.
LEMMA PartEmpty ==
  ASSUME NEW id
  PROVE  Part(<<>>, id, <<>>)
<1> DEFINE e == [i \in 1 .. 0 |-> 0]
<1>2. Len(<<>>) = 0
  OBVIOUS
<1>3. Embeds(e, <<>>, 0, <<>>, 0, id)
  BY DEF Embeds
<1>4. QED
  BY <1>2, <1>3 DEF Part

\* A message that is sent goes to the end of what is on its way for its own
\* connection, and of no other (the network_peer_tx of every connection is one).
LEMMA PartAppend ==
  ASSUME NEW ms \in Seq(Msg), NEW c \in Seq(Msg), NEW id, Part(ms, id, c), NEW m \in Msg
  PROVE  /\ m.id = id => Part(Append(ms, m), id, Append(c, m))
         /\ m.id # id => Part(Append(ms, m), id, c)
<1>1. PICK e : Embeds(e, ms, Len(ms), c, Len(c), id)
  BY DEF Part
<1> DEFINE n  == Len(ms)
           l  == Len(c)
           t  == Append(ms, m)
           d  == Append(c, m)
<1>2. /\ n \in Nat /\ l \in Nat /\ Len(t) = n + 1 /\ Len(d) = l + 1
      /\ t[n + 1] = m /\ d[l + 1] = m
      /\ \A i \in 1 .. n : t[i] = ms[i]
      /\ \A i \in 1 .. l : d[i] = c[i]
  OBVIOUS
<1>3. /\ e \in [1 .. l -> 1 .. n]
      /\ \A i, j \in 1 .. l : i < j => e[i] < e[j]
      /\ \A i \in 1 .. l : c[i] = ms[e[i]] /\ ms[e[i]].id = id
      /\ \A k \in 1 .. n : ms[k].id = id => \E i \in 1 .. l : e[i] = k
  BY <1>1 DEF Embeds
<1> HIDE DEF n, l, t, d
<1>4. ASSUME m.id = id PROVE Part(t, id, d)
  <2> DEFINE g == [i \in 1 .. l + 1 |-> IF i = l + 1 THEN n + 1 ELSE e[i]]
  <2>1. /\ g \in [1 .. l + 1 -> 1 .. n + 1]
        /\ g[l + 1] = n + 1 /\ \A i \in 1 .. l : g[i] = e[i] /\ g[i] \in 1 .. n
    BY <1>2, <1>3
  <2> HIDE DEF g
  <2>2. \A i, j \in 1 .. l + 1 : i < j => g[i] < g[j]
    <3> SUFFICES ASSUME NEW i \in 1 .. l + 1, NEW j \in 1 .. l + 1, i < j
                 PROVE  g[i] < g[j]
      OBVIOUS
    <3>1. i \in 1 .. l
      BY <1>2
    <3>2. CASE j = l + 1
      BY <1>2, <2>1, <3>1, <3>2
    <3>3. CASE j # l + 1
      <4>1. j \in 1 .. l
        BY <1>2, <3>3
      <4>2. QED
        BY <1>3, <2>1, <3>1, <4>1
    <3>4. QED
      BY <3>2, <3>3
  <2>3. \A i \in 1 .. l + 1 : d[i] = t[g[i]] /\ t[g[i]].id = id
    <3> SUFFICES ASSUME NEW i \in 1 .. l + 1 PROVE d[i] = t[g[i]] /\ t[g[i]].id = id
      OBVIOUS
    <3>1. CASE i = l + 1
      BY <1>2, <1>4, <2>1, <3>1
    <3>2. CASE i # l + 1
      <4>1. i \in 1 .. l
        BY <1>2, <3>2
      <4>2. /\ d[i] = c[i] /\ g[i] = e[i] /\ g[i] \in 1 .. n
            /\ c[i] = ms[e[i]] /\ ms[e[i]].id = id
        BY <1>2, <1>3, <2>1, <4>1
      <4>3. t[g[i]] = ms[g[i]]
        BY <1>2, <4>2
      <4>4. QED
        BY <4>2, <4>3
    <3>3. QED
      BY <3>1, <3>2
  <2>4. \A k \in 1 .. n + 1 : t[k].id = id => \E i \in 1 .. l + 1 : g[i] = k
    <3> SUFFICES ASSUME NEW k \in 1 .. n + 1, t[k].id = id
                 PROVE  \E i \in 1 .. l + 1 : g[i] = k
      OBVIOUS
    <3>1. CASE k = n + 1
      <4>1. l + 1 \in 1 .. l + 1
        BY <1>2
      <4>2. QED
        BY <2>1, <3>1, <4>1
    <3>2. CASE k # n + 1
      <4>1. k \in 1 .. n
        BY <1>2, <3>2
      <4>2. PICK i \in 1 .. l : e[i] = k
        BY <1>2, <1>3, <4>1
      <4>3. i \in 1 .. l + 1
        BY <1>2
      <4>4. QED
        BY <2>1, <4>2, <4>3
    <3>3. QED
      BY <3>1, <3>2
  <2>5. QED
    <3>1. Embeds(g, t, n + 1, d, l + 1, id)
      BY <2>1, <2>2, <2>3, <2>4, Zenon DEF Embeds
    <3>2. QED
      BY <1>2, <3>1 DEF Part
<1>5. ASSUME m.id # id PROVE Part(t, id, c)
  <2>1. e \in [1 .. l -> 1 .. n + 1] /\ \A i \in 1 .. l : e[i] \in 1 .. n
    <3>1. 1 .. n \subseteq 1 .. n + 1
      BY <1>2
    <3>2. QED
      BY <1>3, <3>1
  <2>2. \A i \in 1 .. l : c[i] = t[e[i]] /\ t[e[i]].id = id
    BY <1>2, <1>3, <2>1
  <2>3. \A k \in 1 .. n + 1 : t[k].id = id => \E i \in 1 .. l : e[i] = k
    <3> SUFFICES ASSUME NEW k \in 1 .. n + 1, t[k].id = id
                 PROVE  \E i \in 1 .. l : e[i] = k
      OBVIOUS
    <3>1. k # n + 1
      BY <1>2, <1>5
    <3>2. k \in 1 .. n
      BY <1>2, <3>1
    <3>3. QED
      BY <1>2, <1>3, <3>2
  <2>4. QED
    <3>1. Embeds(e, t, n + 1, c, l, id)
      BY <1>3, <2>1, <2>2, <2>3, Zenon DEF Embeds
    <3>2. QED
      BY <1>2, <3>1 DEF Part, l
<1>6. QED
  BY <1>4, <1>5 DEF t, d

\* The first message, when it is taken, is the first one on its way for its own
\* connection, and none of any other.
LEMMA PartTail ==
  ASSUME NEW ms \in Seq(Msg), NEW c \in Seq(Msg), NEW id, Part(ms, id, c), ms # <<>>
  PROVE  /\ Head(ms).id = id => /\ c # <<>> /\ Head(c) = Head(ms)
                                /\ Part(Tail(ms), id, Tail(c))
         /\ Head(ms).id # id => Part(Tail(ms), id, c)
<1>1. PICK e : Embeds(e, ms, Len(ms), c, Len(c), id)
  BY DEF Part
<1> DEFINE n  == Len(ms)
           l  == Len(c)
           t  == Tail(ms)
<1>2. /\ n \in Nat /\ n >= 1 /\ l \in Nat /\ Len(t) = n - 1
      /\ Head(ms) = ms[1]
      /\ \A i \in 1 .. n - 1 : t[i] = ms[i + 1]
  OBVIOUS
<1>3. /\ e \in [1 .. l -> 1 .. n]
      /\ \A i, j \in 1 .. l : i < j => e[i] < e[j]
      /\ \A i \in 1 .. l : c[i] = ms[e[i]] /\ ms[e[i]].id = id
      /\ \A k \in 1 .. n : ms[k].id = id => \E i \in 1 .. l : e[i] = k
  BY <1>1 DEF Embeds
<1>4. ASSUME Head(ms).id = id
      PROVE  c # <<>> /\ Head(c) = Head(ms) /\ Part(Tail(ms), id, Tail(c))
  <2>1. PICK i1 \in 1 .. l : e[i1] = 1
    <3>1. 1 \in 1 .. n /\ ms[1].id = id
      BY <1>2, <1>4
    <3>2. QED
      BY <1>3, <3>1
  <2>2. l >= 1 /\ 1 \in 1 .. l
    BY <1>2, <2>1
  <2>3. e[1] = 1
    <3>1. e[1] \in 1 .. n
      BY <1>3, <2>2
    <3>2. CASE i1 = 1
      BY <2>1, <3>2
    <3>3. CASE i1 # 1
      <4>1. 1 < i1
        BY <1>2, <2>1, <3>3
      <4>2. e[1] < e[i1]
        BY <1>3, <2>2, <4>1
      <4>3. QED
        BY <2>1, <3>1, <4>2
    <3>4. QED
      BY <3>2, <3>3
  <2> DEFINE d == Tail(c)
  <2>4. c # <<>> /\ Head(c) = c[1] /\ Len(d) = l - 1 /\ \A i \in 1 .. l - 1 : d[i] = c[i + 1]
    BY <2>2
  <2>5. Head(c) = Head(ms)
    BY <1>2, <1>3, <2>2, <2>3, <2>4
  <2> HIDE DEF n, l, t, d
  <2>6. ASSUME NEW i \in 2 .. l PROVE e[i] \in 2 .. n
    <3>1. i \in 1 .. l /\ 1 < i
      BY <1>2
    <3>2. e[1] < e[i] /\ e[i] \in 1 .. n
      BY <1>3, <2>2, <3>1
    <3>3. QED
      BY <1>2, <2>3, <3>2
  <2> DEFINE g == [i \in 1 .. l - 1 |-> e[i + 1] - 1]
  <2>7. ASSUME NEW i \in 1 .. l - 1
        PROVE  /\ i + 1 \in 1 .. l /\ i + 1 \in 2 .. l /\ e[i + 1] \in 2 .. n
               /\ g[i] = e[i + 1] - 1 /\ g[i] \in 1 .. n - 1 /\ g[i] + 1 = e[i + 1]
    <3>1. i + 1 \in 1 .. l /\ i + 1 \in 2 .. l
      BY <1>2
    <3>2. e[i + 1] \in 2 .. n
      BY <2>6, <3>1
    <3>3. g[i] = e[i + 1] - 1
      OBVIOUS
    <3> DEFINE a == e[i + 1]
               b == g[i]
    <3>4. a \in 2 .. n /\ b = a - 1
      BY <3>2, <3>3
    <3> HIDE DEF a, b, g
    <3>5. b \in 1 .. n - 1 /\ b + 1 = a
      BY <1>2, <3>4
    <3>6. QED
      BY <3>1, <3>2, <3>3, <3>5 DEF a, b
  <2>8. g \in [1 .. l - 1 -> 1 .. n - 1]
    BY <2>7
  <2> HIDE DEF g
  <2>9. \A i, j \in 1 .. l - 1 : i < j => g[i] < g[j]
    <3> SUFFICES ASSUME NEW i \in 1 .. l - 1, NEW j \in 1 .. l - 1, i < j
                 PROVE  g[i] < g[j]
      OBVIOUS
    <3>1. i + 1 < j + 1 /\ i + 1 \in 1 .. l /\ j + 1 \in 1 .. l
      BY <1>2
    <3>2. e[i + 1] < e[j + 1]
      BY <1>3, <3>1
    <3>3. e[i + 1] \in Int /\ e[j + 1] \in Int /\ g[i] = e[i + 1] - 1 /\ g[j] = e[j + 1] - 1
      BY <2>7
    <3>4. QED
      BY <3>2, <3>3
  <2>10. \A i \in 1 .. l - 1 : d[i] = t[g[i]] /\ t[g[i]].id = id
    <3> SUFFICES ASSUME NEW i \in 1 .. l - 1 PROVE d[i] = t[g[i]] /\ t[g[i]].id = id
      OBVIOUS
    <3>1. t[g[i]] = ms[g[i] + 1] /\ g[i] + 1 = e[i + 1] /\ i + 1 \in 1 .. l
      BY <1>2, <2>7
    <3>2. QED
      BY <1>3, <2>4, <3>1
  <2>11. \A k \in 1 .. n - 1 : t[k].id = id => \E i \in 1 .. l - 1 : g[i] = k
    <3> SUFFICES ASSUME NEW k \in 1 .. n - 1, t[k].id = id
                 PROVE  \E i \in 1 .. l - 1 : g[i] = k
      OBVIOUS
    <3>1. k + 1 \in 1 .. n /\ ms[k + 1].id = id /\ k + 1 # 1
      BY <1>2
    <3>2. PICK i \in 1 .. l : e[i] = k + 1
      BY <1>3, <3>1
    <3>3. i # 1
      BY <2>3, <3>1, <3>2
    <3>4. i - 1 \in 1 .. l - 1 /\ (i - 1) + 1 = i
      BY <1>2, <3>3
    <3>5. g[i - 1] = e[i] - 1
      BY <2>7, <3>4
    <3>6. QED
      BY <1>2, <3>2, <3>4, <3>5
  <2>12. Part(t, id, d)
    <3>1. Embeds(g, t, n - 1, d, l - 1, id)
      BY <2>8, <2>9, <2>10, <2>11, Zenon DEF Embeds
    <3>2. QED
      BY <1>2, <2>4, <3>1 DEF Part
  <2>13. QED
    BY <2>4, <2>5, <2>12 DEF t, d
<1>5. ASSUME Head(ms).id # id PROVE Part(Tail(ms), id, c)
  <2> HIDE DEF n, l, t
  <2>1. ASSUME NEW i \in 1 .. l PROVE e[i] \in 2 .. n
    <3>1. e[i] \in 1 .. n /\ ms[e[i]].id = id
      BY <1>3
    <3>2. e[i] # 1
      BY <1>2, <1>5, <3>1
    <3>3. QED
      BY <1>2, <3>1, <3>2
  <2> DEFINE g == [i \in 1 .. l |-> e[i] - 1]
  <2>2. ASSUME NEW i \in 1 .. l
        PROVE  e[i] \in 2 .. n /\ g[i] = e[i] - 1 /\ g[i] \in 1 .. n - 1 /\ g[i] + 1 = e[i]
    <3>1. e[i] \in 2 .. n /\ g[i] = e[i] - 1
      BY <2>1
    <3> DEFINE a == e[i]
               b == g[i]
    <3>2. a \in 2 .. n /\ b = a - 1
      BY <3>1
    <3> HIDE DEF a, b, g
    <3>3. b \in 1 .. n - 1 /\ b + 1 = a
      BY <1>2, <3>2
    <3>4. QED
      BY <3>1, <3>3 DEF a, b
  <2>3. g \in [1 .. l -> 1 .. n - 1]
    BY <2>2
  <2> HIDE DEF g
  <2>4. \A i, j \in 1 .. l : i < j => g[i] < g[j]
    <3> SUFFICES ASSUME NEW i \in 1 .. l, NEW j \in 1 .. l, i < j
                 PROVE  g[i] < g[j]
      OBVIOUS
    <3>1. e[i] < e[j]
      BY <1>3
    <3>2. e[i] \in Int /\ e[j] \in Int /\ g[i] = e[i] - 1 /\ g[j] = e[j] - 1
      BY <2>2
    <3>3. QED
      BY <3>1, <3>2
  <2>5. ASSUME NEW i \in 1 .. l PROVE c[i] = t[g[i]] /\ t[g[i]].id = id
    <3>1. t[g[i]] = ms[g[i] + 1] /\ g[i] + 1 = e[i]
      BY <1>2, <2>2
    <3>2. QED
      BY <1>3, <3>1
  <2>6. \A k \in 1 .. n - 1 : t[k].id = id => \E i \in 1 .. l : g[i] = k
    <3> SUFFICES ASSUME NEW k \in 1 .. n - 1, t[k].id = id
                 PROVE  \E i \in 1 .. l : g[i] = k
      OBVIOUS
    <3>1. k + 1 \in 1 .. n /\ ms[k + 1].id = id
      BY <1>2
    <3>2. PICK i \in 1 .. l : e[i] = k + 1
      BY <1>3, <3>1
    <3>3. g[i] = k
      BY <1>2, <2>2, <3>2
    <3>4. QED
      BY <3>3
  <2>7. QED
    <3>1. Embeds(g, t, n - 1, c, l, id)
      BY <2>3, <2>4, <2>5, <2>6, Zenon DEF Embeds
    <3>2. Part(t, id, c)
      BY <1>2, <3>1 DEF Part, l
    <3>3. QED
      BY <3>2 DEF t
<1>6. QED
  BY <1>4, <1>5

\* What is on its way for id is in the messages, and nothing else is.
LEMMA PartHas ==
  ASSUME NEW ms \in Seq(Msg), NEW c \in Seq(Msg), NEW id, Part(ms, id, c)
  PROVE  /\ \A i \in 1 .. Len(c) : \E k \in 1 .. Len(ms) : ms[k] = c[i]
         /\ (\A k \in 1 .. Len(ms) : ms[k].id # id) => c = <<>>
<1>1. PICK e : Embeds(e, ms, Len(ms), c, Len(c), id)
  BY DEF Part
<1>2. \A i \in 1 .. Len(c) : /\ e[i] \in 1 .. Len(ms)
                             /\ c[i] = ms[e[i]] /\ ms[e[i]].id = id
  BY <1>1 DEF Embeds
<1>3. c # <<>> => 1 \in 1 .. Len(c)
  OBVIOUS
<1>4. QED
  BY <1>2, <1>3

-----------------------------------------------------------------------------
(* The two sides and their types.                                          *)

\* The far side of the far side is the side itself.
LEMMA TwoSides ==
  ASSUME NEW s \in Sides
  PROVE  Far(s) \in Sides /\ Far(s) # s /\ Far(Far(s)) = s
  BY ForwardingAssumption DEF Sides, Far

\* Odd ids are the client's and even ones the server's: NetworkPeer::new starts
\* the counters at 1 and 2, and accepting adds 2.
LEMMA OwnerIsSide ==
  ASSUME NEW id
  PROVE  /\ Owner(id) \in Sides
         /\ \A s \in Sides : s = Owner(id) \/ s = Far(Owner(id))
  BY ForwardingAssumption DEF Sides, Far, Owner

Types ==
  /\ next_tcp_con_id \in [Sides -> Nat]
  /\ next_tcp_con_id[Client] % 2 = 1 /\ next_tcp_con_id[Server] % 2 = 0
  /\ tcp_pending \in [Sides -> SUBSET ConIds]
  /\ tcp_pending_writes \in [Sides -> [ConIds -> Seq(Nat)]]
  /\ tcp_connections \in [Sides -> SUBSET ConIds]
  /\ tcp_reads \in [Sides -> SUBSET ConIds]
  /\ messages \in [Sides -> Seq(Msg)]
  /\ app \in [Sides -> [ConIds -> {"none", "open", "shut", "closed"}]]
  /\ written \in [Sides -> [ConIds -> Nat]]
  /\ unread \in [Sides -> [ConIds -> Seq(Nat)]]
  /\ got \in [Sides -> [ConIds -> Seq(Nat)]]

\* A message, by its type.
LEMMA MsgIs ==
  ASSUME NEW m \in Msg
  PROVE  /\ m.id \in ConIds
         /\ m.type = "TcpConnect" => m = ConnectOf(m.id)
         /\ m.type = "TcpClose" => m = CloseOf(m.id)
         /\ m.type = "TcpConnectResult" => /\ m.connected \in BOOLEAN
                                           /\ m = AnswerOf(m.id, m.connected)
         /\ m.type = "TcpSend" => m.payload \in Nat /\ m = SendOf(m.id, m.payload)
  BY DEF Msg, ConnectOf, CloseOf, AnswerOf, SendOf

\* The messages about a connection, and their fields.
LEMMA MsgOf ==
  ASSUME NEW id \in ConIds
  PROVE  /\ ConnectOf(id) \in Msg /\ CloseOf(id) \in Msg
         /\ \A b \in BOOLEAN : AnswerOf(id, b) \in Msg
         /\ \A n \in Nat : SendOf(id, n) \in Msg
         /\ ConnectOf(id).id = id /\ ConnectOf(id).type = "TcpConnect"
         /\ CloseOf(id).id = id /\ CloseOf(id).type = "TcpClose"
         /\ \A b \in BOOLEAN : /\ AnswerOf(id, b).id = id
                               /\ AnswerOf(id, b).type = "TcpConnectResult"
                               /\ AnswerOf(id, b).connected = b
         /\ \A n \in Nat : /\ SendOf(id, n).id = id /\ SendOf(id, n).type = "TcpSend"
                           /\ SendOf(id, n).payload = n
  BY DEF Msg, ConnectOf, CloseOf, AnswerOf, SendOf

\* The invariant of a connection.
ConInv(id) ==
  /\ \A s \in Sides : tcp_pending_writes[s][id] = <<>>
  /\ \E c, f \in Seq(Msg) :
       /\ Part(messages[Owner(id)], id, c) /\ Part(messages[Far(Owner(id))], id, f)
       /\ Stage(Owner(id), id, c, f)
       /\ id >= next_tcp_con_id[Owner(id)] => Unused(Owner(id), id, c, f)

\* What a step leaves as it was.
Same(s, id) ==
  /\ id \in tcp_pending'[s] <=> id \in tcp_pending[s]
  /\ id \in tcp_connections'[s] <=> id \in tcp_connections[s]
  /\ id \in tcp_reads'[s] <=> id \in tcp_reads[s]
  /\ tcp_pending_writes'[s][id] = tcp_pending_writes[s][id]
  /\ app'[s][id] = app[s][id] /\ written'[s][id] = written[s][id]
  /\ unread'[s][id] = unread[s][id] /\ got'[s][id] = got[s][id]

\* A connection no field of which changes stays at its stage.
LEMMA StageSame ==
  ASSUME NEW s \in Sides, NEW id, Same(s, id), Same(Far(s), id), NEW c, NEW f
  PROVE  /\ Stage(s, id, c, f) => Stage(s, id, c, f)'
         /\ Unused(s, id, c, f) => Unused(s, id, c, f)'
<1>1. /\ Idle(s, id) => Idle(s, id)'
      /\ Idle(Far(s), id) => Idle(Far(s), id)'
      /\ Asking(s, id) => Asking(s, id)'
      /\ Failed(s, id, c, f) => Failed(s, id, c, f)'
  BY Zenon DEF Same, Idle, Asking, Unread, Ended, Failed
<1>2. ASSUME NEW n
      PROVE  /\ Reading(s, id, n) => Reading(s, id, n)'
             /\ Reading(Far(s), id, n) => Reading(Far(s), id, n)'
  BY Zenon DEF Same, Reading, Unread, Ended
<1>3. Answered(s, id, c, f) => Answered(s, id, c, f)'
  BY <1>1, <1>2, Zenon DEF Same, Answered
<1>4. Forwards(s, id, c) => Forwards(s, id, c)'
  BY <1>2, Zenon DEF Same, Forwards, Served
<1>5. Forwards(Far(s), id, f) => Forwards(Far(s), id, f)'
  <2>1. Far(Far(s)) = s
    BY TwoSides
  <2>2. QED
    BY <1>2, <2>1, Zenon DEF Same, Forwards, Served
<1>6. Unused(s, id, c, f) => Unused(s, id, c, f)'
  BY <1>1, Zenon DEF Unused
<1>7. QED
  BY <1>1, <1>3, <1>4, <1>5, <1>6, Zenon DEF Stage, Asked, Refused, Live

-----------------------------------------------------------------------------
(* What is written and what is sent.                                       *)

\* What an application writes, or its end, comes after all it wrote before.
LEMMA LeftMore ==
  ASSUME NEW u \in Seq(Nat), NEW n, NEW w, Left(u, n, w, FALSE)
  PROVE  /\ Left(Append(u, w + 1), n, w + 1, FALSE)
         /\ Left(Append(u, Eof), n, w, TRUE)
<1>1. n \in Nat /\ w \in Nat /\ n <= w /\ Len(u) = w - n
      /\ \A i \in 1 .. w - n : u[i] = n + i
  BY DEF Left
<1>2. ASSUME NEW x
      PROVE  /\ Len(Append(u, x)) = (w - n) + 1 /\ Append(u, x)[(w - n) + 1] = x
             /\ \A i \in 1 .. w - n : Append(u, x)[i] = n + i
  BY <1>1
<1>3. Left(Append(u, w + 1), n, w + 1, FALSE)
  <2>1. (w + 1) - n = (w - n) + 1 /\ n <= w + 1
    BY <1>1
  <2>2. \A i \in 1 .. (w - n) + 1 : Append(u, w + 1)[i] = n + i
    <3> SUFFICES ASSUME NEW i \in 1 .. (w - n) + 1 PROVE Append(u, w + 1)[i] = n + i
      OBVIOUS
    <3> DEFINE v == Append(u, w + 1)
    <3>1. v[(w - n) + 1] = w + 1 /\ \A k \in 1 .. w - n : v[k] = n + k
      BY <1>2
    <3> HIDE DEF v
    <3>2. v[i] = n + i
      BY <1>1, <3>1
    <3>3. QED
      BY <3>2 DEF v
  <2>3. QED
    BY <1>1, <1>2, <2>1, <2>2 DEF Left
<1>4. Left(Append(u, Eof), n, w, TRUE)
  BY <1>1, <1>2 DEF Left
<1>5. QED
  BY <1>3, <1>4

\* The first thing unread is the next payload, or the end if there is none.
LEMMA LeftHead ==
  ASSUME NEW u \in Seq(Nat), NEW n, NEW w, NEW end \in BOOLEAN, Left(u, n, w, end), u # <<>>
  PROVE  /\ Head(u) = Eof => end /\ n = w /\ Tail(u) = <<>>
         /\ Head(u) # Eof => Head(u) = n + 1 /\ Left(Tail(u), n + 1, w, end)
<1> DEFINE k == w - n
<1>1. /\ n \in Nat /\ w \in Nat /\ n <= w /\ k \in Nat
      /\ Len(u) = k + (IF end THEN 1 ELSE 0)
      /\ \A i \in 1 .. k : u[i] = n + i
      /\ end => u[Len(u)] = Eof
  BY DEF Left
<1> DEFINE t == Tail(u)
<1>2. /\ Len(u) \in Nat /\ Len(u) >= 1 /\ Head(u) = u[1] /\ Len(t) = Len(u) - 1
      /\ \A i \in 1 .. Len(u) - 1 : t[i] = u[i + 1]
  OBVIOUS
<1>3. CASE k = 0
  <2>1. end /\ Len(u) = 1 /\ Head(u) = Eof /\ n = w
    BY <1>1, <1>2, <1>3
  <2>2. Tail(u) = <<>>
    <3>1. t \in Seq(Nat) /\ Len(t) = 0
      BY <1>2, <2>1
    <3> HIDE DEF t
    <3>2. t = <<>>
      BY <3>1
    <3>3. QED
      BY <3>2 DEF t
  <2>3. QED
    BY <2>1, <2>2
<1>4. CASE k # 0
  <2>1. Head(u) = n + 1 /\ n + 1 # Eof
    <3>1. 1 \in 1 .. k
      BY <1>1, <1>4
    <3>2. QED
      BY <1>1, <1>2, <3>1 DEF Eof
  <2>2. w - (n + 1) = k - 1 /\ n + 1 <= w
    BY <1>1, <1>4
  <2> HIDE DEF k, t
  <2>3. Len(t) = (k - 1) + (IF end THEN 1 ELSE 0)
    BY <1>1, <1>2
  <2>4. \A i \in 1 .. k - 1 : t[i] = (n + 1) + i
    <3> SUFFICES ASSUME NEW i \in 1 .. k - 1 PROVE t[i] = (n + 1) + i
      OBVIOUS
    <3>1. i + 1 \in 1 .. k /\ i \in 1 .. Len(u) - 1
      BY <1>1
    <3>2. t[i] = u[i + 1] /\ u[i + 1] = n + (i + 1)
      BY <1>1, <1>2, <3>1
    <3>3. QED
      BY <1>1, <3>2
  <2>5. end => t[Len(t)] = Eof
    <3> SUFFICES ASSUME end PROVE t[Len(t)] = Eof
      OBVIOUS
    <3>1. Len(u) = k + 1 /\ Len(t) = k /\ k \in 1 .. Len(u) - 1
      BY <1>1, <1>2, <1>4
    <3>2. t[k] = u[k + 1]
      BY <1>2, <3>1
    <3>3. QED
      BY <1>1, <3>1, <3>2
  <2>6. Left(t, n + 1, w, end)
    BY <1>1, <2>2, <2>3, <2>4, <2>5 DEF Left
  <2>7. QED
    BY <2>1, <2>6 DEF t
<1>5. QED
  BY <1>3, <1>4

\* When all that was sent was handled, nothing is on its way.
LEMMA CarriesNothing ==
  ASSUME NEW id, NEW n \in Nat
  PROVE  Carries(<<>>, id, n, n, FALSE)
  BY DEF Carries

\* The next payload, or the close, goes behind all that is on its way.
LEMMA CarriesMore ==
  ASSUME NEW id \in ConIds, NEW c \in Seq(Msg), NEW d, NEW n, Carries(c, id, d, n, FALSE)
  PROVE  /\ Carries(Append(c, SendOf(id, n + 1)), id, d, n + 1, FALSE)
         /\ Carries(Append(c, CloseOf(id)), id, d, n, TRUE)
<1>1. /\ d \in Nat /\ n \in Nat /\ d <= n /\ Len(c) = n - d
      /\ \A i \in 1 .. n - d : c[i] = SendOf(id, d + i)
  BY DEF Carries
<1>2. ASSUME NEW x
      PROVE  /\ Len(Append(c, x)) = (n - d) + 1 /\ Append(c, x)[(n - d) + 1] = x
             /\ \A i \in 1 .. n - d : Append(c, x)[i] = SendOf(id, d + i)
  BY <1>1
<1>3. Carries(Append(c, SendOf(id, n + 1)), id, d, n + 1, FALSE)
  <2>1. (n + 1) - d = (n - d) + 1 /\ d <= n + 1 /\ d + ((n - d) + 1) = n + 1
    BY <1>1
  <2> DEFINE v == Append(c, SendOf(id, n + 1))
  <2>2. /\ v[(n - d) + 1] = SendOf(id, d + ((n - d) + 1))
        /\ \A k \in 1 .. n - d : v[k] = SendOf(id, d + k)
        /\ Len(v) = (n - d) + 1
    BY <1>2, <2>1
  <2> HIDE DEF v
  <2>3. ASSUME NEW i \in 1 .. (n - d) + 1 PROVE v[i] = SendOf(id, d + i)
    <3>1. i \in 1 .. n - d \/ i = (n - d) + 1
      BY <1>1
    <3>2. QED
      BY <2>2, <3>1
  <2>4. QED
    BY <1>1, <2>1, <2>2, <2>3 DEF Carries, v
<1>4. Carries(Append(c, CloseOf(id)), id, d, n, TRUE)
  BY <1>1, <1>2 DEF Carries
<1>5. QED
  BY <1>3, <1>4

\* The first message on its way is the next payload, or the close after the
\* last one.
LEMMA CarriesHead ==
  ASSUME NEW id \in ConIds, NEW c \in Seq(Msg), NEW d, NEW n, NEW close \in BOOLEAN,
         Carries(c, id, d, n, close), c # <<>>
  PROVE  \/ /\ Head(c) = SendOf(id, d + 1) /\ Carries(Tail(c), id, d + 1, n, close)
            /\ d + 1 \in Nat
         \/ Head(c) = CloseOf(id) /\ close /\ d = n /\ Tail(c) = <<>>
<1> DEFINE k == n - d
<1>1. /\ d \in Nat /\ n \in Nat /\ d <= n /\ k \in Nat
      /\ Len(c) = k + (IF close THEN 1 ELSE 0)
      /\ \A i \in 1 .. k : c[i] = SendOf(id, d + i)
      /\ close => c[Len(c)] = CloseOf(id)
  BY DEF Carries
<1> DEFINE t == Tail(c)
<1>2. /\ Len(c) \in Nat /\ Len(c) >= 1 /\ Head(c) = c[1] /\ Len(t) = Len(c) - 1
      /\ \A i \in 1 .. Len(c) - 1 : t[i] = c[i + 1]
  OBVIOUS
<1>3. CASE k = 0
  <2>1. close /\ Len(c) = 1 /\ Head(c) = CloseOf(id) /\ d = n
    BY <1>1, <1>2, <1>3
  <2>2. Tail(c) = <<>>
    <3>1. t \in Seq(Msg) /\ Len(t) = 0
      BY <1>2, <2>1
    <3> HIDE DEF t
    <3>2. t = <<>>
      BY <3>1
    <3>3. QED
      BY <3>2 DEF t
  <2>3. QED
    BY <2>1, <2>2
<1>4. CASE k # 0
  <2>1. Head(c) = SendOf(id, d + 1)
    <3>1. 1 \in 1 .. k
      BY <1>1, <1>4
    <3>2. QED
      BY <1>1, <1>2, <3>1
  <2>2. n - (d + 1) = k - 1 /\ d + 1 <= n
    BY <1>1, <1>4
  <2> HIDE DEF k, t
  <2>3. Len(t) = (k - 1) + (IF close THEN 1 ELSE 0)
    BY <1>1, <1>2
  <2>4. \A i \in 1 .. k - 1 : t[i] = SendOf(id, (d + 1) + i)
    <3> SUFFICES ASSUME NEW i \in 1 .. k - 1 PROVE t[i] = SendOf(id, (d + 1) + i)
      OBVIOUS
    <3>1. i + 1 \in 1 .. k /\ i \in 1 .. Len(c) - 1 /\ d + (i + 1) = (d + 1) + i
      BY <1>1
    <3>2. t[i] = c[i + 1] /\ c[i + 1] = SendOf(id, d + (i + 1))
      BY <1>1, <1>2, <3>1
    <3>3. QED
      BY <3>1, <3>2
  <2>5. close => t[Len(t)] = CloseOf(id)
    <3> SUFFICES ASSUME close PROVE t[Len(t)] = CloseOf(id)
      OBVIOUS
    <3>1. Len(c) = k + 1 /\ Len(t) = k /\ k \in 1 .. Len(c) - 1
      BY <1>1, <1>2, <1>4
    <3>2. t[k] = c[k + 1]
      BY <1>2, <3>1
    <3>3. QED
      BY <1>1, <3>1, <3>2
  <2>6. Carries(t, id, d + 1, n, close)
    BY <1>1, <2>2, <2>3, <2>4, <2>5 DEF Carries
  <2>7. QED
    BY <1>1, <2>1, <2>6 DEF t
<1>5. QED
  BY <1>3, <1>4

-----------------------------------------------------------------------------
(* A step is about one connection.                                         *)

\* The other connections, and what is on its way for them, stay as they are.
About(id) ==
  /\ \A s \in Sides, j \in ConIds : j # id => Same(s, j)
  /\ \A s \in Sides : next_tcp_con_id'[s] >= next_tcp_con_id[s]
  /\ \A s \in Sides :
       \/ messages'[s] = messages[s]
       \/ \E m \in Msg : m.id = id /\ messages'[s] = Append(messages[s], m)
       \/ /\ messages[s] # <<>> /\ Head(messages[s]).id = id
          /\ messages'[s] = Tail(messages[s])

\* What is on its way for other connections is not touched.
LEMMA PartAside ==
  ASSUME Types, NEW id, About(id), NEW j, j # id, NEW s \in Sides,
         NEW c \in Seq(Msg), Part(messages[s], j, c)
  PROVE  Part(messages'[s], j, c)
<1>1. messages[s] \in Seq(Msg)
  BY DEF Types
<1>2. CASE messages'[s] = messages[s]
  BY <1>2
<1>3. CASE \E m \in Msg : m.id = id /\ messages'[s] = Append(messages[s], m)
  <2>1. PICK m \in Msg : m.id = id /\ messages'[s] = Append(messages[s], m)
    BY <1>3
  <2>2. Part(Append(messages[s], m), j, c)
    BY <1>1, <2>1, PartAppend
  <2>3. QED
    BY <2>1, <2>2
<1>4. CASE messages[s] # <<>> /\ Head(messages[s]).id = id /\ messages'[s] = Tail(messages[s])
  <2>1. Part(Tail(messages[s]), j, c)
    BY <1>1, <1>4, PartTail
  <2>2. QED
    BY <1>4, <2>1
<1>5. QED
  BY <1>2, <1>3, <1>4 DEF About

\* A step about one connection keeps the invariant of every other one.
LEMMA OthersKept ==
  ASSUME Types, Types', NEW id, About(id), NEW j \in ConIds, j # id, ConInv(j)
  PROVE  ConInv(j)'
<1> DEFINE o == Owner(j)
<1>1. o \in Sides /\ Far(o) \in Sides /\ \A s \in Sides : Same(s, j)
  BY OwnerIsSide, TwoSides DEF About
<1> HIDE DEF o
<1>2. PICK c \in Seq(Msg), f \in Seq(Msg) :
        /\ Part(messages[o], j, c) /\ Part(messages[Far(o)], j, f)
        /\ Stage(o, j, c, f)
        /\ j >= next_tcp_con_id[o] => Unused(o, j, c, f)
  BY DEF ConInv, o
<1>3. Part(messages'[o], j, c) /\ Part(messages'[Far(o)], j, f)
  BY <1>1, <1>2, PartAside
<1>4. Stage(o, j, c, f)' /\ (Unused(o, j, c, f) => Unused(o, j, c, f)')
  BY <1>1, <1>2, StageSame
<1>5. j >= next_tcp_con_id'[o] => j >= next_tcp_con_id[o]
  <2>1. j \in Nat /\ next_tcp_con_id'[o] \in Nat /\ next_tcp_con_id[o] \in Nat
    BY <1>1 DEF Types, ConIds
  <2>2. next_tcp_con_id'[o] >= next_tcp_con_id[o]
    BY <1>1 DEF About
  <2>3. QED
    BY <2>1, <2>2
<1>6. \A s \in Sides : tcp_pending_writes'[s][j] = <<>>
  BY <1>1 DEF ConInv, Same
<1>7. QED
  BY <1>2, <1>3, <1>4, <1>5, <1>6 DEF ConInv, o

-----------------------------------------------------------------------------
(* What the actions do to a connection.                                    *)

\* Nothing but side s of connection id changes.
SameBut(s, id) ==
  \A t \in Sides, j \in ConIds : (t # s \/ j # id) => Same(t, j)

\* A message that is sent is the last one on its way to the far side.
LEMMA SendingIs ==
  ASSUME Types, NEW s \in Sides, NEW m \in Msg, Sending(s, m)
  PROVE  /\ messages'[Far(s)] = Append(messages[Far(s)], m)
         /\ messages'[s] = messages[s]
         /\ messages' \in [Sides -> Seq(Msg)]
  BY TwoSides DEF Types, Sending

\* A message that is handled is taken from those on their way.
LEMMA HandledIs ==
  ASSUME Types, NEW s \in Sides, messages[s] # <<>>, messages' = Handled(s)
  PROVE  /\ messages'[s] = Tail(messages[s]) /\ messages'[Far(s)] = messages[Far(s)]
         /\ Head(messages[s]) \in Msg
         /\ messages' \in [Sides -> Seq(Msg)]
  BY TwoSides DEF Types, Handled

\* The same, when the message is answered.
LEMMA AnsweringIs ==
  ASSUME Types, NEW s \in Sides, messages[s] # <<>>, NEW m \in Msg, Answering(s, m)
  PROVE  /\ messages'[s] = Tail(messages[s])
         /\ messages'[Far(s)] = Append(messages[Far(s)], m)
         /\ Head(messages[s]) \in Msg
         /\ messages' \in [Sides -> Seq(Msg)]
<1>1. /\ messages \in [Sides -> Seq(Msg)] /\ Far(s) \in Sides /\ Far(s) # s
      /\ messages' = [[messages EXCEPT ![s] = Tail(@)] EXCEPT ![Far(s)] = Append(@, m)]
  BY TwoSides DEF Types, Answering, Handled
<1>2. messages[s] \in Seq(Msg) /\ messages[Far(s)] \in Seq(Msg)
  BY <1>1
<1>3. Tail(messages[s]) \in Seq(Msg) /\ Append(messages[Far(s)], m) \in Seq(Msg)
      /\ Head(messages[s]) \in Msg
  BY <1>2
<1>4. QED
  BY <1>1, <1>3

\* What it changes when an application writes.
LEMMA AppWritesEffect ==
  ASSUME Types, NEW s \in Sides, NEW id \in ConIds, AppWrites(s, id)
  PROVE  /\ Types' /\ SameBut(s, id) /\ About(id)
         /\ UNCHANGED <<messages, next_tcp_con_id, tcp_pending, tcp_connections,
                        tcp_reads, tcp_pending_writes, app, got>>
         /\ app[s][id] = "open" /\ written'[s][id] = written[s][id] + 1
         /\ unread'[s][id] = Append(unread[s][id], written[s][id] + 1)
<1>1. /\ written' = At(written, s, id, written[s][id] + 1)
      /\ unread' = At(unread, s, id, Append(unread[s][id], written[s][id] + 1))
      /\ UNCHANGED <<messages, next_tcp_con_id, tcp_pending, tcp_connections,
                     tcp_reads, tcp_pending_writes, app, got>>
      /\ app[s][id] = "open"
  BY DEF AppWrites, peerVars
<1>2. /\ written \in [Sides -> [ConIds -> Nat]]
      /\ unread \in [Sides -> [ConIds -> Seq(Nat)]]
  BY DEF Types
<1>3. /\ written[s][id] + 1 \in Nat
      /\ Append(unread[s][id], written[s][id] + 1) \in Seq(Nat)
  <2>1. written[s][id] \in Nat /\ unread[s][id] \in Seq(Nat)
    BY <1>2
  <2>2. QED
    BY <2>1
<1>4. /\ written' \in [Sides -> [ConIds -> Nat]]
      /\ written'[s][id] = written[s][id] + 1
      /\ \A t \in Sides, j \in ConIds : (t # s \/ j # id) => written'[t][j] = written[t][j]
  BY <1>1, <1>2, <1>3 DEF At
<1>5. /\ unread' \in [Sides -> [ConIds -> Seq(Nat)]]
      /\ unread'[s][id] = Append(unread[s][id], written[s][id] + 1)
      /\ \A t \in Sides, j \in ConIds : (t # s \/ j # id) => unread'[t][j] = unread[t][j]
  BY <1>1, <1>2, <1>3 DEF At
<1>6. SameBut(s, id)
  BY <1>1, <1>4, <1>5 DEF SameBut, Same
<1>7. Types'
  BY <1>1, <1>4, <1>5 DEF Types
<1>8. About(id)
  <2>1. \A t \in Sides : next_tcp_con_id'[t] >= next_tcp_con_id[t]
    BY <1>1 DEF Types
  <2>2. QED
    BY <1>1, <1>6, <2>1 DEF About, SameBut
<1>9. QED
  BY <1>1, <1>4, <1>5, <1>6, <1>7, <1>8

\* What it changes when an application ends its side.
LEMMA AppEndsEffect ==
  ASSUME Types, NEW s \in Sides, NEW id \in ConIds, AppEnds(s, id)
  PROVE  /\ Types' /\ SameBut(s, id) /\ About(id)
         /\ UNCHANGED <<messages, next_tcp_con_id, tcp_pending, tcp_connections,
                        tcp_reads, tcp_pending_writes, written, got>>
         /\ app[s][id] = "open" /\ app'[s][id] \in {"shut", "closed"}
         /\ unread'[s][id] = Append(unread[s][id], Eof)
<1>1. PICK how \in {"shut", "closed"} : app' = At(app, s, id, how)
  BY DEF AppEnds
<1>2. /\ unread' = At(unread, s, id, Append(unread[s][id], Eof))
      /\ UNCHANGED <<messages, next_tcp_con_id, tcp_pending, tcp_connections,
                     tcp_reads, tcp_pending_writes, written, got>>
      /\ app[s][id] = "open"
  BY DEF AppEnds, peerVars
<1>3. /\ unread \in [Sides -> [ConIds -> Seq(Nat)]]
      /\ Append(unread[s][id], Eof) \in Seq(Nat)
      /\ app \in [Sides -> [ConIds -> {"none", "open", "shut", "closed"}]]
  <2>1. /\ unread \in [Sides -> [ConIds -> Seq(Nat)]]
        /\ app \in [Sides -> [ConIds -> {"none", "open", "shut", "closed"}]]
    BY DEF Types
  <2>2. unread[s][id] \in Seq(Nat)
    BY <2>1
  <2>3. QED
    BY <2>1, <2>2 DEF Eof
<1>4. /\ app' \in [Sides -> [ConIds -> {"none", "open", "shut", "closed"}]]
      /\ app'[s][id] = how
      /\ \A t \in Sides, j \in ConIds : (t # s \/ j # id) => app'[t][j] = app[t][j]
  BY <1>1, <1>3 DEF At
<1>5. /\ unread' \in [Sides -> [ConIds -> Seq(Nat)]]
      /\ unread'[s][id] = Append(unread[s][id], Eof)
      /\ \A t \in Sides, j \in ConIds : (t # s \/ j # id) => unread'[t][j] = unread[t][j]
  BY <1>2, <1>3 DEF At
<1>6. SameBut(s, id)
  BY <1>2, <1>4, <1>5 DEF SameBut, Same
<1>7. Types'
  BY <1>2, <1>4, <1>5 DEF Types
<1>8. About(id)
  <2>1. \A t \in Sides : next_tcp_con_id'[t] >= next_tcp_con_id[t]
    BY <1>2 DEF Types
  <2>2. QED
    BY <1>2, <1>6, <2>1 DEF About, SameBut
<1>9. QED
  BY <1>2, <1>4, <1>5, <1>6, <1>7, <1>8

\* What handle_tcp_read changes: a payload or the close is sent.
LEMMA HandleTcpReadEffect ==
  ASSUME Types, NEW s \in Sides, NEW id \in ConIds, HandleTcpRead(s, id)
  PROVE  /\ Types' /\ SameBut(s, id) /\ About(id)
         /\ UNCHANGED <<next_tcp_con_id, tcp_pending, tcp_pending_writes, app,
                        written, got>>
         /\ id \in tcp_reads[s] /\ unread[s][id] # <<>>
         /\ unread'[s][id] = Tail(unread[s][id])
         /\ messages'[s] = messages[s]
         /\ \/ /\ Head(unread[s][id]) = Eof
               /\ id \notin tcp_connections'[s] /\ id \notin tcp_reads'[s]
               /\ messages'[Far(s)] = Append(messages[Far(s)], CloseOf(id))
            \/ /\ Head(unread[s][id]) # Eof
               /\ UNCHANGED <<tcp_connections, tcp_reads>>
               /\ messages'[Far(s)] =
                    Append(messages[Far(s)], SendOf(id, Head(unread[s][id])))
<1>1. /\ id \in tcp_reads[s] /\ unread[s][id] # <<>>
      /\ unread' = At(unread, s, id, Tail(unread[s][id]))
      /\ UNCHANGED <<next_tcp_con_id, tcp_pending, tcp_pending_writes, app,
                     written, got>>
  BY DEF HandleTcpRead
<1>2. \/ /\ Head(unread[s][id]) = Eof
         /\ tcp_connections' = Without(tcp_connections, s, id)
         /\ tcp_reads' = Without(tcp_reads, s, id)
         /\ Sending(s, CloseOf(id))
      \/ /\ Head(unread[s][id]) # Eof
         /\ UNCHANGED <<tcp_connections, tcp_reads>>
         /\ Sending(s, SendOf(id, Head(unread[s][id])))
  BY DEF HandleTcpRead, CloseOf, SendOf
<1>3. /\ unread \in [Sides -> [ConIds -> Seq(Nat)]] /\ unread[s][id] \in Seq(Nat)
      /\ Tail(unread[s][id]) \in Seq(Nat) /\ Head(unread[s][id]) \in Nat
      /\ tcp_connections \in [Sides -> SUBSET ConIds]
      /\ tcp_reads \in [Sides -> SUBSET ConIds]
  <2>1. /\ unread \in [Sides -> [ConIds -> Seq(Nat)]]
        /\ tcp_connections \in [Sides -> SUBSET ConIds]
        /\ tcp_reads \in [Sides -> SUBSET ConIds]
    BY DEF Types
  <2>2. unread[s][id] \in Seq(Nat)
    BY <2>1
  <2>3. QED
    BY <1>1, <2>1, <2>2
<1>4. /\ unread' \in [Sides -> [ConIds -> Seq(Nat)]]
      /\ unread'[s][id] = Tail(unread[s][id])
      /\ \A t \in Sides, j \in ConIds : (t # s \/ j # id) => unread'[t][j] = unread[t][j]
  BY <1>1, <1>3 DEF At
<1>5. /\ CloseOf(id) \in Msg /\ SendOf(id, Head(unread[s][id])) \in Msg
      /\ CloseOf(id).id = id /\ SendOf(id, Head(unread[s][id])).id = id
  BY <1>3, MsgOf
<1>6. /\ tcp_connections' \in [Sides -> SUBSET ConIds]
      /\ tcp_reads' \in [Sides -> SUBSET ConIds]
      /\ \A t \in Sides, j \in ConIds :
           (t # s \/ j # id) => /\ j \in tcp_connections'[t] <=> j \in tcp_connections[t]
                                /\ j \in tcp_reads'[t] <=> j \in tcp_reads[t]
      /\ Head(unread[s][id]) = Eof =>
           id \notin tcp_connections'[s] /\ id \notin tcp_reads'[s]
  BY <1>2, <1>3 DEF With, Without
<1>7. /\ messages' \in [Sides -> Seq(Msg)] /\ messages'[s] = messages[s]
      /\ Head(unread[s][id]) = Eof =>
           messages'[Far(s)] = Append(messages[Far(s)], CloseOf(id))
      /\ Head(unread[s][id]) # Eof =>
           messages'[Far(s)] = Append(messages[Far(s)], SendOf(id, Head(unread[s][id])))
  BY <1>2, <1>5, SendingIs
<1>8. SameBut(s, id)
  BY <1>1, <1>4, <1>6 DEF SameBut, Same
<1>9. Types'
  BY <1>1, <1>4, <1>6, <1>7 DEF Types
<1>10. About(id)
  <2>1. \A t \in Sides : next_tcp_con_id'[t] >= next_tcp_con_id[t]
    BY <1>1 DEF Types
  <2>2. \A t \in Sides : t = s \/ t = Far(s)
    BY ForwardingAssumption DEF Sides, Far
  <2>3. \A t \in Sides : \/ messages'[t] = messages[t]
                         \/ \E m \in Msg : m.id = id /\ messages'[t] = Append(messages[t], m)
    BY <1>5, <1>7, <2>2
  <2>4. QED
    BY <1>8, <2>1, <2>3 DEF About, SameBut
<1>11. QED
  BY <1>1, <1>2, <1>4, <1>6, <1>7, <1>8, <1>9, <1>10

\* The ids a side hands out are all unused, and so the next one is taken.
LEMMA NextIsFree ==
  ASSUME Types, \A id \in ConIds : ConInv(id), NEW s \in Sides,
         next_tcp_con_id[s] \in ConIds
  PROVE  FreeConId(s) = next_tcp_con_id[s] /\ Owner(next_tcp_con_id[s]) = s
<1> DEFINE n == next_tcp_con_id[s]
           M == 2 * MaxCons
<1>1. /\ n \in Nat /\ n \in 1 .. M /\ M \in Nat
      /\ (s = Client /\ n % 2 = 1) \/ (s = Server /\ n % 2 = 0)
  BY ForwardingAssumption, SMTT(30) DEF Types, ConIds, Sides
<1>2. Owner(n) = s
  BY <1>1 DEF Owner
<1>3. n \notin tcp_pending[s] \cup tcp_connections[s]
  <2>1. n \in ConIds /\ ConInv(n)
    OBVIOUS
  <2>2. n >= n
    BY <1>1
  <2> HIDE DEF n
  <2>3. PICK c \in Seq(Msg), f \in Seq(Msg) :
          n >= next_tcp_con_id[s] => Unused(s, n, c, f)
    BY <1>2, <2>1 DEF ConInv
  <2>4. n >= next_tcp_con_id[s]
    BY <2>2 DEF n
  <2>5. QED
    BY <2>3, <2>4 DEF Unused, Idle
<1> DEFINE used(id) == id \in tcp_pending[s] \cup tcp_connections[s]
           P(id) == /\ id % 2 = n % 2 /\ ~used(id)
                    /\ \A i \in n .. id - 1 : i % 2 = id % 2 => used(i)
<1>4. FreeConId(s) = CHOOSE id \in n .. M : P(id)
  BY Zenon DEF FreeConId
<1>5. n \in n .. M /\ P(n)
  BY <1>1, <1>3
<1>6. ASSUME NEW id \in n .. M, P(id) PROVE id = n
  <2> SUFFICES ASSUME id # n PROVE FALSE
    OBVIOUS
  <2>1. n \in n .. id - 1
    BY <1>1
  <2>2. used(n)
    BY <1>6, <2>1
  <2>3. QED
    BY <1>3, <2>2
<1> HIDE DEF n, M, P
<1>7. QED
  BY <1>2, <1>4, <1>5, <1>6 DEF n

\* What accepting a connection changes: the id the counter shows is its own.
LEMMA AcceptEffect ==
  ASSUME Types, \A j \in ConIds : ConInv(j), NEW s \in Sides, Accept(s),
         NEW id, id = next_tcp_con_id[s]
  PROVE  /\ Types' /\ id \in ConIds /\ Owner(id) = s /\ SameBut(s, id) /\ About(id)
         /\ UNCHANGED <<tcp_pending_writes, tcp_connections, tcp_reads, written,
                        unread, got>>
         /\ next_tcp_con_id'[s] = id + 2
         /\ id \in tcp_pending'[s] /\ app'[s][id] = "open"
         /\ messages'[s] = messages[s]
         /\ messages'[Far(s)] = Append(messages[Far(s)], ConnectOf(id))
<1>1. id \in ConIds /\ FreeConId(s) = id /\ Owner(id) = s
  BY NextIsFree DEF Accept
<1>2. /\ next_tcp_con_id' = [next_tcp_con_id EXCEPT ![s] = id + 2]
      /\ tcp_pending' = With(tcp_pending, s, id)
      /\ app' = At(app, s, id, "open")
      /\ Sending(s, ConnectOf(id))
      /\ UNCHANGED <<tcp_pending_writes, tcp_connections, tcp_reads, written,
                     unread, got>>
  BY <1>1 DEF Accept, ConnectOf
<1>3. /\ next_tcp_con_id \in [Sides -> Nat] /\ tcp_pending \in [Sides -> SUBSET ConIds]
      /\ app \in [Sides -> [ConIds -> {"none", "open", "shut", "closed"}]]
      /\ next_tcp_con_id[Client] % 2 = 1 /\ next_tcp_con_id[Server] % 2 = 0
      /\ id \in Nat /\ id + 2 \in Nat
  <2>1. /\ next_tcp_con_id \in [Sides -> Nat] /\ tcp_pending \in [Sides -> SUBSET ConIds]
        /\ app \in [Sides -> [ConIds -> {"none", "open", "shut", "closed"}]]
        /\ next_tcp_con_id[Client] % 2 = 1 /\ next_tcp_con_id[Server] % 2 = 0
    BY DEF Types
  <2>2. id \in Nat
    BY <1>1, ForwardingAssumption DEF ConIds
  <2>3. QED
    BY <2>1, <2>2
<1>4. /\ next_tcp_con_id' \in [Sides -> Nat] /\ next_tcp_con_id'[s] = id + 2
      /\ \A t \in Sides : t # s => next_tcp_con_id'[t] = next_tcp_con_id[t]
  BY <1>2, <1>3
<1>5. next_tcp_con_id'[Client] % 2 = 1 /\ next_tcp_con_id'[Server] % 2 = 0
  <2>1. Client \in Sides /\ Server \in Sides /\ Client # Server
        /\ (s = Client \/ s = Server)
    BY ForwardingAssumption DEF Sides
  <2>2. (id + 2) % 2 = id % 2
    BY <1>3
  <2>3. CASE s = Client
    BY <1>3, <1>4, <2>1, <2>2, <2>3
  <2>4. CASE s = Server
    BY <1>3, <1>4, <2>1, <2>2, <2>4
  <2>5. QED
    BY <2>1, <2>3, <2>4
<1>6. /\ tcp_pending' \in [Sides -> SUBSET ConIds] /\ id \in tcp_pending'[s]
      /\ \A t \in Sides, j \in ConIds :
           (t # s \/ j # id) => (j \in tcp_pending'[t] <=> j \in tcp_pending[t])
  BY <1>1, <1>2, <1>3 DEF With
<1>7. /\ app' \in [Sides -> [ConIds -> {"none", "open", "shut", "closed"}]]
      /\ app'[s][id] = "open"
      /\ \A t \in Sides, j \in ConIds : (t # s \/ j # id) => app'[t][j] = app[t][j]
  BY <1>1, <1>2, <1>3 DEF At
<1>8. ConnectOf(id) \in Msg /\ ConnectOf(id).id = id
  BY <1>1, MsgOf
<1>9. /\ messages' \in [Sides -> Seq(Msg)] /\ messages'[s] = messages[s]
      /\ messages'[Far(s)] = Append(messages[Far(s)], ConnectOf(id))
  BY <1>2, <1>8, SendingIs
<1>10. SameBut(s, id)
  BY <1>2, <1>6, <1>7 DEF SameBut, Same
<1>11. Types'
  BY <1>2, <1>4, <1>5, <1>6, <1>7, <1>9 DEF Types
<1>12. About(id)
  <2>1. \A t \in Sides : next_tcp_con_id'[t] >= next_tcp_con_id[t]
    BY <1>3, <1>4
  <2>2. \A t \in Sides : t = s \/ t = Far(s)
    BY ForwardingAssumption DEF Sides, Far
  <2>3. \A t \in Sides : \/ messages'[t] = messages[t]
                         \/ \E m \in Msg : m.id = id /\ messages'[t] = Append(messages[t], m)
    BY <1>8, <1>9, <2>2
  <2>4. QED
    BY <1>10, <2>1, <2>3 DEF About, SameBut
<1>13. QED
  BY <1>1, <1>2, <1>4, <1>6, <1>7, <1>9, <1>10, <1>11, <1>12

\* A message that is taken, and perhaps answered, is about its connection.
LEMMA AboutIncoming ==
  ASSUME Types, NEW s \in Sides, messages[s] # <<>>, NEW id, id = Head(messages[s]).id,
         messages'[s] = Tail(messages[s]),
         \/ messages'[Far(s)] = messages[Far(s)]
         \/ \E m \in Msg : m.id = id /\ messages'[Far(s)] = Append(messages[Far(s)], m),
         UNCHANGED next_tcp_con_id, SameBut(s, id)
  PROVE  About(id)
<1>1. \A t \in Sides : next_tcp_con_id'[t] >= next_tcp_con_id[t]
  BY DEF Types
<1>2. \A t \in Sides : t = s \/ t = Far(s)
  BY ForwardingAssumption DEF Sides, Far
<1>3. \A t \in Sides : \/ messages'[t] = messages[t]
                       \/ \E m \in Msg : m.id = id /\ messages'[t] = Append(messages[t], m)
                       \/ /\ messages[t] # <<>> /\ Head(messages[t]).id = id
                          /\ messages'[t] = Tail(messages[t])
  BY <1>2
<1>4. QED
  BY <1>1, <1>3 DEF About, SameBut

\* What activate_tcp_connection changes when nothing had to wait.
LEMMA ActivateEffect ==
  ASSUME Types, NEW s \in Sides, NEW id \in ConIds, tcp_pending_writes[s][id] = <<>>,
         Activate(s, id)
  PROVE  /\ UNCHANGED got
         /\ tcp_connections' \in [Sides -> SUBSET ConIds]
         /\ tcp_reads' \in [Sides -> SUBSET ConIds]
         /\ tcp_pending_writes' \in [Sides -> [ConIds -> Seq(Nat)]]
         /\ tcp_pending_writes'[s][id] = <<>>
         /\ id \in tcp_connections'[s] /\ id \in tcp_reads'[s]
         /\ \A t \in Sides, j \in ConIds :
              (t # s \/ j # id) => /\ j \in tcp_connections'[t] <=> j \in tcp_connections[t]
                                   /\ j \in tcp_reads'[t] <=> j \in tcp_reads[t]
                                   /\ tcp_pending_writes'[t][j] = tcp_pending_writes[t][j]
<1>1. /\ tcp_connections \in [Sides -> SUBSET ConIds]
      /\ tcp_reads \in [Sides -> SUBSET ConIds]
      /\ tcp_pending_writes \in [Sides -> [ConIds -> Seq(Nat)]]
      /\ got \in [Sides -> [ConIds -> Seq(Nat)]]
  BY DEF Types
<1>2. /\ tcp_connections' = With(tcp_connections, s, id)
      /\ tcp_reads' = With(tcp_reads, s, id)
      /\ Given(s, id, <<>>)
      /\ tcp_pending_writes' = At(tcp_pending_writes, s, id, <<>>)
  BY DEF Activate
<1>3. UNCHANGED got
  <2>1. got[s][id] \in Seq(Nat)
    BY <1>1
  <2>2. got[s][id] \o <<>> = got[s][id]
    BY <2>1
  <2>3. At(got, s, id, got[s][id]) = got
    BY <1>1 DEF At
  <2>4. QED
    BY <1>2, <2>2, <2>3 DEF Given
<1>4. /\ tcp_connections' \in [Sides -> SUBSET ConIds] /\ id \in tcp_connections'[s]
      /\ tcp_reads' \in [Sides -> SUBSET ConIds] /\ id \in tcp_reads'[s]
      /\ \A t \in Sides, j \in ConIds :
           (t # s \/ j # id) => /\ j \in tcp_connections'[t] <=> j \in tcp_connections[t]
                                /\ j \in tcp_reads'[t] <=> j \in tcp_reads[t]
  BY <1>1, <1>2 DEF With
<1>5. /\ tcp_pending_writes' \in [Sides -> [ConIds -> Seq(Nat)]]
      /\ tcp_pending_writes'[s][id] = <<>>
      /\ \A t \in Sides, j \in ConIds :
           (t # s \/ j # id) => tcp_pending_writes'[t][j] = tcp_pending_writes[t][j]
  <2>1. <<>> \in Seq(Nat)
    OBVIOUS
  <2>2. QED
    BY <1>1, <1>2, <2>1 DEF At
<1>6. QED
  BY <1>3, <1>4, <1>5

\* What handle_tcp_connect changes, whether it connects or not.
LEMMA HandleTcpConnectEffect ==
  ASSUME Types, NEW s \in Sides, HandleTcpConnect(s),
         NEW id, id = Head(messages[s]).id,
         id \in ConIds => tcp_pending_writes[s][id] = <<>>
  PROVE  /\ Types' /\ id \in ConIds /\ SameBut(s, id) /\ About(id)
         /\ UNCHANGED <<next_tcp_con_id, tcp_pending, written, unread, got>>
         /\ messages[s] # <<>> /\ Head(messages[s]) = ConnectOf(id)
         /\ messages'[s] = Tail(messages[s])
         /\ tcp_pending_writes'[s][id] = <<>>
         /\ \/ /\ id \in tcp_connections'[s] /\ id \in tcp_reads'[s]
               /\ app'[s][id] = "open"
               /\ messages'[Far(s)] = Append(messages[Far(s)], AnswerOf(id, TRUE))
            \/ /\ UNCHANGED <<tcp_connections, tcp_reads, app>>
               /\ messages'[Far(s)] = Append(messages[Far(s)], AnswerOf(id, FALSE))
<1>1. /\ messages[s] # <<>> /\ Head(messages[s]).type = "TcpConnect"
      /\ UNCHANGED <<next_tcp_con_id, tcp_pending, written, unread>>
      /\ \/ /\ Activate(s, id)
            /\ app' = At(app, s, id, "open")
            /\ Answering(s, AnswerOf(id, TRUE))
         \/ /\ Answering(s, AnswerOf(id, FALSE))
            /\ UNCHANGED <<tcp_pending_writes, tcp_connections, tcp_reads, app, got>>
  BY DEF HandleTcpConnect, Incoming, AnswerOf
<1>2. Head(messages[s]) \in Msg
  <2>1. messages[s] \in Seq(Msg)
    BY DEF Types
  <2>2. QED
    BY <1>1, <2>1
<1>3. id \in ConIds /\ Head(messages[s]) = ConnectOf(id)
  BY <1>1, <1>2, MsgIs
<1>4. /\ AnswerOf(id, TRUE) \in Msg /\ AnswerOf(id, FALSE) \in Msg
      /\ AnswerOf(id, TRUE).id = id /\ AnswerOf(id, FALSE).id = id
  BY <1>3, MsgOf
<1>5. CASE Activate(s, id) /\ app' = At(app, s, id, "open") /\ Answering(s, AnswerOf(id, TRUE))
  <2>1. /\ messages' \in [Sides -> Seq(Msg)] /\ messages'[s] = Tail(messages[s])
        /\ messages'[Far(s)] = Append(messages[Far(s)], AnswerOf(id, TRUE))
    BY <1>1, <1>4, <1>5, AnsweringIs
  <2>2. app \in [Sides -> [ConIds -> {"none", "open", "shut", "closed"}]]
    BY DEF Types
  <2>3. /\ app' \in [Sides -> [ConIds -> {"none", "open", "shut", "closed"}]]
        /\ app'[s][id] = "open"
        /\ \A t \in Sides, j \in ConIds : (t # s \/ j # id) => app'[t][j] = app[t][j]
    BY <1>3, <1>5, <2>2 DEF At
  <2>4. /\ UNCHANGED got
        /\ tcp_connections' \in [Sides -> SUBSET ConIds]
        /\ tcp_reads' \in [Sides -> SUBSET ConIds]
        /\ tcp_pending_writes' \in [Sides -> [ConIds -> Seq(Nat)]]
        /\ tcp_pending_writes'[s][id] = <<>>
        /\ id \in tcp_connections'[s] /\ id \in tcp_reads'[s]
        /\ \A t \in Sides, j \in ConIds :
             (t # s \/ j # id) => /\ j \in tcp_connections'[t] <=> j \in tcp_connections[t]
                                  /\ j \in tcp_reads'[t] <=> j \in tcp_reads[t]
                                  /\ tcp_pending_writes'[t][j] = tcp_pending_writes[t][j]
    BY <1>3, <1>5, ActivateEffect
  <2>5. SameBut(s, id)
    BY <1>1, <2>3, <2>4 DEF SameBut, Same
  <2>6. Types'
    BY <1>1, <2>1, <2>3, <2>4 DEF Types
  <2>7. About(id)
    BY <1>1, <1>4, <2>1, <2>5, AboutIncoming
  <2>8. QED
    BY <1>1, <1>3, <2>1, <2>3, <2>4, <2>5, <2>6, <2>7
<1>6. CASE /\ Answering(s, AnswerOf(id, FALSE))
           /\ UNCHANGED <<tcp_pending_writes, tcp_connections, tcp_reads, app, got>>
  <2>1. /\ messages' \in [Sides -> Seq(Msg)] /\ messages'[s] = Tail(messages[s])
        /\ messages'[Far(s)] = Append(messages[Far(s)], AnswerOf(id, FALSE))
    BY <1>1, <1>4, <1>6, AnsweringIs
  <2>2. SameBut(s, id)
    BY <1>1, <1>6 DEF SameBut, Same
  <2>3. Types'
    BY <1>1, <1>6, <2>1 DEF Types
  <2>4. About(id)
    BY <1>1, <1>4, <2>1, <2>2, AboutIncoming
  <2>5. QED
    BY <1>1, <1>3, <1>6, <2>1, <2>2, <2>3, <2>4
<1>7. QED
  BY <1>1, <1>5, <1>6

\* What becomes of connection id when side s handles the answer.
Decides(s, id) ==
  /\ Types' /\ id \in ConIds /\ SameBut(s, id) /\ About(id)
  /\ UNCHANGED <<next_tcp_con_id, written, unread, got>>
  /\ messages[s] # <<>> /\ messages'[s] = Tail(messages[s])
  /\ messages'[Far(s)] = messages[Far(s)]
  /\ Head(messages[s]).type = "TcpConnectResult"
  /\ tcp_pending_writes'[s][id] = <<>>
  /\ id \in tcp_pending[s] /\ id \notin tcp_pending'[s]
  /\ \/ /\ Head(messages[s]) = AnswerOf(id, TRUE)
        /\ id \in tcp_connections'[s] /\ id \in tcp_reads'[s]
        /\ UNCHANGED app
     \/ /\ Head(messages[s]) = AnswerOf(id, FALSE)
        /\ app'[s][id] = "closed" /\ UNCHANGED <<tcp_connections, tcp_reads>>

\* What handle_tcp_connect_result changes: as nothing waits to be written, the
\* early return of activate_tcp_connection is not taken.
LEMMA HandleTcpConnectResultEffect ==
  ASSUME Types, NEW s \in Sides, HandleTcpConnectResult(s),
         NEW id, id = Head(messages[s]).id,
         id \in ConIds => tcp_pending_writes[s][id] = <<>>
  PROVE  Decides(s, id)
<1> DEFINE m == Head(messages[s])
<1>1. /\ messages[s] # <<>> /\ m.type = "TcpConnectResult"
      /\ tcp_pending' = Without(tcp_pending, s, id) /\ id \in tcp_pending[s]
      /\ \/ m.connected /\ Activate(s, id) /\ UNCHANGED <<app, unread>>
         \/ m.connected /\ ActivateFails(s, id) /\ UNCHANGED app
         \/ /\ ~m.connected
            /\ tcp_pending_writes' = At(tcp_pending_writes, s, id, <<>>)
            /\ app' = At(app, s, id, "closed")
            /\ UNCHANGED <<tcp_connections, tcp_reads, unread, got>>
      /\ messages' = Handled(s)
      /\ UNCHANGED <<next_tcp_con_id, written>>
  BY DEF HandleTcpConnectResult, Incoming
<1>2. m \in Msg
  <2>1. messages[s] \in Seq(Msg)
    BY DEF Types
  <2>2. QED
    BY <1>1, <2>1
<1>3. id \in ConIds /\ m.connected \in BOOLEAN /\ m = AnswerOf(id, m.connected)
  BY <1>1, <1>2, MsgIs
<1>4. /\ messages' \in [Sides -> Seq(Msg)] /\ messages'[s] = Tail(messages[s])
      /\ messages'[Far(s)] = messages[Far(s)]
  BY <1>1, HandledIs
<1>5. /\ tcp_pending \in [Sides -> SUBSET ConIds]
      /\ tcp_pending_writes \in [Sides -> [ConIds -> Seq(Nat)]]
      /\ app \in [Sides -> [ConIds -> {"none", "open", "shut", "closed"}]]
  BY DEF Types
<1>6. /\ tcp_pending' \in [Sides -> SUBSET ConIds] /\ id \notin tcp_pending'[s]
      /\ \A t \in Sides, j \in ConIds :
           (t # s \/ j # id) => (j \in tcp_pending'[t] <=> j \in tcp_pending[t])
  BY <1>1, <1>3, <1>5 DEF Without
<1> HIDE DEF m
<1>7. CASE m.connected /\ Activate(s, id) /\ UNCHANGED <<app, unread>>
  <2>1. m = AnswerOf(id, TRUE)
    <3>1. m.connected = TRUE
      BY <1>3, <1>7
    <3>2. QED
      BY <1>3, <3>1
  <2>2. /\ UNCHANGED got
        /\ tcp_connections' \in [Sides -> SUBSET ConIds]
        /\ tcp_reads' \in [Sides -> SUBSET ConIds]
        /\ tcp_pending_writes' \in [Sides -> [ConIds -> Seq(Nat)]]
        /\ tcp_pending_writes'[s][id] = <<>>
        /\ id \in tcp_connections'[s] /\ id \in tcp_reads'[s]
        /\ \A t \in Sides, j \in ConIds :
             (t # s \/ j # id) => /\ j \in tcp_connections'[t] <=> j \in tcp_connections[t]
                                  /\ j \in tcp_reads'[t] <=> j \in tcp_reads[t]
                                  /\ tcp_pending_writes'[t][j] = tcp_pending_writes[t][j]
    BY <1>3, <1>7, ActivateEffect
  <2>3. SameBut(s, id)
    BY <1>1, <1>6, <1>7, <2>2 DEF SameBut, Same
  <2>4. Types'
    BY <1>1, <1>4, <1>6, <1>7, <2>2 DEF Types
  <2>5. About(id)
    BY <1>1, <1>4, <2>3, AboutIncoming
  <2>6. QED
    BY <1>1, <1>3, <1>4, <1>6, <1>7, <2>1, <2>2, <2>3, <2>4, <2>5 DEF m, Decides
<1>8. CASE m.connected /\ ActivateFails(s, id) /\ UNCHANGED app
  BY <1>3, <1>8 DEF ActivateFails
<1>9. CASE /\ ~m.connected
           /\ tcp_pending_writes' = At(tcp_pending_writes, s, id, <<>>)
           /\ app' = At(app, s, id, "closed")
           /\ UNCHANGED <<tcp_connections, tcp_reads, unread, got>>
  <2>1. m = AnswerOf(id, FALSE)
    <3>1. m.connected = FALSE
      BY <1>3, <1>9
    <3>2. QED
      BY <1>3, <3>1
  <2>2. <<>> \in Seq(Nat)
    OBVIOUS
  <2>3. /\ tcp_pending_writes' \in [Sides -> [ConIds -> Seq(Nat)]]
        /\ tcp_pending_writes'[s][id] = <<>>
        /\ \A t \in Sides, j \in ConIds :
             (t # s \/ j # id) => tcp_pending_writes'[t][j] = tcp_pending_writes[t][j]
    BY <1>3, <1>5, <1>9, <2>2 DEF At
  <2>4. /\ app' \in [Sides -> [ConIds -> {"none", "open", "shut", "closed"}]]
        /\ app'[s][id] = "closed"
        /\ \A t \in Sides, j \in ConIds : (t # s \/ j # id) => app'[t][j] = app[t][j]
    BY <1>3, <1>5, <1>9 DEF At
  <2>5. SameBut(s, id)
    BY <1>1, <1>6, <1>9, <2>3, <2>4 DEF SameBut, Same
  <2>6. Types'
    BY <1>1, <1>4, <1>6, <1>9, <2>3, <2>4 DEF Types
  <2>7. About(id)
    BY <1>1, <1>4, <2>5, AboutIncoming
  <2>8. QED
    BY <1>1, <1>3, <1>4, <1>6, <1>9, <2>1, <2>3, <2>4, <2>5, <2>6, <2>7 DEF m, Decides
<1>10. QED
  BY <1>1, <1>7, <1>8, <1>9

\* What handle_tcp_send changes, for a connection that waits for no answer.
LEMMA HandleTcpSendEffect ==
  ASSUME Types, NEW s \in Sides, HandleTcpSend(s),
         NEW id, id = Head(messages[s]).id,
         id \in ConIds => tcp_pending_writes[s][id] = <<>> /\ id \notin tcp_pending[s]
  PROVE  /\ Types' /\ id \in ConIds /\ SameBut(s, id) /\ About(id)
         /\ UNCHANGED <<next_tcp_con_id, tcp_pending, tcp_connections, tcp_reads,
                        tcp_pending_writes, app, written, unread>>
         /\ messages[s] # <<>> /\ messages'[s] = Tail(messages[s])
         /\ messages'[Far(s)] = messages[Far(s)]
         /\ Head(messages[s]) = SendOf(id, Head(messages[s]).payload)
         /\ got'[s][id] = IF app[s][id] # "closed" /\ id \in tcp_connections[s]
                          THEN Append(got[s][id], Head(messages[s]).payload)
                          ELSE got[s][id]
<1> DEFINE m == Head(messages[s])
           waits == id \notin tcp_connections[s] /\ id \in tcp_pending[s]
<1>1. /\ messages[s] # <<>> /\ m.type = "TcpSend"
      /\ Given(s, id, IF id \in tcp_connections[s] THEN <<m.payload>> ELSE <<>>)
      /\ tcp_pending_writes' =
           At(tcp_pending_writes, s, id, tcp_pending_writes[s][id] \o
                (IF waits THEN <<m.payload>> ELSE <<>>))
      /\ messages' = Handled(s)
      /\ UNCHANGED <<next_tcp_con_id, tcp_pending, tcp_connections, tcp_reads, app,
                     written, unread>>
  BY DEF HandleTcpSend, Incoming
<1>2. m \in Msg
  <2>1. messages[s] \in Seq(Msg)
    BY DEF Types
  <2>2. QED
    BY <1>1, <2>1
<1>3. id \in ConIds /\ m.payload \in Nat /\ m = SendOf(id, m.payload)
  BY <1>1, <1>2, MsgIs
<1>4. /\ messages' \in [Sides -> Seq(Msg)] /\ messages'[s] = Tail(messages[s])
      /\ messages'[Far(s)] = messages[Far(s)]
  BY <1>1, HandledIs
<1>5. /\ tcp_pending_writes \in [Sides -> [ConIds -> Seq(Nat)]]
      /\ got \in [Sides -> [ConIds -> Seq(Nat)]]
  BY DEF Types
<1>6. UNCHANGED tcp_pending_writes
  <2>1. ~waits /\ tcp_pending_writes[s][id] = <<>>
    BY <1>3
  <2>2. tcp_pending_writes' = At(tcp_pending_writes, s, id, <<>> \o <<>>)
    BY <1>1, <2>1
  <2>3. <<>> \o <<>> = <<>>
    OBVIOUS
  <2>4. tcp_pending_writes' = At(tcp_pending_writes, s, id, tcp_pending_writes[s][id])
    BY <2>1, <2>2, <2>3
  <2>5. QED
    BY <1>3, <1>5, <2>4 DEF At
<1> DEFINE g == got[s][id]
           v == m.payload
<1>7. g \in Seq(Nat) /\ v \in Nat
  BY <1>3, <1>5
<1> HIDE DEF g, v, waits
<1>8. /\ g \o <<>> = g /\ g \o <<v>> = Append(g, v) /\ Append(g, v) \in Seq(Nat)
  BY <1>7
<1> DEFINE r == IF app[s][id] # "closed" /\ id \in tcp_connections[s]
                THEN Append(g, v) ELSE g
<1>9. got' = At(got, s, id, r)
  <2>1. CASE app[s][id] = "closed"
    <3>1. got' = got /\ r = got[s][id]
      BY <1>1, <2>1 DEF Given, g
    <3>2. At(got, s, id, got[s][id]) = got
      BY <1>3, <1>5 DEF At
    <3>3. QED
      BY <3>1, <3>2
  <2>2. CASE app[s][id] # "closed"
    <3>1. got' = At(got, s, id, g \o (IF id \in tcp_connections[s] THEN <<v>> ELSE <<>>))
      BY <1>1, <2>2 DEF Given, g, v
    <3>2. (g \o (IF id \in tcp_connections[s] THEN <<v>> ELSE <<>>)) = r
      BY <1>8, <2>2
    <3>3. QED
      BY <3>1, <3>2
  <2>3. QED
    BY <2>1, <2>2
<1>10. r \in Seq(Nat)
  BY <1>7, <1>8
<1> HIDE DEF r
<1>11. /\ got' \in [Sides -> [ConIds -> Seq(Nat)]] /\ got'[s][id] = r
       /\ \A t \in Sides, j \in ConIds : (t # s \/ j # id) => got'[t][j] = got[t][j]
  BY <1>3, <1>5, <1>9, <1>10 DEF At
<1>12. SameBut(s, id)
  BY <1>1, <1>6, <1>11 DEF SameBut, Same
<1>13. Types'
  BY <1>1, <1>4, <1>6, <1>11 DEF Types
<1>14. About(id)
  BY <1>1, <1>4, <1>12, AboutIncoming
<1>15. QED
  BY <1>1, <1>3, <1>4, <1>6, <1>11, <1>12, <1>13, <1>14 DEF m, r, g, v

\* What handle_tcp_close changes: the write half goes, the read half stays.
LEMMA HandleTcpCloseEffect ==
  ASSUME Types, NEW s \in Sides, HandleTcpClose(s), NEW id, id = Head(messages[s]).id
  PROVE  /\ Types' /\ id \in ConIds /\ SameBut(s, id) /\ About(id)
         /\ UNCHANGED <<next_tcp_con_id, tcp_reads, app, written, unread, got>>
         /\ messages[s] # <<>> /\ messages'[s] = Tail(messages[s])
         /\ messages'[Far(s)] = messages[Far(s)]
         /\ Head(messages[s]) = CloseOf(id)
         /\ tcp_pending_writes'[s][id] = <<>>
         /\ id \notin tcp_pending'[s] /\ id \notin tcp_connections'[s]
<1> DEFINE m == Head(messages[s])
<1>1. /\ messages[s] # <<>> /\ m.type = "TcpClose"
      /\ tcp_pending' = Without(tcp_pending, s, id)
      /\ tcp_pending_writes' = At(tcp_pending_writes, s, id, <<>>)
      /\ tcp_connections' = Without(tcp_connections, s, id)
      /\ messages' = Handled(s)
      /\ UNCHANGED <<next_tcp_con_id, tcp_reads, app, written, unread, got>>
  BY DEF HandleTcpClose, Incoming, appVars
<1>2. m \in Msg
  <2>1. messages[s] \in Seq(Msg)
    BY DEF Types
  <2>2. QED
    BY <1>1, <2>1
<1>3. id \in ConIds /\ m = CloseOf(id)
  BY <1>1, <1>2, MsgIs
<1>4. /\ messages' \in [Sides -> Seq(Msg)] /\ messages'[s] = Tail(messages[s])
      /\ messages'[Far(s)] = messages[Far(s)]
  BY <1>1, HandledIs
<1>5. /\ tcp_pending \in [Sides -> SUBSET ConIds] /\ tcp_connections \in [Sides -> SUBSET ConIds]
      /\ tcp_pending_writes \in [Sides -> [ConIds -> Seq(Nat)]] /\ <<>> \in Seq(Nat)
  BY DEF Types
<1>6. /\ tcp_pending' \in [Sides -> SUBSET ConIds] /\ id \notin tcp_pending'[s]
      /\ tcp_connections' \in [Sides -> SUBSET ConIds] /\ id \notin tcp_connections'[s]
      /\ \A t \in Sides, j \in ConIds :
           (t # s \/ j # id) => /\ j \in tcp_pending'[t] <=> j \in tcp_pending[t]
                                /\ j \in tcp_connections'[t] <=> j \in tcp_connections[t]
  BY <1>1, <1>3, <1>5 DEF Without
<1>7. /\ tcp_pending_writes' \in [Sides -> [ConIds -> Seq(Nat)]]
      /\ tcp_pending_writes'[s][id] = <<>>
      /\ \A t \in Sides, j \in ConIds :
           (t # s \/ j # id) => tcp_pending_writes'[t][j] = tcp_pending_writes[t][j]
  BY <1>1, <1>3, <1>5 DEF At
<1>8. SameBut(s, id)
  BY <1>1, <1>6, <1>7 DEF SameBut, Same
<1>9. Types'
  BY <1>1, <1>4, <1>6, <1>7 DEF Types
<1>10. About(id)
  BY <1>1, <1>4, <1>8, AboutIncoming
<1>11. QED
  BY <1>1, <1>3, <1>4, <1>6, <1>7, <1>8, <1>9, <1>10 DEF m

-----------------------------------------------------------------------------
(* A connection as one of its sides sees it.                               *)

\* x is on its way to side s, y to the far side.
Stands(s, id, x, y) ==
  IF s = Owner(id) THEN Stage(s, id, x, y) ELSE Stage(Far(s), id, y, x)

From(s, id) ==
  /\ \A t \in Sides : tcp_pending_writes[t][id] = <<>>
  /\ \E x, y \in Seq(Msg) :
       /\ Part(messages[s], id, x) /\ Part(messages[Far(s)], id, y)
       /\ Stands(s, id, x, y)
       /\ id >= next_tcp_con_id[Owner(id)] => Unused(s, id, x, y)

\* An application has ended its side or not.
LEMMA EndedBoolean ==
  ASSUME NEW s, NEW id
  PROVE  Ended(s, id) \in BOOLEAN
  BY DEF Ended

\* The invariant of a connection, as seen from either side.
LEMMA FromEither ==
  ASSUME NEW s \in Sides, NEW id
  PROVE  /\ ConInv(id) <=> From(s, id)
         /\ ConInv(id)' <=> From(s, id)'
<1> DEFINE o == Owner(id)
<1>1. o \in Sides /\ (s = o \/ s = Far(o)) /\ Far(o) # o /\ Far(Far(o)) = o
  BY OwnerIsSide, TwoSides
<1> HIDE DEF o
<1>2. CASE s = o
  <2>1. ConInv(id) <=> From(s, id)
    BY <1>2, Zenon DEF ConInv, From, Stands, o
  <2>2. ConInv(id)' <=> From(s, id)'
    BY <1>2, Zenon DEF ConInv, From, Stands, o
  <2>3. QED
    BY <2>1, <2>2
<1>3. CASE s = Far(o)
  <2>1. s # o /\ Far(s) = o
    BY <1>1, <1>3
  <2>2. ASSUME NEW x, NEW y
        PROVE  /\ Stands(s, id, x, y) <=> Stage(o, id, y, x)
               /\ Unused(s, id, x, y) <=> Unused(o, id, y, x)
               /\ Stands(s, id, x, y)' <=> Stage(o, id, y, x)'
               /\ Unused(s, id, x, y)' <=> Unused(o, id, y, x)'
    BY <1>1, <1>3, <2>1, Zenon DEF Stands, Unused, o
  <2>3. ConInv(id) <=> From(s, id)
    BY <1>3, <2>1, <2>2, Zenon DEF ConInv, From, o
  <2>4. ConInv(id)' <=> From(s, id)'
    BY <1>3, <2>1, <2>2, Zenon DEF ConInv, From, o
  <2>5. QED
    BY <2>3, <2>4
<1>4. QED
  BY <1>1, <1>2, <1>3

\* A connection in use looks the same from both sides.
LEMMA LiveEither ==
  ASSUME NEW s \in Sides, NEW id, NEW x, NEW y
  PROVE  /\ Live(s, id, x, y) <=> Live(Far(s), id, y, x)
         /\ Live(s, id, x, y)' <=> Live(Far(s), id, y, x)'
  BY TwoSides, Zenon DEF Live

\* A connection in use stays in use.
LEMMA LiveStands ==
  ASSUME NEW s \in Sides, NEW id, NEW x, NEW y
  PROVE  /\ Live(s, id, x, y) => Stands(s, id, x, y)
         /\ Live(s, id, x, y)' => Stands(s, id, x, y)'
<1>1. /\ Live(s, id, x, y) => Stage(s, id, x, y) /\ Stage(Far(s), id, y, x)
      /\ Live(s, id, x, y)' => Stage(s, id, x, y)' /\ Stage(Far(s), id, y, x)'
  BY LiveEither, Zenon DEF Stage
<1>2. QED
  BY <1>1, Zenon DEF Stands

\* What a message says of the connection it is about.
LEMMA HeadTells ==
  ASSUME NEW s \in Sides, NEW id \in ConIds, NEW x \in Seq(Msg), NEW y \in Seq(Msg),
         Stands(s, id, x, y), x # <<>>
  PROVE  /\ Head(x).type = "TcpConnect" => s # Owner(id) /\ Asked(Far(s), id, y, x)
         /\ Head(x).type = "TcpConnectResult"
              => s = Owner(id) /\ (Refused(s, id, x, y) \/ Answered(s, id, x, y))
         /\ Head(x).type \in {"TcpSend", "TcpClose"} => Live(s, id, x, y)
<1>1. /\ Head(<<ConnectOf(id)>>).type = "TcpConnect"
      /\ Head(<<AnswerOf(id, FALSE)>>).type = "TcpConnectResult"
      /\ AnswerOf(id, TRUE).type = "TcpConnectResult"
  BY DEF ConnectOf, AnswerOf
<1>2. ASSUME Live(s, id, x, y) PROVE Head(x).type \in {"TcpSend", "TcpClose"}
  <2>1. PICK d, n \in Nat, close \in BOOLEAN : Carries(x, id, d, n, close)
    BY <1>2 DEF Live, Forwards
  <2>2. Head(x) = SendOf(id, d + 1) \/ Head(x) = CloseOf(id)
    BY <2>1, CarriesHead
  <2>3. QED
    BY <2>2 DEF SendOf, CloseOf
<1>3. CASE s = Owner(id)
  <2>1. Stage(s, id, x, y)
    BY <1>3 DEF Stands
  <2>2. \/ Refused(s, id, x, y) /\ Head(x).type = "TcpConnectResult"
        \/ Answered(s, id, x, y) /\ Head(x).type = "TcpConnectResult"
        \/ Live(s, id, x, y)
    BY <1>1, <2>1, Zenon DEF Stage, Unused, Asked, Failed, Refused, Answered
  <2>3. QED
    BY <1>2, <1>3, <2>2
<1>4. CASE s # Owner(id)
  <2>1. Stage(Far(s), id, y, x)
    BY <1>4 DEF Stands
  <2>2. \/ Asked(Far(s), id, y, x) /\ Head(x).type = "TcpConnect"
        \/ Live(Far(s), id, y, x)
    BY <1>1, <2>1, Zenon DEF Stage, Unused, Asked, Failed, Refused, Answered
  <2>3. QED
    BY <1>2, <1>4, <2>2, LiveEither
<1>5. QED
  BY <1>3, <1>4

\* What is true of the far side stays true.
LEMMA FarSide ==
  ASSUME NEW s, NEW id, Same(s, id)
  PROVE  /\ Idle(s, id) => Idle(s, id)'
         /\ Asking(s, id) => Asking(s, id)'
         /\ \A n : Reading(s, id, n) => Reading(s, id, n)'
         /\ \A d : Served(s, id, d) => Served(s, id, d)'
<1>1. /\ Idle(s, id) => Idle(s, id)'
      /\ Asking(s, id) => Asking(s, id)'
  BY Zenon DEF Same, Idle, Asking, Unread, Ended
<1>2. ASSUME NEW n PROVE Reading(s, id, n) => Reading(s, id, n)'
  BY Zenon DEF Same, Reading, Unread, Ended
<1>3. ASSUME NEW d PROVE Served(s, id, d) => Served(s, id, d)'
  BY Zenon DEF Same, Served
<1>4. QED
  BY <1>1, <1>2, <1>3

\* What an application does leaves the connection at its stage: its side goes on
\* reading all that was written.
LEMMA AppStands ==
  ASSUME NEW s \in Sides, NEW id, SameBut(s, id), id \in ConIds,
         UNCHANGED <<tcp_pending, tcp_connections, tcp_reads, got>>,
         app[s][id] = "open", app'[s][id] \in {"open", "shut", "closed"},
         \A n : Unread(s, id, n) => Unread(s, id, n)',
         NEW x, NEW y, Stands(s, id, x, y)
  PROVE  Stands(s, id, x, y)' /\ ~ Unused(s, id, x, y)
<1> DEFINE z == Far(s)
<1>1. z \in Sides /\ z # s /\ Far(z) = s /\ Same(z, id)
  BY TwoSides DEF SameBut
<1>2. /\ Idle(z, id) => Idle(z, id)'
      /\ Asking(z, id) => Asking(z, id)'
      /\ \A n : Reading(z, id, n) => Reading(z, id, n)'
      /\ \A d : Served(z, id, d) => Served(z, id, d)'
  BY <1>1, FarSide
<1>3. ~ Idle(s, id) /\ ~ Ended(s, id)
  BY DEF Idle, Ended
<1> HIDE DEF z
<1>4. Asking(s, id) => Asking(s, id)'
  BY DEF Asking
<1>5. ASSUME NEW n, Reading(s, id, n) PROVE Reading(s, id, n)' /\ id \in tcp_reads[s]
  <2>1. id \in tcp_reads[s] /\ Unread(s, id, n) /\ id \notin tcp_pending[s]
    BY <1>3, <1>5 DEF Reading
  <2>2. QED
    BY <2>1 DEF Reading
<1>6. \A d : Served(s, id, d) => Served(s, id, d)'
  BY Zenon DEF Served
<1>7. Forwards(s, id, x) => Forwards(s, id, x)'
  <2> SUFFICES ASSUME Forwards(s, id, x) PROVE Forwards(s, id, x)'
    OBVIOUS
  <2>1. PICK d, n \in Nat, close \in BOOLEAN :
          /\ Carries(x, id, d, n, close) /\ Reading(Far(s), id, n) /\ Served(s, id, d)
          /\ close => id \notin tcp_reads[Far(s)]
          /\ id \in tcp_connections[s] /\ id \notin tcp_reads[Far(s)] => close
          /\ id \in tcp_connections[s] /\ app[s][id] # "closed" => Len(got[s][id]) = d
          /\ id \notin tcp_connections[s] /\ app[s][id] = "open"
               => id \notin tcp_reads[Far(s)] /\ x = <<>> /\ Len(got[s][id]) = n
    BY Zenon DEF Forwards
  <2>2. Reading(Far(s), id, n)' /\ Served(s, id, d)'
    BY <1>2, <1>6, <2>1 DEF z
  <2>3. QED
    BY <2>1, <2>2, Zenon DEF Forwards
<1>8. Forwards(z, id, y) => Forwards(z, id, y)'
  <2> SUFFICES ASSUME Forwards(z, id, y) PROVE Forwards(z, id, y)'
    OBVIOUS
  <2>1. PICK d, n \in Nat, close \in BOOLEAN :
          /\ Carries(y, id, d, n, close) /\ Reading(s, id, n) /\ Served(z, id, d)
          /\ close => id \notin tcp_reads[s]
          /\ id \in tcp_connections[z] /\ id \notin tcp_reads[s] => close
          /\ id \in tcp_connections[z] /\ app[z][id] # "closed" => Len(got[z][id]) = d
          /\ id \notin tcp_connections[z] /\ app[z][id] = "open"
               => id \notin tcp_reads[s] /\ y = <<>> /\ Len(got[z][id]) = n
    BY <1>1, Zenon DEF Forwards
  <2>2. Reading(s, id, n)' /\ Served(z, id, d)'
    BY <1>2, <1>5, <2>1
  <2>3. app'[z][id] = app[z][id]
    BY <1>1 DEF Same
  <2>4. QED
    BY <1>1, <2>1, <2>2, <2>3, Zenon DEF Forwards
<1>9. Live(s, id, x, y) => Live(s, id, x, y)'
  BY <1>7, <1>8, Zenon DEF Live, z
<1>10. CASE s = Owner(id)
  <2>1. Stage(s, id, x, y)
    BY <1>10 DEF Stands
  <2>2. ASSUME Asked(s, id, x, y) PROVE Stage(s, id, x, y)'
    BY <1>2, <1>4, <2>2, Zenon DEF Asked, Stage, z
  <2>3. ASSUME Refused(s, id, x, y) PROVE Stage(s, id, x, y)'
    BY <1>2, <1>4, <2>3, Zenon DEF Refused, Stage, z
  <2>4. ASSUME Answered(s, id, x, y) PROVE Stage(s, id, x, y)'
    <3>1. app'[z][id] = app[z][id] /\ got'[z][id] = got[z][id]
      BY <1>1 DEF Same
    <3>2. Answered(s, id, x, y)'
      BY <1>2, <1>4, <2>4, <3>1, Zenon DEF Answered, z
    <3>3. QED
      BY <3>2, Zenon DEF Stage
  <2>5. ASSUME Live(s, id, x, y) PROVE Stage(s, id, x, y)'
    BY <1>9, <2>5, Zenon DEF Stage
  <2>6. ~ Unused(s, id, x, y) /\ ~ Failed(s, id, x, y)
    <3>1. app[s][id] # "closed"
      OBVIOUS
    <3>2. QED
      BY <1>3, <3>1, Zenon DEF Unused, Failed
  <2>7. QED
    BY <1>10, <2>1, <2>2, <2>3, <2>4, <2>5, <2>6, Zenon DEF Stage, Stands
<1>11. CASE s # Owner(id)
  <2>1. Stage(z, id, y, x)
    BY <1>11 DEF Stands, z
  <2>2. ASSUME Answered(z, id, y, x) PROVE Stage(z, id, y, x)'
    <3>1. PICK n \in Nat : /\ Reading(s, id, n)
                           /\ Carries(Tail(y), id, 0, n, id \notin tcp_reads[s])
      BY <1>1, <2>2, Zenon DEF Answered
    <3>2. Reading(s, id, n)'
      BY <1>5, <3>1
    <3>3. app[s][id] = "open" => id \in tcp_connections[s]
      BY <1>1, <2>2, Zenon DEF Answered
    <3>4. Answered(z, id, y, x)'
      BY <1>1, <1>2, <2>2, <3>1, <3>2, <3>3, Zenon DEF Answered
    <3>5. QED
      BY <3>4, Zenon DEF Stage
  <2>3. ASSUME Live(z, id, y, x) PROVE Stage(z, id, y, x)'
    <3>1. Live(z, id, y, x)'
      BY <1>9, <2>3, LiveEither DEF z
    <3>2. QED
      BY <3>1, Zenon DEF Stage
  <2>4. ~ Unused(z, id, y, x) /\ ~ Failed(z, id, y, x)
        /\ ~ Asked(z, id, y, x) /\ ~ Refused(z, id, y, x) /\ ~ Unused(s, id, x, y)
    BY <1>1, <1>3, Zenon DEF Unused, Failed, Asked, Refused
  <2>5. QED
    BY <1>11, <2>1, <2>2, <2>3, <2>4, Zenon DEF Stage, Stands, z
<1>12. QED
  BY <1>10, <1>11

-----------------------------------------------------------------------------
(* Every action keeps the invariant of the connection it is about.         *)

\* The pieces of the invariant, for the proofs below.
LEMMA FromPieces ==
  ASSUME NEW s \in Sides, NEW id, ConInv(id)
  PROVE  /\ \A t \in Sides : tcp_pending_writes[t][id] = <<>>
         /\ \E x, y \in Seq(Msg) :
              /\ Part(messages[s], id, x) /\ Part(messages[Far(s)], id, y)
              /\ Stands(s, id, x, y)
              /\ id >= next_tcp_con_id[Owner(id)] => Unused(s, id, x, y)
  BY FromEither, Zenon DEF From

\* Nothing waits to be written on the side that did not move, either.
LEMMA WritesStayEmpty ==
  ASSUME NEW s \in Sides, NEW id \in ConIds, SameBut(s, id), ConInv(id),
         tcp_pending_writes'[s][id] = <<>>
  PROVE  \A t \in Sides : tcp_pending_writes'[t][id] = <<>>
  BY DEF SameBut, Same, ConInv

\* A step of an application keeps the invariant of its connection.
LEMMA AppKeepsCon ==
  ASSUME NEW s \in Sides, NEW id \in ConIds, ConInv(id), SameBut(s, id),
         UNCHANGED <<messages, next_tcp_con_id, tcp_pending, tcp_connections,
                     tcp_reads, tcp_pending_writes, got>>,
         app[s][id] = "open", app'[s][id] \in {"open", "shut", "closed"},
         \A n : Unread(s, id, n) => Unread(s, id, n)'
  PROVE  ConInv(id)'
<1>1. PICK x, y \in Seq(Msg) :
        /\ Part(messages[s], id, x) /\ Part(messages[Far(s)], id, y)
        /\ Stands(s, id, x, y)
        /\ id >= next_tcp_con_id[Owner(id)] => Unused(s, id, x, y)
  BY FromPieces
<1>2. Stands(s, id, x, y)' /\ ~ Unused(s, id, x, y)
  BY <1>1, AppStands
<1>3. \A t \in Sides : tcp_pending_writes'[t][id] = <<>>
  BY DEF ConInv
<1>4. From(s, id)'
  BY <1>1, <1>2, <1>3, Zenon DEF From
<1>5. QED
  BY <1>4, FromEither

\* AppWrites keeps the invariant of its connection.
LEMMA AppWritesKeeps ==
  ASSUME Types, NEW s \in Sides, NEW id \in ConIds, ConInv(id), AppWrites(s, id)
  PROVE  ConInv(id)'
<1>1. /\ SameBut(s, id)
      /\ UNCHANGED <<messages, next_tcp_con_id, tcp_pending, tcp_connections,
                     tcp_reads, tcp_pending_writes, app, got>>
      /\ app[s][id] = "open" /\ written'[s][id] = written[s][id] + 1
      /\ unread'[s][id] = Append(unread[s][id], written[s][id] + 1)
  BY AppWritesEffect
<1>2. unread[s][id] \in Seq(Nat)
  BY DEF Types
<1>3. ASSUME NEW n, Unread(s, id, n) PROVE Unread(s, id, n)'
  <2>1. Left(unread[s][id], n, written[s][id], FALSE) /\ ~ Ended(s, id)'
    <3>1. Ended(s, id) = FALSE /\ Ended(s, id)' = FALSE
      BY <1>1 DEF Ended
    <3>2. Left(unread[s][id], n, written[s][id], Ended(s, id))
      BY <1>3, Zenon DEF Unread
    <3>3. QED
      BY <3>1, <3>2
  <2>2. Left(unread'[s][id], n, written'[s][id], FALSE)
    BY <1>1, <1>2, <2>1, LeftMore
  <2>3. Ended(s, id)' = FALSE
    BY <1>1 DEF Ended
  <2>4. Left(unread'[s][id], n, written'[s][id], Ended(s, id)')
    BY <2>2, <2>3
  <2>5. QED
    BY <2>4, Zenon DEF Unread
<1>4. QED
  BY <1>1, <1>3, AppKeepsCon

\* AppEnds keeps the invariant of its connection.
LEMMA AppEndsKeeps ==
  ASSUME Types, NEW s \in Sides, NEW id \in ConIds, ConInv(id), AppEnds(s, id)
  PROVE  ConInv(id)'
<1>1. /\ SameBut(s, id)
      /\ UNCHANGED <<messages, next_tcp_con_id, tcp_pending, tcp_connections,
                     tcp_reads, tcp_pending_writes, written, got>>
      /\ app[s][id] = "open" /\ app'[s][id] \in {"shut", "closed"}
      /\ unread'[s][id] = Append(unread[s][id], Eof)
  BY AppEndsEffect
<1>2. unread[s][id] \in Seq(Nat)
  BY DEF Types
<1>3. ASSUME NEW n, Unread(s, id, n) PROVE Unread(s, id, n)'
  <2>1. Ended(s, id) = FALSE /\ Ended(s, id)' = TRUE
    BY <1>1 DEF Ended
  <2>2. Left(unread[s][id], n, written[s][id], FALSE)
    <3>1. Left(unread[s][id], n, written[s][id], Ended(s, id))
      BY <1>3, Zenon DEF Unread
    <3>2. QED
      BY <2>1, <3>1
  <2>3. Left(unread'[s][id], n, written'[s][id], TRUE)
    BY <1>1, <1>2, <2>2, LeftMore
  <2>4. Left(unread'[s][id], n, written'[s][id], Ended(s, id)')
    BY <2>1, <2>3
  <2>5. QED
    BY <2>4, Zenon DEF Unread
<1>4. QED
  BY <1>1, <1>3, AppKeepsCon

\* What the owner of the id accepts nobody knew of.
LEMMA AcceptKeeps ==
  ASSUME Types, \A j \in ConIds : ConInv(j), NEW s \in Sides, Accept(s),
         NEW id, id = next_tcp_con_id[s]
  PROVE  ConInv(id)'
<1>1. /\ id \in ConIds /\ Owner(id) = s /\ SameBut(s, id)
      /\ UNCHANGED <<tcp_pending_writes, tcp_connections, tcp_reads, written,
                     unread, got>>
      /\ next_tcp_con_id'[s] = id + 2
      /\ id \in tcp_pending'[s] /\ app'[s][id] = "open"
      /\ messages'[s] = messages[s]
      /\ messages'[Far(s)] = Append(messages[Far(s)], ConnectOf(id))
  BY AcceptEffect
<1>2. id \in Nat
  BY <1>1, ForwardingAssumption DEF ConIds
<1>3. id >= next_tcp_con_id[Owner(id)] /\ ~ (id >= next_tcp_con_id'[Owner(id)])
  BY <1>1, <1>2
<1>4. ConInv(id)
  BY <1>1
<1>5. PICK x, y \in Seq(Msg) :
        /\ Part(messages[s], id, x) /\ Part(messages[Far(s)], id, y)
        /\ Stands(s, id, x, y)
        /\ id >= next_tcp_con_id[Owner(id)] => Unused(s, id, x, y)
  BY <1>4, FromPieces
<1>6. Idle(s, id) /\ Idle(Far(s), id) /\ x = <<>> /\ y = <<>>
  BY <1>3, <1>5 DEF Unused
<1>7. /\ Far(s) \in Sides /\ messages[Far(s)] \in Seq(Msg)
      /\ ConnectOf(id) \in Msg /\ ConnectOf(id).id = id
  BY <1>1, TwoSides, MsgOf DEF Types
<1>8. Part(messages'[Far(s)], id, Append(y, ConnectOf(id)))
  BY <1>1, <1>5, <1>7, PartAppend
<1>9. Append(y, ConnectOf(id)) = <<ConnectOf(id)>> /\ <<ConnectOf(id)>> \in Seq(Msg)
  BY <1>6, <1>7
<1>10. Asked(s, id, x, <<ConnectOf(id)>>)'
  <2>1. Idle(Far(s), id)'
    <3>1. Same(Far(s), id)
      BY <1>1, TwoSides DEF SameBut
    <3>2. QED
      BY <1>6, <3>1, FarSide
  <2>2. Unread(s, id, 0)'
    <3>1. Ended(s, id)' = FALSE
      BY <1>1 DEF Ended
    <3>2. unread'[s][id] = <<>> /\ written'[s][id] = 0
      BY <1>1, <1>6 DEF Idle
    <3>3. Left(<<>>, 0, 0, FALSE)
      BY DEF Left
    <3>4. Left(unread'[s][id], 0, written'[s][id], Ended(s, id)')
      BY <3>1, <3>2, <3>3
    <3>5. QED
      BY <3>4, Zenon DEF Unread
  <2>3. Asking(s, id)'
    BY <1>1, <1>6, <2>2 DEF Asking, Idle
  <2>4. QED
    BY <1>6, <2>1, <2>3, Zenon DEF Asked
<1>11. Stands(s, id, x, <<ConnectOf(id)>>)'
  BY <1>1, <1>10, Zenon DEF Stands, Stage
<1>12. \A t \in Sides : tcp_pending_writes'[t][id] = <<>>
  BY <1>1, <1>4 DEF ConInv
<1>13. Part(messages'[s], id, x) /\ Part(messages'[Far(s)], id, <<ConnectOf(id)>>)
  BY <1>1, <1>5, <1>8, <1>9
<1>14. From(s, id)'
  <2>1. ~ (id >= next_tcp_con_id[Owner(id)])'
    BY <1>3
  <2>2. QED
    BY <1>9, <1>11, <1>12, <1>13, <2>1, Zenon DEF From
<1>15. QED
  BY <1>14, FromEither

\* A side that reads is asked or answered and in use, or has just answered.
LEMMA ReadersStand ==
  ASSUME NEW s \in Sides, NEW id, NEW x, NEW y, Stands(s, id, x, y), id \in tcp_reads[s]
  PROVE  Live(s, id, x, y) \/ (s # Owner(id) /\ Answered(Far(s), id, y, x))
<1>1. ~ Idle(s, id) /\ ~ Asking(s, id)
  BY DEF Idle, Asking
<1>2. CASE s = Owner(id)
  <2>1. Stage(s, id, x, y)
    BY <1>2 DEF Stands
  <2>2. QED
    BY <1>1, <2>1, Zenon DEF Stage, Unused, Asked, Failed, Refused, Answered
<1>3. CASE s # Owner(id)
  <2>1. Stage(Far(s), id, y, x)
    BY <1>3 DEF Stands
  <2>2. Far(Far(s)) = s
    BY TwoSides
  <2>3. Answered(Far(s), id, y, x) \/ Live(Far(s), id, y, x)
    BY <1>1, <2>1, <2>2, Zenon DEF Stage, Unused, Asked, Failed, Refused
  <2>4. QED
    BY <1>3, <2>3, LiveEither
<1>4. QED
  BY <1>2, <1>3

\* What was read is on its way, after everything that was read before.
LEMMA ReadSends ==
  ASSUME Types, NEW s \in Sides, NEW id \in ConIds, HandleTcpRead(s, id),
         NEW n, Reading(s, id, n), NEW c \in Seq(Msg), NEW d, Carries(c, id, d, n, FALSE),
         NEW m, m = IF Head(unread[s][id]) = Eof THEN CloseOf(id)
                    ELSE SendOf(id, Head(unread[s][id]))
  PROVE  \E k \in Nat : /\ Reading(s, id, k)'
                        /\ Carries(Append(c, m), id, d, k, id \notin tcp_reads'[s])
<1> DEFINE u == unread[s][id]
<1>1. /\ UNCHANGED <<tcp_pending, app, written>>
      /\ id \in tcp_reads[s] /\ u # <<>> /\ unread'[s][id] = Tail(u)
      /\ \/ /\ Head(u) = Eof
            /\ id \notin tcp_connections'[s] /\ id \notin tcp_reads'[s]
         \/ Head(u) # Eof /\ UNCHANGED <<tcp_connections, tcp_reads>>
  BY HandleTcpReadEffect
<1>2. u \in Seq(Nat)
  BY DEF Types
<1>3. /\ id \notin tcp_pending[s] /\ app[s][id] # "none"
      /\ Left(u, n, written[s][id], Ended(s, id)) /\ Ended(s, id) \in BOOLEAN
  BY <1>1 DEF Reading, Unread, Ended
<1>4. /\ Head(u) = Eof => Ended(s, id) /\ n = written[s][id] /\ Tail(u) = <<>>
      /\ Head(u) # Eof => /\ Head(u) = n + 1
                          /\ Left(Tail(u), n + 1, written[s][id], Ended(s, id))
  <2> DEFINE w == written[s][id]
             e == Ended(s, id)
  <2>1. Left(u, n, w, e) /\ e \in BOOLEAN
    BY <1>3
  <2> HIDE DEF u, w, e
  <2>2. /\ Head(u) = Eof => e /\ n = w /\ Tail(u) = <<>>
        /\ Head(u) # Eof => Head(u) = n + 1 /\ Left(Tail(u), n + 1, w, e)
    BY <1>1, <1>2, <2>1, LeftHead
  <2>3. QED
    BY <2>2 DEF w, e
<1>5. Ended(s, id)' = Ended(s, id)
  BY <1>1 DEF Ended
<1>6. n \in Nat /\ n + 1 \in Nat
  <2>1. n \in Nat
    BY DEF Carries
  <2>2. QED
    BY <2>1
<1> HIDE DEF u
<1>7. CASE Head(u) = Eof
  <2>1. Reading(s, id, n)'
    BY <1>1, <1>3, <1>4, <1>5, <1>7 DEF Reading
  <2>2. m = CloseOf(id) /\ (id \notin tcp_reads'[s]) = TRUE
    BY <1>1, <1>7 DEF u
  <2>3. Carries(Append(c, m), id, d, n, TRUE)
    BY <2>2, CarriesMore
  <2>4. QED
    BY <1>6, <2>1, <2>2, <2>3
<1>8. CASE Head(u) # Eof
  <2>1. Left(unread'[s][id], n + 1, written'[s][id], Ended(s, id)')
    BY <1>1, <1>4, <1>5, <1>8
  <2>2. Unread(s, id, n + 1)'
    BY <2>1, Zenon DEF Unread
  <2>3. Reading(s, id, n + 1)'
    BY <1>1, <1>3, <1>8, <2>2 DEF Reading
  <2>4. m = SendOf(id, n + 1) /\ (id \notin tcp_reads'[s]) = FALSE
    BY <1>1, <1>4, <1>8 DEF u
  <2>5. Carries(Append(c, m), id, d, n + 1, FALSE)
    BY <2>4, CarriesMore
  <2>6. QED
    BY <1>6, <2>3, <2>4, <2>5
<1>9. QED
  BY <1>7, <1>8

\* handle_tcp_read keeps the invariant of its connection: the close it sends is
\* behind every payload.
LEMMA HandleTcpReadKeeps ==
  ASSUME Types, NEW s \in Sides, NEW id \in ConIds, ConInv(id), HandleTcpRead(s, id)
  PROVE  ConInv(id)'
<1> DEFINE z == Far(s)
<1>0. PICK m : m = IF Head(unread[s][id]) = Eof THEN CloseOf(id)
                   ELSE SendOf(id, Head(unread[s][id]))
  OBVIOUS
<1>1. /\ SameBut(s, id)
      /\ UNCHANGED <<next_tcp_con_id, tcp_pending, tcp_pending_writes, app, written, got>>
      /\ id \in tcp_reads[s] /\ unread[s][id] # <<>>
      /\ unread'[s][id] = Tail(unread[s][id])
      /\ messages'[s] = messages[s]
      /\ \/ /\ Head(unread[s][id]) = Eof
            /\ id \notin tcp_connections'[s] /\ id \notin tcp_reads'[s]
            /\ messages'[Far(s)] = Append(messages[Far(s)], CloseOf(id))
         \/ /\ Head(unread[s][id]) # Eof
            /\ UNCHANGED <<tcp_connections, tcp_reads>>
            /\ messages'[Far(s)] = Append(messages[Far(s)], SendOf(id, Head(unread[s][id])))
  BY HandleTcpReadEffect
<1>2. PICK x, y \in Seq(Msg) :
        /\ Part(messages[s], id, x) /\ Part(messages[z], id, y)
        /\ Stands(s, id, x, y)
        /\ id >= next_tcp_con_id[Owner(id)] => Unused(s, id, x, y)
  BY FromPieces
<1>3. z \in Sides /\ z # s /\ Far(z) = s /\ Same(z, id) /\ messages[z] \in Seq(Msg)
  BY <1>1, TwoSides DEF SameBut, Types
<1>4. m \in Msg /\ m.id = id /\ messages'[z] = Append(messages[z], m)
  <2>1. unread[s][id] \in Seq(Nat)
    BY DEF Types
  <2>2. Head(unread[s][id]) \in Nat
    BY <1>1, <2>1
  <2>3. CASE Head(unread[s][id]) = Eof
    BY <1>0, <1>1, <2>3, MsgOf
  <2>4. CASE Head(unread[s][id]) # Eof
    BY <1>0, <1>1, <2>2, <2>4, MsgOf
  <2>5. QED
    BY <2>3, <2>4
<1>5. Part(messages'[s], id, x) /\ Part(messages'[z], id, Append(y, m))
  BY <1>1, <1>2, <1>3, <1>4, PartAppend
<1>6. Append(y, m) \in Seq(Msg)
  BY <1>4
<1>7. ASSUME NEW n, Reading(s, id, n), NEW c \in Seq(Msg), NEW d, Carries(c, id, d, n, FALSE)
      PROVE  \E k \in Nat : /\ Reading(s, id, k)'
                            /\ Carries(Append(c, m), id, d, k, id \notin tcp_reads'[s])
  BY <1>0, <1>7, ReadSends
<1>8. Ended(s, id) \/ UNCHANGED <<tcp_connections, tcp_reads>>
  <2> SUFFICES ASSUME Head(unread[s][id]) = Eof PROVE Ended(s, id)
    BY <1>1
  <2>1. Live(s, id, x, y) \/ Answered(z, id, y, x)
    BY <1>1, <1>2, ReadersStand
  <2>2. PICK n : Reading(s, id, n)
    BY <1>3, <2>1, Zenon DEF Live, Answered, Forwards, z
  <2> DEFINE u == unread[s][id]
             w == written[s][id]
             e == Ended(s, id)
  <2>3. Left(u, n, w, e)
    BY <1>1, <2>2, Zenon DEF Reading, Unread
  <2>4. e \in BOOLEAN
    BY EndedBoolean
  <2>5. u \in Seq(Nat) /\ u # <<>> /\ Head(u) = Eof
    BY <1>1 DEF Types
  <2> HIDE DEF u, w, e
  <2>6. Head(u) = Eof => e /\ n = w /\ Tail(u) = <<>>
    BY <2>3, <2>4, <2>5, LeftHead
  <2>7. e
    BY <2>5, <2>6
  <2>8. QED
    BY <2>7 DEF e
<1>9. ~ Unused(s, id, x, y)
  BY <1>1 DEF Unused, Idle
<1> HIDE DEF z
<1>10. Stands(s, id, x, Append(y, m))'
  <2>1. CASE Live(s, id, x, y)
    <3>1. PICK d, n \in Nat, close \in BOOLEAN :
            /\ Carries(x, id, d, n, close) /\ Reading(z, id, n) /\ Served(s, id, d)
            /\ close => id \notin tcp_reads[z]
            /\ id \in tcp_connections[s] /\ id \notin tcp_reads[z] => close
            /\ id \in tcp_connections[s] /\ app[s][id] # "closed" => Len(got[s][id]) = d
            /\ id \notin tcp_connections[s] /\ app[s][id] = "open"
                 => id \notin tcp_reads[z] /\ x = <<>> /\ Len(got[s][id]) = n
      BY <2>1, Zenon DEF Live, Forwards, z
    <3>2. Forwards(s, id, x)'
      <4>1. Reading(z, id, n)'
        BY <1>3, <3>1, FarSide
      <4>2. Served(s, id, d)' /\ (id \in tcp_reads'[z] <=> id \in tcp_reads[z])
        BY <1>1, <1>3, <3>1 DEF Served, Same
      <4>3. id \in tcp_connections'[s] => id \in tcp_connections[s]
        BY <1>1
      <4>4. id \notin tcp_connections'[s] /\ app'[s][id] = "open"
              => id \notin tcp_connections[s] /\ app[s][id] = "open"
        BY <1>1, <1>8 DEF Ended
      <4>5. UNCHANGED <<app, got>>
        BY <1>1
      <4>6. QED
        BY <3>1, <4>1, <4>2, <4>3, <4>4, <4>5, Zenon DEF Forwards, z
    <3>3. PICK e, k \in Nat, shut \in BOOLEAN :
            /\ Carries(y, id, e, k, shut) /\ Reading(s, id, k) /\ Served(z, id, e)
            /\ shut => id \notin tcp_reads[s]
            /\ id \in tcp_connections[z] /\ id \notin tcp_reads[s] => shut
            /\ id \in tcp_connections[z] /\ app[z][id] # "closed" => Len(got[z][id]) = e
            /\ id \notin tcp_connections[z] /\ app[z][id] = "open"
                 => id \notin tcp_reads[s] /\ y = <<>> /\ Len(got[z][id]) = k
      BY <1>3, <2>1, Zenon DEF Live, Forwards, z
    <3>4. Forwards(z, id, Append(y, m))'
      <4>1. shut = FALSE
        BY <1>1, <3>3
      <4>2. PICK q \in Nat : /\ Reading(s, id, q)'
                             /\ Carries(Append(y, m), id, e, q, id \notin tcp_reads'[s])
        BY <1>7, <3>3, <4>1
      <4>3. Served(z, id, e)' /\ UNCHANGED <<app, got>>
        BY <1>1, <3>3 DEF Served
      <4>4. id \in tcp_connections'[z] <=> id \in tcp_connections[z]
        BY <1>3 DEF Same
      <4>5. ~ (id \notin tcp_connections'[z] /\ app'[z][id] = "open")
        BY <1>1, <3>3, <4>3, <4>4
      <4> DEFINE shuts == id \notin tcp_reads'[s]
      <4>6. /\ Carries(Append(y, m), id, e, q, shuts) /\ Reading(Far(z), id, q)'
            /\ shuts \in BOOLEAN
            /\ shuts => id \notin tcp_reads'[Far(z)]
            /\ id \in tcp_connections'[z] /\ id \notin tcp_reads'[Far(z)] => shuts
            /\ id \in tcp_connections'[z] /\ app'[z][id] # "closed" => Len(got'[z][id]) = e
        BY <1>3, <3>3, <4>2, <4>3, <4>4
      <4> HIDE DEF shuts
      <4>7. QED
        BY <3>3, <4>2, <4>3, <4>5, <4>6, Zenon DEF Forwards
    <3>5. Live(s, id, x, Append(y, m))'
      BY <3>2, <3>4, Zenon DEF Live, z
    <3>6. QED
      BY <3>5, LiveStands
  <2>2. CASE s # Owner(id) /\ Answered(z, id, y, x)
    <3>1. /\ Asking(z, id) /\ x = <<>> /\ got[s][id] = <<>>
          /\ app[s][id] = "open" => id \in tcp_connections[s]
          /\ y # <<>> /\ Head(y) = AnswerOf(id, TRUE)
          /\ \E n \in Nat : /\ Reading(s, id, n)
                            /\ Carries(Tail(y), id, 0, n, id \notin tcp_reads[s])
      BY <1>3, <2>2, Zenon DEF Answered
    <3>2. PICK n \in Nat : /\ Reading(s, id, n)
                           /\ Carries(Tail(y), id, 0, n, id \notin tcp_reads[s])
      BY <3>1
    <3>3. /\ Tail(y) \in Seq(Msg) /\ Append(y, m) # <<>> /\ Head(Append(y, m)) = Head(y)
          /\ Tail(Append(y, m)) = Append(Tail(y), m)
      BY <1>4, <3>1
    <3>4. (id \notin tcp_reads[s]) = FALSE
      BY <1>1
    <3>5. \E k \in Nat : /\ Reading(s, id, k)'
                         /\ Carries(Append(Tail(y), m), id, 0, k, id \notin tcp_reads'[s])
      BY <1>7, <3>2, <3>3, <3>4
    <3>6. Asking(z, id)' /\ got'[s][id] = <<>>
      BY <1>1, <1>3, <3>1, FarSide
    <3>7. app'[s][id] = "open" => id \in tcp_connections'[s]
      BY <1>1, <1>8, <3>1 DEF Ended
    <3>8. Answered(z, id, Append(y, m), x)'
      BY <1>3, <3>1, <3>3, <3>5, <3>6, <3>7, Zenon DEF Answered
    <3>9. QED
      BY <2>2, <3>8, Zenon DEF Stands, Stage, z
  <2>3. QED
    BY <1>1, <1>2, <2>1, <2>2, ReadersStand DEF z
<1>11. \A t \in Sides : tcp_pending_writes'[t][id] = <<>>
  BY <1>1 DEF ConInv
<1>12. UNCHANGED next_tcp_con_id
  BY <1>1
<1>13. From(s, id)'
  BY <1>2, <1>5, <1>6, <1>9, <1>10, <1>11, <1>12, Zenon DEF From, z
<1>14. QED
  BY <1>13, FromEither

\* The message a side takes is the first one on its way for the connection.
LEMMA TakesFirst ==
  ASSUME Types, NEW s \in Sides, NEW id \in ConIds, ConInv(id), messages[s] # <<>>,
         Head(messages[s]).id = id, messages'[s] = Tail(messages[s])
  PROVE  /\ \A t \in Sides : tcp_pending_writes[t][id] = <<>>
         /\ \E x, y \in Seq(Msg) :
              /\ Part(messages'[s], id, Tail(x)) /\ Part(messages[Far(s)], id, y)
              /\ x # <<>> /\ Head(x) = Head(messages[s]) /\ Tail(x) \in Seq(Msg)
              /\ Stands(s, id, x, y)
              /\ ~ (id >= next_tcp_con_id[Owner(id)])
<1>1. PICK x, y \in Seq(Msg) :
        /\ Part(messages[s], id, x) /\ Part(messages[Far(s)], id, y)
        /\ Stands(s, id, x, y)
        /\ id >= next_tcp_con_id[Owner(id)] => Unused(s, id, x, y)
  BY FromPieces
<1>2. messages[s] \in Seq(Msg)
  BY DEF Types
<1>3. x # <<>> /\ Head(x) = Head(messages[s]) /\ Part(Tail(messages[s]), id, Tail(x))
  BY <1>1, <1>2, PartTail
<1>4. Tail(x) \in Seq(Msg)
  BY <1>3
<1>5. ~ Unused(s, id, x, y)
  BY <1>3 DEF Unused
<1>6. \A t \in Sides : tcp_pending_writes[t][id] = <<>>
  BY DEF ConInv
<1>7. QED
  BY <1>1, <1>3, <1>4, <1>5, <1>6

\* handle_tcp_connect keeps the invariant of its connection: the question it
\* handles is the one that was asked, and its answer is the only message.
LEMMA HandleTcpConnectKeeps ==
  ASSUME Types, NEW s \in Sides, HandleTcpConnect(s),
         NEW id, id = Head(messages[s]).id, \A j \in ConIds : ConInv(j)
  PROVE  ConInv(id)'
<1> DEFINE z == Far(s)
<1>1. /\ id \in ConIds /\ SameBut(s, id)
      /\ UNCHANGED <<next_tcp_con_id, tcp_pending, written, unread, got>>
      /\ messages[s] # <<>> /\ Head(messages[s]) = ConnectOf(id)
      /\ messages'[s] = Tail(messages[s])
      /\ tcp_pending_writes'[s][id] = <<>>
      /\ \/ /\ id \in tcp_connections'[s] /\ id \in tcp_reads'[s]
            /\ app'[s][id] = "open"
            /\ messages'[z] = Append(messages[z], AnswerOf(id, TRUE))
         \/ /\ UNCHANGED <<tcp_connections, tcp_reads, app>>
            /\ messages'[z] = Append(messages[z], AnswerOf(id, FALSE))
  <2>1. id \in ConIds => tcp_pending_writes[s][id] = <<>>
    BY DEF ConInv
  <2>2. QED
    BY <2>1, HandleTcpConnectEffect
<1>2. ConInv(id)
  BY <1>1
<1>3. PICK x, y \in Seq(Msg) :
        /\ Part(messages'[s], id, Tail(x)) /\ Part(messages[z], id, y)
        /\ x # <<>> /\ Head(x) = Head(messages[s]) /\ Tail(x) \in Seq(Msg)
        /\ Stands(s, id, x, y)
        /\ ~ (id >= next_tcp_con_id[Owner(id)])
  BY <1>1, <1>2, TakesFirst
<1>4. z \in Sides /\ z # s /\ Far(z) = s /\ Same(z, id) /\ messages[z] \in Seq(Msg)
  BY <1>1, TwoSides DEF SameBut, Types
<1>5. s # Owner(id) /\ Asked(z, id, y, x)
  <2>1. Head(x).type = "TcpConnect"
    BY <1>1, <1>3 DEF ConnectOf
  <2>2. QED
    BY <1>1, <1>3, <2>1, HeadTells
<1>6. Asking(z, id) /\ Idle(s, id) /\ y = <<>> /\ x = <<ConnectOf(id)>>
  BY <1>4, <1>5 DEF Asked
<1>7. Tail(x) = <<>>
  BY <1>6
<1>8. Asking(z, id)'
  BY <1>4, <1>6, FarSide
<1> HIDE DEF z
<1>9. PICK b \in BOOLEAN : /\ messages'[z] = Append(messages[z], AnswerOf(id, b))
                           /\ Stands(s, id, Tail(x), <<AnswerOf(id, b)>>)'
  <2>1. CASE /\ id \in tcp_connections'[s] /\ id \in tcp_reads'[s]
             /\ app'[s][id] = "open"
             /\ messages'[z] = Append(messages[z], AnswerOf(id, TRUE))
    <3>1. /\ unread'[s][id] = <<>> /\ written'[s][id] = 0 /\ got'[s][id] = <<>>
          /\ id \notin tcp_pending'[s]
      BY <1>1, <1>6 DEF Idle
    <3>2. Left(<<>>, 0, 0, FALSE)
      BY DEF Left
    <3>3. Ended(s, id)' = FALSE
      BY <2>1 DEF Ended
    <3>4. Left(unread'[s][id], 0, written'[s][id], Ended(s, id)')
      BY <3>1, <3>2, <3>3
    <3>5. Reading(s, id, 0)'
      <4>1. Unread(s, id, 0)'
        BY <3>4, Zenon DEF Unread
      <4>2. app'[s][id] # "none"
        BY <2>1
      <4>3. QED
        BY <2>1, <3>1, <4>1, <4>2, Zenon DEF Reading
    <3>6. Carries(Tail(<<AnswerOf(id, TRUE)>>), id, 0, 0, id \notin tcp_reads'[s])
      <4>1. (id \notin tcp_reads'[s]) = FALSE /\ Tail(<<AnswerOf(id, TRUE)>>) = <<>>
        BY <2>1
      <4>2. Carries(<<>>, id, 0, 0, FALSE)
        BY CarriesNothing
      <4>3. QED
        BY <4>1, <4>2
    <3>7. Answered(z, id, <<AnswerOf(id, TRUE)>>, <<>>)'
      <4>1. <<AnswerOf(id, TRUE)>> # <<>> /\ Head(<<AnswerOf(id, TRUE)>>) = AnswerOf(id, TRUE)
        OBVIOUS
      <4>2. 0 \in Nat
        OBVIOUS
      <4>3. QED
        BY <1>4, <1>8, <2>1, <3>1, <3>5, <3>6, <4>1, <4>2, Zenon DEF Answered
    <3>8. Stands(s, id, Tail(x), <<AnswerOf(id, TRUE)>>)'
      BY <1>5, <1>7, <3>7, Zenon DEF Stands, Stage, z
    <3>9. TRUE \in BOOLEAN
      OBVIOUS
    <3>10. QED
      BY <2>1, <3>8, <3>9
  <2>2. CASE /\ UNCHANGED <<tcp_connections, tcp_reads, app>>
             /\ messages'[z] = Append(messages[z], AnswerOf(id, FALSE))
    <3>1. Idle(s, id)'
      BY <1>1, <1>6, <2>2 DEF Idle
    <3>2. Refused(z, id, <<AnswerOf(id, FALSE)>>, <<>>)'
      BY <1>4, <1>8, <3>1, Zenon DEF Refused
    <3>3. Stands(s, id, Tail(x), <<AnswerOf(id, FALSE)>>)'
      BY <1>5, <1>7, <3>2, Zenon DEF Stands, Stage, z
    <3>4. FALSE \in BOOLEAN
      OBVIOUS
    <3>5. QED
      BY <2>2, <3>3, <3>4
  <2>3. QED
    BY <1>1, <2>1, <2>2 DEF z
<1>10. AnswerOf(id, b) \in Msg /\ AnswerOf(id, b).id = id
  BY <1>1, MsgOf
<1>11. Part(messages'[z], id, Append(y, AnswerOf(id, b)))
  BY <1>3, <1>4, <1>9, <1>10, PartAppend
<1>12. Append(y, AnswerOf(id, b)) = <<AnswerOf(id, b)>> /\ <<AnswerOf(id, b)>> \in Seq(Msg)
  BY <1>6, <1>10
<1>13. \A t \in Sides : tcp_pending_writes'[t][id] = <<>>
  BY <1>1, <1>2, WritesStayEmpty
<1>14. From(s, id)'
  <2>1. ~ (id >= next_tcp_con_id[Owner(id)])'
    BY <1>1, <1>3
  <2>2. Part(messages'[z], id, <<AnswerOf(id, b)>>)
    BY <1>11, <1>12
  <2>3. QED
    BY <1>3, <1>9, <1>12, <1>13, <2>1, <2>2, Zenon DEF From, z
<1>15. QED
  BY <1>14, FromEither

\* handle_tcp_connect_result keeps the invariant of its connection: payloads and
\* the close of the far side come after its answer.
LEMMA HandleTcpConnectResultKeeps ==
  ASSUME Types, NEW s \in Sides, HandleTcpConnectResult(s),
         NEW id, id = Head(messages[s]).id, \A j \in ConIds : ConInv(j)
  PROVE  ConInv(id)'
<1> DEFINE z == Far(s)
<1>1. /\ id \in ConIds /\ SameBut(s, id)
      /\ UNCHANGED <<next_tcp_con_id, written, unread, got>>
      /\ messages[s] # <<>> /\ messages'[s] = Tail(messages[s])
      /\ messages'[z] = messages[z]
      /\ Head(messages[s]).type = "TcpConnectResult"
      /\ tcp_pending_writes'[s][id] = <<>>
      /\ id \in tcp_pending[s] /\ id \notin tcp_pending'[s]
      /\ \/ /\ Head(messages[s]) = AnswerOf(id, TRUE)
            /\ id \in tcp_connections'[s] /\ id \in tcp_reads'[s]
            /\ UNCHANGED app
         \/ /\ Head(messages[s]) = AnswerOf(id, FALSE)
            /\ app'[s][id] = "closed" /\ UNCHANGED <<tcp_connections, tcp_reads>>
  <2>1. id \in ConIds => tcp_pending_writes[s][id] = <<>>
    BY DEF ConInv
  <2>2. Decides(s, id)
    BY <2>1, HandleTcpConnectResultEffect
  <2>3. QED
    BY <2>2 DEF Decides
<1>2. ConInv(id)
  BY <1>1
<1>3. PICK x, y \in Seq(Msg) :
        /\ Part(messages'[s], id, Tail(x)) /\ Part(messages[z], id, y)
        /\ x # <<>> /\ Head(x) = Head(messages[s]) /\ Tail(x) \in Seq(Msg)
        /\ Stands(s, id, x, y)
        /\ ~ (id >= next_tcp_con_id[Owner(id)])
  BY <1>1, <1>2, TakesFirst
<1>4. z \in Sides /\ z # s /\ Far(z) = s /\ Same(z, id)
  BY <1>1, TwoSides DEF SameBut
<1>5. s = Owner(id) /\ (Refused(s, id, x, y) \/ Answered(s, id, x, y))
  BY <1>1, <1>3, HeadTells
<1>6. Asking(s, id) /\ y = <<>>
  BY <1>5 DEF Refused, Answered
<1>7. AnswerOf(id, TRUE) # AnswerOf(id, FALSE)
  BY DEF AnswerOf
<1> HIDE DEF z
<1>8. Stands(s, id, Tail(x), y)'
  <2>1. CASE /\ Head(messages[s]) = AnswerOf(id, TRUE)
             /\ id \in tcp_connections'[s] /\ id \in tcp_reads'[s]
             /\ UNCHANGED app
    <3>1. Answered(s, id, x, y)
      <4>1. Refused(s, id, x, y) => Head(x) = AnswerOf(id, FALSE)
        BY DEF Refused
      <4>2. QED
        BY <1>3, <1>5, <1>7, <2>1, <4>1
    <3>2. /\ got[z][id] = <<>>
          /\ app[z][id] = "open" => id \in tcp_connections[z]
      BY <3>1, Zenon DEF Answered, z
    <3>3. PICK n \in Nat : /\ Reading(z, id, n)
                           /\ Carries(Tail(x), id, 0, n, id \notin tcp_reads[z])
      BY <3>1, Zenon DEF Answered, z
    <3>4. Same(z, id)
      BY <1>4
    <3>5. Reading(z, id, n)'
      BY <3>3, <3>4, FarSide
    <3>6. got'[s][id] = <<>> /\ Len(got'[s][id]) = 0
      BY <1>1, <1>6 DEF Asking
    <3>7. got'[z][id] = <<>> /\ Len(got'[z][id]) = 0
      BY <1>1, <3>2
    <3>8. Served(s, id, 0)' /\ Served(z, id, 0)'
      BY <3>6, <3>7 DEF Served
    <3>9. Forwards(s, id, Tail(x))'
      <4> DEFINE close == id \notin tcp_reads'[z]
      <4>1. /\ Carries(Tail(x), id, 0, n, close) /\ close \in BOOLEAN /\ 0 \in Nat
            /\ close => id \notin tcp_reads'[z]
            /\ id \in tcp_connections'[s] /\ id \notin tcp_reads'[z] => close
        BY <3>3, <3>4 DEF Same
      <4> HIDE DEF close
      <4>2. QED
        BY <2>1, <3>3, <3>5, <3>6, <3>8, <4>1, Zenon DEF Forwards, z
    <3>10. Reading(s, id, 0)'
      <4>1. Unread(s, id, 0) /\ app[s][id] # "none"
        BY <1>6 DEF Asking
      <4>2. Unread(s, id, 0)'
        BY <1>1, <2>1, <4>1, Zenon DEF Unread, Ended
      <4>3. QED
        BY <1>1, <2>1, <4>1, <4>2, Zenon DEF Reading
    <3>11. Forwards(z, id, y)'
      <4>1. Carries(y, id, 0, 0, FALSE) /\ 0 \in Nat /\ FALSE \in BOOLEAN
        BY <1>6, CarriesNothing
      <4>2. app'[z][id] = "open" => id \in tcp_connections'[z]
        BY <3>2, <3>4 DEF Same
      <4>3. QED
        BY <1>4, <2>1, <3>7, <3>8, <3>10, <4>1, <4>2, Zenon DEF Forwards
    <3>12. Live(s, id, Tail(x), y)'
      BY <3>9, <3>11, Zenon DEF Live, z
    <3>13. QED
      BY <3>12, LiveStands
  <2>2. CASE /\ Head(messages[s]) = AnswerOf(id, FALSE)
             /\ app'[s][id] = "closed" /\ UNCHANGED <<tcp_connections, tcp_reads>>
    <3>1. Refused(s, id, x, y)
      <4>1. Answered(s, id, x, y) => Head(x) = AnswerOf(id, TRUE)
        BY Zenon DEF Answered
      <4>2. QED
        BY <1>3, <1>5, <1>7, <2>2, <4>1
    <3>2. Idle(z, id) /\ x = <<AnswerOf(id, FALSE)>>
      BY <3>1 DEF Refused, z
    <3>3. Idle(z, id)' /\ Tail(x) = <<>>
      BY <1>4, <3>2, FarSide
    <3>4. /\ id \notin tcp_connections'[s] /\ id \notin tcp_reads'[s]
          /\ got'[s][id] = <<>>
      BY <1>1, <1>6, <2>2 DEF Asking
    <3>5. Failed(s, id, Tail(x), y)'
      BY <1>1, <1>6, <2>2, <3>3, <3>4 DEF Failed, z
    <3>6. QED
      BY <1>5, <3>5, Zenon DEF Stands, Stage
  <2>3. QED
    BY <1>1, <2>1, <2>2
<1>9. \A t \in Sides : tcp_pending_writes'[t][id] = <<>>
  BY <1>1, <1>2, WritesStayEmpty
<1>10. From(s, id)'
  <2>1. ~ (id >= next_tcp_con_id[Owner(id)])'
    BY <1>1, <1>3
  <2>2. Part(messages'[z], id, y)
    BY <1>1, <1>3 DEF z
  <2>3. QED
    BY <1>3, <1>8, <1>9, <2>1, <2>2, Zenon DEF From, z
<1>11. QED
  BY <1>10, FromEither

\* A side of a connection in use does not wait for an answer.
LEMMA InUse ==
  ASSUME NEW s \in Sides, NEW id, NEW x, NEW y, Live(s, id, x, y)
  PROVE  id \notin tcp_pending[s]
<1>1. \E n : Reading(s, id, n)
  BY TwoSides, Zenon DEF Live, Forwards
<1>2. QED
  BY <1>1, Zenon DEF Reading

\* A payload finds a connection that is in use: its question was answered.
LEMMA SendFindsNoQuestion ==
  ASSUME Types, NEW s \in Sides, HandleTcpSend(s),
         NEW id, id = Head(messages[s]).id, \A j \in ConIds : ConInv(j), id \in ConIds
  PROVE  id \notin tcp_pending[s]
<1>1. messages[s] # <<>> /\ messages' = Handled(s) /\ Head(messages[s]).type = "TcpSend"
  BY DEF HandleTcpSend, Incoming
<1>2. messages'[s] = Tail(messages[s]) /\ ConInv(id)
  BY <1>1, HandledIs
<1>3. PICK x, y \in Seq(Msg) :
        x # <<>> /\ Head(x) = Head(messages[s]) /\ Stands(s, id, x, y)
  BY <1>1, <1>2, TakesFirst
<1>4. Live(s, id, x, y)
  <2>1. Head(x).type \in {"TcpSend", "TcpClose"}
    BY <1>1, <1>3
  <2>2. QED
    BY <1>3, <2>1, HeadTells
<1>5. QED
  BY <1>4, InUse

\* handle_tcp_send keeps the invariant of its connection: an application that is
\* still there is given the payload that comes next.
LEMMA HandleTcpSendKeeps ==
  ASSUME Types, NEW s \in Sides, HandleTcpSend(s),
         NEW id, id = Head(messages[s]).id, \A j \in ConIds : ConInv(j)
  PROVE  ConInv(id)'
<1> DEFINE z == Far(s)
<1>1. messages[s] # <<>> /\ messages' = Handled(s) /\ Head(messages[s]).type = "TcpSend"
  BY DEF HandleTcpSend, Incoming
<1>2. id \in ConIds /\ messages'[s] = Tail(messages[s])
  <2>1. messages'[s] = Tail(messages[s]) /\ Head(messages[s]) \in Msg
    BY <1>1, HandledIs
  <2>2. QED
    BY <2>1, MsgIs
<1>3. ConInv(id)
  BY <1>2
<1>4. PICK x, y \in Seq(Msg) :
        /\ Part(messages'[s], id, Tail(x)) /\ Part(messages[z], id, y)
        /\ x # <<>> /\ Head(x) = Head(messages[s]) /\ Tail(x) \in Seq(Msg)
        /\ Stands(s, id, x, y)
        /\ ~ (id >= next_tcp_con_id[Owner(id)])
  BY <1>1, <1>2, <1>3, TakesFirst
<1>5. Live(s, id, x, y)
  <2>1. Head(x).type \in {"TcpSend", "TcpClose"}
    BY <1>1, <1>4
  <2>2. QED
    BY <1>2, <1>4, <2>1, HeadTells
<1>6. /\ SameBut(s, id)
      /\ UNCHANGED <<next_tcp_con_id, tcp_pending, tcp_connections, tcp_reads,
                     tcp_pending_writes, app, written, unread>>
      /\ messages'[z] = messages[z]
      /\ Head(x) = SendOf(id, Head(x).payload)
      /\ got'[s][id] = IF app[s][id] # "closed" /\ id \in tcp_connections[s]
                       THEN Append(got[s][id], Head(x).payload) ELSE got[s][id]
  <2>1. id \in ConIds => tcp_pending_writes[s][id] = <<>> /\ id \notin tcp_pending[s]
    BY <1>3, <1>5, InUse DEF ConInv
  <2>2. QED
    BY <1>4, <2>1, HandleTcpSendEffect
<1>7. z \in Sides /\ z # s /\ Far(z) = s /\ Same(z, id)
  BY <1>2, <1>6, TwoSides DEF SameBut
<1> HIDE DEF z
<1>8. PICK d, n \in Nat, close \in BOOLEAN :
        /\ Carries(x, id, d, n, close) /\ Reading(z, id, n) /\ Served(s, id, d)
        /\ close => id \notin tcp_reads[z]
        /\ id \in tcp_connections[s] /\ id \notin tcp_reads[z] => close
        /\ id \in tcp_connections[s] /\ app[s][id] # "closed" => Len(got[s][id]) = d
        /\ id \notin tcp_connections[s] /\ app[s][id] = "open"
             => id \notin tcp_reads[z] /\ x = <<>> /\ Len(got[s][id]) = n
  BY <1>5, Zenon DEF Live, Forwards, z
<1>9. Head(x).payload = d + 1 /\ Carries(Tail(x), id, d + 1, n, close) /\ d + 1 \in Nat
  <2>1. Head(x) # CloseOf(id)
    BY <1>6 DEF SendOf, CloseOf
  <2>2. /\ Head(x) = SendOf(id, d + 1) /\ Carries(Tail(x), id, d + 1, n, close)
        /\ d + 1 \in Nat
    BY <1>2, <1>4, <1>8, <2>1, CarriesHead
  <2>3. QED
    BY <2>2 DEF SendOf
<1>10. /\ Served(s, id, d + 1)'
       /\ id \in tcp_connections[s] /\ app[s][id] # "closed" => Len(got'[s][id]) = d + 1
  <2> DEFINE g == got[s][id]
             h == got'[s][id]
  <2>1. /\ g \in Seq(Nat) /\ Len(g) <= d /\ \A i \in 1 .. Len(g) : g[i] = i
    <3>1. got \in [Sides -> [ConIds -> Seq(Nat)]]
      BY DEF Types
    <3>2. QED
      BY <1>2, <1>8, <3>1 DEF Served
  <2>2. CASE app[s][id] # "closed" /\ id \in tcp_connections[s]
    <3>1. h = Append(g, d + 1) /\ Len(g) = d
      BY <1>6, <1>8, <1>9, <2>2
    <3> HIDE DEF g, h
    <3>2. /\ Len(h) = d + 1 /\ h[d + 1] = d + 1 /\ \A i \in 1 .. d : h[i] = g[i]
      BY <2>1, <3>1
    <3>3. \A i \in 1 .. d + 1 : h[i] = i
      BY <2>1, <3>1, <3>2
    <3>4. Len(h) <= d + 1 /\ \A i \in 1 .. Len(h) : h[i] = i
      BY <3>2, <3>3
    <3>5. QED
      BY <3>2, <3>4 DEF Served, h
  <2>3. CASE ~ (app[s][id] # "closed" /\ id \in tcp_connections[s])
    <3>1. h = g
      BY <1>6, <2>3
    <3> HIDE DEF g, h
    <3>2. Len(h) <= d + 1 /\ \A i \in 1 .. Len(h) : h[i] = i
      BY <2>1, <3>1
    <3>3. QED
      BY <2>3, <3>2 DEF Served, h
  <2>4. QED
    BY <2>2, <2>3
<1>11. Forwards(s, id, Tail(x))'
  <2>1. Reading(z, id, n)'
    BY <1>7, <1>8, FarSide
  <2>2. ~ (id \notin tcp_connections[s] /\ app[s][id] = "open")
    BY <1>4, <1>8
  <2>3. UNCHANGED <<tcp_connections, tcp_reads, app>>
    BY <1>6
  <2> DEFINE e == d + 1
  <2>4. /\ e \in Nat /\ Carries(Tail(x), id, e, n, close) /\ Served(s, id, e)'
        /\ id \in tcp_connections[s] /\ app[s][id] # "closed" => Len(got'[s][id]) = e
    BY <1>9, <1>10
  <2> HIDE DEF e
  <2>5. QED
    BY <1>8, <2>1, <2>2, <2>3, <2>4, Zenon DEF Forwards, z
<1>12. Forwards(z, id, y)'
  <2>1. PICK e, k \in Nat, shut \in BOOLEAN :
          /\ Carries(y, id, e, k, shut) /\ Reading(s, id, k) /\ Served(z, id, e)
          /\ shut => id \notin tcp_reads[s]
          /\ id \in tcp_connections[z] /\ id \notin tcp_reads[s] => shut
          /\ id \in tcp_connections[z] /\ app[z][id] # "closed" => Len(got[z][id]) = e
          /\ id \notin tcp_connections[z] /\ app[z][id] = "open"
               => id \notin tcp_reads[s] /\ y = <<>> /\ Len(got[z][id]) = k
    BY <1>5, <1>7, Zenon DEF Live, Forwards, z
  <2>2. Reading(s, id, k)'
    BY <1>6, <2>1, Zenon DEF Reading, Unread, Ended
  <2>3. Served(z, id, e)' /\ got'[z][id] = got[z][id]
    BY <1>7, <2>1, FarSide DEF Same
  <2>4. UNCHANGED <<tcp_connections, tcp_reads, app>>
    BY <1>6
  <2>5. QED
    BY <1>7, <2>1, <2>2, <2>3, <2>4, Zenon DEF Forwards
<1>13. Stands(s, id, Tail(x), y)'
  <2>1. Live(s, id, Tail(x), y)'
    BY <1>11, <1>12, Zenon DEF Live, z
  <2>2. QED
    BY <2>1, LiveStands
<1>14. \A t \in Sides : tcp_pending_writes'[t][id] = <<>>
  BY <1>3, <1>6 DEF ConInv
<1>15. From(s, id)'
  <2>1. ~ (id >= next_tcp_con_id[Owner(id)])'
    BY <1>4, <1>6
  <2>2. Part(messages'[z], id, y)
    BY <1>4, <1>6 DEF z
  <2>3. QED
    BY <1>4, <1>13, <1>14, <2>1, <2>2, Zenon DEF From, z
<1>16. QED
  BY <1>15, FromEither

\* handle_tcp_close keeps the invariant of its connection: when the close comes,
\* all that was sent before it was handled.
LEMMA HandleTcpCloseKeeps ==
  ASSUME Types, NEW s \in Sides, HandleTcpClose(s),
         NEW id, id = Head(messages[s]).id, \A j \in ConIds : ConInv(j)
  PROVE  ConInv(id)'
<1> DEFINE z == Far(s)
<1>1. /\ id \in ConIds /\ SameBut(s, id)
      /\ UNCHANGED <<next_tcp_con_id, tcp_reads, app, written, unread, got>>
      /\ messages[s] # <<>> /\ messages'[s] = Tail(messages[s])
      /\ messages'[z] = messages[z]
      /\ Head(messages[s]) = CloseOf(id)
      /\ tcp_pending_writes'[s][id] = <<>>
      /\ id \notin tcp_pending'[s] /\ id \notin tcp_connections'[s]
  BY HandleTcpCloseEffect
<1>2. ConInv(id)
  BY <1>1
<1>3. PICK x, y \in Seq(Msg) :
        /\ Part(messages'[s], id, Tail(x)) /\ Part(messages[z], id, y)
        /\ x # <<>> /\ Head(x) = Head(messages[s]) /\ Tail(x) \in Seq(Msg)
        /\ Stands(s, id, x, y)
        /\ ~ (id >= next_tcp_con_id[Owner(id)])
  BY <1>1, <1>2, TakesFirst
<1>4. Live(s, id, x, y)
  <2>1. Head(x).type \in {"TcpSend", "TcpClose"}
    BY <1>1, <1>3 DEF CloseOf
  <2>2. QED
    BY <1>1, <1>3, <2>1, HeadTells
<1>5. z \in Sides /\ z # s /\ Far(z) = s /\ Same(z, id)
  BY <1>1, TwoSides DEF SameBut
<1> HIDE DEF z
<1>6. PICK d, n \in Nat, close \in BOOLEAN :
        /\ Carries(x, id, d, n, close) /\ Reading(z, id, n) /\ Served(s, id, d)
        /\ close => id \notin tcp_reads[z]
        /\ id \in tcp_connections[s] /\ id \notin tcp_reads[z] => close
        /\ id \in tcp_connections[s] /\ app[s][id] # "closed" => Len(got[s][id]) = d
        /\ id \notin tcp_connections[s] /\ app[s][id] = "open"
             => id \notin tcp_reads[z] /\ x = <<>> /\ Len(got[s][id]) = n
  BY <1>4, Zenon DEF Live, Forwards, z
<1>7. close /\ d = n /\ Tail(x) = <<>>
  <2>1. \A k : CloseOf(id) # SendOf(id, k)
    BY DEF SendOf, CloseOf
  <2>2. QED
    BY <1>1, <1>3, <1>6, <2>1, CarriesHead
<1>8. Forwards(s, id, Tail(x))'
  <2>1. Reading(z, id, n)' /\ id \notin tcp_reads'[z]
    BY <1>5, <1>6, <1>7, FarSide DEF Same
  <2>2. Served(s, id, n)'
    BY <1>1, <1>6, <1>7, Zenon DEF Served
  <2>3. app[s][id] = "open" => Len(got[s][id]) = n
    BY <1>3, <1>6, <1>7
  <2>4. Carries(Tail(x), id, n, n, FALSE) /\ FALSE \in BOOLEAN
    BY <1>6, <1>7, CarriesNothing
  <2>5. UNCHANGED <<app, got>>
    BY <1>1
  <2>6. QED
    BY <1>1, <1>6, <1>7, <2>1, <2>2, <2>3, <2>4, <2>5, Zenon DEF Forwards, z
<1>9. Forwards(z, id, y)'
  <2>1. PICK e, k \in Nat, shut \in BOOLEAN :
          /\ Carries(y, id, e, k, shut) /\ Reading(s, id, k) /\ Served(z, id, e)
          /\ shut => id \notin tcp_reads[s]
          /\ id \in tcp_connections[z] /\ id \notin tcp_reads[s] => shut
          /\ id \in tcp_connections[z] /\ app[z][id] # "closed" => Len(got[z][id]) = e
          /\ id \notin tcp_connections[z] /\ app[z][id] = "open"
               => id \notin tcp_reads[s] /\ y = <<>> /\ Len(got[z][id]) = k
    BY <1>4, <1>5, Zenon DEF Live, Forwards, z
  <2>2. Reading(s, id, k)'
    BY <1>1, <2>1, Zenon DEF Reading, Unread, Ended
  <2>3. Served(z, id, e)'
    BY <1>5, <2>1, FarSide
  <2>4. /\ UNCHANGED <<tcp_reads, app, got>>
        /\ id \in tcp_connections'[z] <=> id \in tcp_connections[z]
    BY <1>1, <1>5 DEF Same
  <2>5. QED
    BY <1>5, <2>1, <2>2, <2>3, <2>4, Zenon DEF Forwards
<1>10. Stands(s, id, Tail(x), y)'
  <2>1. Live(s, id, Tail(x), y)'
    BY <1>8, <1>9, Zenon DEF Live, z
  <2>2. QED
    BY <2>1, LiveStands
<1>11. \A t \in Sides : tcp_pending_writes'[t][id] = <<>>
  BY <1>1, <1>2, WritesStayEmpty
<1>12. From(s, id)'
  <2>1. ~ (id >= next_tcp_con_id[Owner(id)])'
    BY <1>1, <1>3
  <2>2. Part(messages'[z], id, y)
    BY <1>1, <1>3 DEF z
  <2>3. QED
    BY <1>3, <1>10, <1>11, <2>1, <2>2, Zenon DEF From, z
<1>13. QED
  BY <1>12, FromEither

-----------------------------------------------------------------------------
(* The invariant.                                                          *)

ConnectionsInv == Types /\ \A id \in ConIds : ConInv(id)

\* No connection has begun.
LEMMA ConnectionsStart == Init => ConnectionsInv
<1> SUFFICES ASSUME Init PROVE ConnectionsInv
  OBVIOUS
<1> DEFINE each(v) == [s \in Sides |-> [id \in ConIds |-> v]]
<1>1. /\ next_tcp_con_id = [s \in Sides |-> IF s = Client THEN 1 ELSE 2]
      /\ tcp_pending = [s \in Sides |-> {}]
      /\ tcp_pending_writes = each(<<>>)
      /\ tcp_connections = [s \in Sides |-> {}]
      /\ tcp_reads = [s \in Sides |-> {}]
      /\ messages = [s \in Sides |-> <<>>]
      /\ app = each("none") /\ written = each(0)
      /\ unread = each(<<>>) /\ got = each(<<>>)
  BY DEF Init
<1>2. /\ <<>> \in Seq(Nat) /\ <<>> \in Seq(Msg)
  OBVIOUS
<1>3. Types
  <2>1. Client \in Sides /\ Server \in Sides /\ Client # Server
    BY ForwardingAssumption DEF Sides
  <2>2. /\ next_tcp_con_id \in [Sides -> Nat]
        /\ next_tcp_con_id[Client] = 1 /\ next_tcp_con_id[Server] = 2
    BY <1>1, <2>1
  <2>3. next_tcp_con_id[Client] % 2 = 1 /\ next_tcp_con_id[Server] % 2 = 0
    BY <2>2
  <2>4. /\ tcp_pending \in [Sides -> SUBSET ConIds]
        /\ tcp_connections \in [Sides -> SUBSET ConIds]
        /\ tcp_reads \in [Sides -> SUBSET ConIds]
        /\ messages \in [Sides -> Seq(Msg)]
    BY <1>1, <1>2
  <2>5. /\ tcp_pending_writes \in [Sides -> [ConIds -> Seq(Nat)]]
        /\ unread \in [Sides -> [ConIds -> Seq(Nat)]]
        /\ got \in [Sides -> [ConIds -> Seq(Nat)]]
        /\ written \in [Sides -> [ConIds -> Nat]]
        /\ app \in [Sides -> [ConIds -> {"none", "open", "shut", "closed"}]]
    BY <1>1, <1>2
  <2>6. QED
    BY <2>2, <2>3, <2>4, <2>5 DEF Types
<1>4. ASSUME NEW id \in ConIds PROVE ConInv(id)
  <2>1. \A s \in Sides : Idle(s, id) /\ messages[s] = <<>> /\ tcp_pending_writes[s][id] = <<>>
    BY <1>1 DEF Idle
  <2> DEFINE o == Owner(id)
  <2>2. o \in Sides /\ Far(o) \in Sides
    BY OwnerIsSide, TwoSides
  <2> HIDE DEF o
  <2>3. Unused(o, id, <<>>, <<>>)
    BY <2>1, <2>2 DEF Unused
  <2>4. Part(messages[o], id, <<>>) /\ Part(messages[Far(o)], id, <<>>)
    BY <2>1, <2>2, PartEmpty
  <2>5. Stage(o, id, <<>>, <<>>)
    BY <2>3, Zenon DEF Stage
  <2>6. QED
    BY <1>2, <2>1, <2>3, <2>4, <2>5, Zenon DEF ConInv, o
<1>5. QED
  BY <1>3, <1>4 DEF ConnectionsInv

\* Every step is about one connection and keeps its invariant.
LEMMA ConnectionsKept == ConnectionsInv /\ Next => ConnectionsInv'
<1> SUFFICES ASSUME ConnectionsInv, Next PROVE ConnectionsInv'
  OBVIOUS
<1>1. Types /\ \A j \in ConIds : ConInv(j)
  BY DEF ConnectionsInv
<1>2. ASSUME NEW id, About(id), Types', id \in ConIds, ConInv(id)' PROVE ConnectionsInv'
  <2>1. ASSUME NEW j \in ConIds PROVE ConInv(j)'
    BY <1>1, <1>2, OthersKept
  <2>2. QED
    BY <1>2, <2>1 DEF ConnectionsInv
<1>3. PICK s \in Sides :
        \/ Accept(s) \/ HandleMessage(s)
        \/ \E id \in ConIds : AppWrites(s, id) \/ AppEnds(s, id) \/ HandleTcpRead(s, id)
  BY DEF Next
<1>4. \A j \in ConIds : tcp_pending_writes[s][j] = <<>>
  BY <1>1 DEF ConInv
<1>5. CASE Accept(s)
  <2>1. PICK id : id = next_tcp_con_id[s]
    OBVIOUS
  <2>2. About(id) /\ Types' /\ id \in ConIds
    BY <1>1, <1>5, <2>1, AcceptEffect
  <2>3. ConInv(id)'
    BY <1>1, <1>5, <2>1, AcceptKeeps
  <2>4. QED
    BY <1>2, <2>2, <2>3
<1>6. CASE HandleTcpConnect(s)
  <2>1. PICK id : id = Head(messages[s]).id
    OBVIOUS
  <2>2. About(id) /\ Types' /\ id \in ConIds
    BY <1>1, <1>4, <1>6, <2>1, HandleTcpConnectEffect
  <2>3. ConInv(id)'
    BY <1>1, <1>6, <2>1, HandleTcpConnectKeeps
  <2>4. QED
    BY <1>2, <2>2, <2>3
<1>7. CASE HandleTcpConnectResult(s)
  <2>1. PICK id : id = Head(messages[s]).id
    OBVIOUS
  <2>2. Decides(s, id)
    BY <1>1, <1>4, <1>7, <2>1, HandleTcpConnectResultEffect
  <2>3. ConInv(id)'
    BY <1>1, <1>7, <2>1, HandleTcpConnectResultKeeps
  <2>4. QED
    BY <1>2, <2>2, <2>3, Zenon DEF Decides
<1>8. CASE HandleTcpSend(s)
  <2>1. PICK id : id = Head(messages[s]).id
    OBVIOUS
  <2>2. id \in ConIds => id \notin tcp_pending[s]
    BY <1>1, <1>8, <2>1, SendFindsNoQuestion
  <2>3. About(id) /\ Types' /\ id \in ConIds
    BY <1>1, <1>4, <1>8, <2>1, <2>2, HandleTcpSendEffect
  <2>4. ConInv(id)'
    BY <1>1, <1>8, <2>1, HandleTcpSendKeeps
  <2>5. QED
    BY <1>2, <2>3, <2>4
<1>9. CASE HandleTcpClose(s)
  <2>1. PICK id : id = Head(messages[s]).id
    OBVIOUS
  <2>2. About(id) /\ Types' /\ id \in ConIds
    BY <1>1, <1>9, <2>1, HandleTcpCloseEffect
  <2>3. ConInv(id)'
    BY <1>1, <1>9, <2>1, HandleTcpCloseKeeps
  <2>4. QED
    BY <1>2, <2>2, <2>3
<1>10. ASSUME NEW id \in ConIds,
              AppWrites(s, id) \/ AppEnds(s, id) \/ HandleTcpRead(s, id)
       PROVE  ConnectionsInv'
  <2>1. ConInv(id)
    BY <1>1
  <2>2. About(id) /\ Types'
    BY <1>1, <1>10, AppWritesEffect, AppEndsEffect, HandleTcpReadEffect
  <2>3. ConInv(id)'
    BY <1>1, <1>10, <2>1, AppWritesKeeps, AppEndsKeeps, HandleTcpReadKeeps
  <2>4. QED
    BY <1>2, <2>2, <2>3
<1>11. QED
  BY <1>3, <1>5, <1>6, <1>7, <1>8, <1>9, <1>10 DEF HandleMessage

\* A session that forwards datagrams has no connections.
LEMMA ConnectionsUntouched == ConnectionsInv /\ UNCHANGED vars => ConnectionsInv'
<1> SUFFICES ASSUME ConnectionsInv, UNCHANGED vars PROVE ConnectionsInv'
  OBVIOUS
<1>1. UNCHANGED <<next_tcp_con_id, tcp_pending, tcp_pending_writes, tcp_connections,
                  tcp_reads, messages, app, written, unread, got>>
  BY DEF vars, peerVars, appVars
<1>2. Types'
  BY <1>1 DEF ConnectionsInv, Types
<1>3. ASSUME NEW id \in ConIds PROVE ConInv(id)'
  <2> DEFINE o == Owner(id)
  <2>1. o \in Sides /\ Far(o) \in Sides
    BY OwnerIsSide, TwoSides
  <2>2. Same(o, id) /\ Same(Far(o), id)
    BY <1>1 DEF Same
  <2> HIDE DEF o
  <2>3. \A t \in Sides : tcp_pending_writes[t][id] = <<>>
    BY DEF ConnectionsInv, ConInv
  <2>4. PICK c, f \in Seq(Msg) :
          /\ Part(messages[o], id, c) /\ Part(messages[Far(o)], id, f)
          /\ Stage(o, id, c, f)
          /\ id >= next_tcp_con_id[o] => Unused(o, id, c, f)
    BY Zenon DEF ConnectionsInv, ConInv, o
  <2>5. Stage(o, id, c, f)' /\ (Unused(o, id, c, f) => Unused(o, id, c, f)')
    BY <2>1, <2>2, <2>4, StageSame
  <2>6. QED
    BY <1>1, <2>3, <2>4, <2>5, Zenon DEF ConInv, o
<1>4. QED
  BY <1>2, <1>3 DEF ConnectionsInv

\* The invariant of every reachable state.
THEOREM ConnectionsAlways == ForwardingSpec => []ConnectionsInv
<1>1. ForwardingInit => ConnectionsInv
  BY ConnectionsStart DEF ForwardingInit
<1>2. ConnectionsInv /\ [ForwardingNext]_allVars => ConnectionsInv'
  <2>1. ASSUME ConnectionsInv, ForwardingNext PROVE ConnectionsInv'
    BY <2>1, ConnectionsKept, ConnectionsUntouched DEF ForwardingNext
  <2>2. ASSUME ConnectionsInv, UNCHANGED allVars PROVE ConnectionsInv'
    <3>1. UNCHANGED vars
      BY <2>2 DEF allVars
    <3>2. QED
      BY <2>2, <3>1, ConnectionsUntouched
  <2>3. QED
    BY <2>1, <2>2
<1>3. QED
  BY <1>1, <1>2, PTL DEF ForwardingSpec

-----------------------------------------------------------------------------
(* What the invariant says of the applications.                            *)

\* A side that reads has been handed what was written up to payload n.
LEMMA ReadSoFar ==
  ASSUME Types, NEW s \in Sides, NEW id \in ConIds, NEW n, Reading(s, id, n), n \in Nat
  PROVE  /\ n <= written[s][id]
         /\ Ended(s, id) /\ unread[s][id] = <<>>
              => id \notin tcp_reads[s] /\ n = written[s][id]
<1>1. written[s][id] \in Nat
  BY DEF Types
<1>2. CASE id \in tcp_reads[s]
  <2> DEFINE u == unread[s][id]
             w == written[s][id]
             e == Ended(s, id)
  <2>1. Left(u, n, w, e)
    BY <1>2, Zenon DEF Reading, Unread
  <2>2. e \in BOOLEAN
    BY EndedBoolean
  <2> HIDE DEF u, w, e
  <2>3. n <= w /\ n \in Nat /\ w \in Nat /\ Len(u) = (w - n) + (IF e THEN 1 ELSE 0)
    BY <2>1 DEF Left
  <2>4. e => Len(u) # 0
    BY <2>3
  <2>5. u = <<>> => Len(u) = 0
    OBVIOUS
  <2>6. n <= w /\ ~ (e /\ u = <<>>)
    BY <2>3, <2>4, <2>5
  <2>7. QED
    BY <2>6 DEF u, w, e
<1>3. CASE id \notin tcp_reads[s]
  <2>1. n = written[s][id]
    BY <1>3, Zenon DEF Reading
  <2>2. QED
    BY <1>1, <1>3, <2>1
<1>4. QED
  BY <1>2, <1>3

\* What an application was given is the beginning of what was written to it.
LEMMA GotIsWritten ==
  ASSUME Types, NEW s \in Sides, NEW id \in ConIds, ConInv(id)
  PROVE  IsPrefix(got[s][id], [i \in 1 .. written[Far(s)][id] |-> i])
<1> DEFINE z == Far(s)
           g == got[s][id]
           w == written[z][id]
           t == [i \in 1 .. w |-> i]
<1>1. z \in Sides /\ z # s /\ Far(z) = s
  BY TwoSides
<1>2. g \in Seq(Nat) /\ w \in Nat
  BY <1>1 DEF Types
<1>3. PICK x, y \in Seq(Msg) : Stands(s, id, x, y)
  BY FromPieces
<1>4. Len(g) <= w /\ \A i \in 1 .. Len(g) : g[i] = i
  <2>1. g = <<>> \/ Live(s, id, x, y)
    <3>1. CASE s = Owner(id)
      <4>1. Stage(s, id, x, y)
        BY <1>3, <3>1 DEF Stands
      <4>2. QED
        BY <4>1, Zenon DEF Stage, Unused, Asked, Refused, Failed, Answered, Idle, Asking
    <3>2. CASE s # Owner(id)
      <4>1. Stage(z, id, y, x)
        BY <1>3, <3>2 DEF Stands
      <4>2. g = <<>> \/ Live(z, id, y, x)
        BY <1>1, <4>1, Zenon
           DEF Stage, Unused, Asked, Refused, Failed, Answered, Idle, Asking
      <4>3. QED
        BY <4>2, LiveEither
    <3>3. QED
      BY <3>1, <3>2
  <2>2. CASE g = <<>>
    <3>1. Len(g) = 0
      BY <2>2
    <3>2. QED
      BY <1>2, <3>1
  <2>3. CASE Live(s, id, x, y)
    <3>1. PICK d, n \in Nat, close \in BOOLEAN :
            Carries(x, id, d, n, close) /\ Reading(z, id, n) /\ Served(s, id, d)
      BY <2>3, Zenon DEF Live, Forwards
    <3>2. d <= n /\ n <= w
      <4>1. n <= w
        BY <1>1, <3>1, ReadSoFar
      <4>2. d <= n
        BY <3>1 DEF Carries
      <4>3. QED
        BY <4>1, <4>2
    <3>3. Len(g) <= d /\ \A i \in 1 .. Len(g) : g[i] = i
      BY <3>1, Zenon DEF Served
    <3>4. Len(g) \in Nat
      BY <1>2
    <3> HIDE DEF g, w
    <3>5. QED
      BY <1>2, <3>1, <3>2, <3>3, <3>4
  <2>4. QED
    BY <2>1, <2>2, <2>3
<1> HIDE DEF g, w
<1>5. t \in Seq(Nat) /\ Len(t) = w /\ \A i \in 1 .. w : t[i] = i
  BY <1>2
<1> HIDE DEF t
<1>6. IsPrefix(g, t)
  <2>1. SubSeq(g, 1, Len(g)) = g
    BY <1>2
  <2> DEFINE k == Len(g)
             p == SubSeq(t, 1, k)
  <2>2. k \in Nat /\ k <= w
    BY <1>2, <1>4
  <2>3. p \in Seq(Nat) /\ Len(p) = k /\ \A i \in 1 .. k : p[i] = t[i]
    BY <1>5, <2>2
  <2>4. p = g
    <3> HIDE DEF p
    <3>1. \A i \in 1 .. k : i \in 1 .. w
      BY <1>2, <2>2
    <3>2. \A i \in 1 .. k : p[i] = g[i]
      BY <1>4, <1>5, <2>3, <3>1
    <3>3. Len(p) = Len(g)
      BY <2>3
    <3>4. QED
      BY <1>2, <2>3, <3>2, <3>3, SeqEqual
  <2>5. QED
    BY <1>4, <1>5, <2>1, <2>4 DEF IsPrefix
<1>7. QED
  BY <1>6 DEF g, t, w

\* When all that the far side wrote was read and handled, and it has ended, the
\* application was given all of it.
LEMMA GotAllAtClose ==
  ASSUME Types, NEW s \in Sides, NEW id \in ConIds, ConInv(id),
         app[s][id] = "open", app[Far(s)][id] \in {"shut", "closed"},
         id \notin tcp_pending[Far(s)], unread[Far(s)][id] = <<>>,
         id \notin tcp_connections[Far(s)] \ tcp_reads[Far(s)],
         \A i \in 1 .. Len(messages[s]) : messages[s][i].id # id
  PROVE  Len(got[s][id]) = written[Far(s)][id]
<1> DEFINE z == Far(s)
<1>1. z \in Sides /\ z # s /\ Far(z) = s
  BY TwoSides
<1>2. PICK x, y \in Seq(Msg) : Part(messages[s], id, x) /\ Stands(s, id, x, y)
  BY FromPieces
<1>3. x = <<>>
  <2>1. messages[s] \in Seq(Msg)
    BY DEF Types
  <2>2. QED
    BY <1>2, <2>1, PartHas
<1>4. app[z][id] # "none" /\ app[s][id] # "none" /\ app[s][id] # "closed" /\ Ended(z, id)
  BY DEF Ended
<1>5. Live(s, id, x, y)
  <2>1. ~ Idle(s, id) /\ ~ Idle(z, id) /\ ~ Asking(z, id)
    BY <1>4 DEF Idle, Asking
  <2>2. CASE s = Owner(id)
    <3>1. Stage(s, id, x, y)
      BY <1>2, <2>2 DEF Stands
    <3>2. QED
      BY <1>3, <1>4, <2>1, <3>1, Zenon DEF Stage, Unused, Asked, Refused, Failed, Answered
  <2>3. CASE s # Owner(id)
    <3>1. Stage(z, id, y, x)
      BY <1>2, <2>3 DEF Stands
    <3>2. Live(z, id, y, x)
      BY <1>1, <2>1, <3>1, Zenon DEF Stage, Unused, Asked, Refused, Failed, Answered
    <3>3. QED
      BY <3>2, LiveEither
  <2>4. QED
    BY <2>2, <2>3
<1>6. PICK d, n \in Nat, close \in BOOLEAN :
        /\ Carries(x, id, d, n, close) /\ Reading(z, id, n)
        /\ id \in tcp_connections[s] /\ id \notin tcp_reads[z] => close
        /\ id \notin tcp_connections[s] /\ app[s][id] = "open" => Len(got[s][id]) = n
  BY <1>5, Zenon DEF Live, Forwards
<1>7. ~ close
  <2>1. Len(x) = 0
    BY <1>3
  <2>2. d \in Nat /\ n \in Nat /\ d <= n /\ Len(x) = (n - d) + (IF close THEN 1 ELSE 0)
    BY <1>6 DEF Carries
  <2>3. QED
    BY <2>1, <2>2
<1>8. id \notin tcp_reads[z] /\ n = written[z][id]
  BY <1>1, <1>4, <1>6, ReadSoFar
<1>9. QED
  BY <1>6, <1>7, <1>8

\* An application is given what the other end of its own connection wrote, in
\* order and without gaps, and all of it before the other end's close.
THEOREM TcpForwardedInOrder == ForwardingSpec => []ForwardedInOrder
<1>1. ConnectionsInv => ForwardedInOrder
  <2> SUFFICES ASSUME ConnectionsInv PROVE ForwardedInOrder
    OBVIOUS
  <2>1. Types /\ \A id \in ConIds : ConInv(id)
    BY DEF ConnectionsInv
  <2>2. \A s \in Sides, id \in ConIds :
          IsPrefix(got[s][id], [i \in 1 .. written[Far(s)][id] |-> i])
    BY <2>1, GotIsWritten
  <2>3. NothingLostAtClose
    BY <2>1, GotAllAtClose DEF NothingLostAtClose
  <2>4. QED
    BY <2>2, <2>3 DEF ForwardedInOrder
<1>2. QED
  BY <1>1, ConnectionsAlways, PTL

\* Of a connection that waits, the question or the answer is on its way.
LEMMA PendingWasAsked ==
  ASSUME Types, NEW s \in Sides, NEW id \in ConIds, ConInv(id), id \in tcp_pending[s]
  PROVE  \/ \E i \in DOMAIN messages[Far(s)] : messages[Far(s)][i] = ConnectOf(id)
         \/ \E i \in DOMAIN messages[s] :
              /\ messages[s][i].type \in {"TcpConnectResult", "TcpClose"}
              /\ messages[s][i].id = id
<1> DEFINE z == Far(s)
<1>1. z \in Sides /\ z # s /\ Far(z) = s
  BY TwoSides
<1>2. PICK x, y \in Seq(Msg) :
        Part(messages[s], id, x) /\ Part(messages[z], id, y) /\ Stands(s, id, x, y)
  BY FromPieces
<1>3. messages[s] \in Seq(Msg) /\ messages[z] \in Seq(Msg)
  BY <1>1 DEF Types
<1>4. ~ Idle(s, id) /\ ~ Live(s, id, x, y) /\ \A n : ~ Reading(s, id, n)
  <2>1. ~ Live(s, id, x, y)
    BY InUse
  <2>2. QED
    BY <2>1, Zenon DEF Idle, Reading
<1>5. Asked(s, id, x, y) \/ Refused(s, id, x, y) \/ Answered(s, id, x, y)
  <2>1. CASE s = Owner(id)
    <3>1. Stage(s, id, x, y)
      BY <1>2, <2>1 DEF Stands
    <3>2. ~ Failed(s, id, x, y)
      BY DEF Failed
    <3>3. QED
      BY <1>4, <3>1, <3>2, Zenon DEF Stage, Unused
  <2>2. CASE s # Owner(id)
    <3>1. Stage(z, id, y, x)
      BY <1>2, <2>2 DEF Stands
    <3>2. ~ Live(z, id, y, x)
      BY <1>4, LiveEither
    <3>3. QED
      BY <1>1, <1>4, <3>1, <3>2, Zenon DEF Stage, Unused, Asked, Refused, Failed, Answered
  <2>3. QED
    BY <2>1, <2>2
<1>6. CASE Asked(s, id, x, y)
  <2>1. y = <<ConnectOf(id)>>
    BY <1>6 DEF Asked
  <2>2. 1 \in 1 .. Len(y) /\ y[1] = ConnectOf(id)
    BY <2>1
  <2>3. \E k \in 1 .. Len(messages[z]) : messages[z][k] = ConnectOf(id)
    <3>1. \E k \in 1 .. Len(messages[z]) : messages[z][k] = y[1]
      BY <1>2, <1>3, <2>2, PartHas
    <3>2. QED
      BY <2>2, <3>1
  <2>4. DOMAIN messages[z] = 1 .. Len(messages[z])
    BY <1>3
  <2>5. QED
    BY <2>3, <2>4
<1>7. CASE Refused(s, id, x, y) \/ Answered(s, id, x, y)
  <2>1. x # <<>> /\ \E b \in BOOLEAN : Head(x) = AnswerOf(id, b)
    <3>1. CASE Refused(s, id, x, y)
      <4>1. x = <<AnswerOf(id, FALSE)>>
        BY <3>1 DEF Refused
      <4>2. x # <<>> /\ Head(x) = AnswerOf(id, FALSE) /\ FALSE \in BOOLEAN
        BY <4>1
      <4>3. QED
        BY <4>2
    <3>2. CASE Answered(s, id, x, y)
      BY <3>2, Zenon DEF Answered
    <3>3. QED
      BY <1>7, <3>1, <3>2
  <2>2. PICK b \in BOOLEAN : Head(x) = AnswerOf(id, b)
    BY <2>1
  <2>3. 1 \in 1 .. Len(x) /\ x[1] = Head(x)
    BY <2>1
  <2>4. PICK k \in 1 .. Len(messages[s]) : messages[s][k] = x[1]
    BY <1>2, <1>3, <2>3, PartHas, SMTT(30)
  <2>5. messages[s][k].type = "TcpConnectResult" /\ messages[s][k].id = id
    BY <2>2, <2>3, <2>4 DEF AnswerOf
  <2>6. k \in DOMAIN messages[s]
    BY <1>3
  <2>7. QED
    BY <2>5, <2>6
<1>8. QED
  BY <1>5, <1>6, <1>7

\* A connection both applications have ended is gone from both sides once all
\* was read and handled.
LEMMA EndedIsForgotten ==
  ASSUME Types, NEW s \in Sides, NEW id \in ConIds, ConInv(id),
         \A t \in Sides : /\ app[t][id] \in {"shut", "closed"}
                          /\ unread[t][id] = <<>> /\ messages[t] = <<>>
  PROVE  id \notin tcp_pending[s] \cup tcp_connections[s] \cup tcp_reads[s]
<1> DEFINE z == Far(s)
<1>1. z \in Sides /\ z # s /\ Far(z) = s
  BY TwoSides
<1>2. PICK x, y \in Seq(Msg) :
        Part(messages[s], id, x) /\ Part(messages[z], id, y) /\ Stands(s, id, x, y)
  BY FromPieces
<1>3. x = <<>> /\ y = <<>>
  <2>1. ASSUME NEW t \in Sides
        PROVE  messages[t] \in Seq(Msg) /\ \A k \in 1 .. Len(messages[t]) : messages[t][k].id # id
    <3>1. messages[t] \in Seq(Msg) /\ messages[t] = <<>>
      BY DEF Types
    <3>2. Len(messages[t]) = 0
      BY <3>1
    <3>3. QED
      BY <3>1, <3>2
  <2>2. QED
    BY <1>1, <1>2, <2>1, PartHas
<1>4. ~ Idle(s, id) /\ ~ Idle(z, id)
  <2>1. app[s][id] # "none" /\ app[z][id] # "none"
    BY <1>1
  <2>2. QED
    BY <2>1 DEF Idle
<1>5. Live(s, id, x, y)
  <2>1. CASE s = Owner(id)
    <3>1. Stage(s, id, x, y)
      BY <1>2, <2>1 DEF Stands
    <3>2. QED
      BY <1>3, <1>4, <3>1, Zenon DEF Stage, Unused, Asked, Refused, Failed, Answered
  <2>2. CASE s # Owner(id)
    <3>1. Stage(z, id, y, x)
      BY <1>2, <2>2 DEF Stands
    <3>2. Live(z, id, y, x)
      BY <1>1, <1>3, <1>4, <3>1, Zenon DEF Stage, Unused, Asked, Refused, Failed, Answered
    <3>3. QED
      BY <3>2, LiveEither
  <2>3. QED
    BY <2>1, <2>2
<1>6. PICK n \in Nat : Reading(s, id, n)
  BY <1>1, <1>5, Zenon DEF Live, Forwards
<1>7. id \notin tcp_reads[s]
  <2>1. Ended(s, id) /\ unread[s][id] = <<>>
    BY DEF Ended
  <2>2. QED
    BY <1>6, <2>1, ReadSoFar
<1>8. QED
  BY <1>6, <1>7, Zenon DEF Reading

\* A connection that waits for the other side will be decided, and of one that
\* is over neither side keeps anything.
THEOREM TcpNothingIsLeftBehind == ForwardingSpec => []NothingIsLeftBehind
<1>1. ConnectionsInv => NothingIsLeftBehind
  <2> SUFFICES ASSUME ConnectionsInv PROVE NothingIsLeftBehind
    OBVIOUS
  <2>1. Types /\ \A id \in ConIds : ConInv(id)
    BY DEF ConnectionsInv
  <2>2. PendingIsBeingDecided
    <3>1. \A s \in Sides : tcp_pending[s] \subseteq ConIds
      BY <2>1 DEF Types
    <3>2. QED
      BY <2>1, <3>1, PendingWasAsked DEF PendingIsBeingDecided, ConnectOf
  <2>3. BothDoneNothingLeft
    <3> SUFFICES ASSUME NEW id \in ConIds, NEW s \in Sides,
                        \A t \in Sides : app[t][id] \in {"shut", "closed"},
                        \A t \in Sides : unread[t][id] = <<>> /\ messages[t] = <<>>
                 PROVE  id \notin tcp_pending[s] \cup tcp_connections[s] \cup tcp_reads[s]
      BY DEF BothDoneNothingLeft
    <3>1. QED
      BY <2>1, EndedIsForgotten
  <2>4. QED
    BY <2>2, <2>3 DEF NothingIsLeftBehind
<1>2. QED
  BY <1>1, ConnectionsAlways, PTL

-----------------------------------------------------------------------------
(* Datagrams.  Where both sides have their binding, the datagrams that     *)
(* reached the socket of a side are cut into stretches, one for each place *)
(* they can be at, without a gap between two of them (Path).               *)

TunnelMsg == {Nothing, Notice} \cup {Datagram(n) : n \in Nat}
Quiet == {Nothing, Notice}
Addr == Apps \cup {None, Target, "lost"}
Inbound == [from : Addr, payload : Nat]
Outbound == [to : Addr, payload : Nat]

UdpTypes ==
  /\ bound \subseteq Sides
  /\ peer \in [Sides -> {"running", "sending", "dead", "ended"}]
  /\ loop \in [Sides -> {"selecting", "writing", "passing", "ended"}]
  /\ offered \in [Sides -> TunnelMsg] /\ carried \in [Sides -> TunnelMsg]
  /\ tx \in [Sides -> Seq(TunnelMsg)] /\ rx \in [Sides -> Seq(TunnelMsg)]
  /\ tunnel \in [Sides -> Seq(TunnelMsg)]
  /\ last_peer_addr \in Addr /\ pending_payloads \in Seq(Nat)
  /\ socket \in [Sides -> Seq(Inbound)]
  /\ arrived \in [Sides -> Nat]
  /\ given \in [Sides -> Seq(Outbound)]
  /\ \A s \in Sides :
       /\ peer[s] = "running" => offered[s] = Nothing
       /\ peer[s] = "ended" => loop[s] = "ended"
  /\ last_peer_addr # None => pending_payloads = <<>>

\* How many datagrams the NetworkPeer has read from its socket.
ReadBy(s) == arrived[s] - Len(socket[s])

\* The stretch a + 1 .. b of them: as payloads, as messages, as one message.
Counted(q, a, b) == Len(q) = b - a /\ \A i \in 1 .. b - a : q[i] = a + i
Span(q, a, b) == Len(q) = b - a /\ \A i \in 1 .. b - a : q[i] = Datagram(a + i)
One(x, has, a, b) == IF has THEN b = a + 1 /\ x = Datagram(b) ELSE b = a

\* What was sent from the socket is 1 .. a.
Handed(g, a) == Len(g) = a /\ \A i \in 1 .. a : g[i].payload = i

Pending(f) == IF f = LocalSide THEN pending_payloads ELSE <<>>

\* Of what s has read, f has sent on the first a, and the rest is at one place
\* after the other: it waits for somebody at f, is in the channel to its
\* NetworkPeer, in the hands of its loop, in the tunnel, in the hands of the loop
\* of s, in the channel from the NetworkPeer of s, and in its hands.  A task that
\* has ended takes what it held with it.
Path(s, f, a, b, c, d, e, g, h) ==
  /\ a <= b /\ b <= c /\ c <= d /\ d <= e /\ e <= g /\ g <= h /\ h <= ReadBy(s)
  /\ Handed(given[f], a)
  /\ peer[f] # "dead" => Counted(Pending(f), a, b) /\ Span(rx[f], b, c)
  /\ peer[f] # "dead" /\ loop[f] # "ended" => One(carried[f], loop[f] = "passing", c, d)
  /\ loop[f] # "ended" => Span(tunnel[f], d, e)
  /\ loop[f] # "ended" /\ loop[s] # "ended" => One(carried[s], loop[s] = "writing", e, g)
  /\ loop[s] # "ended" => Span(tx[s], g, h)
  /\ loop[s] # "ended" /\ peer[s] # "dead"
       => One(offered[s], peer[s] = "sending", h, ReadBy(s))
Way(s, f) == \E a, b, c, d, e, g, h \in Nat : Path(s, f, a, b, c, d, e, g, h)

\* What the socket holds is what comes next.
Arriving(s) ==
  /\ ReadBy(s) \in Nat
  /\ \A i \in 1 .. Len(socket[s]) : socket[s][i].payload = ReadBy(s) + i

\* A side without its binding sends no datagram.
Silent(s, f) ==
  /\ socket[s] = <<>>
  /\ rx[f] \in Seq(Quiet) /\ tunnel[f] \in Seq(Quiet) /\ tx[s] \in Seq(Quiet)
  /\ loop[f] = "passing" => carried[f] \in Quiet
  /\ loop[s] = "writing" => carried[s] \in Quiet
  /\ peer[s] = "sending" => offered[s] \in Quiet

UdpInv ==
  /\ UdpTypes
  /\ \A s \in Sides : Arriving(s)
  /\ bound = Sides => \A s \in Sides : Way(s, Far(s))
  /\ bound # Sides => /\ pending_payloads = <<>>
                      /\ \A s \in Sides : given[s] = <<>>
                      /\ \A s \in Sides \ bound : Silent(s, Far(s))

LEMMA DatagramIs ==
  /\ \A n \in Nat : Datagram(n) \in TunnelMsg
  /\ \A n \in Nat : Datagram(n).type = "UdpSend" /\ Datagram(n).payload = n
  /\ \A m, n \in Nat : Datagram(m) = Datagram(n) => m = n
  /\ Nothing \in Quiet /\ Notice \in Quiet /\ Quiet \subseteq TunnelMsg
  /\ Nothing.type = "none" /\ Notice.type = "Notice"
  /\ \A m \in Quiet : m.type # "UdpSend"
<1>1. \A n \in Nat : Datagram(n) \in TunnelMsg
  BY DEF TunnelMsg
<1>2. \A n \in Nat : Datagram(n).type = "UdpSend" /\ Datagram(n).payload = n
  BY DEF Datagram
<1>3. Nothing \in Quiet /\ Notice \in Quiet /\ Quiet \subseteq TunnelMsg
  BY DEF Quiet, TunnelMsg
<1>4. Nothing.type = "none" /\ Notice.type = "Notice"
  BY DEF Nothing, Notice, None
<1>5. \A m \in Quiet : m.type # "UdpSend"
  BY <1>4 DEF Quiet
<1>6. \A m, n \in Nat : Datagram(m) = Datagram(n) => m = n
  <2> SUFFICES ASSUME NEW m \in Nat, NEW n \in Nat, Datagram(m) = Datagram(n)
               PROVE  m = n
    OBVIOUS
  <2>1. QED
    BY <1>2, Zenon
<1>7. QED
  BY <1>1, <1>2, <1>3, <1>4, <1>5, <1>6, Zenon

\* A message that holds a datagram.
LEMMA IsDatagram ==
  ASSUME NEW m \in TunnelMsg, m.type = "UdpSend"
  PROVE  m.payload \in Nat /\ m = Datagram(m.payload)
  BY DEF Datagram, Nothing, Notice, None, TunnelMsg

LEMMA SpanTail ==
  ASSUME NEW q \in Seq(TunnelMsg), NEW a \in Nat, NEW b \in Nat, a <= b,
         Span(q, a, b), q # <<>>
  PROVE  a + 1 <= b /\ Head(q) = Datagram(a + 1) /\ Span(Tail(q), a + 1, b)
<1>1. Len(q) \in Nat /\ Len(q) >= 1 /\ Len(q) = b - a
  BY DEF Span
<1>2. Len(Tail(q)) = Len(q) - 1 /\ \A i \in 1 .. Len(q) - 1 : Tail(q)[i] = q[i + 1]
  BY <1>1
<1>3. Head(q) = q[1] /\ q[1] = Datagram(a + 1)
  BY <1>1 DEF Span
<1>4. ASSUME NEW i \in 1 .. b - (a + 1) PROVE Tail(q)[i] = Datagram((a + 1) + i)
  <2>1. i \in 1 .. Len(q) - 1 /\ i + 1 \in 1 .. b - a /\ a + (i + 1) = (a + 1) + i
    BY <1>1
  <2>2. q[i + 1] = Datagram(a + (i + 1))
    BY <2>1 DEF Span
  <2>3. QED
    BY <1>2, <2>1, <2>2
<1>5. a + 1 <= b /\ Len(Tail(q)) = b - (a + 1)
  BY <1>1, <1>2
<1>6. QED
  BY <1>3, <1>4, <1>5 DEF Span

LEMMA SpanAppend ==
  ASSUME NEW q \in Seq(TunnelMsg), NEW a \in Nat, NEW b \in Nat, a <= b,
         Span(q, a, b)
  PROVE  Span(Append(q, Datagram(b + 1)), a, b + 1)
<1> DEFINE z == Append(q, Datagram(b + 1))
<1>1. /\ Len(q) \in Nat /\ Len(q) = b - a
      /\ \A i \in 1 .. b - a : q[i] = Datagram(a + i)
  BY DEF Span
<1>2. /\ Len(z) = Len(q) + 1 /\ z[Len(q) + 1] = Datagram(b + 1)
      /\ \A i \in 1 .. Len(q) : z[i] = q[i]
  OBVIOUS
<1> HIDE DEF z
<1>3. ASSUME NEW i \in 1 .. (b + 1) - a PROVE z[i] = Datagram(a + i)
  <2>1. CASE i = Len(q) + 1
    <3>1. a + i = b + 1
      BY <1>1, <2>1
    <3>2. QED
      BY <1>2, <2>1, <3>1
  <2>2. CASE i # Len(q) + 1
    <3>1. i \in 1 .. b - a
      BY <1>1, <2>2
    <3>2. QED
      BY <1>1, <1>2, <3>1
  <2>3. QED
    BY <2>1, <2>2
<1>4. Len(z) = (b + 1) - a
  BY <1>1, <1>2
<1>5. Span(z, a, b + 1)
  BY <1>3, <1>4 DEF Span
<1>6. QED
  BY <1>5 DEF z

LEMMA SpanConcat ==
  ASSUME NEW p \in Seq(TunnelMsg), NEW q \in Seq(TunnelMsg),
         NEW a \in Nat, NEW b \in Nat, NEW c \in Nat,
         a <= b, b <= c, Span(p, a, b), Span(q, b, c)
  PROVE  p \o q \in Seq(TunnelMsg) /\ Span(p \o q, a, c)
<1> DEFINE z == p \o q
<1>1. /\ Len(p) = b - a /\ \A i \in 1 .. b - a : p[i] = Datagram(a + i)
      /\ Len(q) = c - b /\ \A i \in 1 .. c - b : q[i] = Datagram(b + i)
  BY DEF Span
<1>2. /\ z \in Seq(TunnelMsg) /\ Len(z) = Len(p) + Len(q)
      /\ \A i \in 1 .. Len(p) : z[i] = p[i]
      /\ \A i \in Len(p) + 1 .. Len(p) + Len(q) : z[i] = q[i - Len(p)]
  OBVIOUS
<1> HIDE DEF z
<1>3. ASSUME NEW i \in 1 .. c - a PROVE z[i] = Datagram(a + i)
  <2>1. CASE i \in 1 .. b - a
    BY <1>1, <1>2, <2>1
  <2>2. CASE i \notin 1 .. b - a
    <3>1. /\ i \in Len(p) + 1 .. Len(p) + Len(q)
          /\ i - Len(p) \in 1 .. c - b /\ b + (i - Len(p)) = a + i
      BY <1>1, <2>2
    <3>2. z[i] = q[i - Len(p)] /\ q[i - Len(p)] = Datagram(b + (i - Len(p)))
      BY <1>1, <1>2, <3>1
    <3>3. QED
      BY <3>1, <3>2
  <2>3. QED
    BY <2>1, <2>2
<1>4. Len(z) = c - a
  BY <1>1, <1>2
<1>5. QED
  BY <1>2, <1>3, <1>4 DEF Span, z

\* Stretches without a datagram, and of one.
LEMMA NoneCounted ==
  ASSUME NEW a \in Nat, NEW b \in Nat
  PROVE  Counted(<<>>, a, b) <=> a = b
  BY DEF Counted

LEMMA OneCounted ==
  ASSUME NEW a \in Nat
  PROVE  Counted(<<a + 1>>, a, a + 1) /\ <<a + 1>> \in Seq(Nat)
  BY DEF Counted

LEMMA CountedAppend ==
  ASSUME NEW q \in Seq(Nat), NEW a \in Nat, NEW b \in Nat, a <= b, Counted(q, a, b)
  PROVE  Counted(Append(q, b + 1), a, b + 1)
<1> DEFINE z == Append(q, b + 1)
<1>1. Len(q) = b - a /\ \A i \in 1 .. b - a : q[i] = a + i
  BY DEF Counted
<1>2. /\ Len(z) = Len(q) + 1 /\ z[Len(q) + 1] = b + 1
      /\ \A i \in 1 .. Len(q) : z[i] = q[i]
  OBVIOUS
<1> HIDE DEF z
<1>3. ASSUME NEW i \in 1 .. (b + 1) - a PROVE z[i] = a + i
  <2>1. CASE i = Len(q) + 1
    BY <1>1, <1>2, <2>1
  <2>2. CASE i # Len(q) + 1
    <3>1. i \in 1 .. b - a
      BY <1>1, <2>2
    <3>2. QED
      BY <1>1, <1>2, <3>1
  <2>3. QED
    BY <2>1, <2>2
<1>4. Len(z) = (b + 1) - a
  BY <1>1, <1>2
<1>5. QED
  BY <1>3, <1>4 DEF Counted, z

\* The first n of what waits.
LEMMA CountedFirst ==
  ASSUME NEW q \in Seq(Nat), NEW a \in Nat, NEW b \in Nat, a <= b, Counted(q, a, b),
         NEW n \in 0 .. Len(q)
  PROVE  /\ SubSeq(q, 1, n) \in Seq(Nat) /\ Counted(SubSeq(q, 1, n), a, a + n)
         /\ a + n \in Nat /\ a <= a + n /\ a + n <= b
<1>1. Len(q) = b - a /\ \A i \in 1 .. b - a : q[i] = a + i
  BY DEF Counted
<1>2. /\ SubSeq(q, 1, n) \in Seq(Nat) /\ Len(SubSeq(q, 1, n)) = n
      /\ \A i \in 1 .. n : SubSeq(q, 1, n)[i] = q[i]
  OBVIOUS
<1>3. (a + n) - a = n /\ a + n \in Nat /\ a <= a + n /\ a + n <= b /\ 1 .. n \subseteq 1 .. b - a
  BY <1>1
<1>4. QED
  BY <1>1, <1>2, <1>3 DEF Counted

\* What is sent from a socket.
LEMMA SentToType ==
  ASSUME NEW to \in Addr, NEW p \in Seq(Nat)
  PROVE  /\ SentTo(to, p) \in Seq(Outbound)
         /\ Len(SentTo(to, p)) = Len(p)
         /\ \A i \in 1 .. Len(p) : SentTo(to, p)[i].payload = p[i]
<1> DEFINE w == SentTo(to, p)
<1>1. DOMAIN p = 1 .. Len(p) /\ Len(p) \in Nat /\ \A i \in 1 .. Len(p) : p[i] \in Nat
  OBVIOUS
<1>2. w = [i \in 1 .. Len(p) |-> [to |-> to, payload |-> p[i]]]
  BY <1>1 DEF SentTo
<1> HIDE DEF w
<1>3. \A i \in 1 .. Len(p) : w[i] = [to |-> to, payload |-> p[i]]
  BY <1>2
<1>4. \A i \in 1 .. Len(p) : w[i] \in Outbound /\ w[i].payload = p[i]
  <2> SUFFICES ASSUME NEW i \in 1 .. Len(p)
               PROVE  w[i] \in Outbound /\ w[i].payload = p[i]
    OBVIOUS
  <2>1. p[i] \in Nat /\ w[i] = [to |-> to, payload |-> p[i]]
    BY <1>1, <1>3
  <2>2. [to |-> to, payload |-> p[i]] \in Outbound
    BY <2>1 DEF Outbound
  <2>3. [to |-> to, payload |-> p[i]].payload = p[i]
    OBVIOUS
  <2>4. QED
    BY <2>1, <2>2, <2>3, Zenon
<1>5. w \in Seq(Outbound) /\ Len(w) = Len(p)
  BY <1>1, <1>2, <1>4
<1>6. QED
  BY <1>4, <1>5 DEF w

\* What is sent on comes after what was sent before.
LEMMA HandedMore ==
  ASSUME NEW v \in Seq(Outbound), NEW p \in Seq(Nat), NEW to \in Addr,
         NEW a \in Nat, NEW b \in Nat, a <= b, Handed(v, a), Counted(p, a, b)
  PROVE  Handed(v \o SentTo(to, p), b)
<1> DEFINE w == SentTo(to, p)
           z == v \o w
<1>1. /\ Len(p) = b - a /\ \A i \in 1 .. b - a : p[i] = a + i
      /\ Len(v) = a /\ \A i \in 1 .. a : v[i].payload = i
  BY DEF Counted, Handed
<1>2. /\ w \in Seq(Outbound) /\ Len(w) = Len(p)
      /\ \A i \in 1 .. Len(p) : w[i].payload = p[i]
  BY SentToType
<1> HIDE DEF w
<1>3. /\ Len(z) = Len(v) + Len(w)
      /\ \A i \in 1 .. Len(v) : z[i] = v[i]
      /\ \A i \in Len(v) + 1 .. Len(v) + Len(w) : z[i] = w[i - Len(v)]
  <2>1. \A r \in Seq(Outbound) :
          /\ Len(v \o r) = Len(v) + Len(r)
          /\ \A i \in 1 .. Len(v) : (v \o r)[i] = v[i]
          /\ \A i \in Len(v) + 1 .. Len(v) + Len(r) : (v \o r)[i] = r[i - Len(v)]
    OBVIOUS
  <2>2. QED
    BY <1>2, <2>1
<1> HIDE DEF z
<1>4. ASSUME NEW i \in 1 .. b PROVE z[i].payload = i
  <2>1. CASE i \in 1 .. a
    BY <1>1, <1>3, <2>1
  <2>2. CASE i \notin 1 .. a
    <3>1. i \in Len(v) + 1 .. Len(v) + Len(w) /\ i - a \in 1 .. b - a /\ a + (i - a) = i
      BY <1>1, <1>2, <2>2
    <3>2. z[i] = w[i - a] /\ w[i - a].payload = p[i - a] /\ p[i - a] = a + (i - a)
      BY <1>1, <1>2, <1>3, <3>1
    <3>3. QED
      BY <3>1, <3>2
  <2>3. QED
    BY <2>1, <2>2
<1>5. Len(z) = b
  BY <1>1, <1>2, <1>3
<1>6. QED
  BY <1>4, <1>5 DEF Handed, z, w

LEMMA SentToNobody ==
  ASSUME NEW v \in Seq(Outbound), NEW to
  PROVE  v \o SentTo(to, <<>>) = v
  BY DEF SentTo

-----------------------------------------------------------------------------
(* The types.                                                              *)

LEMMA UdpStart ==
  ASSUME UdpInit
  PROVE  UdpTypes /\ \A s \in Sides : Arriving(s)
<1>1. Nothing \in TunnelMsg /\ Notice \in TunnelMsg
  BY DatagramIs
<1>2. UdpTypes
  BY <1>1 DEF UdpInit, UdpTypes, Addr
<1>3. \A s \in Sides : Arriving(s)
  BY DEF UdpInit, Arriving, ReadBy
<1>4. QED
  BY <1>2, <1>3

\* The first of what is in a channel.
LEMMA ChannelFirst ==
  ASSUME NEW S, NEW q \in Seq(S), q # <<>>
  PROVE  Head(q) \in S /\ Tail(q) \in Seq(S)
  OBVIOUS

LEMMA ReadTypes ==
  ASSUME UdpTypes, NEW x \in Sides, HandleUdpRead(x)
  PROVE  UdpTypes'
<1>1. /\ Head(socket[x]) \in Inbound
      /\ Tail(socket[x]) \in Seq(Inbound)
  BY ChannelFirst DEF UdpTypes, HandleUdpRead
<1>2. Head(socket[x]).from \in Addr /\ Head(socket[x]).payload \in Nat
  BY <1>1 DEF Inbound
<1>3. Datagram(Head(socket[x]).payload) \in TunnelMsg
  BY <1>2, DatagramIs
<1>4. SentTo(Head(socket[x]).from, pending_payloads) \in Seq(Outbound)
  BY <1>2, SentToType DEF UdpTypes
<1>5. given' \in [Sides -> Seq(Outbound)]
  <2>1. given[x] \in Seq(Outbound)
    BY DEF UdpTypes
  <2>2. given[x] \o SentTo(Head(socket[x]).from, pending_payloads)
          \in Seq(Outbound)
    BY <1>4, <2>1
  <2>3. QED
    BY <2>2 DEF UdpTypes, HandleUdpRead
<1>6. /\ last_peer_addr' \in Addr /\ pending_payloads' \in Seq(Nat)
      /\ last_peer_addr' # None => pending_payloads' = <<>>
  <2>1. last_peer_addr \in Addr /\ pending_payloads \in Seq(Nat)
        /\ (last_peer_addr # None => pending_payloads = <<>>) /\ <<>> \in Seq(Nat)
    BY DEF UdpTypes
  <2>2. CASE x = LocalSide
    <3>1. last_peer_addr' = Head(socket[x]).from /\ pending_payloads' = <<>>
      BY <2>2 DEF HandleUdpRead
    <3>2. QED
      BY <1>2, <2>1, <3>1
  <2>3. CASE x # LocalSide
    <3>1. UNCHANGED <<last_peer_addr, pending_payloads>>
      BY <2>3 DEF HandleUdpRead
    <3>2. QED
      BY <2>1, <3>1
  <2>4. QED
    BY <2>2, <2>3
<1>7. /\ peer' = [peer EXCEPT ![x] = "sending"]
      /\ offered' = [offered EXCEPT ![x] = Datagram(Head(socket[x]).payload)]
      /\ socket' = [socket EXCEPT ![x] = Tail(@)]
      /\ UNCHANGED <<bound, tx, loop, carried, rx, tunnel, arrived>>
  BY DEF HandleUdpRead, Offers, channelVars
<1>8. QED
  BY <1>1, <1>3, <1>5, <1>6, <1>7 DEF UdpTypes

LEMMA FlushTypes ==
  ASSUME UdpTypes, NEW x \in Sides, FlushFails(x)
  PROVE  UdpTypes'
<1>1. /\ Head(socket[x]) \in Inbound
      /\ Tail(socket[x]) \in Seq(Inbound)
  BY ChannelFirst DEF UdpTypes, FlushFails
<1>2. last_peer_addr' \in Addr /\ last_peer_addr' = Head(socket[x]).from
  BY <1>1 DEF FlushFails, Inbound
<1>3. PICK n \in 0 .. Len(pending_payloads) - 1 :
        given' = [given EXCEPT ![x] =
                    @ \o SentTo(last_peer_addr', SubSeq(pending_payloads, 1, n))]
  BY DEF FlushFails
<1>4. SubSeq(pending_payloads, 1, n) \in Seq(Nat)
  <2>1. pending_payloads \in Seq(Nat) /\ n \in Nat /\ n <= Len(pending_payloads)
    BY DEF UdpTypes
  <2>2. QED
    BY <2>1
<1>5. SentTo(last_peer_addr', SubSeq(pending_payloads, 1, n)) \in Seq(Outbound)
  BY <1>2, <1>4, SentToType
<1>6. given' \in [Sides -> Seq(Outbound)]
  <2>1. given[x] \in Seq(Outbound)
    BY DEF UdpTypes
  <2>2. given[x] \o SentTo(last_peer_addr', SubSeq(pending_payloads, 1, n))
          \in Seq(Outbound)
    BY <1>5, <2>1
  <2>3. QED
    BY <1>3, <2>2 DEF UdpTypes
<1>7. /\ peer' = [peer EXCEPT ![x] = "dead"] /\ pending_payloads' = <<>>
      /\ socket' = [socket EXCEPT ![x] = Tail(@)]
      /\ UNCHANGED <<bound, offered, tx, loop, carried, rx, tunnel, arrived>>
  BY DEF FlushFails, channelVars
<1>8. QED
  BY <1>1, <1>2, <1>6, <1>7 DEF UdpTypes

LEMMA PayloadTypes ==
  ASSUME UdpTypes, NEW x \in Sides, HandleUdpPayload(x)
  PROVE  UdpTypes'
<1> DEFINE n == Head(rx[x]).payload
           to == IF x = LocalSide THEN last_peer_addr ELSE Target
<1>1. Head(rx[x]) \in TunnelMsg /\ Tail(rx[x]) \in Seq(TunnelMsg) /\ n \in Nat
  <2>1. Head(rx[x]) \in TunnelMsg /\ Tail(rx[x]) \in Seq(TunnelMsg)
    BY ChannelFirst DEF UdpTypes, HandleUdpPayload, Receives
  <2>2. Head(rx[x]).type = "UdpSend"
    BY DEF HandleUdpPayload
  <2>3. QED
    BY <2>1, <2>2, IsDatagram
<1>2. /\ rx' = [rx EXCEPT ![x] = Tail(@)] /\ peer[x] = "running"
      /\ UNCHANGED <<tx, loop, carried, tunnel, bound, last_peer_addr, socket, arrived>>
  BY DEF HandleUdpPayload, Receives
<1>3. rx' \in [Sides -> Seq(TunnelMsg)]
  BY <1>1, <1>2 DEF UdpTypes
<1>4. CASE x \notin bound
  <2>1. /\ peer' = [peer EXCEPT ![x] = "sending"] /\ offered' = [offered EXCEPT ![x] = Notice]
        /\ UNCHANGED <<pending_payloads, given>>
    BY <1>4 DEF HandleUdpPayload, Offers
  <2>2. Notice \in TunnelMsg
    BY DatagramIs
  <2>3. QED
    BY <1>2, <1>3, <2>1, <2>2 DEF UdpTypes
<1>5. CASE x \in bound /\ to = None
  <2>1. /\ UNCHANGED <<peer, offered, given>> /\ pending_payloads' = Append(pending_payloads, n)
        /\ to = None
    BY <1>5 DEF HandleUdpPayload
  <2>2. last_peer_addr = None
    <3>1. Target # None
      BY DEF Target, None
    <3>2. QED
      BY <2>1, <3>1
  <2>3. pending_payloads' \in Seq(Nat)
    BY <1>1, <2>1 DEF UdpTypes
  <2>4. QED
    BY <1>2, <1>3, <2>1, <2>2, <2>3 DEF UdpTypes
<1>6. CASE x \in bound /\ to # None
  <2>1. PICK where \in {to, "lost"} :
          given' = [given EXCEPT ![x] = @ \o SentTo(where, <<n>>)]
    BY <1>6 DEF HandleUdpPayload
  <2>2. UNCHANGED <<peer, offered, pending_payloads>>
    BY <1>6 DEF HandleUdpPayload
  <2>3. where \in Addr /\ <<n>> \in Seq(Nat)
    BY <1>1 DEF Addr, UdpTypes
  <2>4. SentTo(where, <<n>>) \in Seq(Outbound)
    BY <2>3, SentToType
  <2>5. given[x] \in Seq(Outbound)
    BY DEF UdpTypes
  <2>6. given[x] \o SentTo(where, <<n>>) \in Seq(Outbound)
    BY <2>4, <2>5
  <2>7. given' \in [Sides -> Seq(Outbound)]
    BY <2>1, <2>6 DEF UdpTypes
  <2>8. QED
    BY <1>2, <1>3, <2>2, <2>7 DEF UdpTypes
<1>7. QED
  BY <1>4, <1>5, <1>6

LEMMA TypesKept ==
  ASSUME UdpTypes, UdpNext
  PROVE  UdpTypes'
<1>1. PICK x \in Sides : DatagramArrives(x) \/ FlushFails(x) \/ Peer(x) \/ Loop(x)
  BY DEF UdpNext
<1>2. Nothing \in TunnelMsg
  BY DatagramIs
<1>3. CASE DatagramArrives(x)
  <2>1. PICK from \in IF x = LocalSide THEN Apps ELSE {Target} :
          socket' = [socket EXCEPT ![x] =
                       Append(@, [from |-> from, payload |-> arrived[x] + 1])]
    BY <1>3 DEF DatagramArrives
  <2>2. from \in Addr
    BY DEF Addr
  <2>3. /\ arrived' = [arrived EXCEPT ![x] = @ + 1]
        /\ UNCHANGED <<peer, offered, tx, loop, carried, rx, tunnel, bound,
                       last_peer_addr, pending_payloads, given>>
    BY <1>3 DEF DatagramArrives, channelVars, bindingVars
  <2>4. [from |-> from, payload |-> arrived[x] + 1] \in Inbound
    BY <2>2 DEF UdpTypes, Inbound
  <2>5. Append(socket[x], [from |-> from, payload |-> arrived[x] + 1])
          \in Seq(Inbound)
    BY <2>4 DEF UdpTypes
  <2>6. QED
    BY <2>1, <2>3, <2>5 DEF UdpTypes
<1>4. CASE PeerSends(x)
  <2>1. Append(tx[x], offered[x]) \in Seq(TunnelMsg)
    BY DEF UdpTypes
  <2>2. QED
    BY <1>2, <1>4, <2>1 DEF UdpTypes, PeerSends, channelVars, bindingVars, socketVars
<1>5. CASE HandleNotice(x)
  <2>1. Tail(rx[x]) \in Seq(TunnelMsg)
    BY <1>5, ChannelFirst DEF UdpTypes, HandleNotice, Receives
  <2>2. QED
    BY <1>5, <2>1 DEF UdpTypes, HandleNotice, Receives
<1>6. CASE PeerEnds(x)
  BY <1>6 DEF UdpTypes, PeerEnds, channelVars, bindingVars, socketVars
<1>7. CASE TakeFromPeer(x)
  <2>1. Head(tx[x]) \in TunnelMsg /\ Tail(tx[x]) \in Seq(TunnelMsg)
    BY <1>7, ChannelFirst DEF UdpTypes, TakeFromPeer
  <2>2. QED
    BY <1>7, <2>1 DEF UdpTypes, TakeFromPeer, bindingVars, socketVars
<1>8. CASE TakeFromTunnel(x)
  <2>1. Head(tunnel[x]) \in TunnelMsg /\ Tail(tunnel[x]) \in Seq(TunnelMsg)
    BY <1>8, ChannelFirst DEF UdpTypes, TakeFromTunnel
  <2>2. QED
    BY <1>8, <2>1 DEF UdpTypes, TakeFromTunnel, bindingVars, socketVars
<1>9. CASE WriteTunnel(x)
  <2>1. Append(tunnel[Far(x)], carried[x]) \in Seq(TunnelMsg)
    BY TwoSides DEF UdpTypes
  <2>2. QED
    BY <1>2, <1>9, <2>1 DEF UdpTypes, WriteTunnel, Selects, bindingVars, socketVars
<1>10. CASE PassToPeer(x)
  <2>1. Append(rx[x], carried[x]) \in Seq(TunnelMsg)
    BY DEF UdpTypes
  <2>2. QED
    BY <1>2, <1>10, <2>1 DEF UdpTypes, PassToPeer, Selects, bindingVars, socketVars
<1>11. CASE LoopEnds(x)
  BY <1>11 DEF UdpTypes, LoopEnds, bindingVars, socketVars
<1>12. QED
  BY <1>1, <1>3, <1>4, <1>5, <1>6, <1>7, <1>8, <1>9, <1>10, <1>11,
     ReadTypes, FlushTypes, PayloadTypes DEF Peer, Loop

-----------------------------------------------------------------------------
(* A step moves one end of one stretch.                                    *)

\* Nothing of the path from s to f has moved, except that a task that held some
\* of it has ended.
Unmoved(s, f) ==
  /\ given'[f] = given[f] /\ ReadBy(s)' = ReadBy(s)
  /\ peer'[f] # "dead" => /\ peer[f] # "dead" /\ Pending(f)' = Pending(f)
                          /\ rx'[f] = rx[f]
  /\ loop'[f] # "ended" => /\ loop[f] # "ended" /\ tunnel'[f] = tunnel[f]
                           /\ loop'[f] = "passing" <=> loop[f] = "passing"
                           /\ loop[f] = "passing" => carried'[f] = carried[f]
  /\ loop'[s] # "ended" => /\ loop[s] # "ended" /\ tx'[s] = tx[s]
                           /\ loop'[s] = "writing" <=> loop[s] = "writing"
                           /\ loop[s] = "writing" => carried'[s] = carried[s]
  /\ loop'[s] # "ended" /\ peer'[s] # "dead"
       => /\ peer[s] # "dead" /\ offered'[s] = offered[s]
          /\ peer'[s] = "sending" <=> peer[s] = "sending"

LEMMA OneSame ==
  ASSUME NEW x, NEW y, NEW p \in BOOLEAN, NEW q \in BOOLEAN, NEW a, NEW b,
         p <=> q, q => x = y, One(y, q, a, b)
  PROVE  One(x, p, a, b)
  BY DEF One

LEMMA WayUnmoved ==
  ASSUME NEW s \in Sides, NEW f \in Sides, Way(s, f), Unmoved(s, f)
  PROVE  Way(s, f)'
<1>1. PICK a \in Nat, b \in Nat, c \in Nat, d \in Nat, e \in Nat, g \in Nat, h \in Nat :
        Path(s, f, a, b, c, d, e, g, h)
  BY DEF Way
<1>2. Path(s, f, a, b, c, d, e, g, h)'
  <2>1. /\ a <= b /\ b <= c /\ c <= d /\ d <= e /\ e <= g /\ g <= h /\ h <= ReadBy(s)'
        /\ Handed(given'[f], a)
    BY <1>1 DEF Path, Unmoved
  <2>2. peer'[f] # "dead" => Counted(Pending(f)', a, b) /\ Span(rx'[f], b, c)
    BY <1>1 DEF Path, Unmoved
  <2>3. peer'[f] # "dead" /\ loop'[f] # "ended"
          => One(carried'[f], loop'[f] = "passing", c, d)
    <3> SUFFICES ASSUME peer'[f] # "dead", loop'[f] # "ended"
                 PROVE  One(carried'[f], loop'[f] = "passing", c, d)
      OBVIOUS
    <3>1. One(carried[f], loop[f] = "passing", c, d)
      BY <1>1 DEF Path, Unmoved
    <3>2. /\ loop'[f] = "passing" <=> loop[f] = "passing"
          /\ loop[f] = "passing" => carried'[f] = carried[f]
      BY DEF Unmoved
    <3>3. QED
      BY <3>1, <3>2, OneSame
  <2>4. loop'[f] # "ended" => Span(tunnel'[f], d, e)
    BY <1>1 DEF Path, Unmoved
  <2>5. loop'[f] # "ended" /\ loop'[s] # "ended"
          => One(carried'[s], loop'[s] = "writing", e, g)
    <3> SUFFICES ASSUME loop'[f] # "ended", loop'[s] # "ended"
                 PROVE  One(carried'[s], loop'[s] = "writing", e, g)
      OBVIOUS
    <3>1. One(carried[s], loop[s] = "writing", e, g)
      BY <1>1 DEF Path, Unmoved
    <3>2. /\ loop'[s] = "writing" <=> loop[s] = "writing"
          /\ loop[s] = "writing" => carried'[s] = carried[s]
      BY DEF Unmoved
    <3>3. QED
      BY <3>1, <3>2, OneSame
  <2>6. loop'[s] # "ended" => Span(tx'[s], g, h)
    BY <1>1 DEF Path, Unmoved
  <2>7. loop'[s] # "ended" /\ peer'[s] # "dead"
          => One(offered'[s], peer'[s] = "sending", h, ReadBy(s)')
    <3> SUFFICES ASSUME loop'[s] # "ended", peer'[s] # "dead"
                 PROVE  One(offered'[s], peer'[s] = "sending", h, ReadBy(s)')
      OBVIOUS
    <3>1. One(offered[s], peer[s] = "sending", h, ReadBy(s))
      BY <1>1 DEF Path, Unmoved
    <3>2. /\ peer'[s] = "sending" <=> peer[s] = "sending"
          /\ offered'[s] = offered[s] /\ ReadBy(s)' = ReadBy(s)
      BY DEF Unmoved
    <3>3. QED
      BY <3>1, <3>2, OneSame
  <2>8. QED
    BY <2>1, <2>2, <2>3, <2>4, <2>5, <2>6, <2>7 DEF Path
<1>3. QED
  BY <1>2 DEF Way

-----------------------------------------------------------------------------
(* What the socket holds.                                                  *)

LEMMA SocketSame ==
  ASSUME NEW s \in Sides, socket'[s] = socket[s], arrived'[s] = arrived[s]
  PROVE  ReadBy(s)' = ReadBy(s) /\ (Arriving(s) => Arriving(s)')
<1>1. ReadBy(s)' = ReadBy(s)
  BY DEF ReadBy
<1>2. QED
  BY <1>1 DEF Arriving

\* The NetworkPeer reads the next one.
LEMMA SocketRead ==
  ASSUME UdpTypes, NEW s \in Sides, Arriving(s), socket[s] # <<>>,
         socket'[s] = Tail(socket[s]), arrived'[s] = arrived[s]
  PROVE  /\ ReadBy(s)' = ReadBy(s) + 1 /\ Arriving(s)'
         /\ Head(socket[s]).payload = ReadBy(s) + 1
<1> DEFINE q == socket[s]
           r == ReadBy(s)
<1>1. q \in Seq(Inbound) /\ q # <<>> /\ arrived[s] \in Nat /\ r \in Nat
  BY DEF UdpTypes, Arriving
<1>2. /\ Len(q) \in Nat /\ Len(q) >= 1 /\ Len(Tail(q)) = Len(q) - 1
      /\ Head(q) = q[1] /\ \A i \in 1 .. Len(q) - 1 : Tail(q)[i] = q[i + 1]
  BY <1>1
<1>3. \A i \in 1 .. Len(q) : q[i].payload = r + i
  BY DEF Arriving
<1>4. r = arrived[s] - Len(q) /\ ReadBy(s)' = arrived[s] - Len(Tail(q))
  BY DEF ReadBy
<1> HIDE DEF q, r
<1>5. ReadBy(s)' = r + 1
  BY <1>1, <1>2, <1>4
<1>6. Head(q).payload = r + 1
  BY <1>2, <1>3
<1>7. ASSUME NEW i \in 1 .. Len(Tail(q)) PROVE Tail(q)[i].payload = (r + 1) + i
  <2>1. /\ i \in 1 .. Len(q) - 1 /\ i + 1 \in 1 .. Len(q) /\ r + (i + 1) = (r + 1) + i
    BY <1>1, <1>2
  <2>2. QED
    BY <1>2, <1>3, <2>1
<1>8. Arriving(s)'
  <2>1. \A i \in 1 .. Len(socket'[s]) : socket'[s][i].payload = ReadBy(s)' + i
    BY <1>5, <1>7 DEF q
  <2>2. ReadBy(s)' \in Nat
    BY <1>1, <1>5
  <2>3. QED
    BY <2>1, <2>2 DEF Arriving
<1>9. QED
  BY <1>5, <1>6, <1>8 DEF q, r

\* Another one reaches it.
LEMMA SocketGets ==
  ASSUME UdpTypes, NEW s \in Sides, Arriving(s), DatagramArrives(s)
  PROVE  ReadBy(s)' = ReadBy(s) /\ Arriving(s)'
<1> DEFINE q == socket[s]
           r == ReadBy(s)
<1>1. q \in Seq(Inbound) /\ arrived[s] \in Nat /\ r \in Nat /\ Len(q) \in Nat
  BY DEF UdpTypes, Arriving
<1>2. PICK from \in IF s = LocalSide THEN Apps ELSE {Target} :
        socket' = [socket EXCEPT ![s] =
                     Append(@, [from |-> from, payload |-> arrived[s] + 1])]
  BY DEF DatagramArrives
<1>3. PICK m : m = [from |-> from, payload |-> arrived[s] + 1]
  OBVIOUS
<1>4. m.payload = arrived[s] + 1 /\ m \in Inbound
  <2>1. from \in Addr
    BY DEF Addr
  <2>2. QED
    BY <1>1, <1>3, <2>1 DEF Inbound
<1>5. socket'[s] = Append(q, m) /\ arrived'[s] = arrived[s] + 1
  BY <1>2, <1>3 DEF UdpTypes, DatagramArrives
<1>6. /\ Len(Append(q, m)) = Len(q) + 1 /\ Append(q, m)[Len(q) + 1] = m
      /\ \A i \in 1 .. Len(q) : Append(q, m)[i] = q[i]
  BY <1>1, <1>4
<1>7. \A i \in 1 .. Len(q) : q[i].payload = r + i
  BY DEF Arriving
<1>8. r = arrived[s] - Len(q) /\ ReadBy(s)' = arrived'[s] - Len(socket'[s])
  BY DEF ReadBy
<1> HIDE DEF q, r
<1>9. ReadBy(s)' = r
  BY <1>1, <1>5, <1>6, <1>8
<1>10. ASSUME NEW i \in 1 .. Len(q) + 1 PROVE Append(q, m)[i].payload = r + i
  <2>1. CASE i = Len(q) + 1
    <3>1. r + i = arrived[s] + 1
      BY <1>1, <1>8, <2>1
    <3>2. QED
      BY <1>4, <1>6, <2>1, <3>1
  <2>2. CASE i # Len(q) + 1
    <3>1. i \in 1 .. Len(q)
      BY <1>1, <2>2
    <3>2. QED
      BY <1>6, <1>7, <3>1
  <2>3. QED
    BY <2>1, <2>2
<1>11. \A i \in 1 .. Len(socket'[s]) : socket'[s][i].payload = ReadBy(s)' + i
  BY <1>5, <1>6, <1>9, <1>10
<1>12. QED
  BY <1>1, <1>9, <1>11 DEF Arriving, r

LEMMA ArrivingKept ==
  ASSUME UdpTypes, \A s \in Sides : Arriving(s), UdpNext
  PROVE  \A s \in Sides : Arriving(s)'
<1> SUFFICES ASSUME NEW s \in Sides PROVE Arriving(s)'
  OBVIOUS
<1>1. PICK x \in Sides : DatagramArrives(x) \/ FlushFails(x) \/ Peer(x) \/ Loop(x)
  BY DEF UdpNext
<1>2. CASE DatagramArrives(x)
  <2>1. CASE x = s
    BY <1>2, <2>1, SocketGets
  <2>2. CASE x # s
    <3>1. socket'[s] = socket[s] /\ arrived'[s] = arrived[s]
      BY <1>2, <2>2 DEF DatagramArrives, UdpTypes
    <3>2. QED
      BY <3>1, SocketSame
  <2>3. QED
    BY <2>1, <2>2
<1>3. CASE HandleUdpRead(x) \/ FlushFails(x)
  <2>1. /\ socket[x] # <<>> /\ socket' = [socket EXCEPT ![x] = Tail(@)]
        /\ arrived' = arrived
    BY <1>3 DEF HandleUdpRead, FlushFails
  <2>2. CASE x = s
    <3>1. socket'[s] = Tail(socket[s])
      BY <2>1, <2>2 DEF UdpTypes
    <3>2. QED
      BY <2>1, <2>2, <3>1, SocketRead
  <2>3. CASE x # s
    <3>1. socket'[s] = socket[s]
      BY <2>1, <2>3 DEF UdpTypes
    <3>2. QED
      BY <2>1, <3>1, SocketSame
  <2>4. QED
    BY <2>2, <2>3
<1>4. CASE \/ PeerSends(x) \/ HandleUdpPayload(x) \/ HandleNotice(x) \/ PeerEnds(x) \/ Loop(x)
  <2>1. socket' = socket /\ arrived' = arrived
    BY <1>4 DEF PeerSends, HandleUdpPayload, HandleNotice, Receives, PeerEnds, Loop,
       TakeFromPeer, WriteTunnel, TakeFromTunnel, PassToPeer, LoopEnds, Selects, socketVars
  <2>2. QED
    BY <2>1, SocketSame
<1>5. QED
  BY <1>1, <1>2, <1>3, <1>4 DEF Peer

-----------------------------------------------------------------------------
(* The steps of the NetworkPeer at the near end of a path.                 *)

LEMMA PendingSame ==
  ASSUME NEW s \in Sides, NEW f \in Sides, s # f, UdpTypes,
         s # LocalSide => pending_payloads' = pending_payloads
  PROVE  Pending(f)' = Pending(f)
<1>1. CASE f = LocalSide
  BY <1>1 DEF Pending
<1>2. CASE f # LocalSide
  BY <1>2 DEF Pending
<1>3. QED
  BY <1>1, <1>2

\* It reads a datagram and waits to send it.
LEMMA ReadOut ==
  ASSUME UdpTypes, NEW s \in Sides, NEW f \in Sides, s # f, f = LocalSide \/ s = LocalSide,
         Arriving(s), Way(s, f), HandleUdpRead(s)
  PROVE  Way(s, f)'
<1>1. PICK a \in Nat, b \in Nat, c \in Nat, d \in Nat, e \in Nat, g \in Nat, h \in Nat :
        Path(s, f, a, b, c, d, e, g, h)
  BY DEF Way
<1>2. /\ peer[s] = "running" /\ socket[s] # <<>> /\ peer'[s] = "sending"
      /\ socket'[s] = Tail(socket[s])
      /\ offered'[s] = Datagram(Head(socket[s]).payload)
      /\ peer'[f] = peer[f] /\ given'[f] = given[f]
      /\ UNCHANGED <<tx, loop, carried, rx, tunnel, arrived>>
      /\ s # LocalSide => pending_payloads' = pending_payloads
  BY DEF HandleUdpRead, Offers, UdpTypes, channelVars
<1>3. ReadBy(s) \in Nat /\ ReadBy(s)' = ReadBy(s) + 1 /\ Head(socket[s]).payload = ReadBy(s) + 1
  BY <1>2, SocketRead DEF Arriving
<1>4. Pending(f)' = Pending(f)
  BY <1>2, PendingSame
<1>5. loop[s] # "ended" => h = ReadBy(s)
  BY <1>1, <1>2 DEF Path, One
<1>6. loop[s] # "ended" => One(offered'[s], TRUE, h, ReadBy(s)')
  BY <1>2, <1>3, <1>5 DEF One
<1>7. h <= ReadBy(s)'
  BY <1>1, <1>3 DEF Path
<1>8. Path(s, f, a, b, c, d, e, g, h)'
  BY <1>1, <1>2, <1>4, <1>6, <1>7 DEF Path
<1>9. QED
  BY <1>8 DEF Way

\* It ends with what it has read.
LEMMA FlushOut ==
  ASSUME UdpTypes, NEW s \in Sides, NEW f \in Sides, s # f,
         Arriving(s), Way(s, f), FlushFails(s)
  PROVE  Way(s, f)'
<1>1. PICK a \in Nat, b \in Nat, c \in Nat, d \in Nat, e \in Nat, g \in Nat, h \in Nat :
        Path(s, f, a, b, c, d, e, g, h)
  BY DEF Way
<1>2. /\ s = LocalSide /\ peer'[s] = "dead" /\ socket[s] # <<>>
      /\ socket'[s] = Tail(socket[s])
      /\ peer'[f] = peer[f] /\ given'[f] = given[f]
      /\ UNCHANGED <<tx, loop, carried, rx, tunnel, arrived>>
  BY DEF FlushFails, UdpTypes, channelVars
<1>3. ReadBy(s) \in Nat /\ ReadBy(s)' = ReadBy(s) + 1
  BY <1>2, SocketRead DEF Arriving
<1>4. Pending(f)' = Pending(f)
  BY <1>2, PendingSame
<1>5. h <= ReadBy(s)'
  BY <1>1, <1>3 DEF Path
<1>6. Path(s, f, a, b, c, d, e, g, h)'
  BY <1>1, <1>2, <1>4, <1>5 DEF Path
<1>7. QED
  BY <1>6 DEF Way

\* What it waits to send goes into the channel.
LEMMA SendsOut ==
  ASSUME UdpTypes, NEW s \in Sides, NEW f \in Sides, s # f,
         Way(s, f), PeerSends(s)
  PROVE  Way(s, f)'
<1>1. PICK a \in Nat, b \in Nat, c \in Nat, d \in Nat, e \in Nat, g \in Nat, h \in Nat :
        Path(s, f, a, b, c, d, e, g, h)
  BY DEF Way
<1>2. /\ peer[s] = "sending" /\ peer'[s] = "running" /\ loop[s] # "ended"
      /\ tx'[s] = Append(tx[s], offered[s]) /\ tx[s] \in Seq(TunnelMsg)
      /\ peer'[f] = peer[f]
      /\ UNCHANGED <<loop, carried, rx, tunnel, pending_payloads, socket, arrived, given>>
  BY DEF PeerSends, UdpTypes, channelVars, bindingVars, socketVars
<1>3. ReadBy(s)' = ReadBy(s) /\ Pending(f)' = Pending(f)
  BY <1>2 DEF ReadBy, Pending
<1>4. /\ ReadBy(s) = h + 1 /\ offered[s] = Datagram(h + 1)
      /\ Span(tx[s], g, h) /\ g <= h
  BY <1>1, <1>2 DEF Path, One
<1>5. Span(tx'[s], g, h + 1) /\ h + 1 \in Nat /\ g <= h + 1 /\ h + 1 <= ReadBy(s)'
  BY <1>2, <1>3, <1>4, SpanAppend
<1>6. One(offered'[s], FALSE, h + 1, ReadBy(s)')
  BY <1>3, <1>4 DEF One
<1>7. Path(s, f, a, b, c, d, e, g, h + 1)'
  BY <1>1, <1>2, <1>3, <1>5, <1>6 DEF Path
<1>8. QED
  BY <1>5, <1>7 DEF Way

-----------------------------------------------------------------------------
(* The steps of the two loops.                                             *)

LEMMA TakeOut ==
  ASSUME UdpTypes, NEW s \in Sides, NEW f \in Sides, s # f,
         Way(s, f), TakeFromPeer(s)
  PROVE  Way(s, f)'
<1>1. PICK a \in Nat, b \in Nat, c \in Nat, d \in Nat, e \in Nat, g \in Nat, h \in Nat :
        Path(s, f, a, b, c, d, e, g, h)
  BY DEF Way
<1>2. /\ loop[s] = "selecting" /\ loop'[s] = "writing" /\ tx[s] # <<>>
      /\ carried'[s] = Head(tx[s]) /\ tx'[s] = Tail(tx[s]) /\ tx[s] \in Seq(TunnelMsg)
      /\ loop'[f] = loop[f] /\ carried'[f] = carried[f]
      /\ UNCHANGED <<peer, offered, rx, tunnel, pending_payloads, socket, arrived, given>>
  BY DEF TakeFromPeer, UdpTypes, bindingVars, socketVars
<1>3. ReadBy(s)' = ReadBy(s) /\ Pending(f)' = Pending(f)
  BY <1>2 DEF ReadBy, Pending
<1>4. Span(tx[s], g, h) /\ g <= h /\ (loop[f] # "ended" => e = g)
  BY <1>1, <1>2 DEF Path, One
<1>5. /\ g + 1 <= h /\ g + 1 \in Nat
      /\ carried'[s] = Datagram(g + 1) /\ Span(tx'[s], g + 1, h)
  BY <1>2, <1>4, SpanTail
<1>6. loop[f] # "ended" => One(carried'[s], TRUE, e, g + 1)
  BY <1>4, <1>5 DEF One
<1>7. e <= g + 1
  BY <1>1 DEF Path
<1>8. Path(s, f, a, b, c, d, e, g + 1, h)'
  BY <1>1, <1>2, <1>3, <1>5, <1>6, <1>7 DEF Path
<1>9. QED
  BY <1>5, <1>8 DEF Way

LEMMA WriteOut ==
  ASSUME UdpTypes, NEW s \in Sides, NEW f \in Sides, s # f, f = Far(s),
         Way(s, f), WriteTunnel(s)
  PROVE  Way(s, f)'
<1>1. PICK a \in Nat, b \in Nat, c \in Nat, d \in Nat, e \in Nat, g \in Nat, h \in Nat :
        Path(s, f, a, b, c, d, e, g, h)
  BY DEF Way
<1>2. /\ loop[s] = "writing" /\ loop'[s] = "selecting"
      /\ tunnel'[f] = Append(tunnel[f], carried[s]) /\ tunnel[f] \in Seq(TunnelMsg)
      /\ loop'[f] = loop[f] /\ carried'[f] = carried[f]
      /\ UNCHANGED <<peer, offered, tx, rx, pending_payloads, socket, arrived, given>>
  BY DEF WriteTunnel, Selects, UdpTypes, bindingVars, socketVars
<1>3. ReadBy(s)' = ReadBy(s) /\ Pending(f)' = Pending(f)
  BY <1>2 DEF ReadBy, Pending
<1>4. /\ loop[f] # "ended" => /\ g = e + 1 /\ carried[s] = Datagram(e + 1)
                              /\ Span(tunnel[f], d, e)
      /\ d <= e /\ e <= g
  BY <1>1, <1>2 DEF Path, One
<1>5. loop[f] # "ended" => Span(tunnel'[f], d, g)
  BY <1>2, <1>4, SpanAppend
<1>6. One(carried'[s], loop'[s] = "writing", g, g) /\ d <= g /\ g <= g
  BY <1>2, <1>4 DEF One
<1>7. Path(s, f, a, b, c, d, g, g, h)'
  BY <1>1, <1>2, <1>3, <1>5, <1>6 DEF Path
<1>8. QED
  BY <1>7 DEF Way

LEMMA TakeIn ==
  ASSUME UdpTypes, NEW s \in Sides, NEW f \in Sides, s # f,
         Way(s, f), TakeFromTunnel(f)
  PROVE  Way(s, f)'
<1>1. PICK a \in Nat, b \in Nat, c \in Nat, d \in Nat, e \in Nat, g \in Nat, h \in Nat :
        Path(s, f, a, b, c, d, e, g, h)
  BY DEF Way
<1>2. /\ loop[f] = "selecting" /\ loop'[f] = "passing" /\ tunnel[f] # <<>>
      /\ carried'[f] = Head(tunnel[f]) /\ tunnel'[f] = Tail(tunnel[f])
      /\ tunnel[f] \in Seq(TunnelMsg)
      /\ loop'[s] = loop[s] /\ carried'[s] = carried[s]
      /\ UNCHANGED <<peer, offered, tx, rx, pending_payloads, socket, arrived, given>>
  BY DEF TakeFromTunnel, UdpTypes, bindingVars, socketVars
<1>3. ReadBy(s)' = ReadBy(s) /\ Pending(f)' = Pending(f)
  BY <1>2 DEF ReadBy, Pending
<1>4. Span(tunnel[f], d, e) /\ d <= e /\ (peer[f] # "dead" => c = d)
  BY <1>1, <1>2 DEF Path, One
<1>5. /\ d + 1 <= e /\ d + 1 \in Nat
      /\ carried'[f] = Datagram(d + 1) /\ Span(tunnel'[f], d + 1, e)
  BY <1>2, <1>4, SpanTail
<1>6. peer[f] # "dead" => One(carried'[f], TRUE, c, d + 1)
  BY <1>4, <1>5 DEF One
<1>7. c <= d + 1
  BY <1>1 DEF Path
<1>8. Path(s, f, a, b, c, d + 1, e, g, h)'
  BY <1>1, <1>2, <1>3, <1>5, <1>6, <1>7 DEF Path
<1>9. QED
  BY <1>5, <1>8 DEF Way

LEMMA PassIn ==
  ASSUME UdpTypes, NEW s \in Sides, NEW f \in Sides, s # f,
         Way(s, f), PassToPeer(f)
  PROVE  Way(s, f)'
<1>1. PICK a \in Nat, b \in Nat, c \in Nat, d \in Nat, e \in Nat, g \in Nat, h \in Nat :
        Path(s, f, a, b, c, d, e, g, h)
  BY DEF Way
<1>2. /\ loop[f] = "passing" /\ loop'[f] = "selecting"
      /\ peer[f] # "dead" => rx'[f] = Append(rx[f], carried[f])
      /\ rx[f] \in Seq(TunnelMsg)
      /\ loop'[s] = loop[s] /\ carried'[s] = carried[s]
      /\ UNCHANGED <<peer, offered, tx, tunnel, pending_payloads, socket, arrived, given>>
  BY DEF PassToPeer, Selects, UdpTypes, bindingVars, socketVars
<1>3. ReadBy(s)' = ReadBy(s) /\ Pending(f)' = Pending(f)
  BY <1>2 DEF ReadBy, Pending
<1>4. /\ peer[f] # "dead" => /\ d = c + 1 /\ carried[f] = Datagram(c + 1)
                             /\ Span(rx[f], b, c)
      /\ b <= c /\ c <= d
  BY <1>1, <1>2 DEF Path, One
<1>5. peer[f] # "dead" => Span(rx'[f], b, d)
  BY <1>2, <1>4, SpanAppend
<1>6. One(carried'[f], loop'[f] = "passing", d, d) /\ b <= d /\ d <= d
  BY <1>2, <1>4 DEF One
<1>7. Path(s, f, a, b, d, d, e, g, h)'
  BY <1>1, <1>2, <1>3, <1>5, <1>6 DEF Path
<1>8. QED
  BY <1>7 DEF Way

-----------------------------------------------------------------------------
(* The steps of the NetworkPeer at the far end.                            *)

\* Somebody is there: what has waited is sent.
LEMMA ReadIn ==
  ASSUME UdpTypes, NEW s \in Sides, NEW f \in Sides, s # f, f = LocalSide,
         Way(s, f), HandleUdpRead(f)
  PROVE  Way(s, f)'
<1>1. PICK a \in Nat, b \in Nat, c \in Nat, d \in Nat, e \in Nat, g \in Nat, h \in Nat :
        Path(s, f, a, b, c, d, e, g, h)
  BY DEF Way
<1>2. /\ peer[f] = "running" /\ peer'[f] = "sending"
      /\ given'[f] = given[f] \o SentTo(Head(socket[f]).from, pending_payloads)
      /\ pending_payloads' = <<>>
      /\ peer'[s] = peer[s] /\ offered'[s] = offered[s] /\ socket'[s] = socket[s]
      /\ UNCHANGED <<tx, loop, carried, rx, tunnel, arrived>>
  BY DEF HandleUdpRead, Offers, UdpTypes, channelVars
<1>3. ReadBy(s)' = ReadBy(s)
  BY <1>2 DEF ReadBy
<1>4. /\ Handed(given[f], a) /\ Counted(pending_payloads, a, b) /\ a <= b
      /\ Span(rx[f], b, c)
  BY <1>1, <1>2 DEF Path, Pending
<1>5. Head(socket[f]).from \in Addr
  <2>1. Head(socket[f]) \in Inbound
    BY ChannelFirst DEF UdpTypes, HandleUdpRead
  <2>2. QED
    BY <2>1 DEF Inbound
<1>6. Handed(given'[f], b)
  <2>1. given[f] \in Seq(Outbound) /\ pending_payloads \in Seq(Nat)
    BY DEF UdpTypes
  <2>2. QED
    BY <1>2, <1>4, <1>5, <2>1, HandedMore
<1>7. Counted(Pending(f)', b, b) /\ b <= b
  <2>1. Pending(f)' = <<>>
    BY <1>2 DEF Pending
  <2>2. Counted(<<>>, b, b)
    BY NoneCounted
  <2>3. QED
    BY <2>1, <2>2
<1>8. Path(s, f, b, b, c, d, e, g, h)'
  BY <1>1, <1>2, <1>3, <1>4, <1>6, <1>7 DEF Path
<1>9. QED
  BY <1>8 DEF Way

\* Some of it is sent, and what was not is lost with the NetworkPeer.
LEMMA FlushIn ==
  ASSUME UdpTypes, NEW s \in Sides, NEW f \in Sides, s # f,
         Way(s, f), FlushFails(f)
  PROVE  Way(s, f)'
<1>1. PICK a \in Nat, b \in Nat, c \in Nat, d \in Nat, e \in Nat, g \in Nat, h \in Nat :
        Path(s, f, a, b, c, d, e, g, h)
  BY DEF Way
<1>2. /\ f = LocalSide /\ peer[f] = "running" /\ peer'[f] = "dead"
      /\ last_peer_addr' = Head(socket[f]).from /\ socket[f] # <<>>
      /\ peer'[s] = peer[s] /\ offered'[s] = offered[s] /\ socket'[s] = socket[s]
      /\ UNCHANGED <<tx, loop, carried, rx, tunnel, arrived>>
  BY DEF FlushFails, UdpTypes, channelVars
<1>3. PICK n \in 0 .. Len(pending_payloads) - 1 :
        given' = [given EXCEPT ![f] =
                    @ \o SentTo(last_peer_addr', SubSeq(pending_payloads, 1, n))]
  BY DEF FlushFails
<1>4. ReadBy(s)' = ReadBy(s)
  BY <1>2 DEF ReadBy
<1>5. Handed(given[f], a) /\ Counted(pending_payloads, a, b) /\ a <= b /\ b <= c
  BY <1>1, <1>2 DEF Path, Pending
<1>6. last_peer_addr' \in Addr
  <2>1. Head(socket[f]) \in Inbound
    BY <1>2, ChannelFirst DEF UdpTypes
  <2>2. QED
    BY <1>2, <2>1 DEF Inbound
<1>7. given[f] \in Seq(Outbound) /\ pending_payloads \in Seq(Nat)
  BY DEF UdpTypes
<1>8. n \in 0 .. Len(pending_payloads)
  BY <1>7
<1>9. /\ SubSeq(pending_payloads, 1, n) \in Seq(Nat)
      /\ Counted(SubSeq(pending_payloads, 1, n), a, a + n)
      /\ a + n \in Nat /\ a <= a + n /\ a + n <= b
  BY <1>5, <1>7, <1>8, CountedFirst
<1>10. Handed(given'[f], a + n)
  <2>1. given'[f] = given[f] \o SentTo(last_peer_addr', SubSeq(pending_payloads, 1, n))
    BY <1>3 DEF UdpTypes
  <2>2. PICK p \in Seq(Nat), m \in Nat :
          p = SubSeq(pending_payloads, 1, n) /\ m = a + n
    BY <1>9
  <2>3. Counted(p, a, m) /\ a <= m
    BY <1>9, <2>2
  <2>4. Handed(given[f] \o SentTo(last_peer_addr', p), m)
    BY <1>5, <1>6, <1>7, <2>3, HandedMore
  <2>5. QED
    BY <2>1, <2>2, <2>4
<1>11. Path(s, f, a + n, b, c, d, e, g, h)'
  BY <1>1, <1>2, <1>4, <1>9, <1>10 DEF Path
<1>12. QED
  BY <1>9, <1>11 DEF Way

\* It takes one from its channel and sends it, or keeps it for somebody.
LEMMA PayloadIn ==
  ASSUME UdpTypes, NEW s \in Sides, NEW f \in Sides, s # f, f \in bound,
         Way(s, f), HandleUdpPayload(f)
  PROVE  Way(s, f)'
<1> DEFINE n  == Head(rx[f]).payload
           to == IF f = LocalSide THEN last_peer_addr ELSE Target
<1>1. PICK a \in Nat, b \in Nat, c \in Nat, d \in Nat, e \in Nat, g \in Nat, h \in Nat :
        Path(s, f, a, b, c, d, e, g, h)
  BY DEF Way
<1>2. /\ peer[f] = "running" /\ rx[f] # <<>> /\ rx'[f] = Tail(rx[f])
      /\ rx[f] \in Seq(TunnelMsg)
      /\ UNCHANGED <<peer, offered, tx, loop, carried, tunnel, socket, arrived>>
  BY DEF HandleUdpPayload, Receives, UdpTypes
<1>3. ReadBy(s)' = ReadBy(s)
  BY <1>2 DEF ReadBy
<1>4. /\ Handed(given[f], a) /\ Counted(Pending(f), a, b) /\ a <= b
      /\ Span(rx[f], b, c) /\ b <= c
  BY <1>1, <1>2 DEF Path
<1>5. /\ b + 1 <= c /\ b + 1 \in Nat /\ n = b + 1 /\ Span(rx'[f], b + 1, c)
  <2>1. /\ b + 1 <= c /\ Head(rx[f]) = Datagram(b + 1) /\ Span(rx'[f], b + 1, c)
    BY <1>2, <1>4, SpanTail
  <2>2. b + 1 \in Nat
    OBVIOUS
  <2>3. QED
    BY <2>1, <2>2, DatagramIs
<1>6. given[f] \in Seq(Outbound) /\ pending_payloads \in Seq(Nat)
      /\ last_peer_addr \in Addr /\ Target # None
      /\ (last_peer_addr # None => pending_payloads = <<>>)
  BY DEF UdpTypes, Target, None
<1>7. CASE to = None
  <2>1. /\ f = LocalSide /\ pending_payloads' = Append(pending_payloads, n)
        /\ given' = given
    BY <1>6, <1>7 DEF HandleUdpPayload
  <2>2. Counted(Pending(f)', a, b + 1) /\ a <= b + 1
    <3>1. Counted(Append(pending_payloads, b + 1), a, b + 1)
      BY <1>4, <1>6, <2>1, CountedAppend DEF Pending
    <3>2. QED
      BY <1>4, <1>5, <2>1, <3>1 DEF Pending
  <2>3. Path(s, f, a, b + 1, c, d, e, g, h)'
    BY <1>1, <1>2, <1>3, <1>5, <2>1, <2>2 DEF Path
  <2>4. QED
    BY <1>5, <2>3 DEF Way
<1>8. CASE to # None
  <2>1. PICK where \in {to, "lost"} :
          given' = [given EXCEPT ![f] = @ \o SentTo(where, <<n>>)]
    BY <1>8 DEF HandleUdpPayload
  <2>2. pending_payloads' = pending_payloads
    BY <1>8 DEF HandleUdpPayload
  <2>3. Pending(f) = <<>> /\ Pending(f)' = <<>>
    BY <1>6, <1>8, <2>2 DEF Pending
  <2>4. a = b
    <3>1. Counted(<<>>, a, b)
      BY <1>4, <2>3
    <3>2. QED
      BY <3>1, NoneCounted
  <2>5. Counted(<<n>>, a, b + 1) /\ <<n>> \in Seq(Nat) /\ a <= b + 1
    <3>1. Counted(<<a + 1>>, a, a + 1) /\ <<a + 1>> \in Seq(Nat) /\ a <= a + 1
      BY OneCounted
    <3>2. n = a + 1
      BY <1>5, <2>4
    <3>3. QED
      BY <2>4, <3>1, <3>2
  <2>6. where \in Addr
    BY <1>6 DEF Addr
  <2>7. given'[f] = given[f] \o SentTo(where, <<n>>)
    BY <2>1 DEF UdpTypes
  <2>8. Handed(given'[f], b + 1)
    <3>1. PICK p : p = <<n>>
      OBVIOUS
    <3>2. /\ p \in Seq(Nat) /\ Counted(p, a, b + 1) /\ a <= b + 1 /\ b + 1 \in Nat
          /\ given'[f] = given[f] \o SentTo(where, p)
      BY <1>5, <2>5, <2>7, <3>1
    <3>3. Handed(given[f] \o SentTo(where, p), b + 1)
      BY <1>4, <1>6, <2>6, <3>2, HandedMore
    <3>4. QED
      BY <3>2, <3>3
  <2>9. Counted(Pending(f)', b + 1, b + 1) /\ b + 1 <= b + 1
    <3>1. Counted(<<>>, b + 1, b + 1)
      BY <1>5, NoneCounted
    <3>2. QED
      BY <1>5, <2>3, <3>1
  <2>10. Path(s, f, b + 1, b + 1, c, d, e, g, h)'
    BY <1>1, <1>2, <1>3, <1>5, <2>8, <2>9 DEF Path
  <2>11. QED
    BY <1>5, <2>10 DEF Way
<1>9. QED
  BY <1>7, <1>8

\* No notice is on a path.
LEMMA NoNotice ==
  ASSUME UdpTypes, NEW s \in Sides, NEW f \in Sides, Way(s, f), HandleNotice(f)
  PROVE  FALSE
<1>1. PICK a \in Nat, b \in Nat, c \in Nat, d \in Nat, e \in Nat, g \in Nat, h \in Nat :
        Path(s, f, a, b, c, d, e, g, h)
  BY DEF Way
<1>2. /\ peer[f] = "running" /\ rx[f] # <<>> /\ rx[f] \in Seq(TunnelMsg)
      /\ Head(rx[f]).type = "Notice"
  BY DEF HandleNotice, Receives, UdpTypes
<1>3. Span(rx[f], b, c) /\ b <= c
  BY <1>1, <1>2 DEF Path
<1>4. Head(rx[f]) = Datagram(b + 1) /\ b + 1 \in Nat
  BY <1>2, <1>3, SpanTail
<1>5. Datagram(b + 1).type = "UdpSend"
  BY <1>4, DatagramIs
<1>6. QED
  BY <1>2, <1>4, <1>5

-----------------------------------------------------------------------------
(* Every step, from either end.                                            *)

LEMMA ArrivesOnWay ==
  ASSUME UdpTypes, NEW s \in Sides, NEW f \in Sides, s # f, Arriving(s), Way(s, f),
         NEW x \in {s, f}, DatagramArrives(x)
  PROVE  Way(s, f)'
<1>1. UNCHANGED <<peer, offered, tx, loop, carried, rx, tunnel, pending_payloads, given>>
  BY DEF DatagramArrives, channelVars, bindingVars
<1>2. ReadBy(s)' = ReadBy(s)
  <2>1. CASE x = s
    BY <2>1, SocketGets
  <2>2. CASE x # s
    <3>1. socket'[s] = socket[s] /\ arrived'[s] = arrived[s]
      BY <2>2 DEF DatagramArrives, UdpTypes
    <3>2. QED
      BY <3>1, SocketSame
  <2>3. QED
    BY <2>1, <2>2
<1>3. Unmoved(s, f)
  BY <1>1, <1>2 DEF Unmoved, Pending
<1>4. QED
  BY <1>3, WayUnmoved

LEMMA PeerOnWay ==
  ASSUME UdpTypes, NEW s \in Sides, NEW f \in Sides, s # f, f = Far(s), Arriving(s), Way(s, f),
         bound = Sides, NEW x \in {s, f}, Peer(x) \/ FlushFails(x)
  PROVE  Way(s, f)'
<1>1. x = s \/ x = f
  OBVIOUS
<1>2. LocalSide \in {s, f}
  BY UdpAssumption, TwoSides DEF Sides
<1>3. CASE HandleUdpRead(x)
  <2>1. CASE x = s
    BY <1>2, <1>3, <2>1, ReadOut
  <2>2. CASE x = f /\ f = LocalSide
    BY <1>3, <2>2, ReadIn
  <2>3. CASE x = f /\ f # LocalSide
    <3>1. /\ peer'[s] = peer[s] /\ offered'[s] = offered[s] /\ socket'[s] = socket[s]
          /\ peer[f] # "dead" /\ given' = given /\ pending_payloads' = pending_payloads
          /\ UNCHANGED <<tx, loop, carried, rx, tunnel, arrived>>
      BY <1>3, <2>3 DEF HandleUdpRead, Offers, UdpTypes, channelVars
    <3>2. Unmoved(s, f)
      BY <3>1 DEF Unmoved, Pending, ReadBy
    <3>3. QED
      BY <3>2, WayUnmoved
  <2>4. QED
    BY <1>1, <2>1, <2>2, <2>3
<1>4. CASE FlushFails(x)
  BY <1>1, <1>4, FlushOut, FlushIn
<1>5. CASE PeerSends(x)
  <2>1. CASE x = s
    BY <1>5, <2>1, SendsOut
  <2>2. CASE x = f
    <3>1. /\ peer'[s] = peer[s] /\ offered'[s] = offered[s] /\ tx'[s] = tx[s]
          /\ peer[f] # "dead"
          /\ UNCHANGED <<loop, carried, rx, tunnel, pending_payloads, socket, arrived, given>>
      BY <1>5, <2>2 DEF PeerSends, UdpTypes, channelVars, bindingVars, socketVars
    <3>2. Unmoved(s, f)
      BY <3>1 DEF Unmoved, Pending, ReadBy
    <3>3. QED
      BY <3>2, WayUnmoved
  <2>3. QED
    BY <1>1, <2>1, <2>2
<1>6. CASE HandleUdpPayload(x)
  <2>1. CASE x = f
    BY <1>6, <2>1, PayloadIn
  <2>2. CASE x = s
    <3>1. /\ rx'[f] = rx[f] /\ given'[f] = given[f]
          /\ UNCHANGED <<peer, offered, tx, loop, carried, tunnel, socket, arrived>>
      BY <1>6, <2>2 DEF HandleUdpPayload, Receives, UdpTypes
    <3>2. s # LocalSide => pending_payloads' = pending_payloads
      <4>1. Target # None
        BY DEF Target, None
      <4>2. QED
        BY <1>6, <2>2, <4>1 DEF HandleUdpPayload
    <3>3. Pending(f)' = Pending(f)
      BY <3>2, PendingSame
    <3>4. Unmoved(s, f)
      BY <3>1, <3>3 DEF Unmoved, ReadBy
    <3>5. QED
      BY <3>4, WayUnmoved
  <2>3. QED
    BY <1>1, <2>1, <2>2
<1>7. CASE HandleNotice(x)
  <2>1. CASE x = f
    BY <1>7, <2>1, NoNotice
  <2>2. CASE x = s
    <3>1. /\ rx'[f] = rx[f]
          /\ UNCHANGED <<peer, offered, tx, loop, carried, tunnel, pending_payloads,
                         socket, arrived, given>>
      BY <1>7, <2>2 DEF HandleNotice, Receives, UdpTypes
    <3>2. Unmoved(s, f)
      BY <3>1 DEF Unmoved, Pending, ReadBy
    <3>3. QED
      BY <3>2, WayUnmoved
  <2>3. QED
    BY <1>1, <2>1, <2>2
<1>8. CASE PeerEnds(x)
  <2>1. /\ loop[x] = "ended" /\ peer[x] # "dead" /\ peer'[x] = "ended"
        /\ \A y \in Sides : y # x => peer'[y] = peer[y]
        /\ UNCHANGED <<offered, tx, loop, carried, rx, tunnel, pending_payloads,
                       socket, arrived, given>>
    BY <1>8 DEF PeerEnds, UdpTypes, channelVars, bindingVars, socketVars
  <2>2. Unmoved(s, f)
    <3>1. CASE x = s
      BY <2>1, <3>1 DEF Unmoved, Pending, ReadBy
    <3>2. CASE x = f
      BY <2>1, <3>2 DEF Unmoved, Pending, ReadBy
    <3>3. QED
      BY <1>1, <3>1, <3>2
  <2>3. QED
    BY <2>2, WayUnmoved
<1>9. QED
  BY <1>3, <1>4, <1>5, <1>6, <1>7, <1>8 DEF Peer

LEMMA LoopOnWay ==
  ASSUME UdpTypes, NEW s \in Sides, NEW f \in Sides, s # f, f = Far(s), Way(s, f),
         NEW x \in {s, f}, Loop(x)
  PROVE  Way(s, f)'
<1>1. x = s \/ x = f
  OBVIOUS
<1>2. UNCHANGED <<peer, offered, pending_payloads, socket, arrived, given>>
  BY DEF Loop, TakeFromPeer, WriteTunnel, TakeFromTunnel, PassToPeer, LoopEnds, Selects,
     bindingVars, socketVars
<1>3. CASE TakeFromPeer(x)
  <2>1. CASE x = s
    BY <1>3, <2>1, TakeOut
  <2>2. CASE x = f
    <3>1. /\ loop[f] = "selecting" /\ loop'[f] = "writing"
          /\ loop'[s] = loop[s] /\ carried'[s] = carried[s] /\ tx'[s] = tx[s]
          /\ UNCHANGED <<rx, tunnel>>
      BY <1>3, <2>2 DEF TakeFromPeer, UdpTypes
    <3>2. Unmoved(s, f)
      BY <1>2, <3>1 DEF Unmoved, Pending, ReadBy
    <3>3. QED
      BY <3>2, WayUnmoved
  <2>3. QED
    BY <1>1, <2>1, <2>2
<1>4. CASE WriteTunnel(x)
  <2>1. CASE x = s
    BY <1>4, <2>1, WriteOut
  <2>2. CASE x = f
    <3>1. /\ loop[f] = "writing" /\ loop'[f] = "selecting"
          /\ loop'[s] = loop[s] /\ carried'[s] = carried[s] /\ tunnel'[f] = tunnel[f]
          /\ UNCHANGED <<tx, rx>>
      BY <1>4, <2>2, TwoSides DEF WriteTunnel, Selects, UdpTypes
    <3>2. Unmoved(s, f)
      BY <1>2, <3>1 DEF Unmoved, Pending, ReadBy
    <3>3. QED
      BY <3>2, WayUnmoved
  <2>3. QED
    BY <1>1, <2>1, <2>2
<1>5. CASE TakeFromTunnel(x)
  <2>1. CASE x = f
    BY <1>5, <2>1, TakeIn
  <2>2. CASE x = s
    <3>1. /\ loop[s] = "selecting" /\ loop'[s] = "passing"
          /\ loop'[f] = loop[f] /\ carried'[f] = carried[f] /\ tunnel'[f] = tunnel[f]
          /\ UNCHANGED <<tx, rx>>
      BY <1>5, <2>2 DEF TakeFromTunnel, UdpTypes
    <3>2. Unmoved(s, f)
      BY <1>2, <3>1 DEF Unmoved, Pending, ReadBy
    <3>3. QED
      BY <3>2, WayUnmoved
  <2>3. QED
    BY <1>1, <2>1, <2>2
<1>6. CASE PassToPeer(x)
  <2>1. CASE x = f
    BY <1>6, <2>1, PassIn
  <2>2. CASE x = s
    <3>1. /\ loop[s] = "passing" /\ loop'[s] = "selecting"
          /\ loop'[f] = loop[f] /\ carried'[f] = carried[f] /\ rx'[f] = rx[f]
          /\ UNCHANGED <<tx, tunnel>>
      BY <1>6, <2>2 DEF PassToPeer, Selects, UdpTypes
    <3>2. Unmoved(s, f)
      BY <1>2, <3>1 DEF Unmoved, Pending, ReadBy
    <3>3. QED
      BY <3>2, WayUnmoved
  <2>3. QED
    BY <1>1, <2>1, <2>2
<1>7. CASE LoopEnds(x)
  <2>1. /\ loop'[x] = "ended" /\ \A y \in Sides : y # x => loop'[y] = loop[y]
        /\ UNCHANGED <<carried, tx, rx, tunnel>>
    BY <1>7 DEF LoopEnds, UdpTypes
  <2>2. Unmoved(s, f)
    <3>1. CASE x = s
      BY <1>2, <2>1, <3>1 DEF Unmoved, Pending, ReadBy
    <3>2. CASE x = f
      BY <1>2, <2>1, <3>2 DEF Unmoved, Pending, ReadBy
    <3>3. QED
      BY <1>1, <3>1, <3>2
  <2>3. QED
    BY <2>2, WayUnmoved
<1>8. QED
  BY <1>3, <1>4, <1>5, <1>6, <1>7 DEF Loop

LEMMA WayKept ==
  ASSUME UdpTypes, \A t \in Sides : Arriving(t), bound = Sides,
         NEW s \in Sides, Way(s, Far(s)), UdpNext
  PROVE  Way(s, Far(s))'
<1>1. PICK x \in Sides : DatagramArrives(x) \/ FlushFails(x) \/ Peer(x) \/ Loop(x)
  BY DEF UdpNext
<1>2. PICK f \in Sides : f = Far(s) /\ f # s
  BY TwoSides
<1>3. x \in {s, f}
  BY <1>2 DEF Sides
<1>4. Way(s, f)'
  BY <1>1, <1>2, <1>3, ArrivesOnWay, PeerOnWay, LoopOnWay
<1>5. QED
  BY <1>2, <1>4

-----------------------------------------------------------------------------
(* A side without its binding: no datagram leaves its socket, and none that *)
(* reaches it is sent on.                                                  *)

LEMMA BoundStays ==
  ASSUME UdpNext
  PROVE  bound' = bound
<1>1. PICK x \in Sides : DatagramArrives(x) \/ FlushFails(x) \/ Peer(x) \/ Loop(x)
  BY DEF UdpNext
<1>2. QED
  BY <1>1 DEF DatagramArrives, FlushFails, Peer, Loop, HandleUdpRead, PeerSends,
     HandleUdpPayload, HandleNotice, Receives, PeerEnds, TakeFromPeer, WriteTunnel,
     TakeFromTunnel, PassToPeer, LoopEnds, Selects, bindingVars

\* A silent channel holds no datagram.
LEMMA QuietHolds ==
  ASSUME NEW x \in Sides, NEW s \in Sides, Silent(s, x), HandleUdpPayload(x)
  PROVE  FALSE
<1>1. rx[x] \in Seq(Quiet) /\ rx[x] # <<>> /\ Head(rx[x]).type = "UdpSend"
  BY DEF Silent, HandleUdpPayload, Receives
<1>2. Head(rx[x]) \in Quiet
  BY <1>1, ChannelFirst
<1>3. QED
  BY <1>1, <1>2, DatagramIs

LEMMA NothingGiven ==
  ASSUME UdpTypes, bound # Sides, pending_payloads = <<>>,
         \A s \in Sides : given[s] = <<>>,
         \A s \in Sides \ bound : Silent(s, Far(s)), UdpNext
  PROVE  pending_payloads' = <<>> /\ \A s \in Sides : given'[s] = <<>>
<1>1. PICK x \in Sides : DatagramArrives(x) \/ FlushFails(x) \/ Peer(x) \/ Loop(x)
  BY DEF UdpNext
<1>2. CASE HandleUdpRead(x)
  <2>1. given[x] \o SentTo(Head(socket[x]).from, pending_payloads) = given[x]
    BY SentToNobody DEF UdpTypes
  <2>2. pending_payloads' = <<>>
    BY <1>2 DEF HandleUdpRead
  <2>3. given'[x] = given[x] /\ \A y \in Sides : y # x => given'[y] = given[y]
    BY <1>2, <2>1 DEF HandleUdpRead, UdpTypes
  <2>4. QED
    BY <2>2, <2>3
<1>3. CASE FlushFails(x)
  BY <1>3 DEF FlushFails
<1>4. CASE HandleUdpPayload(x)
  <2>1. CASE x \in bound
    <3>1. Far(x) \in Sides \ bound /\ Far(Far(x)) = x
      <4>1. bound \subseteq Sides
        BY DEF UdpTypes
      <4>2. Sides = {x, Far(x)}
        BY TwoSides DEF Sides
      <4>3. QED
        BY <2>1, <4>1, <4>2, TwoSides
    <3>2. Silent(Far(x), x)
      BY <3>1
    <3>3. QED
      BY <1>4, <3>1, <3>2, QuietHolds
  <2>2. CASE x \notin bound
    <3>1. UNCHANGED <<pending_payloads, given>>
      BY <1>4, <2>2 DEF HandleUdpPayload
    <3>2. QED
      BY <3>1
  <2>3. QED
    BY <2>1, <2>2
<1>5. CASE \/ DatagramArrives(x) \/ PeerSends(x) \/ HandleNotice(x) \/ PeerEnds(x) \/ Loop(x)
  <2>1. UNCHANGED <<pending_payloads, given>>
    BY <1>5 DEF DatagramArrives, Loop, PeerSends, HandleNotice, PeerEnds, TakeFromPeer,
       WriteTunnel, TakeFromTunnel, PassToPeer, LoopEnds, Selects, bindingVars, socketVars
  <2>2. QED
    BY <2>1
<1>6. QED
  BY <1>1, <1>2, <1>3, <1>4, <1>5 DEF Peer

LEMMA StaysSilent ==
  ASSUME UdpTypes, NEW s \in Sides, NEW f \in Sides, s # f, f = Far(s), s \notin bound,
         Silent(s, f), NEW x \in {s, f},
         DatagramArrives(x) \/ FlushFails(x) \/ Peer(x) \/ Loop(x)
  PROVE  Silent(s, f)'
<1>1. x = s \/ x = f
  OBVIOUS
<1>2. /\ socket[s] = <<>>
      /\ rx[f] \in Seq(Quiet) /\ tunnel[f] \in Seq(Quiet) /\ tx[s] \in Seq(Quiet)
      /\ loop[f] = "passing" => carried[f] \in Quiet
      /\ loop[s] = "writing" => carried[s] \in Quiet
      /\ peer[s] = "sending" => offered[s] \in Quiet
  BY DEF Silent
<1>3. CASE DatagramArrives(x)
  <2>1. x # s
    BY <1>3 DEF DatagramArrives
  <2>2. /\ socket'[s] = socket[s]
        /\ UNCHANGED <<peer, offered, tx, loop, carried, rx, tunnel>>
    BY <1>3, <2>1 DEF DatagramArrives, UdpTypes, channelVars
  <2>3. QED
    BY <1>2, <2>2 DEF Silent
<1>4. CASE HandleUdpRead(x) \/ FlushFails(x)
  <2>1. x # s
    BY <1>2, <1>4 DEF HandleUdpRead, FlushFails
  <2>2. /\ socket'[s] = socket[s] /\ peer'[s] = peer[s] /\ offered'[s] = offered[s]
        /\ UNCHANGED <<tx, loop, carried, rx, tunnel>>
    BY <1>4, <2>1 DEF HandleUdpRead, FlushFails, Offers, UdpTypes, channelVars
  <2>3. QED
    BY <1>2, <2>2 DEF Silent
<1>5. CASE PeerSends(x)
  <2>1. UNCHANGED <<loop, carried, rx, tunnel, socket>>
    BY <1>5 DEF PeerSends, channelVars, socketVars
  <2>2. CASE x = s
    <3>1. /\ peer'[s] = "running" /\ tx'[s] = Append(tx[s], offered[s])
          /\ offered[s] \in Quiet
      BY <1>2, <1>5, <2>2 DEF PeerSends, UdpTypes
    <3>2. tx'[s] \in Seq(Quiet)
      BY <1>2, <3>1
    <3>3. QED
      BY <1>2, <2>1, <3>1, <3>2 DEF Silent
  <2>3. CASE x = f
    <3>1. peer'[s] = peer[s] /\ offered'[s] = offered[s] /\ tx'[s] = tx[s]
      BY <1>5, <2>3 DEF PeerSends, UdpTypes
    <3>2. QED
      BY <1>2, <2>1, <3>1 DEF Silent
  <2>4. QED
    BY <1>1, <2>2, <2>3
<1>6. CASE HandleUdpPayload(x)
  <2>1. x # f
    BY <1>6, QuietHolds
  <2>2. /\ rx'[f] = rx[f] /\ offered'[s] = Notice
        /\ UNCHANGED <<tx, loop, carried, tunnel, socket>>
    BY <1>1, <1>6, <2>1 DEF HandleUdpPayload, Receives, Offers, UdpTypes
  <2>3. Notice \in Quiet
    BY DatagramIs
  <2>4. QED
    BY <1>2, <2>2, <2>3 DEF Silent
<1>7. CASE HandleNotice(x)
  <2>1. UNCHANGED <<peer, offered, tx, loop, carried, tunnel, socket>>
    BY <1>7 DEF HandleNotice, Receives
  <2>2. rx'[f] \in Seq(Quiet)
    <3>1. CASE x = f
      <4>1. rx'[f] = Tail(rx[f]) /\ rx[f] # <<>>
        BY <1>7, <3>1 DEF HandleNotice, Receives, UdpTypes
      <4>2. QED
        BY <1>2, <4>1, ChannelFirst
    <3>2. CASE x # f
      BY <1>2, <1>7, <3>2 DEF HandleNotice, Receives, UdpTypes
    <3>3. QED
      BY <3>1, <3>2
  <2>3. QED
    BY <1>2, <2>1, <2>2 DEF Silent
<1>8. CASE PeerEnds(x)
  <2>1. /\ peer'[s] = "sending" => peer[s] = "sending"
        /\ UNCHANGED <<offered, tx, loop, carried, rx, tunnel, socket>>
    BY <1>8 DEF PeerEnds, UdpTypes, channelVars, socketVars
  <2>2. QED
    BY <1>2, <2>1 DEF Silent
<1>9. CASE TakeFromPeer(x)
  <2>1. UNCHANGED <<peer, offered, rx, tunnel, socket>>
    BY <1>9 DEF TakeFromPeer, socketVars
  <2>2. CASE x = s
    <3>1. /\ loop'[s] = "writing" /\ carried'[s] = Head(tx[s]) /\ tx'[s] = Tail(tx[s])
          /\ tx[s] # <<>> /\ loop'[f] = loop[f] /\ carried'[f] = carried[f]
      BY <1>9, <2>2 DEF TakeFromPeer, UdpTypes
    <3>2. carried'[s] \in Quiet /\ tx'[s] \in Seq(Quiet)
      BY <1>2, <3>1, ChannelFirst
    <3>3. QED
      BY <1>2, <2>1, <3>1, <3>2 DEF Silent
  <2>3. CASE x = f
    <3>1. /\ loop'[f] = "writing" /\ tx'[s] = tx[s]
          /\ loop'[s] = loop[s] /\ carried'[s] = carried[s]
      BY <1>9, <2>3 DEF TakeFromPeer, UdpTypes
    <3>2. QED
      BY <1>2, <2>1, <3>1 DEF Silent
  <2>4. QED
    BY <1>1, <2>2, <2>3
<1>10. CASE WriteTunnel(x)
  <2>1. UNCHANGED <<peer, offered, tx, rx, socket>>
    BY <1>10 DEF WriteTunnel, Selects, socketVars
  <2>2. CASE x = s
    <3>1. /\ loop'[s] = "selecting" /\ loop[s] = "writing"
          /\ tunnel'[f] = Append(tunnel[f], carried[s])
          /\ loop'[f] = loop[f] /\ carried'[f] = carried[f]
      BY <1>10, <2>2 DEF WriteTunnel, Selects, UdpTypes
    <3>2. tunnel'[f] \in Seq(Quiet)
      BY <1>2, <3>1
    <3>3. QED
      BY <1>2, <2>1, <3>1, <3>2 DEF Silent
  <2>3. CASE x = f
    <3>1. /\ loop'[f] = "selecting" /\ tunnel'[f] = tunnel[f]
          /\ loop'[s] = loop[s] /\ carried'[s] = carried[s]
      BY <1>10, <2>3, TwoSides DEF WriteTunnel, Selects, UdpTypes
    <3>2. QED
      BY <1>2, <2>1, <3>1 DEF Silent
  <2>4. QED
    BY <1>1, <2>2, <2>3
<1>11. CASE TakeFromTunnel(x)
  <2>1. UNCHANGED <<peer, offered, tx, rx, socket>>
    BY <1>11 DEF TakeFromTunnel, socketVars
  <2>2. CASE x = f
    <3>1. /\ loop'[f] = "passing" /\ carried'[f] = Head(tunnel[f])
          /\ tunnel'[f] = Tail(tunnel[f]) /\ tunnel[f] # <<>>
          /\ loop'[s] = loop[s] /\ carried'[s] = carried[s]
      BY <1>11, <2>2 DEF TakeFromTunnel, UdpTypes
    <3>2. carried'[f] \in Quiet /\ tunnel'[f] \in Seq(Quiet)
      BY <1>2, <3>1, ChannelFirst
    <3>3. QED
      BY <1>2, <2>1, <3>1, <3>2 DEF Silent
  <2>3. CASE x = s
    <3>1. /\ loop'[s] = "passing" /\ tunnel'[f] = tunnel[f]
          /\ loop'[f] = loop[f] /\ carried'[f] = carried[f]
      BY <1>11, <2>3 DEF TakeFromTunnel, UdpTypes
    <3>2. QED
      BY <1>2, <2>1, <3>1 DEF Silent
  <2>4. QED
    BY <1>1, <2>2, <2>3
<1>12. CASE PassToPeer(x)
  <2>1. UNCHANGED <<peer, offered, tx, tunnel, socket>>
    BY <1>12 DEF PassToPeer, Selects, socketVars
  <2>2. CASE x = f
    <3>1. /\ loop'[f] = "selecting" /\ loop[f] = "passing"
          /\ rx'[f] = rx[f] \/ rx'[f] = Append(rx[f], carried[f])
          /\ loop'[s] = loop[s] /\ carried'[s] = carried[s]
      BY <1>12, <2>2 DEF PassToPeer, Selects, UdpTypes
    <3>2. rx'[f] \in Seq(Quiet)
      <4>1. carried[f] \in Quiet
        BY <1>2, <3>1
      <4>2. Append(rx[f], carried[f]) \in Seq(Quiet)
        BY <1>2, <4>1
      <4>3. QED
        BY <1>2, <3>1, <4>2
    <3>3. QED
      BY <1>2, <2>1, <3>1, <3>2 DEF Silent
  <2>3. CASE x = s
    <3>1. /\ loop'[s] = "selecting" /\ rx'[f] = rx[f]
          /\ loop'[f] = loop[f] /\ carried'[f] = carried[f]
      BY <1>12, <2>3 DEF PassToPeer, Selects, UdpTypes
    <3>2. QED
      BY <1>2, <2>1, <3>1 DEF Silent
  <2>4. QED
    BY <1>1, <2>2, <2>3
<1>13. CASE LoopEnds(x)
  <2>1. /\ UNCHANGED <<peer, offered, carried, tx, rx, tunnel, socket>>
        /\ \A y \in Sides : loop'[y] = loop[y] \/ loop'[y] = "ended"
    BY <1>13 DEF LoopEnds, UdpTypes, socketVars
  <2>2. QED
    BY <1>2, <2>1 DEF Silent
<1>14. QED
  BY <1>3, <1>4, <1>5, <1>6, <1>7, <1>8, <1>9, <1>10, <1>11, <1>12, <1>13 DEF Peer, Loop

-----------------------------------------------------------------------------
(* What Payloads returns.                                                  *)

\* Every set of numbers has a smallest one.
LEMMA Smallest ==
  ASSUME NEW T, T \subseteq Nat, T # {}
  PROVE  \E x \in T : \A y \in T : x <= y
<1>1. PICK x \in T : \A y \in T : ~ (<<y, x>> \in OpToRel(<, Nat))
  BY NatLessThanWellFounded, WFMin
<1>2. \A y \in T : ~ (y < x)
  BY <1>1 DEF OpToRel
<1>3. QED
  BY <1>2

\* F[i] is what the first i members of ss hold.
Joins(S, ss, n, F) ==
  /\ F \in [0 .. n -> Seq(S)] /\ F[0] = <<>>
  /\ \A i \in 1 .. n : F[i] = F[i - 1] \o ss[i]

\* Such an F says what FlattenSeq returns.
LEMMA FlattenJoins ==
  ASSUME NEW S, NEW ss \in Seq(Seq(S)), NEW F, Joins(S, ss, Len(ss), F)
  PROVE  FlattenSeq(ss) = F[Len(ss)]
<1>1. CASE ss = <<>>
  BY <1>1 DEF FlattenSeq, Joins
<1>2. CASE ss # <<>>
  <2> DEFINE L == Len(ss)
             step(f) == [i \in 1 .. L |-> IF i = 1 THEN ss[i] ELSE f[i - 1] \o ss[i]]
             H == [i \in 1 .. L |-> F[i]]
             G == CHOOSE f : f = step(f)
  <2>1. L \in Nat /\ L >= 1 /\ L # 0
    BY <1>2
  <2>2. FlattenSeq(ss) = G[L]
    BY <2>1, Zenon DEF FlattenSeq
  <2>3. ASSUME NEW i \in 1 .. L
        PROVE  F[i] = IF i = 1 THEN ss[i] ELSE F[i - 1] \o ss[i]
    <3>1. F[i] = F[i - 1] \o ss[i]
      BY DEF Joins
    <3>2. i = 1 => F[i - 1] = <<>>
      BY DEF Joins
    <3>3. <<>> \o ss[i] = ss[i]
      <4>1. ss[i] \in Seq(S)
        OBVIOUS
      <4>2. QED
        BY <4>1
    <3>4. QED
      BY <3>1, <3>2, <3>3
  <2>4. H = step(H)
    <3>1. ASSUME NEW i \in 1 .. L
          PROVE  H[i] = IF i = 1 THEN ss[i] ELSE H[i - 1] \o ss[i]
      <4>1. i # 1 => i - 1 \in 1 .. L
        BY <2>1
      <4>2. H[i] = F[i] /\ (i # 1 => H[i - 1] = F[i - 1])
        BY <4>1
      <4>3. QED
        BY <2>3, <4>2
    <3>2. H = [i \in 1 .. L |-> H[i]]
      OBVIOUS
    <3> HIDE DEF H
    <3>3. QED
      BY <3>1, <3>2, Zenon
  <2>5. G = step(G)
    <3> HIDE DEF H
    <3>1. QED
      BY <2>4, Zenon
  <2> HIDE DEF G, H
  <2>6. ASSUME NEW i \in 1 .. L
        PROVE  G[i] = IF i = 1 THEN ss[i] ELSE G[i - 1] \o ss[i]
    BY <2>5, Zenon
  <2> DEFINE T == {i \in 1 .. L : G[i] # F[i]}
  <2>7. T = {}
    <3> SUFFICES ASSUME T # {} PROVE FALSE
      OBVIOUS
    <3>1. PICK x \in T : \A y \in T : x <= y
      <4>1. T \subseteq Nat
        OBVIOUS
      <4> HIDE DEF T
      <4>2. QED
        BY <4>1, Smallest
    <3>2. x \in 1 .. L /\ G[x] # F[x]
      BY <3>1
    <3>3. CASE x = 1
      BY <2>3, <2>6, <3>2, <3>3
    <3>4. CASE x # 1
      <4>1. x - 1 \in 1 .. L /\ ~(x <= x - 1)
        BY <2>1, <3>2, <3>4
      <4>2. G[x - 1] = F[x - 1]
        BY <3>1, <4>1
      <4>3. QED
        BY <2>3, <2>6, <3>2, <3>4, <4>2
    <3>5. QED
      BY <3>3, <3>4
  <2>8. L \in 1 .. L
    BY <2>1
  <2>9. QED
    BY <2>2, <2>7, <2>8
<1>3. QED
  BY <1>1, <1>2

\* The stretch a + 1 .. b as the payloads it holds.
Stretch(a, b) == [i \in 1 .. b - a |-> a + i]

LEMMA StretchIs ==
  ASSUME NEW a \in Nat, NEW b \in Nat, a <= b
  PROVE  /\ Stretch(a, b) \in Seq(Nat) /\ Len(Stretch(a, b)) = b - a
         /\ \A i \in 1 .. b - a : Stretch(a, b)[i] = a + i
<1>1. b - a \in Nat /\ \A i \in 1 .. b - a : a + i \in Nat
  OBVIOUS
<1>2. QED
  BY <1>1 DEF Stretch

LEMMA StretchConcat ==
  ASSUME NEW a \in Nat, NEW b \in Nat, NEW c \in Nat, a <= b, b <= c
  PROVE  Stretch(a, b) \o Stretch(b, c) = Stretch(a, c)
<1>1. PICK p \in Seq(Nat), q \in Seq(Nat), z \in Seq(Nat) :
        p = Stretch(a, b) /\ q = Stretch(b, c) /\ z = Stretch(a, c)
  <2>1. Stretch(a, b) \in Seq(Nat)
    BY StretchIs
  <2>2. Stretch(b, c) \in Seq(Nat)
    BY StretchIs
  <2>3. a <= c
    OBVIOUS
  <2>4. Stretch(a, c) \in Seq(Nat)
    BY <2>3, StretchIs
  <2>5. QED
    BY <2>1, <2>2, <2>4
<1>2. /\ Len(p) = b - a /\ \A i \in 1 .. b - a : p[i] = a + i
      /\ Len(q) = c - b /\ \A i \in 1 .. c - b : q[i] = b + i
      /\ Len(z) = c - a /\ \A i \in 1 .. c - a : z[i] = a + i
  <2>1. Len(p) = b - a /\ \A i \in 1 .. b - a : p[i] = a + i
    BY <1>1, StretchIs
  <2>2. Len(q) = c - b /\ \A i \in 1 .. c - b : q[i] = b + i
    BY <1>1, StretchIs
  <2>3. a <= c
    OBVIOUS
  <2>4. Len(z) = c - a /\ \A i \in 1 .. c - a : z[i] = a + i
    BY <1>1, <2>3, StretchIs
  <2>5. QED
    BY <2>1, <2>2, <2>4
<1>3. PICK u \in Seq(Nat) : u = p \o q
  <2>1. p \o q \in Seq(Nat)
    OBVIOUS
  <2>2. QED
    BY <2>1
<1>4. /\ Len(u) = Len(p) + Len(q)
      /\ \A i \in 1 .. Len(p) : u[i] = p[i]
      /\ \A i \in Len(p) + 1 .. Len(p) + Len(q) : u[i] = q[i - Len(p)]
  BY <1>3
<1>5. Len(u) = Len(z)
  BY <1>2, <1>4
<1>6. ASSUME NEW i \in 1 .. Len(z) PROVE u[i] = z[i]
  <2>1. CASE i \in 1 .. b - a
    BY <1>2, <1>4, <2>1
  <2>2. CASE i \notin 1 .. b - a
    <3>1. /\ i \in Len(p) + 1 .. Len(p) + Len(q) /\ i - Len(p) \in 1 .. c - b
          /\ b + (i - Len(p)) = a + i /\ i \in 1 .. c - a
      BY <1>2, <2>2
    <3>2. u[i] = q[i - Len(p)] /\ q[i - Len(p)] = b + (i - Len(p)) /\ z[i] = a + i
      BY <1>2, <1>4, <3>1
    <3>3. QED
      BY <3>1, <3>2
  <2>3. QED
    BY <2>1, <2>2
<1>7. u = z
  BY <1>5, <1>6, SeqEqual
<1>8. QED
  BY <1>1, <1>3, <1>7

\* The payloads of the messages that hold a datagram, if these come first.
LEMMA PayloadsAre ==
  ASSUME NEW ms \in Seq(TunnelMsg), NEW n \in Nat, n <= Len(ms), NEW b \in Nat,
         \A i \in 1 .. n : ms[i] = Datagram(b + i),
         \A i \in 1 .. Len(ms) : i > n => ms[i].type # "UdpSend"
  PROVE  Payloads(ms) = Stretch(b, b + n)
<1> DEFINE ss == [i \in DOMAIN ms |->
                    IF ms[i].type = "UdpSend" THEN <<ms[i].payload>> ELSE <<>>]
           L  == Len(ms)
           up(k) == IF k <= n THEN k ELSE n
           F  == [k \in 0 .. L |-> Stretch(b, b + up(k))]
<1>1. L \in Nat /\ DOMAIN ms = 1 .. L /\ n <= L
  OBVIOUS
<1>2. ASSUME NEW i \in 1 .. L
      PROVE  ss[i] = (IF i <= n THEN <<b + i>> ELSE <<>>)
  <2>1. ss[i] = IF ms[i].type = "UdpSend" THEN <<ms[i].payload>> ELSE <<>>
    BY <1>1
  <2>2. CASE i <= n
    <3>1. i \in 1 .. n /\ b + i \in Nat
      BY <2>2
    <3>2. ms[i].type = "UdpSend" /\ ms[i].payload = b + i
      BY <3>1, DatagramIs
    <3>3. QED
      BY <2>1, <2>2, <3>2
  <2>3. CASE ~(i <= n)
    <3>1. ms[i].type # "UdpSend"
      BY <1>1, <2>3
    <3>2. QED
      BY <2>1, <2>3, <3>1
  <2>4. QED
    BY <2>2, <2>3
<1>3. ss \in Seq(Seq(Nat)) /\ Len(ss) = L
  <2>1. \A i \in 1 .. L : ss[i] \in Seq(Nat)
    <3> SUFFICES ASSUME NEW i \in 1 .. L PROVE ss[i] \in Seq(Nat)
      OBVIOUS
    <3>1. b + i \in Nat /\ <<b + i>> \in Seq(Nat) /\ <<>> \in Seq(Nat)
      OBVIOUS
    <3> HIDE DEF ss
    <3>2. QED
      BY <1>2, <3>1
  <2>2. ss = [i \in 1 .. L |-> ss[i]]
    BY <1>1
  <2> HIDE DEF ss, L
  <2>3. [i \in 1 .. L |-> ss[i]] \in Seq(Seq(Nat)) /\ Len([i \in 1 .. L |-> ss[i]]) = L
    BY <1>1, <2>1
  <2>4. QED
    BY <2>2, <2>3, Zenon
<1>4. Payloads(ms) = FlattenSeq(ss)
  BY DEF Payloads
<1> HIDE DEF ss
<1>5. ASSUME NEW k \in 0 .. L PROVE F[k] = Stretch(b, b + up(k)) /\ up(k) \in Nat
  BY <1>1
<1>6. F \in [0 .. L -> Seq(Nat)]
  <2>1. ASSUME NEW k \in 0 .. L PROVE Stretch(b, b + up(k)) \in Seq(Nat)
    <3>1. PICK u \in Nat : u = up(k)
      BY <1>1
    <3>2. b + u \in Nat /\ b <= b + u
      OBVIOUS
    <3>3. Stretch(b, b + u) \in Seq(Nat)
      BY <3>2, StretchIs
    <3>4. QED
      BY <3>1, <3>3
  <2> HIDE DEF up
  <2>2. QED
    BY <2>1
<1>7. F[0] = <<>>
  <2>1. 0 \in 0 .. L /\ up(0) = 0 /\ b - b = 0
    BY <1>1
  <2>2. Stretch(b, b) = <<>>
    BY DEF Stretch
  <2>3. F[0] = Stretch(b, b + 0)
    BY <1>5, <2>1
  <2>4. b + 0 = b
    OBVIOUS
  <2>5. QED
    BY <2>2, <2>3, <2>4
<1>8. ASSUME NEW i \in 1 .. L PROVE F[i] = F[i - 1] \o ss[i]
  <2>1. i - 1 \in 0 .. L /\ i \in 0 .. L
    BY <1>1
  <2>2. F[i] = Stretch(b, b + up(i)) /\ F[i - 1] = Stretch(b, b + up(i - 1))
    BY <1>5, <2>1
  <2>3. CASE i <= n
    <3>1. up(i) = i /\ up(i - 1) = i - 1 /\ b + (i - 1) \in Nat /\ b + i \in Nat
          /\ b <= b + (i - 1) /\ b + (i - 1) <= b + i
      BY <1>1, <2>3
    <3>2. ss[i] = <<b + i>>
      BY <1>2, <2>3
    <3>3. Stretch(b + (i - 1), b + i) = <<b + i>>
      <4>1. (b + i) - (b + (i - 1)) = 1 /\ (b + (i - 1)) + 1 = b + i
        OBVIOUS
      <4>2. Stretch(b + (i - 1), b + i) = [j \in 1 .. 1 |-> (b + (i - 1)) + j]
        BY <4>1 DEF Stretch
      <4>3. [j \in 1 .. 1 |-> (b + (i - 1)) + j] = <<(b + (i - 1)) + 1>>
        OBVIOUS
      <4>4. QED
        BY <4>1, <4>2, <4>3
    <3>4. Stretch(b, b + (i - 1)) \o Stretch(b + (i - 1), b + i) = Stretch(b, b + i)
      BY <3>1, StretchConcat
    <3>5. QED
      BY <2>2, <3>1, <3>2, <3>3, <3>4
  <2>4. CASE ~(i <= n)
    <3>1. up(i) = n /\ up(i - 1) = n
      BY <1>1, <2>4
    <3>2. ss[i] = <<>>
      BY <1>2, <2>4
    <3>3. Stretch(b, b + n) \o <<>> = Stretch(b, b + n)
      <4>1. b + n \in Nat /\ b <= b + n
        OBVIOUS
      <4>2. Stretch(b, b + n) \in Seq(Nat)
        BY <4>1, StretchIs
      <4>3. QED
        BY <4>2
    <3>4. QED
      BY <2>2, <3>1, <3>2, <3>3
  <2>5. QED
    BY <2>3, <2>4
<1> HIDE DEF F
<1>9. Joins(Nat, ss, Len(ss), F)
  BY <1>3, <1>6, <1>7, <1>8 DEF Joins
<1>10. FlattenSeq(ss) = F[L]
  BY <1>3, <1>9, FlattenJoins
<1>11. L \in 0 .. L /\ up(L) = n
  <2> HIDE DEF L
  <2>1. L \in 0 .. L
    BY <1>1
  <2>2. L <= n => L = n
    BY <1>1
  <2>3. QED
    BY <2>1, <2>2
<1>12. F[L] = Stretch(b, b + n)
  BY <1>5, <1>11
<1>13. QED
  BY <1>4, <1>10, <1>12

LEMMA CountedIs ==
  ASSUME NEW q \in Seq(Nat), NEW a \in Nat, NEW b \in Nat, a <= b, Counted(q, a, b)
  PROVE  q = Stretch(a, b)
<1>1. PICK z \in Seq(Nat) : z = Stretch(a, b)
  BY StretchIs
<1>2. Len(z) = b - a /\ \A i \in 1 .. b - a : z[i] = a + i
  BY <1>1, StretchIs
<1>3. Len(q) = Len(z) /\ \A i \in 1 .. Len(z) : q[i] = z[i]
  BY <1>2 DEF Counted
<1>4. q = z
  BY <1>3, SeqEqual
<1>5. QED
  BY <1>1, <1>4

LEMMA HandedIs ==
  ASSUME UdpTypes, NEW f \in Sides, NEW a \in Nat, Handed(given[f], a)
  PROVE  SentOn(f) = Stretch(0, a)
<1>1. given[f] \in Seq(Outbound)
  BY DEF UdpTypes
<1>2. DOMAIN given[f] = 1 .. a /\ \A i \in 1 .. a : given[f][i].payload = i
  BY <1>1 DEF Handed
<1>3. SentOn(f) = [i \in 1 .. a |-> i]
  BY <1>2 DEF SentOn
<1>4. Stretch(0, a) = [i \in 1 .. a |-> i]
  <2>1. a - 0 = a /\ \A i \in 1 .. a : 0 + i = i
    OBVIOUS
  <2>2. QED
    BY <2>1 DEF Stretch
<1>5. QED
  BY <1>3, <1>4

LEMMA ReadIs ==
  ASSUME NEW r \in Nat
  PROVE  [i \in 1 .. r |-> i] = Stretch(0, r)
<1>1. r - 0 = r /\ \A i \in 1 .. r : 0 + i = i
  OBVIOUS
<1>2. QED
  BY <1>1 DEF Stretch

LEMMA StretchPrefix ==
  ASSUME NEW a \in Nat, NEW r \in Nat, a <= r
  PROVE  IsPrefix(Stretch(0, a), Stretch(0, r))
<1>1. PICK g \in Seq(Nat), t \in Seq(Nat) : g = Stretch(0, a) /\ t = Stretch(0, r)
  BY StretchIs
<1>2. /\ Len(g) = a /\ \A i \in 1 .. a : g[i] = i
      /\ Len(t) = r /\ \A i \in 1 .. r : t[i] = i
  <2>a. 0 \in Nat /\ 0 <= a /\ 0 <= r
    OBVIOUS
  <2>b. Len(g) = a - 0 /\ \A i \in 1 .. a - 0 : g[i] = 0 + i
    BY <1>1, <2>a, StretchIs
  <2>c. Len(t) = r - 0 /\ \A i \in 1 .. r - 0 : t[i] = 0 + i
    BY <1>1, <2>a, StretchIs
  <2>1. /\ Len(g) = a - 0 /\ \A i \in 1 .. a - 0 : g[i] = 0 + i
        /\ Len(t) = r - 0 /\ \A i \in 1 .. r - 0 : t[i] = 0 + i
    BY <2>b, <2>c
  <2>2. a - 0 = a /\ r - 0 = r
    OBVIOUS
  <2>3. QED
    BY <2>1, <2>2
<1>3. SubSeq(g, 1, Len(g)) = g
  OBVIOUS
<1>4. PICK u \in Seq(Nat) : u = SubSeq(t, 1, a)
  BY <1>2
<1>5. Len(u) = a /\ \A i \in 1 .. a : u[i] = t[i]
  BY <1>2, <1>4
<1>6. Len(u) = Len(g) /\ \A i \in 1 .. Len(g) : u[i] = g[i]
  BY <1>2, <1>5
<1>7. u = g
  BY <1>6, SeqEqual
<1>8. Len(g) <= Len(t)
  BY <1>2
<1>9. IsPrefix(g, t)
  BY <1>2, <1>3, <1>4, <1>7, <1>8 DEF IsPrefix
<1>10. QED
  BY <1>1, <1>9

\* What a loop holds.
LEMMA CarriedSpan ==
  ASSUME NEW s, NEW doing, carried[s] \in TunnelMsg, NEW a \in Nat, NEW b \in Nat,
         One(carried[s], loop[s] = doing, a, b)
  PROVE  Carried(s, doing) \in Seq(TunnelMsg) /\ Span(Carried(s, doing), a, b)
<1>1. CASE loop[s] = doing
  <2>1. Carried(s, doing) = <<carried[s]>> /\ b = a + 1 /\ carried[s] = Datagram(b)
    BY <1>1 DEF Carried, One
  <2>2. <<carried[s]>> \in Seq(TunnelMsg)
    OBVIOUS
  <2>3. Span(<<Datagram(a + 1)>>, a, a + 1)
    BY DEF Span
  <2>4. QED
    BY <2>1, <2>2, <2>3
<1>2. CASE loop[s] # doing
  <2>1. Carried(s, doing) = <<>> /\ b = a
    BY <1>2 DEF Carried, One
  <2>2. Span(<<>>, a, a)
    BY DEF Span
  <2>3. QED
    BY <2>1, <2>2
<1>3. QED
  BY <1>1, <1>2

-----------------------------------------------------------------------------
(* The invariant.                                                          *)

LEMMA UdpBegins ==
  ASSUME ForwardingInit
  PROVE  UdpInv
<1>1. UdpInit
  BY DEF ForwardingInit
<1>2. UdpTypes /\ \A s \in Sides : Arriving(s)
  BY <1>1, UdpStart
<1>3. \A s \in Sides : Far(s) \in Sides
  BY TwoSides
<1>4. ASSUME bound = Sides, NEW s \in Sides PROVE Way(s, Far(s))
  <2>1. PICK f \in Sides : f = Far(s)
    BY <1>3
  <2>2. /\ peer[s] = "running" /\ loop[s] = "selecting" /\ loop[f] = "selecting"
        /\ tx[s] = <<>> /\ rx[f] = <<>> /\ tunnel[f] = <<>> /\ pending_payloads = <<>>
        /\ given[f] = <<>> /\ arrived[s] = 0 /\ socket[s] = <<>>
    BY <1>1, <1>4 DEF UdpInit
  <2>3. ReadBy(s) = 0 /\ Pending(f) = <<>>
    <3>1. Len(<<>>) = 0 /\ 0 - 0 = 0
      OBVIOUS
    <3>2. QED
      BY <2>2, <3>1 DEF ReadBy, Pending
  <2>4. Path(s, f, 0, 0, 0, 0, 0, 0, 0)
    <3>1. Handed(given[f], 0)
      BY <2>2 DEF Handed
    <3>2. Counted(Pending(f), 0, 0)
      BY <2>3 DEF Counted
    <3>3. Span(rx[f], 0, 0) /\ Span(tunnel[f], 0, 0) /\ Span(tx[s], 0, 0)
      BY <2>2 DEF Span
    <3>4. /\ One(carried[f], loop[f] = "passing", 0, 0)
          /\ One(carried[s], loop[s] = "writing", 0, 0)
          /\ One(offered[s], peer[s] = "sending", 0, ReadBy(s))
      BY <2>2, <2>3 DEF One
    <3>5. QED
      BY <2>3, <3>1, <3>2, <3>3, <3>4 DEF Path
  <2>5. QED
    BY <2>1, <2>4 DEF Way
<1>5. pending_payloads = <<>> /\ \A s \in Sides : given[s] = <<>>
  BY <1>1 DEF UdpInit
<1>6. ASSUME NEW s \in Sides \ bound PROVE Silent(s, Far(s))
  <2>1. Notice \in Quiet
    BY DatagramIs
  <2>2. PICK f \in Sides : f = Far(s)
    BY <1>3
  <2>3. Silent(s, f)
    BY <1>1, <2>1 DEF UdpInit, Silent
  <2>4. QED
    BY <2>2, <2>3
<1>7. QED
  BY <1>2, <1>4, <1>5, <1>6 DEF UdpInv

LEMMA UdpKept ==
  ASSUME UdpInv, UdpNext
  PROVE  UdpInv'
<1>1. UdpTypes /\ \A s \in Sides : Arriving(s)
  BY DEF UdpInv
<1>2. UdpTypes'
  BY <1>1, TypesKept
<1>3. \A s \in Sides : Arriving(s)'
  BY <1>1, ArrivingKept
<1>4. bound' = bound
  BY BoundStays
<1>5. ASSUME bound = Sides, NEW s \in Sides PROVE Way(s, Far(s))'
  BY <1>1, <1>5, WayKept DEF UdpInv
<1>6. ASSUME bound # Sides
      PROVE  /\ pending_payloads' = <<>> /\ \A s \in Sides : given'[s] = <<>>
             /\ \A s \in Sides \ bound : Silent(s, Far(s))'
  <2>1. /\ pending_payloads = <<>> /\ \A s \in Sides : given[s] = <<>>
        /\ \A s \in Sides \ bound : Silent(s, Far(s))
    BY <1>6 DEF UdpInv
  <2>2. pending_payloads' = <<>> /\ \A s \in Sides : given'[s] = <<>>
    BY <1>1, <1>6, <2>1, NothingGiven
  <2>3. ASSUME NEW s \in Sides \ bound PROVE Silent(s, Far(s))'
    <3>1. PICK x \in Sides : DatagramArrives(x) \/ FlushFails(x) \/ Peer(x) \/ Loop(x)
      BY DEF UdpNext
    <3>2. PICK f \in Sides : f = Far(s) /\ f # s
      BY TwoSides
    <3>3. x \in {s, f}
      BY <3>2 DEF Sides
    <3>4. Silent(s, f)
      BY <2>1, <3>2
    <3>5. Silent(s, f)'
      BY <1>1, <3>1, <3>2, <3>3, <3>4, StaysSilent
    <3>6. QED
      BY <3>2, <3>5
  <2>4. QED
    BY <2>2, <2>3
<1>7. QED
  BY <1>2, <1>3, <1>4, <1>5, <1>6 DEF UdpInv

LEMMA UdpUntouched ==
  ASSUME UdpInv, UNCHANGED udpVars
  PROVE  UdpInv'
<1>1. /\ UNCHANGED <<peer, offered, tx, loop, carried, rx, tunnel, bound, last_peer_addr,
                     pending_payloads, socket, arrived, given>>
  BY DEF udpVars, channelVars, bindingVars, socketVars
<1>2. UdpTypes'
  BY <1>1 DEF UdpInv, UdpTypes
<1>3. \A s \in Sides : ReadBy(s)' = ReadBy(s) /\ Pending(s)' = Pending(s)
  BY <1>1 DEF ReadBy, Pending
<1>4. \A s \in Sides : Arriving(s)'
  BY <1>1, <1>3 DEF UdpInv, Arriving
<1>5. ASSUME bound = Sides, NEW s \in Sides PROVE Way(s, Far(s))'
  <2>1. PICK f \in Sides : f = Far(s)
    BY TwoSides
  <2>2. Way(s, f)
    BY <1>5, <2>1 DEF UdpInv
  <2>3. Unmoved(s, f)
    BY <1>1, <1>3 DEF Unmoved
  <2>4. QED
    BY <2>1, <2>2, <2>3, WayUnmoved
<1>6. ASSUME bound # Sides, NEW s \in Sides \ bound PROVE Silent(s, Far(s))'
  <2>1. Silent(s, Far(s))
    BY <1>6 DEF UdpInv
  <2>2. QED
    BY <1>1, <2>1 DEF Silent
<1>7. QED
  BY <1>1, <1>2, <1>4, <1>5, <1>6 DEF UdpInv

\* Whatever the two NetworkPeers and their loops do, the datagrams a side has
\* read are at one place after the other on their way, without a gap, and where a
\* side has no binding there are none.
THEOREM DatagramsHold == ForwardingSpec => []UdpInv
<1>1. ForwardingInit => UdpInv
  BY UdpBegins
<1>2. UdpInv /\ [ForwardingNext]_allVars => UdpInv'
  <2> SUFFICES ASSUME UdpInv, [ForwardingNext]_allVars PROVE UdpInv'
    OBVIOUS
  <2>1. CASE UNCHANGED allVars
    BY <2>1, UdpUntouched DEF allVars
  <2>2. CASE ForwardingNext
    BY <2>2, UdpKept, UdpUntouched DEF ForwardingNext
  <2>3. QED
    BY <2>1, <2>2
<1>3. QED
  BY <1>1, <1>2, PTL DEF ForwardingSpec

-----------------------------------------------------------------------------
(* What it says of the datagrams.                                          *)

LEMMA RunningTypes ==
  ASSUME UdpTypes, NEW s \in Sides
  PROVE  /\ peer[s] \in {"running", "sending", "dead", "ended"}
         /\ peer[s] = "running" => offered[s] = Nothing
         /\ peer[s] = "ended" => loop[s] = "ended"
<1>1. peer \in [Sides -> {"running", "sending", "dead", "ended"}]
  BY Zenon DEF UdpTypes
<1>2. \A t \in Sides :
        /\ peer[t] = "running" => offered[t] = Nothing
        /\ peer[t] = "ended" => loop[t] = "ended"
  BY Zenon DEF UdpTypes
<1>3. QED
  BY <1>1, <1>2

\* What is on its way, when both sides run: the last stretch of the path.
LEMMA InTransitIs ==
  ASSUME UdpTypes, NEW s \in Sides, ReadBy(s) \in Nat, ~Over,
         NEW a \in Nat, NEW b \in Nat, NEW c \in Nat, NEW d \in Nat, NEW e \in Nat,
         NEW g \in Nat, NEW h \in Nat, Path(s, Far(s), a, b, c, d, e, g, h)
  PROVE  InTransit(s) = Stretch(b, ReadBy(s)) /\ b <= ReadBy(s)
<1>1. PICK f \in Sides : f = Far(s) /\ f # s
  BY TwoSides
<1>2. PICK r \in Nat : r = ReadBy(s)
  OBVIOUS
<1>3. /\ peer[s] \in {"running", "sending"} /\ peer[f] # "dead"
      /\ loop[s] # "ended" /\ loop[f] # "ended"
  <2>1. \A y \in Sides : peer[y] # "dead" /\ loop[y] # "ended"
    BY DEF Over
  <2>2. peer[s] \in {"running", "sending", "dead", "ended"} /\ peer[s] # "ended"
    <3>1. /\ peer[s] \in {"running", "sending", "dead", "ended"}
          /\ peer[s] = "ended" => loop[s] = "ended"
      BY RunningTypes
    <3>2. QED
      BY <2>1, <3>1
  <2>3. QED
    BY <1>1, <2>1, <2>2
<1>4. /\ b <= c /\ c <= d /\ d <= e /\ e <= g /\ g <= h /\ h <= r
      /\ Span(rx[f], b, c) /\ One(carried[f], loop[f] = "passing", c, d)
      /\ Span(tunnel[f], d, e) /\ One(carried[s], loop[s] = "writing", e, g)
      /\ Span(tx[s], g, h) /\ One(offered[s], peer[s] = "sending", h, r)
  BY <1>1, <1>2, <1>3 DEF Path
<1>5. /\ rx[f] \in Seq(TunnelMsg) /\ tunnel[f] \in Seq(TunnelMsg) /\ tx[s] \in Seq(TunnelMsg)
      /\ carried[f] \in TunnelMsg /\ carried[s] \in TunnelMsg /\ offered[s] \in TunnelMsg
  BY DEF UdpTypes
<1>6. Carried(f, "passing") \in Seq(TunnelMsg) /\ Span(Carried(f, "passing"), c, d)
  BY <1>4, <1>5, CarriedSpan
<1>7. Carried(s, "writing") \in Seq(TunnelMsg) /\ Span(Carried(s, "writing"), e, g)
  BY <1>4, <1>5, CarriedSpan
<1>8. PICK p1 \in Seq(TunnelMsg) : p1 = rx[f] \o Carried(f, "passing") /\ Span(p1, b, d)
  <2>1. PICK x \in Seq(TunnelMsg), y \in Seq(TunnelMsg) :
          x = rx[f] /\ y = Carried(f, "passing")
    BY <1>5, <1>6
  <2>2. b <= c /\ c <= d /\ Span(x, b, c) /\ Span(y, c, d)
    BY <1>4, <1>6, <2>1
  <2>3. x \o y \in Seq(TunnelMsg) /\ Span(x \o y, b, d)
    BY <2>2, SpanConcat
  <2>4. QED
    BY <2>1, <2>3
<1>9. PICK p2 \in Seq(TunnelMsg) : p2 = p1 \o tunnel[f] /\ Span(p2, b, e)
  <2>1. b <= d
    BY <1>4
  <2>2. PICK y \in Seq(TunnelMsg) : y = tunnel[f]
    BY <1>5
  <2>3. d <= e /\ Span(y, d, e)
    BY <1>4, <2>2
  <2>4. p1 \o y \in Seq(TunnelMsg) /\ Span(p1 \o y, b, e)
    BY <1>8, <2>1, <2>3, SpanConcat
  <2>5. QED
    BY <2>2, <2>4
<1>10. PICK p3 \in Seq(TunnelMsg) : p3 = p2 \o Carried(s, "writing") /\ Span(p3, b, g)
  <2>1. b <= e
    BY <1>4
  <2>2. PICK y \in Seq(TunnelMsg) : y = Carried(s, "writing")
    BY <1>7
  <2>3. e <= g /\ Span(y, e, g)
    BY <1>4, <1>7, <2>2
  <2>4. p2 \o y \in Seq(TunnelMsg) /\ Span(p2 \o y, b, g)
    BY <1>9, <2>1, <2>3, SpanConcat
  <2>5. QED
    BY <2>2, <2>4
<1>11. PICK p4 \in Seq(TunnelMsg) : p4 = p3 \o tx[s] /\ Span(p4, b, h)
  <2>1. b <= g
    BY <1>4
  <2>2. PICK y \in Seq(TunnelMsg) : y = tx[s]
    BY <1>5
  <2>3. g <= h /\ Span(y, g, h)
    BY <1>4, <2>2
  <2>4. p3 \o y \in Seq(TunnelMsg) /\ Span(p3 \o y, b, h)
    BY <1>10, <2>1, <2>3, SpanConcat
  <2>5. QED
    BY <2>2, <2>4
<1>12. PICK ms \in Seq(TunnelMsg) : ms = p4 \o <<offered[s]>>
  <2>1. <<offered[s]>> \in Seq(TunnelMsg)
    BY <1>5
  <2>2. p4 \o <<offered[s]>> \in Seq(TunnelMsg)
    BY <2>1
  <2>3. QED
    BY <2>2
<1>13. InTransit(s) = Payloads(ms)
  BY <1>1, <1>8, <1>9, <1>10, <1>11, <1>12 DEF InTransit
<1>14. /\ Len(p4) = h - b /\ \A i \in 1 .. h - b : p4[i] = Datagram(b + i)
       /\ b <= h /\ b <= r /\ h - b \in Nat
  <2>1. b <= h /\ b <= r /\ h - b \in Nat
    BY <1>4
  <2>2. QED
    BY <1>11, <2>1 DEF Span
<1>15. /\ Len(ms) = (h - b) + 1 /\ ms[(h - b) + 1] = offered[s]
       /\ \A i \in 1 .. h - b : ms[i] = Datagram(b + i)
  <2>1. /\ Len(ms) = Len(p4) + 1 /\ ms[Len(p4) + 1] = offered[s]
        /\ \A i \in 1 .. Len(p4) : ms[i] = p4[i]
    BY <1>5, <1>12
  <2>2. QED
    BY <1>14, <2>1
<1>16. /\ r - b \in Nat /\ r - b <= Len(ms)
       /\ \A i \in 1 .. r - b : ms[i] = Datagram(b + i)
       /\ \A i \in 1 .. Len(ms) : i > r - b => ms[i].type # "UdpSend"
  <2>1. CASE peer[s] = "sending"
    <3>1. r = h + 1 /\ offered[s] = Datagram(r)
      BY <1>4, <2>1 DEF One
    <3>2. r - b = (h - b) + 1 /\ b + ((h - b) + 1) = r
      BY <1>14, <3>1
    <3>3. ASSUME NEW i \in 1 .. r - b PROVE ms[i] = Datagram(b + i)
      <4>1. CASE i = (h - b) + 1
        BY <1>15, <3>1, <3>2, <4>1
      <4>2. CASE i # (h - b) + 1
        <5>1. i \in 1 .. h - b
          BY <1>14, <3>2, <4>2
        <5>2. QED
          BY <1>15, <5>1
      <4>3. QED
        BY <4>1, <4>2
    <3>4. \A i \in 1 .. Len(ms) : ~(i > r - b)
      BY <1>14, <1>15, <3>2
    <3>5. QED
      BY <1>14, <1>15, <3>2, <3>3, <3>4
  <2>2. CASE peer[s] # "sending"
    <3>1. r = h /\ offered[s] = Nothing
      <4>1. peer[s] = "running"
        BY <1>3, <2>2
      <4>2. r = h
        BY <1>4, <2>2 DEF One
      <4>3. QED
        BY <4>1, <4>2, RunningTypes
    <3>2. h - b = r - b /\ Len(ms) = (h - b) + 1 /\ h - b \in Nat
      BY <1>14, <1>15, <3>1
    <3>3. ASSUME NEW i \in 1 .. Len(ms), i > r - b PROVE ms[i].type # "UdpSend"
      <4>1. i = (h - b) + 1
        BY <3>2, <3>3
      <4>2. ms[i] = offered[s]
        BY <1>15, <4>1
      <4>3. ms[i] \in Quiet
        BY <3>1, <4>2, DatagramIs, Zenon
      <4>4. QED
        BY <4>3, DatagramIs, Zenon
    <3>4. r - b \in Nat /\ r - b <= Len(ms)
      BY <1>14, <1>15, <3>1
    <3>5. QED
      BY <1>15, <3>1, <3>3, <3>4
  <2>3. QED
    BY <2>1, <2>2
<1>17. Payloads(ms) = Stretch(b, b + (r - b))
  BY <1>16, PayloadsAre
<1>18. b + (r - b) = r
  BY <1>14
<1>19. QED
  BY <1>2, <1>13, <1>14, <1>17, <1>18

\* Every datagram that was read is sent on once, in order, is on its way in one
\* place, or waits for somebody to be sent to; and if a side has ended or has no
\* binding, what is sent on is still a prefix of what was read.
THEOREM DatagramsStayInOrder == ForwardingSpec => []DatagramsInOrder
<1>1. UdpInv => DatagramsInOrder
  <2> SUFFICES ASSUME UdpInv, NEW s \in Sides
               PROVE  LET read == [i \in 1 .. arrived[s] - Len(socket[s]) |-> i]
                      IN IF Over \/ bound # Sides THEN IsPrefix(SentOn(Far(s)), read)
                         ELSE SentOn(Far(s)) \o Waiting(s) \o InTransit(s) = read
    BY DEF DatagramsInOrder
  <2>1. UdpTypes /\ ReadBy(s) \in Nat
    BY DEF UdpInv, Arriving
  <2>2. PICK f \in Sides : f = Far(s)
    BY TwoSides
  <2>3. PICK r \in Nat : r = ReadBy(s)
    BY <2>1
  <2>4. [i \in 1 .. arrived[s] - Len(socket[s]) |-> i] = Stretch(0, r)
    <3>1. [i \in 1 .. r |-> i] = Stretch(0, r)
      BY ReadIs
    <3>2. QED
      BY <2>3, <3>1 DEF ReadBy
  <2>5. CASE bound # Sides
    <3>1. Handed(given[f], 0)
      BY <2>5 DEF UdpInv, Handed
    <3>2. SentOn(f) = Stretch(0, 0)
      BY <2>1, <3>1, HandedIs
    <3>3. IsPrefix(Stretch(0, 0), Stretch(0, r))
      BY StretchPrefix
    <3>4. QED
      BY <2>2, <2>4, <2>5, <3>2, <3>3
  <2>6. CASE bound = Sides
    <3>1. PICK a \in Nat, b \in Nat, c \in Nat, d \in Nat, e \in Nat, g \in Nat, h \in Nat :
            Path(s, f, a, b, c, d, e, g, h)
      BY <2>2, <2>6 DEF UdpInv, Way
    <3>2. /\ a <= b /\ a <= r /\ Handed(given[f], a)
      BY <2>3, <3>1 DEF Path
    <3>3. SentOn(f) = Stretch(0, a)
      BY <2>1, <3>2, HandedIs
    <3>4. CASE Over
      <4>1. IsPrefix(Stretch(0, a), Stretch(0, r))
        BY <3>2, StretchPrefix
      <4>2. QED
        BY <2>2, <2>4, <3>3, <3>4, <4>1
    <3>5. CASE ~Over
      <4>1. InTransit(s) = Stretch(b, r) /\ b <= r
        BY <2>1, <2>2, <2>3, <3>1, <3>5, InTransitIs
      <4>2. Counted(Pending(f), a, b)
        BY <3>1, <3>5 DEF Path, Over
      <4>3. Pending(f) \in Seq(Nat) /\ Waiting(s) = Pending(f)
        BY <2>1, <2>2 DEF UdpTypes, Pending, Waiting
      <4>4. Waiting(s) = Stretch(a, b)
        <5>1. a <= b
          BY <3>1 DEF Path
        <5>2. QED
          BY <4>2, <4>3, <5>1, CountedIs
      <4>5. Stretch(0, a) \o Stretch(a, b) = Stretch(0, b)
        <5>1. 0 \in Nat /\ 0 <= a /\ a <= b
          BY <3>1 DEF Path
        <5>2. QED
          BY <5>1, StretchConcat
      <4>6. Stretch(0, b) \o Stretch(b, r) = Stretch(0, r)
        <5>1. 0 \in Nat /\ 0 <= b /\ b <= r
          BY <4>1
        <5>2. QED
          BY <5>1, StretchConcat
      <4>7. SentOn(Far(s)) \o Waiting(s) \o InTransit(s) = Stretch(0, r)
        BY <2>2, <3>3, <4>1, <4>4, <4>5, <4>6
      <4>8. QED
        BY <2>4, <2>6, <3>5, <4>7
    <3>6. QED
      BY <3>4, <3>5
  <2>7. QED
    BY <2>5, <2>6
<1>2. QED
  BY <1>1, DatagramsHold, PTL
=============================================================================
