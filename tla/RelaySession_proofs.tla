------------------------ MODULE RelaySession_proofs ------------------------
(***************************************************************************)
(* Proofs about RelaySession, for any number of connections and sessions.  *)
(*                                                                         *)
(* The server's pools: two participants never wait for each other, and a   *)
(* connection belongs to one pair, a pair of one session.                  *)
(*                                                                         *)
(* The streams: two joined clients never use different ones                *)
(* (StreamsAgree).  It rests on what can be on its way in the two channels *)
(* of a connection at each stage of its pair: the server asks one thing of *)
(* a client at a time, and a client that has not answered yet has not done *)
(* it either.                                                              *)
(*                                                                         *)
(* What is relayed: a client reads what the peer it joined wrote, in order *)
(* and without a gap (RelayedInOrder).  It rests on an account of every    *)
(* payload: those in a channel are a stretch of numbers that goes on where *)
(* the reader's end of the channel stands.                                 *)
(***************************************************************************)
EXTENDS RelaySession, SequenceTheorems, TLAPS

-----------------------------------------------------------------------------
(* The server's pools.                                                     *)

\* The shape of a pair that EXCEPT keeps.
IsPair(p) == p = [con1 |-> p.con1, con2 |-> p.con2, stage |-> p.stage,
                  results |-> p.results]

PairOK(p) ==
  /\ IsPair(p)
  /\ p.con1 \in Conns /\ p.con2 \in Conns
  /\ KeyOf[p.con2] = Other[KeyOf[p.con1]]
  /\ accepting[p.con1] = "done" /\ accepting[p.con2] = "done"

\* What NeverBothWaiting and PairsAreSessions rest on: the loop has handled a
\* connection before it waits or is paired, which it does once, and a
\* connection waits under its own key.
Handled ==
  /\ accepting \in [Conns -> {"none", "waiting_key", "accepted", "done"}]
  /\ DOMAIN client = Conns
  /\ \A c \in Conns : client[c] = "idle" => accepting[c] = "none"

WaitingOK ==
  /\ DOMAIN waiting \subseteq Keys
  /\ \A k \in DOMAIN waiting :
       /\ waiting[k] \in Conns /\ KeyOf[waiting[k]] = k
       /\ accepting[waiting[k]] = "done"

PoolsInv ==
  /\ Handled
  /\ WaitingOK
  /\ \A p \in pairs : PairOK(p)
  /\ NeverBothWaiting
  /\ PairsAreSessions

-----------------------------------------------------------------------------
(* A pair's task keeps its two connections or ends.                        *)

Moves(p, q) == q.con1 = p.con1 /\ q.con2 = p.con2 /\ IsPair(q)

PairMovesOrEnds(p) ==
  /\ UNCHANGED <<accepting, waiting>>
  /\ \/ pairs' = pairs \/ pairs' = pairs \ {p}
     \/ \E q : Moves(p, q) /\ pairs' = (pairs \ {p}) \cup {q}

\* A pair's task that goes on to another stage keeps the two connections.
LEMMA AtStageMoves ==
  ASSUME NEW p, NEW s, IsPair(p)
  PROVE  Moves(p, AtStage(p, s))
<1>1. [p EXCEPT !.stage = s] =
        [con1 |-> p.con1, con2 |-> p.con2, stage |-> s, results |-> p.results]
  BY DEF IsPair
<1>2. AtStage(p, s) = [[p EXCEPT !.stage = s] EXCEPT !.results = <<>>]
  BY DEF AtStage
<1>3. AtStage(p, s) =
        [con1 |-> p.con1, con2 |-> p.con2, stage |-> s, results |-> <<>>]
  BY <1>1, <1>2
<1>4. QED
  BY <1>3 DEF Moves, IsPair

\* Neither does noting a client's answer change the connections.
LEMMA ResultsMoves ==
  ASSUME NEW p, NEW r, IsPair(p)
  PROVE  Moves(p, [p EXCEPT !.results = r])
<1>1. [p EXCEPT !.results = r] =
        [con1 |-> p.con1, con2 |-> p.con2, stage |-> p.stage, results |-> r]
  BY DEF IsPair
<1>2. QED
  BY <1>1 DEF Moves, IsPair

\* Whatever a pair's task does, the pair keeps its connections or ends, and
\* the pools of waiting and of new connections are left alone.
LEMMA PairTaskMoves ==
  ASSUME NEW p \in pairs, IsPair(p), PairTask(p) \/ PairExpires(p)
  PROVE  PairMovesOrEnds(p)
<1>1. CASE SendPeerJoined(p)
  BY <1>1, AtStageMoves DEF SendPeerJoined, Becomes, PairMovesOrEnds
<1>2. CASE SendBind(p)
  BY <1>2, AtStageMoves DEF SendBind, Becomes, PairMovesOrEnds
<1>3. CASE WriteFails(p)
  BY <1>3 DEF WriteFails, PairEnds, PairMovesOrEnds
<1>4. CASE PairExpires(p)
  BY <1>4 DEF PairExpires, PairEnds, PairMovesOrEnds
<1>5. ASSUME NEW c \in ConnsOf(p), ReceiveResult(p, c)
      PROVE  PairMovesOrEnds(p)
  <2>1. UNCHANGED <<accepting, waiting>>
    BY <1>5 DEF ReceiveResult
  <2>2. ASSUME NEW r1, NEW r2, BoundResults(p, r1, r2)
        PROVE  PairMovesOrEnds(p)
    BY <2>1, <2>2, AtStageMoves
       DEF BoundResults, StartRelay, Becomes, PairEnds, PairMovesOrEnds
  <2>3. ASSUME NEW r1, NEW r2, AttemptResults(p, r1, r2)
        PROVE  PairMovesOrEnds(p)
    BY <2>1, <2>3, AtStageMoves
       DEF AttemptResults, StartRelay, Becomes, PairEnds, PairMovesOrEnds
  <2>4. ASSUME NEW r, Becomes(p, [p EXCEPT !.results = r])
        PROVE  PairMovesOrEnds(p)
    BY <2>1, <2>4, ResultsMoves DEF Becomes, PairMovesOrEnds
  <2>5. ASSUME PairEnds(p, {}) PROVE PairMovesOrEnds(p)
    BY <2>1, <2>5 DEF PairEnds, PairMovesOrEnds
  <2>6. QED
    BY <1>5, <2>2, <2>3, <2>4, <2>5 DEF ReceiveResult
<1>6. ASSUME NEW c \in ConnsOf(p), DirectEnds(p, c)
      PROVE  PairMovesOrEnds(p)
  BY <1>6 DEF DirectEnds, PairEnds, PairMovesOrEnds
<1>7. ASSUME NEW c \in ConnsOf(p), Relay(p, c)
      PROVE  PairMovesOrEnds(p)
  BY <1>7 DEF Relay, PairEnds, PairMovesOrEnds
<1>8. QED
  BY <1>1, <1>2, <1>3, <1>4, <1>5, <1>6, <1>7 DEF PairTask
-----------------------------------------------------------------------------
(* The steps that change the pools.                                        *)

\* A server that starts has empty pools.
LEMMA InitPools == Init => PoolsInv
  BY DEF Init, ServerInit, PoolsInv, Handled, WaitingOK, NeverBothWaiting,
         PairsAreSessions, Paired, Waits, ConnsOf

\* Every connection that a pool holds has been handled.
LEMMA PairPools ==
  ASSUME PoolsInv, NEW p \in pairs, PairMovesOrEnds(p), UNCHANGED client
  PROVE  PoolsInv'
<1>1. Handled' /\ WaitingOK' /\ NeverBothWaiting'
  BY DEF PoolsInv, PairMovesOrEnds, Handled, WaitingOK, NeverBothWaiting
<1>2. \A x \in pairs' : \E y \in pairs : Moves(y, x) /\ (x # y => y = p)
  BY DEF PairMovesOrEnds, PoolsInv, PairOK, Moves
<1>3. \A x \in pairs' : PairOK(x)'
  BY <1>2 DEF PairMovesOrEnds, PoolsInv, PairOK, Moves
<1>4. \A x, y \in pairs' : ConnsOf(x) \cap ConnsOf(y) # {} => x = y
  <2> SUFFICES ASSUME NEW x \in pairs', NEW y \in pairs',
                      ConnsOf(x) \cap ConnsOf(y) # {}
               PROVE  x = y
    OBVIOUS
  <2>1. \A u, v \in pairs : ConnsOf(u) \cap ConnsOf(v) # {} => u = v
    BY DEF PoolsInv, PairsAreSessions
  <2>2. CASE pairs' \subseteq pairs
    BY <2>1, <2>2
  <2>3. ASSUME NEW q, Moves(p, q), pairs' = (pairs \ {p}) \cup {q}
        PROVE  x = y
    <3>1. ConnsOf(q) = ConnsOf(p)
      BY <2>3 DEF Moves, ConnsOf
    <3>2. QED
      BY <2>1, <2>3, <3>1
  <2>4. QED
    BY <2>2, <2>3 DEF PairMovesOrEnds
<1>5. \A c \in Conns : ~(Paired(c)' /\ Waits(c)')
  BY <1>2 DEF PoolsInv, PairsAreSessions, PairMovesOrEnds, Paired, Waits, ConnsOf, Moves
<1>6. QED
  BY <1>1, <1>3, <1>4, <1>5 DEF PoolsInv, PairsAreSessions, PairOK

\* A task checks a key, or a client connects: the pools are left alone, and
\* nobody who is in one of them is touched.
LEMMA AcceptingPools ==
  ASSUME PoolsInv, UNCHANGED <<waiting, pairs>>, Handled',
         \A c \in Conns : accepting[c] = "done" => accepting'[c] = "done"
  PROVE  PoolsInv'
  BY DEF PoolsInv, WaitingOK, PairOK, IsPair, NeverBothWaiting, PairsAreSessions,
         Paired, Waits, ConnsOf

\* Some of the waiting connections stop waiting.
LEMMA FewerWaiting ==
  ASSUME PoolsInv, NEW S, UNCHANGED <<accepting, pairs, client>>,
         waiting' = Restrict(waiting, DOMAIN waiting \ S)
  PROVE  PoolsInv'
  BY DEF PoolsInv, Handled, WaitingOK, PairOK, IsPair, NeverBothWaiting,
         PairsAreSessions, Paired, Waits, ConnsOf, Restrict

\* The loop handles an accepted connection: turned away, paired or waiting.
LEMMA AcceptedPools ==
  ASSUME PoolsInv, NEW c \in Conns, HandleAcceptedConnection(c),
         UNCHANGED client
  PROVE  PoolsInv'
<1> DEFINE key == KeyOf[c]
<1>0. /\ accepting[c] = "accepted"
      /\ accepting' = [accepting EXCEPT ![c] = "done"]
  BY DEF HandleAcceptedConnection
<1>1. /\ key \in Keys /\ Other[key] \in Keys
      /\ Other[key] # key /\ Other[Other[key]] = key
  BY ServerAssumption
<1>2. Handled'
  BY <1>0 DEF PoolsInv, Handled
<1>3. ~Paired(c) /\ ~Waits(c)
  BY <1>0 DEF PoolsInv, PairOK, WaitingOK, Paired, Waits, ConnsOf
<1>4. CASE UNCHANGED <<waiting, pairs>>
  BY <1>0, <1>2, <1>4, AcceptingPools DEF PoolsInv, Handled
<1>5. CASE PairWithWaiting(c) /\ PeerWaits(c)
  <2> DEFINE k == Other[key]
             d == waiting[k]
             new == NewPair(c, d)
  <2>1. /\ k \in DOMAIN waiting
        /\ pairs' = pairs \cup {new}
        /\ waiting' = Restrict(waiting, DOMAIN waiting \ {k})
    BY <1>5 DEF PairWithWaiting, PeerWaits
  <2>2. /\ d \in Conns /\ KeyOf[d] = k /\ accepting[d] = "done"
        /\ d # c /\ ~Paired(d)
    BY <2>1, <1>0 DEF PoolsInv, WaitingOK, PairsAreSessions, Waits
  <2>3. /\ IsPair(new) /\ new.con1 = c /\ new.con2 = d /\ ConnsOf(new) = {c, d}
    BY DEF IsPair, NewPair, ConnsOf
  <2>4. WaitingOK'
    BY <1>0, <2>1 DEF PoolsInv, WaitingOK, Restrict, Handled
  <2>5. \A p \in pairs' : PairOK(p)'
    BY <1>0, <2>1, <2>2, <2>3 DEF PoolsInv, PairOK, Handled, IsPair
  <2>6. NeverBothWaiting'
    BY <2>1 DEF PoolsInv, NeverBothWaiting, Restrict
  <2>7. \A p, q \in pairs' : ConnsOf(p) \cap ConnsOf(q) # {} => p = q
    BY <1>3, <2>1, <2>2, <2>3 DEF PoolsInv, PairsAreSessions, Paired
  <2>8. \A x \in Conns : ~(Paired(x)' /\ Waits(x)')
    <3> SUFFICES ASSUME NEW x \in Conns, Waits(x)' PROVE ~Paired(x)'
      OBVIOUS
    <3>1. Waits(x) /\ x # d
      BY <2>1, <2>2 DEF PoolsInv, WaitingOK, Waits, Restrict
    <3>2. QED
      BY <1>3, <2>1, <2>3, <3>1 DEF PoolsInv, PairsAreSessions, Paired
  <2>9. QED
    BY <1>2, <2>4, <2>5, <2>6, <2>7, <2>8 DEF PoolsInv, PairsAreSessions, PairOK
<1>6. CASE StartWaiting(c) /\ ~PeerWaits(c) /\ key \notin DOMAIN waiting /\ UNCHANGED pairs
  <2>1. waiting' = Insert(waiting, key, c)
    BY <1>6 DEF StartWaiting
  <2>2. /\ DOMAIN waiting' = DOMAIN waiting \cup {key}
        /\ waiting'[key] = c
        /\ \A k \in DOMAIN waiting : waiting'[k] = waiting[k]
    BY <1>6, <2>1 DEF Insert
  <2>3. WaitingOK'
    BY <1>0, <1>1, <2>2 DEF PoolsInv, WaitingOK, Handled
  <2>4. \A p \in pairs' : PairOK(p)'
    BY <1>0, <1>6 DEF PoolsInv, PairOK, Handled, IsPair
  <2>5. NeverBothWaiting'
    <3> SUFFICES ASSUME NEW k \in DOMAIN waiting', Other[k] \in DOMAIN waiting'
                 PROVE  FALSE
      BY DEF NeverBothWaiting
    <3>1. CASE k = key
      BY <1>1, <1>6, <2>2, <3>1 DEF PeerWaits
    <3>2. CASE k # key
      <4>1. k \in DOMAIN waiting /\ k \in Keys
        BY <2>2, <3>2 DEF PoolsInv, WaitingOK
      <4>2. Other[k] = key
        BY <2>2, <4>1 DEF PoolsInv, NeverBothWaiting
      <4>3. k = Other[key]
        BY <4>1, <4>2, ServerAssumption
      <4>4. QED
        BY <1>6, <4>1, <4>3 DEF PeerWaits
    <3>3. QED
      BY <3>1, <3>2
  <2>6. PairsAreSessions'
    BY <1>3, <1>6, <2>2 DEF PoolsInv, PairsAreSessions, Paired, Waits, ConnsOf
  <2>7. QED
    BY <1>2, <2>3, <2>4, <2>5, <2>6 DEF PoolsInv
<1>7. QED
  BY <1>4, <1>5, <1>6 DEF HandleAcceptedConnection

\* A client's step leaves the pools alone; only connecting makes an idle
\* client's connection known to the server.
LEMMA ClientPools ==
  ASSUME PoolsInv, NEW c \in Conns, Client(c)
  PROVE  PoolsInv'
<1>1. CASE Connect(c)
  BY <1>1, AcceptingPools
     DEF Connect, HandleNewConnection, Goes, PoolsInv, Handled
<1>2. ASSUME UNCHANGED serverVars, \E s : s # "idle" /\ Goes(c, s)
      PROVE  PoolsInv'
  BY <1>2, AcceptingPools DEF serverVars, Goes, PoolsInv, Handled
<1>3. ASSUME UNCHANGED serverVars, UNCHANGED client
      PROVE  PoolsInv'
  BY <1>3, AcceptingPools DEF serverVars, PoolsInv, Handled
<1>4. CASE ClientReads(c)
  BY <1>2, <1>3, <1>4
     DEF ClientReads, KeyAccepted, PeerJoined, Bind, AttemptDirect,
         StartRelayMode, UnexpectedMessage, RelayRead, RelayClosed
<1>5. CASE RelayWrite(c) \/ Finish(c) \/ ClientFails(c)
  BY <1>2, <1>3, <1>5 DEF RelayWrite, Finish, ClientFails
<1>6. QED
  BY <1>1, <1>4, <1>5 DEF Client

\* Every step of the server keeps the pools sound.
LEMMA ServerPools ==
  ASSUME PoolsInv, Server, UNCHANGED clientVars
  PROVE  PoolsInv'
<1>0. UNCHANGED client
  BY DEF clientVars
<1>1. ASSUME NEW c \in Conns, KeyTask(c)
      PROVE  PoolsInv'
  BY <1>0, <1>1, AcceptingPools DEF KeyTask, ReceiveKey, NoKey, PoolsInv, Handled
<1>2. CASE Loop
  BY <1>0, <1>2, AcceptedPools, FewerWaiting
     DEF Loop, HandleClosedWaitingConnection, StopWaiting
<1>3. ASSUME NEW p \in pairs, PairTask(p) \/ PairExpires(p)
      PROVE  PoolsInv'
  BY <1>0, <1>3, PairTaskMoves, PairPools DEF PoolsInv, PairOK
<1>4. CASE CleanExpiredConnections
  BY <1>0, <1>4, FewerWaiting DEF CleanExpiredConnections, StopWaiting
<1>5. QED
  BY <1>1, <1>2, <1>3, <1>4 DEF Server, Timers

\* What the server keeps as waiting or paired was handled once, waits under its
\* own key, and neither waits with its peer nor is in two pairs.
THEOREM PoolsAreSound == Spec => []PoolsInv
<1>1. PoolsInv /\ [Next]_vars => PoolsInv'
  <2> SUFFICES ASSUME PoolsInv, [Next]_vars PROVE PoolsInv'
    OBVIOUS
  <2>1. CASE UNCHANGED vars
    BY <2>1, AcceptingPools DEF vars, serverVars, clientVars, PoolsInv, Handled
  <2>2. QED
    BY <2>1, ClientPools, ServerPools DEF Next
<1>2. QED
  BY <1>1, InitPools, PTL DEF Spec

\* Two participants of a session never wait for each other, however many
\* clients come with their keys.
THEOREM NobodyWaitsInVain == Spec => []NeverBothWaiting
<1>1. PoolsInv => NeverBothWaiting
  BY DEF PoolsInv
<1>2. QED
  BY <1>1, PoolsAreSound, PTL

\* A connection is in one pair at most, of one session, and does not wait.
THEOREM PairsStaySessions == Spec => []PairsAreSessions
<1>1. PoolsInv => PairsAreSessions
  BY DEF PoolsInv
<1>2. QED
  BY <1>1, PoolsAreSound, PTL

-----------------------------------------------------------------------------
(* Channels, as sequences of whatever messages.                            *)

IsSeq(s) == \E S : s \in Seq(S)
Msgs(s)  == {s[i] : i \in 1 .. Len(s)}

\* A sequence of some messages is one of more messages, too.
LEMMA SeqOfMore ==
  ASSUME NEW S, NEW T, NEW s \in Seq(S)
  PROVE  s \in Seq(S \cup T)
  OBVIOUS

\* The messages of two sequences, one after the other.
LEMMA ConcatSeq ==
  ASSUME NEW s, IsSeq(s), NEW t, IsSeq(t)
  PROVE  /\ IsSeq(s \o t) /\ Len(s) \in Nat /\ Len(t) \in Nat
         /\ Len(s \o t) = Len(s) + Len(t)
         /\ \A i \in 1 .. Len(s) : (s \o t)[i] = s[i]
         /\ \A i \in 1 .. Len(t) : (s \o t)[Len(s) + i] = t[i]
         /\ Msgs(s \o t) = Msgs(s) \cup Msgs(t)
<1> DEFINE u == s \o t
<1>1. PICK S, T : s \in Seq(S) /\ t \in Seq(T)
  BY DEF IsSeq
<1>2. s \in Seq(S \cup T) /\ t \in Seq(S \cup T)
  BY <1>1, SeqOfMore
<1>3. /\ IsSeq(u) /\ Len(s) \in Nat /\ Len(t) \in Nat
      /\ Len(u) = Len(s) + Len(t)
      /\ \A i \in 1 .. Len(s) : u[i] = s[i]
      /\ \A i \in 1 .. Len(t) : u[Len(s) + i] = t[i]
  BY <1>2 DEF IsSeq
<1> HIDE DEF u
<1>4. ASSUME NEW i \in 1 .. Len(u) PROVE u[i] \in Msgs(s) \cup Msgs(t)
  <2>1. CASE i <= Len(s)
    <3>1. i \in 1 .. Len(s) /\ u[i] = s[i]
      BY <1>3, <2>1
    <3>2. QED
      BY <3>1 DEF Msgs
  <2>2. CASE i > Len(s)
    <3>1. i - Len(s) \in 1 .. Len(t) /\ i = Len(s) + (i - Len(s))
      BY <1>3, <2>2
    <3>2. u[i] = t[i - Len(s)]
      BY <1>3, <3>1
    <3>3. QED
      BY <3>1, <3>2 DEF Msgs
  <2>3. QED
    BY <1>3, <2>1, <2>2
<1>5. ASSUME NEW i \in 1 .. Len(s) PROVE s[i] \in Msgs(u)
  <2>1. i \in 1 .. Len(u) /\ u[i] = s[i]
    BY <1>3
  <2>2. QED
    BY <2>1 DEF Msgs
<1>6. ASSUME NEW i \in 1 .. Len(t) PROVE t[i] \in Msgs(u)
  <2>1. Len(s) + i \in 1 .. Len(u) /\ u[Len(s) + i] = t[i]
    BY <1>3
  <2>2. QED
    BY <2>1 DEF Msgs
<1>7. Msgs(u) = Msgs(s) \cup Msgs(t)
  <2>1. Msgs(u) \subseteq Msgs(s) \cup Msgs(t)
    BY <1>4, Zenon DEF Msgs
  <2>2. Msgs(s) \subseteq Msgs(u)
    BY <1>5, Zenon DEF Msgs
  <2>3. Msgs(t) \subseteq Msgs(u)
    BY <1>6, Zenon DEF Msgs
  <2>4. QED
    BY <2>1, <2>2, <2>3
<1>8. QED
  BY <1>3, <1>7 DEF u

\* Sequences of up to two messages.
LEMMA ShortSeq ==
  /\ IsSeq(<<>>) /\ Len(<<>>) = 0 /\ Msgs(<<>>) = {}
  /\ \A m : /\ IsSeq(<<m>>) /\ Len(<<m>>) = 1 /\ <<m>>[1] = m
            /\ Msgs(<<m>>) = {m}
  /\ \A m, n : IsSeq(<<m, n>>) /\ Msgs(<<m, n>>) = {m, n}
<1>1. <<>> \in Seq({})
  OBVIOUS
<1>2. ASSUME NEW m
      PROVE  /\ <<m>> \in Seq({m}) /\ Len(<<m>>) = 1 /\ <<m>>[1] = m
             /\ Msgs(<<m>>) = {m}
  BY DEF Msgs
<1>3. ASSUME NEW m, NEW n
      PROVE  <<m, n>> \in Seq({m, n}) /\ Msgs(<<m, n>>) = {m, n}
  <2>1. <<m, n>> \in Seq({m, n}) /\ <<m, n>>[1] = m /\ <<m, n>>[2] = n
    OBVIOUS
  <2>2. 1 .. Len(<<m, n>>) = {1, 2}
    OBVIOUS
  <2>3. QED
    BY <2>1, <2>2 DEF Msgs
<1>4. Msgs(<<>>) = {}
  BY DEF Msgs
<1>5. QED
  BY <1>1, <1>2, <1>3, <1>4 DEF IsSeq

\* One message more, at the end.
LEMMA AppendSeq ==
  ASSUME NEW s, IsSeq(s), NEW m
  PROVE  /\ Append(s, m) = s \o <<m>>
         /\ IsSeq(Append(s, m)) /\ Append(s, m) # <<>>
         /\ Append(s, m)[Len(Append(s, m))] = m
         /\ Msgs(Append(s, m)) = Msgs(s) \cup {m}
<1>1. PICK S : s \in Seq(S)
  BY DEF IsSeq
<1>2. s \in Seq(S \cup {m})
  BY <1>1, SeqOfMore
<1>3. /\ Append(s, m) = s \o <<m>>
      /\ Append(s, m) # <<>> /\ Append(s, m)[Len(Append(s, m))] = m
  BY <1>2
<1>4. IsSeq(<<m>>) /\ Msgs(<<m>>) = {m}
  BY ShortSeq
<1>5. IsSeq(s \o <<m>>) /\ Msgs(s \o <<m>>) = Msgs(s) \cup {m}
  BY <1>4, ConcatSeq
<1>6. QED
  BY <1>3, <1>5

\* One message less, at the front.
LEMMA TailSeq ==
  ASSUME NEW s, IsSeq(s), s # <<>>
  PROVE  /\ IsSeq(Tail(s)) /\ Len(s) \in Nat \ {0}
         /\ Len(Tail(s)) = Len(s) - 1 /\ Head(s) = s[1]
         /\ \A i \in 1 .. Len(s) - 1 : Tail(s)[i] = s[i + 1]
         /\ Len(s) = 1 => Tail(s) = <<>>
         /\ Len(s) > 1 => Tail(s) # <<>>
         /\ Tail(s) = <<>> => s[Len(s)] = Head(s)
         /\ Head(s) \in Msgs(s) /\ Msgs(Tail(s)) \subseteq Msgs(s)
<1>1. PICK S : s \in Seq(S)
  BY DEF IsSeq
<1>2. /\ Len(s) \in Nat \ {0} /\ Head(s) = s[1]
      /\ Tail(s) \in Seq(S) /\ Len(Tail(s)) = Len(s) - 1
      /\ \A i \in 1 .. Len(Tail(s)) : Tail(s)[i] = s[i + 1]
  BY <1>1, HeadTailProperties
<1>3. Tail(s) = <<>> <=> Len(Tail(s)) = 0
  BY <1>2, EmptySeq
<1>4. Head(s) \in Msgs(s) /\ Msgs(Tail(s)) \subseteq Msgs(s)
  BY <1>2 DEF Msgs
<1>5. Tail(s) = <<>> => s[Len(s)] = Head(s)
  <2>1. Tail(s) = <<>> => Len(s) = 1
    BY <1>2, <1>3
  <2>2. QED
    BY <1>2, <2>1
<1>6. QED
  BY <1>2, <1>3, <1>4, <1>5 DEF IsSeq

-----------------------------------------------------------------------------
(* What a channel to a client holds: at most one thing it is asked to do.  *)

Asks == {"BindForDirectConnect", "AttemptDirectConnect", "StartRelayMode"}

NoAsks(s)   == \A m \in Msgs(s) : m.type \notin Asks
Asked(s, t) == \E u, m : s = u \o <<m>> /\ IsSeq(u) /\ NoAsks(u) /\ m.type = t

\* Reading a message that asks for nothing leaves what is asked.
LEMMA QuietTail ==
  ASSUME NEW s, IsSeq(s), s # <<>>, Head(s).type \notin Asks
  PROVE  /\ NoAsks(s) => NoAsks(Tail(s))
         /\ \A t \in Asks : Asked(s, t) => Asked(Tail(s), t)
<1>1. NoAsks(s) => NoAsks(Tail(s))
  BY TailSeq DEF NoAsks
<1>2. ASSUME NEW t \in Asks, Asked(s, t) PROVE Asked(Tail(s), t)
  <2>1. PICK u, m : s = u \o <<m>> /\ IsSeq(u) /\ NoAsks(u) /\ m.type = t
    BY <1>2 DEF Asked
  <2>2. PICK S : u \in Seq(S)
    BY <2>1 DEF IsSeq
  <2>3. u \in Seq(S \cup {m}) /\ m \in S \cup {m}
    BY <2>2, SeqOfMore
  <2>4. u # <<>>
    BY <1>2, <2>1
  <2>5. Tail(s) = Tail(u) \o <<m>>
    BY <2>1, <2>3, <2>4
  <2>6. IsSeq(Tail(u)) /\ NoAsks(Tail(u))
    BY <2>1, <2>4, TailSeq DEF NoAsks
  <2>7. QED
    BY <2>1, <2>5, <2>6 DEF Asked
<1>3. QED
  BY <1>1, <1>2

\* Reading one that does reads the last one there is.
LEMMA AskTail ==
  ASSUME NEW s, IsSeq(s), s # <<>>, Head(s).type \in Asks
  PROVE  /\ ~NoAsks(s)
         /\ \A t : Asked(s, t) => t = Head(s).type /\ Tail(s) = <<>>
<1>1. ~NoAsks(s)
  BY TailSeq DEF NoAsks
<1>2. ASSUME NEW t, Asked(s, t) PROVE t = Head(s).type /\ Tail(s) = <<>>
  <2>1. PICK u, m : s = u \o <<m>> /\ IsSeq(u) /\ NoAsks(u) /\ m.type = t
    BY <1>2 DEF Asked
  <2>2. PICK S : u \in Seq(S)
    BY <2>1 DEF IsSeq
  <2>3. u \in Seq(S \cup {m}) /\ m \in S \cup {m}
    BY <2>2, SeqOfMore
  <2>4. CASE u # <<>>
    <3>1. Head(s) = Head(u) /\ Head(u) \in Msgs(u)
      BY <2>1, <2>3, <2>4, TailSeq
    <3>2. QED
      BY <2>1, <3>1 DEF NoAsks
  <2>5. CASE u = <<>>
    BY <2>1, <2>3, <2>5
  <2>6. QED
    BY <2>4, <2>5
<1>3. QED
  BY <1>1, <1>2

-----------------------------------------------------------------------------
(* The invariant.  A client that has ended leaves only the end of its      *)
(* channel behind; what is said below of one that is alive holds of it     *)
(* until then.                                                             *)

Alive(c)   == client[c] \notin Ended
Talking(c) == client[c] \in {"sent_key", "wait_for_peer", "negotiating"}

\* A connection that has not been made yet.
Fresh(c) ==
  Alive(c) => client[c] = "idle" /\ toServer[c] = <<>> /\ toClient[c] = <<>>

\* One whose key is on its way.
KeySent(c) ==
  Alive(c) => /\ Talking(c) /\ NoAsks(toClient[c])
              /\ toServer[c] = <<Message("Key")>>

\* Nothing is asked of the client, and it has said nothing that is not read.
Quiet(c) ==
  Alive(c) => Talking(c) /\ NoAsks(toClient[c]) /\ toServer[c] = <<>>

\* It is asked for one thing, which it has not read yet.
Due(c, t) ==
  Alive(c) => Talking(c) /\ Asked(toClient[c], t) /\ toServer[c] = <<>>

\* It has answered; it is directly connected only if it said so.
Says(c, r) ==
  Talking(c) \/ (client[c] = "direct" /\ r.type = "DirectConnectSucceeded")
Answered(c) ==
  Alive(c) => \E r : /\ toServer[c] = <<r>> /\ NoAsks(toClient[c])
                     /\ Says(c, r)

\* The server has read its answer.
Noted(c, r) ==
  Alive(c) => toServer[c] = <<>> /\ NoAsks(toClient[c]) /\ Says(c, r)

ChansOK ==
  /\ DOMAIN toServer = Conns /\ DOMAIN toClient = Conns /\ DOMAIN peer = Conns
  /\ \A c \in Conns : IsSeq(toServer[c]) /\ IsSeq(toClient[c])

EndedOK == \A c \in Conns : ~Alive(c) => toClient[c] = <<>> /\ Gone(c)

NewOK ==
  \A c \in Conns :
    /\ accepting[c] = "none" => Fresh(c)
    /\ accepting[c] = "waiting_key" => KeySent(c)
    /\ accepting[c] = "accepted" \/ Waits(c) => Quiet(c)

\* What the pair of c waits for.
Question(p) == IF p.stage = "binding" THEN "BindForDirectConnect"
               ELSE "AttemptDirectConnect"

StageOK(p, c) ==
  /\ p.stage \in {"joining", "joined"} => Quiet(c)
  /\ p.stage \in {"binding", "attempting"} =>
       \/ c \in DOMAIN p.results /\ Noted(c, p.results[c])
       \/ c \notin DOMAIN p.results /\ (Due(c, Question(p)) \/ Answered(c))

\* c has been told that it joined d, or is being told.
Told(c, d) ==
  \/ peer[c] = d
  \/ \E m \in Msgs(toClient[c]) : m.type = "PeerJoined" /\ m.peer = d

MaySucceed(c) ==
  \/ client[c] = "direct"
  \/ \E m \in Msgs(toClient[c]) : m.type = "AttemptDirectConnect"

Relayed(c) ==
  \/ client[c] = "relayed"
  \/ \E m \in Msgs(toClient[c]) : m.type = "StartRelayMode"

PairsOK ==
  \A p \in pairs : \A c \in ConnsOf(p) :
    /\ StageOK(p, c)
    /\ \A d \in Conns : Told(c, d) \/ Told(d, c) =>
         p.stage # "joining" /\ PeerIn(p, c) = d

PeersOK ==
  \A c \in Conns :
    /\ client[c] \in {"negotiating", "direct", "relayed"} => peer[c] # Nobody
    /\ peer[c] \in Conns \cup {Nobody}
    /\ \A m \in Msgs(toClient[c]) : m.type = "PeerJoined" => m.peer \in Conns

\* What two clients that were told of each other keep when their pair is gone.
ToldOK ==
  \A c, d \in Conns : Told(c, d) =>
    /\ accepting[c] = "done" /\ accepting[d] = "done"
    /\ ~Waits(c) /\ ~Waits(d)
    /\ \A e \in Conns : (Told(c, e) => e = d) /\ (Told(d, e) => e = c)
                        /\ (Told(e, d) => e = c)
    /\ ~(MaySucceed(c) /\ Relayed(d)) /\ ~(MaySucceed(d) /\ Relayed(c))

StreamsInv ==
  /\ PoolsInv /\ ChansOK /\ EndedOK /\ NewOK /\ PairsOK /\ PeersOK /\ ToldOK

-----------------------------------------------------------------------------
(* The steps of a client, by what they do to its channels.                 *)

\* Nothing else than what is c's changes, and not the server's pools.
Only(c) ==
  /\ UNCHANGED <<waiting, pairs>>
  /\ DOMAIN toServer' = Conns /\ DOMAIN toClient' = Conns
  /\ DOMAIN peer' = Conns
  /\ \A d \in Conns \ {c} :
       /\ client'[d] = client[d] /\ peer'[d] = peer[d]
       /\ toServer'[d] = toServer[d] /\ toClient'[d] = toClient[d]

Takes(c) == toClient[c] # <<>> /\ toClient'[c] = Tail(toClient[c])

ReadsOn(c) ==
  /\ Takes(c) /\ Head(toClient[c]).type \notin Asks
  /\ toServer'[c] = toServer[c]
  /\ \/ client'[c] = client[c] /\ peer'[c] = peer[c]
     \/ Talking(c) /\ client'[c] = "wait_for_peer" /\ peer'[c] = peer[c]
     \/ /\ Talking(c) /\ client'[c] = "negotiating"
        /\ Head(toClient[c]).type = "PeerJoined"
        /\ peer'[c] = Head(toClient[c]).peer

Answers(c) ==
  /\ Takes(c) /\ client[c] = "negotiating" /\ peer'[c] = peer[c]
  /\ \E r : /\ toServer'[c] = Append(toServer[c], r)
            /\ \/ /\ Head(toClient[c]).type \in {"BindForDirectConnect",
                                                 "AttemptDirectConnect"}
                  /\ client'[c] = client[c]
               \/ /\ Head(toClient[c]).type = "AttemptDirectConnect"
                  /\ client'[c] = "direct"
                  /\ r.type = "DirectConnectSucceeded"

StartsRelay(c) ==
  /\ Takes(c) /\ Head(toClient[c]).type = "StartRelayMode"
  /\ client[c] = "negotiating" /\ client'[c] = "relayed"
  /\ toServer'[c] = toServer[c] /\ peer'[c] = peer[c]

Writes(c) ==
  /\ client[c] = "relayed" /\ client'[c] = "relayed" /\ peer'[c] = peer[c]
  /\ \E r : toServer'[c] = Append(toServer[c], r)
  /\ toClient'[c] = toClient[c]

Leaves(c) ==
  /\ client[c] # "idle" /\ client'[c] \in Ended /\ peer'[c] = peer[c]
  /\ toClient'[c] = <<>>
  /\ \E u : IsSeq(u) /\ toServer'[c] = Append(u, Eof)

Continues(c) ==
  /\ Only(c) /\ UNCHANGED accepting /\ Alive(c) /\ client[c] # "idle"
  /\ ReadsOn(c) \/ Answers(c) \/ StartsRelay(c) \/ Writes(c) \/ Leaves(c)

\* However a client quits, what it leaves is a channel that ends.
LEMMA QuitLeaves ==
  ASSUME ChansOK, NEW c \in Conns, NEW msgs, IsSeq(msgs), Quit(c, msgs)
  PROVE  /\ DOMAIN toServer' = Conns
         /\ \A d \in Conns \ {c} : toServer'[d] = toServer[d]
         /\ \E u : IsSeq(u) /\ toServer'[c] = Append(u, Eof)
<1> DEFINE u == toServer[c] \o msgs
<1>1. IsSeq(u)
  BY ConcatSeq DEF ChansOK
<1>2. toServer' = [toServer EXCEPT ![c] = u \o <<Eof>>]
  BY DEF Quit
<1>3. u \o <<Eof>> = Append(u, Eof)
  BY <1>1, AppendSeq
<1>4. QED
  BY <1>1, <1>2, <1>3, Zenon DEF ChansOK

\* A client that has connected reads, writes or leaves.
LEMMA ClientContinues ==
  ASSUME ChansOK, DOMAIN client = Conns, NEW c \in Conns, Client(c)
  PROVE  Connect(c) \/ Continues(c)
<1> USE DEF ChansOK
<1>1. CASE KeyAccepted(c)
  BY <1>1 DEF KeyAccepted, Hears, Heard, Goes, Unread, serverVars, Only,
              Continues, Alive, Ended, ReadsOn, Takes, Talking, Asks
<1>2. CASE PeerJoined(c)
  BY <1>2 DEF PeerJoined, Hears, Heard, Goes, Unread, serverVars, Only,
              Continues, Alive, Ended, ReadsOn, Takes, Talking, Asks
<1>3. CASE RelayRead(c)
  BY <1>3 DEF RelayRead, Hears, Heard, Goes, Unread, serverVars, Only,
              Continues, Alive, Ended, ReadsOn, Takes, Talking, Asks
<1>4. CASE Bind(c)
  <2>1. PICK r : Say(c, r)
    BY <1>4 DEF Bind
  <2>2. QED
    BY <1>4, <2>1 DEF Bind, Say, Hears, Heard, Unread, serverVars, Only,
                      Continues, Alive, Ended, Answers, Takes
<1>5. CASE AttemptDirect(c)
  BY <1>5 DEF AttemptDirect, Say, Message, Hears, Heard, Goes, Unread,
              serverVars, Only, Continues, Alive, Ended, Answers, Takes
<1>6. CASE StartRelayMode(c)
  BY <1>6 DEF StartRelayMode, Hears, Heard, Goes, Unread, serverVars, Only,
              Continues, Alive, Ended, StartsRelay, Takes
<1>7. CASE RelayWrite(c)
  BY <1>7 DEF RelayWrite, Say, serverVars, Only, Continues, Alive, Ended, Writes
<1>8. ASSUME NEW msgs, IsSeq(msgs), Quit(c, msgs), Hangup(c), Alive(c),
             client[c] # "idle", Goes(c, "failed") \/ Goes(c, "finished"),
             UNCHANGED <<serverVars, peer>>
      PROVE  Continues(c)
  BY <1>8, QuitLeaves
     DEF Hangup, Goes, serverVars, Only, Continues, Alive, Ended, Leaves
<1>9. IsSeq(<<>>) /\ IsSeq(<<Message("Close")>>)
  BY ShortSeq
<1>10. CASE UnexpectedMessage(c) \/ RelayClosed(c) \/ ClientFails(c)
  BY <1>8, <1>9, <1>10
     DEF UnexpectedMessage, RelayClosed, ClientFails, Alive, Ended
<1>11. CASE Finish(c)
  BY <1>8, <1>9, <1>11 DEF Finish, Alive, Ended
<1>12. QED
  BY <1>1, <1>2, <1>3, <1>4, <1>5, <1>6, <1>7, <1>10, <1>11
     DEF Client, ClientReads

-----------------------------------------------------------------------------
(* What a client's step keeps.                                             *)

\* Channels stay sequences, nothing new is in the one to the client, and one
\* that leaves leaves only the end behind.
LEMMA ContinuesChans ==
  ASSUME ChansOK, NEW c \in Conns, Continues(c)
  PROVE  /\ IsSeq(toServer'[c]) /\ IsSeq(toClient'[c])
         /\ Msgs(toClient'[c]) \subseteq Msgs(toClient[c])
         /\ ~Alive(c)' => toClient'[c] = <<>> /\ Gone(c)'
<1>0. IsSeq(toServer[c]) /\ IsSeq(toClient[c])
  BY DEF ChansOK
<1>1. CASE ReadsOn(c)
  BY <1>0, <1>1, TailSeq DEF ReadsOn, Takes, Continues, Alive, Talking, Ended
<1>2. CASE Answers(c)
  <2>1. PICK r : toServer'[c] = Append(toServer[c], r)
    BY <1>2 DEF Answers
  <2>2. Alive(c)'
    BY <1>2 DEF Answers, Alive, Ended
  <2>3. IsSeq(toServer'[c])
    BY <1>0, <2>1, AppendSeq
  <2>4. QED
    BY <1>0, <1>2, <2>2, <2>3, TailSeq DEF Answers, Takes
<1>3. CASE StartsRelay(c)
  BY <1>0, <1>3, TailSeq DEF StartsRelay, Takes, Alive, Ended
<1>4. CASE Writes(c)
  BY <1>0, <1>4, AppendSeq DEF Writes, Alive, Ended
<1>5. CASE Leaves(c)
  <2>1. PICK u : IsSeq(u) /\ toServer'[c] = Append(u, Eof)
    BY <1>5 DEF Leaves
  <2>2. IsSeq(toServer'[c]) /\ Gone(c)'
    BY <2>1, AppendSeq DEF Gone
  <2>3. QED
    BY <1>5, <2>2, ShortSeq DEF Leaves
<1>6. QED
  BY <1>1, <1>2, <1>3, <1>4, <1>5 DEF Continues

\* A client does, and knows, only what it was told.
LEMMA ContinuesTold ==
  ASSUME ChansOK, PeersOK, NEW c \in Conns, Continues(c)
  PROVE  /\ MaySucceed(c)' => MaySucceed(c)
         /\ Relayed(c)' => Relayed(c)
         /\ \A d : Told(c, d)' => Told(c, d)
         /\ client'[c] \in {"negotiating", "direct", "relayed"} =>
              peer'[c] # Nobody
         /\ peer'[c] \in Conns \cup {Nobody}
<1>0. /\ Msgs(toClient'[c]) \subseteq Msgs(toClient[c])
      /\ toClient[c] # <<>> => Head(toClient[c]) \in Msgs(toClient[c])
  BY ContinuesChans, TailSeq DEF ChansOK
<1>1. CASE ReadsOn(c)
  BY <1>0, <1>1, NobodyAssumption
     DEF ReadsOn, Takes, Talking, MaySucceed, Relayed, Told, PeersOK
<1>2. CASE Answers(c)
  BY <1>0, <1>2 DEF Answers, Takes, MaySucceed, Relayed, Told, PeersOK
<1>3. CASE StartsRelay(c)
  BY <1>0, <1>3 DEF StartsRelay, Takes, MaySucceed, Relayed, Told, PeersOK
<1>4. CASE Writes(c)
  BY <1>0, <1>4 DEF Writes, MaySucceed, Relayed, Told, PeersOK
<1>5. CASE Leaves(c)
  BY <1>0, <1>5 DEF Leaves, Ended, MaySucceed, Relayed, Told, PeersOK
<1>6. QED
  BY <1>1, <1>2, <1>3, <1>4, <1>5 DEF Continues

\* A client answers what it is asked, once, and says nothing else until it
\* streams.
LEMMA ContinuesDuties ==
  ASSUME ChansOK, NEW c \in Conns, Continues(c)
  PROVE  /\ KeySent(c) => KeySent(c)'
         /\ Quiet(c) => Quiet(c)'
         /\ \A t \in {"BindForDirectConnect", "AttemptDirectConnect"} :
              Due(c, t) => Due(c, t)' \/ Answered(c)'
         /\ Answered(c) => Answered(c)'
         /\ \A r : Noted(c, r) => Noted(c, r)'
<1> DEFINE s == toClient[c]
<1>0. IsSeq(s) /\ Alive(c)
  BY DEF ChansOK, Continues
<1>1. CASE ReadsOn(c)
  <2>1. /\ NoAsks(s) => NoAsks(toClient'[c])
        /\ \A t \in Asks : Asked(s, t) => Asked(toClient'[c], t)
    BY <1>0, <1>1, QuietTail DEF ReadsOn, Takes
  <2>2. /\ toServer'[c] = toServer[c]
        /\ Talking(c) => Talking(c)'
        /\ \A r : Says(c, r) => Says(c, r)'
    BY <1>1 DEF ReadsOn, Talking, Says
  <2>3. QED
    BY <1>0, <2>1, <2>2 DEF KeySent, Quiet, Due, Answered, Noted, Asks
<1>2. CASE Answers(c)
  <2>1. PICK r : /\ toServer'[c] = Append(toServer[c], r)
                 /\ \/ client'[c] = client[c]
                    \/ client'[c] = "direct" /\ r.type = "DirectConnectSucceeded"
    BY <1>2 DEF Answers
  <2>6. Says(c, r)'
    BY <1>2, <2>1 DEF Answers, Says, Talking
  <2>2. ~NoAsks(s) /\ \A t : Asked(s, t) => toClient'[c] = <<>>
    BY <1>0, <1>2, AskTail DEF Answers, Takes, Asks
  <2>3. toServer[c] = <<>> => toServer'[c] = <<r>>
    BY <2>1
  <2>4. NoAsks(<<>>)
    BY ShortSeq DEF NoAsks
  <2>5. QED
    BY <1>0, <2>2, <2>3, <2>4, <2>6 DEF KeySent, Quiet, Due, Answered, Noted
<1>3. CASE StartsRelay(c)
  <2>1. ~NoAsks(s) /\ \A t : Asked(s, t) => t = "StartRelayMode"
    BY <1>0, <1>3, AskTail DEF StartsRelay, Takes, Asks
  <2>2. QED
    BY <1>0, <2>1 DEF KeySent, Quiet, Due, Answered, Noted
<1>4. CASE Writes(c)
  BY <1>0, <1>4 DEF Writes, Talking, Says, KeySent, Quiet, Due, Answered, Noted
<1>5. CASE Leaves(c)
  BY <1>0, <1>5 DEF Leaves, Alive, KeySent, Quiet, Due, Answered, Noted
<1>6. QED
  BY <1>1, <1>2, <1>3, <1>4, <1>5 DEF Continues

-----------------------------------------------------------------------------
(* Putting the parts together.                                             *)

\* What is said of a connection depends on nothing but what is its own.
LEMMA Untouched ==
  ASSUME NEW d, client'[d] = client[d],
         toServer'[d] = toServer[d], toClient'[d] = toClient[d]
  PROVE  /\ Alive(d)' = Alive(d) /\ Gone(d)' = Gone(d)
         /\ Fresh(d) => Fresh(d)'
         /\ KeySent(d) => KeySent(d)'
         /\ Quiet(d) => Quiet(d)'
         /\ \A t : Due(d, t) => Due(d, t)'
         /\ Answered(d) => Answered(d)'
         /\ \A r : Noted(d, r) => Noted(d, r)'
         /\ MaySucceed(d)' => MaySucceed(d)
         /\ Relayed(d)' => Relayed(d)
  BY DEF Alive, Gone, Talking, Fresh, KeySent, Quiet, Due, Says, Answered, Noted,
         MaySucceed, Relayed

\* A step that tells nobody anything new.
NoNews ==
  /\ \A c \in Conns : /\ MaySucceed(c)' => MaySucceed(c)
                      /\ Relayed(c)' => Relayed(c)
  /\ \A c, d \in Conns : Told(c, d)' => Told(c, d)

\* Without news, clients that were told of each other keep what they have.
LEMMA NoNewsTold ==
  ASSUME ToldOK, NoNews,
         \A c \in Conns : accepting[c] = "done" /\ ~Waits(c) =>
                            accepting'[c] = "done" /\ ~Waits(c)'
  PROVE  ToldOK'
  BY DEF ToldOK, NoNews

\* Without news, a pair is sound if its stage is kept.
LEMMA NoNewsPairs ==
  ASSUME PairsOK, NoNews, \A p \in pairs : IsPair(p) /\ ConnsOf(p) \subseteq Conns,
         pairs' \subseteq pairs,
         \A p \in pairs' : \A c \in ConnsOf(p) : StageOK(p, c) => StageOK(p, c)'
  PROVE  PairsOK'
<1> SUFFICES ASSUME NEW p \in pairs', NEW c \in ConnsOf(p)
             PROVE  /\ StageOK(p, c)'
                    /\ \A d \in Conns : Told(c, d)' \/ Told(d, c)' =>
                         p.stage # "joining" /\ PeerIn(p, c) = d
  BY DEF PairsOK
<1>1. StageOK(p, c) /\ \A d \in Conns : Told(c, d) \/ Told(d, c) =>
                         p.stage # "joining" /\ PeerIn(p, c) = d
  BY DEF PairsOK
<1>2. QED
  BY <1>1 DEF NoNews

\* A step of a pair's client keeps what is said of the pair's stage.
LEMMA StageKept ==
  ASSUME NEW p, NEW c,
         Quiet(c) => Quiet(c)',
         \A t \in {"BindForDirectConnect", "AttemptDirectConnect"} :
           Due(c, t) => Due(c, t)' \/ Answered(c)',
         Answered(c) => Answered(c)',
         \A r : Noted(c, r) => Noted(c, r)',
         StageOK(p, c)
  PROVE  StageOK(p, c)'
<1>1. Question(p) \in {"BindForDirectConnect", "AttemptDirectConnect"}
  BY DEF Question
<1>2. QED
  BY <1>1 DEF StageOK, Question

\* Every step of a connected client keeps the invariant.
LEMMA ContinuesKeeps ==
  ASSUME StreamsInv, PoolsInv', NEW c \in Conns, Continues(c)
  PROVE  StreamsInv'
<1>1. /\ UNCHANGED <<waiting, pairs, accepting>>
      /\ DOMAIN toServer' = Conns /\ DOMAIN toClient' = Conns
      /\ DOMAIN peer' = Conns
      /\ \A d \in Conns \ {c} :
           /\ client'[d] = client[d] /\ peer'[d] = peer[d]
           /\ toServer'[d] = toServer[d] /\ toClient'[d] = toClient[d]
  BY DEF Continues, Only
<1>2. ChansOK' /\ EndedOK'
  BY <1>1, ContinuesChans, Untouched DEF StreamsInv, ChansOK, EndedOK
<1>3. \A d \in Conns :
        /\ KeySent(d) => KeySent(d)'
        /\ Quiet(d) => Quiet(d)'
        /\ \A t \in {"BindForDirectConnect", "AttemptDirectConnect"} :
             Due(d, t) => Due(d, t)' \/ Answered(d)'
        /\ Answered(d) => Answered(d)'
        /\ \A r : Noted(d, r) => Noted(d, r)'
  BY <1>1, ContinuesDuties, Untouched DEF StreamsInv
<1>4. Fresh(c) => FALSE
  BY DEF Continues, Fresh
<1>5. NewOK'
  BY <1>1, <1>3, <1>4, Untouched DEF StreamsInv, NewOK, Waits
<1>6. NoNews
  <2>1. \A x \in Conns : /\ MaySucceed(x)' => MaySucceed(x)
                         /\ Relayed(x)' => Relayed(x)
    BY <1>1, ContinuesTold, Untouched DEF StreamsInv
  <2>2. \A x, d \in Conns : Told(x, d)' => Told(x, d)
    <3> SUFFICES ASSUME NEW x \in Conns, NEW d \in Conns, Told(x, d)'
                 PROVE  Told(x, d)
      OBVIOUS
    <3>1. CASE x = c
      BY <3>1, ContinuesTold DEF StreamsInv
    <3>2. CASE x # c
      BY <1>1, <3>2 DEF Told
    <3>3. QED
      BY <3>1, <3>2
  <2>3. QED
    BY <2>1, <2>2 DEF NoNews
<1>7. PeersOK'
  <2> SUFFICES ASSUME NEW x \in Conns
               PROVE  /\ client'[x] \in {"negotiating", "direct", "relayed"} =>
                           peer'[x] # Nobody
                      /\ peer'[x] \in Conns \cup {Nobody}
                      /\ \A m \in Msgs(toClient'[x]) :
                           m.type = "PeerJoined" => m.peer \in Conns
    BY DEF PeersOK
  <2>1. CASE x = c
    BY <2>1, ContinuesTold, ContinuesChans DEF StreamsInv, PeersOK
  <2>2. CASE x # c
    BY <1>1, <2>2 DEF StreamsInv, PeersOK
  <2>3. QED
    BY <2>1, <2>2
<1>8. \A p \in pairs : IsPair(p) /\ ConnsOf(p) \subseteq Conns
  BY DEF StreamsInv, PoolsInv, PairOK, ConnsOf
<1>9. PairsOK'
  BY <1>1, <1>3, <1>6, <1>8, StageKept, NoNewsPairs DEF StreamsInv
<1>10. ToldOK'
  BY <1>1, <1>6, NoNewsTold DEF StreamsInv, Waits
<1>11. QED
  BY <1>2, <1>5, <1>7, <1>9, <1>10 DEF StreamsInv

\* A client connects and sends its key.
LEMMA ConnectKeeps ==
  ASSUME StreamsInv, PoolsInv', NEW c \in Conns, Connect(c)
  PROVE  StreamsInv'
<1>1. /\ client[c] = "idle" /\ client' = [client EXCEPT ![c] = "sent_key"]
      /\ accepting' = [accepting EXCEPT ![c] = "waiting_key"]
      /\ toServer' = [toServer EXCEPT ![c] = Append(@, Message("Key"))]
      /\ UNCHANGED <<toClient, waiting, pairs, peer>>
  BY DEF Connect, HandleNewConnection, Say, Goes
<1>2. /\ accepting[c] = "none" /\ DOMAIN client = Conns
      /\ accepting \in [Conns -> {"none", "waiting_key", "accepted", "done"}]
  BY <1>1 DEF StreamsInv, PoolsInv, Handled
<1>3. toServer[c] = <<>> /\ toClient[c] = <<>>
  BY <1>1, <1>2 DEF StreamsInv, NewOK, Fresh, Alive, Ended
<1>4. /\ toServer'[c] = <<Message("Key")>> /\ toClient'[c] = <<>>
      /\ client'[c] = "sent_key"
      /\ \A d \in Conns \ {c} : /\ toServer'[d] = toServer[d]
                                /\ client'[d] = client[d]
                                /\ accepting'[d] = accepting[d]
  BY <1>1, <1>2, <1>3 DEF StreamsInv, ChansOK
<1>5. ChansOK'
  <2>1. IsSeq(<<Message("Key")>>)
    BY ShortSeq
  <2>2. QED
    BY <1>1, <1>4, <2>1 DEF StreamsInv, ChansOK
<1>6. EndedOK'
  BY <1>1, <1>4, Untouched DEF StreamsInv, EndedOK, Alive, Ended
<1>7. ~Waits(c)
  BY <1>2 DEF StreamsInv, PoolsInv, WaitingOK, Waits
<1>8. KeySent(c)'
  BY <1>4, ShortSeq DEF KeySent, Talking, NoAsks
<1>9. NewOK'
  <2>1. accepting'[c] = "waiting_key"
    BY <1>1, <1>2
  <2>2. QED
    BY <1>1, <1>4, <1>7, <1>8, <2>1, Untouched DEF StreamsInv, NewOK, Waits
<1>10. NoNews
  BY <1>1, <1>4 DEF NoNews, MaySucceed, Relayed, Told
<1>11. PeersOK'
  BY <1>1, <1>4 DEF StreamsInv, PeersOK
<1>12. \A p \in pairs : IsPair(p) /\ ConnsOf(p) \subseteq Conns \ {c}
  BY <1>2 DEF StreamsInv, PoolsInv, PairOK, ConnsOf
<1>13. PairsOK'
  <2>1. \A p \in pairs : \A d \in ConnsOf(p) : StageOK(p, d) => StageOK(p, d)'
    BY <1>1, <1>4, <1>12, Untouched, StageKept
  <2>2. QED
    BY <1>1, <1>10, <1>12, <2>1, NoNewsPairs DEF StreamsInv
<1>14. ToldOK'
  BY <1>1, <1>2, <1>4, <1>10, NoNewsTold DEF StreamsInv, Waits
<1>15. QED
  BY <1>5, <1>6, <1>9, <1>11, <1>13, <1>14 DEF StreamsInv

-----------------------------------------------------------------------------
(* What a step of the server does to the channels.                         *)

\* The server reads a message, unless it is the end, which stays.
Heeds(c) ==
  \/ toServer'[c] = toServer[c]
  \/ /\ toServer[c] # <<>> /\ Head(toServer[c]) # Eof
     /\ toServer'[c] = Tail(toServer[c])

\* It sends to a client that is not gone.
Gets(c) ==
  \/ toClient'[c] = toClient[c]
  \/ ~Gone(c) /\ \E t : IsSeq(t) /\ toClient'[c] = toClient[c] \o t

\* The server's step is about the connections of S.
Touches(S) ==
  /\ UNCHANGED clientVars
  /\ DOMAIN toServer' = Conns /\ DOMAIN toClient' = Conns
  /\ \A c \in Conns : Heeds(c) /\ Gets(c)
  /\ \A c \in Conns \ S : toServer'[c] = toServer[c] /\ toClient'[c] = toClient[c]

\* What c gets neither asks it for anything nor tells it of a peer.
Calm(c) ==
  \A m \in Msgs(toClient'[c]) :
    m.type \in Asks \cup {"PeerJoined"} => m \in Msgs(toClient[c])

Harmless(t) ==
  IsSeq(t) /\ \A m \in Msgs(t) : m.type \notin Asks \cup {"PeerJoined"}

\* What the server says when it turns a client away or leaves it.
LEMMA HarmlessWords ==
  /\ Harmless(Goodbye) /\ Harmless(<<Eof>>)
  /\ \A m : m.type \notin Asks \cup {"PeerJoined"} =>
       Harmless(<<m>>) /\ Harmless(<<m>> \o Goodbye)
<1>1. Harmless(Goodbye)
  <2>1. /\ IsSeq(<<Message("Close"), Eof>>)
        /\ Msgs(<<Message("Close"), Eof>>) = {Message("Close"), Eof}
    BY ShortSeq
  <2>2. QED
    BY <2>1 DEF Harmless, Goodbye, Message, Eof, Asks
<1>2. ASSUME NEW m, m.type \notin Asks \cup {"PeerJoined"}
      PROVE  Harmless(<<m>>) /\ Harmless(<<m>> \o Goodbye)
  <2> DEFINE s == <<m>>
  <2>1. IsSeq(s) /\ Msgs(s) = {m}
    BY ShortSeq
  <2>2. IsSeq(Goodbye)
    BY <1>1 DEF Harmless
  <2> HIDE DEF s
  <2>3. IsSeq(s \o Goodbye) /\ Msgs(s \o Goodbye) = {m} \cup Msgs(Goodbye)
    BY <2>1, <2>2, ConcatSeq
  <2>4. Harmless(s) /\ Harmless(s \o Goodbye)
    BY <1>1, <1>2, <2>1, <2>3 DEF Harmless
  <2>5. QED
    BY <2>4 DEF s
<1>3. Harmless(<<Eof>>)
  <2>1. Eof.type \notin Asks \cup {"PeerJoined"}
    BY DEF Eof, Message, Asks
  <2>2. QED
    BY <1>2, <2>1
<1>4. QED
  BY <1>1, <1>2, <1>3

\* The messages that a step sends reach the clients that are there.
LEMMA SendingGets ==
  ASSUME ChansOK, NEW sends, toClient' = Sending(sends)
  PROVE  /\ DOMAIN toClient' = Conns
         /\ \A c \in Conns : (c \notin DOMAIN sends \/ Gone(c)) =>
                               toClient'[c] = toClient[c]
         /\ \A c \in Conns : c \in DOMAIN sends /\ ~Gone(c) =>
                               toClient'[c] = toClient[c] \o sends[c]
  BY DEF Sending

\* Messages that ask for nothing change no duty of those who get them.
LEMMA HarmlessGets ==
  ASSUME ChansOK, NEW sends, toClient' = Sending(sends),
         \A c \in DOMAIN sends : Harmless(sends[c])
  PROVE  \A c \in Conns : Gets(c) /\ Calm(c)
<1> SUFFICES ASSUME NEW c \in Conns PROVE Gets(c) /\ Calm(c)
  OBVIOUS
<1>1. CASE c \notin DOMAIN sends \/ Gone(c)
  BY <1>1, SendingGets DEF Gets, Calm
<1>2. CASE c \in DOMAIN sends /\ ~Gone(c)
  <2>1. toClient'[c] = toClient[c] \o sends[c] /\ Harmless(sends[c])
    BY <1>2, SendingGets
  <2>2. Msgs(toClient'[c]) = Msgs(toClient[c]) \cup Msgs(sends[c])
    BY <2>1, ConcatSeq DEF ChansOK, Harmless
  <2>3. QED
    BY <1>2, <2>1, <2>2 DEF Gets, Calm, Harmless
<1>3. QED
  BY <1>1, <1>2

\* The server sends a client messages that ask for nothing.
LEMMA CalmSendingTo ==
  ASSUME ChansOK, NEW c \in Conns, NEW msgs, Harmless(msgs),
         toClient' = SendingTo(c, msgs)
  PROVE  /\ DOMAIN toClient' = Conns
         /\ \A d \in Conns : Gets(d) /\ Calm(d)
         /\ \A d \in Conns \ {c} : toClient'[d] = toClient[d]
<1> DEFINE sends == [x \in {c} |-> msgs]
<1>1. DOMAIN sends = {c} /\ sends[c] = msgs
  OBVIOUS
<1>2. toClient' = Sending(sends)
  BY DEF SendingTo
<1> HIDE DEF sends
<1>3. QED
  BY <1>1, <1>2, SendingGets, HarmlessGets

\* The server closes connections.
LEMMA CalmDropping ==
  ASSUME ChansOK, NEW S, NEW saidClose, toClient' = Sending(Dropping(S, saidClose))
  PROVE  /\ DOMAIN toClient' = Conns
         /\ \A d \in Conns : Gets(d) /\ Calm(d)
         /\ \A d \in Conns \ S : toClient'[d] = toClient[d]
<1> DEFINE sends == Dropping(S, saidClose)
<1>1. DOMAIN sends = S /\ \A c \in DOMAIN sends : Harmless(sends[c])
  BY HarmlessWords DEF Dropping
<1> HIDE DEF sends
<1>2. toClient' = Sending(sends)
  BY DEF sends
<1>3. QED
  BY <1>1, <1>2, SendingGets, HarmlessGets

\* The server reads one message of one client.
LEMMA Reading ==
  ASSUME ChansOK, NEW c \in Conns, Unread(toServer, c),
         toServer' = [toServer EXCEPT ![c] =
                        IF Head(toServer[c]) = Eof THEN toServer[c]
                        ELSE Tail(toServer[c])]
  PROVE  /\ DOMAIN toServer' = Conns
         /\ \A d \in Conns : Heeds(d)
         /\ \A d \in Conns \ {c} : toServer'[d] = toServer[d]
  BY DEF ChansOK, Unread, Heeds

\* Channels stay sequences, and a client that has ended stays so.
LEMMA TouchesChans ==
  ASSUME ChansOK, EndedOK, NEW S, Touches(S)
  PROVE  /\ ChansOK' /\ EndedOK' /\ \A c \in Conns : Alive(c)' = Alive(c)
<1>1. \A c \in Conns : Alive(c)' = Alive(c)
  BY DEF Touches, clientVars, Alive
<1>2. ASSUME NEW c \in Conns
      PROVE  IsSeq(toServer'[c]) /\ IsSeq(toClient'[c])
  <2>1. IsSeq(toServer'[c])
    BY TailSeq, ZenonT(30) DEF Touches, Heeds, ChansOK
  <2>2. IsSeq(toClient'[c])
    <3>1. CASE toClient'[c] = toClient[c]
      BY <3>1 DEF ChansOK
    <3>2. ASSUME NEW t, IsSeq(t), toClient'[c] = toClient[c] \o t
          PROVE  IsSeq(toClient'[c])
      BY <3>2, ConcatSeq DEF ChansOK
    <3>3. QED
      BY <3>1, <3>2 DEF Touches, Gets
  <2>3. QED
    BY <2>1, <2>2
<1>3. ASSUME NEW c \in Conns, Gone(c) PROVE Gone(c)'
  <2>1. CASE toServer'[c] = toServer[c]
    BY <1>3, <2>1 DEF Gone
  <2>2. CASE /\ toServer[c] # <<>> /\ Head(toServer[c]) # Eof
             /\ toServer'[c] = Tail(toServer[c])
    <3> DEFINE s == toServer[c]
    <3>1. /\ Len(s) \in Nat \ {0} /\ Len(Tail(s)) = Len(s) - 1 /\ Head(s) = s[1]
          /\ \A i \in 1 .. Len(s) - 1 : Tail(s)[i] = s[i + 1]
          /\ Len(s) > 1 => Tail(s) # <<>>
      BY <2>2, TailSeq DEF ChansOK
    <3>2. s[Len(s)] = Eof /\ s[1] # Eof
      BY <1>3, <2>2, <3>1 DEF Gone
    <3>3. Len(s) > 1 /\ Len(s) - 1 \in 1 .. Len(s) - 1
      BY <3>1, <3>2
    <3>4. Tail(s) # <<>> /\ Tail(s)[Len(Tail(s))] = Eof
      BY <3>1, <3>2, <3>3
    <3>5. QED
      BY <2>2, <3>4 DEF Gone
  <2>3. QED
    BY <2>1, <2>2 DEF Touches, Heeds
<1>4. EndedOK'
  BY <1>1, <1>3 DEF EndedOK, Touches, Gets
<1>5. QED
  BY <1>1, <1>2, <1>4 DEF ChansOK, Touches, clientVars

\* A calm step tells nobody anything.
LEMMA CalmTells ==
  ASSUME ChansOK, PeersOK, NEW S, Touches(S), \A c \in Conns : Calm(c)
  PROVE  /\ NoNews /\ PeersOK'
         /\ \A c \in Conns : NoAsks(toClient[c]) => NoAsks(toClient'[c])
<1>1. UNCHANGED <<client, peer>>
  BY DEF Touches, clientVars
<1>2. NoNews
  BY <1>1 DEF NoNews, Calm, MaySucceed, Relayed, Told, Asks
<1>3. PeersOK'
  BY <1>1 DEF PeersOK, Calm
<1>4. \A c \in Conns : NoAsks(toClient[c]) => NoAsks(toClient'[c])
  BY DEF Calm, NoAsks
<1>5. QED
  BY <1>2, <1>3, <1>4

-----------------------------------------------------------------------------
(* The server's steps that leave the pairs alone.                          *)

\* A step about connections that are in no pair.
LEMMA PairsLeftAlone ==
  ASSUME StreamsInv, PoolsInv', NEW S, Touches(S), \A c \in Conns : Calm(c),
         UNCHANGED pairs, \A p \in pairs : ConnsOf(p) \cap S = {},
         \A c \in Conns : accepting[c] = "done" /\ ~Waits(c) =>
                            accepting'[c] = "done" /\ ~Waits(c)',
         NewOK'
  PROVE  StreamsInv'
<1>1. ChansOK' /\ EndedOK' /\ NoNews /\ PeersOK'
  BY TouchesChans, CalmTells DEF StreamsInv
<1>2. \A p \in pairs : IsPair(p) /\ ConnsOf(p) \subseteq Conns \ S
  BY DEF StreamsInv, PoolsInv, PairOK, ConnsOf
<1>3. \A p \in pairs : \A c \in ConnsOf(p) : StageOK(p, c) => StageOK(p, c)'
  <2> SUFFICES ASSUME NEW p \in pairs, NEW c \in ConnsOf(p), StageOK(p, c)
               PROVE  StageOK(p, c)'
    OBVIOUS
  <2>1. /\ client'[c] = client[c]
        /\ toServer'[c] = toServer[c] /\ toClient'[c] = toClient[c]
    BY <1>2 DEF Touches, clientVars
  <2>2. QED
    BY <2>1, Untouched, StageKept
<1>4. PairsOK' /\ ToldOK'
  BY <1>1, <1>2, <1>3, NoNewsPairs, NoNewsTold DEF StreamsInv
<1>5. QED
  BY <1>1, <1>4 DEF StreamsInv

\* What the parts say of new connections, when the step is about c alone.
LEMMA NewKept ==
  ASSUME StreamsInv, NEW c \in Conns, Touches({c}),
         \A d \in Conns \ {c} : accepting'[d] = accepting[d] /\ (Waits(d)' => Waits(d)),
         accepting'[c] \notin {"none", "waiting_key"},
         accepting'[c] = "accepted" \/ Waits(c)' => Quiet(c)'
  PROVE  NewOK'
<1> SUFFICES ASSUME NEW d \in Conns \ {c}
             PROVE  /\ accepting'[d] = "none" => Fresh(d)'
                    /\ accepting'[d] = "waiting_key" => KeySent(d)'
                    /\ accepting'[d] = "accepted" \/ Waits(d)' => Quiet(d)'
  BY DEF NewOK
<1>1. /\ client'[d] = client[d]
      /\ toServer'[d] = toServer[d] /\ toClient'[d] = toClient[d]
  BY DEF Touches, clientVars
<1>2. QED
  BY <1>1, Untouched DEF StreamsInv, NewOK

\* A connection has sent its key, or has failed to.
LEMMA KeyTaskKeeps ==
  ASSUME StreamsInv, PoolsInv', NEW c \in Conns, KeyTask(c), UNCHANGED clientVars
  PROVE  StreamsInv'
<1>1. /\ accepting[c] = "waiting_key" /\ UNCHANGED <<waiting, pairs>>
      /\ accepting \in [Conns -> {"none", "waiting_key", "accepted", "done"}]
      /\ accepting' = [accepting EXCEPT ![c] = "accepted"]
           \/ accepting' = [accepting EXCEPT ![c] = "done"]
  BY DEF KeyTask, ReceiveKey, NoKey, StreamsInv, PoolsInv, Handled
<1>2. ~Waits(c) /\ \A p \in pairs : ConnsOf(p) \cap {c} = {}
  BY <1>1 DEF StreamsInv, PoolsInv, WaitingOK, PairOK, Waits, ConnsOf
<1>3. PICK msgs : toClient' = SendingTo(c, msgs) /\ Harmless(msgs)
  <2>1. /\ Message("KeyAccepted").type \notin Asks \cup {"PeerJoined"}
        /\ Message("KeyRejected").type \notin Asks \cup {"PeerJoined"}
    BY DEF Message, Asks
  <2>2. QED
    BY <2>1, HarmlessWords DEF KeyTask, ReceiveKey, NoKey
<1>4. /\ DOMAIN toServer' = Conns /\ Heeds(c)
      /\ \A d \in Conns \ {c} : toServer'[d] = toServer[d]
  BY DEF KeyTask, ReceiveKey, NoKey, Unread, Heeds, Eof, Message, StreamsInv,
         ChansOK
<1>5. Touches({c}) /\ \A d \in Conns : Calm(d)
  BY <1>3, <1>4, CalmSendingTo DEF Touches, Heeds, StreamsInv
<1>6. accepting'[c] = "accepted" => Quiet(c)'
  <2> SUFFICES ASSUME accepting'[c] = "accepted", Alive(c)
               PROVE  Talking(c)' /\ NoAsks(toClient'[c]) /\ toServer'[c] = <<>>
    BY <1>5, TouchesChans DEF Quiet, StreamsInv
  <2>1. /\ Talking(c) /\ NoAsks(toClient[c])
        /\ toServer[c] = <<Message("Key")>>
    BY <1>1 DEF StreamsInv, NewOK, KeySent
  <2>2. toServer'[c] = Tail(toServer[c])
    BY <1>1 DEF KeyTask, ReceiveKey, NoKey, StreamsInv, ChansOK
  <2>3. Talking(c)' /\ NoAsks(toClient'[c])
    BY <1>5, <2>1, CalmTells DEF Talking, clientVars, StreamsInv
  <2>4. QED
    BY <2>1, <2>2, <2>3
<1>7. NewOK'
  BY <1>1, <1>2, <1>5, <1>6, NewKept DEF Waits
<1>8. \A d \in Conns : accepting[d] = "done" /\ ~Waits(d) =>
                         accepting'[d] = "done" /\ ~Waits(d)'
  BY <1>1 DEF Waits
<1>9. QED
  BY <1>1, <1>2, <1>5, <1>7, <1>8, PairsLeftAlone

\* Those who stop waiting are turned away.
LEMMA StopWaitingKeeps ==
  ASSUME StreamsInv, PoolsInv', NEW K, K \subseteq DOMAIN waiting, StopWaiting(K),
         UNCHANGED clientVars, DOMAIN toServer' = Conns,
         \A c \in Conns : Heeds(c),
         \A c \in Conns \ {waiting[k] : k \in K} : toServer'[c] = toServer[c]
  PROVE  StreamsInv'
<1> DEFINE S == {waiting[k] : k \in K}
<1>1. \A k \in DOMAIN waiting : /\ waiting[k] \in Conns /\ KeyOf[waiting[k]] = k
                                /\ accepting[waiting[k]] = "done"
  BY DEF StreamsInv, PoolsInv, WaitingOK
<1>2. UNCHANGED <<accepting, pairs>> /\ waiting' = Restrict(waiting, DOMAIN waiting \ K)
  BY DEF StopWaiting
<1>3. DOMAIN waiting' = DOMAIN waiting \ K
      /\ \A k \in DOMAIN waiting' : waiting'[k] = waiting[k]
  BY <1>2 DEF Restrict
<1>4. Touches(S) /\ \A c \in Conns : Calm(c)
  <2>1. toClient' = Sending(Dropping(S, {}))
    BY DEF StopWaiting
  <2> HIDE DEF S
  <2>2. \A c \in Conns \ S : toServer'[c] = toServer[c]
    BY DEF S
  <2>3. QED
    BY <2>1, <2>2, CalmDropping DEF Touches, StreamsInv
<1>5. \A c \in S : c \in Conns /\ Waits(c)
  BY <1>1 DEF Waits
<1>6. \A p \in pairs : ConnsOf(p) \cap S = {}
  BY <1>5 DEF StreamsInv, PoolsInv, PairsAreSessions, Paired
<1>7. \A c \in Conns : Waits(c)' => Waits(c) /\ c \notin S
  BY <1>1, <1>3 DEF Waits
<1>8. NewOK'
  <2> SUFFICES ASSUME NEW c \in Conns
               PROVE  /\ accepting'[c] = "none" => Fresh(c)'
                      /\ accepting'[c] = "waiting_key" => KeySent(c)'
                      /\ accepting'[c] = "accepted" \/ Waits(c)' => Quiet(c)'
    BY DEF NewOK
  <2>1. CASE c \in S
    BY <1>1, <1>2, <1>7, <2>1
  <2>2. CASE c \notin S
    <3>1. /\ client'[c] = client[c]
          /\ toServer'[c] = toServer[c] /\ toClient'[c] = toClient[c]
      BY <1>4, <2>2 DEF Touches, clientVars
    <3>2. QED
      BY <1>2, <1>7, <3>1, Untouched DEF StreamsInv, NewOK
  <2>3. QED
    BY <2>1, <2>2
<1>9. QED
  BY <1>2, <1>4, <1>6, <1>7, <1>8, PairsLeftAlone

\* The loop turns away, pairs or keeps waiting a client whose key was accepted,
\* which has neither been asked nor told anything yet.
LEMMA AcceptedKeeps ==
  ASSUME StreamsInv, PoolsInv', NEW c \in Conns, HandleAcceptedConnection(c),
         UNCHANGED clientVars
  PROVE  StreamsInv'
<1> DEFINE k == Other[KeyOf[c]]
<1>1. /\ accepting[c] = "accepted" /\ accepting'[c] = "done"
      /\ \A d \in Conns \ {c} : accepting'[d] = accepting[d]
      /\ UNCHANGED toServer
  BY DEF HandleAcceptedConnection, StreamsInv, PoolsInv, Handled
<1>2. /\ ~Waits(c) /\ Quiet(c)
      /\ \A p \in pairs : ConnsOf(p) \cap {c} = {}
      /\ \A d \in Conns : ~Told(c, d) /\ ~Told(d, c)
  BY <1>1 DEF StreamsInv, PoolsInv, WaitingOK, PairOK, Waits, ConnsOf, NewOK, ToldOK
<1>3. \A d \in Conns : Heeds(d)
  BY <1>1 DEF Heeds
<1>4. CASE /\ toClient' = SendingTo(c, <<Message("AlreadyJoined")>> \o Goodbye)
           /\ UNCHANGED <<waiting, pairs>>
  <2>1. Harmless(<<Message("AlreadyJoined")>> \o Goodbye)
    <3>1. Message("AlreadyJoined").type \notin Asks \cup {"PeerJoined"}
      BY DEF Message, Asks
    <3>2. QED
      BY <3>1, HarmlessWords
  <2>2. Touches({c}) /\ \A d \in Conns : Calm(d)
    BY <1>1, <1>3, <1>4, <2>1, CalmSendingTo DEF Touches, StreamsInv, ChansOK
  <2>3. \A d \in Conns : Waits(d)' => Waits(d)
    BY <1>4 DEF Waits
  <2>4. NewOK'
    BY <1>1, <1>2, <2>2, <2>3, NewKept
  <2>5. QED
    BY <1>1, <1>2, <1>4, <2>2, <2>3, <2>4, PairsLeftAlone
<1>5. ASSUME UNCHANGED toClient
      PROVE  /\ Touches({c}) /\ \A d \in Conns : Calm(d)
             /\ Quiet(c)' /\ NoNews
  <2>1. Touches({c}) /\ \A d \in Conns : Calm(d)
    BY <1>1, <1>3, <1>5 DEF Touches, Gets, Calm, StreamsInv, ChansOK
  <2>2. Quiet(c)'
    BY <1>1, <1>2, <1>5, Untouched DEF clientVars
  <2>3. QED
    BY <2>1, <2>2, CalmTells DEF StreamsInv
<1>6. CASE StartWaiting(c) /\ KeyOf[c] \notin DOMAIN waiting /\ UNCHANGED <<toClient, pairs>>
  <2>1. /\ DOMAIN waiting' = DOMAIN waiting \cup {KeyOf[c]}
        /\ waiting'[KeyOf[c]] = c
        /\ \A x \in DOMAIN waiting : waiting'[x] = waiting[x]
    BY <1>6 DEF StartWaiting, Insert
  <2>2. \A d \in Conns \ {c} : Waits(d)' => Waits(d)
    BY <2>1 DEF Waits
  <2>3. NewOK'
    BY <1>1, <1>5, <1>6, <2>2, NewKept
  <2>4. QED
    BY <1>1, <1>2, <1>5, <1>6, <2>2, <2>3, PairsLeftAlone
<1>7. CASE PairWithWaiting(c) /\ PeerWaits(c) /\ UNCHANGED toClient
  <2>0. PICK w : w = waiting[k]
    OBVIOUS
  <2> DEFINE new == NewPair(c, w)
  <2>1. /\ k \in DOMAIN waiting /\ pairs' = pairs \cup {new}
        /\ waiting' = Restrict(waiting, DOMAIN waiting \ {k})
    BY <1>7, <2>0 DEF PairWithWaiting, PeerWaits
  <2>2. /\ w \in Conns /\ Waits(w)
        /\ \A x \in DOMAIN waiting : KeyOf[waiting[x]] = x
    BY <2>0, <2>1 DEF StreamsInv, PoolsInv, WaitingOK, Waits
  <2>3. \A d \in Conns : ~Told(w, d) /\ ~Told(d, w)
    BY <2>2 DEF StreamsInv, ToldOK
  <2>4. \A d \in Conns : Waits(d)' => Waits(d)
    BY <2>1 DEF Waits, Restrict
  <2>5. NewOK'
    BY <1>1, <1>2, <1>5, <1>7, <2>4, NewKept
  <2>6. Quiet(w)'
    <3>1. Quiet(w)
      BY <2>2 DEF StreamsInv, NewOK
    <3>2. QED
      BY <1>1, <1>7, <3>1, Untouched DEF clientVars
  <2>7. ConnsOf(new) = {c, w} /\ new.stage = "joining"
    BY DEF ConnsOf, NewPair
  <2>8. PairsOK'
    <3> SUFFICES ASSUME NEW p \in pairs', NEW x \in ConnsOf(p)
                 PROVE  /\ StageOK(p, x)'
                        /\ \A d \in Conns : Told(x, d)' \/ Told(d, x)' =>
                             p.stage # "joining" /\ PeerIn(p, x) = d
      BY DEF PairsOK
    <3>1. CASE p = new
      <4>1. Quiet(x)' /\ x \in Conns
        BY <1>5, <1>7, <2>2, <2>6, <2>7, <3>1
      <4>2. StageOK(p, x)'
        BY <2>7, <3>1, <4>1 DEF StageOK
      <4>3. \A d \in Conns : ~Told(x, d)' /\ ~Told(d, x)'
        BY <1>2, <1>5, <1>7, <2>3, <2>7, <3>1, <4>1 DEF NoNews
      <4>4. QED
        BY <4>2, <4>3
    <3>2. CASE p \in pairs
      <4>1. x \in Conns /\ StageOK(p, x)
        BY <3>2 DEF StreamsInv, PairsOK, PoolsInv, PairOK, ConnsOf
      <4>2. StageOK(p, x)'
        BY <1>1, <1>7, <4>1, Untouched, StageKept DEF clientVars
      <4>3. QED
        BY <1>5, <1>7, <3>2, <4>1, <4>2 DEF StreamsInv, PairsOK, NoNews
    <3>3. QED
      BY <2>1, <3>1, <3>2
  <2>9. ToldOK'
    BY <1>1, <1>5, <1>7, <2>4, NoNewsTold DEF StreamsInv
  <2>10. ChansOK' /\ EndedOK' /\ PeersOK'
    BY <1>5, <1>7, TouchesChans, CalmTells DEF StreamsInv
  <2>11. QED
    BY <2>5, <2>8, <2>9, <2>10 DEF StreamsInv
<1>8. QED
  BY <1>4, <1>6, <1>7 DEF HandleAcceptedConnection

\* The loop, and the expiry of those who wait.
LEMMA LoopKeeps ==
  ASSUME StreamsInv, PoolsInv', Loop \/ CleanExpiredConnections,
         UNCHANGED clientVars
  PROVE  StreamsInv'
<1>1. CASE \E c \in Conns : HandleAcceptedConnection(c)
  BY <1>1, AcceptedKeeps
<1>2. ASSUME NEW k \in Keys, HandleClosedWaitingConnection(k) PROVE StreamsInv'
  <2>1. k \in DOMAIN waiting /\ waiting[k] \in Conns /\ StopWaiting({k})
    BY <1>2 DEF HandleClosedWaitingConnection, StreamsInv, PoolsInv, WaitingOK
  <2>2. /\ DOMAIN toServer' = Conns /\ \A c \in Conns : Heeds(c)
        /\ \A c \in Conns \ {waiting[k]} : toServer'[c] = toServer[c]
    BY <1>2, <2>1, Reading DEF HandleClosedWaitingConnection, StreamsInv
  <2>3. {waiting[x] : x \in {k}} = {waiting[k]}
    OBVIOUS
  <2>4. QED
    BY <2>1, <2>2, <2>3, StopWaitingKeeps
<1>3. CASE CleanExpiredConnections
  <2>1. PICK K : K \subseteq DOMAIN waiting /\ StopWaiting(K) /\ UNCHANGED toServer
    BY <1>3 DEF CleanExpiredConnections
  <2>2. QED
    BY <2>1, StopWaitingKeeps DEF Heeds, StreamsInv, ChansOK
<1>4. QED
  BY <1>1, <1>2, <1>3 DEF Loop

-----------------------------------------------------------------------------
(* The steps of a pair's task.                                             *)

\* The pair of p becomes those of Q, one with the same connections or none.
LEMMA PairMoves ==
  ASSUME StreamsInv, PoolsInv', NEW p \in pairs, NEW Q, Touches(ConnsOf(p)),
         UNCHANGED <<accepting, waiting>>, pairs' = (pairs \ {p}) \cup Q,
         \A q \in Q : Moves(p, q),
         \A q \in Q : \A c \in ConnsOf(p) :
           /\ StageOK(q, c)'
           /\ \A d \in Conns : Told(c, d)' \/ Told(d, c)' =>
                q.stage # "joining" /\ PeerIn(p, c) = d,
         \A c, d \in Conns : Told(c, d)' =>
           Told(c, d) \/ (c \in ConnsOf(p) /\ d \in ConnsOf(p)),
         PeersOK', ToldOK'
  PROVE  StreamsInv'
<1>1. /\ p.con1 \in Conns /\ p.con2 \in Conns /\ ConnsOf(p) \subseteq Conns
      /\ accepting[p.con1] = "done" /\ accepting[p.con2] = "done"
      /\ \A c \in ConnsOf(p) : ~Waits(c)
  BY DEF StreamsInv, PoolsInv, PairOK, ConnsOf, PairsAreSessions, Paired
<1>2. ChansOK' /\ EndedOK'
  BY TouchesChans DEF StreamsInv
<1>3. \A c \in Conns \ ConnsOf(p) :
        /\ client'[c] = client[c]
        /\ toServer'[c] = toServer[c] /\ toClient'[c] = toClient[c]
  BY DEF Touches, clientVars
<1>4. NewOK'
  <2> SUFFICES ASSUME NEW c \in Conns
               PROVE  /\ accepting'[c] = "none" => Fresh(c)'
                      /\ accepting'[c] = "waiting_key" => KeySent(c)'
                      /\ accepting'[c] = "accepted" \/ Waits(c)' => Quiet(c)'
    BY DEF NewOK
  <2>1. CASE c \in ConnsOf(p)
    BY <1>1, <2>1 DEF ConnsOf, Waits
  <2>2. CASE c \notin ConnsOf(p)
    BY <1>3, <2>2, Untouched DEF StreamsInv, NewOK, Waits
  <2>3. QED
    BY <2>1, <2>2
<1>5. PairsOK'
  <2> SUFFICES ASSUME NEW x \in pairs', NEW c \in ConnsOf(x)
               PROVE  /\ StageOK(x, c)'
                      /\ \A d \in Conns : Told(c, d)' \/ Told(d, c)' =>
                           x.stage # "joining" /\ PeerIn(x, c) = d
    BY DEF PairsOK
  <2>1. CASE x \in Q
    BY <2>1 DEF Moves, ConnsOf, PeerIn
  <2>2. CASE x \in pairs \ {p}
    <3>1. c \in Conns /\ c \notin ConnsOf(p)
      <4>1. ConnsOf(x) \cap ConnsOf(p) = {}
        BY <2>2 DEF StreamsInv, PoolsInv, PairsAreSessions
      <4>2. QED
        BY <2>2, <4>1 DEF StreamsInv, PoolsInv, PairOK, ConnsOf
    <3>2. StageOK(x, c)'
      BY <1>3, <2>2, <3>1, Untouched, StageKept DEF StreamsInv, PairsOK
    <3>3. QED
      BY <2>2, <3>1, <3>2 DEF StreamsInv, PairsOK
  <2>3. QED
    BY <2>1, <2>2
<1>6. QED
  BY <1>2, <1>4, <1>5 DEF StreamsInv

\* A step of a pair that asks its clients for nothing.
LEMMA CalmPairMoves ==
  ASSUME StreamsInv, PoolsInv', NEW p \in pairs, NEW Q, Touches(ConnsOf(p)),
         \A c \in Conns : Calm(c),
         UNCHANGED <<accepting, waiting>>, pairs' = (pairs \ {p}) \cup Q,
         \A q \in Q : Moves(p, q) /\ (q.stage = "joining" => p.stage = "joining"),
         \A q \in Q : \A c \in ConnsOf(p) : StageOK(q, c)'
  PROVE  StreamsInv'
<1>1. NoNews /\ PeersOK'
  BY CalmTells DEF StreamsInv
<1>2. ToldOK'
  BY <1>1, NoNewsTold DEF StreamsInv, Waits
<1>3. ConnsOf(p) \subseteq Conns
  BY DEF StreamsInv, PoolsInv, PairOK, ConnsOf
<1>4. \A q \in Q : \A c \in ConnsOf(p) : \A d \in Conns :
        Told(c, d)' \/ Told(d, c)' => q.stage # "joining" /\ PeerIn(p, c) = d
  BY <1>1, <1>3 DEF NoNews, StreamsInv, PairsOK
<1>5. \A c, d \in Conns : Told(c, d)' => Told(c, d)
  BY <1>1 DEF NoNews
<1>6. QED
  BY <1>1, <1>2, <1>4, <1>5, PairMoves

\* The task returns and drops both connections.
LEMMA PairEndsKeeps ==
  ASSUME StreamsInv, PoolsInv', NEW p \in pairs, NEW S, PairEnds(p, S),
         UNCHANGED <<accepting, waiting, clientVars>>,
         DOMAIN toServer' = Conns, \A c \in Conns : Heeds(c),
         \A c \in Conns \ ConnsOf(p) : toServer'[c] = toServer[c]
  PROVE  StreamsInv'
<1>1. Touches(ConnsOf(p)) /\ \A c \in Conns : Calm(c)
  BY CalmDropping DEF PairEnds, Touches, StreamsInv
<1>2. PICK Q : Q = {}
  OBVIOUS
<1>3. pairs' = (pairs \ {p}) \cup Q /\ UNCHANGED <<accepting, waiting>>
  BY <1>2 DEF PairEnds
<1>4. /\ \A q \in Q : Moves(p, q) /\ (q.stage = "joining" => p.stage = "joining")
      /\ \A q \in Q : \A c \in ConnsOf(p) : StageOK(q, c)'
  BY <1>2
<1>5. QED
  BY <1>1, <1>3, <1>4, CalmPairMoves

\* The server asks a client that has nothing left to do.
LEMMA AskedNext ==
  ASSUME NEW s, IsSeq(s), NoAsks(s), NEW m
  PROVE  /\ Asked(s \o <<m>>, m.type)
         /\ \A x \in Msgs(s \o <<m>>) :
              x = m \/ (x \in Msgs(s) /\ x.type \notin Asks)
<1>1. PICK w : w = <<m>> /\ IsSeq(w) /\ Msgs(w) = {m}
  BY ShortSeq
<1>2. Msgs(s \o w) = Msgs(s) \cup {m}
  BY <1>1, ConcatSeq
<1>3. QED
  BY <1>1, <1>2 DEF Asked, NoAsks

\* The clients of a pair get what is sent unless they have ended.
Get(p, m1, m2) ==
  /\ \A c \in ConnsOf(p) : ~Alive(c) => toClient'[c] = <<>>
  /\ Alive(p.con1) => toClient'[p.con1] = toClient[p.con1] \o <<m1>>
  /\ Alive(p.con2) => toClient'[p.con2] = toClient[p.con2] \o <<m2>>

\* Both clients of a pair get a message, if they are there.
LEMMA BothGet ==
  ASSUME ChansOK, EndedOK, NEW p, p.con1 \in Conns, p.con2 \in Conns,
         p.con1 # p.con2, NEW m1, NEW m2,
         toClient' = SendingBoth(p.con1, m1, p.con2, m2),
         UNCHANGED clientVars,
         DOMAIN toServer' = Conns, \A c \in Conns : Heeds(c),
         \A c \in Conns \ ConnsOf(p) : toServer'[c] = toServer[c],
         \A c \in ConnsOf(p) : Alive(c) => toServer'[c] = <<>>
  PROVE  Touches(ConnsOf(p)) /\ Get(p, m1, m2)
<1>0. PICK c1, c2, S : c1 = p.con1 /\ c2 = p.con2 /\ S = {c1, c2} /\ S = ConnsOf(p)
  BY DEF ConnsOf
<1> DEFINE sends == [x \in {c1, c2} |-> IF x = c1 THEN <<m1>> ELSE <<m2>>]
<1>1. toClient' = Sending(sends)
  BY <1>0 DEF SendingBoth
<1>2. DOMAIN sends = S /\ sends[c1] = <<m1>> /\ sends[c2] = <<m2>>
  BY <1>0
<1>3. \A c \in S : IsSeq(sends[c])
  BY <1>0, <1>2, ShortSeq
<1> HIDE DEF sends
<1>4. ASSUME NEW c \in S, Alive(c) PROVE ~Gone(c)
  <2> SUFFICES ASSUME toServer[c] # <<>>, toServer'[c] # toServer[c]
               PROVE  ~Gone(c)
    BY <1>0, <1>4 DEF Gone
  <2>1. /\ toServer[c] # <<>> /\ Head(toServer[c]) # Eof
        /\ Tail(toServer[c]) = <<>>
    BY <1>0, <1>4 DEF Heeds
  <2>2. toServer[c][Len(toServer[c])] = Head(toServer[c])
    BY <1>0, <2>1, TailSeq DEF ChansOK
  <2>3. QED
    BY <2>1, <2>2 DEF Gone
<1>5. /\ DOMAIN toClient' = Conns
      /\ \A c \in Conns \ S : toClient'[c] = toClient[c]
      /\ \A c \in S : Gone(c) => toClient'[c] = toClient[c]
      /\ \A c \in S : ~Gone(c) => toClient'[c] = toClient[c] \o sends[c]
  <2>1. /\ DOMAIN toClient' = Conns
        /\ \A c \in Conns : (c \notin DOMAIN sends \/ Gone(c)) =>
                              toClient'[c] = toClient[c]
        /\ \A c \in Conns : c \in DOMAIN sends /\ ~Gone(c) =>
                              toClient'[c] = toClient[c] \o sends[c]
    BY <1>1, SendingGets
  <2>2. S \subseteq Conns
    BY <1>0
  <2>3. QED
    BY <1>2, <2>1, <2>2
<1>6. \A c \in Conns : Gets(c)
  BY <1>0, <1>3, <1>5 DEF Gets
<1>7. \A c \in S : ~Alive(c) => toClient'[c] = <<>>
  BY <1>0, <1>5 DEF EndedOK
<1>8. QED
  BY <1>0, <1>2, <1>4, <1>5, <1>6, <1>7 DEF Touches, Get

\* What two clients that were told of each other do not both do, when the step
\* is about their pair or not.
LEMMA ToldKept ==
  ASSUME StreamsInv, NEW p \in pairs, UNCHANGED <<accepting, waiting>>,
         \A c, d \in Conns : Told(c, d)' => Told(c, d),
         \A c \in Conns \ ConnsOf(p) : /\ MaySucceed(c)' => MaySucceed(c)
                                       /\ Relayed(c)' => Relayed(c),
         \/ \A c \in ConnsOf(p) : ~Relayed(c)'
         \/ \A c \in ConnsOf(p) : ~MaySucceed(c)'
  PROVE  ToldOK'
<1> SUFFICES ASSUME NEW c \in Conns, NEW d \in Conns, Told(c, d)'
             PROVE  /\ accepting'[c] = "done" /\ accepting'[d] = "done"
                    /\ ~Waits(c)' /\ ~Waits(d)'
                    /\ \A e \in Conns :
                         (Told(c, e)' => e = d) /\ (Told(d, e)' => e = c)
                         /\ (Told(e, d)' => e = c)
                    /\ ~(MaySucceed(c)' /\ Relayed(d)')
                    /\ ~(MaySucceed(d)' /\ Relayed(c)')
  BY DEF ToldOK
<1>1. Told(c, d)
  OBVIOUS
<1>2. ~(MaySucceed(c)' /\ Relayed(d)') /\ ~(MaySucceed(d)' /\ Relayed(c)')
  <2>1. CASE c \in ConnsOf(p) \/ d \in ConnsOf(p)
    <3>1. \A x \in ConnsOf(p) : \A y \in Conns :
            Told(x, y) \/ Told(y, x) => y = PeerIn(p, x)
      BY DEF StreamsInv, PairsOK
    <3>2. \A x \in ConnsOf(p) : PeerIn(p, x) \in ConnsOf(p)
      BY DEF PeerIn, ConnsOf
    <3>3. c \in ConnsOf(p) /\ d \in ConnsOf(p)
      BY <1>1, <2>1, <3>1, <3>2
    <3>4. QED
      BY <3>3
  <2>2. CASE c \notin ConnsOf(p) /\ d \notin ConnsOf(p)
    <3>1. ~(MaySucceed(c) /\ Relayed(d)) /\ ~(MaySucceed(d) /\ Relayed(c))
      BY <1>1 DEF StreamsInv, ToldOK
    <3>2. QED
      BY <2>2, <3>1
  <2>3. QED
    BY <2>1, <2>2
<1>3. QED
  BY <1>1, <1>2 DEF StreamsInv, ToldOK, Waits

\* A pair that enters a stage has no results yet.
LEMMA AtStageIs ==
  ASSUME NEW p, NEW s, IsPair(p)
  PROVE  AtStage(p, s).stage = s /\ AtStage(p, s).results = <<>>
<1>1. [p EXCEPT !.stage = s] =
        [con1 |-> p.con1, con2 |-> p.con2, stage |-> s, results |-> p.results]
  BY DEF IsPair
<1>2. AtStage(p, s) = [[p EXCEPT !.stage = s] EXCEPT !.results = <<>>]
  BY DEF AtStage
<1>3. AtStage(p, s) =
        [con1 |-> p.con1, con2 |-> p.con2, stage |-> s, results |-> <<>>]
  BY <1>1, <1>2
<1>4. QED
  BY <1>3

\* What the task of the pair p may ask of its clients next: neither has
\* anything left to read or to be read, and neither is directly connected.
LEMMA AskingKeeps ==
  ASSUME StreamsInv, PoolsInv', NEW p \in pairs, p.stage # "joining",
         UNCHANGED <<accepting, waiting>>, UNCHANGED clientVars,
         DOMAIN toServer' = Conns, \A c \in Conns : Heeds(c),
         \A c \in Conns \ ConnsOf(p) : toServer'[c] = toServer[c],
         \A c \in ConnsOf(p) : Alive(c) =>
           Talking(c) /\ NoAsks(toClient[c]) /\ toServer'[c] = <<>>,
         NEW m1, NEW m2, toClient' = SendingBoth(p.con1, m1, p.con2, m2),
         NEW s, Becomes(p, AtStage(p, s)),
         m1.type = m2.type,
         \/ s = "binding" /\ m1.type = "BindForDirectConnect"
         \/ s = "attempting" /\ m1.type = "AttemptDirectConnect"
         \/ s = "relaying" /\ m1.type = "StartRelayMode"
  PROVE  StreamsInv'
<1> DEFINE q == AtStage(p, s)
           t == m1.type
<1> HIDE DEF q, t
<1>1. /\ IsPair(p) /\ p.con1 \in Conns /\ p.con2 \in Conns /\ p.con1 # p.con2
      /\ ConnsOf(p) = {p.con1, p.con2}
  BY ServerAssumption DEF StreamsInv, PoolsInv, PairOK, ConnsOf
<1>2. t \in Asks /\ t # "PeerJoined"
  BY DEF Asks, t
<1>3. /\ Touches(ConnsOf(p))
      /\ \A c \in ConnsOf(p) : ~Alive(c) => toClient'[c] = <<>>
      /\ \A c \in ConnsOf(p) : Alive(c) =>
           \E m : m.type = t /\ toClient'[c] = toClient[c] \o <<m>>
  <2>1. /\ ChansOK /\ EndedOK
        /\ \A c \in ConnsOf(p) : Alive(c) => toServer'[c] = <<>>
    BY DEF StreamsInv
  <2>2. Touches(ConnsOf(p)) /\ Get(p, m1, m2)
    <3>1. p.con1 \in Conns /\ p.con2 \in Conns /\ p.con1 # p.con2
      BY <1>1
    <3>2. toClient' = SendingBoth(p.con1, m1, p.con2, m2) /\ UNCHANGED clientVars
      OBVIOUS
    <3>3. /\ DOMAIN toServer' = Conns /\ \A c \in Conns : Heeds(c)
          /\ \A c \in Conns \ ConnsOf(p) : toServer'[c] = toServer[c]
      OBVIOUS
    <3>4. QED
      BY <2>1, <3>1, <3>2, <3>3, BothGet
  <2>3. QED
    BY <1>1, <2>2 DEF t, Get
<1>4. ASSUME NEW c \in ConnsOf(p), Alive(c)
      PROVE  /\ \A m \in Msgs(toClient'[c]) :
                  m.type = t \/ (m.type \notin Asks /\ m \in Msgs(toClient[c]))
             /\ Asked(toClient'[c], t) /\ Talking(c)'
  <2>1. PICK m : m.type = t /\ toClient'[c] = toClient[c] \o <<m>>
    BY <1>3, <1>4
  <2>2. IsSeq(toClient[c]) /\ NoAsks(toClient[c]) /\ Talking(c)
    BY <1>1, <1>4 DEF StreamsInv, ChansOK
  <2>3. /\ Asked(toClient'[c], t)
        /\ \A x \in Msgs(toClient'[c]) :
             x.type = t \/ (x \in Msgs(toClient[c]) /\ x.type \notin Asks)
    BY <2>1, <2>2, AskedNext
  <2>4. Talking(c)'
    BY <2>2 DEF Talking, clientVars
  <2>5. QED
    BY <2>3, <2>4
<1>5. \A c \in Conns : Alive(c)' = Alive(c) /\ client'[c] = client[c] /\ peer'[c] = peer[c]
  BY DEF clientVars, Alive
<1>6. \A c \in Conns \ ConnsOf(p) : toClient'[c] = toClient[c]
  BY <1>3 DEF Touches
<1>7. ASSUME NEW c \in Conns, NEW m \in Msgs(toClient'[c]), m.type = "PeerJoined"
      PROVE  m \in Msgs(toClient[c])
  BY <1>2, <1>3, <1>4, <1>6, <1>7, ShortSeq
<1>8. \A c, d \in Conns : Told(c, d)' => Told(c, d)
  BY <1>5, <1>7 DEF Told
<1>9. PeersOK'
  BY <1>5, <1>7 DEF StreamsInv, PeersOK
<1>10. \A c \in ConnsOf(p) : /\ s # "relaying" => ~Relayed(c)'
                             /\ s = "relaying" => ~MaySucceed(c)'
  <2> SUFFICES ASSUME NEW c \in ConnsOf(p)
               PROVE  /\ s # "relaying" => ~Relayed(c)'
                      /\ s = "relaying" => ~MaySucceed(c)'
    OBVIOUS
  <2>1. CASE Alive(c)
    <3>1. Talking(c)' /\ \A m \in Msgs(toClient'[c]) : m.type = t \/ m.type \notin Asks
      BY <1>4, <2>1
    <3>2. QED
      BY <3>1 DEF Talking, Relayed, MaySucceed, Asks, t
  <2>2. CASE ~Alive(c)
    <3>1. client'[c] \in Ended /\ Msgs(toClient'[c]) = {}
      BY <1>1, <1>3, <1>5, <2>2, ShortSeq DEF Alive
    <3>2. QED
      BY <3>1 DEF Ended, Relayed, MaySucceed
  <2>3. QED
    BY <2>1, <2>2
<1>11. \A c \in Conns \ ConnsOf(p) : /\ MaySucceed(c)' => MaySucceed(c)
                                     /\ Relayed(c)' => Relayed(c)
  BY <1>5, <1>6 DEF MaySucceed, Relayed
<1>12. ToldOK'
  <2>1. \/ \A c \in ConnsOf(p) : ~Relayed(c)'
        \/ \A c \in ConnsOf(p) : ~MaySucceed(c)'
    BY <1>10
  <2>2. QED
    BY <1>8, <1>11, <2>1, ToldKept
<1>13. Moves(p, q) /\ q.stage = s /\ q.results = <<>>
  BY <1>1, AtStageMoves, AtStageIs DEF q
<1>14. \A c \in ConnsOf(p) : StageOK(q, c)'
  <2> SUFFICES ASSUME NEW c \in ConnsOf(p) PROVE StageOK(q, c)'
    OBVIOUS
  <2>1. Due(c, t)'
    <3>1. Alive(c) => /\ Talking(c)' /\ Asked(toClient'[c], t)
                      /\ toServer'[c] = <<>>
      BY <1>4
    <3>2. QED
      BY <1>1, <1>5, <3>1 DEF Due
  <2>2. c \notin DOMAIN q.results
    BY <1>13
  <2>3. s \in {"binding", "attempting"} => t = Question(q)
    BY <1>13 DEF Question, t
  <2>4. s \notin {"joining", "joined"}
    OBVIOUS
  <2>5. QED
    BY <1>13, <2>1, <2>2, <2>3, <2>4 DEF StageOK
<1>15. PICK Q : Q = {q}
  OBVIOUS
<1>16. pairs' = (pairs \ {p}) \cup Q /\ UNCHANGED <<accepting, waiting>>
  BY <1>15 DEF Becomes, q
<1>17. \A c \in ConnsOf(p) : \A d \in Conns : Told(c, d)' \/ Told(d, c)' =>
         q.stage # "joining" /\ PeerIn(p, c) = d
  BY <1>1, <1>8, <1>13 DEF StreamsInv, PairsOK
<1>18. /\ \A x \in Q : Moves(p, x)
       /\ \A x \in Q : \A c \in ConnsOf(p) :
            /\ StageOK(x, c)'
            /\ \A d \in Conns : Told(c, d)' \/ Told(d, c)' =>
                 x.stage # "joining" /\ PeerIn(p, c) = d
  BY <1>13, <1>14, <1>15, <1>17
<1>19. \A c, d \in Conns : Told(c, d)' =>
         Told(c, d) \/ (c \in ConnsOf(p) /\ d \in ConnsOf(p))
  BY <1>8
<1>20. QED
  BY <1>3, <1>9, <1>12, <1>16, <1>18, <1>19, PairMoves

\* The clients of a new pair, of which nothing was asked and who were told of
\* nobody, are told of each other.
LEMMA PeerJoinedKeeps ==
  ASSUME StreamsInv, PoolsInv', NEW p \in pairs, SendPeerJoined(p),
         UNCHANGED clientVars
  PROVE  StreamsInv'
<1>0. PICK m1, m2 : /\ m1 = [type |-> "PeerJoined", peer |-> p.con2]
                    /\ m2 = [type |-> "PeerJoined", peer |-> p.con1]
  OBVIOUS
<1>1. /\ IsPair(p) /\ p.con1 \in Conns /\ p.con2 \in Conns /\ p.con1 # p.con2
      /\ accepting[p.con1] = "done" /\ accepting[p.con2] = "done"
      /\ ConnsOf(p) = {p.con1, p.con2}
  BY ServerAssumption DEF StreamsInv, PoolsInv, PairOK, ConnsOf
<1>2. \A c \in ConnsOf(p) :
        Quiet(c) /\ ~Waits(c) /\ \A d \in Conns : ~Told(c, d) /\ ~Told(d, c)
  BY <1>1 DEF SendPeerJoined, StreamsInv, PairsOK, StageOK, PoolsInv,
              PairsAreSessions, Paired
<1>3. Touches(ConnsOf(p)) /\ Get(p, m1, m2)
  <2>1. /\ toClient' = SendingBoth(p.con1, m1, p.con2, m2)
        /\ toServer' = toServer
    BY <1>0 DEF SendPeerJoined
  <2>2. /\ DOMAIN toServer' = Conns /\ \A c \in Conns : Heeds(c)
        /\ \A c \in Conns \ ConnsOf(p) : toServer'[c] = toServer[c]
        /\ \A c \in ConnsOf(p) : Alive(c) => toServer'[c] = <<>>
    BY <1>2, <2>1 DEF Heeds, Quiet, StreamsInv, ChansOK
  <2>3. QED
    BY <1>1, <2>1, <2>2, BothGet DEF StreamsInv
<1>4. /\ \A c \in Conns : /\ Alive(c)' = Alive(c) /\ client'[c] = client[c]
                          /\ peer'[c] = peer[c]
      /\ \A c \in Conns \ ConnsOf(p) : toClient'[c] = toClient[c]
      /\ \A c \in ConnsOf(p) : ~Alive(c) => toClient'[c] = <<>>
      /\ toServer' = toServer /\ UNCHANGED <<accepting, waiting>>
  BY <1>3 DEF Touches, Get, clientVars, Alive, SendPeerJoined
<1>5. ASSUME NEW c \in ConnsOf(p), Alive(c)
      PROVE  /\ NoAsks(toClient'[c]) /\ Talking(c)
             /\ \A x \in Msgs(toClient'[c]) : x.type = "PeerJoined" =>
                  x \in Msgs(toClient[c]) \/ x.peer = PeerIn(p, c)
  <2>1. PICK m : /\ m.type = "PeerJoined" /\ m.peer = PeerIn(p, c)
                 /\ toClient'[c] = toClient[c] \o <<m>>
    BY <1>0, <1>1, <1>3, <1>5 DEF Get, PeerIn
  <2>2. IsSeq(toClient[c]) /\ NoAsks(toClient[c]) /\ Talking(c)
    BY <1>1, <1>2, <1>5 DEF StreamsInv, ChansOK, Quiet
  <2>3. \A x \in Msgs(toClient'[c]) :
          x = m \/ (x \in Msgs(toClient[c]) /\ x.type \notin Asks)
    BY <2>1, <2>2, AskedNext
  <2>4. QED
    BY <2>1, <2>2, <2>3 DEF NoAsks, Asks
<1>6. \A c \in Conns : \A x \in Msgs(toClient'[c]) : x.type = "PeerJoined" =>
        x \in Msgs(toClient[c]) \/ (c \in ConnsOf(p) /\ x.peer = PeerIn(p, c))
  BY <1>4, <1>5, ShortSeq
<1>7. \A c, d \in Conns : Told(c, d)' =>
        Told(c, d) \/ (c \in ConnsOf(p) /\ d = PeerIn(p, c))
  BY <1>4, <1>6 DEF Told
<1>8. \A c \in ConnsOf(p) : /\ PeerIn(p, c) \in ConnsOf(p)
                            /\ PeerIn(p, PeerIn(p, c)) = c
  BY <1>1 DEF PeerIn
<1>9. PeersOK'
  BY <1>1, <1>4, <1>6, <1>8 DEF StreamsInv, PeersOK
<1>10. \A c \in ConnsOf(p) : ~MaySucceed(c)' /\ ~Relayed(c)'
  <2> SUFFICES ASSUME NEW c \in ConnsOf(p) PROVE ~MaySucceed(c)' /\ ~Relayed(c)'
    OBVIOUS
  <2>1. CASE Alive(c)
    BY <1>1, <1>4, <1>5, <2>1 DEF Talking, NoAsks, Asks, MaySucceed, Relayed
  <2>2. CASE ~Alive(c)
    <3>1. client'[c] \in Ended /\ Msgs(toClient'[c]) = {}
      BY <1>1, <1>4, <2>2, ShortSeq DEF Alive
    <3>2. QED
      BY <3>1 DEF Ended, Relayed, MaySucceed
  <2>3. QED
    BY <2>1, <2>2
<1>11. ToldOK'
  <2> SUFFICES ASSUME NEW c \in Conns, NEW d \in Conns, Told(c, d)'
               PROVE  /\ accepting'[c] = "done" /\ accepting'[d] = "done"
                      /\ ~Waits(c)' /\ ~Waits(d)'
                      /\ \A e \in Conns :
                           (Told(c, e)' => e = d) /\ (Told(d, e)' => e = c)
                           /\ (Told(e, d)' => e = c)
                      /\ ~(MaySucceed(c)' /\ Relayed(d)')
                      /\ ~(MaySucceed(d)' /\ Relayed(c)')
    BY DEF ToldOK
  <2>1. CASE c \in ConnsOf(p) /\ d = PeerIn(p, c)
    <3>1. d \in ConnsOf(p) /\ PeerIn(p, d) = c
      BY <1>8, <2>1
    <3>2. \A e \in Conns : (Told(c, e)' => e = d) /\ (Told(d, e)' => e = c)
                           /\ (Told(e, d)' => e = c)
      BY <1>2, <1>7, <1>8, <2>1, <3>1
    <3>3. QED
      BY <1>1, <1>2, <1>4, <1>10, <2>1, <3>1, <3>2 DEF Waits
  <2>2. CASE Told(c, d)
    <3>1. c \notin ConnsOf(p) /\ d \notin ConnsOf(p)
      BY <1>2, <2>2
    <3>2. \A e \in Conns : /\ Told(c, e)' => Told(c, e)
                           /\ Told(d, e)' => Told(d, e)
                           /\ Told(e, d)' => Told(e, d)
      BY <1>7, <1>8, <3>1
    <3>3. /\ MaySucceed(c)' => MaySucceed(c)
          /\ MaySucceed(d)' => MaySucceed(d)
          /\ Relayed(c)' => Relayed(c)
          /\ Relayed(d)' => Relayed(d)
      BY <1>4, <3>1 DEF MaySucceed, Relayed
    <3>4. QED
      BY <1>4, <2>2, <3>2, <3>3 DEF StreamsInv, ToldOK, Waits
  <2>3. QED
    BY <1>7, <2>1, <2>2
<1>12. PICK q, Q : q = AtStage(p, "joined") /\ Q = {q}
  OBVIOUS
<1>13. Moves(p, q) /\ q.stage = "joined"
  BY <1>1, <1>12, AtStageMoves, AtStageIs
<1>14. \A c \in ConnsOf(p) : StageOK(q, c)'
  BY <1>1, <1>2, <1>4, <1>5, <1>13 DEF StageOK, Quiet, Talking
<1>15. pairs' = (pairs \ {p}) \cup Q
  BY <1>12 DEF SendPeerJoined, Becomes
<1>16. /\ \A x \in Q : Moves(p, x)
       /\ \A x \in Q : \A c \in ConnsOf(p) :
            /\ StageOK(x, c)'
            /\ \A d \in Conns : Told(c, d)' \/ Told(d, c)' =>
                 x.stage # "joining" /\ PeerIn(p, c) = d
  BY <1>2, <1>7, <1>8, <1>1, <1>12, <1>13, <1>14
<1>17. \A c, d \in Conns : Told(c, d)' =>
         Told(c, d) \/ (c \in ConnsOf(p) /\ d \in ConnsOf(p))
  BY <1>7, <1>8
<1>18. UNCHANGED <<accepting, waiting>>
  BY <1>4
<1>19. QED
  BY <1>3, <1>9, <1>11, <1>15, <1>16, <1>17, <1>18, PairMoves

-----------------------------------------------------------------------------
(* The answers of a pair's clients.                                        *)

\* A client whose answer is there has said nothing else, and has nothing to do.
LEMMA AnswerRead ==
  ASSUME StreamsInv, NEW p \in pairs, NEW c \in ConnsOf(p),
         p.stage \in {"binding", "attempting"}, c \notin DOMAIN p.results,
         Unread(toServer, c), Alive(c)
  PROVE  /\ NoAsks(toClient[c]) /\ Tail(toServer[c]) = <<>>
         /\ Says(c, Head(toServer[c]))
<1>1. Answered(c)
  BY DEF StreamsInv, PairsOK, StageOK, Due, Unread
<1>2. PICK r : /\ toServer[c] = <<r>> /\ NoAsks(toClient[c]) /\ Says(c, r)
  BY <1>1 DEF Answered
<1>3. Head(toServer[c]) = r /\ Tail(toServer[c]) = <<>>
  BY <1>2
<1>4. QED
  BY <1>2, <1>3

\* When both answers are there and neither is a success, the server may ask
\* for the next thing or relay.
LEMMA AfterBoth ==
  ASSUME StreamsInv, PoolsInv', NEW p \in pairs,
         p.stage \in {"binding", "attempting"},
         UNCHANGED <<accepting, waiting>>, UNCHANGED clientVars,
         DOMAIN toServer' = Conns, \A c \in Conns : Heeds(c),
         \A c \in Conns \ ConnsOf(p) : toServer'[c] = toServer[c],
         NEW r,
         \A c \in ConnsOf(p) : Alive(c) =>
           NoAsks(toClient[c]) /\ toServer'[c] = <<>> /\ Says(c, r[c]),
         \/ BoundResults(p, r[p.con1], r[p.con2])
         \/ p.stage = "attempting" /\ AttemptResults(p, r[p.con1], r[p.con2])
  PROVE  StreamsInv'
<1> DEFINE r1 == r[p.con1]
           r2 == r[p.con2]
<1>1. ConnsOf(p) = {p.con1, p.con2} /\ p.stage # "joining" /\ IsPair(p)
  BY DEF ConnsOf, StreamsInv, PoolsInv, PairOK
<1>2. ASSUME r1.type # "DirectConnectSucceeded", r2.type # "DirectConnectSucceeded"
      PROVE  \A c \in ConnsOf(p) : Alive(c) =>
               Talking(c) /\ NoAsks(toClient[c]) /\ toServer'[c] = <<>>
  BY <1>1, <1>2 DEF Says
<1>3. ASSUME StartRelay(p), r1.type # "DirectConnectSucceeded",
             r2.type # "DirectConnectSucceeded"
      PROVE  StreamsInv'
  <2>1. PICK m1, m2, s : /\ m1 = Message("StartRelayMode") /\ m2 = m1
                         /\ s = "relaying"
    OBVIOUS
  <2>2. /\ toClient' = SendingBoth(p.con1, m1, p.con2, m2)
        /\ Becomes(p, AtStage(p, s))
        /\ m1.type = m2.type /\ m1.type = "StartRelayMode"
    BY <1>3, <2>1 DEF StartRelay, Message
  <2>3. QED
    BY <1>1, <1>2, <1>3, <2>1, <2>2, AskingKeeps
<1>4. ASSUME PairEnds(p, {}) PROVE StreamsInv'
  BY <1>4, PairEndsKeeps
<1>5. CASE BoundResults(p, r1, r2)
  <2>1. CASE /\ r1.type = "DirectConnectBound" /\ r2.type = "DirectConnectBound"
             /\ toClient' = SendingBoth(
                  p.con1, [type |-> "AttemptDirectConnect", ports |-> r2.ports],
                  p.con2, [type |-> "AttemptDirectConnect", ports |-> r1.ports])
             /\ Becomes(p, AtStage(p, "attempting"))
    <3>1. PICK m1, m2, s :
            /\ m1 = [type |-> "AttemptDirectConnect", ports |-> r2.ports]
            /\ m2 = [type |-> "AttemptDirectConnect", ports |-> r1.ports]
            /\ s = "attempting"
      OBVIOUS
    <3>2. /\ toClient' = SendingBoth(p.con1, m1, p.con2, m2)
          /\ Becomes(p, AtStage(p, s))
          /\ m1.type = m2.type /\ m1.type = "AttemptDirectConnect"
      BY <2>1, <3>1
    <3>3. \A c \in ConnsOf(p) : Alive(c) =>
            Talking(c) /\ NoAsks(toClient[c]) /\ toServer'[c] = <<>>
      BY <1>2, <2>1
    <3>4. QED
      BY <1>1, <3>1, <3>2, <3>3, AskingKeeps
  <2>2. CASE /\ StartRelay(p)
             /\ \A x \in {r1, r2} : x.type \in {"DirectConnectFailed",
                                                "DirectConnectBound"}
    BY <1>3, <2>2
  <2>3. CASE PairEnds(p, {})
    BY <1>4, <2>3
  <2>4. QED
    BY <1>5, <2>1, <2>2, <2>3 DEF BoundResults
<1>6. CASE p.stage = "attempting" /\ AttemptResults(p, r1, r2)
  <2>1. CASE Becomes(p, AtStage(p, "direct")) /\ UNCHANGED toClient
    <3>1. Touches(ConnsOf(p)) /\ \A c \in Conns : Calm(c)
      BY <2>1 DEF Touches, Gets, Calm, StreamsInv, ChansOK
    <3>2. PICK q, Q : q = AtStage(p, "direct") /\ Q = {q}
      OBVIOUS
    <3>3. /\ \A x \in Q : Moves(p, x) /\ (x.stage = "joining" => p.stage = "joining")
          /\ \A x \in Q : \A c \in ConnsOf(p) : StageOK(x, c)'
      BY <1>1, <3>2, AtStageMoves, AtStageIs DEF StageOK
    <3>4. pairs' = (pairs \ {p}) \cup Q
      BY <2>1, <3>2 DEF Becomes
    <3>5. QED
      BY <3>1, <3>3, <3>4, CalmPairMoves
  <2>2. CASE /\ StartRelay(p) /\ r1.type = "DirectConnectFailed"
             /\ r2.type = r1.type
    BY <1>3, <2>2
  <2>3. CASE PairEnds(p, {})
    BY <1>4, <2>3
  <2>4. QED
    BY <1>6, <2>1, <2>2, <2>3 DEF AttemptResults
<1>7. QED
  BY <1>5, <1>6

\* The first answer is noted.
LEMMA FirstResultKeeps ==
  ASSUME StreamsInv, PoolsInv', NEW p \in pairs, NEW c \in ConnsOf(p),
         p.stage \in {"binding", "attempting"}, c \notin DOMAIN p.results,
         Unread(toServer, c), NEW m, m = Head(toServer[c]), m # Eof,
         toServer' = [toServer EXCEPT ![c] = Tail(toServer[c])],
         UNCHANGED toClient, UNCHANGED <<accepting, waiting>>,
         UNCHANGED clientVars,
         Becomes(p, [p EXCEPT !.results = Insert(p.results, c, m)])
  PROVE  StreamsInv'
<1>1. /\ IsPair(p) /\ ConnsOf(p) \subseteq Conns
  BY DEF ConnsOf, StreamsInv, PoolsInv, PairOK
<1>2. /\ DOMAIN toServer' = Conns /\ \A d \in Conns : Heeds(d)
      /\ toServer'[c] = Tail(toServer[c])
      /\ \A d \in Conns \ {c} : toServer'[d] = toServer[d]
  BY <1>1 DEF StreamsInv, ChansOK, Heeds, Unread
<1>3. Touches(ConnsOf(p)) /\ \A d \in Conns : Calm(d)
  BY <1>2 DEF Touches, Gets, Calm, StreamsInv, ChansOK
<1>4. PICK q, Q : /\ q = [p EXCEPT !.results = Insert(p.results, c, m)]
                  /\ Q = {q}
  OBVIOUS
<1>5. Moves(p, q)
  BY <1>1, <1>4, ResultsMoves
<1>6. q.stage = p.stage /\ q.results = Insert(p.results, c, m)
  <2>1. q = [con1 |-> p.con1, con2 |-> p.con2, stage |-> p.stage,
             results |-> Insert(p.results, c, m)]
    BY <1>1, <1>4 DEF IsPair
  <2>2. QED
    BY <2>1
<1>7. /\ DOMAIN q.results = DOMAIN p.results \cup {c} /\ q.results[c] = m
      /\ \A d \in DOMAIN p.results \ {c} : q.results[d] = p.results[d]
  BY <1>6 DEF Insert
<1>8. ASSUME NEW d \in ConnsOf(p) PROVE StageOK(q, d)'
  <2>1. CASE d = c
    <3>1. Alive(c) => /\ NoAsks(toClient[c]) /\ toServer'[c] = <<>>
                      /\ Says(c, m)
      BY <1>2, AnswerRead
    <3>2. Noted(c, m)'
      BY <3>1 DEF Noted, Alive, Says, Talking, clientVars
    <3>3. QED
      BY <1>6, <1>7, <2>1, <3>2 DEF StageOK
  <2>2. CASE d # c
    <3>1. /\ StageOK(p, d) /\ client'[d] = client[d]
          /\ toServer'[d] = toServer[d] /\ toClient'[d] = toClient[d]
      BY <1>1, <1>2, <2>2 DEF StreamsInv, PairsOK, clientVars
    <3>2. StageOK(p, d)'
      BY <3>1, Untouched, StageKept
    <3>3. Question(q) = Question(p)
      BY <1>6 DEF Question
    <3>4. QED
      BY <1>6, <1>7, <2>2, <3>2, <3>3 DEF StageOK
  <2>3. QED
    BY <2>1, <2>2
<1>9. pairs' = (pairs \ {p}) \cup Q
  BY <1>4 DEF Becomes
<1>10. /\ \A x \in Q : Moves(p, x) /\ (x.stage = "joining" => p.stage = "joining")
       /\ \A x \in Q : \A d \in ConnsOf(p) : StageOK(x, d)'
  BY <1>4, <1>5, <1>6, <1>8
<1>11. QED
  BY <1>3, <1>9, <1>10, CalmPairMoves

\* The server reads an answer of one client of a pair.
LEMMA ResultKeeps ==
  ASSUME StreamsInv, PoolsInv', NEW p \in pairs, NEW c \in ConnsOf(p),
         ReceiveResult(p, c), UNCHANGED clientVars
  PROVE  StreamsInv'
<1> DEFINE h == Head(toServer[c])
<1>1. PICK m, r : m = h /\ r = Insert(p.results, c, m)
  OBVIOUS
<1>2. /\ p.stage \in {"binding", "attempting"} /\ c \notin DOMAIN p.results
      /\ Unread(toServer, c)
      /\ toServer' = [toServer EXCEPT ![c] = IF m = Eof THEN toServer[c]
                                             ELSE Tail(toServer[c])]
      /\ UNCHANGED <<accepting, waiting>>
  BY <1>1 DEF ReceiveResult
<1>3. \/ m = Eof /\ PairEnds(p, {})
      \/ /\ m # Eof /\ PeerIn(p, c) \notin DOMAIN r
         /\ Becomes(p, [p EXCEPT !.results = r]) /\ UNCHANGED toClient
      \/ /\ m # Eof /\ PeerIn(p, c) \in DOMAIN r
         /\ p.stage = "binding" => BoundResults(p, r[p.con1], r[p.con2])
         /\ p.stage = "attempting" => AttemptResults(p, r[p.con1], r[p.con2])
  BY <1>1, <1>2 DEF ReceiveResult
<1>4. /\ IsPair(p) /\ ConnsOf(p) \subseteq Conns /\ ConnsOf(p) = {p.con1, p.con2}
  BY DEF ConnsOf, StreamsInv, PoolsInv, PairOK
<1>5. /\ DOMAIN toServer' = Conns /\ \A d \in Conns : Heeds(d)
      /\ \A d \in Conns \ ConnsOf(p) : toServer'[d] = toServer[d]
      /\ \A d \in Conns \ {c} : toServer'[d] = toServer[d]
  BY <1>1, <1>2, <1>4, Reading DEF StreamsInv
<1>6. CASE m = Eof /\ PairEnds(p, {})
  BY <1>2, <1>5, <1>6, PairEndsKeeps
<1>7. CASE /\ m # Eof /\ PeerIn(p, c) \notin DOMAIN r
           /\ Becomes(p, [p EXCEPT !.results = r]) /\ UNCHANGED toClient
  <2>1. toServer' = [toServer EXCEPT ![c] = Tail(toServer[c])]
    BY <1>2, <1>7
  <2>2. Becomes(p, [p EXCEPT !.results = Insert(p.results, c, m)])
    BY <1>1, <1>7
  <2>3. QED
    BY <1>1, <1>2, <1>7, <2>1, <2>2, FirstResultKeeps
<1>8. CASE /\ m # Eof /\ PeerIn(p, c) \in DOMAIN r
           /\ p.stage = "binding" => BoundResults(p, r[p.con1], r[p.con2])
           /\ p.stage = "attempting" => AttemptResults(p, r[p.con1], r[p.con2])
  <2>1. /\ r[c] = m /\ DOMAIN r = DOMAIN p.results \cup {c}
        /\ \A d \in DOMAIN p.results : r[d] = p.results[d]
    BY <1>1, <1>2 DEF Insert
  <2>2. ASSUME NEW d \in ConnsOf(p), Alive(d)
        PROVE  NoAsks(toClient[d]) /\ toServer'[d] = <<>> /\ Says(d, r[d])
    <3>1. CASE d = c
      <4>1. /\ NoAsks(toClient[c]) /\ Tail(toServer[c]) = <<>> /\ Says(c, m)
        BY <1>1, <1>2, <2>2, <3>1, AnswerRead
      <4>2. toServer'[c] = Tail(toServer[c])
        BY <1>2, <1>4, <1>8 DEF StreamsInv, ChansOK
      <4>3. QED
        BY <2>1, <3>1, <4>1, <4>2
    <3>2. CASE d # c
      <4>1. d \in DOMAIN p.results
        BY <1>4, <1>8, <2>1, <3>2 DEF PeerIn
      <4>2. Noted(d, p.results[d])
        BY <1>2, <4>1 DEF StreamsInv, PairsOK, StageOK
      <4>3. QED
        BY <1>4, <1>5, <2>1, <2>2, <3>2, <4>1, <4>2 DEF Noted
    <3>3. QED
      BY <3>1, <3>2
  <2>3. \/ BoundResults(p, r[p.con1], r[p.con2])
        \/ p.stage = "attempting" /\ AttemptResults(p, r[p.con1], r[p.con2])
    BY <1>2, <1>8
  <2>4. QED
    BY <1>2, <1>5, <2>2, <2>3, AfterBoth
<1>9. QED
  BY <1>3, <1>6, <1>7, <1>8

\* Both clients are asked to bind.
LEMMA SendBindKeeps ==
  ASSUME StreamsInv, PoolsInv', NEW p \in pairs, SendBind(p), UNCHANGED clientVars
  PROVE  StreamsInv'
<1>1. PICK m1, m2, s : /\ m1 = Message("BindForDirectConnect") /\ m2 = m1
                       /\ s = "binding"
  OBVIOUS
<1>2. /\ toClient' = SendingBoth(p.con1, m1, p.con2, m2)
      /\ Becomes(p, AtStage(p, s)) /\ p.stage # "joining"
      /\ m1.type = m2.type /\ m1.type = "BindForDirectConnect"
      /\ UNCHANGED <<accepting, waiting>>
  BY <1>1 DEF SendBind, Message
<1>3. /\ DOMAIN toServer' = Conns /\ \A c \in Conns : Heeds(c)
      /\ \A c \in Conns \ ConnsOf(p) : toServer'[c] = toServer[c]
      /\ \A c \in ConnsOf(p) : Alive(c) =>
           Talking(c) /\ NoAsks(toClient[c]) /\ toServer'[c] = <<>>
  BY DEF SendBind, Heeds, Quiet, StreamsInv, ChansOK, PairsOK, StageOK
<1>4. QED
  BY <1>1, <1>2, <1>3, AskingKeeps

\* The task of a pair that streams passes messages on or ends.
LEMMA StreamingKeeps ==
  ASSUME StreamsInv, PoolsInv', NEW p \in pairs, NEW c \in ConnsOf(p),
         DirectEnds(p, c) \/ Relay(p, c), UNCHANGED clientVars
  PROVE  StreamsInv'
<1> DEFINE h == Head(toServer[c])
<1>1. /\ IsPair(p) /\ ConnsOf(p) \subseteq Conns /\ PeerIn(p, c) \in ConnsOf(p)
  BY DEF ConnsOf, PeerIn, StreamsInv, PoolsInv, PairOK
<1>2. /\ DOMAIN toServer' = Conns /\ \A d \in Conns : Heeds(d)
      /\ \A d \in Conns \ ConnsOf(p) : toServer'[d] = toServer[d]
      /\ UNCHANGED <<accepting, waiting>>
  BY <1>1, Reading DEF DirectEnds, Relay, StreamsInv
<1>3. ASSUME NEW S, PairEnds(p, S) PROVE StreamsInv'
  BY <1>2, <1>3, PairEndsKeeps
<1>4. CASE DirectEnds(p, c)
  BY <1>3, <1>4 DEF DirectEnds
<1>5. CASE Relay(p, c) /\ PairEnds(p, SaidClose(c, h))
  BY <1>3, <1>5
<1>6. CASE /\ Relay(p, c) /\ h.type = "Relay"
           /\ toClient' = SendingTo(PeerIn(p, c), <<h>>) /\ UNCHANGED pairs
  <2>1. Harmless(<<h>>)
    BY <1>6, HarmlessWords DEF Asks
  <2>2. Touches(ConnsOf(p)) /\ \A d \in Conns : Calm(d)
    BY <1>1, <1>2, <1>6, <2>1, CalmSendingTo DEF Touches, StreamsInv
  <2>3. PICK Q : Q = {p}
    OBVIOUS
  <2>4. pairs' = (pairs \ {p}) \cup Q
    BY <1>6, <2>3
  <2>5. /\ \A x \in Q : Moves(p, x) /\ (x.stage = "joining" => p.stage = "joining")
        /\ \A x \in Q : \A d \in ConnsOf(p) : StageOK(x, d)'
    BY <1>1, <1>6, <2>3 DEF Moves, Relay, StageOK
  <2>6. QED
    BY <1>2, <2>2, <2>4, <2>5, CalmPairMoves
<1>7. QED
  BY <1>4, <1>5, <1>6 DEF Relay

\* Every step of a pair's task.
LEMMA PairTaskKeeps ==
  ASSUME StreamsInv, PoolsInv', NEW p \in pairs, PairTask(p) \/ PairExpires(p),
         UNCHANGED clientVars
  PROVE  StreamsInv'
<1>1. CASE WriteFails(p) \/ PairExpires(p)
  <2>1. /\ PairEnds(p, {}) /\ UNCHANGED <<accepting, waiting>> /\ toServer' = toServer
    BY <1>1 DEF WriteFails, PairExpires
  <2>2. QED
    BY <2>1, PairEndsKeeps DEF Heeds, StreamsInv, ChansOK
<1>2. QED
  BY <1>1, PeerJoinedKeeps, SendBindKeeps, ResultKeeps, StreamingKeeps
     DEF PairTask

-----------------------------------------------------------------------------

\* The invariant holds before anybody has connected.
LEMMA InitStreams == Init => StreamsInv
<1> SUFFICES ASSUME Init PROVE StreamsInv
  OBVIOUS
<1>1. /\ \A c \in Conns : /\ toServer[c] = <<>> /\ toClient[c] = <<>>
                          /\ client[c] = "idle" /\ peer[c] = Nobody
                          /\ accepting[c] = "none" /\ ~Waits(c)
      /\ DOMAIN toServer = Conns /\ DOMAIN toClient = Conns
      /\ DOMAIN peer = Conns /\ pairs = {}
  BY DEF Init, ServerInit, Waits
<1>2. IsSeq(<<>>) /\ Msgs(<<>>) = {}
  BY ShortSeq
<1>3. ChansOK /\ EndedOK /\ NewOK
  BY <1>1, <1>2 DEF ChansOK, EndedOK, NewOK, Fresh, Alive, Ended
<1>4. PairsOK /\ PeersOK
  BY <1>1, <1>2 DEF PairsOK, PeersOK
<1>5. \A c, d \in Conns : ~Told(c, d)
  BY <1>1, <1>2, NobodyAssumption DEF Told
<1>6. QED
  BY <1>3, <1>4, <1>5, InitPools DEF StreamsInv, ToldOK

\* A step of another part of the system.
LEMMA StutterKeeps ==
  ASSUME StreamsInv, UNCHANGED vars PROVE StreamsInv'
<1>1. UNCHANGED <<client, peer, toServer, toClient, accepting, waiting, pairs>>
  BY DEF vars, channels, serverVars, clientVars
<1>2. PoolsInv'
  BY <1>1, AcceptingPools DEF StreamsInv, PoolsInv, Handled
<1>3. ChansOK' /\ EndedOK'
  BY <1>1, Untouched DEF StreamsInv, ChansOK, EndedOK
<1>4. NewOK'
  BY <1>1, Untouched DEF StreamsInv, NewOK, Waits
<1>5. PeersOK'
  BY <1>1 DEF StreamsInv, PeersOK
<1>6. NoNews
  BY <1>1 DEF NoNews, MaySucceed, Relayed, Told
<1>7. PairsOK'
  <2>1. \A p \in pairs : IsPair(p) /\ ConnsOf(p) \subseteq Conns
    BY DEF StreamsInv, PoolsInv, PairOK, ConnsOf
  <2>2. \A p \in pairs : \A c \in ConnsOf(p) : StageOK(p, c) => StageOK(p, c)'
    BY <1>1, Untouched, StageKept
  <2>3. QED
    BY <1>1, <1>6, <2>1, <2>2, NoNewsPairs DEF StreamsInv
<1>8. ToldOK'
  BY <1>1, <1>6, NoNewsTold DEF StreamsInv, Waits
<1>9. QED
  BY <1>2, <1>3, <1>4, <1>5, <1>7, <1>8 DEF StreamsInv

\* Who was told of whom, and what each was asked for and has answered, holds
\* together at every stage of every pair.
THEOREM StreamsAreSound == Spec => []StreamsInv
<1>1. StreamsInv /\ [Next]_vars => StreamsInv'
  <2> SUFFICES ASSUME StreamsInv, [Next]_vars PROVE StreamsInv'
    OBVIOUS
  <2>1. CASE UNCHANGED vars
    BY <2>1, StutterKeeps
  <2>2. CASE \E c \in Conns : Client(c)
    <3>1. PICK c \in Conns : Client(c)
      BY <2>2
    <3>2. PoolsInv'
      BY <3>1, ClientPools DEF StreamsInv
    <3>3. Connect(c) \/ Continues(c)
      BY <3>1, ClientContinues DEF StreamsInv, PoolsInv, Handled
    <3>4. QED
      BY <3>1, <3>2, <3>3, ConnectKeeps, ContinuesKeeps
  <2>3. CASE Server /\ UNCHANGED clientVars
    <3>1. PoolsInv'
      BY <2>3, ServerPools DEF StreamsInv
    <3>2. QED
      BY <2>3, <3>1, KeyTaskKeeps, LoopKeeps, PairTaskKeeps DEF Server, Timers
  <2>4. QED
    BY <2>1, <2>2, <2>3 DEF Next
<1>2. QED
  BY <1>1, InitStreams, PTL DEF Spec

\* Two clients that were joined never use different streams, whatever the
\* answers of the two and the order they came in.
THEOREM JoinedUseOneStream == Spec => []StreamsAgree
<1>1. StreamsInv => StreamsAgree
  <2> SUFFICES ASSUME StreamsInv, NEW c \in Conns, client[c] = "direct"
               PROVE  /\ peer[c] # Nobody /\ peer[peer[c]] \in {c, Nobody}
                      /\ client[peer[c]] # "relayed"
    BY DEF StreamsAgree
  <2>1. PICK d : d = peer[c]
    OBVIOUS
  <2>2. d \in Conns /\ d # Nobody /\ Told(c, d)
    BY <2>1 DEF StreamsInv, PeersOK, Told
  <2>3. \A e \in Conns : Told(d, e) => e = c
    BY <2>2 DEF StreamsInv, ToldOK
  <2>4. peer[d] \in {c, Nobody}
    BY <2>2, <2>3 DEF StreamsInv, PeersOK, Told
  <2>5. ~Relayed(d)
    BY <2>2 DEF StreamsInv, ToldOK, MaySucceed
  <2>6. QED
    BY <2>1, <2>2, <2>4, <2>5 DEF Relayed
<1>2. QED
  BY <1>1, StreamsAreSound, PTL

-----------------------------------------------------------------------------
(* What is relayed.  The payloads of one client are a stretch of the       *)
(* messages of each channel that they pass, numbered one after the other.  *)

Payload(c, n) == [type |-> "Relay", from |-> c, n |-> n]

NoRelay(s) == \A m \in Msgs(s) : m.type # "Relay"

\* The payloads of c after its first n are what follows the first a messages of
\* s, up to the first b; no other payload is in s.
Stretch(s, c, n, a, b) ==
  /\ a \in Nat /\ b \in Nat /\ a <= b /\ b <= Len(s)
  /\ \A i \in 1 .. Len(s) : a < i /\ i <= b => s[i] = Payload(c, n + (i - a))
  /\ \A i \in 1 .. Len(s) : i <= a \/ b < i => s[i].type # "Relay"

\* A channel without payloads has the empty stretch of any client.
LEMMA EmptyStretch ==
  ASSUME NEW s, IsSeq(s), NoRelay(s), NEW c, NEW n
  PROVE  Len(s) \in Nat /\ Stretch(s, c, n, Len(s), Len(s))
<1>1. Len(s) \in Nat
  BY DEF IsSeq
<1>2. \A i \in 1 .. Len(s) : s[i].type # "Relay"
  BY DEF NoRelay, Msgs
<1>3. QED
  BY <1>1, <1>2 DEF Stretch

\* An empty stretch means a channel without payloads.
LEMMA NothingRelayed ==
  ASSUME NEW s, IsSeq(s), NEW c, NEW n, NEW a, NEW b, Stretch(s, c, n, a, b), a = b
  PROVE  NoRelay(s)
<1>1. Len(s) \in Nat
  BY DEF IsSeq
<1>2. \A i \in 1 .. Len(s) : s[i].type # "Relay"
  BY <1>1 DEF Stretch
<1>3. QED
  BY <1>2 DEF NoRelay, Msgs

\* The stretch of the channel that is s less its first message.
PassedBy(s, c, n, a, b) ==
  \E x, y \in Nat : /\ Stretch(Tail(s), c, n, x, y) /\ y - x = b - a
                    /\ b = Len(s) => y = Len(Tail(s))

\* Reading a message takes the first payload, or none.
LEMMA StretchTail ==
  ASSUME NEW s, IsSeq(s), s # <<>>, NEW c, NEW n \in Nat, NEW a, NEW b,
         Stretch(s, c, n, a, b)
  PROVE  /\ Head(s).type = "Relay" =>
              /\ a = 0 /\ b > 0 /\ Head(s) = Payload(c, n + 1)
              /\ Stretch(Tail(s), c, n + 1, 0, b - 1)
         /\ Head(s).type # "Relay" => PassedBy(s, c, n, a, b)
<1>1. /\ Len(s) \in Nat \ {0} /\ Len(Tail(s)) = Len(s) - 1 /\ Head(s) = s[1]
      /\ \A i \in 1 .. Len(s) - 1 : Tail(s)[i] = s[i + 1]
  BY TailSeq
<1>2. /\ a \in Nat /\ b \in Nat /\ a <= b /\ b <= Len(s)
      /\ \A i \in 1 .. Len(s) : a < i /\ i <= b => s[i] = Payload(c, n + (i - a))
      /\ \A i \in 1 .. Len(s) : i <= a \/ b < i => s[i].type # "Relay"
  BY DEF Stretch
<1>3. 1 \in 1 .. Len(s)
  BY <1>1
<1>4. ASSUME NEW i \in 1 .. Len(s) - 1
      PROVE  i + 1 \in 1 .. Len(s) /\ Tail(s)[i] = s[i + 1]
  BY <1>1
<1>5. ASSUME Head(s).type = "Relay"
      PROVE  /\ a = 0 /\ b > 0 /\ Head(s) = Payload(c, n + 1)
             /\ Stretch(Tail(s), c, n + 1, 0, b - 1)
  <2>1. a = 0 /\ b > 0
    <3>1. ~(1 <= a \/ b < 1)
      BY <1>1, <1>2, <1>3, <1>5
    <3>2. QED
      BY <1>2, <3>1
  <2>2. Head(s) = Payload(c, n + 1)
    <3>1. s[1] = Payload(c, n + (1 - a)) /\ n + (1 - a) = n + 1
      BY <1>2, <1>3, <2>1
    <3>2. QED
      BY <1>1, <3>1
  <2>3. \A i \in 1 .. Len(s) - 1 :
          0 < i /\ i <= b - 1 => Tail(s)[i] = Payload(c, n + 1 + (i - 0))
    <3> SUFFICES ASSUME NEW i \in 1 .. Len(s) - 1, i <= b - 1
                 PROVE  Tail(s)[i] = Payload(c, n + 1 + (i - 0))
      OBVIOUS
    <3>1. s[i + 1] = Payload(c, n + (i + 1 - a)) /\ n + (i + 1 - a) = n + 1 + (i - 0)
      BY <1>1, <1>2, <1>4, <2>1
    <3>2. QED
      BY <1>4, <3>1
  <2>4. \A i \in 1 .. Len(s) - 1 :
          i <= 0 \/ b - 1 < i => Tail(s)[i].type # "Relay"
    <3> SUFFICES ASSUME NEW i \in 1 .. Len(s) - 1, b - 1 < i
                 PROVE  Tail(s)[i].type # "Relay"
      OBVIOUS
    <3>1. b < i + 1
      BY <1>1, <1>2
    <3>2. QED
      BY <1>2, <1>4, <3>1
  <2>5. QED
    BY <1>1, <1>2, <2>1, <2>2, <2>3, <2>4 DEF Stretch
<1>6. ASSUME Head(s).type # "Relay"
      PROVE  PassedBy(s, c, n, a, b)
  <2>1. CASE a = 0
    <3>1. b = 0
      <4>1. b >= 1 => s[1] = Payload(c, n + (1 - a))
        BY <1>2, <1>3, <2>1
      <4>2. Payload(c, n + (1 - a)).type = "Relay"
        BY DEF Payload
      <4>3. QED
        BY <1>1, <1>2, <1>6, <4>1, <4>2
    <3>2. \A i \in 1 .. Len(s) - 1 : Tail(s)[i].type # "Relay"
      <4> SUFFICES ASSUME NEW i \in 1 .. Len(s) - 1 PROVE Tail(s)[i].type # "Relay"
        OBVIOUS
      <4>1. 0 < i + 1
        BY <1>1
      <4>2. QED
        BY <1>2, <1>4, <3>1, <4>1
    <3>3. Stretch(Tail(s), c, n, 0, 0)
      BY <1>1, <3>2 DEF Stretch
    <3>4. QED
      BY <1>1, <2>1, <3>1, <3>3 DEF PassedBy
  <2>2. CASE a > 0
    <3>1. \A i \in 1 .. Len(s) - 1 :
            a - 1 < i /\ i <= b - 1 => Tail(s)[i] = Payload(c, n + (i - (a - 1)))
      <4> SUFFICES ASSUME NEW i \in 1 .. Len(s) - 1, a - 1 < i, i <= b - 1
                   PROVE  Tail(s)[i] = Payload(c, n + (i - (a - 1)))
        OBVIOUS
      <4>1. /\ a < i + 1 /\ i + 1 <= b
            /\ n + (i + 1 - a) = n + (i - (a - 1))
        BY <1>1, <1>2
      <4>2. QED
        BY <1>2, <1>4, <4>1
    <3>2. \A i \in 1 .. Len(s) - 1 :
            i <= a - 1 \/ b - 1 < i => Tail(s)[i].type # "Relay"
      <4> SUFFICES ASSUME NEW i \in 1 .. Len(s) - 1, i <= a - 1 \/ b - 1 < i
                   PROVE  Tail(s)[i].type # "Relay"
        OBVIOUS
      <4>1. i + 1 <= a \/ b < i + 1
        BY <1>1, <1>2
      <4>2. QED
        BY <1>2, <1>4, <4>1
    <3>3. Stretch(Tail(s), c, n, a - 1, b - 1) /\ (b - 1) - (a - 1) = b - a
      BY <1>1, <1>2, <2>2, <3>1, <3>2 DEF Stretch
    <3>4. a - 1 \in Nat /\ b - 1 \in Nat
      BY <1>2, <2>2
    <3>5. QED
      BY <1>1, <3>3, <3>4 DEF PassedBy
  <2>3. QED
    BY <1>2, <2>1, <2>2
<1>7. QED
  BY <1>5, <1>6

\* Other messages behind a stretch leave it as it is.
LEMMA StretchMore ==
  ASSUME NEW s, IsSeq(s), NEW t, IsSeq(t), NoRelay(t), NEW c, NEW n, NEW a, NEW b,
         Stretch(s, c, n, a, b)
  PROVE  Stretch(s \o t, c, n, a, b)
<1> DEFINE u == s \o t
<1>1. /\ Len(s) \in Nat /\ Len(t) \in Nat /\ Len(u) = Len(s) + Len(t)
      /\ \A i \in 1 .. Len(s) : u[i] = s[i]
      /\ \A i \in 1 .. Len(t) : u[Len(s) + i] = t[i]
  BY ConcatSeq
<1> HIDE DEF u
<1>2. /\ a \in Nat /\ b \in Nat /\ a <= b /\ b <= Len(s)
      /\ \A i \in 1 .. Len(s) : a < i /\ i <= b => s[i] = Payload(c, n + (i - a))
      /\ \A i \in 1 .. Len(s) : i <= a \/ b < i => s[i].type # "Relay"
  BY DEF Stretch
<1>3. ASSUME NEW i \in 1 .. Len(u), i > Len(s) PROVE u[i].type # "Relay"
  <2>1. i - Len(s) \in 1 .. Len(t) /\ Len(s) + (i - Len(s)) = i
    BY <1>1, <1>3
  <2>2. u[i] = t[i - Len(s)]
    BY <1>1, <2>1
  <2>3. QED
    BY <2>1, <2>2 DEF NoRelay, Msgs
<1>4. \A i \in 1 .. Len(u) : a < i /\ i <= b => u[i] = Payload(c, n + (i - a))
  <2> SUFFICES ASSUME NEW i \in 1 .. Len(u), a < i, i <= b
               PROVE  u[i] = Payload(c, n + (i - a))
    OBVIOUS
  <2>1. i \in 1 .. Len(s)
    BY <1>1, <1>2
  <2>2. QED
    BY <1>1, <1>2, <2>1
<1>5. \A i \in 1 .. Len(u) : i <= a \/ b < i => u[i].type # "Relay"
  <2> SUFFICES ASSUME NEW i \in 1 .. Len(u), i <= a \/ b < i
               PROVE  u[i].type # "Relay"
    OBVIOUS
  <2>1. CASE i <= Len(s)
    <3>1. i \in 1 .. Len(s)
      BY <1>1, <2>1
    <3>2. QED
      BY <1>1, <1>2, <3>1
  <2>2. QED
    BY <1>1, <1>3, <2>1
<1>6. b <= Len(u)
  BY <1>1, <1>2
<1>7. QED
  BY <1>2, <1>4, <1>5, <1>6 DEF Stretch, u

\* The next payload at the end of a stretch that ends the channel.
LEMMA StretchNext ==
  ASSUME NEW s, IsSeq(s), NEW c, NEW n \in Nat, NEW a,
         Stretch(s, c, n, a, Len(s)),
         NEW m, m = Payload(c, n + (Len(s) - a) + 1)
  PROVE  Stretch(s \o <<m>>, c, n, a, Len(s) + 1) /\ Len(s \o <<m>>) = Len(s) + 1
<1>0. PICK w : w = <<m>> /\ IsSeq(w) /\ Len(w) = 1 /\ w[1] = m
  BY ShortSeq
<1> DEFINE u == s \o w
<1>1. /\ Len(s) \in Nat /\ Len(u) = Len(s) + 1
      /\ \A i \in 1 .. Len(s) : u[i] = s[i]
      /\ \A i \in 1 .. 1 : u[Len(s) + i] = w[i]
  BY <1>0, ConcatSeq
<1> HIDE DEF u
<1>2. u[Len(s) + 1] = m
  BY <1>0, <1>1
<1>3. /\ a \in Nat /\ a <= Len(s)
      /\ \A i \in 1 .. Len(s) : a < i => s[i] = Payload(c, n + (i - a))
      /\ \A i \in 1 .. Len(s) : i <= a => s[i].type # "Relay"
  BY <1>1 DEF Stretch
<1>4. \A i \in 1 .. Len(u) : a < i => u[i] = Payload(c, n + (i - a))
  <2> SUFFICES ASSUME NEW i \in 1 .. Len(u), a < i
               PROVE  u[i] = Payload(c, n + (i - a))
    OBVIOUS
  <2>1. CASE i \in 1 .. Len(s)
    BY <1>1, <1>3, <2>1
  <2>2. CASE i = Len(s) + 1
    <3>1. n + (i - a) = n + (Len(s) - a) + 1
      BY <1>1, <1>3, <2>2
    <3>2. QED
      BY <1>2, <2>2, <3>1
  <2>3. QED
    BY <1>1, <2>1, <2>2
<1>5. \A i \in 1 .. Len(u) : i <= a => u[i].type # "Relay"
  BY <1>1, <1>3
<1>6. Stretch(u, c, n, a, Len(s) + 1)
  BY <1>1, <1>3, <1>4, <1>5 DEF Stretch
<1>7. QED
  BY <1>0, <1>1, <1>6 DEF u

\* c has written what is in its channel to the server and j payloads before.
Upload(c, j) ==
  /\ \E a, b \in Nat : /\ Stretch(toServer[c], c, j, a, b) /\ sent[c] = j + (b - a)
                       /\ Alive(c) => b = Len(toServer[c])
  /\ Alive(c) => \A m \in Msgs(toServer[c]) : m.type # "Eof"

InRelay(c) == \E p \in pairs : c \in ConnsOf(p) /\ p.stage = "relaying"

\* Of the j payloads of c that the server has read, d has read the first ones
\* and the next are on their way to it: all others while the pair relays.
Download(d, c, j) ==
  \E n, a, b \in Nat :
    /\ received[d] = [i \in 1 .. n |-> <<c, i>>]
    /\ Stretch(toClient[d], c, n, a, b)
    /\ n + (b - a) <= j
    /\ Alive(d) /\ InRelay(d) => n + (b - a) = j /\ b = Len(toClient[d])

CountsOK ==
  /\ DOMAIN sent = Conns /\ DOMAIN received = Conns
  /\ \A c \in Conns : /\ sent[c] # 0 => client[c] \in {"relayed"} \cup Ended
                      /\ received[c] # <<>> => peer[c] # Nobody

\* Who has written a payload, or is to relay, is served by a pair that relays,
\* if by any.
Starts ==
  \A c \in Conns : sent[c] # 0 \/ Relayed(c) =>
    /\ accepting[c] = "done" /\ ~Waits(c)
    /\ \A p \in pairs : c \in ConnsOf(p) => p.stage = "relaying"

\* Both clients of a pair are told of each other before anything else.
Tells ==
  \A p \in pairs : p.stage # "joining" =>
    \A c \in ConnsOf(p) : Alive(c) => Told(c, PeerIn(p, c))

Flows ==
  \A c \in Conns : \E j \in Nat :
    Upload(c, j) /\ \A d \in Conns : Told(d, c) => Download(d, c, j)

\* Nothing is relayed to a client that is told of nobody.
Untold ==
  \A d \in Conns : (\A c \in Conns : ~Told(d, c)) =>
    received[d] = <<>> /\ NoRelay(toClient[d])

RelayInv == CountsOK /\ Starts /\ Tells /\ Flows /\ Untold

\* A client that has neither written nor been sent anything to relay.
Blank(c) ==
  /\ sent[c] = 0 /\ received[c] = <<>>
  /\ NoRelay(toServer[c]) /\ NoRelay(toClient[c])

\* Nothing has passed between clients of which none has written.
LEMMA BlankPeers ==
  ASSUME StreamsInv, RelayInv, NEW c \in Conns, sent[c] = 0,
         \A d \in Conns : Told(c, d) => sent[d] = 0
  PROVE  Blank(c)
<1>1. IsSeq(toServer[c]) /\ IsSeq(toClient[c])
  BY DEF StreamsInv, ChansOK
<1>2. NoRelay(toServer[c])
  <2>1. PICK j \in Nat, a \in Nat, b \in Nat :
          Stretch(toServer[c], c, j, a, b) /\ sent[c] = j + (b - a)
    BY DEF RelayInv, Flows, Upload
  <2>2. a = b
    BY <2>1 DEF Stretch
  <2>3. QED
    BY <1>1, <2>1, <2>2, NothingRelayed
<1>3. received[c] = <<>> /\ NoRelay(toClient[c])
  <2>1. CASE \E d \in Conns : Told(c, d)
    <3>1. PICK d \in Conns : Told(c, d) /\ sent[d] = 0
      BY <2>1
    <3>2. PICK j \in Nat : Upload(d, j) /\ Download(c, d, j)
      BY <3>1 DEF RelayInv, Flows
    <3>3. j = 0
      <4>1. PICK a \in Nat, b \in Nat :
              Stretch(toServer[d], d, j, a, b) /\ sent[d] = j + (b - a)
        BY <3>2 DEF Upload
      <4>2. QED
        BY <3>1, <4>1 DEF Stretch
    <3>4. PICK n \in Nat, a \in Nat, b \in Nat :
            /\ received[c] = [i \in 1 .. n |-> <<d, i>>]
            /\ Stretch(toClient[c], d, n, a, b) /\ n + (b - a) <= j
      BY <3>2 DEF Download
    <3>5. n = 0 /\ a = b
      BY <3>3, <3>4 DEF Stretch
    <3>6. received[c] = <<>>
      BY <3>4, <3>5
    <3>7. QED
      BY <1>1, <3>4, <3>5, <3>6, NothingRelayed
  <2>2. QED
    BY <2>1 DEF RelayInv, Untold
<1>4. QED
  BY <1>2, <1>3 DEF Blank

\* Nothing is relayed before the pair of a client relays.
LEMMA BlankPair ==
  ASSUME StreamsInv, RelayInv, NEW p \in pairs, p.stage # "relaying",
         NEW c \in ConnsOf(p)
  PROVE  /\ Blank(c) /\ ~Relayed(c)
         /\ \A d \in Conns : Told(c, d) \/ Told(d, c) => d \in ConnsOf(p)
<1>1. ConnsOf(p) \subseteq Conns
  BY DEF StreamsInv, PoolsInv, PairOK, ConnsOf
<1>2. \A d \in ConnsOf(p) : sent[d] = 0 /\ ~Relayed(d)
  BY <1>1 DEF RelayInv, Starts
<1>3. \A d \in Conns : Told(c, d) \/ Told(d, c) => d \in ConnsOf(p)
  BY <1>1 DEF StreamsInv, PairsOK, PeerIn, ConnsOf
<1>4. QED
  BY <1>1, <1>2, <1>3, BlankPeers

\* Nor is it before a client is paired.
LEMMA BlankNew ==
  ASSUME StreamsInv, RelayInv, NEW c \in Conns, accepting[c] # "done" \/ Waits(c)
  PROVE  /\ Blank(c) /\ ~Relayed(c)
         /\ \A d \in Conns : ~Told(c, d) /\ ~Told(d, c)
<1>1. sent[c] = 0 /\ ~Relayed(c)
  BY DEF RelayInv, Starts
<1>2. \A d \in Conns : ~Told(c, d) /\ ~Told(d, c)
  BY DEF StreamsInv, ToldOK
<1>3. QED
  BY <1>1, <1>2, BlankPeers

-----------------------------------------------------------------------------
(* What a step does to what is relayed.                                    *)

\* A client's channel to the server is left alone.
LEMMA UploadKept ==
  ASSUME NEW c, NEW j, Upload(c, j), client'[c] = client[c], sent'[c] = sent[c],
         toServer'[c] = toServer[c]
  PROVE  Upload(c, j)'
  BY DEF Upload, Alive

\* The server reads a message of it.
LEMMA UploadRead ==
  ASSUME ChansOK, NEW c \in Conns, NEW j \in Nat, Upload(c, j),
         client'[c] = client[c], sent'[c] = sent[c],
         toServer[c] # <<>>, toServer'[c] = Tail(toServer[c])
  PROVE  /\ Head(toServer[c]).type = "Relay" =>
              Head(toServer[c]) = Payload(c, j + 1) /\ Upload(c, j + 1)'
         /\ Head(toServer[c]).type # "Relay" => Upload(c, j)'
<1> DEFINE s == toServer[c]
<1>1. IsSeq(s) /\ s # <<>>
  BY DEF ChansOK
<1>2. PICK a \in Nat, b \in Nat :
        /\ Stretch(s, c, j, a, b) /\ sent[c] = j + (b - a)
        /\ Alive(c) => b = Len(s)
  BY DEF Upload
<1>3. Alive(c)' => \A m \in Msgs(Tail(s)) : m.type # "Eof"
  BY <1>1, TailSeq DEF Upload, Alive
<1>4. Len(s) \in Nat \ {0} /\ Len(Tail(s)) = Len(s) - 1
  BY <1>1, TailSeq
<1>5. toServer'[c] = Tail(s) /\ (Alive(c)' <=> Alive(c))
  BY DEF Alive
<1> HIDE DEF s
<1>6. ASSUME Head(s).type = "Relay"
      PROVE  Head(s) = Payload(c, j + 1) /\ Upload(c, j + 1)'
  <2>1. /\ a = 0 /\ b > 0 /\ Head(s) = Payload(c, j + 1)
        /\ Stretch(Tail(s), c, j + 1, 0, b - 1)
    BY <1>1, <1>2, <1>6, StretchTail
  <2>2. /\ b - 1 \in Nat /\ sent'[c] = (j + 1) + ((b - 1) - 0)
        /\ b = Len(s) => b - 1 = Len(Tail(s))
    BY <1>2, <1>4, <2>1
  <2>3. 0 \in Nat
    OBVIOUS
  <2>4. QED
    BY <1>2, <1>3, <1>5, <2>1, <2>2, <2>3 DEF Upload
<1>7. ASSUME Head(s).type # "Relay" PROVE Upload(c, j)'
  <2>0. Stretch(s, c, j, a, b)
    BY <1>2
  <2>1. PICK x \in Nat, y \in Nat :
          /\ Stretch(Tail(s), c, j, x, y) /\ y - x = b - a
          /\ b = Len(s) => y = Len(Tail(s))
    <3>1. PassedBy(s, c, j, a, b)
      BY <1>1, <1>7, <2>0, StretchTail
    <3>2. QED
      BY <3>1 DEF PassedBy
  <2>2. sent'[c] = j + (y - x)
    BY <1>2, <2>1
  <2>3. QED
    BY <1>2, <1>3, <1>5, <2>1, <2>2 DEF Upload
<1>8. QED
  BY <1>6, <1>7 DEF s

\* Messages that are no payloads reach a client.
Speaks(c) ==
  \/ toClient'[c] = toClient[c]
  \/ \E t : IsSeq(t) /\ NoRelay(t) /\ toClient'[c] = toClient[c] \o t

\* What comes behind the payloads to a client leaves them in place.
LEMMA DownloadKept ==
  ASSUME ChansOK, NEW d \in Conns, NEW c, NEW j \in Nat, NEW k \in Nat, j <= k,
         Download(d, c, j), Speaks(d),
         client'[d] = client[d], received'[d] = received[d],
         Alive(d) /\ InRelay(d)' =>
           InRelay(d) /\ k = j /\ toClient'[d] = toClient[d]
  PROVE  Download(d, c, k)'
<1>1. PICK n \in Nat, a \in Nat, b \in Nat :
        /\ received[d] = [i \in 1 .. n |-> <<c, i>>]
        /\ Stretch(toClient[d], c, n, a, b)
        /\ n + (b - a) <= j
        /\ Alive(d) /\ InRelay(d) => n + (b - a) = j /\ b = Len(toClient[d])
  BY DEF Download
<1>2. Stretch(toClient'[d], c, n, a, b)
  <2>1. ASSUME NEW t, IsSeq(t), NoRelay(t), toClient'[d] = toClient[d] \o t
        PROVE  Stretch(toClient'[d], c, n, a, b)
    BY <1>1, <2>1, StretchMore DEF ChansOK
  <2>2. CASE toClient'[d] = toClient[d]
    BY <1>1, <2>2
  <2>3. QED
    BY <2>1, <2>2 DEF Speaks
<1>3. n + (b - a) <= k
  BY <1>1
<1>4. Alive(d)' /\ InRelay(d)' => n + (b - a) = k /\ b = Len(toClient'[d])
  BY <1>1 DEF Alive
<1>5. QED
  BY <1>1, <1>2, <1>3, <1>4 DEF Download

\* Nothing has been relayed, in whatever stage the pair is now.
LEMMA DownloadBlank ==
  ASSUME ChansOK', NEW d \in Conns, NEW c, received'[d] = <<>>, NoRelay(toClient'[d])
  PROVE  Download(d, c, 0)'
<1>1. IsSeq(toClient'[d])
  BY DEF ChansOK
<1>2. PICK l : l = Len(toClient'[d])
  OBVIOUS
<1>3. l \in Nat /\ Stretch(toClient'[d], c, 0, l, l)
  BY <1>1, <1>2, EmptyStretch
<1>4. received'[d] = [i \in 1 .. 0 |-> <<c, i>>]
  OBVIOUS
<1>5. 0 \in Nat /\ 0 + (l - l) <= 0 /\ 0 + (l - l) = 0
  BY <1>3
<1>6. QED
  BY <1>2, <1>3, <1>4, <1>5 DEF Download

\* A client that has written nothing yet.
LEMMA UploadBlank ==
  ASSUME ChansOK', NEW c \in Conns, sent'[c] = 0, NoRelay(toServer'[c]),
         Alive(c)' => \A m \in Msgs(toServer'[c]) : m.type # "Eof"
  PROVE  Upload(c, 0)'
<1>1. IsSeq(toServer'[c])
  BY DEF ChansOK
<1>2. PICK l : l = Len(toServer'[c])
  OBVIOUS
<1>3. l \in Nat /\ Stretch(toServer'[c], c, 0, l, l)
  BY <1>1, <1>2, EmptyStretch
<1>4. sent'[c] = 0 + (l - l)
  BY <1>3
<1>5. QED
  BY <1>2, <1>3, <1>4 DEF Upload

-----------------------------------------------------------------------------
(* The clients write and read what is relayed.                             *)

\* A client that says something else has not written anything.
LEMMA UploadSays ==
  ASSUME ChansOK, NEW c \in Conns, NEW j \in Nat, Upload(c, j), sent[c] = 0,
         Alive(c), sent'[c] = sent[c], NEW m, m.type \notin {"Relay", "Eof"},
         toServer'[c] = Append(toServer[c], m), ChansOK'
  PROVE  Upload(c, j)'
<1>1. PICK a \in Nat, b \in Nat :
        Stretch(toServer[c], c, j, a, b) /\ sent[c] = j + (b - a)
  BY DEF Upload
<1>2. j = 0 /\ a = b
  BY <1>1 DEF Stretch
<1>3. IsSeq(toServer[c]) /\ NoRelay(toServer[c])
  BY <1>1, <1>2, NothingRelayed DEF ChansOK
<1>4. Msgs(toServer'[c]) = Msgs(toServer[c]) \cup {m}
  BY <1>3, AppendSeq
<1>5. NoRelay(toServer'[c])
  BY <1>3, <1>4 DEF NoRelay
<1>6. \A x \in Msgs(toServer'[c]) : x.type # "Eof"
  BY <1>4 DEF Upload
<1>7. QED
  BY <1>2, <1>5, <1>6, UploadBlank

\* It writes a payload to its relay stream.
LEMMA UploadWrites ==
  ASSUME ChansOK, CountsOK, NEW c \in Conns, NEW j \in Nat, Upload(c, j), RelayWrite(c)
  PROVE  Upload(c, j)'
<1>0. PICK l, m : l = Len(toServer[c]) /\ m = Payload(c, sent[c] + 1)
  OBVIOUS
<1>1. /\ Alive(c) /\ client' = client /\ sent'[c] = sent[c] + 1
      /\ toServer'[c] = Append(toServer[c], m)
  BY <1>0 DEF RelayWrite, Say, Payload, ChansOK, CountsOK, Alive, Ended
<1>2. PICK a \in Nat, b \in Nat :
        /\ Stretch(toServer[c], c, j, a, b) /\ sent[c] = j + (b - a)
        /\ Alive(c) => b = l
  BY <1>0 DEF Upload
<1>3. IsSeq(toServer[c])
  BY DEF ChansOK
<1>4. b = l /\ l \in Nat
  BY <1>1, <1>2
<1>5. sent[c] + 1 = j + (l - a) + 1 /\ j + ((l + 1) - a) = sent[c] + 1
  BY <1>2, <1>4
<1>6. /\ Stretch(toServer[c] \o <<m>>, c, j, a, l + 1)
      /\ Len(toServer[c] \o <<m>>) = l + 1
  <2>1. Stretch(toServer[c], c, j, a, Len(toServer[c]))
    BY <1>0, <1>2, <1>4
  <2>2. m = Payload(c, j + (Len(toServer[c]) - a) + 1)
    BY <1>0, <1>5
  <2>3. PICK s : s = toServer[c]
    OBVIOUS
  <2>4. /\ IsSeq(s) /\ Stretch(s, c, j, a, Len(s))
        /\ m = Payload(c, j + (Len(s) - a) + 1)
    BY <1>3, <2>1, <2>2, <2>3
  <2>5. Stretch(s \o <<m>>, c, j, a, Len(s) + 1) /\ Len(s \o <<m>>) = Len(s) + 1
    BY <2>4, StretchNext
  <2>6. QED
    BY <1>0, <2>3, <2>5
<1>7. /\ Append(toServer[c], m) = toServer[c] \o <<m>>
      /\ Msgs(Append(toServer[c], m)) = Msgs(toServer[c]) \cup {m}
  BY <1>3, AppendSeq
<1>8. \A x \in Msgs(toServer'[c]) : x.type # "Eof"
  BY <1>0, <1>1, <1>7 DEF Upload, Payload
<1>9. l + 1 \in Nat /\ sent'[c] = j + ((l + 1) - a)
  BY <1>1, <1>4, <1>5
<1>10. QED
  BY <1>1, <1>6, <1>7, <1>8, <1>9 DEF Upload

\* It leaves, and closes the channel behind what it wrote.
LEMMA UploadQuits ==
  ASSUME ChansOK, NEW c \in Conns, NEW j, Upload(c, j), sent'[c] = sent[c],
         ~Alive(c)', NEW t, IsSeq(t), NoRelay(t), toServer'[c] = toServer[c] \o t
  PROVE  Upload(c, j)'
<1>1. PICK a \in Nat, b \in Nat :
        Stretch(toServer[c], c, j, a, b) /\ sent[c] = j + (b - a)
  BY DEF Upload
<1>2. Stretch(toServer'[c], c, j, a, b)
  BY <1>1, StretchMore DEF ChansOK
<1>3. QED
  BY <1>1, <1>2 DEF Upload

\* What a client leaves behind is no payload.
LEMMA QuitSays ==
  ASSUME ChansOK, NEW c \in Conns, NEW msgs, msgs \in {<<>>, <<Message("Close")>>},
         Quit(c, msgs)
  PROVE  \E t : IsSeq(t) /\ NoRelay(t) /\ toServer'[c] = toServer[c] \o t
<1>1. IsSeq(toServer[c])
  BY DEF ChansOK
<1>2. PICK e : e = <<Eof>> /\ IsSeq(e) /\ Msgs(e) = {Eof}
  BY ShortSeq
<1>3. IsSeq(msgs) /\ NoRelay(msgs)
  BY ShortSeq DEF NoRelay, Message
<1>4. IsSeq(msgs \o e) /\ Msgs(msgs \o e) = Msgs(msgs) \cup {Eof}
  BY <1>2, <1>3, ConcatSeq
<1>5. NoRelay(msgs \o e)
  BY <1>3, <1>4 DEF NoRelay, Eof, Message
<1>6. toServer'[c] = (toServer[c] \o msgs) \o e
  BY <1>2 DEF Quit, ChansOK
<1>7. (toServer[c] \o msgs) \o e = toServer[c] \o (msgs \o e)
  <2>1. PICK S, T, U : toServer[c] \in Seq(S) /\ msgs \in Seq(T) /\ e \in Seq(U)
    BY <1>1, <1>2, <1>3 DEF IsSeq
  <2>2. PICK V : V = S \cup T \cup U
    OBVIOUS
  <2>3. toServer[c] \in Seq(V) /\ msgs \in Seq(V) /\ e \in Seq(V)
    <3>1. toServer[c] \in Seq(S \cup (T \cup U))
      BY <2>1, SeqOfMore
    <3>2. msgs \in Seq(T \cup (S \cup U))
      BY <2>1, SeqOfMore
    <3>3. e \in Seq(U \cup (S \cup T))
      BY <2>1, SeqOfMore
    <3>4. /\ S \cup (T \cup U) = V /\ T \cup (S \cup U) = V /\ U \cup (S \cup T) = V
      BY <2>2
    <3>5. QED
      BY <3>1, <3>2, <3>3, <3>4
  <2>4. PICK s, t : s = toServer[c] /\ t = msgs
    OBVIOUS
  <2>5. (s \o t) \o e = s \o (t \o e)
    <3>1. s \in Seq(V) /\ t \in Seq(V) /\ e \in Seq(V)
      BY <2>3, <2>4
    <3>2. QED
      BY <3>1, ConcatAssociative
  <2>6. QED
    BY <2>4, <2>5
<1>8. QED
  BY <1>4, <1>5, <1>6, <1>7

\* A step of a client keeps the account of what it has written.
LEMMA UploadGoes ==
  ASSUME ChansOK, ChansOK', CountsOK, DOMAIN client = Conns,
         NEW c \in Conns, NEW j \in Nat, Upload(c, j), Client(c)
  PROVE  Upload(c, j)'
<1>1. CASE KeyAccepted(c) \/ PeerJoined(c) \/ StartRelayMode(c) \/ RelayRead(c)
  <2>1. toServer' = toServer /\ sent' = sent /\ Alive(c) /\ Alive(c)'
    BY <1>1 DEF KeyAccepted, PeerJoined, StartRelayMode, RelayRead, Goes, Alive, Ended
  <2>2. QED
    BY <2>1 DEF Upload
<1>2. ASSUME NEW m, m.type \notin {"Relay", "Eof"}, Say(c, m), sent' = sent,
             client[c] \notin {"relayed"} \cup Ended
      PROVE  Upload(c, j)'
  <2>1. sent[c] = 0 /\ Alive(c) /\ toServer'[c] = Append(toServer[c], m)
    BY <1>2 DEF CountsOK, Say, ChansOK, Alive
  <2>2. QED
    BY <1>2, <2>1, UploadSays
<1>3. CASE Connect(c)
  BY <1>2, <1>3 DEF Connect, Message, Ended
<1>4. CASE Bind(c)
  <2>1. \E m : Say(c, m) /\ m.type \notin {"Relay", "Eof"}
    <3>1. CASE Say(c, Message("DirectConnectFailed"))
      <4>1. Message("DirectConnectFailed").type \notin {"Relay", "Eof"}
        BY DEF Message
      <4>2. QED
        BY <3>1, <4>1
    <3>2. ASSUME NEW ports, Say(c, [type |-> "DirectConnectBound", ports |-> ports])
          PROVE  \E m : Say(c, m) /\ m.type \notin {"Relay", "Eof"}
      <4>1. PICK m : m = [type |-> "DirectConnectBound", ports |-> ports]
        OBVIOUS
      <4>2. QED
        BY <3>2, <4>1
    <3>3. QED
      BY <1>4, <3>1, <3>2 DEF Bind
  <2>2. QED
    BY <1>2, <1>4, <2>1 DEF Bind, Ended
<1>5. CASE AttemptDirect(c)
  BY <1>2, <1>5 DEF AttemptDirect, Message, Ended
<1>6. CASE RelayWrite(c)
  BY <1>6, UploadWrites
<1>7. CASE UnexpectedMessage(c) \/ RelayClosed(c) \/ Finish(c) \/ ClientFails(c)
  <2>1. /\ Quit(c, <<>>) \/ Quit(c, <<Message("Close")>>)
        /\ sent' = sent /\ ~Alive(c)'
    BY <1>7 DEF UnexpectedMessage, RelayClosed, Finish, ClientFails, Goes, Alive, Ended
  <2>2. PICK t : IsSeq(t) /\ NoRelay(t) /\ toServer'[c] = toServer[c] \o t
    BY <2>1, QuitSays
  <2>3. QED
    BY <2>1, <2>2, UploadQuits
<1>8. QED
  BY <1>1, <1>3, <1>4, <1>5, <1>6, <1>7 DEF Client, ClientReads

\* It reads something else than a payload.
LEMMA DownloadTakes ==
  ASSUME ChansOK, NEW c \in Conns, NEW e, NEW j \in Nat, Download(c, e, j),
         Takes(c), Head(toClient[c]).type # "Relay", received'[c] = received[c],
         Alive(c), InRelay(c)' = InRelay(c)
  PROVE  Download(c, e, j)'
<1> DEFINE s == toClient[c]
<1>1. IsSeq(s) /\ s # <<>> /\ toClient'[c] = Tail(s) /\ Head(s).type # "Relay"
  BY DEF ChansOK, Takes
<1> HIDE DEF s
<1>2. PICK n \in Nat, a \in Nat, b \in Nat :
        /\ received[c] = [i \in 1 .. n |-> <<e, i>>]
        /\ Stretch(s, e, n, a, b)
        /\ n + (b - a) <= j
        /\ InRelay(c) => n + (b - a) = j /\ b = Len(s)
  BY DEF Download, s
<1>3. PassedBy(s, e, n, a, b)
  BY <1>1, <1>2, StretchTail
<1>4. PICK x \in Nat, y \in Nat :
        /\ Stretch(Tail(s), e, n, x, y) /\ y - x = b - a
        /\ b = Len(s) => y = Len(Tail(s))
  BY <1>3 DEF PassedBy
<1>5. n + (y - x) <= j /\ (InRelay(c) => n + (y - x) = j /\ y = Len(Tail(s)))
  BY <1>2, <1>4
<1>6. QED
  BY <1>1, <1>2, <1>4, <1>5 DEF Download

\* It reads a payload: the next one.
LEMMA DownloadReads ==
  ASSUME ChansOK, CountsOK, NEW c \in Conns, NEW e, NEW j \in Nat, Download(c, e, j),
         RelayRead(c)
  PROVE  Download(c, e, j)'
<1> DEFINE s == toClient[c]
<1>1. /\ IsSeq(s) /\ s # <<>> /\ toClient'[c] = Tail(s) /\ Head(s).type = "Relay"
      /\ received'[c] = Append(received[c], <<Head(s).from, Head(s).n>>)
      /\ client' = client /\ pairs' = pairs
  BY DEF RelayRead, Hears, Heard, Unread, ChansOK, CountsOK, serverVars
<1> HIDE DEF s
<1>2. PICK n \in Nat, a \in Nat, b \in Nat :
        /\ received[c] = [i \in 1 .. n |-> <<e, i>>]
        /\ Stretch(s, e, n, a, b)
        /\ n + (b - a) <= j
        /\ Alive(c) /\ InRelay(c) => n + (b - a) = j /\ b = Len(s)
  BY DEF Download, s
<1>3. /\ a = 0 /\ b > 0 /\ Head(s) = Payload(e, n + 1)
      /\ Stretch(Tail(s), e, n + 1, 0, b - 1)
  BY <1>1, <1>2, StretchTail
<1>4. received'[c] = [i \in 1 .. n + 1 |-> <<e, i>>]
  <2>1. received'[c] = Append(received[c], <<e, n + 1>>)
    BY <1>1, <1>3 DEF Payload
  <2>2. QED
    BY <1>2, <2>1
<1>5. /\ n + 1 \in Nat /\ b - 1 \in Nat /\ 0 \in Nat
      /\ (n + 1) + ((b - 1) - 0) <= j
      /\ n + (b - a) = j => (n + 1) + ((b - 1) - 0) = j
  BY <1>2, <1>3
<1>6. b = Len(s) => b - 1 = Len(Tail(s))
  BY <1>1, TailSeq
<1>7. Alive(c)' /\ InRelay(c)' => Alive(c) /\ InRelay(c)
  BY <1>1 DEF Alive, InRelay
<1>8. PICK k \in Nat, y \in Nat : k = n + 1 /\ y = b - 1
  BY <1>5
<1>9. /\ received'[c] = [i \in 1 .. k |-> <<e, i>>]
      /\ Stretch(toClient'[c], e, k, 0, y) /\ k + (y - 0) <= j
      /\ Alive(c)' /\ InRelay(c)' => k + (y - 0) = j /\ y = Len(toClient'[c])
  BY <1>1, <1>2, <1>3, <1>4, <1>5, <1>6, <1>7, <1>8
<1>10. QED
  BY <1>5, <1>9 DEF Download

\* Nothing is left to read of a connection that is gone.
LEMMA DownloadEnds ==
  ASSUME NEW c, NEW e, NEW j \in Nat, Download(c, e, j), ~Alive(c)', toClient'[c] = <<>>,
         received'[c] = received[c]
  PROVE  Download(c, e, j)'
<1>1. PICK n \in Nat, a \in Nat, b \in Nat :
        /\ received[c] = [i \in 1 .. n |-> <<e, i>>]
        /\ a <= b /\ n + (b - a) <= j
  BY DEF Download, Stretch
<1>2. Stretch(<<>>, e, n, 0, 0)
  BY DEF Stretch
<1>3. n + (0 - 0) <= j
  <2>1. PICK k : k = n + (b - a)
    OBVIOUS
  <2>2. n <= k /\ k <= j /\ k \in Nat
    BY <1>1, <2>1
  <2>3. QED
    BY <1>1, <2>2
<1>4. QED
  BY <1>1, <1>2, <1>3 DEF Download

\* A step of a client keeps the account of what it has read.
LEMMA DownloadGoes ==
  ASSUME ChansOK, CountsOK, DOMAIN client = Conns,
         NEW c \in Conns, NEW e, NEW j \in Nat, Download(c, e, j), Client(c)
  PROVE  Download(c, e, j)'
<1>1. CASE KeyAccepted(c) \/ PeerJoined(c) \/ Bind(c) \/ AttemptDirect(c)
             \/ StartRelayMode(c)
  <2>1. /\ Takes(c) /\ received'[c] = received[c] /\ Alive(c) /\ pairs' = pairs
    BY <1>1 DEF KeyAccepted, PeerJoined, Bind, AttemptDirect, StartRelayMode,
                Hears, Heard, Unread, Takes, Alive, Ended, ChansOK, serverVars
  <2>2. Head(toClient[c]).type # "Relay"
    BY <1>1 DEF KeyAccepted, PeerJoined, Bind, AttemptDirect, StartRelayMode, Hears
  <2>3. InRelay(c)' = InRelay(c)
    BY <2>1 DEF InRelay
  <2>4. QED
    BY <2>1, <2>2, <2>3, DownloadTakes
<1>2. CASE RelayRead(c)
  BY <1>2, DownloadReads
<1>3. CASE UnexpectedMessage(c) \/ RelayClosed(c) \/ Finish(c) \/ ClientFails(c)
  <2>1. /\ toClient'[c] = <<>> /\ received'[c] = received[c] /\ ~Alive(c)'
    BY <1>3 DEF UnexpectedMessage, RelayClosed, Finish, ClientFails, Goes, Alive,
                Ended, Hangup, ChansOK
  <2>2. QED
    BY <2>1, DownloadEnds
<1>4. CASE Connect(c) \/ RelayWrite(c)
  <2>1. /\ toClient' = toClient /\ received' = received /\ pairs' = pairs
        /\ Alive(c)' = Alive(c)
    BY <1>4 DEF Connect, RelayWrite, Goes, Alive, Ended, serverVars
  <2>2. QED
    BY <2>1 DEF Download, InRelay
<1>5. QED
  BY <1>1, <1>2, <1>3, <1>4 DEF Client, ClientReads

\* A client counts its own payloads only, and only while it is relayed.
LEMMA ClientCounts ==
  ASSUME ChansOK, CountsOK, DOMAIN client = Conns, NEW c \in Conns, Client(c)
  PROVE  /\ DOMAIN sent' = Conns /\ DOMAIN received' = Conns
         /\ \A d \in Conns \ {c} : sent'[d] = sent[d] /\ received'[d] = received[d]
         /\ sent'[c] # sent[c] => client[c] = "relayed" /\ client'[c] = "relayed"
         /\ client[c] \in {"relayed"} \cup Ended =>
              client'[c] \in {"relayed"} \cup Ended
         /\ received'[c] # received[c] =>
              /\ client[c] = "relayed" /\ peer'[c] = peer[c]
              /\ toClient[c] # <<>> /\ Head(toClient[c]).type = "Relay"
         /\ peer'[c] = peer[c] \/ PeerJoined(c)
<1> USE DEF CountsOK, Goes, Ended
<1>1. CASE RelayWrite(c)
  BY <1>1 DEF RelayWrite
<1>2. CASE RelayRead(c)
  BY <1>2 DEF RelayRead, Hears, Unread
<1>3. CASE Connect(c) \/ KeyAccepted(c) \/ PeerJoined(c) \/ Bind(c)
  BY <1>3 DEF Connect, KeyAccepted, PeerJoined, Bind
<1>4. CASE AttemptDirect(c) \/ StartRelayMode(c)
  BY <1>4 DEF AttemptDirect, StartRelayMode
<1>5. CASE UnexpectedMessage(c) \/ RelayClosed(c) \/ Finish(c) \/ ClientFails(c)
  BY <1>5 DEF UnexpectedMessage, RelayClosed, Finish, ClientFails
<1>6. QED
  BY <1>1, <1>2, <1>3, <1>4, <1>5 DEF Client, ClientReads

\* A client does not forget whom it joined.
LEMMA ToldStays ==
  ASSUME StreamsInv, NEW c \in Conns, Client(c), Alive(c)', NEW d \in Conns, Told(c, d)
  PROVE  Told(c, d)'
<1> DEFINE s == toClient[c]
<1>0. /\ DOMAIN client = Conns /\ DOMAIN peer = Conns /\ DOMAIN toClient = Conns
      /\ IsSeq(s)
  BY DEF StreamsInv, PoolsInv, Handled, ChansOK
<1>1. \A e \in Conns : Told(c, e) => e = d
  BY DEF StreamsInv, ToldOK
<1>2. CASE toClient'[c] = s /\ peer'[c] = peer[c]
  BY <1>2 DEF Told
<1>3. CASE s # <<>> /\ toClient'[c] = Tail(s)
  <2>1. \A m \in Msgs(s) : m = Head(s) \/ m \in Msgs(Tail(s))
    <3>1. /\ Len(s) \in Nat \ {0} /\ Len(Tail(s)) = Len(s) - 1 /\ Head(s) = s[1]
          /\ \A i \in 1 .. Len(s) - 1 : Tail(s)[i] = s[i + 1]
      BY <1>0, <1>3, TailSeq
    <3> HIDE DEF s
    <3>2. ASSUME NEW i \in 1 .. Len(s), i # 1 PROVE s[i] \in Msgs(Tail(s))
      <4>1. i - 1 \in 1 .. Len(s) - 1 /\ (i - 1) + 1 = i
        BY <3>1, <3>2
      <4>2. Tail(s)[i - 1] = s[i]
        BY <3>1, <4>1
      <4>3. QED
        BY <3>1, <4>1, <4>2 DEF Msgs
    <3>3. QED
      BY <3>1, <3>2 DEF Msgs
  <2>2. CASE Head(s).type # "PeerJoined"
    <3>1. peer'[c] = peer[c]
      BY <1>0, <1>3, <2>2
         DEF Client, ClientReads, Connect, KeyAccepted, PeerJoined, Bind,
             AttemptDirect, StartRelayMode, UnexpectedMessage, RelayWrite,
             RelayRead, RelayClosed, Finish, ClientFails, Hears
    <3>2. QED
      BY <1>3, <2>1, <2>2, <3>1 DEF Told
  <2>3. CASE Head(s).type = "PeerJoined"
    <3>1. Head(s) \in Msgs(s) /\ Head(s).peer \in Conns
      <4>1. Head(s) \in Msgs(s)
        BY <1>0, <1>3, TailSeq
      <4>2. QED
        BY <2>3, <4>1 DEF StreamsInv, PeersOK
    <3>2. Head(s).peer = d
      BY <1>1, <2>3, <3>1 DEF Told
    <3>3. PeerJoined(c)
      <4>1. CASE KeyAccepted(c) \/ Bind(c) \/ AttemptDirect(c) \/ StartRelayMode(c)
                   \/ RelayRead(c) \/ RelayClosed(c)
        BY <2>3, <4>1 DEF KeyAccepted, Bind, AttemptDirect, StartRelayMode,
                          RelayRead, RelayClosed, Hears
      <4>2. CASE UnexpectedMessage(c) \/ Finish(c) \/ ClientFails(c)
        BY <1>0, <4>2 DEF UnexpectedMessage, Finish, ClientFails, Goes, Alive, Ended
      <4>3. CASE Connect(c) \/ RelayWrite(c)
        <5>1. Tail(s) = s
          BY <1>3, <4>3 DEF Connect, RelayWrite
        <5>2. Len(Tail(s)) = Len(s) - 1 /\ Len(s) \in Nat
          BY <1>0, <1>3, TailSeq
        <5>3. Len(Tail(s)) = Len(s)
          BY <5>1, Zenon
        <5>4. QED
          BY <5>2, <5>3
      <4>4. QED
        BY <4>1, <4>2, <4>3 DEF Client, ClientReads
    <3>4. peer'[c] = d
      BY <1>0, <3>2, <3>3 DEF PeerJoined
    <3>5. QED
      BY <3>4 DEF Told
  <2>4. QED
    BY <2>2, <2>3
<1>4. (s # <<>> /\ toClient'[c] = Tail(s)) \/ (toClient'[c] = s /\ peer'[c] = peer[c])
  <2>1. CASE KeyAccepted(c) \/ PeerJoined(c) \/ Bind(c) \/ AttemptDirect(c)
               \/ StartRelayMode(c) \/ RelayRead(c)
    BY <1>0, <2>1 DEF KeyAccepted, PeerJoined, Bind, AttemptDirect, StartRelayMode,
                      RelayRead, Hears, Heard, Unread
  <2>2. CASE UnexpectedMessage(c) \/ RelayClosed(c) \/ Finish(c) \/ ClientFails(c)
    BY <1>0, <2>2 DEF UnexpectedMessage, RelayClosed, Finish, ClientFails, Goes,
                      Alive, Ended
  <2>3. CASE Connect(c) \/ RelayWrite(c)
    BY <2>3 DEF Connect, RelayWrite
  <2>4. QED
    BY <2>1, <2>2, <2>3 DEF Client, ClientReads
<1>5. QED
  BY <1>2, <1>3, <1>4

\* Every step of a client keeps the accounts.
LEMMA ClientRelays ==
  ASSUME StreamsInv, StreamsInv', RelayInv, NEW c \in Conns, Client(c)
  PROVE  RelayInv'
<1>0. /\ ChansOK /\ ChansOK' /\ CountsOK /\ DOMAIN client = Conns
  BY DEF StreamsInv, PoolsInv, Handled, RelayInv
<1>1. /\ DOMAIN sent' = Conns /\ DOMAIN received' = Conns
      /\ \A d \in Conns \ {c} : sent'[d] = sent[d] /\ received'[d] = received[d]
      /\ sent'[c] # sent[c] => client[c] = "relayed" /\ client'[c] = "relayed"
      /\ client[c] \in {"relayed"} \cup Ended => client'[c] \in {"relayed"} \cup Ended
      /\ received'[c] # received[c] =>
           /\ client[c] = "relayed" /\ peer'[c] = peer[c]
           /\ toClient[c] # <<>> /\ Head(toClient[c]).type = "Relay"
      /\ peer'[c] = peer[c] \/ PeerJoined(c)
  BY <1>0, ClientCounts
<1>2. /\ UNCHANGED <<waiting, pairs>>
      /\ \A d \in Conns \ {c} :
           /\ client'[d] = client[d] /\ peer'[d] = peer[d] /\ accepting'[d] = accepting[d]
           /\ toServer'[d] = toServer[d] /\ toClient'[d] = toClient[d]
      /\ accepting[c] = "done" => accepting'[c] = "done"
      /\ \A d \in Conns : Told(c, d)' => Told(c, d)
      /\ Relayed(c)' => Relayed(c)
      /\ Msgs(toClient'[c]) \subseteq Msgs(toClient[c])
  <2>1. CASE Connect(c)
    <3>1. /\ client[c] = "idle" /\ client' = [client EXCEPT ![c] = "sent_key"]
          /\ accepting' = [accepting EXCEPT ![c] = "waiting_key"]
          /\ toServer' = [toServer EXCEPT ![c] = Append(@, Message("Key"))]
          /\ UNCHANGED <<toClient, waiting, pairs, peer>>
      BY <2>1 DEF Connect, HandleNewConnection, Say, Goes
    <3>2. accepting[c] = "none" /\ DOMAIN accepting = Conns
      BY <3>1 DEF StreamsInv, PoolsInv, Handled
    <3>3. QED
      BY <1>0, <3>1, <3>2 DEF Told, Relayed
  <2>2. CASE Continues(c)
    BY <1>0, <2>2, ContinuesTold, ContinuesChans DEF Continues, Only, StreamsInv
  <2>3. QED
    BY <1>0, <2>1, <2>2, ClientContinues
<1>3. \A d \in Conns : InRelay(d)' = InRelay(d)
  BY <1>2 DEF InRelay
<1>4. CountsOK'
  <2>1. received'[c] # <<>> => peer'[c] # Nobody
    <3>1. CASE received'[c] # received[c]
      <4>1. peer[c] # Nobody /\ peer'[c] = peer[c]
        BY <1>1, <3>1 DEF StreamsInv, PeersOK
      <4>2. QED
        BY <4>1
    <3>2. CASE received'[c] = received[c] /\ peer'[c] = peer[c]
      BY <1>0, <3>2 DEF CountsOK
    <3>3. CASE PeerJoined(c)
      <4>1. /\ toClient[c] # <<>> /\ Head(toClient[c]).type = "PeerJoined"
            /\ peer'[c] = Head(toClient[c]).peer
        BY <1>0, <3>3 DEF PeerJoined, Hears, Unread, ChansOK
      <4>2. Head(toClient[c]) \in Msgs(toClient[c])
        BY <1>0, <4>1, TailSeq DEF ChansOK
      <4>3. peer'[c] \in Conns
        BY <4>1, <4>2 DEF StreamsInv, PeersOK
      <4>4. QED
        BY <4>3, NobodyAssumption
    <3>4. QED
      BY <1>1, <3>1, <3>2, <3>3
  <2>2. QED
    BY <1>1, <1>2, <2>1 DEF CountsOK, RelayInv
<1>5. Starts'
  <2>1. \A d \in Conns : sent'[d] # 0 \/ Relayed(d)' => sent[d] # 0 \/ Relayed(d)
    BY <1>1, <1>2 DEF Relayed
  <2>2. QED
    BY <1>2, <2>1 DEF Starts, RelayInv, Waits
<1>6. Tells'
  <2> SUFFICES ASSUME NEW p \in pairs, p.stage # "joining", NEW d \in ConnsOf(p),
                      Alive(d)'
               PROVE  Told(d, PeerIn(p, d))'
    BY <1>2 DEF Tells
  <2>1. d \in Conns /\ PeerIn(p, d) \in Conns
    BY DEF StreamsInv, PoolsInv, PairOK, ConnsOf, PeerIn
  <2>2. CASE d # c
    <3>1. Alive(d)
      BY <1>2, <2>1, <2>2 DEF Alive
    <3>2. Told(d, PeerIn(p, d))
      BY <3>1 DEF RelayInv, Tells
    <3>3. QED
      BY <1>2, <2>1, <2>2, <3>2 DEF Told
  <2>3. CASE d = c
    <3>1. Alive(c)
      BY <1>1, <2>3 DEF Alive, Ended, Client, ClientReads, Connect, KeyAccepted,
        PeerJoined, Bind, AttemptDirect, StartRelayMode, UnexpectedMessage,
        RelayWrite, RelayRead, RelayClosed, Finish, ClientFails
    <3>2. Told(d, PeerIn(p, d))
      BY <2>3, <3>1 DEF RelayInv, Tells
    <3>3. QED
      BY <2>1, <2>3, <3>2, ToldStays
  <2>4. QED
    BY <2>2, <2>3
<1>7. Flows'
  <2> SUFFICES ASSUME NEW e \in Conns
               PROVE  \E j \in Nat : /\ Upload(e, j)'
                                     /\ \A d \in Conns : Told(d, e)' => Download(d, e, j)'
    BY DEF Flows
  <2>1. PICK j \in Nat : Upload(e, j) /\ \A d \in Conns : Told(d, e) => Download(d, e, j)
    BY DEF RelayInv, Flows
  <2>2. Upload(e, j)'
    <3>1. CASE e = c
      BY <1>0, <2>1, <3>1, UploadGoes
    <3>2. CASE e # c
      BY <1>1, <1>2, <2>1, <3>2, UploadKept
    <3>3. QED
      BY <3>1, <3>2
  <2>3. ASSUME NEW d \in Conns, Told(d, e)' PROVE Download(d, e, j)'
    <3>1. CASE d = c
      <4>1. Download(c, e, j)
        BY <1>2, <2>1, <2>3, <3>1
      <4>2. QED
        BY <1>0, <3>1, <4>1, DownloadGoes
    <3>2. CASE d # c
      <4>1. Told(d, e)
        BY <1>2, <2>3, <3>2 DEF Told
      <4>2. Download(d, e, j)
        BY <2>1, <4>1
      <4>3. QED
        BY <1>1, <1>2, <1>3, <3>2, <4>2 DEF Download, Alive
    <3>3. QED
      BY <3>1, <3>2
  <2>4. QED
    BY <2>2, <2>3
<1>8. Untold'
  <2> SUFFICES ASSUME NEW d \in Conns, \A e \in Conns : ~Told(d, e)'
               PROVE  received'[d] = <<>> /\ NoRelay(toClient'[d])
    BY DEF Untold
  <2>1. CASE d # c
    <3>1. \A e \in Conns : ~Told(d, e)
      BY <1>2, <2>1 DEF Told
    <3>2. QED
      BY <1>1, <1>2, <2>1, <3>1 DEF Untold, RelayInv
  <2>2. CASE d = c /\ \A e \in Conns : ~Told(c, e)
    <3>1. received[c] = <<>> /\ NoRelay(toClient[c])
      BY <2>2 DEF Untold, RelayInv
    <3>2. NoRelay(toClient'[c])
      BY <1>2, <3>1 DEF NoRelay
    <3>3. toClient[c] # <<>> => Head(toClient[c]).type # "Relay"
      BY <1>0, <3>1, TailSeq DEF NoRelay, ChansOK
    <3>4. QED
      BY <1>1, <2>2, <3>1, <3>2, <3>3
  <2>3. CASE d = c /\ ~(\A e \in Conns : ~Told(c, e))
    <3>1. PICK e \in Conns : Told(c, e)
      BY <2>3
    <3>2. ~Alive(c)'
      BY <2>3, <3>1, ToldStays
    <3>3. toClient'[c] = <<>>
      BY <3>2 DEF StreamsInv, EndedOK
    <3>4. NoRelay(<<>>)
      BY ShortSeq DEF NoRelay
    <3>5. peer'[c] = Nobody
      BY <2>3 DEF StreamsInv, PeersOK, Told
    <3>6. received'[c] = <<>>
      BY <1>4, <3>5 DEF CountsOK
    <3>7. QED
      BY <2>3, <3>3, <3>4, <3>6
  <2>4. QED
    BY <2>1, <2>2, <2>3
<1>9. QED
  BY <1>4, <1>5, <1>6, <1>7, <1>8 DEF RelayInv

-----------------------------------------------------------------------------
(* The server passes on what is relayed, and nothing else moves it.        *)

\* What the server says itself is no payload.
LEMMA NoPayloads ==
  /\ IsSeq(Goodbye) /\ NoRelay(Goodbye) /\ IsSeq(<<Eof>>) /\ NoRelay(<<Eof>>)
  /\ \A m : m.type # "Relay" =>
       /\ IsSeq(<<m>>) /\ NoRelay(<<m>>)
       /\ IsSeq(<<m>> \o Goodbye) /\ NoRelay(<<m>> \o Goodbye)
<1>1. IsSeq(Goodbye) /\ NoRelay(Goodbye)
  <2>1. /\ IsSeq(<<Message("Close"), Eof>>)
        /\ Msgs(<<Message("Close"), Eof>>) = {Message("Close"), Eof}
    BY ShortSeq
  <2>2. QED
    BY <2>1 DEF NoRelay, Goodbye, Message, Eof
<1>2. ASSUME NEW m, m.type # "Relay"
      PROVE  /\ IsSeq(<<m>>) /\ NoRelay(<<m>>)
             /\ IsSeq(<<m>> \o Goodbye) /\ NoRelay(<<m>> \o Goodbye)
  <2>1. PICK w : w = <<m>> /\ IsSeq(w) /\ Msgs(w) = {m}
    BY ShortSeq
  <2>2. IsSeq(w \o Goodbye) /\ Msgs(w \o Goodbye) = {m} \cup Msgs(Goodbye)
    BY <1>1, <2>1, ConcatSeq
  <2>3. NoRelay(w) /\ NoRelay(w \o Goodbye)
    BY <1>1, <1>2, <2>1, <2>2 DEF NoRelay
  <2>4. QED
    BY <2>1, <2>2, <2>3
<1>3. Eof.type # "Relay"
  BY DEF Eof, Message
<1>4. QED
  BY <1>1, <1>2, <1>3

\* Messages that are no payloads reach clients as such.
LEMMA SendingSpeaks ==
  ASSUME ChansOK, NEW sends, toClient' = Sending(sends),
         \A c \in DOMAIN sends : IsSeq(sends[c]) /\ NoRelay(sends[c])
  PROVE  \A c \in Conns : Speaks(c)
  BY SendingGets DEF Speaks

\* So does what is sent to one of them,
LEMMA SendingToSpeaks ==
  ASSUME ChansOK, NEW c \in Conns, NEW msgs, IsSeq(msgs), NoRelay(msgs),
         toClient' = SendingTo(c, msgs)
  PROVE  \A d \in Conns : Speaks(d)
<1> DEFINE sends == [x \in {c} |-> msgs]
<1>1. DOMAIN sends = {c} /\ sends[c] = msgs
  OBVIOUS
<1>2. toClient' = Sending(sends)
  BY DEF SendingTo
<1> HIDE DEF sends
<1>3. QED
  BY <1>1, <1>2, SendingSpeaks

\* what is said to those whose connections are dropped,
LEMMA DroppingSpeaks ==
  ASSUME ChansOK, NEW S, NEW saidClose, toClient' = Sending(Dropping(S, saidClose))
  PROVE  \A d \in Conns : Speaks(d)
<1> DEFINE sends == Dropping(S, saidClose)
<1>1. \A c \in DOMAIN sends : IsSeq(sends[c]) /\ NoRelay(sends[c])
  BY NoPayloads DEF Dropping
<1> HIDE DEF sends
<1>2. toClient' = Sending(sends)
  BY DEF sends
<1>3. QED
  BY <1>1, <1>2, SendingSpeaks

\* and what both clients of a pair are sent.
LEMMA SendingBothSpeaks ==
  ASSUME ChansOK, NEW p, ConnsOf(p) \subseteq Conns,
         NEW m1, NEW m2, m1.type # "Relay", m2.type # "Relay",
         toClient' = SendingBoth(p.con1, m1, p.con2, m2)
  PROVE  /\ DOMAIN toClient' = Conns
         /\ \A c \in Conns : Gets(c) /\ Speaks(c)
         /\ \A c \in Conns \ ConnsOf(p) : toClient'[c] = toClient[c]
         /\ \A c \in Conns : Msgs(toClient'[c]) \subseteq Msgs(toClient[c]) \cup {m1, m2}
<1> DEFINE sends == [x \in {p.con1, p.con2} |-> IF x = p.con1 THEN <<m1>> ELSE <<m2>>]
<1>1. toClient' = Sending(sends)
  BY DEF SendingBoth
<1>2. DOMAIN sends = ConnsOf(p)
  BY DEF ConnsOf
<1>3. \A c \in DOMAIN sends : /\ IsSeq(sends[c]) /\ NoRelay(sends[c])
                              /\ Msgs(sends[c]) \subseteq {m1, m2}
  <2>1. PICK w1, w2 : w1 = <<m1>> /\ w2 = <<m2>>
    OBVIOUS
  <2>2. /\ IsSeq(w1) /\ NoRelay(w1) /\ Msgs(w1) = {m1}
        /\ IsSeq(w2) /\ NoRelay(w2) /\ Msgs(w2) = {m2}
    BY <2>1, NoPayloads, ShortSeq
  <2>3. \A c \in DOMAIN sends : sends[c] = w1 \/ sends[c] = w2
    BY <2>1
  <2> HIDE DEF sends
  <2>4. QED
    BY <2>2, <2>3
<1> HIDE DEF sends
<1>4. /\ DOMAIN toClient' = Conns
      /\ \A c \in Conns : (c \notin DOMAIN sends \/ Gone(c)) => toClient'[c] = toClient[c]
      /\ \A c \in Conns : c \in DOMAIN sends /\ ~Gone(c) =>
                            toClient'[c] = toClient[c] \o sends[c]
  BY <1>1, SendingGets
<1>5. \A c \in Conns : Speaks(c) /\ Gets(c)
  BY <1>1, <1>3, <1>4 DEF Speaks, Gets
<1>6. ASSUME NEW c \in Conns
      PROVE  Msgs(toClient'[c]) \subseteq Msgs(toClient[c]) \cup {m1, m2}
  <2>1. CASE toClient'[c] = toClient[c]
    BY <2>1
  <2>2. CASE c \in DOMAIN sends /\ toClient'[c] = toClient[c] \o sends[c]
    <3>1. Msgs(toClient'[c]) = Msgs(toClient[c]) \cup Msgs(sends[c])
      BY <1>3, <2>2, ConcatSeq DEF ChansOK
    <3>2. QED
      BY <1>3, <2>2, <3>1
  <2>3. QED
    BY <1>4, <2>1, <2>2
<1>7. QED
  BY <1>2, <1>4, <1>5, <1>6

\* What comes behind takes nothing back.
LEMMA SpeaksKeeps ==
  ASSUME ChansOK, NEW c \in Conns, Speaks(c), peer'[c] = peer[c]
  PROVE  /\ \A d : Told(c, d) => Told(c, d)'
         /\ NoRelay(toClient[c]) => NoRelay(toClient'[c])
<1>1. CASE toClient'[c] = toClient[c]
  BY <1>1 DEF Told
<1>2. ASSUME NEW t, IsSeq(t), NoRelay(t), toClient'[c] = toClient[c] \o t
      PROVE  /\ \A d : Told(c, d) => Told(c, d)'
             /\ NoRelay(toClient[c]) => NoRelay(toClient'[c])
  <2>1. Msgs(toClient'[c]) = Msgs(toClient[c]) \cup Msgs(t)
    BY <1>2, ConcatSeq DEF ChansOK
  <2>2. QED
    BY <1>2, <2>1 DEF Told, NoRelay
<1>3. QED
  BY <1>1, <1>2 DEF Speaks

\* The server reads something that is no payload, or nothing.
ReadsOther(c) ==
  \/ toServer'[c] = toServer[c]
  \/ /\ toServer[c] # <<>> /\ Head(toServer[c]).type # "Relay"
     /\ toServer'[c] = Tail(toServer[c])

\* A step of the server about connections that do not relay, or not any more.
LEMMA CalmRelays ==
  ASSUME StreamsInv, RelayInv, NEW S, Touches(S),
         \A c \in Conns : Calm(c) /\ Speaks(c) /\ ReadsOther(c),
         \A c \in S : ~InRelay(c)', \A c \in Conns : InRelay(c)' => InRelay(c),
         Starts', Tells'
  PROVE  RelayInv'
<1>1. ChansOK /\ UNCHANGED <<client, peer, sent, received>>
  BY DEF StreamsInv, Touches, clientVars
<1>2. NoNews
  BY CalmTells DEF StreamsInv
<1>3. CountsOK'
  BY <1>1 DEF RelayInv, CountsOK
<1>4. Flows'
  <2> SUFFICES ASSUME NEW e \in Conns
               PROVE  \E j \in Nat : /\ Upload(e, j)'
                                     /\ \A d \in Conns : Told(d, e)' => Download(d, e, j)'
    BY DEF Flows
  <2>1. PICK j \in Nat : Upload(e, j) /\ \A d \in Conns : Told(d, e) => Download(d, e, j)
    BY DEF RelayInv, Flows
  <2>2. Upload(e, j)'
    BY <1>1, <2>1, UploadKept, UploadRead DEF ReadsOther
  <2>3. ASSUME NEW d \in Conns, Told(d, e)' PROVE Download(d, e, j)'
    <3>1. Download(d, e, j)
      BY <1>2, <2>1, <2>3 DEF NoNews
    <3>2. InRelay(d)' => InRelay(d) /\ toClient'[d] = toClient[d]
      BY DEF Touches
    <3>3. j <= j
      OBVIOUS
    <3>4. QED
      BY <1>1, <3>1, <3>2, <3>3, DownloadKept
  <2>4. QED
    BY <2>2, <2>3
<1>5. Untold'
  <2> SUFFICES ASSUME NEW d \in Conns, \A e \in Conns : ~Told(d, e)'
               PROVE  received'[d] = <<>> /\ NoRelay(toClient'[d])
    BY DEF Untold
  <2>1. \A e \in Conns : ~Told(d, e)
    BY <1>1, SpeaksKeeps
  <2>2. QED
    BY <1>1, <2>1, SpeaksKeeps DEF RelayInv, Untold
<1>6. QED
  BY <1>3, <1>4, <1>5 DEF RelayInv

\* A step of a pair that does not relay yet, whatever its clients get.
LEMMA BlankRelays ==
  ASSUME StreamsInv, StreamsInv', RelayInv, NEW p \in pairs, p.stage # "relaying",
         Touches(ConnsOf(p)), \A c \in Conns : Speaks(c),
         \A c \in Conns \ ConnsOf(p) : InRelay(c)' => InRelay(c),
         \A c, d \in Conns : Told(d, c)' =>
           Told(d, c) \/ (c \in ConnsOf(p) /\ d \in ConnsOf(p)),
         Starts', Tells'
  PROVE  RelayInv'
<1>1. /\ ChansOK /\ ChansOK' /\ UNCHANGED <<client, peer, sent, received>>
      /\ ConnsOf(p) \subseteq Conns
  BY DEF StreamsInv, Touches, clientVars, PoolsInv, PairOK, ConnsOf
<1>2. CountsOK'
  BY <1>1 DEF RelayInv, CountsOK
<1>3. \A c \in ConnsOf(p) :
        /\ Blank(c) /\ \A d \in Conns : Told(c, d) \/ Told(d, c) => d \in ConnsOf(p)
  BY BlankPair
<1>4. ASSUME NEW c \in ConnsOf(p)
      PROVE  /\ sent'[c] = 0 /\ received'[c] = <<>>
             /\ NoRelay(toServer'[c]) /\ NoRelay(toClient'[c])
             /\ Alive(c)' => \A m \in Msgs(toServer'[c]) : m.type # "Eof"
  <2>1. c \in Conns /\ Blank(c)
    BY <1>1, <1>3
  <2>2. sent'[c] = 0 /\ received'[c] = <<>> /\ NoRelay(toClient'[c])
    BY <1>1, <2>1, SpeaksKeeps DEF Blank
  <2>3. Msgs(toServer'[c]) \subseteq Msgs(toServer[c])
    BY <1>1, <2>1, TailSeq DEF Touches, Heeds, ChansOK
  <2>4. Alive(c) => \A m \in Msgs(toServer[c]) : m.type # "Eof"
    BY <2>1 DEF RelayInv, Flows, Upload
  <2>5. QED
    BY <1>1, <2>1, <2>2, <2>3, <2>4 DEF Blank, NoRelay, Alive
<1>5. Flows'
  <2> SUFFICES ASSUME NEW e \in Conns
               PROVE  \E j \in Nat : /\ Upload(e, j)'
                                     /\ \A d \in Conns : Told(d, e)' => Download(d, e, j)'
    BY DEF Flows
  <2>1. CASE e \in ConnsOf(p)
    <3>1. Upload(e, 0)'
      BY <1>1, <1>4, <2>1, UploadBlank
    <3>2. ASSUME NEW d \in Conns, Told(d, e)' PROVE Download(d, e, 0)'
      <4>1. d \in ConnsOf(p)
        BY <1>3, <2>1, <3>2
      <4>2. QED
        BY <1>1, <1>4, <4>1, DownloadBlank
    <3>3. QED
      BY <3>1, <3>2
  <2>2. CASE e \notin ConnsOf(p)
    <3>1. PICK j \in Nat : /\ Upload(e, j)
                           /\ \A d \in Conns : Told(d, e) => Download(d, e, j)
      BY DEF RelayInv, Flows
    <3>2. Upload(e, j)'
      BY <1>1, <2>2, <3>1, UploadKept DEF Touches
    <3>3. ASSUME NEW d \in Conns, Told(d, e)' PROVE Download(d, e, j)'
      <4>1. Told(d, e) /\ d \notin ConnsOf(p)
        BY <1>3, <2>2, <3>3
      <4>2. Download(d, e, j) /\ toClient'[d] = toClient[d] /\ (InRelay(d)' => InRelay(d))
        BY <3>1, <4>1 DEF Touches
      <4>3. QED
        BY <1>1, <4>2 DEF Download, Alive
    <3>4. QED
      BY <3>2, <3>3
  <2>3. QED
    BY <2>1, <2>2
<1>6. Untold'
  <2> SUFFICES ASSUME NEW d \in Conns, \A e \in Conns : ~Told(d, e)'
               PROVE  received'[d] = <<>> /\ NoRelay(toClient'[d])
    BY DEF Untold
  <2>1. \A e \in Conns : ~Told(d, e)
    BY <1>1, SpeaksKeeps
  <2>2. QED
    BY <1>1, <2>1, SpeaksKeeps DEF RelayInv, Untold
<1>7. QED
  BY <1>2, <1>5, <1>6 DEF RelayInv

\* A pair goes on with the same connections, or ends.
LEMMA PairFrame ==
  ASSUME StreamsInv, RelayInv, NEW p \in pairs, NEW Q, \A q \in Q : Moves(p, q),
         pairs' = (pairs \ {p}) \cup Q,
         UNCHANGED <<accepting, waiting>>, UNCHANGED clientVars,
         \A c \in Conns : Relayed(c)' =>
           Relayed(c) \/ (c \in ConnsOf(p) /\ \A q \in Q : q.stage = "relaying"),
         p.stage = "relaying" => \A q \in Q : q.stage = "relaying",
         \A c \in Conns : Speaks(c),
         \A q \in Q : q.stage # "joining" =>
           \/ p.stage # "joining"
           \/ \A c \in ConnsOf(p) : Alive(c) => Told(c, PeerIn(p, c))'
  PROVE  /\ Starts' /\ Tells'
         /\ \A c \in Conns \ ConnsOf(p) : InRelay(c)' => InRelay(c)
         /\ Q = {} => \A c \in ConnsOf(p) : ~InRelay(c)'
<1>1. /\ UNCHANGED <<client, peer, sent>> /\ ChansOK /\ ConnsOf(p) \subseteq Conns
      /\ \A c \in ConnsOf(p) : accepting[c] = "done" /\ ~Waits(c)
      /\ \A x \in pairs \ {p} : ConnsOf(x) \cap ConnsOf(p) = {}
      /\ \A x \in pairs : ConnsOf(x) \subseteq Conns
  BY DEF clientVars, StreamsInv, PoolsInv, PairOK, ConnsOf, PairsAreSessions, Paired
<1>2. \A q \in Q : ConnsOf(q) = ConnsOf(p) /\ \A c : PeerIn(q, c) = PeerIn(p, c)
  BY DEF Moves, ConnsOf, PeerIn
<1>3. Starts'
  <2> SUFFICES ASSUME NEW c \in Conns, sent[c] # 0 \/ Relayed(c)'
               PROVE  /\ accepting[c] = "done" /\ ~Waits(c)
                      /\ \A x \in pairs' : c \in ConnsOf(x) => x.stage = "relaying"
    BY <1>1 DEF Starts, Waits
  <2>1. CASE c \in ConnsOf(p)
    <3>1. sent[c] # 0 \/ Relayed(c) => p.stage = "relaying"
      BY <2>1 DEF RelayInv, Starts
    <3>2. QED
      BY <1>1, <2>1, <3>1
  <2>2. CASE c \notin ConnsOf(p)
    BY <1>2, <2>2 DEF RelayInv, Starts
  <2>3. QED
    BY <2>1, <2>2
<1>4. Tells'
  <2> SUFFICES ASSUME NEW x \in pairs', x.stage # "joining", NEW c \in ConnsOf(x), Alive(c)
               PROVE  Told(c, PeerIn(x, c))'
    BY <1>1 DEF Tells, Alive
  <2>1. c \in Conns
    BY <1>1, <1>2
  <2>2. CASE x \in pairs
    BY <1>1, <2>1, <2>2, SpeaksKeeps DEF RelayInv, Tells
  <2>3. CASE x \in Q /\ p.stage # "joining"
    BY <1>1, <1>2, <2>1, <2>3, SpeaksKeeps DEF RelayInv, Tells
  <2>4. QED
    BY <1>2, <2>2, <2>3
<1>5. \A c \in Conns \ ConnsOf(p) : InRelay(c)' => InRelay(c)
  BY <1>2 DEF InRelay
<1>6. Q = {} => \A c \in ConnsOf(p) : ~InRelay(c)'
  BY <1>1 DEF InRelay
<1>7. QED
  BY <1>3, <1>4, <1>5, <1>6

\* A step about connections that are in no pair and were told of nobody.
LEMMA NewRelays ==
  ASSUME StreamsInv, RelayInv, NEW S, S \subseteq Conns,
         \A c \in S : accepting[c] # "done" \/ Waits(c),
         Touches(S), \A c \in Conns : Calm(c) /\ Speaks(c),
         \A c \in Conns : accepting[c] = "done" /\ ~Waits(c) =>
                            accepting'[c] = "done" /\ ~Waits(c)',
         \A p \in pairs' : p \in pairs \/ (p.stage = "joining" /\ ConnsOf(p) \subseteq S)
  PROVE  RelayInv'
<1>1. /\ ChansOK /\ UNCHANGED <<client, peer, sent, received>>
      /\ \A p \in pairs : ConnsOf(p) \subseteq Conns
      /\ \A p \in pairs : ConnsOf(p) \cap S = {}
  <2>1. \A p \in pairs : \A c \in ConnsOf(p) :
          c \in Conns /\ accepting[c] = "done" /\ ~Waits(c)
    BY DEF StreamsInv, PoolsInv, PairOK, ConnsOf, PairsAreSessions, Paired
  <2>2. QED
    BY <2>1 DEF StreamsInv, Touches, clientVars
<1>2. NoNews
  BY CalmTells DEF StreamsInv
<1>3. \A c \in S : Blank(c) /\ ~Relayed(c)
  BY BlankNew
<1>4. \A c \in Conns : ReadsOther(c)
  <2> SUFFICES ASSUME NEW c \in Conns PROVE ReadsOther(c)
    OBVIOUS
  <2>1. CASE c \in S
    <3>1. toServer[c] # <<>> => Head(toServer[c]).type # "Relay"
      BY <1>1, <1>3, <2>1, TailSeq DEF Blank, NoRelay, ChansOK
    <3>2. QED
      BY <3>1 DEF Touches, Heeds, ReadsOther
  <2>2. CASE c \notin S
    BY <2>2 DEF Touches, ReadsOther
  <2>3. QED
    BY <2>1, <2>2
<1>5. Starts'
  <2> SUFFICES ASSUME NEW c \in Conns, sent[c] # 0 \/ Relayed(c)
               PROVE  /\ accepting'[c] = "done" /\ ~Waits(c)'
                      /\ \A p \in pairs' : c \in ConnsOf(p) => p.stage = "relaying"
    BY <1>1, <1>2 DEF Starts, NoNews
  <2>1. c \notin S
    BY <1>3 DEF Blank
  <2>2. /\ accepting[c] = "done" /\ ~Waits(c)
        /\ \A p \in pairs : c \in ConnsOf(p) => p.stage = "relaying"
    BY DEF RelayInv, Starts
  <2>3. QED
    BY <2>1, <2>2
<1>6. Tells'
  <2> SUFFICES ASSUME NEW p \in pairs', p.stage # "joining", NEW c \in ConnsOf(p), Alive(c)
               PROVE  Told(c, PeerIn(p, c))'
    BY <1>1 DEF Tells, Alive
  <2>1. p \in pairs /\ c \in Conns
    BY <1>1
  <2>2. Told(c, PeerIn(p, c))
    BY <2>1 DEF RelayInv, Tells
  <2>3. QED
    BY <1>1, <2>1, <2>2, SpeaksKeeps
<1>7. \A c \in Conns : InRelay(c)' => InRelay(c)
  BY DEF InRelay
<1>8. \A c \in S : ~InRelay(c)'
  BY <1>1 DEF InRelay
<1>9. QED
  BY <1>4, <1>5, <1>6, <1>7, <1>8, CalmRelays

\* A connection has sent its key, or has failed to.
LEMMA KeyTaskRelays ==
  ASSUME StreamsInv, RelayInv, NEW c \in Conns, KeyTask(c), UNCHANGED clientVars
  PROVE  RelayInv'
<1>1. /\ accepting[c] = "waiting_key" /\ UNCHANGED <<waiting, pairs>>
      /\ \A d \in Conns \ {c} : accepting'[d] = accepting[d]
  BY DEF KeyTask, ReceiveKey, NoKey, StreamsInv, PoolsInv, Handled
<1>2. PICK msgs : /\ toClient' = SendingTo(c, msgs) /\ Harmless(msgs)
                  /\ IsSeq(msgs) /\ NoRelay(msgs)
  <2>1. /\ Message("KeyAccepted").type \notin Asks \cup {"PeerJoined", "Relay"}
        /\ Message("KeyRejected").type \notin Asks \cup {"PeerJoined", "Relay"}
    BY DEF Message, Asks
  <2>2. QED
    BY <2>1, HarmlessWords, NoPayloads DEF KeyTask, ReceiveKey, NoKey
<1>3. /\ DOMAIN toServer' = Conns /\ Heeds(c)
      /\ \A d \in Conns \ {c} : toServer'[d] = toServer[d]
  BY DEF KeyTask, ReceiveKey, NoKey, Unread, Heeds, Eof, Message, StreamsInv,
         ChansOK
<1>4. PICK S : S = {c}
  OBVIOUS
<1>5. Touches(S) /\ \A d \in Conns : Calm(d) /\ Speaks(d)
  BY <1>2, <1>3, <1>4, CalmSendingTo, SendingToSpeaks DEF Touches, Heeds, StreamsInv
<1>6. \A d \in Conns : accepting[d] = "done" /\ ~Waits(d) =>
                         accepting'[d] = "done" /\ ~Waits(d)'
  BY <1>1 DEF Waits
<1>7. QED
  BY <1>1, <1>4, <1>5, <1>6, NewRelays

\* Those who stop waiting are turned away.
LEMMA StopWaitingRelays ==
  ASSUME StreamsInv, RelayInv, NEW K, K \subseteq DOMAIN waiting, StopWaiting(K),
         UNCHANGED clientVars, DOMAIN toServer' = Conns,
         \A c \in Conns : Heeds(c),
         \A c \in Conns \ {waiting[k] : k \in K} : toServer'[c] = toServer[c]
  PROVE  RelayInv'
<1>0. PICK S : S = {waiting[k] : k \in K}
  OBVIOUS
<1>1. \A c \in S : c \in Conns /\ Waits(c)
  BY <1>0 DEF StreamsInv, PoolsInv, WaitingOK, Waits
<1>2. Touches(S) /\ \A c \in Conns : Calm(c) /\ Speaks(c)
  <2>1. toClient' = Sending(Dropping(S, {}))
    BY <1>0 DEF StopWaiting
  <2>2. \A c \in Conns \ S : toServer'[c] = toServer[c]
    BY <1>0
  <2>3. QED
    BY <2>1, <2>2, CalmDropping, DroppingSpeaks DEF Touches, StreamsInv
<1>3. UNCHANGED <<accepting, pairs>> /\ \A c \in Conns : Waits(c)' => Waits(c)
  BY DEF StopWaiting, Restrict, Waits
<1>4. QED
  BY <1>1, <1>2, <1>3, NewRelays

\* The loop turns away, pairs or keeps waiting a client whose key was accepted.
LEMMA AcceptedRelays ==
  ASSUME StreamsInv, RelayInv, NEW c \in Conns, HandleAcceptedConnection(c),
         UNCHANGED clientVars
  PROVE  RelayInv'
<1> DEFINE k == Other[KeyOf[c]]
<1>1. /\ accepting[c] = "accepted" /\ accepting'[c] = "done"
      /\ \A d \in Conns \ {c} : accepting'[d] = accepting[d]
      /\ UNCHANGED toServer /\ DOMAIN toServer = Conns /\ DOMAIN toClient = Conns
  BY DEF HandleAcceptedConnection, StreamsInv, PoolsInv, Handled, ChansOK
<1>2. \A d \in Conns : Heeds(d)
  BY <1>1 DEF Heeds
<1>3. PICK S : S = {c}
  OBVIOUS
<1>4. CASE /\ toClient' = SendingTo(c, <<Message("AlreadyJoined")>> \o Goodbye)
           /\ UNCHANGED <<waiting, pairs>>
  <2>1. PICK msgs : /\ msgs = <<Message("AlreadyJoined")>> \o Goodbye
                    /\ Harmless(msgs) /\ IsSeq(msgs) /\ NoRelay(msgs)
    <3>1. Message("AlreadyJoined").type \notin Asks \cup {"PeerJoined", "Relay"}
      BY DEF Message, Asks
    <3>2. QED
      BY <3>1, HarmlessWords, NoPayloads
  <2>2. Touches(S) /\ \A d \in Conns : Calm(d) /\ Speaks(d)
    BY <1>1, <1>2, <1>3, <1>4, <2>1, CalmSendingTo, SendingToSpeaks
       DEF Touches, StreamsInv
  <2>3. \A d \in Conns : Waits(d)' => Waits(d)
    BY <1>4 DEF Waits
  <2>4. QED
    BY <1>1, <1>3, <1>4, <2>2, <2>3, NewRelays
<1>5. ASSUME UNCHANGED toClient, NEW T
      PROVE  Touches(T) /\ \A d \in Conns : Calm(d) /\ Speaks(d)
  BY <1>1, <1>2, <1>5 DEF Touches, Gets, Calm, Speaks
<1>6. CASE StartWaiting(c) /\ KeyOf[c] \notin DOMAIN waiting /\ UNCHANGED <<toClient, pairs>>
  <2>1. /\ DOMAIN waiting' = DOMAIN waiting \cup {KeyOf[c]}
        /\ waiting'[KeyOf[c]] = c
        /\ \A x \in DOMAIN waiting : waiting'[x] = waiting[x]
    BY <1>6 DEF StartWaiting, Insert
  <2>2. \A d \in Conns \ {c} : Waits(d)' => Waits(d)
    BY <2>1 DEF Waits
  <2>3. QED
    BY <1>1, <1>3, <1>5, <1>6, <2>2, NewRelays
<1>7. CASE PairWithWaiting(c) /\ PeerWaits(c) /\ UNCHANGED toClient
  <2>1. PICK w, T, new : w = waiting[k] /\ T = {c, w} /\ new = NewPair(c, w)
    OBVIOUS
  <2>2. /\ k \in DOMAIN waiting /\ pairs' = pairs \cup {new}
        /\ waiting' = Restrict(waiting, DOMAIN waiting \ {k})
    BY <1>7, <2>1 DEF PairWithWaiting, PeerWaits
  <2>3. w \in Conns /\ Waits(w)
    BY <2>1, <2>2 DEF StreamsInv, PoolsInv, WaitingOK, Waits
  <2>4. \A d \in Conns : Waits(d)' => Waits(d)
    BY <2>2 DEF Waits, Restrict
  <2>5. new.stage = "joining" /\ ConnsOf(new) \subseteq T
    BY <2>1 DEF ConnsOf, NewPair
  <2>6. Touches(T) /\ \A d \in Conns : Calm(d) /\ Speaks(d)
    BY <1>5, <1>7
  <2>7. /\ T \subseteq Conns /\ \A d \in T : accepting[d] # "done" \/ Waits(d)
        /\ \A p \in pairs' : p \in pairs \/ (p.stage = "joining" /\ ConnsOf(p) \subseteq T)
    BY <1>1, <2>1, <2>2, <2>3, <2>5
  <2>8. \A d \in Conns : accepting[d] = "done" /\ ~Waits(d) =>
                           accepting'[d] = "done" /\ ~Waits(d)'
    BY <1>1, <2>4
  <2>9. QED
    BY <2>6, <2>7, <2>8, NewRelays
<1>8. QED
  BY <1>4, <1>6, <1>7 DEF HandleAcceptedConnection

\* The loop, and the expiry of those who wait.
LEMMA LoopRelays ==
  ASSUME StreamsInv, RelayInv, Loop \/ CleanExpiredConnections, UNCHANGED clientVars
  PROVE  RelayInv'
<1>1. CASE \E c \in Conns : HandleAcceptedConnection(c)
  BY <1>1, AcceptedRelays
<1>2. ASSUME NEW k \in Keys, HandleClosedWaitingConnection(k) PROVE RelayInv'
  <2>1. k \in DOMAIN waiting /\ waiting[k] \in Conns /\ StopWaiting({k})
    BY <1>2 DEF HandleClosedWaitingConnection, StreamsInv, PoolsInv, WaitingOK
  <2>2. /\ DOMAIN toServer' = Conns /\ \A c \in Conns : Heeds(c)
        /\ \A c \in Conns \ {waiting[k]} : toServer'[c] = toServer[c]
    BY <1>2, <2>1, Reading DEF HandleClosedWaitingConnection, StreamsInv
  <2>3. {waiting[x] : x \in {k}} = {waiting[k]}
    OBVIOUS
  <2>4. QED
    BY <2>1, <2>2, <2>3, StopWaitingRelays
<1>3. CASE CleanExpiredConnections
  <2>1. PICK K : K \subseteq DOMAIN waiting /\ StopWaiting(K) /\ UNCHANGED toServer
    BY <1>3 DEF CleanExpiredConnections
  <2>2. QED
    BY <2>1, StopWaitingRelays DEF Heeds, StreamsInv, ChansOK
<1>4. QED
  BY <1>1, <1>2, <1>3 DEF Loop

\* The task of a pair returns and drops both connections.
LEMMA PairEndsRelays ==
  ASSUME StreamsInv, RelayInv, NEW p \in pairs, NEW X, PairEnds(p, X),
         UNCHANGED <<accepting, waiting>>, UNCHANGED clientVars,
         DOMAIN toServer' = Conns, \A c \in Conns : Heeds(c) /\ ReadsOther(c),
         \A c \in Conns \ ConnsOf(p) : toServer'[c] = toServer[c]
  PROVE  RelayInv'
<1>1. PICK S : S = ConnsOf(p)
  OBVIOUS
<1>2. toClient' = Sending(Dropping(S, X))
  BY <1>1 DEF PairEnds
<1>3. Touches(S) /\ \A c \in Conns : Calm(c) /\ Speaks(c)
  BY <1>1, <1>2, CalmDropping, DroppingSpeaks DEF Touches, StreamsInv
<1>4. \A c \in Conns : Relayed(c)' => Relayed(c)
  BY <1>3, CalmTells DEF StreamsInv, NoNews
<1>5. PICK Q : Q = {}
  OBVIOUS
<1>6. pairs' = (pairs \ {p}) \cup Q
  BY <1>5 DEF PairEnds
<1>7. /\ Starts' /\ Tells'
      /\ \A c \in Conns \ ConnsOf(p) : InRelay(c)' => InRelay(c)
      /\ \A c \in ConnsOf(p) : ~InRelay(c)'
  BY <1>3, <1>4, <1>5, <1>6, PairFrame
<1>8. QED
  BY <1>1, <1>3, <1>7, CalmRelays

\* A pair that does not relay yet goes on to another stage.
LEMMA StageRelays ==
  ASSUME StreamsInv, StreamsInv', RelayInv, NEW p \in pairs, p.stage # "relaying",
         NEW q, Moves(p, q), Becomes(p, q), UNCHANGED <<accepting, waiting>>,
         Touches(ConnsOf(p)), \A c \in Conns : Speaks(c),
         \A c \in ConnsOf(p) : Relayed(c)' => Relayed(c) \/ q.stage = "relaying",
         q.stage # "joining" =>
           \/ p.stage # "joining"
           \/ \A c \in ConnsOf(p) : Alive(c) => Told(c, PeerIn(p, c))'
  PROVE  RelayInv'
<1>1. PICK Q : Q = {q}
  OBVIOUS
<1>2. /\ \A x \in Q : Moves(p, x)
      /\ pairs' = (pairs \ {p}) \cup Q
      /\ UNCHANGED clientVars
      /\ \A c \in Conns \ ConnsOf(p) : toClient'[c] = toClient[c]
  BY <1>1 DEF Becomes, Touches
<1>3. \A c \in Conns : Relayed(c)' =>
        Relayed(c) \/ (c \in ConnsOf(p) /\ \A x \in Q : x.stage = "relaying")
  BY <1>1, <1>2 DEF Relayed, clientVars
<1>4. \A x \in Q : x.stage # "joining" =>
        \/ p.stage # "joining"
        \/ \A c \in ConnsOf(p) : Alive(c) => Told(c, PeerIn(p, c))'
  BY <1>1
<1>5. /\ Starts' /\ Tells'
      /\ \A c \in Conns \ ConnsOf(p) : InRelay(c)' => InRelay(c)
  BY <1>2, <1>3, <1>4, PairFrame
<1>6. ASSUME NEW c \in Conns, NEW d \in Conns, Told(d, c)'
      PROVE  Told(d, c) \/ (c \in ConnsOf(p) /\ d \in ConnsOf(p))
  <2>1. CASE d \in ConnsOf(p)
    <3>1. q \in pairs' /\ d \in ConnsOf(q) /\ PeerIn(q, d) \in ConnsOf(p)
      BY <1>1, <1>2, <2>1 DEF Moves, ConnsOf, PeerIn
    <3>2. PeerIn(q, d) = c
      BY <1>6, <3>1 DEF StreamsInv, PairsOK
    <3>3. QED
      BY <2>1, <3>1, <3>2
  <2>2. CASE d \notin ConnsOf(p)
    BY <1>2, <1>6, <2>2 DEF Told, clientVars
  <2>3. QED
    BY <2>1, <2>2
<1>7. QED
  BY <1>5, <1>6, BlankRelays

\* It asks both its clients for something.
LEMMA AskingRelays ==
  ASSUME StreamsInv, StreamsInv', RelayInv, NEW p \in pairs,
         p.stage \notin {"relaying", "joining"},
         UNCHANGED <<accepting, waiting>>, UNCHANGED clientVars,
         DOMAIN toServer' = Conns, \A c \in Conns : Heeds(c),
         \A c \in Conns \ ConnsOf(p) : toServer'[c] = toServer[c],
         NEW m1, NEW m2, toClient' = SendingBoth(p.con1, m1, p.con2, m2),
         m1.type # "Relay", m2.type # "Relay",
         NEW s, Becomes(p, AtStage(p, s)),
         s = "relaying" \/ (m1.type # "StartRelayMode" /\ m2.type # "StartRelayMode")
  PROVE  RelayInv'
<1>1. /\ IsPair(p) /\ ConnsOf(p) \subseteq Conns /\ ChansOK
  BY DEF StreamsInv, PoolsInv, PairOK, ConnsOf
<1>2. /\ DOMAIN toClient' = Conns
      /\ \A c \in Conns : Gets(c) /\ Speaks(c)
      /\ \A c \in Conns \ ConnsOf(p) : toClient'[c] = toClient[c]
      /\ \A c \in Conns : Msgs(toClient'[c]) \subseteq Msgs(toClient[c]) \cup {m1, m2}
  BY <1>1, SendingBothSpeaks
<1>3. Touches(ConnsOf(p))
  BY <1>2 DEF Touches
<1>4. PICK q : q = AtStage(p, s)
  OBVIOUS
<1>5. Moves(p, q) /\ q.stage = s /\ Becomes(p, q)
  BY <1>1, <1>4, AtStageMoves, AtStageIs
<1>6. \A c \in ConnsOf(p) : Relayed(c)' => Relayed(c) \/ q.stage = "relaying"
  <2> SUFFICES ASSUME NEW c \in ConnsOf(p), Relayed(c)', s # "relaying" PROVE Relayed(c)
    BY <1>5
  <2>1. Msgs(toClient'[c]) \subseteq Msgs(toClient[c]) \cup {m1, m2} /\ client' = client
    BY <1>1, <1>2 DEF clientVars
  <2>2. QED
    BY <2>1 DEF Relayed
<1>7. QED
  BY <1>2, <1>3, <1>5, <1>6, StageRelays

\* It tells its clients of each other.
LEMMA PeerJoinedRelays ==
  ASSUME StreamsInv, StreamsInv', RelayInv, NEW p \in pairs, SendPeerJoined(p),
         UNCHANGED clientVars
  PROVE  RelayInv'
<1>0. PICK m1, m2 : /\ m1 = [type |-> "PeerJoined", peer |-> p.con2]
                    /\ m2 = [type |-> "PeerJoined", peer |-> p.con1]
  OBVIOUS
<1>1. /\ IsPair(p) /\ p.con1 \in Conns /\ p.con2 \in Conns /\ p.con1 # p.con2
      /\ ConnsOf(p) = {p.con1, p.con2} /\ ChansOK /\ EndedOK
      /\ p.stage = "joining"
      /\ toClient' = SendingBoth(p.con1, m1, p.con2, m2) /\ toServer' = toServer
      /\ UNCHANGED <<accepting, waiting>>
  BY <1>0, ServerAssumption
     DEF StreamsInv, PoolsInv, PairOK, ConnsOf, SendPeerJoined
<1>2. \A c \in ConnsOf(p) : Quiet(c)
  BY <1>1 DEF StreamsInv, PairsOK, StageOK
<1>3. Touches(ConnsOf(p)) /\ Get(p, m1, m2)
  <2>1. /\ DOMAIN toServer' = Conns /\ \A c \in Conns : Heeds(c)
        /\ \A c \in Conns \ ConnsOf(p) : toServer'[c] = toServer[c]
        /\ \A c \in ConnsOf(p) : Alive(c) => toServer'[c] = <<>>
    BY <1>1, <1>2 DEF Heeds, Quiet, ChansOK
  <2>2. QED
    BY <1>1, <2>1, BothGet
<1>4. m1.type = "PeerJoined" /\ m2.type = "PeerJoined"
  BY <1>0
<1>5. /\ \A c \in Conns : Speaks(c)
      /\ \A c \in Conns : Msgs(toClient'[c]) \subseteq Msgs(toClient[c]) \cup {m1, m2}
  <2>1. ConnsOf(p) \subseteq Conns /\ m1.type # "Relay" /\ m2.type # "Relay"
    BY <1>1, <1>4
  <2>2. QED
    BY <1>1, <2>1, SendingBothSpeaks
<1>6. PICK q : q = AtStage(p, "joined")
  OBVIOUS
<1>7. Moves(p, q) /\ q.stage = "joined" /\ Becomes(p, q)
  BY <1>1, <1>6, AtStageMoves, AtStageIs DEF SendPeerJoined
<1>8. \A c \in ConnsOf(p) : Relayed(c)' => Relayed(c)
  BY <1>1, <1>4, <1>5 DEF Relayed, clientVars
<1>9. ASSUME NEW c \in ConnsOf(p), Alive(c) PROVE Told(c, PeerIn(p, c))'
  <2>1. PICK m : /\ m.type = "PeerJoined" /\ m.peer = PeerIn(p, c)
                 /\ toClient'[c] = toClient[c] \o <<m>>
    BY <1>0, <1>1, <1>3, <1>9 DEF Get, PeerIn
  <2>2. PICK w : w = <<m>> /\ IsSeq(w) /\ Msgs(w) = {m}
    BY ShortSeq
  <2>3. Msgs(toClient'[c]) = Msgs(toClient[c]) \cup {m}
    <3>1. IsSeq(toClient[c]) /\ toClient'[c] = toClient[c] \o w
      BY <1>1, <2>1, <2>2 DEF ChansOK
    <3>2. Msgs(toClient[c] \o w) = Msgs(toClient[c]) \cup Msgs(w)
      BY <2>2, <3>1, ConcatSeq
    <3>3. QED
      BY <2>2, <3>1, <3>2
  <2>4. PeerIn(p, c)' = PeerIn(p, c)
    BY DEF PeerIn
  <2>5. QED
    BY <2>1, <2>3, <2>4 DEF Told
<1>10. QED
  BY <1>1, <1>3, <1>5, <1>7, <1>8, <1>9, StageRelays

\* What the clients of such a pair have said is no payload.
LEMMA ReadsAnswer ==
  ASSUME StreamsInv, RelayInv, NEW p \in pairs, p.stage # "relaying",
         \A c \in Conns : Heeds(c),
         \A c \in Conns \ ConnsOf(p) : toServer'[c] = toServer[c]
  PROVE  \A c \in Conns : ReadsOther(c)
<1> SUFFICES ASSUME NEW c \in ConnsOf(p), c \in Conns, toServer[c] # <<>>
             PROVE  Head(toServer[c]).type # "Relay"
  BY DEF ReadsOther, Heeds
<1>1. Blank(c)
  BY BlankPair
<1>2. QED
  BY <1>1, TailSeq DEF Blank, NoRelay, StreamsInv, ChansOK

\* Both answers are there.
LEMMA BothRelays ==
  ASSUME StreamsInv, StreamsInv', RelayInv, NEW p \in pairs,
         p.stage \in {"binding", "attempting"},
         UNCHANGED <<accepting, waiting>>, UNCHANGED clientVars,
         DOMAIN toServer' = Conns, \A c \in Conns : Heeds(c),
         \A c \in Conns \ ConnsOf(p) : toServer'[c] = toServer[c],
         NEW r1, NEW r2, BoundResults(p, r1, r2) \/ AttemptResults(p, r1, r2)
  PROVE  RelayInv'
<1>1. IsPair(p) /\ ConnsOf(p) \subseteq Conns
  BY DEF StreamsInv, PoolsInv, PairOK, ConnsOf
<1>2. ASSUME StartRelay(p) PROVE RelayInv'
  <2>1. PICK m, s : m = Message("StartRelayMode") /\ s = "relaying"
    OBVIOUS
  <2>2. /\ toClient' = SendingBoth(p.con1, m, p.con2, m) /\ m.type # "Relay"
        /\ Becomes(p, AtStage(p, s))
    BY <1>2, <2>1 DEF StartRelay, Message
  <2>3. QED
    BY <2>1, <2>2, AskingRelays
<1>3. ASSUME PairEnds(p, {}) PROVE RelayInv'
  BY <1>3, ReadsAnswer, PairEndsRelays
<1>4. CASE /\ toClient' = SendingBoth(
                p.con1, [type |-> "AttemptDirectConnect", ports |-> r2.ports],
                p.con2, [type |-> "AttemptDirectConnect", ports |-> r1.ports])
           /\ Becomes(p, AtStage(p, "attempting"))
  <2>1. PICK m1, m2 : /\ m1 = [type |-> "AttemptDirectConnect", ports |-> r2.ports]
                      /\ m2 = [type |-> "AttemptDirectConnect", ports |-> r1.ports]
    OBVIOUS
  <2>2. /\ toClient' = SendingBoth(p.con1, m1, p.con2, m2)
        /\ m1.type = "AttemptDirectConnect" /\ m2.type = "AttemptDirectConnect"
    BY <1>4, <2>1
  <2>3. QED
    BY <1>4, <2>2, AskingRelays
<1>5. CASE Becomes(p, AtStage(p, "direct")) /\ UNCHANGED toClient
  <2>1. Touches(ConnsOf(p)) /\ \A c \in Conns : Speaks(c)
    BY <1>5 DEF Touches, Gets, Speaks, StreamsInv, ChansOK
  <2>2. PICK q : q = AtStage(p, "direct")
    OBVIOUS
  <2>3. Moves(p, q) /\ q.stage = "direct" /\ Becomes(p, q)
    BY <1>1, <1>5, <2>2, AtStageMoves, AtStageIs
  <2>4. \A c \in ConnsOf(p) : Relayed(c)' => Relayed(c)
    BY <1>5 DEF Relayed, clientVars
  <2>5. QED
    BY <2>1, <2>3, <2>4, StageRelays
<1>6. QED
  BY <1>2, <1>3, <1>4, <1>5 DEF BoundResults, AttemptResults

\* The server reads an answer of one client of a pair.
LEMMA ResultRelays ==
  ASSUME StreamsInv, StreamsInv', RelayInv, NEW p \in pairs, NEW c \in ConnsOf(p),
         ReceiveResult(p, c), UNCHANGED clientVars
  PROVE  RelayInv'
<1>1. PICK m, r : m = Head(toServer[c]) /\ r = Insert(p.results, c, m)
  OBVIOUS
<1>2. /\ p.stage \in {"binding", "attempting"} /\ Unread(toServer, c)
      /\ toServer' = [toServer EXCEPT ![c] = IF m = Eof THEN toServer[c]
                                             ELSE Tail(toServer[c])]
      /\ UNCHANGED <<accepting, waiting>>
      /\ \/ m = Eof /\ PairEnds(p, {})
         \/ Becomes(p, [p EXCEPT !.results = r]) /\ UNCHANGED toClient
         \/ BoundResults(p, r[p.con1], r[p.con2])
         \/ AttemptResults(p, r[p.con1], r[p.con2])
  BY <1>1 DEF ReceiveResult
<1>3. IsPair(p) /\ ConnsOf(p) \subseteq Conns
  BY DEF ConnsOf, StreamsInv, PoolsInv, PairOK
<1>4. /\ DOMAIN toServer' = Conns /\ \A d \in Conns : Heeds(d)
      /\ \A d \in Conns \ ConnsOf(p) : toServer'[d] = toServer[d]
  BY <1>1, <1>2, <1>3, Reading DEF StreamsInv
<1>5. CASE PairEnds(p, {})
  BY <1>2, <1>4, <1>5, ReadsAnswer, PairEndsRelays
<1>6. CASE Becomes(p, [p EXCEPT !.results = r]) /\ UNCHANGED toClient
  <2>1. PICK q : q = [p EXCEPT !.results = r]
    OBVIOUS
  <2>2. Moves(p, q) /\ q.stage = p.stage /\ Becomes(p, q)
    <3>1. q = [con1 |-> p.con1, con2 |-> p.con2, stage |-> p.stage, results |-> r]
      BY <1>3, <2>1 DEF IsPair
    <3>2. QED
      BY <1>6, <2>1, <3>1 DEF Moves, IsPair
  <2>3. Touches(ConnsOf(p)) /\ \A d \in Conns : Speaks(d)
    BY <1>4, <1>6 DEF Touches, Gets, Speaks, StreamsInv, ChansOK
  <2>4. \A d \in ConnsOf(p) : Relayed(d)' => Relayed(d)
    BY <1>6 DEF Relayed, clientVars
  <2>5. QED
    BY <1>2, <2>2, <2>3, <2>4, StageRelays
<1>7. CASE \/ BoundResults(p, r[p.con1], r[p.con2])
           \/ AttemptResults(p, r[p.con1], r[p.con2])
  BY <1>2, <1>4, <1>7, BothRelays
<1>8. QED
  BY <1>2, <1>5, <1>6, <1>7

\* A payload is passed on: the next one, to the client that was told of the
\* one that wrote it.
LEMMA PassingRelays ==
  ASSUME StreamsInv, RelayInv, NEW p \in pairs, NEW c \in ConnsOf(p),
         p.stage = "relaying", Unread(toServer, c), NEW m, m = Head(toServer[c]),
         m.type = "Relay", toServer' = [toServer EXCEPT ![c] = Tail(toServer[c])],
         toClient' = SendingTo(PeerIn(p, c), <<m>>),
         UNCHANGED <<accepting, waiting, pairs>>, UNCHANGED clientVars
  PROVE  RelayInv'
<1>0. PICK d, w : d = PeerIn(p, c) /\ w = <<m>> /\ IsSeq(w) /\ Msgs(w) = {m}
  BY ShortSeq
<1>1. /\ c \in Conns /\ d \in Conns /\ c # d /\ d \in ConnsOf(p) /\ PeerIn(p, d) = c
      /\ ChansOK /\ UNCHANGED <<client, peer, sent, received>>
  BY <1>0, ServerAssumption
     DEF StreamsInv, PoolsInv, PairOK, ConnsOf, PeerIn, clientVars
<1>2. /\ \A x \in Conns \ {d} : toClient'[x] = toClient[x]
      /\ Gone(d) => toClient'[d] = toClient[d]
      /\ ~Gone(d) => toClient'[d] = toClient[d] \o w
  <2>1. PICK sends : sends = [x \in {d} |-> w]
    OBVIOUS
  <2>2. toClient' = Sending(sends) /\ DOMAIN sends = {d} /\ sends[d] = w
    BY <1>0, <2>1 DEF SendingTo
  <2>3. QED
    BY <1>1, <2>2, SendingGets
<1>3. Alive(d) => ~Gone(d)
  <2> SUFFICES ASSUME Alive(d), Gone(d) PROVE FALSE
    OBVIOUS
  <2>1. \A x \in Msgs(toServer[d]) : x.type # "Eof"
    BY <1>1 DEF RelayInv, Flows, Upload
  <2>2. Len(toServer[d]) \in 1 .. Len(toServer[d])
    BY <1>1, TailSeq DEF ChansOK, Gone
  <2>3. Eof \in Msgs(toServer[d])
    BY <2>2 DEF Gone, Msgs
  <2>4. QED
    BY <2>1, <2>3 DEF Eof, Message
<1>4. /\ \A x \in Conns : /\ Msgs(toClient[x]) \subseteq Msgs(toClient'[x])
                          /\ Msgs(toClient'[x]) \subseteq Msgs(toClient[x]) \cup {m}
  <2>1. IsSeq(toClient[d])
    BY <1>1 DEF ChansOK
  <2>2. Msgs(toClient[d] \o w) = Msgs(toClient[d]) \cup Msgs(w)
    BY <1>0, <2>1, ConcatSeq
  <2>3. QED
    BY <1>0, <1>2, <2>2
<1>5. \A x \in Conns : \A y : Told(x, y)' <=> Told(x, y)
  BY <1>1, <1>4 DEF Told
<1>6. \A x : /\ InRelay(x)' = InRelay(x) /\ Alive(x)' = Alive(x)
  BY <1>1 DEF InRelay, Alive
<1>7. CountsOK'
  BY <1>1 DEF RelayInv, CountsOK
<1>8. Starts'
  <2>1. \A x \in Conns : Relayed(x)' => Relayed(x)
    BY <1>1, <1>4 DEF Relayed
  <2>2. QED
    BY <1>1, <2>1 DEF RelayInv, Starts, Waits
<1>9. Tells'
  <2>1. \A x \in pairs : ConnsOf(x) \subseteq Conns
    BY DEF StreamsInv, PoolsInv, PairOK, ConnsOf
  <2>2. QED
    BY <1>5, <1>6, <2>1 DEF RelayInv, Tells
<1>10. \A x \in Conns : (Told(x, c) => x = d) /\ (Told(d, x) => x = c)
  BY <1>0, <1>1 DEF StreamsInv, PairsOK
<1>11. Flows'
  <2> SUFFICES ASSUME NEW e \in Conns
               PROVE  \E j \in Nat : /\ Upload(e, j)'
                                     /\ \A x \in Conns : Told(x, e)' => Download(x, e, j)'
    BY DEF Flows
  <2>1. PICK j \in Nat : Upload(e, j) /\ \A x \in Conns : Told(x, e) => Download(x, e, j)
    BY DEF RelayInv, Flows
  <2>2. CASE e # c
    <3>1. Upload(e, j)'
      BY <1>1, <2>1, <2>2, UploadKept
    <3>2. ASSUME NEW x \in Conns, Told(x, e)' PROVE Download(x, e, j)'
      <4>1. Told(x, e) /\ x # d
        BY <1>5, <1>10, <2>2, <3>2
      <4>2. Download(x, e, j) /\ toClient'[x] = toClient[x]
        BY <1>2, <2>1, <4>1
      <4>3. QED
        BY <1>1, <1>6, <4>2 DEF Download
    <3>3. QED
      BY <3>1, <3>2
  <2>3. CASE e = c
    <3>0. Upload(c, j) /\ \A x \in Conns : Told(x, c) => Download(x, c, j)
      BY <2>1, <2>3
    <3>1. m = Payload(c, j + 1) /\ Upload(c, j + 1)'
      <4>1. toServer[c] # <<>> /\ toServer'[c] = Tail(toServer[c])
        BY <1>1 DEF Unread, ChansOK
      <4>2. QED
        BY <1>1, <3>0, <4>1, UploadRead
    <3>2. PICK k \in Nat : k = j + 1
      OBVIOUS
    <3>3. ASSUME Told(d, c) PROVE Download(d, c, k)'
      <4>1. PICK n \in Nat, a \in Nat, b \in Nat :
              /\ received[d] = [i \in 1 .. n |-> <<c, i>>]
              /\ Stretch(toClient[d], c, n, a, b)
              /\ n + (b - a) <= j
              /\ Alive(d) /\ InRelay(d) => n + (b - a) = j /\ b = Len(toClient[d])
        BY <1>1, <3>0, <3>3 DEF Download
      <4>2. CASE Alive(d)
        <5>1. InRelay(d)
          BY <1>1 DEF InRelay
        <5>2. n + (b - a) = j /\ b = Len(toClient[d])
          BY <4>1, <4>2, <5>1
        <5>3. n + (b - a) + 1 = k /\ n + ((b + 1) - a) = k /\ b + 1 \in Nat
          <6>1. n + (b - a) = j
            BY <5>2
          <6>2. QED
            BY <3>2, <6>1
        <5>4. PICK s, l : s = toClient[d] /\ l = b + 1
          OBVIOUS
        <5>5. IsSeq(s) /\ Stretch(s, c, n, a, Len(s)) /\ m = Payload(c, n + (Len(s) - a) + 1)
          BY <1>1, <3>1, <3>2, <4>1, <5>2, <5>3, <5>4 DEF ChansOK
        <5>6. Stretch(s \o <<m>>, c, n, a, Len(s) + 1) /\ Len(s \o <<m>>) = Len(s) + 1
          BY <5>5, StretchNext
        <5>7. toClient'[d] = s \o <<m>> /\ Len(s) + 1 = l
          BY <1>0, <1>2, <1>3, <4>2, <5>2, <5>4
        <5>8. Stretch(toClient'[d], c, n, a, l) /\ l = Len(toClient'[d])
          BY <5>6, <5>7
        <5>9. l \in Nat /\ n + (l - a) = k /\ n + (l - a) <= k
          BY <3>2, <5>3, <5>4
        <5>10. received'[d] = [i \in 1 .. n |-> <<c, i>>]
          BY <1>1, <4>1
        <5>11. QED
          BY <4>1, <5>8, <5>9, <5>10 DEF Download
      <4>3. CASE ~Alive(d)
        <5>1. toClient'[d] = toClient[d] /\ ~Alive(d)'
          BY <1>1, <1>2, <1>6, <4>3 DEF StreamsInv, EndedOK
        <5>2. n + (b - a) <= k
          BY <3>2, <4>1
        <5>3. QED
          BY <1>1, <4>1, <5>1, <5>2 DEF Download
      <4>4. QED
        BY <4>2, <4>3
    <3>4. QED
      BY <1>5, <1>10, <2>3, <3>1, <3>2, <3>3
  <2>4. QED
    BY <2>2, <2>3
<1>12. Untold'
  <2> SUFFICES ASSUME NEW x \in Conns, \A y \in Conns : ~Told(x, y)
               PROVE  received[x] = <<>> /\ NoRelay(toClient'[x])
    BY <1>1, <1>5 DEF Untold
  <2>1. received[x] = <<>> /\ NoRelay(toClient[x])
    BY DEF RelayInv, Untold
  <2>2. x = d => ~Alive(d)
    BY <1>1 DEF RelayInv, Tells
  <2>3. toClient'[x] = toClient[x]
    BY <1>1, <1>2, <2>2 DEF StreamsInv, EndedOK
  <2>4. QED
    BY <2>1, <2>3
<1>13. QED
  BY <1>7, <1>8, <1>9, <1>11, <1>12 DEF RelayInv

\* The task of a pair that streams passes messages on or ends.
LEMMA StreamingRelays ==
  ASSUME StreamsInv, RelayInv, NEW p \in pairs, NEW c \in ConnsOf(p),
         DirectEnds(p, c) \/ Relay(p, c), UNCHANGED clientVars
  PROVE  RelayInv'
<1>0. PICK m : m = Head(toServer[c])
  OBVIOUS
<1>1. /\ ConnsOf(p) \subseteq Conns /\ ChansOK
      /\ UNCHANGED <<accepting, waiting>> /\ Unread(toServer, c)
      /\ toServer' = [toServer EXCEPT ![c] = IF m = Eof THEN toServer[c]
                                             ELSE Tail(toServer[c])]
  BY <1>0 DEF ConnsOf, StreamsInv, PoolsInv, PairOK, DirectEnds, Relay
<1>2. /\ DOMAIN toServer' = Conns /\ \A d \in Conns : Heeds(d)
      /\ \A d \in Conns \ ConnsOf(p) : toServer'[d] = toServer[d]
      /\ \A d \in Conns \ {c} : toServer'[d] = toServer[d]
  BY <1>0, <1>1, Reading
<1>3. CASE DirectEnds(p, c)
  <2>1. p.stage # "relaying" /\ PairEnds(p, SaidClose(c, m))
    BY <1>0, <1>3 DEF DirectEnds
  <2>2. QED
    BY <1>1, <1>2, <2>1, ReadsAnswer, PairEndsRelays
<1>4. CASE Relay(p, c) /\ m.type # "Relay" /\ PairEnds(p, SaidClose(c, m))
  <2>1. \A d \in Conns : ReadsOther(d)
    BY <1>0, <1>1, <1>2, <1>4 DEF ReadsOther, Heeds
  <2>2. QED
    BY <1>1, <1>2, <1>4, <2>1, PairEndsRelays
<1>5. CASE /\ Relay(p, c) /\ m.type = "Relay"
           /\ toClient' = SendingTo(PeerIn(p, c), <<m>>) /\ UNCHANGED pairs
  <2>1. m # Eof
    BY <1>5 DEF Eof, Message
  <2>2. p.stage = "relaying" /\ toServer' = [toServer EXCEPT ![c] = Tail(toServer[c])]
    BY <1>1, <1>5, <2>1 DEF Relay
  <2>3. QED
    BY <1>0, <1>1, <1>5, <2>2, PassingRelays
<1>6. QED
  BY <1>0, <1>3, <1>4, <1>5 DEF Relay

\* Every step of a pair's task.
LEMMA PairTaskRelays ==
  ASSUME StreamsInv, StreamsInv', RelayInv, NEW p \in pairs,
         PairTask(p) \/ PairExpires(p), UNCHANGED clientVars
  PROVE  RelayInv'
<1>1. CASE WriteFails(p) \/ PairExpires(p)
  <2>1. /\ PairEnds(p, {}) /\ UNCHANGED <<accepting, waiting>> /\ toServer' = toServer
    BY <1>1 DEF WriteFails, PairExpires
  <2>2. DOMAIN toServer' = Conns /\ \A c \in Conns : Heeds(c) /\ ReadsOther(c)
    BY <2>1 DEF Heeds, ReadsOther, StreamsInv, ChansOK
  <2>3. QED
    BY <2>1, <2>2, PairEndsRelays
<1>2. CASE SendBind(p)
  <2>1. PICK m, s : m = Message("BindForDirectConnect") /\ s = "binding"
    OBVIOUS
  <2>2. /\ toClient' = SendingBoth(p.con1, m, p.con2, m)
        /\ Becomes(p, AtStage(p, s)) /\ p.stage = "joined"
        /\ m.type = "BindForDirectConnect" /\ toServer' = toServer
        /\ UNCHANGED <<accepting, waiting>>
    BY <1>2, <2>1 DEF SendBind, Message
  <2>3. DOMAIN toServer' = Conns /\ \A c \in Conns : Heeds(c)
    BY <2>2 DEF Heeds, StreamsInv, ChansOK
  <2>4. QED
    BY <2>2, <2>3, AskingRelays
<1>3. QED
  BY <1>1, <1>2, PeerJoinedRelays, ResultRelays, StreamingRelays DEF PairTask

-----------------------------------------------------------------------------

\* Nothing has been relayed before anybody has connected.
LEMMA InitRelays == Init => RelayInv
<1> SUFFICES ASSUME Init PROVE RelayInv
  OBVIOUS
<1>1. /\ \A c \in Conns : /\ toServer[c] = <<>> /\ toClient[c] = <<>>
                          /\ client[c] = "idle" /\ peer[c] = Nobody
                          /\ sent[c] = 0 /\ received[c] = <<>>
      /\ DOMAIN sent = Conns /\ DOMAIN received = Conns /\ pairs = {}
  BY DEF Init, ServerInit
<1>2. Len(<<>>) = 0 /\ Msgs(<<>>) = {}
  BY ShortSeq
<1>3. CountsOK /\ Tells /\ Untold
  BY <1>1, <1>2 DEF CountsOK, Tells, Untold, NoRelay
<1>4. Starts
  BY <1>1, <1>2 DEF Starts, Relayed
<1>5. Flows
  <2> SUFFICES ASSUME NEW c \in Conns
               PROVE  Upload(c, 0) /\ \A d \in Conns : ~Told(d, c)
    BY DEF Flows
  <2>1. \A d \in Conns : ~Told(d, c)
    BY <1>1, <1>2, NobodyAssumption DEF Told
  <2>2. Stretch(<<>>, c, 0, 0, 0)
    BY <1>2 DEF Stretch
  <2>3. 0 = 0 + (0 - 0)
    OBVIOUS
  <2>4. QED
    BY <1>1, <1>2, <2>1, <2>2, <2>3 DEF Upload
<1>6. QED
  BY <1>3, <1>4, <1>5 DEF RelayInv

\* A step of another part of the system.
LEMMA StutterRelays ==
  ASSUME RelayInv, UNCHANGED vars PROVE RelayInv'
<1>1. UNCHANGED <<client, peer, sent, received, toServer, toClient, accepting,
                  waiting, pairs>>
  BY DEF vars, channels, serverVars, clientVars
<1>2. CountsOK' /\ Starts'
  BY <1>1 DEF RelayInv, CountsOK, Starts, Relayed, Waits
<1>3. Tells' /\ Untold'
  BY <1>1 DEF RelayInv, Tells, Untold, Alive, Told
<1>4. Flows'
  <2>1. /\ \A c, j : Upload(c, j) => Upload(c, j)'
        /\ \A d, c : Told(d, c)' => Told(d, c)
    BY <1>1 DEF Upload, Alive, Told
  <2>2. \A d, c, j : Download(d, c, j) => Download(d, c, j)'
    BY <1>1 DEF Download, InRelay, Alive
  <2>3. QED
    BY <2>1, <2>2 DEF RelayInv, Flows
<1>5. QED
  BY <1>2, <1>3, <1>4 DEF RelayInv

\* What a client has written is accounted for, payload by payload: on its way
\* to the server, on its way to the client it joined, or read by that one.
THEOREM PayloadsAddUp == Spec => []RelayInv
<1>1. StreamsInv /\ StreamsInv' /\ RelayInv /\ [Next]_vars => RelayInv'
  <2> SUFFICES ASSUME StreamsInv, StreamsInv', RelayInv, [Next]_vars PROVE RelayInv'
    OBVIOUS
  <2>1. CASE UNCHANGED vars
    BY <2>1, StutterRelays
  <2>2. CASE \E c \in Conns : Client(c)
    BY <2>2, ClientRelays
  <2>3. CASE Server /\ UNCHANGED clientVars
    BY <2>3, KeyTaskRelays, LoopRelays, PairTaskRelays DEF Server, Timers
  <2>4. QED
    BY <2>1, <2>2, <2>3 DEF Next
<1>2. QED
  BY <1>1, InitRelays, StreamsAreSound, PTL DEF Spec

\* What a client reads from the relay stream is what the peer it joined wrote
\* to its own, from the start, in order, nothing missing and nothing twice.
THEOREM RelayedAsWritten == Spec => []RelayedInOrder
<1>1. StreamsInv /\ RelayInv => RelayedInOrder
  <2> SUFFICES ASSUME StreamsInv, RelayInv, NEW c \in Conns, peer[c] # Nobody
               PROVE  IsPrefix(received[c],
                               [i \in 1 .. sent[peer[c]] |-> <<peer[c], i>>])
    BY DEF RelayedInOrder
  <2>1. PICK d \in Conns : d = peer[c] /\ Told(c, d)
    BY DEF StreamsInv, PeersOK, Told
  <2>2. PICK j \in Nat : Upload(d, j) /\ Download(c, d, j)
    BY <2>1 DEF RelayInv, Flows
  <2>3. PICK a \in Nat, b \in Nat : a <= b /\ sent[d] = j + (b - a)
    BY <2>2 DEF Upload, Stretch
  <2>4. PICK n \in Nat, x \in Nat, y \in Nat :
          received[c] = [i \in 1 .. n |-> <<d, i>>] /\ x <= y /\ n + (y - x) <= j
    BY <2>2 DEF Download, Stretch
  <2>5. PICK l \in Nat : l = sent[d] /\ n <= l
    <3>1. PICK g \in Nat, h \in Nat : g = b - a /\ h = y - x
      BY <2>3, <2>4
    <3>2. j + g \in Nat /\ n <= j + g
      BY <2>4, <3>1
    <3>3. QED
      BY <2>3, <3>1, <3>2
  <2>6. PICK s, t : s = [i \in 1 .. n |-> <<d, i>>] /\ t = [i \in 1 .. l |-> <<d, i>>]
    OBVIOUS
  <2>7. Len(s) = n /\ Len(t) = l
    BY <2>5, <2>6
  <2>8. SubSeq(s, 1, Len(s)) = s /\ SubSeq(t, 1, Len(s)) = s
    BY <2>5, <2>6, <2>7
  <2>9. IsPrefix(s, t)
    BY <2>5, <2>7, <2>8 DEF IsPrefix
  <2>10. QED
    BY <2>1, <2>4, <2>5, <2>6, <2>9
<1>2. QED
  BY <1>1, StreamsAreSound, PayloadsAddUp, PTL
=============================================================================
