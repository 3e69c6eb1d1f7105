-------------------------- MODULE RemotePty_proofs --------------------------
(***************************************************************************)
(* Proofs about the remote PTY shell.                                      *)
(*                                                                         *)
(* Starting it (RemotePtyStart), for any number of targets that share a    *)
(* directory: every bash that runs is whole, and only targets that were    *)
(* killed or failed to start one leave their socket.                       *)
(*                                                                         *)
(* Streaming through it (RemotePty), for any number of connections and     *)
(* payloads: each connection's two streams keep their order, and neither   *)
(* end hears of a connection that it does not know.                        *)
(***************************************************************************)
EXTENDS RemotePtyStart, RemotePty, TLAPS

-----------------------------------------------------------------------------
(* Starting a shell (RemotePtyStart).                                      *)


Stages == {"downloading", "opening", "writing", "written", "memory", "binding",
           "spawning", "copying", "shell", "ended", "fallback", "killed"}

StartTypes ==
  /\ start \in [Targets -> Stages]
  /\ body \in [Targets -> SUBSET Chunks]
  /\ saved \in [Targets -> {"none", "file", "copied", "memory"}]
  /\ executed \in [Targets -> [from : {"none", "file", "copied", "memory"},
                               own : SUBSET Chunks]]
  /\ bash_rpty \subseteq Chunks /\ writing \subseteq Targets
  /\ sockets \subseteq Targets /\ broken \in BOOLEAN

\* Whoever has the body to save, or is still writing it, has all of it.
HasBody == {"opening", "writing", "written", "memory", "binding", "spawning",
            "copying"}
BodiesAreWhole ==
  \A t \in Targets :
    start[t] \in HasBody \/ t \in writing => body[t] = Chunks

\* A target has the file open from its first write on, and opens it once.
WritersWrite ==
  \A t \in Targets :
    /\ start[t] = "writing" => t \in writing
    /\ t \in writing => start[t] \notin {"downloading", "opening", "killed"}

\* A chunk the file lacks is still to be written: the first one by a target
\* that begins to, the last one by any that has the file open.
Opened ==
  \E t \in Targets : start[t] = "written" \/ saved[t] = "file" \/ t \in writing
FileFills ==
  ~broken /\ Opened =>
    /\ "head" \in bash_rpty \/ \E t \in writing : start[t] = "writing"
    /\ "tail" \in bash_rpty \/ writing # {}

\* Nobody writes the file while it is executed; a memory is never written.
ExecutedIsClosed ==
  \A t \in Targets :
    executed[t].from = "file" => writing = {} /\ (broken \/ bash_rpty = Chunks)
MemoryIsWhole ==
  \A t \in Targets : executed[t].from = "memory" => executed[t].own = Chunks

FileInv ==
  /\ StartTypes /\ BodiesAreWhole /\ WritersWrite
  /\ FileFills /\ ExecutedIsClosed /\ MemoryIsWhole

-----------------------------------------------------------------------------
(* The file.                                                               *)

LEMMA FileInvIsEnough == FileInv => BashIsWhole
BY DEF FileInv, StartTypes, ExecutedIsClosed, MemoryIsWhole, BashIsWhole, Runs

LEMMA FileInit == StartInit => FileInv
<1> SUFFICES ASSUME StartInit PROVE FileInv
  OBVIOUS
<1> USE DEF StartInit
<1>1. StartTypes
  BY DEF StartTypes, Stages, Chunks, Nothing
<1>2. BodiesAreWhole /\ WritersWrite /\ FileFills
  BY DEF BodiesAreWhole, WritersWrite, FileFills, Opened, HasBody
<1>3. ExecutedIsClosed /\ MemoryIsWhole
  BY DEF ExecutedIsClosed, MemoryIsWhole, Nothing
<1>4. QED
  BY <1>1, <1>2, <1>3 DEF FileInv

LEMMA FileStep == FileInv /\ [StartNext]_startVars => FileInv'
<1> SUFFICES ASSUME FileInv, [StartNext]_startVars PROVE FileInv'
  OBVIOUS
<1> USE DEF FileInv, StartTypes, Stages, Goes
<1>0. CASE UNCHANGED startVars
  BY <1>0 DEF startVars, fileVars, socketFileVars, BodiesAreWhole, WritersWrite,
              FileFills, Opened, ExecutedIsClosed, MemoryIsWhole
<1>1. ASSUME NEW t \in Targets, Download(t) PROVE FileInv'
  <2> USE <1>1 DEF Download, fileVars, socketFileVars
  <2>1. StartTypes'
    BY DEF Chunks
  <2>2. BodiesAreWhole' /\ WritersWrite'
    BY DEF BodiesAreWhole, WritersWrite, HasBody
  <2>3. FileFills'
    BY DEF FileFills, Opened, WritersWrite
  <2>4. ExecutedIsClosed' /\ MemoryIsWhole'
    BY DEF ExecutedIsClosed, MemoryIsWhole
  <2>5. QED
    BY <2>1, <2>2, <2>3, <2>4
<1>2. ASSUME NEW t \in Targets, OpenFile(t) PROVE FileInv'
  <2> USE <1>2 DEF OpenFile, fileVars, socketFileVars
  <2>1. StartTypes'
    OBVIOUS
  <2>2. BodiesAreWhole' /\ WritersWrite'
    BY DEF BodiesAreWhole, WritersWrite, HasBody
  <2>3. FileFills'
    BY DEF FileFills, Opened
  <2>4. ExecutedIsClosed' /\ MemoryIsWhole'
    BY DEF ExecutedIsClosed, MemoryIsWhole
  <2>5. QED
    BY <2>1, <2>2, <2>3, <2>4
<1>3. ASSUME NEW t \in Targets, WriteFile(t) PROVE FileInv'
  <2> USE <1>3 DEF WriteFile, fileVars, socketFileVars
  <2>1. StartTypes'
    BY DEF Chunks
  <2>2. BodiesAreWhole' /\ WritersWrite'
    BY DEF BodiesAreWhole, WritersWrite, HasBody
  <2>3. FileFills'
    BY DEF FileFills, Opened, WritersWrite, BodiesAreWhole, HasBody, Chunks
  <2>4. ExecutedIsClosed' /\ MemoryIsWhole'
    BY DEF ExecutedIsClosed, MemoryIsWhole, WritersWrite, FileFills, Opened,
           BodiesAreWhole, HasBody, Chunks
  <2>5. QED
    BY <2>1, <2>2, <2>3, <2>4
<1>4. ASSUME NEW t \in Targets, LastWrite(t) PROVE FileInv'
  <2> USE <1>4 DEF LastWrite, fileVars, socketFileVars
  <2>1. StartTypes'
    BY DEF Chunks
  <2>2. BodiesAreWhole' /\ WritersWrite'
    BY DEF BodiesAreWhole, WritersWrite, HasBody
  <2>3. FileFills'
    BY DEF FileFills, Opened, WritersWrite, BodiesAreWhole, HasBody, Chunks
  <2>4. ExecutedIsClosed' /\ MemoryIsWhole'
    BY DEF ExecutedIsClosed, MemoryIsWhole, WritersWrite, FileFills, Opened,
           BodiesAreWhole, HasBody, Chunks
  <2>5. QED
    BY <2>1, <2>2, <2>3, <2>4
<1>5. ASSUME NEW t \in Targets, SetPermissions(t) PROVE FileInv'
  BY <1>5 DEF SetPermissions, Saves, fileVars, socketFileVars, BodiesAreWhole,
              WritersWrite, FileFills, Opened, ExecutedIsClosed, MemoryIsWhole, HasBody
<1>6. ASSUME NEW t \in Targets, CopyBytesToMemory(t) PROVE FileInv'
  BY <1>6 DEF CopyBytesToMemory, Saves, fileVars, socketFileVars, BodiesAreWhole,
              WritersWrite, FileFills, Opened, ExecutedIsClosed, MemoryIsWhole, HasBody
<1>7. ASSUME NEW t \in Targets, CreateSocket(t) PROVE FileInv'
  BY <1>7 DEF CreateSocket, fileVars, BodiesAreWhole, WritersWrite,
              FileFills, Opened, ExecutedIsClosed, MemoryIsWhole, HasBody
<1>8. ASSUME NEW t \in Targets, Spawn(t) PROVE FileInv'
  <2> USE <1>8 DEF Spawn, fileVars
  <2>1. StartTypes'
    BY DEF Executes, Chunks
  <2>2. BodiesAreWhole' /\ WritersWrite'
    BY DEF BodiesAreWhole, WritersWrite, HasBody
  <2>3. FileFills'
    BY DEF FileFills, Opened
  <2>4. CASE UNCHANGED executed
    BY <2>1, <2>2, <2>3, <2>4 DEF ExecutedIsClosed, MemoryIsWhole
  <2>5. CASE /\ saved[t] = "file" => writing = {}
             /\ Executes(t, IF saved[t] = "file" THEN {} ELSE body[t])
             /\ UNCHANGED saved
    <3>1. \A u \in Targets \ {t} : executed'[u] = executed[u]
      BY <2>5 DEF Executes
    <3>2. executed'[t] = [from |-> saved[t],
                          own |-> IF saved[t] = "file" THEN {} ELSE body[t]]
      BY <2>5 DEF Executes
    <3>3. saved[t] = "file" => writing = {} /\ (broken \/ bash_rpty = Chunks)
      <4> SUFFICES ASSUME saved[t] = "file", ~broken
                   PROVE  writing = {} /\ bash_rpty = Chunks
        BY <2>5
      <4>1. writing = {} /\ Opened
        BY <2>5 DEF Opened
      <4>2. "head" \in bash_rpty /\ "tail" \in bash_rpty
        BY <4>1 DEF FileFills
      <4>3. bash_rpty \subseteq Chunks /\ Chunks \subseteq bash_rpty
        BY <4>2 DEF Chunks
      <4>4. QED
        BY <4>1, <4>3
    <3>4. saved[t] = "memory" => body[t] = Chunks
      BY DEF BodiesAreWhole, HasBody
    <3>5. ExecutedIsClosed' /\ MemoryIsWhole'
      BY <3>1, <3>2, <3>3, <3>4 DEF ExecutedIsClosed, MemoryIsWhole
    <3>6. QED
      BY <2>1, <2>2, <2>3, <3>5
  <2>6. QED
    BY <2>4, <2>5
<1>9. ASSUME NEW t \in Targets, SpawnCopy(t) PROVE FileInv'
  <2> USE <1>9 DEF SpawnCopy, Saves, fileVars
  <2>1. StartTypes'
    <3>1. /\ start' \in [Targets -> Stages] /\ body' \in [Targets -> SUBSET Chunks]
          /\ saved' \in [Targets -> {"none", "file", "copied", "memory"}]
      OBVIOUS
    <3>2. bash_rpty' \subseteq Chunks /\ writing' \subseteq Targets /\ broken' \in BOOLEAN
      OBVIOUS
    <3>3. sockets' \subseteq Targets
      OBVIOUS
    <3>4. executed' \in [Targets -> [from : {"none", "file", "copied", "memory"},
                                    own : SUBSET Chunks]]
      <4>1. CASE UNCHANGED executed
        BY <4>1
      <4>2. CASE saved'[t] = "copied" /\ Executes(t, bash_rpty)
        <5>1. saved'[t] \in {"none", "file", "copied", "memory"}
          BY <4>2
        <5>2. bash_rpty \in SUBSET Chunks
          OBVIOUS
        <5>3. QED
          BY <4>2, <5>1, <5>2 DEF Executes
      <4>3. QED
        BY <4>1, <4>2
    <3>5. QED
      BY <3>1, <3>2, <3>3, <3>4
  <2>2. BodiesAreWhole' /\ WritersWrite'
    BY DEF BodiesAreWhole, WritersWrite, HasBody
  <2>3. FileFills'
    BY DEF FileFills, Opened
  <2>4. \A u \in Targets : executed'[u] = executed[u] \/ executed'[u].from = "copied"
    BY DEF Executes
  <2>5. ExecutedIsClosed' /\ MemoryIsWhole'
    BY <2>4 DEF ExecutedIsClosed, MemoryIsWhole
  <2>6. QED
    BY <2>1, <2>2, <2>3, <2>5
<1>10. ASSUME NEW t \in Targets, Drop(t) PROVE FileInv'
  BY <1>10 DEF Drop, Nothing, fileVars, BodiesAreWhole, WritersWrite,
              FileFills, Opened, ExecutedIsClosed, MemoryIsWhole, HasBody
<1>11. ASSUME NEW t \in Targets, Killed(t) PROVE FileInv'
  BY <1>11, ZenonT(30) DEF Killed, BodiesAreWhole, WritersWrite,
              FileFills, Opened, ExecutedIsClosed, MemoryIsWhole, HasBody
<1>12. ASSUME NEW t \in Targets, Restarted(t) PROVE FileInv'
  BY <1>12 DEF Restarted, Nothing, fileVars, socketFileVars, BodiesAreWhole,
              WritersWrite, FileFills, Opened, ExecutedIsClosed, MemoryIsWhole, HasBody
<1>13. QED
  BY <1>0, <1>1, <1>2, <1>3, <1>4, <1>5, <1>6, <1>7, <1>8, <1>9, <1>10, <1>11,
     <1>12 DEF StartNext

\* What bash executes is the whole of what was downloaded, for any number of
\* targets that save it in one place.
THEOREM WholeBash == StartSpec => []BashIsWhole
<1>1. StartSpec => []FileInv
  BY FileInit, FileStep, PTL DEF StartSpec
<1>2. QED
  BY <1>1, FileInvIsEnough, PTL

-----------------------------------------------------------------------------
(* The sockets.                                                            *)

SocketInv == start \in [Targets -> Stages] /\ sockets \subseteq Targets
             /\ SocketsAreRemoved

\* A socket that is left over is that of a target that was killed, or whose
\* bash could not be started.
THEOREM NoSocketStays == StartSpec => []SocketsAreRemoved
<1>1. StartInit => SocketInv
  BY DEF StartInit, SocketInv, SocketsAreRemoved, Stages
<1>2. SocketInv /\ [StartNext]_startVars => SocketInv'
  <2> SUFFICES ASSUME SocketInv, [StartNext]_startVars PROVE SocketInv'
    OBVIOUS
  <2> USE DEF SocketInv, SocketsAreRemoved, Stages, Goes
  <2>1. CASE UNCHANGED startVars
    BY <2>1 DEF startVars, socketFileVars
  <2>2. ASSUME NEW t \in Targets,
               \/ Download(t) \/ OpenFile(t) \/ WriteFile(t) \/ LastWrite(t)
               \/ SetPermissions(t) \/ CopyBytesToMemory(t)
        PROVE  SocketInv'
    BY <2>2 DEF Download, OpenFile, WriteFile, LastWrite, SetPermissions,
                CopyBytesToMemory, socketFileVars
  <2>3. ASSUME NEW t \in Targets, CreateSocket(t) \/ Spawn(t) \/ SpawnCopy(t)
        PROVE  SocketInv'
    BY <2>3 DEF CreateSocket, Spawn, SpawnCopy
  <2>4. ASSUME NEW t \in Targets, Drop(t) \/ Killed(t) \/ Restarted(t)
        PROVE  SocketInv'
    BY <2>4 DEF Drop, Killed, Restarted, socketFileVars
  <2>5. QED
    BY <2>1, <2>2, <2>3, <2>4 DEF StartNext
<1>3. QED
  BY <1>1, <1>2, PTL DEF StartSpec, SocketInv

-----------------------------------------------------------------------------
(* The streams of a session (RemotePty): numbers in order.                 *)

Number == Nat \ {Eof}
ReadsOf(id) == [id : {id}, data : Number]
PayloadsOf(id) == [type : {"Payload"}, id : {id}, data : Number]

\* The messages of a queue that are in K carry the numbers d+1 .. n in order,
\* whatever lies between them: C[i] is the last one of the first i messages.
Flow(q, K, d, n) ==
  \E C \in [0 .. Len(q) -> Nat] :
    /\ C[0] = d /\ C[Len(q)] = n
    /\ \A i, j \in 0 .. Len(q) : i <= j => C[i] <= C[j]
    /\ \A i \in 1 .. Len(q) :
         IF q[i] \in K THEN C[i] = C[i - 1] + 1 /\ q[i].data = C[i]
                       ELSE C[i] = C[i - 1]

\* What lies in a socket at the end `p` of which the numbers are written: those
\* after d up to n, and then the end if it is closed.
Rest(s, d, n, p) ==
  /\ d \in Nat /\ n \in Nat /\ d <= n
  /\ \A i \in 1 .. n - d : s[i] = d + i
  /\ \/ Len(s) = n - d
     \/ p = "closed" /\ Len(s) = n - d + 1 /\ s[n - d + 1] = Eof

LEMMA FlowEmpty ==
  ASSUME NEW K, NEW d \in Nat
  PROVE  Flow(<<>>, K, d, d)
<1>1. PICK C : C = [i \in 0 .. 0 |-> d]
  OBVIOUS
<1>2. C \in [0 .. 0 -> Nat] /\ \A i \in 0 .. 0 : C[i] = d
  BY <1>1
<1>3. Len(<<>>) = 0 /\ 0 \in 0 .. 0 /\ 1 .. 0 = {}
  OBVIOUS
<1>4. C[0] = d /\ \A i, j \in 0 .. 0 : i <= j => C[i] <= C[j]
  BY <1>2, <1>3
<1>5. QED
  BY <1>2, <1>3, <1>4 DEF Flow

LEMMA FlowBounds ==
  ASSUME NEW M, NEW q \in Seq(M), NEW K, NEW d, NEW n, Flow(q, K, d, n)
  PROVE  d \in Nat /\ n \in Nat /\ d <= n
<1>1. PICK C \in [0 .. Len(q) -> Nat] :
        /\ C[0] = d /\ C[Len(q)] = n
        /\ \A i, j \in 0 .. Len(q) : i <= j => C[i] <= C[j]
  BY DEF Flow
<1>2. Len(q) \in Nat /\ 0 \in 0 .. Len(q) /\ Len(q) \in 0 .. Len(q)
  OBVIOUS
<1>3. QED
  BY <1>1, <1>2

LEMMA FlowAppend ==
  ASSUME NEW M, NEW q \in Seq(M), NEW m \in M, NEW K, NEW d, NEW n,
         Flow(q, K, d, n)
  PROVE  /\ m \notin K => Flow(Append(q, m), K, d, n)
         /\ m \in K /\ m.data = n + 1 => Flow(Append(q, m), K, d, n + 1)
<1>1. PICK C \in [0 .. Len(q) -> Nat] :
        /\ C[0] = d /\ C[Len(q)] = n
        /\ \A i, j \in 0 .. Len(q) : i <= j => C[i] <= C[j]
        /\ \A i \in 1 .. Len(q) :
             IF q[i] \in K THEN C[i] = C[i - 1] + 1 /\ q[i].data = C[i]
                           ELSE C[i] = C[i - 1]
  BY DEF Flow
<1>2. PICK l \in Nat : l = Len(q)
  OBVIOUS
<1>3. PICK r : r = Append(q, m)
  OBVIOUS
<1>4. /\ Len(r) = l + 1 /\ r[l + 1] = m
      /\ \A i \in 1 .. l : r[i] = q[i]
  BY <1>2, <1>3
<1>5. n \in Nat
  BY <1>1, <1>2
<1>6. ASSUME NEW k \in Nat, k >= n,
             IF m \in K THEN k = n + 1 /\ m.data = k ELSE k = n
      PROVE  Flow(r, K, d, k)
  <2>1. PICK D : D = [i \in 0 .. l + 1 |-> IF i = l + 1 THEN k ELSE C[i]]
    OBVIOUS
  <2>2. /\ D \in [0 .. l + 1 -> Nat] /\ D[l + 1] = k
        /\ \A i \in 0 .. l : D[i] = C[i] /\ C[i] <= n
    BY <1>1, <1>2, <2>1
  <2>3. D[0] = d
    BY <1>1, <1>2, <2>2
  <2>4. \A i, j \in 0 .. l + 1 : i <= j => D[i] <= D[j]
    <3> SUFFICES ASSUME NEW i \in 0 .. l + 1, NEW j \in 0 .. l + 1, i <= j
                 PROVE  D[i] <= D[j]
      OBVIOUS
    <3>1. CASE j = l + 1
      BY <1>5, <1>6, <2>2, <3>1
    <3>2. CASE j # l + 1
      <4>1. i \in 0 .. l /\ j \in 0 .. l
        BY <3>2
      <4>2. QED
        BY <1>1, <1>2, <2>2, <4>1
    <3>3. QED
      BY <3>1, <3>2
  <2>5. ASSUME NEW i \in 1 .. l + 1
        PROVE  IF r[i] \in K THEN D[i] = D[i - 1] + 1 /\ r[i].data = D[i]
                             ELSE D[i] = D[i - 1]
    <3>1. CASE i = l + 1
      <4>1. i - 1 = l /\ l \in 0 .. l
        BY <3>1
      <4>2. D[i - 1] = n /\ D[i] = k /\ r[i] = m
        BY <1>1, <1>2, <1>4, <2>2, <3>1, <4>1
      <4>3. QED
        BY <1>6, <4>2
    <3>2. CASE i # l + 1
      <4>1. i \in 1 .. l /\ i \in 0 .. l /\ i - 1 \in 0 .. l
        BY <3>2
      <4>2. D[i] = C[i] /\ D[i - 1] = C[i - 1] /\ r[i] = q[i]
        BY <1>4, <2>2, <4>1
      <4>3. QED
        BY <1>1, <1>2, <4>1, <4>2
    <3>3. QED
      BY <3>1, <3>2
  <2>6. QED
    BY <1>4, <2>2, <2>3, <2>4, <2>5 DEF Flow
<1>7. m \notin K => Flow(r, K, d, n)
  BY <1>5, <1>6
<1>8. m \in K /\ m.data = n + 1 => Flow(r, K, d, n + 1)
  BY <1>5, <1>6
<1>9. QED
  BY <1>3, <1>7, <1>8

LEMMA FlowTail ==
  ASSUME NEW M, NEW q \in Seq(M), q # <<>>, NEW K, NEW d, NEW n,
         Flow(q, K, d, n)
  PROVE  /\ Head(q) \notin K => Flow(Tail(q), K, d, n)
         /\ Head(q) \in K => /\ Head(q).data = d + 1
                             /\ Flow(Tail(q), K, d + 1, n)
<1>1. PICK C \in [0 .. Len(q) -> Nat] :
        /\ C[0] = d /\ C[Len(q)] = n
        /\ \A i, j \in 0 .. Len(q) : i <= j => C[i] <= C[j]
        /\ \A i \in 1 .. Len(q) :
             IF q[i] \in K THEN C[i] = C[i - 1] + 1 /\ q[i].data = C[i]
                           ELSE C[i] = C[i - 1]
  BY DEF Flow
<1>2. PICK l \in Nat : l + 1 = Len(q)
  <2>1. Len(q) \in Nat /\ Len(q) # 0
    OBVIOUS
  <2>2. Len(q) - 1 \in Nat /\ Len(q) - 1 + 1 = Len(q)
    BY <2>1
  <2>3. QED
    BY <2>2
<1>3. PICK r : r = Tail(q)
  OBVIOUS
<1>4. Len(r) = l /\ (\A i \in 1 .. l : r[i] = q[i + 1]) /\ Head(q) = q[1]
  BY <1>2, <1>3
<1>5. PICK D : D = [i \in 0 .. l |-> C[i + 1]]
  OBVIOUS
<1>6. /\ D \in [0 .. l -> Nat] /\ D[0] = C[1] /\ D[l] = n
      /\ \A i \in 0 .. l : D[i] = C[i + 1]
  <2>1. \A i \in 0 .. l : i + 1 \in 0 .. Len(q)
    BY <1>2
  <2>2. 0 \in 0 .. l /\ l \in 0 .. l /\ 0 + 1 = 1
    OBVIOUS
  <2>3. QED
    BY <1>1, <1>2, <1>5, <2>1, <2>2
<1>7. \A i, j \in 0 .. l : i <= j => D[i] <= D[j]
  <2> SUFFICES ASSUME NEW i \in 0 .. l, NEW j \in 0 .. l, i <= j
               PROVE  D[i] <= D[j]
    OBVIOUS
  <2>1. i + 1 \in 0 .. Len(q) /\ j + 1 \in 0 .. Len(q) /\ i + 1 <= j + 1
    BY <1>2
  <2>2. QED
    BY <1>1, <1>6, <2>1
<1>8. ASSUME NEW i \in 1 .. l
      PROVE  IF r[i] \in K THEN D[i] = D[i - 1] + 1 /\ r[i].data = D[i]
                           ELSE D[i] = D[i - 1]
  <2>1. i + 1 \in 1 .. Len(q) /\ (i + 1) - 1 = i /\ i - 1 \in 0 .. l
        /\ i \in 0 .. l /\ (i - 1) + 1 = i
    BY <1>2
  <2>2. D[i] = C[i + 1] /\ D[i - 1] = C[i] /\ r[i] = q[i + 1]
    BY <1>4, <1>6, <2>1
  <2>3. QED
    BY <1>1, <2>1, <2>2
<1>9. Flow(r, K, C[1], n)
  BY <1>4, <1>6, <1>7, <1>8 DEF Flow
<1>10. IF Head(q) \in K THEN C[1] = d + 1 /\ Head(q).data = d + 1 ELSE C[1] = d
  <2>1. 1 \in 1 .. Len(q) /\ 1 - 1 = 0
    BY <1>2
  <2>2. QED
    BY <1>1, <1>4, <2>1
<1>11. QED
  BY <1>3, <1>9, <1>10

LEMMA RestAdds ==
  ASSUME NEW s \in Seq(Nat), NEW d, NEW n, NEW p, Rest(s, d, n, p),
         p # "closed"
  PROVE  /\ Rest(Append(s, n + 1), d, n + 1, p)
         /\ Rest(Append(s, Eof), d, n, "closed")
<1>1. d \in Nat /\ n \in Nat /\ d <= n /\ Len(s) = n - d
  BY DEF Rest
<1>2. PICK l \in Nat : l = n - d
  BY <1>1
<1>3. PICK r : r = Append(s, n + 1)
  OBVIOUS
<1>4. Len(r) = l + 1 /\ r[l + 1] = n + 1 /\ \A i \in 1 .. l : r[i] = s[i]
  BY <1>1, <1>2, <1>3
<1>5. n + 1 - d = l + 1 /\ d + (l + 1) = n + 1
  BY <1>1, <1>2
<1>6. Rest(r, d, n + 1, p)
  BY <1>1, <1>2, <1>4, <1>5 DEF Rest
<1>7. PICK t : t = Append(s, Eof)
  OBVIOUS
<1>8. Len(t) = l + 1 /\ t[l + 1] = Eof /\ \A i \in 1 .. l : t[i] = s[i]
  BY <1>1, <1>2, <1>7 DEF Eof
<1>9. Rest(t, d, n, "closed")
  BY <1>1, <1>2, <1>8 DEF Rest
<1>10. QED
  BY <1>3, <1>6, <1>7, <1>9

LEMMA RestTakes ==
  ASSUME NEW s \in Seq(Nat), NEW d, NEW n, NEW p, Rest(s, d, n, p), s # <<>>
  PROVE  \/ Head(s) = Eof /\ p = "closed" /\ Tail(s) = <<>>
            /\ Rest(Tail(s), d, n, p)
         \/ Head(s) # Eof /\ Head(s) = d + 1 /\ Rest(Tail(s), d + 1, n, p)
<1>1. d \in Nat /\ n \in Nat /\ d <= n /\ Len(s) \in Nat /\ Len(s) >= 1
  BY DEF Rest
<1>2. PICK r : r = Tail(s)
  OBVIOUS
<1>3. r \in Seq(Nat) /\ Len(r) = Len(s) - 1 /\ Head(s) = s[1]
      /\ \A i \in 1 .. Len(s) - 1 : r[i] = s[i + 1]
  BY <1>1, <1>2
<1>4. CASE d = n
  <2>1. p = "closed" /\ Len(s) = 1 /\ s[1] = Eof
    BY <1>1, <1>4 DEF Rest
  <2>2. r = <<>>
    BY <1>3, <2>1
  <2>3. Rest(r, d, n, p)
    BY <1>1, <1>4, <2>2 DEF Rest
  <2>4. QED
    BY <1>2, <1>3, <2>1, <2>2, <2>3
<1>5. CASE d # n
  <2>1. n - d \in Nat /\ n - d >= 1 /\ d + 1 <= n /\ n - (d + 1) = n - d - 1
    BY <1>1, <1>5
  <2>2. s[1] = d + 1 /\ Head(s) # Eof
    BY <1>1, <1>3, <2>1 DEF Rest, Eof
  <2>3. \A i \in 1 .. n - (d + 1) : r[i] = (d + 1) + i
    <3> SUFFICES ASSUME NEW i \in 1 .. n - (d + 1) PROVE r[i] = (d + 1) + i
      OBVIOUS
    <3>1. i + 1 \in 1 .. n - d /\ n - d <= Len(s) /\ i \in 1 .. Len(s) - 1
      BY <1>1, <2>1 DEF Rest
    <3>2. s[i + 1] = d + (i + 1)
      BY <3>1 DEF Rest
    <3>3. QED
      BY <1>1, <1>3, <3>1, <3>2
  <2>4. \/ Len(r) = n - (d + 1)
        \/ p = "closed" /\ Len(r) = n - (d + 1) + 1 /\ r[n - (d + 1) + 1] = Eof
    <3>1. CASE Len(s) = n - d
      BY <1>3, <2>1, <3>1
    <3>2. CASE p = "closed" /\ Len(s) = n - d + 1 /\ s[n - d + 1] = Eof
      <4>1. n - (d + 1) + 1 = n - d /\ n - d \in 1 .. Len(s) - 1
        BY <1>1, <2>1, <3>2
      <4>2. QED
        BY <1>1, <1>3, <2>1, <3>2, <4>1, SMTT(30)
    <3>3. QED
      BY <3>1, <3>2 DEF Rest
  <2>5. QED
    BY <1>1, <1>2, <1>3, <2>1, <2>2, <2>3, <2>4 DEF Rest
<1>6. QED
  BY <1>4, <1>5

LEMMA NumbersGrow ==
  ASSUME NEW a \in Nat
  PROVE  /\ Numbers(0) = <<>> /\ Numbers(a) \in Seq(Nat)
         /\ Append(Numbers(a), a + 1) = Numbers(a + 1)
         /\ \A n \in Nat : a <= n => IsPrefix(Numbers(a), Numbers(n))
<1>1. \A n \in Nat : /\ Numbers(n) \in Seq(Nat) /\ Len(Numbers(n)) = n
                     /\ \A i \in 1 .. n : Numbers(n)[i] = i
  BY DEF Numbers
<1>2. Numbers(0) = <<>>
  BY <1>1
<1>3. Append(Numbers(a), a + 1) = Numbers(a + 1)
  BY DEF Numbers
<1>4. ASSUME NEW n \in Nat, a <= n
      PROVE  IsPrefix(Numbers(a), Numbers(n))
  <2>1. SubSeq(Numbers(a), 1, a) = SubSeq(Numbers(n), 1, a)
    BY <1>1, <1>4
  <2>2. QED
    BY <1>1, <1>4, <2>1 DEF IsPrefix
<1>5. QED
  BY <1>1, <1>2, <1>3, <1>4

-----------------------------------------------------------------------------
(* The connections that the server tells the client of.                    *)

About(m, id) == m.type # "Exited" /\ m.id = id
Is(m, type, id) == m.type = type /\ m.id = id

\* The client knows the connection or will.
Told(q, S, id) ==
  id \in S \/ \E i \in 1 .. Len(q) : Is(q[i], "Connect", id)
Closing(q, id) == \E i \in 1 .. Len(q) : Is(q[i], "Close", id)

\* Heard in their order by one who knows the connections S, the messages open
\* what is not open, write to and close what is, and close it at last.
Consistent(q, S) ==
  \A i \in 1 .. Len(q) :
    /\ q[i].type = "Connect" =>
         q[i].id \notin S /\ \A j \in 1 .. i - 1 : ~About(q[j], q[i].id)
    /\ q[i].type \in {"Payload", "Close"} =>
         \/ q[i].id \in S
         \/ \E j \in 1 .. i - 1 : Is(q[j], "Connect", q[i].id)
    /\ q[i].type = "Close" =>
         \A j \in i + 1 .. Len(q) : ~About(q[j], q[i].id)

\* A message is told that opens what nobody heard of, or is about a connection
\* that is told of and not closed.
LEMMA ConsistentAppend ==
  ASSUME NEW M, NEW q \in Seq(M), NEW m \in M, NEW S, Consistent(q, S),
         m.type \in {"Connect", "Payload", "Close", "Exited"},
         m.type = "Connect" =>
           m.id \notin S /\ \A i \in 1 .. Len(q) : ~About(q[i], m.id),
         m.type \in {"Payload", "Close"} =>
           Told(q, S, m.id) /\ ~Closing(q, m.id)
  PROVE  Consistent(Append(q, m), S)
<1>1. PICK l \in Nat : l = Len(q)
  OBVIOUS
<1>2. PICK r : r = Append(q, m)
  OBVIOUS
<1>3. Len(r) = l + 1 /\ r[l + 1] = m /\ \A i \in 1 .. l : r[i] = q[i]
  BY <1>1, <1>2
<1>4. SUFFICES ASSUME NEW i \in 1 .. l + 1
      PROVE  /\ r[i].type = "Connect" =>
                  r[i].id \notin S /\ \A j \in 1 .. i - 1 : ~About(r[j], r[i].id)
             /\ r[i].type \in {"Payload", "Close"} =>
                  \/ r[i].id \in S
                  \/ \E j \in 1 .. i - 1 : Is(r[j], "Connect", r[i].id)
             /\ r[i].type = "Close" =>
                  \A j \in i + 1 .. l + 1 : ~About(r[j], r[i].id)
  BY <1>2, <1>3 DEF Consistent
<1>5. CASE i = l + 1
  <2>1. r[i] = m /\ i - 1 = l /\ i + 1 .. l + 1 = {}
    BY <1>3, <1>5
  <2>2. (\A j \in 1 .. l : r[j] = q[j]) /\ l = Len(q)
    BY <1>1, <1>3
  <2>3. QED
    BY <2>1, <2>2 DEF Told
<1>6. CASE i # l + 1
  <2>1. i \in 1 .. l /\ 1 .. i - 1 \subseteq 1 .. l /\ i + 1 .. l \subseteq 1 .. l
    BY <1>6
  <2>2. r[i] = q[i] /\ (\A j \in 1 .. i - 1 : r[j] = q[j])
        /\ (\A j \in i + 1 .. l : r[j] = q[j]) /\ i \in 1 .. Len(q)
    BY <1>1, <1>3, <2>1
  <2>3. q[i].type = "Close" => ~About(m, q[i].id)
    <3> SUFFICES ASSUME q[i].type = "Close", About(m, q[i].id) PROVE FALSE
      OBVIOUS
    <3>1. Closing(q, m.id) /\ m.id = q[i].id
      BY <2>2 DEF Closing, About, Is
    <3>2. m.type = "Connect"
      BY <3>1 DEF About
    <3>3. About(q[i], m.id)
      BY <3>1 DEF About
    <3>4. QED
      BY <2>2, <3>2, <3>3
  <2>4. i + 1 .. l + 1 = (i + 1 .. l) \cup {l + 1}
    BY <2>1
  <2>5. /\ q[i].type = "Connect" =>
             q[i].id \notin S /\ \A j \in 1 .. i - 1 : ~About(q[j], q[i].id)
        /\ q[i].type \in {"Payload", "Close"} =>
             \/ q[i].id \in S
             \/ \E j \in 1 .. i - 1 : Is(q[j], "Connect", q[i].id)
        /\ q[i].type = "Close" =>
             \A j \in i + 1 .. l : ~About(q[j], q[i].id)
    BY <1>1, <2>2 DEF Consistent
  <2>6. QED
    BY <1>3, <2>2, <2>3, <2>4, <2>5
<1>7. QED
  BY <1>5, <1>6

\* What hearing the first of the messages leaves.
LEMMA ConsistentTail ==
  ASSUME NEW M, NEW q \in Seq(M), q # <<>>, NEW S, Consistent(q, S)
  PROVE  /\ Head(q).type = "Connect" =>
              Head(q).id \notin S /\ Consistent(Tail(q), S \cup {Head(q).id})
         /\ Head(q).type = "Payload" =>
              Head(q).id \in S /\ Consistent(Tail(q), S)
         /\ Head(q).type = "Close" =>
              Head(q).id \in S /\ Consistent(Tail(q), S \ {Head(q).id})
<1>1. PICK l \in Nat : l + 1 = Len(q)
  <2>1. Len(q) \in Nat /\ Len(q) # 0
    OBVIOUS
  <2>2. Len(q) - 1 \in Nat /\ Len(q) - 1 + 1 = Len(q)
    BY <2>1
  <2>3. QED
    BY <2>2
<1>2. PICK r, m : r = Tail(q) /\ m = Head(q)
  OBVIOUS
<1>3. Len(r) = l /\ m = q[1] /\ \A i \in 1 .. l : r[i] = q[i + 1]
  BY <1>1, <1>2
<1>4. \A i \in 1 .. l + 1 :
        /\ q[i].type = "Connect" =>
             q[i].id \notin S /\ \A j \in 1 .. i - 1 : ~About(q[j], q[i].id)
        /\ q[i].type \in {"Payload", "Close"} =>
             \/ q[i].id \in S
             \/ \E j \in 1 .. i - 1 : Is(q[j], "Connect", q[i].id)
        /\ q[i].type = "Close" =>
             \A j \in i + 1 .. l + 1 : ~About(q[j], q[i].id)
  BY <1>1 DEF Consistent
<1>5. 1 \in 1 .. l + 1 /\ 1 .. 1 - 1 = {}
  OBVIOUS
<1>6. /\ m.type = "Connect" => m.id \notin S
      /\ m.type \in {"Payload", "Close"} => m.id \in S
      /\ m.type = "Close" => \A j \in 2 .. l + 1 : ~About(q[j], m.id)
  BY <1>3, <1>4, <1>5
<1>7. ASSUME NEW T,
             \/ m.type = "Connect" /\ T = S \cup {m.id}
             \/ m.type = "Payload" /\ T = S
             \/ m.type = "Close" /\ T = S \ {m.id}
      PROVE  Consistent(r, T)
  <2> SUFFICES ASSUME NEW i \in 1 .. l
      PROVE  /\ r[i].type = "Connect" =>
                  r[i].id \notin T /\ \A j \in 1 .. i - 1 : ~About(r[j], r[i].id)
             /\ r[i].type \in {"Payload", "Close"} =>
                  \/ r[i].id \in T
                  \/ \E j \in 1 .. i - 1 : Is(r[j], "Connect", r[i].id)
             /\ r[i].type = "Close" =>
                  \A j \in i + 1 .. l : ~About(r[j], r[i].id)
    BY <1>3 DEF Consistent
  <2>1. PICK k \in 2 .. l + 1 : k = i + 1
    OBVIOUS
  <2>2. r[i] = q[k] /\ k \in 1 .. l + 1
    BY <1>3, <2>1
  <2>3. ASSUME r[i].type = "Connect"
        PROVE  r[i].id \notin T /\ \A j \in 1 .. i - 1 : ~About(r[j], r[i].id)
    <3>1. q[k].id \notin S /\ \A j \in 1 .. k - 1 : ~About(q[j], q[k].id)
      BY <1>4, <2>2, <2>3
    <3>2. 1 \in 1 .. k - 1 /\ \A j \in 1 .. i - 1 : j + 1 \in 1 .. k - 1 /\ j \in 1 .. l
      BY <2>1
    <3>3. ~About(m, q[k].id)
      BY <1>3, <3>1, <3>2
    <3>4. r[i].id \notin T
      BY <1>7, <2>2, <3>1, <3>3 DEF About
    <3>5. \A j \in 1 .. i - 1 : ~About(r[j], r[i].id)
      BY <1>3, <2>2, <3>1, <3>2
    <3>6. QED
      BY <3>4, <3>5
  <2>4. ASSUME r[i].type \in {"Payload", "Close"}
        PROVE  \/ r[i].id \in T
               \/ \E j \in 1 .. i - 1 : Is(r[j], "Connect", r[i].id)
    <3>1. \/ q[k].id \in S
          \/ \E j \in 1 .. k - 1 : Is(q[j], "Connect", q[k].id)
      BY <1>4, <2>2, <2>4
    <3>2. About(q[k], q[k].id)
      BY <2>2, <2>4 DEF About
    <3>3. CASE q[k].id \in S
      <4>1. m.type = "Close" => m.id # q[k].id
        BY <1>6, <3>2
      <4>2. QED
        BY <1>7, <2>2, <3>3, <4>1
    <3>4. ASSUME NEW j \in 1 .. k - 1, Is(q[j], "Connect", q[k].id)
          PROVE  \/ r[i].id \in T
                 \/ \E n \in 1 .. i - 1 : Is(r[n], "Connect", r[i].id)
      <4>1. CASE j = 1
        BY <1>3, <1>7, <2>2, <3>4, <4>1 DEF Is
      <4>2. CASE j # 1
        <5>1. j - 1 \in 1 .. i - 1 /\ j - 1 \in 1 .. l /\ (j - 1) + 1 = j
          BY <2>1, <4>2
        <5>2. r[j - 1] = q[j]
          BY <1>3, <5>1
        <5>3. QED
          BY <2>2, <3>4, <5>1, <5>2
      <4>3. QED
        BY <4>1, <4>2
    <3>5. QED
      BY <3>1, <3>3, <3>4
  <2>5. ASSUME r[i].type = "Close", NEW j \in i + 1 .. l
        PROVE  ~About(r[j], r[i].id)
    <3>1. j + 1 \in k + 1 .. l + 1 /\ j \in 1 .. l
      BY <2>1
    <3>2. r[j] = q[j + 1]
      BY <1>3, <3>1
    <3>3. QED
      BY <1>4, <2>2, <2>5, <3>1, <3>2
  <2>6. QED
    BY <2>3, <2>4, <2>5
<1>8. QED
  BY <1>2, <1>6, <1>7

LEMMA ToldMore ==
  ASSUME NEW M, NEW q \in Seq(M), NEW m \in M, NEW S, NEW id
  PROVE  /\ Told(q, S, id) \/ Is(m, "Connect", id) => Told(Append(q, m), S, id)
         /\ Closing(Append(q, m), id) => Closing(q, id) \/ Is(m, "Close", id)
<1>1. PICK l \in Nat : l = Len(q)
  OBVIOUS
<1>2. PICK r : r = Append(q, m)
  OBVIOUS
<1>3. Len(r) = l + 1 /\ r[l + 1] = m /\ \A i \in 1 .. l : r[i] = q[i]
  BY <1>1, <1>2
<1>4. \A i \in 1 .. l : i \in 1 .. l + 1
  OBVIOUS
<1>5. \A i \in 1 .. l + 1 : i \in 1 .. l \/ i = l + 1
  OBVIOUS
<1>6. QED
  BY <1>1, <1>2, <1>3, <1>4, <1>5 DEF Told, Closing

LEMMA ToldLess ==
  ASSUME NEW M, NEW q \in Seq(M), q # <<>>, NEW S, NEW id
  PROVE  /\ Closing(Tail(q), id) => Closing(q, id)
         /\ Is(Head(q), "Close", id) => Closing(q, id)
         /\ Told(q, S, id) =>
              \A T : S \ {Head(q).id} \subseteq T /\ (Head(q).id = id => id \in T)
                       => Told(Tail(q), T, id)
         /\ Told(q, S, id) /\ Head(q).type # "Connect" => Told(Tail(q), S, id)
<1>1. PICK l \in Nat : l + 1 = Len(q)
  <2>1. Len(q) \in Nat /\ Len(q) # 0
    OBVIOUS
  <2>2. Len(q) - 1 \in Nat /\ Len(q) - 1 + 1 = Len(q)
    BY <2>1
  <2>3. QED
    BY <2>2
<1>2. PICK r, m : r = Tail(q) /\ m = Head(q)
  OBVIOUS
<1>3. Len(r) = l /\ m = q[1] /\ \A i \in 1 .. l : r[i] = q[i + 1]
  BY <1>1, <1>2
<1>4. /\ 1 \in 1 .. l + 1 /\ \A i \in 1 .. l : i + 1 \in 1 .. l + 1
      /\ \A i \in 1 .. l + 1 : i = 1 \/ (i - 1 \in 1 .. l /\ (i - 1) + 1 = i)
  OBVIOUS
<1>5. (Closing(r, id) => Closing(q, id)) /\ (Is(m, "Close", id) => Closing(q, id))
  BY <1>1, <1>3, <1>4 DEF Closing
<1>6. \A type : (\E i \in 1 .. Len(q) : Is(q[i], type, id)) =>
        Is(m, type, id) \/ \E i \in 1 .. Len(r) : Is(r[i], type, id)
  BY <1>1, <1>3, <1>4
<1>7. ASSUME Told(q, S, id), NEW T, S \ {m.id} \subseteq T, m.id = id => id \in T
      PROVE  Told(r, T, id)
  BY <1>6, <1>7 DEF Told, Is
<1>8. Told(q, S, id) /\ m.type # "Connect" => Told(r, S, id)
  BY <1>6 DEF Told, Is
<1>9. QED
  BY <1>2, <1>5, <1>7, <1>8

-----------------------------------------------------------------------------
(* The invariant of a session.                                             *)

Taken == 0 .. con_id - 1
ReadsFrom(T) == [id : T, data : Nat]
DataFrom(T) == [id : T, data : Number]
EventsFrom(T) ==
  [type : {"Connect", "Close"}, id : T] \cup [type : {"Exited"}, id : {0}]
    \cup [type : {"Payload"}, id : T, data : Number]

\* Everything is about connections that were made.
TypesOver(T) ==
  /\ connections \subseteq T /\ state \subseteq T
  /\ peer \in [ConIds -> {"none", "open", "closed"}]
  /\ \A id \in ConIds : peer[id] = "none" <=> id \notin T
  /\ sock \in [ConIds -> Seq(Nat)] /\ replies \in [ConIds -> Seq(Number)]
  /\ read_rx \in Seq(ReadsFrom(T)) /\ toClient \in Seq(EventsFrom(T))
  /\ toServer \in Seq(DataFrom(T)) /\ demuxed \in Seq(DataFrom(T))
  /\ sent \in [ConIds -> Nat] /\ wrote \in [ConIds -> Nat]
  /\ given \in [ConIds -> Seq(Nat)] /\ got \in [ConIds -> Seq(Nat)]
TypesOK == con_id \in 0 .. MaxCons /\ TypesOver(Taken)

\* From a program to the library and back: what was given, what is in the
\* tunnel, what is in the channel and what has not been read are consecutive.
Downward(id, a, b, c) ==
  /\ given[id] = Numbers(a)
  /\ Flow(toClient, PayloadsOf(id), a, b)
  /\ Flow(read_rx, ReadsOf(id), b, c)
  /\ Rest(sock[id], c, sent[id], peer[id])
Upward(id, a, b, c) ==
  /\ got[id] = Numbers(a)
  /\ Flow(toServer, ReadsOf(id), a, b)
  /\ Flow(demuxed, ReadsOf(id), b, c)
  /\ Rest(replies[id], c, wrote[id], "open")

DownOK == \A id \in ConIds : \E a, b, c \in Nat : Downward(id, a, b, c)
UpOK == \A id \in ConIds : \E a, b, c \in Nat : Upward(id, a, b, c)

\* The client can hear what it was told.
ToldOK == Consistent(toClient, state)

\* The end of a connection is the last that its task reads.
ReadsOK ==
  \A i \in 1 .. Len(read_rx) :
    read_rx[i].data = Eof =>
      /\ sock[read_rx[i].id] = <<>> /\ peer[read_rx[i].id] = "closed"
      /\ \A j \in i + 1 .. Len(read_rx) : read_rx[j].id # read_rx[i].id

\* A running server keeps each connection until it has told the client of its
\* end.
LiveOK ==
  server = "running" =>
    /\ \A id \in ConIds : peer[id] = "open" \/ sock[id] # <<>> => id \in connections
    /\ \A i \in 1 .. Len(read_rx) : read_rx[i].id \in connections
    /\ \A id \in connections :
         Told(toClient, state, id) /\ ~Closing(toClient, id)

EndsOK ==
  /\ master \in {"running", "ended"}
  /\ client = "rejected" => master = "ended"
  /\ server = "failed" => toServer # <<>> /\ peer[Head(toServer).id] = "closed"

PtyInv ==
  /\ TypesOK /\ DownOK /\ UpOK /\ ToldOK /\ ReadsOK /\ LiveOK /\ EndsOK

LEMMA EventTypes ==
  ASSUME NEW T
  PROVE  /\ \A id \in T : /\ [type |-> "Connect", id |-> id] \in EventsFrom(T)
                          /\ [type |-> "Close", id |-> id] \in EventsFrom(T)
         /\ [type |-> "Exited", id |-> 0] \in EventsFrom(T)
         /\ \A id \in T, n \in Number :
              [type |-> "Payload", id |-> id, data |-> n] \in EventsFrom(T)
         /\ \A m \in EventsFrom(T) :
              /\ m.type \in {"Connect", "Payload", "Close", "Exited"}
              /\ m.type # "Exited" => m.id \in T
              /\ m.type = "Payload" =>
                   m.data \in Number /\ m \in PayloadsOf(m.id)
              /\ \A id : m \in PayloadsOf(id) => m.type = "Payload" /\ m.id = id
         /\ \A id, n : [type |-> "Connect", id |-> id] \notin PayloadsOf(n)
         /\ \A id, n : [type |-> "Close", id |-> id] \notin PayloadsOf(n)
         /\ \A n : [type |-> "Exited", id |-> 0] \notin PayloadsOf(n)
         /\ \A id, j, n : [type |-> "Payload", id |-> id, data |-> n]
                            \in PayloadsOf(j) => id = j
         /\ \A id : \A n \in Number :
              [type |-> "Payload", id |-> id, data |-> n] \in PayloadsOf(id)
         /\ \A U : T \subseteq U => EventsFrom(T) \subseteq EventsFrom(U)
<1>1. \A id, n : /\ [type |-> "Connect", id |-> id] \notin PayloadsOf(n)
                 /\ [type |-> "Close", id |-> id] \notin PayloadsOf(n)
                 /\ [type |-> "Exited", id |-> 0] \notin PayloadsOf(n)
  BY DEF PayloadsOf
<1>2. QED
  BY <1>1 DEF EventsFrom, PayloadsOf

LEMMA ReadTypes ==
  ASSUME NEW T
  PROVE  /\ \A id \in T, n \in Nat : [id |-> id, data |-> n] \in ReadsFrom(T)
         /\ \A m \in ReadsFrom(T) :
              /\ m.id \in T /\ m.data \in Nat
              /\ m = [id |-> m.id, data |-> m.data]
              /\ m.data # Eof => m.data \in Number /\ m \in ReadsOf(m.id)
         /\ \A id, n, j : [id |-> id, data |-> n] \in ReadsOf(j) =>
                            id = j /\ n \in Number
         /\ \A id : \A n \in Number : [id |-> id, data |-> n] \in ReadsOf(id)
         /\ \A id, m : m \in ReadsOf(id) => m.id = id /\ m.data \in Number
         /\ \A U : T \subseteq U => ReadsFrom(T) \subseteq ReadsFrom(U)
BY DEF ReadsFrom, ReadsOf, Number

LEMMA DataTypes ==
  ASSUME NEW T
  PROVE  /\ \A id \in T, n \in Number : [id |-> id, data |-> n] \in DataFrom(T)
         /\ \A m \in DataFrom(T) :
              m.id \in T /\ m.data \in Number /\ m \in ReadsOf(m.id)
         /\ \A U : T \subseteq U => DataFrom(T) \subseteq DataFrom(U)
         /\ Number \subseteq Nat
BY DEF DataFrom, ReadsOf, Number

LEMMA SeqGrows == \A A, B : A \subseteq B => Seq(A) \subseteq Seq(B)
OBVIOUS

LEMMA EndsAndTails ==
  ASSUME NEW M, NEW q \in Seq(M)
  PROVE  /\ \A m \in M : Append(q, m) \in Seq(M)
         /\ q # <<>> => Tail(q) \in Seq(M) /\ Head(q) \in M
OBVIOUS

LEMMA TakenIds ==
  ASSUME TypesOK
  PROVE  Taken \subseteq ConIds /\ MaxCons \in Nat
BY BoundsAssumption DEF TypesOK, Taken, ConIds

LEMMA PtyInit == Init => PtyInv
<1> SUFFICES ASSUME Init PROVE PtyInv
  OBVIOUS
<1>0. MaxCons \in Nat /\ Taken = {}
  BY BoundsAssumption DEF Init, Taken
<1>1. \A M : <<>> \in Seq(M)
  OBVIOUS
<1>2. TypesOK
  BY <1>0, <1>1 DEF Init, TypesOK, TypesOver
<1>3. DownOK
  <2> SUFFICES ASSUME NEW id \in ConIds PROVE Downward(id, 0, 0, 0)
    BY DEF DownOK
  <2>1. Rest(<<>>, 0, 0, "none")
    BY DEF Rest
  <2>2. QED
    BY <2>1, FlowEmpty, NumbersGrow DEF Init, Downward
<1>4. UpOK
  <2> SUFFICES ASSUME NEW id \in ConIds PROVE Upward(id, 0, 0, 0)
    BY DEF UpOK
  <2>1. Rest(<<>>, 0, 0, "open")
    BY DEF Rest
  <2>2. QED
    BY <2>1, FlowEmpty, NumbersGrow DEF Init, Upward
<1>5. ToldOK /\ ReadsOK
  BY DEF Init, ToldOK, ReadsOK, Consistent
<1>6. LiveOK
  BY DEF Init, LiveOK
<1>7. EndsOK
  BY DEF Init, EndsOK
<1>8. QED
  BY <1>2, <1>3, <1>4, <1>5, <1>6, <1>7 DEF PtyInv

-----------------------------------------------------------------------------
(* Types.                                                                  *)

LEMMA TypesKept == PtyInv /\ [Next]_vars => TypesOK'
<1> SUFFICES ASSUME PtyInv, [Next]_vars PROVE TypesOK'
  OBVIOUS
<1> USE DEF serverVars, tunnelVars, clientVars, socketVars, masterVars
<1>1. PICK T : T = Taken
  OBVIOUS
<1>2. /\ T \subseteq ConIds /\ MaxCons \in Nat
      /\ con_id \in 0 .. MaxCons /\ TypesOver(T)
  BY <1>1, TakenIds DEF PtyInv, TypesOK
<1>3. UNCHANGED con_id => Taken' = T
  BY <1>1 DEF Taken
<1>4. UNCHANGED con_id /\ TypesOver(T)' => TypesOK'
  BY <1>2, <1>3 DEF TypesOK
<1>5. ASSUME NEW id \in ConIds, ProgramWrites(id) \/ MasterWrites(id)
      PROVE  TypesOK'
  <2>1. /\ sock[id] \in Seq(Nat) /\ replies[id] \in Seq(Number)
        /\ sent[id] \in Nat /\ wrote[id] \in Nat
    BY <1>2 DEF TypesOver
  <2>2. /\ sent[id] + 1 \in Nat /\ Append(sock[id], sent[id] + 1) \in Seq(Nat)
        /\ wrote[id] + 1 \in Nat /\ wrote[id] + 1 \in Number
        /\ Append(replies[id], wrote[id] + 1) \in Seq(Number)
    BY <2>1 DEF Number, Eof
  <2>3. /\ sent' \in [ConIds -> Nat] /\ wrote' \in [ConIds -> Nat]
        /\ sock' \in [ConIds -> Seq(Nat)] /\ replies' \in [ConIds -> Seq(Number)]
    <3>1. CASE ProgramWrites(id)
      BY <1>2, <2>2, <3>1 DEF TypesOver, ProgramWrites
    <3>2. CASE MasterWrites(id)
      BY <1>2, <2>2, <3>2 DEF TypesOver, MasterWrites
    <3>3. QED
      BY <1>5, <3>1, <3>2
  <2>4. QED
    BY <1>2, <1>4, <1>5, <2>3 DEF TypesOver, ProgramWrites, MasterWrites
<1>6. ASSUME NEW id \in ConIds, ProgramCloses(id) PROVE TypesOK'
  BY <1>2, <1>4, <1>6 DEF TypesOver, ProgramCloses, Eof
<1>7. ASSUME NEW id \in ConIds, ReadTask(id) PROVE TypesOK'
  <2>1. id \in T
    BY <1>1, <1>2, <1>7
    DEF PtyInv, LiveOK, ReadTask, TypesOver
  <2>2. sock[id] \in Seq(Nat) /\ sock[id] # <<>>
    BY <1>2, <1>7 DEF TypesOver, ReadTask
  <2>3. Head(sock[id]) \in Nat /\ Tail(sock[id]) \in Seq(Nat)
    BY <2>2
  <2>4. [id |-> id, data |-> Head(sock[id])] \in ReadsFrom(T)
    BY <2>1, <2>3, ReadTypes
  <2>5. sock' \in [ConIds -> Seq(Nat)] /\ read_rx' \in Seq(ReadsFrom(T))
    BY <1>2, <1>7, <2>3, <2>4, EndsAndTails DEF TypesOver, ReadTask
  <2>6. QED
    BY <1>2, <1>4, <1>7, <2>5 DEF TypesOver, ReadTask
<1>8. ASSUME NEW id \in ConIds, StreamedTo(id) PROVE TypesOK'
  <2>1. id \in T /\ replies[id] \in Seq(Number) /\ replies[id] # <<>>
    BY <1>2, <1>8 DEF TypesOver, StreamedTo
  <2>2. Head(replies[id]) \in Number /\ Tail(replies[id]) \in Seq(Number)
    BY <2>1
  <2>3. [id |-> id, data |-> Head(replies[id])] \in DataFrom(T)
    BY <2>1, <2>2, DataTypes
  <2>4. replies' \in [ConIds -> Seq(Number)] /\ demuxed' \in Seq(DataFrom(T))
    BY <1>2, <1>8, <2>2, <2>3, EndsAndTails DEF TypesOver, StreamedTo
  <2>5. QED
    BY <1>2, <1>4, <1>8, <2>4 DEF TypesOver, StreamedTo
<1>9. ASSUME HandleNewConnection PROVE TypesOK'
  <2>1. con_id \in ConIds /\ con_id \in Nat /\ con_id' = con_id + 1
    BY <1>2, <1>9 DEF HandleNewConnection
  <2>2. PICK U : U = T \cup {con_id}
    OBVIOUS
  <2>3. Taken' = U /\ con_id' \in 0 .. MaxCons /\ con_id \notin T
    BY <1>1, <1>2, <2>1, <2>2 DEF Taken, ConIds
  <2>4. /\ EventsFrom(T) \subseteq EventsFrom(U) /\ ReadsFrom(T) \subseteq ReadsFrom(U)
        /\ DataFrom(T) \subseteq DataFrom(U)
    BY <2>2, EventTypes, ReadTypes, DataTypes
  <2>5. [type |-> "Connect", id |-> con_id] \in EventsFrom(U)
    BY <2>2, EventTypes
  <2>6. /\ toClient \in Seq(EventsFrom(U)) /\ read_rx \in Seq(ReadsFrom(U))
        /\ toServer \in Seq(DataFrom(U)) /\ demuxed \in Seq(DataFrom(U))
    BY <1>2, <2>4, SeqGrows DEF TypesOver
  <2>7. toClient' \in Seq(EventsFrom(U))
    BY <1>9, <2>5, <2>6, EndsAndTails DEF HandleNewConnection, Written
  <2>8. /\ peer' \in [ConIds -> {"none", "open", "closed"}]
        /\ \A id \in ConIds : peer'[id] = "none" <=> id \notin U
    BY <1>2, <1>9, <2>1, <2>2 DEF TypesOver, HandleNewConnection
  <2>9. TypesOver(U)'
    BY <1>2, <1>9, <2>2, <2>6, <2>7, <2>8 DEF TypesOver, HandleNewConnection
  <2>10. QED
    BY <2>3, <2>9 DEF TypesOK
<1>10. ASSUME HandleNewRead PROVE TypesOK'
  <2>1. PICK read : read = Head(read_rx)
    OBVIOUS
  <2>2. read \in ReadsFrom(T) /\ Tail(read_rx) \in Seq(ReadsFrom(T))
    BY <1>2, <1>10, <2>1, EndsAndTails DEF TypesOver, HandleNewRead
  <2>3. read.id \in T /\ (read.data # Eof => read.data \in Number)
    BY <2>2, ReadTypes
  <2>4. toClient' \in Seq(EventsFrom(T))
    <3>1. PICK c : c \in EventsFrom(T) /\ toClient' = Append(toClient, c)
      BY <1>10, <2>1, <2>3, EventTypes DEF HandleNewRead, Written
    <3>2. QED
      BY <1>2, <3>1, EndsAndTails DEF TypesOver
  <2>5. QED
    BY <1>2, <1>4, <1>10, <2>2, <2>4 DEF TypesOver, HandleNewRead
<1>11. ASSUME HandleData PROVE TypesOK'
  <2>1. PICK m : m = Head(toServer)
    OBVIOUS
  <2>2. m \in DataFrom(T) /\ Tail(toServer) \in Seq(DataFrom(T))
    BY <1>2, <1>11, <2>1, EndsAndTails DEF TypesOver, HandleData
  <2>3. m.id \in T /\ m.data \in Nat
    BY <2>2, DataTypes
  <2>4. toClient' \in Seq(EventsFrom(T)) /\ toServer' \in Seq(DataFrom(T))
    <3>1. [type |-> "Close", id |-> m.id] \in EventsFrom(T)
      BY <2>3, EventTypes
    <3>2. \/ UNCHANGED toClient
          \/ toClient' = Append(toClient, [type |-> "Close", id |-> m.id])
      BY <1>11, <2>1 DEF HandleData, Written
    <3>3. toServer' = toServer \/ toServer' = Tail(toServer)
      BY <1>11 DEF HandleData
    <3>4. QED
      <4>1. /\ Append(toClient, [type |-> "Close", id |-> m.id])
                 \in Seq(EventsFrom(T))
            /\ toClient \in Seq(EventsFrom(T)) /\ toServer \in Seq(DataFrom(T))
        BY <1>2, <3>1, EndsAndTails DEF TypesOver
      <4>2. QED
        BY <2>2, <3>2, <3>3, <4>1
  <2>5. got' \in [ConIds -> Seq(Nat)]
    <3>1. got[m.id] \in Seq(Nat)
      BY <1>2, <2>3 DEF TypesOver
    <3>2. Append(got[m.id], m.data) \in Seq(Nat)
      BY <2>3, <3>1
    <3>3. got' = got \/ got' = [got EXCEPT ![m.id] = Append(@, m.data)]
      BY <1>11, <2>1 DEF HandleData
    <3>4. QED
      BY <1>2, <3>2, <3>3 DEF TypesOver
  <2>6. UNCHANGED <<connections, read_rx, state, peer, sock, replies, demuxed,
                    sent, wrote, given>> /\ UNCHANGED con_id
    BY <1>11 DEF HandleData, Ends
  <2>7. QED
    BY <1>2, <1>4, <2>4, <2>5, <2>6 DEF TypesOver
<1>12. ASSUME HandleExit \/ ClientGone PROVE TypesOK'
  <2>1. toClient' \in Seq(EventsFrom(T))
    <3>1. [type |-> "Exited", id |-> 0] \in EventsFrom(T)
      BY EventTypes
    <3>2. \/ UNCHANGED toClient
          \/ toClient' = Append(toClient, [type |-> "Exited", id |-> 0])
      BY <1>12 DEF HandleExit, ClientGone, Written
    <3>3. /\ Append(toClient, [type |-> "Exited", id |-> 0])
               \in Seq(EventsFrom(T))
          /\ toClient \in Seq(EventsFrom(T))
      BY <1>2, <3>1, EndsAndTails DEF TypesOver
    <3>4. QED
      BY <3>2, <3>3
  <2>2. QED
    BY <1>2, <1>4, <1>12, <2>1 DEF TypesOver, HandleExit, ClientGone, Ends
<1>13. ASSUME HandleConnect \/ HandlePayload \/ HandleClose PROVE TypesOK'
  <2>1. PICK m : m = Head(toClient)
    OBVIOUS
  <2>2. m \in EventsFrom(T) /\ Tail(toClient) \in Seq(EventsFrom(T))
    BY <1>2, <1>13, <2>1, EndsAndTails
    DEF TypesOver, HandleConnect, HandlePayload, HandleClose, Incoming
  <2>3. /\ m.type # "Exited" => m.id \in T
        /\ m.type = "Payload" => m.data \in Nat
    BY <2>2, EventTypes DEF Number
  <2>4. toClient' \in Seq(EventsFrom(T)) /\ state' \subseteq T
    <3>1. toClient' = toClient \/ toClient' = Tail(toClient)
      BY <1>13 DEF HandleConnect, HandlePayload, HandleClose, Rejected
    <3>2. \/ state' = state \/ state' = state \ {m.id}
          \/ state' = state \cup {m.id} /\ m.type = "Connect"
      BY <1>13, <2>1
      DEF HandleConnect, HandlePayload, HandleClose, Incoming, Rejected
    <3>3. QED
      BY <1>2, <2>2, <2>3, <3>1, <3>2 DEF TypesOver
  <2>5. given' \in [ConIds -> Seq(Nat)]
    <3>1. \/ given' = given
          \/ /\ m.type = "Payload"
             /\ given' = [given EXCEPT ![m.id] = Append(@, m.data)]
      BY <1>13, <2>1
      DEF HandleConnect, HandlePayload, HandleClose, Incoming, Rejected
    <3>2. m.type = "Payload" =>
            given[m.id] \in Seq(Nat) /\ Append(given[m.id], m.data) \in Seq(Nat)
      <4> SUFFICES ASSUME m.type = "Payload"
                   PROVE  given[m.id] \in Seq(Nat)
                          /\ Append(given[m.id], m.data) \in Seq(Nat)
        OBVIOUS
      <4>1. m.id \in ConIds /\ m.data \in Nat
        BY <1>2, <2>3
      <4>2. given[m.id] \in Seq(Nat)
        BY <1>2, <4>1 DEF TypesOver
      <4>3. QED
        BY <4>1, <4>2
    <3>3. QED
      BY <1>2, <3>1, <3>2 DEF TypesOver
  <2>6. QED
    BY <1>2, <1>4, <1>13, <2>4, <2>5
    DEF TypesOver, HandleConnect, HandlePayload, HandleClose
<1>14. ASSUME SendData PROVE TypesOK'
  <2>1. /\ toServer' \in Seq(DataFrom(T)) /\ demuxed' \in Seq(DataFrom(T))
    BY <1>2, <1>14, EndsAndTails DEF TypesOver, SendData
  <2>2. QED
    BY <1>2, <1>4, <1>14, <2>1 DEF TypesOver, SendData
<1>15. ASSUME \/ ProgramExits \/ HandleExited \/ ServerGone \/ MasterEnded
              \/ MasterEnds \/ UNCHANGED vars
       PROVE  TypesOK'
  BY <1>2, <1>4, <1>15
  DEF TypesOver, ProgramExits, HandleExited, ServerGone, MasterEnded, MasterEnds,
      vars
<1>16. QED
  BY <1>5, <1>6, <1>7, <1>8, <1>9, <1>10, <1>11, <1>12, <1>13, <1>14, <1>15
  DEF Next, Programs, ServerLoop, ClientLoop, Tasks

-----------------------------------------------------------------------------
(* What the library is given and what the programs are given.              *)

LEMMA DownKept == PtyInv /\ [Next]_vars => DownOK'
<1> SUFFICES ASSUME PtyInv, [Next]_vars, NEW id \in ConIds
             PROVE  \E a, b, c \in Nat : Downward(id, a, b, c)'
  BY DEF DownOK
<1> USE DEF serverVars, tunnelVars, clientVars, socketVars, masterVars
<1>1. PICK T : T = Taken /\ T \subseteq ConIds /\ TypesOver(T)
  BY TakenIds DEF PtyInv, TypesOK
<1>2. PICK a \in Nat, b \in Nat, c \in Nat : Downward(id, a, b, c)
  BY DEF PtyInv, DownOK
<1>3. PICK K, R : K = PayloadsOf(id) /\ R = ReadsOf(id)
  OBVIOUS
<1>4. PICK g, t, r, s, n, p :
        /\ g = given[id] /\ t = toClient /\ r = read_rx
        /\ s = sock[id] /\ n = sent[id] /\ p = peer[id]
  OBVIOUS
<1>5. /\ g = Numbers(a) /\ Flow(t, K, a, b) /\ Flow(r, R, b, c)
      /\ Rest(s, c, n, p)
  BY <1>2, <1>3, <1>4 DEF Downward
<1>6. /\ t \in Seq(EventsFrom(T)) /\ r \in Seq(ReadsFrom(T))
      /\ s \in Seq(Nat) /\ n \in Nat
  BY <1>1, <1>4 DEF TypesOver
<1>7. ASSUME NEW a1 \in Nat, NEW b1 \in Nat, NEW c1 \in Nat,
             given'[id] = Numbers(a1), Flow(toClient', K, a1, b1),
             Flow(read_rx', R, b1, c1), Rest(sock'[id], c1, sent'[id], peer'[id])
      PROVE  \E x, y, z \in Nat : Downward(id, x, y, z)'
  BY <1>3, <1>7 DEF Downward
<1>8. CASE UNCHANGED <<given, toClient, read_rx, sock, sent, peer>>
  BY <1>4, <1>5, <1>7, <1>8
<1>9. ASSUME NEW i \in ConIds, ProgramWrites(i) \/ ProgramCloses(i)
      PROVE  \E x, y, z \in Nat : Downward(id, x, y, z)'
  <2>1. UNCHANGED <<given, toClient, read_rx>>
    BY <1>9 DEF ProgramWrites, ProgramCloses
  <2>2. CASE i # id
    <3>1. sock'[id] = s /\ sent'[id] = n /\ peer'[id] = p
      BY <1>1, <1>4, <1>9, <2>2 DEF ProgramWrites, ProgramCloses, TypesOver
    <3>2. QED
      BY <1>4, <1>5, <1>7, <2>1, <3>1
  <2>3. CASE i = id /\ ProgramWrites(i)
    <3>1. p # "closed"
      BY <1>4, <2>3 DEF ProgramWrites
    <3>2. sock'[id] = Append(s, n + 1) /\ sent'[id] = n + 1 /\ peer'[id] = p
      BY <1>1, <1>4, <2>3 DEF ProgramWrites, TypesOver
    <3>3. Rest(sock'[id], c, sent'[id], peer'[id])
      BY <1>5, <1>6, <3>1, <3>2, RestAdds
    <3>4. QED
      BY <1>4, <1>5, <1>7, <2>1, <3>3
  <2>4. CASE i = id /\ ProgramCloses(i)
    <3>1. p # "closed"
      BY <1>4, <2>4 DEF ProgramCloses
    <3>2. sock'[id] = Append(s, Eof) /\ sent'[id] = n /\ peer'[id] = "closed"
      BY <1>1, <1>4, <2>4 DEF ProgramCloses, TypesOver
    <3>3. Rest(sock'[id], c, sent'[id], peer'[id])
      BY <1>5, <1>6, <3>1, <3>2, RestAdds
    <3>4. QED
      BY <1>4, <1>5, <1>7, <2>1, <3>3
  <2>5. QED
    BY <1>9, <2>2, <2>3, <2>4
<1>10. ASSUME HandleNewConnection
       PROVE  \E x, y, z \in Nat : Downward(id, x, y, z)'
  <2>1. PICK m : m = [type |-> "Connect", id |-> con_id]
    OBVIOUS
  <2>2. UNCHANGED <<given, read_rx, sock, sent>> /\ toClient' = Append(t, m)
    BY <1>4, <1>10, <2>1 DEF HandleNewConnection, Written
  <2>3. m \notin K
    BY <1>3, <2>1, EventTypes
  <2>4. Flow(toClient', K, a, b)
    <3>1. t \in Seq(EventsFrom(T) \cup {m}) /\ m \in EventsFrom(T) \cup {m}
      BY <1>6, SeqGrows
    <3>2. QED
      BY <1>5, <2>2, <2>3, <3>1, FlowAppend
  <2>5. peer'[id] = p \/ p = "none"
    <3>1. con_id \notin T
      BY <1>1 DEF Taken, PtyInv, TypesOK
    <3>2. QED
      BY <1>1, <1>4, <1>10, <3>1 DEF HandleNewConnection, TypesOver
  <2>6. Rest(s, c, n, peer'[id])
    BY <1>5, <2>5 DEF Rest
  <2>7. QED
    BY <1>4, <1>5, <1>7, <2>2, <2>4, <2>6
<1>11. ASSUME NEW i \in ConIds, ReadTask(i)
       PROVE  \E x, y, z \in Nat : Downward(id, x, y, z)'
  <2>1. PICK d, m : d = Head(sock[i]) /\ m = [id |-> i, data |-> d]
    OBVIOUS
  <2>2. /\ UNCHANGED <<given, toClient, sent, peer>>
        /\ read_rx' = Append(r, m) /\ sock[i] # <<>>
        /\ sock' = [sock EXCEPT ![i] = Tail(@)]
    BY <1>4, <1>11, <2>1 DEF ReadTask
  <2>3. r \in Seq(ReadsFrom(T) \cup {m}) /\ m \in ReadsFrom(T) \cup {m}
    BY <1>6, SeqGrows
  <2>4. CASE i # id
    <3>1. m \notin R
      BY <1>3, <2>1, <2>4, ReadTypes
    <3>2. Flow(read_rx', R, b, c)
      BY <1>5, <2>2, <2>3, <3>1, FlowAppend
    <3>3. sock'[id] = s
      BY <1>1, <1>4, <2>2, <2>4 DEF TypesOver
    <3>4. QED
      BY <1>4, <1>5, <1>7, <2>2, <3>2, <3>3
  <2>5. CASE i = id
    <3>1. d = Head(s) /\ sock'[id] = Tail(s) /\ s # <<>>
      BY <1>1, <1>4, <2>1, <2>2, <2>5 DEF TypesOver
    <3>2. CASE d = Eof /\ Rest(Tail(s), c, n, p)
      <4>1. m \notin R
        BY <1>3, <2>1, <3>2, ReadTypes DEF Number
      <4>2. Flow(read_rx', R, b, c)
        BY <1>5, <2>2, <2>3, <4>1, FlowAppend
      <4>3. QED
        BY <1>4, <1>5, <1>7, <2>2, <3>1, <3>2, <4>2
    <3>3. CASE d # Eof /\ d = c + 1 /\ Rest(Tail(s), c + 1, n, p)
      <4>1. d \in Number
        BY <3>3 DEF Number
      <4>2. m \in R /\ m.data = c + 1
        BY <1>3, <2>1, <2>5, <3>3, <4>1, ReadTypes
      <4>3. Flow(read_rx', R, b, c + 1)
        BY <1>5, <2>2, <2>3, <4>2, FlowAppend
      <4>4. c + 1 \in Nat
        OBVIOUS
      <4>5. QED
        BY <1>4, <1>5, <1>7, <2>2, <3>1, <3>3, <4>3, <4>4
    <3>4. QED
      BY <1>5, <1>6, <3>1, <3>2, <3>3, RestTakes
  <2>6. QED
    BY <2>4, <2>5
<1>12. ASSUME HandleNewRead
       PROVE  \E x, y, z \in Nat : Downward(id, x, y, z)'
  <2>1. PICK h : h = Head(r) /\ r # <<>> /\ h \in ReadsFrom(T)
    BY <1>4, <1>6, <1>12, EndsAndTails DEF HandleNewRead
  <2>2. UNCHANGED <<given, sock, sent, peer>> /\ read_rx' = Tail(r)
    BY <1>4, <1>12 DEF HandleNewRead
  <2>3. /\ h \notin R => Flow(Tail(r), R, b, c)
        /\ h \in R => h.data = b + 1 /\ Flow(Tail(r), R, b + 1, c)
    BY <1>5, <1>6, <2>1, FlowTail
  <2>4. CASE h.data = Eof
    <3>1. PICK m : m = [type |-> "Close", id |-> h.id]
      OBVIOUS
    <3>2. toClient' = Append(t, m)
      BY <1>4, <1>12, <2>1, <2>4, <3>1 DEF HandleNewRead, Written
    <3>3. m \notin K /\ h \notin R
      BY <1>3, <2>4, <3>1, EventTypes, ReadTypes DEF Number
    <3>4. t \in Seq(EventsFrom(T) \cup {m}) /\ m \in EventsFrom(T) \cup {m}
      BY <1>6, SeqGrows
    <3>5. Flow(toClient', K, a, b)
      BY <1>5, <3>2, <3>3, <3>4, FlowAppend
    <3>6. QED
      BY <1>4, <1>5, <1>7, <2>2, <2>3, <3>3, <3>5
  <2>5. CASE h.data # Eof
    <3>1. PICK m : m = [type |-> "Payload", id |-> h.id, data |-> h.data]
      OBVIOUS
    <3>2. toClient' = Append(t, m)
      BY <1>4, <1>12, <2>1, <2>5, <3>1 DEF HandleNewRead
    <3>3. t \in Seq(EventsFrom(T) \cup {m}) /\ m \in EventsFrom(T) \cup {m}
      BY <1>6, SeqGrows
    <3>4. h.data \in Number /\ h \in ReadsOf(h.id)
      BY <2>1, <2>5, ReadTypes
    <3>5. CASE h.id = id
      <4>1. h \in R /\ m \in K /\ m.data = b + 1
        BY <1>3, <2>3, <3>1, <3>4, <3>5, EventTypes
      <4>2. Flow(toClient', K, a, b + 1)
        BY <1>5, <3>2, <3>3, <4>1, FlowAppend
      <4>3. b + 1 \in Nat
        OBVIOUS
      <4>4. QED
        BY <1>4, <1>5, <1>7, <2>2, <2>3, <4>1, <4>2, <4>3
    <3>6. CASE h.id # id
      <4>1. h \notin R /\ m \notin K
        BY <1>3, <3>1, <3>6, EventTypes, ReadTypes
      <4>2. Flow(toClient', K, a, b)
        BY <1>5, <3>2, <3>3, <4>1, FlowAppend
      <4>3. QED
        BY <1>4, <1>5, <1>7, <2>2, <2>3, <4>1, <4>2
    <3>7. QED
      BY <3>5, <3>6
  <2>6. QED
    BY <2>4, <2>5
<1>13. ASSUME HandleData \/ HandleExit \/ ClientGone
       PROVE  \E x, y, z \in Nat : Downward(id, x, y, z)'
  <2>1. PICK m : /\ m \notin K
                 /\ toClient' = t \/ toClient' = Append(t, m)
    BY <1>3, <1>4, <1>13, EventTypes
    DEF HandleData, HandleExit, ClientGone, Written
  <2>2. t \in Seq(EventsFrom(T) \cup {m}) /\ m \in EventsFrom(T) \cup {m}
    BY <1>6, SeqGrows
  <2>3. Flow(toClient', K, a, b)
    BY <1>5, <2>1, <2>2, FlowAppend
  <2>4. UNCHANGED <<given, read_rx, sock, sent, peer>>
    BY <1>13 DEF HandleData, HandleExit, ClientGone, Ends
  <2>5. QED
    BY <1>4, <1>5, <1>7, <2>3, <2>4
<1>14. ASSUME HandleConnect \/ HandlePayload \/ HandleClose
       PROVE  \E x, y, z \in Nat : Downward(id, x, y, z)'
  <2>1. UNCHANGED <<read_rx, sock, sent, peer>>
    BY <1>14 DEF HandleConnect, HandlePayload, HandleClose
  <2>2. PICK h : h = Head(t) /\ t # <<>> /\ h \in EventsFrom(T)
    BY <1>4, <1>6, <1>14, EndsAndTails
    DEF HandleConnect, HandlePayload, HandleClose, Incoming
  <2>3. /\ h \notin K => Flow(Tail(t), K, a, b)
        /\ h \in K => h.data = a + 1 /\ Flow(Tail(t), K, a + 1, b)
    BY <1>5, <1>6, <2>2, FlowTail
  <2>4. CASE UNCHANGED <<toClient, given>>
    BY <1>8, <2>1, <2>4
  <2>5. CASE h \notin K /\ toClient' = Tail(t) /\ given'[id] = g
    BY <1>4, <1>5, <1>7, <2>1, <2>3, <2>5
  <2>6. CASE h \in K /\ toClient' = Tail(t) /\ given'[id] = Append(g, h.data)
    <3>1. Append(g, h.data) = Append(Numbers(a), a + 1) /\ a + 1 \in Nat
      BY <1>5, <2>3, <2>6
    <3>2. Append(Numbers(a), a + 1) = Numbers(a + 1)
      BY NumbersGrow
    <3>3. given'[id] = Numbers(a + 1)
      BY <2>6, <3>1, <3>2
    <3>4. QED
      BY <1>4, <1>5, <1>7, <2>1, <2>3, <2>6, <3>1, <3>3
  <2>7. CASE HandleConnect \/ HandleClose
    <3>1. UNCHANGED given /\ (toClient' = toClient \/ toClient' = Tail(t))
      BY <1>4, <2>7 DEF HandleConnect, HandleClose, Rejected
    <3>2. h.type # "Payload"
      BY <1>4, <2>2, <2>7 DEF HandleConnect, HandleClose, Incoming
    <3>3. h \notin K
      BY <1>3, <2>2, <3>2, EventTypes
    <3>4. QED
      BY <1>4, <2>4, <2>5, <3>1, <3>3
  <2>8. CASE HandlePayload
    <3>1. h.type = "Payload"
      BY <1>4, <2>2, <2>8 DEF HandlePayload, Incoming
    <3>2. \/ UNCHANGED <<toClient, given>>
          \/ /\ toClient' = Tail(t)
             /\ given' = [given EXCEPT ![h.id] = Append(@, h.data)]
      BY <1>4, <2>2, <2>8 DEF HandlePayload, Rejected
    <3>3. h.id = id <=> h \in K
      BY <1>3, <2>2, <3>1, EventTypes
    <3>4. QED
      BY <1>1, <1>4, <2>4, <2>5, <2>6, <3>2, <3>3 DEF TypesOver
  <2>9. QED
    BY <1>14, <2>7, <2>8
<1>15. ASSUME \/ \E i \in ConIds : StreamedTo(i) \/ MasterWrites(i)
              \/ ProgramExits \/ HandleExited \/ ServerGone \/ SendData
              \/ MasterEnded \/ MasterEnds \/ UNCHANGED vars
       PROVE  UNCHANGED <<given, toClient, read_rx, sock, sent, peer>>
  BY <1>15
  DEF StreamedTo, MasterWrites, ProgramExits, HandleExited, ServerGone, SendData,
      MasterEnded, MasterEnds, vars
<1>16. QED
  BY <1>8, <1>9, <1>10, <1>11, <1>12, <1>13, <1>14, <1>15
  DEF Next, Programs, ServerLoop, ClientLoop, Tasks

LEMMA UpKept == PtyInv /\ [Next]_vars => UpOK'
<1> SUFFICES ASSUME PtyInv, [Next]_vars, NEW id \in ConIds
             PROVE  \E a, b, c \in Nat : Upward(id, a, b, c)'
  BY DEF UpOK
<1> USE DEF serverVars, tunnelVars, clientVars, socketVars, masterVars
<1>1. PICK T : T = Taken /\ T \subseteq ConIds /\ TypesOver(T)
  BY TakenIds DEF PtyInv, TypesOK
<1>2. PICK a \in Nat, b \in Nat, c \in Nat : Upward(id, a, b, c)
  BY DEF PtyInv, UpOK
<1>3. PICK R : R = ReadsOf(id)
  OBVIOUS
<1>4. PICK g, t, r, s, n :
        /\ g = got[id] /\ t = toServer /\ r = demuxed
        /\ s = replies[id] /\ n = wrote[id]
  OBVIOUS
<1>5. /\ g = Numbers(a) /\ Flow(t, R, a, b) /\ Flow(r, R, b, c)
      /\ Rest(s, c, n, "open")
  BY <1>2, <1>3, <1>4 DEF Upward
<1>6. /\ t \in Seq(DataFrom(T)) /\ r \in Seq(DataFrom(T))
      /\ s \in Seq(Nat) /\ n \in Nat
  BY <1>1, <1>4, DataTypes, SeqGrows DEF TypesOver
<1>7. ASSUME NEW a1 \in Nat, NEW b1 \in Nat, NEW c1 \in Nat,
             got'[id] = Numbers(a1), Flow(toServer', R, a1, b1),
             Flow(demuxed', R, b1, c1), Rest(replies'[id], c1, wrote'[id], "open")
      PROVE  \E x, y, z \in Nat : Upward(id, x, y, z)'
  BY <1>3, <1>7 DEF Upward
<1>8. CASE UNCHANGED <<got, toServer, demuxed, replies, wrote>>
  BY <1>4, <1>5, <1>7, <1>8
<1>9. ASSUME NEW i \in ConIds, MasterWrites(i)
      PROVE  \E x, y, z \in Nat : Upward(id, x, y, z)'
  <2>1. UNCHANGED <<got, toServer, demuxed>>
    BY <1>9 DEF MasterWrites
  <2>2. CASE i # id
    <3>1. replies'[id] = s /\ wrote'[id] = n
      BY <1>1, <1>4, <1>9, <2>2 DEF MasterWrites, TypesOver
    <3>2. QED
      BY <1>4, <1>5, <1>7, <2>1, <3>1
  <2>3. CASE i = id
    <3>1. replies'[id] = Append(s, n + 1) /\ wrote'[id] = n + 1
      BY <1>1, <1>4, <1>9, <2>3 DEF MasterWrites, TypesOver
    <3>2. Rest(replies'[id], c, wrote'[id], "open")
      BY <1>5, <1>6, <3>1, RestAdds
    <3>3. QED
      BY <1>4, <1>5, <1>7, <2>1, <3>2
  <2>4. QED
    BY <2>2, <2>3
<1>10. ASSUME NEW i \in ConIds, StreamedTo(i)
       PROVE  \E x, y, z \in Nat : Upward(id, x, y, z)'
  <2>1. PICK d, m : d = Head(replies[i]) /\ m = [id |-> i, data |-> d]
    OBVIOUS
  <2>2. /\ UNCHANGED <<got, toServer, wrote>>
        /\ demuxed' = Append(r, m) /\ replies[i] # <<>>
        /\ replies' = [replies EXCEPT ![i] = Tail(@)]
    BY <1>4, <1>10, <2>1 DEF StreamedTo
  <2>3. r \in Seq(DataFrom(T) \cup {m}) /\ m \in DataFrom(T) \cup {m}
    BY <1>6, SeqGrows
  <2>4. CASE i # id
    <3>1. m \notin R
      BY <1>3, <2>1, <2>4, ReadTypes
    <3>2. Flow(demuxed', R, b, c)
      BY <1>5, <2>2, <2>3, <3>1, FlowAppend
    <3>3. replies'[id] = s
      BY <1>1, <1>4, <2>2, <2>4 DEF TypesOver
    <3>4. QED
      BY <1>4, <1>5, <1>7, <2>2, <3>2, <3>3
  <2>5. CASE i = id
    <3>1. d = Head(s) /\ replies'[id] = Tail(s) /\ s # <<>>
      BY <1>1, <1>4, <2>1, <2>2, <2>5 DEF TypesOver
    <3>2. d # Eof /\ d = c + 1 /\ Rest(Tail(s), c + 1, n, "open")
      BY <1>5, <1>6, <3>1, RestTakes
    <3>3. d \in Number
      BY <3>2 DEF Number
    <3>4. m \in R /\ m.data = c + 1
      BY <1>3, <2>1, <2>5, <3>2, <3>3, ReadTypes
    <3>5. Flow(demuxed', R, b, c + 1)
      BY <1>5, <2>2, <2>3, <3>4, FlowAppend
    <3>6. c + 1 \in Nat
      OBVIOUS
    <3>7. QED
      BY <1>4, <1>5, <1>7, <2>2, <3>1, <3>2, <3>5, <3>6
  <2>6. QED
    BY <2>4, <2>5
<1>11. ASSUME SendData PROVE \E x, y, z \in Nat : Upward(id, x, y, z)'
  <2>1. PICK h : h = Head(r) /\ r # <<>> /\ h \in DataFrom(T)
    BY <1>4, <1>6, <1>11, EndsAndTails DEF SendData
  <2>2. /\ UNCHANGED <<got, replies, wrote>>
        /\ toServer' = Append(t, h) /\ demuxed' = Tail(r)
    BY <1>4, <1>11, <2>1 DEF SendData
  <2>3. CASE h \in R
    <3>1. h.data = b + 1 /\ Flow(Tail(r), R, b + 1, c) /\ b + 1 \in Nat
      BY <1>5, <1>6, <2>1, <2>3, FlowTail
    <3>2. Flow(toServer', R, a, b + 1)
      BY <1>5, <1>6, <2>1, <2>2, <2>3, <3>1, FlowAppend
    <3>3. QED
      BY <1>4, <1>5, <1>7, <2>2, <3>1, <3>2
  <2>4. CASE h \notin R
    <3>1. Flow(Tail(r), R, b, c)
      BY <1>5, <1>6, <2>1, <2>4, FlowTail
    <3>2. Flow(toServer', R, a, b)
      BY <1>5, <1>6, <2>1, <2>2, <2>4, FlowAppend
    <3>3. QED
      BY <1>4, <1>5, <1>7, <2>2, <3>1, <3>2
  <2>5. QED
    BY <2>3, <2>4
<1>12. ASSUME HandleData PROVE \E x, y, z \in Nat : Upward(id, x, y, z)'
  <2>1. PICK h : h = Head(t) /\ t # <<>> /\ h \in DataFrom(T)
    BY <1>4, <1>6, <1>12, EndsAndTails DEF HandleData
  <2>2. UNCHANGED <<demuxed, replies, wrote>>
    BY <1>12 DEF HandleData
  <2>3. CASE UNCHANGED <<toServer, got>>
    BY <1>8, <2>2, <2>3
  <2>4. CASE /\ toServer' = Tail(t)
             /\ got' = [got EXCEPT ![h.id] = Append(@, h.data)]
             /\ peer[h.id] = "open"
    <3>1. CASE h.id # id
      <4>1. got'[id] = g /\ h \notin R
        BY <1>1, <1>3, <1>4, <2>4, <3>1, ReadTypes, SMTT(30) DEF TypesOver
      <4>2. Flow(toServer', R, a, b)
        BY <1>5, <1>6, <2>1, <2>4, <4>1, FlowTail
      <4>3. QED
        BY <1>4, <1>5, <1>7, <2>2, <4>1, <4>2
    <3>2. CASE h.id = id
      <4>1. h \in R
        BY <1>3, <2>1, <3>2, DataTypes
      <4>2. h.data = a + 1 /\ Flow(toServer', R, a + 1, b) /\ a + 1 \in Nat
        BY <1>5, <1>6, <2>1, <2>4, <4>1, FlowTail
      <4>3. got'[id] = Append(g, a + 1)
        BY <1>1, <1>4, <2>4, <3>2, <4>2 DEF TypesOver
      <4>4. Append(Numbers(a), a + 1) = Numbers(a + 1)
        BY NumbersGrow
      <4>5. got'[id] = Numbers(a + 1)
        BY <1>5, <4>3, <4>4
      <4>6. QED
        BY <1>4, <1>5, <1>7, <2>2, <4>2, <4>5
    <3>3. QED
      BY <3>1, <3>2
  <2>5. QED
    BY <1>4, <1>12, <2>1, <2>3, <2>4 DEF HandleData
<1>13. ASSUME \/ \E i \in ConIds : ProgramWrites(i) \/ ProgramCloses(i) \/ ReadTask(i)
              \/ HandleNewConnection \/ HandleNewRead \/ HandleExit \/ ClientGone
              \/ HandleConnect \/ HandlePayload \/ HandleClose \/ HandleExited
              \/ ProgramExits \/ ServerGone \/ MasterEnded \/ MasterEnds
              \/ UNCHANGED vars
       PROVE  UNCHANGED <<got, toServer, demuxed, replies, wrote>>
  BY <1>13
  DEF ProgramWrites, ProgramCloses, ReadTask, HandleNewConnection, HandleNewRead,
      HandleExit, ClientGone, HandleConnect, HandlePayload, HandleClose,
      HandleExited, ProgramExits, ServerGone, MasterEnded, MasterEnds, vars
<1>14. QED
  BY <1>8, <1>9, <1>10, <1>11, <1>12, <1>13
  DEF Next, Programs, ServerLoop, ClientLoop, Tasks

-----------------------------------------------------------------------------
(* What the two ends know of each other's connections.                     *)

LEMMA LiveIds ==
  ASSUME PtyInv, server = "running", NEW id
  PROVE  /\ id \in connections =>
              Told(toClient, state, id) /\ ~Closing(toClient, id)
         /\ id \in ConIds /\ (peer[id] = "open" \/ sock[id] # <<>>) =>
              id \in connections
BY DEF PtyInv, LiveOK

LEMMA ToldKept == PtyInv /\ [Next]_vars => ToldOK'
<1> SUFFICES ASSUME PtyInv, [Next]_vars PROVE Consistent(toClient', state')
  BY DEF ToldOK
<1> USE DEF serverVars, tunnelVars, clientVars, socketVars, masterVars
<1>1. PICK T : T = Taken /\ T \subseteq ConIds /\ TypesOver(T)
  BY TakenIds DEF PtyInv, TypesOK
<1>2. PICK q, S : q = toClient /\ S = state
  OBVIOUS
<1>3. q \in Seq(EventsFrom(T)) /\ S \subseteq T /\ Consistent(q, S)
  BY <1>1, <1>2 DEF TypesOver, PtyInv, ToldOK
<1>4. ASSUME UNCHANGED <<toClient, state>> PROVE Consistent(toClient', state')
  BY <1>2, <1>3, <1>4
<1>5. ASSUME NEW m,
             m.type \in {"Connect", "Payload", "Close", "Exited"},
             m.type = "Connect" =>
               m.id \notin S /\ \A i \in 1 .. Len(q) : ~About(q[i], m.id),
             m.type \in {"Payload", "Close"} =>
               Told(q, S, m.id) /\ ~Closing(q, m.id)
      PROVE  Consistent(Append(q, m), S)
  <2>1. q \in Seq(EventsFrom(T) \cup {m}) /\ m \in EventsFrom(T) \cup {m}
    BY <1>3, SeqGrows
  <2>2. QED
    BY <1>3, <1>5, <2>1, ConsistentAppend
<1>6. ASSUME HandleNewConnection PROVE Consistent(toClient', state')
  <2>1. PICK m : m = [type |-> "Connect", id |-> con_id]
    OBVIOUS
  <2>2. toClient' = Append(q, m) /\ state' = S
    BY <1>2, <1>6, <2>1 DEF HandleNewConnection, Written
  <2>3. m.type = "Connect" /\ m.id = con_id /\ con_id \notin T
    BY <1>1, <2>1 DEF Taken, PtyInv, TypesOK
  <2>4. \A i \in 1 .. Len(q) : ~About(q[i], con_id)
    <3> SUFFICES ASSUME NEW i \in 1 .. Len(q) PROVE ~About(q[i], con_id)
      OBVIOUS
    <3>1. q[i] \in EventsFrom(T)
      BY <1>3
    <3>2. QED
      BY <2>3, <3>1, EventTypes DEF About
  <2>5. QED
    BY <1>3, <1>5, <2>2, <2>3, <2>4
<1>7. ASSUME HandleNewRead PROVE Consistent(toClient', state')
  <2>1. PICK h : h = Head(read_rx) /\ h.id \in connections
    <3>1. read_rx # <<>> /\ read_rx \in Seq(ReadsFrom(T)) /\ server = "running"
      BY <1>1, <1>7 DEF HandleNewRead, TypesOver
    <3>2. 1 \in 1 .. Len(read_rx) /\ Head(read_rx) = read_rx[1]
      BY <3>1
    <3>3. QED
      BY <3>1, <3>2 DEF PtyInv, LiveOK
  <2>2. Told(q, S, h.id) /\ ~Closing(q, h.id)
    BY <1>2, <1>7, <2>1, LiveIds DEF HandleNewRead
  <2>3. PICK m : /\ m.type \in {"Payload", "Close"} /\ m.id = h.id
                 /\ toClient' = Append(q, m)
    BY <1>2, <1>7, <2>1 DEF HandleNewRead, Written
  <2>4. state' = S
    BY <1>2, <1>7 DEF HandleNewRead
  <2>5. QED
    BY <1>5, <2>2, <2>3, <2>4
<1>8. ASSUME HandleData PROVE Consistent(toClient', state')
  <2>1. PICK h : h = Head(toServer)
    OBVIOUS
  <2>2. state' = S
    BY <1>2, <1>8 DEF HandleData
  <2>3. CASE UNCHANGED toClient
    BY <1>2, <1>4, <2>2, <2>3
  <2>4. CASE h.id \in connections /\ Written("Close", h.id)
    <3>1. Told(q, S, h.id) /\ ~Closing(q, h.id)
      BY <1>2, <1>8, <2>4, LiveIds DEF HandleData
    <3>2. PICK m : m.type = "Close" /\ m.id = h.id /\ toClient' = Append(q, m)
      BY <1>2, <2>4 DEF Written
    <3>3. QED
      BY <1>5, <2>2, <3>1, <3>2
  <2>5. QED
    BY <1>8, <2>1, <2>3, <2>4 DEF HandleData
<1>9. ASSUME HandleExit PROVE Consistent(toClient', state')
  <2>1. PICK m : m.type = "Exited" /\ toClient' = Append(q, m)
    BY <1>2, <1>9 DEF HandleExit, Written
  <2>2. state' = S
    BY <1>2, <1>9 DEF HandleExit
  <2>3. QED
    BY <1>5, <2>1, <2>2
<1>10. ASSUME HandleConnect \/ HandlePayload \/ HandleClose
       PROVE  Consistent(toClient', state')
  <2>1. q # <<>>
    BY <1>2, <1>10 DEF HandleConnect, HandlePayload, HandleClose, Incoming
  <2>2. /\ Head(q).type = "Connect" => Consistent(Tail(q), S \cup {Head(q).id})
        /\ Head(q).type = "Payload" => Consistent(Tail(q), S)
        /\ Head(q).type = "Close" => Consistent(Tail(q), S \ {Head(q).id})
    BY <1>3, <2>1, ConsistentTail
  <2>3. \/ UNCHANGED <<toClient, state>>
        \/ /\ toClient' = Tail(q)
           /\ \/ Head(q).type = "Connect" /\ state' = S \cup {Head(q).id}
              \/ Head(q).type = "Payload" /\ state' = S
              \/ Head(q).type = "Close" /\ state' = S \ {Head(q).id}
    BY <1>2, <1>10
    DEF HandleConnect, HandlePayload, HandleClose, Incoming, Rejected
  <2>4. QED
    BY <1>4, <2>2, <2>3
<1>11. ASSUME \/ \E i \in ConIds : \/ ProgramWrites(i) \/ ProgramCloses(i)
                                   \/ ReadTask(i) \/ StreamedTo(i) \/ MasterWrites(i)
              \/ ClientGone \/ HandleExited \/ ProgramExits \/ ServerGone
              \/ SendData \/ MasterEnded \/ MasterEnds \/ UNCHANGED vars
       PROVE  UNCHANGED <<toClient, state>>
  BY <1>11
  DEF ProgramWrites, ProgramCloses, ReadTask, StreamedTo, MasterWrites,
      ClientGone, HandleExited, ProgramExits, ServerGone, SendData, MasterEnded,
      MasterEnds, vars
<1>12. QED
  BY <1>4, <1>6, <1>7, <1>8, <1>9, <1>10, <1>11
  DEF Next, Programs, ServerLoop, ClientLoop, Tasks

\* A message more at the end of what the reader tasks sent.
LEMMA ReadsKept == PtyInv /\ [Next]_vars => ReadsOK'
<1> SUFFICES ASSUME PtyInv, [Next]_vars PROVE ReadsOK'
  OBVIOUS
<1> USE DEF serverVars, tunnelVars, clientVars, socketVars, masterVars
<1>1. PICK T : T = Taken /\ T \subseteq ConIds /\ TypesOver(T)
  BY TakenIds DEF PtyInv, TypesOK
<1>2. PICK r : r = read_rx
  OBVIOUS
<1>3. /\ r \in Seq(ReadsFrom(T))
      /\ \A i \in 1 .. Len(r) : r[i] \in ReadsFrom(T) /\ r[i].id \in T
  BY <1>1, <1>2, ReadTypes DEF TypesOver
<1>4. \A i \in 1 .. Len(r) :
        r[i].data = Eof =>
          /\ sock[r[i].id] = <<>> /\ peer[r[i].id] = "closed"
          /\ \A j \in i + 1 .. Len(r) : r[j].id # r[i].id
  BY <1>2 DEF PtyInv, ReadsOK
\* Who has closed writes nothing more.
<1>5. ASSUME UNCHANGED read_rx,
             \A id \in T : sock[id] = <<>> /\ peer[id] = "closed" =>
                             sock'[id] = <<>> /\ peer'[id] = "closed"
      PROVE  ReadsOK'
  BY <1>2, <1>3, <1>4, <1>5 DEF ReadsOK
<1>6. ASSUME NEW i \in ConIds, ProgramWrites(i) \/ ProgramCloses(i)
      PROVE  ReadsOK'
  <2>1. \A id \in T : sock[id] = <<>> /\ peer[id] = "closed" =>
                        sock'[id] = <<>> /\ peer'[id] = "closed"
    BY <1>1, <1>6 DEF ProgramWrites, ProgramCloses, TypesOver
  <2>2. QED
    BY <1>5, <1>6, <2>1 DEF ProgramWrites, ProgramCloses
<1>7. ASSUME HandleNewConnection PROVE ReadsOK'
  <2>1. con_id \notin T
    BY <1>1 DEF Taken, PtyInv, TypesOK
  <2>2. \A id \in T : peer'[id] = peer[id] /\ sock'[id] = sock[id]
    BY <1>1, <1>7, <2>1 DEF HandleNewConnection, TypesOver
  <2>3. QED
    BY <1>5, <1>7, <2>2 DEF HandleNewConnection
<1>8. ASSUME NEW i \in ConIds, ReadTask(i) PROVE ReadsOK'
  <2>1. PICK s, d : s = sock[i] /\ d = Head(s)
    OBVIOUS
  <2>2. PICK m : m = [id |-> i, data |-> d]
    OBVIOUS
  <2>3. /\ read_rx' = Append(r, m) /\ s # <<>> /\ UNCHANGED peer
        /\ sock' = [sock EXCEPT ![i] = Tail(s)]
    BY <1>1, <1>2, <1>8, <2>1, <2>2 DEF ReadTask
  <2>4. d = Eof => Tail(s) = <<>> /\ peer[i] = "closed"
    <3>1. PICK a \in Nat, b \in Nat, c \in Nat : Downward(i, a, b, c)
      BY DEF PtyInv, DownOK
    <3>2. Rest(s, c, sent[i], peer[i]) /\ s \in Seq(Nat)
      BY <1>1, <2>1, <3>1 DEF Downward, TypesOver
    <3>3. QED
      BY <2>1, <2>3, <3>2, RestTakes
  <2>5. PICK l \in Nat : l = Len(r)
    BY <1>3
  <2>6. PICK t : t = Append(r, m)
    OBVIOUS
  <2>7. Len(t) = l + 1 /\ t[l + 1] = m /\ \A j \in 1 .. l : t[j] = r[j]
    BY <1>3, <2>5, <2>6
  <2>8. ASSUME NEW j \in 1 .. l + 1, t[j].data = Eof
        PROVE  /\ sock'[t[j].id] = <<>> /\ peer'[t[j].id] = "closed"
               /\ \A k \in j + 1 .. l + 1 : t[k].id # t[j].id
    <3>1. CASE j = l + 1
      <4>1. t[j].id = i /\ d = Eof /\ j + 1 .. l + 1 = {}
        BY <2>2, <2>7, <2>8, <3>1
      <4>2. sock'[i] = <<>> /\ peer'[i] = "closed"
        BY <1>1, <2>3, <2>4, <4>1 DEF TypesOver
      <4>3. QED
        BY <4>1, <4>2
    <3>2. CASE j # l + 1
      <4>1. j \in 1 .. l /\ t[j] = r[j] /\ r[j].data = Eof
        BY <2>7, <2>8, <3>2
      <4>2. /\ sock[r[j].id] = <<>> /\ peer[r[j].id] = "closed"
            /\ \A k \in j + 1 .. l : r[k].id # r[j].id
        BY <1>4, <2>5, <4>1
      <4>3. r[j].id # i
        BY <2>1, <2>3, <4>2
      <4>4. sock'[r[j].id] = <<>> /\ peer'[r[j].id] = "closed"
        BY <1>1, <1>3, <2>3, <2>5, <4>1, <4>2, <4>3 DEF TypesOver
      <4>5. \A k \in j + 1 .. l + 1 : (k \in j + 1 .. l /\ t[k] = r[k]) \/ t[k].id = i
        BY <2>2, <2>7, <4>1
      <4>6. QED
        BY <4>1, <4>2, <4>3, <4>4, <4>5
    <3>3. QED
      BY <3>1, <3>2
  <2>9. QED
    BY <2>3, <2>6, <2>7, <2>8 DEF ReadsOK
<1>9. ASSUME HandleNewRead PROVE ReadsOK'
  <2>1. r # <<>> /\ read_rx' = Tail(r) /\ UNCHANGED <<sock, peer>>
    BY <1>2, <1>9 DEF HandleNewRead
  <2>2. PICK t : t = Tail(r)
    OBVIOUS
  <2>3. PICK l \in Nat : l + 1 = Len(r)
    <3>1. Len(r) \in Nat /\ Len(r) # 0
      BY <1>3, <2>1
    <3>2. Len(r) - 1 \in Nat /\ Len(r) - 1 + 1 = Len(r)
      BY <3>1
    <3>3. QED
      BY <3>2
  <2>4. Len(t) = l /\ \A j \in 1 .. l : t[j] = r[j + 1]
    BY <1>3, <2>1, <2>2, <2>3
  <2>5. \A j \in 1 .. l : j + 1 \in 1 .. l + 1
        /\ \A k \in j + 1 .. l : k \in 1 .. l /\ k + 1 \in (j + 1) + 1 .. l + 1
    OBVIOUS
  <2>6. ASSUME NEW j \in 1 .. l, t[j].data = Eof
        PROVE  /\ sock[t[j].id] = <<>> /\ peer[t[j].id] = "closed"
               /\ \A k \in j + 1 .. l : t[k].id # t[j].id
    <3>1. PICK n \in 1 .. Len(r) : n = j + 1 /\ t[j] = r[n]
      BY <2>3, <2>4, <2>5
    <3>2. /\ sock[r[n].id] = <<>> /\ peer[r[n].id] = "closed"
          /\ \A k \in n + 1 .. Len(r) : r[k].id # r[n].id
      BY <1>4, <2>6, <3>1
    <3>3. \A k \in j + 1 .. l : t[k] = r[k + 1] /\ k + 1 \in n + 1 .. Len(r)
      BY <2>3, <2>4, <2>5, <3>1
    <3>4. QED
      BY <3>1, <3>2, <3>3
  <2>7. QED
    BY <2>1, <2>2, <2>4, <2>6 DEF ReadsOK
<1>10. ASSUME \/ \E i \in ConIds : StreamedTo(i) \/ MasterWrites(i)
              \/ HandleData \/ HandleExit \/ ClientGone
              \/ HandleConnect \/ HandlePayload \/ HandleClose \/ HandleExited
              \/ ProgramExits \/ ServerGone \/ SendData \/ MasterEnded
              \/ MasterEnds \/ UNCHANGED vars
       PROVE  UNCHANGED <<read_rx, sock, peer>>
  BY <1>10
  DEF StreamedTo, MasterWrites, HandleData, HandleExit, ClientGone, Ends,
      HandleConnect, HandlePayload, HandleClose, HandleExited, ProgramExits,
      ServerGone, SendData, MasterEnded, MasterEnds, vars
<1>11. QED
  BY <1>5, <1>6, <1>7, <1>8, <1>9, <1>10
  DEF Next, Programs, ServerLoop, ClientLoop, Tasks

LEMMA LiveKept == PtyInv /\ [Next]_vars => LiveOK'
<1> SUFFICES ASSUME PtyInv, [Next]_vars, server' = "running"
             PROVE  /\ \A id \in ConIds : peer'[id] = "open" \/ sock'[id] # <<>>
                                            => id \in connections'
                    /\ \A i \in 1 .. Len(read_rx') : read_rx'[i].id \in connections'
                    /\ \A id \in connections' :
                         Told(toClient', state', id) /\ ~Closing(toClient', id)
  BY DEF LiveOK
<1> USE DEF serverVars, tunnelVars, clientVars, socketVars, masterVars
<1>1. PICK T : T = Taken /\ T \subseteq ConIds /\ TypesOver(T)
  BY TakenIds DEF PtyInv, TypesOK
<1>2. PICK q, S, r, C : q = toClient /\ S = state /\ r = read_rx /\ C = connections
  OBVIOUS
<1>3. /\ q \in Seq(EventsFrom(T)) /\ S \subseteq T /\ Consistent(q, S)
      /\ r \in Seq(ReadsFrom(T)) /\ C \subseteq T
  BY <1>1, <1>2 DEF TypesOver, PtyInv, ToldOK
<1>4. server = "running"
  BY DEF Next, Programs, ServerLoop, ClientLoop, Tasks, ProgramExits,
         ProgramWrites, ProgramCloses, HandleNewConnection, HandleNewRead,
         HandleData, HandleExit, ClientGone, Ends, HandleConnect, HandlePayload,
         HandleClose, HandleExited, ServerGone, SendData, MasterEnded, ReadTask,
         StreamedTo, MasterEnds, MasterWrites, vars
<1>5. /\ \A id \in ConIds : peer[id] = "open" \/ sock[id] # <<>> => id \in C
      /\ \A i \in 1 .. Len(r) : r[i].id \in C
      /\ \A id \in C : Told(q, S, id) /\ ~Closing(q, id)
  BY <1>2, <1>4 DEF PtyInv, LiveOK
<1> DEFINE Goal1 == \A id \in ConIds : peer'[id] = "open" \/ sock'[id] # <<>>
                                         => id \in connections'
           Goal2 == \A i \in 1 .. Len(read_rx') : read_rx'[i].id \in connections'
           Goal3 == \A id \in connections' :
                      Told(toClient', state', id) /\ ~Closing(toClient', id)
<1>6. CASE UNCHANGED <<peer, sock, connections, read_rx>> /\ Goal3
  BY <1>2, <1>5, <1>6
<1>7. CASE UNCHANGED <<connections, toClient, state>> /\ Goal1 /\ Goal2
  BY <1>2, <1>5, <1>7
<1>8. ASSUME NEW i \in ConIds, ProgramWrites(i) \/ ProgramCloses(i)
      PROVE  Goal1 /\ Goal2 /\ Goal3
  <2>1. Goal1
    <3>1. i \in C /\ UNCHANGED connections
      BY <1>5, <1>8 DEF ProgramWrites, ProgramCloses
    <3>2. \A id \in ConIds \ {i} : peer'[id] = peer[id] /\ sock'[id] = sock[id]
      BY <1>1, <1>8 DEF ProgramWrites, ProgramCloses, TypesOver
    <3>3. QED
      BY <1>2, <1>5, <3>1, <3>2
  <2>2. Goal2
    BY <1>2, <1>5, <1>8 DEF ProgramWrites, ProgramCloses
  <2>3. QED
    BY <1>7, <1>8, <2>1, <2>2 DEF ProgramWrites, ProgramCloses
<1>9. ASSUME HandleNewConnection PROVE Goal1 /\ Goal2 /\ Goal3
  <2>1. PICK n, m : n = con_id /\ m = [type |-> "Connect", id |-> n]
    OBVIOUS
  <2>2. /\ toClient' = Append(q, m) /\ state' = S /\ connections' = C \cup {n}
        /\ UNCHANGED <<read_rx, sock>> /\ n \in ConIds
        /\ peer' = [peer EXCEPT ![n] = "open"]
    BY <1>2, <1>9, <2>1 DEF HandleNewConnection, Written
  <2>3. Goal1
    BY <1>1, <1>5, <2>2 DEF TypesOver
  <2>4. Goal2
    BY <1>2, <1>5, <2>2
  <2>5. q \in Seq(EventsFrom(T) \cup {m}) /\ m \in EventsFrom(T) \cup {m}
    BY <1>3, SeqGrows
  <2>6. Is(m, "Connect", n) /\ \A id : ~Is(m, "Close", id)
    BY <2>1 DEF Is
  <2>7. ~Closing(q, n)
    <3> SUFFICES ASSUME NEW i \in 1 .. Len(q), Is(q[i], "Close", n) PROVE FALSE
      BY DEF Closing
    <3>1. q[i] \in EventsFrom(T)
      BY <1>3
    <3>2. n \in T
      BY <3>1, EventTypes DEF Is
    <3>3. QED
      BY <1>1, <2>1, <3>2 DEF Taken, PtyInv, TypesOK
  <2>8. \A id \in C \cup {n} :
          Told(Append(q, m), S, id) /\ ~Closing(Append(q, m), id)
    BY <1>5, <2>5, <2>6, <2>7, ToldMore
  <2>9. QED
    BY <2>2, <2>3, <2>4, <2>8
<1>10. ASSUME NEW i \in ConIds, ReadTask(i) PROVE Goal1 /\ Goal2 /\ Goal3
  <2>1. PICK m : m = [id |-> i, data |-> Head(sock[i])]
    OBVIOUS
  <2>2. /\ UNCHANGED <<peer, connections, toClient, state>>
        /\ read_rx' = Append(r, m)
        /\ sock[i] # <<>> /\ sock' = [sock EXCEPT ![i] = Tail(@)]
    BY <1>2, <1>10, <2>1 DEF ReadTask
  <2>3. i \in C /\ m.id = i
    BY <1>5, <2>1, <2>2
  <2>4. Goal1
    BY <1>1, <1>2, <1>5, <2>2, <2>3 DEF TypesOver
  <2>5. Goal2
    <3>1. PICK l \in Nat : l = Len(r)
      BY <1>3
    <3>2. PICK t : t = Append(r, m)
      OBVIOUS
    <3>3. Len(t) = l + 1 /\ t[l + 1] = m /\ \A j \in 1 .. l : t[j] = r[j]
      BY <1>3, <3>1, <3>2
    <3>4. \A j \in 1 .. l + 1 : j \in 1 .. l \/ j = l + 1
      OBVIOUS
    <3>5. \A j \in 1 .. l + 1 : t[j].id \in C
      BY <1>5, <2>3, <3>1, <3>3, <3>4
    <3>6. QED
      BY <1>2, <2>2, <3>2, <3>3, <3>5
  <2>6. QED
    BY <1>7, <2>2, <2>4, <2>5
<1>11. ASSUME HandleNewRead PROVE Goal1 /\ Goal2 /\ Goal3
  <2>1. PICK h : h = Head(r)
    OBVIOUS
  <2>2. /\ r # <<>> /\ read_rx' = Tail(r) /\ UNCHANGED <<sock, peer, state>>
        /\ \/ h.data = Eof /\ connections' = C \ {h.id} /\ Written("Close", h.id)
           \/ /\ h.data # Eof /\ UNCHANGED connections
              /\ toClient' = Append(toClient, [type |-> "Payload", id |-> h.id,
                                               data |-> h.data])
    BY <1>2, <1>11, <2>1 DEF HandleNewRead
  <2>3. PICK l \in Nat : l + 1 = Len(r)
    <3>1. Len(r) \in Nat /\ Len(r) # 0
      BY <1>3, <2>2
    <3>2. Len(r) - 1 \in Nat /\ Len(r) - 1 + 1 = Len(r)
      BY <3>1
    <3>3. QED
      BY <3>2
  <2>4. PICK t : t = Tail(r)
    OBVIOUS
  <2>5. Len(t) = l /\ h = r[1] /\ \A j \in 1 .. l : t[j] = r[j + 1]
    BY <1>3, <2>1, <2>2, <2>3, <2>4
  <2>6. 1 \in 1 .. Len(r) /\ \A j \in 1 .. l : j + 1 \in 1 + 1 .. Len(r)
                                               /\ j + 1 \in 1 .. Len(r)
    BY <2>3
  <2>7. h.data = Eof => /\ sock[h.id] = <<>> /\ peer[h.id] = "closed"
                        /\ \A j \in 1 .. l : t[j].id # h.id
    <3> SUFFICES ASSUME h.data = Eof
                 PROVE  /\ sock[h.id] = <<>> /\ peer[h.id] = "closed"
                        /\ \A j \in 1 .. l : t[j].id # h.id
      OBVIOUS
    <3>1. /\ sock[r[1].id] = <<>> /\ peer[r[1].id] = "closed"
          /\ \A j \in 1 + 1 .. Len(r) : r[j].id # r[1].id
      BY <1>2, <2>5, <2>6 DEF PtyInv, ReadsOK
    <3>2. QED
      BY <2>5, <2>6, <3>1
  <2>8. Goal1
    <3>1. C \ {h.id} \subseteq connections'
          /\ (h.id \notin connections' => h.data = Eof \/ h.id \notin C)
      BY <1>2, <2>2
    <3>2. QED
      BY <1>5, <2>2, <2>7, <3>1
  <2>9. Goal2
    <3>1. \A j \in 1 .. l : t[j].id \in C
      BY <1>5, <2>5, <2>6
    <3>2. \A j \in 1 .. l : t[j].id \in connections'
      BY <1>2, <2>2, <2>7, <3>1
    <3>3. QED
      BY <2>2, <2>4, <2>5, <3>2
  <2>10. PICK m : /\ toClient' = Append(q, m)
                  /\ \A id : Is(m, "Close", id) => id = h.id /\ h.data = Eof
    BY <1>2, <2>2 DEF Written, Is
  <2>11. q \in Seq(EventsFrom(T) \cup {m}) /\ m \in EventsFrom(T) \cup {m}
    BY <1>3, SeqGrows
  <2>12. connections' \subseteq C /\ (h.data = Eof => h.id \notin connections')
    BY <1>2, <2>2
  <2>13. \A id \in connections' :
           Told(Append(q, m), S, id) /\ ~Closing(Append(q, m), id)
    BY <1>5, <2>10, <2>11, <2>12, ToldMore
  <2>14. QED
    BY <1>2, <2>2, <2>8, <2>9, <2>10, <2>13
<1>12. ASSUME HandleConnect \/ HandlePayload \/ HandleClose
       PROVE  Goal1 /\ Goal2 /\ Goal3
  <2>1. PICK h : h = Head(q)
    OBVIOUS
  <2>2. /\ UNCHANGED <<peer, sock, connections, read_rx>> /\ q # <<>>
        /\ \/ UNCHANGED <<toClient, state>>
           \/ /\ toClient' = Tail(q)
              /\ \/ h.type = "Connect" /\ state' = S \cup {h.id}
                 \/ h.type = "Payload" /\ state' = S
                 \/ h.type = "Close" /\ state' = S \ {h.id}
    BY <1>2, <1>12, <2>1
    DEF HandleConnect, HandlePayload, HandleClose, Incoming, Rejected
  <2>3. CASE UNCHANGED <<toClient, state>>
    BY <1>2, <1>5, <1>6, <2>2, <2>3
  <2>4. ASSUME toClient' = Tail(q), NEW id \in C,
               \/ h.type = "Connect" /\ state' = S \cup {h.id}
               \/ h.type = "Payload" /\ state' = S
               \/ h.type = "Close" /\ state' = S \ {h.id}
        PROVE  Told(toClient', state', id) /\ ~Closing(toClient', id)
    <3>1. Told(q, S, id) /\ ~Closing(q, id)
      BY <1>5
    <3>2. ~Closing(toClient', id) /\ ~Is(h, "Close", id)
      BY <1>3, <2>1, <2>2, <2>4, <3>1, ToldLess
    <3>3. CASE h.type = "Payload"
      <4>1. state' = S /\ h.type # "Connect"
        BY <2>4, <3>3
      <4>2. QED
        BY <1>3, <2>1, <2>2, <2>4, <3>1, <3>2, <4>1, ToldLess
    <3>4. CASE h.type = "Connect" \/ h.type = "Close"
      <4>1. S \ {h.id} \subseteq state' /\ (h.id = id => id \in state')
        BY <2>4, <3>2, <3>4 DEF Is
      <4>2. Told(Tail(q), state', id)
        BY <1>3, <2>1, <2>2, <3>1, <4>1, ToldLess
      <4>3. QED
        BY <2>4, <3>2, <4>2
    <3>5. QED
      BY <2>4, <3>3, <3>4
  <2>5. QED
    BY <1>2, <1>6, <2>2, <2>3, <2>4
<1>13. ASSUME \/ \E i \in ConIds : StreamedTo(i) \/ MasterWrites(i)
              \/ HandleData \/ HandleExit \/ ClientGone \/ HandleExited
              \/ ProgramExits \/ ServerGone \/ SendData \/ MasterEnded
              \/ MasterEnds \/ UNCHANGED vars
       PROVE  UNCHANGED <<peer, sock, connections, read_rx, toClient, state>>
  BY <1>13
  DEF StreamedTo, MasterWrites, HandleData, HandleExit, ClientGone, Ends,
      HandleExited, ProgramExits, ServerGone, SendData, MasterEnded, MasterEnds,
      vars
<1>14. CASE UNCHANGED <<peer, sock, connections, read_rx, toClient, state>>
  BY <1>2, <1>5, <1>14
<1>15. QED
  BY <1>8, <1>9, <1>10, <1>11, <1>12, <1>13, <1>14
  DEF Next, Programs, ServerLoop, ClientLoop, Tasks

LEMMA EndsKept == PtyInv /\ [Next]_vars => EndsOK'
<1> SUFFICES ASSUME PtyInv, [Next]_vars PROVE EndsOK'
  OBVIOUS
<1> USE DEF serverVars, tunnelVars, clientVars, socketVars, masterVars
<1>1. PICK T : T = Taken /\ T \subseteq ConIds /\ TypesOver(T)
  BY TakenIds DEF PtyInv, TypesOK
<1>2. /\ client = "rejected" => master = "ended"
      /\ server = "failed" => toServer # <<>> /\ peer[Head(toServer).id] = "closed"
      /\ master \in {"running", "ended"}
  BY DEF PtyInv, EndsOK
<1>3. toServer \in Seq(DataFrom(T)) /\ toClient \in Seq(EventsFrom(T))
  BY <1>1 DEF TypesOver
<1>4. toServer # <<>> => Head(toServer).id \in T
  <2>1. toServer # <<>> => Head(toServer) \in DataFrom(T)
    BY <1>3, EndsAndTails
  <2>2. QED
    BY <2>1, DataTypes
\* The client.
<1>5. /\ master' \in {"running", "ended"}
      /\ client' = "rejected" => master' = "ended"
  <2>0. master' = master \/ master' = "ended"
    BY DEF Next, Programs, ServerLoop, ClientLoop, Tasks, ProgramExits,
           ProgramWrites, ProgramCloses, HandleNewConnection, HandleNewRead,
           HandleData, HandleExit, ClientGone, HandleConnect, HandlePayload,
           HandleClose, HandleExited, ServerGone, SendData, MasterEnded,
           ReadTask, StreamedTo, MasterEnds, MasterWrites, vars
  <2>1. CASE client' = client
    BY <1>2, <2>0, <2>1
  <2>2. CASE client' # client
    <3>1. \/ HandleConnect \/ HandlePayload \/ HandleClose
          \/ client' # "rejected"
      BY <2>2
      DEF Next, Programs, ServerLoop, ClientLoop, Tasks, ProgramExits,
          ProgramWrites, ProgramCloses, HandleNewConnection, HandleNewRead,
          HandleData, HandleExit, ClientGone, HandleExited, ServerGone, SendData,
          MasterEnded, ReadTask, StreamedTo, MasterEnds, MasterWrites, vars
    <3>2. PICK h : h = Head(toClient)
      OBVIOUS
    <3>3. ASSUME HandleConnect \/ HandlePayload \/ HandleClose
          PROVE  /\ master' = master /\ toClient # <<>>
                 /\ \/ HandleConnect /\ h.type = "Connect"
                    \/ HandlePayload /\ h.type = "Payload"
                    \/ HandleClose /\ h.type = "Close"
      BY <3>2, <3>3 DEF HandleConnect, HandlePayload, HandleClose, Incoming
    <3>4. toClient # <<>> => /\ h.type = "Connect" => h.id \notin state
                             /\ h.type = "Payload" => h.id \in state
                             /\ h.type = "Close" => h.id \in state
      BY <1>3, <3>2, ConsistentTail DEF PtyInv, ToldOK
    <3>5. CASE HandleConnect
      <4>1. h.id \notin state /\ master # "running"
        BY <2>2, <3>2, <3>3, <3>4, <3>5 DEF HandleConnect, Incoming
      <4>2. QED
        BY <1>2, <3>3, <3>5, <4>1
    <3>6. CASE HandlePayload
      <4>1. h.id \in state /\ master # "running"
        BY <2>2, <3>2, <3>3, <3>4, <3>6 DEF HandlePayload, Incoming
      <4>2. QED
        BY <1>2, <3>3, <3>6, <4>1
    <3>7. CASE HandleClose
      BY <2>2, <3>2, <3>3, <3>4, <3>7 DEF HandleClose, Incoming
    <3>8. QED
      BY <1>2, <2>0, <3>1, <3>5, <3>6, <3>7
  <2>3. QED
    BY <1>2, <2>0, <2>1, <2>2
\* The server: a connection that is known and not kept was closed.
<1>6. server' = "failed" => toServer' # <<>> /\ peer'[Head(toServer').id] = "closed"
  <2> SUFFICES ASSUME server' = "failed"
               PROVE  toServer' # <<>> /\ peer'[Head(toServer').id] = "closed"
    OBVIOUS
  <2>1. CASE server = "failed"
    <3>1. toServer' = toServer \/ \E m : toServer' = Append(toServer, m)
      BY <2>1
      DEF Next, Programs, ServerLoop, ClientLoop, Tasks, ProgramExits,
          ProgramWrites, ProgramCloses, HandleNewConnection, HandleNewRead,
          HandleData, HandleExit, ClientGone, HandleConnect, HandlePayload,
          HandleClose, HandleExited, ServerGone, SendData, MasterEnded, ReadTask,
          StreamedTo, MasterEnds, MasterWrites, vars
    <3>2. toServer' # <<>> /\ Head(toServer') = Head(toServer)
      BY <1>2, <1>3, <2>1, <3>1
    <3>3. PICK id \in T : id = Head(toServer).id /\ peer[id] = "closed"
      BY <1>2, <1>4, <2>1
    <3>4. peer' = peer \/ \E i \in ConIds : ProgramCloses(i)
      BY <2>1
      DEF Next, Programs, ServerLoop, ClientLoop, Tasks, ProgramExits,
          ProgramWrites, HandleNewConnection, HandleNewRead,
          HandleData, HandleExit, ClientGone, HandleConnect, HandlePayload,
          HandleClose, HandleExited, ServerGone, SendData, MasterEnded, ReadTask,
          StreamedTo, MasterEnds, MasterWrites, vars
    <3>5. peer'[id] = "closed"
      BY <1>1, <3>3, <3>4 DEF ProgramCloses, TypesOver
    <3>6. QED
      BY <3>2, <3>3, <3>5
  <2>2. CASE server # "failed"
    <3>1. HandleData
      BY <2>2
      DEF Next, Programs, ServerLoop, ClientLoop, Tasks, ProgramExits,
          ProgramWrites, ProgramCloses, HandleNewConnection, HandleNewRead,
          HandleExit, ClientGone, Ends, HandleConnect, HandlePayload,
          HandleClose, HandleExited, ServerGone, SendData, MasterEnded, ReadTask,
          StreamedTo, MasterEnds, MasterWrites, vars
    <3>2. /\ server = "running" /\ toServer # <<>> /\ UNCHANGED <<peer, toServer>>
          /\ \/ peer[Head(toServer).id] = "closed"
             \/ Head(toServer).id \notin connections
      BY <2>2, <3>1 DEF HandleData
    <3>3. PICK id \in T : id = Head(toServer).id
      BY <1>4, <3>2
    <3>4. peer[id] # "none" /\ peer[id] \in {"none", "open", "closed"}
      BY <1>1, <3>3 DEF TypesOver
    <3>5. id \notin connections => peer[id] # "open"
      BY <1>1, <3>2, <3>3, LiveIds
    <3>6. QED
      BY <3>2, <3>3, <3>4, <3>5
  <2>3. QED
    BY <2>1, <2>2
<1>7. QED
  BY <1>5, <1>6 DEF EndsOK

-----------------------------------------------------------------------------

\* The inductive invariant of a session: the numbers of each connection are in
\* one place each, the client can hear what it was told of, and a connection
\* that a running server does not keep was closed.
THEOREM PtyHolds == Spec => []PtyInv
<1>1. PtyInv /\ [Next]_vars => PtyInv'
  BY TypesKept, DownKept, UpKept, ToldKept, ReadsKept, LiveKept, EndsKept
  DEF PtyInv
<1>2. QED
  BY <1>1, PtyInit, PTL DEF Spec

\* Each end of a connection is given what the other one wrote to the same
\* connection, in order and without gaps, for any number of connections and of
\* payloads.
THEOREM EachStreamInOrder == Spec => []StreamsInOrder
<1>1. PtyInv => StreamsInOrder
  <2> SUFFICES ASSUME PtyInv, NEW id \in ConIds
               PROVE  /\ IsPrefix(given[id], Numbers(sent[id]))
                      /\ IsPrefix(got[id], Numbers(wrote[id]))
    BY DEF StreamsInOrder
  <2>1. TypesOver(Taken)
    BY DEF PtyInv, TypesOK
  <2>2. PICK a \in Nat, b \in Nat, c \in Nat : Downward(id, a, b, c)
    BY DEF PtyInv, DownOK
  <2>3. a <= b /\ b <= c /\ c <= sent[id] /\ sent[id] \in Nat
    BY <2>1, <2>2, FlowBounds DEF TypesOver, Downward, Rest
  <2>4. PICK i \in Nat, j \in Nat, k \in Nat : Upward(id, i, j, k)
    BY DEF PtyInv, UpOK
  <2>5. i <= j /\ j <= k /\ k <= wrote[id] /\ wrote[id] \in Nat
    BY <2>1, <2>4, FlowBounds DEF TypesOver, Upward, Rest
  <2>6. a <= sent[id] /\ i <= wrote[id]
    BY <2>3, <2>5
  <2>7. QED
    BY <2>2, <2>3, <2>4, <2>5, <2>6, NumbersGrow DEF Downward, Upward
<1>2. QED
  BY <1>1, PtyHolds, PTL

\* No event names an id that the demuxer has or does not have, and the server
\* fails on data only for a connection that its program has closed.
THEOREM IdsAreKnown == Spec => []NoIdIsUnknown
<1>1. PtyInv => NoIdIsUnknown
  BY DEF PtyInv, EndsOK, NoIdIsUnknown
<1>2. QED
  BY <1>1, PtyHolds, PTL
=============================================================================
