------------------------ MODULE ShellSession_proofs ------------------------
(***************************************************************************)
(* Proofs about the shell sessions.  Of ShellSession: whoever reaps the    *)
(* program, the exit status it leaves is final, and what is typed and what *)
(* is written keeps its order on its way through the tunnel, the channels  *)
(* and the terminal.  Of FallbackShell: the keys of what is typed are      *)
(* taken whole, what the interpreter writes reaches the client with its    *)
(* line ends converted once, and the client's terminal shows the line that *)
(* is edited.                                                              *)
(***************************************************************************)
EXTENDS FallbackShell, WellFoundedInduction, TLAPS

-----------------------------------------------------------------------------
(* The exit status.                                                        *)

\* ShellState's mutex: one of the three waits for the program or kills it.  The
\* others may have looked before and found no status, so they come to the lock
\* after the program has been reaped.  The drop then kills nobody, since it asks
\* the child once more, and a wait is told the status of the program again.
OneHolds ==
  /\ ~(reader = "waiting" /\ writer = "waiting")
  /\ drop = "killing" => reader # "waiting" /\ writer # "waiting" /\ exit_status = None

\* The status is that of a program that has exited, until the shell is dropped.
StatusIsOfProgram ==
  exit_status # None => program = "exited" /\ (Dropped \/ exit_status = program_code)

\* Before the shell is started nobody looks at it.
NotStarted ==
  server \in {"waiting_for_key", "waiting_for_request"} =>
    reader = "none" /\ writer = "none" /\ exit_status = None
DropTime == drop # None => server \in {"leaving", "failing"}

ReapedOnce == OneHolds /\ StatusIsOfProgram
StatusInv == ReapedOnce /\ NotStarted /\ DropTime

\* What a step may make of the status, and what it leaves of it.
StatusKept == exit_status # None =>
  exit_status' = exit_status \/ (Dropped /\ exit_status' = program_code)

\* The start of the shell, its drop, and whoever looks at the status, takes the
\* lock or reaps; every other step has to do with none of that.
Quietly ==
  /\ UNCHANGED <<exit_status, drop>>
  /\ reader' = reader \/ (reader \in {"reading", "sending"}
                            /\ reader' \in {"reading", "sending", "ended", "failed"})
  /\ writer' = writer \/ (writer \in {"receiving", "writing"}
                            /\ writer' \in {"receiving", "writing", "ended"})
  /\ UNCHANGED <<program, program_code>> \/ (program # "exited" /\ server' = server)
  /\ Dropped => Dropped'
  /\ drop # None => server' = server
  /\ server' \in {"waiting_for_key", "waiting_for_request"} =>
       server \in {"waiting_for_key", "waiting_for_request"}

LEMMA OtherSteps ==
  ASSUME Next, DropTime, ~StartShell, ~DropShell,
         ~ReaderEof, ~ReaderLocks, ~ReaderExits, ~WriterFails, ~WriterLocks, ~WriterExits
  PROVE  Quietly
<1> USE DEF Quietly, DropTime, Dropped, clientVars, serverVars, streamVars, programVars,
            readerVars, writerVars, ServerGoes
<1>1. CASE Client
  BY <1>1 DEF Client, SendKey, ReceiveAnswer, ClientFails, ReadStdin,
              ReceiveOutput
<1>2. CASE Server
  BY <1>2 DEF Server, ReceiveKey, NoRequest, ReadShell,
              ReadShellEnds, ReceiveStdin, WriteShell, ClientLeft, Linger
<1>3. CASE Reader
  BY <1>3 DEF Reader, ReaderReads, ReaderSends, ReaderFails
<1>4. CASE Writer
  BY <1>4 DEF Writer, WriterReceives, WriterWrites, WriterEnds
<1>5. CASE Program
  BY <1>5 DEF Program, ProgramReads, ProgramWrites, ProgramDetaches, ProgramExits
<1>6. QED
  BY <1>1, <1>2, <1>3, <1>4, <1>5 DEF Next

\* Whoever looks, locks, waits or kills, and in whatever order.
LEMMA StatusStep ==
  ASSUME StatusInv, [Next]_vars
  PROVE  StatusInv' /\ StatusKept
<1> USE DEF StatusInv, ReapedOnce, OneHolds, StatusIsOfProgram, NotStarted, DropTime,
            StatusKept, Dropped, LockFree, None
<1> USE DEF serverVars, programVars, readerVars, writerVars
<1>1. CASE StartShell
  BY <1>1 DEF StartShell, ServerGoes
<1>2. CASE DropShell
  <2>1. CASE DropLooks
    BY <2>1 DEF DropLooks, DropGoes, DropIsOver
  <2>2. CASE DropLocks
    BY <2>2 DEF DropLocks, DropGoes, DropIsOver
  <2>3. CASE DropKills
    BY <2>3 DEF DropKills, DropIsOver
  <2>4. QED
    BY <1>2, <2>1, <2>2, <2>3 DEF DropShell
<1>3. CASE ReaderEof \/ ReaderLocks
  BY <1>3 DEF ReaderEof, ReaderLocks
<1>4. CASE ReaderExits
  BY <1>4 DEF ReaderExits
<1>5. CASE WriterFails \/ WriterLocks
  BY <1>5 DEF WriterFails, WriterLocks
<1>6. CASE WriterExits
  BY <1>6 DEF WriterExits
<1>7. CASE Quietly
  BY <1>7 DEF Quietly
<1>8. CASE UNCHANGED vars
  BY <1>8 DEF vars
<1>9. QED
  BY <1>1, <1>2, <1>3, <1>4, <1>5, <1>6, <1>7, <1>8, OtherSteps

\* The inductive invariant, whatever the channels' sizes.
LEMMA StatusHolds == Spec => []StatusInv
<1>1. Init => StatusInv
  BY DEF Init, StatusInv, ReapedOnce, OneHolds, StatusIsOfProgram, NotStarted, DropTime, None
<1>2. StatusInv /\ [Next]_vars => StatusInv'
  BY StatusStep
<1>3. QED
  BY <1>1, <1>2, PTL DEF Spec

\* The reader, the writer and the drop of the shell look for an exit status
\* without the lock and then take it one at a time; what they record is the
\* status of a program that has exited, its own unless the shell was dropped.
THEOREM OneWaits == Spec => []ReapedOnce
<1>1. StatusInv => ReapedOnce
  BY DEF StatusInv
<1>2. QED
  BY <1>1, StatusHolds, PTL

\* As long as anybody reads the exit status it is never replaced, although each
\* of the three may record one after another has.
THEOREM StatusStaysFinal == Spec => StatusIsFinal
<1>1. StatusInv /\ [Next]_vars =>
        [exit_status # None =>
           \/ exit_status' = exit_status
           \/ Dropped /\ exit_status' = program_code]_vars
  BY StatusStep DEF StatusKept
<1>2. QED
  BY <1>1, StatusHolds, PTL DEF Spec, StatusIsFinal

-----------------------------------------------------------------------------
(* Consecutive numbers.                                                    *)

\* s holds the numbers d + 1 .. n.
Run(s, d, n) ==
  /\ d \in Nat /\ n \in Nat /\ s \in Seq(Nat)
  /\ n = d + Len(s)
  /\ \A i \in 1 .. Len(s) : s[i] = d + i

\* C says where one chunk ends and the next one starts.
Cuts(ss, d, n, C) ==
  /\ C[0] = d /\ C[Len(ss)] = n
  /\ \A i \in 1 .. Len(ss) : Run(ss[i], C[i - 1], C[i])

\* The chunks of ss hold the numbers d + 1 .. n.
Stretch(ss, d, n) ==
  /\ d \in Nat /\ n \in Nat
  /\ \E C \in [0 .. Len(ss) -> Nat] : Cuts(ss, d, n, C)

\* A run is determined by where it starts and ends.
LEMMA RunIs ==
  ASSUME NEW s, NEW d, NEW n, Run(s, d, n)
  PROVE  /\ d \in Nat /\ n \in Nat /\ s \in Seq(Nat) /\ d <= n /\ Len(s) = n - d
         /\ s = <<>> <=> d = n
  BY DEF Run

\* No numbers.
LEMMA RunNone ==
  ASSUME NEW d \in Nat
  PROVE  Run(<<>>, d, d)
  BY DEF Run

\* A run from zero on is the numbers themselves.
LEMMA RunFromZero ==
  ASSUME NEW s, NEW n, Run(s, 0, n)
  PROVE  s = [i \in 1 .. n |-> i]
<1>1. s \in Seq(Nat) /\ n = Len(s) /\ \A i \in 1 .. Len(s) : s[i] = i
  BY DEF Run
<1>2. s = [i \in 1 .. Len(s) |-> s[i]]
  BY <1>1
<1>3. QED
  BY <1>1, <1>2

\* Stretches that follow each other.
LEMMA RunConcat ==
  ASSUME NEW s, NEW t, NEW d, NEW m, NEW n, Run(s, d, m), Run(t, m, n)
  PROVE  Run(s \o t, d, n)
<1>1. /\ s \in Seq(Nat) /\ t \in Seq(Nat) /\ d \in Nat /\ m \in Nat /\ n \in Nat
      /\ m = d + Len(s) /\ n = m + Len(t)
      /\ \A i \in 1 .. Len(s) : s[i] = d + i
      /\ \A i \in 1 .. Len(t) : t[i] = m + i
  BY DEF Run
<1> DEFINE u == s \o t
<1>2. /\ u \in Seq(Nat) /\ Len(u) = Len(s) + Len(t)
      /\ \A i \in 1 .. Len(u) : u[i] = IF i <= Len(s) THEN s[i] ELSE t[i - Len(s)]
  BY <1>1
<1> HIDE DEF u
<1>3. ASSUME NEW i \in 1 .. Len(u) PROVE u[i] = d + i
  <2>1. Len(s) \in Nat /\ Len(t) \in Nat
    BY <1>1
  <2>2. CASE i <= Len(s)
    <3>1. i \in 1 .. Len(s)
      BY <1>2, <2>1, <2>2
    <3>2. u[i] = s[i] /\ s[i] = d + i
      BY <1>1, <1>2, <2>2, <3>1
    <3>3. QED
      BY <3>2
  <2>3. CASE ~(i <= Len(s))
    <3>1. i - Len(s) \in 1 .. Len(t)
      BY <1>2, <2>1, <2>3
    <3>2. t[i - Len(s)] = m + (i - Len(s))
      BY <1>1, <3>1
    <3>3. u[i] = t[i - Len(s)] /\ m = d + Len(s)
      BY <1>1, <1>2, <2>3
    <3>4. QED
      BY <1>1, <2>1, <3>2, <3>3
  <2>4. QED
    BY <2>2, <2>3
<1>4. Run(u, d, n)
  BY <1>1, <1>2, <1>3 DEF Run
<1>5. QED
  BY <1>4 DEF u

\* The next number.
LEMMA RunAppend ==
  ASSUME NEW s, NEW d, NEW n, Run(s, d, n)
  PROVE  Run(Append(s, n + 1), d, n + 1)
  BY DEF Run

\* The first number, and those after it.
LEMMA RunTail ==
  ASSUME NEW s, NEW d, NEW n, Run(s, d, n), s # <<>>
  PROVE  /\ Head(s) = d + 1 /\ d + 1 <= n
         /\ Run(Tail(s), d + 1, n)
<1>1. /\ s \in Seq(Nat) /\ d \in Nat /\ n \in Nat /\ n = d + Len(s)
      /\ \A i \in 1 .. Len(s) : s[i] = d + i
  BY DEF Run
<1> DEFINE t == Tail(s)
<1>2. /\ Len(s) \in Nat /\ Len(s) >= 1 /\ t \in Seq(Nat) /\ Len(t) = Len(s) - 1
      /\ Head(s) = s[1] /\ \A i \in 1 .. Len(t) : t[i] = s[i + 1]
  BY <1>1
<1> HIDE DEF t
<1>3. ASSUME NEW i \in 1 .. Len(t) PROVE t[i] = d + 1 + i
  <2>1. i + 1 \in 1 .. Len(s)
    BY <1>2
  <2>2. QED
    BY <1>1, <1>2, <2>1
<1>4. Run(t, d + 1, n)
  BY <1>1, <1>2, <1>3 DEF Run
<1>5. QED
  BY <1>1, <1>2, <1>4 DEF t

\* A run in two parts.
LEMMA RunSplit ==
  ASSUME NEW s, NEW d, NEW n, Run(s, d, n), NEW k \in 0 .. Len(s)
  PROVE  /\ Run(SubSeq(s, 1, k), d, d + k)
         /\ Run(SubSeq(s, k + 1, Len(s)), d + k, n)
         /\ d + k <= n /\ d + k \in Nat
<1>1. /\ s \in Seq(Nat) /\ d \in Nat /\ n \in Nat /\ n = d + Len(s)
      /\ \A i \in 1 .. Len(s) : s[i] = d + i
  BY DEF Run
<1>2. Len(s) \in Nat /\ k \in Nat /\ k <= Len(s)
  BY <1>1
<1> DEFINE t == SubSeq(s, 1, k)
           u == SubSeq(s, k + 1, Len(s))
<1>3. t \in Seq(Nat) /\ Len(t) = k /\ \A i \in 1 .. k : t[i] = s[i]
  BY <1>1, <1>2
<1>4. /\ u \in Seq(Nat) /\ Len(u) = Len(s) - k
      /\ \A i \in 1 .. Len(s) - k : u[i] = s[k + i]
  BY <1>1, <1>2
<1> HIDE DEF t, u
<1>5. Run(t, d, d + k)
  <2>1. ASSUME NEW i \in 1 .. k PROVE t[i] = d + i
    <3>1. i \in 1 .. Len(s)
      BY <1>2
    <3>2. t[i] = s[i] /\ s[i] = d + i
      BY <1>1, <1>3, <3>1
    <3>3. QED
      BY <3>2
  <2>2. QED
    BY <1>1, <1>2, <1>3, <2>1 DEF Run
<1>6. Run(u, d + k, n)
  <2>1. ASSUME NEW i \in 1 .. Len(s) - k PROVE u[i] = d + k + i
    <3>1. k + i \in 1 .. Len(s)
      BY <1>2
    <3>2. QED
      BY <1>1, <1>2, <1>4, <3>1
  <2>2. QED
    BY <1>1, <1>2, <1>4, <2>1 DEF Run
<1>7. QED
  BY <1>1, <1>2, <1>5, <1>6 DEF t, u

\* No chunks.
LEMMA StretchNone ==
  ASSUME NEW d \in Nat
  PROVE  Stretch(<<>>, d, d)
<1> DEFINE C == [i \in 0 .. 0 |-> d]
<1>1. Len(<<>>) = 0 /\ C \in [0 .. 0 -> Nat] /\ C[0] = d
  OBVIOUS
<1> HIDE DEF C
<1>2. QED
  BY <1>1 DEF Stretch, Cuts

\* Chunks that hold no numbers start where they end.
LEMMA StretchEmpty ==
  ASSUME NEW d, NEW n, Stretch(<<>>, d, n)
  PROVE  d = n
  BY DEF Stretch, Cuts

\* One more chunk.
LEMMA StretchAppend ==
  ASSUME NEW S, NEW ss \in Seq(S), NEW t \in S, NEW d, NEW m, NEW n,
         Stretch(ss, d, m), Run(t, m, n)
  PROVE  Stretch(Append(ss, t), d, n)
<1>1. PICK C \in [0 .. Len(ss) -> Nat] : Cuts(ss, d, m, C)
  BY DEF Stretch
<1>2. d \in Nat /\ m \in Nat /\ n \in Nat /\ Len(ss) \in Nat
  BY DEF Stretch, Run
<1> DEFINE u == Append(ss, t)
           D == [i \in 0 .. Len(ss) + 1 |-> IF i <= Len(ss) THEN C[i] ELSE n]
<1>3. /\ Len(u) = Len(ss) + 1 /\ u[Len(ss) + 1] = t
      /\ \A i \in 1 .. Len(ss) : u[i] = ss[i]
  OBVIOUS
<1>4. D \in [0 .. Len(ss) + 1 -> Nat]
  <2>1. ASSUME NEW i \in 0 .. Len(ss) + 1, i <= Len(ss) PROVE C[i] \in Nat
    BY <1>2, <2>1
  <2>2. QED
    BY <1>2, <2>1
<1>5. /\ D[Len(ss) + 1] = n
      /\ \A i \in 0 .. Len(ss) : D[i] = C[i]
  BY <1>2
<1> HIDE DEF D, u
<1>6. ASSUME NEW i \in 1 .. Len(u) PROVE Run(u[i], D[i - 1], D[i])
  <2>1. CASE i <= Len(ss)
    <3>1. i \in 1 .. Len(ss) /\ i \in 0 .. Len(ss) /\ i - 1 \in 0 .. Len(ss)
      BY <1>2, <1>3, <2>1
    <3>2. Run(ss[i], C[i - 1], C[i])
      BY <1>1, <3>1 DEF Cuts
    <3>3. QED
      BY <1>3, <1>5, <3>1, <3>2
  <2>2. CASE ~(i <= Len(ss))
    <3>1. i = Len(ss) + 1 /\ i - 1 = Len(ss) /\ i - 1 \in 0 .. Len(ss)
      BY <1>2, <1>3, <2>2
    <3>2. D[i - 1] = m
      BY <1>1, <1>5, <3>1 DEF Cuts
    <3>3. QED
      BY <1>3, <1>5, <3>1, <3>2
  <2>3. QED
    BY <2>1, <2>2
<1>7. D[0] = d /\ D[Len(u)] = n
  <2>1. 0 \in 0 .. Len(ss)
    BY <1>2
  <2>2. QED
    BY <1>1, <1>3, <1>5, <2>1 DEF Cuts
<1>8. Stretch(u, d, n)
  BY <1>2, <1>3, <1>4, <1>6, <1>7 DEF Stretch, Cuts
<1>9. QED
  BY <1>8 DEF u

\* The first chunk, and those after it.
LEMMA StretchTail ==
  ASSUME NEW S, NEW ss \in Seq(S), ss # <<>>, NEW d, NEW n, Stretch(ss, d, n)
  PROVE  \E m \in Nat : Run(Head(ss), d, m) /\ Stretch(Tail(ss), m, n)
<1>1. PICK C \in [0 .. Len(ss) -> Nat] : Cuts(ss, d, n, C)
  BY DEF Stretch
<1> DEFINE t == Tail(ss)
           D == [i \in 0 .. Len(ss) - 1 |-> C[i + 1]]
<1>2. /\ Len(ss) \in Nat /\ Len(ss) >= 1 /\ Len(t) = Len(ss) - 1 /\ Head(ss) = ss[1]
      /\ \A i \in 1 .. Len(t) : t[i] = ss[i + 1]
  OBVIOUS
<1>3. \A i \in 0 .. Len(t) : i + 1 \in 0 .. Len(ss) /\ D[i] = C[i + 1] /\ C[i + 1] \in Nat
  BY <1>2
<1>4. D \in [0 .. Len(t) -> Nat]
  BY <1>2, <1>3
<1> HIDE DEF t, D
<1>5. ASSUME NEW i \in 1 .. Len(t) PROVE Run(t[i], D[i - 1], D[i])
  <2>1. /\ i + 1 \in 1 .. Len(ss) /\ i - 1 \in 0 .. Len(t) /\ i \in 0 .. Len(t)
        /\ (i - 1) + 1 = i /\ (i + 1) - 1 = i
    BY <1>2
  <2>2. Run(ss[i + 1], C[(i + 1) - 1], C[i + 1])
    BY <1>1, <2>1 DEF Cuts
  <2>3. D[i] = C[i + 1] /\ D[i - 1] = C[(i - 1) + 1]
    BY <1>3, <2>1
  <2>4. QED
    BY <1>2, <2>1, <2>2, <2>3
<1>6. D[0] = C[1] /\ D[Len(t)] = n /\ C[1] \in Nat /\ n \in Nat
  <2>1. 0 \in 0 .. Len(t) /\ Len(t) \in 0 .. Len(t) /\ Len(t) + 1 = Len(ss) /\ 0 + 1 = 1
    BY <1>2
  <2>2. D[0] = C[0 + 1] /\ D[Len(t)] = C[Len(t) + 1] /\ C[0 + 1] \in Nat
        /\ C[Len(t) + 1] \in Nat
    BY <1>3, <2>1
  <2>3. QED
    BY <1>1, <2>1, <2>2 DEF Cuts
<1>7. Run(ss[1], d, C[1])
  <2>1. 1 \in 1 .. Len(ss) /\ 1 - 1 = 0
    BY <1>2
  <2>2. QED
    BY <1>1, <2>1 DEF Cuts
<1>8. Stretch(t, C[1], n)
  BY <1>4, <1>5, <1>6 DEF Stretch, Cuts
<1>9. QED
  BY <1>2, <1>6, <1>7, <1>8 DEF t

-----------------------------------------------------------------------------
(* FlattenSeq.                                                             *)

\* A set of natural numbers that is not empty has a smallest one.
LEMMA Smallest ==
  ASSUME NEW T, T \subseteq Nat, T # {}
  PROVE  \E x \in T : \A y \in T : x <= y
<1>1. PICK x \in T : \A y \in T : ~ (<<y, x>> \in OpToRel(<, Nat))
  BY NatLessThanWellFounded, WFMin
<1>2. \A y \in T : ~ (y < x)
  BY <1>1 DEF OpToRel
<1>3. QED
  BY <1>2

\* The run between two numbers.
LEMMA RunOf ==
  ASSUME NEW d \in Nat, NEW k \in Nat
  PROVE  Run([j \in 1 .. k |-> d + j], d, d + k)
<1> DEFINE s == [j \in 1 .. k |-> d + j]
<1>1. s \in Seq(Nat) /\ Len(s) = k /\ \A i \in 1 .. k : s[i] = d + i
  OBVIOUS
<1> HIDE DEF s
<1>2. Run(s, d, d + k)
  BY <1>1 DEF Run
<1>3. QED
  BY <1>2 DEF s

\* Two runs between the same numbers are the same.
LEMMA RunSame ==
  ASSUME NEW s, NEW t, NEW d, NEW n, Run(s, d, n), Run(t, d, n)
  PROVE  s = t
<1>1. s \in Seq(Nat) /\ t \in Seq(Nat) /\ Len(s) = Len(t)
  BY DEF Run
<1>2. \A i \in 1 .. Len(s) : s[i] = t[i]
  BY <1>1 DEF Run
<1>3. QED
  BY <1>1, <1>2

\* The cuts go up from the first one.
LEMMA CutsAbove ==
  ASSUME NEW ss, Len(ss) \in Nat, NEW d \in Nat, NEW n,
         NEW C \in [0 .. Len(ss) -> Nat], Cuts(ss, d, n, C)
  PROVE  \A i \in 0 .. Len(ss) : d <= C[i]
<1> DEFINE T == {i \in 0 .. Len(ss) : ~(d <= C[i])}
<1>1. SUFFICES ASSUME T # {} PROVE FALSE
  OBVIOUS
<1>2. PICK x \in T : \A y \in T : x <= y
  <2>1. T \subseteq Nat
    OBVIOUS
  <2> HIDE DEF T
  <2>2. QED
    BY <1>1, <2>1, Smallest
<1>3. x # 0
  BY <1>2 DEF Cuts
<1>4. x \in 1 .. Len(ss) /\ x - 1 \in 0 .. Len(ss) /\ ~(x <= x - 1)
  BY <1>2, <1>3
<1>5. d <= C[x - 1]
  BY <1>2, <1>4
<1>6. C[x - 1] <= C[x]
  <2>1. Run(ss[x], C[x - 1], C[x])
    BY <1>4 DEF Cuts
  <2>2. QED
    BY <2>1, RunIs
<1>7. C[x - 1] \in Nat /\ C[x] \in Nat
  BY <1>4
<1>8. ~(d <= C[x])
  BY <1>2
<1>9. QED
  BY <1>5, <1>6, <1>7, <1>8

\* The chunks of ss one after the other hold what they hold in order.
LEMMA FlattenRuns ==
  ASSUME NEW S, NEW ss \in Seq(S), NEW d, NEW n, Stretch(ss, d, n)
  PROVE  Run(FlattenSeq(ss), d, n)
<1>1. PICK C \in [0 .. Len(ss) -> Nat] : Cuts(ss, d, n, C)
  BY DEF Stretch
<1>2. d \in Nat /\ n \in Nat /\ Len(ss) \in Nat
  BY DEF Stretch
<1>3. CASE ss = <<>>
  <2>1. Len(ss) = 0 /\ FlattenSeq(ss) = ss
    BY <1>3 DEF FlattenSeq
  <2>2. d = n
    BY <1>1, <2>1 DEF Cuts
  <2>3. QED
    BY <1>2, <1>3, <2>1, <2>2, RunNone
<1>4. CASE ss # <<>>
  <2> DEFINE L == Len(ss)
             step(f) == [i \in 1 .. L |-> IF i = 1 THEN ss[i] ELSE f[i - 1] \o ss[i]]
             all(i) == [j \in 1 .. C[i] - d |-> d + j]
             F == [i \in 1 .. L |-> all(i)]
             G == CHOOSE f : f = step(f)
  <2>1. L \in Nat /\ L >= 1 /\ L # 0
    BY <1>4
  <2>2. FlattenSeq(ss) = G[L]
    BY <2>1, Zenon DEF FlattenSeq
  <2>3. ASSUME NEW i \in 0 .. L PROVE Run(all(i), d, C[i])
    <3>1. C[i] \in Nat /\ d <= C[i]
      BY <1>1, <1>2, <2>3, CutsAbove
    <3>2. C[i] - d \in Nat /\ d + (C[i] - d) = C[i]
      BY <1>2, <3>1
    <3> DEFINE k == C[i] - d
    <3>3. Run([j \in 1 .. k |-> d + j], d, d + k)
      <4> HIDE DEF k
      <4>1. k \in Nat
        BY <3>2 DEF k
      <4>2. QED
        BY <1>2, <4>1, RunOf
    <3>4. QED
      BY <3>2, <3>3
  <2> HIDE DEF all
  <2>4. ASSUME NEW i \in 1 .. L
        PROVE  all(i) = IF i = 1 THEN ss[i] ELSE all(i - 1) \o ss[i]
    <3>1. i \in 0 .. L /\ i - 1 \in 0 .. L
      BY <2>1
    <3>2. Run(ss[i], C[i - 1], C[i])
      BY <1>1 DEF Cuts
    <3>3. Run(all(i), d, C[i]) /\ Run(all(i - 1), d, C[i - 1])
      BY <2>3, <3>1
    <3>4. CASE i = 1
      <4>1. C[i - 1] = d
        BY <1>1, <3>4 DEF Cuts
      <4>2. Run(ss[i], d, C[i])
        BY <3>2, <4>1
      <4>3. all(i) = ss[i]
        BY <3>3, <4>2, RunSame
      <4>4. QED
        BY <3>4, <4>3
    <3>5. CASE i # 1
      <4>1. Run(all(i - 1) \o ss[i], d, C[i])
        BY <3>2, <3>3, RunConcat
      <4>2. all(i) = all(i - 1) \o ss[i]
        BY <3>3, <4>1, RunSame
      <4>3. QED
        BY <3>5, <4>2
    <3>6. QED
      BY <3>4, <3>5
  <2>5. F = step(F)
    <3>1. ASSUME NEW i \in 1 .. L
          PROVE  F[i] = IF i = 1 THEN ss[i] ELSE F[i - 1] \o ss[i]
      <4>1. i # 1 => i - 1 \in 1 .. L
        BY <2>1
      <4>2. F[i] = all(i) /\ (i # 1 => F[i - 1] = all(i - 1))
        BY <4>1
      <4>3. QED
        BY <2>4, <4>2
    <3>2. F = [i \in 1 .. L |-> F[i]]
      OBVIOUS
    <3> HIDE DEF F
    <3>3. QED
      BY <3>1, <3>2, Zenon
  <2>6. G = step(G)
    <3> HIDE DEF F
    <3>1. QED
      BY <2>5, Zenon
  <2> HIDE DEF G, F
  <2>7. ASSUME NEW i \in 1 .. L
        PROVE  G[i] = IF i = 1 THEN ss[i] ELSE G[i - 1] \o ss[i]
    BY <2>6, Zenon
  <2> DEFINE T == {i \in 1 .. L : ~Run(G[i], d, C[i])}
  <2>8. T = {}
    <3> SUFFICES ASSUME T # {} PROVE FALSE
      OBVIOUS
    <3>1. PICK x \in T : \A y \in T : x <= y
      <4>1. T \subseteq Nat
        OBVIOUS
      <4> HIDE DEF T
      <4>2. QED
        BY <4>1, Smallest
    <3>2. x \in 1 .. L /\ ~Run(G[x], d, C[x])
      BY <3>1
    <3>3. Run(ss[x], C[x - 1], C[x])
      BY <1>1, <3>2 DEF Cuts
    <3>4. CASE x = 1
      <4>1. C[x - 1] = d
        BY <1>1, <3>4 DEF Cuts
      <4>2. QED
        BY <2>7, <3>2, <3>3, <3>4, <4>1
    <3>5. CASE x # 1
      <4>1. x - 1 \in 1 .. L /\ ~(x <= x - 1)
        BY <2>1, <3>2, <3>5
      <4>2. Run(G[x - 1], d, C[x - 1])
        BY <3>1, <4>1
      <4>3. Run(G[x - 1] \o ss[x], d, C[x])
        BY <3>3, <4>2, RunConcat
      <4>4. QED
        BY <2>7, <3>2, <3>5, <4>3
    <3>6. QED
      BY <3>4, <3>5
  <2>9. Run(G[L], d, C[L])
    <3>1. L \in 1 .. L
      BY <2>1
    <3>2. QED
      BY <2>8, <3>1
  <2>10. QED
    BY <1>1, <2>2, <2>9 DEF Cuts
<1>5. QED
  BY <1>3, <1>4

-----------------------------------------------------------------------------
(* What is on its way.                                                     *)

\* What a message brings to the other side's stream.
Content(m) ==
  IF m.type = "Stdout" THEN m.payload
  ELSE IF m.type = "Stdin" THEN <<m.payload>> ELSE <<>>
Contents(s) == [i \in 1 .. Len(s) |-> Content(s[i])]

Code == {None, "success", "failure"}
ClientMessage ==
  [type : {"KeyAccepted", "KeyRejected", "ShellStarted"}]
    \cup [type : {"Stdout"}, payload : Seq(Nat)] \cup [type : {"Exited"}, code : Code]
ServerMessage ==
  [type : {"Key"}, key : Keys] \cup [type : {"StartShell"}]
    \cup [type : {"Stdin"}, payload : Nat]
Message == ClientMessage \cup ServerMessage

\* The buffers that TypeOK bounds the lengths of, and those without a bound.
BuffersOK ==
  /\ client_key \in Keys
  /\ to_client \in Seq(ClientMessage) /\ to_server \in Seq(ServerMessage)
  /\ recv_buff \in Seq(Nat) /\ reader_rx \in Seq(Seq(Nat))
  /\ reader_chunk \in Seq(Nat) /\ pty_out \in Seq(Nat)
  /\ stdin \in Nat /\ writer_data \in Nat
  /\ writer_rx \in Seq(Nat) /\ pty_in \in Seq(Nat)
TypesOK == TypeOK /\ BuffersOK

\* Nothing runs before the shell is started, and what runs has started.
Opening == server \in {"waiting_for_key", "waiting_for_request"}
StartOK ==
  Opening => /\ program = "none" /\ reader = "none" /\ writer = "none"
             /\ exit_status = None

\* The client has been told of an exit, or will be.
Exits(s) == \E i \in 1 .. Len(s) : s[i].type = "Exited"
Told == client = "exited" \/ Exits(to_client)

\* A reader that ends after the drop loses what it was about to send.
Whole == Told \/ ~(Dropped /\ reader = "ended")

\* What the program wrote: the numbers up to a are displayed, those up to b in
\* the tunnel, then come the buffer, the channel, the chunk and the terminal.
\* A client that has failed displays nothing any more.
OutputAt(a, b, c, d, e) ==
  /\ client # "failed" => Run(shown, 0, a)
  /\ Stretch(Contents(to_client), a, b)
  /\ Run(recv_buff, b, c) /\ Stretch(reader_rx, c, d)
  /\ d <= output
  /\ Whole => Run(reader_chunk, d, e) /\ Run(pty_out, e, output)

OutputOK ==
  /\ \E a \in Nat : a <= output /\ Run(shown, 0, a)
  /\ \E a, b, c, d, e \in Nat : OutputAt(a, b, c, d, e)
  /\ reader # "sending" => reader_chunk = <<>>

\* The terminal is read to its end when the reader turns to the exit status,
\* and the status is the program's until the shell is dropped.
Drained == pty_out = <<>> /\ TerminalClosed
ExitOK ==
  /\ reader \in {"locking", "waiting"} => Drained
  /\ reader = "ended" => Dropped \/ Drained
  /\ exit_status # None =>
       Dropped \/ (program = "exited" /\ exit_status = program_code)
  /\ program = "exited" => Dropped \/ program_code # None

\* What holds once an exit is reported with this code.
Final(c) ==
  /\ Dropped /\ reader \in {"ended", "failed"}
  /\ reader = "ended" =>
       /\ recv_buff = <<>> /\ reader_rx = <<>> /\ reader_chunk = <<>>
       /\ pty_out = <<>> /\ program = "exited" /\ program_code = c
ReportOK ==
  /\ \A i \in 1 .. Len(to_client) :
       to_client[i].type = "Exited" => i = Len(to_client) /\ Final(to_client[i].code)
  /\ client = "exited" => to_client = <<>> /\ Final(code)

\* What was typed: up to a the program has read it, up to b it is in the
\* terminal, then come the writer, its channel, the loop and the tunnel.
Feeding == writer \in {"none", "receiving", "writing"}
Accepting == Opening \/ server \in {"streaming", "writing"}
Held(some, x, d, n) == IF some THEN x = n /\ n = d + 1 ELSE n = d
InputAt(a, b, c, d, e) ==
  /\ Run(taken, 0, a) /\ Run(pty_in, a, b) /\ b <= typed
  /\ Feeding =>
       /\ Held(writer = "writing", writer_data, b, c) /\ Run(writer_rx, c, d)
       /\ d <= typed
       /\ Accepting => /\ Held(server = "writing", stdin, d, e)
                       /\ Stretch(Contents(to_server), e, typed)

InputOK == \E a, b, c, d, e \in Nat : InputAt(a, b, c, d, e)

SessionInv == TypesOK /\ StartOK /\ OutputOK /\ ExitOK /\ ReportOK /\ InputOK

-----------------------------------------------------------------------------
(* Types.                                                                  *)

\* The sizes one by one.
LEMMA Sizes ==
  /\ ReadSize \in Nat /\ ReadSize >= 1 /\ ReaderChannel \in Nat /\ ReaderChannel >= 1
  /\ WriterChannel \in Nat /\ PtySize \in Nat /\ MaxTyped \in Nat /\ MaxOutput \in Nat
<1>1. /\ ReadSize \in Nat \ {0} /\ ReaderChannel \in Nat \ {0}
      /\ WriterChannel \in Nat \ {0} /\ PtySize \in Nat \ {0}
      /\ MaxTyped \in Nat /\ MaxOutput \in Nat
  BY ShellAssumption
<1>2. QED
  BY <1>1

\* A buffer with room for one more.
LEMMA AppendFits ==
  ASSUME NEW S, NEW s \in Seq(S), NEW x \in S, NEW n \in Nat, Len(s) < n
  PROVE  Append(s, x) \in Seq(S) /\ Len(Append(s, x)) <= n
  OBVIOUS

\* A buffer without its first element.
LEMMA TailFits ==
  ASSUME NEW S, NEW s \in Seq(S), s # <<>>, NEW n \in Nat, Len(s) <= n
  PROVE  Head(s) \in S /\ Tail(s) \in Seq(S) /\ Len(Tail(s)) <= n
  OBVIOUS

\* What one read takes of a buffer, and what it leaves.
LEMMA ReadFits ==
  ASSUME NEW S, NEW s \in Seq(S), NEW k \in Nat
  PROVE  LET n == IF Len(s) < k THEN Len(s) ELSE k
         IN  /\ n \in 0 .. Len(s) /\ SubSeq(s, 1, n) \in Seq(S)
             /\ SubSeq(s, n + 1, Len(s)) \in Seq(S)
             /\ \A m \in Nat : Len(s) <= m => Len(SubSeq(s, n + 1, Len(s))) <= m
<1> DEFINE n == IF Len(s) < k THEN Len(s) ELSE k
<1>1. n \in 0 .. Len(s)
  OBVIOUS
<1> HIDE DEF n
<1>2. /\ SubSeq(s, 1, n) \in Seq(S) /\ SubSeq(s, n + 1, Len(s)) \in Seq(S)
      /\ Len(SubSeq(s, n + 1, Len(s))) = Len(s) - n
  BY <1>1
<1>3. \A m \in Nat : Len(s) <= m => Len(s) - n <= m
  BY <1>1
<1>4. QED
  BY <1>1, <1>2, <1>3 DEF n

\* The steps of the client keep the types.
LEMMA ClientTypes ==
  ASSUME TypesOK, Client
  PROVE  TypesOK'
<1> USE DEF TypesOK, TypeOK, BuffersOK, serverVars, programVars, readerVars, writerVars,
            ClientGoes, ToServer, None
<1>1. /\ to_client # <<>> =>
           Head(to_client) \in ClientMessage /\ Tail(to_client) \in Seq(ClientMessage)
      /\ \A m \in ServerMessage : Append(to_server, m) \in Seq(ServerMessage)
  OBVIOUS
<1>2. CASE SendKey
  <2>1. [type |-> "Key", key |-> client_key] \in ServerMessage
    BY DEF ServerMessage
  <2>2. QED
    BY <1>1, <1>2, <2>1 DEF SendKey
<1>3. CASE ReceiveAnswer
  <2>1. [type |-> "StartShell"] \in ServerMessage
    BY DEF ServerMessage
  <2>2. to_client' \in Seq(ClientMessage)
    BY <1>1, <1>3 DEF ReceiveAnswer
  <2>3. to_server' \in Seq(ServerMessage)
    BY <1>1, <1>3, <2>1, Zenon DEF ReceiveAnswer
  <2>4. client' \in {"starting", "streaming", "failed"}
    BY <1>3, Zenon DEF ReceiveAnswer
  <2>5. UNCHANGED <<client_key, code, typed, serverVars, programVars, readerVars,
                    writerVars, exit_status>>
    BY <1>3, Zenon DEF ReceiveAnswer
  <2>6. QED
    BY <2>2, <2>3, <2>4, <2>5
<1>4. CASE ClientFails
  BY <1>4 DEF ClientFails, streamVars
<1>5. CASE ReadStdin
  <2>1. typed \in Nat /\ typed + 1 \in Nat
    BY Sizes
  <2>2. [type |-> "Stdin", payload |-> typed + 1] \in ServerMessage
    BY <2>1 DEF ServerMessage
  <2>3. typed + 1 \in 0 .. MaxTyped
    <3>1. typed < MaxTyped
      BY <1>5 DEF ReadStdin
    <3>2. QED
      BY <2>1, <3>1, Sizes
  <2>4. QED
    BY <1>1, <1>5, <2>2, <2>3 DEF ReadStdin
<1>6. CASE ReceiveOutput
  <2>1. Head(to_client) \in ClientMessage /\ Tail(to_client) \in Seq(ClientMessage)
    BY <1>1, <1>6 DEF ReceiveOutput
  <2>2. Head(to_client).type = "Exited" => Head(to_client).code \in Code
    BY <2>1 DEF ClientMessage
  <2>3. QED
    BY <1>6, <2>1, <2>2 DEF ReceiveOutput, Code
<1>7. QED
  BY <1>2, <1>3, <1>4, <1>5, <1>6 DEF Client

\* The steps of the server keep them.
LEMMA ServerTypes ==
  ASSUME TypesOK, OutputOK, Server
  PROVE  TypesOK'
<1> USE DEF TypesOK, TypeOK, BuffersOK, clientVars, programVars, readerVars, writerVars,
            ServerGoes, ToClient, None
<1>1. /\ to_server # <<>> =>
           Head(to_server) \in ServerMessage /\ Tail(to_server) \in Seq(ServerMessage)
      /\ \A m \in ClientMessage : Append(to_client, m) \in Seq(ClientMessage)
  OBVIOUS
<1>2. [type |-> "KeyAccepted"] \in ClientMessage /\ [type |-> "KeyRejected"] \in ClientMessage
      /\ [type |-> "ShellStarted"] \in ClientMessage
  BY DEF ClientMessage
<1>3. CASE ReceiveKey
  BY <1>1, <1>2, <1>3, ZenonT(30) DEF ReceiveKey
<1>4. CASE StartShell
  BY <1>1, <1>2, <1>4 DEF StartShell
<1>5. CASE NoRequest
  BY <1>5 DEF NoRequest, streamVars
<1>6. CASE ReadShell
  <2> DEFINE all == recv_buff \o FlattenSeq(reader_rx)
             n == IF Len(all) < ReadSize THEN Len(all) ELSE ReadSize
  <2>1. all \in Seq(Nat)
    <3>1. PICK a, b, c, d, e \in Nat : OutputAt(a, b, c, d, e)
      BY DEF OutputOK
    <3>2. Run(FlattenSeq(reader_rx), c, d)
      BY <3>1, FlattenRuns DEF OutputAt
    <3>3. QED
      BY <3>2 DEF Run
  <2> HIDE DEF all
  <2>2. /\ SubSeq(all, 1, n) \in Seq(Nat) /\ SubSeq(all, n + 1, Len(all)) \in Seq(Nat)
    BY <2>1, Sizes, ReadFits
  <2>3. [type |-> "Stdout", payload |-> SubSeq(all, 1, n)] \in ClientMessage
    BY <2>2 DEF ClientMessage
  <2>4. /\ reader_rx' = <<>> /\ recv_buff' = SubSeq(all, n + 1, Len(all))
        /\ to_client' = Append(to_client, [type |-> "Stdout", payload |-> SubSeq(all, 1, n)])
    BY <1>6 DEF ReadShell, all
  <2> HIDE DEF n
  <2>5. /\ to_client' \in Seq(ClientMessage) /\ recv_buff' \in Seq(Nat)
        /\ reader_rx' \in Seq(Seq(Nat)) /\ Len(reader_rx') <= ReaderChannel
    BY <1>1, <2>2, <2>3, <2>4, Sizes
  <2>6. QED
    BY <1>6, <2>5, ZenonT(30) DEF ReadShell
<1>7. CASE ReadShellEnds
  <2>1. [type |-> "Exited", code |-> exit_status] \in ClientMessage
    BY DEF ClientMessage, Code
  <2>2. QED
    BY <1>1, <1>7, <2>1 DEF ReadShellEnds
<1>8. CASE ReceiveStdin
  <2>1. Head(to_server) \in ServerMessage /\ Tail(to_server) \in Seq(ServerMessage)
    BY <1>1, <1>8 DEF ReceiveStdin
  <2>2. Head(to_server).type = "Stdin" => Head(to_server).payload \in Nat
    BY <2>1 DEF ServerMessage
  <2>3. QED
    BY <1>8, <2>1, <2>2 DEF ReceiveStdin
<1>9. CASE WriteShell
  <2>1. Len(writer_rx) < WriterChannel =>
          Append(writer_rx, stdin) \in Seq(Nat) /\ Len(Append(writer_rx, stdin)) <= WriterChannel
    BY Sizes, AppendFits
  <2>2. QED
    BY <1>9, <2>1, ZenonT(30) DEF WriteShell, streamVars
<1>10. CASE ClientLeft
  BY <1>10 DEF ClientLeft, streamVars
<1>11. CASE DropShell
  BY <1>11 DEF DropShell, DropLooks, DropLocks, DropKills, DropGoes, DropIsOver,
               streamVars
<1>12. CASE Linger
  BY <1>12 DEF Linger, streamVars
<1>13. QED
  BY <1>3, <1>4, <1>5, <1>6, <1>7, <1>8, <1>9, <1>10, <1>11, <1>12 DEF Server

\* The steps of the two tasks keep them.
LEMMA TaskTypes ==
  ASSUME TypesOK, Reader \/ Writer
  PROVE  TypesOK'
<1> USE DEF TypesOK, TypeOK, BuffersOK, clientVars, serverVars, streamVars, programVars,
            readerVars, writerVars, None
<1>1. CASE ReaderReads
  <2> DEFINE n == IF Len(pty_out) < ReadSize THEN Len(pty_out) ELSE ReadSize
  <2>1. /\ SubSeq(pty_out, 1, n) \in Seq(Nat) /\ SubSeq(pty_out, n + 1, Len(pty_out)) \in Seq(Nat)
        /\ Len(SubSeq(pty_out, n + 1, Len(pty_out))) <= PtySize
    BY Sizes, ReadFits
  <2>2. /\ reader_chunk' = SubSeq(pty_out, 1, n)
        /\ pty_out' = SubSeq(pty_out, n + 1, Len(pty_out))
    BY <1>1 DEF ReaderReads
  <2> HIDE DEF n
  <2>3. /\ reader_chunk' \in Seq(Nat) /\ pty_out' \in Seq(Nat) /\ Len(pty_out') <= PtySize
    BY <2>1, <2>2
  <2>4. QED
    BY <1>1, <2>3, ZenonT(30) DEF ReaderReads
<1>2. CASE ReaderSends
  <2>1. Len(reader_rx) < ReaderChannel =>
          /\ Append(reader_rx, reader_chunk) \in Seq(Seq(Nat))
          /\ Len(Append(reader_rx, reader_chunk)) <= ReaderChannel
    BY Sizes, AppendFits
  <2>2. /\ reader_rx' \in Seq(Seq(Nat)) /\ Len(reader_rx') <= ReaderChannel
        /\ reader' \in {"reading", "ended"} /\ reader_chunk' = <<>>
    BY <1>2, <2>1, Zenon DEF ReaderSends
  <2>3. reader_chunk' \in Seq(Nat)
    BY <2>2
  <2>4. UNCHANGED <<clientVars, serverVars, streamVars, programVars, writerVars, exit_status>>
    BY <1>2 DEF ReaderSends
  <2>5. QED
    BY <2>2, <2>3, <2>4
<1>3. CASE ReaderEof \/ ReaderLocks
  BY <1>3 DEF ReaderEof, ReaderLocks
<1>4. CASE ReaderFails
  BY <1>4 DEF ReaderFails
<1>5. CASE ReaderExits
  BY <1>5 DEF ReaderExits
<1>6. CASE WriterReceives
  <2>1. writer_rx # <<>> => /\ Head(writer_rx) \in Nat /\ Tail(writer_rx) \in Seq(Nat)
                            /\ Len(Tail(writer_rx)) <= WriterChannel
    BY Sizes, TailFits
  <2>2. QED
    BY <1>6, <2>1 DEF WriterReceives
<1>7. CASE WriterWrites
  <2>1. Len(pty_in) < PtySize =>
          /\ Append(pty_in, writer_data) \in Seq(Nat)
          /\ Len(Append(pty_in, writer_data)) <= PtySize
    BY Sizes, AppendFits
  <2>2. QED
    BY <1>7, <2>1 DEF WriterWrites
<1>8. CASE WriterFails \/ WriterLocks
  BY <1>8 DEF WriterFails, WriterLocks
<1>9. CASE WriterExits
  BY <1>9 DEF WriterExits
<1>10. CASE WriterEnds
  BY <1>10 DEF WriterEnds
<1>11. QED
  BY <1>1, <1>2, <1>3, <1>4, <1>5, <1>6, <1>7, <1>8, <1>9, <1>10 DEF Reader, Writer

\* The steps of the program keep them.
LEMMA ProgramTypes ==
  ASSUME TypesOK, Program
  PROVE  TypesOK'
<1> USE DEF TypesOK, TypeOK, BuffersOK, clientVars, serverVars, streamVars,
            readerVars, writerVars, None
<1>1. CASE ProgramReads
  <2>1. pty_in # <<>> => Tail(pty_in) \in Seq(Nat) /\ Len(Tail(pty_in)) <= PtySize
    BY Sizes, TailFits
  <2>2. QED
    BY <1>1, <2>1 DEF ProgramReads
<1>2. CASE ProgramWrites
  <2>1. output + 1 \in Nat /\ (output < MaxOutput => output + 1 \in 0 .. MaxOutput)
    <3>1. output \in 0 .. MaxOutput
      OBVIOUS
    <3>2. QED
      BY <3>1, Sizes
  <2>2. Len(pty_out) < PtySize =>
          /\ Append(pty_out, output + 1) \in Seq(Nat)
          /\ Len(Append(pty_out, output + 1)) <= PtySize
    BY <2>1, Sizes, AppendFits
  <2>3. QED
    BY <1>2, <2>1, <2>2 DEF ProgramWrites
<1>3. CASE ProgramDetaches
  BY <1>3 DEF ProgramDetaches
<1>4. CASE ProgramExits
  BY <1>4 DEF ProgramExits
<1>5. QED
  BY <1>1, <1>2, <1>3, <1>4 DEF Program

-----------------------------------------------------------------------------
(* The start and the exit status.                                          *)

\* Which steps open the session is clear: nothing runs before it is open.
LEMMA StartStep ==
  ASSUME StartOK, Next
  PROVE  StartOK'
<1> USE DEF StartOK, Opening, clientVars, serverVars, streamVars, programVars, readerVars,
            writerVars, ClientGoes, ServerGoes, None
<1>1. CASE Client
  BY <1>1 DEF Client, SendKey, ReceiveAnswer, ClientFails, ReadStdin, ReceiveOutput
<1>2. CASE Server
  <2>1. CASE ReceiveKey \/ StartShell \/ NoRequest
    BY <2>1 DEF ReceiveKey, StartShell, NoRequest
  <2>2. CASE ReadShell \/ ReadShellEnds \/ ReceiveStdin \/ WriteShell
    BY <2>2 DEF ReadShell, ReadShellEnds, ReceiveStdin, WriteShell
  <2>3. CASE ClientLeft \/ DropShell \/ Linger
    BY <2>3 DEF ClientLeft, DropShell, DropLooks, DropLocks, DropKills, DropGoes,
                DropIsOver, Linger
  <2>4. QED
    BY <1>2, <2>1, <2>2, <2>3 DEF Server
<1>3. CASE Reader
  BY <1>3 DEF Reader, ReaderReads, ReaderSends, ReaderEof, ReaderLocks, ReaderFails,
              ReaderExits
<1>4. CASE Writer
  BY <1>4 DEF Writer, WriterReceives, WriterWrites, WriterFails, WriterLocks,
              WriterExits, WriterEnds
<1>5. CASE Program
  BY <1>5 DEF Program, ProgramReads, ProgramWrites, ProgramDetaches, ProgramExits
<1>6. QED
  BY <1>1, <1>2, <1>3, <1>4, <1>5 DEF Next

\* A terminal that is closed and read to its end stays so, and a program that
\* has ended keeps its code.
LEMMA ExitStep ==
  ASSUME StartOK, ExitOK, Next
  PROVE  ExitOK'
<1> USE DEF ExitOK, Drained, TerminalClosed, Dropped, clientVars, serverVars, streamVars,
            programVars, readerVars, writerVars, ClientGoes, ServerGoes, None
<1>1. CASE Client
  BY <1>1 DEF Client, SendKey, ReceiveAnswer, ClientFails, ReadStdin, ReceiveOutput
<1>2. CASE Server
  <2>1. CASE ReceiveKey \/ NoRequest
    BY <2>1 DEF ReceiveKey, NoRequest
  <2>2. CASE StartShell
    BY <2>2 DEF StartShell, StartOK, Opening
  <2>3. CASE ReadShell \/ ReadShellEnds \/ ReceiveStdin \/ WriteShell
    BY <2>3 DEF ReadShell, ReadShellEnds, ReceiveStdin, WriteShell
  <2>4. CASE ClientLeft \/ Linger
    BY <2>4 DEF ClientLeft, Linger
  <2>5. CASE DropShell
    BY <2>5 DEF DropShell, DropLooks, DropLocks, DropKills, DropGoes, DropIsOver
  <2>6. QED
    BY <1>2, <2>1, <2>2, <2>3, <2>4, <2>5 DEF Server
<1>3. CASE Reader
  <2>1. CASE ReaderReads \/ ReaderSends \/ ReaderFails
    BY <2>1 DEF ReaderReads, ReaderSends, ReaderFails
  <2>2. CASE ReaderEof \/ ReaderLocks
    BY <2>2 DEF ReaderEof, ReaderLocks
  <2>3. CASE ReaderExits
    BY <2>3 DEF ReaderExits
  <2>4. QED
    BY <1>3, <2>1, <2>2, <2>3 DEF Reader
<1>4. CASE Writer
  BY <1>4 DEF Writer, WriterReceives, WriterWrites, WriterFails, WriterLocks,
              WriterExits, WriterEnds
<1>5. CASE Program
  BY <1>5 DEF Program, ProgramReads, ProgramWrites, ProgramDetaches, ProgramExits
<1>6. QED
  BY <1>1, <1>2, <1>3, <1>4, <1>5 DEF Next

-----------------------------------------------------------------------------
(* The report of an exit.                                                  *)

\* What holds once an exit is reported goes on to hold.
LEMMA FinalStays ==
  ASSUME Next
  PROVE  \A c : Final(c) => Final(c)'
<1> SUFFICES ASSUME NEW c, Final(c) PROVE Final(c)'
  OBVIOUS
<1> USE DEF Final, Dropped, clientVars, serverVars, streamVars, programVars, readerVars,
            writerVars, ClientGoes, ServerGoes
<1>1. CASE Client
  BY <1>1 DEF Client, SendKey, ReceiveAnswer, ClientFails, ReadStdin, ReceiveOutput
<1>2. CASE Server
  BY <1>2 DEF Server, ReceiveKey, StartShell, NoRequest, ReadShell, ReadShellEnds,
              ReceiveStdin, WriteShell, ClientLeft, DropShell, DropLooks, DropLocks,
              DropKills, DropGoes, DropIsOver, Linger
<1>3. CASE Reader
  BY <1>3 DEF Reader, ReaderReads, ReaderSends, ReaderEof, ReaderLocks, ReaderFails,
              ReaderExits
<1>4. CASE Writer
  BY <1>4 DEF Writer, WriterReceives, WriterWrites, WriterFails, WriterLocks,
              WriterExits, WriterEnds
<1>5. CASE Program
  BY <1>5 DEF Program, ProgramReads, ProgramWrites, ProgramDetaches, ProgramExits
<1>6. QED
  BY <1>1, <1>2, <1>3, <1>4, <1>5 DEF Next

\* Before the shell is dropped no exit is reported.
LEMMA NotToldYet ==
  ASSUME ReportOK, ~Dropped
  PROVE  ~Told
  BY DEF ReportOK, Final, Told, Exits

\* What a step may do to the messages and to a client that has exited.
LEMMA ReportSteps ==
  ASSUME Next
  PROVE  \/ ReceiveOutput \/ ReadShellEnds
         \/ client' # "exited" /\ to_client # <<>> /\ to_client' = Tail(to_client)
         \/ /\ ~Dropped /\ client' = client
            /\ \E m : m.type # "Exited" /\ to_client' = Append(to_client, m)
         \/ /\ to_client' = to_client
            /\ client' = "exited" => client = "exited" /\ code' = code
<1> USE DEF Dropped, clientVars, serverVars, streamVars, programVars, readerVars, writerVars,
            ClientGoes, ServerGoes, ToClient
<1>1. CASE Client
  <2>1. CASE ReceiveAnswer
    <3>1. client' # "exited" /\ to_client # <<>> /\ to_client' = Tail(to_client)
      BY <2>1 DEF ReceiveAnswer
    <3>2. QED
      BY <3>1
  <2>2. CASE SendKey \/ ClientFails \/ ReadStdin
    BY <2>2 DEF SendKey, ClientFails, ReadStdin
  <2>3. QED
    BY <1>1, <2>1, <2>2 DEF Client
<1>2. CASE Server
  <2>2. CASE ReceiveKey
    <3>1. \/ to_client' = Append(to_client, [type |-> "KeyAccepted"])
          \/ to_client' = Append(to_client, [type |-> "KeyRejected"])
      BY <2>2 DEF ReceiveKey
    <3>2. ~Dropped /\ client' = client
      BY <2>2 DEF ReceiveKey
    <3>3. QED
      BY <3>1, <3>2
  <2>3. CASE StartShell
    <3>1. to_client' = Append(to_client, [type |-> "ShellStarted"])
      BY <2>3 DEF StartShell
    <3>2. ~Dropped /\ client' = client
      BY <2>3 DEF StartShell
    <3>3. QED
      BY <3>1, <3>2
  <2>4. CASE ReadShell
    <3>1. PICK p : to_client' = Append(to_client, [type |-> "Stdout", payload |-> p])
      BY <2>4 DEF ReadShell
    <3>2. ~Dropped /\ client' = client
      BY <2>4 DEF ReadShell
    <3>3. [type |-> "Stdout", payload |-> p].type # "Exited"
      OBVIOUS
    <3>4. QED
      BY <3>1, <3>2, <3>3
  <2>5. CASE NoRequest \/ ReceiveStdin \/ WriteShell
    BY <2>5 DEF NoRequest, ReceiveStdin, WriteShell
  <2>6. CASE ClientLeft \/ DropShell \/ Linger
    BY <2>6 DEF ClientLeft, DropShell, DropLooks, DropLocks, DropKills, DropGoes,
                DropIsOver, Linger
  <2>7. QED
    BY <1>2, <2>2, <2>3, <2>4, <2>5, <2>6 DEF Server
<1>3. CASE Reader
  BY <1>3 DEF Reader, ReaderReads, ReaderSends, ReaderEof, ReaderLocks, ReaderFails,
              ReaderExits
<1>4. CASE Writer
  BY <1>4 DEF Writer, WriterReceives, WriterWrites, WriterFails, WriterLocks,
              WriterExits, WriterEnds
<1>5. CASE Program
  BY <1>5 DEF Program, ProgramReads, ProgramWrites, ProgramDetaches, ProgramExits
<1>6. QED
  BY <1>1, <1>2, <1>3, <1>4, <1>5 DEF Next

\* A message is taken from the front.
LEMMA ReportTail ==
  ASSUME TypesOK, ReportOK, Next, to_client # <<>>, to_client' = Tail(to_client)
  PROVE  \A i \in 1 .. Len(to_client') :
           to_client'[i].type = "Exited" =>
             i = Len(to_client') /\ Final(to_client[i].code)'
<1>1. PICK t : t = to_client
  OBVIOUS
<1>2. t \in Seq(ClientMessage) /\ t # <<>> /\ to_client' = Tail(t)
  BY <1>1 DEF TypesOK, BuffersOK
<1>3. /\ Len(Tail(t)) = Len(t) - 1 /\ Len(t) \in Nat
      /\ \A i \in 1 .. Len(Tail(t)) : Tail(t)[i] = t[i + 1] /\ i + 1 \in 1 .. Len(t)
  BY <1>2
<1>4. ASSUME NEW i \in 1 .. Len(Tail(t)), Tail(t)[i].type = "Exited"
      PROVE  i = Len(Tail(t)) /\ Final(Tail(t)[i].code)'
  <2>1. i + 1 \in 1 .. Len(t) /\ t[i + 1].type = "Exited"
    BY <1>3, <1>4
  <2>2. i + 1 = Len(t) /\ Final(t[i + 1].code)
    BY <1>1, <2>1 DEF ReportOK
  <2>3. PICK c : c = t[i + 1].code
    OBVIOUS
  <2>4. Final(c)'
    BY <2>2, <2>3, FinalStays
  <2>5. i = Len(Tail(t)) /\ c = Tail(t)[i].code
    <3>1. i + 1 = Len(t) /\ Len(Tail(t)) = Len(t) - 1 /\ Tail(t)[i] = t[i + 1]
      BY <1>3, <2>2, Zenon
    <3>2. i = Len(Tail(t))
      BY <1>3, <3>1
    <3>3. QED
      BY <2>3, <3>1, <3>2, Zenon
  <2>6. QED
    BY <2>4, <2>5
<1>5. QED
  BY <1>2, <1>4 DEF Final, Dropped

\* An exit is reported last, when the program has ended and its output is read.
LEMMA ReportStep ==
  ASSUME TypesOK, OutputOK, ExitOK, ReportOK, Next
  PROVE  ReportOK'
<1>1. CASE ReceiveOutput
  <2>1. to_client # <<>> /\ to_client' = Tail(to_client) /\ client = "streaming"
    BY <1>1 DEF ReceiveOutput
  <2>2. ASSUME client' = "exited" PROVE to_client' = <<>> /\ Final(code)'
    <3>1. PICK t : t = to_client
      OBVIOUS
    <3>2. t \in Seq(ClientMessage) /\ t # <<>> /\ to_client' = Tail(t)
      BY <2>1, <3>1 DEF TypesOK, BuffersOK
    <3>3. Head(t).type = "Exited" /\ code' = Head(t).code
      BY <1>1, <2>1, <2>2, <3>1 DEF ReceiveOutput
    <3>4. Head(t) = t[1] /\ 1 \in 1 .. Len(t) /\ Len(t) \in Nat
      BY <3>2
    <3>5. 1 = Len(t) /\ Final(t[1].code)
      BY <3>1, <3>3, <3>4 DEF ReportOK
    <3>6. Tail(t) = <<>>
      BY <3>2, <3>5
    <3>7. PICK c : c = t[1].code
      OBVIOUS
    <3>8. Final(c)'
      BY <3>5, <3>7, FinalStays
    <3>9. QED
      BY <3>2, <3>3, <3>4, <3>6, <3>7, <3>8 DEF Final, Dropped
  <2>3. QED
    BY <2>1, <2>2, ReportTail DEF ReportOK
<1>2. CASE ReadShellEnds
  <2>1. ~Dropped
    BY <1>2 DEF ReadShellEnds, Dropped
  <2>2. ~Exits(to_client) /\ client # "exited" /\ client' = client
    BY <1>2, <2>1, NotToldYet DEF Told, ReadShellEnds, clientVars
  <2>3. CASE to_client' = to_client
    BY <2>2, <2>3 DEF ReportOK, Exits
  <2>4. CASE to_client' # to_client
    <3>1. PICK m : m = [type |-> "Exited", code |-> exit_status]
      OBVIOUS
    <3>2. PICK t : t = to_client
      OBVIOUS
    <3>3. /\ to_client' = Append(t, m) /\ server' = "lingering" /\ exit_status # None
          /\ recv_buff' = <<>> /\ reader_rx' = <<>> /\ reader' \in {"ended", "failed"}
          /\ UNCHANGED <<reader, reader_chunk, pty_out, program, program_code>>
      BY <1>2, <2>4, <3>1, <3>2
      DEF ReadShellEnds, ToClient, ServerGoes, readerVars, programVars
    <3>4. t \in Seq(ClientMessage)
      BY <3>2 DEF TypesOK, BuffersOK
    <3>5. reader = "ended" => /\ pty_out = <<>> /\ program = "exited" /\ reader_chunk = <<>>
                              /\ exit_status = program_code
      BY <2>1, <3>3 DEF ExitOK, OutputOK, Drained
    <3>6. Final(m.code)'
      BY <3>1, <3>3, <3>5 DEF Final, Dropped
    <3>7. /\ Len(Append(t, m)) = Len(t) + 1 /\ Append(t, m)[Len(t) + 1] = m
          /\ \A i \in 1 .. Len(t) : Append(t, m)[i] = t[i]
          /\ \A i \in 1 .. Len(t) + 1 : i # Len(t) + 1 => i \in 1 .. Len(t)
      BY <3>4
    <3>8. ASSUME NEW i \in 1 .. Len(Append(t, m)), Append(t, m)[i].type = "Exited"
          PROVE  i = Len(Append(t, m)) /\ Append(t, m)[i] = m
      BY <2>2, <3>2, <3>7, <3>8 DEF Exits
    <3>9. QED
      BY <2>2, <3>3, <3>6, <3>8 DEF ReportOK, Final, Dropped
  <2>5. QED
    BY <2>3, <2>4
<1>3. CASE client' # "exited" /\ to_client # <<>> /\ to_client' = Tail(to_client)
  BY <1>3, ReportTail DEF ReportOK
<1>4. CASE /\ ~Dropped /\ client' = client
           /\ \E m : m.type # "Exited" /\ to_client' = Append(to_client, m)
  <2>1. PICK m : m.type # "Exited" /\ to_client' = Append(to_client, m)
    BY <1>4
  <2>2. PICK t : t = to_client
    OBVIOUS
  <2>3. t \in Seq(ClientMessage) /\ to_client' = Append(t, m)
    BY <2>1, <2>2 DEF TypesOK, BuffersOK
  <2>4. /\ Len(Append(t, m)) = Len(t) + 1 /\ Append(t, m)[Len(t) + 1] = m
        /\ \A i \in 1 .. Len(t) : Append(t, m)[i] = t[i]
        /\ \A i \in 1 .. Len(t) + 1 : i # Len(t) + 1 => i \in 1 .. Len(t)
    BY <2>3
  <2>5. ~Exits(t) /\ client' # "exited"
    BY <1>4, <2>2, NotToldYet DEF Told
  <2>6. ASSUME NEW i \in 1 .. Len(Append(t, m)) PROVE Append(t, m)[i].type # "Exited"
    BY <2>1, <2>4, <2>5 DEF Exits
  <2>7. QED
    BY <2>3, <2>5, <2>6 DEF ReportOK
<1>5. CASE /\ to_client' = to_client
           /\ client' = "exited" => client = "exited" /\ code' = code
  <2>1. ASSUME NEW i \in 1 .. Len(to_client), to_client[i].type = "Exited"
        PROVE  i = Len(to_client) /\ \E c : c = to_client[i].code /\ Final(c)'
    BY <2>1, FinalStays DEF ReportOK
  <2>2. client' = "exited" => to_client = <<>> /\ \E c : c = code' /\ Final(c)'
    BY <1>5, FinalStays DEF ReportOK
  <2>3. QED
    BY <1>5, <2>1, <2>2 DEF ReportOK, Final, Dropped
<1>6. QED
  BY <1>1, <1>2, <1>3, <1>4, <1>5, ReportSteps

-----------------------------------------------------------------------------
(* What messages bring.                                                    *)

\* What a message brings when one is added to the tunnel.
LEMMA ContentsAppend ==
  ASSUME NEW t \in Seq(Message), NEW m
  PROVE  Contents(Append(t, m)) = Append(Contents(t), Content(m))
<1>1. /\ Len(Append(t, m)) = Len(t) + 1 /\ Append(t, m)[Len(t) + 1] = m
      /\ \A i \in 1 .. Len(t) : Append(t, m)[i] = t[i]
      /\ Len(t) \in Nat
  OBVIOUS
<1> DEFINE o == Contents(t)
           u == Append(t, m)
           S == {Content(t[i]) : i \in 1 .. Len(t)} \cup {Content(m)}
           l == Len(t)
<1>2. o \in Seq(S) /\ Len(o) = l /\ \A i \in 1 .. l : o[i] = Content(t[i])
  BY <1>1 DEF Contents
<1>3. Contents(u) \in Seq(S) /\ Len(Contents(u)) = l + 1
      /\ \A i \in 1 .. l + 1 : Contents(u)[i] = Content(u[i])
  <2>1. ASSUME NEW i \in 1 .. l + 1 PROVE Content(u[i]) \in S
    <3>1. CASE i \in 1 .. l
      BY <1>1, <3>1
    <3>2. CASE i = l + 1
      BY <1>1, <3>2
    <3>3. QED
      BY <1>1, <3>1, <3>2
  <2>2. Contents(u) = [i \in 1 .. l + 1 |-> Content(u[i])]
    BY <1>1, Zenon DEF Contents
  <2> HIDE DEF u, S
  <2>3. QED
    BY <1>1, <2>1, <2>2
<1>4. Content(m) \in S
  OBVIOUS
<1>5. \A i \in 1 .. l + 1 : u[i] = IF i = l + 1 THEN m ELSE t[i]
  BY <1>1
<1> DEFINE v == Append(o, Content(m))
<1>6. v \in Seq(S) /\ Len(v) = l + 1 /\ v[l + 1] = Content(m)
      /\ \A i \in 1 .. l : v[i] = o[i]
  <2> HIDE DEF o, S, l
  <2>1. QED
    BY <1>2, <1>4
<1> HIDE DEF o, u, S, v
<1>7. ASSUME NEW i \in 1 .. l + 1 PROVE Contents(u)[i] = v[i]
  <2>1. CASE i = l + 1
    BY <1>3, <1>5, <1>6, <2>1
  <2>2. CASE i # l + 1
    <3>1. i \in 1 .. l
      BY <1>1, <2>2
    <3>2. QED
      BY <1>2, <1>3, <1>5, <1>6, <2>2, <3>1
  <2>3. QED
    BY <2>1, <2>2
<1> HIDE DEF l
<1>8. Contents(u) = v
  BY <1>3, <1>6, <1>7
<1>9. QED
  BY <1>8 DEF u, v, o

\* And when one is taken from it.
LEMMA ContentsTail ==
  ASSUME NEW t \in Seq(Message), t # <<>>
  PROVE  /\ Contents(t) # <<>> /\ Head(Contents(t)) = Content(Head(t))
         /\ Contents(Tail(t)) = Tail(Contents(t))
<1>1. /\ Len(t) \in Nat /\ Len(t) >= 1 /\ Len(Tail(t)) = Len(t) - 1 /\ Head(t) = t[1]
      /\ \A i \in 1 .. Len(t) - 1 : Tail(t)[i] = t[i + 1] /\ i + 1 \in 1 .. Len(t)
  OBVIOUS
<1> DEFINE o == Contents(t)
           S == {Content(t[i]) : i \in 1 .. Len(t)}
           l == Len(t)
<1>2. o \in Seq(S) /\ Len(o) = l /\ \A i \in 1 .. l : o[i] = Content(t[i])
  BY <1>1 DEF Contents
<1>3. Contents(Tail(t)) = [i \in 1 .. l - 1 |-> Content(t[i + 1])]
  BY <1>1 DEF Contents
<1> HIDE DEF S
<1>4. l \in Nat /\ l >= 1
  BY <1>1
<1> HIDE DEF o, l
<1>5. o # <<>> /\ Head(o) = o[1] /\ Tail(o) = [i \in 1 .. l - 1 |-> o[i + 1]]
  <2>1. o # <<>> /\ Head(o) = o[1]
    BY <1>2, <1>4
  <2> DEFINE v == [i \in 1 .. l - 1 |-> o[i + 1]]
  <2>2. /\ Tail(o) \in Seq(S) /\ Len(Tail(o)) = l - 1
        /\ \A i \in 1 .. l - 1 : Tail(o)[i] = o[i + 1]
    BY <1>2, <1>4, <2>1
  <2>3. \A i \in 1 .. l - 1 : v[i] = o[i + 1] /\ v[i] \in S
    BY <1>2, <1>4
  <2>4. v \in Seq(S) /\ Len(v) = l - 1
    BY <1>4, <2>3
  <2> HIDE DEF v
  <2>5. Tail(o) = v
    BY <1>4, <2>2, <2>3, <2>4
  <2>6. QED
    BY <2>1, <2>5 DEF v
<1>6. \A i \in 1 .. l - 1 : o[i + 1] = Content(t[i + 1])
  BY <1>2, <1>4
<1>7. o[1] = Content(t[1])
  BY <1>2, <1>4
<1>8. QED
  BY <1>1, <1>3, <1>5, <1>6, <1>7 DEF o

\* What the messages bring are sequences of numbers.
LEMMA ContentsType ==
  ASSUME NEW t \in Seq(Message)
  PROVE  Contents(t) \in Seq(Seq(Nat))
<1>1. ASSUME NEW m \in Message PROVE Content(m) \in Seq(Nat)
  <2>1. /\ m.type = "Stdout" => m.payload \in Seq(Nat)
        /\ m.type = "Stdin" => <<m.payload>> \in Seq(Nat)
    BY DEF Message, ClientMessage, ServerMessage
  <2>2. QED
    BY <2>1 DEF Content
<1>2. \A i \in 1 .. Len(t) : t[i] \in Message
  OBVIOUS
<1>3. \A i \in 1 .. Len(t) : Content(t[i]) \in Seq(Nat)
  BY <1>1, <1>2
<1>4. QED
  BY <1>3 DEF Contents

\* Chunks end where they start or later.
LEMMA StretchUp ==
  ASSUME NEW S, NEW ss \in Seq(S), NEW d, NEW n, Stretch(ss, d, n)
  PROVE  d \in Nat /\ n \in Nat /\ d <= n
  BY FlattenRuns, RunIs

-----------------------------------------------------------------------------
(* The output.                                                             *)

\* Nothing is lost that was lost before: a reader that has ended after the drop
\* stays so, and an exit is reported before it.
LEMMA WholeBefore ==
  ASSUME TypesOK, Next
  PROVE  Whole' => Whole
<1>1. Dropped /\ reader = "ended" => Dropped' /\ reader' = "ended"
  <2> SUFFICES ASSUME Dropped, reader = "ended" PROVE Dropped' /\ reader' = "ended"
    OBVIOUS
  <2> USE DEF Dropped, clientVars, serverVars, streamVars, programVars, readerVars,
              writerVars, ClientGoes, ServerGoes
  <2>1. CASE Client
    BY <2>1 DEF Client, SendKey, ReceiveAnswer, ClientFails, ReadStdin, ReceiveOutput
  <2>2. CASE Server
    BY <2>2 DEF Server, ReceiveKey, StartShell, NoRequest, ReadShell, ReadShellEnds,
                ReceiveStdin, WriteShell, ClientLeft, DropShell, DropLooks, DropLocks,
                DropKills, DropGoes, DropIsOver, Linger
  <2>3. CASE Reader
    BY <2>3 DEF Reader, ReaderReads, ReaderSends, ReaderEof, ReaderLocks, ReaderFails,
                ReaderExits
  <2>4. CASE Writer
    BY <2>4
    DEF Writer, WriterReceives, WriterWrites, WriterFails, WriterLocks, WriterExits,
        WriterEnds
  <2>5. CASE Program
    BY <2>5 DEF Program, ProgramReads, ProgramWrites, ProgramDetaches, ProgramExits
  <2>6. QED
    BY <2>1, <2>2, <2>3, <2>4, <2>5 DEF Next
<1>2. Told' => Told \/ ~Dropped
  <2>1. to_client \in Seq(ClientMessage)
    BY DEF TypesOK, BuffersOK
  <2>2. to_client # <<>> /\ to_client' = Tail(to_client) /\ Exits(to_client') => Exits(to_client)
    <3>1. PICK t : t = to_client
      OBVIOUS
    <3>2. SUFFICES ASSUME t # <<>>, Exits(Tail(t)) PROVE Exits(t)
      BY <3>1
    <3>3. \A i \in 1 .. Len(Tail(t)) : Tail(t)[i] = t[i + 1] /\ i + 1 \in 1 .. Len(t)
      BY <2>1, <3>1, <3>2
    <3>4. QED
      BY <3>2, <3>3 DEF Exits
  <2>3. CASE ReceiveOutput
    <3>1. to_client # <<>> /\ to_client' = Tail(to_client)
      BY <2>3 DEF ReceiveOutput
    <3>2. client' = "exited" => Head(to_client).type = "Exited"
      BY <2>3 DEF ReceiveOutput
    <3>3. 1 \in 1 .. Len(to_client) /\ Head(to_client) = to_client[1]
      BY <2>1, <3>1
    <3>4. QED
      BY <2>2, <3>1, <3>2, <3>3 DEF Told, Exits
  <2>4. CASE ReadShellEnds
    BY <2>4 DEF ReadShellEnds, Dropped
  <2>5. CASE client' # "exited" /\ to_client # <<>> /\ to_client' = Tail(to_client)
    BY <2>2, <2>5 DEF Told
  <2>6. CASE ~Dropped
    BY <2>6
  <2>7. CASE /\ to_client' = to_client
             /\ client' = "exited" => client = "exited" /\ code' = code
    BY <2>7 DEF Told
  <2>8. QED
    BY <2>3, <2>4, <2>5, <2>6, <2>7, ReportSteps
<1>3. QED
  BY <1>1, <1>2 DEF Whole

\* A step that moves no output keeps its order.
LEMMA OutputFrame ==
  ASSUME TypesOK, OutputOK, Next,
         UNCHANGED <<shown, to_client, recv_buff, reader_rx, reader_chunk, pty_out, output>>,
         client' # "failed" => client # "failed",
         reader' # "sending" => reader # "sending"
  PROVE  OutputOK'
<1>1. PICK a, b, c, d, e \in Nat : OutputAt(a, b, c, d, e)
  BY DEF OutputOK
<1>2. OutputAt(a, b, c, d, e)'
  BY <1>1, WholeBefore DEF OutputAt
<1>3. QED
  BY <1>2 DEF OutputOK

\* Nor does a message that brings none.
LEMMA OutputTold ==
  ASSUME TypesOK, OutputOK, Next,
         UNCHANGED <<shown, recv_buff, reader_rx, reader_chunk, pty_out, output>>,
         NEW m, Content(m) = <<>>, to_client' = Append(to_client, m),
         client' # "failed" => client # "failed",
         reader' # "sending" => reader_chunk = <<>>
  PROVE  OutputOK'
<1>1. PICK a, b, c, d, e \in Nat : OutputAt(a, b, c, d, e)
  BY DEF OutputOK
<1>2. PICK t : t = to_client
  OBVIOUS
<1>3. t \in Seq(Message) /\ to_client' = Append(t, m)
  BY <1>2 DEF TypesOK, BuffersOK, Message
<1>4. Stretch(Append(Contents(t), <<>>), a, b)
  <2>1. Contents(t) \in Seq(Seq(Nat)) /\ <<>> \in Seq(Nat)
    BY <1>3, ContentsType
  <2>2. Run(<<>>, b, b)
    BY RunNone
  <2>3. Stretch(Contents(t), a, b)
    BY <1>1, <1>2 DEF OutputAt
  <2>4. QED
    BY <2>1, <2>2, <2>3, StretchAppend
<1>5. Contents(Append(t, m)) = Append(Contents(t), <<>>)
  BY <1>3, ContentsAppend
<1>6. OutputAt(a, b, c, d, e)'
  BY <1>1, <1>3, <1>4, <1>5, WholeBefore DEF OutputAt
<1>7. QED
  BY <1>6 DEF OutputOK

\* A message is taken from the tunnel.
LEMMA OutputTaken ==
  ASSUME TypesOK, OutputOK, Next, to_client # <<>>,
         to_client' = Tail(to_client),
         UNCHANGED <<recv_buff, reader, reader_rx, reader_chunk, pty_out, output>>,
         \/ client' = "failed" /\ shown' = shown
         \/ /\ client # "failed" /\ client' # "failed"
            /\ shown' = shown \o Content(Head(to_client))
  PROVE  OutputOK'
<1>1. PICK a, b, c, d, e \in Nat : OutputAt(a, b, c, d, e)
  BY DEF OutputOK
<1>2. PICK t : t = to_client
  OBVIOUS
<1>3. t \in Seq(Message) /\ t # <<>> /\ to_client' = Tail(t)
  BY <1>2 DEF TypesOK, BuffersOK, Message
<1>4. PICK m \in Nat : Run(Content(Head(t)), a, m) /\ Stretch(Contents(Tail(t)), m, b)
  <2>1. /\ Contents(t) \in Seq(Seq(Nat)) /\ Contents(t) # <<>>
        /\ Head(Contents(t)) = Content(Head(t))
        /\ Contents(Tail(t)) = Tail(Contents(t))
    BY <1>3, ContentsType, ContentsTail
  <2>2. Stretch(Contents(t), a, b)
    BY <1>1, <1>2 DEF OutputAt
  <2>3. QED
    BY <2>1, <2>2, StretchTail
<1>5. m <= output
  <2>1. Tail(t) \in Seq(Message)
    BY <1>3
  <2>2. Contents(Tail(t)) \in Seq(Seq(Nat))
    BY <2>1, ContentsType
  <2>3. m <= b
    BY <1>4, <2>2, StretchUp
  <2>4. b <= c
    BY <1>1, RunIs DEF OutputAt
  <2>5. c <= d /\ d <= output /\ output \in Nat
    <3>1. reader_rx \in Seq(Seq(Nat)) /\ Stretch(reader_rx, c, d)
      BY <1>1 DEF TypesOK, BuffersOK, OutputAt
    <3>2. output \in Nat
      BY Sizes DEF TypesOK, TypeOK
    <3>3. QED
      BY <1>1, <3>1, <3>2, StretchUp DEF OutputAt
  <2>6. QED
    BY <2>3, <2>4, <2>5
<1>6. client' # "failed" => Run(shown, 0, m)'
  <2>1. SUFFICES ASSUME client' # "failed" PROVE Run(shown, 0, m)'
    OBVIOUS
  <2>2. client # "failed" /\ shown' = shown \o Content(Head(t))
    BY <1>2, <2>1
  <2>3. Run(shown, 0, a)
    BY <1>1, <2>2 DEF OutputAt
  <2>4. Run(shown \o Content(Head(t)), 0, m)
    BY <1>4, <2>3, RunConcat
  <2>5. QED
    BY <2>2, <2>4
<1>7. OutputAt(m, b, c, d, e)'
  BY <1>1, <1>3, <1>4, <1>6, WholeBefore DEF OutputAt
<1>8. \E x \in Nat : (x <= output /\ Run(shown, 0, x))'
  BY <1>5, <1>6 DEF OutputOK
<1>9. QED
  BY <1>7, <1>8 DEF OutputOK

\* Output read from the terminal's channel goes to the tunnel.
LEMMA OutputRead ==
  ASSUME TypesOK, OutputOK, ReadShell
  PROVE  OutputOK'
<1>1. PICK a, b, c, d, e \in Nat : OutputAt(a, b, c, d, e)
  BY DEF OutputOK
<1>2. PICK all : all = recv_buff \o FlattenSeq(reader_rx)
  OBVIOUS
<1>3. PICK t : t = to_client
  OBVIOUS
<1> DEFINE n == IF Len(all) < ReadSize THEN Len(all) ELSE ReadSize
           m == [type |-> "Stdout", payload |-> SubSeq(all, 1, n)]
<1>4. /\ reader_rx' = <<>> /\ recv_buff' = SubSeq(all, n + 1, Len(all))
      /\ to_client' = Append(t, m)
      /\ UNCHANGED <<server, client, shown, reader, reader_chunk, pty_out, output>>
  BY <1>2, <1>3 DEF ReadShell, ToClient, clientVars, programVars
<1>5. n \in 0 .. Len(all)
  <2>1. Len(all) \in Nat
    <3>1. Run(all, b, d)
      BY <1>1, <1>2, FlattenRuns, RunConcat DEF OutputAt, TypesOK, BuffersOK
    <3>2. QED
      BY <3>1 DEF Run
  <2>2. QED
    BY <2>1, Sizes
<1>6. Content(m) = SubSeq(all, 1, n)
  BY DEF Content
<1> HIDE DEF n, m
<1>7. Run(all, b, d)
  BY <1>1, <1>2, FlattenRuns, RunConcat DEF OutputAt, TypesOK, BuffersOK
<1>8. /\ Run(SubSeq(all, 1, n), b, b + n) /\ Run(SubSeq(all, n + 1, Len(all)), b + n, d)
      /\ b + n \in Nat
  BY <1>5, <1>7, RunSplit
<1>9. t \in Seq(Message)
  BY <1>3 DEF TypesOK, BuffersOK, Message
<1>10. Stretch(Contents(to_client'), a, b + n)
  <2>1. Contents(t) \in Seq(Seq(Nat)) /\ SubSeq(all, 1, n) \in Seq(Nat)
    BY <1>8, <1>9, ContentsType DEF Run
  <2>2. Stretch(Contents(t), a, b)
    BY <1>1, <1>3 DEF OutputAt
  <2>3. Stretch(Append(Contents(t), SubSeq(all, 1, n)), a, b + n)
    BY <1>8, <2>1, <2>2, StretchAppend
  <2>4. QED
    BY <1>4, <1>6, <1>9, <2>3, ContentsAppend
<1>11. Whole' => Whole
  BY <1>4, WholeBefore DEF Next, Server
<1>12. OutputAt(a, b + n, d, d, e)'
  <2>1. Stretch(<<>>, d, d)
    BY StretchNone
  <2>2. QED
    BY <1>1, <1>4, <1>8, <1>10, <1>11, <2>1 DEF OutputAt
<1>13. QED
  BY <1>4, <1>8, <1>12 DEF OutputOK

\* The reader takes a chunk from the terminal.
LEMMA OutputChunk ==
  ASSUME TypesOK, OutputOK, ReaderReads
  PROVE  OutputOK'
<1>1. PICK a, b, c, d, e \in Nat : OutputAt(a, b, c, d, e)
  BY DEF OutputOK
<1>2. PICK all : all = pty_out
  OBVIOUS
<1> DEFINE n == IF Len(all) < ReadSize THEN Len(all) ELSE ReadSize
<1>3. /\ reader = "reading" /\ reader' = "sending" /\ reader_chunk = <<>>
      /\ reader_chunk' = SubSeq(all, 1, n) /\ pty_out' = SubSeq(all, n + 1, Len(all))
      /\ UNCHANGED <<client, shown, to_client, recv_buff, reader_rx, output>>
  BY <1>2 DEF ReaderReads, OutputOK, clientVars, serverVars, streamVars
<1>4. all \in Seq(Nat) /\ Len(all) \in Nat
  BY <1>2 DEF TypesOK, BuffersOK
<1>5. n \in 0 .. Len(all)
  BY <1>4, Sizes
<1> HIDE DEF n
<1>6. Run(all, d, output)
  <2>1. Run(<<>>, d, e) /\ Run(all, e, output)
    BY <1>1, <1>2, <1>3 DEF OutputAt, Whole
  <2>2. d = e
    BY <2>1, RunIs
  <2>3. QED
    BY <2>1, <2>2
<1>7. /\ Run(SubSeq(all, 1, n), d, d + n) /\ Run(SubSeq(all, n + 1, Len(all)), d + n, output)
      /\ d + n \in Nat
  BY <1>5, <1>6, RunSplit
<1>8. OutputAt(a, b, c, d, d + n)'
  BY <1>1, <1>3, <1>7 DEF OutputAt
<1>9. QED
  BY <1>3, <1>7, <1>8 DEF OutputOK

\* It sends the chunk, or loses it when the shell has been dropped.
LEMMA OutputSent ==
  ASSUME TypesOK, OutputOK, ReportOK, ReaderSends
  PROVE  OutputOK'
<1>1. PICK a, b, c, d, e \in Nat : OutputAt(a, b, c, d, e)
  BY DEF OutputOK
<1>2. /\ reader = "sending" /\ reader_chunk' = <<>>
      /\ UNCHANGED <<server, client, shown, to_client, recv_buff, pty_out, output>>
  BY DEF ReaderSends, clientVars, serverVars, streamVars, programVars
<1>3. ~Told /\ ~Told'
  BY <1>2 DEF ReportOK, Told, Exits, Final
<1>4. CASE ~Dropped /\ reader_rx' = Append(reader_rx, reader_chunk) /\ reader' = "reading"
  <2>1. Run(reader_chunk, d, e) /\ Run(pty_out, e, output)
    BY <1>1, <1>4 DEF OutputAt, Whole
  <2>2. Stretch(Append(reader_rx, reader_chunk), c, e)
    BY <1>1, <2>1, StretchAppend DEF OutputAt, TypesOK, BuffersOK
  <2>3. Run(<<>>, e, e) /\ e <= output
    BY <2>1, RunNone, RunIs
  <2>4. OutputAt(a, b, c, e, e)'
    BY <1>1, <1>2, <1>4, <2>1, <2>2, <2>3 DEF OutputAt
  <2>5. QED
    BY <1>2, <2>4 DEF OutputOK
<1>5. CASE Dropped /\ reader' = "ended" /\ reader_rx' = reader_rx
  <2>1. ~Whole'
    BY <1>2, <1>3, <1>5 DEF Whole, Dropped
  <2>2. OutputAt(a, b, c, d, e)'
    BY <1>1, <1>2, <1>5, <2>1 DEF OutputAt
  <2>3. QED
    BY <1>2, <2>2 DEF OutputOK
<1>6. QED
  BY <1>4, <1>5 DEF ReaderSends

\* The program writes one more byte.
LEMMA OutputWritten ==
  ASSUME TypesOK, OutputOK, ProgramWrites
  PROVE  OutputOK'
<1>1. PICK a, b, c, d, e \in Nat : OutputAt(a, b, c, d, e)
  BY DEF OutputOK
<1>2. PICK n : n = output
  OBVIOUS
<1>3. /\ n \in Nat /\ n + 1 \in Nat /\ output' = n + 1 /\ pty_out' = Append(pty_out, n + 1)
      /\ UNCHANGED <<server, client, shown, to_client, recv_buff, reader, reader_rx, reader_chunk>>
  BY <1>2, Sizes
  DEF ProgramWrites, TypesOK, TypeOK, clientVars, serverVars, streamVars, readerVars
<1>4. Whole' => Whole
  BY WholeBefore DEF Next, Program
<1>5. Whole => Run(pty_out', e, n + 1)
  BY <1>1, <1>2, <1>3, RunAppend DEF OutputAt
<1>6. d <= n + 1
  BY <1>1, <1>2, <1>3 DEF OutputAt
<1>7. OutputAt(a, b, c, d, e)'
  BY <1>1, <1>3, <1>4, <1>5, <1>6 DEF OutputAt
<1>8. PICK x \in Nat : x <= n /\ Run(shown, 0, x)
  BY <1>2 DEF OutputOK
<1>9. x <= n + 1
  BY <1>3, <1>8
<1>10. QED
  BY <1>3, <1>7, <1>8, <1>9 DEF OutputOK

\* Whatever happens, the output stays in order.
LEMMA OutputStep ==
  ASSUME TypesOK, StartOK, OutputOK, ReportOK, Next
  PROVE  OutputOK'
<1> DEFINE Same == /\ UNCHANGED <<shown, to_client, recv_buff, reader_rx, reader_chunk,
                                  pty_out, output>>
                   /\ client' # "failed" => client # "failed"
                   /\ reader' # "sending" => reader # "sending"
<1>1. Same => OutputOK'
  BY OutputFrame
<1> HIDE DEF Same
<1>2. CASE Client
  <2>1. CASE ReceiveAnswer
    <3>1. /\ to_client # <<>> /\ to_client' = Tail(to_client)
          /\ UNCHANGED <<recv_buff, reader, reader_rx, reader_chunk, pty_out, output, shown>>
          /\ client # "failed"
          /\ client' # "failed" => Head(to_client).type \in {"KeyAccepted", "ShellStarted"}
      BY <2>1 DEF ReceiveAnswer, ClientGoes, serverVars, readerVars, programVars
    <3>2. client' # "failed" => shown' = shown \o Content(Head(to_client))
      <4>1. SUFFICES ASSUME client' # "failed" PROVE shown' = shown \o Content(Head(to_client))
        OBVIOUS
      <4>2. Content(Head(to_client)) = <<>>
        BY <3>1, <4>1 DEF Content
      <4>3. shown \in Seq(Nat)
        BY DEF OutputOK, Run
      <4>4. QED
        BY <3>1, <4>2, <4>3
    <3>3. QED
      BY <3>1, <3>2, OutputTaken
  <2>2. CASE ReceiveOutput
    <3>1. /\ to_client # <<>> /\ to_client' = Tail(to_client)
          /\ UNCHANGED <<recv_buff, reader, reader_rx, reader_chunk, pty_out, output>>
          /\ client # "failed" /\ client' # "failed"
      BY <2>2 DEF ReceiveOutput, serverVars, readerVars, programVars
    <3>2. CASE Head(to_client).type = "Stdout"
      BY <2>2, <3>1, <3>2, OutputTaken DEF ReceiveOutput, Content
    <3>3. CASE Head(to_client).type = "Exited"
      <4>1. Content(Head(to_client)) = <<>> /\ shown' = shown
        BY <2>2, <3>3 DEF ReceiveOutput, Content
      <4>2. shown \in Seq(Nat)
        BY DEF OutputOK, Run
      <4>3. shown' = shown \o Content(Head(to_client))
        BY <4>1, <4>2
      <4>4. QED
        BY <3>1, <4>3, OutputTaken
    <3>4. QED
      BY <2>2, <3>2, <3>3 DEF ReceiveOutput
  <2>3. CASE SendKey \/ ClientFails \/ ReadStdin
    <3>1. Same
      BY <2>3
      DEF Same, SendKey, ClientFails, ReadStdin, ClientGoes, serverVars,
          streamVars,
                  programVars, readerVars
    <3>2. QED
      BY <1>1, <3>1
  <2>4. QED
    BY <1>2, <2>1, <2>2, <2>3 DEF Client
<1>3. CASE Server
  <2>1. CASE ReceiveKey
    <3>1. PICK type \in {"KeyAccepted", "KeyRejected"} : to_client' = Append(to_client, [type |-> type])
      BY <2>1 DEF ReceiveKey, ToClient
    <3>2. PICK m : m = [type |-> type]
      OBVIOUS
    <3>3. /\ UNCHANGED <<client, shown, recv_buff, reader, reader_rx, reader_chunk, pty_out, output>>
      BY <2>1 DEF ReceiveKey, ServerGoes, clientVars, readerVars, programVars
    <3>4. Content(m) = <<>>
      BY <3>2 DEF Content
    <3>5. reader' # "sending" => reader_chunk = <<>>
      BY <3>3 DEF OutputOK
    <3>6. QED
      BY <3>1, <3>2, <3>3, <3>4, <3>5, OutputTold
  <2>2. CASE StartShell
    <3>1. PICK m : m = [type |-> "ShellStarted"]
      OBVIOUS
    <3>2. /\ UNCHANGED <<client, shown, recv_buff, reader_rx, reader_chunk, pty_out, output>>
          /\ to_client' = Append(to_client, m) /\ reader = "none"
      BY <2>2, <3>1 DEF StartShell, ToClient, ServerGoes, StartOK, Opening, clientVars
    <3>3. Content(m) = <<>>
      BY <3>1 DEF Content
    <3>4. reader_chunk = <<>>
      BY <3>2 DEF OutputOK
    <3>5. QED
      BY <3>2, <3>3, <3>4, OutputTold
  <2>3. CASE ReadShell
    BY <2>3, OutputRead
  <2>4. CASE ReadShellEnds
    <3>1. UNCHANGED <<client, shown, recv_buff, reader, reader_rx, reader_chunk, pty_out, output>>
      BY <2>4 DEF ReadShellEnds, ServerGoes, clientVars, readerVars, programVars
    <3>2. CASE to_client' = to_client
      BY <1>1, <3>1, <3>2 DEF Same
    <3>3. CASE to_client' # to_client
      <4>1. PICK m : m = [type |-> "Exited", code |-> exit_status]
        OBVIOUS
      <4>2. to_client' = Append(to_client, m)
        BY <2>4, <3>3, <4>1 DEF ReadShellEnds, ToClient
      <4>3. Content(m) = <<>>
        BY <4>1 DEF Content
      <4>4. reader' # "sending" => reader_chunk = <<>>
        BY <3>1 DEF OutputOK
      <4>5. QED
        BY <3>1, <4>2, <4>3, <4>4, OutputTold
    <3>4. QED
      BY <3>2, <3>3
  <2>5. CASE NoRequest \/ ReceiveStdin \/ WriteShell
    <3>1. Same
      BY <2>5 DEF Same, NoRequest, ReceiveStdin, WriteShell, ServerGoes, clientVars,
                  streamVars, programVars, readerVars
    <3>2. QED
      BY <1>1, <3>1
  <2>6. CASE ClientLeft \/ DropShell \/ Linger
    <3>1. Same
      BY <2>6
      DEF Same, ClientLeft, DropShell, DropLooks, DropLocks, DropKills, DropGoes,
          DropIsOver, Linger, ServerGoes, clientVars, streamVars, programVars,
          readerVars
    <3>2. QED
      BY <1>1, <3>1
  <2>7. QED
    BY <1>3, <2>1, <2>2, <2>3, <2>4, <2>5, <2>6 DEF Server
<1>4. CASE Reader
  <2>1. CASE ReaderEof \/ ReaderLocks \/ ReaderFails \/ ReaderExits
    <3>1. Same
      BY <2>1
      DEF Same, ReaderEof, ReaderLocks, ReaderFails, ReaderExits, clientVars,
          serverVars, streamVars, programVars
    <3>2. QED
      BY <1>1, <3>1
  <2>2. QED
    BY <1>4, <2>1, OutputChunk, OutputSent DEF Reader
<1>5. CASE Writer
  <2>1. Same
    BY <1>5
    DEF Same, Writer, WriterReceives, WriterWrites, WriterFails, WriterLocks,
        WriterExits, WriterEnds, clientVars, serverVars, streamVars, programVars,
        readerVars
  <2>2. QED
    BY <1>1, <2>1
<1>6. CASE Program
  <2>1. CASE ProgramReads \/ ProgramDetaches \/ ProgramExits
    <3>1. Same
      BY <2>1
      DEF Same, ProgramReads, ProgramDetaches, ProgramExits, clientVars,
          serverVars,
                  streamVars, readerVars
    <3>2. QED
      BY <1>1, <3>1
  <2>2. QED
    BY <1>6, <2>1, OutputWritten DEF Program
<1>7. QED
  BY <1>2, <1>3, <1>4, <1>5, <1>6 DEF Next

-----------------------------------------------------------------------------
(* The input.                                                              *)

\* What the steps that move no input leave as it is.
InputSame ==
  /\ UNCHANGED <<typed, taken, pty_in, writer_data, writer_rx, stdin>>
  /\ Feeding' => Feeding /\ (writer' = "writing" <=> writer = "writing")
  /\ Accepting' => Accepting /\ (server' = "writing" <=> server = "writing")

\* The input stays in order when none is moved.
LEMMA InputFrame ==
  ASSUME InputOK, InputSame, to_server' = to_server
  PROVE  InputOK'
<1>1. PICK a, b, c, d, e \in Nat : InputAt(a, b, c, d, e)
  BY DEF InputOK
<1>2. InputAt(a, b, c, d, e)'
  BY <1>1, Zenon DEF InputAt, InputSame, Held
<1>3. QED
  BY <1>2 DEF InputOK

\* A message that brings no input is sent.
LEMMA InputTold ==
  ASSUME TypesOK, InputOK, InputSame,
         NEW m, Content(m) = <<>>, to_server' = Append(to_server, m)
  PROVE  InputOK'
<1>1. PICK a, b, c, d, e \in Nat : InputAt(a, b, c, d, e)
  BY DEF InputOK
<1>2. PICK t : t = to_server
  OBVIOUS
<1>3. t \in Seq(Message) /\ to_server' = Append(t, m)
  BY <1>2 DEF TypesOK, BuffersOK, Message
<1>4. Stretch(Contents(t), e, typed) => Stretch(Contents(Append(t, m)), e, typed)
  <2>1. SUFFICES ASSUME Stretch(Contents(t), e, typed)
                 PROVE  Stretch(Contents(Append(t, m)), e, typed)
    OBVIOUS
  <2>2. Contents(t) \in Seq(Seq(Nat)) /\ <<>> \in Seq(Nat)
    BY <1>3, ContentsType
  <2>3. Run(<<>>, typed, typed)
    BY <2>1, RunNone DEF Stretch
  <2>4. Stretch(Append(Contents(t), <<>>), e, typed)
    BY <2>1, <2>2, <2>3, StretchAppend
  <2>5. QED
    BY <1>3, <2>4, ContentsAppend
<1>5. InputAt(a, b, c, d, e)'
  BY <1>1, <1>2, <1>3, <1>4, Zenon DEF InputAt, InputSame, Held
<1>6. QED
  BY <1>5 DEF InputOK

\* What the first message brings, and what those after it do.
LEMMA InputHead ==
  ASSUME TypesOK, to_server # <<>>, NEW e, Stretch(Contents(to_server), e, typed)
  PROVE  \E m \in Nat : /\ Run(Content(Head(to_server)), e, m)
                        /\ Stretch(Contents(Tail(to_server)), m, typed) /\ m <= typed
<1>1. PICK t : t = to_server
  OBVIOUS
<1>2. t \in Seq(Message) /\ t # <<>> /\ Tail(t) \in Seq(Message)
  BY <1>1 DEF TypesOK, BuffersOK, Message
<1>3. /\ Contents(t) \in Seq(Seq(Nat)) /\ Contents(t) # <<>>
      /\ Head(Contents(t)) = Content(Head(t)) /\ Contents(Tail(t)) = Tail(Contents(t))
      /\ Contents(Tail(t)) \in Seq(Seq(Nat))
  BY <1>2, ContentsType, ContentsTail
<1>4. Stretch(Contents(t), e, typed)
  BY <1>1
<1>5. PICK m \in Nat : Run(Content(Head(t)), e, m) /\ Stretch(Contents(Tail(t)), m, typed)
  BY <1>3, <1>4, StretchTail
<1>6. m <= typed
  BY <1>3, <1>5, StretchUp
<1>7. QED
  BY <1>1, <1>5, <1>6

\* A message that brings no input is received.
LEMMA InputHeard ==
  ASSUME TypesOK, InputOK, InputSame, to_server # <<>>,
         Content(Head(to_server)) = <<>>, to_server' = Tail(to_server)
  PROVE  InputOK'
<1>1. PICK a, b, c, d, e \in Nat : InputAt(a, b, c, d, e)
  BY DEF InputOK
<1>2. Stretch(Contents(to_server), e, typed) => Stretch(Contents(to_server'), e, typed)
  <2>1. SUFFICES ASSUME Stretch(Contents(to_server), e, typed)
                 PROVE  Stretch(Contents(Tail(to_server)), e, typed)
    OBVIOUS
  <2>2. PICK m \in Nat : Run(<<>>, e, m) /\ Stretch(Contents(Tail(to_server)), m, typed)
    BY <2>1, InputHead
  <2>3. m = e
    BY <2>2, RunIs
  <2>4. QED
    BY <2>2, <2>3
<1>3. InputAt(a, b, c, d, e)'
  BY <1>1, <1>2, Zenon DEF InputAt, InputSame, Held
<1>4. QED
  BY <1>3 DEF InputOK

\* The user types one more payload.
LEMMA InputTyped ==
  ASSUME TypesOK, InputOK, ReadStdin
  PROVE  InputOK'
<1>1. PICK a, b, c, d, e \in Nat : InputAt(a, b, c, d, e)
  BY DEF InputOK
<1>2. PICK n : n = typed
  OBVIOUS
<1>3. PICK m : m = [type |-> "Stdin", payload |-> n + 1]
  OBVIOUS
<1>4. PICK t : t = to_server
  OBVIOUS
<1>5. /\ typed' = n + 1 /\ n \in Nat /\ n + 1 \in Nat
      /\ to_server' = Append(t, m)
      /\ UNCHANGED <<taken, pty_in, writer, writer_data, writer_rx, server, stdin>>
  BY <1>2, <1>3, <1>4, Sizes
  DEF ReadStdin, ToServer, serverVars, programVars, writerVars, TypesOK, TypeOK
<1>6. t \in Seq(Message) /\ Content(m) = <<n + 1>>
  BY <1>3, <1>4 DEF TypesOK, BuffersOK, Message, Content
<1>7. Stretch(Contents(t), e, n) => Stretch(Contents(Append(t, m)), e, n + 1)
  <2>1. SUFFICES ASSUME Stretch(Contents(t), e, n)
                 PROVE  Stretch(Contents(Append(t, m)), e, n + 1)
    OBVIOUS
  <2>2. Contents(t) \in Seq(Seq(Nat)) /\ <<n + 1>> \in Seq(Nat)
    BY <1>5, <1>6, ContentsType
  <2>3. Run(<<n + 1>>, n, n + 1)
    BY <1>5 DEF Run
  <2>4. Stretch(Append(Contents(t), <<n + 1>>), e, n + 1)
    BY <2>1, <2>2, <2>3, StretchAppend
  <2>5. QED
    BY <1>6, <2>4, ContentsAppend
<1>8. /\ b <= n => b <= n + 1
      /\ d <= n => d <= n + 1
  BY <1>5
<1>9. InputAt(a, b, c, d, e)'
  BY <1>1, <1>2, <1>4, <1>5, <1>7, <1>8, Zenon
  DEF InputAt, Held, Feeding, Accepting, Opening
<1>10. QED
  BY <1>9 DEF InputOK

\* The loop takes a payload from the tunnel.
LEMMA InputReceived ==
  ASSUME TypesOK, InputOK, ReceiveStdin
  PROVE  InputOK'
<1>1. PICK a, b, c, d, e \in Nat : InputAt(a, b, c, d, e)
  BY DEF InputOK
<1>2. /\ server = "streaming" /\ server' = "writing"
      /\ to_server # <<>> /\ to_server' = Tail(to_server)
      /\ Head(to_server).type = "Stdin" /\ stdin' = Head(to_server).payload
      /\ UNCHANGED <<typed, taken, pty_in, writer, writer_data, writer_rx>>
  BY DEF ReceiveStdin, clientVars, programVars, writerVars
<1>3. CASE Feeding
  <2>1. e = d /\ Stretch(Contents(to_server), e, typed)
    BY <1>1, <1>2, <1>3 DEF InputAt, Accepting, Held
  <2>2. PICK m \in Nat : /\ Run(Content(Head(to_server)), e, m)
                         /\ Stretch(Contents(Tail(to_server)), m, typed)
    BY <1>2, <2>1, InputHead
  <2>3. Content(Head(to_server)) = <<stdin'>>
    BY <1>2 DEF Content
  <2>4. stdin' = m /\ m = d + 1
    <3>1. Run(<<stdin'>>, d, m)
      BY <2>1, <2>2, <2>3
    <3>2. PICK x : x = stdin'
      OBVIOUS
    <3>3. Len(<<x>>) = 1 /\ <<x>>[1] = x
      OBVIOUS
    <3>4. x = m /\ m = d + 1
      BY <3>1, <3>2, <3>3 DEF Run
    <3>5. QED
      BY <3>2, <3>4
  <2>5. InputAt(a, b, c, d, m)'
    BY <1>1, <1>2, <1>3, <2>2, <2>4 DEF InputAt, Held, Feeding, Accepting, Opening
  <2>6. QED
    BY <2>5 DEF InputOK
<1>4. CASE ~Feeding
  <2>1. InputAt(a, b, c, d, e)'
    BY <1>1, <1>2, <1>4 DEF InputAt, Feeding
  <2>2. QED
    BY <2>1 DEF InputOK
<1>5. QED
  BY <1>3, <1>4

\* The loop puts it into the writer's channel, or drops it and ends.
LEMMA InputPassed ==
  ASSUME TypesOK, InputOK, WriteShell
  PROVE  InputOK'
<1>1. PICK a, b, c, d, e \in Nat : InputAt(a, b, c, d, e)
  BY DEF InputOK
<1>2. /\ server = "writing"
      /\ UNCHANGED <<typed, taken, pty_in, writer, writer_data, stdin, to_server>>
  BY DEF WriteShell, ServerGoes, clientVars, streamVars, programVars
<1>3. CASE ~Feeding
  <2>1. InputAt(a, b, c, d, e)'
    BY <1>1, <1>2, <1>3 DEF InputAt, Feeding
  <2>2. QED
    BY <2>1 DEF InputOK
<1>4. CASE Feeding /\ server' = "failing" /\ writer_rx' = writer_rx
  <2>1. InputAt(a, b, c, d, e)'
    BY <1>1, <1>2, <1>4 DEF InputAt, Feeding, Accepting, Opening, Held
  <2>2. QED
    BY <2>1 DEF InputOK
<1>5. CASE Feeding /\ server' = "streaming" /\ writer_rx' = Append(writer_rx, stdin)
  <2>1. /\ stdin = d + 1 /\ e = d + 1 /\ Stretch(Contents(to_server), e, typed)
        /\ Run(writer_rx, c, d)
    BY <1>1, <1>2, <1>5 DEF InputAt, Accepting, Held
  <2>2. Run(writer_rx', c, e)
    BY <1>5, <2>1, RunAppend
  <2>3. e <= typed
    <3>1. to_server \in Seq(Message)
      BY DEF TypesOK, BuffersOK, Message
    <3>2. QED
      BY <2>1, <3>1, ContentsType, StretchUp
  <2>4. InputAt(a, b, c, e, e)'
    BY <1>1, <1>2, <1>5, <2>1, <2>2, <2>3 DEF InputAt, Held, Feeding, Accepting
  <2>5. QED
    BY <2>4 DEF InputOK
<1>6. QED
  BY <1>3, <1>4, <1>5 DEF WriteShell, ServerGoes

\* The writer takes a payload from its channel.
LEMMA InputTaken ==
  ASSUME InputOK, WriterReceives
  PROVE  InputOK'
<1>1. PICK a, b, c, d, e \in Nat : InputAt(a, b, c, d, e)
  BY DEF InputOK
<1>2. /\ writer = "receiving" /\ writer' = "writing" /\ writer_rx # <<>>
      /\ writer_data' = Head(writer_rx) /\ writer_rx' = Tail(writer_rx)
      /\ UNCHANGED <<typed, taken, pty_in, server, stdin, to_server>>
  BY DEF WriterReceives, clientVars, streamVars, programVars, serverVars
<1>3. c = b /\ Run(writer_rx, c, d)
  BY <1>1, <1>2 DEF InputAt, Feeding, Held
<1>4. Head(writer_rx) = c + 1 /\ Run(Tail(writer_rx), c + 1, d)
  BY <1>2, <1>3, RunTail
<1>5. InputAt(a, b, c + 1, d, e)'
  BY <1>1, <1>2, <1>3, <1>4 DEF InputAt, Held, Feeding, Accepting, Opening
<1>6. c + 1 \in Nat
  OBVIOUS
<1>7. QED
  BY <1>5, <1>6 DEF InputOK

\* The writer writes it to the terminal.
LEMMA InputWritten ==
  ASSUME TypesOK, InputOK, WriterWrites
  PROVE  InputOK'
<1>1. PICK a, b, c, d, e \in Nat : InputAt(a, b, c, d, e)
  BY DEF InputOK
<1>2. /\ writer = "writing" /\ writer' = "receiving"
      /\ pty_in' = Append(pty_in, writer_data)
      /\ UNCHANGED <<typed, taken, writer_data, writer_rx, server, stdin, to_server>>
  BY DEF WriterWrites, clientVars, streamVars, serverVars
<1>3. writer_data = b + 1 /\ c = b + 1 /\ Run(writer_rx, c, d) /\ d <= typed /\ Run(pty_in, a, b)
  BY <1>1, <1>2 DEF InputAt, Feeding, Held
<1>4. Run(pty_in', a, c)
  BY <1>2, <1>3, RunAppend
<1>5. c <= typed
  <2>1. c <= d /\ typed \in Nat
    BY <1>3, RunIs, Sizes DEF TypesOK, TypeOK
  <2>2. QED
    BY <1>3, <2>1
<1>6. InputAt(a, c, c, d, e)'
  BY <1>1, <1>2, <1>3, <1>4, <1>5 DEF InputAt, Held, Feeding, Accepting, Opening
<1>7. QED
  BY <1>6 DEF InputOK

\* The program reads it.
LEMMA InputRead ==
  ASSUME InputOK, ProgramReads
  PROVE  InputOK'
<1>1. PICK a, b, c, d, e \in Nat : InputAt(a, b, c, d, e)
  BY DEF InputOK
<1>2. /\ pty_in # <<>> /\ taken' = Append(taken, Head(pty_in)) /\ pty_in' = Tail(pty_in)
      /\ UNCHANGED <<typed, writer, writer_data, writer_rx, server, stdin, to_server>>
  BY DEF ProgramReads, clientVars, streamVars, serverVars, writerVars
<1>3. Run(taken, 0, a) /\ Run(pty_in, a, b)
  BY <1>1 DEF InputAt
<1>4. Run(taken', 0, a + 1) /\ Run(pty_in', a + 1, b)
  BY <1>2, <1>3, RunTail, RunAppend
<1>5. InputAt(a + 1, b, c, d, e)'
  BY <1>1, <1>2, <1>4 DEF InputAt, Held, Feeding, Accepting, Opening
<1>6. a + 1 \in Nat
  OBVIOUS
<1>7. QED
  BY <1>5, <1>6 DEF InputOK

\* Whatever happens, the input stays in order.
LEMMA InputStep ==
  ASSUME TypesOK, StartOK, InputOK, Next
  PROVE  InputOK'
<1> USE DEF clientVars, serverVars, streamVars, programVars, readerVars, writerVars,
            ClientGoes, ServerGoes
<1>1. CASE Client
  <2>1. CASE SendKey
    <3>1. PICK m : m = [type |-> "Key", key |-> client_key]
      OBVIOUS
    <3>2. to_server' = Append(to_server, m) /\ InputSame
      BY <2>1, <3>1 DEF SendKey, ToServer, InputSame, Feeding, Accepting, Opening
    <3>3. Content(m) = <<>>
      BY <3>1 DEF Content
    <3>4. QED
      BY <3>2, <3>3, InputTold
  <2>2. CASE ReceiveAnswer
    <3>1. InputSame
      BY <2>2 DEF ReceiveAnswer, InputSame, Feeding, Accepting, Opening
    <3>2. CASE to_server' = to_server
      BY <3>1, <3>2, InputFrame
    <3>3. CASE to_server' # to_server
      <4>1. PICK m : m = [type |-> "StartShell"]
        OBVIOUS
      <4>2. to_server' = Append(to_server, m)
        BY <2>2, <3>3, <4>1 DEF ReceiveAnswer, ToServer
      <4>3. Content(m) = <<>>
        BY <4>1 DEF Content
      <4>4. QED
        BY <3>1, <4>2, <4>3, InputTold
    <3>4. QED
      BY <3>2, <3>3
  <2>3. CASE ClientFails \/ ReceiveOutput
    <3>1. InputSame /\ to_server' = to_server
      BY <2>3 DEF ClientFails, ReceiveOutput, InputSame, Feeding, Accepting, Opening
    <3>2. QED
      BY <3>1, InputFrame
  <2>4. QED
    BY <1>1, <2>1, <2>2, <2>3, InputTyped DEF Client
<1>2. CASE Server
  <2>1. CASE ReceiveKey
    <3>1. InputSame /\ to_server # <<>> /\ to_server' = Tail(to_server)
      BY <2>1 DEF ReceiveKey, InputSame, Feeding, Accepting, Opening
    <3>2. Content(Head(to_server)) = <<>>
      BY <2>1 DEF ReceiveKey, Content
    <3>3. QED
      BY <3>1, <3>2, InputHeard
  <2>2. CASE StartShell
    <3>1. InputSame /\ to_server # <<>> /\ to_server' = Tail(to_server)
      BY <2>2 DEF StartShell, InputSame, Feeding, Accepting, Opening, StartOK
    <3>2. Content(Head(to_server)) = <<>>
      BY <2>2 DEF StartShell, Content
    <3>3. QED
      BY <3>1, <3>2, InputHeard
  <2>3. CASE NoRequest \/ ReadShell \/ ReadShellEnds
    <3>1. InputSame /\ to_server' = to_server
      BY <2>3, Zenon
      DEF NoRequest, ReadShell, ReadShellEnds, ToClient, InputSame, Feeding,
                  Accepting, Opening
    <3>2. QED
      BY <3>1, InputFrame
  <2>4. CASE ClientLeft \/ DropShell \/ Linger
    <3>1. InputSame /\ to_server' = to_server
      BY <2>4 DEF ClientLeft, DropShell, DropLooks, DropLocks, DropKills, DropGoes,
                  DropIsOver, Linger, InputSame, Feeding, Accepting, Opening
    <3>2. QED
      BY <3>1, InputFrame
  <2>5. QED
    BY <1>2, <2>1, <2>2, <2>3, <2>4, InputReceived, InputPassed DEF Server
<1>3. CASE Reader
  <2>1. InputSame /\ to_server' = to_server
    BY <1>3
    DEF Reader, ReaderReads, ReaderSends, ReaderEof, ReaderLocks, ReaderFails,
        ReaderExits, InputSame, Feeding, Accepting, Opening
  <2>2. QED
    BY <2>1, InputFrame
<1>4. CASE Writer
  <2>1. CASE WriterFails \/ WriterLocks \/ WriterExits \/ WriterEnds
    <3>1. InputSame /\ to_server' = to_server
      BY <2>1
      DEF WriterFails, WriterLocks, WriterExits, WriterEnds, InputSame, Feeding,
          Accepting, Opening
    <3>2. QED
      BY <3>1, InputFrame
  <2>2. QED
    BY <1>4, <2>1, InputTaken, InputWritten DEF Writer
<1>5. CASE Program
  <2>1. CASE ProgramWrites \/ ProgramDetaches \/ ProgramExits
    <3>1. InputSame /\ to_server' = to_server
      BY <2>1
      DEF ProgramWrites, ProgramDetaches, ProgramExits, InputSame, Feeding,
          Accepting,
                  Opening
    <3>2. QED
      BY <3>1, InputFrame
  <2>2. QED
    BY <1>5, <2>1, InputRead DEF Program
<1>6. QED
  BY <1>1, <1>2, <1>3, <1>4, <1>5 DEF Next

-----------------------------------------------------------------------------
(* The session.                                                            *)

\* Nothing is on its way at first.
LEMMA SessionInit ==
  ASSUME Init
  PROVE  SessionInv
<1> USE DEF Init, None
<1>1. TypesOK
  BY Sizes DEF TypesOK, TypeOK, BuffersOK
<1>2. StartOK /\ ExitOK /\ ReportOK
  BY DEF StartOK, ExitOK, ReportOK
<1>3. Run(<<>>, 0, 0) /\ Stretch(<<>>, 0, 0) /\ Contents(<<>>) = <<>>
  BY RunNone, StretchNone DEF Contents
<1>4. OutputAt(0, 0, 0, 0, 0)
  BY <1>3 DEF OutputAt
<1>5. InputAt(0, 0, 0, 0, 0)
  BY <1>3 DEF InputAt, Held
<1>6. OutputOK /\ InputOK
  BY <1>3, <1>4, <1>5 DEF OutputOK, InputOK
<1>7. QED
  BY <1>1, <1>2, <1>6 DEF SessionInv

\* The invariant is inductive.
LEMMA SessionStep ==
  ASSUME SessionInv, [Next]_vars
  PROVE  SessionInv'
<1>1. TypesOK /\ StartOK /\ OutputOK /\ ExitOK /\ ReportOK /\ InputOK
  BY DEF SessionInv
<1>2. CASE Next
  <2>1. TypesOK'
    BY <1>1, <1>2, ClientTypes, ServerTypes, TaskTypes, ProgramTypes DEF Next
  <2>2. StartOK' /\ ExitOK'
    BY <1>1, <1>2, StartStep, ExitStep
  <2>3. OutputOK' /\ ReportOK' /\ InputOK'
    BY <1>1, <1>2, OutputStep, ReportStep, InputStep
  <2>4. QED
    BY <2>1, <2>2, <2>3 DEF SessionInv
<1>3. CASE UNCHANGED vars
  <2> USE DEF vars, clientVars, serverVars, streamVars, programVars, readerVars, writerVars
  <2>1. TypesOK'
    BY <1>1, <1>3 DEF TypesOK, TypeOK, BuffersOK
  <2>2. StartOK' /\ ExitOK'
    BY <1>1, <1>3 DEF StartOK, Opening, ExitOK, Drained, TerminalClosed, Dropped
  <2>3. ReportOK'
    BY <1>1, <1>3 DEF ReportOK, Final, Dropped
  <2>4. OutputOK'
    <3>1. PICK a, b, c, d, e \in Nat : OutputAt(a, b, c, d, e)
      BY <1>1 DEF OutputOK
    <3>2. OutputAt(a, b, c, d, e)'
      BY <1>3, <3>1, Zenon DEF OutputAt, Whole, Told, Exits, Dropped
    <3>3. QED
      BY <1>1, <1>3, <3>2 DEF OutputOK
  <2>5. InputOK'
    <3>1. InputSame /\ to_server' = to_server
      BY <1>3 DEF InputSame, Feeding, Accepting, Opening
    <3>2. QED
      BY <1>1, <3>1, InputFrame
  <2>6. QED
    BY <2>1, <2>2, <2>3, <2>4, <2>5 DEF SessionInv
<1>4. QED
  BY <1>2, <1>3

\* The first numbers are a prefix of the numbers.
LEMMA RunPrefix ==
  ASSUME NEW s, NEW a, NEW n \in Nat, Run(s, 0, a), a <= n
  PROVE  IsPrefix(s, [i \in 1 .. n |-> i])
<1>1. s \in Seq(Nat) /\ Len(s) = a /\ a \in Nat /\ \A i \in 1 .. Len(s) : s[i] = i
  BY DEF Run
<1> DEFINE t == [i \in 1 .. n |-> i]
<1>2. t \in Seq(Nat) /\ Len(t) = n /\ \A i \in 1 .. n : t[i] = i
  OBVIOUS
<1> HIDE DEF t
<1>3. SubSeq(s, 1, Len(s)) = SubSeq(t, 1, Len(s))
  <2> DEFINE u == SubSeq(s, 1, Len(s))
             v == SubSeq(t, 1, Len(s))
  <2>1. u \in Seq(Nat) /\ Len(u) = a /\ \A i \in 1 .. a : u[i] = i
    BY <1>1
  <2>2. v \in Seq(Nat) /\ Len(v) = a /\ \A i \in 1 .. a : v[i] = i
    BY <1>1, <1>2
  <2> HIDE DEF u, v
  <2>3. u = v
    BY <2>1, <2>2
  <2>4. QED
    BY <2>3 DEF u, v
<1>4. QED
  BY <1>1, <1>2, <1>3 DEF IsPrefix, t

\* What is on its way says what arrived.
LEMMA SessionInOrder ==
  ASSUME SessionInv
  PROVE  StreamsInOrder
<1>1. TypesOK /\ OutputOK /\ ReportOK /\ InputOK
  BY DEF SessionInv
<1>2. output \in Nat /\ typed \in Nat
  BY <1>1, Sizes DEF TypesOK, TypeOK
<1>3. IsPrefix(shown, [i \in 1 .. output |-> i])
  BY <1>1, <1>2, RunPrefix DEF OutputOK
<1>4. IsPrefix(taken, [i \in 1 .. typed |-> i])
  <2>1. PICK a, b, c, d, e \in Nat : InputAt(a, b, c, d, e)
    BY <1>1 DEF InputOK
  <2>2. Run(taken, 0, a) /\ Run(pty_in, a, b) /\ b <= typed
    BY <2>1 DEF InputAt
  <2>3. a <= typed
    BY <1>2, <2>2, RunIs
  <2>4. QED
    BY <1>2, <2>2, <2>3, RunPrefix
<1>5. ASSUME client = "exited", reader # "failed"
      PROVE  shown = [i \in 1 .. output |-> i] /\ code = program_code
  <2>1. to_client = <<>> /\ Final(code)
    BY <1>1, <1>5 DEF ReportOK
  <2>2. PICK a, b, c, d, e \in Nat : OutputAt(a, b, c, d, e)
    BY <1>1 DEF OutputOK
  <2>3. /\ recv_buff = <<>> /\ reader_rx = <<>> /\ reader_chunk = <<>> /\ pty_out = <<>>
        /\ code = program_code
    BY <1>5, <2>1 DEF Final
  <2>4. Contents(<<>>) = <<>>
    BY DEF Contents
  <2>5. /\ Run(shown, 0, a) /\ Stretch(<<>>, a, b) /\ Run(<<>>, b, c) /\ Stretch(<<>>, c, d)
        /\ Run(<<>>, d, e) /\ Run(<<>>, e, output)
    BY <1>5, <2>1, <2>2, <2>3, <2>4 DEF OutputAt, Whole, Told
  <2>6. a = b /\ c = d
    BY <2>5, StretchEmpty
  <2>7. b = c /\ d = e /\ e = output
    BY <2>5, RunIs
  <2>8. Run(shown, 0, output)
    BY <2>5, <2>6, <2>7
  <2>9. QED
    BY <2>3, <2>8, RunFromZero
<1>6. QED
  BY <1>3, <1>4, <1>5 DEF StreamsInOrder, OutputBeforeExit

\* What is typed and what is written is in one place each, in order, between
\* the client and the program, whatever the sizes of the buffers and channels.
THEOREM SessionHolds == Spec => []SessionInv
<1>1. Init => SessionInv
  BY SessionInit
<1>2. SessionInv /\ [Next]_vars => SessionInv'
  BY SessionStep
<1>3. QED
  BY <1>1, <1>2, PTL DEF Spec

\* The client displays what the program writes and the program reads what is
\* typed, in order and without a hole, and an exit code comes after all output
\* and is the program's.
THEOREM StreamsStayInOrder == Spec => []StreamsInOrder
<1>1. SessionInv => StreamsInOrder
  BY SessionInOrder
<1>2. QED
  BY <1>1, SessionHolds, PTL

\* Every variable keeps its type, and no buffer or channel outgrows its places.
THEOREM SessionTypes == Spec => []TypeOK
<1>1. SessionInv => TypeOK
  BY DEF SessionInv, TypesOK
<1>2. QED
  BY <1>1, SessionHolds, PTL

-----------------------------------------------------------------------------
(* The fallback shell: what is needed of sequences.                        *)

LEMMA OneOf ==
  ASSUME NEW S, NEW a \in S
  PROVE  <<a>> \in Seq(S)
OBVIOUS

LEMMA TwoOf ==
  ASSUME NEW S, NEW a \in S, NEW b \in S
  PROVE  <<a, b>> \in Seq(S)
OBVIOUS

\* What a concatenation holds.
LEMMA ConcatIs ==
  ASSUME NEW S, NEW a \in Seq(S), NEW b \in Seq(S)
  PROVE  /\ Len(a) \in Nat /\ Len(b) \in Nat /\ a \o b \in Seq(S)
         /\ Len(a \o b) = Len(a) + Len(b)
         /\ \A i \in 1 .. Len(a) : (a \o b)[i] = a[i]
         /\ \A i \in 1 .. Len(b) : (a \o b)[Len(a) + i] = b[i]
<1>1. /\ Len(a) \in Nat /\ Len(b) \in Nat /\ a \o b \in Seq(S)
      /\ Len(a \o b) = Len(a) + Len(b)
  OBVIOUS
<1>2. \A i \in 1 .. Len(a) : (a \o b)[i] = a[i]
  OBVIOUS
<1>3. \A i \in 1 .. Len(b) : (a \o b)[Len(a) + i] = b[i]
  OBVIOUS
<1>4. QED
  BY <1>1, <1>2, <1>3

\* A sequence that holds the same is the concatenation.
LEMMA ConcatEqual ==
  ASSUME NEW S, NEW a \in Seq(S), NEW b \in Seq(S), NEW z \in Seq(S),
         Len(z) = Len(a) + Len(b),
         \A i \in 1 .. Len(a) : z[i] = a[i],
         \A i \in 1 .. Len(b) : z[Len(a) + i] = b[i]
  PROVE  z = a \o b
<1>1. PICK m \in Nat, n \in Nat, u \in Seq(S) :
        /\ m = Len(a) /\ n = Len(b) /\ u = a \o b /\ Len(u) = m + n
        /\ \A i \in 1 .. m : u[i] = a[i]
        /\ \A i \in 1 .. n : u[m + i] = b[i]
  <2>1. /\ Len(a) \in Nat /\ Len(b) \in Nat /\ a \o b \in Seq(S)
        /\ Len(a \o b) = Len(a) + Len(b)
        /\ \A i \in 1 .. Len(a) : (a \o b)[i] = a[i]
        /\ \A i \in 1 .. Len(b) : (a \o b)[Len(a) + i] = b[i]
    BY ConcatIs
  <2>2. QED
    BY <2>1
<1>2. ASSUME NEW i \in 1 .. m + n PROVE z[i] = u[i]
  <2>1. CASE i \in 1 .. m
    BY <1>1, <2>1
  <2>2. CASE i \notin 1 .. m
    <3>1. i - m \in 1 .. n /\ m + (i - m) = i
      BY <2>2
    <3>2. z[m + (i - m)] = u[m + (i - m)]
      BY <1>1, <3>1
    <3>3. QED
      BY <3>1, <3>2
  <2>3. QED
    BY <2>1, <2>2
<1>3. QED
  BY <1>1, <1>2

LEMMA ConcatAssoc ==
  ASSUME NEW S, NEW a \in Seq(S), NEW b \in Seq(S), NEW c \in Seq(S)
  PROVE  (a \o b) \o c = a \o (b \o c)
OBVIOUS

LEMMA SubSeqIs ==
  ASSUME NEW S, NEW s \in Seq(S), NEW m \in Nat, NEW n \in Nat,
         1 <= m, m <= n + 1, n <= Len(s)
  PROVE  /\ SubSeq(s, m, n) \in Seq(S) /\ Len(SubSeq(s, m, n)) = n + 1 - m
         /\ \A i \in 1 .. n + 1 - m : SubSeq(s, m, n)[i] = s[m + i - 1]
<1>1. Len(s) \in Nat
  OBVIOUS
<1>2. \A i \in m .. n : s[i] \in S
  BY <1>1
<1>3. SubSeq(s, m, n) \in Seq(S)
  BY <1>1, <1>2
<1>4. Len(SubSeq(s, m, n)) = n + 1 - m
  BY <1>1
<1>5. \A i \in 1 .. n + 1 - m : SubSeq(s, m, n)[i] = s[m + i - 1]
  BY <1>1
<1>6. QED
  BY <1>3, <1>4, <1>5

-----------------------------------------------------------------------------
(* Sequences one after the other.                                          *)

\* F[i] is what the first i members of ss hold.
Joins(S, ss, n, F) ==
  /\ F \in [0 .. n -> Seq(S)] /\ F[0] = <<>>
  /\ \A i \in 1 .. n : F[i] = F[i - 1] \o ss[i]

\* There is such an F.
LEMMA JoinsExist ==
  ASSUME NEW S, NEW ss \in Seq(Seq(S))
  PROVE  \A n \in 0 .. Len(ss) : \E F : Joins(S, ss, n, F)
<1> DEFINE T == {n \in 0 .. Len(ss) : ~ \E F : Joins(S, ss, n, F)}
<1>1. SUFFICES ASSUME T # {} PROVE FALSE
  OBVIOUS
<1>2. PICK x \in T : \A y \in T : x <= y
  <2>1. T \subseteq Nat
    OBVIOUS
  <2> HIDE DEF T
  <2>2. QED
    BY <1>1, <2>1, Smallest
<1>3. x \in 0 .. Len(ss) /\ ~ \E F : Joins(S, ss, x, F)
  BY <1>2
<1>4. x # 0
  <2>1. Joins(S, ss, 0, [i \in 0 .. 0 |-> <<>>])
    BY DEF Joins
  <2>2. QED
    BY <1>3, <2>1
<1>5. x - 1 \in 0 .. Len(ss) /\ ~(x <= x - 1) /\ x \in 1 .. Len(ss)
  BY <1>3, <1>4
<1>6. PICK F : Joins(S, ss, x - 1, F)
  BY <1>2, <1>5
<1> DEFINE G == [i \in 0 .. x |-> IF i = x THEN F[x - 1] \o ss[x] ELSE F[i]]
<1>7. F \in [0 .. x - 1 -> Seq(S)] /\ F[x - 1] \in Seq(S) /\ ss[x] \in Seq(S)
  BY <1>5, <1>6 DEF Joins
<1>8. G \in [0 .. x -> Seq(S)]
  <2>1. F[x - 1] \o ss[x] \in Seq(S)
    BY <1>7
  <2>2. \A i \in 0 .. x : i # x => i \in 0 .. x - 1
    BY <1>5
  <2>3. QED
    BY <1>7, <2>1, <2>2
<1>9. G[0] = <<>>
  BY <1>5, <1>6 DEF Joins
<1>a. \A j \in 0 .. x : G[j] = IF j = x THEN F[x - 1] \o ss[x] ELSE F[j]
  OBVIOUS
<1>10. ASSUME NEW i \in 1 .. x PROVE G[i] = G[i - 1] \o ss[i]
  <2> HIDE DEF T, G
  <2>0. x \in Nat /\ x # 0
    BY <1>5
  <2>a. i - 1 \in 0 .. x /\ i - 1 # x
    BY <2>0
  <2>1. i - 1 \in 0 .. x /\ i - 1 # x /\ G[i - 1] = F[i - 1]
    BY <1>a, <2>a
  <2>2. CASE i = x
    <3>1. x \in 0 .. x
      BY <2>0
    <3>2. G[x] = F[x - 1] \o ss[x]
      BY <1>a, <3>1
    <3>3. QED
      BY <2>1, <2>2, <3>2
  <2>3. CASE i # x
    <3>0. i \in 1 .. x - 1 /\ i \in 0 .. x
      BY <2>0, <2>3
    <3>1. i \in 1 .. x - 1 /\ G[i] = F[i]
      BY <1>a, <2>3, <3>0
    <3>2. QED
      BY <1>6, <2>1, <3>1 DEF Joins
  <2>4. QED
    BY <2>2, <2>3
<1>11. Joins(S, ss, x, G)
  <2> HIDE DEF G
  <2>1. QED
    BY <1>8, <1>9, <1>10 DEF Joins
<1>12. QED
  BY <1>3, <1>11

\* It says what FlattenSeq returns.
LEMMA FlattenJoins ==
  ASSUME NEW S, NEW ss \in Seq(Seq(S)), NEW F, Joins(S, ss, Len(ss), F)
  PROVE  FlattenSeq(ss) = F[Len(ss)]
<1>1. CASE ss = <<>>
  BY <1>1 DEF FlattenSeq, Joins
<1>2. CASE ss # <<>>
  <2> DEFINE L == Len(ss)
             step(f) == [i \in 1 .. L |-> IF i = 1 THEN ss[i] ELSE f[i - 1] \o ss[i]]
             H == [i \in 1 .. L |-> F[i]]
             G == CHOOSE f : f = step(f)
  <2>1. L \in Nat /\ L >= 1 /\ L # 0
    BY <1>2
  <2>2. FlattenSeq(ss) = G[L]
    BY <2>1, Zenon DEF FlattenSeq
  <2>3. ASSUME NEW i \in 1 .. L
        PROVE  F[i] = IF i = 1 THEN ss[i] ELSE F[i - 1] \o ss[i]
    <3>1. F[i] = F[i - 1] \o ss[i]
      BY DEF Joins
    <3>2. i = 1 => F[i - 1] = <<>>
      BY DEF Joins
    <3>3. <<>> \o ss[i] = ss[i]
      <4>1. ss[i] \in Seq(S)
        OBVIOUS
      <4>2. QED
        BY <4>1
    <3>4. QED
      BY <3>1, <3>2, <3>3
  <2>4. H = step(H)
    <3>1. ASSUME NEW i \in 1 .. L
          PROVE  H[i] = IF i = 1 THEN ss[i] ELSE H[i - 1] \o ss[i]
      <4>1. i # 1 => i - 1 \in 1 .. L
        BY <2>1
      <4>2. H[i] = F[i] /\ (i # 1 => H[i - 1] = F[i - 1])
        BY <4>1
      <4>3. QED
        BY <2>3, <4>2
    <3>2. H = [i \in 1 .. L |-> H[i]]
      OBVIOUS
    <3> HIDE DEF H
    <3>3. QED
      BY <3>1, <3>2, Zenon
  <2>5. G = step(G)
    <3> HIDE DEF H
    <3>1. QED
      BY <2>4, Zenon
  <2> HIDE DEF G, H
  <2>6. ASSUME NEW i \in 1 .. L
        PROVE  G[i] = IF i = 1 THEN ss[i] ELSE G[i - 1] \o ss[i]
    BY <2>5, Zenon
  <2> DEFINE T == {i \in 1 .. L : G[i] # F[i]}
  <2>7. T = {}
    <3> SUFFICES ASSUME T # {} PROVE FALSE
      OBVIOUS
    <3>1. PICK x \in T : \A y \in T : x <= y
      <4>1. T \subseteq Nat
        OBVIOUS
      <4> HIDE DEF T
      <4>2. QED
        BY <4>1, Smallest
    <3>2. x \in 1 .. L /\ G[x] # F[x]
      BY <3>1
    <3>3. CASE x = 1
      BY <2>3, <2>6, <3>2, <3>3
    <3>4. CASE x # 1
      <4>1. x - 1 \in 1 .. L /\ ~(x <= x - 1)
        BY <2>1, <3>2, <3>4
      <4>2. G[x - 1] = F[x - 1]
        BY <3>1, <4>1
      <4>3. QED
        BY <2>3, <2>6, <3>2, <3>4, <4>2
    <3>5. QED
      BY <3>3, <3>4
  <2>8. L \in 1 .. L
    BY <2>1
  <2>9. QED
    BY <2>2, <2>7, <2>8
<1>3. QED
  BY <1>1, <1>2

LEMMA FlattenType ==
  ASSUME NEW S, NEW ss \in Seq(Seq(S))
  PROVE  FlattenSeq(ss) \in Seq(S)
<1>1. Len(ss) \in 0 .. Len(ss)
  OBVIOUS
<1>2. PICK F : Joins(S, ss, Len(ss), F)
  BY <1>1, JoinsExist
<1>3. FlattenSeq(ss) = F[Len(ss)]
  BY <1>2, FlattenJoins
<1>4. F \in [0 .. Len(ss) -> Seq(S)]
  BY <1>2 DEF Joins
<1>5. QED
  BY <1>1, <1>3, <1>4

LEMMA FlattenNone == FlattenSeq(<<>>) = <<>>
BY DEF FlattenSeq

LEMMA FlattenOne ==
  ASSUME NEW S, NEW s \in Seq(S)
  PROVE  FlattenSeq(<<s>>) = s
<1> DEFINE F == [i \in 0 .. 1 |-> IF i = 0 THEN <<>> ELSE s]
<1>1. <<s>> \in Seq(Seq(S)) /\ Len(<<s>>) = 1
  OBVIOUS
<1>2. Joins(S, <<s>>, 1, F)
  BY DEF Joins
<1>3. F[1] = s
  OBVIOUS
<1> HIDE DEF F
<1>4. QED
  BY <1>1, <1>2, <1>3, FlattenJoins

LEMMA FlattenConcat ==
  ASSUME NEW S, NEW ss \in Seq(Seq(S)), NEW tt \in Seq(Seq(S))
  PROVE  FlattenSeq(ss \o tt) = FlattenSeq(ss) \o FlattenSeq(tt)
<1> DEFINE m == Len(ss)
           n == Len(tt)
           u == ss \o tt
<1>1. /\ m \in Nat /\ n \in Nat /\ u \in Seq(Seq(S)) /\ Len(u) = m + n
      /\ \A i \in 1 .. m : u[i] = ss[i]
      /\ \A i \in m + 1 .. m + n : u[i] = tt[i - m]
  OBVIOUS
<1>2. PICK F : Joins(S, ss, m, F)
  BY <1>1, JoinsExist
<1>3. PICK G : Joins(S, tt, n, G)
  BY <1>1, JoinsExist
<1> HIDE DEF m, n, u
<1> DEFINE H == [i \in 0 .. m + n |-> IF i <= m THEN F[i] ELSE F[m] \o G[i - m]]
<1>4. F \in [0 .. m -> Seq(S)] /\ G \in [0 .. n -> Seq(S)] /\ F[m] \in Seq(S)
  BY <1>1, <1>2, <1>3 DEF Joins
<1>5. H \in [0 .. m + n -> Seq(S)]
  <2>1. ASSUME NEW i \in 0 .. m + n PROVE H[i] \in Seq(S)
    <3>1. CASE i <= m
      BY <1>1, <1>4, <3>1
    <3>2. CASE ~(i <= m)
      <4>1. i - m \in 0 .. n
        BY <1>1, <3>2
      <4>2. G[i - m] \in Seq(S)
        BY <1>4, <4>1
      <4>3. F[m] \o G[i - m] \in Seq(S)
        BY <1>4, <4>2
      <4>4. QED
        BY <3>2, <4>3
    <3>3. QED
      BY <3>1, <3>2
  <2>2. QED
    BY <2>1
<1>6. H[0] = <<>>
  BY <1>1, <1>2 DEF Joins
<1>7. ASSUME NEW i \in 1 .. m + n PROVE H[i] = H[i - 1] \o u[i]
  <2>1. i - 1 \in 0 .. m + n
    BY <1>1
  <2>2. CASE i <= m
    <3>1. i \in 1 .. m /\ i - 1 <= m
      BY <1>1, <2>2
    <3>2. F[i] = F[i - 1] \o ss[i] /\ u[i] = ss[i]
      BY <1>1, <1>2, <3>1 DEF Joins
    <3>3. H[i] = F[i] /\ H[i - 1] = F[i - 1]
      BY <2>1, <2>2, <3>1
    <3>4. QED
      BY <3>2, <3>3
  <2>3. CASE ~(i <= m)
    <3>1. i - m \in 1 .. n /\ i \in m + 1 .. m + n /\ i - m - 1 = i - 1 - m /\ i - 1 - m \in 0 .. n
      BY <1>1, <2>3
    <3>2. G[i - m] = G[i - 1 - m] \o tt[i - m] /\ u[i] = tt[i - m]
      BY <1>1, <1>3, <3>1 DEF Joins
    <3>a. i \in 0 .. m + n
      BY <1>1
    <3>b. H[i] = F[m] \o G[i - m]
      BY <2>3, <3>a
    <3>3. H[i] = F[m] \o (G[i - 1 - m] \o u[i])
      BY <3>b, <3>2
    <3>4. G[i - 1 - m] \in Seq(S) /\ u[i] \in Seq(S)
      BY <1>1, <1>4, <3>1
    <3>5. H[i - 1] = F[m] \o G[i - 1 - m]
      <4>1. CASE i - 1 <= m
        <5>1. i - 1 = m /\ i - 1 - m = 0
          BY <1>1, <2>3, <4>1
        <5>2. G[0] = <<>> /\ F[m] \o <<>> = F[m]
          BY <1>3, <1>4 DEF Joins
        <5>3. QED
          BY <2>1, <5>1, <5>2
      <4>2. CASE ~(i - 1 <= m)
        BY <2>1, <4>2
      <4>3. QED
        BY <4>1, <4>2
    <3>6. (F[m] \o G[i - 1 - m]) \o u[i] = F[m] \o (G[i - 1 - m] \o u[i])
      <4>1. \A a, b, c \in Seq(S) : (a \o b) \o c = a \o (b \o c)
        OBVIOUS
      <4>2. QED
        BY <1>4, <3>4, <4>1, Zenon
    <3>7. QED
      BY <3>3, <3>5, <3>6
  <2>4. QED
    BY <2>2, <2>3
<1>8. H[m + n] = F[m] \o G[n]
  <2>1. CASE n = 0
    <3>1. G[0] = <<>> /\ F[m] \o <<>> = F[m]
      BY <1>3, <1>4 DEF Joins
    <3>2. QED
      BY <1>1, <2>1, <3>1
  <2>2. CASE n # 0
    <3>1. \A i \in 0 .. m + n : ~(i <= m) => H[i] = F[m] \o G[i - m]
      OBVIOUS
    <3> HIDE DEF H
    <3>2. PICK k \in 0 .. m + n : k = m + n /\ ~(k <= m) /\ k - m = n
      BY <1>1, <2>2
    <3>3. H[k] = F[m] \o G[k - m]
      BY <3>1, <3>2
    <3>4. QED
      BY <3>2, <3>3
  <2>3. QED
    BY <2>1, <2>2
<1>9. Joins(S, u, Len(u), H)
  <2> HIDE DEF H
  <2>1. QED
    BY <1>1, <1>5, <1>6, <1>7 DEF Joins
<1> HIDE DEF H
<1>10. FlattenSeq(u) = H[m + n]
  BY <1>1, <1>9, FlattenJoins
<1>11. FlattenSeq(ss) = F[m] /\ FlattenSeq(tt) = G[n]
  BY <1>2, <1>3, FlattenJoins DEF m, n
<1>12. QED
  BY <1>8, <1>10, <1>11 DEF u

LEMMA FlattenHead ==
  ASSUME NEW S, NEW ss \in Seq(Seq(S)), ss # <<>>
  PROVE  FlattenSeq(ss) = Head(ss) \o FlattenSeq(Tail(ss))
<1>1. /\ Head(ss) \in Seq(S) /\ Tail(ss) \in Seq(Seq(S)) /\ ss = <<Head(ss)>> \o Tail(ss)
      /\ <<Head(ss)>> \in Seq(Seq(S))
  OBVIOUS
<1>2. FlattenSeq(<<Head(ss)>> \o Tail(ss)) = FlattenSeq(<<Head(ss)>>) \o FlattenSeq(Tail(ss))
  BY <1>1, FlattenConcat
<1>3. FlattenSeq(<<Head(ss)>>) = Head(ss)
  BY <1>1, FlattenOne
<1>4. QED
  BY <1>1, <1>2, <1>3

-----------------------------------------------------------------------------
(* What the terminal shows of one output after the other.                  *)

\* f[i] is the screen after the first i members of out.
Draws(screen, out, n, f) ==
  /\ f[0] = screen
  /\ \A i \in 1 .. n : f[i] = Drawn(f[i - 1], out[i])

LEMMA DrawsExist ==
  ASSUME NEW screen, NEW out, Len(out) \in Nat
  PROVE  \A n \in 0 .. Len(out) : \E f : Draws(screen, out, n, f)
<1> DEFINE T == {n \in 0 .. Len(out) : ~ \E f : Draws(screen, out, n, f)}
<1>1. SUFFICES ASSUME T # {} PROVE FALSE
  OBVIOUS
<1>2. PICK x \in T : \A y \in T : x <= y
  <2>1. T \subseteq Nat
    OBVIOUS
  <2> HIDE DEF T
  <2>2. QED
    BY <1>1, <2>1, Smallest
<1>3. x \in 0 .. Len(out) /\ ~ \E f : Draws(screen, out, x, f)
  BY <1>2
<1>4. x # 0
  <2> DEFINE g == [i \in {0} |-> screen]
  <2>1. g[0] = screen
    OBVIOUS
  <2> HIDE DEF g
  <2>2. Draws(screen, out, 0, g)
    BY <2>1 DEF Draws
  <2>3. QED
    BY <1>3, <2>2
<1>5. x - 1 \in 0 .. Len(out) /\ ~(x <= x - 1) /\ x \in Nat
  BY <1>3, <1>4
<1>6. PICK f : Draws(screen, out, x - 1, f)
  BY <1>2, <1>5
<1> HIDE DEF T
<1> DEFINE g == [i \in 0 .. x |-> IF i = x THEN Drawn(f[x - 1], out[x]) ELSE f[i]]
<1>7. \A i \in 0 .. x : g[i] = IF i = x THEN Drawn(f[x - 1], out[x]) ELSE f[i]
  OBVIOUS
<1> HIDE DEF g
<1>8. g[0] = screen
  <2>1. 0 \in 0 .. x /\ f[0] = screen
    BY <1>5, <1>6 DEF Draws
  <2>2. QED
    BY <1>4, <1>7, <2>1
<1>9. ASSUME NEW i \in 1 .. x PROVE g[i] = Drawn(g[i - 1], out[i])
  <2>1. i \in 0 .. x /\ i - 1 \in 0 .. x /\ i - 1 # x
    BY <1>5
  <2>2. g[i - 1] = f[i - 1]
    BY <1>7, <2>1
  <2>3. CASE i = x
    BY <1>7, <2>1, <2>2, <2>3
  <2>4. CASE i # x
    <3>1. i \in 1 .. x - 1
      BY <1>5, <2>4
    <3>2. f[i] = Drawn(f[i - 1], out[i])
      BY <1>6, <3>1 DEF Draws
    <3>3. QED
      BY <1>7, <2>1, <2>2, <2>4, <3>2
  <2>5. QED
    BY <2>3, <2>4
<1>10. Draws(screen, out, x, g)
  BY <1>8, <1>9 DEF Draws
<1>11. QED
  BY <1>3, <1>10

LEMMA ShowsDraws ==
  ASSUME NEW screen, NEW out, Len(out) \in Nat, NEW f, Draws(screen, out, Len(out), f)
  PROVE  Shows(screen, out) = f[Len(out)]
<1> DEFINE L == Len(out)
           step(g) == [i \in 0 .. L |-> IF i = 0 THEN screen
                                        ELSE Drawn(g[i - 1], out[i])]
           H == [i \in 0 .. L |-> f[i]]
           G == CHOOSE g : g = step(g)
<1>1. L \in Nat
  OBVIOUS
<1>2. Shows(screen, out) = G[L]
  BY Zenon DEF Shows
<1>3. ASSUME NEW i \in 0 .. L
      PROVE  f[i] = IF i = 0 THEN screen ELSE Drawn(f[i - 1], out[i])
  BY <1>1 DEF Draws
<1>4. H = step(H)
  <2>1. ASSUME NEW i \in 0 .. L
        PROVE  H[i] = IF i = 0 THEN screen ELSE Drawn(H[i - 1], out[i])
    <3>1. i # 0 => i - 1 \in 0 .. L
      BY <1>1
    <3>2. H[i] = f[i] /\ (i # 0 => H[i - 1] = f[i - 1])
      BY <3>1
    <3> HIDE DEF H
    <3>3. QED
      BY <1>3, <3>2
  <2>2. H = [i \in 0 .. L |-> H[i]]
    OBVIOUS
  <2> HIDE DEF H
  <2>3. QED
    BY <2>1, <2>2, Zenon
<1>5. G = step(G)
  <2> HIDE DEF H
  <2>1. QED
    BY <1>4, Zenon
<1> HIDE DEF G, H
<1>6. ASSUME NEW i \in 0 .. L
      PROVE  G[i] = IF i = 0 THEN screen ELSE Drawn(G[i - 1], out[i])
  BY <1>5, Zenon
<1> DEFINE T == {i \in 0 .. L : G[i] # f[i]}
<1>7. T = {}
  <2> SUFFICES ASSUME T # {} PROVE FALSE
    OBVIOUS
  <2>1. PICK x \in T : \A y \in T : x <= y
    <3>1. T \subseteq Nat
      OBVIOUS
    <3> HIDE DEF T
    <3>2. QED
      BY <3>1, Smallest
  <2>2. x \in 0 .. L /\ G[x] # f[x]
    BY <2>1
  <2>3. CASE x = 0
    BY <1>3, <1>6, <2>2, <2>3
  <2>4. CASE x # 0
    <3>1. x - 1 \in 0 .. L /\ ~(x <= x - 1)
      BY <1>1, <2>2, <2>4
    <3>2. G[x - 1] = f[x - 1]
      BY <2>1, <3>1
    <3>3. QED
      BY <1>3, <1>6, <2>2, <2>4, <3>2
  <2>5. QED
    BY <2>3, <2>4
<1>8. L \in 0 .. L
  BY <1>1
<1>9. QED
  BY <1>2, <1>7, <1>8

LEMMA ShowsNone ==
  ASSUME NEW screen
  PROVE  Shows(screen, <<>>) = screen
<1>1. PICK o : o = <<>> /\ Len(o) = 0 /\ 0 \in 0 .. Len(o)
  OBVIOUS
<1>2. PICK f : Draws(screen, o, 0, f)
  BY <1>1, DrawsExist
<1>3. f[0] = screen
  BY <1>2 DEF Draws
<1>4. QED
  BY <1>1, <1>2, <1>3, ShowsDraws

LEMMA ShowsOne ==
  ASSUME NEW screen, NEW b
  PROVE  Shows(screen, <<b>>) = Drawn(screen, b)
<1>1. Len(<<b>>) = 1 /\ 1 \in 0 .. 1 /\ <<b>>[1] = b
  OBVIOUS
<1>2. PICK f : Draws(screen, <<b>>, 1, f)
  BY <1>1, DrawsExist
<1>3. f[1] = Drawn(f[0], <<b>>[1]) /\ f[0] = screen
  BY <1>2 DEF Draws
<1>4. QED
  BY <1>1, <1>2, <1>3, ShowsDraws

LEMMA ShowsConcat ==
  ASSUME NEW screen, NEW S, NEW a \in Seq(S), NEW b \in Seq(S)
  PROVE  Shows(screen, a \o b) = Shows(Shows(screen, a), b)
<1>1. PICK m \in Nat, n \in Nat, u \in Seq(S) :
        /\ m = Len(a) /\ n = Len(b) /\ u = a \o b /\ Len(u) = m + n
        /\ \A i \in 1 .. m : u[i] = a[i]
        /\ \A i \in 1 .. n : u[m + i] = b[i]
  <2>1. Len(a) \in Nat /\ Len(b) \in Nat /\ a \o b \in Seq(S) /\ Len(a \o b) = Len(a) + Len(b)
    OBVIOUS
  <2>2. \A i \in 1 .. Len(a) : (a \o b)[i] = a[i]
    OBVIOUS
  <2>3. \A i \in 1 .. Len(b) : (a \o b)[Len(a) + i] = b[i]
    OBVIOUS
  <2>4. QED
    BY <2>1, <2>2, <2>3
<1>a. PICK l \in Nat : l = m + n /\ l = Len(u) /\ l \in 0 .. Len(u)
  BY <1>1
<1>2. PICK f : Draws(screen, u, l, f)
  BY <1>a, DrawsExist
<1>3. Shows(screen, u) = f[l]
  BY <1>a, <1>2, ShowsDraws
<1>4. Draws(screen, a, m, f)
  BY <1>1, <1>a, <1>2 DEF Draws
<1>5. Shows(screen, a) = f[m]
  BY <1>1, <1>4, ShowsDraws
<1> DEFINE g == [i \in 0 .. n |-> f[m + i]]
<1>6. \A i \in 0 .. n : g[i] = f[m + i]
  OBVIOUS
<1> HIDE DEF g
<1>7. g[0] = f[m] /\ g[n] = f[l]
  BY <1>6, <1>a
<1>8. ASSUME NEW i \in 1 .. n PROVE g[i] = Drawn(g[i - 1], b[i])
  <2>1. i - 1 \in 0 .. n /\ i \in 0 .. n /\ m + i \in 1 .. m + n /\ m + (i - 1) = m + i - 1
    OBVIOUS
  <2>2. f[m + i] = Drawn(f[m + i - 1], u[m + i])
    BY <1>a, <1>2, <2>1 DEF Draws
  <2>3. g[i] = f[m + i] /\ g[i - 1] = f[m + i - 1]
    BY <1>6, <2>1
  <2>4. QED
    BY <1>1, <2>2, <2>3
<1>9. Draws(f[m], b, n, g)
  BY <1>7, <1>8 DEF Draws
<1>10. Shows(f[m], b) = g[n]
  BY <1>1, <1>9, ShowsDraws
<1>11. QED
  BY <1>1, <1>3, <1>5, <1>7, <1>10

-----------------------------------------------------------------------------
(* Line endings.                                                           *)

\* What the interpreter writes.
Symbol == Bytes \cup {"CR", "LF", "left", "right", "prompt", " ", "notice", "?", "!"}

\* What a byte is written as after another one.
TurnedByte(before, b) ==
  IF b = "LF" /\ before # "CR" THEN <<"CR", "LF">> ELSE <<b>>
Before(last, buf, i) == IF i = 1 THEN last ELSE buf[i - 1]
Turned(last, buf) ==
  [i \in 1 .. Len(buf) |-> TurnedByte(Before(last, buf, i), buf[i])]

LEMMA ConvertedTurned ==
  ASSUME NEW last, NEW buf \in Seq(Symbol)
  PROVE  Converted(last, buf) = FlattenSeq(Turned(last, buf))
<1>1. DOMAIN buf = 1 .. Len(buf)
  OBVIOUS
<1>2. QED
  BY <1>1, Zenon DEF Converted, Turned, TurnedByte, Before

LEMMA TurnedByteType ==
  ASSUME NEW before, NEW b \in Symbol
  PROVE  TurnedByte(before, b) \in Seq(Symbol)
<1>1. CASE TurnedByte(before, b) = <<b>>
  BY <1>1, OneOf
<1>2. CASE TurnedByte(before, b) = <<"CR", "LF">>
  <2>1. "CR" \in Symbol /\ "LF" \in Symbol
    BY DEF Symbol
  <2>2. QED
    BY <1>2, <2>1, TwoOf
<1>3. QED
  BY <1>1, <1>2 DEF TurnedByte

LEMMA TurnedType ==
  ASSUME NEW last, NEW buf \in Seq(Symbol)
  PROVE  \E t \in Seq(Seq(Symbol)) :
           /\ t = Turned(last, buf) /\ Len(t) = Len(buf)
           /\ \A i \in 1 .. Len(buf) : t[i] = TurnedByte(Before(last, buf, i), buf[i])
<1> DEFINE t == Turned(last, buf)
<1>1. Len(buf) \in Nat /\ \A i \in 1 .. Len(buf) : buf[i] \in Symbol
  OBVIOUS
<1>2. t = [i \in 1 .. Len(buf) |-> t[i]]
  BY DEF Turned
<1>3. \A i \in 1 .. Len(buf) : t[i] = TurnedByte(Before(last, buf, i), buf[i])
  BY DEF Turned
<1> HIDE DEF t
<1>4. \A i \in 1 .. Len(buf) : t[i] \in Seq(Symbol)
  BY <1>1, <1>3, TurnedByteType
<1>5. t \in [1 .. Len(buf) -> Seq(Symbol)]
  BY <1>2, <1>4
<1>6. t \in Seq(Seq(Symbol)) /\ Len(t) = Len(buf)
  BY <1>1, <1>5
<1>7. QED
  BY <1>3, <1>6 DEF t

LEMMA ConvertedType ==
  ASSUME NEW last, NEW buf \in Seq(Symbol)
  PROVE  Converted(last, buf) \in Seq(Symbol)
<1>1. Turned(last, buf) \in Seq(Seq(Symbol))
  BY TurnedType
<1>2. FlattenSeq(Turned(last, buf)) \in Seq(Symbol)
  BY <1>1, FlattenType
<1>3. QED
  BY <1>2, ConvertedTurned

LEMMA ConvertedNone ==
  ASSUME NEW last
  PROVE  Converted(last, <<>>) = <<>>
<1>1. Turned(last, <<>>) = <<>> /\ <<>> \in Seq(Symbol)
  BY DEF Turned
<1>2. QED
  BY <1>1, ConvertedTurned, FlattenNone

\* The byte that is written last.
LastOf(last, s) == IF s = <<>> THEN last ELSE Last(s)

LEMMA LastConcat ==
  ASSUME NEW S, NEW a \in Seq(S), NEW b \in Seq(S), NEW last
  PROVE  LastOf(last, a \o b) = LastOf(LastOf(last, a), b)
<1>1. CASE b = <<>>
  <2>1. a \o b = a
    BY <1>1
  <2>2. QED
    BY <1>1, <2>1 DEF LastOf
<1>2. CASE b # <<>>
  <2>1. Len(a) \in Nat /\ Len(b) \in Nat /\ Len(b) # 0 /\ Len(a \o b) = Len(a) + Len(b)
    BY <1>2
  <2>2. (a \o b)[Len(a) + Len(b)] = b[Len(b)]
    BY <2>1
  <2>3. a \o b # <<>>
    BY <2>1
  <2>4. Last(a \o b) = Last(b)
    BY <2>1, <2>2 DEF Last
  <2>5. QED
    BY <1>2, <2>3, <2>4 DEF LastOf
<1>3. QED
  BY <1>1, <1>2

\* Where the writes are cut does not matter.
LEMMA ConvertedConcat ==
  ASSUME NEW last, NEW a \in Seq(Symbol), NEW b \in Seq(Symbol)
  PROVE  Converted(last, a \o b) = Converted(last, a) \o Converted(LastOf(last, a), b)
<1>1. PICK m \in Nat, n \in Nat, u \in Seq(Symbol) :
        /\ m = Len(a) /\ n = Len(b) /\ u = a \o b /\ Len(u) = m + n
        /\ \A i \in 1 .. m : u[i] = a[i]
        /\ \A i \in 1 .. n : u[m + i] = b[i]
  <2>1. /\ Len(a) \in Nat /\ Len(b) \in Nat /\ a \o b \in Seq(Symbol)
        /\ Len(a \o b) = Len(a) + Len(b)
        /\ \A i \in 1 .. Len(a) : (a \o b)[i] = a[i]
        /\ \A i \in 1 .. Len(b) : (a \o b)[Len(a) + i] = b[i]
    BY ConcatIs
  <2>2. QED
    BY <2>1
<1> DEFINE before == LastOf(last, a)
<1>2. PICK x \in Seq(Seq(Symbol)) : x = Turned(last, a) /\ Len(x) = m
       /\ \A i \in 1 .. m : x[i] = TurnedByte(Before(last, a, i), a[i])
  BY <1>1, TurnedType
<1>3. PICK y \in Seq(Seq(Symbol)) : y = Turned(before, b) /\ Len(y) = n
       /\ \A i \in 1 .. n : y[i] = TurnedByte(Before(before, b, i), b[i])
  BY <1>1, TurnedType
<1>4. PICK z \in Seq(Seq(Symbol)) : z = Turned(last, u) /\ Len(z) = Len(x) + Len(y)
       /\ \A i \in 1 .. m + n : z[i] = TurnedByte(Before(last, u, i), u[i])
  <2>1. Len(u) = m + n
    BY <1>1
  <2>2. PICK z \in Seq(Seq(Symbol)) : z = Turned(last, u) /\ Len(z) = Len(u)
         /\ \A i \in 1 .. Len(u) : z[i] = TurnedByte(Before(last, u, i), u[i])
    <3>1. u \in Seq(Symbol)
      OBVIOUS
    <3>2. \E t \in Seq(Seq(Symbol)) :
             /\ t = Turned(last, u) /\ Len(t) = Len(u)
             /\ \A i \in 1 .. Len(u) : t[i] = TurnedByte(Before(last, u, i), u[i])
      BY <3>1, TurnedType, Zenon
    <3>3. QED
      BY <3>2, Zenon
  <2>3. QED
    BY <1>2, <1>3, <2>1, <2>2
<1>5. m # 0 => before = u[m]
  BY <1>1 DEF LastOf, Last
<1>6. m = 0 => before = last
  BY <1>1 DEF LastOf
<1> HIDE DEF before
<1>7. ASSUME NEW i \in 1 .. m PROVE z[i] = x[i]
  <2>1. i \in 1 .. m + n /\ u[i] = a[i]
    BY <1>1
  <2>2. i # 1 => i - 1 \in 1 .. m
    BY <1>1
  <2>3. Before(last, u, i) = Before(last, a, i)
    BY <1>1, <2>2 DEF Before
  <2>4. QED
    BY <1>2, <1>4, <2>1, <2>3
<1>8. ASSUME NEW i \in 1 .. n PROVE z[m + i] = y[i]
  <2>1. m + i \in 1 .. m + n /\ u[m + i] = b[i]
    BY <1>1
  <2>2. Before(last, u, m + i) = Before(before, b, i)
    <3>1. CASE i = 1
      <4>1. m + i - 1 = m /\ (m + i = 1 <=> m = 0)
        BY <3>1
      <4>2. Before(last, u, m + i) = before
        BY <1>5, <1>6, <4>1 DEF Before
      <4>3. QED
        BY <3>1, <4>2 DEF Before
    <3>2. CASE i # 1
      <4>1. i - 1 \in 1 .. n /\ m + (i - 1) = m + i - 1 /\ m + i # 1
        BY <3>2
      <4>2. u[m + i - 1] = b[i - 1]
        BY <1>1, <4>1
      <4>3. QED
        BY <3>2, <4>1, <4>2 DEF Before
    <3>3. QED
      BY <3>1, <3>2
  <2>3. QED
    BY <1>3, <1>4, <2>1, <2>2
<1>9. z = x \o y
  <2>1. \A i \in 1 .. Len(x) : z[i] = x[i]
    BY <1>2, <1>7
  <2>2. \A i \in 1 .. Len(y) : z[Len(x) + i] = y[i]
    BY <1>2, <1>3, <1>8
  <2>3. Len(z) = Len(x) + Len(y)
    BY <1>4
  <2>4. QED
    BY <2>1, <2>2, <2>3, ConcatEqual
<1>10. FlattenSeq(z) = FlattenSeq(x) \o FlattenSeq(y)
  BY <1>9, FlattenConcat
<1>11. QED
  BY <1>1, <1>2, <1>3, <1>4, <1>10, ConvertedTurned DEF before

\* A line feed that follows a carriage return is left as it is.
LEMMA ConvertedPlain ==
  ASSUME NEW last, NEW buf \in Seq(Symbol),
         \A i \in 1 .. Len(buf) : buf[i] = "LF" => i # 1 /\ buf[i - 1] = "CR"
  PROVE  Converted(last, buf) = buf
<1>1. PICK x \in Seq(Seq(Symbol)) : x = Turned(last, buf) /\ Len(x) = Len(buf)
        /\ \A i \in 1 .. Len(buf) : x[i] = TurnedByte(Before(last, buf, i), buf[i])
  BY TurnedType
<1>2. \A i \in 1 .. Len(buf) : x[i] = <<buf[i]>>
  BY <1>1 DEF TurnedByte, Before
<1>3. Len(buf) \in Nat
  OBVIOUS
<1> DEFINE F == [i \in 0 .. Len(buf) |-> SubSeq(buf, 1, i)]
<1>4. \A i \in 0 .. Len(buf) : F[i] = SubSeq(buf, 1, i)
  OBVIOUS
<1>5. ASSUME NEW i \in 0 .. Len(buf)
      PROVE  /\ SubSeq(buf, 1, i) \in Seq(Symbol) /\ Len(SubSeq(buf, 1, i)) = i
             /\ \A j \in 1 .. i : SubSeq(buf, 1, i)[j] = buf[j]
  BY <1>3
<1>6. F \in [0 .. Len(buf) -> Seq(Symbol)]
  BY <1>5
<1> HIDE DEF F
<1>7. F[0] = <<>>
  BY <1>3, <1>4, <1>5
<1>8. ASSUME NEW i \in 1 .. Len(buf) PROVE F[i] = F[i - 1] \o x[i]
  <2>1. i \in 0 .. Len(buf) /\ i - 1 \in 0 .. Len(buf)
    BY <1>3
  <2>2. PICK s \in Seq(Symbol), t \in Seq(Symbol) :
          /\ s = SubSeq(buf, 1, i) /\ t = SubSeq(buf, 1, i - 1) /\ Len(s) = i /\ Len(t) = i - 1
          /\ \A j \in 1 .. i : s[j] = buf[j]
          /\ \A j \in 1 .. i - 1 : t[j] = buf[j]
    BY <1>5, <2>1
  <2>3. x[i] = <<buf[i]>> /\ buf[i] \in Symbol
    BY <1>2
  <2>4. s = t \o <<buf[i]>>
    BY <2>2, <2>3
  <2>5. QED
    BY <1>4, <2>1, <2>2, <2>3, <2>4
<1>9. Joins(Symbol, x, Len(x), F)
  BY <1>1, <1>6, <1>7, <1>8 DEF Joins
<1>10. FlattenSeq(x) = F[Len(buf)]
  BY <1>1, <1>9, FlattenJoins
<1>11. F[Len(buf)] = buf
  <2>1. Len(buf) \in 0 .. Len(buf)
    BY <1>3
  <2>2. SubSeq(buf, 1, Len(buf)) = buf
    BY <1>3
  <2>3. QED
    BY <1>4, <2>1, <2>2
<1>12. QED
  BY <1>1, <1>10, <1>11, ConvertedTurned

-----------------------------------------------------------------------------
(* Drawing.                                                                *)

Plain == Symbol \ ({"left", "right", "prompt", "CR", "LF"} \cup NotOneColumn)
IsScreen(s) == s \in [row : Seq(Symbol), col : Nat] /\ s.col <= Len(s.row)

\* t is s with n symbols overwritten by those of p.
Overwrites(s, t, p, n) ==
  /\ IsScreen(t) /\ t.col = s.col + n
  /\ Len(t.row) = Larger(Len(s.row), s.col + n)
  /\ \A i \in 1 .. Len(t.row) :
       t.row[i] = IF i > s.col /\ i <= s.col + n THEN p[i - s.col] ELSE s.row[i]

LEMMA DrawnPlain ==
  ASSUME NEW s, IsScreen(s), NEW b \in Plain
  PROVE  LET t == Drawn(s, b)
         IN /\ IsScreen(t) /\ t.col = s.col + 1
            /\ Len(t.row) = Larger(Len(s.row), s.col + 1)
            /\ \A i \in 1 .. Len(t.row) :
                 t.row[i] = IF i = s.col + 1 THEN b ELSE s.row[i]
<1>1. PICK r \in Seq(Symbol), c \in Nat : r = s.row /\ c = s.col /\ c <= Len(r)
  BY DEF IsScreen
<1>2. Len(r) \in Nat /\ b \in Symbol
  BY DEF Plain
<1>3. Drawn(s, b) = [row |-> SubSeq(r, 1, c) \o <<b>> \o SubSeq(r, c + 2, Len(r)),
                     col |-> c + 1]
  <2>1. /\ b # "left" /\ b # "right" /\ b \notin {"prompt", "CR", "LF"}
        /\ b \notin {"ESC", "CTL", "LEAD"} /\ b # "TAB"
    BY DEF Plain, NotOneColumn
  <2>2. QED
    BY <1>1, <2>1 DEF Drawn
<1> DEFINE x == SubSeq(r, 1, c)
           y == SubSeq(r, c + 2, Len(r))
           v == x \o <<b>>
           w == v \o y
<1>4. x \in Seq(Symbol) /\ Len(x) = c /\ \A i \in 1 .. c : x[i] = r[i]
  <2>1. /\ SubSeq(r, 1, c) \in Seq(Symbol) /\ Len(SubSeq(r, 1, c)) = c + 1 - 1
        /\ \A i \in 1 .. c + 1 - 1 : SubSeq(r, 1, c)[i] = r[1 + i - 1]
    BY <1>1, SubSeqIs
  <2> HIDE DEF x
  <2>2. /\ x \in Seq(Symbol) /\ Len(x) = c + 1 - 1
        /\ \A i \in 1 .. c + 1 - 1 : x[i] = r[1 + i - 1]
    BY <2>1 DEF x
  <2>3. QED
    BY <2>2
<1>5. /\ y \in Seq(Symbol) /\ Len(y) = Larger(Len(r), c + 1) - (c + 1)
      /\ \A i \in 1 .. Len(y) : y[i] = r[c + 1 + i]
  <2>1. CASE c + 2 <= Len(r)
    <3>1. PICK m \in Nat, n \in Nat : m = c + 2 /\ n = Len(r) /\ 1 <= m /\ m <= n + 1
      BY <1>2, <2>1
    <3>2. /\ SubSeq(r, m, n) \in Seq(Symbol) /\ Len(SubSeq(r, m, n)) = n + 1 - m
          /\ \A i \in 1 .. n + 1 - m : SubSeq(r, m, n)[i] = r[m + i - 1]
      BY <3>1, SubSeqIs
    <3>3. y = SubSeq(r, m, n)
      BY <3>1
    <3> HIDE DEF y
    <3>4. /\ y \in Seq(Symbol) /\ Len(y) = n + 1 - m
          /\ \A i \in 1 .. n + 1 - m : y[i] = r[m + i - 1]
      BY <3>2, <3>3
    <3>5. Larger(Len(r), c + 1) - (c + 1) = n + 1 - m
      BY <1>2, <2>1, <3>1 DEF Larger
    <3>6. QED
      BY <3>1, <3>4, <3>5
  <2>2. CASE ~(c + 2 <= Len(r))
    <3>1. y = <<>>
      BY <1>1, <1>2, <2>2
    <3>2. Larger(Len(r), c + 1) = c + 1
      BY <1>1, <1>2, <2>2 DEF Larger
    <3> HIDE DEF y
    <3>3. QED
      BY <3>1, <3>2
  <2>3. QED
    BY <2>1, <2>2
<1>6. <<b>> \in Seq(Symbol) /\ Len(<<b>>) = 1 /\ <<b>>[1] = b
  BY <1>2
<1> HIDE DEF x, y
<1>7. /\ v \in Seq(Symbol) /\ Len(v) = c + 1 /\ v[c + 1] = b
      /\ \A i \in 1 .. c : v[i] = r[i]
  <2>1. /\ x \o <<b>> \in Seq(Symbol)
        /\ Len(x \o <<b>>) = Len(x) + Len(<<b>>)
        /\ \A i \in 1 .. Len(x) : (x \o <<b>>)[i] = x[i]
        /\ \A i \in 1 .. Len(<<b>>) : (x \o <<b>>)[Len(x) + i] = <<b>>[i]
    BY <1>4, <1>6, ConcatIs
  <2> HIDE DEF v
  <2>2. /\ v \in Seq(Symbol) /\ Len(v) = Len(x) + Len(<<b>>)
        /\ \A i \in 1 .. Len(x) : v[i] = x[i]
        /\ \A i \in 1 .. Len(<<b>>) : v[Len(x) + i] = <<b>>[i]
    BY <2>1 DEF v
  <2>3. v[c + 1] = b
    BY <1>4, <1>6, <2>2
  <2>4. QED
    BY <1>4, <1>6, <2>2, <2>3
<1> HIDE DEF v
<1>8. /\ w \in Seq(Symbol) /\ Len(w) = Larger(Len(r), c + 1)
      /\ \A i \in 1 .. c + 1 : w[i] = v[i]
      /\ \A i \in 1 .. Len(y) : w[c + 1 + i] = y[i]
  <2> HIDE DEF w
  <2>1. /\ v \o y \in Seq(Symbol)
        /\ Len(v \o y) = Len(v) + Len(y)
        /\ \A i \in 1 .. Len(v) : (v \o y)[i] = v[i]
        /\ \A i \in 1 .. Len(y) : (v \o y)[Len(v) + i] = y[i]
    <3>1. \A q, z \in Seq(Symbol) :
            /\ q \o z \in Seq(Symbol) /\ Len(q \o z) = Len(q) + Len(z)
            /\ \A i \in 1 .. Len(q) : (q \o z)[i] = q[i]
            /\ \A i \in 1 .. Len(z) : (q \o z)[Len(q) + i] = z[i]
      BY ConcatIs
    <3>2. v \in Seq(Symbol) /\ y \in Seq(Symbol)
      BY <1>5, <1>7
    <3>3. QED
      BY <3>1, <3>2, Zenon
  <2>2. /\ w \in Seq(Symbol)
        /\ Len(w) = Len(v) + Len(y)
        /\ \A i \in 1 .. Len(v) : w[i] = v[i]
        /\ \A i \in 1 .. Len(y) : w[Len(v) + i] = y[i]
    BY <2>1 DEF w
  <2>3. Larger(Len(r), c + 1) \in Nat
    BY <1>2 DEF Larger
  <2>4. Len(w) = Larger(Len(r), c + 1)
    BY <1>5, <1>7, <2>2, <2>3
  <2>5. QED
    BY <1>7, <2>2, <2>4
<1>10. Drawn(s, b) = [row |-> w, col |-> c + 1]
  BY <1>3 DEF w, v, x, y
<1> HIDE DEF w
<1>9. ASSUME NEW i \in 1 .. Len(w) PROVE w[i] = IF i = c + 1 THEN b ELSE r[i]
  <2>1. CASE i <= c + 1
    BY <1>7, <1>8, <2>1
  <2>2. CASE ~(i <= c + 1)
    <3>1. i - (c + 1) \in 1 .. Len(y) /\ c + 1 + (i - (c + 1)) = i
      BY <1>5, <1>8, <2>2
    <3>2. w[c + 1 + (i - (c + 1))] = r[c + 1 + (i - (c + 1))]
      BY <1>5, <1>8, <3>1
    <3>3. QED
      BY <2>2, <3>1, <3>2
  <2>3. QED
    BY <2>1, <2>2
<1>11. c + 1 <= Len(w)
  BY <1>2, <1>8 DEF Larger
<1>12. QED
  BY <1>1, <1>8, <1>9, <1>10, <1>11 DEF IsScreen

LEMMA ShowsPlain ==
  ASSUME NEW s, IsScreen(s), NEW p \in Seq(Plain)
  PROVE  Overwrites(s, Shows(s, p), p, Len(p))
<1>1. Len(p) \in Nat /\ Len(p) \in 0 .. Len(p)
  OBVIOUS
<1>2. PICK f : Draws(s, p, Len(p), f)
  BY <1>1, DrawsExist
<1>3. PICK r \in Seq(Symbol), c \in Nat : r = s.row /\ c = s.col /\ c <= Len(r)
  BY DEF IsScreen
<1>4. Len(r) \in Nat
  OBVIOUS
<1> DEFINE T == {n \in 0 .. Len(p) : ~Overwrites(s, f[n], p, n)}
<1>5. T = {}
  <2> SUFFICES ASSUME T # {} PROVE FALSE
    OBVIOUS
  <2>1. PICK x \in T : \A y \in T : x <= y
    <3>1. T \subseteq Nat
      OBVIOUS
    <3> HIDE DEF T
    <3>2. QED
      BY <3>1, Smallest
  <2>2. x \in 0 .. Len(p) /\ ~Overwrites(s, f[x], p, x)
    BY <2>1
  <2>3. CASE x = 0
    <3>1. f[x] = s
      BY <1>2, <2>3 DEF Draws
    <3>2. Larger(Len(r), c + 0) = Len(r)
      BY <1>3, <1>4 DEF Larger
    <3>3. Overwrites(s, s, p, 0)
      BY <1>3, <1>4, <3>2 DEF Overwrites
    <3>4. QED
      BY <2>2, <2>3, <3>1, <3>3
  <2>4. CASE x # 0
    <3>1. x - 1 \in 0 .. Len(p) /\ ~(x <= x - 1) /\ x \in 1 .. Len(p)
      BY <1>1, <2>2, <2>4
    <3>2. Overwrites(s, f[x - 1], p, x - 1)
      BY <2>1, <3>1
    <3>3. f[x] = Drawn(f[x - 1], p[x]) /\ p[x] \in Plain
      BY <1>2, <3>1 DEF Draws
    <3>4. PICK u : u = f[x - 1] /\ IsScreen(u) /\ u.col = c + (x - 1)
            /\ Len(u.row) = Larger(Len(r), c + (x - 1))
            /\ \A i \in 1 .. Len(u.row) :
                 u.row[i] = IF i > c /\ i <= c + (x - 1) THEN p[i - c] ELSE r[i]
      BY <1>3, <3>2 DEF Overwrites
    <3>5. PICK t : t = f[x] /\ IsScreen(t) /\ t.col = u.col + 1
            /\ Len(t.row) = Larger(Len(u.row), u.col + 1)
            /\ \A i \in 1 .. Len(t.row) :
                 t.row[i] = IF i = u.col + 1 THEN p[x] ELSE u.row[i]
      <4>1. PICK b \in Plain : b = p[x]
        BY <3>3, Zenon
      <4>2. IsScreen(u)
        BY <3>4, Zenon
      <4>3. LET t == Drawn(u, b)
            IN /\ IsScreen(t) /\ t.col = u.col + 1
               /\ Len(t.row) = Larger(Len(u.row), u.col + 1)
               /\ \A i \in 1 .. Len(t.row) :
                    t.row[i] = IF i = u.col + 1 THEN b ELSE u.row[i]
        BY <4>2, DrawnPlain, ZenonT(30)
      <4>4. QED
        BY <3>3, <3>4, <4>1, <4>3, ZenonT(30)
    <3>6. t.col = c + x /\ Len(t.row) = Larger(Len(r), c + x)
      BY <1>4, <3>1, <3>4, <3>5 DEF Larger
    <3>7. ASSUME NEW i \in 1 .. Len(t.row)
          PROVE  t.row[i] = IF i > c /\ i <= c + x THEN p[i - c] ELSE r[i]
      <4>1. CASE i = c + x
        <5>1. u.col + 1 = i /\ i - c = x /\ i > c
          BY <3>1, <3>4, <4>1
        <5>2. QED
          BY <3>5, <4>1, <5>1
      <4>2. CASE i # c + x
        <5>1. i \in 1 .. Len(u.row)
          BY <1>4, <3>1, <3>4, <3>6, <4>2 DEF Larger
        <5>2. t.row[i] = u.row[i]
          BY <3>1, <3>4, <3>5, <4>2
        <5>3. (i > c /\ i <= c + x) <=> (i > c /\ i <= c + (x - 1))
          BY <3>1, <4>2
        <5>4. QED
          BY <3>4, <5>1, <5>2, <5>3
      <4>3. QED
        BY <4>1, <4>2
    <3>8. Overwrites(s, t, p, x)
      BY <1>3, <3>5, <3>6, <3>7 DEF Overwrites
    <3>9. QED
      BY <2>2, <3>5, <3>8
  <2>5. QED
    BY <2>3, <2>4
<1>6. Shows(s, p) = f[Len(p)]
  BY <1>1, <1>2, ShowsDraws
<1>7. QED
  BY <1>1, <1>5, <1>6

LEMMA ShowsLefts ==
  ASSUME NEW s, IsScreen(s), NEW n \in Nat, n <= s.col
  PROVE  /\ Shows(s, Times(n, "left")) = [row |-> s.row, col |-> s.col - n]
         /\ IsScreen([row |-> s.row, col |-> s.col - n])
<1>1. PICK r \in Seq(Symbol), c \in Nat : r = s.row /\ c = s.col /\ c <= Len(r)
  BY DEF IsScreen
<1>2. s = [row |-> r, col |-> c]
  BY <1>1 DEF IsScreen
<1>3. PICK p \in Seq({"left"}) : p = Times(n, "left") /\ Len(p) = n /\ \A i \in 1 .. n : p[i] = "left"
  <2>1. Times(n, "left") = [i \in 1 .. n |-> "left"]
    BY DEF Times
  <2>2. [i \in 1 .. n |-> "left"] \in Seq({"left"}) /\ Len([i \in 1 .. n |-> "left"]) = n
    OBVIOUS
  <2>3. QED
    BY <2>1, <2>2
<1>a. Len(p) \in Nat /\ n \in 0 .. Len(p)
  BY <1>3
<1>4. PICK f : Draws(s, p, n, f)
  BY <1>a, DrawsExist
<1> DEFINE T == {k \in 0 .. n : f[k] # [row |-> r, col |-> c - k]}
<1>5. T = {}
  <2> SUFFICES ASSUME T # {} PROVE FALSE
    OBVIOUS
  <2>1. PICK x \in T : \A y \in T : x <= y
    <3>1. T \subseteq Nat
      OBVIOUS
    <3> HIDE DEF T
    <3>2. QED
      BY <3>1, Smallest
  <2>2. x \in 0 .. n /\ f[x] # [row |-> r, col |-> c - x]
    BY <2>1
  <2>3. CASE x = 0
    <3>1. f[x] = s /\ c - x = c
      BY <1>4, <2>3 DEF Draws
    <3>2. QED
      BY <1>2, <2>2, <3>1
  <2>4. CASE x # 0
    <3>1. x - 1 \in 0 .. n /\ ~(x <= x - 1) /\ x \in 1 .. n
      BY <2>2, <2>4
    <3>2. f[x - 1] = [row |-> r, col |-> c - (x - 1)]
      BY <2>1, <3>1
    <3>3. f[x] = Drawn(f[x - 1], "left")
      BY <1>3, <1>4, <3>1 DEF Draws
    <3>4. f[x] = [row |-> r, col |-> c - (x - 1) - 1]
      BY <3>2, <3>3 DEF Drawn
    <3>5. c - (x - 1) - 1 = c - x
      BY <2>2
    <3>6. QED
      BY <2>2, <3>4, <3>5
  <2>5. QED
    BY <2>3, <2>4
<1>6. Shows(s, p) = f[n]
  <2>1. Draws(s, p, Len(p), f)
    BY <1>3, <1>4
  <2>2. Shows(s, p) = f[Len(p)]
    BY <1>a, <2>1, ShowsDraws
  <2>3. Len(p) = n
    BY <1>3
  <2>4. QED
    BY <2>2, <2>3
<1>7. f[n] = [row |-> r, col |-> c - n]
  <2>1. n \in 0 .. n
    OBVIOUS
  <2>2. ASSUME f[n] # [row |-> r, col |-> c - n] PROVE n \in T
    BY <2>1, <2>2, Zenon
  <2>3. n \notin T
    <3> HIDE DEF T
    <3>1. QED
      BY <1>5
  <2>4. QED
    BY <2>2, <2>3
<1>8. IsScreen([row |-> r, col |-> c - n])
  BY <1>1 DEF IsScreen
<1>9. QED
  BY <1>1, <1>3, <1>6, <1>7, <1>8

\* The prompt and the end of a line leave an empty row.
LEMMA ShowsPrompt ==
  ASSUME NEW s, NEW a \in Seq(Symbol), NEW b \in {"prompt", "LF"}
  PROVE  Shows(s, a \o <<b>>) = BlankScreen /\ IsScreen(BlankScreen)
<1>1. <<b>> \in Seq(Symbol)
  <2>1. b \in Symbol
    BY DEF Symbol
  <2>2. QED
    BY <2>1, OneOf
<1>2. Shows(s, a \o <<b>>) = Shows(Shows(s, a), <<b>>)
  <2>1. \A u \in Seq(Symbol) : Shows(s, a \o u) = Shows(Shows(s, a), u)
    BY ShowsConcat
  <2>2. QED
    BY <1>1, <2>1
<1>3. Shows(Shows(s, a), <<b>>) = Drawn(Shows(s, a), b)
  BY ShowsOne
<1>4. Drawn(Shows(s, a), b) = BlankScreen
  BY DEF Drawn
<1>5. IsScreen(BlankScreen)
  BY DEF IsScreen, BlankScreen
<1>6. QED
  BY <1>2, <1>3, <1>4, <1>5

-----------------------------------------------------------------------------
(* The line editor.                                                        *)

\* An editor of lines of what is in P.
EditorIn(P, e) ==
  /\ e \in [line : Seq(P), cursor : Nat, history : Seq(Seq(P)), history_pos : Nat]
  /\ e.cursor <= Len(e.line) /\ e.history_pos <= Len(e.history)
EditorOK(e) == EditorIn(Plain, e)

\* Agree, symbol by symbol.
Tidy(s, e) ==
  /\ IsScreen(s) /\ s.col = e.cursor /\ Len(e.line) <= Len(s.row)
  /\ \A i \in 1 .. Len(s.row) :
       s.row[i] = IF i <= Len(e.line) THEN e.line[i] ELSE " "

LEMMA TidyIs ==
  ASSUME NEW s, NEW e, EditorOK(e), Tidy(s, e)
  PROVE  /\ s.row \in Seq(Symbol) /\ e.line \in Seq(Plain) /\ s.col \in Nat
         /\ s.col = e.cursor /\ s.col <= Len(e.line) /\ Len(e.line) <= Len(s.row)
         /\ Len(e.line) \in Nat /\ Len(s.row) \in Nat
         /\ \A i \in 1 .. Len(s.row) :
              s.row[i] = IF i <= Len(e.line) THEN e.line[i] ELSE " "
<1> DEFINE r == s.row
           l == e.line
           c == s.col
<1>1. IsScreen(s) /\ c = e.cursor /\ Len(l) <= Len(r)
  BY Zenon DEF Tidy
<1>2. \A i \in 1 .. Len(r) : r[i] = IF i <= Len(l) THEN l[i] ELSE " "
  BY Zenon DEF Tidy
<1>3. r \in Seq(Symbol) /\ c \in Nat
  BY <1>1 DEF IsScreen
<1>4. l \in Seq(Plain) /\ e.cursor <= Len(l)
  BY DEF EditorOK, EditorIn
<1> HIDE DEF r, l, c
<1>5. Len(r) \in Nat /\ Len(l) \in Nat
  BY <1>3, <1>4
<1>6. r = s.row /\ c = s.col /\ l = e.line
  BY DEF r, c, l
<1>7. c <= Len(l)
  BY <1>1, <1>4
<1>8. QED
  BY <1>1, <1>2, <1>3, <1>4, <1>5, <1>7 DEF r, c, l

LEMMA LargerIs ==
  \A m, n \in Nat : /\ Larger(m, n) \in Nat /\ m <= Larger(m, n) /\ n <= Larger(m, n)
                    /\ (Larger(m, n) = m \/ Larger(m, n) = n)
BY DEF Larger

LEMMA TidyAgrees ==
  ASSUME NEW s, NEW e, EditorOK(e), Tidy(s, e)
  PROVE  Agree(s, e)
<1> DEFINE r == s.row
           l == e.line
           c == s.col
<1>0. /\ r \in Seq(Symbol) /\ l \in Seq(Plain) /\ c \in Nat
      /\ c = e.cursor /\ c <= Len(l) /\ Len(l) <= Len(r)
      /\ Len(l) \in Nat /\ Len(r) \in Nat
      /\ \A i \in 1 .. Len(r) : r[i] = IF i <= Len(l) THEN l[i] ELSE " "
  BY TidyIs
<1>a. r = s.row /\ l = e.line /\ c = s.col
  OBVIOUS
<1> HIDE DEF r, l, c
<1>1. /\ r = s.row /\ c = s.col /\ l = e.line /\ c = e.cursor
      /\ c <= Len(l) /\ Len(l) <= Len(r) /\ Len(l) \in Nat /\ Len(r) \in Nat
      /\ \A i \in 1 .. Len(r) : r[i] = IF i <= Len(l) THEN l[i] ELSE " "
  BY <1>0, <1>a, Zenon
<1>2. PICK n \in Nat : n = Len(l) /\ n <= Len(r)
  BY <1>1
<1>3. SubSeq(l, 1, n) = SubSeq(r, 1, n)
  <2>1. SubSeq(l, 1, n) = [i \in 1 .. n |-> l[i]]
    BY <1>2
  <2>2. SubSeq(r, 1, n) = [i \in 1 .. n |-> r[i]]
    BY <1>2
  <2>3. ASSUME NEW i \in 1 .. n PROVE l[i] = r[i]
    <3>0. n <= Len(r) /\ Len(r) \in Nat /\ n = Len(l)
      BY <1>1, <1>2, Zenon
    <3>1. i \in 1 .. Len(r) /\ i <= Len(l)
      BY <3>0
    <3>2. QED
      BY <1>1, <3>1, Zenon
  <2>4. QED
    BY <2>1, <2>2, <2>3, Zenon
<1>4. IsPrefix(l, r)
  <2>1. SubSeq(l, 1, Len(l)) = SubSeq(r, 1, Len(l))
    BY <1>2, <1>3, Zenon
  <2>2. QED
    BY <1>1, <2>1, Zenon DEF IsPrefix
<1>5. ASSUME NEW i \in Len(l) + 1 .. Len(r) PROVE r[i] = " "
  <2>0. Len(l) \in Nat /\ Len(r) \in Nat
    BY <1>1, Zenon
  <2>1. i \in 1 .. Len(r) /\ ~(i <= Len(l))
    BY <2>0
  <2>2. QED
    BY <1>1, <2>1, Zenon
<1>6. QED
  BY <1>1, <1>4, <1>5, Zenon DEF Agree

LEMMA TidyMade ==
  ASSUME NEW s, NEW e, IsScreen(s), s.col = e.cursor,
         NEW r \in Seq(Symbol), NEW l \in Seq(Plain), r = s.row, l = e.line,
         Len(l) <= Len(r),
         \A i \in 1 .. Len(r) : r[i] = IF i <= Len(l) THEN l[i] ELSE " "
  PROVE  Tidy(s, e)
BY Zenon DEF Tidy

LEMMA OverwritesIs ==
  ASSUME NEW s, NEW r, NEW c, r = s.row, c = s.col, NEW t, NEW p, NEW n,
         Overwrites(s, t, p, n)
  PROVE  /\ t.row \in Seq(Symbol) /\ t.col \in Nat /\ t.col = c + n
         /\ t.col <= Len(t.row) /\ IsScreen(t) /\ Len(t.row) = Larger(Len(r), c + n)
         /\ \A i \in 1 .. Len(t.row) :
              t.row[i] = IF i > c /\ i <= c + n THEN p[i - c] ELSE r[i]
<1>1. IsScreen(t) /\ t.col = c + n /\ Len(t.row) = Larger(Len(r), c + n)
  BY Zenon DEF Overwrites
<1>2. \A i \in 1 .. Len(t.row) :
        t.row[i] = IF i > c /\ i <= c + n THEN p[i - c] ELSE r[i]
  BY Zenon DEF Overwrites
<1>3. t.row \in Seq(Symbol) /\ t.col \in Nat /\ t.col <= Len(t.row)
  BY <1>1 DEF IsScreen
<1>4. QED
  BY <1>1, <1>2, <1>3, Zenon

\* What an edit writes is not changed on its way.
Clean(out) ==
  /\ out \in Seq(Symbol)
  /\ \A i \in 1 .. Len(out) : out[i] = "LF" => i # 1 /\ out[i - 1] = "CR"
Quiet == Plain \cup {"left", "right"}

LEMMA QuietIsClean ==
  ASSUME NEW out \in Seq(Quiet)
  PROVE  Clean(out)
<1>1. \A i \in 1 .. Len(out) : out[i] \in Quiet
  OBVIOUS
<1>2. Quiet \subseteq Symbol /\ "LF" \notin Quiet
  BY DEF Quiet, Plain, Symbol, NotOneColumn
<1>3. out \in Seq(Symbol)
  BY <1>1, <1>2
<1>4. QED
  BY <1>1, <1>2, <1>3 DEF Clean

LEMMA TimesIs ==
  ASSUME NEW S, NEW n \in Nat, NEW b \in S
  PROVE  Times(n, b) \in Seq(S) /\ Len(Times(n, b)) = n /\ \A i \in 1 .. n : Times(n, b)[i] = b
<1>1. Times(n, b) = [i \in 1 .. n |-> b]
  BY DEF Times
<1>2. QED
  BY <1>1

LEMMA LongerSeq ==
  ASSUME NEW S, NEW T, S \subseteq T, NEW s \in Seq(S)
  PROVE  s \in Seq(T)
OBVIOUS

\* After refresh_line the terminal shows the new line.
LEMMA RefreshTidy ==
  ASSUME NEW s, NEW e, NEW new, EditorOK(e), EditorOK(new), Tidy(s, e)
  PROVE  /\ Refresh(e, new).ed = new /\ Refresh(e, new).out \in Seq(Quiet)
         /\ Tidy(Shows(s, Refresh(e, new).out), new)
<1> DEFINE r == s.row
           l == e.line
           c == s.col
<1>0. /\ r \in Seq(Symbol) /\ l \in Seq(Plain) /\ c \in Nat
      /\ c = e.cursor /\ c <= Len(l) /\ Len(l) <= Len(r)
      /\ Len(l) \in Nat /\ Len(r) \in Nat
      /\ \A i \in 1 .. Len(r) : r[i] = IF i <= Len(l) THEN l[i] ELSE " "
  BY TidyIs
<1>a. r = s.row /\ l = e.line /\ c = s.col
  OBVIOUS
<1> HIDE DEF r, l, c
<1>1. /\ r = s.row /\ c = s.col /\ l = e.line /\ c = e.cursor
      /\ c <= Len(l) /\ Len(l) <= Len(r) /\ Len(l) \in Nat /\ Len(r) \in Nat
      /\ \A i \in 1 .. Len(r) : r[i] = IF i <= Len(l) THEN l[i] ELSE " "
  BY <1>0, <1>a, Zenon
<1>2. PICK k \in Seq(Plain), d \in Nat : k = new.line /\ d = new.cursor /\ d <= Len(k)
  BY DEF EditorOK, EditorIn
<1>3. Len(k) \in Nat
  OBVIOUS
<1>4. PICK n \in Nat : n = Larger(Len(l), Len(k)) /\ Len(l) <= n /\ Len(k) <= n
  BY <1>1, <1>3, LargerIs, Zenon
<1>5. PICK m \in Nat, g \in Nat : m = n - Len(k) /\ g = n - d /\ Len(k) + m = n /\ d + g = n
  <2>1. n - Len(k) \in Nat /\ n - d \in Nat /\ Len(k) + (n - Len(k)) = n /\ d + (n - d) = n
    <3>1. d <= Len(k) /\ Len(k) <= n /\ Len(k) \in Nat
      BY <1>2, <1>3, <1>4, Zenon
    <3>2. QED
      BY <3>1
  <2>2. QED
    BY <2>1, Zenon
<1>6. Plain \subseteq Quiet /\ "left" \in Quiet /\ Quiet \subseteq Symbol /\ " " \in Plain
  BY DEF Plain, Quiet, Symbol, NotOneColumn
<1>7. PICK w \in Seq(Quiet) : w = Times(c, "left")
  BY <1>0, <1>6, TimesIs
<1>8. PICK x \in Seq(Plain) : x = Times(m, " ") /\ Len(x) = m /\ \A i \in 1 .. m : x[i] = " "
  <2>1. Times(m, " ") \in Seq(Plain) /\ Len(Times(m, " ")) = m
    BY <1>6, TimesIs
  <2>2. \A i \in 1 .. m : Times(m, " ")[i] = " "
    BY <1>6, TimesIs
  <2>3. QED
    BY <2>1, <2>2, Zenon
<1>9. PICK y \in Seq(Quiet) : y = Times(g, "left")
  BY <1>6, TimesIs
<1>10. k \in Seq(Quiet) /\ x \in Seq(Quiet)
  <2>1. \A u \in Seq(Plain) : u \in Seq(Quiet)
    BY <1>6, LongerSeq
  <2>2. QED
    BY <2>1, Zenon
<1>11. Refresh(e, new) = [ed |-> new, out |-> ((w \o k) \o x) \o y]
  BY <1>1, <1>2, <1>4, <1>5, <1>7, <1>8, <1>9, Zenon DEF Refresh, Edit
<1>12. PICK s1 : s1 = Shows(s, w) /\ IsScreen(s1) /\ s1.row = r /\ s1.col = 0
  <2>1. IsScreen(s)
    BY Zenon DEF Tidy
  <2>2. c <= s.col /\ s.col - c = 0
    <3>0. c \in Nat
      BY <1>0
    <3>1. c <= c /\ c - c = 0
      BY <3>0, SMT
    <3>2. QED
      BY <1>1, <3>1, Zenon
  <2>3. Shows(s, Times(c, "left")) = [row |-> s.row, col |-> s.col - c]
    BY <1>0, <2>1, <2>2, ShowsLefts
  <2>4. IsScreen([row |-> s.row, col |-> s.col - c])
    BY <1>0, <2>1, <2>2, ShowsLefts
  <2>5. Shows(s, w) = [row |-> r, col |-> 0] /\ IsScreen([row |-> r, col |-> 0])
    BY <1>1, <1>7, <2>2, <2>3, <2>4, Zenon
  <2>6. [row |-> r, col |-> 0].row = r /\ [row |-> r, col |-> 0].col = 0
    OBVIOUS
  <2> DEFINE z == Shows(s, w)
  <2>7. IsScreen(z) /\ z.row = r /\ z.col = 0
    BY <2>5, <2>6, Zenon
  <2>8. z = Shows(s, w)
    OBVIOUS
  <2> HIDE DEF z
  <2>9. QED
    BY <2>7, <2>8, Zenon
<1> DEFINE s2 == Shows(s1, k)
           q2 == s2.row
           d2 == s2.col
<1>13. /\ q2 \in Seq(Symbol) /\ d2 \in Nat /\ IsScreen(s2)
       /\ d2 = 0 + Len(k) /\ Len(q2) = Larger(Len(r), 0 + Len(k))
       /\ \A i \in 1 .. Len(q2) :
              q2[i] = IF i > 0 /\ i <= 0 + Len(k) THEN k[i - 0] ELSE r[i]
  <2>1. Overwrites(s1, s2, k, Len(k))
    BY <1>12, ShowsPlain
  <2> HIDE DEF s2
  <2>2. r = s1.row /\ 0 = s1.col
    BY <1>12
  <2>3. QED
    BY <2>1, <2>2, OverwritesIs
<1>b. s2 = Shows(s1, k) /\ q2 = s2.row /\ d2 = s2.col
  OBVIOUS
<1> HIDE DEF s2, q2, d2
<1> DEFINE s3 == Shows(s2, x)
           q3 == s3.row
           d3 == s3.col
<1>14. /\ q3 \in Seq(Symbol) /\ d3 \in Nat /\ IsScreen(s3)
       /\ d3 = d2 + Len(x) /\ Len(q3) = Larger(Len(q2), d2 + Len(x))
       /\ \A i \in 1 .. Len(q3) :
              q3[i] = IF i > d2 /\ i <= d2 + Len(x) THEN x[i - d2] ELSE q2[i]
  <2>1. Overwrites(s2, s3, x, Len(x))
    BY <1>13, ShowsPlain
  <2> HIDE DEF s3
  <2>2. QED
    BY <1>b, <2>1, OverwritesIs
<1>c. s3 = Shows(s2, x) /\ q3 = s3.row /\ d3 = s3.col
  OBVIOUS
<1> HIDE DEF s3, q3, d3
<1>15. d2 = Len(k) /\ d3 = n
  <2>1. d2 = 0 + Len(k) /\ d3 = d2 + m /\ Len(k) + m = n
    BY <1>5, <1>8, <1>13, <1>14, Zenon
  <2>2. QED
    BY <1>3, <2>1
<1>16. PICK s4 : s4 = Shows(s3, y) /\ IsScreen(s4) /\ s4.row = q3 /\ s4.col = d
  <2>1. IsScreen(s3) /\ g <= s3.col /\ s3.col - g = d
    <3>1. g <= n /\ n - g = d
      BY <1>5
    <3>2. s3.col = n
      BY <1>15, <1>c, Zenon
    <3>3. QED
      BY <1>14, <3>1, <3>2, Zenon
  <2>2. Shows(s3, Times(g, "left")) = [row |-> s3.row, col |-> s3.col - g]
    BY <2>1, ShowsLefts
  <2>3. IsScreen([row |-> s3.row, col |-> s3.col - g])
    BY <2>1, ShowsLefts
  <2>4. QED
    <3> DEFINE z == Shows(s3, y)
    <3>1. z = [row |-> q3, col |-> d] /\ IsScreen([row |-> q3, col |-> d])
      BY <1>9, <1>c, <2>1, <2>2, <2>3, Zenon
    <3>2. [row |-> q3, col |-> d].row = q3 /\ [row |-> q3, col |-> d].col = d
      OBVIOUS
    <3>3. IsScreen(z) /\ z.row = q3 /\ z.col = d
      BY <3>1, <3>2, Zenon
    <3>4. z = Shows(s3, y)
      OBVIOUS
    <3> HIDE DEF z
    <3>5. QED
      BY <3>3, <3>4, Zenon
<1>17. PICK a \in Nat, b \in Nat : a = Len(q2) /\ b = Len(q3)
  BY <1>13, <1>14
<1>18. a = Larger(Len(r), Len(k)) /\ b = Larger(a, n)
  <2>1. 0 + Len(k) = Len(k) /\ Len(k) + m = n
    BY <1>3, <1>5
  <2>2. d2 + Len(x) = n
    BY <1>8, <1>15, <2>1, Zenon
  <2>3. QED
    BY <1>13, <1>14, <1>17, <2>1, <2>2, Zenon
<1>19. ASSUME NEW i \in 1 .. a PROVE q2[i] = IF i <= Len(k) THEN k[i] ELSE r[i]
  <2>1. i > 0 /\ i - 0 = i /\ 0 + Len(k) = Len(k)
    BY <1>3
  <2>2. QED
    BY <1>13, <1>17, <2>1
<1>20. ASSUME NEW i \in 1 .. b PROVE q3[i] = IF i > Len(k) /\ i <= n THEN " " ELSE q2[i]
  <2>1. q3[i] = IF i > d2 /\ i <= d2 + Len(x) THEN x[i - d2] ELSE q2[i]
    BY <1>14, <1>17
  <2>2. CASE i > Len(k) /\ i <= n
    <3>0. d2 + Len(x) = n /\ d2 = Len(k)
      BY <1>3, <1>5, <1>8, <1>15
    <3>1. i - d2 \in 1 .. m /\ i > d2 /\ i <= d2 + Len(x)
      BY <1>3, <1>5, <2>2, <3>0
    <3>2. QED
      BY <1>8, <2>1, <2>2, <3>1
  <2>3. CASE ~(i > Len(k) /\ i <= n)
    BY <1>5, <1>8, <1>15, <2>1, <2>3
  <2>4. QED
    BY <2>2, <2>3
<1>21. Len(k) <= Len(q3) /\ n <= b
  <2>1. Len(k) <= a /\ a <= b /\ n <= b
    BY <1>1, <1>3, <1>18, LargerIs, Zenon
  <2>2. QED
    BY <1>3, <1>17, <2>1
<1>22. ASSUME NEW i \in 1 .. b PROVE q3[i] = IF i <= Len(k) THEN k[i] ELSE " "
  <2>1. CASE i <= Len(k)
    <3>0. Len(k) <= a
      BY <1>1, <1>3, <1>18, LargerIs, Zenon
    <3>1. i \in 1 .. a /\ ~(i > Len(k))
      BY <1>3, <2>1, <3>0
    <3>2. q3[i] = q2[i] /\ q2[i] = k[i]
      BY <1>19, <1>20, <2>1, <3>1, Zenon
    <3>3. QED
      BY <2>1, <3>2
  <2>2. CASE ~(i <= Len(k)) /\ i <= n
    <3>1. i > Len(k)
      BY <1>3, <2>2
    <3>2. QED
      BY <1>20, <2>2, <3>1, Zenon
  <2>3. CASE ~(i <= n)
    <3>0. (a = Len(r) \/ a = Len(k)) /\ (b = a \/ b = n)
      BY <1>1, <1>3, <1>18, LargerIs, Zenon
    <3>1. i \in 1 .. a /\ i \in 1 .. Len(r) /\ ~(i <= Len(k)) /\ ~(i <= Len(l))
      <4>1. Len(l) \in Nat /\ Len(r) \in Nat /\ Len(l) <= n /\ Len(k) <= n
        BY <1>1, <1>4, Zenon
      <4>2. QED
        BY <1>3, <2>3, <3>0, <4>1
    <3>2. q2[i] = r[i]
      BY <1>19, <3>1
    <3>3. r[i] = " "
      BY <1>1, <3>1
    <3>4. q3[i] = q2[i]
      BY <1>20, <2>3
    <3>5. QED
      BY <3>1, <3>2, <3>3, <3>4
  <2>4. QED
    BY <2>1, <2>2, <2>3
<1>23. Tidy(s4, new)
  <2>1. s4.col = new.cursor /\ q3 = s4.row /\ k = new.line
    BY <1>2, <1>16
  <2>2. \A i \in 1 .. Len(q3) : q3[i] = IF i <= Len(k) THEN k[i] ELSE " "
    BY <1>17, <1>22
  <2>3. QED
    BY <1>14, <1>16, <1>21, <2>1, <2>2, TidyMade
<1>24. Shows(s, ((w \o k) \o x) \o y) = s4
  <2>1. \A u, v \in Seq(Quiet) : u \o v \in Seq(Quiet)
    OBVIOUS
  <2>2. ASSUME NEW z, NEW u \in Seq(Quiet), NEW v \in Seq(Quiet)
        PROVE  Shows(z, u \o v) = Shows(Shows(z, u), v)
    BY ShowsConcat
  <2>3. w \o k \in Seq(Quiet) /\ (w \o k) \o x \in Seq(Quiet)
    BY <1>10, <2>1, Zenon
  <2>4. Shows(s, w \o k) = s2
    BY <1>10, <1>12, <1>b, <2>2, Zenon
  <2>5. Shows(s, (w \o k) \o x) = s3
    BY <1>10, <1>c, <2>2, <2>3, <2>4, Zenon
  <2>6. QED
    BY <1>16, <2>2, <2>3, <2>5, Zenon
<1>25. ((w \o k) \o x) \o y \in Seq(Quiet)
  <2>1. \A u, v \in Seq(Quiet) : u \o v \in Seq(Quiet)
    OBVIOUS
  <2>2. QED
    BY <1>10, <2>1, Zenon
<1>26. QED
  <2>1. Refresh(e, new).ed = new
    BY <1>11
  <2>2. Refresh(e, new).out = ((w \o k) \o x) \o y
    BY <1>11
  <2>3. QED
    BY <1>23, <1>24, <1>25, <2>1, <2>2, Zenon

LEMMA EditorIs ==
  ASSUME NEW P, NEW e, EditorIn(P, e)
  PROVE  /\ e.line \in Seq(P) /\ e.cursor \in Nat /\ e.history \in Seq(Seq(P))
         /\ e.history_pos \in Nat /\ e.cursor <= Len(e.line)
         /\ e.history_pos <= Len(e.history) /\ Len(e.line) \in Nat
         /\ Len(e.history) \in Nat
<1>1. /\ e.line \in Seq(P) /\ e.cursor \in Nat /\ e.history \in Seq(Seq(P))
      /\ e.history_pos \in Nat /\ e.cursor <= Len(e.line)
      /\ e.history_pos <= Len(e.history)
  BY DEF EditorIn
<1>2. \A S : \A q \in Seq(S) : Len(q) \in Nat
  OBVIOUS
<1>3. QED
  BY <1>1, <1>2, Zenon

LEMMA EditorMade ==
  ASSUME NEW P, NEW l \in Seq(P), NEW c \in Nat, NEW h \in Seq(Seq(P)), NEW p \in Nat,
         c <= Len(l), p <= Len(h)
  PROVE  LET e == [line |-> l, cursor |-> c, history |-> h, history_pos |-> p]
         IN EditorIn(P, e) /\ e.line = l /\ e.cursor = c
BY DEF EditorIn

\* Changes of an editor's fields.
LEMMA CursorChange ==
  ASSUME NEW P, NEW e, EditorIn(P, e), NEW c
  PROVE  [e EXCEPT !.cursor = c]
           = [line |-> e.line, cursor |-> c, history |-> e.history,
              history_pos |-> e.history_pos]
<1>1. PICK a, b, h, q : e = [line |-> a, cursor |-> b, history |-> h, history_pos |-> q]
  BY DEF EditorIn
<1>2. QED
  BY <1>1

LEMMA LineChange ==
  ASSUME NEW P, NEW e, EditorIn(P, e), NEW l, NEW c
  PROVE  [e EXCEPT !.line = l, !.cursor = c]
           = [line |-> l, cursor |-> c, history |-> e.history,
              history_pos |-> e.history_pos]
<1>1. PICK a, b, h, q : e = [line |-> a, cursor |-> b, history |-> h, history_pos |-> q]
  BY DEF EditorIn
<1>2. e.line = a /\ e.history = h /\ e.history_pos = q
  BY <1>1
<1>3. [e EXCEPT !.line = l]
        = [line |-> l, cursor |-> b, history |-> h, history_pos |-> q]
  BY <1>1
<1>4. [e EXCEPT !.line = l, !.cursor = c] = [[e EXCEPT !.line = l] EXCEPT !.cursor = c]
  BY Zenon
<1>5. [[line |-> l, cursor |-> b, history |-> h, history_pos |-> q] EXCEPT !.cursor = c]
        = [line |-> l, cursor |-> c, history |-> h, history_pos |-> q]
  OBVIOUS
<1>6. QED
  BY <1>2, <1>3, <1>4, <1>5, Zenon

LEMMA RecallChange ==
  ASSUME NEW P, NEW e, EditorIn(P, e), NEW l, NEW c, NEW p
  PROVE  [e EXCEPT !.history_pos = p, !.line = l, !.cursor = c]
           = [line |-> l, cursor |-> c, history |-> e.history, history_pos |-> p]
<1>1. PICK a, b, h, q : e = [line |-> a, cursor |-> b, history |-> h, history_pos |-> q]
  BY DEF EditorIn
<1>2. e.history = h
  BY <1>1
<1>3. [e EXCEPT !.history_pos = p]
        = [line |-> a, cursor |-> b, history |-> h, history_pos |-> p]
  BY <1>1
<1>4. [[line |-> a, cursor |-> b, history |-> h, history_pos |-> p] EXCEPT !.line = l]
        = [line |-> l, cursor |-> b, history |-> h, history_pos |-> p]
  OBVIOUS
<1>5. [[line |-> l, cursor |-> b, history |-> h, history_pos |-> p] EXCEPT !.cursor = c]
        = [line |-> l, cursor |-> c, history |-> h, history_pos |-> p]
  OBVIOUS
<1>6. [e EXCEPT !.history_pos = p, !.line = l, !.cursor = c]
        = [[[e EXCEPT !.history_pos = p] EXCEPT !.line = l] EXCEPT !.cursor = c]
  BY Zenon
<1>7. QED
  BY <1>2, <1>3, <1>4, <1>5, <1>6, Zenon

\* What an edit must leave.
EditGood(s, edit) ==
  /\ EditorOK(edit.ed) /\ Clean(edit.out) /\ Tidy(Shows(s, edit.out), edit.ed)

LEMMA EditMade ==
  ASSUME NEW s, NEW e, NEW out, EditorOK(e), Clean(out), Tidy(Shows(s, out), e)
  PROVE  EditGood(s, Edit(e, out))
<1>1. Edit(e, out).ed = e /\ Edit(e, out).out = out
  BY DEF Edit
<1>2. QED
  BY <1>1, Zenon DEF EditGood

LEMMA NoEditGood ==
  ASSUME NEW s, NEW e, EditorOK(e), Tidy(s, e)
  PROVE  EditGood(s, Edit(e, <<>>))
<1>1. Shows(s, <<>>) = s
  BY ShowsNone
<1>2. Clean(<<>>)
  BY DEF Clean
<1>3. QED
  BY <1>1, <1>2, EditMade, Zenon

LEMMA RefreshGood ==
  ASSUME NEW s, NEW e, NEW new, EditorOK(e), EditorOK(new), Tidy(s, e)
  PROVE  EditGood(s, Refresh(e, new))
<1>1. /\ Refresh(e, new).ed = new /\ Refresh(e, new).out \in Seq(Quiet)
      /\ Tidy(Shows(s, Refresh(e, new).out), new)
  BY RefreshTidy
<1>2. Clean(Refresh(e, new).out)
  BY <1>1, QuietIsClean
<1>3. QED
  BY <1>1, <1>2, Zenon DEF EditGood

LEMMA MoveGood ==
  ASSUME NEW s, NEW e, EditorOK(e), Tidy(s, e)
  PROVE  EditGood(s, AdvanceCursor(e)) /\ EditGood(s, RetractCursor(e))
<1> DEFINE r == s.row
           l == e.line
           c == s.col
<1>1. /\ r \in Seq(Symbol) /\ l \in Seq(Plain) /\ c \in Nat
      /\ c = e.cursor /\ c <= Len(l) /\ Len(l) <= Len(r)
      /\ Len(l) \in Nat /\ Len(r) \in Nat
      /\ \A i \in 1 .. Len(r) : r[i] = IF i <= Len(l) THEN l[i] ELSE " "
  BY TidyIs
<1>2. r = s.row /\ l = e.line /\ c = s.col /\ e.cursor = c
  BY <1>1, Zenon
<1>b. /\ r \in Seq(Symbol) /\ c \in Nat /\ c <= Len(l) /\ Len(l) <= Len(r)
      /\ Len(l) \in Nat /\ Len(r) \in Nat
  BY <1>1, Zenon
<1>3. IsScreen(s) /\ s = [row |-> r, col |-> c]
  BY DEF Tidy, IsScreen
<1> HIDE DEF r, l, c
<1>4. e.history \in Seq(Seq(Plain)) /\ e.history_pos \in Nat /\ e.history_pos <= Len(e.history)
  BY EditorIs DEF EditorOK
<1>5. ASSUME NEW d \in Nat, d <= Len(l), NEW b \in {"left", "right"},
             Drawn([row |-> r, col |-> c], b) = [row |-> r, col |-> d]
      PROVE  EditGood(s, Edit([e EXCEPT !.cursor = d], <<b>>))
  <2> DEFINE new == [line |-> l, cursor |-> d, history |-> e.history,
                     history_pos |-> e.history_pos]
             z == [row |-> r, col |-> d]
  <2>1. [e EXCEPT !.cursor = d] = new
    BY <1>2, CursorChange, Zenon DEF EditorOK
  <2>2. EditorOK(new) /\ new.line = l /\ new.cursor = d
    BY <1>1, <1>4, <1>5, EditorMade DEF EditorOK
  <2>3. Shows(s, <<b>>) = z
    BY <1>3, <1>5, ShowsOne, Zenon
  <2>4. z.row = r /\ z.col = d
    OBVIOUS
  <2>5. IsScreen(z)
    <3>1. r \in Seq(Symbol) /\ d <= Len(r)
      BY <1>b, <1>5
    <3>2. QED
      BY <3>1 DEF IsScreen
  <2> HIDE DEF new, z
  <2>6. Tidy(z, new)
    BY <1>1, <2>2, <2>4, <2>5, TidyMade
  <2>7. Clean(<<b>>)
    <3>1. b \in Quiet
      BY DEF Quiet
    <3>2. <<b>> \in Seq(Quiet)
      BY <3>1, OneOf
    <3>3. QED
      BY <3>2, QuietIsClean
  <2>8. QED
    BY <2>1, <2>2, <2>3, <2>6, <2>7, EditMade, Zenon
<1>6. EditGood(s, AdvanceCursor(e))
  <2>1. CASE c = Len(l)
    <3>1. AdvanceCursor(e) = Edit(e, <<>>)
      BY <1>2, <2>1, Zenon DEF AdvanceCursor
    <3>2. QED
      BY <3>1, NoEditGood
  <2>2. CASE c # Len(l)
    <3>1. c + 1 \in Nat /\ c + 1 <= Len(l)
      BY <1>b, <2>2
    <3>2. Drawn([row |-> r, col |-> c], "right") = [row |-> r, col |-> c + 1]
      BY DEF Drawn
    <3>3. AdvanceCursor(e) = Edit([e EXCEPT !.cursor = c + 1], <<"right">>)
      BY <1>2, <2>2, Zenon DEF AdvanceCursor
    <3>4. QED
      BY <1>5, <3>1, <3>2, <3>3
  <2>3. QED
    BY <2>1, <2>2
<1>7. EditGood(s, RetractCursor(e))
  <2>1. CASE c = 0
    <3>1. RetractCursor(e) = Edit(e, <<>>)
      BY <1>2, <2>1, Zenon DEF RetractCursor
    <3>2. QED
      BY <3>1, NoEditGood
  <2>2. CASE c # 0
    <3>1. c - 1 \in Nat /\ c - 1 <= Len(l)
      BY <1>b, <2>2
    <3>2. Drawn([row |-> r, col |-> c], "left") = [row |-> r, col |-> c - 1]
      BY DEF Drawn
    <3>3. RetractCursor(e) = Edit([e EXCEPT !.cursor = c - 1], <<"left">>)
      BY <1>2, <2>2, Zenon DEF RetractCursor
    <3>4. QED
      BY <1>5, <3>1, <3>2, <3>3
  <2>3. QED
    BY <2>1, <2>2
<1>8. QED
  BY <1>6, <1>7

LEMMA CutIs ==
  ASSUME NEW S, NEW l \in Seq(S), NEW c \in Nat, NEW d \in Nat, c <= d, d <= Len(l)
  PROVE  /\ SubSeq(l, 1, c) \in Seq(S) /\ Len(SubSeq(l, 1, c)) = c
         /\ \A i \in 1 .. c : SubSeq(l, 1, c)[i] = l[i]
         /\ SubSeq(l, d + 1, Len(l)) \in Seq(S)
         /\ Len(SubSeq(l, d + 1, Len(l))) = Len(l) - d
<1>1. Len(l) \in Nat /\ c + 1 - 1 = c /\ 1 <= c + 1 /\ c <= Len(l)
  OBVIOUS
<1>2. /\ SubSeq(l, 1, c) \in Seq(S) /\ Len(SubSeq(l, 1, c)) = c + 1 - 1
      /\ \A i \in 1 .. c + 1 - 1 : SubSeq(l, 1, c)[i] = l[1 + i - 1]
  BY <1>1, SubSeqIs
<1>3. \A i \in 1 .. c : 1 + i - 1 = i
  OBVIOUS
<1>4. PICK n \in Nat, m \in Nat : n = Len(l) /\ m = d + 1 /\ 1 <= m /\ m <= n + 1 /\ n + 1 - m = n - d
  BY <1>1
<1>5. SubSeq(l, m, n) \in Seq(S) /\ Len(SubSeq(l, m, n)) = n + 1 - m
  BY <1>4, SubSeqIs
<1>6. QED
  BY <1>1, <1>2, <1>3, <1>4, <1>5, Zenon

LEMMA CutAll ==
  ASSUME NEW S, NEW l \in Seq(S)
  PROVE  SubSeq(l, 1, Len(l)) = l /\ SubSeq(l, Len(l) + 1, Len(l)) = <<>>
<1>1. SubSeq(l, 1, Len(l)) = l
  OBVIOUS
<1>2. SubSeq(l, Len(l) + 1, Len(l)) = <<>>
  OBVIOUS
<1>3. QED
  BY <1>1, <1>2

LEMMA HistoryGood ==
  ASSUME NEW s, NEW e, EditorOK(e), Tidy(s, e)
  PROVE  EditGood(s, PreviousInHistory(e)) /\ EditGood(s, NextInHistory(e))
<1>1. PICK h \in Seq(Seq(Plain)), p \in Nat :
        h = e.history /\ p = e.history_pos /\ p <= Len(h) /\ Len(h) \in Nat
  BY EditorIs DEF EditorOK
<1>2. ASSUME NEW q \in Nat, q <= Len(h), NEW l \in Seq(Plain)
      PROVE  EditGood(s, Recall(e, q, l))
  <2> DEFINE new == [line |-> l, cursor |-> Len(l), history |-> e.history,
                     history_pos |-> q]
  <2>1. Len(l) \in Nat /\ Len(l) <= Len(l)
    OBVIOUS
  <2>2. EditorOK(new)
    BY <1>1, <1>2, <2>1, EditorMade DEF EditorOK
  <2>3. [e EXCEPT !.history_pos = q, !.line = l, !.cursor = Len(l)] = new
    BY RecallChange, Zenon DEF EditorOK
  <2> HIDE DEF new
  <2>4. Recall(e, q, l) = Refresh(e, new)
    BY <2>3, Zenon DEF Recall
  <2>5. QED
    BY <2>2, <2>4, RefreshGood, Zenon
<1>3. EditGood(s, PreviousInHistory(e))
  <2>1. CASE p = 0
    <3>1. PreviousInHistory(e) = Edit(e, <<>>)
      BY <1>1, <2>1, Zenon DEF PreviousInHistory
    <3>2. QED
      BY <3>1, NoEditGood
  <2>2. CASE p # 0
    <3>1. p - 1 \in Nat /\ p - 1 <= Len(h) /\ p \in 1 .. Len(h)
      BY <1>1, <2>2
    <3>2. h[p] \in Seq(Plain)
      BY <3>1
    <3>3. PreviousInHistory(e) = Recall(e, p - 1, h[p])
      BY <1>1, <2>2, Zenon DEF PreviousInHistory
    <3>4. QED
      BY <1>2, <3>1, <3>2, <3>3, Zenon
  <2>3. QED
    BY <2>1, <2>2
<1>4. EditGood(s, NextInHistory(e))
  <2>1. CASE p + 1 > Len(h)
    <3>1. NextInHistory(e) = Edit(e, <<>>)
      BY <1>1, <2>1, Zenon DEF NextInHistory
    <3>2. QED
      BY <3>1, NoEditGood
  <2>2. CASE ~(p + 1 > Len(h))
    <3>1. p + 1 \in Nat /\ p + 1 <= Len(h)
      BY <1>1, <2>2
    <3>2. PICK l : l = IF p + 1 = Len(h) THEN <<>> ELSE h[p + 1 + 1]
      OBVIOUS
    <3>3. l \in Seq(Plain)
      <4>1. CASE p + 1 = Len(h)
        BY <3>2, <4>1
      <4>2. CASE p + 1 # Len(h)
        <5>1. p + 1 + 1 \in 1 .. Len(h)
          BY <1>1, <2>2, <4>2
        <5>2. QED
          BY <3>2, <4>2, <5>1
      <4>3. QED
        BY <4>1, <4>2
    <3>4. NextInHistory(e) = Recall(e, p + 1, l)
      BY <1>1, <2>2, <3>2, Zenon DEF NextInHistory
    <3>5. QED
      BY <1>2, <3>1, <3>3, <3>4, Zenon
  <2>3. QED
    BY <2>1, <2>2
<1>5. QED
  BY <1>3, <1>4

LEMMA BlankTidy ==
  ASSUME NEW e, e.line = <<>>, e.cursor = 0
  PROVE  Tidy(BlankScreen, e)
<1>1. IsScreen(BlankScreen) /\ BlankScreen.row = <<>> /\ BlankScreen.col = 0
  BY DEF IsScreen, BlankScreen
<1>2. Len(<<>>) <= Len(<<>>)
  OBVIOUS
<1>3. \A i \in 1 .. Len(<<>>) : <<>>[i] = IF i <= Len(<<>>) THEN <<>>[i] ELSE " "
  OBVIOUS
<1>4. QED
  BY <1>1, <1>2, <1>3, Zenon DEF Tidy

LEMMA InterruptGood ==
  ASSUME NEW s, NEW e, EditorOK(e)
  PROVE  EditGood(s, InterruptLine(e))
<1> DEFINE new == [line |-> <<>>, cursor |-> 0, history |-> e.history,
                   history_pos |-> e.history_pos]
           out == <<"CR", "LF", "prompt">>
<1>1. [e EXCEPT !.line = <<>>, !.cursor = 0] = new
  BY LineChange, Zenon DEF EditorOK
<1>2. EditorOK(new) /\ new.line = <<>> /\ new.cursor = 0
  <2>1. /\ e.history \in Seq(Seq(Plain)) /\ e.history_pos \in Nat
        /\ e.history_pos <= Len(e.history)
    BY EditorIs DEF EditorOK
  <2>2. <<>> \in Seq(Plain) /\ 0 \in Nat /\ 0 <= Len(<<>>)
    OBVIOUS
  <2>3. QED
    BY <2>1, <2>2, EditorMade DEF EditorOK
<1>3. out \in Seq(Symbol) /\ out = <<"CR", "LF">> \o <<"prompt">> /\ <<"CR", "LF">> \in Seq(Symbol)
  <2>1. "CR" \in Symbol /\ "LF" \in Symbol /\ "prompt" \in Symbol
    BY DEF Symbol
  <2>2. QED
    BY <2>1
<1>4. Clean(out)
  <2>1. \A i \in 1 .. Len(out) : out[i] = "LF" => i # 1 /\ out[i - 1] = "CR"
    OBVIOUS
  <2> HIDE DEF out
  <2>2. QED
    BY <1>3, <2>1 DEF Clean
<1>5. Shows(s, out) = BlankScreen
  <2> HIDE DEF out
  <2>1. Shows(s, <<"CR", "LF">> \o <<"prompt">>) = BlankScreen
    BY <1>3, ShowsPrompt
  <2>2. QED
    BY <1>3, <2>1, Zenon
<1> HIDE DEF new, out
<1>6. Tidy(BlankScreen, new)
  BY <1>2, BlankTidy
<1>7. EditGood(s, Edit(new, out))
  BY <1>2, <1>4, <1>5, <1>6, EditMade, Zenon
<1>8. QED
  BY <1>1, <1>7, Zenon DEF InterruptLine, out

LEMMA ThreeOf ==
  ASSUME NEW a, NEW b, NEW c
  PROVE  <<a, b, c>> = (<<a>> \o <<b>>) \o <<c>>
<1> DEFINE S == {a, b, c}
           x == <<a>>
           y == <<b>>
           v == <<c>>
           u == <<a, b>>
           w == <<a, b, c>>
<1>1. /\ x \in Seq(S) /\ y \in Seq(S) /\ v \in Seq(S) /\ u \in Seq(S) /\ w \in Seq(S)
      /\ Len(x) = 1 /\ Len(y) = 1 /\ Len(v) = 1 /\ Len(u) = 2 /\ Len(w) = 3
      /\ x[1] = a /\ y[1] = b /\ v[1] = c /\ u[1] = a /\ u[2] = b
      /\ w[1] = a /\ w[2] = b /\ w[3] = c
  OBVIOUS
<1> HIDE DEF S, x, y, v, u, w
<1>2. u = x \o y
  <2>1. Len(u) = Len(x) + Len(y)
    BY <1>1
  <2>2. \A i \in 1 .. Len(x) : u[i] = x[i]
    BY <1>1
  <2>3. \A i \in 1 .. Len(y) : u[Len(x) + i] = y[i]
    BY <1>1
  <2>4. QED
    BY <1>1, <2>1, <2>2, <2>3, ConcatEqual
<1>3. w = u \o v
  <2>1. Len(w) = Len(u) + Len(v)
    BY <1>1
  <2>2. \A i \in 1 .. Len(u) : w[i] = u[i]
    BY <1>1
  <2>3. \A i \in 1 .. Len(v) : w[Len(u) + i] = v[i]
    BY <1>1
  <2>4. QED
    BY <1>1, <2>1, <2>2, <2>3, ConcatEqual
<1>4. QED
  BY <1>2, <1>3, Zenon DEF x, y, v, w

LEMMA InsertGood ==
  ASSUME NEW s, NEW e, EditorOK(e), Tidy(s, e), NEW b \in Seq(Plain)
  PROVE  EditGood(s, InsertBytes(e, b))
<1> DEFINE r == s.row
           l == e.line
           c == s.col
<1>1. /\ r \in Seq(Symbol) /\ l \in Seq(Plain) /\ c \in Nat
      /\ c = e.cursor /\ c <= Len(l) /\ Len(l) <= Len(r)
      /\ Len(l) \in Nat /\ Len(r) \in Nat
      /\ \A i \in 1 .. Len(r) : r[i] = IF i <= Len(l) THEN l[i] ELSE " "
  BY TidyIs
<1>2. r = s.row /\ l = e.line /\ c = s.col /\ e.cursor = c
  BY <1>1, Zenon
<1>3. /\ r \in Seq(Symbol) /\ l \in Seq(Plain) /\ c \in Nat /\ c <= Len(l)
      /\ Len(l) <= Len(r) /\ Len(l) \in Nat /\ Len(r) \in Nat
  BY <1>1, Zenon
<1> HIDE DEF r, l, c
<1>4. e.history \in Seq(Seq(Plain)) /\ e.history_pos \in Nat /\ e.history_pos <= Len(e.history)
  BY EditorIs DEF EditorOK
<1>5. PICK x \in Seq(Plain), y \in Seq(Plain) :
        /\ x = SubSeq(l, 1, c) /\ y = SubSeq(l, c + 1, Len(l))
        /\ Len(x) = c /\ Len(y) = Len(l) - c
  <2>1. c <= c
    BY <1>3
  <2>2. /\ SubSeq(l, 1, c) \in Seq(Plain) /\ Len(SubSeq(l, 1, c)) = c
        /\ SubSeq(l, c + 1, Len(l)) \in Seq(Plain)
        /\ Len(SubSeq(l, c + 1, Len(l))) = Len(l) - c
    BY <1>3, <2>1, CutIs
  <2>3. QED
    BY <2>2, Zenon
<1>6. PICK n \in Nat, m \in Nat : n = Len(b) /\ m = c + n
  <2>1. Len(b) \in Nat /\ c + Len(b) \in Nat
    BY <1>3
  <2>2. QED
    BY <2>1, Zenon
<1> DEFINE z == (x \o b) \o y
           new == [line |-> z, cursor |-> m, history |-> e.history,
                   history_pos |-> e.history_pos]
<1>7. z \in Seq(Plain) /\ Len(z) = (c + n) + (Len(l) - c)
  <2>1. \A u, v \in Seq(Plain) : u \o v \in Seq(Plain) /\ Len(u \o v) = Len(u) + Len(v)
    OBVIOUS
  <2>2. PICK w \in Seq(Plain) : w = x \o b /\ Len(w) = Len(x) + Len(b)
    BY <2>1, Zenon
  <2>3. w \o y \in Seq(Plain) /\ Len(w \o y) = Len(w) + Len(y)
    BY <2>1, Zenon
  <2>4. Len(w) = c + n
    BY <1>5, <1>6, <2>2, Zenon
  <2>5. QED
    BY <1>5, <2>2, <2>3, <2>4, Zenon
<1>8. [e EXCEPT !.line = z, !.cursor = m] = new
  BY LineChange, Zenon DEF EditorOK
<1> HIDE DEF z
<1>9. m <= Len(z)
  BY <1>3, <1>6, <1>7
<1>10. EditorOK(new) /\ new.line = z /\ new.cursor = m
  BY <1>4, <1>6, <1>7, <1>9, EditorMade DEF EditorOK
<1> HIDE DEF new
<1>11. CASE c # Len(l)
  <2>1. InsertBytes(e, b) = Refresh(e, new)
    BY <1>2, <1>5, <1>6, <1>8, <1>11, Zenon DEF InsertBytes, z
  <2>2. QED
    BY <1>10, <2>1, RefreshGood, Zenon
<1>12. CASE c = Len(l)
  <2>1. InsertBytes(e, b) = Edit(new, b)
    BY <1>2, <1>5, <1>6, <1>8, <1>12, Zenon DEF InsertBytes, z
  <2>2. z = l \o b
    <3>1. x = l /\ y = <<>>
      BY <1>3, <1>5, <1>12, CutAll
    <3>2. \A u \in Seq(Plain) : u \o <<>> = u
      OBVIOUS
    <3>3. l \o b \in Seq(Plain)
      BY <1>3
    <3>4. QED
      BY <3>1, <3>2, <3>3, Zenon DEF z
  <2>3. /\ Len(z) = c + n /\ \A i \in 1 .. c : z[i] = l[i]
        /\ \A i \in 1 .. n : z[c + i] = b[i]
    <3>1. /\ Len(l \o b) = Len(l) + Len(b)
          /\ \A i \in 1 .. Len(l) : (l \o b)[i] = l[i]
          /\ \A i \in 1 .. Len(b) : (l \o b)[Len(l) + i] = b[i]
      BY <1>3, ConcatIs
    <3>2. QED
      BY <1>6, <1>12, <2>2, <3>1, Zenon
  <2> DEFINE t == Shows(s, b)
             q == t.row
             d == t.col
  <2>4. IsScreen(s)
    BY Zenon DEF Tidy
  <2>5. /\ q \in Seq(Symbol) /\ d = c + Len(b) /\ IsScreen(t)
        /\ Len(q) = Larger(Len(r), c + Len(b))
        /\ \A i \in 1 .. Len(q) :
             q[i] = IF i > c /\ i <= c + Len(b) THEN b[i - c] ELSE r[i]
    <3>1. Overwrites(s, t, b, Len(b))
      BY <2>4, ShowsPlain
    <3> HIDE DEF t
    <3>2. QED
      BY <1>2, <3>1, OverwritesIs
  <2>6. t = Shows(s, b) /\ q = t.row /\ d = t.col
    OBVIOUS
  <2> HIDE DEF t, q, d
  <2>7. q \in Seq(Symbol) /\ d = m /\ IsScreen(t) /\ Len(q) = Larger(Len(r), m)
    BY <1>6, <2>5, Zenon
  <2>8. ASSUME NEW i \in 1 .. Len(q)
        PROVE  q[i] = IF i > c /\ i <= m THEN b[i - c] ELSE r[i]
    BY <1>6, <2>5, Zenon
  <2>9. PICK k \in Nat : k = Len(q) /\ m <= k /\ Len(r) <= k /\ (k = m \/ k = Len(r))
    BY <1>3, <1>6, <2>7, LargerIs, Zenon
  <2>10. ASSUME NEW i \in 1 .. Len(q)
         PROVE  q[i] = IF i <= Len(z) THEN z[i] ELSE " "
    <3>1. Len(z) = m /\ i \in Nat /\ i >= 1 /\ i <= k
      BY <1>6, <2>3, <2>9
    <3>2. CASE i <= c
      <4>1. i \in 1 .. c /\ ~(i > c) /\ i \in 1 .. Len(r) /\ i <= Len(l) /\ i <= m
        BY <1>3, <1>6, <3>1, <3>2
      <4>2. q[i] = r[i] /\ r[i] = l[i] /\ z[i] = l[i]
        BY <1>1, <2>3, <2>8, <4>1, Zenon
      <4>3. QED
        BY <3>1, <4>1, <4>2
    <3>3. CASE i > c /\ i <= m
      <4>1. i - c \in 1 .. n /\ c + (i - c) = i
        BY <1>3, <1>6, <3>1, <3>3
      <4>2. q[i] = b[i - c] /\ z[c + (i - c)] = b[i - c]
        BY <2>3, <2>8, <3>3, <4>1, Zenon
      <4>3. QED
        BY <3>1, <3>3, <4>1, <4>2
    <3>4. CASE ~(i <= m)
      <4>1. i \in 1 .. Len(r) /\ ~(i <= Len(l))
        BY <1>3, <1>6, <1>12, <2>9, <3>1, <3>4
      <4>2. q[i] = r[i] /\ r[i] = " "
        BY <1>1, <2>8, <3>4, <4>1, Zenon
      <4>3. QED
        BY <3>1, <3>4, <4>2
    <3>5. QED
      <4>1. i <= c \/ (i > c /\ i <= m) \/ ~(i <= m)
        BY <1>3, <3>1
      <4>2. QED
        BY <3>2, <3>3, <3>4, <4>1, Zenon
  <2>11. Len(z) <= Len(q) /\ t.col = new.cursor
    BY <1>6, <1>10, <2>3, <2>6, <2>7, <2>9
  <2>12. Tidy(t, new)
    BY <1>7, <1>10, <2>6, <2>7, <2>10, <2>11, TidyMade
  <2>13. Clean(b)
    <3>1. Plain \subseteq Quiet
      BY DEF Quiet
    <3>2. b \in Seq(Quiet)
      BY <3>1, LongerSeq
    <3>3. QED
      BY <3>2, QuietIsClean
  <2>14. QED
    BY <1>10, <2>1, <2>6, <2>12, <2>13, EditMade, Zenon
<1>13. QED
  BY <1>11, <1>12

LEMMA BackspaceGood ==
  ASSUME NEW s, NEW e, EditorOK(e), Tidy(s, e)
  PROVE  EditGood(s, Backspace(e))
<1> DEFINE r == s.row
           l == e.line
           c == s.col
<1>1. /\ r \in Seq(Symbol) /\ l \in Seq(Plain) /\ c \in Nat
      /\ c = e.cursor /\ c <= Len(l) /\ Len(l) <= Len(r)
      /\ Len(l) \in Nat /\ Len(r) \in Nat
      /\ \A i \in 1 .. Len(r) : r[i] = IF i <= Len(l) THEN l[i] ELSE " "
  BY TidyIs
<1>2. r = s.row /\ l = e.line /\ c = s.col /\ e.cursor = c
  BY <1>1, Zenon
<1>3. /\ r \in Seq(Symbol) /\ l \in Seq(Plain) /\ c \in Nat /\ c <= Len(l)
      /\ Len(l) <= Len(r) /\ Len(l) \in Nat /\ Len(r) \in Nat
  BY <1>1, Zenon
<1>a. s = [row |-> r, col |-> c]
  BY DEF Tidy, IsScreen
<1> HIDE DEF r, l, c
<1>4. e.history \in Seq(Seq(Plain)) /\ e.history_pos \in Nat /\ e.history_pos <= Len(e.history)
  BY EditorIs DEF EditorOK
<1>5. CASE c = 0
  <2>1. Backspace(e) = Edit(e, <<>>)
    BY <1>2, <1>5, Zenon DEF Backspace
  <2>2. QED
    BY <2>1, NoEditGood
<1>6. CASE c # 0
  <2>1. PICK d \in Nat : d = c - 1 /\ d + 1 = c /\ d <= Len(l) /\ d <= c
    <3>1. c - 1 \in Nat /\ (c - 1) + 1 = c /\ c - 1 <= Len(l) /\ c - 1 <= c
      BY <1>3, <1>6
    <3>2. QED
      BY <3>1, Zenon
  <2>2. PICK x \in Seq(Plain), y \in Seq(Plain) :
          /\ x = SubSeq(l, 1, d) /\ y = SubSeq(l, c + 1, Len(l))
          /\ Len(x) = d /\ Len(y) = Len(l) - c /\ \A i \in 1 .. d : x[i] = l[i]
    <3>1. /\ SubSeq(l, 1, d) \in Seq(Plain) /\ Len(SubSeq(l, 1, d)) = d
          /\ \A i \in 1 .. d : SubSeq(l, 1, d)[i] = l[i]
          /\ SubSeq(l, c + 1, Len(l)) \in Seq(Plain)
          /\ Len(SubSeq(l, c + 1, Len(l))) = Len(l) - c
      BY <1>3, <2>1, CutIs
    <3>2. QED
      BY <3>1, Zenon
  <2> DEFINE z == x \o y
             new == [line |-> z, cursor |-> d, history |-> e.history,
                     history_pos |-> e.history_pos]
  <2>3. z \in Seq(Plain) /\ Len(z) = d + (Len(l) - c)
    <3>1. \A u, v \in Seq(Plain) : u \o v \in Seq(Plain) /\ Len(u \o v) = Len(u) + Len(v)
      OBVIOUS
    <3>2. QED
      BY <2>2, <3>1, Zenon
  <2>4. [e EXCEPT !.line = z, !.cursor = d] = new
    BY LineChange, Zenon DEF EditorOK
  <2> HIDE DEF z
  <2>5. d <= Len(z)
    BY <1>3, <2>1, <2>3
  <2>6. EditorOK(new) /\ new.line = z /\ new.cursor = d
    BY <1>4, <2>3, <2>5, EditorMade DEF EditorOK
  <2> HIDE DEF new
  <2>7. CASE c # Len(l)
    <3>1. Backspace(e) = Refresh(e, new)
      BY <1>2, <1>6, <2>1, <2>2, <2>4, <2>7, Zenon DEF Backspace, z
    <3>2. QED
      BY <2>6, <3>1, RefreshGood, Zenon
  <2>8. CASE c = Len(l)
    <3> DEFINE out == <<"left", " ", "left">>
    <3>1. Backspace(e) = Edit(new, out)
      BY <1>2, <1>6, <2>1, <2>2, <2>4, <2>8, Zenon DEF Backspace, z
    <3>2. z = x
      <4>1. y = <<>>
        BY <1>3, <2>2, <2>8, CutAll
      <4>2. \A u \in Seq(Plain) : u \o <<>> = u
        OBVIOUS
      <4>3. QED
        BY <4>1, <4>2, Zenon DEF z
    <3> DEFINE s1 == [row |-> r, col |-> d]
               s2 == Drawn(s1, " ")
    <3>3. Drawn(s, "left") = s1
      <4>1. Drawn([row |-> r, col |-> c], "left") = [row |-> r, col |-> c - 1]
        BY DEF Drawn
      <4>2. QED
        BY <1>a, <2>1, <4>1, Zenon
    <3>4. IsScreen(s1) /\ s1.row = r /\ s1.col = d
      <4>1. d <= Len(r)
        BY <1>3, <2>1
      <4>2. QED
        BY <1>3, <4>1 DEF IsScreen
    <3>5. /\ IsScreen(s2) /\ s2.col = d + 1 /\ Len(s2.row) = Larger(Len(r), d + 1)
          /\ \A i \in 1 .. Len(s2.row) : s2.row[i] = IF i = d + 1 THEN " " ELSE r[i]
      <4>1. " " \in Plain
        BY DEF Plain, Symbol, NotOneColumn
      <4> HIDE DEF s1
      <4>2. /\ IsScreen(s2) /\ s2.col = s1.col + 1
            /\ Len(s2.row) = Larger(Len(s1.row), s1.col + 1)
            /\ \A i \in 1 .. Len(s2.row) :
                 s2.row[i] = IF i = s1.col + 1 THEN " " ELSE s1.row[i]
        BY <3>4, <4>1, DrawnPlain
      <4> HIDE DEF s2
      <4>3. QED
        BY <3>4, <4>2, Zenon
    <3>a. s2 = Drawn(s1, " ")
      OBVIOUS
    <3> HIDE DEF s1, s2
    <3>6. PICK q \in Seq(Symbol) : s2 = [row |-> q, col |-> c] /\ q = s2.row
      <4>1. s2.row \in Seq(Symbol) /\ s2 = [row |-> s2.row, col |-> s2.col]
        BY <3>5 DEF IsScreen
      <4>2. QED
        BY <2>1, <3>5, <4>1, Zenon
    <3>7. Drawn(s2, "left") = [row |-> q, col |-> d]
      <4>1. Drawn([row |-> q, col |-> c], "left") = [row |-> q, col |-> c - 1]
        BY DEF Drawn
      <4>2. QED
        BY <2>1, <3>6, <4>1, Zenon
    <3>8. Len(q) = Len(r)
      <4>1. Len(q) = Larger(Len(r), c)
        BY <2>1, <3>5, <3>6, Zenon
      <4>2. c <= Len(r)
        BY <1>3
      <4>3. QED
        BY <1>3, <4>1, <4>2 DEF Larger
    <3>9. Len(z) = d /\ d <= Len(q)
      BY <1>3, <2>1, <2>2, <3>2, <3>8
    <3>10. ASSUME NEW i \in 1 .. Len(q) PROVE q[i] = IF i <= Len(z) THEN z[i] ELSE " "
      <4>0. i \in 1 .. Len(r) /\ i \in Nat
        BY <1>3, <3>8
      <4>1. q[i] = IF i = d + 1 THEN " " ELSE r[i]
        BY <3>5, <3>6, Zenon
      <4>2. CASE i <= d
        <5>1. i \in 1 .. d /\ i # d + 1 /\ i <= Len(l)
          BY <1>3, <2>1, <4>0, <4>2
        <5>2. q[i] = r[i] /\ r[i] = l[i] /\ z[i] = l[i]
          BY <1>1, <2>2, <3>2, <4>0, <4>1, <5>1, Zenon
        <5>3. QED
          BY <3>9, <4>2, <5>2
      <4>3. CASE i = d + 1
        <5>1. ~(i <= d)
          BY <4>3
        <5>2. q[i] = " " /\ ~(i <= Len(z))
          BY <3>9, <4>1, <4>3, <5>1, Zenon
        <5>3. QED
          BY <5>2
      <4>4. CASE ~(i <= d) /\ i # d + 1
        <5>1. ~(i <= Len(l))
          BY <1>3, <2>1, <2>8, <4>0, <4>4
        <5>2. q[i] = r[i] /\ r[i] = " "
          BY <1>1, <4>0, <4>1, <4>4, <5>1, Zenon
        <5>3. QED
          BY <3>9, <4>4, <5>2
      <4>5. QED
        BY <4>2, <4>3, <4>4
    <3> DEFINE s3 == [row |-> q, col |-> d]
    <3>11. IsScreen(s3) /\ s3.row = q /\ s3.col = d
      BY <3>9 DEF IsScreen
    <3> HIDE DEF s3
    <3>12. Tidy(s3, new)
      BY <2>3, <2>6, <3>9, <3>10, <3>11, TidyMade
    <3>13. /\ out \in Seq(Quiet) /\ out = (<<"left">> \o <<" ">>) \o <<"left">>
           /\ <<"left">> \in Seq(Quiet) /\ <<" ">> \in Seq(Quiet)
           /\ <<"left">> \o <<" ">> \in Seq(Quiet)
      <4>1. "left" \in Quiet /\ " " \in Quiet
        BY DEF Quiet, Plain, Symbol, NotOneColumn
      <4>a. \A b \in Quiet : <<b>> \in Seq(Quiet)
        BY OneOf
      <4>b. \A u, v \in Seq(Quiet) : u \o v \in Seq(Quiet)
        OBVIOUS
      <4>2. <<"left">> \in Seq(Quiet) /\ <<" ">> \in Seq(Quiet)
        BY <4>1, <4>a, Zenon
      <4>3. /\ <<"left">> \o <<" ">> \in Seq(Quiet)
            /\ (<<"left">> \o <<" ">>) \o <<"left">> \in Seq(Quiet)
        BY <4>2, <4>b, Zenon
      <4>4. out = (<<"left">> \o <<" ">>) \o <<"left">>
        <5>1. PICK a, w : a = "left" /\ w = " "
          OBVIOUS
        <5>2. <<a, w, a>> = (<<a>> \o <<w>>) \o <<a>>
          BY ThreeOf
        <5>3. QED
          BY <5>1, <5>2
      <4>5. QED
        BY <4>2, <4>3, <4>4, Zenon
    <3> HIDE DEF out
    <3>14. Shows(s, out) = s3
      <4>1. PICK a \in Seq(Quiet), b \in Seq(Quiet), w \in Seq(Quiet) :
              a = <<"left">> /\ b = <<" ">> /\ w = a \o b
        BY <3>13, Zenon
      <4>2. Shows(s, a) = s1 /\ Shows(s1, b) = s2 /\ Shows(s2, a) = s3
        BY <3>3, <3>7, <3>a, <4>1, ShowsOne, Zenon DEF s3
      <4>3. Shows(s, a \o b) = Shows(Shows(s, a), b)
        BY ShowsConcat
      <4>4. Shows(s, w \o a) = Shows(Shows(s, w), a)
        BY ShowsConcat
      <4>5. out = w \o a
        BY <3>13, <4>1, Zenon
      <4>6. QED
        BY <4>1, <4>2, <4>3, <4>4, <4>5, Zenon
    <3>15. Clean(out)
      BY <3>13, QuietIsClean
    <3>16. QED
      BY <2>6, <3>1, <3>12, <3>14, <3>15, EditMade, Zenon
  <2>9. QED
    BY <2>7, <2>8
<1>7. QED
  BY <1>5, <1>6

\* The keys of a token, and the bytes of one that is no key.
TokenOK(t) ==
  /\ t.key \in {"Bytes", "UpArrow", "DownArrow", "RightArrow", "LeftArrow", "Enter",
                "Backspace", "ControlC"}
  /\ t.key = "Bytes" => t.bytes \in Seq(Plain)

\* After each edit the terminal shows the line.
LEMMA EditTidy ==
  ASSUME NEW s, NEW e, EditorOK(e), Tidy(s, e), NEW t, TokenOK(t), t.key # "Enter"
  PROVE  EditGood(s, EditOf(e, t))
<1>1. CASE t.key = "Bytes"
  <2>1. EditOf(e, t) = InsertBytes(e, t.bytes)
    BY <1>1, Zenon DEF EditOf
  <2>2. t.bytes \in Seq(Plain)
    BY <1>1 DEF TokenOK
  <2>3. QED
    BY <2>1, <2>2, InsertGood
<1>2. CASE t.key = "UpArrow"
  <2>1. EditOf(e, t) = PreviousInHistory(e)
    BY <1>2 DEF EditOf
  <2>2. QED
    BY <2>1, HistoryGood
<1>3. CASE t.key = "DownArrow"
  <2>1. EditOf(e, t) = NextInHistory(e)
    BY <1>3 DEF EditOf
  <2>2. QED
    BY <2>1, HistoryGood
<1>4. CASE t.key = "RightArrow"
  <2>1. EditOf(e, t) = AdvanceCursor(e)
    BY <1>4 DEF EditOf
  <2>2. QED
    BY <2>1, MoveGood
<1>5. CASE t.key = "LeftArrow"
  <2>1. EditOf(e, t) = RetractCursor(e)
    BY <1>5 DEF EditOf
  <2>2. QED
    BY <2>1, MoveGood
<1>6. CASE t.key = "Backspace"
  <2>1. EditOf(e, t) = Backspace(e)
    BY <1>6 DEF EditOf
  <2>2. QED
    BY <2>1, BackspaceGood
<1>7. CASE t.key = "ControlC"
  <2>1. EditOf(e, t) = InterruptLine(e)
    BY <1>7 DEF EditOf
  <2>2. QED
    BY <2>1, InterruptGood
<1>8. QED
  BY <1>1, <1>2, <1>3, <1>4, <1>5, <1>6, <1>7 DEF TokenOK

-----------------------------------------------------------------------------
(* The tokens of what is typed.                                            *)

KeyNames == {"Bytes", "UpArrow", "DownArrow", "RightArrow", "LeftArrow", "Enter",
             "Backspace", "ControlC"}
\* The tokens that are made of the bytes in B.
TokensOf(B) ==
  {t \in [key : KeyNames, bytes : Seq(B)] :
     t.key = "Bytes" => t.bytes \in Seq(B \ {"CR"})}

\* What is parsed from the byte at i on, after f says it of the bytes behind it.
ParsedAt(buff, f, i) ==
  IF i > Len(buff) THEN [tokens |-> <<>>, rest |-> <<>>]
  ELSE IF HeldAt(buff, i)
  THEN [tokens |-> <<>>, rest |-> SubSeq(buff, i, Len(buff))]
  ELSE IF ArrowAt(buff, i)
  THEN [f[i + 3] EXCEPT !.tokens =
          <<Token(Arrows[buff[i + 2]], SubSeq(buff, i, i + 2))>> \o @]
  ELSE IF buff[i] \in DOMAIN Controls
  THEN [f[i + 1] EXCEPT !.tokens = <<Token(Controls[buff[i]], <<buff[i]>>)>> \o @]
  ELSE [f[i + 1] EXCEPT !.tokens = WithByte(buff[i], @)]

Parses(buff, n, k, f) == \A i \in k .. n + 1 : f[i] = ParsedAt(buff, f, i)

\* Only what lies behind i matters.
LEMMA ParsedAtSame ==
  ASSUME NEW buff, NEW n \in Nat, n = Len(buff), NEW i \in 1 .. n + 1, NEW f, NEW g,
         \A j \in i + 1 .. n + 1 : f[j] = g[j]
  PROVE  ParsedAt(buff, f, i) = ParsedAt(buff, g, i)
<1>1. CASE i > n
  BY <1>1, Zenon DEF ParsedAt
<1>2. CASE ~(i > n)
  <2>1. i + 1 \in i + 1 .. n + 1
    BY <1>2
  <2>2. f[i + 1] = g[i + 1]
    BY <2>1, Zenon
  <2>3. CASE ArrowAt(buff, i)
    <3>1. i + 2 <= n
      BY <2>3, Zenon DEF ArrowAt
    <3>2. i + 3 \in i + 1 .. n + 1
      BY <3>1
    <3>3. f[i + 3] = g[i + 3]
      BY <3>2, Zenon
    <3>4. QED
      BY <2>2, <3>3, Zenon DEF ParsedAt
  <2>4. CASE ~ArrowAt(buff, i)
    BY <2>2, <2>4, Zenon DEF ParsedAt
  <2>5. QED
    BY <2>3, <2>4
<1>3. QED
  BY <1>1, <1>2

LEMMA ParsesExist ==
  ASSUME NEW buff, NEW n \in Nat, n = Len(buff)
  PROVE  \E f : Parses(buff, n, 1, f)
<1> DEFINE T == {d \in 0 .. n : ~ \E f : Parses(buff, n, n + 1 - d, f)}
<1>1. T = {}
  <2> SUFFICES ASSUME T # {} PROVE FALSE
    OBVIOUS
  <2>1. PICK x \in T : \A y \in T : x <= y
    <3>1. T \subseteq Nat
      OBVIOUS
    <3> HIDE DEF T
    <3>2. QED
      BY <3>1, Smallest
  <2>2. x \in 0 .. n /\ ~ \E f : Parses(buff, n, n + 1 - x, f)
    BY <2>1
  <2>3. PICK k \in 1 .. n + 1 : k = n + 1 - x
    BY <2>2
  <2>4. PICK f : Parses(buff, n, k + 1, f)
    <3>1. CASE x = 0
      <4>1. k + 1 .. n + 1 = {}
        BY <2>3, <3>1
      <4>2. Parses(buff, n, k + 1, [i \in {} |-> i])
        BY <4>1, Zenon DEF Parses
      <4>3. QED
        BY <4>2
    <3>2. CASE x # 0
      <4>1. x - 1 \in 0 .. n /\ ~(x <= x - 1) /\ n + 1 - (x - 1) = k + 1
        BY <2>2, <2>3, <3>2
      <4>2. \E f : Parses(buff, n, n + 1 - (x - 1), f)
        BY <2>1, <4>1
      <4>3. QED
        BY <4>1, <4>2
    <3>3. QED
      BY <3>1, <3>2
  <2> HIDE DEF T
  <2> DEFINE g == [i \in k .. n + 1 |-> IF i = k THEN ParsedAt(buff, f, k) ELSE f[i]]
  <2>5. \A i \in k .. n + 1 : g[i] = IF i = k THEN ParsedAt(buff, f, k) ELSE f[i]
    OBVIOUS
  <2> HIDE DEF g
  <2>6. ASSUME NEW i \in k .. n + 1 PROVE g[i] = ParsedAt(buff, g, i)
    <3>1. i \in 1 .. n + 1
      BY <2>3
    <3>2. ASSUME NEW j \in i + 1 .. n + 1 PROVE f[j] = g[j]
      <4>1. j \in k .. n + 1 /\ j # k
        BY <2>3, <3>1
      <4>2. QED
        BY <2>5, <4>1, Zenon
    <3>3. ParsedAt(buff, f, i) = ParsedAt(buff, g, i)
      BY <3>1, <3>2, ParsedAtSame
    <3>4. CASE i = k
      BY <2>5, <3>3, <3>4, Zenon
    <3>5. CASE i # k
      <4>1. i \in k + 1 .. n + 1
        BY <2>3, <3>5
      <4>2. f[i] = ParsedAt(buff, f, i)
        BY <2>4, <4>1, Zenon DEF Parses
      <4>3. QED
        BY <2>5, <3>3, <3>5, <4>2, Zenon
    <3>6. QED
      BY <3>4, <3>5
  <2>7. Parses(buff, n, k, g)
    BY <2>6, Zenon DEF Parses
  <2>8. QED
    BY <2>2, <2>3, <2>7, Zenon
<1>2. n \in 0 .. n /\ n + 1 - n = 1
  OBVIOUS
<1>3. ASSUME ~ \E f : Parses(buff, n, 1, f) PROVE n \in T
  BY <1>2, <1>3, Zenon
<1>4. n \notin T
  <2> HIDE DEF T
  <2>1. QED
    BY <1>1
<1>5. QED
  BY <1>3, <1>4

LEMMA ParsedIs ==
  ASSUME NEW buff, NEW n \in Nat, n = Len(buff), NEW f, Parses(buff, n, 1, f)
  PROVE  Parsed(buff) = f[1]
<1> DEFINE step(g) == [i \in 1 .. n + 1 |-> ParsedAt(buff, g, i)]
           H == [i \in 1 .. n + 1 |-> f[i]]
           G == CHOOSE g : g = step(g)
<1>1. Parsed(buff) = G[1]
  BY Zenon DEF Parsed, ParsedAt
<1>2. \A i \in 1 .. n + 1 : H[i] = f[i]
  OBVIOUS
<1>3. H = step(H)
  <2>1. ASSUME NEW i \in 1 .. n + 1 PROVE H[i] = ParsedAt(buff, H, i)
    <3> HIDE DEF H
    <3>1. ASSUME NEW j \in i + 1 .. n + 1 PROVE f[j] = H[j]
      <4>1. j \in 1 .. n + 1
        OBVIOUS
      <4>2. QED
        BY <1>2, <4>1, Zenon
    <3>2. ParsedAt(buff, f, i) = ParsedAt(buff, H, i)
      BY <3>1, ParsedAtSame
    <3>3. f[i] = ParsedAt(buff, f, i)
      BY Zenon DEF Parses
    <3>4. QED
      BY <1>2, <3>2, <3>3, Zenon
  <2>2. H = [i \in 1 .. n + 1 |-> H[i]]
    OBVIOUS
  <2> HIDE DEF H
  <2>3. QED
    BY <2>1, <2>2, Zenon
<1>4. G = step(G)
  <2> HIDE DEF H
  <2>1. QED
    BY <1>3, Zenon
<1> HIDE DEF G, H
<1>5. ASSUME NEW i \in 1 .. n + 1 PROVE G[i] = ParsedAt(buff, G, i)
  BY <1>4, Zenon
<1> DEFINE T == {d \in 0 .. n : G[n + 1 - d] # f[n + 1 - d]}
<1>6. T = {}
  <2> SUFFICES ASSUME T # {} PROVE FALSE
    OBVIOUS
  <2>1. PICK x \in T : \A y \in T : x <= y
    <3>1. T \subseteq Nat
      OBVIOUS
    <3> HIDE DEF T
    <3>2. QED
      BY <3>1, Smallest
  <2>2. x \in 0 .. n /\ G[n + 1 - x] # f[n + 1 - x]
    BY <2>1
  <2>3. PICK k \in 1 .. n + 1 : k = n + 1 - x
    BY <2>2
  <2>4. ASSUME NEW j \in k + 1 .. n + 1 PROVE G[j] = f[j]
    <3>1. n + 1 - j \in 0 .. n /\ ~(x <= n + 1 - j) /\ n + 1 - (n + 1 - j) = j
      BY <2>2, <2>3
    <3>2. n + 1 - j \notin T
      BY <2>1, <3>1, Zenon
    <3>3. QED
      BY <3>1, <3>2, Zenon
  <2>5. ParsedAt(buff, G, k) = ParsedAt(buff, f, k)
    BY <2>4, ParsedAtSame
  <2>6. f[k] = ParsedAt(buff, f, k) /\ G[k] = ParsedAt(buff, G, k)
    BY <1>5, Zenon DEF Parses
  <2>7. QED
    BY <2>2, <2>3, <2>5, <2>6, Zenon
<1>7. n \in 0 .. n /\ n + 1 - n = 1
  OBVIOUS
<1>8. ASSUME G[1] # f[1] PROVE n \in T
  BY <1>7, <1>8, Zenon
<1>9. n \notin T
  <2> HIDE DEF T
  <2>1. QED
    BY <1>6
<1>10. QED
  BY <1>1, <1>8, <1>9, Zenon

\* What a token puts before the tokens behind it.
Put(t, parsed) == [tokens |-> <<t>> \o parsed.tokens, rest |-> parsed.rest]
PutByte(b, parsed) == [tokens |-> WithByte(b, parsed.tokens), rest |-> parsed.rest]
IsParsed(B, p) ==
  \E t \in Seq(TokensOf(B)), r \in Seq(B) : p = [tokens |-> t, rest |-> r]

LEMMA PutIs ==
  ASSUME NEW B, NEW p, IsParsed(B, p), NEW t, NEW b
  PROVE  /\ [p EXCEPT !.tokens = <<t>> \o @] = Put(t, p)
         /\ [p EXCEPT !.tokens = WithByte(b, @)] = PutByte(b, p)
<1>1. PICK q, r : p = [tokens |-> q, rest |-> r]
  BY Zenon DEF IsParsed
<1>2. p.tokens = q /\ p.rest = r
  BY <1>1
<1>3. [p EXCEPT !.tokens = <<t>> \o @] = [p EXCEPT !.tokens = <<t>> \o q]
  BY <1>2, Zenon
<1>4. [p EXCEPT !.tokens = WithByte(b, @)] = [p EXCEPT !.tokens = WithByte(b, q)]
  BY <1>2, Zenon
<1>5. \A u : [p EXCEPT !.tokens = u] = [tokens |-> u, rest |-> r]
  BY <1>1
<1>6. QED
  BY <1>2, <1>3, <1>4, <1>5, Zenon DEF Put, PutByte

\* The cases of a buffer's byte.
LEMMA ParsedEnd ==
  ASSUME NEW buff, NEW n \in Nat, n = Len(buff), NEW i \in 1 .. n + 1, NEW f, i > n
  PROVE  ParsedAt(buff, f, i) = [tokens |-> <<>>, rest |-> <<>>]
BY Zenon DEF ParsedAt

LEMMA ParsedHeld ==
  ASSUME NEW buff, NEW n \in Nat, n = Len(buff), NEW i \in 1 .. n + 1, NEW f,
         i <= n, HeldAt(buff, i)
  PROVE  ParsedAt(buff, f, i) = [tokens |-> <<>>, rest |-> SubSeq(buff, i, n)]
<1>1. ~(i > n)
  OBVIOUS
<1>2. QED
  BY <1>1, Zenon DEF ParsedAt

LEMMA ParsedArrow ==
  ASSUME NEW buff, NEW n \in Nat, n = Len(buff), NEW i \in 1 .. n + 1, NEW f,
         i <= n, ~HeldAt(buff, i), ArrowAt(buff, i), NEW B, NEW g, g = f[i + 3],
         IsParsed(B, g), NEW t, t = Token(Arrows[buff[i + 2]], SubSeq(buff, i, i + 2))
  PROVE  ParsedAt(buff, f, i) = Put(t, g)
<1>1. ~(i > n)
  OBVIOUS
<1>2. ParsedAt(buff, f, i) = [g EXCEPT !.tokens = <<t>> \o @]
  BY <1>1, Zenon DEF ParsedAt
<1>3. QED
  BY <1>2, PutIs, Zenon

LEMMA ParsedControl ==
  ASSUME NEW buff, NEW n \in Nat, n = Len(buff), NEW i \in 1 .. n + 1, NEW f,
         i <= n, ~HeldAt(buff, i), ~ArrowAt(buff, i), NEW b, b = buff[i],
         b \in DOMAIN Controls, NEW B, NEW g, g = f[i + 1], IsParsed(B, g),
         NEW t, t = Token(Controls[b], <<b>>)
  PROVE  ParsedAt(buff, f, i) = Put(t, g)
<1>1. ~(i > n)
  OBVIOUS
<1>2. ParsedAt(buff, f, i) = [g EXCEPT !.tokens = <<t>> \o @]
  BY <1>1, Zenon DEF ParsedAt
<1>3. QED
  BY <1>2, PutIs, Zenon

LEMMA ParsedByte ==
  ASSUME NEW buff, NEW n \in Nat, n = Len(buff), NEW i \in 1 .. n + 1, NEW f,
         i <= n, ~HeldAt(buff, i), ~ArrowAt(buff, i), buff[i] \notin DOMAIN Controls,
         NEW B, NEW g, g = f[i + 1], IsParsed(B, g)
  PROVE  ParsedAt(buff, f, i) = PutByte(buff[i], g)
<1>1. ~(i > n)
  OBVIOUS
<1>2. ParsedAt(buff, f, i) = [g EXCEPT !.tokens = WithByte(buff[i], @)]
  BY <1>1, Zenon DEF ParsedAt
<1>3. QED
  BY <1>2, PutIs, Zenon

LEMMA WithByteType ==
  ASSUME NEW B, NEW b \in B \ {"CR"}, NEW t \in Seq(TokensOf(B))
  PROVE  WithByte(b, t) \in Seq(TokensOf(B))
<1>1. \A u \in Seq(B \ {"CR"}) : Token("Bytes", u) \in TokensOf(B)
  <2>1. \A u \in Seq(B \ {"CR"}) : u \in Seq(B)
    OBVIOUS
  <2>2. "Bytes" \in KeyNames
    BY DEF KeyNames
  <2>3. ASSUME NEW u \in Seq(B \ {"CR"}) PROVE Token("Bytes", u) \in TokensOf(B)
    <3>1. u \in Seq(B)
      BY <2>1, Zenon
    <3>2. QED
      BY <2>2, <3>1 DEF Token, TokensOf
  <2>4. QED
    BY <2>3, Zenon
<1>2. <<b>> \in Seq(B \ {"CR"})
  BY OneOf
<1>3. CASE t # <<>> /\ Head(t).key = "Bytes"
  <2>1. Head(t) \in TokensOf(B) /\ Tail(t) \in Seq(TokensOf(B))
    BY <1>3
  <2>2. Head(t).bytes \in Seq(B \ {"CR"})
    BY <1>3, <2>1 DEF TokensOf
  <2>3. PICK u \in Seq(B \ {"CR"}) : u = <<b>> \o Head(t).bytes
    <3>1. \A x, y \in Seq(B \ {"CR"}) : x \o y \in Seq(B \ {"CR"})
      OBVIOUS
    <3>2. QED
      BY <1>2, <2>2, <3>1, Zenon
  <2>4. PICK k \in TokensOf(B) : k = Token("Bytes", u)
    BY <1>1, Zenon
  <2>5. <<k>> \o Tail(t) \in Seq(TokensOf(B))
    BY <2>1
  <2>6. QED
    BY <1>3, <2>3, <2>4, <2>5, Zenon DEF WithByte
<1>4. CASE ~(t # <<>> /\ Head(t).key = "Bytes")
  <2>1. PICK k \in TokensOf(B) : k = Token("Bytes", <<b>>)
    BY <1>1, <1>2, Zenon
  <2>2. <<k>> \o t \in Seq(TokensOf(B))
    OBVIOUS
  <2>3. QED
    BY <1>4, <2>1, <2>2, Zenon DEF WithByte
<1>5. QED
  BY <1>3, <1>4

\* A run over the buffer from its end.
LEMMA DownFrom ==
  ASSUME NEW n \in Nat, NEW P \in [1 .. n + 1 -> BOOLEAN],
         \A k \in 1 .. n + 1 : (\A j \in k + 1 .. n + 1 : P[j]) => P[k]
  PROVE  \A k \in 1 .. n + 1 : P[k]
<1> DEFINE T == {d \in 0 .. n : ~P[n + 1 - d]}
<1>1. T = {}
  <2> SUFFICES ASSUME T # {} PROVE FALSE
    OBVIOUS
  <2>1. PICK x \in T : \A y \in T : x <= y
    <3>1. T \subseteq Nat
      OBVIOUS
    <3> HIDE DEF T
    <3>2. QED
      BY <3>1, Smallest
  <2>2. x \in 0 .. n /\ ~P[n + 1 - x]
    BY <2>1
  <2>3. PICK k \in 1 .. n + 1 : k = n + 1 - x
    BY <2>2
  <2>4. ASSUME NEW j \in k + 1 .. n + 1 PROVE P[j]
    <3>1. n + 1 - j \in 0 .. n /\ ~(x <= n + 1 - j) /\ n + 1 - (n + 1 - j) = j
      BY <2>2, <2>3
    <3>2. n + 1 - j \notin T
      BY <2>1, <3>1, Zenon
    <3>3. QED
      BY <3>1, <3>2, Zenon
  <2>5. QED
    BY <2>2, <2>3, <2>4, Zenon
<1>2. ASSUME NEW k \in 1 .. n + 1 PROVE P[k]
  <2>1. n + 1 - k \in 0 .. n /\ n + 1 - (n + 1 - k) = k
    OBVIOUS
  <2>2. n + 1 - k \notin T
    <3> HIDE DEF T
    <3>1. QED
      BY <1>1
  <2>3. QED
    BY <2>1, <2>2, Zenon
<1>3. QED
  BY <1>2

LEMMA ParsesType ==
  ASSUME NEW B, NEW buff \in Seq(B), NEW n \in Nat, n = Len(buff), NEW f,
         Parses(buff, n, 1, f)
  PROVE  \A i \in 1 .. n + 1 : IsParsed(B, f[i])
<1> DEFINE P == [i \in 1 .. n + 1 |-> IsParsed(B, f[i])]
<1>1. ASSUME NEW k \in 1 .. n + 1, \A j \in k + 1 .. n + 1 : P[j] PROVE P[k]
  <2>1. \A j \in k + 1 .. n + 1 : IsParsed(B, f[j])
    <3>1. \A j \in k + 1 .. n + 1 : j \in 1 .. n + 1
      OBVIOUS
    <3>2. QED
      BY <1>1, <3>1, Zenon
  <2>2. f[k] = ParsedAt(buff, f, k)
    BY Zenon DEF Parses
  <2>3. \A i \in 1 .. n : buff[i] \in B
    OBVIOUS
  <2>a. ASSUME NEW j \in k + 1 .. n + 1, NEW t \in TokensOf(B)
        PROVE  IsParsed(B, Put(t, f[j]))
    <3>1. IsParsed(B, f[j])
      BY <2>1, Zenon
    <3>2. PICK q \in Seq(TokensOf(B)), r \in Seq(B) : f[j] = [tokens |-> q, rest |-> r]
      BY <3>1, Zenon DEF IsParsed
    <3>3. f[j].tokens = q /\ f[j].rest = r
      BY <3>2
    <3>4. <<t>> \o q \in Seq(TokensOf(B))
      OBVIOUS
    <3>5. Put(t, f[j]) = [tokens |-> <<t>> \o q, rest |-> r]
      BY <3>3, Zenon DEF Put
    <3>6. QED
      BY <3>4, <3>5, Zenon DEF IsParsed
  <2>b. ASSUME NEW j \in k + 1 .. n + 1, NEW b \in B \ {"CR"}
        PROVE  IsParsed(B, PutByte(b, f[j]))
    <3>1. IsParsed(B, f[j])
      BY <2>1, Zenon
    <3>2. PICK q \in Seq(TokensOf(B)), r \in Seq(B) : f[j] = [tokens |-> q, rest |-> r]
      BY <3>1, Zenon DEF IsParsed
    <3>3. f[j].tokens = q /\ f[j].rest = r
      BY <3>2
    <3>4. WithByte(b, q) \in Seq(TokensOf(B))
      BY WithByteType
    <3>5. PutByte(b, f[j]) = [tokens |-> WithByte(b, q), rest |-> r]
      BY <3>3, Zenon DEF PutByte
    <3>6. QED
      BY <3>4, <3>5, Zenon DEF IsParsed
  <2>4. CASE k > n
    <3>1. f[k] = [tokens |-> <<>>, rest |-> <<>>]
      BY <2>2, <2>4, ParsedEnd, Zenon
    <3>2. <<>> \in Seq(TokensOf(B)) /\ <<>> \in Seq(B)
      OBVIOUS
    <3>3. IsParsed(B, f[k])
      BY <3>1, <3>2, Zenon DEF IsParsed
    <3>4. QED
      BY <3>3
  <2>5. CASE k <= n /\ HeldAt(buff, k)
    <3>1. f[k] = [tokens |-> <<>>, rest |-> SubSeq(buff, k, n)]
      BY <2>2, <2>5, ParsedHeld, Zenon
    <3>2. <<>> \in Seq(TokensOf(B))
      OBVIOUS
    <3>3. SubSeq(buff, k, n) \in Seq(B)
      BY <2>5, SubSeqIs
    <3>4. IsParsed(B, f[k])
      BY <3>1, <3>2, <3>3, Zenon DEF IsParsed
    <3>5. QED
      BY <3>4
  <2>6. CASE k <= n /\ ~HeldAt(buff, k) /\ ArrowAt(buff, k)
    <3>1. k + 2 <= n /\ buff[k + 2] \in DOMAIN Arrows
      BY <2>6, Zenon DEF ArrowAt
    <3>2. k + 3 \in k + 1 .. n + 1 /\ k + 2 \in Nat /\ k <= (k + 2) + 1
      BY <3>1
    <3>3. PICK a : a = Arrows[buff[k + 2]] /\ a \in KeyNames \ {"Bytes"}
      BY <3>1 DEF Arrows, KeyNames
    <3>4. PICK u \in Seq(B) : u = SubSeq(buff, k, k + 2)
      <4>1. SubSeq(buff, k, k + 2) \in Seq(B)
        BY <3>1, <3>2, SubSeqIs
      <4>2. QED
        BY <4>1
    <3>5. Token(a, u) \in TokensOf(B)
      BY <3>3 DEF Token, TokensOf
    <3>6. f[k] = Put(Token(a, u), f[k + 3])
      <4>1. IsParsed(B, f[k + 3])
        BY <2>1, <3>2, Zenon
      <4>2. PICK g : g = f[k + 3]
        OBVIOUS
      <4>3. PICK t : t = Token(a, u)
        OBVIOUS
      <4>4. t = Token(Arrows[buff[k + 2]], SubSeq(buff, k, k + 2))
        BY <3>3, <3>4, <4>3, Zenon
      <4>5. ParsedAt(buff, f, k) = Put(t, g)
        BY <2>6, <4>1, <4>2, <4>4, ParsedArrow, SMTT(60)
      <4>6. QED
        BY <2>2, <4>2, <4>3, <4>5, Zenon
    <3>7. IsParsed(B, f[k])
      BY <2>a, <3>2, <3>5, <3>6, Zenon
    <3>8. QED
      BY <3>7
  <2>c. k <= n => k + 1 \in k + 1 .. n + 1 /\ k \in 1 .. n
    OBVIOUS
  <2>7. CASE k <= n /\ ~HeldAt(buff, k) /\ ~ArrowAt(buff, k) /\ buff[k] \in DOMAIN Controls
    <3>1. PICK a : a = Controls[buff[k]] /\ a \in KeyNames \ {"Bytes"}
      BY <2>7 DEF Controls, KeyNames
    <3>2. PICK u \in Seq(B) : u = <<buff[k]>>
      BY <2>3, <2>7, <2>c, OneOf
    <3>3. Token(a, u) \in TokensOf(B)
      BY <3>1 DEF Token, TokensOf
    <3>4. f[k] = Put(Token(a, u), f[k + 1])
      <4>1. IsParsed(B, f[k + 1])
        BY <2>1, <2>7, <2>c, Zenon
      <4>2. PICK g : g = f[k + 1]
        OBVIOUS
      <4>3. PICK t : t = Token(a, u)
        OBVIOUS
      <4>b. PICK b : b = buff[k]
        OBVIOUS
      <4>4. t = Token(Controls[b], <<b>>)
        BY <3>1, <3>2, <4>3, <4>b, Zenon
      <4>5. ParsedAt(buff, f, k) = Put(t, g)
        <5>1. k <= n /\ k \in 1 .. n + 1
          BY <2>7
        <5>2. IsParsed(B, g) /\ g = f[k + 1]
          BY <4>1, <4>2
        <5>3. QED
          BY <2>7, <4>4, <4>b, <5>1, <5>2, ParsedControl
      <4>6. QED
        BY <2>2, <4>2, <4>3, <4>5, Zenon
    <3>5. IsParsed(B, f[k])
      BY <2>7, <2>a, <2>c, <3>3, <3>4, Zenon
    <3>6. QED
      BY <3>5
  <2>8. CASE k <= n /\ ~HeldAt(buff, k) /\ ~ArrowAt(buff, k) /\ buff[k] \notin DOMAIN Controls
    <3>1. buff[k] \in B \ {"CR"}
      <4>1. "CR" \in DOMAIN Controls
        BY DEF Controls
      <4>2. QED
        BY <2>3, <2>8, <2>c, <4>1
    <3>2. f[k] = PutByte(buff[k], f[k + 1])
      <4>1. IsParsed(B, f[k + 1])
        BY <2>1, <2>8, <2>c, Zenon
      <4>2. PICK g : g = f[k + 1]
        OBVIOUS
      <4>3. ParsedAt(buff, f, k) = PutByte(buff[k], g)
        BY <2>8, <4>1, <4>2, ParsedByte
      <4>4. QED
        BY <2>2, <4>2, <4>3, Zenon
    <3>3. IsParsed(B, f[k])
      BY <2>8, <2>b, <2>c, <3>1, <3>2, Zenon
    <3>4. QED
      BY <3>3
  <2>9. k > n \/ k <= n
    OBVIOUS
  <2>10. QED
    BY <2>4, <2>5, <2>6, <2>7, <2>8, <2>9, Zenon
<1>2. P \in [1 .. n + 1 -> BOOLEAN]
  BY Zenon DEF IsParsed
<1>3. \A k \in 1 .. n + 1 : P[k]
  <2> HIDE DEF P
  <2>1. \A k \in 1 .. n + 1 : (\A j \in k + 1 .. n + 1 : P[j]) => P[k]
    BY <1>1, Zenon
  <2>2. QED
    BY <1>2, <2>1, DownFrom, Zenon
<1>4. QED
  BY <1>3, Zenon

KeySym(B) == B \cup KeyNames
\* The keys of a token, and of each of several.
KeysOf(t) == IF t.key = "Bytes" THEN t.bytes ELSE <<t.key>>
Pressed(ts) == [i \in 1 .. Len(ts) |-> KeysOf(ts[i])]

LEMMA TokenIs ==
  ASSUME NEW B, NEW t \in TokensOf(B)
  PROVE  t.key \in KeyNames /\ t.bytes \in Seq(B) /\ KeysOf(t) \in Seq(KeySym(B))
<1>1. t.key \in KeyNames /\ t.bytes \in Seq(B)
  BY DEF TokensOf
<1>2. t.bytes \in Seq(KeySym(B))
  BY <1>1, LongerSeq DEF KeySym
<1>3. <<t.key>> \in Seq(KeySym(B))
  <2>1. t.key \in KeySym(B)
    BY <1>1 DEF KeySym
  <2>2. QED
    BY <2>1, OneOf
<1>4. QED
  BY <1>1, <1>2, <1>3, Zenon DEF KeysOf

LEMMA PressedType ==
  ASSUME NEW B, NEW ts \in Seq(TokensOf(B))
  PROVE  /\ Pressed(ts) \in Seq(Seq(KeySym(B))) /\ Len(Pressed(ts)) = Len(ts)
         /\ \A i \in 1 .. Len(ts) : Pressed(ts)[i] = KeysOf(ts[i])
<1>1. PICK n \in Nat : n = Len(ts)
  OBVIOUS
<1>2. ASSUME NEW i \in 1 .. n PROVE KeysOf(ts[i]) \in Seq(KeySym(B))
  <2>1. ts[i] \in TokensOf(B)
    BY <1>1
  <2>2. QED
    BY <2>1, TokenIs
<1> DEFINE u == [i \in 1 .. n |-> KeysOf(ts[i])]
<1>3. u \in [1 .. n -> Seq(KeySym(B))]
  BY <1>2
<1>4. \A i \in 1 .. n : u[i] = KeysOf(ts[i])
  OBVIOUS
<1>5. Pressed(ts) = u
  BY <1>1, Zenon DEF Pressed
<1> HIDE DEF u
<1>6. u \in Seq(Seq(KeySym(B))) /\ Len(u) = n
  BY <1>3
<1>7. QED
  BY <1>1, <1>4, <1>5, <1>6, Zenon

LEMMA Keys1Pressed ==
  ASSUME NEW B, NEW ts \in Seq(TokensOf(B))
  PROVE  Keys1(ts) = FlattenSeq(Pressed(ts)) /\ Keys1(ts) \in Seq(KeySym(B))
<1>1. DOMAIN ts = 1 .. Len(ts)
  OBVIOUS
<1>2. ASSUME NEW i \in DOMAIN ts
      PROVE  (IF ts[i].key = "Bytes" THEN [j \in DOMAIN ts[i].bytes |-> ts[i].bytes[j]]
              ELSE <<ts[i].key>>) = KeysOf(ts[i])
  <2>1. ts[i] \in TokensOf(B)
    OBVIOUS
  <2>2. PICK v \in Seq(B) : v = ts[i].bytes
    BY <2>1, TokenIs
  <2>3. [j \in DOMAIN v |-> v[j]] = v
    OBVIOUS
  <2>4. QED
    BY <2>2, <2>3, Zenon DEF KeysOf
<1>3. Keys1(ts) = FlattenSeq(Pressed(ts))
  BY <1>1, <1>2, Zenon DEF Keys1, Pressed
<1>4. QED
  BY <1>3, PressedType, FlattenType

LEMMA KeysNone == Keys1(<<>>) = <<>>
<1>1. [i \in DOMAIN <<>> |-> IF <<>>[i].key = "Bytes"
                             THEN [j \in DOMAIN <<>>[i].bytes |-> <<>>[i].bytes[j]]
                             ELSE <<<<>>[i].key>>] = <<>>
  OBVIOUS
<1>2. QED
  BY <1>1, FlattenNone, Zenon DEF Keys1

LEMMA KeysOne ==
  ASSUME NEW B, NEW t \in TokensOf(B)
  PROVE  Keys1(<<t>>) = KeysOf(t)
<1>1. <<t>> \in Seq(TokensOf(B)) /\ Len(<<t>>) = 1 /\ <<t>>[1] = t
  OBVIOUS
<1>2. PICK u \in Seq(Seq(KeySym(B))) :
        u = Pressed(<<t>>) /\ Len(u) = 1 /\ u[1] = KeysOf(t)
  <2>1. \A i \in 1 .. Len(<<t>>) : Pressed(<<t>>)[i] = KeysOf(<<t>>[i])
    BY <1>1, PressedType
  <2>2. 1 \in 1 .. Len(<<t>>)
    OBVIOUS
  <2>3. QED
    BY <1>1, <2>1, <2>2, PressedType
<1>3. PICK k \in Seq(KeySym(B)) : k = KeysOf(t)
  BY TokenIs
<1>4. u = <<k>>
  BY <1>2, <1>3
<1>5. Keys1(<<t>>) = FlattenSeq(Pressed(<<t>>))
  BY <1>1, Keys1Pressed
<1>6. FlattenSeq(<<k>>) = k
  BY FlattenOne
<1>7. QED
  BY <1>2, <1>3, <1>4, <1>5, <1>6, Zenon

LEMMA KeysConcat ==
  ASSUME NEW B, NEW a \in Seq(TokensOf(B)), NEW b \in Seq(TokensOf(B))
  PROVE  Keys1(a \o b) = Keys1(a) \o Keys1(b)
<1>1. PICK u \in Seq(TokensOf(B)), m \in Nat, n \in Nat :
        /\ m = Len(a) /\ n = Len(b) /\ u = a \o b /\ Len(u) = m + n
        /\ \A i \in 1 .. m : u[i] = a[i]
        /\ \A i \in 1 .. n : u[m + i] = b[i]
  <2>1. Len(a) \in Nat /\ Len(b) \in Nat /\ a \o b \in Seq(TokensOf(B))
    OBVIOUS
  <2>2. /\ Len(a \o b) = Len(a) + Len(b)
        /\ \A i \in 1 .. Len(a) : (a \o b)[i] = a[i]
        /\ \A i \in 1 .. Len(b) : (a \o b)[Len(a) + i] = b[i]
    BY ConcatIs
  <2>3. QED
    BY <2>1, <2>2, Zenon
<1>2. PICK x \in Seq(Seq(KeySym(B))) :
        x = Pressed(a) /\ Len(x) = m /\ \A i \in 1 .. m : x[i] = KeysOf(a[i])
  BY <1>1, PressedType
<1>3. PICK y \in Seq(Seq(KeySym(B))) :
        y = Pressed(b) /\ Len(y) = n /\ \A i \in 1 .. n : y[i] = KeysOf(b[i])
  BY <1>1, PressedType
<1>4. PICK z \in Seq(Seq(KeySym(B))) :
        z = Pressed(u) /\ Len(z) = m + n /\ \A i \in 1 .. m + n : z[i] = KeysOf(u[i])
  <2>1. Len(u) = m + n
    BY <1>1
  <2>2. /\ Pressed(u) \in Seq(Seq(KeySym(B))) /\ Len(Pressed(u)) = Len(u)
        /\ \A i \in 1 .. Len(u) : Pressed(u)[i] = KeysOf(u[i])
    BY PressedType
  <2>3. QED
    BY <2>1, <2>2, Zenon
<1>5. ASSUME NEW i \in 1 .. m PROVE z[i] = x[i]
  <2>1. i \in 1 .. m + n
    OBVIOUS
  <2>2. QED
    BY <1>1, <1>2, <1>4, <2>1, Zenon
<1>6. ASSUME NEW i \in 1 .. n PROVE z[m + i] = y[i]
  <2>1. m + i \in 1 .. m + n
    OBVIOUS
  <2>2. QED
    BY <1>1, <1>3, <1>4, <2>1, Zenon
<1>7. z = x \o y
  <2>1. Len(z) = Len(x) + Len(y) /\ Len(x) = m /\ Len(y) = n
    BY <1>2, <1>3, <1>4
  <2>2. \A i \in 1 .. Len(x) : z[i] = x[i]
    BY <1>5, <2>1
  <2>3. \A i \in 1 .. Len(y) : z[Len(x) + i] = y[i]
    BY <1>6, <2>1
  <2>4. QED
    BY <2>1, <2>2, <2>3, ConcatEqual
<1>8. FlattenSeq(z) = FlattenSeq(x) \o FlattenSeq(y)
  BY <1>7, FlattenConcat
<1>9. Keys1(u) = FlattenSeq(z) /\ Keys1(a) = FlattenSeq(x) /\ Keys1(b) = FlattenSeq(y)
  BY <1>2, <1>3, <1>4, Keys1Pressed
<1>10. QED
  BY <1>1, <1>8, <1>9, Zenon

\* A byte of text is a key of its own.
LEMMA KeysWithByte ==
  ASSUME NEW B, NEW b \in B \ {"CR"}, NEW ts \in Seq(TokensOf(B))
  PROVE  Keys1(WithByte(b, ts)) = <<b>> \o Keys1(ts)
<1>1. \A u \in Seq(B \ {"CR"}) :
        Token("Bytes", u) \in TokensOf(B) /\ KeysOf(Token("Bytes", u)) = u
  <2>1. ASSUME NEW u \in Seq(B \ {"CR"})
        PROVE  Token("Bytes", u) \in TokensOf(B) /\ KeysOf(Token("Bytes", u)) = u
    <3>1. u \in Seq(B)
      BY LongerSeq
    <3>2. "Bytes" \in KeyNames
      BY DEF KeyNames
    <3>3. QED
      BY <3>1, <3>2 DEF Token, TokensOf, KeysOf
  <2>2. QED
    BY <2>1, Zenon
<1>2. <<b>> \in Seq(B \ {"CR"}) /\ <<b>> \in Seq(KeySym(B))
  <2>1. b \in KeySym(B)
    BY DEF KeySym
  <2>2. QED
    BY <2>1, OneOf
<1>3. CASE ts # <<>> /\ Head(ts).key = "Bytes"
  <2>1. PICK h \in TokensOf(B), tl \in Seq(TokensOf(B)) :
          h = Head(ts) /\ tl = Tail(ts) /\ ts = <<h>> \o tl
    <3>1. Head(ts) \in TokensOf(B) /\ Tail(ts) \in Seq(TokensOf(B))
      BY <1>3
    <3>2. ts = <<Head(ts)>> \o Tail(ts)
      BY <1>3
    <3>3. QED
      BY <3>1, <3>2, Zenon
  <2>2. h.bytes \in Seq(B \ {"CR"})
    BY <1>3, <2>1 DEF TokensOf
  <2>3. PICK u \in Seq(B \ {"CR"}) : u = <<b>> \o h.bytes
    <3>1. \A x, y \in Seq(B \ {"CR"}) : x \o y \in Seq(B \ {"CR"})
      OBVIOUS
    <3>2. QED
      BY <1>2, <2>2, <3>1, Zenon
  <2>4. PICK k \in TokensOf(B) : k = Token("Bytes", u) /\ KeysOf(k) = u
    BY <1>1, Zenon
  <2>5. WithByte(b, ts) = <<k>> \o tl
    BY <1>3, <2>1, <2>3, <2>4, Zenon DEF WithByte
  <2>6. <<k>> \in Seq(TokensOf(B)) /\ <<h>> \in Seq(TokensOf(B))
    BY OneOf
  <2>7. Keys1(<<k>> \o tl) = u \o Keys1(tl)
    <3>1. Keys1(<<k>> \o tl) = Keys1(<<k>>) \o Keys1(tl)
      BY <2>6, KeysConcat
    <3>2. Keys1(<<k>>) = KeysOf(k)
      BY KeysOne
    <3>3. QED
      BY <2>4, <3>1, <3>2, Zenon
  <2>8. Keys1(ts) = h.bytes \o Keys1(tl)
    <3>1. Keys1(<<h>> \o tl) = Keys1(<<h>>) \o Keys1(tl)
      BY <2>6, KeysConcat
    <3>2. Keys1(<<h>>) = KeysOf(h)
      BY KeysOne
    <3>3. KeysOf(h) = h.bytes
      BY <1>3, <2>1, Zenon DEF KeysOf
    <3>4. QED
      BY <2>1, <3>1, <3>2, <3>3, Zenon
  <2>9. h.bytes \in Seq(KeySym(B)) /\ Keys1(tl) \in Seq(KeySym(B))
    <3>1. h.bytes \in Seq(B)
      BY TokenIs
    <3>2. h.bytes \in Seq(KeySym(B))
      BY <3>1, LongerSeq DEF KeySym
    <3>3. QED
      BY <3>2, Keys1Pressed
  <2>10. (<<b>> \o h.bytes) \o Keys1(tl) = <<b>> \o (h.bytes \o Keys1(tl))
    <3>1. \A x, y, z \in Seq(KeySym(B)) : (x \o y) \o z = x \o (y \o z)
      BY ConcatAssoc, SMTT(60)
    <3>2. QED
      BY <1>2, <2>9, <3>1, Zenon
  <2>11. QED
    BY <2>3, <2>5, <2>7, <2>8, <2>10, Zenon
<1>4. CASE ~(ts # <<>> /\ Head(ts).key = "Bytes")
  <2>1. PICK k \in TokensOf(B) : k = Token("Bytes", <<b>>) /\ KeysOf(k) = <<b>>
    BY <1>1, <1>2, Zenon
  <2>2. WithByte(b, ts) = <<k>> \o ts
    BY <1>4, <2>1, Zenon DEF WithByte
  <2>3. <<k>> \in Seq(TokensOf(B))
    BY OneOf
  <2>4. Keys1(<<k>> \o ts) = Keys1(<<k>>) \o Keys1(ts)
    BY <2>3, KeysConcat
  <2>5. Keys1(<<k>>) = KeysOf(k)
    BY KeysOne
  <2>6. QED
    BY <2>1, <2>2, <2>4, <2>5, Zenon
<1>5. QED
  BY <1>3, <1>4

\* The key at a byte that need not wait, and where the next one begins.
NextKey(buff, i) ==
  IF ArrowAt(buff, i) THEN Arrows[buff[i + 2]]
  ELSE IF buff[i] \in DOMAIN Controls THEN Controls[buff[i]] ELSE buff[i]
NextPlace(buff, i) == IF ArrowAt(buff, i) THEN i + 3 ELSE i + 1

LEMMA PutKeys ==
  ASSUME NEW B, NEW p, IsParsed(B, p), NEW t \in TokensOf(B)
  PROVE  Keys1(Put(t, p).tokens) = KeysOf(t) \o Keys1(p.tokens) /\ Put(t, p).rest = p.rest
<1>1. PICK q \in Seq(TokensOf(B)), r \in Seq(B) : p = [tokens |-> q, rest |-> r]
  BY Zenon DEF IsParsed
<1>2. p.tokens = q /\ p.rest = r
  BY <1>1
<1>3. Put(t, p).tokens = <<t>> \o q /\ Put(t, p).rest = r
  BY <1>2 DEF Put
<1>4. <<t>> \in Seq(TokensOf(B))
  BY OneOf
<1>5. Keys1(<<t>> \o q) = Keys1(<<t>>) \o Keys1(q)
  BY <1>4, KeysConcat
<1>6. Keys1(<<t>>) = KeysOf(t)
  BY KeysOne
<1>7. QED
  BY <1>2, <1>3, <1>5, <1>6, Zenon

LEMMA PutByteKeys ==
  ASSUME NEW B, NEW p, IsParsed(B, p), NEW b \in B \ {"CR"}
  PROVE  /\ Keys1(PutByte(b, p).tokens) = <<b>> \o Keys1(p.tokens)
         /\ PutByte(b, p).rest = p.rest
<1>1. PICK q \in Seq(TokensOf(B)), r \in Seq(B) : p = [tokens |-> q, rest |-> r]
  BY Zenon DEF IsParsed
<1>2. p.tokens = q /\ p.rest = r
  BY <1>1
<1>3. PutByte(b, p).tokens = WithByte(b, q) /\ PutByte(b, p).rest = r
  BY <1>2 DEF PutByte
<1>4. Keys1(WithByte(b, q)) = <<b>> \o Keys1(q)
  BY KeysWithByte
<1>5. QED
  BY <1>2, <1>3, <1>4, Zenon

\* What is parsed from a place on is the key there, and what is parsed behind.
LEMMA KeyStep ==
  ASSUME NEW B, NEW buff \in Seq(B), NEW n \in Nat, n = Len(buff), NEW f,
         Parses(buff, n, 1, f), NEW k \in 1 .. n, ~HeldAt(buff, k)
  PROVE  /\ NextPlace(buff, k) \in k + 1 .. n + 1 /\ NextKey(buff, k) \in KeySym(B)
         /\ Keys1(f[k].tokens)
              = <<NextKey(buff, k)>> \o Keys1(f[NextPlace(buff, k)].tokens)
         /\ f[k].rest = f[NextPlace(buff, k)].rest
<1>1. /\ k \in 1 .. n + 1 /\ k <= n /\ k + 1 \in k + 1 .. n + 1 /\ k + 1 \in 1 .. n + 1
      /\ buff[k] \in B
  OBVIOUS
<1>2. f[k] = ParsedAt(buff, f, k)
  BY <1>1, Zenon DEF Parses
<1>3. \A i \in 1 .. n + 1 : IsParsed(B, f[i])
  BY ParsesType
<1>4. CASE ArrowAt(buff, k)
  <2>1. k + 2 <= n /\ buff[k + 2] \in DOMAIN Arrows
    BY <1>4, Zenon DEF ArrowAt
  <2>2. /\ k + 3 \in k + 1 .. n + 1 /\ k + 3 \in 1 .. n + 1 /\ k + 2 \in Nat
        /\ k <= (k + 2) + 1
    BY <2>1
  <2>3. PICK a : a = Arrows[buff[k + 2]] /\ a \in KeyNames \ {"Bytes"}
    BY <2>1 DEF Arrows, KeyNames
  <2>4. PICK u \in Seq(B) : u = SubSeq(buff, k, k + 2)
    <3>1. SubSeq(buff, k, k + 2) \in Seq(B)
      BY <2>1, <2>2, SubSeqIs
    <3>2. QED
      BY <3>1
  <2>5. PICK t \in TokensOf(B) : t = Token(a, u) /\ KeysOf(t) = <<a>>
    <3>1. Token(a, u) \in TokensOf(B) /\ KeysOf(Token(a, u)) = <<a>>
      BY <2>3 DEF Token, TokensOf, KeysOf
    <3>2. QED
      BY <3>1
  <2>6. PICK g : g = f[k + 3]
    OBVIOUS
  <2>7. IsParsed(B, g)
    BY <1>3, <2>2, <2>6, Zenon
  <2>8. t = Token(Arrows[buff[k + 2]], SubSeq(buff, k, k + 2))
    BY <2>3, <2>4, <2>5, Zenon
  <2>9. ParsedAt(buff, f, k) = Put(t, g)
    <3>1. k \in 1 .. n + 1 /\ k <= n
      BY <1>1
    <3>2. g = f[k + 3] /\ IsParsed(B, g)
      BY <2>6, <2>7
    <3>3. QED
      BY <1>4, <2>8, <3>1, <3>2, ParsedArrow, SMTT(60)
  <2>10. Keys1(Put(t, g).tokens) = KeysOf(t) \o Keys1(g.tokens) /\ Put(t, g).rest = g.rest
    BY <2>7, PutKeys
  <2>11. NextPlace(buff, k) = k + 3 /\ NextKey(buff, k) = a /\ a \in KeySym(B)
    BY <1>4, <2>3, Zenon DEF NextPlace, NextKey, KeySym
  <2>12. QED
    BY <1>2, <2>2, <2>5, <2>6, <2>9, <2>10, <2>11, Zenon
<1>5. CASE ~ArrowAt(buff, k) /\ buff[k] \in DOMAIN Controls
  <2>1. PICK b \in B : b = buff[k]
    BY <1>1
  <2>2. b \in DOMAIN Controls
    BY <1>5, <2>1, Zenon
  <2>3. PICK a : a = Controls[b] /\ a \in KeyNames \ {"Bytes"}
    BY <2>2 DEF Controls, KeyNames
  <2>4. PICK t \in TokensOf(B) : t = Token(a, <<b>>) /\ KeysOf(t) = <<a>>
    <3>1. <<b>> \in Seq(B)
      BY OneOf
    <3>2. Token(a, <<b>>) \in TokensOf(B) /\ KeysOf(Token(a, <<b>>)) = <<a>>
      BY <2>3, <3>1 DEF Token, TokensOf, KeysOf
    <3>3. QED
      BY <3>2
  <2>5. PICK g : g = f[k + 1]
    OBVIOUS
  <2>6. IsParsed(B, g)
    BY <1>1, <1>3, <2>5, Zenon
  <2>7. t = Token(Controls[b], <<b>>)
    BY <2>3, <2>4, Zenon
  <2>8. ParsedAt(buff, f, k) = Put(t, g)
    BY <1>1, <1>5, <2>1, <2>2, <2>5, <2>6, <2>7, ParsedControl
  <2>9. Keys1(Put(t, g).tokens) = KeysOf(t) \o Keys1(g.tokens) /\ Put(t, g).rest = g.rest
    BY <2>6, PutKeys
  <2>10. NextPlace(buff, k) = k + 1 /\ NextKey(buff, k) = a /\ a \in KeySym(B)
    BY <1>5, <2>1, <2>3, Zenon DEF NextPlace, NextKey, KeySym
  <2>11. QED
    BY <1>1, <1>2, <2>4, <2>5, <2>8, <2>9, <2>10, Zenon
<1>6. CASE ~ArrowAt(buff, k) /\ buff[k] \notin DOMAIN Controls
  <2>1. PICK b \in B \ {"CR"} : b = buff[k]
    <3>1. "CR" \in DOMAIN Controls
      BY DEF Controls
    <3>2. QED
      BY <1>1, <1>6, <3>1
  <2>5. PICK g : g = f[k + 1]
    OBVIOUS
  <2>6. IsParsed(B, g)
    BY <1>1, <1>3, <2>5, Zenon
  <2>7. ParsedAt(buff, f, k) = PutByte(buff[k], g)
    BY <1>1, <1>6, <2>5, <2>6, ParsedByte
  <2>8. Keys1(PutByte(b, g).tokens) = <<b>> \o Keys1(g.tokens) /\ PutByte(b, g).rest = g.rest
    BY <2>6, PutByteKeys
  <2>9. NextPlace(buff, k) = k + 1 /\ NextKey(buff, k) = b /\ b \in KeySym(B)
    BY <1>6, <2>1, Zenon DEF NextPlace, NextKey, KeySym
  <2>10. QED
    BY <1>1, <1>2, <2>1, <2>5, <2>7, <2>8, <2>9, Zenon
<1>7. QED
  BY <1>4, <1>5, <1>6, Zenon

\* In c, d lies behind the first o bytes, and what is at j in d is at i in c.
Lies(d, m, j, c, n, i, o) ==
  /\ m = Len(d) /\ n = Len(c) /\ o + m <= n /\ \A k \in 1 .. m : d[k] = c[o + k]
  /\ i = o + j

\* What follows a key that need not wait does not change it.
LEMMA AtSame ==
  ASSUME NEW c, NEW d, NEW n \in Nat, NEW m \in Nat, NEW o \in Nat,
         NEW j \in 1 .. m, NEW i \in Nat, Lies(d, m, j, c, n, i, o), ~HeldAt(d, j)
  PROVE  /\ ~HeldAt(c, i) /\ NextKey(c, i) = NextKey(d, j)
         /\ NextPlace(c, i) = o + NextPlace(d, j)
<1>0. /\ m = Len(d) /\ n = Len(c) /\ o + m <= n /\ \A k \in 1 .. m : d[k] = c[o + k]
      /\ i = o + j
  BY Zenon DEF Lies
<1>1. d[j] = c[i] /\ i + 1 = o + (j + 1)
  BY <1>0
<1>2. CASE d[j] = "ESC"
  <2>1. j + 2 <= m
    <3>1. ~(j + 2 > m)
      BY <1>0, <1>2, Zenon DEF HeldAt
    <3>2. QED
      BY <3>1
  <2>2. /\ d[j + 1] = c[i + 1] /\ d[j + 2] = c[i + 2]
        /\ i + 2 <= n /\ ~(i + 2 > n) /\ i + 3 = o + (j + 3)
    <3>1. /\ j + 1 \in 1 .. m /\ j + 2 \in 1 .. m /\ o + (j + 1) = i + 1
          /\ o + (j + 2) = i + 2
      BY <1>0, <2>1
    <3>2. d[j + 1] = c[o + (j + 1)] /\ d[j + 2] = c[o + (j + 2)]
      BY <1>0, <3>1
    <3>3. QED
      BY <1>0, <2>1, <3>1, <3>2
  <2>3. ArrowAt(c, i) <=> ArrowAt(d, j)
    BY <1>0, <1>1, <2>1, <2>2, Zenon DEF ArrowAt
  <2>4. ~HeldAt(c, i)
    BY <1>0, <2>2, Zenon DEF HeldAt
  <2>5. QED
    BY <1>1, <2>2, <2>3, <2>4, Zenon DEF NextKey, NextPlace
<1>3. CASE d[j] # "ESC"
  <2>1. ~HeldAt(c, i) /\ ~ArrowAt(c, i) /\ ~ArrowAt(d, j)
    BY <1>1, <1>3, Zenon DEF HeldAt, ArrowAt
  <2>2. QED
    BY <1>1, <2>1, Zenon DEF NextKey, NextPlace
<1>4. QED
  BY <1>2, <1>3

\* Sequences that hold the same are the same.
LEMMA SeqsEqual ==
  ASSUME NEW S, NEW x \in Seq(S), NEW y \in Seq(S), Len(x) = Len(y),
         \A i \in 1 .. Len(x) : x[i] = y[i]
  PROVE  x = y
OBVIOUS

\* The same keys and the same rest.
Alike(p, q) == Keys1(p.tokens) = Keys1(q.tokens) /\ p.rest = q.rest

\* The end of a buffer is parsed as it is by itself.
LEMMA EndAlike ==
  ASSUME NEW B, NEW c \in Seq(B), NEW n \in Nat, n = Len(c), NEW d \in Seq(B),
         NEW m \in Nat, m = Len(d), NEW o \in Nat, o + m = n,
         \A k \in 1 .. m : d[k] = c[o + k], NEW g, Parses(c, n, 1, g),
         NEW h, Parses(d, m, 1, h)
  PROVE  \A j \in 1 .. m + 1 : Alike(h[j], g[o + j])
<1> DEFINE P == [j \in 1 .. m + 1 |-> Alike(h[j], g[o + j])]
<1>1. ASSUME NEW k \in 1 .. m + 1, \A j \in k + 1 .. m + 1 : P[j] PROVE P[k]
  <2>1. ASSUME NEW j \in k + 1 .. m + 1 PROVE Alike(h[j], g[o + j])
    <3>1. j \in 1 .. m + 1
      OBVIOUS
    <3>2. QED
      BY <1>1, <3>1, Zenon
  <2>2. o + k \in 1 .. n + 1
    OBVIOUS
  <2>3. h[k] = ParsedAt(d, h, k) /\ g[o + k] = ParsedAt(c, g, o + k)
    BY <2>2, Zenon DEF Parses
  <2>4. CASE k > m
    <3>1. o + k > n
      BY <2>4
    <3>2. h[k] = [tokens |-> <<>>, rest |-> <<>>]
      BY <2>3, <2>4, ParsedEnd
    <3>3. ParsedAt(c, g, o + k) = [tokens |-> <<>>, rest |-> <<>>]
      BY <2>2, <3>1, ParsedEnd
    <3>4. QED
      BY <2>3, <3>2, <3>3, Zenon DEF Alike
  <2>5. CASE k <= m /\ HeldAt(d, k)
    <3>1. o + k <= n /\ k \in 1 .. m /\ o + k \in Nat
      BY <2>5
    <3>2. HeldAt(c, o + k)
      <4>1. (k + 2 > m) <=> ((o + k) + 2 > n)
        OBVIOUS
      <4>2. d[k] = c[o + k]
        BY <3>1
      <4>3. QED
        BY <2>5, <4>1, <4>2, Zenon DEF HeldAt
    <3>3. ParsedAt(d, h, k) = [tokens |-> <<>>, rest |-> SubSeq(d, k, m)]
      BY <2>5, ParsedHeld
    <3>4. ParsedAt(c, g, o + k) = [tokens |-> <<>>, rest |-> SubSeq(c, o + k, n)]
      BY <2>2, <3>1, <3>2, ParsedHeld
    <3>7. n + 1 - (o + k) = m + 1 - k
      OBVIOUS
    <3>5. PICK x \in Seq(B) : /\ x = SubSeq(d, k, m) /\ Len(x) = m + 1 - k
                              /\ \A i \in 1 .. m + 1 - k : x[i] = d[k + i - 1]
      <4>1. 1 <= k /\ k <= m + 1 /\ m <= Len(d) /\ k \in Nat
        OBVIOUS
      <4>2. /\ SubSeq(d, k, m) \in Seq(B) /\ Len(SubSeq(d, k, m)) = m + 1 - k
            /\ \A i \in 1 .. m + 1 - k : SubSeq(d, k, m)[i] = d[k + i - 1]
        BY <4>1, SubSeqIs
      <4>3. QED
        BY <4>2
    <3>6. PICK y \in Seq(B) : /\ y = SubSeq(c, o + k, n) /\ Len(y) = n + 1 - (o + k)
                              /\ \A i \in 1 .. n + 1 - (o + k) : y[i] = c[(o + k) + i - 1]
      <4>1. 1 <= o + k /\ o + k <= n + 1 /\ n <= Len(c) /\ o + k \in Nat
        OBVIOUS
      <4>2. /\ SubSeq(c, o + k, n) \in Seq(B) /\ Len(SubSeq(c, o + k, n)) = n + 1 - (o + k)
            /\ \A i \in 1 .. n + 1 - (o + k) : SubSeq(c, o + k, n)[i] = c[(o + k) + i - 1]
        BY <4>1, SubSeqIs
      <4>3. QED
        BY <4>2
    <3>8. ASSUME NEW i \in 1 .. m + 1 - k PROVE x[i] = y[i]
      <4>1. k + i - 1 \in 1 .. m /\ o + (k + i - 1) = (o + k) + i - 1
        OBVIOUS
      <4>2. d[k + i - 1] = c[(o + k) + i - 1]
        BY <4>1
      <4>3. QED
        BY <3>5, <3>6, <3>7, <4>2, Zenon
    <3>9. x = y
      <4>1. Len(x) = Len(y) /\ Len(x) = m + 1 - k
        BY <3>5, <3>6, <3>7, Zenon
      <4>2. \A i \in 1 .. Len(x) : x[i] = y[i]
        BY <3>8, <4>1, Zenon
      <4>3. x \in Seq(B) /\ y \in Seq(B)
        OBVIOUS
      <4>4. QED
        BY <4>1, <4>2, <4>3, SeqsEqual
    <3>10. h[k].tokens = <<>> /\ h[k].rest = x
      BY <2>3, <3>3, <3>5
    <3>11. g[o + k].tokens = <<>> /\ g[o + k].rest = x
      <4>1. g[o + k] = [tokens |-> <<>>, rest |-> x]
        BY <2>3, <3>4, <3>6, <3>9, Zenon
      <4>2. QED
        BY <4>1
    <3>12. QED
      BY <3>10, <3>11, Zenon DEF Alike
  <2>6. CASE k <= m /\ ~HeldAt(d, k)
    <3>1. k \in 1 .. m /\ o + k \in 1 .. n /\ o + m <= n
      BY <2>6
    <3>5. PICK i \in 1 .. n : i = o + k
      BY <3>1
    <3>2. /\ ~HeldAt(c, i) /\ NextKey(c, i) = NextKey(d, k)
          /\ NextPlace(c, i) = o + NextPlace(d, k)
      <4>1. Lies(d, m, k, c, n, i, o)
        BY <3>1, <3>5, Zenon DEF Lies
      <4>2. i \in Nat
        OBVIOUS
      <4>3. QED
        BY <2>6, <3>1, <3>5, <4>1, <4>2, AtSame
    <3>3. PICK j : j = NextPlace(d, k)
      OBVIOUS
    <3>4. /\ NextPlace(d, k) \in k + 1 .. m + 1
          /\ Keys1(h[k].tokens) = <<NextKey(d, k)>> \o Keys1(h[NextPlace(d, k)].tokens)
          /\ h[k].rest = h[NextPlace(d, k)].rest
      BY <2>6, <3>1, KeyStep
    <3>6. /\ Keys1(g[i].tokens) = <<NextKey(c, i)>> \o Keys1(g[NextPlace(c, i)].tokens)
          /\ g[i].rest = g[NextPlace(c, i)].rest
      <4>1. ~HeldAt(c, i)
        BY <3>2, <3>5, Zenon
      <4>2. QED
        BY <4>1, KeyStep
    <3>7. Alike(h[j], g[o + j])
      BY <2>1, <3>3, <3>4, Zenon
    <3>8. QED
      BY <3>2, <3>3, <3>4, <3>5, <3>6, <3>7, Zenon DEF Alike
  <2>7. k > m \/ k <= m
    OBVIOUS
  <2>8. QED
    BY <2>4, <2>5, <2>6, <2>7, Zenon
<1>2. P \in [1 .. m + 1 -> BOOLEAN]
  BY Zenon DEF Alike
<1>3. \A k \in 1 .. m + 1 : P[k]
  <2> HIDE DEF P
  <2>1. \A k \in 1 .. m + 1 : (\A j \in k + 1 .. m + 1 : P[j]) => P[k]
    BY <1>1, Zenon
  <2>2. QED
    BY <1>2, <2>1, DownFrom, Zenon
<1>4. QED
  BY <1>3, Zenon

\* From i to r the keys of b are those of what b begins, and b keeps the bytes
\* from r on.
Joint(b, f, g, m, i, r) ==
  /\ f[i].rest = SubSeq(b, r, m)
  /\ r <= m => HeldAt(b, r)
  /\ Keys1(g[i].tokens) = Keys1(f[i].tokens) \o Keys1(g[r].tokens)
  /\ g[i].rest = g[r].rest

LEMMA JointsExist ==
  ASSUME NEW B, NEW b \in Seq(B), NEW m \in Nat, m = Len(b), NEW c \in Seq(B),
         NEW n \in Nat, n = Len(c), m <= n, \A k \in 1 .. m : b[k] = c[k],
         NEW f, Parses(b, m, 1, f), NEW g, Parses(c, n, 1, g)
  PROVE  \A i \in 1 .. m + 1 : \E r \in i .. m + 1 : Joint(b, f, g, m, i, r)
<1> DEFINE P == [i \in 1 .. m + 1 |-> \E r \in i .. m + 1 : Joint(b, f, g, m, i, r)]
<1>t. \A i \in 1 .. m + 1 : IsParsed(B, f[i])
  BY ParsesType
<1>u. \A i \in 1 .. n + 1 : IsParsed(B, g[i])
  BY ParsesType
<1>k. \A p : IsParsed(B, p) => Keys1(p.tokens) \in Seq(KeySym(B))
  <2>1. ASSUME NEW p, IsParsed(B, p) PROVE Keys1(p.tokens) \in Seq(KeySym(B))
    <3>1. PICK q \in Seq(TokensOf(B)), r \in Seq(B) : p = [tokens |-> q, rest |-> r]
      BY <2>1, Zenon DEF IsParsed
    <3>2. p.tokens = q
      BY <3>1
    <3>3. QED
      BY <3>2, Keys1Pressed
  <2>2. QED
    BY <2>1, Zenon
<1>1. ASSUME NEW k \in 1 .. m + 1, \A j \in k + 1 .. m + 1 : P[j] PROVE P[k]
  <2>1. ASSUME NEW j \in k + 1 .. m + 1
        PROVE  \E r \in j .. m + 1 : Joint(b, f, g, m, j, r)
    <3>1. j \in 1 .. m + 1
      OBVIOUS
    <3>2. QED
      BY <1>1, <3>1, Zenon
  <2>2. k \in 1 .. n + 1 /\ k \in k .. m + 1 /\ m + 1 \in k .. m + 1
    OBVIOUS
  <2>3. f[k] = ParsedAt(b, f, k) /\ g[k] = ParsedAt(c, g, k)
    BY <2>2, Zenon DEF Parses
  <2>g. Keys1(g[k].tokens) = <<>> \o Keys1(g[k].tokens)
    <3>1. Keys1(g[k].tokens) \in Seq(KeySym(B))
      BY <1>k, <1>u, <2>2, Zenon
    <3>2. \A x \in Seq(KeySym(B)) : x = <<>> \o x
      OBVIOUS
    <3>3. QED
      BY <3>1, <3>2, Zenon
  <2>4. CASE k > m
    <3>1. k = m + 1
      BY <2>4
    <3>2. f[k] = [tokens |-> <<>>, rest |-> <<>>]
      BY <2>3, <2>4, ParsedEnd
    <3>3. f[k].tokens = <<>> /\ f[k].rest = <<>>
      BY <3>2
    <3>4. SubSeq(b, m + 1, m) = <<>>
      BY CutAll
    <3>5. ~(k <= m)
      BY <2>4
    <3>6. Joint(b, f, g, m, k, k)
      BY <2>g, <3>1, <3>3, <3>4, <3>5, KeysNone, Zenon DEF Joint
    <3>7. QED
      BY <2>2, <3>6, Zenon
  <2>5. CASE k <= m /\ HeldAt(b, k)
    <3>1. ParsedAt(b, f, k) = [tokens |-> <<>>, rest |-> SubSeq(b, k, m)]
      BY <2>5, ParsedHeld
    <3>2. f[k].tokens = <<>> /\ f[k].rest = SubSeq(b, k, m)
      BY <2>3, <3>1
    <3>3. Joint(b, f, g, m, k, k)
      BY <2>g, <2>5, <3>2, KeysNone, Zenon DEF Joint
    <3>4. QED
      BY <2>2, <3>3, Zenon
  <2>6. CASE k <= m /\ ~HeldAt(b, k)
    <3>1. k \in 1 .. m /\ k \in 1 .. n
      BY <2>6
    <3>2. /\ ~HeldAt(c, k) /\ NextKey(c, k) = NextKey(b, k)
          /\ NextPlace(c, k) = NextPlace(b, k)
      <4>0. NextPlace(b, k) \in Nat /\ NextPlace(b, k) = 0 + NextPlace(b, k)
        BY DEF NextPlace
      <4>a. 0 + m <= n /\ k = 0 + k /\ k \in Nat /\ \A i \in 1 .. m : b[i] = c[0 + i]
        OBVIOUS
      <4>1. k = 0 + k /\ k \in Nat /\ 0 \in Nat /\ Lies(b, m, k, c, n, k, 0)
        BY <4>a, Zenon DEF Lies
      <4>2. /\ ~HeldAt(c, k) /\ NextKey(c, k) = NextKey(b, k)
            /\ NextPlace(c, k) = 0 + NextPlace(b, k)
        BY <2>6, <3>1, <4>1, AtSame
      <4>3. QED
        BY <4>0, <4>1, <4>2, Zenon
    <3>3. PICK j : j = NextPlace(b, k)
      OBVIOUS
    <3>4. PICK s : s = NextKey(b, k)
      OBVIOUS
    <3>5. /\ j \in k + 1 .. m + 1 /\ s \in KeySym(B)
          /\ Keys1(f[k].tokens) = <<s>> \o Keys1(f[j].tokens) /\ f[k].rest = f[j].rest
      <4>1. /\ NextPlace(b, k) \in k + 1 .. m + 1 /\ NextKey(b, k) \in KeySym(B)
            /\ Keys1(f[k].tokens) = <<NextKey(b, k)>> \o Keys1(f[NextPlace(b, k)].tokens)
            /\ f[k].rest = f[NextPlace(b, k)].rest
        BY <2>6, <3>1, KeyStep
      <4>2. QED
        BY <3>3, <3>4, <4>1, Zenon
    <3>6. Keys1(g[k].tokens) = <<s>> \o Keys1(g[j].tokens) /\ g[k].rest = g[j].rest
      <4>1. /\ Keys1(g[k].tokens) = <<NextKey(c, k)>> \o Keys1(g[NextPlace(c, k)].tokens)
            /\ g[k].rest = g[NextPlace(c, k)].rest
        BY <3>1, <3>2, KeyStep
      <4>2. QED
        BY <3>2, <3>3, <3>4, <4>1, Zenon
    <3>7. PICK r \in j .. m + 1 : Joint(b, f, g, m, j, r)
      BY <2>1, <3>5
    <3>8. r \in k .. m + 1 /\ r \in 1 .. n + 1 /\ j \in 1 .. m + 1
      BY <3>5, <3>7
    <3>9. (<<s>> \o Keys1(f[j].tokens)) \o Keys1(g[r].tokens)
            = <<s>> \o (Keys1(f[j].tokens) \o Keys1(g[r].tokens))
      <4>1. <<s>> \in Seq(KeySym(B))
        BY <3>5, OneOf
      <4>2. Keys1(f[j].tokens) \in Seq(KeySym(B)) /\ Keys1(g[r].tokens) \in Seq(KeySym(B))
        BY <1>k, <1>t, <1>u, <3>8, Zenon
      <4>3. \A x, y, z \in Seq(KeySym(B)) : (x \o y) \o z = x \o (y \o z)
        BY ConcatAssoc, SMTT(60)
      <4>4. QED
        BY <4>1, <4>2, <4>3, Zenon
    <3>10. Joint(b, f, g, m, k, r)
      BY <3>5, <3>6, <3>7, <3>9, Zenon DEF Joint
    <3>11. QED
      BY <3>8, <3>10, Zenon
  <2>7. k > m \/ k <= m
    OBVIOUS
  <2>8. QED
    BY <2>4, <2>5, <2>6, <2>7, Zenon
<1>2. P \in [1 .. m + 1 -> BOOLEAN]
  BY Zenon
<1>3. \A k \in 1 .. m + 1 : P[k]
  <2> HIDE DEF P
  <2>1. \A k \in 1 .. m + 1 : (\A j \in k + 1 .. m + 1 : P[j]) => P[k]
    BY <1>1, Zenon
  <2>2. QED
    BY <1>2, <2>1, DownFrom, Zenon
<1>4. QED
  BY <1>3, Zenon

LEMMA ParsedType ==
  ASSUME NEW B, NEW b \in Seq(B)
  PROVE  /\ IsParsed(B, Parsed(b))
         /\ Parsed(b).tokens \in Seq(TokensOf(B)) /\ Parsed(b).rest \in Seq(B)
         /\ Keys1(Parsed(b).tokens) \in Seq(KeySym(B))
<1>1. PICK n \in Nat : n = Len(b)
  OBVIOUS
<1>2. PICK f : Parses(b, n, 1, f)
  BY <1>1, ParsesExist
<1>3. Parsed(b) = f[1]
  BY <1>1, <1>2, ParsedIs
<1>4. IsParsed(B, f[1])
  <2>1. \A i \in 1 .. n + 1 : IsParsed(B, f[i])
    BY <1>1, <1>2, ParsesType
  <2>2. 1 \in 1 .. n + 1
    OBVIOUS
  <2>3. QED
    BY <2>1, <2>2, Zenon
<1>5. PICK q \in Seq(TokensOf(B)), r \in Seq(B) : Parsed(b) = [tokens |-> q, rest |-> r]
  BY <1>3, <1>4, Zenon DEF IsParsed
<1>6. Parsed(b).tokens = q /\ Parsed(b).rest = r
  BY <1>5
<1>7. QED
  BY <1>3, <1>4, <1>6, Keys1Pressed

\* Bytes may be parsed as they come: what was kept is put before what follows.
LEMMA ParsedOn ==
  ASSUME NEW B, NEW b \in Seq(B), NEW p \in Seq(B)
  PROVE  /\ Keys1(Parsed(b \o p).tokens)
              = Keys1(Parsed(b).tokens) \o Keys1(Parsed(Parsed(b).rest \o p).tokens)
         /\ Parsed(b \o p).rest = Parsed(Parsed(b).rest \o p).rest
<1>1. PICK m \in Nat, l \in Nat, n \in Nat, c \in Seq(B) :
        /\ m = Len(b) /\ l = Len(p) /\ n = m + l /\ c = b \o p /\ Len(c) = n
        /\ \A i \in 1 .. m : c[i] = b[i]
        /\ \A i \in 1 .. l : c[m + i] = p[i]
  <2>1. Len(b) \in Nat /\ Len(p) \in Nat /\ b \o p \in Seq(B) /\ Len(b) + Len(p) \in Nat
    OBVIOUS
  <2>2. /\ Len(b \o p) = Len(b) + Len(p)
        /\ \A i \in 1 .. Len(b) : (b \o p)[i] = b[i]
        /\ \A i \in 1 .. Len(p) : (b \o p)[Len(b) + i] = p[i]
    BY ConcatIs
  <2>3. QED
    BY <2>1, <2>2, Zenon
<1>2. PICK f : Parses(b, m, 1, f)
  BY <1>1, ParsesExist
<1>3. PICK g : Parses(c, n, 1, g)
  BY <1>1, ParsesExist
<1>4. Parsed(b) = f[1] /\ Parsed(c) = g[1]
  <2>1. m = Len(b) /\ n = Len(c)
    BY <1>1
  <2>2. Parsed(b) = f[1]
    BY <1>2, <2>1, ParsedIs, Zenon
  <2>3. Parsed(c) = g[1]
    BY <1>3, <2>1, ParsedIs, Zenon
  <2>4. QED
    BY <2>2, <2>3
<1>5. PICK r \in 1 .. m + 1 : Joint(b, f, g, m, 1, r)
  <2>1. m <= n /\ n = Len(c) /\ m = Len(b) /\ \A k \in 1 .. m : b[k] = c[k]
    BY <1>1
  <2>2. \A i \in 1 .. m + 1 : \E r \in i .. m + 1 : Joint(b, f, g, m, i, r)
    BY <1>2, <1>3, <2>1, JointsExist
  <2>3. 1 \in 1 .. m + 1
    OBVIOUS
  <2>4. QED
    BY <2>2, <2>3
<1>6. PICK s \in Seq(B) : /\ s = SubSeq(b, r, m) /\ Len(s) = m + 1 - r
                          /\ \A i \in 1 .. m + 1 - r : s[i] = b[r + i - 1]
  <2>1. r \in Nat /\ 1 <= r /\ r <= m + 1 /\ m <= Len(b)
    BY <1>1
  <2>2. /\ SubSeq(b, r, m) \in Seq(B) /\ Len(SubSeq(b, r, m)) = m + 1 - r
        /\ \A i \in 1 .. m + 1 - r : SubSeq(b, r, m)[i] = b[r + i - 1]
    BY <2>1, SubSeqIs
  <2>3. QED
    BY <2>2
<1>7. PICK k \in Nat, e \in Nat, d \in Seq(B) :
        /\ k = m + 1 - r /\ e = k + l /\ d = s \o p /\ Len(d) = e
        /\ \A i \in 1 .. k : d[i] = s[i]
        /\ \A i \in 1 .. l : d[k + i] = p[i]
  <2>1. m + 1 - r \in Nat /\ (m + 1 - r) + l \in Nat /\ s \o p \in Seq(B)
    OBVIOUS
  <2>2. /\ Len(s \o p) = Len(s) + Len(p)
        /\ \A i \in 1 .. Len(s) : (s \o p)[i] = s[i]
        /\ \A i \in 1 .. Len(p) : (s \o p)[Len(s) + i] = p[i]
    BY ConcatIs
  <2>3. PICK k \in Nat : k = m + 1 - r /\ k = Len(s) /\ l = Len(p)
    BY <1>1, <1>6, <2>1
  <2>4. PICK e \in Nat : e = k + l
    OBVIOUS
  <2>5. PICK d \in Seq(B) : d = s \o p
    BY <2>1
  <2>6. /\ Len(d) = e /\ \A i \in 1 .. k : d[i] = s[i]
        /\ \A i \in 1 .. l : d[k + i] = p[i]
    BY <2>2, <2>3, <2>4, <2>5, Zenon
  <2>7. QED
    BY <2>3, <2>4, <2>5, <2>6, Zenon
<1>8. PICK o \in Nat : o = r - 1
  OBVIOUS
<1>9. /\ e = Len(d) /\ n = Len(c) /\ o + e = n /\ \A i \in 1 .. e : d[i] = c[o + i]
  <2>1. o + e = n
    <3>1. n = m + l /\ k = m + 1 - r /\ e = k + l
      BY <1>1, <1>7, Zenon
    <3>2. QED
      BY <1>8, <3>1
  <2>2. ASSUME NEW i \in 1 .. e PROVE d[i] = c[o + i]
    <3>1. CASE i <= k
      <4>1. i \in 1 .. k /\ r + i - 1 \in 1 .. m /\ r + i - 1 = o + i /\ i \in 1 .. m + 1 - r
        BY <1>7, <1>8, <3>1
      <4>2. d[i] = s[i] /\ s[i] = b[r + i - 1] /\ c[r + i - 1] = b[r + i - 1]
        BY <1>1, <1>6, <1>7, <4>1, Zenon
      <4>3. QED
        BY <4>1, <4>2, Zenon
    <3>2. CASE ~(i <= k)
      <4>1. PICK j \in 1 .. l : i = k + j
        <5>1. i - k \in 1 .. l /\ i = k + (i - k)
          BY <1>7, <3>2
        <5>2. QED
          BY <5>1
      <4>2. o + i = m + j
        BY <1>7, <1>8, <4>1
      <4>3. d[k + j] = p[j] /\ c[m + j] = p[j]
        BY <1>1, <1>7
      <4>4. QED
        BY <4>1, <4>2, <4>3, Zenon
    <3>3. QED
      BY <3>1, <3>2
  <2>3. QED
    BY <1>1, <1>7, <2>1, <2>2
<1>10. PICK h : Parses(d, e, 1, h)
  BY <1>9, ParsesExist
<1>11. Parsed(d) = h[1]
  BY <1>9, <1>10, ParsedIs
<1>12. Alike(h[1], g[r])
  <2>1. \A j \in 1 .. e + 1 : Alike(h[j], g[o + j])
    BY <1>3, <1>9, <1>10, EndAlike
  <2>2. 1 \in 1 .. e + 1 /\ o + 1 = r
    BY <1>8
  <2>3. QED
    BY <2>1, <2>2, Zenon
<1>13. f[1].rest = s
  BY <1>5, <1>6, Zenon DEF Joint
<1>14. QED
  BY <1>1, <1>4, <1>5, <1>7, <1>11, <1>12, <1>13, Zenon DEF Joint, Alike

\* What is kept is no key, and is kept again.
LEMMA RestParsed ==
  ASSUME NEW B, NEW b \in Seq(B)
  PROVE  /\ Keys1(Parsed(Parsed(b).rest).tokens) = <<>>
         /\ Parsed(Parsed(b).rest).rest = Parsed(b).rest
<1>1. b \o <<>> = b /\ <<>> \in Seq(B)
  OBVIOUS
<1>2. PICK r \in Seq(B) : r = Parsed(b).rest
  BY ParsedType
<1>3. r \o <<>> = r
  OBVIOUS
<1>4. /\ Keys1(Parsed(b \o <<>>).tokens)
           = Keys1(Parsed(b).tokens) \o Keys1(Parsed(Parsed(b).rest \o <<>>).tokens)
      /\ Parsed(b \o <<>>).rest = Parsed(Parsed(b).rest \o <<>>).rest
  BY <1>1, ParsedOn
<1>5. PICK x \in Seq(KeySym(B)) : x = Keys1(Parsed(b).tokens)
  BY ParsedType
<1>6. PICK y \in Seq(KeySym(B)) : y = Keys1(Parsed(r).tokens)
  BY ParsedType
<1>7. x = x \o y /\ Parsed(b).rest = Parsed(r).rest
  BY <1>1, <1>2, <1>3, <1>4, <1>5, <1>6, Zenon
<1>8. y = <<>>
  BY <1>7
<1>9. QED
  BY <1>2, <1>6, <1>7, <1>8, Zenon

LEMMA ThreeType ==
  ASSUME NEW S, NEW a \in S, NEW b \in S, NEW c \in S
  PROVE  <<a, b, c>> \in Seq(S)
<1>1. <<a>> \in Seq(S) /\ <<b>> \in Seq(S) /\ <<c>> \in Seq(S)
  BY OneOf
<1>2. \A x, y \in Seq(S) : x \o y \in Seq(S)
  OBVIOUS
<1>3. (<<a>> \o <<b>>) \o <<c>> \in Seq(S)
  BY <1>1, <1>2, Zenon
<1>4. <<a, b, c>> = (<<a>> \o <<b>>) \o <<c>>
  BY ThreeOf
<1>5. QED
  BY <1>3, <1>4, Zenon

\* What an edit must leave whatever is typed.
EditIn(edit) == EditorIn(Symbol, edit.ed) /\ edit.out \in Seq(Symbol)

LEMMA EditInMade ==
  ASSUME NEW e, NEW out, EditorIn(Symbol, e), out \in Seq(Symbol)
  PROVE  EditIn(Edit(e, out))
<1>1. Edit(e, out).ed = e /\ Edit(e, out).out = out
  BY DEF Edit
<1>2. QED
  BY <1>1, Zenon DEF EditIn

LEMMA RefreshIn ==
  ASSUME NEW e, NEW new, EditorIn(Symbol, e), EditorIn(Symbol, new)
  PROVE  EditIn(Refresh(e, new))
<1>1. e.cursor \in Nat /\ Len(e.line) \in Nat
  BY EditorIs
<1>2. PICK l \in Seq(Symbol), c \in Nat, m \in Nat :
        l = new.line /\ c = new.cursor /\ m = Len(l) /\ c <= m
  BY EditorIs
<1>3. PICK n \in Nat : n = Larger(Len(e.line), m) /\ m <= n
  BY <1>1, LargerIs
<1>4. n - m \in Nat /\ n - c \in Nat
  BY <1>2, <1>3
<1>5. "left" \in Symbol /\ " " \in Symbol
  BY DEF Symbol
<1>6. /\ Times(e.cursor, "left") \in Seq(Symbol) /\ Times(n - m, " ") \in Seq(Symbol)
      /\ Times(n - c, "left") \in Seq(Symbol)
  BY <1>1, <1>4, <1>5, TimesIs
<1>7. \A x, y \in Seq(Symbol) : x \o y \in Seq(Symbol)
  OBVIOUS
<1>8. Times(e.cursor, "left") \o l \o Times(n - m, " ") \o Times(n - c, "left") \in Seq(Symbol)
  BY <1>6, <1>7, Zenon
<1>9. Refresh(e, new) = Edit(new, Times(e.cursor, "left") \o l \o Times(n - m, " ")
                                    \o Times(n - c, "left"))
  BY <1>2, <1>3, Zenon DEF Refresh
<1>10. QED
  BY <1>8, <1>9, EditInMade, Zenon

LEMMA InsertIn ==
  ASSUME NEW e, EditorIn(Symbol, e), NEW b \in Seq(Symbol)
  PROVE  EditIn(InsertBytes(e, b))
<1>1. PICK l \in Seq(Symbol), c \in Nat, h \in Seq(Seq(Symbol)), p \in Nat :
        /\ l = e.line /\ c = e.cursor /\ h = e.history /\ p = e.history_pos
        /\ c <= Len(l) /\ p <= Len(h) /\ Len(l) \in Nat
  BY EditorIs
<1>2. PICK x \in Seq(Symbol), y \in Seq(Symbol) :
        /\ x = SubSeq(l, 1, c) /\ y = SubSeq(l, c + 1, Len(l))
        /\ Len(x) = c /\ Len(y) = Len(l) - c
  <2>1. c <= c
    OBVIOUS
  <2>2. /\ SubSeq(l, 1, c) \in Seq(Symbol) /\ Len(SubSeq(l, 1, c)) = c
        /\ SubSeq(l, c + 1, Len(l)) \in Seq(Symbol)
        /\ Len(SubSeq(l, c + 1, Len(l))) = Len(l) - c
    BY <1>1, <2>1, CutIs
  <2>3. QED
    BY <2>2, Zenon
<1>3. PICK n \in Nat, m \in Nat : n = Len(b) /\ m = c + n
  <2>1. Len(b) \in Nat /\ c + Len(b) \in Nat
    OBVIOUS
  <2>2. QED
    BY <2>1, Zenon
<1>4. PICK z \in Seq(Symbol) : z = (x \o b) \o y /\ m <= Len(z)
  <2>1. \A u, v \in Seq(Symbol) : u \o v \in Seq(Symbol) /\ Len(u \o v) = Len(u) + Len(v)
    OBVIOUS
  <2>2. PICK w \in Seq(Symbol) : w = x \o b /\ Len(w) = Len(x) + Len(b)
    BY <2>1, Zenon
  <2>3. PICK z \in Seq(Symbol) : z = w \o y /\ Len(z) = Len(w) + Len(y)
    BY <2>1, Zenon
  <2>4. m <= Len(z)
    <3>1. PICK i \in Nat, j \in Nat, k \in Nat :
            i = Len(w) /\ j = Len(y) /\ k = Len(z) /\ k = i + j
      BY <2>3
    <3>2. i = m
      BY <1>2, <1>3, <2>2, <3>1, Zenon
    <3>3. m <= k
      BY <3>1, <3>2
    <3>4. QED
      BY <3>1, <3>3, Zenon
  <2>5. QED
    BY <2>2, <2>3, <2>4, Zenon
<1> DEFINE new == [line |-> z, cursor |-> m, history |-> h, history_pos |-> p]
<1>5. [e EXCEPT !.line = z, !.cursor = m] = new
  BY <1>1, LineChange, Zenon
<1>6. EditorIn(Symbol, new)
  BY <1>1, <1>4, EditorMade
<1> HIDE DEF new
<1>7. CASE c # Len(l)
  <2>1. InsertBytes(e, b) = Refresh(e, new)
    BY <1>1, <1>2, <1>3, <1>4, <1>5, <1>7, Zenon DEF InsertBytes
  <2>2. QED
    BY <1>6, <2>1, RefreshIn, Zenon
<1>8. CASE c = Len(l)
  <2>1. InsertBytes(e, b) = Edit(new, b)
    BY <1>1, <1>2, <1>3, <1>4, <1>5, <1>8, Zenon DEF InsertBytes
  <2>2. QED
    BY <1>6, <2>1, EditInMade, Zenon
<1>9. QED
  BY <1>7, <1>8

LEMMA BackspaceIn ==
  ASSUME NEW e, EditorIn(Symbol, e)
  PROVE  EditIn(Backspace(e))
<1>1. PICK l \in Seq(Symbol), c \in Nat, h \in Seq(Seq(Symbol)), p \in Nat :
        /\ l = e.line /\ c = e.cursor /\ h = e.history /\ p = e.history_pos
        /\ c <= Len(l) /\ p <= Len(h) /\ Len(l) \in Nat
  BY EditorIs
<1>2. CASE c = 0
  <2>1. Backspace(e) = Edit(e, <<>>)
    BY <1>1, <1>2, Zenon DEF Backspace
  <2>2. <<>> \in Seq(Symbol)
    OBVIOUS
  <2>3. QED
    BY <2>1, <2>2, EditInMade, Zenon
<1>3. CASE c # 0
  <2>1. PICK d \in Nat : d = c - 1 /\ d <= c
    BY <1>3
  <2>2. PICK x \in Seq(Symbol), y \in Seq(Symbol) :
          x = SubSeq(l, 1, d) /\ y = SubSeq(l, c + 1, Len(l)) /\ Len(x) = d
    <3>1. /\ SubSeq(l, 1, d) \in Seq(Symbol) /\ Len(SubSeq(l, 1, d)) = d
          /\ SubSeq(l, c + 1, Len(l)) \in Seq(Symbol)
      BY <1>1, <2>1, CutIs
    <3>2. QED
      BY <3>1, Zenon
  <2>3. PICK z \in Seq(Symbol) : z = x \o y /\ d <= Len(z)
    <3>1. x \o y \in Seq(Symbol) /\ Len(x \o y) = Len(x) + Len(y) /\ Len(y) \in Nat
      OBVIOUS
    <3>a. PICK j \in Nat : j = Len(y)
      BY <3>1
    <3>b. d + j \in Nat
      OBVIOUS
    <3>2. PICK k \in Nat : k = Len(x \o y) /\ k = d + j
      BY <2>2, <3>1, <3>a, <3>b, Zenon
    <3>3. d <= k
      BY <3>2
    <3>4. QED
      BY <3>1, <3>2, <3>3, Zenon
  <2> DEFINE new == [line |-> z, cursor |-> d, history |-> h, history_pos |-> p]
  <2>4. [e EXCEPT !.line = z, !.cursor = d] = new
    BY <1>1, LineChange, Zenon
  <2>5. EditorIn(Symbol, new)
    BY <1>1, <2>3, EditorMade
  <2> HIDE DEF new
  <2>6. CASE c # Len(l)
    <3>1. Backspace(e) = Refresh(e, new)
      BY <1>1, <1>3, <2>1, <2>2, <2>3, <2>4, <2>6, Zenon DEF Backspace
    <3>2. QED
      BY <2>5, <3>1, RefreshIn, Zenon
  <2>7. CASE c = Len(l)
    <3>1. Backspace(e) = Edit(new, <<"left", " ", "left">>)
      BY <1>1, <1>3, <2>1, <2>2, <2>3, <2>4, <2>7, Zenon DEF Backspace
    <3>a. "left" \in Symbol /\ " " \in Symbol
      BY DEF Symbol
    <3>2. <<"left", " ", "left">> \in Seq(Symbol)
      BY <3>a, ThreeType
    <3>3. QED
      BY <2>5, <3>1, <3>2, EditInMade, Zenon
  <2>8. QED
    BY <2>6, <2>7
<1>4. QED
  BY <1>2, <1>3

LEMMA MoveIn ==
  ASSUME NEW e, EditorIn(Symbol, e)
  PROVE  EditIn(AdvanceCursor(e)) /\ EditIn(RetractCursor(e))
<1>1. PICK l \in Seq(Symbol), c \in Nat, h \in Seq(Seq(Symbol)), p \in Nat :
        /\ l = e.line /\ c = e.cursor /\ h = e.history /\ p = e.history_pos
        /\ c <= Len(l) /\ p <= Len(h) /\ Len(l) \in Nat
  BY EditorIs
<1>2. EditIn(Edit(e, <<>>))
  <2>1. <<>> \in Seq(Symbol)
    OBVIOUS
  <2>2. QED
    BY <2>1, EditInMade
<1>3. ASSUME NEW d \in Nat, d <= Len(l), NEW b \in {"left", "right"}
      PROVE  EditIn(Edit([e EXCEPT !.cursor = d], <<b>>))
  <2>1. [e EXCEPT !.cursor = d]
          = [line |-> l, cursor |-> d, history |-> h, history_pos |-> p]
    BY <1>1, CursorChange, Zenon
  <2>2. EditorIn(Symbol, [e EXCEPT !.cursor = d])
    <3>1. EditorIn(Symbol, [line |-> l, cursor |-> d, history |-> h, history_pos |-> p])
      BY <1>1, <1>3, EditorMade
    <3>2. QED
      BY <2>1, <3>1, Zenon
  <2>3. <<b>> \in Seq(Symbol)
    <3>1. b \in Symbol
      BY DEF Symbol
    <3>2. QED
      BY <3>1, OneOf
  <2>4. QED
    BY <2>2, <2>3, EditInMade, Zenon
<1>4. EditIn(AdvanceCursor(e))
  <2>1. CASE c = Len(l)
    <3>1. AdvanceCursor(e) = Edit(e, <<>>)
      BY <1>1, <2>1, Zenon DEF AdvanceCursor
    <3>2. QED
      BY <1>2, <3>1, Zenon
  <2>2. CASE c # Len(l)
    <3>1. AdvanceCursor(e) = Edit([e EXCEPT !.cursor = c + 1], <<"right">>)
      BY <1>1, <2>2, Zenon DEF AdvanceCursor
    <3>2. c + 1 \in Nat /\ c + 1 <= Len(l)
      BY <1>1, <2>2
    <3>3. QED
      BY <1>3, <3>1, <3>2, Zenon
  <2>3. QED
    BY <2>1, <2>2
<1>5. EditIn(RetractCursor(e))
  <2>1. CASE c = 0
    <3>1. RetractCursor(e) = Edit(e, <<>>)
      BY <1>1, <2>1, Zenon DEF RetractCursor
    <3>2. QED
      BY <1>2, <3>1, Zenon
  <2>2. CASE c # 0
    <3>1. RetractCursor(e) = Edit([e EXCEPT !.cursor = c - 1], <<"left">>)
      BY <1>1, <2>2, Zenon DEF RetractCursor
    <3>2. c - 1 \in Nat /\ c - 1 <= Len(l)
      BY <1>1, <2>2
    <3>3. QED
      BY <1>3, <3>1, <3>2, Zenon
  <2>3. QED
    BY <2>1, <2>2
<1>6. QED
  BY <1>4, <1>5

LEMMA HistoryIn ==
  ASSUME NEW e, EditorIn(Symbol, e)
  PROVE  EditIn(PreviousInHistory(e)) /\ EditIn(NextInHistory(e))
<1>1. PICK h \in Seq(Seq(Symbol)), p \in Nat :
        h = e.history /\ p = e.history_pos /\ p <= Len(h) /\ Len(h) \in Nat
  BY EditorIs
<1>2. ASSUME NEW q \in Nat, q <= Len(h), NEW l \in Seq(Symbol)
      PROVE  EditIn(Recall(e, q, l))
  <2> DEFINE new == [line |-> l, cursor |-> Len(l), history |-> e.history,
                     history_pos |-> q]
  <2>1. Len(l) \in Nat /\ Len(l) <= Len(l)
    OBVIOUS
  <2>2. EditorIn(Symbol, new)
    BY <1>1, <1>2, <2>1, EditorMade
  <2>3. [e EXCEPT !.history_pos = q, !.line = l, !.cursor = Len(l)] = new
    BY RecallChange, Zenon
  <2> HIDE DEF new
  <2>4. Recall(e, q, l) = Refresh(e, new)
    BY <2>3, Zenon DEF Recall
  <2>5. QED
    BY <2>2, <2>4, RefreshIn, Zenon
<1>n. EditIn(Edit(e, <<>>))
  <2>1. <<>> \in Seq(Symbol)
    OBVIOUS
  <2>2. QED
    BY <2>1, EditInMade
<1>3. EditIn(PreviousInHistory(e))
  <2>1. CASE p = 0
    <3>1. PreviousInHistory(e) = Edit(e, <<>>)
      BY <1>1, <2>1, Zenon DEF PreviousInHistory
    <3>2. QED
      BY <1>n, <3>1, Zenon
  <2>2. CASE p # 0
    <3>1. p - 1 \in Nat /\ p - 1 <= Len(h) /\ p \in 1 .. Len(h)
      BY <1>1, <2>2
    <3>2. h[p] \in Seq(Symbol)
      BY <3>1
    <3>3. PreviousInHistory(e) = Recall(e, p - 1, h[p])
      BY <1>1, <2>2, Zenon DEF PreviousInHistory
    <3>4. QED
      BY <1>2, <3>1, <3>2, <3>3, Zenon
  <2>3. QED
    BY <2>1, <2>2
<1>4. EditIn(NextInHistory(e))
  <2>1. CASE p + 1 > Len(h)
    <3>1. NextInHistory(e) = Edit(e, <<>>)
      BY <1>1, <2>1, Zenon DEF NextInHistory
    <3>2. QED
      BY <1>n, <3>1, Zenon
  <2>2. CASE ~(p + 1 > Len(h))
    <3>1. p + 1 \in Nat /\ p + 1 <= Len(h)
      BY <1>1, <2>2
    <3>2. PICK l : l = IF p + 1 = Len(h) THEN <<>> ELSE h[p + 1 + 1]
      OBVIOUS
    <3>3. l \in Seq(Symbol)
      <4>1. CASE p + 1 = Len(h)
        BY <3>2, <4>1
      <4>2. CASE p + 1 # Len(h)
        <5>1. p + 1 + 1 \in 1 .. Len(h)
          BY <1>1, <2>2, <4>2
        <5>2. QED
          BY <3>2, <4>2, <5>1
      <4>3. QED
        BY <4>1, <4>2
    <3>4. NextInHistory(e) = Recall(e, p + 1, l)
      BY <1>1, <2>2, <3>2, Zenon DEF NextInHistory
    <3>5. QED
      BY <1>2, <3>1, <3>3, <3>4, Zenon
  <2>3. QED
    BY <2>1, <2>2
<1>5. QED
  BY <1>3, <1>4

LEMMA InterruptIn ==
  ASSUME NEW e, EditorIn(Symbol, e)
  PROVE  EditIn(InterruptLine(e))
<1>1. PICK h \in Seq(Seq(Symbol)), p \in Nat :
        h = e.history /\ p = e.history_pos /\ p <= Len(h)
  BY EditorIs
<1> DEFINE new == [line |-> <<>>, cursor |-> 0, history |-> h, history_pos |-> p]
<1>2. [e EXCEPT !.line = <<>>, !.cursor = 0] = new
  BY <1>1, LineChange, Zenon
<1>3. <<>> \in Seq(Symbol) /\ 0 <= Len(<<>>) /\ 0 \in Nat
  OBVIOUS
<1>4. EditorIn(Symbol, new)
  BY <1>1, <1>3, EditorMade
<1> HIDE DEF new
<1>5. InterruptLine(e) = Edit(new, <<"CR", "LF", "prompt">>)
  BY <1>2, Zenon DEF InterruptLine
<1>a. "CR" \in Symbol /\ "LF" \in Symbol /\ "prompt" \in Symbol
  BY DEF Symbol
<1>6. <<"CR", "LF", "prompt">> \in Seq(Symbol)
  BY <1>a, ThreeType
<1>7. QED
  BY <1>4, <1>5, <1>6, EditInMade, Zenon

\* Whatever is typed, an edit writes symbols and leaves lines of symbols.
LEMMA EditTypes ==
  ASSUME NEW e, EditorIn(Symbol, e), NEW t, t.key \in KeyNames \ {"Enter"},
         t.bytes \in Seq(Symbol)
  PROVE  EditIn(EditOf(e, t))
<1>1. CASE t.key = "Bytes"
  BY <1>1, InsertIn, Zenon DEF EditOf
<1>2. CASE t.key = "UpArrow"
  BY <1>2, HistoryIn, Zenon DEF EditOf
<1>3. CASE t.key = "DownArrow"
  BY <1>3, HistoryIn, Zenon DEF EditOf
<1>4. CASE t.key = "RightArrow"
  BY <1>4, MoveIn, Zenon DEF EditOf
<1>5. CASE t.key = "LeftArrow"
  BY <1>5, MoveIn, Zenon DEF EditOf
<1>6. CASE t.key = "Backspace"
  BY <1>6, BackspaceIn, Zenon DEF EditOf
<1>7. CASE t.key = "ControlC"
  BY <1>7, InterruptIn, Zenon DEF EditOf
<1>8. QED
  BY <1>1, <1>2, <1>3, <1>4, <1>5, <1>6, <1>7 DEF KeyNames

-----------------------------------------------------------------------------
(* What is typed, on its way to the interpreter.                           *)

BeforeShell == {"waiting_for_key", "waiting_for_request"}
\* Messages of a client that has typed n payloads.
TypedMessage(n) ==
  [type : {"Key"}, key : Keys] \cup [type : {"StartShell"}]
    \cup [type : {"Stdin"}, payload : 1 .. n]

\* There is no script before the shell has started, so nothing is typed.
ScriptIn(B) ==
  /\ script \in Seq(Seq(B)) /\ typed \in Nat /\ typed <= Len(script)
  /\ client_key \in Keys /\ to_server \in Seq(TypedMessage(typed))
  /\ server \in BeforeShell => script = <<>>

\* A message is taken, or the one that was being written is cut.
OneLess == to_server # <<>> /\ to_server' = Tail(to_server)
OneCut == to_server' = Front(to_server)

LEMMA MessageKept ==
  ASSUME NEW M, to_server \in Seq(M), to_server' = to_server \/ OneLess \/ OneCut
  PROVE  to_server' \in Seq(M)
<1>1. CASE to_server' = to_server \/ OneLess
  BY <1>1 DEF OneLess
<1>2. CASE OneCut
  BY <1>2 DEF OneCut, Front
<1>3. QED
  BY <1>1, <1>2

LEMMA ScriptKept ==
  ASSUME NEW B, ScriptIn(B), script' = script, typed' = typed, client_key' = client_key,
         to_server' = to_server \/ OneLess \/ OneCut,
         server' \in BeforeShell => server \in BeforeShell
  PROVE  ScriptIn(B)'
<1>1. to_server \in Seq(TypedMessage(typed))
  BY Zenon DEF ScriptIn
<1>2. to_server' \in Seq(TypedMessage(typed))
  BY <1>1, MessageKept
<1>3. QED
  BY <1>2, Zenon DEF ScriptIn, TypedMessage, BeforeShell

\* The interpreter and its process leave the session as it is.
LEMMA InterpreterKeeps ==
  ASSUME Prompting \/ Streaming \/ Process
  PROVE  UNCHANGED <<sessionVars, script, armed>>
<1>1. ASSUME Runs PROVE UNCHANGED <<sessionVars, script, armed>>
  BY <1>1 DEF Runs
<1>2. CASE EditLine
  BY <1>2 DEF EditLine
<1>3. CASE ReadLine
  BY <1>3 DEF ReadLine
<1>4. CASE RunNothing \/ RunBlank \/ Exit \/ ChangePwd \/ SpawnFails \/ Spawn
  BY <1>1, <1>4, Zenon DEF RunNothing, RunBlank, Exit, ChangePwd, SpawnFails, Spawn
<1>5. CASE StreamToken
  BY <1>5 DEF StreamToken
<1>6. CASE Feed \/ FeedFails
  BY <1>6 DEF Feed, FeedFails
<1>7. CASE StreamStdout \/ StreamStderr
  BY <1>7 DEF StreamStdout, StreamStderr
<1>8. CASE StdoutEnds \/ Reap
  BY <1>8 DEF StdoutEnds, Reap
<1>9. CASE Process
  BY <1>9 DEF Process
<1>10. QED
  BY <1>2, <1>3, <1>4, <1>5, <1>6, <1>7, <1>8, <1>9, Zenon DEF Prompting, Streaming

LEMMA SessionKept ==
  ASSUME UNCHANGED sessionVars
  PROVE  /\ client' = client /\ client_key' = client_key /\ typed' = typed
         /\ shown' = shown /\ server' = server /\ to_server' = to_server
         /\ to_client' = to_client
BY DEF sessionVars, clientVars, streamVars

LEMMA FallbackKept ==
  ASSUME UNCHANGED fallbackVars
  PROVE  /\ script' = script /\ armed' = armed /\ interp' = interp /\ ed' = ed
         /\ feeding' = feeding /\ handled' = handled /\ input' = input /\ came' = came
         /\ out_stream' = out_stream /\ written' = written /\ exited' = exited
         /\ UNCHANGED processVars
BY DEF fallbackVars, interpVars, inputVars, outputVars

LEMMA ScriptInit ==
  ASSUME NEW B, FallbackInit
  PROVE  ScriptIn(B)
<1>1. script = <<>> /\ typed = 0 /\ client_key \in Keys /\ to_server = <<>>
  BY Zenon DEF FallbackInit, Init
<1>2. QED
  BY <1>1 DEF ScriptIn

LEMMA ScriptStep ==
  ASSUME NEW B, Scripts \subseteq Seq(Seq(B)), ScriptIn(B), [FallbackNext]_allVars
  PROVE  ScriptIn(B)'
<1>i. /\ script \in Seq(Seq(B)) /\ typed \in Nat /\ typed <= Len(script)
      /\ client_key \in Keys /\ to_server \in Seq(TypedMessage(typed))
      /\ server \in BeforeShell => script = <<>>
  BY Zenon DEF ScriptIn
<1>1. CASE TypeScript
  <2>1. /\ typed < Len(script) /\ script' = script /\ client_key' = client_key
        /\ server' = server /\ typed' = typed + 1
        /\ to_server' = Append(to_server, [type |-> "Stdin", payload |-> typed + 1])
    BY <1>1, FallbackKept, Zenon DEF TypeScript, ReadStdin, ToServer, serverVars
  <2>2. PICK n \in Nat : n = typed + 1
    BY <1>i
  <2>3. TypedMessage(typed) \subseteq TypedMessage(n)
    <3>1. 1 .. typed \subseteq 1 .. n
      BY <1>i, <2>2
    <3>2. [type : {"Stdin"}, payload : 1 .. typed] \subseteq [type : {"Stdin"}, payload : 1 .. n]
      BY <3>1
    <3>3. QED
      BY <3>2, Zenon DEF TypedMessage
  <2>4. [type |-> "Stdin", payload |-> n] \in TypedMessage(n)
    <3>1. n \in 1 .. n
      BY <1>i, <2>2
    <3>2. [type |-> "Stdin", payload |-> n] \in [type : {"Stdin"}, payload : 1 .. n]
      BY <3>1
    <3>3. QED
      BY <3>2, Zenon DEF TypedMessage
  <2>5. to_server \in Seq(TypedMessage(n))
    BY <1>i, <2>3, LongerSeq
  <2>6. to_server' \in Seq(TypedMessage(n))
    <3>1. \A m \in TypedMessage(n) : Append(to_server, m) \in Seq(TypedMessage(n))
      BY <2>5
    <3>2. QED
      BY <2>1, <2>2, <2>4, <3>1, Zenon
  <2>7. typed' = n /\ n <= Len(script)
    BY <1>i, <2>1, <2>2
  <2>8. QED
    BY <1>i, <2>1, <2>6, <2>7, Zenon DEF ScriptIn, TypedMessage, BeforeShell
<1>2. CASE SendKey /\ UNCHANGED fallbackVars
  <2>1. /\ script' = script /\ client_key' = client_key /\ typed' = typed
        /\ server' = server
        /\ to_server' = Append(to_server, [type |-> "Key", key |-> client_key])
    BY <1>2, FallbackKept, Zenon DEF SendKey, ClientGoes, ToServer, serverVars
  <2>2. [type |-> "Key", key |-> client_key] \in TypedMessage(typed)
    BY <1>i DEF TypedMessage
  <2>3. to_server' \in Seq(TypedMessage(typed))
    BY <1>i, <2>1, <2>2
  <2>4. QED
    BY <1>i, <2>1, <2>3, Zenon DEF ScriptIn, TypedMessage, BeforeShell
<1>3. CASE ReceiveAnswer /\ UNCHANGED fallbackVars
  <2>1. /\ script' = script /\ client_key' = client_key /\ typed' = typed
        /\ server' = server
        /\ \/ to_server' = Append(to_server, [type |-> "StartShell"])
           \/ to_server' = to_server
    BY <1>3, FallbackKept, Zenon DEF ReceiveAnswer, ClientGoes, ToServer, serverVars
  <2>2. [type |-> "StartShell"] \in TypedMessage(typed)
    BY DEF TypedMessage
  <2>3. to_server' \in Seq(TypedMessage(typed))
    <3>1. \A m \in TypedMessage(typed) :
            Append(to_server, m) \in Seq(TypedMessage(typed))
      BY <1>i
    <3>2. QED
      BY <1>i, <2>1, <2>2, <3>1, Zenon
  <2>4. QED
    BY <1>i, <2>1, <2>3, Zenon DEF ScriptIn, TypedMessage, BeforeShell
<1>4. CASE (ReceiveOutput \/ ClientFails) /\ UNCHANGED fallbackVars
  <2>1. /\ script' = script /\ client_key' = client_key /\ typed' = typed
        /\ server' = server /\ to_server' = to_server
    BY <1>4, FallbackKept, Zenon
    DEF ReceiveOutput, ClientFails, ClientGoes, serverVars, streamVars
  <2>2. QED
    BY <2>1, ScriptKept, Zenon
<1>l. CASE LeavesWriting /\ UNCHANGED fallbackVars
  <2>1. /\ script' = script /\ client_key' = client_key /\ typed' = typed
        /\ server' = server /\ to_server' = Front(to_server)
    BY <1>l, FallbackKept, Zenon DEF LeavesWriting, ClientGoes
  <2>2. QED
    BY <2>1, ScriptKept, Zenon DEF OneCut
<1>5. CASE ServerRuns
  <2>1. /\ script' = script /\ client_key' = client_key /\ typed' = typed
        /\ \/ to_server' = to_server
           \/ to_server # <<>> /\ to_server' = Tail(to_server)
    BY <1>5, FallbackKept, Zenon
    DEF ServerRuns, ReceiveKey, NoRequest, Linger, clientVars, streamVars
  <2>2. server' \in BeforeShell => server \in BeforeShell
    BY <1>5, Zenon
    DEF ServerRuns, ReceiveKey, NoRequest, Linger, ServerGoes, BeforeShell
  <2>3. QED
    BY <2>1, <2>2, ScriptKept, Zenon DEF OneLess
<1>6. CASE StartFallback
  <2>1. /\ server = "waiting_for_request" /\ to_server # <<>>
        /\ to_server' = Tail(to_server) /\ server' = "streaming" /\ script' \in Scripts
        /\ client_key' = client_key /\ typed' = typed
    BY <1>6, Zenon DEF StartFallback, clientVars
  <2>2. script = <<>>
    BY <1>i, <2>1, Zenon DEF BeforeShell
  <2>3. typed = 0
    BY <1>i, <2>2
  <2>4. script' \in Seq(Seq(B)) /\ typed <= Len(script')
    BY <2>1, <2>3
  <2>5. to_server' \in Seq(TypedMessage(typed))
    BY <1>i, <2>1, MessageKept DEF OneLess
  <2>6. server' \notin BeforeShell
    BY <2>1 DEF BeforeShell
  <2>7. QED
    BY <1>i, <2>1, <2>4, <2>5, <2>6, Zenon DEF ScriptIn, TypedMessage, BeforeShell
<1>7. CASE StartRead \/ ReadOutput \/ ReadExit \/ ClientGone \/ DropFallback
  <2>1. /\ script' = script /\ client_key' = client_key /\ typed' = typed
        /\ to_server' = to_server
    BY <1>7, SessionKept, FallbackKept, Zenon
    DEF StartRead, ReadOutput, ReadExit, ClientGone, DropFallback, clientVars, streamVars
  <2>2. server' \in BeforeShell => server \in BeforeShell
    <3>1. CASE StartRead \/ ReadOutput
      BY <3>1, SessionKept, Zenon DEF StartRead, ReadOutput
    <3>2. CASE ReadExit \/ ClientGone \/ DropFallback
      BY <3>2 DEF ReadExit, ClientGone, DropFallback, BeforeShell
    <3>3. QED
      BY <1>7, <3>1, <3>2
  <2>3. QED
    BY <2>1, <2>2, ScriptKept, Zenon DEF OneLess
<1>8. CASE WriteInput
  <2>1. /\ script' = script /\ client_key' = client_key /\ typed' = typed
        /\ to_server # <<>> /\ to_server' = Tail(to_server)
    BY <1>8, Zenon DEF WriteInput, clientVars
  <2>2. server' \in BeforeShell => server \in BeforeShell
    BY <1>8 DEF WriteInput, BeforeShell
  <2>3. QED
    BY <2>1, <2>2, ScriptKept, Zenon DEF OneLess
<1>9. CASE Prompting \/ Streaming \/ Process
  <2>1. UNCHANGED <<sessionVars, script, armed>>
    BY <1>9, InterpreterKeeps
  <2>2. QED
    BY <2>1, SessionKept, ScriptKept, Zenon
<1>10. CASE UNCHANGED allVars
  <2>1. /\ script' = script /\ client_key' = client_key /\ typed' = typed
        /\ server' = server /\ to_server' = to_server
    BY <1>10 DEF allVars, vars, clientVars, serverVars, streamVars, fallbackVars
  <2>2. QED
    BY <2>1, ScriptKept, Zenon
<1>11. QED
  BY <1>1, <1>2, <1>3, <1>4, <1>l, <1>5, <1>6, <1>7, <1>8, <1>9, <1>10, Zenon
  DEF FallbackNext, ClientGoesAway, ClientLeaves, ClientRuns, FallbackServer

-----------------------------------------------------------------------------
(* The keys.                                                               *)

InputIn(B) ==
  /\ input \in [tokens : Seq(TokensOf(B)), buff : Seq(B)]
  /\ came \in Seq(B) /\ handled \in Seq(KeySym(B))
  /\ KeysAreWhole

LEMMA InputKept ==
  ASSUME NEW B, InputIn(B), input' = input, came' = came, handled' = handled
  PROVE  InputIn(B)'
BY Zenon DEF InputIn, KeysAreWhole

\* Sequences put together in one order or the other.
Regroups(S) ==
  /\ \A u, w \in Seq(S) : u \o w \in Seq(S)
  /\ \A u, w, z \in Seq(S) : (u \o w) \o z = u \o (w \o z)

LEMMA AllRegroup ==
  ASSUME NEW S
  PROVE  Regroups(S)
<1>1. \A u, w \in Seq(S) : u \o w \in Seq(S)
  OBVIOUS
<1>2. \A u, w, z \in Seq(S) : (u \o w) \o z = u \o (w \o z)
  BY ConcatAssoc
<1>3. QED
  BY <1>1, <1>2, ZenonT(60) DEF Regroups

Rotated(h, k, x, y) ==
  /\ ((h \o k) \o x) \o y = h \o ((k \o x) \o y)
  /\ (h \o k) \o (x \o y) = ((h \o k) \o x) \o y

LEMMA Rotates ==
  ASSUME NEW S, NEW h \in Seq(S), NEW k \in Seq(S), NEW x \in Seq(S), NEW y \in Seq(S)
  PROVE  Rotated(h, k, x, y)
<1>1. Regroups(S)
  BY AllRegroup, Zenon
<1>2. h \o k \in Seq(S) /\ k \o x \in Seq(S)
  BY <1>1, ZenonT(60) DEF Regroups
<1>3. (h \o k) \o x = h \o (k \o x)
  BY <1>1, ZenonT(60) DEF Regroups
<1>4. (h \o (k \o x)) \o y = h \o ((k \o x) \o y)
  BY <1>1, <1>2, ZenonT(60) DEF Regroups
<1>5. ((h \o k) \o x) \o y = h \o ((k \o x) \o y)
  BY <1>3, <1>4, Zenon
<1>6. ((h \o k) \o x) \o y = (h \o k) \o (x \o y)
  <2>1. PICK u \in Seq(S) : u = h \o k
    BY <1>2, Zenon
  <2>2. (u \o x) \o y = u \o (x \o y)
    BY <1>1, ZenonT(60) DEF Regroups
  <2>3. QED
    BY <2>1, <2>2, Zenon
<1>7. QED
  BY <1>5, <1>6, Zenon DEF Rotated

\* To fetch tokens changes nothing about the keys.
LEMMA FetchedIs ==
  ASSUME NEW B, InputIn(B)
  PROVE  \E q \in Seq(TokensOf(B)), r \in Seq(B) :
           /\ Fetched = [tokens |-> q, buff |-> r]
           /\ Keys1(q) \o Keys1(Parsed(r).tokens)
                = Keys1(input.tokens) \o Keys1(Parsed(input.buff).tokens)
           /\ Parsed(r).rest = Parsed(input.buff).rest
<1>1. PICK a \in Seq(TokensOf(B)), b \in Seq(B) : input = [tokens |-> a, buff |-> b]
  BY DEF InputIn
<1>2. input.tokens = a /\ input.buff = b
  BY <1>1
<1>3. CASE a # <<>>
  <2>1. Fetched = input
    BY <1>2, <1>3, Zenon DEF Fetched
  <2>2. QED
    BY <1>1, <1>2, <2>1, Zenon
<1>4. CASE a = <<>>
  <2>1. PICK q \in Seq(TokensOf(B)), r \in Seq(B) : q = Parsed(b).tokens /\ r = Parsed(b).rest
    BY ParsedType
  <2>2. Fetched = [tokens |-> q, buff |-> r]
    BY <1>2, <1>4, <2>1, Zenon DEF Fetched
  <2>3. Keys1(Parsed(r).tokens) = <<>> /\ Parsed(r).rest = r
    BY <2>1, RestParsed
  <2>4. Keys1(a) = <<>>
    BY <1>4, KeysNone
  <2>5. Keys1(q) \in Seq(KeySym(B))
    BY Keys1Pressed
  <2>6. \A x \in Seq(KeySym(B)) : x \o <<>> = <<>> \o x
    OBVIOUS
  <2>7. Keys1(q) \o Keys1(Parsed(r).tokens) = Keys1(a) \o Keys1(q)
    BY <2>3, <2>4, <2>5, <2>6, Zenon
  <2>8. QED
    BY <1>2, <2>1, <2>2, <2>3, <2>7, Zenon
<1>5. QED
  BY <1>3, <1>4

LEMMA TakeKeeps ==
  ASSUME NEW B, InputIn(B), NEW t \in NextToken, Take(t)
  PROVE  t \in TokensOf(B) /\ InputIn(B)'
<1>1. PICK q \in Seq(TokensOf(B)), r \in Seq(B) :
        /\ Fetched = [tokens |-> q, buff |-> r]
        /\ Keys1(q) \o Keys1(Parsed(r).tokens)
             = Keys1(input.tokens) \o Keys1(Parsed(input.buff).tokens)
        /\ Parsed(r).rest = Parsed(input.buff).rest
  BY FetchedIs
<1>2. Fetched.tokens = q
  BY <1>1
<1>3. 1 \in DOMAIN q /\ t = q[1]
  BY <1>2, Zenon DEF NextToken
<1>4. PICK v \in Seq(TokensOf(B)) : v = Tail(q) /\ q = <<t>> \o v /\ t \in TokensOf(B)
  <2>1. q # <<>> /\ Tail(q) \in Seq(TokensOf(B)) /\ t \in TokensOf(B)
    BY <1>3
  <2>2. q = <<t>> \o Tail(q)
    BY <1>3, <2>1
  <2>3. QED
    BY <2>1, <2>2, Zenon
<1>5. input' = [tokens |-> v, buff |-> r]
  <2>1. input' = [Fetched EXCEPT !.tokens = Tail(@)]
    BY Zenon DEF Take
  <2>2. input' = [[tokens |-> q, buff |-> r] EXCEPT !.tokens = Tail(q)]
    BY <1>1, <1>2, <2>1, Zenon
  <2>3. [[tokens |-> q, buff |-> r] EXCEPT !.tokens = v] = [tokens |-> v, buff |-> r]
    OBVIOUS
  <2>4. QED
    BY <1>4, <2>2, <2>3, Zenon
<1>6. input'.tokens = v /\ input'.buff = r
  BY <1>5
<1>7. came' = came /\ handled' = handled \o Keys1(<<t>>)
  BY Zenon DEF Take
<1>8. PICK h \in Seq(KeySym(B)), k \in Seq(KeySym(B)), x \in Seq(KeySym(B)), y \in Seq(KeySym(B)) :
        h = handled /\ k = Keys1(<<t>>) /\ x = Keys1(v) /\ y = Keys1(Parsed(r).tokens)
  <2>1. handled \in Seq(KeySym(B))
    BY Zenon DEF InputIn
  <2>2. <<t>> \in Seq(TokensOf(B))
    BY <1>4, OneOf
  <2>3. Keys1(<<t>>) \in Seq(KeySym(B)) /\ Keys1(v) \in Seq(KeySym(B))
    BY <2>2, Keys1Pressed
  <2>4. Keys1(Parsed(r).tokens) \in Seq(KeySym(B))
    BY ParsedType
  <2>5. QED
    BY <2>1, <2>3, <2>4, Zenon
<1>9. Keys1(q) = k \o x
  <2>1. <<t>> \in Seq(TokensOf(B))
    BY <1>4, OneOf
  <2>2. Keys1(<<t>> \o v) = Keys1(<<t>>) \o Keys1(v)
    BY <2>1, KeysConcat
  <2>3. QED
    BY <1>4, <1>8, <2>2, Zenon
<1>10. ((h \o k) \o x) \o y = h \o ((k \o x) \o y)
  <2>1. Rotated(h, k, x, y)
    BY Rotates, Zenon
  <2>2. QED
    BY <2>1, Zenon DEF Rotated
<1>11. h \o (Keys1(input.tokens) \o Keys1(Parsed(input.buff).tokens)) = Keys1(Parsed(came).tokens)
  <2>1. Keys1(input.tokens) \in Seq(KeySym(B)) /\ Keys1(Parsed(input.buff).tokens) \in Seq(KeySym(B))
    <3>1. input.tokens \in Seq(TokensOf(B)) /\ input.buff \in Seq(B)
      BY DEF InputIn
    <3>2. QED
      BY <3>1, Keys1Pressed, ParsedType
  <2>2. Regroups(KeySym(B))
    BY AllRegroup, Zenon
  <2>3. handled \o Keys1(input.tokens) \o Keys1(Parsed(input.buff).tokens)
          = Keys1(Parsed(came).tokens)
    BY Zenon DEF InputIn, KeysAreWhole
  <2>4. QED
    <3>1. (h \o Keys1(input.tokens)) \o Keys1(Parsed(input.buff).tokens)
            = h \o (Keys1(input.tokens) \o Keys1(Parsed(input.buff).tokens))
      BY <2>1, <2>2, ZenonT(60) DEF Regroups
    <3>2. QED
      BY <1>8, <2>3, <3>1, Zenon
<1>12. KeysAreWhole'
  <2>1. ((h \o k) \o x) \o y = Keys1(Parsed(came).tokens)
    BY <1>1, <1>8, <1>9, <1>10, <1>11, Zenon
  <2>2. handled' \o Keys1(input'.tokens) \o Keys1(Parsed(input'.buff).tokens)
          = Keys1(Parsed(came').tokens)
    BY <1>6, <1>7, <1>8, <2>1, Zenon
  <2>3. Parsed(input'.buff).rest = Parsed(came').rest
    BY <1>1, <1>6, <1>7, Zenon DEF InputIn, KeysAreWhole
  <2>4. QED
    BY <2>2, <2>3, Zenon DEF KeysAreWhole
<1>13. handled' \in Seq(KeySym(B))
  <2>1. \A u, w \in Seq(KeySym(B)) : u \o w \in Seq(KeySym(B))
    OBVIOUS
  <2>2. QED
    BY <1>7, <1>8, <2>1, Zenon
<1>14. input' \in [tokens : Seq(TokensOf(B)), buff : Seq(B)]
  BY <1>5
<1>15. QED
  BY <1>4, <1>7, <1>12, <1>13, <1>14, Zenon DEF InputIn

\* More bytes go on where those before them ended.
LEMMA InputGrows ==
  ASSUME NEW B, InputIn(B), NEW p \in Seq(B),
         input' = [input EXCEPT !.buff = @ \o p], came' = came \o p, handled' = handled
  PROVE  InputIn(B)'
<1>1. PICK a \in Seq(TokensOf(B)), b \in Seq(B) : input = [tokens |-> a, buff |-> b]
  BY DEF InputIn
<1>2. input.tokens = a /\ input.buff = b
  BY <1>1
<1>3. PICK c \in Seq(B) : c = came
  BY Zenon DEF InputIn
<1>4. b \o p \in Seq(B) /\ c \o p \in Seq(B)
  OBVIOUS
<1>w. PICK w \in Seq(B) : w = b \o p
  BY <1>4, Zenon
<1>5. input' = [tokens |-> a, buff |-> w]
  <2>1. input' = [[tokens |-> a, buff |-> b] EXCEPT !.buff = w]
    BY <1>1, <1>2, <1>w, Zenon
  <2>2. [[tokens |-> a, buff |-> b] EXCEPT !.buff = w] = [tokens |-> a, buff |-> w]
    OBVIOUS
  <2>3. QED
    BY <2>1, <2>2, Zenon
<1>6. input'.tokens = a /\ input'.buff = b \o p
  <2>1. input'.tokens = a /\ input'.buff = w
    BY <1>5
  <2>2. QED
    BY <1>w, <2>1, Zenon
<1>7. PICK h \in Seq(KeySym(B)), k \in Seq(KeySym(B)), x \in Seq(KeySym(B)), y \in Seq(KeySym(B)) :
        /\ h = handled /\ k = Keys1(a) /\ x = Keys1(Parsed(b).tokens)
        /\ y = Keys1(Parsed(Parsed(b).rest \o p).tokens)
  <2>1. handled \in Seq(KeySym(B))
    BY Zenon DEF InputIn
  <2>2. Keys1(a) \in Seq(KeySym(B))
    BY Keys1Pressed
  <2>3. Keys1(Parsed(b).tokens) \in Seq(KeySym(B)) /\ Parsed(b).rest \in Seq(B)
    BY ParsedType
  <2>4. Parsed(b).rest \o p \in Seq(B)
    BY <2>3
  <2>5. Keys1(Parsed(Parsed(b).rest \o p).tokens) \in Seq(KeySym(B))
    BY <2>4, ParsedType
  <2>6. QED
    BY <2>1, <2>2, <2>3, <2>5, Zenon
<1>8. (h \o k) \o x = Keys1(Parsed(c).tokens) /\ Parsed(b).rest = Parsed(c).rest
  BY <1>2, <1>3, <1>7, Zenon DEF InputIn, KeysAreWhole
<1>9. Keys1(Parsed(b \o p).tokens) = x \o y /\ Parsed(b \o p).rest = Parsed(Parsed(b).rest \o p).rest
  BY <1>7, ParsedOn, Zenon
<1>10. /\ Keys1(Parsed(c \o p).tokens) = Keys1(Parsed(c).tokens) \o y
       /\ Parsed(c \o p).rest = Parsed(b \o p).rest
  <2>1. /\ Keys1(Parsed(c \o p).tokens)
             = Keys1(Parsed(c).tokens) \o Keys1(Parsed(Parsed(c).rest \o p).tokens)
        /\ Parsed(c \o p).rest = Parsed(Parsed(c).rest \o p).rest
    BY ParsedOn
  <2>2. QED
    BY <1>7, <1>8, <1>9, <2>1, Zenon
<1>11. (h \o k) \o (x \o y) = ((h \o k) \o x) \o y
  <2>1. Rotated(h, k, x, y)
    BY Rotates, Zenon
  <2>2. QED
    BY <2>1, Zenon DEF Rotated
<1>12. KeysAreWhole'
  <2>1. (h \o k) \o Keys1(Parsed(b \o p).tokens) = Keys1(Parsed(c \o p).tokens)
    BY <1>8, <1>9, <1>10, <1>11, Zenon
  <2>2. handled' \o Keys1(input'.tokens) \o Keys1(Parsed(input'.buff).tokens)
          = Keys1(Parsed(came').tokens)
    BY <1>3, <1>6, <1>7, <2>1, Zenon
  <2>3. Parsed(input'.buff).rest = Parsed(came').rest
    BY <1>3, <1>6, <1>10, Zenon
  <2>4. QED
    BY <2>2, <2>3, Zenon DEF KeysAreWhole
<1>13. input' \in [tokens : Seq(TokensOf(B)), buff : Seq(B)]
  <2>1. [tokens |-> a, buff |-> w] \in [tokens : Seq(TokensOf(B)), buff : Seq(B)]
    OBVIOUS
  <2>2. QED
    BY <1>5, <2>1, Zenon
<1>14. came' \in Seq(B)
  BY <1>3, <1>4, Zenon
<1>15. QED
  BY <1>12, <1>13, <1>14, Zenon DEF InputIn

LEMMA InputInit ==
  ASSUME NEW B, FallbackInit
  PROVE  InputIn(B)
<1>1. input = [tokens |-> <<>>, buff |-> <<>>] /\ came = <<>> /\ handled = <<>>
  BY Zenon DEF FallbackInit
<1>e. <<>> \in Seq(B)
  OBVIOUS
<1>2. PICK n \in Seq(B) : n = <<>>
  BY <1>e, Zenon
<1>3. Parsed(n).tokens \in Seq(TokensOf(B)) /\ Parsed(n).rest \in Seq(B)
  BY ParsedType
<1>4. input.tokens = <<>> /\ input.buff = n
  BY <1>1, <1>2
<1>6. KeysAreWhole
  <2>1. Keys1(<<>>) = <<>>
    BY KeysNone
  <2>2. Keys1(Parsed(n).tokens) \in Seq(KeySym(B))
    BY <1>3, Keys1Pressed
  <2>3. \A s \in Seq(KeySym(B)) : <<>> \o s = s
    OBVIOUS
  <2>4. <<>> \o <<>> = <<>>
    OBVIOUS
  <2>5. handled \o Keys1(input.tokens) \o Keys1(Parsed(input.buff).tokens)
          = Keys1(Parsed(n).tokens)
    BY <1>1, <1>4, <2>1, <2>2, <2>3, <2>4, Zenon
  <2>6. QED
    BY <1>1, <1>2, <1>4, <2>5, Zenon DEF KeysAreWhole
<1>7. QED
  BY <1>1, <1>6 DEF InputIn

\* The payload that is written is one of the script's.
LEMMA PayloadIs ==
  ASSUME NEW B, ScriptIn(B), to_server # <<>>, Head(to_server).type = "Stdin"
  PROVE  script[Head(to_server).payload] \in Seq(B)
<1>1. /\ script \in Seq(Seq(B)) /\ typed \in Nat /\ typed <= Len(script)
      /\ to_server \in Seq(TypedMessage(typed))
  BY Zenon DEF ScriptIn
<1>2. Head(to_server) \in TypedMessage(typed)
  BY <1>1
<1>3. Head(to_server) \in [type : {"Stdin"}, payload : 1 .. typed]
  <2>1. \A m \in [type : {"Key"}, key : Keys] \cup [type : {"StartShell"}] : m.type # "Stdin"
    OBVIOUS
  <2>2. QED
    BY <1>2, <2>1, Zenon DEF TypedMessage
<1>4. Head(to_server).payload \in 1 .. Len(script)
  BY <1>1, <1>3
<1>5. QED
  BY <1>1, <1>4

LEMMA FallbackInputStep ==
  ASSUME NEW B, ScriptIn(B), InputIn(B), [FallbackNext]_allVars
  PROVE  InputIn(B)'
<1>1. CASE WriteInput
  <2>1. CASE exited = None
    <3>1. PICK p \in Seq(B) : p = script[Head(to_server).payload]
      <4>1. to_server # <<>> /\ Head(to_server).type = "Stdin"
        BY <1>1, Zenon DEF WriteInput
      <4>2. QED
        BY <4>1, PayloadIs, Zenon
    <3>2. input' = [input EXCEPT !.buff = @ \o p] /\ came' = came \o p /\ handled' = handled
      BY <1>1, <2>1, <3>1, Zenon DEF WriteInput, interpVars
    <3>3. QED
      BY <3>2, InputGrows, Zenon
  <2>2. CASE exited # None
    <3>1. input' = input /\ came' = came /\ handled' = handled
      BY <1>1, <2>2, Zenon DEF WriteInput, interpVars, inputVars
    <3>2. QED
      BY <3>1, InputKept, Zenon
  <2>3. QED
    BY <2>1, <2>2
<1>2. CASE EditLine \/ ReadLine \/ StreamToken
  <2>1. PICK t \in NextToken : Take(t)
    BY <1>2, Zenon DEF EditLine, ReadLine, StreamToken
  <2>2. QED
    BY <2>1, TakeKeeps, Zenon
<1>3. ASSUME input' = input /\ came' = came /\ handled' = handled
      PROVE  InputIn(B)'
  BY <1>3, InputKept, Zenon
<1>4. CASE TypeScript \/ ClientGoesAway \/ ClientRuns \/ ServerRuns \/ ReadExit
           \/ ClientGone \/ DropFallback
  <2>1. UNCHANGED fallbackVars
    BY <1>4, Zenon
    DEF TypeScript, ClientGoesAway, ClientLeaves, ClientRuns, ServerRuns, ReadExit,
        ClientGone, DropFallback
  <2>2. QED
    BY <1>3, <2>1, FallbackKept, Zenon
<1>5. CASE StartFallback
  BY <1>3, <1>5 DEF StartFallback, inputVars
<1>6. CASE StartRead \/ ReadOutput
  BY <1>3, <1>6 DEF StartRead, ReadOutput, inputVars, interpVars
<1>7. CASE RunNothing \/ RunBlank \/ Exit \/ ChangePwd \/ SpawnFails \/ Spawn
  <2>1. Runs
    BY <1>7, Zenon DEF RunNothing, RunBlank, Exit, ChangePwd, SpawnFails, Spawn
  <2>2. QED
    BY <1>3, <2>1 DEF Runs, inputVars
<1>8. CASE Feed \/ FeedFails \/ StdoutEnds \/ Reap
  BY <1>3, <1>8 DEF Feed, FeedFails, StdoutEnds, Reap, inputVars
<1>9. CASE StreamStdout \/ StreamStderr \/ Process
  BY <1>3, <1>9 DEF StreamStdout, StreamStderr, Process, inputVars, interpVars
<1>10. CASE UNCHANGED allVars
  BY <1>3, <1>10, FallbackKept, Zenon DEF allVars
<1>11. QED
  BY <1>1, <1>2, <1>4, <1>5, <1>6, <1>7, <1>8, <1>9, <1>10, Zenon
  DEF FallbackNext, FallbackServer, Prompting, Streaming

-----------------------------------------------------------------------------
(* What the server tells, and how the two agree to begin.                  *)

ToldMessage ==
  [type : {"KeyAccepted", "KeyRejected", "ShellStarted"}]
    \cup [type : {"Stdout"}, payload : Seq(Symbol)]
    \cup [type : {"Exited"}, code : {"success"}]

\* Nothing but an answer meets a client that waits for one.
Handshake ==
  /\ client = "new" =>
       to_server = <<>> /\ to_client = <<>> /\ server \in {"waiting_for_key", "ended"}
  /\ client = "authenticating" =>
       \/ /\ to_server = <<[type |-> "Key", key |-> client_key]>> /\ to_client = <<>>
          /\ server \in {"waiting_for_key", "ended"}
       \/ /\ to_server = <<>> /\ server \in {"waiting_for_request", "ended"}
          /\ \E a \in {"KeyAccepted", "KeyRejected"} : to_client = <<[type |-> a]>>
  /\ client = "starting" =>
       \/ /\ to_server = <<[type |-> "StartShell"]>> /\ to_client = <<>>
          /\ server \in {"waiting_for_request", "ended"}
       \/ to_server = <<>> /\ to_client # <<>> /\ Head(to_client).type = "ShellStarted"

LEMMA HandshakeKept ==
  ASSUME Handshake, client' = client, client_key' = client_key, server' = server,
         to_server' = to_server, to_client' = to_client
  PROVE  Handshake'
BY Zenon DEF Handshake

LEMMA HandshakeOver ==
  ASSUME client' \notin {"new", "authenticating", "starting"}
  PROVE  Handshake'
BY Zenon DEF Handshake

\* Once the shell runs a client that waits has its answer coming.
LEMMA HandshakeLate ==
  ASSUME Handshake, to_client \in Seq(ToldMessage),
         server \in {"streaming", "leaving", "failing", "lingering"}, client' = client,
         to_server' = to_server \/ to_server # <<>>,
         \/ to_client' = to_client
         \/ \E m : to_client' = Append(to_client, m)
  PROVE  Handshake'
<1>1. client \notin {"new", "authenticating"}
  BY DEF Handshake
<1>2. CASE client = "starting"
  <2>1. to_server = <<>> /\ to_client # <<>> /\ Head(to_client).type = "ShellStarted"
    BY <1>2 DEF Handshake
  <2>2. to_server' = <<>>
    BY <2>1
  <2>3. to_client' # <<>> /\ Head(to_client').type = "ShellStarted"
    <3>1. \A m : Append(to_client, m) # <<>> /\ Head(Append(to_client, m)) = Head(to_client)
      BY <2>1
    <3>2. QED
      BY <2>1, <3>1, Zenon
  <2>4. QED
    BY <1>2, <2>2, <2>3, Zenon DEF Handshake
<1>3. QED
  BY <1>1, <1>2, Zenon DEF Handshake

LEMMA HandshakeInit ==
  ASSUME FallbackInit
  PROVE  Handshake
BY DEF FallbackInit, Init, Handshake

LEMMA HandshakeStep ==
  ASSUME Handshake, to_client \in Seq(ToldMessage), [FallbackNext]_allVars
  PROVE  Handshake'
<1>1. CASE TypeScript
  <2>1. client' = "streaming"
    BY <1>1, Zenon DEF TypeScript, ReadStdin
  <2>2. QED
    BY <2>1, HandshakeOver
<1>2. CASE SendKey
  <2>1. /\ client = "new" /\ client' = "authenticating" /\ client_key' = client_key
        /\ to_server' = Append(to_server, [type |-> "Key", key |-> client_key])
        /\ to_client' = to_client /\ server' = server
    BY <1>2, Zenon DEF SendKey, ClientGoes, ToServer, serverVars
  <2>2. to_server = <<>> /\ to_client = <<>> /\ server \in {"waiting_for_key", "ended"}
    BY <2>1, Zenon DEF Handshake
  <2>3. to_server' = <<[type |-> "Key", key |-> client_key]>>
    BY <2>1, <2>2
  <2>4. QED
    BY <2>1, <2>2, <2>3 DEF Handshake
<1>3. CASE ReceiveAnswer
  <2>1. to_client # <<>> /\ to_client' = Tail(to_client) /\ server' = server
    BY <1>3, Zenon DEF ReceiveAnswer, serverVars
  <2>2. CASE client' \in {"failed", "streaming"}
    BY <2>2, HandshakeOver
  <2>3. CASE client' \notin {"failed", "streaming"}
    <3>1. /\ client = "authenticating" /\ client' = "starting"
          /\ to_server' = Append(to_server, [type |-> "StartShell"])
      BY <1>3, <2>3, Zenon DEF ReceiveAnswer, ClientGoes, ToServer
    <3>2. PICK a \in {"KeyAccepted", "KeyRejected"} : to_client = <<[type |-> a]>>
      BY <2>1, <3>1, Zenon DEF Handshake
    <3>3. to_server = <<>> /\ server \in {"waiting_for_request", "ended"}
      BY <2>1, <3>1, Zenon DEF Handshake
    <3>4. to_server' = <<[type |-> "StartShell"]>> /\ to_client' = <<>>
      BY <2>1, <3>1, <3>2, <3>3
    <3>5. QED
      BY <2>1, <3>1, <3>3, <3>4 DEF Handshake
  <2>4. QED
    BY <2>2, <2>3
<1>4. CASE ReceiveOutput \/ ClientFails \/ LeavesWriting
  <2>1. client' \in {"streaming", "exited", "failed"}
    BY <1>4 DEF ReceiveOutput, ClientFails, LeavesWriting, ClientGoes
  <2>2. QED
    BY <2>1, HandshakeOver
<1>5. CASE ReceiveKey
  <2>1. /\ server = "waiting_for_key" /\ to_server # <<>> /\ to_server' = Tail(to_server)
        /\ client' = client /\ client_key' = client_key
        /\ \/ /\ server' = "waiting_for_request"
              /\ to_client' = Append(to_client, [type |-> "KeyAccepted"])
           \/ /\ server' = "ended"
              /\ to_client' = Append(to_client, [type |-> "KeyRejected"])
    BY <1>5, Zenon DEF ReceiveKey, ServerGoes, ToClient, clientVars
  <2>2. client \notin {"new", "starting"}
    BY <2>1 DEF Handshake
  <2>3. CASE client = "authenticating"
    <3>1. /\ to_server = <<[type |-> "Key", key |-> client_key]>> /\ to_client = <<>>
      BY <2>1, <2>3 DEF Handshake
    <3>2. to_server' = <<>>
      BY <2>1, <3>1
    <3>3. to_client' = <<[type |-> "KeyAccepted"]>> \/ to_client' = <<[type |-> "KeyRejected"]>>
      BY <2>1, <3>1
    <3>4. server' \in {"waiting_for_request", "ended"}
      BY <2>1
    <3>5. \E a \in {"KeyAccepted", "KeyRejected"} : to_client' = <<[type |-> a]>>
      BY <3>3, Zenon
    <3>6. client' # "new" /\ client' # "starting"
      BY <2>1, <2>3
    <3>7. QED
      BY <3>2, <3>4, <3>5, <3>6, Zenon DEF Handshake
  <2>4. CASE client # "authenticating"
    BY <2>1, <2>2, <2>4, HandshakeOver
  <2>5. QED
    BY <2>3, <2>4
<1>6. CASE NoRequest
  <2>1. /\ server \in {"waiting_for_key", "waiting_for_request"} /\ server' = "ended"
        /\ client' = client /\ client_key' = client_key
        /\ to_server' = to_server /\ to_client' = to_client
    BY <1>6, Zenon DEF NoRequest, ServerGoes, clientVars, streamVars
  <2>2. server' \in {"waiting_for_key", "ended"} /\ server' \in {"waiting_for_request", "ended"}
    BY <2>1
  <2>3. QED
    BY <2>1, <2>2, Zenon DEF Handshake
<1>7. CASE StartFallback
  <2>1. /\ server = "waiting_for_request" /\ to_server # <<>> /\ to_server' = Tail(to_server)
        /\ to_client' = Append(to_client, [type |-> "ShellStarted"]) /\ client' = client
    BY <1>7, Zenon DEF StartFallback, ToClient, clientVars
  <2>2. client \notin {"new", "authenticating"}
    BY <2>1 DEF Handshake
  <2>3. CASE client = "starting"
    <3>1. to_server = <<[type |-> "StartShell"]>> /\ to_client = <<>>
      BY <2>1, <2>3 DEF Handshake
    <3>2. to_server' = <<>> /\ to_client' = <<[type |-> "ShellStarted"]>>
      BY <2>1, <3>1
    <3>3. to_client' # <<>> /\ Head(to_client').type = "ShellStarted"
      BY <3>2
    <3>4. client' = "starting"
      BY <2>1, <2>3
    <3>5. QED
      BY <3>2, <3>3, <3>4 DEF Handshake
  <2>4. CASE client # "starting"
    BY <2>1, <2>2, <2>4, HandshakeOver
  <2>5. QED
    BY <2>3, <2>4
<1>8. CASE Linger \/ StartRead \/ ClientGone \/ DropFallback
  <2>1. /\ server \in {"streaming", "leaving", "failing", "lingering"} /\ client' = client
        /\ to_server' = to_server /\ to_client' = to_client
    <3>1. CASE Linger \/ ClientGone \/ DropFallback
      BY <3>1 DEF Linger, ClientGone, DropFallback, clientVars, streamVars
    <3>2. CASE StartRead
      BY <3>2, SessionKept DEF StartRead
    <3>3. QED
      BY <1>8, <3>1, <3>2
  <2>2. QED
    BY <2>1, HandshakeLate, Zenon
<1>9. CASE ReadOutput \/ ReadExit
  <2>1. /\ server = "streaming" /\ client' = client /\ to_server' = to_server
        /\ \E m : to_client' = Append(to_client, m)
    BY <1>9, Zenon DEF ReadOutput, ReadExit, ToClient, clientVars
  <2>2. server \in {"streaming", "leaving", "failing", "lingering"}
    BY <2>1
  <2>3. QED
    BY <2>1, <2>2, HandshakeLate, Zenon
<1>10. CASE WriteInput
  <2>1. /\ server = "streaming" /\ client' = client /\ to_server # <<>>
        /\ to_client' = to_client
    BY <1>10, Zenon DEF WriteInput, clientVars
  <2>2. server \in {"streaming", "leaving", "failing", "lingering"}
    BY <2>1
  <2>3. QED
    BY <2>1, <2>2, HandshakeLate, Zenon
<1>11. CASE Prompting \/ Streaming \/ Process
  <2>1. UNCHANGED sessionVars
    BY <1>11, InterpreterKeeps
  <2>2. client_key' = client_key
    BY <2>1 DEF sessionVars, clientVars
  <2>3. QED
    BY <2>1, <2>2, SessionKept, HandshakeKept, Zenon
<1>12. CASE UNCHANGED allVars
  <2>1. UNCHANGED <<client, client_key, server, to_server, to_client>>
    BY <1>12 DEF allVars, vars, clientVars, serverVars, streamVars
  <2>2. QED
    BY <2>1, HandshakeKept, Zenon
<1>13. QED
  BY <1>1, <1>2, <1>3, <1>4, <1>5, <1>6, <1>7, <1>8, <1>9, <1>10, <1>11, <1>12, Zenon
  DEF FallbackNext, ClientGoesAway, ClientLeaves, ClientRuns, FallbackServer, ServerRuns

-----------------------------------------------------------------------------
(* The output on its way.                                                  *)

Carries(m) == IF m.type = "Stdout" THEN m.payload ELSE <<>>
Carried(q) == [i \in DOMAIN q |-> Carries(q[i])]
Coming(q) == FlattenSeq(Carried(q))

LEMMA CarriesType ==
  ASSUME NEW m \in ToldMessage
  PROVE  Carries(m) \in Seq(Symbol)
<1>1. m.type = "Stdout" => m.payload \in Seq(Symbol)
  BY DEF ToldMessage
<1>2. <<>> \in Seq(Symbol)
  OBVIOUS
<1>3. QED
  BY <1>1, <1>2, Zenon DEF Carries

LEMMA CarriedType ==
  ASSUME NEW q \in Seq(ToldMessage)
  PROVE  Carried(q) \in Seq(Seq(Symbol)) /\ Len(Carried(q)) = Len(q)
<1>1. \A i \in 1 .. Len(q) : Carries(q[i]) \in Seq(Symbol)
  <2>1. \A i \in 1 .. Len(q) : q[i] \in ToldMessage
    OBVIOUS
  <2>2. QED
    BY <2>1, CarriesType
<1>2. DOMAIN q = 1 .. Len(q) /\ Len(q) \in Nat
  OBVIOUS
<1>3. Carried(q) = [i \in 1 .. Len(q) |-> Carries(q[i])]
  BY <1>2, Zenon DEF Carried
<1>4. QED
  BY <1>1, <1>2, <1>3

LEMMA ComingType ==
  ASSUME NEW q \in Seq(ToldMessage)
  PROVE  Coming(q) \in Seq(Symbol)
<1>1. PICK x \in Seq(Seq(Symbol)) : x = Carried(q)
  BY CarriedType
<1>2. FlattenSeq(x) \in Seq(Symbol)
  BY FlattenType
<1>3. QED
  BY <1>1, <1>2, Zenon DEF Coming

LEMMA CarriedTwo ==
  ASSUME NEW p \in Seq(ToldMessage), NEW q \in Seq(ToldMessage)
  PROVE  Carried(p \o q) = Carried(p) \o Carried(q)
<1>1. PICK u \in Seq(ToldMessage) : u = p \o q
  BY ConcatIs
<1>2. PICK x \in Seq(Seq(Symbol)), y \in Seq(Seq(Symbol)), z \in Seq(Seq(Symbol)) :
        x = Carried(p) /\ y = Carried(q) /\ z = Carried(u)
  <2>1. /\ Carried(p) \in Seq(Seq(Symbol)) /\ Carried(q) \in Seq(Seq(Symbol))
        /\ Carried(u) \in Seq(Seq(Symbol))
    BY CarriedType
  <2>2. QED
    BY <2>1, Zenon
<1>3. PICK m \in Nat, n \in Nat : m = Len(p) /\ n = Len(q)
  BY ConcatIs
<1>4. Len(x) = m /\ Len(y) = n /\ Len(u) = m + n /\ Len(z) = m + n
  <2>1. Len(u) = m + n
    BY <1>1, <1>3, ConcatIs
  <2>2. Len(x) = m /\ Len(y) = n /\ Len(z) = Len(u)
    BY <1>2, <1>3, CarriedType, Zenon
  <2>3. QED
    BY <2>1, <2>2
<1>5. /\ \A i \in 1 .. m : u[i] = p[i]
      /\ \A i \in 1 .. n : u[m + i] = q[i]
  BY <1>1, <1>3, ConcatIs
<1>6. /\ DOMAIN p = 1 .. m /\ DOMAIN q = 1 .. n /\ DOMAIN u = 1 .. m + n
  BY <1>3, <1>4
<1>7. \A i \in 1 .. m : x[i] = Carries(p[i])
  BY <1>2, <1>6, Zenon DEF Carried
<1>8. \A i \in 1 .. n : y[i] = Carries(q[i])
  BY <1>2, <1>6, Zenon DEF Carried
<1>9. \A i \in 1 .. m + n : z[i] = Carries(u[i])
  BY <1>2, <1>6, Zenon DEF Carried
<1>10. \A i \in 1 .. m : z[i] = x[i]
  <2>1. \A i \in 1 .. m : i \in 1 .. m + n
    OBVIOUS
  <2>2. QED
    BY <1>5, <1>7, <1>9, <2>1, Zenon
<1>11. \A i \in 1 .. n : z[m + i] = y[i]
  <2>1. \A i \in 1 .. n : m + i \in 1 .. m + n
    OBVIOUS
  <2>2. QED
    BY <1>5, <1>8, <1>9, <2>1, Zenon
<1>12. z = x \o y
  <2>1. Len(z) = Len(x) + Len(y)
    BY <1>4
  <2>2. /\ \A i \in 1 .. Len(x) : z[i] = x[i]
        /\ \A i \in 1 .. Len(y) : z[Len(x) + i] = y[i]
    BY <1>4, <1>10, <1>11, Zenon
  <2>3. QED
    BY <2>1, <2>2, ConcatEqual
<1>13. QED
  BY <1>1, <1>2, <1>12, Zenon

LEMMA ComingTwo ==
  ASSUME NEW p \in Seq(ToldMessage), NEW q \in Seq(ToldMessage)
  PROVE  Coming(p \o q) = Coming(p) \o Coming(q)
<1>1. PICK x \in Seq(Seq(Symbol)), y \in Seq(Seq(Symbol)) : x = Carried(p) /\ y = Carried(q)
  <2>1. Carried(p) \in Seq(Seq(Symbol)) /\ Carried(q) \in Seq(Seq(Symbol))
    BY CarriedType
  <2>2. QED
    BY <2>1, Zenon
<1>2. Carried(p \o q) = x \o y
  BY <1>1, CarriedTwo
<1>3. FlattenSeq(x \o y) = FlattenSeq(x) \o FlattenSeq(y)
  BY FlattenConcat
<1>4. QED
  BY <1>1, <1>2, <1>3, Zenon DEF Coming

LEMMA ComingOne ==
  ASSUME NEW m \in ToldMessage
  PROVE  Coming(<<m>>) = Carries(m)
<1>1. PICK c \in Seq(Symbol) : c = Carries(m)
  BY CarriesType
<1>2. Carried(<<m>>) = <<Carries(m)>>
  BY DEF Carried
<1>3. FlattenSeq(<<c>>) = c
  BY FlattenOne
<1>4. QED
  BY <1>1, <1>2, <1>3, Zenon DEF Coming

LEMMA ComingAppend ==
  ASSUME NEW q \in Seq(ToldMessage), NEW m \in ToldMessage
  PROVE  Append(q, m) \in Seq(ToldMessage) /\ Coming(Append(q, m)) = Coming(q) \o Carries(m)
<1>1. PICK o \in Seq(ToldMessage) : o = <<m>>
  BY OneOf
<1>2. Append(q, m) = q \o <<m>> /\ Append(q, m) \in Seq(ToldMessage)
  OBVIOUS
<1>3. Coming(q \o o) = Coming(q) \o Coming(o)
  BY ComingTwo
<1>4. Coming(<<m>>) = Carries(m)
  BY ComingOne
<1>5. QED
  BY <1>1, <1>2, <1>3, <1>4, Zenon

LEMMA ComingHead ==
  ASSUME NEW q \in Seq(ToldMessage), q # <<>>
  PROVE  /\ Tail(q) \in Seq(ToldMessage) /\ Head(q) \in ToldMessage
         /\ Coming(q) = Carries(Head(q)) \o Coming(Tail(q))
<1>0. Head(q) \in ToldMessage /\ Tail(q) \in Seq(ToldMessage)
  OBVIOUS
<1>1. PICK h \in ToldMessage, t \in Seq(ToldMessage) : h = Head(q) /\ t = Tail(q)
  BY <1>0, Zenon
<1>2. q = <<h>> \o t
  BY <1>1
<1>3. PICK o \in Seq(ToldMessage) : o = <<h>>
  BY OneOf
<1>4. Coming(o \o t) = Coming(o) \o Coming(t)
  BY ComingTwo
<1>5. Coming(<<h>>) = Carries(h)
  BY ComingOne
<1>6. QED
  BY <1>1, <1>2, <1>3, <1>4, <1>5, Zenon

\* sh has been shown, q is in the tunnel, c in the channel, w was written.
Flowing(sh, q, c, l, w) ==
  /\ sh \in Seq(Symbol) /\ q \in Seq(ToldMessage) /\ c \in Seq(Symbol) /\ w \in Seq(Symbol)
  /\ l = LastOf(None, w)
  /\ (sh \o Coming(q)) \o c = Converted(None, w)

LEMMA FlowWrites ==
  ASSUME NEW sh, NEW q, NEW c, NEW l, NEW w, Flowing(sh, q, c, l, w),
         NEW b \in Seq(Symbol), b # <<>>
  PROVE  Flowing(sh, q, c \o Converted(l, b), Last(b), w \o b)
<1>1. /\ sh \in Seq(Symbol) /\ q \in Seq(ToldMessage) /\ c \in Seq(Symbol) /\ w \in Seq(Symbol)
      /\ l = LastOf(None, w) /\ (sh \o Coming(q)) \o c = Converted(None, w)
  BY Zenon DEF Flowing
<1>2. PICK x \in Seq(Symbol), y \in Seq(Symbol) : x = Coming(q) /\ y = Converted(l, b)
  BY <1>1, ComingType, ConvertedType, Zenon
<1>3. Converted(None, w \o b) = Converted(None, w) \o Converted(LastOf(None, w), b)
  BY <1>1, ConvertedConcat
<1>4. LastOf(None, w \o b) = LastOf(LastOf(None, w), b)
  BY <1>1, LastConcat
<1>5. LastOf(LastOf(None, w), b) = Last(b)
  BY Zenon DEF LastOf
<1>6. Regroups(Symbol)
  BY AllRegroup, Zenon
<1>7. w \o b \in Seq(Symbol) /\ c \o y \in Seq(Symbol) /\ sh \o x \in Seq(Symbol)
  BY <1>1, <1>6, ZenonT(60) DEF Regroups
<1>8. ((sh \o x) \o c) \o y = (sh \o x) \o (c \o y)
  <2>1. PICK u \in Seq(Symbol) : u = sh \o x
    BY <1>7, Zenon
  <2>2. PICK v \in Seq(Symbol) : v = c
    BY <1>1, Zenon
  <2>3. (u \o v) \o y = u \o (v \o y)
    BY <1>6, ZenonT(60) DEF Regroups
  <2>4. QED
    BY <2>1, <2>2, <2>3, Zenon
<1>9. (sh \o x) \o (c \o y) = Converted(None, w \o b)
  BY <1>1, <1>2, <1>3, <1>8, Zenon
<1>10. QED
  BY <1>1, <1>2, <1>4, <1>5, <1>7, <1>9, Zenon DEF Flowing

LEMMA FlowTells ==
  ASSUME NEW sh, NEW q, NEW c, NEW l, NEW w, Flowing(sh, q, c, l, w),
         NEW m \in ToldMessage, m.type # "Stdout"
  PROVE  Flowing(sh, Append(q, m), c, l, w)
<1>1. q \in Seq(ToldMessage)
  BY Zenon DEF Flowing
<1>2. PICK x \in Seq(Symbol) : x = Coming(q)
  BY <1>1, ComingType
<1>3. Carries(m) = <<>>
  BY Zenon DEF Carries
<1>4. x \o <<>> = x
  OBVIOUS
<1>5. Append(q, m) \in Seq(ToldMessage) /\ Coming(Append(q, m)) = Coming(q)
  BY <1>1, <1>2, <1>3, <1>4, ComingAppend
<1>6. QED
  BY <1>5, Zenon DEF Flowing

LEMMA FlowSends ==
  ASSUME NEW sh, NEW q, NEW a \in Seq(Symbol), NEW d \in Seq(Symbol), NEW l, NEW w,
         Flowing(sh, q, a \o d, l, w)
  PROVE  Flowing(sh, Append(q, [type |-> "Stdout", payload |-> a]), d, l, w)
<1>1. /\ sh \in Seq(Symbol) /\ q \in Seq(ToldMessage)
      /\ (sh \o Coming(q)) \o (a \o d) = Converted(None, w)
  BY Zenon DEF Flowing
<1>2. PICK m : m = [type |-> "Stdout", payload |-> a]
  OBVIOUS
<1>3. m \in ToldMessage
  <2>1. m \in [type : {"Stdout"}, payload : Seq(Symbol)]
    BY <1>2
  <2>2. QED
    BY <2>1, Zenon DEF ToldMessage
<1>4. Carries(m) = a
  BY <1>2 DEF Carries
<1>5. PICK x \in Seq(Symbol) : x = Coming(q)
  BY <1>1, ComingType
<1>6. Append(q, m) \in Seq(ToldMessage) /\ Coming(Append(q, m)) = x \o a
  BY <1>1, <1>3, <1>4, <1>5, ComingAppend
<1>7. Rotated(sh, x, a, d)
  BY <1>1, Rotates, Zenon
<1>8. (sh \o (x \o a)) \o d = (sh \o x) \o (a \o d)
  <2>1. Regroups(Symbol)
    BY AllRegroup, Zenon
  <2>2. (sh \o x) \o a = sh \o (x \o a)
    BY <1>1, <2>1, ZenonT(60) DEF Regroups
  <2>3. QED
    BY <1>7, <2>2, Zenon DEF Rotated
<1>9. (sh \o Coming(Append(q, m))) \o d = Converted(None, w)
  BY <1>1, <1>5, <1>6, <1>8, Zenon
<1>10. QED
  BY <1>2, <1>6, <1>9, Zenon DEF Flowing

LEMMA FlowShows ==
  ASSUME NEW sh, NEW q, NEW c, NEW l, NEW w, Flowing(sh, q, c, l, w), q # <<>>
  PROVE  Flowing(sh \o Carries(Head(q)), Tail(q), c, l, w)
<1>1. sh \in Seq(Symbol) /\ q \in Seq(ToldMessage)
  BY Zenon DEF Flowing
<1>2. PICK x \in Seq(Symbol), y \in Seq(Symbol) : x = Carries(Head(q)) /\ y = Coming(Tail(q))
  BY <1>1, ComingHead, ComingType, CarriesType, Zenon
<1>3. Tail(q) \in Seq(ToldMessage) /\ Coming(q) = x \o y
  BY <1>1, <1>2, ComingHead
<1>4. Regroups(Symbol)
  BY AllRegroup, Zenon
<1>5. (sh \o x) \o y = sh \o (x \o y) /\ sh \o x \in Seq(Symbol)
  BY <1>1, <1>4, ZenonT(60) DEF Regroups
<1>6. QED
  BY <1>2, <1>3, <1>5, Zenon DEF Flowing

\* A sequence is what a cut leaves on both sides.
CutAt(S, c, k) ==
  \E a \in Seq(S), d \in Seq(S) :
    a = SubSeq(c, 1, k) /\ d = SubSeq(c, k + 1, Len(c)) /\ c = a \o d

LEMMA CutInTwo ==
  ASSUME NEW S, NEW c \in Seq(S), NEW k \in Nat, k <= Len(c)
  PROVE  CutAt(S, c, k)
<1>1. PICK n \in Nat : n = Len(c)
  OBVIOUS
<1>2. /\ SubSeq(c, 1, k) \in Seq(S) /\ Len(SubSeq(c, 1, k)) = k
      /\ \A i \in 1 .. k : SubSeq(c, 1, k)[i] = c[i]
  <2>1. /\ SubSeq(c, 1, k) \in Seq(S) /\ Len(SubSeq(c, 1, k)) = k + 1 - 1
        /\ \A i \in 1 .. k + 1 - 1 : SubSeq(c, 1, k)[i] = c[1 + i - 1]
    BY SubSeqIs
  <2>2. k + 1 - 1 = k /\ \A i \in 1 .. k : 1 + i - 1 = i
    OBVIOUS
  <2>3. QED
    BY <2>1, <2>2
<1>3. /\ SubSeq(c, k + 1, n) \in Seq(S) /\ Len(SubSeq(c, k + 1, n)) = n - k
      /\ \A i \in 1 .. n - k : SubSeq(c, k + 1, n)[i] = c[k + i]
  <2>1. /\ SubSeq(c, k + 1, n) \in Seq(S) /\ Len(SubSeq(c, k + 1, n)) = n + 1 - (k + 1)
        /\ \A i \in 1 .. n + 1 - (k + 1) : SubSeq(c, k + 1, n)[i] = c[k + 1 + i - 1]
    BY <1>1, SubSeqIs
  <2>2. n + 1 - (k + 1) = n - k /\ \A i \in 1 .. n - k : k + 1 + i - 1 = k + i
    BY <1>1
  <2>3. QED
    BY <2>1, <2>2
<1>4. PICK a \in Seq(S), d \in Seq(S) : a = SubSeq(c, 1, k) /\ d = SubSeq(c, k + 1, n)
  BY <1>2, <1>3, Zenon
<1>5. /\ Len(c) = Len(a) + Len(d)
      /\ \A i \in 1 .. Len(a) : c[i] = a[i]
      /\ \A i \in 1 .. Len(d) : c[Len(a) + i] = d[i]
  <2>1. Len(a) = k /\ Len(d) = n - k
    BY <1>2, <1>3, <1>4, Zenon
  <2>2. Len(c) = Len(a) + Len(d)
    BY <1>1, <2>1
  <2>3. \A i \in 1 .. Len(a) : c[i] = a[i]
    BY <1>2, <1>4, <2>1, Zenon
  <2>4. \A i \in 1 .. Len(d) : c[Len(a) + i] = d[i]
    BY <1>3, <1>4, <2>1, Zenon
  <2>5. QED
    BY <2>2, <2>3, <2>4, Zenon
<1>6. c = a \o d
  BY <1>5, ConcatEqual
<1>7. QED
  BY <1>1, <1>4, <1>6, Zenon DEF CutAt

-----------------------------------------------------------------------------
(* The output.                                                             *)

OutputIn ==
  /\ exited \in {None, "success"}
  /\ out_stream \in [chan : Seq(Symbol), last : Symbol \cup {None}]
  /\ Flowing(shown, to_client, out_stream.chan, out_stream.last, written)

PipesIn == {out_pipe, err_pipe, to_write, to_complain} \subseteq Seq(Bytes)

LEMMA OutputIs ==
  ASSUME OutputIn
  PROVE  OutputIsConverted
<1>1. (shown \o Coming(to_client)) \o out_stream.chan = Converted(None, written)
  BY Zenon DEF OutputIn, Flowing
<1>2. QED
  BY <1>1, Zenon DEF OutputIsConverted, InFlight, Coming, Carried, Carries

LEMMA OutputKept ==
  ASSUME OutputIn, shown' = shown, to_client' = to_client, out_stream' = out_stream,
         written' = written, exited' \in {None, "success"}
  PROVE  OutputIn'
BY Zenon DEF OutputIn, Flowing

\* Whatever is in the tunnel, to write goes on where the writes before ended.
LEMMA WriteIs ==
  ASSUME NEW sh, NEW q, OutputIn,
         Flowing(sh, q, out_stream.chan, out_stream.last, written),
         NEW b \in Seq(Symbol), Write(b)
  PROVE  /\ out_stream' \in [chan : Seq(Symbol), last : Symbol \cup {None}]
         /\ Flowing(sh, q, out_stream'.chan, out_stream'.last, written')
<1>1. CASE b = <<>>
  <2>1. out_stream' = out_stream /\ written' = written
    BY <1>1, Zenon DEF Write, outputVars
  <2>2. QED
    BY <2>1, Zenon DEF OutputIn
<1>2. CASE b # <<>>
  <2>1. /\ out_stream' = [chan |-> out_stream.chan \o Converted(out_stream.last, b), last |-> Last(b)]
        /\ written' = written \o b
    BY <1>2, Zenon DEF Write
  <2>2. Flowing(sh, q, out_stream.chan \o Converted(out_stream.last, b), Last(b), written \o b)
    BY <1>2, FlowWrites, Zenon
  <2>3. PICK c \in Seq(Symbol) : c = out_stream.chan \o Converted(out_stream.last, b)
    BY <2>2, Zenon DEF Flowing
  <2>4. Last(b) \in Symbol
    BY <1>2 DEF Last
  <2>5. PICK z \in Symbol : z = Last(b)
    BY <2>4, Zenon
  <2>6. out_stream' = [chan |-> c, last |-> z]
    BY <2>1, <2>3, <2>5, Zenon
  <2>7. out_stream'.chan = c /\ out_stream'.last = z
    BY <2>6
  <2>8. out_stream' \in [chan : Seq(Symbol), last : Symbol \cup {None}]
    BY <2>6
  <2>9. Flowing(sh, q, c, z, written')
    BY <2>1, <2>2, <2>3, <2>5, Zenon
  <2>10. QED
    BY <2>7, <2>8, <2>9, Zenon
<1>3. QED
  BY <1>1, <1>2

LEMMA WrittenKeeps ==
  ASSUME OutputIn, NEW b \in Seq(Symbol), Write(b), shown' = shown, to_client' = to_client,
         exited' = exited
  PROVE  OutputIn'
<1>1. Flowing(shown, to_client, out_stream.chan, out_stream.last, written)
  BY Zenon DEF OutputIn
<1>2. /\ out_stream' \in [chan : Seq(Symbol), last : Symbol \cup {None}]
      /\ Flowing(shown, to_client, out_stream'.chan, out_stream'.last, written')
  BY <1>1, WriteIs, Zenon
<1>3. QED
  BY <1>2, Zenon DEF OutputIn, Flowing

LEMMA ToldKeeps ==
  ASSUME OutputIn, NEW m \in ToldMessage, m.type # "Stdout", to_client' = Append(to_client, m),
         shown' = shown, out_stream' = out_stream, written' = written, exited' = exited
  PROVE  OutputIn'
<1>1. Flowing(shown, Append(to_client, m), out_stream.chan, out_stream.last, written)
  BY FlowTells, Zenon DEF OutputIn
<1>2. QED
  BY <1>1, Zenon DEF OutputIn, Flowing

LEMMA ShownKeeps ==
  ASSUME OutputIn, to_client # <<>>, to_client' = Tail(to_client),
         shown' = shown \o Carries(Head(to_client)),
         out_stream' = out_stream, written' = written, exited' = exited
  PROVE  OutputIn'
<1>1. Flowing(shown \o Carries(Head(to_client)), Tail(to_client), out_stream.chan,
              out_stream.last, written)
  BY FlowShows, Zenon DEF OutputIn
<1>2. QED
  BY <1>1, Zenon DEF OutputIn, Flowing

LEMMA SentKeeps ==
  ASSUME OutputIn, ReadOutput, ReadSize \in Nat
  PROVE  OutputIn'
<1> DEFINE n == IF Len(out_stream.chan) < ReadSize THEN Len(out_stream.chan) ELSE ReadSize
<1>1. PICK c \in Seq(Symbol), z \in Symbol \cup {None} : out_stream = [chan |-> c, last |-> z]
  BY DEF OutputIn
<1>2. out_stream.chan = c /\ out_stream.last = z
  BY <1>1
<1>3. PICK k \in Nat : k = n /\ k <= Len(c)
  <2>1. n = IF Len(c) < ReadSize THEN Len(c) ELSE ReadSize
    BY <1>2, Zenon
  <2>2. n \in Nat /\ n <= Len(c)
    <3>1. Len(c) \in Nat
      OBVIOUS
    <3>2. QED
      BY <2>1, <3>1
  <2>3. QED
    BY <2>2, Zenon
<1>4. /\ out_stream' = [out_stream EXCEPT !.chan = SubSeq(@, k + 1, Len(@))]
      /\ to_client' = Append(to_client, [type |-> "Stdout", payload |-> SubSeq(c, 1, k)])
      /\ shown' = shown /\ written' = written /\ exited' = exited
  BY <1>2, <1>3, Zenon DEF ReadOutput, ToClient, clientVars
<1>5. PICK a \in Seq(Symbol), d \in Seq(Symbol) :
        a = SubSeq(c, 1, k) /\ d = SubSeq(c, k + 1, Len(c)) /\ c = a \o d
  <2>1. CutAt(Symbol, c, k)
    BY <1>3, CutInTwo, Zenon
  <2>2. QED
    BY <2>1, Zenon DEF CutAt
<1>6. out_stream' = [chan |-> d, last |-> z]
  <2>1. out_stream' = [[chan |-> c, last |-> z] EXCEPT !.chan = d]
    BY <1>1, <1>2, <1>4, <1>5, Zenon
  <2>2. [[chan |-> c, last |-> z] EXCEPT !.chan = d] = [chan |-> d, last |-> z]
    OBVIOUS
  <2>3. QED
    BY <2>1, <2>2, Zenon
<1>7. out_stream'.chan = d /\ out_stream'.last = z
  BY <1>6
<1>8. Flowing(shown, to_client, a \o d, z, written)
  BY <1>2, <1>5, Zenon DEF OutputIn
<1>9. Flowing(shown, Append(to_client, [type |-> "Stdout", payload |-> a]), d, z, written)
  BY <1>8, FlowSends, Zenon
<1>10. out_stream' \in [chan : Seq(Symbol), last : Symbol \cup {None}]
  BY <1>6
<1>11. QED
  BY <1>4, <1>5, <1>7, <1>9, <1>10, Zenon DEF OutputIn, Flowing

LEMMA OutputInit ==
  ASSUME FallbackInit
  PROVE  OutputIn
<1>1. /\ out_stream = NoOutput /\ exited = None /\ written = <<>>
      /\ shown = <<>> /\ to_client = <<>>
  BY Zenon DEF FallbackInit, Init
<1>2. out_stream = [chan |-> <<>>, last |-> None]
  BY <1>1, Zenon DEF NoOutput
<1>3. out_stream.chan = <<>> /\ out_stream.last = None
  BY <1>2
<1>4. out_stream \in [chan : Seq(Symbol), last : Symbol \cup {None}]
  BY <1>2
<1>5. Flowing(<<>>, <<>>, <<>>, None, <<>>)
  <2>1. <<>> \in Seq(Symbol) /\ <<>> \in Seq(ToldMessage)
    OBVIOUS
  <2>2. Coming(<<>>) = <<>>
    <3>1. Carried(<<>>) = <<>>
      BY DEF Carried
    <3>2. QED
      BY <3>1, FlattenNone, Zenon DEF Coming
  <2>3. Converted(None, <<>>) = <<>>
    BY ConvertedNone
  <2>4. LastOf(None, <<>>) = None
    BY Zenon DEF LastOf
  <2>5. (<<>> \o <<>>) \o <<>> = <<>>
    OBVIOUS
  <2>6. QED
    BY <2>1, <2>2, <2>3, <2>4, <2>5, Zenon DEF Flowing
<1>6. exited \in {None, "success"}
  BY <1>1
<1>7. QED
  BY <1>1, <1>3, <1>4, <1>5, <1>6, Zenon DEF OutputIn

LEMMA PipesInit ==
  ASSUME FallbackInit
  PROVE  PipesIn
<1>1. out_pipe = <<>> /\ err_pipe = <<>> /\ to_write = <<>> /\ to_complain = <<>>
  BY Zenon DEF FallbackInit
<1>2. QED
  BY <1>1 DEF PipesIn

LEMMA PipesKept ==
  ASSUME PipesIn, out_pipe' = out_pipe, err_pipe' = err_pipe, to_write' = to_write,
         to_complain' = to_complain
  PROVE  PipesIn'
BY Zenon DEF PipesIn

LEMMA PipesStep ==
  ASSUME FallbackAssumption, PipesIn, [FallbackNext]_allVars
  PROVE  PipesIn'
<1>1. /\ out_pipe \in Seq(Bytes) /\ err_pipe \in Seq(Bytes) /\ to_write \in Seq(Bytes)
      /\ to_complain \in Seq(Bytes)
  BY DEF PipesIn
<1>2. ASSUME UNCHANGED processVars PROVE PipesIn'
  BY <1>2, PipesKept DEF processVars
<1>3. <<>> \in Seq(Bytes)
  OBVIOUS
<1>4. CASE Spawn
  <2>1. /\ to_write' = ProcessOutput[Command] /\ to_complain' = ProcessErrors[Command]
        /\ out_pipe' = <<>> /\ err_pipe' = <<>> /\ Command \in Programs
    BY <1>4, Zenon DEF Spawn
  <2>2. ProcessOutput \in [Programs -> Seq(Bytes)] /\ ProcessErrors \in [Programs -> Seq(Bytes)]
    BY DEF FallbackAssumption
  <2>3. to_write' \in Seq(Bytes) /\ to_complain' \in Seq(Bytes)
    BY <2>1, <2>2, Zenon
  <2>4. QED
    BY <1>3, <2>1, <2>3 DEF PipesIn
<1>5. CASE StreamToken \/ Feed
  BY <1>5, PipesKept DEF StreamToken, Feed
<1>6. CASE StreamStdout
  <2>1. out_pipe' = <<>> /\ UNCHANGED <<err_pipe, to_write, to_complain>>
    BY <1>6 DEF StreamStdout
  <2>2. QED
    BY <1>1, <1>3, <2>1 DEF PipesIn
<1>7. CASE StreamStderr \/ StdoutEnds
  <2>1. err_pipe' = <<>> /\ UNCHANGED <<out_pipe, to_write, to_complain>>
    BY <1>7 DEF StreamStderr, StdoutEnds
  <2>2. QED
    BY <1>1, <1>3, <2>1 DEF PipesIn
<1>8. CASE Reap
  BY <1>8, PipesKept DEF Reap
<1>9. CASE ProcessReads \/ ProcessMutes \/ ProcessExits
  BY <1>9, PipesKept DEF ProcessReads, ProcessMutes, ProcessExits
<1>10. CASE ProcessWrites
  <2>1. /\ to_write # <<>> /\ to_write' = Tail(to_write)
        /\ out_pipe' = Append(out_pipe, Head(to_write))
        /\ UNCHANGED <<err_pipe, to_complain>>
    BY <1>10 DEF ProcessWrites
  <2>2. to_write' \in Seq(Bytes) /\ Head(to_write) \in Bytes
    BY <1>1, <2>1
  <2>3. out_pipe' \in Seq(Bytes)
    BY <1>1, <2>1, <2>2
  <2>4. QED
    BY <1>1, <2>1, <2>2, <2>3 DEF PipesIn
<1>11. CASE ProcessComplains
  <2>1. /\ to_complain # <<>> /\ to_complain' = Tail(to_complain)
        /\ err_pipe' = Append(err_pipe, Head(to_complain))
        /\ UNCHANGED <<out_pipe, to_write>>
    BY <1>11 DEF ProcessComplains
  <2>2. to_complain' \in Seq(Bytes) /\ Head(to_complain) \in Bytes
    BY <1>1, <2>1
  <2>3. err_pipe' \in Seq(Bytes)
    BY <1>1, <2>1, <2>2
  <2>4. QED
    BY <1>1, <2>1, <2>2, <2>3 DEF PipesIn
<1>12. CASE TypeScript \/ ClientGoesAway \/ ClientRuns \/ FallbackServer
  <2>1. CASE TypeScript \/ ClientGoesAway \/ ClientRuns \/ ServerRuns
             \/ ReadExit \/ ClientGone \/ DropFallback
    <3>1. UNCHANGED fallbackVars
      BY <2>1, Zenon
      DEF TypeScript, ClientGoesAway, ClientLeaves, ClientRuns, ServerRuns, ReadExit,
          ClientGone, DropFallback
    <3>2. QED
      BY <1>2, <3>1, FallbackKept, Zenon
  <2>2. CASE StartFallback \/ StartRead \/ ReadOutput \/ WriteInput
    <3>1. UNCHANGED processVars
      BY <2>2 DEF StartFallback, StartRead, ReadOutput, WriteInput
    <3>2. QED
      BY <1>2, <3>1
  <2>3. QED
    BY <1>12, <2>1, <2>2, Zenon DEF FallbackServer
<1>13. CASE EditLine \/ ReadLine \/ RunNothing \/ RunBlank \/ Exit \/ ChangePwd
            \/ SpawnFails \/ FeedFails
  <2>1. UNCHANGED processVars
    BY <1>13, Zenon
    DEF EditLine, ReadLine, RunNothing, RunBlank, Exit, ChangePwd, SpawnFails,
        FeedFails, Answers
  <2>2. QED
    BY <1>2, <2>1
<1>14. CASE UNCHANGED allVars
  <2>1. UNCHANGED fallbackVars
    BY <1>14 DEF allVars
  <2>2. QED
    BY <1>2, <2>1, FallbackKept, Zenon
<1>15. QED
  BY <1>4, <1>5, <1>6, <1>7, <1>8, <1>9, <1>10, <1>11, <1>12, <1>13, <1>14, Zenon
  DEF FallbackNext, Prompting, Streaming, Process

\* Enter leaves an empty line.
LEMMA NewLineIn ==
  ASSUME NEW P, NEW e, EditorIn(P, e)
  PROVE  /\ EditorIn(P, NewLine(e).ed) /\ NewLine(e).out = <<"CR", "LF">>
         /\ NewLine(e).ed.line = <<>> /\ NewLine(e).ed.cursor = 0
<1>1. PICK l \in Seq(P), h \in Seq(Seq(P)) : l = e.line /\ h = e.history
  BY EditorIs, Zenon
<1>2. PICK k \in Seq(Seq(P)), n \in Nat : k = Append(h, l) /\ n = Len(h) + 1 /\ n <= Len(k)
  <2>1. Append(h, l) \in Seq(Seq(P)) /\ Len(h) + 1 \in Nat /\ Len(h) + 1 <= Len(Append(h, l))
    OBVIOUS
  <2>2. QED
    BY <2>1, Zenon
<1>3. PICK f : f = [line |-> <<>>, cursor |-> 0, history |-> k, history_pos |-> n]
  OBVIOUS
<1>4. NewLine(e) = Edit(f, <<"CR", "LF">>)
  BY <1>1, <1>2, <1>3, Zenon DEF NewLine
<1>5. Edit(f, <<"CR", "LF">>).ed = f /\ Edit(f, <<"CR", "LF">>).out = <<"CR", "LF">>
  BY DEF Edit
<1>6. EditorIn(P, f)
  <2>1. f \in [line : Seq(P), cursor : Nat, history : Seq(Seq(P)), history_pos : Nat]
    <3>1. <<>> \in Seq(P) /\ 0 \in Nat
      OBVIOUS
    <3>2. QED
      BY <1>3, <3>1
  <2>2. f.line = <<>> /\ f.cursor = 0 /\ f.history = k /\ f.history_pos = n
    BY <1>3
  <2>3. 0 <= Len(<<>>)
    OBVIOUS
  <2>4. QED
    BY <1>2, <2>1, <2>2, <2>3, Zenon DEF EditorIn
<1>7. f.line = <<>> /\ f.cursor = 0
  BY <1>3
<1>8. QED
  BY <1>4, <1>5, <1>6, <1>7, Zenon

\* The editor of the interpreter.
EditorTyped == EditorIn(Symbol, ed)

LEMMA EditorInit ==
  ASSUME NEW P, FallbackInit
  PROVE  EditorIn(P, ed) /\ ed.line = <<>> /\ ed.cursor = 0
<1>1. ed = [line |-> <<>>, cursor |-> 0, history |-> <<>>, history_pos |-> 0]
  BY Zenon DEF FallbackInit, NewEditor
<1>2. QED
  BY <1>1 DEF EditorIn

LEMMA TokenTyped ==
  ASSUME NEW t \in TokensOf(Bytes)
  PROVE  t.key \in KeyNames /\ t.bytes \in Seq(Symbol)
<1>1. t.key \in KeyNames /\ t.bytes \in Seq(Bytes)
  BY DEF TokensOf
<1>2. Bytes \subseteq Symbol
  BY DEF Symbol
<1>3. QED
  BY <1>1, <1>2, LongerSeq

LEMMA EditLineIs ==
  ASSUME InputIn(Bytes), EditorTyped, EditLine
  PROVE  EditorTyped' /\ \E out \in Seq(Symbol) : Write(out)
<1>1. PICK t \in NextToken :
        /\ t.key # "Enter" /\ Take(t)
        /\ \E edit \in {EditOf(ed, t)} : ed' = edit.ed /\ Write(edit.out)
  BY Zenon DEF EditLine
<1>2. t \in TokensOf(Bytes)
  BY <1>1, TakeKeeps, Zenon
<1>3. EditIn(EditOf(ed, t))
  <2>1. t.key \in KeyNames \ {"Enter"} /\ t.bytes \in Seq(Symbol)
    BY <1>1, <1>2, TokenTyped
  <2>2. QED
    BY <2>1, EditTypes, Zenon DEF EditorTyped
<1>4. ed' = EditOf(ed, t).ed /\ Write(EditOf(ed, t).out)
  BY <1>1, Zenon
<1>5. EditorIn(Symbol, ed') /\ EditOf(ed, t).out \in Seq(Symbol)
  BY <1>3, <1>4, Zenon DEF EditIn
<1>6. EditorTyped'
  BY <1>5, Zenon DEF EditorTyped, Symbol
<1>7. QED
  BY <1>4, <1>5, <1>6, Zenon

\* The line is edited at the prompt only.
LEMMA EditorKept ==
  ASSUME [FallbackNext]_allVars, ~EditLine, ~ReadLine
  PROVE  ed' = ed
<1>1. CASE TypeScript \/ ClientGoesAway \/ ClientRuns \/ ServerRuns \/ ReadExit
           \/ ClientGone \/ DropFallback
  <2>1. UNCHANGED fallbackVars
    BY <1>1, Zenon
    DEF TypeScript, ClientGoesAway, ClientLeaves, ClientRuns, ServerRuns, ReadExit,
        ClientGone, DropFallback
  <2>2. QED
    BY <2>1, FallbackKept, Zenon
<1>2. CASE StartFallback \/ StartRead \/ ReadOutput \/ WriteInput
  BY <1>2 DEF StartFallback, StartRead, ReadOutput, WriteInput, interpVars
<1>3. CASE RunNothing \/ RunBlank \/ Exit \/ ChangePwd \/ SpawnFails \/ Spawn
  <2>1. Runs
    BY <1>3, Zenon DEF RunNothing, RunBlank, Exit, ChangePwd, SpawnFails, Spawn
  <2>2. QED
    BY <2>1 DEF Runs
<1>4. CASE StreamToken \/ Feed \/ FeedFails \/ StdoutEnds \/ Reap
  BY <1>4 DEF StreamToken, Feed, FeedFails, StdoutEnds, Reap
<1>5. CASE StreamStdout \/ StreamStderr \/ Process
  BY <1>5 DEF StreamStdout, StreamStderr, Process, interpVars
<1>6. CASE UNCHANGED allVars
  <2>1. UNCHANGED fallbackVars
    BY <1>6 DEF allVars
  <2>2. QED
    BY <2>1, FallbackKept, Zenon
<1>7. QED
  BY <1>1, <1>2, <1>3, <1>4, <1>5, <1>6, Zenon
  DEF FallbackNext, FallbackServer, Prompting, Streaming

LEMMA EditorStep ==
  ASSUME InputIn(Bytes), EditorTyped, [FallbackNext]_allVars
  PROVE  EditorTyped'
<1>1. CASE EditLine
  BY <1>1, EditLineIs, Zenon
<1>2. CASE ReadLine
  <2>1. ed' = NewLine(ed).ed \/ ed' = ed
    BY <1>2, Zenon DEF ReadLine
  <2>2. EditorIn(Symbol, NewLine(ed).ed)
    BY NewLineIn, Zenon DEF EditorTyped
  <2>3. QED
    BY <2>1, <2>2, Zenon DEF EditorTyped, Symbol
<1>3. CASE ~EditLine /\ ~ReadLine
  <2>1. ed' = ed
    BY <1>3, EditorKept, Zenon
  <2>2. QED
    BY <2>1, Zenon DEF EditorTyped, Symbol
<1>4. QED
  BY <1>1, <1>2, <1>3

\* What is written at the start and before a prompt.
LEMMA SaysType ==
  /\ <<>> \in Seq(Symbol) /\ <<"CR", "LF">> \in Seq(Symbol) /\ <<"prompt">> \in Seq(Symbol)
  /\ <<"?", "prompt">> \in Seq(Symbol) /\ <<"!", "CR", "LF", "prompt">> \in Seq(Symbol)
  /\ <<"prompt", "CR", "LF", "notice", "CR", "LF">> \in Seq(Symbol)
  /\ <<"CR", "LF", "notice", "CR", "LF", "prompt">> \in Seq(Symbol)
<1>1. {"CR", "LF", "prompt", "?", "!", "notice"} \subseteq Symbol
  BY DEF Symbol
<1>2. <<>> \in Seq(Symbol) /\ <<"CR", "LF">> \in Seq(Symbol) /\ <<"prompt">> \in Seq(Symbol)
  BY <1>1
<1>3. <<"?", "prompt">> \in Seq(Symbol) /\ <<"!", "CR", "LF", "prompt">> \in Seq(Symbol)
  BY <1>1
<1>4. <<"prompt", "CR", "LF", "notice", "CR", "LF">> \in Seq(Symbol)
  BY <1>1
<1>5. <<"CR", "LF", "notice", "CR", "LF", "prompt">> \in Seq(Symbol)
  BY <1>1
<1>6. QED
  BY <1>2, <1>3, <1>4, <1>5, Zenon

LEMMA JoinTwo ==
  ASSUME NEW a, NEW b
  PROVE  <<a>> \o <<b>> = <<a, b>>
<1>1. PICK x \in Seq({a, b}), y \in Seq({a, b}), z \in Seq({a, b}) :
        x = <<a>> /\ y = <<b>> /\ z = <<a, b>>
  <2>1. <<a>> \in Seq({a, b}) /\ <<b>> \in Seq({a, b}) /\ <<a, b>> \in Seq({a, b})
    OBVIOUS
  <2>2. QED
    BY <2>1, Zenon
<1>2. /\ Len(x) = 1 /\ Len(y) = 1 /\ Len(z) = 2
      /\ x[1] = a /\ y[1] = b /\ z[1] = a /\ z[2] = b
  BY <1>1
<1>3. /\ Len(z) = Len(x) + Len(y)
      /\ \A i \in 1 .. Len(x) : z[i] = x[i]
      /\ \A i \in 1 .. Len(y) : z[Len(x) + i] = y[i]
  BY <1>2
<1>4. z = x \o y
  BY <1>3, ConcatEqual
<1>5. QED
  BY <1>1, <1>4, Zenon

LEMMA JoinFour ==
  ASSUME NEW a, NEW b, NEW c, NEW d
  PROVE  <<a, b, c>> \o <<d>> = <<a, b, c, d>>
<1>1. PICK x \in Seq({a, b, c, d}), y \in Seq({a, b, c, d}), z \in Seq({a, b, c, d}) :
        x = <<a, b, c>> /\ y = <<d>> /\ z = <<a, b, c, d>>
  <2>1. /\ <<a, b, c>> \in Seq({a, b, c, d}) /\ <<d>> \in Seq({a, b, c, d})
        /\ <<a, b, c, d>> \in Seq({a, b, c, d})
    OBVIOUS
  <2>2. QED
    BY <2>1, Zenon
<1>2. /\ Len(x) = 3 /\ Len(y) = 1 /\ Len(z) = 4
      /\ x[1] = a /\ x[2] = b /\ x[3] = c /\ y[1] = d
      /\ z[1] = a /\ z[2] = b /\ z[3] = c /\ z[4] = d
  BY <1>1
<1>3. /\ Len(z) = Len(x) + Len(y)
      /\ \A i \in 1 .. Len(x) : z[i] = x[i]
      /\ \A i \in 1 .. Len(y) : z[Len(x) + i] = y[i]
  BY <1>2
<1>4. z = x \o y
  BY <1>3, ConcatEqual
<1>5. QED
  BY <1>1, <1>4, Zenon

\* A command answers with one of three.
LEMMA AnswersSay ==
  ASSUME RunNothing \/ ChangePwd \/ SpawnFails
  PROVE  /\ exited' = exited
         /\ \/ UNCHANGED outputVars /\ interp' = "dead"
            \/ Write(<<"prompt">>) \/ Write(<<"?", "prompt">>)
            \/ Write(<<"!", "CR", "LF", "prompt">>)
<1>1. <<>> \o <<"prompt">> = <<"prompt">> /\ <<"?">> \o <<"prompt">> = <<"?", "prompt">>
  <2>1. \A s \in Seq({"prompt"}) : <<>> \o s = s
    OBVIOUS
  <2>2. <<"prompt">> \in Seq({"prompt"})
    OBVIOUS
  <2>3. <<>> \o <<"prompt">> = <<"prompt">>
    BY <2>1, <2>2, Zenon
  <2>4. <<"?">> \o <<"prompt">> = <<"?", "prompt">>
    BY JoinTwo
  <2>5. QED
    BY <2>3, <2>4, Zenon
<1>2. <<"!", "CR", "LF">> \o <<"prompt">> = <<"!", "CR", "LF", "prompt">>
  BY JoinFour
<1>3. CASE RunNothing
  BY <1>1, <1>3, Zenon DEF RunNothing, Answers
<1>4. CASE ChangePwd
  BY <1>1, <1>4, Zenon DEF ChangePwd, Answers
<1>5. CASE SpawnFails
  BY <1>2, <1>5, Zenon DEF SpawnFails, Answers
<1>6. QED
  BY <1>3, <1>4, <1>5

LEMMA SymbolBytes ==
  ASSUME NEW s \in Seq(Bytes)
  PROVE  s \in Seq(Symbol)
<1>1. Bytes \subseteq Symbol
  BY DEF Symbol
<1>2. QED
  BY <1>1, LongerSeq

\* A client that waits for an answer drops no output.
LEMMA AnswerCarries ==
  ASSUME Handshake, ReceiveAnswer
  PROVE  Carries(Head(to_client)) = <<>>
<1>1. client \in {"authenticating", "starting"} /\ to_client # <<>>
  BY Zenon DEF ReceiveAnswer
<1>2. Head(to_client).type # "Stdout"
  <2>1. CASE client = "authenticating"
    <3>1. PICK a \in {"KeyAccepted", "KeyRejected"} : to_client = <<[type |-> a]>>
      BY <1>1, <2>1, Zenon DEF Handshake
    <3>2. QED
      BY <3>1
  <2>2. CASE client = "starting"
    <3>1. Head(to_client).type = "ShellStarted"
      BY <1>1, <2>2, Zenon DEF Handshake
    <3>2. QED
      BY <3>1
  <2>3. QED
    BY <1>1, <2>1, <2>2
<1>3. QED
  BY <1>2, Zenon DEF Carries

LEMMA TellsType ==
  /\ [type |-> "KeyAccepted"] \in ToldMessage /\ [type |-> "KeyRejected"] \in ToldMessage
  /\ [type |-> "ShellStarted"] \in ToldMessage
  /\ [type |-> "Exited", code |-> "success"] \in ToldMessage
BY DEF ToldMessage

LEMMA FallbackOutputStep ==
  ASSUME ReadSize \in Nat, Handshake, InputIn(Bytes), EditorTyped, PipesIn, OutputIn,
         [FallbackNext]_allVars
  PROVE  OutputIn'
<1>i. exited \in {None, "success"} /\ shown \in Seq(Symbol)
  BY Zenon DEF OutputIn, Flowing
<1>n. shown \o <<>> = shown
  BY <1>i
<1>1. ASSUME to_client' = to_client, shown' = shown, UNCHANGED outputVars,
             exited' \in {None, "success"}
      PROVE  OutputIn'
  BY <1>1, OutputKept, Zenon DEF outputVars
<1>2. ASSUME to_client' = to_client, shown' = shown, exited' = exited,
             NEW b \in Seq(Symbol), Write(b)
      PROVE  OutputIn'
  BY <1>2, WrittenKeeps, Zenon
<1>3. ASSUME NEW m \in ToldMessage, m.type # "Stdout", to_client' = Append(to_client, m),
             shown' = shown, UNCHANGED outputVars, exited' = exited
      PROVE  OutputIn'
  BY <1>3, ToldKeeps, Zenon DEF outputVars
<1>4. CASE TypeScript \/ ClientGoesAway
  <2>1. /\ to_client' = to_client /\ shown' = shown
        /\ UNCHANGED outputVars /\ exited' = exited
    BY <1>4, FallbackKept
    DEF TypeScript, ClientGoesAway, ClientLeaves, LeavesWriting, ReadStdin, ClientFails,
       ClientGoes, streamVars, outputVars
  <2>2. QED
    BY <1>1, <1>i, <2>1
<1>5. CASE ClientRuns
  <2>0. out_stream' = out_stream /\ written' = written /\ exited' = exited
    BY <1>5, FallbackKept, Zenon DEF ClientRuns
  <2>1. CASE SendKey
    <3>1. to_client' = to_client /\ shown' = shown
      BY <2>1, Zenon DEF SendKey, ClientGoes
    <3>2. QED
      BY <1>1, <1>i, <2>0, <3>1, Zenon DEF outputVars
  <2>2. CASE ReceiveAnswer
    <3>1. to_client # <<>> /\ to_client' = Tail(to_client) /\ shown' = shown
      BY <2>2, Zenon DEF ReceiveAnswer, ClientGoes
    <3>2. shown' = shown \o Carries(Head(to_client))
      BY <1>n, <2>2, <3>1, AnswerCarries, Zenon
    <3>3. QED
      BY <2>0, <3>1, <3>2, ShownKeeps, Zenon
  <2>3. CASE ReceiveOutput
    <3>1. /\ to_client # <<>> /\ to_client' = Tail(to_client)
          /\ \/ /\ Head(to_client).type = "Stdout"
                /\ shown' = shown \o Head(to_client).payload
             \/ Head(to_client).type = "Exited" /\ shown' = shown
      BY <2>3, Zenon DEF ReceiveOutput
    <3>2. shown' = shown \o Carries(Head(to_client))
      <4>1. CASE Head(to_client).type = "Stdout"
        <5>1. Head(to_client).type # "Exited"
          BY <4>1
        <5>2. QED
          BY <3>1, <4>1, <5>1, Zenon DEF Carries
      <4>2. CASE Head(to_client).type # "Stdout"
        BY <1>n, <3>1, <4>2, Zenon DEF Carries
      <4>3. QED
        BY <4>1, <4>2
    <3>3. QED
      BY <2>0, <3>1, <3>2, ShownKeeps, Zenon
  <2>4. QED
    BY <1>5, <2>1, <2>2, <2>3, Zenon DEF ClientRuns
<1>6. CASE ServerRuns
  <2>0. UNCHANGED outputVars /\ exited' = exited /\ shown' = shown
    BY <1>6, FallbackKept, Zenon
    DEF ServerRuns, ReceiveKey, NoRequest, Linger, clientVars, outputVars
  <2>1. \/ to_client' = to_client
        \/ to_client' = Append(to_client, [type |-> "KeyAccepted"])
        \/ to_client' = Append(to_client, [type |-> "KeyRejected"])
    BY <1>6, Zenon DEF ServerRuns, ReceiveKey, NoRequest, Linger, ToClient, streamVars
  <2>2. [type |-> "KeyAccepted"].type # "Stdout" /\ [type |-> "KeyRejected"].type # "Stdout"
    OBVIOUS
  <2>3. QED
    BY <1>1, <1>3, <1>i, <2>0, <2>1, <2>2, TellsType, Zenon
<1>7. CASE StartFallback
  <2>1. /\ to_client' = Append(to_client, [type |-> "ShellStarted"]) /\ shown' = shown
        /\ exited' = exited
    BY <1>7, Zenon DEF StartFallback, ToClient, clientVars
  <2>2. PICK b \in Seq(Symbol) : Write(b)
    BY <1>7, SaysType, Zenon DEF StartFallback
  <2>3. PICK m \in ToldMessage : m = [type |-> "ShellStarted"] /\ m.type # "Stdout"
    <3>1. [type |-> "ShellStarted"].type # "Stdout"
      OBVIOUS
    <3>2. QED
      BY <3>1, TellsType, Zenon
  <2>4. Flowing(shown, Append(to_client, m), out_stream.chan, out_stream.last, written)
    BY <2>3, FlowTells, Zenon DEF OutputIn
  <2>5. /\ out_stream' \in [chan : Seq(Symbol), last : Symbol \cup {None}]
        /\ Flowing(shown, Append(to_client, m), out_stream'.chan, out_stream'.last, written')
    BY <2>2, <2>4, WriteIs, Zenon
  <2>6. QED
    BY <1>i, <2>1, <2>3, <2>5, Zenon DEF OutputIn, Flowing
<1>8. CASE StartRead \/ WriteInput
  <2>1. to_client' = to_client /\ shown' = shown
    <3>1. CASE StartRead
      BY <3>1, SessionKept, Zenon DEF StartRead
    <3>2. CASE WriteInput
      BY <3>2, Zenon DEF WriteInput, clientVars
    <3>3. QED
      BY <1>8, <3>1, <3>2
  <2>2. UNCHANGED outputVars /\ exited' = exited
    BY <1>8, Zenon DEF StartRead, WriteInput
  <2>3. QED
    BY <1>1, <1>i, <2>1, <2>2
<1>9. CASE ReadOutput
  BY <1>9, SentKeeps
<1>10. CASE ReadExit
  <2>1. /\ to_client' = Append(to_client, [type |-> "Exited", code |-> exited])
        /\ exited # None /\ shown' = shown /\ UNCHANGED outputVars /\ exited' = exited
    BY <1>10, FallbackKept, Zenon DEF ReadExit, ToClient, clientVars, outputVars
  <2>2. exited = "success"
    BY <1>i, <2>1
  <2>3. [type |-> "Exited", code |-> "success"].type # "Stdout"
    OBVIOUS
  <2>4. QED
    BY <1>3, <2>1, <2>2, <2>3, TellsType, Zenon
<1>11. CASE ClientGone \/ DropFallback
  <2>1. /\ to_client' = to_client /\ shown' = shown
        /\ UNCHANGED outputVars /\ exited' = exited
    BY <1>11, FallbackKept, Zenon
    DEF ClientGone, DropFallback, clientVars, streamVars, outputVars
  <2>2. QED
    BY <1>1, <1>i, <2>1
<1>12. CASE Prompting \/ Streaming \/ Process
  <2>0. to_client' = to_client /\ shown' = shown
    BY <1>12, InterpreterKeeps, SessionKept, Zenon
  <2>1. CASE EditLine
    <3>1. PICK out \in Seq(Symbol) : Write(out)
      BY <2>1, EditLineIs, Zenon
    <3>2. exited' = exited
      BY <2>1, Zenon DEF EditLine
    <3>3. QED
      BY <1>2, <2>0, <3>1, <3>2, Zenon
  <2>2. CASE ReadLine
    <3>1. NewLine(ed).out = <<"CR", "LF">>
      BY NewLineIn, Zenon DEF EditorTyped
    <3>2. Write(<<"CR", "LF">>) /\ exited' = exited
      BY <2>2, <3>1, Zenon DEF ReadLine
    <3>3. QED
      BY <1>2, <2>0, <3>2, SaysType, Zenon
  <2>3. CASE RunNothing \/ ChangePwd \/ SpawnFails
    <3>1. /\ exited' = exited
          /\ \/ UNCHANGED outputVars
             \/ Write(<<"prompt">>) \/ Write(<<"?", "prompt">>)
             \/ Write(<<"!", "CR", "LF", "prompt">>)
      BY <2>3, AnswersSay, Zenon
    <3>2. QED
      BY <1>1, <1>2, <1>i, <2>0, <3>1, SaysType, Zenon
  <2>4. CASE RunBlank \/ Exit \/ Spawn
    <3>1. UNCHANGED outputVars /\ (exited' = exited \/ exited' = "success")
      BY <2>4, Zenon DEF RunBlank, Exit, Spawn
    <3>2. exited' \in {None, "success"}
      BY <1>i, <3>1
    <3>3. QED
      BY <1>1, <2>0, <3>1, <3>2
  <2>5. CASE StreamToken \/ Feed \/ FeedFails \/ StdoutEnds \/ Process
    <3>1. UNCHANGED outputVars /\ exited' = exited
      BY <2>5, Zenon DEF StreamToken, Feed, FeedFails, StdoutEnds, Process
    <3>2. QED
      BY <1>1, <1>i, <2>0, <3>1
  <2>6. CASE StreamStdout
    <3>1. Write(out_pipe) /\ exited' = exited /\ out_pipe \in Seq(Symbol)
      BY <2>6, SymbolBytes DEF StreamStdout, PipesIn
    <3>2. QED
      BY <1>2, <2>0, <3>1, Zenon
  <2>7. CASE StreamStderr
    <3>1. Write(err_pipe) /\ exited' = exited /\ err_pipe \in Seq(Symbol)
      BY <2>7, SymbolBytes DEF StreamStderr, PipesIn
    <3>2. QED
      BY <1>2, <2>0, <3>1, Zenon
  <2>8. CASE Reap
    <3>1. Write(<<"prompt">>) /\ exited' = exited
      BY <2>8, Zenon DEF Reap
    <3>2. QED
      BY <1>2, <2>0, <3>1, SaysType, Zenon
  <2>9. QED
    BY <1>12, <2>1, <2>2, <2>3, <2>4, <2>5, <2>6, <2>7, <2>8, Zenon
    DEF Prompting, Streaming
<1>13. CASE UNCHANGED allVars
  <2>1. /\ to_client' = to_client /\ shown' = shown
        /\ UNCHANGED outputVars /\ exited' = exited
    BY <1>13, FallbackKept, Zenon DEF allVars, vars, clientVars, streamVars, outputVars
  <2>2. QED
    BY <1>1, <1>i, <2>1
<1>14. QED
  BY <1>4, <1>5, <1>6, <1>7, <1>8, <1>9, <1>10, <1>11, <1>12, <1>13, Zenon
  DEF FallbackNext, FallbackServer

-----------------------------------------------------------------------------
(* What the client's terminal shows.                                       *)

Screen == Shows(BlankScreen, Converted(None, written))
\* Every byte that the interpreter has taken takes one column.
OneColumn == ToSet(handled) \cap NotOneColumn = {}
\* Where no line is being edited.
Resting == {"none", "running", "streaming", "feeding", "waiting"}

DisplayIn ==
  /\ EditorOK(ed)
  /\ server \in BeforeShell => interp = "none"
  /\ interp \in Resting => ed.line = <<>> /\ ed.cursor = 0
  /\ interp = "reading" => Tidy(Screen, ed)

\* What is written before a line is edited.
Prompts ==
  {<<"prompt">>, <<"?", "prompt">>, <<"!", "CR", "LF", "prompt">>,
   <<"prompt", "CR", "LF", "notice", "CR", "LF">>,
   <<"CR", "LF", "notice", "CR", "LF", "prompt">>}

LEMMA EndsBlank ==
  ASSUME NEW s, NEW b \in Seq(Symbol), NEW n \in Nat, n = Len(b), 1 <= n,
         b[n] \in {"prompt", "LF"}
  PROVE  Shows(s, b) = BlankScreen
<1>1. PICK k \in Nat : n = k + 1
  <2>1. n - 1 \in Nat /\ n = (n - 1) + 1
    OBVIOUS
  <2>2. QED
    BY <2>1, Zenon
<1>2. PICK a \in Seq(Symbol) : a = SubSeq(b, 1, k) /\ Len(a) = k /\ \A i \in 1 .. k : a[i] = b[i]
  <2>1. /\ SubSeq(b, 1, k) \in Seq(Symbol) /\ Len(SubSeq(b, 1, k)) = k
        /\ \A i \in 1 .. k : SubSeq(b, 1, k)[i] = b[i]
    <3>1. /\ SubSeq(b, 1, k) \in Seq(Symbol) /\ Len(SubSeq(b, 1, k)) = k + 1 - 1
          /\ \A i \in 1 .. k + 1 - 1 : SubSeq(b, 1, k)[i] = b[1 + i - 1]
      <4>1. 1 <= 1 /\ 1 <= k + 1 /\ k <= Len(b) /\ 1 \in Nat
        BY <1>1
      <4>2. QED
        BY <4>1, SubSeqIs
    <3>2. k + 1 - 1 = k /\ \A i \in 1 .. k : 1 + i - 1 = i
      OBVIOUS
    <3>3. QED
      BY <3>1, <3>2
  <2>2. QED
    BY <2>1, Zenon
<1>3. PICK z \in {"prompt", "LF"} : z = b[n]
  OBVIOUS
<1>4. PICK o \in Seq(Symbol) : o = <<z>> /\ Len(o) = 1 /\ o[1] = z
  <2>1. z \in Symbol
    BY <1>3 DEF Symbol
  <2>2. <<z>> \in Seq(Symbol)
    BY <2>1, OneOf
  <2>3. Len(<<z>>) = 1 /\ <<z>>[1] = z
    OBVIOUS
  <2>4. QED
    BY <2>2, <2>3, Zenon
<1>5. Len(b) = Len(a) + Len(o)
  BY <1>1, <1>2, <1>4
<1>6. \A i \in 1 .. Len(a) : b[i] = a[i]
  BY <1>2, Zenon
<1>7. \A i \in 1 .. Len(o) : b[Len(a) + i] = o[i]
  <2>1. b[k + 1] = o[1]
    BY <1>1, <1>3, <1>4
  <2>2. \A i \in 1 .. 1 : i = 1
    OBVIOUS
  <2>3. QED
    BY <1>2, <1>4, <2>1, <2>2, Zenon
<1>8. b = a \o o
  BY <1>5, <1>6, <1>7, ConcatEqual
<1>9. Shows(s, a \o <<z>>) = BlankScreen
  BY ShowsPrompt
<1>10. QED
  BY <1>4, <1>8, <1>9, Zenon

LEMMA PromptsClear ==
  ASSUME NEW b \in Prompts
  PROVE  b \in Seq(Symbol) /\ Clean(b) /\ \A s : Shows(s, b) = BlankScreen
<1>1. b \in Seq(Symbol)
  BY SaysType, Zenon DEF Prompts
<1>2. PICK n \in Nat : n = Len(b) /\ 1 <= n /\ b[n] \in {"prompt", "LF"}
  <2>1. Len(b) \in Nat /\ 1 <= Len(b) /\ b[Len(b)] \in {"prompt", "LF"}
    <3>1. CASE b = <<"prompt">> \/ b = <<"?", "prompt">>
      BY <3>1
    <3>2. CASE b = <<"!", "CR", "LF", "prompt">>
      BY <3>2
    <3>3. CASE b = <<"prompt", "CR", "LF", "notice", "CR", "LF">>
      BY <3>3
    <3>4. CASE b = <<"CR", "LF", "notice", "CR", "LF", "prompt">>
      BY <3>4
    <3>5. QED
      BY <3>1, <3>2, <3>3, <3>4, Zenon DEF Prompts
  <2>2. QED
    BY <2>1, Zenon
<1>3. \A i \in 1 .. Len(b) : b[i] = "LF" => i # 1 /\ b[i - 1] = "CR"
  BY DEF Prompts
<1>4. Clean(b)
  BY <1>1, <1>3, Zenon DEF Clean
<1>5. ASSUME NEW s PROVE Shows(s, b) = BlankScreen
  BY <1>1, <1>2, EndsBlank
<1>6. QED
  BY <1>1, <1>4, <1>5, Zenon

\* What is written clean is drawn as it is.
LEMMA ScreenAfter ==
  ASSUME OutputIn, NEW b, Clean(b), Write(b)
  PROVE  Screen' = Shows(Screen, b)
<1>1. /\ written \in Seq(Symbol) /\ out_stream.last = LastOf(None, written)
  BY Zenon DEF OutputIn, Flowing
<1>2. b \in Seq(Symbol) /\ \A i \in 1 .. Len(b) : b[i] = "LF" => i # 1 /\ b[i - 1] = "CR"
  BY Zenon DEF Clean
<1>3. CASE b = <<>>
  <2>1. written' = written
    BY <1>3, Zenon DEF Write, outputVars
  <2>2. Shows(Screen, <<>>) = Screen
    BY ShowsNone
  <2>3. Screen' = Screen
    BY <2>1, Zenon DEF Screen
  <2>4. QED
    BY <1>3, <2>2, <2>3, Zenon
<1>4. CASE b # <<>>
  <2>1. written' = written \o b
    BY <1>4, Zenon DEF Write
  <2>2. PICK x \in Seq(Symbol) : x = Converted(None, written)
    BY <1>1, ConvertedType
  <2>3. Converted(None, written \o b) = Converted(None, written) \o Converted(LastOf(None, written), b)
    BY <1>1, <1>2, ConvertedConcat
  <2>4. Converted(LastOf(None, written), b) = b
    BY <1>2, ConvertedPlain
  <2>5. Shows(BlankScreen, x \o b) = Shows(Shows(BlankScreen, x), b)
    BY <1>2, ShowsConcat
  <2>6. Screen' = Shows(BlankScreen, Converted(None, written'))
    BY Zenon DEF Screen
  <2>7. Screen' = Shows(BlankScreen, x \o b)
    BY <2>1, <2>2, <2>3, <2>4, <2>6, Zenon
  <2>8. Screen = Shows(BlankScreen, x)
    BY <2>2, Zenon DEF Screen
  <2>9. QED
    BY <2>5, <2>7, <2>8, Zenon
<1>5. QED
  BY <1>3, <1>4

LEMMA DisplayAgreed ==
  ASSUME OneColumn => DisplayIn
  PROVE  DisplayAgrees
<1>1. CASE interp = "reading" /\ OneColumn
  <2>1. Tidy(Screen, ed) /\ EditorOK(ed)
    BY <1>1, Zenon DEF DisplayIn
  <2>2. Agree(Screen, ed)
    BY <2>1, TidyAgrees, Zenon
  <2>3. QED
    BY <2>2, Zenon DEF DisplayAgrees, Screen
<1>2. CASE ~(interp = "reading" /\ OneColumn)
  BY <1>2, Zenon DEF DisplayAgrees, OneColumn
<1>3. QED
  BY <1>1, <1>2

\* EditorOK of the line that the step leaves.
LEMMA LinePrimed ==
  ASSUME EditorOK(ed')
  PROVE  EditorOK(ed)'
BY Zenon DEF EditorOK, Plain, Symbol, NotOneColumn

LEMMA DisplayKept ==
  ASSUME DisplayIn, ed' = ed, interp' = interp, written' = written,
         server' \in BeforeShell => server \in BeforeShell
  PROVE  DisplayIn'
<1>1. Screen' = Screen
  BY Zenon DEF Screen
<1>2. EditorOK(ed)'
  BY LinePrimed, Zenon DEF DisplayIn
<1>3. Tidy(Screen, ed) => Tidy(Screen', ed')
  BY <1>1, Zenon
<1>4. QED
  BY <1>1, <1>2, <1>3, Zenon DEF DisplayIn, BeforeShell, Resting, Tidy, IsScreen, Symbol

\* The interpreter goes on with no line to edit.
LEMMA DisplayRests ==
  ASSUME DisplayIn, ed' = ed, interp \in Resting \ {"none"}, server' = server,
         interp' \in (Resting \ {"none"}) \cup {"dead", "exited"}
  PROVE  DisplayIn'
<1>1. interp # "none" /\ interp' # "reading"
  BY DEF Resting
<1>2. EditorOK(ed)'
  BY LinePrimed, Zenon DEF DisplayIn
<1>3. ed.line = <<>> /\ ed.cursor = 0 /\ server \notin BeforeShell
  BY <1>1, Zenon DEF DisplayIn
<1>4. QED
  BY <1>1, <1>2, <1>3, Zenon DEF DisplayIn, BeforeShell

\* And with a new prompt.
LEMMA DisplayPrompts ==
  ASSUME DisplayIn, OutputIn, ed' = ed, interp \in Resting, interp' = "reading",
         server' \notin BeforeShell, NEW b \in Prompts, Write(b)
  PROVE  DisplayIn'
<1>1. Clean(b) /\ Shows(Screen, b) = BlankScreen
  BY PromptsClear
<1>2. Screen' = BlankScreen
  <2>1. Screen' = Shows(Screen, b)
    BY <1>1, ScreenAfter
  <2>2. QED
    BY <1>1, <2>1, Zenon
<1>3. ed.line = <<>> /\ ed.cursor = 0
  BY Zenon DEF DisplayIn
<1>4. Tidy(Screen', ed')
  <2>1. Tidy(BlankScreen, ed)
    BY <1>3, BlankTidy, Zenon
  <2>2. QED
    BY <1>2, <2>1, Zenon
<1>5. EditorOK(ed)'
  BY LinePrimed, Zenon DEF DisplayIn
<1>6. interp' \notin Resting
  BY DEF Resting
<1>7. QED
  BY <1>4, <1>5, <1>6, Zenon DEF DisplayIn, BeforeShell, Resting, Tidy, IsScreen, Symbol

LEMMA DisplayInit ==
  ASSUME FallbackInit
  PROVE  DisplayIn
<1>1. EditorIn(Plain, ed) /\ ed.line = <<>> /\ ed.cursor = 0
  BY EditorInit
<1>2. interp = "none"
  BY Zenon DEF FallbackInit
<1>3. interp # "reading"
  BY <1>2
<1>4. QED
  BY <1>1, <1>2, <1>3, Zenon DEF DisplayIn, EditorOK

\* A token whose bytes take one column each holds nothing but what is drawn.
LEMMA TokenDraws ==
  ASSUME FallbackAssumption, NEW t \in TokensOf(Bytes),
         t.key = "Bytes" => ToSet(t.bytes) \cap NotOneColumn = {}
  PROVE  TokenOK(t)
<1>1. /\ t.key \in KeyNames
      /\ t.key = "Bytes" => t.bytes \in Seq(Bytes \ {"CR"})
  BY DEF TokensOf
<1>2. (Bytes \ {"CR"}) \ NotOneColumn \subseteq Plain
  BY DEF FallbackAssumption, Plain, Symbol, NotOneColumn
<1>3. ASSUME t.key = "Bytes" PROVE t.bytes \in Seq(Plain)
  <2>1. PICK s \in Seq(Bytes \ {"CR"}) : s = t.bytes
    BY <1>1, <1>3
  <2>2. \A i \in 1 .. Len(s) : s[i] \in ToSet(s) /\ s[i] \in Bytes \ {"CR"}
    BY DEF ToSet
  <2>3. \A i \in 1 .. Len(s) : s[i] \in Plain
    BY <1>2, <1>3, <2>1, <2>2
  <2>4. s \in Seq(Plain)
    <3> HIDE DEF Plain
    <3>1. s \in [1 .. Len(s) -> Plain] /\ Len(s) \in Nat
      BY <2>3
    <3>2. QED
      BY <3>1
  <2>5. QED
    BY <2>1, <2>4
<1>4. QED
  BY <1>1, <1>3, Zenon DEF TokenOK, KeyNames

\* The keys that are taken are only added to.
LEMMA HandledGrows ==
  ASSUME InputIn(Bytes), [FallbackNext]_allVars
  PROVE  \/ handled' = handled
         \/ \E k \in Seq(KeySym(Bytes)) : handled' = handled \o k
<1>1. CASE EditLine \/ ReadLine \/ StreamToken
  <2>1. PICK t \in NextToken : Take(t)
    BY <1>1, Zenon DEF EditLine, ReadLine, StreamToken
  <2>2. t \in TokensOf(Bytes)
    BY <2>1, TakeKeeps, Zenon
  <2>3. Keys1(<<t>>) \in Seq(KeySym(Bytes))
    BY <2>2, OneOf, Keys1Pressed
  <2>4. QED
    BY <2>1, <2>3, Zenon DEF Take
<1>2. CASE TypeScript \/ ClientGoesAway \/ ClientRuns \/ ServerRuns \/ ReadExit
           \/ ClientGone \/ DropFallback
  <2>1. UNCHANGED fallbackVars
    BY <1>2, Zenon
    DEF TypeScript, ClientGoesAway, ClientLeaves, ClientRuns, ServerRuns, ReadExit,
        ClientGone, DropFallback
  <2>2. QED
    BY <2>1, FallbackKept, Zenon
<1>3. CASE StartFallback \/ StartRead \/ ReadOutput \/ WriteInput
  BY <1>3 DEF StartFallback, StartRead, ReadOutput, WriteInput, interpVars
<1>4. CASE RunNothing \/ RunBlank \/ Exit \/ ChangePwd \/ SpawnFails \/ Spawn
  <2>1. Runs
    BY <1>4, Zenon DEF RunNothing, RunBlank, Exit, ChangePwd, SpawnFails, Spawn
  <2>2. QED
    BY <2>1 DEF Runs
<1>5. CASE Feed \/ FeedFails \/ StdoutEnds \/ Reap
  BY <1>5 DEF Feed, FeedFails, StdoutEnds, Reap
<1>6. CASE StreamStdout \/ StreamStderr \/ Process
  BY <1>6 DEF StreamStdout, StreamStderr, Process, interpVars
<1>7. CASE UNCHANGED allVars
  <2>1. UNCHANGED fallbackVars
    BY <1>7 DEF allVars
  <2>2. QED
    BY <2>1, FallbackKept, Zenon
<1>8. QED
  BY <1>1, <1>2, <1>3, <1>4, <1>5, <1>6, <1>7, Zenon
  DEF FallbackNext, FallbackServer, Prompting, Streaming

LEMMA ToSetGrows ==
  ASSUME NEW S, NEW a \in Seq(S), NEW b \in Seq(S)
  PROVE  ToSet(a) \subseteq ToSet(a \o b) /\ ToSet(b) \subseteq ToSet(a \o b)
<1> DEFINE c == a \o b
<1>1. /\ Len(a) \in Nat /\ Len(b) \in Nat /\ c \in Seq(S) /\ Len(c) = Len(a) + Len(b)
      /\ \A i \in 1 .. Len(a) : c[i] = a[i]
      /\ \A i \in 1 .. Len(b) : c[Len(a) + i] = b[i]
  BY ConcatIs
<1>2. DOMAIN a = 1 .. Len(a) /\ DOMAIN b = 1 .. Len(b) /\ DOMAIN c = 1 .. Len(c)
  BY <1>1
<1> HIDE DEF c
<1>3. PICK m \in Nat, n \in Nat : m = Len(a) /\ n = Len(b)
  BY <1>1
<1>4. /\ \A i \in 1 .. m : i \in 1 .. m + n
      /\ \A i \in 1 .. n : m + i \in 1 .. m + n
  BY <1>3
<1>5. /\ \A i \in DOMAIN a : i \in DOMAIN c /\ c[i] = a[i]
      /\ \A i \in DOMAIN b : m + i \in DOMAIN c /\ c[m + i] = b[i]
  BY <1>1, <1>2, <1>3, <1>4, Zenon
<1>6. ToSet(a) \subseteq ToSet(c) /\ ToSet(b) \subseteq ToSet(c)
  BY <1>5, Zenon DEF ToSet
<1>7. QED
  BY <1>6 DEF c

LEMMA ColumnsBack ==
  ASSUME InputIn(Bytes), [FallbackNext]_allVars, OneColumn'
  PROVE  OneColumn
<1>1. ToSet(handled) \subseteq ToSet(handled')
  <2>1. handled \in Seq(KeySym(Bytes))
    BY Zenon DEF InputIn
  <2>2. QED
    BY <2>1, HandledGrows, ToSetGrows, Zenon
<1>2. ToSet(handled') \cap NotOneColumn = {}
  BY Zenon DEF OneColumn, NotOneColumn, ToSet
<1>3. QED
  BY <1>1, <1>2 DEF OneColumn

\* The token that is taken is among the keys.
LEMMA TokenColumns ==
  ASSUME NEW t \in TokensOf(Bytes), InputIn(Bytes), Take(t), OneColumn', t.key = "Bytes"
  PROVE  ToSet(t.bytes) \cap NotOneColumn = {}
<1>1. Keys1(<<t>>) = t.bytes
  BY KeysOne, Zenon DEF KeysOf
<1>2. t.bytes \in Seq(KeySym(Bytes)) /\ handled \in Seq(KeySym(Bytes))
  <2>1. KeysOf(t) \in Seq(KeySym(Bytes))
    BY TokenIs
  <2>2. QED
    BY <2>1, Zenon DEF KeysOf, InputIn
<1>3. ToSet(t.bytes) \subseteq ToSet(handled')
  BY <1>1, <1>2, ToSetGrows, Zenon DEF Take
<1>4. ToSet(handled') \cap NotOneColumn = {}
  BY Zenon DEF OneColumn, NotOneColumn, ToSet
<1>5. QED
  BY <1>3, <1>4

LEMMA EditShows ==
  ASSUME FallbackAssumption, InputIn(Bytes), OutputIn, DisplayIn, EditLine, OneColumn'
  PROVE  DisplayIn'
<1>1. PICK t \in NextToken :
        /\ t.key # "Enter" /\ Take(t)
        /\ \E edit \in {EditOf(ed, t)} : ed' = edit.ed /\ Write(edit.out)
  BY Zenon DEF EditLine
<1>2. TokenOK(t)
  <2>1. t \in TokensOf(Bytes)
    BY <1>1, TakeKeeps, Zenon
  <2>2. t.key = "Bytes" => ToSet(t.bytes) \cap NotOneColumn = {}
    BY <1>1, <2>1, TokenColumns, Zenon
  <2>3. QED
    BY <2>1, <2>2, TokenDraws, Zenon
<1>3. EditorOK(ed) /\ Tidy(Screen, ed)
  BY Zenon DEF DisplayIn, EditLine
<1>4. EditGood(Screen, EditOf(ed, t))
  BY <1>1, <1>2, <1>3, EditTidy, Zenon
<1>5. PICK out : out = EditOf(ed, t).out
  OBVIOUS
<1>6. /\ EditorOK(ed') /\ Clean(out) /\ Tidy(Shows(Screen, out), ed') /\ Write(out)
  BY <1>1, <1>4, <1>5, Zenon DEF EditGood
<1>7. Screen' = Shows(Screen, out)
  BY <1>6, ScreenAfter
<1>8. Tidy(Screen', ed')
  BY <1>6, <1>7, Zenon
<1>9. EditorOK(ed)'
  BY <1>6, LinePrimed
<1>10. /\ interp = "reading" /\ interp' = "reading" /\ server' = server
  <2>1. UNCHANGED sessionVars /\ interp = "reading" /\ interp' = interp
    BY Zenon DEF EditLine
  <2>2. QED
    BY <2>1, SessionKept
<1>11. server \notin BeforeShell /\ interp' \notin Resting
  <2>1. interp # "none" /\ interp' \notin Resting
    BY <1>10 DEF Resting
  <2>2. QED
    BY <2>1, Zenon DEF DisplayIn
<1>12. QED
  BY <1>8, <1>9, <1>10, <1>11, Zenon
  DEF DisplayIn, BeforeShell, Resting, Tidy, IsScreen, Symbol

LEMMA DisplayStep ==
  ASSUME FallbackAssumption, InputIn(Bytes), OutputIn, DisplayIn, [FallbackNext]_allVars,
         OneColumn'
  PROVE  DisplayIn'
<1>a. ASSUME UNCHANGED fallbackVars, server' \in BeforeShell => server \in BeforeShell
      PROVE  DisplayIn'
  BY <1>a, FallbackKept, DisplayKept, Zenon
<1>1. CASE TypeScript \/ ClientGoesAway \/ ClientRuns
  <2>1. UNCHANGED fallbackVars
    BY <1>1, Zenon DEF TypeScript, ClientGoesAway, ClientLeaves, ClientRuns
  <2>2. server' = server
    BY <1>1, Zenon
    DEF TypeScript, ClientGoesAway, ClientLeaves, LeavesWriting, ClientRuns, ReadStdin,
       ClientFails, SendKey, ReceiveAnswer, ReceiveOutput, serverVars
  <2>3. QED
    BY <1>a, <2>1, <2>2, Zenon
<1>2. CASE ServerRuns
  <2>1. UNCHANGED fallbackVars
    BY <1>2, Zenon DEF ServerRuns
  <2>2. server' \in BeforeShell => server \in BeforeShell
    BY <1>2, Zenon
    DEF ServerRuns, ReceiveKey, NoRequest, Linger, ServerGoes, BeforeShell
  <2>3. QED
    BY <1>a, <2>1, <2>2
<1>3. CASE StartFallback
  <2>1. /\ server = "waiting_for_request" /\ server' = "streaming" /\ interp' = "reading"
        /\ ed' = ed
    BY <1>3, Zenon DEF StartFallback
  <2>2. PICK b \in Prompts : Write(b)
    BY <1>3, Zenon DEF StartFallback, Prompts
  <2>3. interp \in Resting
    <3>1. interp = "none"
      BY <2>1 DEF DisplayIn, BeforeShell
    <3>2. QED
      BY <3>1 DEF Resting
  <2>4. server' \notin BeforeShell
    BY <2>1 DEF BeforeShell
  <2>5. QED
    BY <2>1, <2>2, <2>3, <2>4, DisplayPrompts, Zenon
<1>4. CASE ReadExit \/ ClientGone \/ DropFallback
  <2>1. UNCHANGED fallbackVars
    BY <1>4, Zenon DEF ReadExit, ClientGone, DropFallback
  <2>2. server' \notin BeforeShell
    BY <1>4 DEF ReadExit, ClientGone, DropFallback, BeforeShell
  <2>3. QED
    BY <1>a, <2>1, <2>2
<1>5. CASE StartRead \/ ReadOutput \/ WriteInput
  <2>1. ed' = ed /\ interp' = interp /\ written' = written
    BY <1>5, Zenon DEF StartRead, ReadOutput, WriteInput, interpVars, outputVars
  <2>2. server' \in BeforeShell => server \in BeforeShell
    <3>1. CASE StartRead \/ ReadOutput
      BY <3>1, SessionKept, Zenon DEF StartRead, ReadOutput
    <3>2. CASE WriteInput
      BY <3>2 DEF WriteInput, BeforeShell
    <3>3. QED
      BY <1>5, <3>1, <3>2
  <2>3. QED
    BY <2>1, <2>2, DisplayKept, Zenon
<1>6. CASE Prompting \/ Streaming \/ Process
  <2>s. server' = server
    BY <1>6, InterpreterKeeps, SessionKept, Zenon
  <2>1. CASE EditLine
    BY <2>1, EditShows
  <2>2. CASE ReadLine
    <3>1. CASE ed' = NewLine(ed).ed /\ interp' = "running"
      <4>1. EditorIn(Plain, ed') /\ ed'.line = <<>> /\ ed'.cursor = 0
        <5>1. EditorIn(Plain, ed)
          BY Zenon DEF DisplayIn, EditorOK
        <5>2. QED
          BY <3>1, <5>1, NewLineIn, Zenon
      <4>2. EditorOK(ed)'
        BY <4>1, LinePrimed, Zenon DEF EditorOK
      <4>3. interp' # "reading" /\ server' \notin BeforeShell
        <5>1. interp = "reading"
          BY <2>2, Zenon DEF ReadLine
        <5>2. interp # "none"
          BY <5>1
        <5>3. server \notin BeforeShell
          BY <5>2, Zenon DEF DisplayIn
        <5>4. interp' # "reading"
          BY <3>1
        <5>5. QED
          BY <2>s, <5>3, <5>4, Zenon
      <4>4. QED
        BY <4>1, <4>2, <4>3, Zenon DEF DisplayIn, BeforeShell
    <3>2. CASE ed' = ed /\ interp' = "dead"
      <4>1. EditorOK(ed)'
        BY <3>2, LinePrimed, Zenon DEF DisplayIn
      <4>2. interp' # "reading" /\ interp' \notin Resting
        BY <3>2 DEF Resting
      <4>3. server' \notin BeforeShell
        <5>1. interp = "reading"
          BY <2>2, Zenon DEF ReadLine
        <5>2. interp # "none"
          BY <5>1
        <5>3. QED
          BY <2>s, <5>2, Zenon DEF DisplayIn
      <4>4. QED
        BY <4>1, <4>2, <4>3, Zenon DEF DisplayIn, BeforeShell, Resting
    <3>3. QED
      BY <2>2, <3>1, <3>2, Zenon DEF ReadLine
  <2>r. ASSUME Runs PROVE interp = "running" /\ interp \in Resting \ {"none"} /\ ed' = ed
    BY <2>r DEF Runs, Resting
  <2>o. ASSUME interp \in Resting \ {"none"} PROVE server' \notin BeforeShell
    <3>1. interp # "none"
      BY <2>o
    <3>2. QED
      BY <2>s, <3>1, Zenon DEF DisplayIn
  <2>3. CASE RunNothing \/ ChangePwd \/ SpawnFails
    <3>1. interp \in Resting \ {"none"} /\ ed' = ed
      BY <2>3, <2>r, Zenon DEF RunNothing, ChangePwd, SpawnFails
    <3>2. interp' = "dead" \/ (interp' = "reading" /\ \E b \in Prompts : Write(b))
      <4>1. interp' = "dead" \/ interp' = "reading"
        BY <2>3, Zenon DEF RunNothing, ChangePwd, SpawnFails, Answers
      <4>2. \/ UNCHANGED outputVars /\ interp' = "dead"
            \/ Write(<<"prompt">>) \/ Write(<<"?", "prompt">>)
            \/ Write(<<"!", "CR", "LF", "prompt">>)
        BY <2>3, AnswersSay, Zenon
      <4>3. QED
        BY <4>1, <4>2, Zenon DEF Prompts
    <3>3. CASE interp' = "dead"
      BY <2>s, <3>1, <3>3, DisplayRests
    <3>4. CASE interp' = "reading" /\ \E b \in Prompts : Write(b)
      BY <2>o, <3>1, <3>4, DisplayPrompts
    <3>5. QED
      BY <3>2, <3>3, <3>4
  <2>4. CASE RunBlank \/ Exit \/ Spawn
    <3>1. interp \in Resting \ {"none"} /\ ed' = ed
      BY <2>4, <2>r, Zenon DEF RunBlank, Exit, Spawn
    <3>2. interp' \in (Resting \ {"none"}) \cup {"dead", "exited"}
      BY <2>4 DEF RunBlank, Exit, Spawn, Resting
    <3>3. QED
      BY <2>s, <3>1, <3>2, DisplayRests, Zenon
  <2>5. CASE StreamToken \/ Feed \/ FeedFails \/ StdoutEnds
    <3>1. /\ interp \in {"streaming", "feeding"} /\ ed' = ed
          /\ interp' \in {"streaming", "feeding", "dead", "waiting"}
      BY <2>5 DEF StreamToken, Feed, FeedFails, StdoutEnds
    <3>2. /\ interp \in Resting \ {"none"}
          /\ interp' \in (Resting \ {"none"}) \cup {"dead", "exited"}
      BY <3>1 DEF Resting
    <3>3. QED
      BY <2>s, <3>1, <3>2, DisplayRests, Zenon
  <2>6. CASE StreamStdout \/ StreamStderr \/ Process
    <3>1. /\ interp \in {"streaming", "feeding", "waiting"} /\ ed' = ed /\ interp' = interp
      BY <2>6 DEF StreamStdout, StreamStderr, Process, interpVars
    <3>2. /\ interp \in Resting \ {"none"}
          /\ interp' \in (Resting \ {"none"}) \cup {"dead", "exited"}
      BY <3>1 DEF Resting
    <3>3. QED
      BY <2>s, <3>1, <3>2, DisplayRests, Zenon
  <2>7. CASE Reap
    <3>1. interp = "waiting" /\ interp' = "reading" /\ ed' = ed /\ Write(<<"prompt">>)
      BY <2>7, Zenon DEF Reap
    <3>2. interp \in Resting \ {"none"} /\ <<"prompt">> \in Prompts
      BY <3>1 DEF Resting, Prompts
    <3>3. QED
      BY <2>o, <3>1, <3>2, DisplayPrompts, Zenon
  <2>8. QED
    BY <1>6, <2>1, <2>2, <2>3, <2>4, <2>5, <2>6, <2>7, Zenon DEF Prompting, Streaming
<1>7. CASE UNCHANGED allVars
  <2>1. UNCHANGED fallbackVars /\ server' = server
    BY <1>7 DEF allVars, vars, serverVars
  <2>2. QED
    BY <1>a, <2>1, Zenon
<1>8. QED
  BY <1>1, <1>2, <1>3, <1>4, <1>5, <1>6, <1>7, Zenon DEF FallbackNext, FallbackServer

-----------------------------------------------------------------------------
(* The theorems about the fallback shell.                                  *)

FallbackInv ==
  ScriptIn(Bytes) /\ InputIn(Bytes) /\ Handshake /\ EditorTyped /\ PipesIn /\ OutputIn

LEMMA FallbackHolds == FallbackSpec => []FallbackInv
<1>1. FallbackInit => FallbackInv
  <2>1. SUFFICES ASSUME FallbackInit PROVE FallbackInv
    OBVIOUS
  <2>2. ScriptIn(Bytes) /\ InputIn(Bytes)
    BY <2>1, ScriptInit, InputInit
  <2>3. EditorTyped
    BY <2>1, EditorInit, Zenon DEF EditorTyped
  <2>4. Handshake /\ PipesIn /\ OutputIn
    BY <2>1, HandshakeInit, PipesInit, OutputInit
  <2>5. QED
    BY <2>2, <2>3, <2>4, Zenon DEF FallbackInv
<1>2. FallbackInv /\ [FallbackNext]_allVars => FallbackInv'
  <2>1. SUFFICES ASSUME FallbackInv, [FallbackNext]_allVars PROVE FallbackInv'
    OBVIOUS
  <2>2. ScriptIn(Bytes) /\ InputIn(Bytes) /\ Handshake /\ EditorTyped /\ PipesIn /\ OutputIn
    BY <2>1, Zenon DEF FallbackInv
  <2>3. to_client \in Seq(ToldMessage)
    BY <2>2, Zenon DEF OutputIn, Flowing
  <2>4. Scripts \subseteq Seq(Seq(Bytes))
    BY FallbackAssumption DEF FallbackAssumption
  <2>5. ScriptIn(Bytes)'
    BY <2>1, <2>2, <2>4, ScriptStep
  <2>6. InputIn(Bytes)'
    BY <2>1, <2>2, FallbackInputStep
  <2>7. Handshake'
    BY <2>1, <2>2, <2>3, HandshakeStep
  <2>8. EditorTyped'
    BY <2>1, <2>2, EditorStep
  <2>9. PipesIn'
    BY <2>1, <2>2, FallbackAssumption, PipesStep
  <2>10. OutputIn'
    <3>1. ReadSize \in Nat
      BY ShellAssumption DEF ShellAssumption
    <3>2. QED
      BY <2>1, <2>2, <3>1, FallbackOutputStep
  <2>11. QED
    BY <2>5, <2>6, <2>7, <2>8, <2>9, <2>10, Zenon
    DEF FallbackInv, ScriptIn, InputIn, TypedMessage, BeforeShell
<1>3. QED
  BY <1>1, <1>2, PTL DEF FallbackSpec

\* However what is typed is cut into payloads, and whenever the interpreter
\* looks at it (InputStream::poll_next), it takes the keys the bytes make as a
\* whole, in their order.
THEOREM KeysStayWhole == FallbackSpec => []KeysAreWhole
<1>1. FallbackInv => KeysAreWhole
  BY Zenon DEF FallbackInv, InputIn
<1>2. QED
  BY <1>1, FallbackHolds, PTL

\* What the client displays, what is on its way and what waits in the channel
\* of the OutputStream are together what was written, with one carriage return
\* before each line feed, wherever writes and reads are cut.
THEOREM OutputStaysConverted == FallbackSpec => []OutputIsConverted
<1>1. FallbackInv => OutputIsConverted
  BY OutputIs, Zenon DEF FallbackInv
<1>2. QED
  BY <1>1, FallbackHolds, PTL

\* As long as every byte typed takes one column and no program has written an
\* escape sequence or control character, the terminal shows the line that is
\* edited and nothing after it, with the cursor where the editor has it, whenever
\* the interpreter is at its prompt and all that was written has been shown.
THEOREM DisplayAlwaysAgrees == FallbackSpec => []DisplayAgrees
<1> DEFINE Inv == OneColumn => DisplayIn
<1>1. FallbackInit => Inv
  BY DisplayInit, Zenon
<1>2. Inv /\ FallbackInv /\ [FallbackNext]_allVars => Inv'
  <2>1. SUFFICES ASSUME Inv, FallbackInv, [FallbackNext]_allVars, OneColumn'
                 PROVE  DisplayIn'
    OBVIOUS
  <2>2. InputIn(Bytes) /\ OutputIn
    BY <2>1, Zenon DEF FallbackInv
  <2>3. DisplayIn
    BY <2>1, <2>2, ColumnsBack, Zenon
  <2>4. QED
    BY <2>1, <2>2, <2>3, FallbackAssumption, DisplayStep
<1>3. Inv => DisplayAgrees
  BY DisplayAgreed, Zenon
<1>4. QED
  BY <1>1, <1>2, <1>3, FallbackHolds, PTL DEF FallbackSpec
=============================================================================
