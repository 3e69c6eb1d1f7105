--------------------------- MODULE RemotePtyStart ---------------------------
(***************************************************************************)
(* Starting the remote PTY shell (RemotePtyShell::new): a target downloads *)
(* a bash, saves it beside its own program or, if it cannot, in memory,    *)
(* binds a unix socket named after its process and runs the bash, and      *)
(* falls back to the built-in shell when one of these fails.  Targets of   *)
(* one directory share the file.  A target may be killed at any time, and  *)
(* in a container it comes back with the same process id.                  *)
(*                                                                         *)
(* External: the file system gives no file to execute that is open for     *)
(* writing and opens none for writing that is executed, and the last write *)
(* of an asynchronous file goes on after write_all returned: its error is  *)
(* lost with the file.                                                     *)
(***************************************************************************)
CONSTANT Targets

Chunks == {"head", "tail"}

VARIABLES
  start,      \* how far each target is
  body,       \* what it downloaded
  saved,      \* where it put that: "file", "copied", "memory"
  bash_rpty,  \* the content of the file
  writing,    \* the targets that have it open for writing
  executed,   \* where the bash of each target was executed from, and what
              \* it runs if that is its own and not the file
  sockets,    \* the targets whose socket file exists
  broken,     \* history: a write of the file failed or was cut short
  left        \* history: the targets that could not remove their socket

fileVars == <<bash_rpty, writing, broken>>
socketFileVars == <<sockets, left>>
startVars == <<start, body, saved, fileVars, executed, socketFileVars>>

Goes(t, to) == start' = [start EXCEPT ![t] = to]
Saves(t, where) == saved' = [saved EXCEPT ![t] = where]
Executes(t, content) ==
  executed' = [executed EXCEPT ![t] = [from |-> saved'[t], own |-> content]]
Nothing == [from |-> "none", own |-> {}]

Runs(t) == IF executed[t].from = "file" THEN bash_rpty ELSE executed[t].own

-----------------------------------------------------------------------------
(* download_rpty_bash.                                                     *)

\* Mutant: a connection that ends early is taken for the end of the body.
DownloadShort(t) ==
  /\ start[t] = "downloading"
  /\ \/ Goes(t, "fallback") /\ UNCHANGED body
     \/ \E b \in {{"head"}, Chunks} :
          /\ body' = [body EXCEPT ![t] = b]
          /\ \E to \in {"opening", "memory"} : Goes(t, to)
  /\ UNCHANGED <<saved, fileVars, executed, socketFileVars>>

\* Any failure, a body of another length among them, is the fallback's; a
\* target that cannot tell its directory uses the memory.
Download(t) ==
  /\ start[t] = "downloading"
  /\ \/ Goes(t, "fallback") /\ UNCHANGED body
     \/ /\ body' = [body EXCEPT ![t] = Chunks]
        /\ \E to \in {"opening", "memory"} : Goes(t, to)
  /\ UNCHANGED <<saved, fileVars, executed, socketFileVars>>

\* save_rpty_bash_to_file.
OpenFile(t) ==
  /\ start[t] = "opening"
  /\ \/ /\ \A u \in Targets : executed[u].from # "file"
        /\ bash_rpty' = {} /\ writing' = writing \cup {t}
        /\ Goes(t, "writing")
     \/ Goes(t, "memory") /\ UNCHANGED <<bash_rpty, writing>>
  /\ UNCHANGED <<body, saved, broken, executed, socketFileVars>>

WriteFile(t) ==
  /\ start[t] = "writing"
  /\ \/ /\ bash_rpty' = bash_rpty \cup (body[t] \ {"tail"})
        /\ Goes(t, "written") /\ UNCHANGED <<writing, broken>>
     \/ /\ writing' = writing \ {t} /\ broken' = TRUE
        /\ Goes(t, "memory") /\ UNCHANGED bash_rpty
  /\ UNCHANGED <<body, saved, executed, socketFileVars>>

\* It may come at any later time, and fail.
LastWrite(t) ==
  /\ t \in writing /\ start[t] # "writing"
  /\ writing' = writing \ {t}
  /\ \/ bash_rpty' = bash_rpty \cup (body[t] \ {"head"}) /\ UNCHANGED broken
     \/ broken' = TRUE /\ UNCHANGED bash_rpty
  /\ UNCHANGED <<start, body, saved, executed, socketFileVars>>

SetPermissions(t) ==
  /\ start[t] = "written"
  /\ \/ Saves(t, "file") /\ Goes(t, "binding")
     \/ Goes(t, "memory") /\ UNCHANGED saved
  /\ UNCHANGED <<body, fileVars, executed, socketFileVars>>

CopyBytesToMemory(t) ==
  /\ start[t] = "memory"
  /\ \/ Saves(t, "memory") /\ Goes(t, "binding")
     \/ Goes(t, "fallback") /\ UNCHANGED saved
  /\ UNCHANGED <<body, fileVars, executed, socketFileVars>>

-----------------------------------------------------------------------------
(* create_pty_sock and spawn_rpty_bash.                                    *)

\* A socket file that is still there cannot be bound.
CreateSocket(t) ==
  /\ start[t] = "binding"
  /\ \/ /\ t \notin sockets /\ sockets' = sockets \cup {t}
        /\ Goes(t, "spawning")
     \/ Goes(t, "fallback") /\ UNCHANGED sockets
  /\ UNCHANGED <<body, saved, fileVars, executed, left>>

\* Only a denied permission is tried again through the memory.  A failure
\* leaves the socket file.
Spawn(t) ==
  /\ start[t] = "spawning"
  /\ \/ /\ saved[t] = "file" => writing = {}
        /\ UNCHANGED saved
        /\ Executes(t, IF saved[t] = "file" THEN {} ELSE body[t])
        /\ Goes(t, "shell") /\ UNCHANGED left
     \/ /\ saved[t] = "file" /\ Goes(t, "copying")
        /\ UNCHANGED <<saved, executed, left>>
     \/ /\ Goes(t, "fallback") /\ left' = left \cup {t}
        /\ UNCHANGED <<saved, executed>>
  /\ UNCHANGED <<body, fileVars, sockets>>

\* The copy is of what the file holds, though it may be being written.
SpawnCopy(t) ==
  /\ start[t] = "copying"
  /\ \/ /\ Saves(t, "copied") /\ Executes(t, bash_rpty)
        /\ Goes(t, "shell") /\ UNCHANGED left
     \/ /\ Goes(t, "fallback") /\ left' = left \cup {t}
        /\ UNCHANGED <<saved, executed>>
  /\ UNCHANGED <<body, fileVars, sockets>>

-----------------------------------------------------------------------------
(* The end of a session and of a target.                                   *)

\* Mutant: the socket file is left to the next start.
DropLeavesSocket(t) ==
  /\ start[t] = "shell"
  /\ executed' = [executed EXCEPT ![t] = Nothing]
  /\ Goes(t, "ended")
  /\ UNCHANGED <<body, saved, fileVars, socketFileVars>>

\* The session's state is dropped, however it ended.
Drop(t) ==
  /\ start[t] = "shell"
  /\ executed' = [executed EXCEPT ![t] = Nothing]
  /\ sockets' = sockets \ {t}
  /\ Goes(t, "ended")
  /\ UNCHANGED <<body, saved, fileVars, left>>

\* Its bash goes on; nothing is dropped when the process exits at once.
Killed(t) ==
  /\ start[t] \notin {"ended", "killed"}
  /\ writing' = writing \ {t}
  /\ broken' = (broken \/ t \in writing)
  /\ left' = IF t \in sockets THEN left \cup {t} ELSE left
  /\ Goes(t, "killed")
  /\ UNCHANGED <<body, saved, bash_rpty, executed, sockets>>

\* The container starts again, without what ran in it.
Restarted(t) ==
  /\ start[t] = "killed"
  /\ executed' = [executed EXCEPT ![t] = Nothing]
  /\ Goes(t, "downloading")
  /\ UNCHANGED <<body, saved, fileVars, socketFileVars>>

-----------------------------------------------------------------------------

StartInit ==
  /\ start = [t \in Targets |-> "downloading"]
  /\ body = [t \in Targets |-> {}] /\ saved = [t \in Targets |-> "none"]
  /\ bash_rpty = {} /\ writing = {} /\ broken = FALSE
  /\ executed = [t \in Targets |-> Nothing]
  /\ sockets = {} /\ left = {}

StartNext ==
  \E t \in Targets :
    \/ Download(t) \/ OpenFile(t) \/ WriteFile(t) \/ LastWrite(t)
    \/ SetPermissions(t) \/ CopyBytesToMemory(t)
    \/ CreateSocket(t) \/ Spawn(t) \/ SpawnCopy(t)
    \/ Drop(t) \/ Killed(t) \/ Restarted(t)

StartSpec == StartInit /\ [][StartNext]_startVars

-----------------------------------------------------------------------------
(* Properties.                                                             *)

\* However the targets of a directory overwrite each other's file, a bash that
\* runs from it is whole and stays so, and so is one from the memory, unless
\* some write of the file failed or was cut short.  A copy of the file that was
\* made because the file cannot be executed may lack what was being written.
BashIsWhole ==
  ~broken => \A t \in Targets :
    executed[t].from \in {"file", "memory"} => Runs(t) = Chunks

\* A socket file belongs to a start that goes on or to a session, or was left
\* by a target that was killed or whose bash could not be started: no session
\* that ends keeps the next one of its process id from binding its socket.
SocketsAreRemoved ==
  \A t \in sockets : start[t] \in {"spawning", "copying", "shell"} \/ t \in left
=============================================================================
