--------------------------- MODULE SingleInstance ---------------------------
(***************************************************************************)
(* Who may run the backend: the lock file of desktop/src/host/singleton.ts *)
(* with the Host that takes and releases it (host.ts) and the shell around *)
(* the Host (main.ts).  The lock file holds a pid, and a process that has  *)
(* ended leaves its pid to others: to later shells, and to processes that  *)
(* have nothing to do with the application.  An action is one file         *)
(* operation or one step of a Host; a write is two, as opening the file    *)
(* leaves it empty until the content is written.  The backend is modelled  *)
(* by what Backend shows of it: a start that fails may leave a child that  *)
(* runs, and a stop leaves none.                                           *)
(***************************************************************************)
EXTENDS Naturals, FiniteSets

CONSTANTS
    Shells,     \* the shells, each launched once
    Launches,   \* any: at any time; apart: not while another one takes the lock;
                \* electron: not while another one is there
    Pids,       \* the pids there are, for shells and for other processes
    Faults      \* what may happen: crash of a shell, hang of a backend, reuse of a
                \* pid by a process of another application

ASSUME SingleInstanceAssumption ==
    Launches \in {"any", "apart", "electron"} /\ Faults \subseteq {"crash", "hang", "reuse"}

VARIABLES
    pc,         \* per shell: what it is doing
    pid,        \* per shell: the pid it has or had
    foreign,    \* the pids of processes of other applications
    file,       \* the shell that wrote its pid into the lock file, or:
    opened,     \* shells whose open file is the one in the directory
    child       \* shells whose backend process runs
vars == <<pc, pid, foreign, file, opened, child>>
processes == <<pid, foreign>>

NoFile == "no file"
Garbled == "garbled"        \* empty or half written: no pid can be read from it
NoPid == "no pid"           \* of a shell that has not been launched

ASSUME PidAssumption == NoFile \notin Shells /\ Garbled \notin Shells

Taking == {"create", "write", "probe", "reclaim"}
Holding == {"held", "starting", "running", "stopping"}
Releasing == {"release", "unlink"}

TypeOK ==
    /\ pc \in [Shells -> {"new", "refused", "exiting", "gone"}
                             \cup Taking \cup Holding \cup Releasing]
    /\ pid \in [Shells -> Pids \cup {NoPid}] /\ foreign \subseteq Pids
    /\ file \in Shells \cup {NoFile, Garbled}
    /\ opened \subseteq Shells /\ child \subseteq Shells

Init ==
    /\ pc = [s \in Shells |-> "new"]
    /\ pid = [s \in Shells |-> NoPid] /\ foreign = {}
    /\ file = NoFile /\ opened = {} /\ child = {}

Goto(s, label) == pc' = [pc EXCEPT ![s] = label]
Alive(s) == pc[s] \notin {"new", "refused", "gone"}

(* Some process has the pid: what process.kill(pid, 0) tells, EPERM too.   *)
InUse(p) == p \in foreign \/ \E s \in Shells : Alive(s) /\ pid[s] = p
-----------------------------------------------------------------------------
(* acquireSingletonLock.                                                   *)

(* The shell starts under a pid that no process has; a second one quits if *)
(* Electron's own lock is taken.                                           *)
Launch(s) ==
    /\ pc[s] = "new"
    /\ Launches = "apart" => \A t \in Shells : pc[t] \notin Taking
    /\ Launches = "electron" => ~\E t \in Shells : Alive(t)
    /\ \E p \in Pids : ~InUse(p) /\ pid' = [pid EXCEPT ![s] = p]
    /\ Goto(s, "create")
    /\ UNCHANGED <<foreign, file, opened, child>>

(* Faulty variant: the create is not exclusive.                            *)
CreateExclusive_Overwrites(s) ==
    /\ pc[s] = "create"
    /\ file' = Garbled /\ opened' = {s}
    /\ Goto(s, "write")
    /\ UNCHANGED <<processes, child>>

(* The exclusive create: it fails if the file is there.                    *)
CreateExclusive(s) ==
    /\ pc[s] = "create"
    /\ IF file = NoFile
       THEN file' = Garbled /\ opened' = {s} /\ Goto(s, "write")
       ELSE Goto(s, "probe") /\ UNCHANGED <<file, opened>>
    /\ UNCHANGED <<processes, child>>

WritePayload(s) ==
    /\ pc[s] = "write"
    /\ file' = IF s \in opened THEN s ELSE file
    /\ opened' = opened \ {s}
    /\ Goto(s, "held")
    /\ UNCHANGED <<processes, child>>

(* Faulty variant: a holder counts whether it is alive or not.             *)
Holder_DeadOrAlive == file \in Shells

(* readHolderPid and isAlive: some process has the pid in the file.        *)
Holder == file \in Shells /\ InUse(pid[file])

(* The holder is read: one whose pid is in use is left in possession.      *)
Probe(s) ==
    /\ pc[s] = "probe"
    /\ Goto(s, IF Holder THEN "refused" ELSE "reclaim")
    /\ UNCHANGED <<processes, file, opened, child>>

(* A stale or unreadable lock is opened for overwriting.                   *)
Reclaim(s) ==
    /\ pc[s] = "reclaim"
    /\ file' = Garbled
    /\ opened' = opened \cup {s}
    /\ Goto(s, "write")
    /\ UNCHANGED <<processes, child>>
-----------------------------------------------------------------------------
(* Host.start and Host.dispose.                                            *)

StartBackend(s) ==
    /\ pc[s] = "held"
    /\ child' = child \cup {s}
    /\ Goto(s, "starting")
    /\ UNCHANGED <<processes, file, opened>>

StartSucceeds(s) ==
    /\ pc[s] = "starting" /\ s \in child
    /\ Goto(s, "running")
    /\ UNCHANGED <<processes, file, opened, child>>

(* start() throws: the child has ended, or does not answer its ping.       *)
StartFails(s) ==
    /\ pc[s] = "starting"
    /\ s \notin child \/ "hang" \in Faults
    /\ Goto(s, "release")
    /\ UNCHANGED <<processes, file, opened, child>>

(* The guardian starts another child for one that ended.                   *)
Restart(s) ==
    /\ pc[s] = "running" /\ s \notin child
    /\ child' = child \cup {s}
    /\ UNCHANGED <<pc, processes, file, opened>>

(* will-quit: the Host is disposed of.                                     *)
Quit(s) ==
    /\ pc[s] = "running"
    /\ Goto(s, "stopping")
    /\ UNCHANGED <<processes, file, opened, child>>

(* backend.stop returns: its child has ended.                              *)
Stop(s) ==
    /\ pc[s] = "stopping"
    /\ child' = child \ {s}
    /\ Goto(s, "release")
    /\ UNCHANGED <<processes, file, opened>>

(* Faulty variant: a refused shell cleans up too, whoever has the lock.    *)
ReadForRelease_Anyone(s) ==
    /\ pc[s] \in {"release", "refused"}
    /\ Goto(s, "unlink")
    /\ UNCHANGED <<processes, file, opened, child>>

(* release(): only the lock of another pid is left alone ...               *)
ReadForRelease(s) ==
    /\ pc[s] = "release"
    /\ Goto(s, IF file \in Shells /\ pid[file] # pid[s] THEN "exiting" ELSE "unlink")
    /\ UNCHANGED <<processes, file, opened, child>>

(* ... the file is deleted.                                                *)
Unlink(s) ==
    /\ pc[s] = "unlink"
    /\ file' = NoFile /\ opened' = {}
    /\ Goto(s, "exiting")
    /\ UNCHANGED <<processes, child>>

(* app.quit after dispose, or app.exit after the error box.                *)
ExitShell(s) ==
    /\ pc[s] = "exiting"
    /\ Goto(s, "gone")
    /\ UNCHANGED <<processes, file, opened, child>>

Crash(s) ==
    /\ "crash" \in Faults /\ Alive(s)
    /\ Goto(s, "gone")
    /\ opened' = opened \ {s}
    /\ UNCHANGED <<processes, file, child>>

(* A backend ends: by itself, or because its shell is gone (end of stdin). *)
ChildEnds(s) ==
    /\ s \in child
    /\ child' = child \ {s}
    /\ UNCHANGED <<pc, processes, file, opened>>

(* A process of another application starts under a pid that is free ...    *)
ForeignStarts(p) ==
    /\ "reuse" \in Faults /\ ~InUse(p)
    /\ foreign' = foreign \cup {p}
    /\ UNCHANGED <<pc, pid, file, opened, child>>

(* ... and ends.                                                           *)
ForeignEnds(p) ==
    /\ p \in foreign
    /\ foreign' = foreign \ {p}
    /\ UNCHANGED <<pc, pid, file, opened, child>>
-----------------------------------------------------------------------------
Terminating == (\A s \in Shells : ~Alive(s) /\ pc[s] # "new") /\ UNCHANGED vars

ShellStep(s) ==
    \/ CreateExclusive(s) \/ WritePayload(s) \/ Probe(s) \/ Reclaim(s)
    \/ StartBackend(s) \/ StartSucceeds(s) \/ StartFails(s) \/ Restart(s)
    \/ Stop(s) \/ ReadForRelease(s) \/ Unlink(s) \/ ExitShell(s)

Next ==
    \/ \E s \in Shells :
        Launch(s) \/ ShellStep(s) \/ Quit(s) \/ Crash(s) \/ ChildEnds(s)
    \/ \E p \in Pids : ForeignStarts(p) \/ ForeignEnds(p)
    \/ Terminating

Spec == Init /\ [][Next]_vars
-----------------------------------------------------------------------------
(* At most one shell has the lock, from the moment its Host goes on to     *)
(* start the backend until it has released it.                             *)
OneHolder ==
    \A s, t \in Shells : pc[s] \in Holding /\ pc[t] \in Holding => s = t

(* What a step keeps when acquisitions do not overlap: the file names       *)
(* whoever has the lock until that shell has deleted it, a shell writes to  *)
(* a file nobody else has claimed, and a lock is taken over from the dead   *)
(* alone, whoever has their pids since.                                     *)
LockInv ==
    /\ TypeOK
    /\ \A s \in Shells :
        /\ pc[s] \in Holding \cup Releasing => file = s
        /\ pc[s] \in Taking \cup {"new", "refused", "exiting"} => file # s
        /\ pc[s] = "write" => file = Garbled /\ s \in opened
        /\ pc[s] = "reclaim" /\ file \in Shells => ~Alive(file)
    /\ \A s, t \in Shells : pc[s] \in Taking /\ pc[t] \in Taking => s = t

(* At most one backend runs: singleton.ts has the lock file prevent two,   *)
(* which would write to the same SQLite file.                              *)
OneBackend == Cardinality(child) <= 1

(* A shell is refused before the lock of another one only while that one    *)
(* has it or is giving it back, so that a shell which crashed keeps the     *)
(* application from starting in one case: another process has its pid now,  *)
(* be it one of another application or the shell that starts.               *)
NoLockout ==
    [][\A s \in Shells : pc[s] # "refused" /\ pc'[s] = "refused" =>
           \/ \E t \in Shells \ {s} : file = t /\ pc[t] \in Holding \cup Releasing
           \/ file \in Shells /\ pc[file] = "gone" /\ InUse(pid[file])]_vars

(* A lock that names a live shell is deleted by nobody else.               *)
NoTheft ==
    [][\A s \in Shells : file = s /\ Alive(s) /\ file' # s => pc'[s] = "exiting"]_vars
=============================================================================
