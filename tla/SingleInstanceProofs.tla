------------------------ MODULE SingleInstanceProofs ------------------------
(***************************************************************************)
(* The lock file excludes, for any number of shells that crash anywhere    *)
(* and with starts that hang, as long as no two acquisitions overlap.      *)
(***************************************************************************)
EXTENDS SingleInstance, TLAPS

Apart == Launches \in {"apart", "electron"}

LEMMA NamesDiffer == NoFile # Garbled
BY DEF NoFile, Garbled

LEMMA InitHolds == Init => LockInv
BY PidAssumption DEF Init, LockInv, TypeOK, Taking, Holding, Releasing, NoFile,
                     Garbled, NoPid

(* One step keeps the lock's invariant, action by action.                  *)
LEMMA StepHolds == ASSUME Apart, LockInv, [Next]_vars PROVE LockInv'
<1> USE PidAssumption, NamesDiffer DEF LockInv, TypeOK, Goto, Taking, Holding, Releasing
<1>1. ASSUME NEW s \in Shells, Launch(s) PROVE LockInv'
  <2>1. \A t \in Shells : pc[t] \notin Taking
    BY <1>1 DEF Launch, Apart, Alive
  <2>. QED BY <1>1, <2>1 DEF Launch, Alive
<1>2. ASSUME NEW s \in Shells, CreateExclusive(s) PROVE LockInv'
  BY <1>2 DEF CreateExclusive, Alive, processes
<1>3. ASSUME NEW s \in Shells, WritePayload(s) PROVE LockInv'
  BY <1>3 DEF WritePayload, Alive, processes
<1>4. ASSUME NEW s \in Shells, Probe(s) PROVE LockInv'
  BY <1>4 DEF Probe, Holder, InUse, Alive, processes
<1>5. ASSUME NEW s \in Shells, Reclaim(s) PROVE LockInv'
  BY <1>5 DEF Reclaim, Alive, processes
<1>6. ASSUME NEW s \in Shells,
             StartBackend(s) \/ StartSucceeds(s) \/ StartFails(s) \/ Restart(s)
             \/ Quit(s) \/ Stop(s) \/ ExitShell(s) \/ ChildEnds(s)
      PROVE  LockInv'
  BY <1>6 DEF StartBackend, StartSucceeds, StartFails, Restart, Quit, Stop, ExitShell,
              ChildEnds, Alive, processes
<1>7. ASSUME NEW s \in Shells, ReadForRelease(s) PROVE LockInv'
  BY <1>7 DEF ReadForRelease, Alive, processes
<1>8. ASSUME NEW s \in Shells, Unlink(s) PROVE LockInv'
  BY <1>8 DEF Unlink, Alive, processes
<1>9. ASSUME NEW s \in Shells, Crash(s) PROVE LockInv'
  BY <1>9 DEF Crash, Alive, processes
<1>10. ASSUME NEW p \in Pids, ForeignStarts(p) \/ ForeignEnds(p) PROVE LockInv'
  BY <1>10 DEF ForeignStarts, ForeignEnds, Alive
<1>11. CASE UNCHANGED vars
  BY <1>11 DEF vars, Alive
<1> HIDE DEF LockInv, TypeOK, Goto, Taking, Holding, Releasing
<1>12. CASE \E s \in Shells :
            Launch(s) \/ ShellStep(s) \/ Quit(s) \/ Crash(s) \/ ChildEnds(s)
  <2>. PICK s \in Shells : Launch(s) \/ ShellStep(s) \/ Quit(s) \/ Crash(s) \/ ChildEnds(s)
    BY <1>12
  <2>. QED
    BY <1>1, <1>2, <1>3, <1>4, <1>5, <1>6, <1>7, <1>8, <1>9 DEF ShellStep
<1>. QED BY <1>10, <1>11, <1>12 DEF Next, Terminating

(* The file names whoever has the lock, in every behaviour in which        *)
(* acquisitions do not overlap (acquireSingletonLock and its release).     *)
THEOREM Invariance == ASSUME Apart PROVE Spec => []LockInv
<1>1. LockInv /\ [Next]_vars => LockInv'
  BY StepHolds
<1>. QED BY InitHolds, <1>1, PTL DEF Spec

(* At most one shell at a time goes on to start a backend.                 *)
THEOREM OneShellHolds == ASSUME Apart PROVE Spec => []OneHolder
<1>1. LockInv => OneHolder
  BY DEF LockInv, OneHolder
<1>. QED BY Invariance, <1>1, PTL

(* release() of one shell never deletes, and acquireSingletonLock never    *)
(* takes over, the lock of another one that lives.                         *)
THEOREM NobodyStealsTheLock == ASSUME Apart PROVE Spec => NoTheft
<1>1. LockInv /\ [Next]_vars =>
          [\A s \in Shells : file = s /\ Alive(s) /\ file' # s => pc'[s] = "exiting"]_vars
  <2> SUFFICES ASSUME LockInv, Next, NEW s \in Shells, file = s, Alive(s), file' # s
               PROVE  pc'[s] = "exiting"
    OBVIOUS
  <2>1. PICK t \in Shells : CreateExclusive(t) \/ WritePayload(t) \/ Reclaim(t) \/ Unlink(t)
    BY DEF Next, ShellStep, Terminating, vars, Launch, Probe, StartBackend, StartSucceeds,
           StartFails, Restart, Quit, Stop, ReadForRelease, ExitShell, Crash, ChildEnds,
           ForeignStarts, ForeignEnds
  <2>. QED
    BY <2>1, PidAssumption DEF LockInv, TypeOK, CreateExclusive, WritePayload, Reclaim,
       Unlink, Goto, Alive, Releasing
<1>. QED BY Invariance, <1>1, PTL DEF NoTheft, Spec

(* A shell gives up only before a shell that has the lock or gives it      *)
(* back, or before the lock of one that is gone and whose pid some process *)
(* has again (readHolderPid, isAlive): its own lock file, one it cannot    *)
(* read and one whose pid nobody has never turn it away.                   *)
THEOREM DeadLockNoOneOut == ASSUME Apart PROVE Spec => NoLockout
<1> DEFINE Occupied(s) ==
      \/ \E t \in Shells \ {s} : file = t /\ pc[t] \in Holding \cup Releasing
      \/ file \in Shells /\ pc[file] = "gone" /\ InUse(pid[file])
<1>1. LockInv /\ [Next]_vars =>
          [\A s \in Shells : pc[s] # "refused" /\ pc'[s] = "refused" => Occupied(s)]_vars
  <2> SUFFICES ASSUME LockInv, Next, NEW s \in Shells, pc[s] # "refused",
                      pc'[s] = "refused"
               PROVE  Occupied(s)
    OBVIOUS
  <2>1. Probe(s)
    BY DEF LockInv, TypeOK, Next, ShellStep, Terminating, vars, Goto, Launch,
           CreateExclusive, WritePayload, Probe, Reclaim, StartBackend, StartSucceeds,
           StartFails, Restart, Quit, Stop, ReadForRelease, Unlink, ExitShell, Crash,
           ChildEnds, ForeignStarts, ForeignEnds
  <2>2. file \in Shells /\ InUse(pid[file])
    BY <2>1 DEF Probe, Goto, LockInv, TypeOK, Holder
  <2>3. file # s
    BY <2>1 DEF Probe, LockInv, Taking
  <2>4. pc[file] \in Holding \cup Releasing \cup {"gone"}
    BY <2>2 DEF LockInv, TypeOK
  <2>. QED BY <2>2, <2>3, <2>4
<1>. QED BY Invariance, <1>1, PTL DEF NoLockout, Spec
=============================================================================
