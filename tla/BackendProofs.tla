----------------------------- MODULE BackendProofs -----------------------------
(***************************************************************************)
(* The safety of Backend for every set of calls, any number of children,   *)
(* any restart limit and pipe capacity.  IInv is inductive: the types are  *)
(* kept by every step, and so is what the guardian knows of its children.  *)
(***************************************************************************)
EXTENDS Backend, SequenceTheorems, TLAPS

(* Ids of calls and of pings differ, and tell their caller or child.       *)
LEMMA IdsDiffer ==
    /\ \A c \in Callers, g \in Gens : Call(c) # Ping(g)
    /\ \A c, d \in Callers : Call(c) = Call(d) => c = d
    /\ \A g, h \in Gens : Ping(g) = Ping(h) => g = h
    /\ \A c \in Callers : Call(c) \in Calls /\ Call(c) \in Ids
    /\ \A g \in Gens : Ping(g) \in Ids /\ Ping(g) \notin Calls
    /\ Calls \subseteq Ids
BY DEF Call, Ping, Calls, Ids

\* Generations are positive numbers.
LEMMA GensNat == Gens \subseteq Nat \ {0} /\ MaxSpawns \in Nat
BY BackendAssumption DEF Gens

(* A new guardian has the types.                                           *)
LEMMA TypeInit == Init => TypeOK
<1> SUFFICES ASSUME Init PROVE TypeOK
  OBVIOUS
<1>1. BackendTypeOK
  <2>1. pending \subseteq Ids /\ child \in {0} \cup Gens
    BY DEF Init
  <2>2. stamps \in 0..MaxAttempts /\ spawned \in 0..MaxSpawns
    BY BackendAssumption DEF Init
  <2> QED
    BY <2>1, <2>2 DEF Init, BackendTypeOK
<1>2. ChildTypeOK
  BY DEF Init, ChildTypeOK
<1>3. CallerTypeOK /\ StopTypeOK
  BY DEF Init, CallerTypeOK, StopTypeOK
<1> QED
  BY <1>1, <1>2, <1>3 DEF TypeOK

(* The last element of a queue can be lost, the rest stays a queue.        *)
LEMMA FrontIsQueue ==
    ASSUME NEW S, NEW q \in Seq(S), q # <<>>
    PROVE  /\ Front(q) \in Seq(S)
           /\ DOMAIN Front(q) \subseteq DOMAIN q
           /\ \A i \in DOMAIN Front(q) : Front(q)[i] = q[i]
<1>1. Len(q) \in Nat \ {0} /\ q \in [1..Len(q) -> S]
  BY EmptySeq
<1>2. Front(q) = [i \in 1..(Len(q) - 1) |-> q[i]]
  BY <1>1 DEF Front
<1> QED
  BY <1>1, <1>2

(* Return and failPending only move calls between their positions.         *)
LEMMA ReturnTypes ==
    ASSUME CallerTypeOK, NEW c \in Callers,
           NEW how \in Bodies \cup {"refused", "failed"}, Return(c, how), UNCHANGED tgt
    PROVE  CallerTypeOK'
BY DEF Return, CallerTypeOK

\* failPending keeps the types of the calls' outcomes.
LEMMA FailPendingTypes ==
    ASSUME CallerTypeOK, FailPending, UNCHANGED tgt
    PROVE  CallerTypeOK' /\ pending' = {}
BY DEF FailPending, CallerTypeOK

(* The number of a new child is within the bound.                          *)
LEMMA SpawnTypes ==
    ASSUME BackendTypeOK, ChildTypeOK, Spawn
    PROVE  /\ spawned + 1 \in Gens
           /\ os' \in [Gens -> {"unborn", "absent", "running", "exited", "gone"}]
           /\ child' \in Gens /\ spawned' \in 0..MaxSpawns /\ stopping' = FALSE
           /\ starter' = "check"
           /\ state' \in {"stopped", "starting", "ready", "restarting", "failed"}
<1> USE GensNat
<1>1. spawned + 1 \in Gens /\ spawned' = spawned + 1 /\ child' = spawned + 1
  BY DEF Spawn
<1>2. os' \in [Gens -> {"unborn", "absent", "running", "exited", "gone"}]
  BY <1>1 DEF Spawn, ChildTypeOK
<1> QED
  BY <1>1, <1>2 DEF Spawn, Gens

\* Every step keeps the types.
LEMMA TypeStep == TypeOK /\ ChildInv /\ [Next]_vars => TypeOK'
<1> SUFFICES ASSUME TypeOK, ChildInv, [Next]_vars PROVE TypeOK'
  OBVIOUS
<1>0. BackendTypeOK /\ ChildTypeOK /\ CallerTypeOK /\ StopTypeOK
  BY DEF TypeOK
<1> USE <1>0, GensNat
<1>1. ASSUME HostStart \/ RestartFires PROVE TypeOK'
  <2>1. BackendTypeOK' /\ ChildTypeOK'
    BY <1>1, SpawnTypes DEF HostStart, RestartFires, BackendTypeOK, ChildTypeOK
  <2> QED
    BY <1>1, <2>1 DEF HostStart, RestartFires, TypeOK, CallerTypeOK, StopTypeOK, callerVars,
       stopVars
<1>2. ASSUME StartCheck PROVE TypeOK'
  <2>1. spawned \in Gens
    BY <1>2 DEF StartCheck, ChildInv, BackendTypeOK, Gens
  <2>2. Append(inbox[spawned], Ping(spawned)) \in Seq(Ids)
    BY <2>1, IdsDiffer DEF ChildTypeOK
  <2>3. inbox' \in [Gens -> Seq(Ids)]
    BY <1>2, <2>1, <2>2 DEF StartCheck, ChildTypeOK
  <2>4. pending' \subseteq Ids
    BY <1>2, <2>1, IdsDiffer DEF StartCheck, BackendTypeOK
  <2>5. BackendTypeOK'
    BY <1>2, <2>4 DEF StartCheck, StartFails, BackendTypeOK
  <2>6. ChildTypeOK'
    BY <1>2, <2>3 DEF StartCheck, ChildTypeOK
  <2> QED
    BY <1>2, <2>5, <2>6 DEF StartCheck, TypeOK, CallerTypeOK, StopTypeOK, callerVars, stopVars
<1>3. ASSUME PingTimeOut PROVE TypeOK'
  BY <1>3 DEF PingTimeOut, StartFails, TypeOK, BackendTypeOK, ChildTypeOK, CallerTypeOK,
     StopTypeOK, childVars, callerVars, stopVars
<1>4. ASSUME NEW c \in Callers, InvokeRefused(c) PROVE TypeOK'
  <2>1. CallerTypeOK'
    BY <1>4, ReturnTypes DEF InvokeRefused
  <2> QED
    BY <1>4, <2>1 DEF InvokeRefused, TypeOK, BackendTypeOK, ChildTypeOK, StopTypeOK,
       backendVars, childVars, stopVars
<1>5. ASSUME NEW c \in Callers, Invoke(c) PROVE TypeOK'
  BY <1>5, IdsDiffer DEF Invoke, TypeOK, BackendTypeOK, ChildTypeOK, CallerTypeOK, StopTypeOK, childVars,
     stopVars
<1>6. ASSUME NEW c \in Callers, WriteOk(c) PROVE TypeOK'
  <2>1. CallerTypeOK'
    BY <1>6, ReturnTypes DEF WriteOk, CallerTypeOK
  <2>2. ChildTypeOK'
    <3>1. tgt[c] \in Gens
      BY <1>6 DEF WriteOk, CallerTypeOK
    <3>2. Append(inbox[tgt[c]], Call(c)) \in Seq(Ids)
      BY <3>1, IdsDiffer DEF ChildTypeOK
    <3> QED
      BY <1>6, <3>1, <3>2 DEF WriteOk, ChildTypeOK
  <2> QED
    BY <1>6, <2>1, <2>2 DEF WriteOk, TypeOK, BackendTypeOK, StopTypeOK, backendVars, stopVars
<1>7. ASSUME NEW c \in Callers, WriteError(c) \/ TimeOut(c) PROVE TypeOK'
  <2>1. CallerTypeOK'
    BY <1>7, ReturnTypes DEF WriteError, TimeOut, CallerTypeOK
  <2>2. BackendTypeOK'
    BY <1>7 DEF WriteError, TimeOut, BackendTypeOK
  <2> QED
    BY <1>7, <2>1, <2>2 DEF WriteError, TimeOut, TypeOK, ChildTypeOK, StopTypeOK,
       childVars, stopVars
<1>8. ASSUME NEW g \in Gens, AcceptLine(g) PROVE TypeOK'
  <2> DEFINE line == Head(outbox[g])
  <2>1. line \in Answer /\ Tail(outbox[g]) \in Seq(Answer)
    BY <1>8, HeadTailProperties DEF AcceptLine, ChildTypeOK
  <2>2. line.body \in Bodies
    BY <2>1 DEF Answer
  <2>3. CallerTypeOK'
    <3>1. CASE UNCHANGED <<pc, outcome>>
      BY <1>8, <3>1 DEF AcceptLine, CallerTypeOK
    <3>2. CASE \E c \in Callers : Return(c, line.body)
      BY <1>8, <2>2, <3>2, ReturnTypes DEF AcceptLine
    <3> QED
      BY <1>8, <3>1, <3>2 DEF AcceptLine
  <2>4. ChildTypeOK'
    BY <1>8, <2>1 DEF AcceptLine, ChildTypeOK
  <2>5. BackendTypeOK'
    BY <1>8 DEF AcceptLine, BackendTypeOK
  <2> QED
    BY <1>8, <2>3, <2>4, <2>5 DEF AcceptLine, TypeOK, StopTypeOK, stopVars
<1>9. ASSUME NEW g \in Gens, HandleExit(g) PROVE TypeOK'
  <2>1. CallerTypeOK' /\ pending' \subseteq Ids
    BY <1>9, FailPendingTypes DEF HandleExit, CallerTypeOK, BackendTypeOK
  <2>2. stamps' \in 0..MaxAttempts
    BY <1>9, BackendAssumption DEF HandleExit, BackendTypeOK, MayRestart
  <2>3. BackendTypeOK'
    BY <1>9, <2>1, <2>2 DEF HandleExit, StartFails, BackendTypeOK
  <2>4. ChildTypeOK'
    BY <1>9 DEF HandleExit, ChildTypeOK
  <2> QED
    BY <1>9, <2>1, <2>3, <2>4 DEF HandleExit, TypeOK, StopTypeOK, stopVars
<1>10. ASSUME WindowMoves PROVE TypeOK'
  BY <1>10, BackendAssumption DEF WindowMoves, TypeOK, BackendTypeOK, ChildTypeOK, CallerTypeOK,
     StopTypeOK, childVars, callerVars, stopVars
<1>11. ASSUME NEW g \in Gens, ChildAnswer(g) PROVE TypeOK'
  <2> DEFINE id == Head(inbox[g])
  <2>1. id \in Ids /\ Tail(inbox[g]) \in Seq(Ids)
    BY <1>11, HeadTailProperties DEF ChildAnswer, ChildTypeOK
  <2>2. PICK body \in Bodies :
           /\ outbox' = [outbox EXCEPT ![g] = Append(@, [id |-> id, body |-> body])]
           /\ verdict' = [c \in Callers |-> IF id = Call(c) THEN body ELSE verdict[c]]
    BY <1>11 DEF ChildAnswer, Bodies
  <2>3. [id |-> id, body |-> body] \in Answer
    BY <2>1 DEF Answer
  <2>4. Append(outbox[g], [id |-> id, body |-> body]) \in Seq(Answer)
    BY <2>3 DEF ChildTypeOK
  <2>5. ChildTypeOK'
    BY <1>11, <2>1, <2>2, <2>4 DEF ChildAnswer, ChildTypeOK
  <2> QED
    BY <1>11, <2>5 DEF ChildAnswer, TypeOK, BackendTypeOK, CallerTypeOK, StopTypeOK,
       backendVars, callerVars, stopVars
<1>12. ASSUME NEW g \in Gens, ChildCrash(g) \/ ChildEof(g) PROVE TypeOK'
  <2>1. outbox' \in [Gens -> Seq(Answer)]
    <3>1. outbox[g] # <<>> => Front(outbox[g]) \in Seq(Answer)
      BY FrontIsQueue DEF ChildTypeOK
    <3> QED
      BY <1>12, <3>1 DEF ChildCrash, ChildEof, ChildTypeOK
  <2>2. inbox' \in [Gens -> Seq(Ids)]
    <3>1. inbox' = [inbox EXCEPT ![g] = <<>>] /\ inbox \in [Gens -> Seq(Ids)]
      BY <1>12 DEF ChildCrash, ChildEof, Exit, ChildTypeOK
    <3> QED
      BY <3>1
  <2>3. os' \in [Gens -> {"unborn", "absent", "running", "exited", "gone"}]
    BY <1>12 DEF ChildCrash, ChildEof, Exit, ChildTypeOK
  <2>4. ChildTypeOK'
    BY <1>12, <2>1, <2>2, <2>3 DEF ChildCrash, ChildEof, Exit, ChildTypeOK
  <2> QED
    BY <1>12, <2>4 DEF ChildCrash, ChildEof, Exit, TypeOK, BackendTypeOK, CallerTypeOK,
       StopTypeOK, backendVars, callerVars, stopVars
<1>13. ASSUME StopBegin PROVE TypeOK'
  <2>1. CallerTypeOK' /\ pending' = {}
    BY <1>13, FailPendingTypes DEF StopBegin
  <2>2. BackendTypeOK' /\ ChildTypeOK' /\ StopTypeOK'
    BY <1>13, <2>1 DEF StopBegin, StartFails, BackendTypeOK, ChildTypeOK, StopTypeOK
  <2> QED
    BY <2>1, <2>2 DEF TypeOK
<1>14. ASSUME StopExited \/ StopGraceOver PROVE TypeOK'
  <2>1. CASE StopReturns
    BY <2>1 DEF StopReturns, TypeOK, BackendTypeOK, ChildTypeOK, CallerTypeOK, StopTypeOK,
       childVars, callerVars
  <2>2. CASE ~StopReturns
    BY <1>14, <2>2 DEF StopExited, StopGraceOver, TypeOK, BackendTypeOK, ChildTypeOK,
       CallerTypeOK, StopTypeOK, backendVars, childVars, callerVars
  <2> QED
    BY <2>1, <2>2
<1>15. ASSUME StopKill PROVE TypeOK'
  <2>1. captured \in Gens
    BY <1>15 DEF StopKill, StopTypeOK
  <2>2. CASE os[captured] = "running"
    <3>0. inbox' = [inbox EXCEPT ![captured] = <<>>] /\ inbox \in [Gens -> Seq(Ids)]
      BY <1>15, <2>2 DEF StopKill, Exit, ChildTypeOK
    <3>1. inbox' \in [Gens -> Seq(Ids)]
      BY <2>1, <3>0
    <3> QED
      BY <1>15, <2>1, <2>2, <3>1 DEF StopKill, Exit, TypeOK, BackendTypeOK, ChildTypeOK,
         CallerTypeOK, StopTypeOK, backendVars, callerVars
  <2>3. CASE os[captured] # "running"
    BY <1>15, <2>3 DEF StopKill, TypeOK, BackendTypeOK, ChildTypeOK, CallerTypeOK, StopTypeOK,
       backendVars, childVars, callerVars
  <2> QED
    BY <2>2, <2>3
<1>16. ASSUME UNCHANGED vars PROVE TypeOK'
  BY <1>16 DEF vars, backendVars, childVars, callerVars, stopVars, TypeOK, BackendTypeOK,
     ChildTypeOK, CallerTypeOK, StopTypeOK
<1> QED
  BY <1>1, <1>2, <1>3, <1>4, <1>5, <1>6, <1>7, <1>8, <1>9, <1>10, <1>11, <1>12, <1>13, <1>14,
     <1>15, <1>16 DEF Next, StartStep, CallStep, ChildStep, StopStep, Terminating
-----------------------------------------------------------------------------
(* What the guardian knows of its child, its calls and its stop.           *)
Known ==
    /\ ChildInv /\ NoOrphan /\ StopInv /\ PingInv /\ ReadyAnswered
    /\ WaitersOnCurrent /\ RestartsAllowed

\* Known holds before the first start.
LEMMA KnownInit == Init => Known
<1> SUFFICES ASSUME Init PROVE Known
  OBVIOUS
<1>1. ChildInv
  BY GensNat DEF Init, ChildInv
<1>2. NoOrphan
  BY DEF Init, NoOrphan
<1>5. ReadyAnswered /\ StopInv
  <2>1. state = "stopped" /\ stopping = FALSE /\ rpcClosed = FALSE /\ stopper = "none"
    BY DEF Init
  <2> QED
    BY <2>1 DEF ReadyAnswered, StopInv
<1>6. RestartsAllowed
  <2>1. spawned = 0 /\ restartTimer = FALSE
    BY DEF Init
  <2> QED
    BY <2>1 DEF RestartsAllowed
<1>3. WaitersOnCurrent
  BY DEF Init, WaitersOnCurrent
<1>4. PingInv
  BY DEF Init, PingInv, PingPending, PingAsked, PingAnswered
<1> QED
  BY <1>1, <1>2, <1>3, <1>4, <1>5, <1>6 DEF Known

(* A step that leaves these pieces of state alone disturbs nothing known.  *)
LEMMA Quiet ==
    ASSUME Known, UNCHANGED <<state, stopping, everReady, restartTimer, child, spawned, starter,
                              rpcClosed, os, stopper, captured>>
    PROVE  /\ ChildInv' /\ NoOrphan' /\ RestartsAllowed'
           /\ pending' \subseteq pending => StopInv' /\ PingPending'
           /\ pinged \subseteq pinged' => ReadyAnswered'
           /\ UNCHANGED inbox => PingAsked'
           /\ UNCHANGED <<outbox, pinged>> => PingAnswered'
           /\ UNCHANGED <<pc, pending, tgt>> => WaitersOnCurrent'
<1>1. ChildInv' /\ NoOrphan' /\ RestartsAllowed'
  BY DEF Known, ChildInv, NoOrphan, RestartsAllowed
<1>2. pending' \subseteq pending => StopInv' /\ PingPending'
  BY DEF Known, StopInv, PingInv, PingPending
<1>3. pinged \subseteq pinged' => ReadyAnswered'
  BY DEF Known, ReadyAnswered
<1>4. UNCHANGED inbox => PingAsked'
  BY DEF Known, PingInv, PingAsked
<1>5. UNCHANGED <<outbox, pinged>> => PingAnswered'
  BY DEF Known, PingInv, PingAnswered
<1>6. UNCHANGED <<pc, pending, tgt>> => WaitersOnCurrent'
  BY DEF Known, WaitersOnCurrent
<1> QED
  BY <1>1, <1>2, <1>3, <1>4, <1>5, <1>6

(* A new child is started when there is none.                              *)
LEMMA KnownSpawn ==
    ASSUME TypeOK, Known, HostStart \/ RestartFires
    PROVE  Known'
<1> USE GensNat
<1>0. BackendTypeOK /\ ChildTypeOK /\ CallerTypeOK
  BY DEF TypeOK
<1>1. CASE RestartFires /\ stopping
  BY <1>1 DEF RestartFires, Known, RestartsAllowed
<1>2. CASE HostStart \/ (RestartFires /\ ~stopping)
  <2>1. child = 0 /\ ~stopping /\ stopper = "none" /\ starter = "none"
    BY <1>0, <1>2 DEF HostStart, RestartFires, Known, RestartsAllowed, ChildInv, StopInv,
       BackendTypeOK
  <2>2. Spawn /\ (HostStart => spawned = 0) /\ (spawned # 0 => everReady)
    BY <1>2 DEF HostStart, RestartFires, Known, RestartsAllowed
  <2>3. /\ spawned + 1 \in Gens /\ spawned' = spawned + 1 /\ child' = spawned + 1
        /\ starter' = "check" /\ stopping' = FALSE /\ state' \in {"starting", "restarting"}
    BY <2>2 DEF Spawn
  <2>4. PICK s \in {"running", "absent"} : os' = [os EXCEPT ![spawned + 1] = s]
    BY <2>2 DEF Spawn
  <2>5. /\ UNCHANGED <<everReady, pending, rpcClosed, inbox, outbox, pinged, pc, tgt, stopper,
                       captured>>
        /\ ~restartTimer'
    <3>1. spawned = 0 => ~everReady
      BY DEF Known, ChildInv
    <3> QED
      BY <1>0, <1>2, <2>2, <3>1 DEF HostStart, RestartFires, callerVars, stopVars, Known,
         RestartsAllowed, BackendTypeOK
  <2>6. spawned \in Nat
    BY <1>0 DEF BackendTypeOK
  <2>7. ChildInv'
    BY <1>0, <2>3, <2>4, <2>6 DEF Known, ChildInv, ChildTypeOK
  <2>8. NoOrphan'
    BY <1>0, <2>1, <2>3, <2>4 DEF Known, NoOrphan, ChildTypeOK
  <2>9. StopInv'
    <3>1. stopping = FALSE /\ rpcClosed = FALSE
      BY <1>0, <2>1 DEF Known, StopInv, BackendTypeOK
    <3> QED
      BY <2>1, <2>3, <2>5, <3>1 DEF StopInv
  <2>10. PingInv'
    BY <2>1, <2>5 DEF Known, PingInv, PingPending, PingAsked, PingAnswered
  <2>11. ReadyAnswered' /\ RestartsAllowed'
    BY <2>2, <2>3, <2>5, <2>6 DEF Known, ReadyAnswered, RestartsAllowed
  <2>12. WaitersOnCurrent'
    BY <2>1, <2>5 DEF Known, WaitersOnCurrent
  <2> QED
    BY <2>7, <2>8, <2>9, <2>10, <2>11, <2>12 DEF Known
<1> QED
  BY <1>1, <1>2

(* The ping of start(): sent to the current child only.                    *)
LEMMA KnownStart ==
    ASSUME TypeOK, Known, StartCheck \/ PingTimeOut
    PROVE  Known'
<1> USE GensNat
<1>0. BackendTypeOK /\ ChildTypeOK /\ CallerTypeOK
  BY DEF TypeOK
<1>1. CASE StartCheck /\ os[spawned] = "running" /\ ~rpcClosed
  <2>1. spawned \in Gens
    BY <1>0, <1>1 DEF StartCheck, Known, ChildInv, BackendTypeOK, Gens
  <2>2. child = spawned /\ starter = "check"
    BY <1>1, <2>1 DEF StartCheck, Known, NoOrphan
  <2>3. /\ starter' = "ping" /\ pending' = pending \cup {Ping(spawned)}
        /\ inbox' = [inbox EXCEPT ![spawned] = Append(@, Ping(spawned))]
        /\ UNCHANGED <<state, stopping, everReady, restartTimer, child, spawned, rpcClosed, os,
                       outbox, pinged, pc, tgt, stopper, captured>>
    BY <1>1 DEF StartCheck, callerVars, stopVars
  <2>4. ChildInv' /\ NoOrphan' /\ ReadyAnswered' /\ RestartsAllowed'
    BY <1>0, <2>1, <2>2, <2>3 DEF Known, ChildInv, NoOrphan, ReadyAnswered, RestartsAllowed
  <2>5. StopInv'
    BY <1>1, <2>3 DEF Known, StopInv
  <2>6. PingPending' /\ PingAnswered'
    BY <2>1, <2>2, <2>3, IdsDiffer DEF Known, PingInv, PingPending, PingAnswered
  <2>7. PingAsked'
    <3>1. inbox[spawned] \in Seq(Ids) /\ Ping(spawned) \in Ids
      BY <1>0, <2>1, IdsDiffer DEF ChildTypeOK
    <3> DEFINE q == Append(inbox[spawned], Ping(spawned))
    <3>2. \A i \in DOMAIN q : q[i] \in Calls \cup {Ping(spawned)}
      <4>1. \A i \in DOMAIN inbox[spawned] : inbox[spawned][i] \in Calls \cup {Ping(spawned)}
        BY <2>1 DEF Known, PingInv, PingAsked
      <4> QED
        BY <3>1, <4>1, AppendProperties
    <3>3. inbox' = [inbox EXCEPT ![spawned] = q]
      BY <2>3
    <3> HIDE DEF q
    <3> QED
      BY <1>0, <2>1, <3>2, <3>3 DEF Known, PingInv, PingAsked, ChildTypeOK
  <2>8. WaitersOnCurrent'
    BY <2>1, <2>3, IdsDiffer DEF Known, WaitersOnCurrent
  <2> QED
    BY <2>4, <2>5, <2>6, <2>7, <2>8 DEF Known, PingInv
<1>2. CASE PingTimeOut \/ (StartCheck /\ ~(os[spawned] = "running" /\ ~rpcClosed))
  <2>1. /\ starter' = "none" /\ state' = "failed"
        /\ UNCHANGED <<stopping, everReady, restartTimer, child, spawned, rpcClosed, os, inbox,
                       outbox, pinged, pc, tgt, stopper, captured>>
    BY <1>2 DEF PingTimeOut, StartCheck, StartFails, childVars, callerVars, stopVars
  <2>2. /\ pending' \subseteq pending
        /\ \A c \in Callers : Call(c) \in pending => Call(c) \in pending'
        /\ \A g \in Gens : Ping(g) \notin pending'
    <3>1. CASE PingTimeOut
      <4>1. spawned \in Gens /\ pending' = pending \ {Ping(spawned)}
        BY <1>0, <3>1 DEF PingTimeOut, Known, ChildInv, BackendTypeOK
      <4> QED
        BY <4>1, IdsDiffer DEF Known, PingInv, PingPending
    <3>2. CASE StartCheck
      BY <1>2, <3>2 DEF StartCheck, PingTimeOut, Known, PingInv, PingPending
    <3> QED
      BY <1>2, <3>1, <3>2
  <2>3. ChildInv' /\ NoOrphan' /\ ReadyAnswered' /\ RestartsAllowed' /\ StopInv'
    BY <2>1, <2>2 DEF Known, ChildInv, NoOrphan, ReadyAnswered, RestartsAllowed, StopInv
  <2>4. PingInv'
    BY <2>1, <2>2 DEF Known, PingInv, PingPending, PingAsked, PingAnswered
  <2>5. WaitersOnCurrent'
    BY <2>1, <2>2 DEF Known, WaitersOnCurrent
  <2> QED
    BY <2>3, <2>4, <2>5 DEF Known
<1> QED
  BY <1>1, <1>2

(* Calls: only an open client with a child takes one.                      *)
LEMMA KnownCall ==
    ASSUME TypeOK, Known, NEW c \in Callers, CallStep(c) \/ TimeOut(c)
    PROVE  Known'
<1> USE GensNat
<1>0. BackendTypeOK /\ ChildTypeOK /\ CallerTypeOK
  BY DEF TypeOK
<1>1. /\ UNCHANGED <<state, stopping, everReady, restartTimer, child, spawned, starter, rpcClosed,
                     os, stopper, captured, outbox, pinged>>
      /\ WriteOk(c) \/ UNCHANGED inbox
  BY DEF CallStep, TimeOut, Invoke, InvokeRefused, WriteOk, WriteError, backendVars, childVars,
     stopVars
<1>2. ChildInv' /\ NoOrphan' /\ RestartsAllowed' /\ ReadyAnswered' /\ PingAnswered'
  BY <1>1, Quiet
<1>3. StopInv' /\ PingPending'
  <2>1. CASE pending' \subseteq pending
    BY <1>1, <2>1, Quiet
  <2>2. CASE Invoke(c)
    <3>1. ~rpcClosed /\ pending' = pending \cup {Call(c)}
      BY <2>2 DEF Invoke
    <3> QED
      BY <1>0, <1>1, <3>1, IdsDiffer DEF Known, StopInv, PingInv, PingPending, BackendTypeOK
  <2> QED
    BY <2>1, <2>2 DEF CallStep, TimeOut, InvokeRefused, WriteOk, WriteError, backendVars
<1>4. PingAsked'
  <2>1. CASE WriteOk(c)
    <3> DEFINE g == tgt[c]
    <3> DEFINE q == Append(inbox[g], Call(c))
    <3>1. g \in Gens /\ inbox' = [inbox EXCEPT ![g] = q]
      BY <1>0, <2>1 DEF WriteOk, CallerTypeOK
    <3>2. inbox[g] \in Seq(Ids) /\ Call(c) \in Ids
      BY <1>0, <3>1, IdsDiffer DEF ChildTypeOK
    <3>3. \A i \in DOMAIN q : q[i] \in Calls \cup {Ping(g)}
      <4>1. \A i \in DOMAIN inbox[g] : inbox[g][i] \in Calls \cup {Ping(g)}
        BY <3>1 DEF Known, PingInv, PingAsked
      <4>2. Call(c) \in Calls
        BY IdsDiffer
      <4> QED
        BY <3>2, <4>1, <4>2, AppendProperties
    <3> HIDE DEF q, g
    <3> QED
      BY <1>0, <3>1, <3>3 DEF Known, PingInv, PingAsked, ChildTypeOK
  <2> QED
    BY <1>1, <2>1, Quiet
<1>5. WaitersOnCurrent'
  <2>1. \A d \in Callers : d # c => /\ Call(d) \in pending' <=> Call(d) \in pending
                                    /\ pc'[d] = pc[d] /\ tgt'[d] = tgt[d]
    BY <1>0, IdsDiffer DEF CallStep, TimeOut, Invoke, InvokeRefused, WriteOk, WriteError, Return,
       CallerTypeOK, backendVars
  <2>2. /\ pc'[c] = "await" => Call(c) \in pending'
        /\ Call(c) \in pending' =>
               child # 0 /\ tgt'[c] = child /\ pc'[c] \in {"writing", "await"}
    <3>1. CASE InvokeRefused(c)
      BY <1>0, <3>1 DEF InvokeRefused, Return, Known, WaitersOnCurrent, CallerTypeOK, backendVars
    <3>2. CASE Invoke(c)
      BY <1>0, <3>2 DEF Invoke, Known, WaitersOnCurrent, CallerTypeOK
    <3>3. CASE WriteOk(c)
      BY <1>0, <3>3 DEF WriteOk, Return, Known, WaitersOnCurrent, CallerTypeOK, backendVars
    <3>4. CASE WriteError(c) \/ TimeOut(c)
      BY <1>0, <3>4 DEF WriteError, TimeOut, Return, Known, WaitersOnCurrent, CallerTypeOK
    <3> QED
      BY <3>1, <3>2, <3>3, <3>4 DEF CallStep
  <2> QED
    BY <1>1, <2>1, <2>2 DEF Known, WaitersOnCurrent
<1> QED
  BY <1>2, <1>3, <1>4, <1>5 DEF Known, PingInv

(* An answer: the ping's makes the backend ready, of the child that sent   *)
(* it, and a call's ends that call.                                        *)
LEMMA KnownAccept ==
    ASSUME TypeOK, Known, NEW g \in Gens, AcceptLine(g)
    PROVE  Known'
<1> USE GensNat
<1> DEFINE line == Head(outbox[g])
<1>0. BackendTypeOK /\ ChildTypeOK /\ CallerTypeOK
  BY DEF TypeOK
<1>1. /\ line = outbox[g][1] /\ 1 \in DOMAIN outbox[g] /\ line \in Answer
      /\ outbox' = [outbox EXCEPT ![g] = Tail(outbox[g])]
  BY <1>0, HeadTailProperties, EmptySeq DEF AcceptLine, ChildTypeOK
<1>2. line.id \in Calls \/ (line.id = Ping(g) /\ g \in pinged)
  BY <1>1 DEF Known, PingInv, PingAnswered
<1>3. /\ pending' = pending \ {line.id}
      /\ UNCHANGED <<stopping, restartTimer, child, spawned, rpcClosed, os, inbox, pinged, tgt,
                     stopper, captured>>
  BY DEF AcceptLine, stopVars
<1>4. PingAsked' /\ PingAnswered'
  <2>1. \A i \in DOMAIN Tail(outbox[g]) : i + 1 \in DOMAIN outbox[g]
                                          /\ Tail(outbox[g])[i] = outbox[g][i + 1]
    BY <1>0, HeadTailProperties, EmptySeq DEF AcceptLine, ChildTypeOK
  <2> QED
    BY <1>0, <1>1, <1>3, <2>1 DEF Known, PingInv, PingAsked, PingAnswered, ChildTypeOK
<1>5. CASE line.id \in pending /\ line.id \notin Calls
  <2>1. line.id = Ping(g) /\ g = spawned /\ starter = "ping" /\ g \in pinged
    BY <1>2, <1>5 DEF Known, PingInv, PingPending
  <2>2. /\ starter' = "none" /\ state' = "ready" /\ everReady' = TRUE
        /\ UNCHANGED <<pc, outcome>>
    BY <1>5 DEF AcceptLine
  <2>3. child = g /\ spawned > 0
    BY <2>1 DEF Known, ChildInv
  <2>4. ChildInv' /\ NoOrphan' /\ ReadyAnswered' /\ RestartsAllowed'
    BY <1>3, <2>1, <2>2, <2>3 DEF Known, ChildInv, NoOrphan, ReadyAnswered, RestartsAllowed
  <2>5. StopInv'
    BY <1>3, <2>1, <2>2 DEF Known, StopInv
  <2>6. PingPending'
    BY <1>3, <2>1, IdsDiffer DEF Known, PingInv, PingPending
  <2>7. WaitersOnCurrent'
    BY <1>3, <2>1, <2>2, IdsDiffer DEF Known, WaitersOnCurrent
  <2> QED
    BY <1>4, <2>4, <2>5, <2>6, <2>7 DEF Known, PingInv
<1>6. CASE ~(line.id \in pending /\ line.id \notin Calls)
  <2>1. UNCHANGED <<state, everReady, starter>>
    BY <1>6 DEF AcceptLine
  <2>2. ChildInv' /\ NoOrphan' /\ RestartsAllowed' /\ ReadyAnswered' /\ StopInv' /\ PingPending'
    BY <1>3, <2>1, Quiet
  <2>3. WaitersOnCurrent'
    <3>1. CASE line.id \notin pending
      BY <1>3, <3>1 DEF AcceptLine, Known, WaitersOnCurrent
    <3>2. CASE line.id \in pending /\ line.id \in Calls
      <4>1. PICK c \in Callers : line.id = Call(c) /\ Return(c, line.body)
        BY <3>2 DEF AcceptLine
      <4>2. \A d \in Callers : d # c => Call(d) # line.id /\ pc'[d] = pc[d]
        BY <1>0, <4>1, IdsDiffer DEF Return, CallerTypeOK
      <4>3. pc'[c] = "returned" /\ Call(c) \notin pending'
        BY <1>0, <1>3, <4>1 DEF Return, CallerTypeOK
      <4> QED
        BY <1>3, <4>2, <4>3 DEF Known, WaitersOnCurrent
    <3> QED
      BY <1>6, <3>1, <3>2
  <2> QED
    BY <1>4, <2>2, <2>3 DEF Known, PingInv
<1> QED
  BY <1>5, <1>6

(* failPending leaves nothing pending and no call waiting for an answer.   *)
LEMMA FailPendingKnown ==
    ASSUME CallerTypeOK, WaitersOnCurrent, FailPending
    PROVE  WaitersOnCurrent' /\ pending' = {}
<1>1. pending' = {}
  BY DEF FailPending
<1>2. \A c \in Callers : pc'[c] # "await"
  BY DEF FailPending, WaitersOnCurrent, CallerTypeOK
<1> QED
  BY <1>1, <1>2 DEF WaitersOnCurrent

(* The exit event of the current child, and of one that is not.            *)
LEMMA KnownExit ==
    ASSUME TypeOK, Known, NEW g \in Gens, HandleExit(g)
    PROVE  Known'
<1> USE GensNat
<1>0. BackendTypeOK /\ ChildTypeOK /\ CallerTypeOK
  BY DEF TypeOK
<1>1. /\ os[g] = "exited" /\ os' = [os EXCEPT ![g] = "gone"] /\ child = g
      /\ UNCHANGED <<stopping, everReady, spawned, rpcClosed, inbox, outbox, pinged, tgt, stopper,
                     captured>>
  BY DEF HandleExit, Known, NoOrphan, stopVars
<1>2. child' = 0 /\ spawned > 0 /\ spawned \in Nat
  BY <1>0, <1>1 DEF HandleExit, Known, ChildInv, BackendTypeOK
<1>3. NoOrphan' /\ PingAsked' /\ PingAnswered'
  BY <1>0, <1>1 DEF Known, NoOrphan, PingInv, PingAsked, PingAnswered, ChildTypeOK
<1>4. CASE stopping
  <2>1. /\ pending = {} /\ starter # "ping" /\ state' = "stopped"
        /\ UNCHANGED <<restartTimer, starter, pending, pc>>
    BY <1>1, <1>4 DEF HandleExit, Known, StopInv
  <2>2. ChildInv' /\ ReadyAnswered' /\ RestartsAllowed'
    BY <1>0, <1>1, <1>2, <2>1 DEF Known, ChildInv, ReadyAnswered, RestartsAllowed, ChildTypeOK
  <2>3. StopInv' /\ PingPending'
    BY <1>1, <1>2, <2>1 DEF Known, StopInv, PingInv, PingPending
  <2>4. WaitersOnCurrent'
    BY <2>1 DEF Known, WaitersOnCurrent
  <2> QED
    BY <1>3, <2>2, <2>3, <2>4 DEF Known, PingInv
<1>5. CASE ~stopping
  <2>1. /\ FailPending /\ starter' \in {starter, "none"} /\ starter' # "ping"
        /\ restartTimer' => restartTimer \/ MayRestart
        /\ state' \in {"restarting", "failed"}
    BY <1>0, <1>1, <1>5 DEF HandleExit, StartFails, BackendTypeOK
  <2>2. WaitersOnCurrent' /\ pending' = {}
    BY <1>0, <2>1, FailPendingKnown DEF Known
  <2>3. ChildInv' /\ ReadyAnswered' /\ RestartsAllowed'
    BY <1>0, <1>1, <1>2, <1>5, <2>1 DEF Known, ChildInv, ReadyAnswered, RestartsAllowed,
       MayRestart, ChildTypeOK
  <2>4. StopInv' /\ PingPending'
    BY <1>1, <1>2, <1>5, <2>1, <2>2 DEF Known, StopInv, PingPending
  <2> QED
    BY <1>3, <2>2, <2>3, <2>4 DEF Known, PingInv
<1> QED
  BY <1>4, <1>5

(* The child: it answers what it was asked, and ends.                      *)
LEMMA KnownChild ==
    ASSUME TypeOK, Known, NEW g \in Gens, ChildStep(g)
    PROVE  Known'
<1> USE GensNat
<1>0. BackendTypeOK /\ ChildTypeOK /\ CallerTypeOK
  BY DEF TypeOK
<1>1. CASE ChildAnswer(g)
  <2> DEFINE id == Head(inbox[g])
  <2>1. /\ UNCHANGED <<backendVars, os, pc, tgt, stopper, captured>>
        /\ inbox' = [inbox EXCEPT ![g] = Tail(inbox[g])]
        /\ pinged' = IF id \in Calls THEN pinged ELSE pinged \cup {g}
    BY <1>1 DEF ChildAnswer, callerVars, stopVars
  <2>2. PICK body \in Bodies :
           outbox' = [outbox EXCEPT ![g] = Append(outbox[g], [id |-> id, body |-> body])]
    BY <1>1 DEF ChildAnswer, Bodies
  <2>3. id = inbox[g][1] /\ 1 \in DOMAIN inbox[g] /\ id \in Ids
    BY <1>0, <1>1, HeadTailProperties, EmptySeq DEF ChildAnswer, ChildTypeOK
  <2>4. id \in Calls \/ id = Ping(g)
    BY <2>3 DEF Known, PingInv, PingAsked
  <2>5. ChildInv' /\ NoOrphan' /\ RestartsAllowed' /\ ReadyAnswered' /\ StopInv' /\ PingPending'
        /\ WaitersOnCurrent'
    BY <2>1, Quiet DEF backendVars
  <2>6. PingAsked'
    <3>1. \A i \in DOMAIN Tail(inbox[g]) : i + 1 \in DOMAIN inbox[g]
                                           /\ Tail(inbox[g])[i] = inbox[g][i + 1]
      BY <1>0, <1>1, HeadTailProperties, EmptySeq DEF ChildAnswer, ChildTypeOK
    <3> QED
      BY <1>0, <2>1, <3>1 DEF Known, PingInv, PingAsked, ChildTypeOK
  <2>7. PingAnswered'
    <3> DEFINE a == [id |-> id, body |-> body]
    <3> DEFINE q == Append(outbox[g], a)
    <3>1. outbox[g] \in Seq(Answer) /\ a \in Answer
      BY <1>0, <2>3 DEF ChildTypeOK, Answer
    <3>2. \A i \in DOMAIN q : q[i].id \in Calls \/ (q[i].id = Ping(g) /\ g \in pinged')
      <4>1. \A i \in DOMAIN outbox[g] :
               outbox[g][i].id \in Calls \/ (outbox[g][i].id = Ping(g) /\ g \in pinged)
        BY DEF Known, PingInv, PingAnswered
      <4>2. a.id \in Calls \/ (a.id = Ping(g) /\ g \in pinged')
        BY <2>1, <2>4
      <4>3. pinged \subseteq pinged'
        BY <2>1
      <4> HIDE DEF a
      <4> QED
        BY <3>1, <4>1, <4>2, <4>3, AppendProperties
    <3>3. outbox' = [outbox EXCEPT ![g] = q] /\ pinged \subseteq pinged'
      BY <2>1, <2>2
    <3> HIDE DEF q
    <3> QED
      BY <1>0, <3>2, <3>3 DEF Known, PingInv, PingAnswered, ChildTypeOK
  <2> QED
    BY <2>5, <2>6, <2>7 DEF Known, PingInv
<1>2. CASE ChildCrash(g) \/ ChildEof(g)
  <2>1. /\ UNCHANGED <<backendVars, pinged, pc, tgt, stopper, captured>>
        /\ os[g] = "running" /\ os' = [os EXCEPT ![g] = "exited"]
        /\ inbox' = [inbox EXCEPT ![g] = <<>>]
    BY <1>2 DEF ChildCrash, ChildEof, Exit, callerVars, stopVars
  <2>2. ChildInv'
    BY <1>0, <2>1 DEF Known, ChildInv, ChildTypeOK, backendVars
  <2>3. NoOrphan'
    BY <1>0, <2>1 DEF Known, NoOrphan, ChildTypeOK, backendVars
  <2>4. StopInv' /\ ReadyAnswered' /\ RestartsAllowed' /\ WaitersOnCurrent' /\ PingPending'
    BY <2>1 DEF Known, StopInv, ReadyAnswered, RestartsAllowed, WaitersOnCurrent, PingInv,
       PingPending, backendVars
  <2>5. PingAsked'
    BY <1>0, <2>1 DEF Known, PingInv, PingAsked, ChildTypeOK
  <2>6. PingAnswered'
    <3>1. CASE UNCHANGED outbox
      BY <2>1, <3>1 DEF Known, PingInv, PingAnswered
    <3>2. CASE outbox[g] # <<>> /\ outbox' = [outbox EXCEPT ![g] = Front(outbox[g])]
      <4>1. /\ DOMAIN Front(outbox[g]) \subseteq DOMAIN outbox[g]
            /\ \A i \in DOMAIN Front(outbox[g]) : Front(outbox[g])[i] = outbox[g][i]
        BY <1>0, <3>2, FrontIsQueue DEF ChildTypeOK
      <4> QED
        BY <1>0, <2>1, <3>2, <4>1 DEF Known, PingInv, PingAnswered, ChildTypeOK
    <3> QED
      BY <1>2, <3>1, <3>2 DEF ChildCrash, ChildEof
  <2> QED
    BY <2>2, <2>3, <2>4, <2>5, <2>6 DEF Known, PingInv
<1> QED
  BY <1>1, <1>2 DEF ChildStep

(* stop(): takes over the current child and leaves nothing pending.        *)
LEMMA KnownStop ==
    ASSUME TypeOK, Known, StopBegin \/ StopStep
    PROVE  Known'
<1> USE GensNat
<1>0. BackendTypeOK /\ ChildTypeOK /\ CallerTypeOK /\ StopTypeOK
  BY DEF TypeOK
<1>1. CASE StopBegin
  <2>1. /\ stopper = "none" /\ everReady = TRUE /\ stopping' = TRUE /\ restartTimer' = FALSE
        /\ rpcClosed' = TRUE /\ FailPending /\ captured' = child
        /\ stopper' \in {"done", "grace"} /\ (stopper' = "done" => child = 0)
        /\ UNCHANGED <<everReady, child, spawned, os, inbox, outbox, pinged, tgt>>
    BY <1>0, <1>1 DEF StopBegin, BackendTypeOK
  <2>2. starter' \in {starter, "none"} /\ starter' # "ping"
    BY <1>1 DEF StopBegin, StartFails, Known, ChildInv
  <2>3. WaitersOnCurrent' /\ pending' = {}
    BY <1>0, <2>1, FailPendingKnown DEF Known
  <2>4. ChildInv' /\ NoOrphan' /\ ReadyAnswered' /\ RestartsAllowed'
    BY <2>1, <2>2 DEF Known, ChildInv, NoOrphan, ReadyAnswered, RestartsAllowed
  <2>5. StopInv'
    BY <2>1, <2>2, <2>3 DEF StopInv
  <2>6. PingInv'
    BY <2>1, <2>3 DEF Known, PingInv, PingPending, PingAsked, PingAnswered
  <2> QED
    BY <2>3, <2>4, <2>5, <2>6 DEF Known
<1>2. ASSUME StopReturns, stopper \in {"grace", "await"}, os[captured] \in {"gone", "absent"}
      PROVE  Known'
  <2>1. /\ stopper' = "done" /\ child' = 0 /\ state' = "stopped"
        /\ UNCHANGED <<stopping, everReady, restartTimer, spawned, starter, pending, rpcClosed, os,
                       inbox, outbox, pinged, pc, tgt, captured>>
    BY <1>2 DEF StopReturns, childVars, callerVars
  <2>2. stopping /\ pending = {} /\ starter # "ping" /\ child \in {0, captured}
    BY <1>2 DEF Known, StopInv
  <2>3. ChildInv' /\ NoOrphan'
    BY <1>2, <2>1, <2>2 DEF Known, ChildInv, NoOrphan
  <2>4. StopInv' /\ ReadyAnswered' /\ RestartsAllowed'
    BY <1>2, <2>1, <2>2 DEF Known, StopInv, ReadyAnswered, RestartsAllowed
  <2>5. PingInv' /\ WaitersOnCurrent'
    BY <2>1, <2>2 DEF Known, PingInv, PingPending, PingAsked, PingAnswered, WaitersOnCurrent
  <2> QED
    BY <2>3, <2>4, <2>5 DEF Known
<1>3. ASSUME stopper' \in {"kill", "await"}, stopper \in {"grace", "kill"},
             UNCHANGED <<backendVars, childVars, callerVars, captured>>
      PROVE  Known'
  <2>1. ChildInv' /\ NoOrphan' /\ StopInv' /\ ReadyAnswered' /\ RestartsAllowed'
    BY <1>3 DEF Known, ChildInv, NoOrphan, StopInv, ReadyAnswered, RestartsAllowed, backendVars,
       childVars
  <2>2. PingInv' /\ WaitersOnCurrent'
    BY <1>3 DEF Known, PingInv, PingPending, PingAsked, PingAnswered, WaitersOnCurrent,
       backendVars, childVars, callerVars
  <2> QED
    BY <2>1, <2>2 DEF Known
<1>4. CASE StopKill /\ os[captured] = "running"
  <2>1. /\ stopper = "kill" /\ stopper' = "await" /\ captured \in Gens
        /\ os' = [os EXCEPT ![captured] = "exited"]
        /\ inbox' = [inbox EXCEPT ![captured] = <<>>]
        /\ UNCHANGED <<backendVars, outbox, pinged, pc, tgt, captured>>
    BY <1>0, <1>4 DEF StopKill, Exit, StopTypeOK, callerVars
  <2>2. ChildInv' /\ NoOrphan'
    BY <1>0, <1>4, <2>1 DEF Known, ChildInv, NoOrphan, ChildTypeOK, backendVars
  <2>3. StopInv' /\ ReadyAnswered' /\ RestartsAllowed'
    BY <2>1 DEF Known, StopInv, ReadyAnswered, RestartsAllowed, backendVars
  <2>4. PingInv' /\ WaitersOnCurrent'
    BY <1>0, <2>1 DEF Known, PingInv, PingPending, PingAsked, PingAnswered, WaitersOnCurrent,
       ChildTypeOK, backendVars
  <2> QED
    BY <2>2, <2>3, <2>4 DEF Known
<1>5. CASE StopExited
  BY <1>2, <1>5 DEF StopExited
<1>6. CASE StopGraceOver
  BY <1>2, <1>3, <1>6 DEF StopGraceOver
<1>7. CASE StopKill /\ os[captured] # "running"
  BY <1>3, <1>7 DEF StopKill
<1> QED
  BY <1>1, <1>4, <1>5, <1>6, <1>7 DEF StopStep

\* Every step keeps Known: one case per group of callbacks.
LEMMA KnownStep == TypeOK /\ Known /\ [Next]_vars => Known'
<1> SUFFICES ASSUME TypeOK, Known, [Next]_vars PROVE Known'
  OBVIOUS
<1>1. ASSUME UNCHANGED <<state, stopping, everReady, restartTimer, child, spawned, starter,
                         pending, rpcClosed, os, inbox, outbox, pinged, pc, tgt, stopper,
                         captured>>
      PROVE  Known'
  BY <1>1, Quiet DEF Known, PingInv
<1>2. CASE WindowMoves \/ Terminating \/ UNCHANGED vars
  BY <1>1, <1>2 DEF WindowMoves, Terminating, vars, backendVars, childVars, callerVars, stopVars
<1> QED
  BY <1>2, KnownSpawn, KnownStart, KnownCall, KnownAccept, KnownExit, KnownChild, KnownStop
     DEF Next, StartStep
-----------------------------------------------------------------------------
(* A call that is given up on fails, the others stay where they are.       *)
GivenUp ==
    \A c \in Callers :
        \/ pc'[c] = pc[c] /\ outcome'[c] = outcome[c]
        \/ pc[c] \in {"writing", "await"} /\ pc'[c] = "returned" /\ outcome'[c] = "failed"

(* Queues lose requests and answers at an end, and get none.               *)
InboxShrinks ==
    \A g \in Gens : \E k \in Nat : \A i \in DOMAIN inbox'[g] :
        i + k \in DOMAIN inbox[g] /\ inbox'[g][i] = inbox[g][i + k]
OutboxShrinks ==
    \A g \in Gens : \A i \in DOMAIN outbox'[g] : \E j \in DOMAIN outbox[g] :
        outbox'[g][i] = outbox[g][j]

\* A step that touches neither calls nor the queues of a child keeps CallInv.
LEMMA CallsKept ==
    ASSUME TypeOK, CallInv, UNCHANGED verdict, GivenUp, InboxShrinks, OutboxShrinks,
           \A g \in Gens : DOMAIN inbox'[g] \subseteq Nat
    PROVE  CallInv'
<1>1. \A c \in Callers : /\ pc'[c] \in {"idle", "writing"} => verdict'[c] = "none"
                         /\ pc'[c] # "returned" => outcome'[c] = "none"
  BY DEF CallInv, GivenUp
<1>2. ASSUME NEW c \in Callers, NEW g \in Gens, NEW i \in DOMAIN inbox'[g],
             inbox'[g][i] = Call(c)
      PROVE  /\ verdict'[c] = "none" /\ pc'[c] \in {"await", "returned"}
             /\ pc'[c] = "returned" => outcome'[c] = "failed"
             /\ \A h \in Gens : \A j \in DOMAIN inbox'[h] :
                   inbox'[h][j] = Call(c) => h = g /\ j = i
  <2>1. PICK k \in Nat : \A n \in DOMAIN inbox'[g] :
           n + k \in DOMAIN inbox[g] /\ inbox'[g][n] = inbox[g][n + k]
    BY DEF InboxShrinks
  <2>2. i + k \in DOMAIN inbox[g] /\ inbox[g][i + k] = Call(c)
    BY <1>2, <2>1
  <2>3. /\ verdict[c] = "none" /\ pc[c] \in {"await", "returned"}
        /\ pc[c] = "returned" => outcome[c] = "failed"
        /\ \A h \in Gens : \A j \in DOMAIN inbox[h] :
              inbox[h][j] = Call(c) => h = g /\ j = i + k
    BY <2>2 DEF CallInv
  <2>4. ASSUME NEW h \in Gens, NEW j \in DOMAIN inbox'[h], inbox'[h][j] = Call(c)
        PROVE  h = g /\ j = i
    <3>1. PICK m \in Nat : \A n \in DOMAIN inbox'[h] :
             n + m \in DOMAIN inbox[h] /\ inbox'[h][n] = inbox[h][n + m]
      BY DEF InboxShrinks
    <3>2. h = g
      BY <2>3, <2>4, <3>1
    <3>3. j + k = i + k /\ j \in Nat /\ i \in Nat
      BY <2>1, <2>3, <2>4, <3>2
    <3> QED
      BY <3>2, <3>3
  <2> QED
    BY <2>3, <2>4 DEF GivenUp
<1>3. ASSUME NEW c \in Callers, NEW g \in Gens, NEW i \in DOMAIN outbox'[g],
             outbox'[g][i].id = Call(c)
      PROVE  outbox'[g][i].body = verdict'[c] /\ pc'[c] \in {"await", "returned"}
  <2>1. PICK j \in DOMAIN outbox[g] : outbox'[g][i] = outbox[g][j]
    BY DEF OutboxShrinks
  <2>2. outbox[g][j].body = verdict[c] /\ pc[c] \in {"await", "returned"}
    BY <1>3, <2>1 DEF CallInv
  <2> QED
    BY <2>1, <2>2 DEF GivenUp
<1> QED
  BY <1>1, <1>2, <1>3 DEF CallInv

(* Queues that stay as they are shrink, too.                               *)
LEMMA QueuesKept ==
    ASSUME TypeOK
    PROVE  /\ UNCHANGED inbox => InboxShrinks /\ \A g \in Gens : DOMAIN inbox'[g] \subseteq Nat
           /\ UNCHANGED outbox => OutboxShrinks
<1>1. \A g \in Gens : DOMAIN inbox[g] \subseteq Nat
  BY DEF TypeOK, ChildTypeOK
<1>2. \A g \in Gens : \A i \in DOMAIN inbox[g] : i + 0 = i /\ 0 \in Nat
  BY <1>1
<1> QED
  BY <1>1, <1>2 DEF InboxShrinks, OutboxShrinks

\* CallInv holds before the first call.
LEMMA CallInit == Init => CallInv
<1> SUFFICES ASSUME Init PROVE CallInv
  OBVIOUS
<1>1. \A g \in Gens : DOMAIN inbox[g] = {} /\ DOMAIN outbox[g] = {}
  BY DEF Init
<1>2. \A c \in Callers : pc[c] = "idle" /\ verdict[c] = "none" /\ outcome[c] = "none"
  BY DEF Init
<1> QED
  BY <1>1, <1>2 DEF CallInv

(* A request or ping is appended that is in no pipe yet.                   *)
LEMMA CallsAppend ==
    ASSUME TypeOK, CallInv, NEW g \in Gens, NEW id \in Ids,
           \A h \in Gens : \A j \in DOMAIN inbox[h] : id \in Calls => inbox[h][j] # id,
           inbox' = [inbox EXCEPT ![g] = Append(@, id)], UNCHANGED <<outbox, verdict>>,
           \A c \in Callers : \/ UNCHANGED <<pc[c], outcome[c]>> /\ id # Call(c)
                              \/ /\ id = Call(c) /\ pc[c] = "writing"
                                 /\ \/ pc'[c] = "await" /\ outcome'[c] = outcome[c]
                                    \/ pc'[c] = "returned" /\ outcome'[c] = "failed"
    PROVE  CallInv'
<1>1. inbox[g] \in Seq(Ids) /\ inbox \in [Gens -> Seq(Ids)]
  BY DEF TypeOK, ChildTypeOK
<1>2. /\ inbox'[g] = Append(inbox[g], id)
      /\ \A h \in Gens : h # g => inbox'[h] = inbox[h]
  BY <1>1
<1>3. \A i \in DOMAIN inbox'[g] : \/ i \in DOMAIN inbox[g] /\ inbox'[g][i] = inbox[g][i]
                                  \/ i = Len(inbox[g]) + 1 /\ inbox'[g][i] = id
  BY <1>1, <1>2, AppendProperties
<1>4. \A h \in Gens : \A j \in DOMAIN inbox'[h] :
         \/ j \in DOMAIN inbox[h] /\ inbox'[h][j] = inbox[h][j]
         \/ h = g /\ j = Len(inbox[g]) + 1 /\ inbox'[h][j] = id
  BY <1>2, <1>3
<1>5. \A c \in Callers : /\ pc'[c] \in {"idle", "writing"} => verdict'[c] = "none"
                         /\ pc'[c] # "returned" => outcome'[c] = "none"
  BY DEF CallInv
<1>6. ASSUME NEW c \in Callers, NEW h \in Gens, NEW i \in DOMAIN inbox'[h],
             inbox'[h][i] = Call(c)
      PROVE  /\ verdict'[c] = "none" /\ pc'[c] \in {"await", "returned"}
             /\ pc'[c] = "returned" => outcome'[c] = "failed"
             /\ \A k \in Gens : \A j \in DOMAIN inbox'[k] :
                   inbox'[k][j] = Call(c) => k = h /\ j = i
  <2>1. CASE id = Call(c)
    <3>1. verdict[c] = "none" /\ id \in Calls /\ pc[c] = "writing"
      BY <2>1, IdsDiffer DEF CallInv
    <3>2. \A k \in Gens : \A j \in DOMAIN inbox'[k] :
             inbox'[k][j] = Call(c) => k = g /\ j = Len(inbox[g]) + 1
      BY <1>4, <2>1, <3>1
    <3> QED
      BY <1>6, <2>1, <3>1, <3>2
  <2>2. CASE id # Call(c)
    <3>1. \A k \in Gens : \A j \in DOMAIN inbox'[k] :
             inbox'[k][j] = Call(c) => j \in DOMAIN inbox[k] /\ inbox[k][j] = Call(c)
      BY <1>4, <2>2
    <3>2. i \in DOMAIN inbox[h] /\ inbox[h][i] = Call(c)
      BY <1>6, <3>1
    <3> QED
      BY <2>2, <3>1, <3>2 DEF CallInv
  <2> QED
    BY <2>1, <2>2
<1>7. ASSUME NEW c \in Callers, NEW h \in Gens, NEW i \in DOMAIN outbox'[h],
             outbox'[h][i].id = Call(c)
      PROVE  outbox'[h][i].body = verdict'[c] /\ pc'[c] \in {"await", "returned"}
  BY <1>7 DEF CallInv
<1> QED
  BY <1>5, <1>6, <1>7 DEF CallInv
-----------------------------------------------------------------------------
\* CallInv is kept by the steps that add nothing to a queue and end no call.
LEMMA CallStep0 ==
    ASSUME TypeOK, Known, CallInv, NEW c \in Callers, CallStep(c) \/ TimeOut(c)
    PROVE  CallInv'
<1>0. CallerTypeOK /\ ChildTypeOK
  BY DEF TypeOK
<1>1. CASE InvokeRefused(c) \/ Invoke(c)
  <2>1. /\ pc[c] = "idle" /\ UNCHANGED <<inbox, outbox, verdict>>
        /\ \/ pc' = [pc EXCEPT ![c] = "writing"] /\ UNCHANGED outcome
           \/ Return(c, "refused")
    BY <1>1 DEF InvokeRefused, Invoke, childVars
  <2>2. \A d \in Callers : d # c => pc'[d] = pc[d] /\ outcome'[d] = outcome[d]
    BY <1>0, <2>1 DEF Return, CallerTypeOK
  <2>3. verdict[c] = "none" /\ pc'[c] \in {"writing", "returned"}
        /\ (pc'[c] # "returned" => outcome'[c] = "none")
    BY <1>0, <2>1 DEF CallInv, Return, CallerTypeOK
  <2> QED
    BY <2>1, <2>2, <2>3 DEF CallInv
<1>2. CASE WriteOk(c)
  <2> DEFINE g == tgt[c]
  <2>1. /\ g \in Gens /\ pc[c] = "writing" /\ Call(c) \in Ids
        /\ inbox' = [inbox EXCEPT ![g] = Append(@, Call(c))] /\ UNCHANGED <<outbox, verdict>>
    BY <1>0, <1>2, IdsDiffer DEF WriteOk, CallerTypeOK
  <2>2. \A h \in Gens : \A j \in DOMAIN inbox[h] : inbox[h][j] # Call(c)
    BY <2>1 DEF CallInv
  <2>3. \/ pc' = [pc EXCEPT ![c] = "await"] /\ UNCHANGED outcome
        \/ Return(c, "failed")
    BY <1>2 DEF WriteOk
  <2>4. \A d \in Callers : \/ UNCHANGED <<pc[d], outcome[d]>> /\ Call(c) # Call(d)
                           \/ /\ Call(c) = Call(d) /\ pc[d] = "writing"
                              /\ \/ pc'[d] = "await" /\ outcome'[d] = outcome[d]
                                 \/ pc'[d] = "returned" /\ outcome'[d] = "failed"
    BY <1>0, <2>1, <2>3, IdsDiffer DEF Return, CallerTypeOK
  <2> HIDE DEF g
  <2> QED
    BY <2>1, <2>2, <2>4, CallsAppend
<1>3. CASE WriteError(c) \/ TimeOut(c)
  <2>1. UNCHANGED <<inbox, outbox, verdict>>
    BY <1>3 DEF WriteError, TimeOut, childVars
  <2>2. GivenUp
    BY <1>0, <1>3 DEF WriteError, TimeOut, Return, GivenUp, CallerTypeOK
  <2> QED
    BY <2>1, <2>2, QueuesKept, CallsKept
<1> QED
  BY <1>1, <1>2, <1>3 DEF CallStep

(* An answer reaches the call whose request the child has carried out.     *)
LEMMA CallAccept ==
    ASSUME TypeOK, Known, CallInv, NEW g \in Gens, AcceptLine(g)
    PROVE  CallInv'
<1> DEFINE line == Head(outbox[g])
<1>0. CallerTypeOK /\ ChildTypeOK
  BY DEF TypeOK
<1>1. /\ line = outbox[g][1] /\ 1 \in DOMAIN outbox[g] /\ line \in Answer
      /\ outbox' = [outbox EXCEPT ![g] = Tail(outbox[g])] /\ UNCHANGED <<inbox, verdict>>
  BY <1>0, HeadTailProperties, EmptySeq DEF AcceptLine, ChildTypeOK
<1>2. OutboxShrinks
  <2>1. \A i \in DOMAIN Tail(outbox[g]) : i + 1 \in DOMAIN outbox[g]
                                          /\ Tail(outbox[g])[i] = outbox[g][i + 1]
    BY <1>0, HeadTailProperties, EmptySeq DEF AcceptLine, ChildTypeOK
  <2> QED
    BY <1>0, <1>1, <2>1 DEF OutboxShrinks, ChildTypeOK
<1>3. CASE UNCHANGED <<pc, outcome>>
  BY <1>1, <1>2, <1>3, QueuesKept, CallsKept DEF GivenUp
<1>4. CASE ~UNCHANGED <<pc, outcome>>
  <2>1. PICK c \in Callers : line.id = Call(c) /\ Return(c, line.body)
    BY <1>4 DEF AcceptLine
  <2>2. line.body = verdict[c] /\ line.body \in Bodies
    BY <1>1, <2>1 DEF CallInv, Answer
  <2>3. /\ pc'[c] = "returned"
        /\ \A d \in Callers : d # c => pc'[d] = pc[d] /\ outcome'[d] = outcome[d]
    BY <1>0, <2>1 DEF Return, CallerTypeOK
  <2>4. \A h \in Gens : \A i \in DOMAIN inbox[h] : inbox[h][i] # Call(c)
    BY <2>2 DEF CallInv, Bodies
  <2>5. ASSUME NEW d \in Callers, NEW h \in Gens, NEW i \in DOMAIN outbox'[h],
               outbox'[h][i].id = Call(d)
        PROVE  outbox'[h][i].body = verdict'[d] /\ pc'[d] \in {"await", "returned"}
    <3>1. PICK j \in DOMAIN outbox[h] : outbox'[h][i] = outbox[h][j]
      BY <1>2 DEF OutboxShrinks
    <3> QED
      BY <1>1, <2>3, <2>5, <3>1 DEF CallInv
  <2> QED
    BY <1>1, <2>3, <2>4, <2>5 DEF CallInv
<1> QED
  BY <1>3, <1>4

(* A child takes a request out of its pipe and answers it.                 *)
LEMMA CallAnswered ==
    ASSUME TypeOK, Known, CallInv, NEW g \in Gens, ChildAnswer(g)
    PROVE  CallInv'
<1> DEFINE id == Head(inbox[g])
<1>0. CallerTypeOK /\ ChildTypeOK
  BY DEF TypeOK
<1>1. PICK body \in Bodies :
         /\ outbox' = [outbox EXCEPT ![g] = Append(outbox[g], [id |-> id, body |-> body])]
         /\ verdict' = [c \in Callers |-> IF id = Call(c) THEN body ELSE verdict[c]]
  BY DEF ChildAnswer, Bodies
<1>2. /\ id = inbox[g][1] /\ 1 \in DOMAIN inbox[g] /\ id \in Ids
      /\ inbox' = [inbox EXCEPT ![g] = Tail(inbox[g])] /\ UNCHANGED <<pc, outcome>>
  BY <1>0, HeadTailProperties, EmptySeq DEF ChildAnswer, ChildTypeOK, callerVars
<1> DEFINE a == [id |-> id, body |-> body]
<1>3. outbox[g] \in Seq(Answer) /\ a \in Answer
  BY <1>0, <1>2 DEF ChildTypeOK, Answer
<1>4. \A i \in DOMAIN Tail(inbox[g]) : /\ i + 1 \in DOMAIN inbox[g] /\ i \in Nat \ {0}
                                       /\ Tail(inbox[g])[i] = inbox[g][i + 1]
  BY <1>0, HeadTailProperties, EmptySeq DEF ChildAnswer, ChildTypeOK
<1>5. \A h \in Gens : \A i \in DOMAIN inbox'[h] :
         \/ h # g /\ inbox'[h] = inbox[h]
         \/ h = g /\ i + 1 \in DOMAIN inbox[h] /\ i \in Nat \ {0}
            /\ inbox'[h][i] = inbox[h][i + 1]
  BY <1>0, <1>2, <1>4 DEF ChildTypeOK
<1>6. \A h \in Gens : \A i \in DOMAIN outbox'[h] :
         \/ i \in DOMAIN outbox[h] /\ outbox'[h][i] = outbox[h][i]
         \/ outbox'[h][i] = a
  <2>1. \A i \in DOMAIN Append(outbox[g], a) :
           \/ i \in DOMAIN outbox[g] /\ Append(outbox[g], a)[i] = outbox[g][i]
           \/ Append(outbox[g], a)[i] = a
    BY <1>3, AppendProperties
  <2> QED
    BY <1>0, <1>1, <2>1 DEF ChildTypeOK
<1>7. \A c \in Callers : id = Call(c) =>
         /\ verdict[c] = "none" /\ pc[c] \in {"await", "returned"}
         /\ \A h \in Gens : \A j \in DOMAIN inbox[h] : inbox[h][j] = Call(c) => h = g /\ j = 1
  BY <1>2 DEF CallInv
<1>8. \A c \in Callers : /\ pc'[c] \in {"idle", "writing"} => verdict'[c] = "none"
                         /\ pc'[c] # "returned" => outcome'[c] = "none"
  BY <1>1, <1>2, <1>7 DEF CallInv
<1>9. ASSUME NEW c \in Callers, NEW h \in Gens, NEW i \in DOMAIN inbox'[h],
             inbox'[h][i] = Call(c)
      PROVE  /\ verdict'[c] = "none" /\ pc'[c] \in {"await", "returned"}
             /\ pc'[c] = "returned" => outcome'[c] = "failed"
             /\ \A k \in Gens : \A j \in DOMAIN inbox'[k] :
                   inbox'[k][j] = Call(c) => k = h /\ j = i
  <2>1. PICK n \in DOMAIN inbox[h] : inbox[h][n] = Call(c) /\ (h = g => n = i + 1 /\ i \in Nat \ {0})
                                     /\ (h # g => n = i)
    BY <1>5, <1>9
  <2>2. /\ verdict[c] = "none" /\ pc[c] \in {"await", "returned"}
        /\ pc[c] = "returned" => outcome[c] = "failed"
        /\ \A k \in Gens : \A j \in DOMAIN inbox[k] : inbox[k][j] = Call(c) => k = h /\ j = n
    BY <2>1 DEF CallInv
  <2>3. id # Call(c)
    <3>1. h = g => n # 1
      BY <2>1
    <3> QED
      BY <1>2, <2>2, <3>1
  <2>4. ASSUME NEW k \in Gens, NEW j \in DOMAIN inbox'[k], inbox'[k][j] = Call(c)
        PROVE  k = h /\ j = i
    <3>1. CASE k # g
      BY <1>5, <2>1, <2>2, <2>4, <3>1
    <3>2. CASE k = g
      <4>1. /\ j + 1 \in DOMAIN inbox[g] /\ inbox[g][j + 1] = Call(c) /\ j \in Nat
        BY <1>5, <2>4, <3>2
      <4>2. h = g /\ j + 1 = n
        BY <2>2, <3>2, <4>1
      <4>3. n = i + 1 /\ i \in Nat
        BY <2>1, <4>2
      <4> QED
        BY <3>2, <4>1, <4>2, <4>3
    <3> QED
      BY <3>1, <3>2
  <2> QED
    BY <1>1, <1>2, <2>2, <2>3, <2>4
<1>10. ASSUME NEW c \in Callers, NEW h \in Gens, NEW i \in DOMAIN outbox'[h],
              outbox'[h][i].id = Call(c)
       PROVE  outbox'[h][i].body = verdict'[c] /\ pc'[c] \in {"await", "returned"}
  <2>1. CASE outbox'[h][i] = a
    BY <1>1, <1>2, <1>7, <1>10, <2>1
  <2>2. CASE i \in DOMAIN outbox[h] /\ outbox'[h][i] = outbox[h][i]
    <3>1. outbox[h][i].body = verdict[c] /\ pc[c] \in {"await", "returned"}
      BY <1>10, <2>2 DEF CallInv
    <3>2. outbox[h][i] \in Answer
      BY <1>0, <2>2 DEF ChildTypeOK
    <3>3. verdict[c] # "none"
      BY <3>1, <3>2 DEF Answer, Bodies
    <3>4. verdict'[c] = verdict[c]
      BY <1>1, <1>7, <3>3
    <3> QED
      BY <1>2, <2>2, <3>1, <3>4
  <2> QED
    BY <1>6, <2>1, <2>2
<1> QED
  BY <1>8, <1>9, <1>10 DEF CallInv

(* A child's end and failPending lose requests and answers, never add any. *)
LEMMA CallEnds ==
    ASSUME TypeOK, Known, CallInv,
           \/ \E g \in Gens : HandleExit(g) \/ ChildCrash(g) \/ ChildEof(g)
           \/ StopBegin \/ StopStep
    PROVE  CallInv'
<1>0. CallerTypeOK /\ ChildTypeOK
  BY DEF TypeOK
<1>1. ASSUME NEW g \in Gens, inbox' = [inbox EXCEPT ![g] = <<>>]
      PROVE  InboxShrinks /\ \A h \in Gens : DOMAIN inbox'[h] \subseteq Nat
  <2>1. DOMAIN inbox'[g] = {} /\ \A h \in Gens : h # g => inbox'[h] = inbox[h]
    BY <1>0, <1>1 DEF ChildTypeOK
  <2>2. \A h \in Gens : DOMAIN inbox[h] \subseteq Nat
    BY <1>0 DEF ChildTypeOK
  <2>3. 0 \in Nat /\ \A h \in Gens : \A i \in DOMAIN inbox[h] : i + 0 = i
    BY <2>2
  <2> QED
    BY <2>1, <2>2, <2>3 DEF InboxShrinks
<1>2. ASSUME FailPending PROVE GivenUp
  BY <1>0, <1>2 DEF FailPending, GivenUp
<1>3. CASE \E g \in Gens : HandleExit(g)
  <2>1. UNCHANGED <<inbox, outbox, verdict>> /\ GivenUp
    BY <1>2, <1>3 DEF HandleExit, GivenUp
  <2> QED
    BY <2>1, QueuesKept, CallsKept
<1>4. CASE StopBegin
  <2>1. UNCHANGED <<inbox, outbox, verdict>> /\ GivenUp
    BY <1>2, <1>4 DEF StopBegin
  <2> QED
    BY <2>1, QueuesKept, CallsKept
<1>5. ASSUME NEW g \in Gens, ChildCrash(g) \/ ChildEof(g) PROVE CallInv'
  <2>1. inbox' = [inbox EXCEPT ![g] = <<>>] /\ UNCHANGED <<pc, outcome, verdict>>
    BY <1>5 DEF ChildCrash, ChildEof, Exit, callerVars
  <2>2. OutboxShrinks
    <3>1. CASE UNCHANGED outbox
      BY <3>1, QueuesKept
    <3>2. CASE outbox[g] # <<>> /\ outbox' = [outbox EXCEPT ![g] = Front(outbox[g])]
      <4>1. /\ DOMAIN Front(outbox[g]) \subseteq DOMAIN outbox[g]
            /\ \A i \in DOMAIN Front(outbox[g]) : Front(outbox[g])[i] = outbox[g][i]
        BY <1>0, <3>2, FrontIsQueue DEF ChildTypeOK
      <4> QED
        BY <1>0, <3>2, <4>1 DEF OutboxShrinks, ChildTypeOK
    <3> QED
      BY <1>5, <3>1, <3>2 DEF ChildCrash, ChildEof
  <2>3. GivenUp
    BY <2>1 DEF GivenUp
  <2> QED
    BY <1>1, <2>1, <2>2, <2>3, CallsKept
<1>6. CASE StopStep
  <2>1. CASE UNCHANGED <<inbox, outbox, verdict, pc, outcome>>
    BY <2>1, QueuesKept, CallsKept DEF GivenUp
  <2>2. CASE StopKill /\ os[captured] = "running"
    <3>1. /\ captured \in Gens /\ inbox' = [inbox EXCEPT ![captured] = <<>>]
          /\ UNCHANGED <<outbox, verdict, pc, outcome>>
      BY <2>2 DEF StopKill, Exit, TypeOK, StopTypeOK, callerVars
    <3> QED
      BY <1>1, <3>1, QueuesKept, CallsKept DEF GivenUp
  <2> QED
    BY <1>6, <2>1, <2>2 DEF StopStep, StopExited, StopGraceOver, StopReturns, StopKill, childVars,
       callerVars
<1> QED
  BY <1>3, <1>4, <1>5, <1>6

\* Every step keeps CallInv.
LEMMA CallInvStep == TypeOK /\ Known /\ CallInv /\ [Next]_vars => CallInv'
<1> SUFFICES ASSUME TypeOK, Known, CallInv, [Next]_vars PROVE CallInv'
  OBVIOUS
<1>0. CallerTypeOK /\ ChildTypeOK /\ BackendTypeOK
  BY DEF TypeOK
<1>1. CASE UNCHANGED <<inbox, outbox, verdict, pc, outcome>>
  BY <1>1, QueuesKept, CallsKept DEF GivenUp
<1>2. CASE StartCheck /\ ~UNCHANGED inbox
  <2>1. /\ inbox' = [inbox EXCEPT ![spawned] = Append(@, Ping(spawned))]
        /\ UNCHANGED <<outbox, verdict, pc, outcome>>
    BY <1>2 DEF StartCheck, callerVars
  <2>2. spawned \in Gens
    BY <1>0, <1>2, GensNat DEF StartCheck, Known, ChildInv, BackendTypeOK, Gens
  <2>3. /\ Ping(spawned) \in Ids /\ Ping(spawned) \notin Calls
        /\ \A c \in Callers : Ping(spawned) # Call(c)
    BY <2>2, IdsDiffer
  <2> QED
    BY <2>1, <2>2, <2>3, CallsAppend
<1>3. CASE HostStart \/ (StartStep /\ ~(StartCheck /\ ~UNCHANGED inbox)) \/ WindowMoves
           \/ Terminating \/ UNCHANGED vars
  BY <1>1, <1>3 DEF HostStart, StartStep, StartCheck, RestartFires, PingTimeOut, WindowMoves,
     Terminating, vars, childVars, callerVars
<1> QED
  BY <1>2, <1>3, CallStep0, CallAccept, CallAnswered, CallEnds DEF Next, StartStep, ChildStep
-----------------------------------------------------------------------------
(* The inductive invariant holds of every behaviour.                       *)
THEOREM Invariance == Spec => []IInv
<1>1. Init => IInv
  BY TypeInit, KnownInit, CallInit DEF IInv, Known
<1>2. IInv /\ [Next]_vars => IInv'
  BY TypeStep, KnownStep, CallInvStep DEF IInv, Known
<1> QED
  BY <1>1, <1>2, PTL DEF Spec

(* The guardian never lets go of a child that runs or whose exit event is  *)
(* still to come: handleExit, a failed start and stop() included.          *)
THEOREM NoChildIsLost == Spec => []NoOrphan
BY Invariance, PTL DEF IInv

(* "ready" is shown only of a child that has answered the ping of its own  *)
(* start, and not because of a late line of the child before it.           *)
THEOREM ReadyMeansAnswered == Spec => []ReadyAnswered
BY Invariance, PTL DEF IInv

(* A call of the shell waits only for an answer that can still come.       *)
THEOREM WaitersCanBeAnswered == Spec => []WaitersOnCurrent
BY Invariance, PTL DEF IInv

(* From the call of stop() on no child is started, whatever was scheduled. *)
THEOREM NothingAfterStop == Spec => NoSpawnAfterStop
<1>1. ASSUME IInv, [Next]_vars PROVE [stopper # "none" => spawned' = spawned]_vars
  <2>1. stopper # "none" => ~restartTimer /\ spawned # 0
    BY <1>1 DEF IInv, StopInv, RestartsAllowed, ChildInv, TypeOK, BackendTypeOK
  <2>2. CASE HostStart \/ RestartFires
    BY <2>1, <2>2 DEF HostStart, RestartFires
  <2>3. CASE ~(HostStart \/ RestartFires)
    <3>1. UNCHANGED spawned
      BY <1>1, <2>3 DEF Next, StartStep, CallStep, ChildStep, StopStep, StartCheck, PingTimeOut,
         WindowMoves, Invoke, InvokeRefused, WriteOk, WriteError, TimeOut, AcceptLine, HandleExit,
         ChildAnswer, ChildCrash, ChildEof, Exit, StopBegin, StopExited, StopGraceOver,
         StopReturns, StopKill, Terminating, vars, backendVars
    <3> QED
      BY <3>1
  <2> QED
    BY <2>2, <2>3
<1> QED
  BY <1>1, Invariance, PTL DEF Spec, NoSpawnAfterStop
-----------------------------------------------------------------------------
(* The refinement: every step of the guardian is a step of AtMostOnceRpc   *)
(* or changes nothing the shell can see.                                   *)
LEMMA CallStatusChange ==
    ASSUME CallerTypeOK, CallerTypeOK', NEW c \in Callers,
           \A d \in Callers : d # c => pc'[d] = pc[d] /\ outcome'[d] = outcome[d]
    PROVE  CallStatus' = [CallStatus EXCEPT ![c] = CallStatus'[c]]
BY DEF CallStatus

\* A call whose pending entry is failed is seen as failed by the contract.
LEMMA CallStatusFailed ==
    ASSUME CallerTypeOK, CallerTypeOK', GivenUp
    PROVE  \E cs \in SUBSET {c \in Callers : CallStatus[c] = "active"} :
              CallStatus' = [c \in Callers |-> IF c \in cs THEN "failed" ELSE CallStatus[c]]
<1> DEFINE cs == {c \in Callers : pc[c] # "returned" /\ pc'[c] = "returned"}
<1>1. \A c \in cs : CallStatus[c] = "active" /\ CallStatus'[c] = "failed"
  BY DEF GivenUp, CallStatus
<1>2. \A c \in Callers \ cs : CallStatus'[c] = CallStatus[c]
  BY DEF GivenUp, CallStatus
<1>3. CallStatus' = [c \in Callers |-> IF c \in cs THEN "failed" ELSE CallStatus[c]]
  BY <1>1, <1>2 DEF CallStatus
<1> QED
  BY <1>1, <1>3

(* Failing calls is a step of the contract, or none when there are none.   *)
LEMMA FailingIsFail ==
    ASSUME CallerTypeOK, CallerTypeOK', GivenUp, UNCHANGED <<verdict, Stage>>
    PROVE  [Rpc!Next]_(Rpc!vars)
<1>1. PICK cs \in SUBSET {c \in Callers : CallStatus[c] = "active"} :
         CallStatus' = [c \in Callers |-> IF c \in cs THEN "failed" ELSE CallStatus[c]]
  BY CallStatusFailed
<1>2. CASE cs = {}
  <2>1. CallStatus' = CallStatus
    BY <1>1, <1>2 DEF CallStatus
  <2> QED
    BY <2>1 DEF Rpc!vars
<1>3. CASE cs # {}
  <2>1. Rpc!Fail(cs)
    BY <1>1, <1>3 DEF Rpc!Fail
  <2> QED
    BY <2>1 DEF Rpc!Next
<1> QED
  BY <1>2, <1>3

\* Every step of the guardian is a step of AtMostOnceRpc or a stutter.
LEMMA StepImplements == IInv /\ IInv' /\ [Next]_vars => [Rpc!Next]_(Rpc!vars)
<1> SUFFICES ASSUME IInv, IInv', [Next]_vars PROVE [Rpc!Next]_(Rpc!vars)
  OBVIOUS
<1>0. /\ BackendTypeOK /\ ChildTypeOK /\ CallerTypeOK /\ StopTypeOK /\ CallerTypeOK'
      /\ NoOrphan /\ StopInv /\ WaitersOnCurrent /\ CallInv
  BY DEF IInv, TypeOK
<1>1. ASSUME UNCHANGED <<pc, outcome, verdict, stopper>> PROVE [Rpc!Next]_(Rpc!vars)
  BY <1>1 DEF Rpc!vars, CallStatus, Stage
<1>2. ASSUME NEW c \in Callers, InvokeRefused(c) PROVE [Rpc!Next]_(Rpc!vars)
  <2>1. /\ pc[c] = "idle" /\ pc'[c] = "returned" /\ outcome'[c] = "refused"
        /\ \A d \in Callers : d # c => pc'[d] = pc[d] /\ outcome'[d] = outcome[d]
        /\ UNCHANGED <<verdict, stopper>>
    BY <1>0, <1>2 DEF InvokeRefused, Return, CallerTypeOK, childVars, stopVars
  <2>2. CallStatus[c] = "idle" /\ CallStatus'[c] = "refused" /\ verdict[c] = "none"
    BY <1>0, <2>1 DEF CallStatus, CallInv
  <2>3. Rpc!Refuse(c)
    BY <1>0, <2>1, <2>2, CallStatusChange DEF Rpc!Refuse, Stage
  <2> QED
    BY <2>3 DEF Rpc!Next
<1>3. ASSUME NEW c \in Callers, Invoke(c) PROVE [Rpc!Next]_(Rpc!vars)
  <2>1. /\ pc[c] = "idle" /\ pc'[c] = "writing" /\ ~rpcClosed
        /\ \A d \in Callers : d # c => pc'[d] = pc[d] /\ outcome'[d] = outcome[d]
        /\ UNCHANGED <<verdict, stopper>>
    BY <1>0, <1>3 DEF Invoke, CallerTypeOK, childVars, stopVars
  <2>2. CallStatus[c] = "idle" /\ CallStatus'[c] = "active"
    BY <2>1 DEF CallStatus
  <2>3. Stage = "open"
    BY <1>0, <2>1 DEF StopInv, Stage
  <2>4. Rpc!Invoke(c)
    BY <1>0, <2>1, <2>2, <2>3, CallStatusChange DEF Rpc!Invoke, Stage
  <2> QED
    BY <2>4 DEF Rpc!Next
<1>4. ASSUME NEW c \in Callers, WriteOk(c) \/ WriteError(c) \/ TimeOut(c)
      PROVE  [Rpc!Next]_(Rpc!vars)
  <2>1. UNCHANGED <<verdict, stopper>>
    BY <1>4 DEF WriteOk, WriteError, TimeOut, childVars, stopVars
  <2>2. CASE WriteOk(c) /\ Call(c) \in pending
    <3>1. /\ pc[c] = "writing" /\ pc'[c] = "await"
          /\ \A d \in Callers : d # c => pc'[d] = pc[d]
          /\ UNCHANGED outcome
      BY <1>0, <2>2 DEF WriteOk, CallerTypeOK
    <3>2. CallStatus' = CallStatus
      BY <3>1 DEF CallStatus
    <3> QED
      BY <2>1, <3>2 DEF Rpc!vars, Stage
  <2>3. CASE ~(WriteOk(c) /\ Call(c) \in pending)
    <3>1. GivenUp
      BY <1>0, <1>4, <2>3 DEF WriteOk, WriteError, TimeOut, Return, GivenUp, CallerTypeOK
    <3> QED
      BY <1>0, <2>1, <3>1, FailingIsFail DEF Stage
  <2> QED
    BY <2>2, <2>3
<1>5. ASSUME NEW g \in Gens, AcceptLine(g) PROVE [Rpc!Next]_(Rpc!vars)
  <2> DEFINE line == Head(outbox[g])
  <2>1. UNCHANGED <<verdict, stopper>>
    BY <1>5 DEF AcceptLine, stopVars
  <2>2. CASE UNCHANGED <<pc, outcome>>
    BY <1>1, <2>1, <2>2
  <2>3. CASE ~UNCHANGED <<pc, outcome>>
    <3>1. PICK c \in Callers : line.id = Call(c) /\ Return(c, line.body)
      BY <1>5, <2>3 DEF AcceptLine
    <3>2. Call(c) \in pending
      BY <1>5, <2>3, <3>1 DEF AcceptLine
    <3>3. line = outbox[g][1] /\ 1 \in DOMAIN outbox[g] /\ line.body \in Bodies
      <4>1. outbox[g] \in Seq(Answer) /\ outbox[g] # <<>>
        BY <1>0, <1>5 DEF AcceptLine, ChildTypeOK
      <4>2. line = outbox[g][1] /\ 1 \in DOMAIN outbox[g] /\ line \in Answer
        BY <4>1, HeadTailProperties, EmptySeq
      <4> QED
        BY <4>2 DEF Answer
    <3>4. line.body = verdict[c] /\ verdict[c] # "none"
      BY <1>0, <3>1, <3>3 DEF CallInv, Bodies
    <3>5. /\ pc[c] \in {"writing", "await"} /\ pc'[c] = "returned" /\ outcome'[c] = verdict[c]
          /\ \A d \in Callers : d # c => pc'[d] = pc[d] /\ outcome'[d] = outcome[d]
      BY <1>0, <3>1, <3>2, <3>4 DEF WaitersOnCurrent, Return, CallerTypeOK
    <3>6. CallStatus[c] = "active" /\ CallStatus'[c] = verdict[c]
      BY <3>5 DEF CallStatus
    <3>7. Rpc!Answer(c)
      BY <1>0, <2>1, <3>4, <3>5, <3>6, CallStatusChange DEF Rpc!Answer, Stage
    <3> QED
      BY <3>7 DEF Rpc!Next
  <2> QED
    BY <2>2, <2>3
<1>6. ASSUME NEW g \in Gens, HandleExit(g) PROVE [Rpc!Next]_(Rpc!vars)
  <2>1. UNCHANGED <<verdict, stopper>>
    BY <1>6 DEF HandleExit, stopVars
  <2>2. GivenUp
    BY <1>0, <1>6 DEF HandleExit, FailPending, GivenUp
  <2> QED
    BY <1>0, <2>1, <2>2, FailingIsFail DEF Stage
<1>7. ASSUME NEW g \in Gens, ChildAnswer(g) PROVE [Rpc!Next]_(Rpc!vars)
  <2> DEFINE id == Head(inbox[g])
  <2>1. PICK body \in Bodies : verdict' = [c \in Callers |-> IF id = Call(c) THEN body ELSE verdict[c]]
    BY <1>7 DEF ChildAnswer, Bodies
  <2>2. UNCHANGED <<pc, outcome, stopper>> /\ os[g] = "running"
    BY <1>7 DEF ChildAnswer, callerVars, stopVars
  <2>3. id = inbox[g][1] /\ 1 \in DOMAIN inbox[g]
    BY <1>0, <1>7, HeadTailProperties, EmptySeq DEF ChildAnswer, ChildTypeOK
  <2>4. CASE \A c \in Callers : id # Call(c)
    <3>1. verdict' = verdict
      BY <1>0, <2>1, <2>4 DEF ChildTypeOK
    <3> QED
      BY <1>1, <2>2, <3>1
  <2>5. ASSUME NEW c \in Callers, id = Call(c) PROVE [Rpc!Next]_(Rpc!vars)
    <3>1. /\ verdict[c] = "none" /\ pc[c] \in {"await", "returned"}
          /\ pc[c] = "returned" => outcome[c] = "failed"
      BY <1>0, <2>3, <2>5 DEF CallInv
    <3>2. CallStatus[c] \in {"active", "failed"} /\ UNCHANGED <<CallStatus, Stage>>
      BY <2>2, <3>1 DEF CallStatus, Stage
    <3>3. Stage # "down"
      BY <1>0, <2>2, GensNat DEF NoOrphan, StopInv, Stage
    <3>4. verdict' = [verdict EXCEPT ![c] = body]
      BY <1>0, <2>1, <2>5, IdsDiffer DEF ChildTypeOK
    <3>5. Rpc!Execute(c)
      BY <3>1, <3>2, <3>3, <3>4 DEF Rpc!Execute, Rpc!Bodies, Bodies
    <3> QED
      BY <3>5 DEF Rpc!Next
  <2> QED
    BY <2>4, <2>5
<1>8. ASSUME StopBegin PROVE [Rpc!Next]_(Rpc!vars)
  <2>1. /\ FailPending /\ stopper = "none" /\ stopper' \in {"done", "grace"}
        /\ UNCHANGED verdict
    BY <1>8 DEF StopBegin
  <2>2. GivenUp
    BY <1>0, <2>1 DEF FailPending, GivenUp
  <2>3. Stage = "open" /\ Stage' \in {"closing", "down"}
    BY <2>1 DEF Stage
  <2>4. Rpc!Close
    BY <1>0, <2>1, <2>2, <2>3, CallStatusFailed DEF Rpc!Close
  <2> QED
    BY <2>4 DEF Rpc!Next
<1>9. ASSUME StopStep PROVE [Rpc!Next]_(Rpc!vars)
  <2>1. /\ UNCHANGED <<pc, outcome, verdict>>
        /\ stopper \in {"grace", "kill", "await"} /\ stopper' \in {"done", "kill", "await"}
    BY <1>9 DEF StopStep, StopExited, StopGraceOver, StopReturns, StopKill, Exit, childVars,
       callerVars
  <2>2. CASE stopper' = "done"
    <3>1. Stage = "closing" /\ Stage' = "down" /\ GivenUp
      BY <2>1, <2>2 DEF Stage, GivenUp
    <3>2. Rpc!Close
      BY <1>0, <2>1, <3>1, CallStatusFailed DEF Rpc!Close
    <3> QED
      BY <3>2 DEF Rpc!Next
  <2>3. CASE stopper' # "done"
    BY <2>1, <2>3 DEF Rpc!vars, CallStatus, Stage
  <2> QED
    BY <2>2, <2>3
<1>10. ASSUME \/ HostStart \/ StartStep \/ WindowMoves \/ Terminating \/ UNCHANGED vars
              \/ \E g \in Gens : ChildCrash(g) \/ ChildEof(g)
       PROVE  [Rpc!Next]_(Rpc!vars)
  BY <1>1, <1>10 DEF HostStart, StartStep, StartCheck, RestartFires, PingTimeOut, WindowMoves,
     Terminating, ChildCrash, ChildEof, Exit, vars, childVars, callerVars, stopVars
<1> QED
  BY <1>2, <1>3, <1>4, <1>5, <1>6, <1>7, <1>8, <1>9, <1>10 DEF Next, CallStep, ChildStep

(* The guardian implements the contract of a JSON-RPC client: the shell's  *)
(* calls are carried out at most once, answered with their own answer, and *)
(* nothing is done for them once stop() has returned.                      *)
THEOREM GuardianImplements == Spec => Implements
<1>1. Init => Rpc!Init
  BY DEF Init, Rpc!Init, CallStatus, Stage
<1>2. IInv /\ IInv' /\ [Next]_vars => [Rpc!Next]_(Rpc!vars)
  BY StepImplements
<1> QED
  BY <1>1, <1>2, Invariance, PTL DEF Spec, Implements, Rpc!Spec
=============================================================================
