------------------------- MODULE StdioEngineProofs -------------------------
(***************************************************************************)
(* The safety of StdioEngine for every set of callers, bound on starts and *)
(* pipe capacity: types first, then the child, then the calls in progress, *)
(* then what becomes of their requests.  IInv is inductive; the theorems   *)
(* follow from it, the refinement of AtMostOnceRpc last.                   *)
(***************************************************************************)
EXTENDS StdioEngine, SequenceTheorems, TLAPS

(* A new client has the types, and every step keeps them: pipes, channels  *)
(* and the pending map only ever get requests and results.                 *)
LEMMA TypeInit == Init => TypeOK
<1> SUFFICES ASSUME Init PROVE TypeOK
  OBVIOUS
<1>1. ClientTypeOK
  <2>1. [i \in {} |-> 0] \in [{} -> Callers] /\ DOMAIN [i \in {} |-> 0] = {}
    OBVIOUS
  <2>2. pending \in [DOMAIN pending -> Callers] /\ DOMAIN pending \subseteq Nat
    BY <2>1 DEF Init
  <2>3. starts \in 0..MaxStarts
    BY MaxStartsAssumption DEF Init
  <2> QED
    BY <2>2, <2>3 DEF Init, ClientTypeOK
<1>2. EngineTypeOK
  BY DEF Init, EngineTypeOK
<1>3. CallerTypeOK
  BY DEF Init, CallerTypeOK, NoId, Methods
<1>4. CloseTypeOK
  BY DEF Init, CloseTypeOK
<1> QED
  BY <1>1, <1>2, <1>3, <1>4 DEF TypeOK

(* One step per action.                                                    *)
LEMMA TypeStep == TypeOK /\ [Next]_vars => TypeOK'
<1> SUFFICES ASSUME TypeOK, [Next]_vars PROVE TypeOK'
  OBVIOUS
<1>0. ClientTypeOK /\ EngineTypeOK /\ CallerTypeOK /\ CloseTypeOK
  BY DEF TypeOK
<1> USE MaxStartsAssumption, <1>0
<1>1. ASSUME NEW c \in Callers, EnsureRefused(c) PROVE TypeOK'
  <2>1. CallerTypeOK'
    BY <1>1 DEF EnsureRefused, Return, Goto, CallerTypeOK
  <2>2. ClientTypeOK' /\ EngineTypeOK' /\ CloseTypeOK'
    BY <1>1 DEF EnsureRefused, clientVars, engineVars, closeVars, ClientTypeOK,
        EngineTypeOK, CloseTypeOK
  <2> QED
    BY <2>1, <2>2 DEF TypeOK
<1>2. ASSUME NEW c \in Callers, EnsureFound(c) PROVE TypeOK'
  <2>1. CallerTypeOK'
    BY <1>2 DEF EnsureFound, Goto, CallerTypeOK
  <2>2. ClientTypeOK' /\ EngineTypeOK' /\ CloseTypeOK'
    BY <1>2 DEF EnsureFound, clientVars, engineVars, closeVars, ClientTypeOK,
        EngineTypeOK, CloseTypeOK
  <2> QED
    BY <2>1, <2>2 DEF TypeOK
<1>3. ASSUME NEW c \in Callers, EnsureSpawned(c) PROVE TypeOK'
  <2>1. ClientTypeOK'
    BY <1>3 DEF EnsureSpawned, MayStart, Gens, ClientTypeOK
  <2>2. EngineTypeOK'
    BY <1>3 DEF EnsureSpawned, MayStart, Gens, EngineTypeOK
  <2>3. CallerTypeOK'
    BY <1>3 DEF EnsureSpawned, Goto, Methods, CallerTypeOK
  <2>4. CloseTypeOK'
    BY <1>3 DEF EnsureSpawned, closeVars, CloseTypeOK
  <2> QED
    BY <2>1, <2>2, <2>3, <2>4 DEF TypeOK
<1>4. ASSUME NEW c \in Callers, AllocateId(c) PROVE TypeOK'
  <2>1. ClientTypeOK'
    BY <1>4 DEF AllocateId, ClientTypeOK
  <2>2. CallerTypeOK'
    BY <1>4 DEF AllocateId, Return, Goto, ClientTypeOK, CallerTypeOK
  <2>3. EngineTypeOK' /\ CloseTypeOK'
    BY <1>4 DEF AllocateId, engineVars, closeVars, EngineTypeOK, CloseTypeOK
  <2> QED
    BY <2>1, <2>2, <2>3 DEF TypeOK
<1>5. ASSUME NEW c \in Callers, Register(c) PROVE TypeOK'
  <2>1. ClientTypeOK'
    BY <1>5 DEF Register, CallerTypeOK, ClientTypeOK
  <2>2. CallerTypeOK'
    BY <1>5 DEF Register, Return, Goto, Waiting, ClientTypeOK, CallerTypeOK
  <2>3. EngineTypeOK' /\ CloseTypeOK'
    BY <1>5 DEF Register, engineVars, closeVars, EngineTypeOK, CloseTypeOK
  <2> QED
    BY <2>1, <2>2, <2>3 DEF TypeOK
<1>6. ASSUME NEW c \in Callers, AcquireWrite(c) PROVE TypeOK'
  <2>1. CallerTypeOK'
    BY <1>6 DEF AcquireWrite, Goto, Waiting, CallerTypeOK
  <2>2. ClientTypeOK' /\ EngineTypeOK' /\ CloseTypeOK'
    BY <1>6 DEF AcquireWrite, clientVars, engineVars, closeVars, ClientTypeOK,
        EngineTypeOK, CloseTypeOK
  <2> QED
    BY <2>1, <2>2 DEF TypeOK
<1>7. ASSUME NEW c \in Callers, WriteOk(c) PROVE TypeOK'
  <2>1. EngineTypeOK'
    <3> DEFINE r == [id |-> reqID[c], caller |-> c, method |-> method[c]]
    <3>1. r \in Request
      BY DEF CallerTypeOK, Request
    <3>2. tgt[c] \in Gens => Append(inbox[tgt[c]], r) \in Seq(Request)
      BY <3>1 DEF EngineTypeOK
    <3> QED
      BY <1>7, <3>2 DEF WriteOk, EngineTypeOK
  <2>2. CallerTypeOK'
    BY <1>7 DEF WriteOk, Goto, Waiting, CallerTypeOK
  <2>3. ClientTypeOK' /\ CloseTypeOK'
    BY <1>7 DEF WriteOk, clientVars, closeVars, ClientTypeOK, CloseTypeOK
  <2> QED
    BY <2>1, <2>2, <2>3 DEF TypeOK
<1>8. ASSUME NEW c \in Callers, WriteError(c) PROVE TypeOK'
  <2>1. CallerTypeOK'
    BY <1>8 DEF WriteError, Goto, Waiting, CallerTypeOK
  <2>2. ClientTypeOK' /\ EngineTypeOK' /\ CloseTypeOK'
    BY <1>8 DEF WriteError, clientVars, engineVars, closeVars, ClientTypeOK,
        EngineTypeOK, CloseTypeOK
  <2> QED
    BY <2>1, <2>2 DEF TypeOK
<1>9. ASSUME NEW c \in Callers, Forget(c) PROVE TypeOK'
  <2>1. ClientTypeOK'
    BY <1>9 DEF Forget, Without, Restrict, ClientTypeOK
  <2>2. CallerTypeOK'
    BY <1>9 DEF Forget, Return, Goto, CallerTypeOK
  <2>3. EngineTypeOK' /\ CloseTypeOK'
    BY <1>9 DEF Forget, engineVars, closeVars, EngineTypeOK, CloseTypeOK
  <2> QED
    BY <2>1, <2>2, <2>3 DEF TypeOK
<1>10. ASSUME NEW c \in Callers, TakeReply(c) PROVE TypeOK'
  <2>1. CallerTypeOK'
    BY <1>10 DEF TakeReply, Return, Goto, OutcomeOf, Bodies, Methods, Empty, CallerTypeOK
  <2>2. ClientTypeOK' /\ EngineTypeOK' /\ CloseTypeOK'
    BY <1>10 DEF TakeReply, clientVars, engineVars, closeVars, ClientTypeOK,
        EngineTypeOK, CloseTypeOK
  <2> QED
    BY <2>1, <2>2 DEF TypeOK
<1>11. ASSUME NEW c \in Callers, TimeOut(c) PROVE TypeOK'
  <2>1. CallerTypeOK'
    BY <1>11 DEF TimeOut, Goto, Waiting, CallerTypeOK
  <2>2. ClientTypeOK' /\ EngineTypeOK' /\ CloseTypeOK'
    BY <1>11 DEF TimeOut, clientVars, engineVars, closeVars, ClientTypeOK,
        EngineTypeOK, CloseTypeOK
  <2> QED
    BY <2>1, <2>2 DEF TypeOK
<1>12. ASSUME NEW g \in Gens, EngineTake(g) PROVE TypeOK'
  <2>1. EngineTypeOK'
    <3>1. Head(inbox[g]) \in Request /\ Tail(inbox[g]) \in Seq(Request)
      BY <1>12, HeadTailProperties DEF EngineTake, EngineTypeOK
    <3>2. PICK body \in Bodies :
             /\ busy' = [busy EXCEPT ![g] = [id |-> Head(inbox[g]).id, body |-> body]]
             /\ verdict' = IF Head(inbox[g]).method = "ping" THEN verdict
                           ELSE [verdict EXCEPT ![Head(inbox[g]).caller] = body]
      BY <1>12 DEF EngineTake, Bodies
    <3>3. [id |-> Head(inbox[g]).id, body |-> body] \in Reply
      BY <3>1 DEF Request, Reply
    <3>4. /\ busy' \in [Gens -> Reply \cup {Idle}]
          /\ verdict' \in [Callers -> Bodies \cup {"none"}]
      BY <3>2, <3>3 DEF EngineTypeOK
    <3> QED
      BY <1>12, <3>1, <3>4 DEF EngineTake, EngineTypeOK
  <2>2. ClientTypeOK' /\ CallerTypeOK' /\ CloseTypeOK'
    BY <1>12 DEF EngineTake, clientVars, callerVars, closeVars, ClientTypeOK,
        CallerTypeOK, CloseTypeOK
  <2> QED
    BY <2>1, <2>2 DEF TypeOK
<1>13. ASSUME NEW g \in Gens, EngineReply(g) PROVE TypeOK'
  <2>1. EngineTypeOK'
    BY <1>13 DEF EngineReply, EngineTypeOK
  <2>2. ClientTypeOK' /\ CallerTypeOK' /\ CloseTypeOK'
    BY <1>13 DEF EngineReply, clientVars, callerVars, closeVars, ClientTypeOK,
        CallerTypeOK, CloseTypeOK
  <2> QED
    BY <2>1, <2>2 DEF TypeOK
<1>14. ASSUME NEW g \in Gens, EngineOversize(g) PROVE TypeOK'
  <2>1. EngineTypeOK'
    BY <1>14 DEF EngineOversize, Reply, Bodies, NoId, EngineTypeOK
  <2>2. ClientTypeOK' /\ CallerTypeOK' /\ CloseTypeOK'
    BY <1>14 DEF EngineOversize, clientVars, callerVars, closeVars, ClientTypeOK,
        CallerTypeOK, CloseTypeOK
  <2> QED
    BY <2>1, <2>2 DEF TypeOK
<1>15. ASSUME NEW g \in Gens, EngineEof(g) PROVE TypeOK'
  <2>1. EngineTypeOK'
    BY <1>15 DEF EngineEof, Exit, EngineTypeOK
  <2>2. ClientTypeOK' /\ CallerTypeOK' /\ CloseTypeOK'
    BY <1>15 DEF EngineEof, Exit, clientVars, callerVars, closeVars, ClientTypeOK,
        CallerTypeOK, CloseTypeOK
  <2> QED
    BY <2>1, <2>2 DEF TypeOK
<1>16. ASSUME NEW g \in Gens, EngineCrash(g) PROVE TypeOK'
  <2>1. EngineTypeOK'
    BY <1>16 DEF EngineCrash, Exit, EngineTypeOK
  <2>2. ClientTypeOK' /\ CallerTypeOK' /\ CloseTypeOK'
    BY <1>16 DEF EngineCrash, Exit, clientVars, callerVars, closeVars,
        ClientTypeOK, CallerTypeOK, CloseTypeOK
  <2> QED
    BY <2>1, <2>2 DEF TypeOK
<1>17. ASSUME NEW g \in Gens, DispatchLine(g) PROVE TypeOK'
  <2>1. ClientTypeOK'
    BY <1>17 DEF DispatchLine, Without, Restrict, ClientTypeOK
  <2>2. EngineTypeOK'
    <3>1. Head(outbox[g]) \in Reply /\ Tail(outbox[g]) \in Seq(Reply)
      BY <1>17, HeadTailProperties DEF DispatchLine, EngineTypeOK
    <3>2. \A i \in DOMAIN pending : pending[i] \in Callers
      BY DEF ClientTypeOK
    <3> DEFINE d == [to |-> pending[Head(outbox[g]).id], body |-> Head(outbox[g]).body]
    <3>3. Head(outbox[g]).id \in DOMAIN pending => d \in Delivery
      BY <3>1, <3>2 DEF Delivery, Reply
    <3>4. \/ delivering' = delivering
          \/ /\ Head(outbox[g]).id \in DOMAIN pending
             /\ delivering' = [delivering EXCEPT ![g] = d]
      BY <1>17 DEF DispatchLine
    <3>5. delivering' \in [Gens -> Delivery \cup {Nobody}]
      BY <3>3, <3>4 DEF EngineTypeOK
    <3> QED
      BY <1>17, <3>1, <3>5 DEF DispatchLine, EngineTypeOK
  <2>3. CallerTypeOK' /\ CloseTypeOK'
    BY <1>17 DEF DispatchLine, callerVars, closeVars, CallerTypeOK, CloseTypeOK
  <2> QED
    BY <2>1, <2>2, <2>3 DEF TypeOK
<1>18. ASSUME NEW g \in Gens, DeliverReply(g) PROVE TypeOK'
  <2>1. EngineTypeOK'
    BY <1>18 DEF DeliverReply, EngineTypeOK
  <2>2. CallerTypeOK'
    BY <1>18 DEF DeliverReply, Delivery, Nobody, EngineTypeOK, CallerTypeOK
  <2>3. ClientTypeOK' /\ CloseTypeOK'
    BY <1>18 DEF DeliverReply, clientVars, closeVars, ClientTypeOK, CloseTypeOK
  <2> QED
    BY <2>1, <2>2, <2>3 DEF TypeOK
<1>19. ASSUME NEW g \in Gens, GenerationEnded(g) PROVE TypeOK'
  <2>1. ClientTypeOK'
    BY <1>19 DEF GenerationEnded, FailPending, ClientTypeOK
  <2>2. EngineTypeOK'
    BY <1>19 DEF GenerationEnded, EngineTypeOK
  <2>3. CallerTypeOK'
    BY <1>19 DEF GenerationEnded, FailPending, CallerTypeOK
  <2>4. CloseTypeOK'
    BY <1>19 DEF GenerationEnded, closeVars, CloseTypeOK
  <2> QED
    BY <2>1, <2>2, <2>3, <2>4 DEF TypeOK
<1>20. CASE IntervalElapsed
  <2>1. ClientTypeOK'
    BY <1>20 DEF IntervalElapsed, ClientTypeOK
  <2>2. EngineTypeOK' /\ CallerTypeOK' /\ CloseTypeOK'
    BY <1>20 DEF IntervalElapsed, engineVars, callerVars, closeVars, EngineTypeOK,
        CallerTypeOK, CloseTypeOK
  <2> QED
    BY <2>1, <2>2 DEF TypeOK
<1>21. CASE CloseBegin
  <2>1. ClientTypeOK'
    BY <1>21 DEF CloseBegin, FailPending, ClientTypeOK
  <2>2. CallerTypeOK'
    BY <1>21 DEF CloseBegin, FailPending, CallerTypeOK
  <2>3. CloseTypeOK'
    BY <1>21 DEF CloseBegin, ClientTypeOK, CloseTypeOK
  <2>4. EngineTypeOK'
    BY <1>21 DEF CloseBegin, engineVars, EngineTypeOK
  <2> QED
    BY <2>1, <2>2, <2>3, <2>4 DEF TypeOK
<1>22. CASE CloseStdin
  <2>1. EngineTypeOK'
    BY <1>22 DEF CloseStdin, CloseTypeOK, EngineTypeOK
  <2>2. CloseTypeOK'
    BY <1>22 DEF CloseStdin, CloseTypeOK
  <2>3. ClientTypeOK' /\ CallerTypeOK'
    BY <1>22 DEF CloseStdin, clientVars, callerVars, ClientTypeOK, CallerTypeOK
  <2> QED
    BY <2>1, <2>2, <2>3 DEF TypeOK
<1>23. CASE CloseReaped
  <2>1. CloseTypeOK'
    BY <1>23 DEF CloseReaped, CloseTypeOK
  <2>2. ClientTypeOK' /\ EngineTypeOK' /\ CallerTypeOK'
    BY <1>23 DEF CloseReaped, clientVars, engineVars, callerVars, ClientTypeOK,
        EngineTypeOK, CallerTypeOK
  <2> QED
    BY <2>1, <2>2 DEF TypeOK
<1>24. CASE CloseKill
  <2>1. EngineTypeOK'
    <3>0. captured \in Gens
      BY <1>24 DEF CloseKill, CloseTypeOK
    <3>1. CASE os[captured] = "running"
      <4>1. Exit(captured)
        BY <1>24, <3>1 DEF CloseKill
      <4> QED
        BY <3>0, <4>1 DEF Exit, EngineTypeOK
    <3>2. CASE os[captured] # "running"
      BY <1>24, <3>2 DEF CloseKill, EngineTypeOK, engineVars
    <3> QED
      BY <3>1, <3>2
  <2>2. CloseTypeOK'
    BY <1>24 DEF CloseKill, CloseTypeOK
  <2>3. ClientTypeOK' /\ CallerTypeOK'
    BY <1>24 DEF CloseKill, Exit, clientVars, callerVars, ClientTypeOK, CallerTypeOK
  <2> QED
    BY <2>1, <2>2, <2>3 DEF TypeOK
<1>25. CASE UNCHANGED vars
  BY <1>25 DEF vars, clientVars, engineVars, callerVars, closeVars, TypeOK,
     ClientTypeOK, EngineTypeOK, CallerTypeOK, CloseTypeOK
<1> QED
  BY <1>1, <1>2, <1>3, <1>4, <1>5, <1>6, <1>7, <1>8, <1>9, <1>10, <1>11, <1>12, <1>13, <1>14, <1>15, <1>16, <1>17, <1>18, <1>19, <1>20, <1>21, <1>22, <1>23, <1>24, <1>25
     DEF Next, EnsureStarted, CallerStep, EngineStep, ReaderStep, CloseStep, Terminating
-----------------------------------------------------------------------------
(* The child: a new one is started only when the last one has been waited  *)
(* for, and Close takes the last one over.                                 *)
LEMMA ProcessInit == Init => ProcessInv
BY MaxStartsAssumption DEF Init, ProcessInv, Gens

(* Only a start, an end of a child and Close touch this.                   *)
LEMMA ProcessStep == TypeOK /\ ProcessInv /\ [Next]_vars => ProcessInv'
<1> SUFFICES ASSUME TypeOK, ProcessInv, [Next]_vars PROVE ProcessInv'
  OBVIOUS
<1>0. /\ starts \in Nat /\ os \in [Gens -> {"unborn", "running", "exited", "reaped"}]
      /\ proc \in {0} \cup Gens /\ captured \in {0} \cup Gens /\ closed \in BOOLEAN
      /\ closer \in {"eof", "waiting", "killed"} => captured # 0
  BY DEF TypeOK, ClientTypeOK, EngineTypeOK, CloseTypeOK
<1>1. ASSUME UNCHANGED <<proc, closed, starts, os, closer, captured>> PROVE ProcessInv'
  BY <1>1 DEF ProcessInv
<1>2. ASSUME NEW c \in Callers, EnsureStarted(c) \/ CallerStep(c) \/ TimeOut(c),
             ~EnsureSpawned(c)
      PROVE  ProcessInv'
  BY <1>1, <1>2 DEF EnsureStarted, CallerStep, EnsureRefused, EnsureFound, AllocateId, Register, AcquireWrite, WriteOk, WriteError, Forget, TakeReply, TimeOut,
     clientVars, engineVars, closeVars
<1>3. ASSUME NEW c \in Callers, EnsureSpawned(c) PROVE ProcessInv'
  <2>1. /\ starts + 1 \in Gens /\ starts' = starts + 1 /\ proc' = starts + 1
        /\ os' = [os EXCEPT ![starts + 1] = "running"]
        /\ ~closed /\ proc = 0 /\ UNCHANGED <<closed, closer, captured>>
    BY <1>0, <1>3, MaxStartsAssumption DEF EnsureSpawned, MayStart, Gens, closeVars
  <2>2. \A g \in Gens : os'[g] = "unborn" <=> g > starts'
    BY <1>0, <2>1 DEF ProcessInv, Gens
  <2>3. \A g \in Gens : os'[g] \in {"running", "exited"} => g = proc'
    BY <1>0, <2>1 DEF ProcessInv, Gens
  <2> QED
    BY <1>0, <2>1, <2>2, <2>3 DEF ProcessInv
<1>4. ASSUME NEW g \in Gens, Exit(g), os[g] = "running",
             closer' = closer \/ (closer = "waiting" /\ closer' = "killed"),
             captured' = captured
      PROVE  ProcessInv'
  <2>1. /\ os' = [os EXCEPT ![g] = "exited"]
        /\ UNCHANGED <<proc, closed, starts>>
    BY <1>4 DEF Exit, clientVars
  <2> QED
    BY <1>0, <1>4, <2>1 DEF ProcessInv
<1>5. ASSUME NEW g \in Gens, GenerationEnded(g) PROVE ProcessInv'
  <2>1. /\ os[g] = "exited" /\ os' = [os EXCEPT ![g] = "reaped"]
        /\ proc' = IF proc = g THEN 0 ELSE proc
        /\ UNCHANGED <<closed, starts, closer, captured>>
    BY <1>5 DEF GenerationEnded, closeVars
  <2> QED
    BY <1>0, <2>1 DEF ProcessInv
<1>6. CASE CloseBegin
  <2>1. /\ ~closed /\ closed' /\ captured' = proc /\ proc' = 0
        /\ closer' = IF proc = 0 THEN "done" ELSE "eof"
        /\ UNCHANGED <<starts, os>>
    BY <1>6 DEF CloseBegin, engineVars
  <2> QED
    BY <1>0, <2>1 DEF ProcessInv
<1>7. CASE CloseStdin
  BY <1>0, <1>7 DEF CloseStdin, clientVars, ProcessInv
<1>8. CASE CloseReaped
  BY <1>0, <1>8 DEF CloseReaped, clientVars, engineVars, ProcessInv
<1>9. CASE CloseKill
  <2>1. captured \in Gens
    BY <1>0, <1>9 DEF CloseKill
  <2>2. CASE os[captured] = "running"
    BY <1>4, <1>9, <2>1, <2>2 DEF CloseKill
  <2>3. CASE os[captured] # "running"
    BY <1>0, <1>9, <2>3 DEF CloseKill, clientVars, engineVars, ProcessInv
  <2> QED
    BY <2>2, <2>3
<1>10. ASSUME NEW g \in Gens, EngineStep(g) PROVE ProcessInv'
  BY <1>1, <1>4, <1>10 DEF EngineStep, EngineTake, EngineReply, EngineOversize, EngineEof,
     EngineCrash, clientVars, closeVars
<1>11. ASSUME NEW g \in Gens, DispatchLine(g) \/ DeliverReply(g) PROVE ProcessInv'
  BY <1>1, <1>11 DEF DispatchLine, DeliverReply, clientVars, closeVars
<1>12. CASE IntervalElapsed
  BY <1>1, <1>12 DEF IntervalElapsed, engineVars, closeVars
<1>13. CASE UNCHANGED vars
  BY <1>1, <1>13 DEF vars, clientVars, engineVars, closeVars
<1> QED
  BY <1>2, <1>3, <1>5, <1>6, <1>7, <1>8, <1>9, <1>10, <1>11, <1>12, <1>13
     DEF Next, ReaderStep, CloseStep, Terminating
-----------------------------------------------------------------------------
(* The calls: every waiter has exactly one result coming.                  *)
LEMMA WaitersInit == Init => PendingOnCurrent /\ OneResult /\ WaiterInv
<1> SUFFICES ASSUME Init PROVE PendingOnCurrent /\ OneResult /\ WaiterInv
  OBVIOUS
<1>1. DOMAIN pending = {} /\ \A c \in Callers : pc[c] = "idle" /\ chan[c] = Empty
  BY DEF Init
<1>2. \A g \in Gens : delivering[g] = Nobody
  BY DEF Init
<1>3. \A c \in Callers : reqID[c] = NoId /\ reqID[c] <= nextID
  BY DEF Init, NoId
<1> QED
  BY <1>1, <1>2, <1>3 DEF PendingOnCurrent, OneResult, WaiterInv, Registered, InFlight,
     Answered, Waiting

Waiters == PendingOnCurrent /\ OneResult /\ WaiterInv

(* Steps that leave all of this alone.                                     *)
LEMMA WaitersQuiet ==
    ASSUME Waiters, UNCHANGED <<proc, pending, nextID, delivering, pc, reqID, tgt, chan>>
    PROVE  Waiters'
BY DEF Waiters, PendingOnCurrent, OneResult, WaiterInv, Registered, InFlight, Answered

(* A caller moves on without touching its registration.                    *)
LEMMA WaitersMove ==
    ASSUME TypeOK, Waiters, NEW c \in Callers, NEW label,
           UNCHANGED <<proc, pending, nextID, delivering, reqID, tgt, chan>>,
           pc' = [pc EXCEPT ![c] = label],
           \/ pc[c] = "idle" /\ label \in {"alloc", "returned"}
           \/ pc[c] \in {"alloc", "register"} /\ label = "returned"
           \/ /\ pc[c] \in {"lockWrite", "writing", "await"}
              /\ label \in {"lockWrite", "writing", "await", "forget"}
    PROVE  Waiters'
<1>1. pc \in [Callers -> {"idle", "alloc", "register", "returned"} \cup Waiting]
  BY DEF TypeOK, CallerTypeOK
<1>2. \A d \in Callers : pc'[d] = IF d = c THEN label ELSE pc[d]
  BY <1>1
<1>3. \A d \in Callers : /\ Registered(d)' <=> Registered(d)
                         /\ InFlight(d)' <=> InFlight(d)
                         /\ Answered(d)' <=> Answered(d)
  BY DEF Registered, InFlight, Answered
<1>4. PendingOnCurrent'
  BY <1>2 DEF Waiters, PendingOnCurrent, WaiterInv, Registered, Waiting, TypeOK, ClientTypeOK
<1>5. OneResult'
  BY <1>2, <1>3 DEF Waiters, OneResult
<1>6. WaiterInv'
  BY <1>2, <1>3 DEF Waiters, WaiterInv, Waiting
<1> QED
  BY <1>4, <1>5, <1>6 DEF Waiters

(* failPendingLocked moves every registered call to answered.              *)
LEMMA WaitersFailed ==
    ASSUME TypeOK, Waiters, FailPending, UNCHANGED <<nextID, delivering, pc, reqID, tgt>>
    PROVE  Waiters'
<1>1. DOMAIN pending' = {}
  BY DEF FailPending
<1>2. \A c \in Callers : Registered(c) <=> c \in Range(pending)
  BY DEF Registered, Range
<1>3. \A c \in Callers : chan'[c] = IF Registered(c) THEN "gone" ELSE chan[c]
  BY <1>2 DEF FailPending
<1>4. \A c \in Callers : /\ ~Registered(c)'
                         /\ InFlight(c)' <=> InFlight(c)
                         /\ Answered(c)' <=> Answered(c) \/ Registered(c)
  BY <1>1, <1>3 DEF Registered, InFlight, Answered, Empty
<1>5. PendingOnCurrent'
  BY <1>1 DEF PendingOnCurrent
<1>6. OneResult'
  BY <1>4 DEF Waiters, OneResult
<1>7. WaiterInv'
  BY <1>4 DEF Waiters, WaiterInv
<1> QED
  BY <1>5, <1>6, <1>7 DEF Waiters

(* An id handed out is larger than all before.                             *)
LEMMA WaitersAllocate ==
    ASSUME TypeOK, Waiters, NEW c \in Callers, AllocateId(c) PROVE Waiters'
<1>1. CASE ~CanCall
  BY <1>1, WaitersMove DEF AllocateId, Return, Goto, engineVars
<1>2. CASE CanCall
  <2>1. /\ pc[c] = "alloc" /\ nextID' = nextID + 1
        /\ reqID' = [reqID EXCEPT ![c] = nextID + 1]
        /\ pc' = [pc EXCEPT ![c] = "register"]
        /\ UNCHANGED <<proc, pending, delivering, tgt, chan>>
    BY <1>2 DEF AllocateId, Goto, engineVars
  <2>2. /\ nextID \in Nat /\ reqID \in [Callers -> Nat]
        /\ pc \in [Callers -> {"idle", "alloc", "register", "returned"} \cup Waiting]
    BY DEF TypeOK, ClientTypeOK, CallerTypeOK
  <2>3. \A d \in Callers : /\ pc'[d] = IF d = c THEN "register" ELSE pc[d]
                           /\ reqID'[d] = IF d = c THEN nextID + 1 ELSE reqID[d]
    BY <2>1, <2>2
  <2>4. \A d \in Callers : /\ Registered(d)' <=> Registered(d)
                           /\ InFlight(d)' <=> InFlight(d)
                           /\ Answered(d)' <=> Answered(d)
    BY <2>1 DEF Registered, InFlight, Answered
  <2>5. PendingOnCurrent'
    BY <2>1, <2>3 DEF Waiters, PendingOnCurrent, Waiting, TypeOK, ClientTypeOK
  <2>6. OneResult'
    BY <2>3, <2>4 DEF Waiters, OneResult
  <2>7. WaiterInv'
    BY <2>1, <2>2, <2>3, <2>4 DEF Waiters, WaiterInv, Waiting, NoId
  <2> QED
    BY <2>5, <2>6, <2>7 DEF Waiters
<1> QED
  BY <1>1, <1>2

(* The registration is the only one of this call, and replaces none.       *)
LEMMA WaitersRegister ==
    ASSUME TypeOK, Waiters, NEW c \in Callers, Register(c) PROVE Waiters'
<1>1. CASE ~CanCall
  BY <1>1, WaitersMove DEF Register, Return, Goto, engineVars
<1>2. CASE CanCall
  <2>1. /\ pc[c] = "register" /\ proc # 0
        /\ tgt' = [tgt EXCEPT ![c] = proc]
        /\ chan' = [chan EXCEPT ![c] = Empty]
        /\ pending' = [i \in DOMAIN pending \cup {reqID[c]} |->
                           IF i = reqID[c] THEN c ELSE pending[i]]
        /\ pc' = [pc EXCEPT ![c] = "lockWrite"]
        /\ UNCHANGED <<proc, nextID, delivering, reqID>>
    BY <1>2 DEF Register, CanCall, Goto, engineVars
  <2>2. /\ pc \in [Callers -> {"idle", "alloc", "register", "returned"} \cup Waiting]
        /\ tgt \in [Callers -> {0} \cup Gens]
        /\ chan \in [Callers -> Bodies \cup {"gone", Empty}]
        /\ \A i \in DOMAIN pending : pending[i] \in Callers
    BY DEF TypeOK, ClientTypeOK, CallerTypeOK
  <2>3. \A d \in Callers : /\ pc'[d] = IF d = c THEN "lockWrite" ELSE pc[d]
                           /\ tgt'[d] = IF d = c THEN proc ELSE tgt[d]
                           /\ chan'[d] = IF d = c THEN Empty ELSE chan[d]
    BY <2>1, <2>2
  <2>4. ~Registered(c) /\ ~InFlight(c) /\ ~Answered(c) /\ reqID[c] # NoId
    BY <2>1 DEF Waiters, WaiterInv
  <2>5. reqID[c] \notin DOMAIN pending
    <3> SUFFICES ASSUME reqID[c] \in DOMAIN pending PROVE FALSE
      OBVIOUS
    <3>1. reqID[pending[reqID[c]]] = reqID[c] /\ pending[reqID[c]] \in Callers
      BY <2>2 DEF Waiters, PendingOnCurrent
    <3>2. pending[reqID[c]] = c
      BY <2>4, <3>1 DEF Waiters, WaiterInv
    <3> QED
      BY <2>4, <3>2 DEF Registered
  <2>6. \A d \in Callers : /\ Registered(d)' <=> Registered(d) \/ d = c
                           /\ InFlight(d)' <=> InFlight(d)
                           /\ Answered(d)' <=> Answered(d)
    BY <2>1, <2>3, <2>4, <2>5 DEF Registered, InFlight, Answered
  <2>7. PendingOnCurrent'
    BY <2>1, <2>2, <2>3 DEF Waiters, PendingOnCurrent, Waiting
  <2>8. OneResult'
    BY <2>3, <2>4, <2>6 DEF Waiters, OneResult
  <2>9. WaiterInv'
    BY <2>1, <2>3, <2>4, <2>6 DEF Waiters, WaiterInv, Waiting
  <2> QED
    BY <2>7, <2>8, <2>9 DEF Waiters
<1> QED
  BY <1>1, <1>2

(* forget takes back this call's registration and no other's.              *)
LEMMA WaitersForget ==
    ASSUME TypeOK, Waiters, NEW c \in Callers, Forget(c) PROVE Waiters'
<1>1. /\ pc[c] = "forget"
      /\ pending' = [i \in DOMAIN pending \ {reqID[c]} |-> pending[i]]
      /\ pc' = [pc EXCEPT ![c] = "returned"]
      /\ UNCHANGED <<proc, nextID, delivering, reqID, tgt, chan>>
  BY DEF Forget, Without, Restrict, Return, Goto, engineVars
<1>2. /\ pc \in [Callers -> {"idle", "alloc", "register", "returned"} \cup Waiting]
      /\ \A i \in DOMAIN pending : pending[i] \in Callers
  BY DEF TypeOK, ClientTypeOK, CallerTypeOK
<1>3. \A d \in Callers : pc'[d] = IF d = c THEN "returned" ELSE pc[d]
  BY <1>1, <1>2
<1>4. reqID[c] # NoId
  BY <1>1 DEF Waiters, WaiterInv, Waiting
<1>5. \A i \in DOMAIN pending : pending[i] = c <=> i = reqID[c]
  BY <1>2, <1>4 DEF Waiters, PendingOnCurrent, WaiterInv
<1>6. \A d \in Callers : /\ Registered(d)' <=> Registered(d) /\ d # c
                         /\ InFlight(d)' <=> InFlight(d)
                         /\ Answered(d)' <=> Answered(d)
  BY <1>1, <1>5 DEF Registered, InFlight, Answered
<1>7. PendingOnCurrent'
  BY <1>1, <1>2, <1>3, <1>5 DEF Waiters, PendingOnCurrent
<1>8. OneResult'
  BY <1>3, <1>6 DEF Waiters, OneResult
<1>9. WaiterInv'
  BY <1>1, <1>3, <1>6 DEF Waiters, WaiterInv, Waiting
<1> QED
  BY <1>7, <1>8, <1>9 DEF Waiters

(* A result that is taken was the only one.                                *)
LEMMA WaitersTake ==
    ASSUME TypeOK, Waiters, NEW c \in Callers, TakeReply(c) PROVE Waiters'
<1>1. /\ pc[c] = "await" /\ chan[c] # Empty
      /\ chan' = [chan EXCEPT ![c] = Empty]
      /\ UNCHANGED <<proc, pending, nextID, delivering, reqID, tgt>>
  BY DEF TakeReply, clientVars, engineVars
<1>2. PICK label \in {"alloc", "returned"} : pc' = [pc EXCEPT ![c] = label]
  BY DEF TakeReply, Return, Goto
<1>3. /\ pc \in [Callers -> {"idle", "alloc", "register", "returned"} \cup Waiting]
      /\ chan \in [Callers -> Bodies \cup {"gone", Empty}]
      /\ \A i \in DOMAIN pending : pending[i] \in Callers
  BY DEF TypeOK, ClientTypeOK, CallerTypeOK
<1>4. \A d \in Callers : /\ pc'[d] = IF d = c THEN label ELSE pc[d]
                         /\ chan'[d] = IF d = c THEN Empty ELSE chan[d]
  BY <1>1, <1>2, <1>3
<1>5. ~Registered(c) /\ ~InFlight(c)
  BY <1>1 DEF Waiters, OneResult, Answered
<1>6. \A d \in Callers : /\ Registered(d)' <=> Registered(d)
                         /\ InFlight(d)' <=> InFlight(d)
                         /\ Answered(d)' <=> Answered(d) /\ d # c
  BY <1>1, <1>4 DEF Registered, InFlight, Answered
<1>7. PendingOnCurrent'
  BY <1>1, <1>3, <1>4, <1>5 DEF Waiters, PendingOnCurrent, Registered
<1>8. OneResult'
  BY <1>4, <1>6 DEF Waiters, OneResult
<1>9. WaiterInv'
  BY <1>1, <1>4, <1>5, <1>6 DEF Waiters, WaiterInv, Waiting
<1> QED
  BY <1>7, <1>8, <1>9 DEF Waiters

(* A line for a registered call: the registration becomes a send.          *)
LEMMA WaitersDispatch ==
    ASSUME TypeOK, Waiters, NEW g \in Gens, DispatchLine(g) PROVE Waiters'
<1> DEFINE i == Head(outbox[g]).id
           d == [to |-> pending[i], body |-> Head(outbox[g]).body]
<1>1. delivering[g] = Nobody /\ UNCHANGED <<proc, nextID, pc, reqID, tgt, chan>>
  BY DEF DispatchLine, callerVars
<1>2. CASE UNCHANGED <<pending, delivering>>
  BY <1>1, <1>2, WaitersQuiet
<1>3. CASE ~UNCHANGED <<pending, delivering>>
  <2>1. /\ i # NoId /\ i \in DOMAIN pending
        /\ pending' = [j \in DOMAIN pending \ {i} |-> pending[j]]
        /\ delivering' = [delivering EXCEPT ![g] = d]
    BY <1>3 DEF DispatchLine, Without, Restrict
  <2>2. /\ delivering \in [Gens -> Delivery \cup {Nobody}]
        /\ \A j \in DOMAIN pending : pending[j] \in Callers
        /\ Head(outbox[g]).body \in Bodies
    <3>1. outbox[g] \in Seq(Reply) /\ outbox[g] # <<>>
      BY DEF TypeOK, EngineTypeOK, DispatchLine
    <3>2. Head(outbox[g]) \in Reply
      BY <3>1, HeadTailProperties
    <3> QED
      BY <3>2 DEF TypeOK, ClientTypeOK, EngineTypeOK, Reply
  <2> DEFINE c == pending[i]
  <2>3. c \in Callers /\ d # Nobody /\ d.to = c
    BY <2>1, <2>2 DEF Nobody, Bodies
  <2>4. \A h \in Gens : delivering'[h] = IF h = g THEN d ELSE delivering[h]
    BY <2>1, <2>2
  <2>5. \A j \in DOMAIN pending : pending[j] = c <=> j = i
    BY <2>1, <2>2 DEF Waiters, PendingOnCurrent, WaiterInv
  <2>6. Registered(c) /\ ~InFlight(c) /\ ~Answered(c)
    BY <2>1, <2>3 DEF Registered, Waiters, OneResult
  <2> HIDE DEF d, c, i
  <2>7. \A e \in Callers : Registered(e)' <=> Registered(e) /\ e # c
    BY <2>1, <2>5 DEF Registered
  <2>8. \A e \in Callers : InFlight(e)' <=> InFlight(e) \/ e = c
    BY <1>1, <2>3, <2>4 DEF InFlight
  <2>9. \A e \in Callers : Answered(e)' <=> Answered(e)
    BY <1>1 DEF Answered
  <2>10. PendingOnCurrent'
    BY <1>1, <2>1 DEF Waiters, PendingOnCurrent
  <2>11. OneResult'
    BY <1>1, <2>6, <2>7, <2>8, <2>9 DEF Waiters, OneResult
  <2>12. WaiterInv'
    <3>1. \A h \in Gens : delivering[h] # Nobody => delivering[h].to # c
      BY <2>6 DEF InFlight
    <3>2. \A e \in Callers : pc[e] \in {"idle", "alloc", "register"} => e # c
      BY <2>6 DEF Waiters, WaiterInv
    <3> QED
      BY <1>1, <2>3, <2>4, <2>7, <2>8, <2>9, <3>1, <3>2 DEF Waiters, WaiterInv
  <2> QED
    BY <2>10, <2>11, <2>12 DEF Waiters
<1> QED
  BY <1>2, <1>3

(* The send fills the channel: the one reader that had it to send.         *)
LEMMA WaitersDeliver ==
    ASSUME TypeOK, Waiters, NEW g \in Gens, DeliverReply(g) PROVE Waiters'
<1> DEFINE c == delivering[g].to
           b == delivering[g].body
<1>1. /\ delivering[g] # Nobody /\ chan' = [chan EXCEPT ![c] = b]
      /\ delivering' = [delivering EXCEPT ![g] = Nobody]
      /\ UNCHANGED <<proc, pending, nextID, pc, reqID, tgt>>
  BY DEF DeliverReply, clientVars
<1>2. /\ delivering \in [Gens -> Delivery \cup {Nobody}]
      /\ chan \in [Callers -> Bodies \cup {"gone", Empty}]
  BY DEF TypeOK, EngineTypeOK, CallerTypeOK
<1>3. c \in Callers /\ b \in Bodies
  BY <1>1, <1>2 DEF Delivery
<1>4. b # Empty
  BY <1>3 DEF Bodies, Empty
<1>5. InFlight(c) /\ ~Registered(c)
  BY <1>1, <1>3 DEF InFlight, Waiters, OneResult
<1> HIDE DEF c, b
<1>6. \A d \in Callers : chan'[d] = IF d = c THEN b ELSE chan[d]
  BY <1>1, <1>2
<1>7. \A h \in Gens : delivering'[h] = IF h = g THEN Nobody ELSE delivering[h]
  BY <1>1, <1>2
<1>8. \A d \in Callers : InFlight(d)' <=> InFlight(d) /\ d # c
  BY <1>1, <1>7 DEF InFlight, Waiters, WaiterInv, c
<1>9. \A d \in Callers : /\ Registered(d)' <=> Registered(d)
                         /\ Answered(d)' <=> Answered(d) \/ d = c
  BY <1>1, <1>4, <1>6 DEF Registered, Answered
<1>10. PendingOnCurrent'
  BY <1>1 DEF Waiters, PendingOnCurrent
<1>11. OneResult'
  BY <1>1, <1>5, <1>8, <1>9 DEF Waiters, OneResult
<1>12. WaiterInv'
  <2>1. pc[c] \notin {"idle", "alloc", "register"}
    BY <1>3, <1>5 DEF Waiters, WaiterInv
  <2> QED
    BY <1>1, <1>7, <1>8, <1>9, <2>1 DEF Waiters, WaiterInv
<1> QED
  BY <1>10, <1>11, <1>12 DEF Waiters

(* The lemmas above, put together for Next.                                *)
LEMMA WaitersStep == TypeOK /\ Waiters /\ [Next]_vars => Waiters'
<1> SUFFICES ASSUME TypeOK, Waiters, [Next]_vars PROVE Waiters'
  OBVIOUS
<1>1. ASSUME NEW c \in Callers, EnsureRefused(c) PROVE Waiters'
  BY <1>1, WaitersMove DEF EnsureRefused, Return, Goto, clientVars, engineVars
<1>2. ASSUME NEW c \in Callers, EnsureFound(c) PROVE Waiters'
  BY <1>2, WaitersMove DEF EnsureFound, Goto, clientVars, engineVars
<1>3. ASSUME NEW c \in Callers, EnsureSpawned(c) PROVE Waiters'
  (* No call is registered while there is no child.                        *)
  <2>1. proc = 0 /\ pc[c] = "idle" /\ pc' = [pc EXCEPT ![c] = "alloc"]
        /\ UNCHANGED <<pending, nextID, delivering, reqID, tgt, chan>>
    BY <1>3 DEF EnsureSpawned, MayStart, Goto
  <2>2. DOMAIN pending = {}
    BY <2>1 DEF Waiters, PendingOnCurrent
  <2>3. pc \in [Callers -> {"idle", "alloc", "register", "returned"} \cup Waiting]
    BY DEF TypeOK, CallerTypeOK
  <2>4. \A d \in Callers : pc'[d] = IF d = c THEN "alloc" ELSE pc[d]
    BY <2>1, <2>3
  <2>5. \A d \in Callers : /\ Registered(d)' <=> Registered(d)
                           /\ InFlight(d)' <=> InFlight(d)
                           /\ Answered(d)' <=> Answered(d)
    BY <2>1 DEF Registered, InFlight, Answered
  <2>6. PendingOnCurrent'
    BY <2>1, <2>2 DEF PendingOnCurrent
  <2>7. OneResult'
    BY <2>4, <2>5 DEF Waiters, OneResult
  <2>8. WaiterInv'
    BY <2>1, <2>4, <2>5 DEF Waiters, WaiterInv, Waiting
  <2> QED
    BY <2>6, <2>7, <2>8 DEF Waiters
<1>4. ASSUME NEW c \in Callers, AcquireWrite(c) PROVE Waiters'
  BY <1>4, WaitersMove DEF AcquireWrite, Goto, clientVars, engineVars
<1>5. ASSUME NEW c \in Callers, WriteOk(c) PROVE Waiters'
  BY <1>5, WaitersMove DEF WriteOk, Goto, clientVars
<1>6. ASSUME NEW c \in Callers, WriteError(c) PROVE Waiters'
  BY <1>6, WaitersMove DEF WriteError, Goto, clientVars, engineVars
<1>7. ASSUME NEW c \in Callers, TimeOut(c) PROVE Waiters'
  BY <1>7, WaitersMove DEF TimeOut, Goto, clientVars, engineVars
<1>8. ASSUME NEW g \in Gens, EngineStep(g) PROVE Waiters'
  BY <1>8, WaitersQuiet DEF EngineStep, EngineTake, EngineReply, EngineOversize, EngineEof,
     EngineCrash, Exit, clientVars, callerVars
<1>9. ASSUME NEW g \in Gens, GenerationEnded(g) PROVE Waiters'
  <2>1. CASE proc = g
    BY <1>9, <2>1, WaitersFailed DEF GenerationEnded
  <2>2. CASE proc # g
    BY <1>9, <2>2, WaitersQuiet DEF GenerationEnded
  <2> QED
    BY <2>1, <2>2
<1>10. CASE CloseBegin
  BY <1>10, WaitersFailed DEF CloseBegin, engineVars
<1>11. CASE CloseStep
  BY <1>11, WaitersQuiet DEF CloseStep, CloseStdin, CloseReaped, CloseKill, Exit, clientVars,
     engineVars, callerVars
<1>12. CASE IntervalElapsed
  BY <1>12, WaitersQuiet DEF IntervalElapsed, engineVars, callerVars
<1>13. CASE UNCHANGED vars
  BY <1>13, WaitersQuiet DEF vars, clientVars, engineVars, callerVars
<1> QED
  BY <1>1, <1>2, <1>3, <1>4, <1>5, <1>6, <1>7, <1>8, <1>9, <1>10, <1>11, <1>12, <1>13,
     WaitersAllocate, WaitersRegister, WaitersForget, WaitersTake, WaitersDispatch,
     WaitersDeliver
     DEF Next, EnsureStarted, CallerStep, ReaderStep, Terminating
-----------------------------------------------------------------------------
(* The requests and the answers: what the child makes of a request reaches *)
(* nobody but its caller.                                                  *)
LEMMA WorkInit == Init => WorkInv
<1> SUFFICES ASSUME Init PROVE WorkInv
  OBVIOUS
<1>1. \A g \in Gens : /\ DOMAIN inbox[g] = {} /\ DOMAIN outbox[g] = {}
                      /\ busy[g] = Idle /\ delivering[g] = Nobody
  BY DEF Init
<1>2. \A c \in Callers : pc[c] = "idle" /\ verdict[c] = "none" /\ chan[c] = Empty
  BY DEF Init
<1>3. VerdictInv
  BY <1>1, <1>2 DEF VerdictInv, Empty, Bodies
<1>4. RequestInv
  BY <1>1 DEF RequestInv
<1>5. ReplyInv
  BY <1>1, <1>2 DEF Init, ReplyInv, Truthful, Live, Waiting, Idle, NoId
<1> QED
  BY <1>3, <1>4, <1>5 DEF WorkInv

(* What lies in a pipe, or is about to be sent, has its type.              *)
LEMMA PipeTypes ==
    ASSUME TypeOK, NEW g \in Gens
    PROVE  /\ \A i \in DOMAIN inbox[g] : i \in Nat /\ inbox[g][i] \in Request
           /\ \A i \in DOMAIN outbox[g] : i \in Nat /\ outbox[g][i] \in Reply
           /\ busy[g] \in Reply \cup {Idle} /\ busy[g].id \in Nat
           /\ delivering[g] # Nobody => delivering[g] \in Delivery
           /\ nextID \in Nat
<1>1. inbox[g] \in Seq(Request) /\ outbox[g] \in Seq(Reply)
  BY DEF TypeOK, EngineTypeOK
<1>2. /\ busy[g] \in Reply \cup {Idle} /\ delivering[g] \in Delivery \cup {Nobody}
      /\ nextID \in Nat
  BY DEF TypeOK, ClientTypeOK, EngineTypeOK
<1>3. busy[g].id \in Nat
  BY <1>2 DEF Reply, Idle, NoId
<1> QED
  BY <1>1, <1>2, <1>3

(* A caller moves on while the child does not: it keeps its request if it  *)
(* has one out, it takes up no id but its own or a new one, and what is in *)
(* its channel stays its verdict.                                          *)
LEMMA WorkOfCaller ==
    ASSUME TypeOK, WorkInv, NEW c \in Callers,
           UNCHANGED <<inbox, busy, outbox, delivering, verdict>>,
           nextID' \in Nat, nextID' >= nextID,
           \A d \in Callers : d # c =>
               UNCHANGED <<pc[d], method[d], reqID[d], outcome[d], chan[d]>>,
           Outstanding(c, reqID[c]) => Outstanding(c, reqID[c])' /\ reqID'[c] = reqID[c],
           Live(c)' => \/ Live(c) /\ UNCHANGED <<method[c], reqID[c]>>
                       \/ reqID'[c] \in Nat /\ reqID'[c] > nextID,
           method'[c] = "ping" \/ pc'[c] \in {"idle", "alloc", "register", "lockWrite", "writing"}
               => verdict[c] = "none",
           InFlight(c) /\ method'[c] = "work" => method[c] = "work",
           chan'[c] \in Bodies /\ method'[c] = "work" => verdict[c] = chan'[c]
    PROVE  WorkInv'
<1>1. VerdictInv'
  <2>1. \A d \in Callers :
           method'[d] = "ping" \/ pc'[d] \in {"idle", "alloc", "register", "lockWrite", "writing"}
               => verdict'[d] = "none"
    BY DEF WorkInv, VerdictInv
  <2>2. ASSUME NEW g \in Gens, delivering'[g] # Nobody, method'[delivering'[g].to] = "work"
        PROVE  verdict'[delivering'[g].to] = delivering'[g].body
    <3>1. delivering[g].to \in Callers
      BY <2>2, PipeTypes DEF Delivery
    <3>2. method[delivering[g].to] = "work"
      BY <2>2, <3>1 DEF InFlight
    <3> QED
      BY <2>2, <3>2 DEF WorkInv, VerdictInv
  <2>3. \A d \in Callers :
           chan'[d] \in Bodies /\ method'[d] = "work" => verdict'[d] = chan'[d]
    BY DEF WorkInv, VerdictInv
  <2> QED
    BY <2>1, <2>2, <2>3 DEF VerdictInv
<1>2. RequestInv'
  <2> SUFFICES ASSUME NEW g \in Gens, NEW i \in DOMAIN inbox[g]
               PROVE  LET r == inbox[g][i] IN
                      /\ r.id <= nextID'
                      /\ \A d \in Callers : Live(d)' /\ reqID'[d] = r.id => method'[d] = r.method
                      /\ r.method = "work" =>
                            /\ reqID'[r.caller] = r.id /\ method'[r.caller] = "work"
                            /\ verdict'[r.caller] = "none"
                            /\ pc'[r.caller] \in {"await", "forget", "returned"}
                            /\ pc'[r.caller] = "returned" => outcome'[r.caller] = "failed"
                            /\ \A h \in Gens : \A j \in DOMAIN inbox[h] :
                                  inbox[h][j].method = "work" /\ inbox[h][j].caller = r.caller
                                      => h = g /\ j = i
    BY DEF RequestInv, Outstanding
  <2> DEFINE r == inbox[g][i]
  <2>1. r.id \in Nat /\ r.caller \in Callers /\ nextID \in Nat
    BY PipeTypes DEF Request
  <2>2. /\ r.id <= nextID
        /\ \A d \in Callers : Live(d) /\ reqID[d] = r.id => method[d] = r.method
        /\ r.method = "work" =>
              /\ Outstanding(r.caller, r.id)
              /\ \A h \in Gens : \A j \in DOMAIN inbox[h] :
                    inbox[h][j].method = "work" /\ inbox[h][j].caller = r.caller
                        => h = g /\ j = i
    BY DEF WorkInv, RequestInv
  <2> HIDE DEF r
  <2>3. r.id <= nextID'
    BY <2>1, <2>2
  <2>4. \A d \in Callers : Live(d)' /\ reqID'[d] = r.id => method'[d] = r.method
    BY <2>1, <2>2 DEF Live
  <2>5. ASSUME r.method = "work"
        PROVE  /\ reqID'[r.caller] = r.id /\ method'[r.caller] = "work"
               /\ verdict'[r.caller] = "none"
               /\ pc'[r.caller] \in {"await", "forget", "returned"}
               /\ pc'[r.caller] = "returned" => outcome'[r.caller] = "failed"
    BY <2>1, <2>2, <2>5 DEF Outstanding
  <2> QED
    BY <2>2, <2>3, <2>4, <2>5 DEF r
<1>3. ReplyInv'
  <2>1. ASSUME NEW r, r.id \in Nat, Truthful(r)
        PROVE  /\ r.id <= nextID'
               /\ \A d \in Callers :
                     Live(d)' /\ reqID'[d] = r.id /\ method'[d] = "work" => verdict'[d] = r.body
    <3>1. nextID \in Nat
      BY DEF TypeOK, ClientTypeOK
    <3> QED
      BY <2>1, <3>1 DEF Truthful, Live
  <2>2. ASSUME NEW g \in Gens
        PROVE  Truthful(busy[g])' /\ \A i \in DOMAIN outbox'[g] : Truthful(outbox[g][i])'
    <3>1. Truthful(busy[g])'
      BY <2>1, PipeTypes DEF WorkInv, ReplyInv, Truthful
    <3>2. ASSUME NEW i \in DOMAIN outbox[g] PROVE Truthful(outbox[g][i])'
      <4>1. outbox[g][i].id \in Nat /\ Truthful(outbox[g][i])
        BY PipeTypes DEF WorkInv, ReplyInv, Reply
      <4> QED
        BY <2>1, <4>1 DEF Truthful
    <3> QED
      BY <3>1, <3>2
  <2> QED
    BY <2>2 DEF ReplyInv
<1> QED
  BY <1>1, <1>2, <1>3 DEF WorkInv

(* The steps of a call that send nothing.                                  *)
LEMMA WorkCallerStep ==
    ASSUME TypeOK, Waiters, WorkInv, NEW c \in Callers,
           \/ EnsureStarted(c) \/ AllocateId(c) \/ Register(c) \/ AcquireWrite(c)
           \/ WriteError(c) \/ TimeOut(c) \/ Forget(c) \/ TakeReply(c)
    PROVE  WorkInv'
<1> USE DEF Goto, Return
<1>0. CallerTypeOK /\ nextID \in Nat
  BY DEF TypeOK, ClientTypeOK
<1>1. UNCHANGED <<inbox, busy, outbox, delivering, verdict>>
  BY DEF EnsureStarted, EnsureRefused, EnsureFound, EnsureSpawned, AllocateId, Register,
     AcquireWrite, WriteError, TimeOut, Forget, TakeReply, engineVars
<1>2. \A d \in Callers : d # c =>
         UNCHANGED <<pc[d], method[d], reqID[d], outcome[d], chan[d]>>
  BY <1>0 DEF EnsureStarted, EnsureRefused, EnsureFound, EnsureSpawned, AllocateId, Register,
     AcquireWrite, WriteError, TimeOut, Forget, TakeReply, CallerTypeOK
<1>3. CASE EnsureStarted(c)
  <2>1. /\ pc[c] = "idle" /\ pc'[c] \in {"alloc", "returned"}
        /\ method'[c] \in {method[c], "ping"} /\ UNCHANGED <<nextID, reqID, chan>>
    BY <1>0, <1>3 DEF EnsureStarted, EnsureRefused, EnsureFound, EnsureSpawned, CallerTypeOK,
       clientVars
  <2>2. verdict[c] = "none" /\ ~InFlight(c) /\ chan[c] = Empty
    BY <2>1 DEF WorkInv, VerdictInv, Waiters, WaiterInv, Answered
  <2> QED
    BY <1>0, <1>1, <1>2, <2>1, <2>2, WorkOfCaller DEF Outstanding, Live, Waiting, Bodies, Empty
<1>4. CASE AllocateId(c)
  <2>1. /\ pc[c] = "alloc" /\ UNCHANGED <<method, chan>>
        /\ \/ pc'[c] = "returned" /\ UNCHANGED <<nextID, reqID>>
           \/ pc'[c] = "register" /\ nextID' = nextID + 1 /\ reqID'[c] = nextID + 1
    BY <1>0, <1>4 DEF AllocateId, CallerTypeOK
  <2>2. verdict[c] = "none" /\ ~InFlight(c) /\ chan[c] = Empty
    BY <2>1 DEF WorkInv, VerdictInv, Waiters, WaiterInv, Answered
  <2> QED
    BY <1>0, <1>1, <1>2, <2>1, <2>2, WorkOfCaller DEF Outstanding, Live, Waiting, Bodies, Empty
<1>5. CASE Register(c)
  <2>1. /\ pc[c] = "register" /\ pc'[c] \in {"returned", "lockWrite"}
        /\ UNCHANGED <<nextID, reqID, method>> /\ chan'[c] \in {chan[c], Empty}
    BY <1>0, <1>5 DEF Register, CallerTypeOK
  <2>2. verdict[c] = "none" /\ ~InFlight(c) /\ chan[c] = Empty
    BY <2>1 DEF WorkInv, VerdictInv, Waiters, WaiterInv, Answered
  <2> QED
    BY <1>0, <1>1, <1>2, <2>1, <2>2, WorkOfCaller DEF Outstanding, Live, Waiting, Bodies, Empty
<1>6. CASE AcquireWrite(c) \/ WriteError(c) \/ TimeOut(c) \/ Forget(c)
  <2>1. /\ \/ pc[c] = "lockWrite" /\ pc'[c] = "writing"
           \/ pc[c] \in {"writing", "await"} /\ pc'[c] = "forget"
           \/ pc[c] = "forget" /\ pc'[c] = "returned" /\ outcome'[c] = "failed"
        /\ UNCHANGED <<nextID, reqID, method, chan>>
    BY <1>0, <1>6 DEF AcquireWrite, WriteError, TimeOut, Forget, CallerTypeOK, clientVars
  <2>2. /\ method[c] = "ping" \/ pc[c] \in {"lockWrite", "writing"} => verdict[c] = "none"
        /\ chan[c] \in Bodies /\ method[c] = "work" => verdict[c] = chan[c]
    BY DEF WorkInv, VerdictInv
  <2> QED
    BY <1>0, <1>1, <1>2, <2>1, <2>2, WorkOfCaller DEF Outstanding, Live, Waiting
<1>7. CASE TakeReply(c)
  <2>1. /\ pc[c] = "await" /\ chan[c] # Empty /\ chan'[c] = Empty
        /\ UNCHANGED <<nextID, reqID>>
        /\ \/ method[c] = "ping" /\ pc'[c] = "alloc"
           \/ /\ pc'[c] = "returned" /\ method'[c] = method[c]
              /\ outcome'[c] = IF method[c] = "ping" THEN "failed" ELSE OutcomeOf(chan[c])
    BY <1>0, <1>7 DEF TakeReply, CallerTypeOK, clientVars
  <2>2. ~InFlight(c)
    BY <2>1 DEF Waiters, OneResult, Answered
  <2>3. /\ method[c] = "ping" => verdict[c] = "none"
        /\ chan[c] \in Bodies /\ method[c] = "work" => verdict[c] = chan[c]
    BY DEF WorkInv, VerdictInv
  <2>4. method[c] \in Methods /\ chan[c] \in Bodies \cup {"gone"}
    BY <1>0, <2>1 DEF CallerTypeOK
  (* A call with a request out has not been answered by the child.         *)
  <2>5. Outstanding(c, reqID[c]) => Outstanding(c, reqID[c])'
    BY <1>1, <2>1, <2>3, <2>4 DEF Outstanding, Bodies, OutcomeOf
  <2> QED
    BY <1>0, <1>1, <1>2, <2>1, <2>2, <2>3, <2>4, <2>5, WorkOfCaller
       DEF Live, Waiting, Bodies, Empty, Methods
<1> QED
  BY <1>3, <1>4, <1>5, <1>6, <1>7

(* failPendingLocked tells the waiters nothing about their request.        *)
LEMMA WorkFailed ==
    ASSUME WorkInv, FailPending,
           UNCHANGED <<nextID, inbox, busy, outbox, delivering, verdict, pc, method, reqID, outcome>>
    PROVE  WorkInv'
<1>1. \A c \in Callers : chan'[c] = chan[c] \/ chan'[c] \notin Bodies
  BY DEF FailPending, Bodies
<1>2. VerdictInv'
  BY <1>1 DEF WorkInv, VerdictInv
<1>3. RequestInv' /\ ReplyInv'
  BY DEF WorkInv, RequestInv, Outstanding, ReplyInv, Truthful, Live
<1> QED
  BY <1>2, <1>3 DEF WorkInv

(* A request is sent: the first and only one of a call that has no verdict.*)
LEMMA WorkSent ==
    ASSUME TypeOK, Waiters, WorkInv, NEW c \in Callers, WriteOk(c) PROVE WorkInv'
<1> DEFINE g == tgt[c]
           new == [id |-> reqID[c], caller |-> c, method |-> method[c]]
<1>0. CallerTypeOK /\ inbox \in [Gens -> Seq(Request)]
  BY DEF TypeOK, EngineTypeOK
<1>1. /\ pc[c] = "writing" /\ inbox' = [inbox EXCEPT ![g] = Append(@, new)]
      /\ pc' = [pc EXCEPT ![c] = "await"]
      /\ UNCHANGED <<nextID, busy, outbox, delivering, verdict, method, reqID, chan, outcome>>
  BY DEF WriteOk, Goto, clientVars
<1>2. \A d \in Callers : pc'[d] = IF d = c THEN "await" ELSE pc[d]
  BY <1>0, <1>1 DEF CallerTypeOK
<1>3. verdict[c] = "none" /\ reqID[c] # NoId /\ reqID[c] <= nextID
  BY <1>1 DEF WorkInv, VerdictInv, Waiters, WaiterInv, Waiting
<1>4. \A d \in Callers : (Live(d)' <=> Live(d))
  BY <1>1, <1>2 DEF Live, Waiting
<1>5. VerdictInv'
  BY <1>1, <1>2 DEF WorkInv, VerdictInv
<1>6. ReplyInv'
  BY <1>1, <1>4 DEF WorkInv, ReplyInv, Truthful
<1>7. new.id = reqID[c] /\ new.caller = c /\ new.method = method[c]
  OBVIOUS
<1>8. \A h \in Gens : \A i \in DOMAIN inbox'[h] :
         \/ i \in DOMAIN inbox[h] /\ inbox'[h][i] = inbox[h][i]
         \/ h = g /\ i = Len(inbox[g]) + 1 /\ inbox'[h][i] = new
  <2> HIDE DEF new
  <2> SUFFICES ASSUME NEW h \in Gens, NEW i \in DOMAIN inbox'[h]
               PROVE  \/ i \in DOMAIN inbox[h] /\ inbox'[h][i] = inbox[h][i]
                      \/ h = g /\ i = Len(inbox[g]) + 1 /\ inbox'[h][i] = new
    OBVIOUS
  <2>1. CASE h # g
    BY <1>0, <1>1, <2>1
  <2>2. CASE h = g
    <3>1. inbox'[h] = Append(inbox[h], new) /\ inbox[h] \in Seq(Request)
      BY <1>0, <1>1, <2>2
    <3> QED
      BY <2>2, <3>1
  <2> QED
    BY <2>1, <2>2
<1>9. \A h \in Gens : \A i \in DOMAIN inbox[h] :
         inbox[h][i].method = "work" => inbox[h][i].caller # c
  BY <1>1 DEF WorkInv, RequestInv, Outstanding
<1> HIDE DEF new, g
<1>10. \A h \in Gens : \A i \in DOMAIN inbox[h] : inbox[h][i].method = "work" =>
          Outstanding(inbox[h][i].caller, inbox[h][i].id)'
  <2> SUFFICES ASSUME NEW h \in Gens, NEW i \in DOMAIN inbox[h], inbox[h][i].method = "work"
               PROVE  Outstanding(inbox[h][i].caller, inbox[h][i].id)'
    OBVIOUS
  <2>1. Outstanding(inbox[h][i].caller, inbox[h][i].id) /\ inbox[h][i].caller \in Callers
    BY PipeTypes DEF WorkInv, RequestInv, Request
  <2> QED
    BY <1>1, <1>2, <1>9, <2>1 DEF Outstanding
<1>11. RequestInv'
  <2> SUFFICES ASSUME NEW h \in Gens, NEW i \in DOMAIN inbox'[h]
               PROVE  LET r == inbox'[h][i] IN
                      /\ r.id <= nextID'
                      /\ \A d \in Callers : Live(d)' /\ reqID'[d] = r.id => method'[d] = r.method
                      /\ r.method = "work" =>
                            /\ Outstanding(inbox[h][i].caller, inbox[h][i].id)'
                            /\ \A k \in Gens : \A j \in DOMAIN inbox'[k] :
                                  inbox'[k][j].method = "work" /\ inbox'[k][j].caller = r.caller
                                      => k = h /\ j = i
    BY DEF RequestInv
  <2>1. CASE i \in DOMAIN inbox[h] /\ inbox'[h][i] = inbox[h][i]
    <3>1. /\ inbox[h][i].id <= nextID'
          /\ \A d \in Callers : Live(d)' /\ reqID'[d] = inbox[h][i].id
                                    => method'[d] = inbox[h][i].method
      BY <1>1, <1>4, <2>1 DEF WorkInv, RequestInv
    <3>2. ASSUME inbox[h][i].method = "work"
          PROVE  /\ Outstanding(inbox[h][i].caller, inbox[h][i].id)'
                 /\ \A k \in Gens : \A j \in DOMAIN inbox'[k] :
                       inbox'[k][j].method = "work" /\ inbox'[k][j].caller = inbox[h][i].caller
                           => k = h /\ j = i
      <4>1. Outstanding(inbox[h][i].caller, inbox[h][i].id)'
        BY <1>10, <2>1, <3>2 DEF Outstanding
      <4>2. \A k \in Gens : \A j \in DOMAIN inbox[k] :
               inbox[k][j].method = "work" /\ inbox[k][j].caller = inbox[h][i].caller
                   => k = h /\ j = i
        BY <2>1, <3>2 DEF WorkInv, RequestInv
      <4>3. inbox[h][i].caller # c
        BY <1>9, <2>1, <3>2
      <4> QED
        BY <1>7, <1>8, <4>1, <4>2, <4>3
    <3> QED
      BY <2>1, <3>1, <3>2
  <2>2. CASE h = g /\ i = Len(inbox[g]) + 1 /\ inbox'[h][i] = new
    <3>1. \A d \in Callers : Live(d)' /\ reqID'[d] = new.id => method'[d] = new.method
      BY <1>1, <1>3, <1>7 DEF Waiters, WaiterInv
    <3>2. new.method = "work" => Outstanding(inbox[h][i].caller, inbox[h][i].id)'
      <4>1. inbox'[h][i].caller = c /\ inbox'[h][i].id = reqID[c]
        BY <1>7, <2>2
      <4>2. new.method = "work" => method'[c] = "work"
        BY <1>1, <1>7
      <4> QED
        BY <1>1, <1>2, <1>3, <4>1, <4>2 DEF Outstanding
    <3>3. \A k \in Gens : \A j \in DOMAIN inbox'[k] :
             inbox'[k][j].method = "work" /\ inbox'[k][j].caller = new.caller => k = h /\ j = i
      BY <1>7, <1>8, <1>9, <2>2
    <3> QED
      BY <1>1, <1>3, <1>7, <2>2, <3>1, <3>2, <3>3
  <2> QED
    BY <1>8, <2>1, <2>2
<1> QED
  BY <1>5, <1>6, <1>11 DEF WorkInv

(* Answers stay truthful while no call moves and verdicts are only given   *)
(* to calls that have none; a new one has no id or was under computation.  *)
LEMMA RepliesKept ==
    ASSUME TypeOK, Waiters, ReplyInv, UNCHANGED <<nextID, pc, method, reqID>>,
           \A c \in Callers : verdict'[c] = verdict[c] \/ verdict[c] = "none",
           \A g \in Gens : busy'[g] \in {busy[g], Idle} \/ Truthful(busy[g])',
           \A g \in Gens : \A i \in DOMAIN outbox'[g] :
               \/ outbox'[g][i] \in Reply /\ outbox'[g][i].id = NoId
               \/ outbox'[g][i] = busy[g] /\ busy[g] # Idle
               \/ \E j \in DOMAIN outbox[g] : outbox'[g][i] = outbox[g][j]
    PROVE  ReplyInv'
<1>1. nextID \in Nat /\ \A c \in Callers : (Live(c)' <=> Live(c)) /\ (Live(c) => reqID[c] # NoId)
  BY DEF TypeOK, ClientTypeOK, Live, Waiters, WaiterInv
<1>2. ASSUME NEW r, r.id = NoId
      PROVE  /\ r.id <= nextID'
             /\ \A c \in Callers :
                   Live(c)' /\ reqID'[c] = r.id /\ method'[c] = "work" => verdict'[c] = r.body
  BY <1>1, <1>2 DEF NoId
<1>3. ASSUME NEW r \in Reply, Truthful(r)
      PROVE  /\ r.id <= nextID'
             /\ \A c \in Callers :
                   Live(c)' /\ reqID'[c] = r.id /\ method'[c] = "work" => verdict'[c] = r.body
  <2>1. r.body # "none"
    BY DEF Reply, Bodies
  <2> QED
    BY <1>1, <1>3, <2>1 DEF Truthful
<1>4. ASSUME NEW g \in Gens PROVE Truthful(busy[g])'
  <2>1. CASE busy'[g] = busy[g] /\ busy[g] \in Reply
    BY <1>3, <2>1 DEF ReplyInv, Truthful
  <2>2. CASE busy'[g] = Idle
    <3>1. busy'[g].id = NoId
      BY <2>2 DEF Idle
    <3> QED
      BY <1>2, <3>1 DEF Truthful
  <2> QED
    BY <2>1, <2>2, PipeTypes
<1>5. ASSUME NEW g \in Gens, NEW i \in DOMAIN outbox'[g] PROVE Truthful(outbox[g][i])'
  <2>1. CASE outbox'[g][i].id = NoId
    BY <1>2, <2>1 DEF Truthful
  <2>2. CASE outbox'[g][i] = busy[g] /\ busy[g] # Idle
    <3>1. busy[g] \in Reply /\ Truthful(busy[g])
      BY <2>2, PipeTypes DEF ReplyInv
    <3> QED
      BY <1>3, <2>2, <3>1 DEF Truthful
  <2>3. ASSUME NEW j \in DOMAIN outbox[g], outbox'[g][i] = outbox[g][j]
        PROVE  Truthful(outbox[g][i])'
    <3>1. outbox[g][j] \in Reply /\ Truthful(outbox[g][j])
      BY PipeTypes DEF ReplyInv
    <3> QED
      BY <1>3, <2>3, <3>1 DEF Truthful
  <2> QED
    BY <2>1, <2>2, <2>3
<1> QED
  BY <1>4, <1>5 DEF ReplyInv

(* The requests in the pipes are the ones before, moved up.                *)
InboxShrinks ==
    \A g \in Gens : \E k \in Nat : \A i \in DOMAIN inbox'[g] :
        i \in Nat /\ i + k \in DOMAIN inbox[g] /\ inbox'[g][i] = inbox[g][i + k]

(* Taking requests out of a pipe leaves the others outstanding.            *)
LEMMA RequestsKept ==
    ASSUME TypeOK, RequestInv, InboxShrinks, UNCHANGED <<nextID, pc, method, reqID, outcome>>,
           \A c \in Callers : verdict'[c] = verdict[c] \/
               \A g \in Gens : \A i \in DOMAIN inbox'[g] :
                   inbox'[g][i].method = "work" => inbox'[g][i].caller # c
    PROVE  RequestInv'
<1> SUFFICES ASSUME NEW g \in Gens, NEW i \in DOMAIN inbox'[g]
             PROVE  LET r == inbox'[g][i] IN
                    /\ r.id <= nextID'
                    /\ \A d \in Callers : Live(d)' /\ reqID'[d] = r.id => method'[d] = r.method
                    /\ r.method = "work" =>
                          /\ Outstanding(inbox[g][i].caller, inbox[g][i].id)'
                          /\ \A h \in Gens : \A j \in DOMAIN inbox'[h] :
                                inbox'[h][j].method = "work" /\ inbox'[h][j].caller = r.caller
                                    => h = g /\ j = i
  BY DEF RequestInv
<1>1. PICK k \in Nat : \A n \in DOMAIN inbox'[g] :
         n \in Nat /\ n + k \in DOMAIN inbox[g] /\ inbox'[g][n] = inbox[g][n + k]
  BY DEF InboxShrinks
<1> DEFINE r == inbox[g][i + k]
<1>2. i \in Nat /\ i + k \in DOMAIN inbox[g] /\ inbox'[g][i] = r /\ r.caller \in Callers
  BY <1>1, PipeTypes DEF Request
<1>3. /\ r.id <= nextID
      /\ \A d \in Callers : Live(d) /\ reqID[d] = r.id => method[d] = r.method
      /\ r.method = "work" =>
            /\ Outstanding(r.caller, r.id)
            /\ \A h \in Gens : \A j \in DOMAIN inbox[h] :
                  inbox[h][j].method = "work" /\ inbox[h][j].caller = r.caller
                      => h = g /\ j = i + k
  BY <1>2 DEF RequestInv
<1> HIDE DEF r
<1>4. \A d \in Callers : Live(d)' /\ reqID'[d] = r.id => method'[d] = r.method
  BY <1>3 DEF Live
<1>5. ASSUME r.method = "work"
      PROVE  Outstanding(inbox[g][i].caller, inbox[g][i].id)'
  <2>1. verdict'[r.caller] = verdict[r.caller]
    BY <1>2, <1>5
  <2> QED
    BY <1>2, <1>3, <1>5, <2>1 DEF Outstanding
<1>6. ASSUME r.method = "work", NEW h \in Gens, NEW j \in DOMAIN inbox'[h],
             inbox'[h][j].method = "work", inbox'[h][j].caller = r.caller
      PROVE  h = g /\ j = i
  <2>1. PICK m \in Nat : \A n \in DOMAIN inbox'[h] :
           n \in Nat /\ n + m \in DOMAIN inbox[h] /\ inbox'[h][n] = inbox[h][n + m]
    BY DEF InboxShrinks
  <2>2. h = g /\ j + m = i + k
    BY <1>3, <1>6, <2>1
  <2>3. j + k = i + k /\ j \in Nat
    BY <1>1, <1>3, <1>6, <2>1, <2>2
  <2> QED
    BY <1>2, <2>2, <2>3
<1> QED
  BY <1>2, <1>3, <1>4, <1>5, <1>6

(* Pipes that stay as they are shrink too, and so does one whose first     *)
(* request is taken, or that dies with its child.                          *)
LEMMA Shrinks ==
    ASSUME TypeOK, NEW g \in Gens,
           \/ UNCHANGED inbox
           \/ inbox[g] # <<>> /\ inbox' = [inbox EXCEPT ![g] = Tail(@)]
           \/ inbox' = [inbox EXCEPT ![g] = <<>>]
    PROVE  InboxShrinks
<1>0. inbox \in [Gens -> Seq(Request)]
  BY DEF TypeOK, EngineTypeOK
<1>1. ASSUME NEW h \in Gens, inbox'[h] = inbox[h]
      PROVE  \E k \in Nat : \A i \in DOMAIN inbox'[h] :
                i \in Nat /\ i + k \in DOMAIN inbox[h] /\ inbox'[h][i] = inbox[h][i + k]
  <2>1. \A i \in DOMAIN inbox[h] : i \in Nat /\ i + 0 = i
    BY <1>0
  <2> QED
    BY <1>1, <2>1
<1>2. CASE UNCHANGED inbox
  BY <1>1, <1>2 DEF InboxShrinks
<1>3. CASE inbox[g] # <<>> /\ inbox' = [inbox EXCEPT ![g] = Tail(@)]
  <2>1. inbox[g] \in Seq(Request) /\ inbox'[g] = Tail(inbox[g])
    BY <1>0, <1>3
  <2>2. \A i \in DOMAIN inbox'[g] :
           i \in Nat /\ i + 1 \in DOMAIN inbox[g] /\ inbox'[g][i] = inbox[g][i + 1]
    <3>1. /\ DOMAIN inbox[g] = 1..Len(inbox[g]) /\ Len(inbox[g]) \in Nat
          /\ DOMAIN Tail(inbox[g]) = 1..(Len(inbox[g]) - 1)
          /\ \A i \in 1..(Len(inbox[g]) - 1) : Tail(inbox[g])[i] = inbox[g][i + 1]
      BY <1>3, <2>1, HeadTailProperties
    <3> QED
      BY <2>1, <3>1
  <2>3. \A h \in Gens : h # g => inbox'[h] = inbox[h]
    BY <1>0, <1>3
  <2> QED
    BY <1>1, <2>2, <2>3 DEF InboxShrinks
<1>4. CASE inbox' = [inbox EXCEPT ![g] = <<>>]
  <2>1. DOMAIN inbox'[g] = {}
    BY <1>0, <1>4
  <2>2. \A h \in Gens : h # g => inbox'[h] = inbox[h]
    BY <1>0, <1>4
  <2> QED
    BY <1>1, <2>1, <2>2 DEF InboxShrinks
<1> QED
  BY <1>2, <1>3, <1>4

(* The steps of the child and of its reader.                               *)
LEMMA WorkTaken ==
    ASSUME TypeOK, Waiters, WorkInv, NEW g \in Gens, EngineTake(g) PROVE WorkInv'
<1> DEFINE req == Head(inbox[g])
<1>0. inbox \in [Gens -> Seq(Request)] /\ busy \in [Gens -> Reply \cup {Idle}]
      /\ verdict \in [Callers -> Bodies \cup {"none"}]
  BY DEF TypeOK, EngineTypeOK
<1>1. /\ inbox[g] # <<>> /\ inbox' = [inbox EXCEPT ![g] = Tail(@)]
      /\ UNCHANGED <<nextID, outbox, delivering, pc, method, reqID, chan, outcome>>
  BY DEF EngineTake, clientVars, callerVars
<1>2. PICK body \in Bodies :
         /\ busy' = [busy EXCEPT ![g] = [id |-> req.id, body |-> body]]
         /\ verdict' = IF req.method = "ping" THEN verdict
                       ELSE [verdict EXCEPT ![req.caller] = body]
  BY DEF EngineTake, Bodies
<1>3. /\ req = inbox[g][1] /\ 1 \in DOMAIN inbox[g] /\ req \in Request
      /\ \A i \in DOMAIN inbox'[g] : i \in Nat \ {0} /\ i + 1 \in DOMAIN inbox[g]
                                     /\ inbox'[g][i] = inbox[g][i + 1]
  <2>1. inbox[g] \in Seq(Request) /\ inbox'[g] = Tail(inbox[g])
    BY <1>0, <1>1
  <2>2. /\ DOMAIN inbox[g] = 1..Len(inbox[g]) /\ Len(inbox[g]) \in Nat \ {0}
        /\ DOMAIN Tail(inbox[g]) = 1..(Len(inbox[g]) - 1)
        /\ \A i \in 1..(Len(inbox[g]) - 1) : Tail(inbox[g])[i] = inbox[g][i + 1]
    BY <1>1, <2>1, HeadTailProperties, EmptySeq
  <2>3. req = inbox[g][1] /\ req \in Request
    BY <1>1, <2>1, HeadTailProperties
  <2> QED
    BY <2>1, <2>2, <2>3
<1>4. req.id \in Nat /\ req.caller \in Callers /\ req.method \in Methods
  BY <1>3 DEF Request
<1>5. /\ req.id <= nextID
      /\ \A c \in Callers : Live(c) /\ reqID[c] = req.id => method[c] = req.method
      /\ req.method = "work" =>
            /\ Outstanding(req.caller, req.id)
            /\ \A h \in Gens : \A j \in DOMAIN inbox[h] :
                  inbox[h][j].method = "work" /\ inbox[h][j].caller = req.caller
                      => h = g /\ j = 1
  BY <1>3 DEF WorkInv, RequestInv
<1> HIDE DEF req
(* Only the caller of a work request gets a verdict, and it had none.      *)
<1>6. \A c \in Callers :
         verdict'[c] = IF req.method = "work" /\ c = req.caller THEN body ELSE verdict[c]
  BY <1>0, <1>2, <1>4 DEF Methods
<1>7. req.method = "work" => /\ verdict[req.caller] = "none" /\ method[req.caller] = "work"
                             /\ reqID[req.caller] = req.id
                             /\ pc[req.caller] \in {"await", "forget", "returned"}
  BY <1>5 DEF Outstanding
<1>8. VerdictInv'
  <2>1. ASSUME NEW c \in Callers,
               method[c] = "ping" \/ pc[c] \in {"idle", "alloc", "register", "lockWrite", "writing"}
        PROVE  verdict'[c] = "none"
    BY <1>6, <1>7, <2>1 DEF WorkInv, VerdictInv
  <2>2. ASSUME NEW h \in Gens, delivering[h] # Nobody, method[delivering[h].to] = "work"
        PROVE  verdict'[delivering[h].to] = delivering[h].body
    <3>1. delivering[h].to \in Callers /\ delivering[h].body \in Bodies
      BY <2>2, PipeTypes DEF Delivery
    <3>2. verdict[delivering[h].to] = delivering[h].body
      BY <2>2 DEF WorkInv, VerdictInv
    <3> QED
      BY <1>6, <1>7, <3>1, <3>2 DEF Bodies
  <2>3. ASSUME NEW c \in Callers, chan[c] \in Bodies, method[c] = "work"
        PROVE  verdict'[c] = chan[c]
    BY <1>6, <1>7, <2>3 DEF WorkInv, VerdictInv, Bodies
  <2> QED
    BY <1>1, <2>1, <2>2, <2>3 DEF VerdictInv
<1>9. RequestInv'
  <2>1. InboxShrinks
    BY <1>1, Shrinks
  <2>2. \A c \in Callers : verdict'[c] = verdict[c] \/
           \A h \in Gens : \A i \in DOMAIN inbox'[h] :
               inbox'[h][i].method = "work" => inbox'[h][i].caller # c
    <3> SUFFICES ASSUME req.method = "work", NEW h \in Gens, NEW i \in DOMAIN inbox'[h],
                        inbox'[h][i].method = "work", inbox'[h][i].caller = req.caller
                 PROVE  FALSE
      BY <1>6
    <3>1. CASE h = g
      <4>1. i \in Nat \ {0} /\ i + 1 \in DOMAIN inbox[g] /\ inbox'[g][i] = inbox[g][i + 1]
        BY <1>3, <3>1
      <4>2. i + 1 = 1
        BY <1>5, <3>1, <4>1
      <4> QED
        BY <4>1, <4>2
    <3>2. CASE h # g
      <4>1. inbox'[h] = inbox[h]
        BY <1>0, <1>1, <3>2
      <4> QED
        BY <1>5, <3>2, <4>1
    <3> QED
      BY <3>1, <3>2
  <2> QED
    BY <1>1, <2>1, <2>2, RequestsKept DEF WorkInv
<1>10. ReplyInv'
  <2>1. \A c \in Callers : verdict'[c] = verdict[c] \/ verdict[c] = "none"
    BY <1>6, <1>7
  (* The answer under computation is the caller's verdict: ids are unique. *)
  <2>2. Truthful(busy[g])'
    <3>1. busy'[g].id = req.id /\ busy'[g].body = body
      BY <1>0, <1>2
    <3>2. ASSUME NEW c \in Callers, Live(c), reqID[c] = req.id, method[c] = "work"
          PROVE  verdict'[c] = body
      <4>1. req.method = "work"
        BY <1>5, <3>2
      <4>2. reqID[c] # NoId
        BY <3>2 DEF Waiters, WaiterInv, Live
      <4>3. c = req.caller
        BY <1>4, <1>7, <3>2, <4>1, <4>2 DEF Waiters, WaiterInv
      <4> QED
        BY <1>6, <4>1, <4>3
    <3> QED
      BY <1>1, <1>5, <3>1, <3>2 DEF Truthful, Live
  <2>3. \A h \in Gens : busy'[h] \in {busy[h], Idle} \/ Truthful(busy[h])'
    <3>1. \A h \in Gens : h # g => busy'[h] = busy[h]
      BY <1>0, <1>2
    <3> QED
      BY <2>2, <3>1
  <2>4. \A h \in Gens : \A i \in DOMAIN outbox'[h] :
           \E j \in DOMAIN outbox[h] : outbox'[h][i] = outbox[h][j]
    BY <1>1
  <2> QED
    BY <1>1, <2>1, <2>3, <2>4, RepliesKept DEF WorkInv
<1> QED
  BY <1>8, <1>9, <1>10 DEF WorkInv

(* The child writes an answer, refuses an oversized line, or is gone.      *)
LEMMA WorkOfEngine ==
    ASSUME TypeOK, Waiters, WorkInv, NEW g \in Gens,
           EngineReply(g) \/ EngineOversize(g) \/ Exit(g)
    PROVE  WorkInv'
<1>0. /\ outbox \in [Gens -> Seq(Reply)] /\ busy \in [Gens -> Reply \cup {Idle}]
  BY DEF TypeOK, EngineTypeOK
<1>1. UNCHANGED <<nextID, delivering, verdict, pc, method, reqID, chan, outcome>>
  BY DEF EngineReply, EngineOversize, Exit, clientVars, callerVars
<1>2. VerdictInv'
  BY <1>1 DEF WorkInv, VerdictInv
<1>3. RequestInv'
  <2>1. InboxShrinks
    BY Shrinks DEF EngineReply, EngineOversize, Exit
  <2> QED
    BY <1>1, <2>1, RequestsKept DEF WorkInv
<1>4. \A h \in Gens : busy'[h] \in {busy[h], Idle}
  BY <1>0 DEF EngineReply, EngineOversize, Exit
<1> DEFINE fresh == [id |-> NoId, body |-> "appErr"]
<1>5. ASSUME NEW h \in Gens, NEW i \in DOMAIN outbox'[h]
      PROVE  \/ outbox'[h][i] \in Reply /\ outbox'[h][i].id = NoId
             \/ outbox'[h][i] = busy[h] /\ busy[h] # Idle
             \/ \E j \in DOMAIN outbox[h] : outbox'[h][i] = outbox[h][j]
  <2>1. CASE outbox'[h] = outbox[h]
    BY <1>5, <2>1
  <2>2. CASE outbox'[h] # outbox[h]
    <3>1. \/ outbox'[h] = Append(outbox[h], busy[h]) /\ busy[h] # Idle
          \/ outbox'[h] = Append(outbox[h], fresh)
      BY <1>0, <2>2 DEF EngineReply, EngineOversize, Exit
    <3>2. outbox[h] \in Seq(Reply) /\ busy[h] \in Reply \cup {Idle}
      BY <1>0
    <3>3. fresh \in Reply /\ fresh.id = NoId
      BY DEF Reply, Bodies, NoId
    <3> HIDE DEF fresh
    <3>4. CASE outbox'[h] = Append(outbox[h], busy[h]) /\ busy[h] # Idle
      BY <1>5, <3>2, <3>4
    <3>5. CASE outbox'[h] = Append(outbox[h], fresh)
      BY <1>5, <3>2, <3>3, <3>5
    <3> QED
      BY <3>1, <3>4, <3>5
  <2> QED
    BY <2>1, <2>2
<1>6. ReplyInv'
  BY <1>1, <1>4, <1>5, RepliesKept DEF WorkInv
<1> QED
  BY <1>2, <1>3, <1>6 DEF WorkInv

(* dispatchLine finds the call by its id, which no other call can have.    *)
LEMMA WorkDispatched ==
    ASSUME TypeOK, Waiters, WorkInv, NEW g \in Gens, DispatchLine(g) PROVE WorkInv'
<1> DEFINE line == Head(outbox[g])
<1>0. /\ outbox \in [Gens -> Seq(Reply)] /\ delivering \in [Gens -> Delivery \cup {Nobody}]
      /\ \A i \in DOMAIN pending : pending[i] \in Callers
  BY DEF TypeOK, ClientTypeOK, EngineTypeOK
<1>1. /\ outbox[g] # <<>> /\ outbox' = [outbox EXCEPT ![g] = Tail(@)]
      /\ UNCHANGED <<nextID, inbox, busy, verdict, pc, method, reqID, chan, outcome>>
  BY DEF DispatchLine, callerVars
<1>2. /\ line = outbox[g][1] /\ 1 \in DOMAIN outbox[g] /\ line \in Reply
      /\ \A i \in DOMAIN outbox'[g] : i + 1 \in DOMAIN outbox[g]
                                      /\ outbox'[g][i] = outbox[g][i + 1]
  <2>1. outbox[g] \in Seq(Reply) /\ outbox'[g] = Tail(outbox[g])
    BY <1>0, <1>1
  <2>2. /\ DOMAIN outbox[g] = 1..Len(outbox[g]) /\ Len(outbox[g]) \in Nat \ {0}
        /\ DOMAIN Tail(outbox[g]) = 1..(Len(outbox[g]) - 1)
        /\ \A i \in 1..(Len(outbox[g]) - 1) : Tail(outbox[g])[i] = outbox[g][i + 1]
    BY <1>1, <2>1, HeadTailProperties, EmptySeq
  <2>3. line = outbox[g][1] /\ line \in Reply
    BY <1>1, <2>1, HeadTailProperties
  <2> QED
    BY <2>1, <2>2, <2>3
<1>3. Truthful(line)
  BY <1>2 DEF WorkInv, ReplyInv
<1>4. VerdictInv'
  <2>1. ASSUME NEW h \in Gens, delivering'[h] # Nobody, method[delivering'[h].to] = "work"
        PROVE  verdict[delivering'[h].to] = delivering'[h].body
    <3>1. CASE delivering'[h] = delivering[h]
      BY <2>1, <3>1 DEF WorkInv, VerdictInv
    <3>2. CASE delivering'[h] # delivering[h]
      <4>1. /\ line.id # NoId /\ line.id \in DOMAIN pending
            /\ delivering'[h] = [to |-> pending[line.id], body |-> line.body]
        BY <1>0, <3>2 DEF DispatchLine
      <4> DEFINE c == pending[line.id]
      <4>2. c \in Callers /\ reqID[c] = line.id /\ Live(c)
        BY <1>0, <4>1 DEF Waiters, PendingOnCurrent, Live
      <4>3. delivering'[h].to = c /\ delivering'[h].body = line.body
        BY <4>1
      <4> QED
        BY <1>3, <2>1, <4>2, <4>3 DEF Truthful
    <3> QED
      BY <3>1, <3>2
  <2> QED
    BY <1>1, <2>1 DEF WorkInv, VerdictInv
<1>5. RequestInv'
  BY <1>1, Shrinks, RequestsKept DEF WorkInv
<1>6. ReplyInv'
  <2>1. ASSUME NEW h \in Gens, NEW i \in DOMAIN outbox'[h]
        PROVE  \E j \in DOMAIN outbox[h] : outbox'[h][i] = outbox[h][j]
    <3>1. CASE h = g
      BY <1>2, <2>1, <3>1
    <3>2. CASE h # g
      BY <1>0, <1>1, <2>1, <3>2
    <3> QED
      BY <3>1, <3>2
  <2> QED
    BY <1>1, <2>1, RepliesKept DEF WorkInv
<1> QED
  BY <1>4, <1>5, <1>6 DEF WorkInv

(* What is sent on the channel is what was to be sent.                     *)
LEMMA WorkDelivered ==
    ASSUME TypeOK, WorkInv, NEW g \in Gens, DeliverReply(g) PROVE WorkInv'
<1>1. /\ delivering[g] # Nobody
      /\ chan' = [chan EXCEPT ![delivering[g].to] = delivering[g].body]
      /\ delivering' = [delivering EXCEPT ![g] = Nobody]
      /\ UNCHANGED <<nextID, inbox, busy, outbox, verdict, pc, method, reqID, outcome>>
  BY DEF DeliverReply, clientVars
<1>2. \A h \in Gens : delivering'[h] \in {delivering[h], Nobody}
  BY <1>1 DEF TypeOK, EngineTypeOK
<1>3. \A c \in Callers : \/ chan'[c] = chan[c]
                         \/ c = delivering[g].to /\ chan'[c] = delivering[g].body
  BY <1>1 DEF TypeOK, CallerTypeOK
<1>4. VerdictInv'
  BY <1>1, <1>2, <1>3 DEF WorkInv, VerdictInv
<1>5. RequestInv' /\ ReplyInv'
  BY <1>1 DEF WorkInv, RequestInv, Outstanding, ReplyInv, Truthful, Live
<1> QED
  BY <1>4, <1>5 DEF WorkInv

(* The lemmas above, put together for Next.                                *)
LEMMA WorkStep == TypeOK /\ Waiters /\ WorkInv /\ [Next]_vars => WorkInv'
<1> SUFFICES ASSUME TypeOK, Waiters, WorkInv, [Next]_vars PROVE WorkInv'
  OBVIOUS
<1>1. ASSUME UNCHANGED <<nextID, inbox, busy, outbox, delivering, verdict, pc, method, reqID,
                         chan, outcome>>
      PROVE  WorkInv'
  BY <1>1 DEF WorkInv, VerdictInv, RequestInv, Outstanding, ReplyInv, Truthful, Live
<1>2. ASSUME NEW g \in Gens, EngineEof(g) \/ EngineCrash(g) PROVE WorkInv'
  BY <1>2, WorkOfEngine DEF EngineEof, EngineCrash
<1>3. ASSUME NEW g \in Gens, GenerationEnded(g) PROVE WorkInv'
  <2>1. CASE proc = g
    BY <1>3, <2>1, WorkFailed DEF GenerationEnded
  <2>2. CASE proc # g
    BY <1>1, <1>3, <2>2 DEF GenerationEnded
  <2> QED
    BY <2>1, <2>2
<1>4. CASE CloseBegin
  BY <1>4, WorkFailed DEF CloseBegin, engineVars
<1>5. CASE CloseKill
  <2>1. captured \in Gens
    BY <1>5 DEF TypeOK, CloseTypeOK, CloseKill
  <2>2. CASE os[captured] = "running"
    BY <1>5, <2>1, <2>2, WorkOfEngine DEF CloseKill
  <2>3. CASE os[captured] # "running"
    BY <1>1, <1>5, <2>3 DEF CloseKill, clientVars, engineVars, callerVars
  <2> QED
    BY <2>2, <2>3
<1>6. CASE IntervalElapsed \/ CloseStdin \/ CloseReaped \/ Terminating \/ UNCHANGED vars
  BY <1>1, <1>6 DEF IntervalElapsed, CloseStdin, CloseReaped, Terminating, vars, clientVars,
     engineVars, callerVars
<1> QED
  BY <1>2, <1>3, <1>4, <1>5, <1>6, WorkCallerStep, WorkSent, WorkTaken, WorkOfEngine,
     WorkDispatched, WorkDelivered DEF Next, CallerStep, EngineStep, ReaderStep, CloseStep

-----------------------------------------------------------------------------
(* The inductive invariant holds of every behaviour of the client, for any *)
(* number of callers, starts and pipe slots.                               *)
THEOREM Invariance == Spec => []IInv
<1>1. Init => IInv
  BY TypeInit, ProcessInit, WaitersInit, WorkInit DEF IInv
<1>2. IInv /\ [Next]_vars => IInv'
  BY TypeStep, ProcessStep, WaitersStep, WorkStep DEF IInv, Waiters
<1> QED
  BY <1>1, <1>2, PTL DEF Spec

(* Every variable keeps its type: in particular no caller is handed the    *)
(* local error of a lost child as if the engine had answered it.           *)
THEOREM TypeCorrect == Spec => []TypeOK
BY Invariance, PTL DEF IInv

(* startLocked never runs a second child beside one that still runs,       *)
(* whatever calls, crashes and Close do meanwhile.                         *)
THEOREM OneProcess == Spec => []AtMostOneProcess
<1>1. IInv => AtMostOneProcess
  BY DEF IInv, ProcessInv, AtMostOneProcess, Gens
<1> QED
  BY <1>1, Invariance, PTL

(* When Close has returned, every child that was ever started has ended    *)
(* and has been waited for.                                                *)
THEOREM CloseLeavesNothing == Spec => []NoProcessAfterClose
<1>1. IInv => NoProcessAfterClose
  BY DEF IInv, TypeOK, EngineTypeOK, ProcessInv, NoProcessAfterClose, Gens
<1> QED
  BY <1>1, Invariance, PTL

(* The pending map never holds an entry of a call that has ended, or of a  *)
(* child that is gone.                                                     *)
THEOREM PendingIsCurrent == Spec => []PendingOnCurrent
BY Invariance, PTL DEF IInv

(* No waiting call is forgotten, and none is sent two results.             *)
THEOREM ExactlyOneResult == Spec => []OneResult
BY Invariance, PTL DEF IInv
-----------------------------------------------------------------------------
(* The refinement: every step of the client is a step of AtMostOnceRpc or  *)
(* changes nothing a caller can see.                                       *)
LEMMA StatusChange ==
    ASSUME CallerTypeOK, CallerTypeOK', NEW c \in Callers,
           \A d \in Callers : d # c => pc'[d] = pc[d] /\ outcome'[d] = outcome[d]
    PROVE  CallStatus' = [CallStatus EXCEPT ![c] = CallStatus'[c]]
BY DEF CallStatus

\* A call that is turned away has sent nothing of its own.
LEMMA RefusedIsRefuse ==
    ASSUME IInv, IInv', NEW c \in Callers, pc[c] \in {"idle", "alloc", "register"},
           Return(c, "refused"), UNCHANGED <<verdict, closed, closer>>
    PROVE  Rpc!Refuse(c)
<1>1. CallerTypeOK /\ CallerTypeOK'
  BY DEF IInv, TypeOK
<1>2. /\ pc'[c] = "returned" /\ outcome'[c] = "refused"
      /\ \A d \in Callers : d # c => pc'[d] = pc[d] /\ outcome'[d] = outcome[d]
  BY <1>1 DEF Return, Goto, CallerTypeOK
<1>3. CallStatus[c] \in {"idle", "active"} /\ CallStatus'[c] = "refused"
  BY <1>2 DEF CallStatus
<1>4. verdict[c] = "none"
  BY DEF IInv, WorkInv, VerdictInv
<1> QED
  BY <1>1, <1>2, <1>3, <1>4, StatusChange DEF Rpc!Refuse, Stage

\* A call that ends on this side fails.
LEMMA FailedIsFail ==
    ASSUME CallerTypeOK, CallerTypeOK', NEW c \in Callers, pc[c] \in Waiting,
           Return(c, "failed"), UNCHANGED <<verdict, closed, closer>>
    PROVE  Rpc!Fail({c})
<1>1. /\ pc'[c] = "returned" /\ outcome'[c] = "failed"
      /\ \A d \in Callers : d # c => pc'[d] = pc[d] /\ outcome'[d] = outcome[d]
  BY DEF Return, Goto, CallerTypeOK
<1>2. CallStatus[c] = "active" /\ CallStatus'[c] = "failed"
  BY <1>1 DEF CallStatus, Waiting
<1>3. \A d \in Callers : d # c => CallStatus'[d] = CallStatus[d]
  BY <1>1 DEF CallStatus
<1>4. CallStatus' = [d \in Callers |-> IF d \in {c} THEN "failed" ELSE CallStatus[d]]
  BY <1>2, <1>3 DEF CallStatus
<1> QED
  BY <1>2, <1>4 DEF Rpc!Fail, Stage

\* Close moves the stage and ends no call by itself.
LEMMA ClosingIsClose ==
    ASSUME UNCHANGED <<pc, outcome, verdict>>,
           \/ Stage = "open" /\ Stage' \in {"closing", "down"}
           \/ Stage = "closing" /\ Stage' = "down"
    PROVE  Rpc!Close
<1> DEFINE cs == {}
<1>1. CallStatus' = CallStatus
  BY DEF CallStatus
<1>2. CallStatus = [c \in Callers |-> CallStatus[c]]
  BY DEF CallStatus
<1>3. /\ cs \in SUBSET {c \in Callers : CallStatus[c] = "active"}
      /\ CallStatus' = [c \in Callers |-> IF c \in cs THEN "failed" ELSE CallStatus[c]]
  BY <1>1, <1>2
<1> QED
  BY <1>3 DEF Rpc!Close

\* Every step of the client is a step of AtMostOnceRpc or a stutter.
LEMMA StepImplements == IInv /\ IInv' /\ [Next]_vars => [Rpc!Next]_(Rpc!vars)
<1> SUFFICES ASSUME IInv, IInv', [Next]_vars PROVE [Rpc!Next]_(Rpc!vars)
  OBVIOUS
<1> USE DEF Goto
<1>0. /\ ClientTypeOK /\ EngineTypeOK /\ CallerTypeOK /\ CloseTypeOK /\ CallerTypeOK'
      /\ ProcessInv /\ WorkInv
  BY DEF IInv, TypeOK
<1>1. ASSUME UNCHANGED <<CallStatus, verdict, Stage>> PROVE [Rpc!Next]_(Rpc!vars)
  BY <1>1 DEF Rpc!vars
<1>2. ASSUME NEW c \in Callers, pc[c] \in {"idle", "alloc", "register"},
             Return(c, "refused"), UNCHANGED <<verdict, closed, closer>>
      PROVE  [Rpc!Next]_(Rpc!vars)
  BY <1>2, RefusedIsRefuse DEF Rpc!Next
<1>3. ASSUME NEW c \in Callers, EnsureFound(c) \/ EnsureSpawned(c) PROVE [Rpc!Next]_(Rpc!vars)
  <2>1. /\ pc[c] = "idle" /\ pc' = [pc EXCEPT ![c] = "alloc"] /\ ~closed
        /\ UNCHANGED <<outcome, verdict, closed, closer>>
    BY <1>3 DEF EnsureFound, EnsureSpawned, CanCall, MayStart, clientVars, engineVars, closeVars
  <2>2. /\ pc'[c] = "alloc"
        /\ \A d \in Callers : d # c => pc'[d] = pc[d] /\ outcome'[d] = outcome[d]
    BY <1>0, <2>1 DEF CallerTypeOK
  <2>3. CallStatus[c] = "idle" /\ CallStatus'[c] = "active"
    BY <2>1, <2>2 DEF CallStatus
  <2>4. Stage = "open" /\ Stage' = Stage
    BY <1>0, <2>1 DEF ProcessInv, Stage
  <2>5. Rpc!Invoke(c)
    BY <1>0, <2>1, <2>2, <2>3, <2>4, StatusChange DEF Rpc!Invoke
  <2> QED
    BY <2>5 DEF Rpc!Next
(* Steps inside a call: it stays active.                                   *)
<1>4. ASSUME NEW c \in Callers, NEW label \in {"alloc", "register"} \cup Waiting,
             pc[c] \in {"alloc", "register"} \cup Waiting, pc' = [pc EXCEPT ![c] = label],
             UNCHANGED <<outcome, verdict, closed, closer>>
      PROVE  [Rpc!Next]_(Rpc!vars)
  <2>1. \A d \in Callers : pc'[d] = IF d = c THEN label ELSE pc[d]
    BY <1>0, <1>4 DEF CallerTypeOK
  <2>2. CallStatus' = CallStatus
    BY <1>4, <2>1 DEF CallStatus, Waiting
  <2> QED
    BY <1>1, <1>4, <2>2 DEF Stage
<1>5. ASSUME NEW c \in Callers, pc[c] \in Waiting, Return(c, "failed"),
             UNCHANGED <<verdict, closed, closer>>
      PROVE  [Rpc!Next]_(Rpc!vars)
  <2>1. Rpc!Fail({c}) /\ {c} \in SUBSET Callers
    BY <1>0, <1>5, FailedIsFail
  <2> QED
    BY <2>1 DEF Rpc!Next
<1>6. ASSUME NEW c \in Callers, TakeReply(c) PROVE [Rpc!Next]_(Rpc!vars)
  <2>1. /\ pc[c] = "await" /\ chan[c] \in Bodies \cup {"gone"} /\ method[c] \in Methods
        /\ UNCHANGED <<verdict, closed, closer>>
    BY <1>0, <1>6 DEF TakeReply, CallerTypeOK, clientVars, engineVars, closeVars
  <2>2. CASE pc' = [pc EXCEPT ![c] = "alloc"] /\ UNCHANGED outcome
    BY <1>4, <2>1, <2>2 DEF Waiting
  <2>3. CASE Return(c, "failed")
    BY <1>5, <2>1, <2>3 DEF Waiting
  <2>4. CASE method[c] = "work" /\ chan[c] \in Bodies /\ Return(c, chan[c])
    <3>1. verdict[c] = chan[c] /\ verdict[c] # "none"
      BY <1>0, <2>4 DEF WorkInv, VerdictInv, Bodies
    <3>2. /\ pc'[c] = "returned" /\ outcome'[c] = verdict[c]
          /\ \A d \in Callers : d # c => pc'[d] = pc[d] /\ outcome'[d] = outcome[d]
      BY <1>0, <2>4, <3>1 DEF Return, CallerTypeOK
    <3>3. CallStatus[c] = "active" /\ CallStatus'[c] = verdict[c]
      BY <2>1, <3>2 DEF CallStatus
    <3>4. Rpc!Answer(c)
      BY <1>0, <2>1, <3>1, <3>2, <3>3, StatusChange DEF Rpc!Answer, Stage
    <3> QED
      BY <3>4 DEF Rpc!Next
  <2> QED
    BY <1>6, <2>1, <2>2, <2>3, <2>4 DEF TakeReply, OutcomeOf, Bodies, Methods
<1>7. ASSUME NEW c \in Callers, EnsureStarted(c) PROVE [Rpc!Next]_(Rpc!vars)
  <2>1. CASE EnsureRefused(c)
    BY <1>2, <2>1 DEF EnsureRefused, clientVars, engineVars, closeVars
  <2> QED
    BY <1>3, <1>7, <2>1 DEF EnsureStarted
<1>8. ASSUME NEW c \in Callers, CallerStep(c) \/ TimeOut(c) PROVE [Rpc!Next]_(Rpc!vars)
  <2>1. CASE AllocateId(c)
    BY <1>2, <1>4, <2>1 DEF AllocateId, engineVars, closeVars
  <2>2. CASE Register(c)
    BY <1>2, <1>4, <2>2 DEF Register, Waiting, engineVars, closeVars
  <2>3. CASE AcquireWrite(c) \/ WriteOk(c) \/ WriteError(c) \/ TimeOut(c)
    BY <1>4, <2>3 DEF AcquireWrite, WriteOk, WriteError, TimeOut, Waiting, clientVars,
       engineVars, closeVars
  <2>4. CASE Forget(c)
    BY <1>5, <2>4 DEF Forget, Waiting, engineVars, closeVars
  <2> QED
    BY <1>6, <1>8, <2>1, <2>2, <2>3, <2>4 DEF CallerStep
(* The child carries out a request: its caller has had no answer yet.      *)
<1>9. ASSUME NEW g \in Gens, EngineTake(g) PROVE [Rpc!Next]_(Rpc!vars)
  <2> DEFINE req == Head(inbox[g])
  <2>1. PICK body \in Bodies :
           verdict' = IF req.method = "ping" THEN verdict ELSE [verdict EXCEPT ![req.caller] = body]
    BY <1>9 DEF EngineTake, Bodies
  <2>2. os[g] = "running" /\ UNCHANGED <<CallStatus, Stage>>
    BY <1>9 DEF EngineTake, CallStatus, Stage, clientVars, callerVars, closeVars
  <2>3. req = inbox[g][1] /\ 1 \in DOMAIN inbox[g] /\ req \in Request
    BY <1>0, <1>9, HeadTailProperties, EmptySeq DEF EngineTake, EngineTypeOK
  <2>4. CASE req.method = "ping"
    BY <1>1, <2>1, <2>2, <2>4
  <2>5. CASE req.method # "ping"
    <3> DEFINE c == req.caller
    <3>1. c \in Callers /\ req.method = "work"
      BY <2>3, <2>5 DEF Request, Methods
    <3>2. Outstanding(c, req.id)
      BY <1>0, <2>3, <3>1 DEF WorkInv, RequestInv
    <3>3. CallStatus[c] \in {"active", "failed"} /\ verdict[c] = "none"
      BY <3>1, <3>2 DEF Outstanding, CallStatus
    <3>4. Stage # "down"
      BY <1>0, <2>2 DEF ProcessInv, Stage, EngineTypeOK, CloseTypeOK, Gens
    <3>5. Rpc!Execute(c)
      BY <2>1, <2>2, <2>5, <3>3, <3>4 DEF Rpc!Execute, Rpc!Bodies, Bodies
    <3> QED
      BY <3>1, <3>5 DEF Rpc!Next
  <2> QED
    BY <2>4, <2>5
<1>10. CASE CloseBegin
  <2>1. ~closed /\ closer' \in {"done", "eof"} /\ closed' /\ UNCHANGED <<pc, outcome, verdict>>
    BY <1>10 DEF CloseBegin, engineVars
  <2>2. Stage = "open" /\ Stage' \in {"closing", "down"}
    BY <1>0, <2>1 DEF ProcessInv, Stage
  <2> QED
    BY <2>1, <2>2, ClosingIsClose DEF Rpc!Next
<1>11. CASE CloseReaped
  <2>1. closed /\ closer # "done"
    BY <1>0, <1>11 DEF CloseReaped, ProcessInv
  <2>2. closer' = "done" /\ UNCHANGED <<pc, outcome, verdict>>
    BY <1>11 DEF CloseReaped, engineVars, callerVars
  <2>3. Stage = "closing" /\ Stage' = "down"
    BY <2>1, <2>2 DEF Stage
  <2> QED
    BY <2>2, <2>3, ClosingIsClose DEF Rpc!Next
<1>12. CASE CloseStdin \/ CloseKill
  <2>1. /\ closer # "done" /\ closer' # "done"
        /\ UNCHANGED <<closed, pc, outcome, verdict>>
    BY <1>12 DEF CloseStdin, CloseKill, Exit, clientVars, engineVars, callerVars
  <2> QED
    BY <1>1, <2>1 DEF CallStatus, Stage
<1>13. ASSUME \/ IntervalElapsed \/ Terminating \/ UNCHANGED vars
              \/ \E g \in Gens : \/ EngineReply(g) \/ EngineOversize(g) \/ EngineEof(g)
                                 \/ EngineCrash(g) \/ ReaderStep(g)
       PROVE  [Rpc!Next]_(Rpc!vars)
  <2>1. UNCHANGED <<closed, closer, pc, outcome, verdict>>
    BY <1>13 DEF IntervalElapsed, Terminating, EngineReply, EngineOversize, EngineEof,
       EngineCrash, Exit, ReaderStep, DispatchLine, DeliverReply, GenerationEnded, vars,
       clientVars, engineVars, callerVars, closeVars
  <2> QED
    BY <1>1, <2>1 DEF CallStatus, Stage
<1> QED
  BY <1>7, <1>8, <1>9, <1>10, <1>11, <1>12, <1>13 DEF Next, EngineStep, CloseStep

(* The Go client implements the contract of a JSON-RPC client: a request   *)
(* of a task is carried out at most once, an answer is what the engine     *)
(* made of that very request, and once Close has returned the engine does  *)
(* no further work, through crashes, restarts, timeouts and Close.         *)
THEOREM ClientImplements == Spec => Implements
<1>1. Init => Rpc!Init
  BY DEF Init, Rpc!Init, CallStatus, Stage
<1>2. IInv /\ IInv' /\ [Next]_vars => [Rpc!Next]_(Rpc!vars)
  BY StepImplements
<1> QED
  BY <1>1, <1>2, Invariance, PTL DEF Spec, Implements, Rpc!Spec
=============================================================================
