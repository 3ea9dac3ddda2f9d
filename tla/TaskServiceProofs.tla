------------------------- MODULE TaskServiceProofs -------------------------
(***************************************************************************)
(* The safety of TaskService for every set of tasks, users and delete      *)
(* requests, with and without failing statements, crashes and restarts.    *)
(* IInv is inductive; the theorems at the end follow from it.              *)
(***************************************************************************)
EXTENDS TaskService, TLAPS

(* The markers for a missing row and an unsent request are no rows and no  *)
(* requests.                                                               *)
LEMMA Markers ==
    /\ Absent \notin Row
    /\ Unsent \notin Deletion /\ Done \notin Deletion
    /\ Unsent.at # "delete" /\ Done.at # "delete"
    /\ \A d \in Deletion : d.at = "delete"
BY DEF Absent, Row, Terminal, Unsent, Done, Deletion

(* What the engine contract's steps keep: its types, and that an answer is *)
(* what the engine made of the request.                                    *)
EngineInv ==
    /\ Rpc!TypeOK
    /\ \A t \in Tasks : call[t] \in {"ok", "appErr"} => verdict[t] = call[t]

(* A step of the engine contract moves no finished call and no verdict.    *)
EngineKeeps ==
    /\ \A t \in Tasks : verdict[t] # "none" => verdict'[t] = verdict[t]

\* What a step of the engine's contract does to the calls of other tasks.
LEMMA EngineSteps ==
    ASSUME EngineInv,
           \/ \E t \in Tasks : Rpc!Invoke(t) \/ Rpc!Refuse(t) \/ Rpc!Execute(t)
                               \/ Rpc!Answer(t) \/ Rpc!Fail({t})
           \/ Rpc!Close
    PROVE  EngineInv' /\ EngineKeeps
<1> USE DEF EngineInv, EngineKeeps, Rpc!TypeOK, Rpc!Bodies
<1>1. ASSUME NEW t \in Tasks, Rpc!Invoke(t) PROVE EngineInv' /\ EngineKeeps
  BY <1>1 DEF Rpc!Invoke
<1>2. ASSUME NEW t \in Tasks, Rpc!Refuse(t) PROVE EngineInv' /\ EngineKeeps
  BY <1>2 DEF Rpc!Refuse
<1>3. ASSUME NEW t \in Tasks, Rpc!Execute(t) PROVE EngineInv' /\ EngineKeeps
  BY <1>3 DEF Rpc!Execute
<1>4. ASSUME NEW t \in Tasks, Rpc!Answer(t) PROVE EngineInv' /\ EngineKeeps
  BY <1>4 DEF Rpc!Answer
<1>5. ASSUME NEW t \in Tasks, Rpc!Fail({t}) PROVE EngineInv' /\ EngineKeeps
  BY <1>5 DEF Rpc!Fail
<1>6. ASSUME Rpc!Close PROVE EngineInv' /\ EngineKeeps
  BY <1>6 DEF Rpc!Close
<1> QED
  BY <1>1, <1>2, <1>3, <1>4, <1>5, <1>6

(* Types: the table only ever gets rows, the goroutine's copy is one.      *)
LEMMA TypeInit == Init => TypeOK
BY MaxRestartsAssumption DEF Init, TypeOK, Rpc!Init, Rpc!TypeOK

\* Every step keeps the types.
LEMMA TypeStep == IInv /\ [Next]_vars => TypeOK'
<1> SUFFICES ASSUME IInv, [Next]_vars PROVE TypeOK'
  OBVIOUS
<1>0. TypeOK /\ StageInv /\ EngineInv
  BY DEF IInv, TypeOK, StageInv, EngineInv
<1> USE <1>0, Markers DEF TypeOK
<1>1. ASSUME NEW t \in Tasks, NEW u \in Users, NEW k \in Kinds, Create(t, u, k)
      PROVE  TypeOK'
  BY <1>1 DEF Create, Go, Row, procVars, rpcVars, Rpc!TypeOK
<1>2. ASSUME NEW t \in Tasks, RunDbError(t) PROVE TypeOK'
  BY <1>2 DEF RunDbError, Go, tableVars, procVars, rpcVars, Rpc!TypeOK
<1>3. ASSUME NEW t \in Tasks, RunMark(t) PROVE TypeOK'
  BY <1>3 DEF RunMark, SetStatus, Go, Row, procVars, rpcVars, Rpc!TypeOK
<1>4. ASSUME NEW t \in Tasks, RunGet(t) PROVE TypeOK'
  BY <1>4 DEF RunGet, Go, tableVars, procVars, rpcVars, Rpc!TypeOK
<1>5. ASSUME NEW t \in Tasks, RunCall(t) PROVE TypeOK'
  <2>1. EngineInv'
    BY <1>5, EngineSteps DEF RunCall
  <2> QED
    BY <1>5, <2>1 DEF RunCall, Go, tableVars, procVars, EngineInv
<1>6. ASSUME NEW t \in Tasks, RunReturn(t) PROVE TypeOK'
  BY <1>6 DEF RunReturn, Go, tableVars, procVars, rpcVars, Rpc!TypeOK
<1>7. ASSUME NEW t \in Tasks, RunFail(t) PROVE TypeOK'
  BY <1>7 DEF RunFail, SetStatus, Go, Row, Terminal, procVars, rpcVars, Rpc!TypeOK
<1>8. ASSUME NEW t \in Tasks, RunLoad(t) PROVE TypeOK'
  BY <1>8 DEF RunLoad, Go, tableVars, procVars, rpcVars, Rpc!TypeOK
<1>9. ASSUME NEW t \in Tasks, RunSave(t) PROVE TypeOK'
  <2>1. copy[t] \in Row
    BY <1>9 DEF RunSave, At, StageInv
  <2>2. [copy[t] EXCEPT !.status = "succeeded", !.result = copy[t].kind] \in Row
    BY <2>1 DEF Row, Terminal
  <2> QED
    BY <1>9, <2>2 DEF RunSave, Save, Go, procVars, rpcVars, Rpc!TypeOK
<1>10. ASSUME NEW r \in Requests, NEW u \in Users, NEW t \in Tasks, DeleteCheck(r, u, t)
       PROVE  TypeOK'
  <2>1. PICK d \in Deletion \cup {Done} : del' = [del EXCEPT ![r] = d]
    BY <1>10 DEF DeleteCheck, Reply, Deletion
  <2> QED
    BY <1>10, <2>1 DEF DeleteCheck, Deletion, tableVars, runVars, procVars, rpcVars, Rpc!TypeOK
<1>11. ASSUME NEW r \in Requests, DeleteRow(r) \/ DeleteDbError(r) PROVE TypeOK'
  <2>1. del[r] \in Deletion /\ del[r].task \in Tasks
    BY <1>11 DEF DeleteRow, DeleteDbError, Deletion
  <2> QED
    BY <1>11, <2>1 DEF DeleteRow, DeleteDbError, Reply, tableVars, runVars, procVars,
       rpcVars, Rpc!TypeOK
<1>12. ASSUME EngineStep \/ Shutdown PROVE TypeOK'
  <2>1. EngineInv'
    BY <1>12, EngineSteps DEF EngineStep, Shutdown
  <2> QED
    BY <1>12, <2>1 DEF EngineStep, Shutdown, tableVars, runVars, procVars, EngineInv
<1>13. ASSUME Crash PROVE TypeOK'
  <2>2. del' \in [Requests -> Deletion \cup {Unsent, Done}]
    BY <1>13 DEF Crash
  <2> QED
    BY <1>13, <2>2 DEF Crash, tableVars, Rpc!TypeOK
<1>14. ASSUME Restart PROVE TypeOK'
  BY <1>14, MaxRestartsAssumption DEF Restart, tableVars, runVars, Rpc!TypeOK
<1>15. ASSUME UNCHANGED vars PROVE TypeOK'
  BY <1>15 DEF vars, tableVars, runVars, procVars, rpcVars, Rpc!TypeOK
<1> QED
  BY <1>1, <1>2, <1>3, <1>4, <1>5, <1>6, <1>7, <1>8, <1>9, <1>10, <1>11, <1>12, <1>13,
     <1>14, <1>15 DEF Next, RunStep, Terminating
-----------------------------------------------------------------------------
(* What the rows, the goroutines and the delete requests know of another.  *)
RowInv == SucceededIsComputed /\ NoHalfRevival /\ StageInv /\ OwnerInv

(* The four conjuncts speak of the same pieces of state: a step that moves *)
(* one task's row or goroutine leaves those of the others alone.           *)
LEMMA RowInit == Init => RowInv
BY DEF Init, RowInv, SucceededIsComputed, NoHalfRevival, StageInv, OwnerInv, Rpc!Init,
   Absent, Unsent

\* Every step keeps the relation of a row and the goroutine of its task.
LEMMA RowStep == IInv /\ [Next]_vars => RowInv'
<1> SUFFICES ASSUME IInv, [Next]_vars PROVE RowInv'
  OBVIOUS
<1>0. TypeOK /\ RowInv /\ EngineInv
  BY DEF IInv, RowInv, TypeOK, StageInv, EngineInv
<1> USE <1>0, Markers
<1> DEFINE Shape == /\ row \in [Tasks -> Row \cup {Absent}]
                    /\ copy \in [Tasks -> Row \cup {Absent}]
                    /\ runner \in [Tasks -> {"none", "mark", "get", "engine", "wait",
                                               "fail", "load", "save", "cut"}]
                    /\ del \in [Requests -> Deletion \cup {Unsent, Done}]
                    /\ used \subseteq Tasks /\ deleted \subseteq Tasks
<1>s. Shape
  BY DEF TypeOK
<1>1. ASSUME NEW t \in Tasks, NEW u \in Users, NEW k \in Kinds, Create(t, u, k)
      PROVE  RowInv'
  <2> USE <1>1 DEF Create, Go, procVars, rpcVars
  <2>0. row[t] = Absent /\ copy[t] = Absent /\ t \notin deleted /\ k # "none"
    BY DEF RowInv, StageInv, Kinds
  <2>1. SucceededIsComputed'
    BY <1>s, <2>0 DEF RowInv, SucceededIsComputed
  <2>2. NoHalfRevival'
    BY <1>s, <2>0 DEF RowInv, NoHalfRevival
  <2>3. StageInv'
    BY <1>s, <2>0 DEF RowInv, StageInv
  <2>4. OwnerInv'
    BY <1>s, <2>0 DEF RowInv, OwnerInv
  <2> QED
    BY <2>1, <2>2, <2>3, <2>4 DEF RowInv
<1>2. ASSUME NEW t \in Tasks, RunDbError(t) \/ RunReturn(t) PROVE RowInv'
  BY <1>2, <1>s DEF RowInv, SucceededIsComputed, NoHalfRevival, StageInv, OwnerInv, RunDbError,
     RunReturn, At, Go, tableVars, procVars, rpcVars
<1>3. ASSUME NEW t \in Tasks, RunMark(t) PROVE RowInv'
  BY <1>3, <1>s DEF RowInv, SucceededIsComputed, NoHalfRevival, StageInv, OwnerInv, RunMark,
     SetStatus, At, Go, Row, Absent, procVars, rpcVars
<1>4. ASSUME NEW t \in Tasks, RunGet(t) \/ RunLoad(t) PROVE RowInv'
  BY <1>4, <1>s DEF RowInv, SucceededIsComputed, NoHalfRevival, StageInv, OwnerInv, RunGet,
     RunLoad, At, Go, tableVars, procVars, rpcVars
<1>5. ASSUME NEW t \in Tasks, RunCall(t) PROVE RowInv'
  <2>1. EngineInv' /\ EngineKeeps
    BY <1>5, EngineSteps DEF RunCall
  <2> QED
    BY <1>5, <2>1, <1>s DEF RowInv, SucceededIsComputed, NoHalfRevival, StageInv, OwnerInv,
       RunCall, At, Go, tableVars, procVars, EngineInv, EngineKeeps
<1>7. ASSUME NEW t \in Tasks, RunFail(t) PROVE RowInv'
  BY <1>7, <1>s DEF RowInv, SucceededIsComputed, NoHalfRevival, StageInv, OwnerInv, RunFail,
     SetStatus, At, Go, Row, Absent, procVars, rpcVars
<1>9. ASSUME NEW t \in Tasks, RunSave(t) PROVE RowInv'
  <2> DEFINE new == [copy[t] EXCEPT !.status = "succeeded", !.result = copy[t].kind]
  <2> USE <1>9 DEF RunSave, At, Go, procVars, rpcVars
  <2>0. copy[t] \in Row /\ verdict[t] = "ok" /\ t \in used
    BY <1>s DEF RowInv, StageInv
  <2>1. /\ new \in Row /\ new # Absent
        /\ new.status = "succeeded" /\ new.result = new.kind
        /\ new.owner = copy[t].owner /\ new.kind = copy[t].kind
    BY <2>0 DEF Row, Terminal
  <2>2. row' = [row EXCEPT ![t] = new]
    BY DEF Save
  <2> HIDE DEF new
  <2>3. SucceededIsComputed'
    BY <1>s, <2>0, <2>1, <2>2 DEF RowInv, SucceededIsComputed
  <2>4. NoHalfRevival'
    BY <1>s, <2>0, <2>1, <2>2 DEF RowInv, NoHalfRevival
  <2>5. StageInv'
    BY <1>s, <2>0, <2>1, <2>2 DEF RowInv, StageInv
  <2>6. OwnerInv'
    BY <1>s, <2>0, <2>1, <2>2 DEF RowInv, OwnerInv, Deletion
  <2> QED
    BY <2>3, <2>4, <2>5, <2>6 DEF RowInv
<1>10. ASSUME NEW r \in Requests, NEW u \in Users, NEW t \in Tasks, DeleteCheck(r, u, t)
       PROVE  RowInv'
  <2>1. PICK d \in {[at |-> "delete", user |-> u, task |-> t], Done} :
             /\ del' = [del EXCEPT ![r] = d]
             /\ d # Done => row[t] # Absent /\ row[t].owner = u
    BY <1>10 DEF DeleteCheck, Reply
  <2>2. d.at = "delete" => /\ row[t] # Absent /\ row[t].owner = u
                           /\ d.user = u /\ d.task = t
    BY <2>1
  <2>3. OwnerInv'
    BY <1>10, <2>1, <2>2, <1>s DEF RowInv, OwnerInv, StageInv, DeleteCheck, tableVars, runVars
  <2> QED
    BY <1>10, <2>3 DEF RowInv, SucceededIsComputed, NoHalfRevival, StageInv, DeleteCheck,
       tableVars, runVars, rpcVars
<1>11. ASSUME NEW r \in Requests, DeleteRow(r) PROVE RowInv'
  <2>1. /\ del[r] \in Deletion /\ del[r].task \in Tasks /\ del[r].task \in used
        /\ del'[r] = Done
    BY <1>11, <1>s DEF DeleteRow, Reply, Deletion, RowInv, OwnerInv
  <2>2. \A q \in Requests : del'[q].at = "delete" => del'[q] = del[q]
    BY <1>11, <1>s, <2>1 DEF DeleteRow, Reply
  <2> DEFINE t == del[r].task
  <2>3. /\ row' = [row EXCEPT ![t] = Absent] /\ deleted' \subseteq deleted \cup {t}
        /\ UNCHANGED <<used, runner, copy, call, verdict>>
    BY <1>11 DEF DeleteRow, runVars, rpcVars
  <2> HIDE DEF t
  <2>4. t \in Tasks /\ t \in used
    BY <2>1 DEF t
  <2>5. SucceededIsComputed' /\ NoHalfRevival' /\ StageInv'
    BY <1>s, <2>3, <2>4 DEF RowInv, SucceededIsComputed, NoHalfRevival, StageInv
  <2>6. OwnerInv'
    BY <1>s, <2>2, <2>3, <2>4 DEF RowInv, OwnerInv
  <2> QED
    BY <2>5, <2>6 DEF RowInv
<1>12. ASSUME NEW r \in Requests, DeleteDbError(r) PROVE RowInv'
  <2>1. del[r] \in Deletion /\ del'[r] = Done
    BY <1>12, <1>s DEF DeleteDbError, Reply, Deletion
  <2>2. \A q \in Requests : del'[q].at = "delete" => del'[q] = del[q]
    BY <1>12, <1>s, <2>1 DEF DeleteDbError, Reply
  <2> QED
    BY <1>12, <2>2 DEF RowInv, SucceededIsComputed, NoHalfRevival, StageInv, OwnerInv,
       DeleteDbError, tableVars, runVars, rpcVars
<1>13. ASSUME EngineStep \/ Shutdown PROVE RowInv'
  <2>1. EngineInv' /\ EngineKeeps
    BY <1>13, EngineSteps DEF EngineStep, Shutdown
  <2> QED
    BY <1>13, <2>1 DEF RowInv, SucceededIsComputed, NoHalfRevival, StageInv, OwnerInv,
       EngineStep, Shutdown, tableVars, runVars, EngineInv, EngineKeeps
<1>14. ASSUME Crash PROVE RowInv'
  <2>1. \A q \in Requests : del'[q].at = "delete" => del'[q] = del[q]
    BY <1>14, <1>s DEF Crash, Deletion
  <2>2. \A t \in Tasks : /\ runner'[t] = (IF runner[t] = "none" THEN "none" ELSE "cut")
                         /\ call'[t] \in {"ok", "appErr"} => call'[t] = call[t]
    BY <1>14 DEF Crash
  <2>3. UNCHANGED <<row, used, deleted, copy, verdict>>
    BY <1>14 DEF Crash, tableVars
  <2> QED
    BY <2>1, <2>2, <2>3 DEF RowInv, SucceededIsComputed, NoHalfRevival, StageInv, OwnerInv
<1>15. ASSUME Restart \/ UNCHANGED vars PROVE RowInv'
  BY <1>15 DEF RowInv, SucceededIsComputed, NoHalfRevival, StageInv, OwnerInv, Restart, vars,
     tableVars, runVars, rpcVars
<1> QED
  BY <1>1, <1>2, <1>3, <1>4, <1>5, <1>7, <1>9, <1>10, <1>11, <1>12, <1>13, <1>14, <1>15
     DEF Next, RunStep, Terminating
-----------------------------------------------------------------------------
(* No path of run forgets to store how it ended.                           *)
LEMMA RunnerStep == IInv /\ [Next]_vars => UnfinishedHasRunner'
<1> SUFFICES ASSUME IInv, [Next]_vars PROVE UnfinishedHasRunner'
  OBVIOUS
<1>1. /\ runner \in [Tasks -> {"none", "mark", "get", "engine", "wait",
                                "fail", "load", "save", "cut"}]
      /\ row \in [Tasks -> Row \cup {Absent}] /\ copy \in [Tasks -> Row \cup {Absent}]
      /\ StageInv /\ UnfinishedHasRunner
  BY DEF IInv, TypeOK
<1>2. ASSUME NEW t \in Tasks, NEW u \in Users, NEW k \in Kinds, Create(t, u, k)
      PROVE  UnfinishedHasRunner'
  BY <1>1, <1>2 DEF Create, Go, UnfinishedHasRunner, Settled
<1>3. ASSUME NEW t \in Tasks, RunMark(t) PROVE UnfinishedHasRunner'
  BY <1>1, <1>3 DEF RunMark, SetStatus, Go, UnfinishedHasRunner, Settled
<1>4. ASSUME NEW t \in Tasks, RunCall(t) \/ RunReturn(t) \/ RunDbError(t)
      PROVE  UnfinishedHasRunner'
  BY <1>1, <1>4 DEF RunCall, RunReturn, RunDbError, Go, tableVars, UnfinishedHasRunner, Settled
<1>5. ASSUME NEW t \in Tasks, RunGet(t) \/ RunLoad(t) PROVE UnfinishedHasRunner'
  BY <1>1, <1>5 DEF RunGet, RunLoad, Go, tableVars, UnfinishedHasRunner, Settled
<1>6. ASSUME NEW t \in Tasks, RunFail(t) PROVE UnfinishedHasRunner'
  <2>1. row[t] # Absent => [row[t] EXCEPT !.status = "failed"].status = "failed"
    BY <1>1 DEF Row
  <2> QED
    BY <1>1, <1>6, <2>1 DEF RunFail, SetStatus, Go, UnfinishedHasRunner, Settled, Terminal
<1>7. ASSUME NEW t \in Tasks, RunSave(t) PROVE UnfinishedHasRunner'
  <2>1. copy[t] \in Row
    BY <1>1, <1>7 DEF RunSave, At, StageInv
  <2>2. [copy[t] EXCEPT !.status = "succeeded", !.result = copy[t].kind].status = "succeeded"
    BY <2>1 DEF Row
  <2> QED
    BY <1>1, <1>7, <2>2 DEF RunSave, Save, Go, UnfinishedHasRunner, Settled, Terminal
<1>8. ASSUME NEW r \in Requests, DeleteRow(r) PROVE UnfinishedHasRunner'
  BY <1>1, <1>8 DEF DeleteRow, runVars, UnfinishedHasRunner, Settled
<1>9. ASSUME Crash PROVE UnfinishedHasRunner'
  BY <1>1, <1>9 DEF Crash, tableVars, UnfinishedHasRunner, Settled
<1>10. ASSUME row' = row, runner' = runner PROVE UnfinishedHasRunner'
  BY <1>1, <1>10 DEF UnfinishedHasRunner, Settled
<1> QED
  BY <1>2, <1>3, <1>4, <1>5, <1>6, <1>7, <1>8, <1>9, <1>10 DEF Next, RunStep, Terminating,
     DeleteCheck, DeleteDbError, EngineStep, Shutdown, Restart, vars, tableVars, runVars

LEMMA RunnerInit == Init => UnfinishedHasRunner
BY DEF Init, UnfinishedHasRunner, Settled

(* The inductive invariant holds of every behaviour.                       *)
THEOREM Invariance == Spec => []IInv
<1>1. Init => IInv
  BY TypeInit, RowInit, RunnerInit DEF IInv, RowInv
<1>2. IInv /\ [Next]_vars => IInv'
  BY TypeStep, RowStep, RunnerStep DEF IInv, RowInv
<1> QED
  BY <1>1, <1>2, PTL DEF Spec

(* A task that is not finished still has its goroutine, or lost it to a    *)
(* failing statement or the end of the process.                            *)
THEOREM NoTaskIsForgotten == Spec => []UnfinishedHasRunner
BY Invariance, PTL DEF IInv

(* A task is stored as succeeded only with the result of its kind, and     *)
(* only if the engine has answered that task's call with a result:         *)
(* UpdateResult and UpdateOptimizeResult are reached on no other path of   *)
(* run, whatever fails and however often the server restarts.              *)
THEOREM SuccessIsComputed == Spec => []SucceededIsComputed
BY Invariance, PTL DEF IInv

(* A task whose delete has been confirmed may come back by UpdateResult's  *)
(* Save, but then as succeeded, never as pending, running or failed.       *)
THEOREM DeletedNeverHalfDone == Spec => []NoHalfRevival
BY Invariance, PTL DEF IInv

(* A task's status only moves forward, from pending to running to one of   *)
(* the two ends, and an ended task's row is never written again.           *)
THEOREM StatusOnlyAdvances == Spec => StatusMonotone
<1> DEFINE Advances == \A t \in Tasks : row[t] # Absent /\ row'[t] # Absent =>
                           \/ row'[t] = row[t]
                           \/ Rank(row'[t].status) > Rank(row[t].status)
<1>1. ASSUME IInv, [Next]_vars PROVE [Advances]_vars
  <2>1. /\ row \in [Tasks -> Row \cup {Absent}] /\ copy \in [Tasks -> Row \cup {Absent}]
        /\ StageInv
    BY <1>1 DEF IInv, TypeOK
  <2>2. ASSUME NEW t \in Tasks, NEW u \in Users, NEW k \in Kinds, Create(t, u, k)
        PROVE  Advances
    BY <2>1, <2>2 DEF Create, StageInv
  <2>3. ASSUME NEW t \in Tasks, RunMark(t) PROVE Advances
    <3>1. row[t] # Absent => /\ row[t].status = "pending"
                             /\ [row[t] EXCEPT !.status = "running"].status = "running"
      BY <2>1, <2>3 DEF RunMark, At, StageInv, Row
    <3>2. Rank("pending") = 0 /\ Rank("running") = 1
      BY DEF Rank, Terminal
    <3> QED
      BY <2>1, <2>3, <3>1, <3>2 DEF RunMark, SetStatus
  <2>4. ASSUME NEW t \in Tasks, RunFail(t) PROVE Advances
    BY <2>1, <2>4 DEF RunFail, SetStatus, At, StageInv, Rank, Row, Terminal
  <2>5. ASSUME NEW t \in Tasks, RunSave(t) PROVE Advances
    <3>1. copy[t] \in Row
      BY <2>1, <2>5 DEF RunSave, At, StageInv
    <3>2. [copy[t] EXCEPT !.status = "succeeded", !.result = copy[t].kind].status = "succeeded"
      BY <3>1 DEF Row
    <3> QED
      BY <2>1, <2>5, <3>1, <3>2 DEF RunSave, Save, At, StageInv, Rank, Terminal
  <2>6. ASSUME NEW r \in Requests, DeleteRow(r) PROVE Advances
    BY <2>1, <2>6 DEF DeleteRow
  <2>7. ASSUME row' = row PROVE Advances
    BY <2>7
  <2> QED
    BY <1>1, <2>2, <2>3, <2>4, <2>5, <2>6, <2>7 DEF Next, RunStep, Terminating, RunDbError,
       RunGet, RunCall, RunReturn, RunLoad, DeleteCheck, DeleteDbError, EngineStep, Shutdown,
       Crash, Restart, vars, tableVars
<1> QED
  BY <1>1, Invariance, PTL DEF Spec, StatusMonotone

(* A row goes away only by a request of the user who owns the task, also   *)
(* when the row that DeleteOwned has looked at was deleted and inserted    *)
(* again in between.                                                       *)
THEOREM OnlyTheOwnerDeletes == Spec => OnlyOwnerDeletes
<1> DEFINE Owned == \A t \in Tasks : row[t] # Absent /\ row'[t] = Absent =>
                        \E r \in Requests : del[r].at = "delete" /\ del[r].task = t
                                             /\ del[r].user = row[t].owner
<1>1. ASSUME IInv, [Next]_vars PROVE [Owned]_vars
  <2>1. /\ row \in [Tasks -> Row \cup {Absent}] /\ copy \in [Tasks -> Row \cup {Absent}]
        /\ StageInv /\ OwnerInv
    BY <1>1 DEF IInv, TypeOK
  <2> USE Markers
  <2>2. ASSUME NEW t \in Tasks, NEW u \in Users, NEW k \in Kinds, Create(t, u, k)
        PROVE  Owned
    BY <2>1, <2>2 DEF Create, Absent
  <2>3. ASSUME NEW t \in Tasks, RunMark(t) \/ RunFail(t) PROVE Owned
    <3>1. \A s \in {"running", "failed"} : row[t] # Absent => [row[t] EXCEPT !.status = s] # Absent
      BY <2>1 DEF Row, Terminal, Absent
    <3> QED
      BY <2>1, <2>3, <3>1 DEF RunMark, RunFail, SetStatus
  <2>4. ASSUME NEW t \in Tasks, RunSave(t) PROVE Owned
    <3>1. copy[t] \in Row
      BY <2>1, <2>4 DEF RunSave, At, StageInv
    <3>2. [copy[t] EXCEPT !.status = "succeeded", !.result = copy[t].kind] # Absent
      BY <3>1 DEF Row, Absent
    <3> QED
      BY <2>1, <2>4, <3>2 DEF RunSave, Save
  <2>5. ASSUME NEW r \in Requests, DeleteRow(r) PROVE Owned
    BY <2>1, <2>5 DEF DeleteRow, OwnerInv
  <2>6. ASSUME row' = row PROVE Owned
    BY <2>6
  <2> QED
    BY <1>1, <2>2, <2>3, <2>4, <2>5, <2>6 DEF Next, RunStep, Terminating, RunDbError,
       RunGet, RunCall, RunReturn, RunLoad, DeleteCheck, DeleteDbError, EngineStep, Shutdown,
       Crash, Restart, vars, tableVars
<1> QED
  BY <1>1, Invariance, PTL DEF Spec, OnlyOwnerDeletes

=============================================================================
