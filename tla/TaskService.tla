---------------------------- MODULE TaskService ----------------------------
(***************************************************************************)
(* server/internal/task/service.go on server/internal/task/store.go: the   *)
(* life of a task, from the request that creates it to its result.  Create *)
(* stores a pending row and starts one goroutine (run) that marks it       *)
(* running, calls the engine and stores what came of it; meanwhile any     *)
(* user may try to delete the task, and the server may stop and restart.   *)
(* The engine is what AtMostOnceRpc promises: its callers are the tasks.   *)
(*                                                                         *)
(* One action is one SQL statement, or one step of the engine call.        *)
(***************************************************************************)
EXTENDS Naturals

CONSTANTS
    Tasks,        \* task ids that newTaskID may hand out
    Users,        \* authenticated users; one, "local", on stdio
    Requests,     \* delete requests
    MaxRestarts,  \* bound on restarts of the server
    Faults        \* what may go wrong: "db" (a statement fails), "crash"

ASSUME MaxRestartsAssumption == MaxRestarts \in Nat
ASSUME FaultsAssumption == Faults \subseteq {"db", "crash"}

Kinds == {"simulate", "optimize"}
Terminal == {"succeeded", "failed"}
Row == [owner : Users, kind : Kinds, status : {"pending", "running"} \cup Terminal,
        result : Kinds \cup {"none"}]
Absent == [status |-> "absent"]
Deletion == [at : {"delete"}, user : Users, task : Tasks]
Unsent == [at |-> "unsent"]
Done == [at |-> "done"]

VARIABLES
    row,          \* the tasks table: per id, its row or Absent
    used,         \* ids that have been given to a task
    deleted       \* tasks whose owner has been told that they are deleted

VARIABLES
    runner,       \* per task: where its run goroutine stands
    copy          \* per task: the row run, or UpdateResult, has read

VARIABLES
    del,          \* per delete request: what it is about, if it is under way
    up,           \* the server process is up
    restarts      \* how often it has been restarted

VARIABLES call, verdict, stage      \* the engine, see AtMostOnceRpc

Rpc == INSTANCE AtMostOnceRpc WITH Callers <- Tasks, status <- call

tableVars == <<row, used, deleted>>
runVars == <<runner, copy>>
procVars == <<up, restarts>>
rpcVars == <<call, verdict, stage>>
vars == <<tableVars, runVars, del, procVars, rpcVars>>

TypeOK ==
    /\ row \in [Tasks -> Row \cup {Absent}]
    /\ used \subseteq Tasks /\ deleted \subseteq Tasks
    /\ runner \in [Tasks -> {"none", "mark", "get", "engine", "wait", "fail", "load", "save",
                         "cut"}]
    /\ copy \in [Tasks -> Row \cup {Absent}]
    /\ del \in [Requests -> Deletion \cup {Unsent, Done}]
    /\ up \in BOOLEAN /\ restarts \in 0..MaxRestarts
    /\ Rpc!TypeOK

Init ==
    /\ row = [t \in Tasks |-> Absent] /\ used = {} /\ deleted = {}
    /\ runner = [t \in Tasks |-> "none"] /\ copy = [t \in Tasks |-> Absent]
    /\ del = [r \in Requests |-> Unsent]
    /\ up = TRUE /\ restarts = 0
    /\ Rpc!Init

DbFails == "db" \in Faults
At(t, label) == runner[t] = label
Go(t, label) == runner' = [runner EXCEPT ![t] = label]
-----------------------------------------------------------------------------
(* The store.                                                              *)

(* UpdateStatus: no row, no error.                                         *)
SetStatus(t, s) ==
    row' = IF row[t] = Absent THEN row ELSE [row EXCEPT ![t].status = s]

(* Save writes every column of the row that was read.  When the row is     *)
(* gone by then, GORM inserts it again.                                    *)
Save(t) ==
    row' = [row EXCEPT ![t] = [copy[t] EXCEPT !.status = "succeeded",
                                              !.result = copy[t].kind]]
-----------------------------------------------------------------------------
(* Create, and the goroutine run.                                          *)

Create(t, u, k) ==
    /\ up /\ t \notin used
    /\ used' = used \cup {t}
    /\ row' = [row EXCEPT ![t] = [owner |-> u, kind |-> k, status |-> "pending",
                                  result |-> "none"]]
    /\ Go(t, "mark")
    /\ UNCHANGED <<deleted, copy, del, procVars, rpcVars>>

(* A failing statement makes run log and return, wherever it stands; the   *)
(* row stays as it is, and the goroutine was cut off.                      *)
RunDbError(t) ==
    /\ DbFails
    /\ runner[t] \in {"mark", "get", "fail", "load", "save"}
    /\ Go(t, "cut")
    /\ UNCHANGED <<tableVars, copy, del, procVars, rpcVars>>

RunMark(t) ==
    /\ At(t, "mark")
    /\ SetStatus(t, "running")
    /\ Go(t, "get")
    /\ UNCHANGED <<used, deleted, copy, del, procVars, rpcVars>>

(* run ends when its task has been deleted.                                *)
RunGet(t) ==
    /\ At(t, "get")
    /\ copy' = [copy EXCEPT ![t] = row[t]]
    /\ Go(t, IF row[t] = Absent THEN "none" ELSE "engine")
    /\ UNCHANGED <<tableVars, del, procVars, rpcVars>>

(* engine.Simulate or engine.Optimize is called ...                        *)
RunCall(t) ==
    /\ At(t, "engine")
    /\ Rpc!Invoke(t) \/ Rpc!Refuse(t)
    /\ Go(t, "wait")
    /\ UNCHANGED <<tableVars, copy, del, procVars>>

(* Faulty variant: the engine's error is not looked at.                    *)
RunReturn_IgnoresError(t) ==
    /\ At(t, "wait") /\ call[t] \in {"ok", "appErr", "refused", "failed"}
    /\ Go(t, "load")
    /\ UNCHANGED <<tableVars, copy, del, procVars, rpcVars>>

(* ... and returns.                                                        *)
RunReturn(t) ==
    /\ At(t, "wait") /\ call[t] \in {"ok", "appErr", "refused", "failed"}
    /\ Go(t, IF call[t] = "ok" THEN "load" ELSE "fail")
    /\ UNCHANGED <<tableVars, copy, del, procVars, rpcVars>>

(* Faulty variant: a failed call is logged only.                           *)
RunFail_LogOnly(t) ==
    /\ At(t, "fail")
    /\ Go(t, "none")
    /\ UNCHANGED <<tableVars, copy, del, procVars, rpcVars>>

RunFail(t) ==
    /\ At(t, "fail")
    /\ SetStatus(t, "failed")
    /\ Go(t, "none")
    /\ UNCHANGED <<used, deleted, copy, del, procVars, rpcVars>>

(* UpdateResult and UpdateOptimizeResult read the row ...                  *)
RunLoad(t) ==
    /\ At(t, "load")
    /\ copy' = [copy EXCEPT ![t] = row[t]]
    /\ Go(t, IF row[t] = Absent THEN "none" ELSE "save")
    /\ UNCHANGED <<tableVars, del, procVars, rpcVars>>

(* ... and save it with the result.                                        *)
RunSave(t) ==
    /\ At(t, "save")
    /\ Save(t)
    /\ Go(t, "none")
    /\ UNCHANGED <<used, deleted, copy, del, procVars, rpcVars>>
-----------------------------------------------------------------------------
(* DeleteOwned.                                                            *)

Reply(r) == del' = [del EXCEPT ![r] = Done]

(* Faulty variant: Delete instead of DeleteOwned, the owner is not looked  *)
(* at.                                                                     *)
DeleteCheck_AnyUser(r, u, t) ==
    /\ up /\ del[r] = Unsent
    /\ del' = [del EXCEPT ![r] =
           IF row[t] # Absent THEN [at |-> "delete", user |-> u, task |-> t] ELSE Done]
    /\ UNCHANGED <<tableVars, runVars, procVars, rpcVars>>

(* GetOwned: a missing task and somebody else's get the same answer, 404.  *)
(* A failing statement gives 500.                                          *)
DeleteCheck(r, u, t) ==
    /\ up /\ del[r] = Unsent
    /\ IF row[t] # Absent /\ row[t].owner = u
       THEN \/ del' = [del EXCEPT ![r] = [at |-> "delete", user |-> u, task |-> t]]
            \/ DbFails /\ Reply(r)
       ELSE Reply(r)
    /\ UNCHANGED <<tableVars, runVars, procVars, rpcVars>>

(* store.Delete: the owner is told of success if a row was deleted.        *)
DeleteRow(r) ==
    /\ del[r].at = "delete"
    /\ LET t == del[r].task IN
       /\ row' = [row EXCEPT ![t] = Absent]
       /\ deleted' = IF row[t] # Absent THEN deleted \cup {t} ELSE deleted
    /\ Reply(r)
    /\ UNCHANGED <<used, runVars, procVars, rpcVars>>

DeleteDbError(r) ==
    /\ DbFails
    /\ del[r].at = "delete"
    /\ Reply(r)
    /\ UNCHANGED <<tableVars, runVars, procVars, rpcVars>>
-----------------------------------------------------------------------------
(* The engine, and the process.                                            *)

EngineStep ==
    /\ \E t \in Tasks : Rpc!Execute(t) \/ Rpc!Answer(t) \/ Rpc!Fail({t})
    /\ UNCHANGED <<tableVars, runVars, del, procVars>>

(* main ends: first engine.Close, then the process.                        *)
Shutdown ==
    /\ "crash" \in Faults /\ up
    /\ Rpc!Close
    /\ UNCHANGED <<tableVars, runVars, del, procVars>>

(* The process ends, by itself or killed: its goroutines are gone, the     *)
(* table is not.                                                           *)
Crash ==
    /\ "crash" \in Faults /\ up
    /\ up' = FALSE
    /\ runner' = [t \in Tasks |-> IF runner[t] = "none" THEN "none" ELSE "cut"]
    /\ del' = [r \in Requests |-> IF del[r].at = "delete"
                                  THEN Done ELSE del[r]]
    /\ call' = [t \in Tasks |-> IF call[t] = "active" THEN "failed" ELSE call[t]]
    /\ stage' = "down"
    /\ UNCHANGED <<tableVars, copy, restarts, verdict>>

(* Faulty variant: a restart queues again what has not succeeded.          *)
Restart_Requeues ==
    /\ ~up /\ restarts < MaxRestarts
    /\ up' = TRUE
    /\ restarts' = restarts + 1
    /\ stage' = "open"
    /\ row' = [t \in Tasks |-> IF row[t].status \in {"running", "failed"}
                               THEN [row[t] EXCEPT !.status = "pending"] ELSE row[t]]
    /\ UNCHANGED <<used, deleted, runVars, del, call, verdict>>

(* main starts again.  It migrates the schema and looks at no row.         *)
Restart ==
    /\ ~up /\ restarts < MaxRestarts
    /\ up' = TRUE
    /\ restarts' = restarts + 1
    /\ stage' = "open"
    /\ UNCHANGED <<tableVars, runVars, del, call, verdict>>

RunStep(t) ==
    \/ RunMark(t) \/ RunGet(t) \/ RunCall(t) \/ RunReturn(t)
    \/ RunFail(t) \/ RunLoad(t) \/ RunSave(t)

Terminating ==
    /\ used = Tasks \/ ~up
    /\ \A t \in Tasks : runner[t] \in {"none", "cut"}
    /\ UNCHANGED vars

Next ==
    \/ \E t \in Tasks, u \in Users, k \in Kinds : Create(t, u, k)
    \/ \E t \in Tasks : RunStep(t) \/ RunDbError(t)
    \/ \E r \in Requests, u \in Users, t \in Tasks : DeleteCheck(r, u, t)
    \/ \E r \in Requests : DeleteRow(r) \/ DeleteDbError(r)
    \/ EngineStep \/ Shutdown \/ Crash \/ Restart
    \/ Terminating

Spec == Init /\ [][Next]_vars

(* Goroutines run, and every engine call ends: by an answer or by failing. *)
FairSpec ==
    /\ Spec
    /\ \A t \in Tasks :
          /\ WF_vars(RunStep(t))
          /\ WF_vars((Rpc!Answer(t) \/ Rpc!Fail({t}))
                     /\ UNCHANGED <<tableVars, runVars, del, procVars>>)
-----------------------------------------------------------------------------
(* Safety.                                                                 *)

(* A task is succeeded exactly when it has the result its kind asks for,   *)
(* and only if the engine has carried out the call of that task and        *)
(* answered with a result: not after an error, a timeout or a restart.     *)
SucceededIsComputed ==
    \A t \in Tasks : row[t] # Absent =>
        /\ row[t].status = "succeeded" <=> row[t].result = row[t].kind
        /\ row[t].status # "succeeded" => row[t].result = "none"
        /\ row[t].status = "succeeded" => verdict[t] = "ok"

Rank(s) == CASE s = "pending" -> 0 [] s = "running" -> 1 [] s \in Terminal -> 2

(* pending, running, succeeded or failed: a task never goes back, and what *)
(* it ended with is final, also across restarts (docs/api/rest.md:93).     *)
StatusMonotone ==
    [][\A t \in Tasks : row[t] # Absent /\ row'[t] # Absent =>
           \/ row'[t] = row[t]
           \/ Rank(row'[t].status) > Rank(row[t].status)]_vars

(* A row goes away only by a request of its owner.                         *)
OnlyOwnerDeletes ==
    [][\A t \in Tasks : row[t] # Absent /\ row'[t] = Absent =>
           \E r \in Requests : del[r].at = "delete"
                               /\ del[r].task = t /\ del[r].user = row[t].owner]_vars

(* Whatever else happens to a deleted task, it is never seen again as one  *)
(* that still runs, or that has failed.                                    *)
NoHalfRevival ==
    \A t \in deleted : row[t] # Absent => row[t].status = "succeeded"

Settled(t) == row[t] = Absent \/ row[t].status \in Terminal

(* A task that is not finished has a goroutine that will finish it, unless *)
(* that was cut off by a failing statement or the end of the process.      *)
UnfinishedHasRunner == \A t \in Tasks : ~Settled(t) => runner[t] # "none"

(* What makes these inductive.  A goroutine finds its row as it left it,   *)
(* or deleted, and gets as far as saving only with a result of the engine. *)
StageInv ==
    /\ deleted \subseteq used
    /\ \A t \in Tasks :
        /\ row[t] # Absent \/ copy[t] # Absent \/ runner[t] # "none" => t \in used
        /\ runner[t] = "mark" /\ row[t] # Absent => row[t].status = "pending"
        /\ runner[t] \notin {"none", "mark", "cut"} /\ row[t] # Absent => row[t].status = "running"
        /\ runner[t] = "save" => copy[t] # Absent
        /\ runner[t] \in {"load", "save"} => verdict[t] = "ok"
        /\ call[t] \in {"ok", "appErr"} => verdict[t] = call[t]

(* A task keeps its owner and kind, so that what DeleteOwned has checked   *)
(* still holds when it deletes, even of a row that was inserted again.     *)
OwnerInv ==
    /\ \A t \in Tasks : row[t] # Absent /\ copy[t] # Absent =>
           copy[t].owner = row[t].owner /\ copy[t].kind = row[t].kind
    /\ \A r \in Requests : del[r].at = "delete" =>
           LET t == del[r].task IN
           /\ t \in used
           /\ row[t] # Absent => row[t].owner = del[r].user
           /\ copy[t] # Absent => copy[t].owner = del[r].user

IInv == TypeOK /\ SucceededIsComputed /\ NoHalfRevival /\ StageInv /\ OwnerInv
        /\ UnfinishedHasRunner

(* What rest.md:162 says and tasks_delete_test.go:55 tests of a finished   *)
(* task: after a successful delete the task and its result are gone.       *)
DeletedStaysDeleted == \A t \in deleted : row[t] = Absent
-----------------------------------------------------------------------------
(* Liveness: every task that is created is finished or deleted, provided   *)
(* that every engine call ends, unless its goroutine is cut off.           *)
EveryTaskSettles ==
    \A t \in Tasks : (t \in used) ~> (Settled(t) \/ runner[t] = "cut")
=============================================================================
