--------------------------- MODULE TaskViewsProofs ---------------------------
(***************************************************************************)
(* ViewInv is inductive, for any tasks, views and requests.  OnePoll needs *)
(* Owners (a page that was never opened awaits nothing), and InOrder needs *)
(* OnePoll: with two loads under way the older answer could come last.     *)
(***************************************************************************)
EXTENDS TaskViews, TLAPS

USE TaskViewsAssumption

Slots == [Reqs -> Request_ \cup {Free}]

\* A request that is sent is a request, and so is what becomes of it.
LEMMA RequestTypes ==
    /\ \A v \in Views, o \in {"get", "list", "create", "delete"}, t \in Tasks \cup {NoTask} :
          Request(v, o, t) \in Request_
    /\ \A q \in Request_, s \in {"ok", "error"}, a \in [Tasks -> Shown] :
          [q EXCEPT !.state = s, !.answer = a] \in Request_
    /\ \A q \in Request_, t \in Tasks : [q EXCEPT !.state = "ok", !.task = t] \in Request_
  BY DEF Request, Request_, Nothing, Shown

\* A free slot is no request.
LEMMA FreeIsNone == Free \notin Request_
  BY DEF Free, Request_

\* A function changed at one place.
LEMMA SetOne ==
    ASSUME NEW S, NEW f \in [Reqs -> S], NEW r \in Reqs, NEW x \in S
    PROVE  [f EXCEPT ![r] = x] \in [Reqs -> S]
  OBVIOUS

\* The types hold in the beginning.
LEMMA TypeInit == Init => TypeOK
  BY DEF Init, TypeOK, Nothing, Shown

\* Sending, answering and ending a request keeps the types of the requests.
LEMMA SlotTypes ==
    ASSUME reqs \in Slots, NEW r \in Reqs
    PROVE  /\ reqs' = [reqs EXCEPT ![r] = Free] => reqs' \in Slots
           /\ \A v \in Views, o \in {"get", "list", "create", "delete"}, t \in Tasks \cup {NoTask} :
                 reqs' = [reqs EXCEPT ![r] = Request(v, o, t)] => reqs' \in Slots
           /\ \A s \in {"ok", "error"}, a \in [Tasks -> Shown] :
                 reqs[r] # Free /\ Answered(r, s, a) => reqs' \in Slots
           /\ \A t \in Tasks :
                 reqs[r] # Free /\ reqs' = [reqs EXCEPT ![r].state = "ok", ![r].task = t]
                    => reqs' \in Slots
<1>1. ASSUME NEW x \in Request_ \cup {Free} PROVE [reqs EXCEPT ![r] = x] \in Slots
  BY SetOne DEF Slots
<1>2. reqs[r] # Free => reqs[r] \in Request_
  BY DEF Slots
<1>3. ASSUME NEW s \in {"ok", "error"}, NEW a \in [Tasks -> Shown], reqs[r] # Free, Answered(r, s, a)
      PROVE  reqs' \in Slots
  <2>1. [reqs[r] EXCEPT !.state = s, !.answer = a] \in Request_ \cup {Free}
    BY <1>2, <1>3, RequestTypes
  <2>2. reqs' = [reqs EXCEPT ![r] = [reqs[r] EXCEPT !.state = s, !.answer = a]]
    BY <1>3 DEF Answered, Slots
  <2> QED
    BY <2>1, <2>2, <1>1
<1>4. ASSUME NEW t \in Tasks, reqs[r] # Free, reqs' = [reqs EXCEPT ![r].state = "ok", ![r].task = t]
      PROVE  reqs' \in Slots
  <2>1. [reqs[r] EXCEPT !.state = "ok", !.task = t] \in Request_ \cup {Free}
    BY <1>2, <1>4, RequestTypes
  <2>2. reqs' = [reqs EXCEPT ![r] = [reqs[r] EXCEPT !.state = "ok", !.task = t]]
    BY <1>4 DEF Slots
  <2> QED
    BY <2>1, <2>2, <1>1
<1> QED
  BY <1>1, <1>3, <1>4, RequestTypes

\* Every step keeps the types: one case per action.
LEMMA TypeStep == TypeOK /\ Owners /\ [Next]_vars => TypeOK'
<1> SUFFICES ASSUME TypeOK, Owners, [Next]_vars PROVE TypeOK'
  OBVIOUS
<1>i. /\ reqs \in Slots
      /\ \A q \in Reqs : reqs[q] # Free => reqs[q] \in Request_
      /\ Nothing \in [Tasks -> Shown] /\ OwnTasks \in [Tasks -> Shown]
  BY DEF TypeOK, Nothing, OwnTasks, Shown, Exists, Status, Slots
<1>j. \A q \in Reqs : reqs[q] # Free =>
        /\ reqs[q].view \in Views /\ reqs[q].task \in Tasks \cup {NoTask}
        /\ reqs[q].answer \in [Tasks -> Shown]
        /\ reqs[q].op \in {"get", "delete"} => reqs[q].task \in Tasks
        /\ reqs[q].op = "create" /\ reqs[q].state = "ok" => reqs[q].task \in Tasks
  BY <1>i DEF Request_, Owners, Owner
<1> USE DEF viewVars
<1>1. ASSUME NEW v \in Views, OpenForm(v) PROVE TypeOK'
  <2>1. reqs' \in Slots
    BY <1>i, <1>1 DEF OpenForm, Mount, Unused
  <2> QED
    BY <1>j, <1>1, <2>1 DEF OpenForm, Mount, Unused, TypeOK, Slots, Shown, Status, Ended
<1>2. ASSUME NEW v \in Views, NEW r \in Reqs, OpenList(v, r) PROVE TypeOK'
  <2>1. reqs' \in Slots
    BY <1>i, <1>j, <1>2, SlotTypes DEF OpenList, Mount, Unused, Send
  <2> QED
    BY <1>j, <1>2, <2>1 DEF OpenList, Mount, Unused, Send, TypeOK, Slots, Shown, Status, Ended
<1>3. ASSUME NEW v \in Views, NEW t \in Tasks, NEW r \in Reqs, OpenDetail(v, t, r) PROVE TypeOK'
  <2>1. reqs' \in Slots
    BY <1>i, <1>j, <1>3, SlotTypes DEF OpenDetail, Mount, Unused, Send
  <2> QED
    BY <1>j, <1>3, <2>1 DEF OpenDetail, Mount, Unused, Send, TypeOK, Slots, Shown, Status, Ended
<1>4. ASSUME NEW t \in Tasks, OpenOther(t) PROVE TypeOK'
  <2>1. reqs' \in Slots
    BY <1>i, <1>4 DEF OpenOther, Reuse
  <2> QED
    BY <1>j, <1>4, <2>1 DEF OpenOther, Reuse, TypeOK, Slots, Shown, Status, Ended
<1>5. CASE Leave
  <2>1. reqs' \in Slots
    BY <1>i, <1>5 DEF Leave
  <2> QED
    BY <1>j, <1>5, <2>1 DEF Leave, TypeOK, Slots, Shown, Status, Ended
<1>6. ASSUME NEW v \in Views, NEW r \in Reqs, Submit(v, r) PROVE TypeOK'
  <2>1. reqs' \in Slots
    BY <1>i, <1>j, <1>6, SlotTypes DEF Submit, Send
  <2> QED
    BY <1>j, <1>6, <2>1 DEF Submit, Send, TypeOK, Slots, Shown, Status, Ended
<1>7. ASSUME NEW r \in Reqs, Created(r) PROVE TypeOK'
  <2>1. reqs' \in Slots
    BY <1>i, <1>j, <1>7, SlotTypes DEF Created, Reuse
  <2>2. busy' \subseteq Views
    BY <1>7 DEF Created, TypeOK
  <2>3. page' \in Views \cup {NoView} /\ timer' \subseteq Views
    BY <1>7 DEF Created, Reuse, TypeOK
  <2>4. /\ kind' \in [Views -> {"unused", "form", "list", "detail"}]
        /\ subject' \in [Views -> Tasks \cup {NoTask}]
    BY <1>j, <1>7 DEF Created, Reuse, TypeOK
  <2> QED
    BY <1>7, <2>1, <2>2, <2>3, <2>4 DEF Created, TypeOK, Slots
<1>8. ASSUME NEW r \in Reqs, GotTask(r) PROVE TypeOK'
  <2>1. reqs' \in Slots
    BY <1>i, <1>j, <1>8, SlotTypes DEF GotTask
  <2>2. shown' \in [Views -> [Tasks -> Shown]]
    BY <1>j, <1>8 DEF GotTask, TypeOK
  <2> QED
    BY <1>j, <1>8, <2>1, <2>2 DEF GotTask, TypeOK, Slots
<1>9. ASSUME NEW v \in Views, NEW r \in Reqs, TimeoutFires(v, r) PROVE TypeOK'
  <2>1. reqs' \in Slots
    <3>1. subject[v] \in Tasks \cup {NoTask}
      BY DEF TypeOK
    <3> QED
      BY <1>i, <3>1, <1>9, SlotTypes DEF TimeoutFires, Send
  <2> QED
    BY <1>j, <1>9, <2>1 DEF TimeoutFires, Send, TypeOK, Slots, Shown, Status, Ended
<1>10. ASSUME NEW v \in Views, NEW r \in Reqs, IntervalFires(v, r) PROVE TypeOK'
  <2>1. reqs' \in Slots
    BY <1>i, <1>j, <1>10, SlotTypes DEF IntervalFires, Send
  <2> QED
    BY <1>j, <1>10, <2>1 DEF IntervalFires, Send, TypeOK, Slots, Shown, Status, Ended
<1>11. ASSUME NEW v \in Views, NEW r \in Reqs, Refresh(v, r) PROVE TypeOK'
  <2>1. reqs' \in Slots
    BY <1>i, <1>j, <1>11, SlotTypes DEF Refresh, Send
  <2> QED
    BY <1>j, <1>11, <2>1 DEF Refresh, Send, TypeOK, Slots, Shown, Status, Ended
<1>12. ASSUME NEW r \in Reqs, GotList(r) PROVE TypeOK'
  <2>1. reqs' \in Slots
    BY <1>i, <1>j, <1>12, SlotTypes DEF GotList
  <2> QED
    BY <1>j, <1>12, <2>1 DEF GotList, TypeOK, Slots, Shown, Status, Ended
<1>13. ASSUME NEW v \in Views, NEW t \in Tasks, AskRemove(v, t) PROVE TypeOK'
  <2>1. reqs' \in Slots
    BY <1>i, <1>13 DEF AskRemove
  <2> QED
    BY <1>j, <1>13, <2>1 DEF AskRemove, TypeOK, Slots, Shown, Status, Ended
<1>14. ASSUME NEW v \in Views, NEW t \in Tasks, NEW r \in Reqs, Remove(v, t, r) PROVE TypeOK'
  <2>1. reqs' \in Slots
    BY <1>i, <1>j, <1>14, SlotTypes DEF Remove, Send
  <2> QED
    BY <1>j, <1>14, <2>1 DEF Remove, Send, TypeOK, Slots, Shown, Status, Ended
<1>15. ASSUME NEW v \in Views, CancelRemove(v) PROVE TypeOK'
  <2>1. reqs' \in Slots
    BY <1>i, <1>15 DEF CancelRemove
  <2> QED
    BY <1>j, <1>15, <2>1 DEF CancelRemove, TypeOK, Slots, Shown, Status, Ended
<1>16. ASSUME NEW r \in Reqs, Removed(r) PROVE TypeOK'
  <2>1. reqs' \in Slots
    BY <1>i, <1>j, <1>16, SlotTypes DEF Removed
  <2> QED
    BY <1>j, <1>16, <2>1 DEF Removed, TypeOK, Slots, Shown, Status, Ended
<1>17. ASSUME NEW r \in Reqs, ServeGet(r) PROVE TypeOK'
  <2>1. reqs' \in Slots
    <3>1. [Nothing EXCEPT ![reqs[r].task] = OwnTasks[reqs[r].task]] \in [Tasks -> Shown]
      BY <1>i, <1>j, <1>17 DEF ServeGet
    <3> QED
      BY <1>i, <3>1, <1>17, SlotTypes DEF ServeGet
  <2> QED
    BY <1>j, <1>17, <2>1 DEF ServeGet, Answered, TypeOK, Slots, Shown, Status, Ended
<1>18. ASSUME NEW r \in Reqs, ServeList(r) PROVE TypeOK'
  <2>1. reqs' \in Slots
    BY <1>i, <1>j, <1>18, SlotTypes DEF ServeList
  <2> QED
    BY <1>j, <1>18, <2>1 DEF ServeList, Answered, TypeOK, Slots, Shown, Status, Ended
<1>19. ASSUME NEW r \in Reqs, ServeCreate(r) PROVE TypeOK'
  <2>1. reqs' \in Slots
    BY <1>i, <1>j, <1>19, SlotTypes DEF ServeCreate
  <2> QED
    BY <1>j, <1>19, <2>1 DEF ServeCreate, Answered, TypeOK, Slots, Shown, Status, Ended
<1>20. ASSUME NEW r \in Reqs, ServeDelete(r) PROVE TypeOK'
  <2>1. reqs' \in Slots
    BY <1>i, <1>j, <1>20, SlotTypes DEF ServeDelete
  <2> QED
    BY <1>j, <1>20, <2>1 DEF ServeDelete, Answered, TypeOK, Slots, Shown, Status, Ended
<1>21. ASSUME NEW r \in Reqs, Lose(r) PROVE TypeOK'
  <2>1. reqs' \in Slots
    BY <1>i, <1>j, <1>21, SlotTypes DEF Lose
  <2>2. errors' \in 0 .. MaxErrors
    BY <1>21 DEF Lose, TypeOK
  <2> QED
    BY <1>21, <2>1, <2>2 DEF Lose, TypeOK, Slots
<1>22. ASSUME NEW t \in Tasks, Advance(t) PROVE TypeOK'
  <2>1. reqs' \in Slots
    BY <1>i, <1>22 DEF Advance
  <2> QED
    BY <1>j, <1>22, <2>1 DEF Advance, TypeOK, Slots, Shown, Status, Ended
<1>23. CASE UNCHANGED vars
  BY <1>23 DEF vars, TypeOK
<1> QED
  BY <1>1, <1>2, <1>3, <1>4, <1>5, <1>6, <1>7, <1>8, <1>9, <1>10, <1>11, <1>12, <1>13, <1>14, <1>15, <1>16, <1>17, <1>18, <1>19, <1>20, <1>21, <1>22, <1>23 DEF Next, Serve, Receive, User

-----------------------------------------------------------------------------
(* What every step respects.                                               *)

\* A view keeps its kind.
LEMMA KindStep ==
    TypeOK /\ [Next]_vars => \A v \in Views : kind[v] # "unused" => kind'[v] = kind[v]
<1> SUFFICES ASSUME TypeOK, [Next]_vars, NEW u \in Views, kind[u] # "unused"
             PROVE  kind'[u] = kind[u]
  OBVIOUS
<1> USE DEF viewVars
<1>1. ASSUME NEW v \in Views, OpenForm(v) PROVE kind'[u] = kind[u]
  BY <1>1 DEF OpenForm, Mount, Unused, TypeOK
<1>2. ASSUME NEW v \in Views, NEW r \in Reqs, OpenList(v, r) PROVE kind'[u] = kind[u]
  BY <1>2 DEF OpenList, Mount, Unused, Send, TypeOK
<1>3. ASSUME NEW v \in Views, NEW t \in Tasks, NEW r \in Reqs, OpenDetail(v, t, r) PROVE kind'[u] = kind[u]
  BY <1>3 DEF OpenDetail, Mount, Unused, Send, TypeOK
<1>4. ASSUME NEW t \in Tasks, OpenOther(t) PROVE kind'[u] = kind[u]
  BY <1>4 DEF OpenOther, Reuse, TypeOK
<1>5. CASE Leave
  BY <1>5 DEF Leave, TypeOK
<1>6. ASSUME NEW v \in Views, NEW r \in Reqs, Submit(v, r) PROVE kind'[u] = kind[u]
  BY <1>6 DEF Submit, Send, TypeOK
<1>7. ASSUME NEW r \in Reqs, Created(r) PROVE kind'[u] = kind[u]
  BY <1>7 DEF Created, Reuse, Unused, TypeOK
<1>8. ASSUME NEW r \in Reqs, GotTask(r) PROVE kind'[u] = kind[u]
  BY <1>8 DEF GotTask, TypeOK
<1>9. ASSUME NEW v \in Views, NEW r \in Reqs, TimeoutFires(v, r) PROVE kind'[u] = kind[u]
  BY <1>9 DEF TimeoutFires, Send, TypeOK
<1>10. ASSUME NEW v \in Views, NEW r \in Reqs, IntervalFires(v, r) PROVE kind'[u] = kind[u]
  BY <1>10 DEF IntervalFires, Send, TypeOK
<1>11. ASSUME NEW v \in Views, NEW r \in Reqs, Refresh(v, r) PROVE kind'[u] = kind[u]
  BY <1>11 DEF Refresh, Send, TypeOK
<1>12. ASSUME NEW r \in Reqs, GotList(r) PROVE kind'[u] = kind[u]
  BY <1>12 DEF GotList, TypeOK
<1>13. ASSUME NEW v \in Views, NEW t \in Tasks, AskRemove(v, t) PROVE kind'[u] = kind[u]
  BY <1>13 DEF AskRemove, TypeOK
<1>14. ASSUME NEW v \in Views, NEW t \in Tasks, NEW r \in Reqs, Remove(v, t, r) PROVE kind'[u] = kind[u]
  BY <1>14 DEF Remove, Send, TypeOK
<1>15. ASSUME NEW v \in Views, CancelRemove(v) PROVE kind'[u] = kind[u]
  BY <1>15 DEF CancelRemove, TypeOK
<1>16. ASSUME NEW r \in Reqs, Removed(r) PROVE kind'[u] = kind[u]
  BY <1>16 DEF Removed, TypeOK
<1>17. ASSUME NEW r \in Reqs, ServeGet(r) PROVE kind'[u] = kind[u]
  BY <1>17 DEF ServeGet, Answered, TypeOK
<1>18. ASSUME NEW r \in Reqs, ServeList(r) PROVE kind'[u] = kind[u]
  BY <1>18 DEF ServeList, Answered, TypeOK
<1>19. ASSUME NEW r \in Reqs, ServeCreate(r) PROVE kind'[u] = kind[u]
  BY <1>19 DEF ServeCreate, Answered, TypeOK
<1>20. ASSUME NEW r \in Reqs, ServeDelete(r) PROVE kind'[u] = kind[u]
  BY <1>20 DEF ServeDelete, Answered, TypeOK
<1>21. ASSUME NEW r \in Reqs, Lose(r) PROVE kind'[u] = kind[u]
  BY <1>21 DEF Lose, Answered, TypeOK
<1>22. ASSUME NEW t \in Tasks, Advance(t) PROVE kind'[u] = kind[u]
  BY <1>22 DEF Advance, TypeOK
<1>23. CASE UNCHANGED vars
  BY <1>23 DEF vars
<1> QED
  BY <1>1, <1>2, <1>3, <1>4, <1>5, <1>6, <1>7, <1>8, <1>9, <1>10, <1>11, <1>12, <1>13, <1>14, <1>15, <1>16, <1>17, <1>18, <1>19, <1>20, <1>21, <1>22, <1>23 DEF Next, Serve, Receive, User

(* How the status of a task may move.                                      *)
Moves(a, b) ==
    \/ a = b
    \/ a = "none" /\ b = "pending"
    \/ a = "pending" /\ b \in {"running", "failed", "absent"}
    \/ a = "running" /\ b \in Ended \cup {"revivable"}
    \/ a \in Ended /\ b = "absent"
    \/ a = "revivable" /\ b \in {"absent", "succeeded"}

\* The middle layer moves a task in no other way.
LEMMA TaskStep == TypeOK /\ [Next]_vars => \A t \in Tasks : Moves(db[t], db'[t])
<1> SUFFICES ASSUME TypeOK, [Next]_vars, NEW u \in Tasks PROVE Moves(db[u], db'[u])
  OBVIOUS
<1>i. \A q \in Reqs : reqs[q] # Free => reqs[q].task \in Tasks \cup {NoTask}
  BY DEF TypeOK, Request_
<1>d. DOMAIN db = Tasks
  BY DEF TypeOK
<1> USE DEF viewVars, Moves
<1>1. ASSUME NEW v \in Views, OpenForm(v) PROVE Moves(db[u], db'[u])
  BY <1>1 DEF OpenForm, Mount, Unused
<1>2. ASSUME NEW v \in Views, NEW r \in Reqs, OpenList(v, r) PROVE Moves(db[u], db'[u])
  BY <1>2 DEF OpenList, Mount, Unused, Send
<1>3. ASSUME NEW v \in Views, NEW t \in Tasks, NEW r \in Reqs, OpenDetail(v, t, r) PROVE Moves(db[u], db'[u])
  BY <1>3 DEF OpenDetail, Mount, Unused, Send
<1>4. ASSUME NEW t \in Tasks, OpenOther(t) PROVE Moves(db[u], db'[u])
  BY <1>4 DEF OpenOther, Reuse
<1>5. CASE Leave
  BY <1>5 DEF Leave
<1>6. ASSUME NEW v \in Views, NEW r \in Reqs, Submit(v, r) PROVE Moves(db[u], db'[u])
  BY <1>6 DEF Submit, Send
<1>7. ASSUME NEW r \in Reqs, Created(r) PROVE Moves(db[u], db'[u])
  BY <1>7 DEF Created, Reuse, Unused
<1>8. ASSUME NEW r \in Reqs, GotTask(r) PROVE Moves(db[u], db'[u])
  BY <1>8 DEF GotTask
<1>9. ASSUME NEW v \in Views, NEW r \in Reqs, TimeoutFires(v, r) PROVE Moves(db[u], db'[u])
  BY <1>9 DEF TimeoutFires, Send
<1>10. ASSUME NEW v \in Views, NEW r \in Reqs, IntervalFires(v, r) PROVE Moves(db[u], db'[u])
  BY <1>10 DEF IntervalFires, Send
<1>11. ASSUME NEW v \in Views, NEW r \in Reqs, Refresh(v, r) PROVE Moves(db[u], db'[u])
  BY <1>11 DEF Refresh, Send
<1>12. ASSUME NEW r \in Reqs, GotList(r) PROVE Moves(db[u], db'[u])
  BY <1>12 DEF GotList
<1>13. ASSUME NEW v \in Views, NEW t \in Tasks, AskRemove(v, t) PROVE Moves(db[u], db'[u])
  BY <1>13 DEF AskRemove
<1>14. ASSUME NEW v \in Views, NEW t \in Tasks, NEW r \in Reqs, Remove(v, t, r) PROVE Moves(db[u], db'[u])
  BY <1>14 DEF Remove, Send
<1>15. ASSUME NEW v \in Views, CancelRemove(v) PROVE Moves(db[u], db'[u])
  BY <1>15 DEF CancelRemove
<1>16. ASSUME NEW r \in Reqs, Removed(r) PROVE Moves(db[u], db'[u])
  BY <1>16 DEF Removed
<1>17. ASSUME NEW r \in Reqs, ServeGet(r) PROVE Moves(db[u], db'[u])
  BY <1>17 DEF ServeGet, Answered
<1>18. ASSUME NEW r \in Reqs, ServeList(r) PROVE Moves(db[u], db'[u])
  BY <1>18 DEF ServeList, Answered
<1>19. ASSUME NEW r \in Reqs, ServeCreate(r) PROVE Moves(db[u], db'[u])
  BY <1>i, <1>d, <1>19 DEF ServeCreate, Answered, Exists, Status, Ended
<1>20. ASSUME NEW r \in Reqs, ServeDelete(r) PROVE Moves(db[u], db'[u])
  BY <1>i, <1>d, <1>20 DEF ServeDelete, Answered, Exists, Status, Ended
<1>21. ASSUME NEW r \in Reqs, Lose(r) PROVE Moves(db[u], db'[u])
  BY <1>21 DEF Lose, Answered
<1>22. ASSUME NEW t \in Tasks, Advance(t) PROVE Moves(db[u], db'[u])
  BY <1>i, <1>d, <1>22 DEF Advance, Exists, Status, Ended
<1>23. CASE UNCHANGED vars
  BY <1>23 DEF vars
<1> QED
  BY <1>1, <1>2, <1>3, <1>4, <1>5, <1>6, <1>7, <1>8, <1>9, <1>10, <1>11, <1>12, <1>13, <1>14, <1>15, <1>16, <1>17, <1>18, <1>19, <1>20, <1>21, <1>22, <1>23 DEF Next, Serve, Receive, User

\* A status the task has had stays one.
LEMMA HadStep ==
    ASSUME NEW x \in Shown, NEW a, NEW b, Moves(a, b), Had(x, a)
    PROVE  Had(x, b)
BY DEF Moves, Had, Until, Shown, Status, Ended


-----------------------------------------------------------------------------
(* Owners.                                                                 *)

\* A request that a step leaves alone keeps its owner.
LEMMA OwnerKept ==
    ASSUME TypeOK, NEW q \in Reqs, reqs[q] # Free, Owner(q), reqs'[q] = reqs[q],
           \A v \in Views : kind[v] # "unused" => kind'[v] = kind[v],
           \A t \in Tasks : db[t] # "none" => db'[t] # "none"
    PROVE  Owner(q)'
<1>1. reqs[q].view \in Views /\ reqs[q].task \in Tasks \cup {NoTask}
  BY DEF TypeOK, Request_
<1> QED
  BY <1>1 DEF Owner

\* So does one that is answered.
LEMMA OwnerAnswered ==
    ASSUME TypeOK, NEW q \in Reqs, reqs[q] # Free, Owner(q),
           NEW s \in {"ok", "error"}, NEW a \in [Tasks -> Shown], Answered(q, s, a),
           reqs[q].op = "create" => s = "error",
           reqs[q].op = "get" /\ s = "ok" => \A t \in Tasks \ {reqs[q].task} : a[t] = "none",
           kind' = kind, \A t \in Tasks : db[t] # "none" => db'[t] # "none"
    PROVE  Owner(q)'
<1>1. /\ reqs[q] \in Request_
      /\ reqs[q].view \in Views /\ reqs[q].task \in Tasks \cup {NoTask}
  BY DEF TypeOK, Request_
<1>2. reqs'[q] = [reqs[q] EXCEPT !.state = s, !.answer = a]
  BY DEF Answered, TypeOK
<1>3. /\ reqs'[q].view = reqs[q].view /\ reqs'[q].task = reqs[q].task
      /\ reqs'[q].op = reqs[q].op /\ reqs'[q].state = s /\ reqs'[q].answer = a
  BY <1>1, <1>2 DEF Request_
<1> QED
  BY <1>1, <1>3 DEF Owner

\* And one that is sent has it.
LEMMA OwnerSent ==
    ASSUME TypeOK, NEW q \in Reqs, NEW v \in Views, NEW o \in {"get", "list", "create", "delete"},
           NEW t \in Tasks \cup {NoTask}, reqs' = [reqs EXCEPT ![q] = Request(v, o, t)],
           o = "get" => kind'[v] = "detail" /\ t \in Tasks /\ db'[t] # "none",
           o = "create" => kind'[v] = "form",
           o \in {"list", "delete"} => kind'[v] = "list",
           o = "delete" => t \in Tasks
    PROVE  Owner(q)'
<1>1. reqs \in Slots
  BY DEF TypeOK, Slots
<1>2. reqs'[q] = Request(v, o, t)
  BY <1>1 DEF Slots
<1> QED
  BY <1>2 DEF Owner, Request

\* Every step keeps the owners: one case per action, one step per conjunct.
LEMMA OwnersStep == TypeOK /\ Owners /\ [Next]_vars => Owners'
<1> SUFFICES ASSUME TypeOK, Owners, [Next]_vars PROVE Owners'
  OBVIOUS
<1>i. TypeOK'
  BY TypeStep
<1>k. /\ \A v \in Views : kind[v] # "unused" => kind'[v] = kind[v]
      /\ \A t \in Tasks : db[t] # "none" => db'[t] # "none"
  BY KindStep, TaskStep DEF Moves, Ended
<1>q. \A q \in Reqs : reqs[q] # Free =>
        /\ reqs[q] \in Request_ /\ Owner(q)
        /\ reqs[q].view \in Views /\ reqs[q].task \in Tasks \cup {NoTask}
        /\ reqs[q].answer \in [Tasks -> Shown]
  BY DEF TypeOK, Owners, Request_
<1>n. Nothing \in [Tasks -> Shown] /\ OwnTasks \in [Tasks -> Shown]
  BY DEF TypeOK, Nothing, OwnTasks, Shown, Exists, Status
<1> USE DEF viewVars
<1> DEFINE Views1 ==
             /\ page # NoView => kind[page] # "unused"
             /\ \A v \in timer : kind[v] \in {"list", "detail"}
           Views2 ==
             \A v \in Views : /\ kind[v] = "unused" => shown[v] = Nothing
                              /\ kind[v] = "detail" => subject[v] \in Tasks /\ db[subject[v]] # "none"
<1>1. ASSUME NEW v \in Views, OpenForm(v) PROVE Owners'
  <2>1. Views1'
    BY <1>k, <1>q, <1>1 DEF OpenForm, Mount, Unused, TypeOK, Owners, Owner
  <2>2. Views2'
    BY <1>k, <1>q, <1>1 DEF OpenForm, Mount, Unused, TypeOK, Owners, Nothing
  <2>3. ASSUME NEW q \in Reqs, reqs'[q] # Free PROVE Owner(q)'
    BY <1>k, <1>q, <2>3, <1>1, OwnerKept DEF OpenForm, Mount, Unused
  <2> QED
    BY <2>1, <2>2, <2>3 DEF Owners
<1>2. ASSUME NEW v \in Views, NEW r \in Reqs, OpenList(v, r) PROVE Owners'
  <2>1. Views1'
    BY <1>k, <1>q, <1>2 DEF OpenList, Mount, Unused, Send, TypeOK, Owners, Owner
  <2>2. Views2'
    BY <1>k, <1>q, <1>2 DEF OpenList, Mount, Unused, Send, TypeOK, Owners, Nothing
  <2>3. ASSUME NEW q \in Reqs, reqs'[q] # Free PROVE Owner(q)'
    <3>1. CASE q # r
      <4>1. reqs'[q] = reqs[q]
        BY <3>1, <1>2 DEF OpenList, Mount, Unused, Send, TypeOK
      <4> QED
        BY <1>k, <1>q, <2>3, <4>1, OwnerKept
    <3>2. CASE q = r
      <4>1. kind'[v] = "list"
        BY <1>2 DEF OpenList, Mount, Unused, Send, TypeOK, Owners
      <4> QED
        BY <3>2, <4>1, <1>2, OwnerSent DEF OpenList, Mount, Unused, Send
    <3> QED
      BY <3>1, <3>2
  <2> QED
    BY <2>1, <2>2, <2>3 DEF Owners
<1>3. ASSUME NEW v \in Views, NEW t \in Tasks, NEW r \in Reqs, OpenDetail(v, t, r) PROVE Owners'
  <2>1. Views1'
    BY <1>k, <1>q, <1>3 DEF OpenDetail, Mount, Unused, Send, TypeOK, Owners, Owner
  <2>2. Views2'
    BY <1>k, <1>q, <1>3 DEF OpenDetail, Mount, Unused, Send, TypeOK, Owners, Nothing
  <2>3. ASSUME NEW q \in Reqs, reqs'[q] # Free PROVE Owner(q)'
    <3>1. CASE q # r
      <4>1. reqs'[q] = reqs[q]
        BY <3>1, <1>3 DEF OpenDetail, Mount, Unused, Send, TypeOK
      <4> QED
        BY <1>k, <1>q, <2>3, <4>1, OwnerKept
    <3>2. CASE q = r
      <4>1. kind'[v] = "detail" /\ db'[t] # "none"
        BY <1>3 DEF OpenDetail, Mount, Unused, Send, TypeOK, Owners
      <4> QED
        BY <3>2, <4>1, <1>3, OwnerSent DEF OpenDetail, Mount, Unused, Send
    <3> QED
      BY <3>1, <3>2
  <2> QED
    BY <2>1, <2>2, <2>3 DEF Owners
<1>4. ASSUME NEW t \in Tasks, OpenOther(t) PROVE Owners'
  <2>1. Views1'
    BY <1>k, <1>q, <1>4 DEF OpenOther, Reuse, TypeOK, Owners, Owner
  <2>2. Views2'
    BY <1>k, <1>q, <1>4 DEF OpenOther, Reuse, TypeOK, Owners, Nothing
  <2>3. ASSUME NEW q \in Reqs, reqs'[q] # Free PROVE Owner(q)'
    BY <1>k, <1>q, <2>3, <1>4, OwnerKept DEF OpenOther, Reuse
  <2> QED
    BY <2>1, <2>2, <2>3 DEF Owners
<1>5. CASE Leave
  <2>1. Views1'
    BY <1>k, <1>q, <1>5 DEF Leave, TypeOK, Owners, Owner
  <2>2. Views2'
    BY <1>k, <1>q, <1>5 DEF Leave, TypeOK, Owners, Nothing
  <2>3. ASSUME NEW q \in Reqs, reqs'[q] # Free PROVE Owner(q)'
    BY <1>k, <1>q, <2>3, <1>5, OwnerKept DEF Leave
  <2> QED
    BY <2>1, <2>2, <2>3 DEF Owners
<1>6. ASSUME NEW v \in Views, NEW r \in Reqs, Submit(v, r) PROVE Owners'
  <2>1. Views1'
    BY <1>k, <1>q, <1>6 DEF Submit, Send, TypeOK, Owners, Owner
  <2>2. Views2'
    BY <1>k, <1>q, <1>6 DEF Submit, Send, TypeOK, Owners, Nothing
  <2>3. ASSUME NEW q \in Reqs, reqs'[q] # Free PROVE Owner(q)'
    <3>1. CASE q # r
      <4>1. reqs'[q] = reqs[q]
        BY <3>1, <1>6 DEF Submit, Send, TypeOK
      <4> QED
        BY <1>k, <1>q, <2>3, <4>1, OwnerKept
    <3>2. CASE q = r
      <4>1. kind'[v] = "form"
        BY <1>6 DEF Submit, Send, TypeOK, Owners
      <4> QED
        BY <3>2, <4>1, <1>6, OwnerSent DEF Submit, Send
    <3> QED
      BY <3>1, <3>2
  <2> QED
    BY <2>1, <2>2, <2>3 DEF Owners
<1>7. ASSUME NEW r \in Reqs, Created(r) PROVE Owners'
  <2>1. Views1'
    BY <1>k, <1>q, <1>7 DEF Created, Reuse, Unused, TypeOK, Owners, Owner
  <2>2. Views2'
    BY <1>k, <1>q, <1>7 DEF Created, Reuse, Unused, TypeOK, Owners, Nothing, Owner
  <2>3. ASSUME NEW q \in Reqs, reqs'[q] # Free PROVE Owner(q)'
    <3>1. CASE q # r
      <4>1. reqs'[q] = reqs[q]
        BY <3>1, <1>7 DEF Created, Reuse, Unused, TypeOK
      <4> QED
        BY <1>k, <1>q, <2>3, <4>1, OwnerKept
    <3>2. CASE q = r
      <4>1. PICK v \in Views : /\ kind'[v] = "detail"
                                /\ reqs' = [reqs EXCEPT ![r] = Request(v, "get", reqs[r].task)]
        BY <2>3, <3>2, <1>7 DEF Created, Reuse, Unused, TypeOK
      <4>2. reqs[r].task \in Tasks /\ db'[reqs[r].task] # "none"
        <5>1. reqs[r].op = "create" /\ reqs[r].state = "ok"
          BY <2>3, <3>2, <1>7 DEF Created, Reuse, Unused, TypeOK
        <5> QED
          BY <1>k, <1>q, <5>1, <1>7 DEF Created, Owner
      <4> QED
        BY <3>2, <4>1, <4>2, OwnerSent
    <3> QED
      BY <3>1, <3>2
  <2> QED
    BY <2>1, <2>2, <2>3 DEF Owners
<1>8. ASSUME NEW r \in Reqs, GotTask(r) PROVE Owners'
  <2>1. Views1'
    BY <1>k, <1>q, <1>8 DEF GotTask, TypeOK, Owners, Owner
  <2>2. Views2'
    BY <1>k, <1>q, <1>8 DEF GotTask, TypeOK, Owners, Nothing, Owner
  <2>3. ASSUME NEW q \in Reqs, reqs'[q] # Free PROVE Owner(q)'
    <3>1. CASE q # r
      <4>1. reqs'[q] = reqs[q]
        BY <3>1, <1>8 DEF GotTask, TypeOK
      <4> QED
        BY <1>k, <1>q, <2>3, <4>1, OwnerKept
    <3>2. CASE q = r
      BY <2>3, <3>2, <1>8 DEF GotTask, TypeOK
    <3> QED
      BY <3>1, <3>2
  <2> QED
    BY <2>1, <2>2, <2>3 DEF Owners
<1>9. ASSUME NEW v \in Views, NEW r \in Reqs, TimeoutFires(v, r) PROVE Owners'
  <2>1. Views1'
    BY <1>k, <1>q, <1>9 DEF TimeoutFires, Send, TypeOK, Owners, Owner
  <2>2. Views2'
    BY <1>k, <1>q, <1>9 DEF TimeoutFires, Send, TypeOK, Owners, Nothing
  <2>3. ASSUME NEW q \in Reqs, reqs'[q] # Free PROVE Owner(q)'
    <3>1. CASE q # r
      <4>1. reqs'[q] = reqs[q]
        BY <3>1, <1>9 DEF TimeoutFires, Send, TypeOK
      <4> QED
        BY <1>k, <1>q, <2>3, <4>1, OwnerKept
    <3>2. CASE q = r
      <4>1. kind'[v] = "detail" /\ subject[v] \in Tasks /\ db'[subject[v]] # "none"
        BY <1>9 DEF TimeoutFires, Send, TypeOK, Owners
      <4> QED
        BY <3>2, <4>1, <1>9, OwnerSent DEF TimeoutFires, Send
    <3> QED
      BY <3>1, <3>2
  <2> QED
    BY <2>1, <2>2, <2>3 DEF Owners
<1>10. ASSUME NEW v \in Views, NEW r \in Reqs, IntervalFires(v, r) PROVE Owners'
  <2>1. Views1'
    BY <1>k, <1>q, <1>10 DEF IntervalFires, Send, TypeOK, Owners, Owner
  <2>2. Views2'
    BY <1>k, <1>q, <1>10 DEF IntervalFires, Send, TypeOK, Owners, Nothing
  <2>3. ASSUME NEW q \in Reqs, reqs'[q] # Free PROVE Owner(q)'
    <3>1. CASE q # r
      <4>1. reqs'[q] = reqs[q]
        BY <3>1, <1>10 DEF IntervalFires, Send, TypeOK
      <4> QED
        BY <1>k, <1>q, <2>3, <4>1, OwnerKept
    <3>2. CASE q = r
      <4>1. kind'[v] = "list"
        BY <1>10 DEF IntervalFires, Send, TypeOK, Owners
      <4> QED
        BY <3>2, <4>1, <1>10, OwnerSent DEF IntervalFires, Send
    <3> QED
      BY <3>1, <3>2
  <2> QED
    BY <2>1, <2>2, <2>3 DEF Owners
<1>11. ASSUME NEW v \in Views, NEW r \in Reqs, Refresh(v, r) PROVE Owners'
  <2>1. Views1'
    BY <1>k, <1>q, <1>11 DEF Refresh, Send, TypeOK, Owners, Owner
  <2>2. Views2'
    BY <1>k, <1>q, <1>11 DEF Refresh, Send, TypeOK, Owners, Nothing
  <2>3. ASSUME NEW q \in Reqs, reqs'[q] # Free PROVE Owner(q)'
    <3>1. CASE q # r
      <4>1. reqs'[q] = reqs[q]
        BY <3>1, <1>11 DEF Refresh, Send, TypeOK
      <4> QED
        BY <1>k, <1>q, <2>3, <4>1, OwnerKept
    <3>2. CASE q = r
      <4>1. kind'[v] = "list"
        BY <1>11 DEF Refresh, Send, TypeOK, Owners
      <4> QED
        BY <3>2, <4>1, <1>11, OwnerSent DEF Refresh, Send
    <3> QED
      BY <3>1, <3>2
  <2> QED
    BY <2>1, <2>2, <2>3 DEF Owners
<1>12. ASSUME NEW r \in Reqs, GotList(r) PROVE Owners'
  <2>1. Views1'
    BY <1>k, <1>q, <1>12 DEF GotList, TypeOK, Owners, Owner
  <2>2. Views2'
    BY <1>k, <1>q, <1>12 DEF GotList, TypeOK, Owners, Nothing, Owner
  <2>3. ASSUME NEW q \in Reqs, reqs'[q] # Free PROVE Owner(q)'
    <3>1. CASE q # r
      <4>1. reqs'[q] = reqs[q]
        BY <3>1, <1>12 DEF GotList, TypeOK
      <4> QED
        BY <1>k, <1>q, <2>3, <4>1, OwnerKept
    <3>2. CASE q = r
      BY <2>3, <3>2, <1>12 DEF GotList, TypeOK
    <3> QED
      BY <3>1, <3>2
  <2> QED
    BY <2>1, <2>2, <2>3 DEF Owners
<1>13. ASSUME NEW v \in Views, NEW t \in Tasks, AskRemove(v, t) PROVE Owners'
  <2>1. Views1'
    BY <1>k, <1>q, <1>13 DEF AskRemove, TypeOK, Owners, Owner
  <2>2. Views2'
    BY <1>k, <1>q, <1>13 DEF AskRemove, TypeOK, Owners, Nothing
  <2>3. ASSUME NEW q \in Reqs, reqs'[q] # Free PROVE Owner(q)'
    BY <1>k, <1>q, <2>3, <1>13, OwnerKept DEF AskRemove
  <2> QED
    BY <2>1, <2>2, <2>3 DEF Owners
<1>14. ASSUME NEW v \in Views, NEW t \in Tasks, NEW r \in Reqs, Remove(v, t, r) PROVE Owners'
  <2>1. Views1'
    BY <1>k, <1>q, <1>14 DEF Remove, Send, TypeOK, Owners, Owner
  <2>2. Views2'
    BY <1>k, <1>q, <1>14 DEF Remove, Send, TypeOK, Owners, Nothing
  <2>3. ASSUME NEW q \in Reqs, reqs'[q] # Free PROVE Owner(q)'
    <3>1. CASE q # r
      <4>1. reqs'[q] = reqs[q]
        BY <3>1, <1>14 DEF Remove, Send, TypeOK
      <4> QED
        BY <1>k, <1>q, <2>3, <4>1, OwnerKept
    <3>2. CASE q = r
      <4>1. kind'[v] = "list"
        BY <1>14 DEF Remove, Send, TypeOK, Owners
      <4> QED
        BY <3>2, <4>1, <1>14, OwnerSent DEF Remove, Send
    <3> QED
      BY <3>1, <3>2
  <2> QED
    BY <2>1, <2>2, <2>3 DEF Owners
<1>15. ASSUME NEW v \in Views, CancelRemove(v) PROVE Owners'
  <2>1. Views1'
    BY <1>k, <1>q, <1>15 DEF CancelRemove, TypeOK, Owners, Owner
  <2>2. Views2'
    BY <1>k, <1>q, <1>15 DEF CancelRemove, TypeOK, Owners, Nothing
  <2>3. ASSUME NEW q \in Reqs, reqs'[q] # Free PROVE Owner(q)'
    BY <1>k, <1>q, <2>3, <1>15, OwnerKept DEF CancelRemove
  <2> QED
    BY <2>1, <2>2, <2>3 DEF Owners
<1>16. ASSUME NEW r \in Reqs, Removed(r) PROVE Owners'
  <2>1. Views1'
    BY <1>k, <1>q, <1>16 DEF Removed, TypeOK, Owners, Owner
  <2>2. Views2'
    BY <1>k, <1>q, <1>16 DEF Removed, TypeOK, Owners, Nothing
  <2>3. ASSUME NEW q \in Reqs, reqs'[q] # Free PROVE Owner(q)'
    <3>1. CASE q # r
      <4>1. reqs'[q] = reqs[q]
        BY <3>1, <1>16 DEF Removed, TypeOK
      <4> QED
        BY <1>k, <1>q, <2>3, <4>1, OwnerKept
    <3>2. CASE q = r
      BY <2>3, <3>2, <1>16 DEF Removed, TypeOK
    <3> QED
      BY <3>1, <3>2
  <2> QED
    BY <2>1, <2>2, <2>3 DEF Owners
<1>17. ASSUME NEW r \in Reqs, ServeGet(r) PROVE Owners'
  <2>1. Views1'
    BY <1>k, <1>q, <1>17 DEF ServeGet, Answered, TypeOK, Owners, Owner
  <2>2. Views2'
    BY <1>k, <1>q, <1>17 DEF ServeGet, Answered, TypeOK, Owners, Nothing
  <2>3. ASSUME NEW q \in Reqs, reqs'[q] # Free PROVE Owner(q)'
    <3>1. CASE q # r
      <4>1. reqs'[q] = reqs[q]
        BY <3>1, <1>17 DEF ServeGet, Answered, TypeOK
      <4> QED
        BY <1>k, <1>q, <2>3, <4>1, OwnerKept
    <3>2. CASE q = r
      <4> DEFINE s == IF Exists(reqs[r].task) THEN "ok" ELSE "error"
                 a == [Nothing EXCEPT ![reqs[r].task] = OwnTasks[reqs[r].task]]
      <4>1. a \in [Tasks -> Shown] /\ \A u \in Tasks \ {reqs[r].task} : a[u] = "none"
        BY <1>n, <1>q, <1>17 DEF ServeGet, Nothing, Owner
      <4>2. reqs[r] # Free /\ reqs[r].op = "get" /\ Answered(r, s, a) /\ kind' = kind
        BY <1>17 DEF ServeGet
      <4> HIDE DEF a
      <4> QED
        BY <1>k, <1>q, <3>2, <4>1, <4>2, OwnerAnswered
    <3> QED
      BY <3>1, <3>2
  <2> QED
    BY <2>1, <2>2, <2>3 DEF Owners
<1>18. ASSUME NEW r \in Reqs, ServeList(r) PROVE Owners'
  <2>1. Views1'
    BY <1>k, <1>q, <1>18 DEF ServeList, Answered, TypeOK, Owners, Owner
  <2>2. Views2'
    BY <1>k, <1>q, <1>18 DEF ServeList, Answered, TypeOK, Owners, Nothing
  <2>3. ASSUME NEW q \in Reqs, reqs'[q] # Free PROVE Owner(q)'
    <3>1. CASE q # r
      <4>1. reqs'[q] = reqs[q]
        BY <3>1, <1>18 DEF ServeList, Answered, TypeOK
      <4> QED
        BY <1>k, <1>q, <2>3, <4>1, OwnerKept
    <3>2. CASE q = r
      BY <1>k, <1>q, <1>n, <3>2, <1>18, OwnerAnswered DEF ServeList
    <3> QED
      BY <3>1, <3>2
  <2> QED
    BY <2>1, <2>2, <2>3 DEF Owners
<1>19. ASSUME NEW r \in Reqs, ServeCreate(r) PROVE Owners'
  <2>1. Views1'
    BY <1>k, <1>q, <1>19 DEF ServeCreate, Answered, TypeOK, Owners, Owner
  <2>2. Views2'
    BY <1>k, <1>q, <1>19 DEF ServeCreate, Answered, TypeOK, Owners, Nothing
  <2>3. ASSUME NEW q \in Reqs, reqs'[q] # Free PROVE Owner(q)'
    <3>1. CASE q # r
      <4>1. reqs'[q] = reqs[q]
        BY <3>1, <1>19 DEF ServeCreate, Answered, TypeOK
      <4> QED
        BY <1>k, <1>q, <2>3, <4>1, OwnerKept
    <3>2. CASE q = r
      <4>1. CASE Answered(r, "error", Nothing)
        BY <1>k, <1>q, <1>n, <3>2, <4>1, <1>19, OwnerAnswered DEF ServeCreate
      <4>2. ASSUME NEW t \in Tasks, db' = [db EXCEPT ![t] = "pending"],
                    reqs' = [reqs EXCEPT ![r].state = "ok", ![r].task = t]
            PROVE  Owner(q)'
        <5>1. reqs[r] \in Request_ /\ reqs[r].op = "create" /\ kind[reqs[r].view] = "form"
          BY <1>q, <1>19 DEF ServeCreate, Owner
        <5>2. reqs'[r] = [reqs[r] EXCEPT !.state = "ok", !.task = t]
          BY <4>2 DEF TypeOK
        <5>3. /\ reqs'[r].op = "create" /\ reqs'[r].view = reqs[r].view
              /\ reqs'[r].task = t
          BY <5>1, <5>2 DEF Request_
        <5>4. db'[t] # "none"
          BY <4>2 DEF TypeOK
        <5> QED
          BY <3>2, <4>2, <5>1, <5>3, <5>4, <1>19 DEF ServeCreate, Owner
      <4> QED
        BY <4>1, <4>2, <1>19 DEF ServeCreate
    <3> QED
      BY <3>1, <3>2
  <2> QED
    BY <2>1, <2>2, <2>3 DEF Owners
<1>20. ASSUME NEW r \in Reqs, ServeDelete(r) PROVE Owners'
  <2>1. Views1'
    BY <1>k, <1>q, <1>20 DEF ServeDelete, Answered, TypeOK, Owners, Owner
  <2>2. Views2'
    BY <1>k, <1>q, <1>20 DEF ServeDelete, Answered, TypeOK, Owners, Nothing
  <2>3. ASSUME NEW q \in Reqs, reqs'[q] # Free PROVE Owner(q)'
    <3>1. CASE q # r
      <4>1. reqs'[q] = reqs[q]
        BY <3>1, <1>20 DEF ServeDelete, Answered, TypeOK
      <4> QED
        BY <1>k, <1>q, <2>3, <4>1, OwnerKept
    <3>2. CASE q = r
      BY <1>k, <1>q, <1>n, <3>2, <1>20, OwnerAnswered DEF ServeDelete
    <3> QED
      BY <3>1, <3>2
  <2> QED
    BY <2>1, <2>2, <2>3 DEF Owners
<1>21. ASSUME NEW r \in Reqs, Lose(r) PROVE Owners'
  <2>1. Views1'
    BY <1>k, <1>q, <1>21 DEF Lose, Answered, TypeOK, Owners, Owner
  <2>2. Views2'
    BY <1>k, <1>q, <1>21 DEF Lose, Answered, TypeOK, Owners, Nothing
  <2>3. ASSUME NEW q \in Reqs, reqs'[q] # Free PROVE Owner(q)'
    <3>1. CASE q # r
      <4>1. reqs'[q] = reqs[q]
        BY <3>1, <1>21 DEF Lose, Answered, TypeOK
      <4> QED
        BY <1>k, <1>q, <2>3, <4>1, OwnerKept
    <3>2. CASE q = r
      BY <1>k, <1>q, <1>n, <3>2, <1>21, OwnerAnswered DEF Lose
    <3> QED
      BY <3>1, <3>2
  <2> QED
    BY <2>1, <2>2, <2>3 DEF Owners
<1>22. ASSUME NEW t \in Tasks, Advance(t) PROVE Owners'
  <2>1. Views1'
    BY <1>k, <1>q, <1>22 DEF Advance, TypeOK, Owners, Owner
  <2>2. Views2'
    BY <1>k, <1>q, <1>22 DEF Advance, TypeOK, Owners, Nothing
  <2>3. ASSUME NEW q \in Reqs, reqs'[q] # Free PROVE Owner(q)'
    BY <1>k, <1>q, <2>3, <1>22, OwnerKept DEF Advance
  <2> QED
    BY <2>1, <2>2, <2>3 DEF Owners
<1>23. CASE UNCHANGED vars
  BY <1>23 DEF vars, Owners, Owner
<1> QED
  BY <1>1, <1>2, <1>3, <1>4, <1>5, <1>6, <1>7, <1>8, <1>9, <1>10, <1>11, <1>12, <1>13, <1>14, <1>15, <1>16, <1>17, <1>18, <1>19, <1>20, <1>21, <1>22, <1>23 DEF Next, Serve, Receive, User

-----------------------------------------------------------------------------
(* The requests of one view.                                               *)

\* What becomes of the request a step is about.
LEMMA Fields ==
    ASSUME TypeOK, NEW r \in Reqs
    PROVE  /\ \A s \in {"ok", "error"}, a \in [Tasks -> Shown] :
                 reqs[r] # Free /\ Answered(r, s, a) =>
                    /\ reqs'[r] # Free
                    /\ reqs'[r].op = reqs[r].op /\ reqs'[r].view = reqs[r].view
                    /\ reqs'[r].task = reqs[r].task
                    /\ reqs'[r].state = s /\ reqs'[r].answer = a
           /\ \A v \in Views, o \in {"get", "list", "create", "delete"}, t \in Tasks \cup {NoTask} :
                 reqs' = [reqs EXCEPT ![r] = Request(v, o, t)] =>
                    /\ reqs'[r] # Free /\ reqs'[r].op = o /\ reqs'[r].view = v
                    /\ reqs'[r].task = t /\ reqs'[r].state = "sent"
           /\ reqs' = [reqs EXCEPT ![r] = Free] => reqs'[r] = Free
<1>1. reqs \in Slots
  BY DEF TypeOK, Slots
<1>2. ASSUME NEW s \in {"ok", "error"}, NEW a \in [Tasks -> Shown], reqs[r] # Free, Answered(r, s, a)
      PROVE  /\ reqs'[r] # Free
             /\ reqs'[r].op = reqs[r].op /\ reqs'[r].view = reqs[r].view
             /\ reqs'[r].task = reqs[r].task
             /\ reqs'[r].state = s /\ reqs'[r].answer = a
  <2>1. reqs[r] \in Request_
    BY <1>1, <1>2 DEF Slots
  <2>2. reqs'[r] = [reqs[r] EXCEPT !.state = s, !.answer = a]
    BY <1>1, <1>2 DEF Answered, Slots
  <2>3. reqs'[r] \in Request_
    <3>1. [reqs[r] EXCEPT !.state = s, !.answer = a] \in Request_
      BY <2>1, RequestTypes
    <3> QED
      BY <2>2, <3>1
  <2>4. reqs'[r] # Free
    BY <2>3, FreeIsNone
  <2>5. /\ reqs'[r].op = reqs[r].op /\ reqs'[r].view = reqs[r].view
        /\ reqs'[r].task = reqs[r].task
        /\ reqs'[r].state = s /\ reqs'[r].answer = a
    BY <2>1, <2>2 DEF Request_
  <2> QED
    BY <2>4, <2>5
<1>3. ASSUME NEW v \in Views, NEW o \in {"get", "list", "create", "delete"},
             NEW t \in Tasks \cup {NoTask}, reqs' = [reqs EXCEPT ![r] = Request(v, o, t)]
      PROVE  /\ reqs'[r] # Free /\ reqs'[r].op = o /\ reqs'[r].view = v
             /\ reqs'[r].task = t /\ reqs'[r].state = "sent"
  <2>1. reqs'[r] = Request(v, o, t)
    BY <1>1, <1>3 DEF Slots
  <2>2. reqs'[r] # Free
    BY <2>1, RequestTypes, FreeIsNone
  <2> QED
    BY <2>1, <2>2 DEF Request
<1>4. reqs' = [reqs EXCEPT ![r] = Free] => reqs'[r] = Free
  BY <1>1 DEF Slots
<1> QED
  BY <1>2, <1>3, <1>4

Loads(q, v) == reqs[q] # Free /\ reqs[q].op = "get" /\ reqs[q].view = v

\* Steps that neither begin nor end a load of v leave its loads.
LEMMA LoadsKept ==
    ASSUME NEW v \in Views, \A q \in Reqs : Loads(q, v)' <=> Loads(q, v)
    PROVE  Of(v, "get")' = Of(v, "get")
BY DEF Of, Loads

\* A step that changes nothing a view polls by, but may leave it.
LEMMA PollKept ==
    ASSUME NEW v \in Views, OnePollOf(v), Of(v, "get")' = Of(v, "get"), shown'[v] = shown[v],
           v \in timer' => v \in timer, page' = v => page = v /\ (v \in timer => v \in timer')
    PROVE  OnePollOf(v)'
<1>1. AnyTerminal(shown'[v]) <=> AnyTerminal(shown[v])
  OBVIOUS
<1> QED
  BY <1>1 DEF OnePollOf

\* A page that has just been opened, with its first load.
LEMMA PollBegins ==
    ASSUME NEW v \in Views, NEW r \in Reqs, Loads(r, v)', \A q \in Reqs \ {r} : ~Loads(q, v)',
           v \notin timer', shown'[v] = Nothing \/ ~AnyTerminal(shown'[v])
    PROVE  OnePollOf(v)'
<1>1. Of(v, "get")' = {r}
  BY DEF Of, Loads
<1>2. ~AnyTerminal(shown'[v])
  BY DEF AnyTerminal, IsTerminal, Nothing, Ended
<1> QED
  BY <1>1, <1>2 DEF OnePollOf

\* Every step keeps OnePoll: one case per action.
LEMMA PollStep == TypeOK /\ Owners /\ OnePoll /\ [Next]_vars => OnePoll'
<1> SUFFICES ASSUME TypeOK, Owners, OnePoll, [Next]_vars, NEW u \in Views, kind'[u] = "detail"
             PROVE  OnePollOf(u)'
  BY DEF OnePoll
<1>i. /\ kind[u] = "detail" => OnePollOf(u)
      /\ kind[u] # "unused" => kind[u] = "detail"
      /\ kind[u] = "unused" => shown[u] = Nothing /\ u \notin timer /\ page # u
      /\ kind[u] = "unused" => \A q \in Reqs : ~Loads(q, u)
  BY KindStep DEF OnePoll, Owners, Owner, Loads, TypeOK
<1>q. \A q \in Reqs : reqs[q] # Free =>
        /\ reqs[q] \in Request_ /\ Owner(q)
        /\ reqs[q].view \in Views /\ reqs[q].task \in Tasks \cup {NoTask}
        /\ reqs[q].answer \in [Tasks -> Shown]
  BY DEF TypeOK, Owners, Request_
<1>n. Nothing \in [Tasks -> Shown] /\ OwnTasks \in [Tasks -> Shown]
  BY DEF TypeOK, Nothing, OwnTasks, Shown, Exists, Status
<1> USE DEF viewVars
<1>1. ASSUME NEW v \in Views, OpenForm(v) PROVE OnePollOf(u)'
  <2>2. Of(u, "get")' = Of(u, "get")
    BY <1>1, LoadsKept DEF OpenForm, Mount, Unused, Loads
  <2>3. /\ kind[u] = "detail" /\ shown'[u] = shown[u] /\ (u \in timer' => u \in timer)
        /\ page' = u => page = u /\ (u \in timer => u \in timer')
    BY <1>i, <1>1 DEF OpenForm, Mount, Unused, TypeOK
  <2> QED
    BY <1>i, <2>2, <2>3, PollKept
<1>2. ASSUME NEW v \in Views, NEW r \in Reqs, OpenList(v, r) PROVE OnePollOf(u)'
  <2>0. \A q \in Reqs \ {r} : reqs'[q] = reqs[q]
    BY <1>2 DEF OpenList, Mount, Unused, Send, TypeOK
  <2>1. /\ reqs[r] = Free /\ reqs'[r] # Free
        /\ reqs'[r].op = "list" /\ reqs'[r].view = v /\ reqs'[r].state = "sent"
    BY <1>2, Fields DEF OpenList, Mount, Unused, Send
  <2>2. Of(u, "get")' = Of(u, "get")
    BY <2>0, <2>1, LoadsKept DEF Loads
  <2>3. /\ kind[u] = "detail" /\ shown'[u] = shown[u] /\ (u \in timer' => u \in timer)
        /\ page' = u => page = u /\ (u \in timer => u \in timer')
    BY <1>i, <1>2 DEF OpenList, Mount, Unused, Send, TypeOK
  <2> QED
    BY <1>i, <2>2, <2>3, PollKept
<1>3. ASSUME NEW v \in Views, NEW t \in Tasks, NEW r \in Reqs, OpenDetail(v, t, r) PROVE OnePollOf(u)'
  <2>0. \A q \in Reqs \ {r} : reqs'[q] = reqs[q]
    BY <1>3 DEF OpenDetail, Mount, Unused, Send, TypeOK
  <2>1. /\ reqs[r] = Free /\ reqs'[r] # Free
        /\ reqs'[r].op = "get" /\ reqs'[r].view = v /\ reqs'[r].state = "sent"
    BY <1>3, Fields DEF OpenDetail, Mount, Unused, Send
  <2>2. CASE u = v
    <3>1. kind[u] = "unused" /\ shown'[u] = shown[u] /\ timer' = timer \ {page}
      BY <2>2, <1>3 DEF OpenDetail, Mount, Unused
    <3> QED
      BY <1>i, <2>0, <2>1, <2>2, <3>1, PollBegins DEF Loads
  <2>3. CASE u # v
    <3>1. Of(u, "get")' = Of(u, "get")
      BY <2>0, <2>1, <2>3, LoadsKept DEF Loads
    <3>2. /\ kind[u] = "detail" /\ shown'[u] = shown[u] /\ (u \in timer' => u \in timer)
          /\ page' # u
      BY <2>3, <1>3 DEF OpenDetail, Mount, TypeOK
    <3> QED
      BY <1>i, <3>1, <3>2, PollKept
  <2> QED
    BY <2>2, <2>3
<1>4. ASSUME NEW t \in Tasks, OpenOther(t) PROVE OnePollOf(u)'
  <2>2. Of(u, "get")' = Of(u, "get")
    BY <1>4, LoadsKept DEF OpenOther, Reuse, Loads
  <2>3. /\ kind[u] = "detail" /\ shown'[u] = shown[u] /\ (u \in timer' => u \in timer)
        /\ page' = u => page = u /\ (u \in timer => u \in timer')
    BY <1>i, <1>4 DEF OpenOther, Reuse, TypeOK
  <2> QED
    BY <1>i, <2>2, <2>3, PollKept
<1>5. CASE Leave
  <2>2. Of(u, "get")' = Of(u, "get")
    BY <1>5, LoadsKept DEF Leave, Loads
  <2>3. /\ kind[u] = "detail" /\ shown'[u] = shown[u] /\ (u \in timer' => u \in timer)
        /\ page' = u => page = u /\ (u \in timer => u \in timer')
    BY <1>i, <1>5 DEF Leave, TypeOK
  <2> QED
    BY <1>i, <2>2, <2>3, PollKept
<1>6. ASSUME NEW v \in Views, NEW r \in Reqs, Submit(v, r) PROVE OnePollOf(u)'
  <2>0. \A q \in Reqs \ {r} : reqs'[q] = reqs[q]
    BY <1>6 DEF Submit, Send, TypeOK
  <2>1. /\ reqs[r] = Free /\ reqs'[r] # Free
        /\ reqs'[r].op = "create" /\ reqs'[r].view = v /\ reqs'[r].state = "sent"
    BY <1>6, Fields DEF Submit, Send
  <2>2. Of(u, "get")' = Of(u, "get")
    BY <2>0, <2>1, LoadsKept DEF Loads
  <2>3. /\ kind[u] = "detail" /\ shown'[u] = shown[u] /\ (u \in timer' => u \in timer)
        /\ page' = u => page = u /\ (u \in timer => u \in timer')
    BY <1>i, <1>6 DEF Submit, Send, TypeOK
  <2> QED
    BY <1>i, <2>2, <2>3, PollKept
<1>7. ASSUME NEW r \in Reqs, Created(r) PROVE OnePollOf(u)'
  <2>0. \A q \in Reqs \ {r} : reqs'[q] = reqs[q]
    BY <1>7 DEF Created, TypeOK
  <2>1. reqs[r] # Free /\ reqs[r].op = "create"
    BY <1>7 DEF Created
  <2>2. CASE kind[u] = "detail"
    <3>1. ~Loads(r, u)'
      <4>1. CASE reqs' = [reqs EXCEPT ![r] = Free]
        BY <4>1, Fields DEF Loads
      <4>2. ASSUME NEW v \in Views, kind[v] = "unused", reqs' = [reqs EXCEPT ![r] = Request(v, "get", reqs[r].task)]
            PROVE  ~Loads(r, u)'
        <5>1. reqs'[r].view = v
          BY <1>q, <2>1, <4>2, Fields
        <5> QED
          BY <2>2, <4>2, <5>1 DEF Loads
      <4> QED
        BY <1>7, <4>1, <4>2 DEF Created, Unused
    <3>2. Of(u, "get")' = Of(u, "get")
      BY <2>0, <2>1, <3>1, LoadsKept DEF Loads
    <3>3. /\ shown'[u] = shown[u] /\ (u \in timer' => u \in timer)
          /\ page' = u => page = u /\ (u \in timer => u \in timer')
      BY <2>2, <1>7 DEF Created, Reuse, Unused, TypeOK
    <3> QED
      BY <1>i, <2>2, <3>2, <3>3, PollKept
  <2>3. CASE kind[u] = "unused"
    <3>1. reqs' = [reqs EXCEPT ![r] = Request(u, "get", reqs[r].task)]
      BY <2>3, <1>7 DEF Created, Reuse, TypeOK
    <3>2. Loads(r, u)'
      BY <1>q, <2>1, <3>1, Fields DEF Loads
    <3>3. shown'[u] = Nothing /\ u \notin timer'
      BY <1>i, <2>3, <1>7 DEF Created, Reuse
    <3> QED
      BY <1>i, <2>0, <2>3, <3>2, <3>3, PollBegins DEF Loads
  <2> QED
    BY <1>i, <2>2, <2>3
<1>8. ASSUME NEW r \in Reqs, GotTask(r) PROVE OnePollOf(u)'
  <2>0. \A q \in Reqs \ {r} : reqs'[q] = reqs[q]
    BY <1>8 DEF GotTask, TypeOK
  <2>1. reqs'[r] = Free /\ reqs[r] # Free /\ reqs[r].op = "get"
    BY <1>8, Fields DEF GotTask
  <2>2. kind[u] = "detail" /\ page' = page
    BY <1>8 DEF GotTask
  <2>3. CASE u = reqs[r].view
    <3>1. Of(u, "get")' = {}
      <4>1. \A q \in Reqs : Loads(q, u) => q = r
        BY <1>i, <2>1, <2>2, <2>3 DEF OnePollOf, Of, Loads
      <4> QED
        BY <2>0, <2>1, <4>1 DEF Of, Loads
    <3>2. u \in timer' <=> ~AnyTerminal(shown'[u])
      <4>1. shown'[u] = IF reqs[r].state = "ok" THEN reqs[r].answer ELSE shown[u]
        BY <2>3, <1>8 DEF GotTask, TypeOK
      <4> QED
        BY <2>3, <4>1, <1>8 DEF GotTask
    <3> QED
      BY <3>1, <3>2 DEF OnePollOf
  <2>4. CASE u # reqs[r].view
    <3>1. Of(u, "get")' = Of(u, "get")
      BY <2>0, <2>1, <2>4, LoadsKept DEF Loads
    <3>2. (u \in timer' <=> u \in timer) /\ shown'[u] = shown[u]
      BY <2>4, <1>8 DEF GotTask, TypeOK
    <3> QED
      BY <1>i, <2>2, <3>1, <3>2, PollKept
  <2> QED
    BY <2>3, <2>4
<1>9. ASSUME NEW v \in Views, NEW r \in Reqs, TimeoutFires(v, r) PROVE OnePollOf(u)'
  <2>0. \A q \in Reqs \ {r} : reqs'[q] = reqs[q]
    BY <1>9 DEF TimeoutFires, Send, TypeOK
  <2>1. /\ reqs[r] = Free /\ reqs'[r] # Free
        /\ reqs'[r].op = "get" /\ reqs'[r].view = v /\ reqs'[r].state = "sent"
    <3>1. subject[v] \in Tasks \cup {NoTask}
      BY DEF TypeOK
    <3> QED
      BY <1>9, <3>1, Fields DEF TimeoutFires, Send
  <2>2. kind[u] = "detail" /\ shown' = shown /\ page' = page
    BY <1>9 DEF TimeoutFires
  <2>3. CASE u = v
    <3>1. v \in timer /\ Of(u, "get") = {} /\ ~AnyTerminal(shown[u]) /\ u \notin timer'
      BY <1>i, <2>2, <2>3, <1>9 DEF TimeoutFires, OnePollOf
    <3>2. \A q \in Reqs : ~Loads(q, u)
      BY <3>1 DEF Of, Loads
    <3>3. ~AnyTerminal(shown'[u])
      BY <2>2, <3>1
    <3> QED
      BY <2>0, <2>1, <2>3, <3>1, <3>2, <3>3, PollBegins DEF Loads
  <2>4. CASE u # v
    <3>1. Of(u, "get")' = Of(u, "get")
      BY <2>0, <2>1, <2>4, LoadsKept DEF Loads
    <3>2. u \in timer' <=> u \in timer
      BY <2>4, <1>9 DEF TimeoutFires
    <3> QED
      BY <1>i, <2>2, <3>1, <3>2, PollKept
  <2> QED
    BY <2>3, <2>4
<1>10. ASSUME NEW v \in Views, NEW r \in Reqs, IntervalFires(v, r) PROVE OnePollOf(u)'
  <2>0. \A q \in Reqs \ {r} : reqs'[q] = reqs[q]
    BY <1>10 DEF IntervalFires, Send, TypeOK
  <2>1. /\ reqs[r] = Free /\ reqs'[r] # Free
        /\ reqs'[r].op = "list" /\ reqs'[r].view = v /\ reqs'[r].state = "sent"
    BY <1>10, Fields DEF IntervalFires, Send
  <2>2. Of(u, "get")' = Of(u, "get")
    BY <2>0, <2>1, LoadsKept DEF Loads
  <2>3. /\ kind[u] = "detail" /\ shown'[u] = shown[u] /\ (u \in timer' => u \in timer)
        /\ page' = u => page = u /\ (u \in timer => u \in timer')
    BY <1>i, <1>10 DEF IntervalFires, Send, TypeOK
  <2> QED
    BY <1>i, <2>2, <2>3, PollKept
<1>11. ASSUME NEW v \in Views, NEW r \in Reqs, Refresh(v, r) PROVE OnePollOf(u)'
  <2>0. \A q \in Reqs \ {r} : reqs'[q] = reqs[q]
    BY <1>11 DEF Refresh, Send, TypeOK
  <2>1. /\ reqs[r] = Free /\ reqs'[r] # Free
        /\ reqs'[r].op = "list" /\ reqs'[r].view = v /\ reqs'[r].state = "sent"
    BY <1>11, Fields DEF Refresh, Send
  <2>2. Of(u, "get")' = Of(u, "get")
    BY <2>0, <2>1, LoadsKept DEF Loads
  <2>3. /\ kind[u] = "detail" /\ shown'[u] = shown[u] /\ (u \in timer' => u \in timer)
        /\ page' = u => page = u /\ (u \in timer => u \in timer')
    BY <1>i, <1>11 DEF Refresh, Send, TypeOK
  <2> QED
    BY <1>i, <2>2, <2>3, PollKept
<1>12. ASSUME NEW r \in Reqs, GotList(r) PROVE OnePollOf(u)'
  <2>0. \A q \in Reqs \ {r} : reqs'[q] = reqs[q]
    BY <1>12 DEF GotList, TypeOK
  <2>1. reqs'[r] = Free /\ reqs[r] # Free /\ reqs[r].op = "list"
    BY <1>12, Fields DEF GotList
  <2>2. Of(u, "get")' = Of(u, "get")
    BY <2>0, <2>1, LoadsKept DEF Loads
  <2>3. /\ kind[u] = "detail" /\ shown'[u] = shown[u] /\ (u \in timer' => u \in timer)
        /\ page' = u => page = u /\ (u \in timer => u \in timer')
    BY <1>q, <2>1, <1>12 DEF GotList, TypeOK, Owner
  <2> QED
    BY <1>i, <2>2, <2>3, PollKept
<1>13. ASSUME NEW v \in Views, NEW t \in Tasks, AskRemove(v, t) PROVE OnePollOf(u)'
  <2>2. Of(u, "get")' = Of(u, "get")
    BY <1>13, LoadsKept DEF AskRemove, Loads
  <2>3. /\ kind[u] = "detail" /\ shown'[u] = shown[u] /\ (u \in timer' => u \in timer)
        /\ page' = u => page = u /\ (u \in timer => u \in timer')
    BY <1>i, <1>13 DEF AskRemove, TypeOK
  <2> QED
    BY <1>i, <2>2, <2>3, PollKept
<1>14. ASSUME NEW v \in Views, NEW t \in Tasks, NEW r \in Reqs, Remove(v, t, r) PROVE OnePollOf(u)'
  <2>0. \A q \in Reqs \ {r} : reqs'[q] = reqs[q]
    BY <1>14 DEF Remove, Send, TypeOK
  <2>1. /\ reqs[r] = Free /\ reqs'[r] # Free
        /\ reqs'[r].op = "delete" /\ reqs'[r].view = v /\ reqs'[r].state = "sent"
    BY <1>14, Fields DEF Remove, Send
  <2>2. Of(u, "get")' = Of(u, "get")
    BY <2>0, <2>1, LoadsKept DEF Loads
  <2>3. /\ kind[u] = "detail" /\ shown'[u] = shown[u] /\ (u \in timer' => u \in timer)
        /\ page' = u => page = u /\ (u \in timer => u \in timer')
    BY <1>i, <1>14 DEF Remove, Send, TypeOK
  <2> QED
    BY <1>i, <2>2, <2>3, PollKept
<1>15. ASSUME NEW v \in Views, CancelRemove(v) PROVE OnePollOf(u)'
  <2>2. Of(u, "get")' = Of(u, "get")
    BY <1>15, LoadsKept DEF CancelRemove, Loads
  <2>3. /\ kind[u] = "detail" /\ shown'[u] = shown[u] /\ (u \in timer' => u \in timer)
        /\ page' = u => page = u /\ (u \in timer => u \in timer')
    BY <1>i, <1>15 DEF CancelRemove, TypeOK
  <2> QED
    BY <1>i, <2>2, <2>3, PollKept
<1>16. ASSUME NEW r \in Reqs, Removed(r) PROVE OnePollOf(u)'
  <2>0. \A q \in Reqs \ {r} : reqs'[q] = reqs[q]
    BY <1>16 DEF Removed, TypeOK
  <2>1. reqs'[r] = Free /\ reqs[r] # Free /\ reqs[r].op = "delete"
    BY <1>16, Fields DEF Removed
  <2>2. Of(u, "get")' = Of(u, "get")
    BY <2>0, <2>1, LoadsKept DEF Loads
  <2>3. /\ kind[u] = "detail" /\ shown'[u] = shown[u] /\ (u \in timer' => u \in timer)
        /\ page' = u => page = u /\ (u \in timer => u \in timer')
    BY <1>q, <2>1, <1>16 DEF Removed, TypeOK, Owner
  <2> QED
    BY <1>i, <2>2, <2>3, PollKept
<1>17. ASSUME NEW r \in Reqs, ServeGet(r) PROVE OnePollOf(u)'
  <2>0. \A q \in Reqs \ {r} : reqs'[q] = reqs[q]
    BY <1>17 DEF ServeGet, Answered, TypeOK
  <2>1. /\ reqs[r] # Free /\ reqs'[r] # Free
        /\ reqs'[r].op = reqs[r].op /\ reqs'[r].view = reqs[r].view
    <3>1. [Nothing EXCEPT ![reqs[r].task] = OwnTasks[reqs[r].task]] \in [Tasks -> Shown]
      BY <1>n, <1>q, <1>17 DEF ServeGet, Owner
    <3> QED
      BY <1>17, <3>1, Fields DEF ServeGet
  <2>2. Of(u, "get")' = Of(u, "get")
    BY <2>0, <2>1, LoadsKept DEF Loads
  <2>3. /\ kind[u] = "detail" /\ shown'[u] = shown[u] /\ (u \in timer' => u \in timer)
        /\ page' = u => page = u /\ (u \in timer => u \in timer')
    BY <1>i, <1>17 DEF ServeGet, Answered, TypeOK
  <2> QED
    BY <1>i, <2>2, <2>3, PollKept
<1>18. ASSUME NEW r \in Reqs, ServeList(r) PROVE OnePollOf(u)'
  <2>0. \A q \in Reqs \ {r} : reqs'[q] = reqs[q]
    BY <1>18 DEF ServeList, Answered, TypeOK
  <2>1. /\ reqs[r] # Free /\ reqs'[r] # Free
        /\ reqs'[r].op = reqs[r].op /\ reqs'[r].view = reqs[r].view
    BY <1>n, <1>18, Fields DEF ServeList
  <2>2. Of(u, "get")' = Of(u, "get")
    BY <2>0, <2>1, LoadsKept DEF Loads
  <2>3. /\ kind[u] = "detail" /\ shown'[u] = shown[u] /\ (u \in timer' => u \in timer)
        /\ page' = u => page = u /\ (u \in timer => u \in timer')
    BY <1>i, <1>18 DEF ServeList, Answered, TypeOK
  <2> QED
    BY <1>i, <2>2, <2>3, PollKept
<1>19. ASSUME NEW r \in Reqs, ServeCreate(r) PROVE OnePollOf(u)'
  <2>0. \A q \in Reqs \ {r} : reqs'[q] = reqs[q]
    BY <1>19 DEF ServeCreate, Answered, TypeOK
  <2>1. /\ reqs[r] # Free /\ reqs'[r] # Free
        /\ reqs'[r].op = reqs[r].op /\ reqs'[r].view = reqs[r].view
    <3>1. CASE Answered(r, "error", Nothing)
      BY <1>n, <1>19, <3>1, Fields DEF ServeCreate
    <3>2. ASSUME NEW t \in Tasks, reqs' = [reqs EXCEPT ![r].state = "ok", ![r].task = t]
          PROVE  /\ reqs[r] # Free /\ reqs'[r] # Free
                 /\ reqs'[r].op = reqs[r].op /\ reqs'[r].view = reqs[r].view
      <4>1. reqs[r] \in Request_ /\ reqs[r] # Free
        BY <1>q, <1>19 DEF ServeCreate
      <4>2. reqs'[r] = [reqs[r] EXCEPT !.state = "ok", !.task = t]
        BY <3>2 DEF TypeOK
      <4>3. reqs'[r] \in Request_
        BY <4>1, <4>2, RequestTypes
      <4> QED
        BY <4>1, <4>2, <4>3, FreeIsNone DEF Request_
    <3> QED
      BY <3>1, <3>2, <1>19 DEF ServeCreate
  <2>2. Of(u, "get")' = Of(u, "get")
    BY <2>0, <2>1, LoadsKept DEF Loads
  <2>3. /\ kind[u] = "detail" /\ shown'[u] = shown[u] /\ (u \in timer' => u \in timer)
        /\ page' = u => page = u /\ (u \in timer => u \in timer')
    BY <1>i, <1>19 DEF ServeCreate, Answered, TypeOK
  <2> QED
    BY <1>i, <2>2, <2>3, PollKept
<1>20. ASSUME NEW r \in Reqs, ServeDelete(r) PROVE OnePollOf(u)'
  <2>0. \A q \in Reqs \ {r} : reqs'[q] = reqs[q]
    BY <1>20 DEF ServeDelete, Answered, TypeOK
  <2>1. /\ reqs[r] # Free /\ reqs'[r] # Free
        /\ reqs'[r].op = reqs[r].op /\ reqs'[r].view = reqs[r].view
    BY <1>n, <1>20, Fields DEF ServeDelete
  <2>2. Of(u, "get")' = Of(u, "get")
    BY <2>0, <2>1, LoadsKept DEF Loads
  <2>3. /\ kind[u] = "detail" /\ shown'[u] = shown[u] /\ (u \in timer' => u \in timer)
        /\ page' = u => page = u /\ (u \in timer => u \in timer')
    BY <1>i, <1>20 DEF ServeDelete, Answered, TypeOK
  <2> QED
    BY <1>i, <2>2, <2>3, PollKept
<1>21. ASSUME NEW r \in Reqs, Lose(r) PROVE OnePollOf(u)'
  <2>0. \A q \in Reqs \ {r} : reqs'[q] = reqs[q]
    BY <1>21 DEF Lose, Answered, TypeOK
  <2>1. /\ reqs[r] # Free /\ reqs'[r] # Free
        /\ reqs'[r].op = reqs[r].op /\ reqs'[r].view = reqs[r].view
    BY <1>n, <1>21, Fields DEF Lose
  <2>2. Of(u, "get")' = Of(u, "get")
    BY <2>0, <2>1, LoadsKept DEF Loads
  <2>3. /\ kind[u] = "detail" /\ shown'[u] = shown[u] /\ (u \in timer' => u \in timer)
        /\ page' = u => page = u /\ (u \in timer => u \in timer')
    BY <1>i, <1>21 DEF Lose, Answered, TypeOK
  <2> QED
    BY <1>i, <2>2, <2>3, PollKept
<1>22. ASSUME NEW t \in Tasks, Advance(t) PROVE OnePollOf(u)'
  <2>2. Of(u, "get")' = Of(u, "get")
    BY <1>22, LoadsKept DEF Advance, Loads
  <2>3. /\ kind[u] = "detail" /\ shown'[u] = shown[u] /\ (u \in timer' => u \in timer)
        /\ page' = u => page = u /\ (u \in timer => u \in timer')
    BY <1>i, <1>22 DEF Advance, TypeOK
  <2> QED
    BY <1>i, <2>2, <2>3, PollKept
<1>23. CASE UNCHANGED vars
  <2>1. Of(u, "get")' = Of(u, "get")
    BY <1>23 DEF vars, Of
  <2> QED
    BY <1>i, <1>23, <2>1, PollKept DEF vars
<1> QED
  BY <1>1, <1>2, <1>3, <1>4, <1>5, <1>6, <1>7, <1>8, <1>9, <1>10, <1>11, <1>12, <1>13, <1>14, <1>15, <1>16, <1>17, <1>18, <1>19, <1>20, <1>21, <1>22, <1>23 DEF Next, Serve, Receive, User

-----------------------------------------------------------------------------
(* The order of the statuses shown.                                        *)

\* Nothing has been shown, or is to be: that is always in order.
LEMMA NothingHad == \A a : Had("none", a)
BY DEF Had, Until, Ended

\* A step that shows a view nothing new and brings it no answer.
LEMMA OrderKept ==
    ASSUME TypeOK, NEW v \in Views, NEW t \in Tasks, InOrderOf(v, t), Moves(db[t], db'[t]),
           shown'[v][t] = shown[v][t],
           \A q \in Reqs : Loads(q, v)' =>
               reqs'[q].state # "ok" \/ (Loads(q, v) /\ reqs'[q] = reqs[q])
    PROVE  InOrderOf(v, t)'
<1>1. shown[v][t] \in Shown
  BY DEF TypeOK
<1>2. Had(shown'[v][t], db'[t])
  BY <1>1, HadStep DEF InOrderOf
<1>3. ASSUME NEW q \in Reqs, Loads(q, v)', reqs'[q].state = "ok", reqs'[q].task = t
      PROVE  Had(reqs'[q].answer[t], db'[t]) /\ shown'[v][t] \in Until(reqs'[q].answer[t])
  <2>1. Loads(q, v) /\ reqs'[q] = reqs[q] /\ reqs[q] \in Request_
    BY <1>3 DEF TypeOK, Loads
  <2>2. Had(reqs[q].answer[t], db[t]) /\ shown[v][t] \in Until(reqs[q].answer[t])
    BY <1>3, <2>1 DEF InOrderOf, Of, Loads
  <2>3. reqs[q].answer[t] \in Shown
    BY <2>1 DEF Request_
  <2> QED
    BY <2>1, <2>2, <2>3, HadStep
<1> QED
  BY <1>2, <1>3 DEF InOrderOf, Of, Loads

\* A page that has just been opened, or awaits no answer.
LEMMA OrderBegins ==
    ASSUME NEW v \in Views, NEW t \in Tasks, Had(shown'[v][t], db'[t]),
           \A q \in Reqs : Loads(q, v)' => reqs'[q].state # "ok"
    PROVE  InOrderOf(v, t)'
BY DEF InOrderOf, Of, Loads

\* Every step keeps InOrder: one case per action.
LEMMA OrderStep == TypeOK /\ Owners /\ OnePoll /\ InOrder /\ [Next]_vars => InOrder'
<1> SUFFICES ASSUME TypeOK, Owners, OnePoll, InOrder, [Next]_vars,
                    NEW u \in Views, NEW w \in Tasks, kind'[u] = "detail"
             PROVE  InOrderOf(u, w)'
  BY DEF InOrder
<1>i. /\ kind[u] = "detail" => OnePollOf(u) /\ InOrderOf(u, w)
      /\ kind[u] # "unused" => kind[u] = "detail"
      /\ kind[u] = "unused" => shown[u] = Nothing
      /\ kind[u] = "unused" => \A q \in Reqs : ~Loads(q, u)
  BY KindStep DEF OnePoll, InOrder, Owners, Owner, Loads, TypeOK
<1>m. Moves(db[w], db'[w])
  BY TaskStep
<1>h. shown'[u] = Nothing => Had(shown'[u][w], db'[w])
  BY NothingHad DEF Nothing
<1>q. \A q \in Reqs : reqs[q] # Free =>
        /\ reqs[q] \in Request_ /\ Owner(q)
        /\ reqs[q].view \in Views /\ reqs[q].task \in Tasks \cup {NoTask}
        /\ reqs[q].answer \in [Tasks -> Shown]
  BY DEF TypeOK, Owners, Request_
<1>n. Nothing \in [Tasks -> Shown] /\ OwnTasks \in [Tasks -> Shown]
  BY DEF TypeOK, Nothing, OwnTasks, Shown, Exists, Status
<1> USE DEF viewVars
<1>1. ASSUME NEW v \in Views, OpenForm(v) PROVE InOrderOf(u, w)'
  <2>2. kind[u] = "detail" /\ shown'[u] = shown[u] /\ reqs' = reqs
    BY <1>i, <1>1 DEF OpenForm, Mount, Unused, TypeOK
  <2> QED
    BY <1>i, <1>m, <2>2, OrderKept DEF Loads
<1>2. ASSUME NEW v \in Views, NEW r \in Reqs, OpenList(v, r) PROVE InOrderOf(u, w)'
  <2>0. \A q \in Reqs \ {r} : reqs'[q] = reqs[q]
    BY <1>2 DEF OpenList, Mount, Unused, Send, TypeOK
  <2>1. /\ reqs[r] = Free /\ reqs'[r] # Free
        /\ reqs'[r].op = "list" /\ reqs'[r].view = v /\ reqs'[r].state = "sent"
    BY <1>2, Fields DEF OpenList, Mount, Unused, Send
  <2>2. kind[u] = "detail" /\ shown'[u] = shown[u]
    BY <1>i, <1>2 DEF OpenList, Mount, Unused, Send, TypeOK
  <2> QED
    BY <1>i, <1>m, <2>0, <2>1, <2>2, OrderKept DEF Loads
<1>3. ASSUME NEW v \in Views, NEW t \in Tasks, NEW r \in Reqs, OpenDetail(v, t, r) PROVE InOrderOf(u, w)'
  <2>0. \A q \in Reqs \ {r} : reqs'[q] = reqs[q]
    BY <1>3 DEF OpenDetail, Mount, Unused, Send, TypeOK
  <2>1. /\ reqs[r] = Free /\ reqs'[r] # Free
        /\ reqs'[r].op = "get" /\ reqs'[r].view = v /\ reqs'[r].state = "sent"
    BY <1>3, Fields DEF OpenDetail, Mount, Unused, Send
  <2>2. shown' = shown
    BY <1>3 DEF OpenDetail, Mount, Unused, Send
  <2>3. CASE kind[u] = "detail"
    BY <1>i, <1>m, <2>0, <2>1, <2>2, <2>3, OrderKept DEF Loads
  <2>4. CASE kind[u] = "unused"
    BY <1>i, <1>h, <2>0, <2>1, <2>2, <2>4, OrderBegins DEF Loads
  <2> QED
    BY <1>i, <2>3, <2>4
<1>4. ASSUME NEW t \in Tasks, OpenOther(t) PROVE InOrderOf(u, w)'
  <2>2. kind[u] = "detail" /\ shown'[u] = shown[u] /\ reqs' = reqs
    BY <1>i, <1>4 DEF OpenOther, Reuse, TypeOK
  <2> QED
    BY <1>i, <1>m, <2>2, OrderKept DEF Loads
<1>5. CASE Leave
  <2>2. kind[u] = "detail" /\ shown'[u] = shown[u] /\ reqs' = reqs
    BY <1>i, <1>5 DEF Leave, TypeOK
  <2> QED
    BY <1>i, <1>m, <2>2, OrderKept DEF Loads
<1>6. ASSUME NEW v \in Views, NEW r \in Reqs, Submit(v, r) PROVE InOrderOf(u, w)'
  <2>0. \A q \in Reqs \ {r} : reqs'[q] = reqs[q]
    BY <1>6 DEF Submit, Send, TypeOK
  <2>1. /\ reqs[r] = Free /\ reqs'[r] # Free
        /\ reqs'[r].op = "create" /\ reqs'[r].view = v /\ reqs'[r].state = "sent"
    BY <1>6, Fields DEF Submit, Send
  <2>2. kind[u] = "detail" /\ shown'[u] = shown[u]
    BY <1>i, <1>6 DEF Submit, Send, TypeOK
  <2> QED
    BY <1>i, <1>m, <2>0, <2>1, <2>2, OrderKept DEF Loads
<1>7. ASSUME NEW r \in Reqs, Created(r) PROVE InOrderOf(u, w)'
  <2>0. \A q \in Reqs \ {r} : reqs'[q] = reqs[q]
    BY <1>7 DEF Created, TypeOK
  <2>1. reqs[r] # Free /\ shown' = shown
    BY <1>7 DEF Created
  <2>2. reqs'[r] # Free => reqs'[r].state = "sent"
    <3>1. CASE reqs' = [reqs EXCEPT ![r] = Free]
      BY <3>1, Fields
    <3>2. ASSUME NEW v \in Views, reqs' = [reqs EXCEPT ![r] = Request(v, "get", reqs[r].task)]
          PROVE  reqs'[r].state = "sent"
      BY <1>q, <2>1, <3>2, Fields
    <3> QED
      BY <1>7, <3>1, <3>2 DEF Created
  <2>3. CASE kind[u] = "detail"
    BY <1>i, <1>m, <2>0, <2>1, <2>2, <2>3, OrderKept DEF Loads
  <2>4. CASE kind[u] = "unused"
    BY <1>i, <1>h, <2>0, <2>1, <2>2, <2>4, OrderBegins DEF Loads
  <2> QED
    BY <1>i, <2>3, <2>4
<1>8. ASSUME NEW r \in Reqs, GotTask(r) PROVE InOrderOf(u, w)'
  <2>0. \A q \in Reqs \ {r} : reqs'[q] = reqs[q]
    BY <1>8 DEF GotTask, TypeOK
  <2>1. reqs'[r] = Free /\ reqs[r] # Free /\ reqs[r].op = "get"
    BY <1>8, Fields DEF GotTask
  <2>2. kind[u] = "detail" /\ db' = db
    BY <1>8 DEF GotTask
  <2>3. CASE u = reqs[r].view
    <3>1. \A q \in Reqs : ~Loads(q, u)'
      <4>1. \A q \in Reqs : Loads(q, u) => q = r
        BY <1>i, <2>1, <2>2, <2>3 DEF OnePollOf, Of, Loads
      <4> QED
        BY <2>0, <2>1, <4>1 DEF Loads
    <3>2. Had(shown'[u][w], db[w])
      <4>1. CASE reqs[r].state # "ok"
        BY <1>i, <2>2, <2>3, <4>1, <1>8 DEF GotTask, TypeOK, InOrderOf
      <4>2. CASE reqs[r].state = "ok" /\ reqs[r].task = w
        <5>1. Had(reqs[r].answer[w], db[w])
          BY <1>i, <2>1, <2>2, <2>3, <4>2 DEF InOrderOf, Of
        <5> QED
          BY <2>3, <4>2, <5>1, <1>8 DEF GotTask, TypeOK
      <4>3. CASE reqs[r].state = "ok" /\ reqs[r].task # w
        <5>1. reqs[r].answer[w] = "none"
          BY <1>q, <2>1, <4>3 DEF Owner
        <5>2. shown'[u][w] = "none"
          BY <2>3, <4>3, <5>1, <1>8 DEF GotTask, TypeOK
        <5> QED
          BY <5>2, NothingHad
      <4> QED
        BY <4>1, <4>2, <4>3
    <3>3. Had(shown'[u][w], db'[w])
      BY <2>2, <3>2
    <3> QED
      BY <3>1, <3>3, OrderBegins
  <2>4. CASE u # reqs[r].view
    <3>1. shown'[u] = shown[u]
      BY <2>4, <1>8 DEF GotTask, TypeOK
    <3> QED
      BY <1>i, <1>m, <2>0, <2>1, <2>2, <3>1, OrderKept DEF Loads
  <2> QED
    BY <2>3, <2>4
<1>9. ASSUME NEW v \in Views, NEW r \in Reqs, TimeoutFires(v, r) PROVE InOrderOf(u, w)'
  <2>0. \A q \in Reqs \ {r} : reqs'[q] = reqs[q]
    BY <1>9 DEF TimeoutFires, Send, TypeOK
  <2>1. /\ reqs[r] = Free /\ reqs'[r] # Free
        /\ reqs'[r].op = "get" /\ reqs'[r].view = v /\ reqs'[r].state = "sent"
    <3>1. subject[v] \in Tasks \cup {NoTask}
      BY DEF TypeOK
    <3> QED
      BY <1>9, <3>1, Fields DEF TimeoutFires, Send
  <2>2. kind[u] = "detail" /\ shown'[u] = shown[u]
    BY <1>i, <1>9 DEF TimeoutFires, Send, TypeOK
  <2> QED
    BY <1>i, <1>m, <2>0, <2>1, <2>2, OrderKept DEF Loads
<1>10. ASSUME NEW v \in Views, NEW r \in Reqs, IntervalFires(v, r) PROVE InOrderOf(u, w)'
  <2>0. \A q \in Reqs \ {r} : reqs'[q] = reqs[q]
    BY <1>10 DEF IntervalFires, Send, TypeOK
  <2>1. /\ reqs[r] = Free /\ reqs'[r] # Free
        /\ reqs'[r].op = "list" /\ reqs'[r].view = v /\ reqs'[r].state = "sent"
    BY <1>10, Fields DEF IntervalFires, Send
  <2>2. kind[u] = "detail" /\ shown'[u] = shown[u]
    BY <1>i, <1>10 DEF IntervalFires, Send, TypeOK
  <2> QED
    BY <1>i, <1>m, <2>0, <2>1, <2>2, OrderKept DEF Loads
<1>11. ASSUME NEW v \in Views, NEW r \in Reqs, Refresh(v, r) PROVE InOrderOf(u, w)'
  <2>0. \A q \in Reqs \ {r} : reqs'[q] = reqs[q]
    BY <1>11 DEF Refresh, Send, TypeOK
  <2>1. /\ reqs[r] = Free /\ reqs'[r] # Free
        /\ reqs'[r].op = "list" /\ reqs'[r].view = v /\ reqs'[r].state = "sent"
    BY <1>11, Fields DEF Refresh, Send
  <2>2. kind[u] = "detail" /\ shown'[u] = shown[u]
    BY <1>i, <1>11 DEF Refresh, Send, TypeOK
  <2> QED
    BY <1>i, <1>m, <2>0, <2>1, <2>2, OrderKept DEF Loads
<1>12. ASSUME NEW r \in Reqs, GotList(r) PROVE InOrderOf(u, w)'
  <2>0. \A q \in Reqs \ {r} : reqs'[q] = reqs[q]
    BY <1>12 DEF GotList, TypeOK
  <2>1. reqs'[r] = Free /\ reqs[r] # Free /\ reqs[r].op = "list"
    BY <1>12, Fields DEF GotList
  <2>2. kind[u] = "detail" /\ shown'[u] = shown[u]
    BY <1>i, <1>q, <2>1, <1>12 DEF GotList, TypeOK, Owner
  <2> QED
    BY <1>i, <1>m, <2>0, <2>1, <2>2, OrderKept DEF Loads
<1>13. ASSUME NEW v \in Views, NEW t \in Tasks, AskRemove(v, t) PROVE InOrderOf(u, w)'
  <2>2. kind[u] = "detail" /\ shown'[u] = shown[u] /\ reqs' = reqs
    BY <1>i, <1>13 DEF AskRemove, TypeOK
  <2> QED
    BY <1>i, <1>m, <2>2, OrderKept DEF Loads
<1>14. ASSUME NEW v \in Views, NEW t \in Tasks, NEW r \in Reqs, Remove(v, t, r) PROVE InOrderOf(u, w)'
  <2>0. \A q \in Reqs \ {r} : reqs'[q] = reqs[q]
    BY <1>14 DEF Remove, Send, TypeOK
  <2>1. /\ reqs[r] = Free /\ reqs'[r] # Free
        /\ reqs'[r].op = "delete" /\ reqs'[r].view = v /\ reqs'[r].state = "sent"
    BY <1>14, Fields DEF Remove, Send
  <2>2. kind[u] = "detail" /\ shown'[u] = shown[u]
    BY <1>i, <1>14 DEF Remove, Send, TypeOK
  <2> QED
    BY <1>i, <1>m, <2>0, <2>1, <2>2, OrderKept DEF Loads
<1>15. ASSUME NEW v \in Views, CancelRemove(v) PROVE InOrderOf(u, w)'
  <2>2. kind[u] = "detail" /\ shown'[u] = shown[u] /\ reqs' = reqs
    BY <1>i, <1>15 DEF CancelRemove, TypeOK
  <2> QED
    BY <1>i, <1>m, <2>2, OrderKept DEF Loads
<1>16. ASSUME NEW r \in Reqs, Removed(r) PROVE InOrderOf(u, w)'
  <2>0. \A q \in Reqs \ {r} : reqs'[q] = reqs[q]
    BY <1>16 DEF Removed, TypeOK
  <2>1. reqs'[r] = Free /\ reqs[r] # Free /\ reqs[r].op = "delete"
    BY <1>16, Fields DEF Removed
  <2>2. kind[u] = "detail" /\ shown'[u] = shown[u]
    BY <1>i, <1>q, <2>1, <1>16 DEF Removed, TypeOK, Owner
  <2> QED
    BY <1>i, <1>m, <2>0, <2>1, <2>2, OrderKept DEF Loads
<1>17. ASSUME NEW r \in Reqs, ServeGet(r) PROVE InOrderOf(u, w)'
  <2>0. \A q \in Reqs \ {r} : reqs'[q] = reqs[q]
    BY <1>17 DEF ServeGet, Answered, TypeOK
  <2>1. /\ reqs[r] # Free /\ reqs'[r] # Free
        /\ reqs'[r].op = reqs[r].op /\ reqs'[r].view = reqs[r].view
    <3>1. [Nothing EXCEPT ![reqs[r].task] = OwnTasks[reqs[r].task]] \in [Tasks -> Shown]
      BY <1>n, <1>q, <1>17 DEF ServeGet, Owner
    <3> QED
      BY <1>17, <3>1, Fields DEF ServeGet
  <2>2. kind[u] = "detail" /\ shown' = shown /\ db' = db
    BY <1>17 DEF ServeGet
  <2>3. CASE Loads(r, u) /\ reqs[r].task = w /\ Exists(w)
    <3>1. /\ reqs'[r].answer[w] = db[w] /\ \A q \in Reqs : Loads(q, u) => q = r
      <4> DEFINE a == [Nothing EXCEPT ![w] = OwnTasks[w]]
      <4>1. a \in [Tasks -> Shown] /\ a[w] = db[w]
        BY <1>n, <2>3 DEF Nothing, OwnTasks
      <4>2. Answered(r, "ok", a)
        BY <2>3, <1>17 DEF ServeGet
      <4> HIDE DEF a
      <4>3. reqs'[r].answer = a
        BY <2>1, <4>1, <4>2, Fields
      <4>4. \A q \in Reqs : Loads(q, u) => q = r
        BY <1>i, <2>2, <2>3 DEF OnePollOf, Of, Loads
      <4> QED
        BY <4>1, <4>3, <4>4
    <3>2. Had(shown[u][w], db[w]) /\ shown[u][w] \in Until(db[w])
      BY <1>i, <2>2, <2>3 DEF InOrderOf, Had, Exists
    <3>3. Had(db[w], db'[w])
      BY <2>2, <2>3 DEF Had, Exists, Until, Status, Ended
    <3>4. Had(shown'[u][w], db'[w])
      BY <2>2, <3>2
    <3>5. \A q \in Reqs : Loads(q, u)' => q = r
      BY <2>0, <2>1, <3>1 DEF Loads
    <3> QED
      BY <2>2, <3>1, <3>2, <3>3, <3>4, <3>5 DEF InOrderOf, Of, Loads
  <2>4. CASE Loads(r, u) /\ reqs[r].task = w /\ ~Exists(w)
    <3>1. reqs'[r].state = "error"
      <4> DEFINE a == [Nothing EXCEPT ![w] = OwnTasks[w]]
      <4>1. a \in [Tasks -> Shown]
        BY <1>n
      <4>2. Answered(r, "error", a)
        BY <2>4, <1>17 DEF ServeGet
      <4> HIDE DEF a
      <4> QED
        BY <2>1, <4>1, <4>2, Fields
    <3> QED
      BY <1>i, <1>m, <2>0, <2>1, <2>2, <3>1, OrderKept DEF Loads
  <2>5. CASE Loads(r, u) /\ reqs[r].task # w
    <3>1. \A q \in Reqs : Loads(q, u)' => q = r
      <4>1. \A q \in Reqs : Loads(q, u) => q = r
        BY <1>i, <2>2, <2>5 DEF OnePollOf, Of, Loads
      <4> QED
        BY <2>0, <2>1, <4>1 DEF Loads
    <3>2. reqs'[r].task = reqs[r].task
      <4>1. reqs[r] \in Request_
        BY <1>q, <2>1
      <4>2. reqs'[r] = [reqs[r] EXCEPT !.state = IF Exists(reqs[r].task) THEN "ok" ELSE "error",
                    !.answer = [Nothing EXCEPT ![reqs[r].task] = OwnTasks[reqs[r].task]]]
        BY <1>17 DEF ServeGet, Answered, TypeOK
      <4> QED
        BY <4>1, <4>2 DEF Request_
    <3>3. Had(shown'[u][w], db'[w])
      BY <1>i, <2>2 DEF InOrderOf
    <3> QED
      BY <2>5, <3>1, <3>2, <3>3 DEF InOrderOf, Of, Loads
  <2>6. CASE ~Loads(r, u)
    BY <1>i, <1>m, <2>0, <2>1, <2>2, <2>6, OrderKept DEF Loads
  <2> QED
    BY <2>3, <2>4, <2>5, <2>6
<1>18. ASSUME NEW r \in Reqs, ServeList(r) PROVE InOrderOf(u, w)'
  <2>0. \A q \in Reqs \ {r} : reqs'[q] = reqs[q]
    BY <1>18 DEF ServeList, Answered, TypeOK
  <2>1. /\ reqs[r] # Free /\ reqs'[r] # Free
        /\ reqs'[r].op = reqs[r].op /\ reqs'[r].view = reqs[r].view
    BY <1>n, <1>18, Fields DEF ServeList
  <2>2. kind[u] = "detail" /\ shown'[u] = shown[u]
    BY <1>i, <1>18 DEF ServeList, Answered, TypeOK
  <2>3. reqs[r].op = "list"
    BY <1>18 DEF ServeList
  <2> QED
    BY <1>i, <1>m, <2>0, <2>1, <2>2, <2>3, OrderKept DEF Loads
<1>19. ASSUME NEW r \in Reqs, ServeCreate(r) PROVE InOrderOf(u, w)'
  <2>0. \A q \in Reqs \ {r} : reqs'[q] = reqs[q]
    BY <1>19 DEF ServeCreate, Answered, TypeOK
  <2>1. /\ reqs[r] # Free /\ reqs'[r] # Free
        /\ reqs'[r].op = reqs[r].op /\ reqs'[r].view = reqs[r].view
    <3>1. CASE Answered(r, "error", Nothing)
      BY <1>n, <1>19, <3>1, Fields DEF ServeCreate
    <3>2. ASSUME NEW t \in Tasks, reqs' = [reqs EXCEPT ![r].state = "ok", ![r].task = t]
          PROVE  /\ reqs[r] # Free /\ reqs'[r] # Free
                 /\ reqs'[r].op = reqs[r].op /\ reqs'[r].view = reqs[r].view
      <4>1. reqs[r] \in Request_ /\ reqs[r] # Free
        BY <1>q, <1>19 DEF ServeCreate
      <4>2. reqs'[r] = [reqs[r] EXCEPT !.state = "ok", !.task = t]
        BY <3>2 DEF TypeOK
      <4>3. reqs'[r] \in Request_
        BY <4>1, <4>2, RequestTypes
      <4> QED
        BY <4>1, <4>2, <4>3, FreeIsNone DEF Request_
    <3> QED
      BY <3>1, <3>2, <1>19 DEF ServeCreate
  <2>2. kind[u] = "detail" /\ shown'[u] = shown[u]
    BY <1>i, <1>19 DEF ServeCreate, Answered, TypeOK
  <2>3. reqs[r].op = "create"
    BY <1>19 DEF ServeCreate
  <2> QED
    BY <1>i, <1>m, <2>0, <2>1, <2>2, <2>3, OrderKept DEF Loads
<1>20. ASSUME NEW r \in Reqs, ServeDelete(r) PROVE InOrderOf(u, w)'
  <2>0. \A q \in Reqs \ {r} : reqs'[q] = reqs[q]
    BY <1>20 DEF ServeDelete, Answered, TypeOK
  <2>1. /\ reqs[r] # Free /\ reqs'[r] # Free
        /\ reqs'[r].op = reqs[r].op /\ reqs'[r].view = reqs[r].view
    BY <1>n, <1>20, Fields DEF ServeDelete
  <2>2. kind[u] = "detail" /\ shown'[u] = shown[u]
    BY <1>i, <1>20 DEF ServeDelete, Answered, TypeOK
  <2>3. reqs[r].op = "delete"
    BY <1>20 DEF ServeDelete
  <2> QED
    BY <1>i, <1>m, <2>0, <2>1, <2>2, <2>3, OrderKept DEF Loads
<1>21. ASSUME NEW r \in Reqs, Lose(r) PROVE InOrderOf(u, w)'
  <2>0. \A q \in Reqs \ {r} : reqs'[q] = reqs[q]
    BY <1>21 DEF Lose, Answered, TypeOK
  <2>1. /\ reqs[r] # Free /\ reqs'[r] # Free
        /\ reqs'[r].op = reqs[r].op /\ reqs'[r].view = reqs[r].view
    BY <1>n, <1>21, Fields DEF Lose
  <2>2. reqs'[r].state = "error"
    BY <1>n, <1>21, Fields DEF Lose
  <2>3. kind[u] = "detail" /\ shown' = shown
    BY <1>21 DEF Lose
  <2> QED
    BY <1>i, <1>m, <2>0, <2>2, <2>3, OrderKept DEF Loads
<1>22. ASSUME NEW t \in Tasks, Advance(t) PROVE InOrderOf(u, w)'
  <2>2. kind[u] = "detail" /\ shown'[u] = shown[u] /\ reqs' = reqs
    BY <1>i, <1>22 DEF Advance, TypeOK
  <2> QED
    BY <1>i, <1>m, <2>2, OrderKept DEF Loads
<1>23. CASE UNCHANGED vars
  BY <1>i, <1>m, <1>23, OrderKept DEF vars, Loads
<1> QED
  BY <1>1, <1>2, <1>3, <1>4, <1>5, <1>6, <1>7, <1>8, <1>9, <1>10, <1>11, <1>12, <1>13, <1>14, <1>15, <1>16, <1>17, <1>18, <1>19, <1>20, <1>21, <1>22, <1>23 DEF Next, Serve, Receive, User

-----------------------------------------------------------------------------
(* Deleting.                                                               *)

Deletes(q, v) ==
    reqs[q] # Free /\ reqs[q].op = "delete" /\ reqs[q].view = v /\ reqs[q].task = deleting[v]

\* Every step keeps DeletingUnderWay: one case per action.
LEMMA DeletingStep == TypeOK /\ Owners /\ DeletingUnderWay /\ [Next]_vars => DeletingUnderWay'
<1> SUFFICES ASSUME TypeOK, Owners, DeletingUnderWay, [Next]_vars,
                    NEW u \in Views, deleting'[u] # NoTask
             PROVE  \E q \in Reqs : Deletes(q, u)'
  BY DEF DeletingUnderWay, Deletes, Of
<1>i. deleting[u] # NoTask => \E q \in Reqs : Deletes(q, u)
  BY DEF DeletingUnderWay, Deletes, Of
<1>q. \A q \in Reqs : reqs[q] # Free =>
        /\ reqs[q] \in Request_ /\ Owner(q)
        /\ reqs[q].view \in Views /\ reqs[q].task \in Tasks \cup {NoTask}
        /\ reqs[q].answer \in [Tasks -> Shown]
  BY DEF TypeOK, Owners, Request_
<1>n. Nothing \in [Tasks -> Shown] /\ OwnTasks \in [Tasks -> Shown]
  BY DEF TypeOK, Nothing, OwnTasks, Shown, Exists, Status
<1> USE DEF viewVars
<1>1. ASSUME NEW v \in Views, OpenForm(v) PROVE \E q \in Reqs : Deletes(q, u)'
  <2>2. deleting' = deleting /\ reqs' = reqs
    BY <1>1 DEF OpenForm, Mount, Unused
  <2> QED
    BY <1>i, <2>2 DEF Deletes
<1>2. ASSUME NEW v \in Views, NEW r \in Reqs, OpenList(v, r) PROVE \E q \in Reqs : Deletes(q, u)'
  <2>0. \A q \in Reqs \ {r} : reqs'[q] = reqs[q]
    BY <1>2 DEF OpenList, Mount, Unused, Send, TypeOK
  <2>1. /\ reqs[r] = Free /\ reqs'[r] # Free
        /\ reqs'[r].op = "list" /\ reqs'[r].view = v /\ reqs'[r].state = "sent"
    BY <1>2, Fields DEF OpenList, Mount, Unused, Send
  <2>2. deleting' = deleting
    BY <1>2 DEF OpenList, Mount, Unused, Send
  <2> QED
    BY <1>i, <2>0, <2>1, <2>2 DEF Deletes
<1>3. ASSUME NEW v \in Views, NEW t \in Tasks, NEW r \in Reqs, OpenDetail(v, t, r) PROVE \E q \in Reqs : Deletes(q, u)'
  <2>0. \A q \in Reqs \ {r} : reqs'[q] = reqs[q]
    BY <1>3 DEF OpenDetail, Mount, Unused, Send, TypeOK
  <2>1. /\ reqs[r] = Free /\ reqs'[r] # Free
        /\ reqs'[r].op = "get" /\ reqs'[r].view = v /\ reqs'[r].state = "sent"
    BY <1>3, Fields DEF OpenDetail, Mount, Unused, Send
  <2>2. deleting' = deleting
    BY <1>3 DEF OpenDetail, Mount, Unused, Send
  <2> QED
    BY <1>i, <2>0, <2>1, <2>2 DEF Deletes
<1>4. ASSUME NEW t \in Tasks, OpenOther(t) PROVE \E q \in Reqs : Deletes(q, u)'
  <2>2. deleting' = deleting /\ reqs' = reqs
    BY <1>4 DEF OpenOther, Reuse
  <2> QED
    BY <1>i, <2>2 DEF Deletes
<1>5. CASE Leave
  <2>2. deleting' = deleting /\ reqs' = reqs
    BY <1>5 DEF Leave
  <2> QED
    BY <1>i, <2>2 DEF Deletes
<1>6. ASSUME NEW v \in Views, NEW r \in Reqs, Submit(v, r) PROVE \E q \in Reqs : Deletes(q, u)'
  <2>0. \A q \in Reqs \ {r} : reqs'[q] = reqs[q]
    BY <1>6 DEF Submit, Send, TypeOK
  <2>1. /\ reqs[r] = Free /\ reqs'[r] # Free
        /\ reqs'[r].op = "create" /\ reqs'[r].view = v /\ reqs'[r].state = "sent"
    BY <1>6, Fields DEF Submit, Send
  <2>2. deleting' = deleting
    BY <1>6 DEF Submit, Send
  <2> QED
    BY <1>i, <2>0, <2>1, <2>2 DEF Deletes
<1>7. ASSUME NEW r \in Reqs, Created(r) PROVE \E q \in Reqs : Deletes(q, u)'
  <2>0. \A q \in Reqs \ {r} : reqs'[q] = reqs[q]
    BY <1>7 DEF Created, TypeOK
  <2>1. reqs[r].op = "create" /\ deleting' = deleting
    BY <1>7 DEF Created
  <2> QED
    BY <1>i, <2>0, <2>1 DEF Deletes
<1>8. ASSUME NEW r \in Reqs, GotTask(r) PROVE \E q \in Reqs : Deletes(q, u)'
  <2>0. \A q \in Reqs \ {r} : reqs'[q] = reqs[q]
    BY <1>8 DEF GotTask, TypeOK
  <2>1. reqs'[r] = Free /\ reqs[r] # Free /\ reqs[r].op = "get"
    BY <1>8, Fields DEF GotTask
  <2>2. deleting' = deleting
    BY <1>8 DEF GotTask
  <2> QED
    BY <1>i, <2>0, <2>1, <2>2 DEF Deletes
<1>9. ASSUME NEW v \in Views, NEW r \in Reqs, TimeoutFires(v, r) PROVE \E q \in Reqs : Deletes(q, u)'
  <2>0. \A q \in Reqs \ {r} : reqs'[q] = reqs[q]
    BY <1>9 DEF TimeoutFires, Send, TypeOK
  <2>1. /\ reqs[r] = Free /\ reqs'[r] # Free
        /\ reqs'[r].op = "get" /\ reqs'[r].view = v /\ reqs'[r].state = "sent"
    <3>1. subject[v] \in Tasks \cup {NoTask}
      BY DEF TypeOK
    <3> QED
      BY <1>9, <3>1, Fields DEF TimeoutFires, Send
  <2>2. deleting' = deleting
    BY <1>9 DEF TimeoutFires, Send
  <2> QED
    BY <1>i, <2>0, <2>1, <2>2 DEF Deletes
<1>10. ASSUME NEW v \in Views, NEW r \in Reqs, IntervalFires(v, r) PROVE \E q \in Reqs : Deletes(q, u)'
  <2>0. \A q \in Reqs \ {r} : reqs'[q] = reqs[q]
    BY <1>10 DEF IntervalFires, Send, TypeOK
  <2>1. /\ reqs[r] = Free /\ reqs'[r] # Free
        /\ reqs'[r].op = "list" /\ reqs'[r].view = v /\ reqs'[r].state = "sent"
    BY <1>10, Fields DEF IntervalFires, Send
  <2>2. deleting' = deleting
    BY <1>10 DEF IntervalFires, Send
  <2> QED
    BY <1>i, <2>0, <2>1, <2>2 DEF Deletes
<1>11. ASSUME NEW v \in Views, NEW r \in Reqs, Refresh(v, r) PROVE \E q \in Reqs : Deletes(q, u)'
  <2>0. \A q \in Reqs \ {r} : reqs'[q] = reqs[q]
    BY <1>11 DEF Refresh, Send, TypeOK
  <2>1. /\ reqs[r] = Free /\ reqs'[r] # Free
        /\ reqs'[r].op = "list" /\ reqs'[r].view = v /\ reqs'[r].state = "sent"
    BY <1>11, Fields DEF Refresh, Send
  <2>2. deleting' = deleting
    BY <1>11 DEF Refresh, Send
  <2> QED
    BY <1>i, <2>0, <2>1, <2>2 DEF Deletes
<1>12. ASSUME NEW r \in Reqs, GotList(r) PROVE \E q \in Reqs : Deletes(q, u)'
  <2>0. \A q \in Reqs \ {r} : reqs'[q] = reqs[q]
    BY <1>12 DEF GotList, TypeOK
  <2>1. reqs'[r] = Free /\ reqs[r] # Free /\ reqs[r].op = "list"
    BY <1>12, Fields DEF GotList
  <2>2. deleting' = deleting
    BY <1>12 DEF GotList
  <2> QED
    BY <1>i, <2>0, <2>1, <2>2 DEF Deletes
<1>13. ASSUME NEW v \in Views, NEW t \in Tasks, AskRemove(v, t) PROVE \E q \in Reqs : Deletes(q, u)'
  <2>2. deleting' = deleting /\ reqs' = reqs
    BY <1>13 DEF AskRemove
  <2> QED
    BY <1>i, <2>2 DEF Deletes
<1>14. ASSUME NEW v \in Views, NEW t \in Tasks, NEW r \in Reqs, Remove(v, t, r) PROVE \E q \in Reqs : Deletes(q, u)'
  <2>0. \A q \in Reqs \ {r} : reqs'[q] = reqs[q]
    BY <1>14 DEF Remove, Send, TypeOK
  <2>1. /\ reqs[r] = Free /\ reqs'[r] # Free
        /\ reqs'[r].op = "delete" /\ reqs'[r].view = v /\ reqs'[r].state = "sent"
    BY <1>14, Fields DEF Remove, Send
  <2>2. CASE u = v
    <3>1. reqs' = [reqs EXCEPT ![r] = Request(v, "delete", t)]
      BY <1>14 DEF Remove, Send
    <3>2. reqs'[r].task = t
      BY <3>1, Fields
    <3>3. deleting'[u] = t
      BY <2>2, <1>14 DEF Remove, TypeOK
    <3> QED
      BY <2>1, <2>2, <3>2, <3>3 DEF Deletes
  <2>3. CASE u # v
    <3>1. deleting'[u] = deleting[u]
      BY <2>3, <1>14 DEF Remove, Send, TypeOK
    <3> QED
      BY <1>i, <2>0, <2>1, <3>1 DEF Deletes
  <2> QED
    BY <2>2, <2>3
<1>15. ASSUME NEW v \in Views, CancelRemove(v) PROVE \E q \in Reqs : Deletes(q, u)'
  <2>2. deleting' = deleting /\ reqs' = reqs
    BY <1>15 DEF CancelRemove
  <2> QED
    BY <1>i, <2>2 DEF Deletes
<1>16. ASSUME NEW r \in Reqs, Removed(r) PROVE \E q \in Reqs : Deletes(q, u)'
  <2>0. \A q \in Reqs \ {r} : reqs'[q] = reqs[q]
    BY <1>16 DEF Removed, TypeOK
  <2>1. reqs'[r] = Free /\ reqs[r] # Free /\ reqs[r].op = "delete"
    BY <1>16, Fields DEF Removed
  <2>2. u # reqs[r].view /\ deleting'[u] = deleting[u]
    BY <1>q, <2>1, <1>16 DEF Removed, TypeOK
  <2> QED
    BY <1>i, <2>0, <2>1, <2>2 DEF Deletes
<1>17. ASSUME NEW r \in Reqs, ServeGet(r) PROVE \E q \in Reqs : Deletes(q, u)'
  <2>0. \A q \in Reqs \ {r} : reqs'[q] = reqs[q]
    BY <1>17 DEF ServeGet, Answered, TypeOK
  <2>1. /\ reqs[r] # Free /\ reqs'[r] # Free
        /\ reqs'[r].op = reqs[r].op /\ reqs'[r].view = reqs[r].view
    <3>1. [Nothing EXCEPT ![reqs[r].task] = OwnTasks[reqs[r].task]] \in [Tasks -> Shown]
      BY <1>n, <1>q, <1>17 DEF ServeGet, Owner
    <3> QED
      BY <1>17, <3>1, Fields DEF ServeGet
  <2>2. reqs[r].op = "get" /\ deleting' = deleting
    BY <1>17 DEF ServeGet, Answered
  <2> QED
    BY <1>i, <2>0, <2>1, <2>2 DEF Deletes
<1>18. ASSUME NEW r \in Reqs, ServeList(r) PROVE \E q \in Reqs : Deletes(q, u)'
  <2>0. \A q \in Reqs \ {r} : reqs'[q] = reqs[q]
    BY <1>18 DEF ServeList, Answered, TypeOK
  <2>1. /\ reqs[r] # Free /\ reqs'[r] # Free
        /\ reqs'[r].op = reqs[r].op /\ reqs'[r].view = reqs[r].view
    BY <1>n, <1>18, Fields DEF ServeList
  <2>2. reqs[r].op = "list" /\ deleting' = deleting
    BY <1>18 DEF ServeList, Answered
  <2> QED
    BY <1>i, <2>0, <2>1, <2>2 DEF Deletes
<1>19. ASSUME NEW r \in Reqs, ServeCreate(r) PROVE \E q \in Reqs : Deletes(q, u)'
  <2>0. \A q \in Reqs \ {r} : reqs'[q] = reqs[q]
    BY <1>19 DEF ServeCreate, Answered, TypeOK
  <2>1. /\ reqs[r] # Free /\ reqs'[r] # Free
        /\ reqs'[r].op = reqs[r].op /\ reqs'[r].view = reqs[r].view
    <3>1. CASE Answered(r, "error", Nothing)
      BY <1>n, <1>19, <3>1, Fields DEF ServeCreate
    <3>2. ASSUME NEW t \in Tasks, reqs' = [reqs EXCEPT ![r].state = "ok", ![r].task = t]
          PROVE  /\ reqs[r] # Free /\ reqs'[r] # Free
                 /\ reqs'[r].op = reqs[r].op /\ reqs'[r].view = reqs[r].view
      <4>1. reqs[r] \in Request_ /\ reqs[r] # Free
        BY <1>q, <1>19 DEF ServeCreate
      <4>2. reqs'[r] = [reqs[r] EXCEPT !.state = "ok", !.task = t]
        BY <3>2 DEF TypeOK
      <4>3. reqs'[r] \in Request_
        BY <4>1, <4>2, RequestTypes
      <4> QED
        BY <4>1, <4>2, <4>3, FreeIsNone DEF Request_
    <3> QED
      BY <3>1, <3>2, <1>19 DEF ServeCreate
  <2>2. reqs[r].op = "create" /\ deleting' = deleting
    BY <1>19 DEF ServeCreate, Answered
  <2> QED
    BY <1>i, <2>0, <2>1, <2>2 DEF Deletes
<1>20. ASSUME NEW r \in Reqs, ServeDelete(r) PROVE \E q \in Reqs : Deletes(q, u)'
  <2>0. \A q \in Reqs \ {r} : reqs'[q] = reqs[q]
    BY <1>20 DEF ServeDelete, Answered, TypeOK
  <2>1. /\ reqs[r] # Free /\ reqs'[r] # Free
        /\ reqs'[r].op = reqs[r].op /\ reqs'[r].view = reqs[r].view
    BY <1>n, <1>20, Fields DEF ServeDelete
  <2>2. reqs'[r].task = reqs[r].task /\ deleting' = deleting
    BY <1>n, <1>20, Fields DEF ServeDelete
  <2> QED
    BY <1>i, <2>0, <2>1, <2>2 DEF Deletes
<1>21. ASSUME NEW r \in Reqs, Lose(r) PROVE \E q \in Reqs : Deletes(q, u)'
  <2>0. \A q \in Reqs \ {r} : reqs'[q] = reqs[q]
    BY <1>21 DEF Lose, Answered, TypeOK
  <2>1. /\ reqs[r] # Free /\ reqs'[r] # Free
        /\ reqs'[r].op = reqs[r].op /\ reqs'[r].view = reqs[r].view
    BY <1>n, <1>21, Fields DEF Lose
  <2>2. reqs'[r].task = reqs[r].task /\ deleting' = deleting
    BY <1>n, <1>21, Fields DEF Lose
  <2> QED
    BY <1>i, <2>0, <2>1, <2>2 DEF Deletes
<1>22. ASSUME NEW t \in Tasks, Advance(t) PROVE \E q \in Reqs : Deletes(q, u)'
  <2>2. deleting' = deleting /\ reqs' = reqs
    BY <1>22 DEF Advance
  <2> QED
    BY <1>i, <2>2 DEF Deletes
<1>23. CASE UNCHANGED vars
  BY <1>i, <1>23 DEF vars, Deletes
<1> QED
  BY <1>1, <1>2, <1>3, <1>4, <1>5, <1>6, <1>7, <1>8, <1>9, <1>10, <1>11, <1>12, <1>13, <1>14, <1>15, <1>16, <1>17, <1>18, <1>19, <1>20, <1>21, <1>22, <1>23 DEF Next, Serve, Receive, User

-----------------------------------------------------------------------------
(* The theorems.                                                           *)

\* The invariant holds in the beginning.
LEMMA InvInit == Init => ViewInv
<1> SUFFICES ASSUME Init PROVE ViewInv
  OBVIOUS
<1>1. TypeOK
  BY TypeInit
<1>2. Owners /\ OnePoll /\ InOrder /\ DeletingUnderWay
  BY DEF Init, Owners, OnePoll, InOrder, DeletingUnderWay
<1> QED
  BY <1>1, <1>2 DEF ViewInv

(* The inductive invariant holds of every behaviour: a task page polls by  *)
(* one load or one timeout, what it shows and is about to be shown are     *)
(* statuses its task has had, in their order, and a row of the history is  *)
(* disabled only while its deletion is under way.                          *)
THEOREM Invariance == Spec => []ViewInv
<1>1. ViewInv /\ [Next]_vars => ViewInv'
  BY TypeStep, OwnersStep, PollStep, OrderStep, DeletingStep DEF ViewInv
<1> QED
  BY <1>1, InvInit, PTL DEF Spec

\* One step never takes a status shown back.
LEMMA ForwardStep ==
    ViewInv /\ [Next]_vars =>
        \A v \in Views, t \in Tasks : kind[v] = "detail" =>
            shown'[v][t] = "none" \/ shown[v][t] \in Until(shown'[v][t])
<1> SUFFICES ASSUME ViewInv, [Next]_vars, NEW u \in Views, NEW w \in Tasks, kind[u] = "detail"
             PROVE  shown'[u][w] = "none" \/ shown[u][w] \in Until(shown'[u][w])
  OBVIOUS
<1>t. TypeOK /\ Owners /\ InOrderOf(u, w)
  BY DEF ViewInv, InOrder
<1>s. shown[u][w] \in Shown
  BY <1>t DEF TypeOK
<1>e. shown'[u] = shown[u] => shown[u][w] \in Until(shown'[u][w])
  BY <1>s DEF Until, Shown, Status, Ended
<1>q. \A q \in Reqs : reqs[q] # Free => reqs[q].view \in Views /\ Owner(q)
  BY <1>t DEF TypeOK, Owners, Request_
<1> USE DEF viewVars
<1>1. ASSUME NEW v \in Views, OpenForm(v) PROVE shown'[u][w] = "none" \/ shown[u][w] \in Until(shown'[u][w])
  BY <1>e, <1>1 DEF OpenForm, Mount, Unused
<1>2. ASSUME NEW v \in Views, NEW r \in Reqs, OpenList(v, r) PROVE shown'[u][w] = "none" \/ shown[u][w] \in Until(shown'[u][w])
  BY <1>e, <1>2 DEF OpenList, Mount, Unused, Send
<1>3. ASSUME NEW v \in Views, NEW t \in Tasks, NEW r \in Reqs, OpenDetail(v, t, r) PROVE shown'[u][w] = "none" \/ shown[u][w] \in Until(shown'[u][w])
  BY <1>e, <1>3 DEF OpenDetail, Mount, Unused, Send
<1>4. ASSUME NEW t \in Tasks, OpenOther(t) PROVE shown'[u][w] = "none" \/ shown[u][w] \in Until(shown'[u][w])
  BY <1>e, <1>4 DEF OpenOther, Reuse
<1>5. CASE Leave
  BY <1>e, <1>5 DEF Leave
<1>6. ASSUME NEW v \in Views, NEW r \in Reqs, Submit(v, r) PROVE shown'[u][w] = "none" \/ shown[u][w] \in Until(shown'[u][w])
  BY <1>e, <1>6 DEF Submit, Send
<1>7. ASSUME NEW r \in Reqs, Created(r) PROVE shown'[u][w] = "none" \/ shown[u][w] \in Until(shown'[u][w])
  BY <1>e, <1>7 DEF Created, Reuse, Unused
<1>8. ASSUME NEW r \in Reqs, GotTask(r) PROVE shown'[u][w] = "none" \/ shown[u][w] \in Until(shown'[u][w])
  <2>1. CASE u # reqs[r].view \/ reqs[r].state # "ok"
    <3>1. shown'[u] = shown[u]
      BY <1>t, <2>1, <1>8 DEF GotTask, TypeOK
    <3> QED
      BY <1>e, <3>1
  <2>2. CASE u = reqs[r].view /\ reqs[r].state = "ok"
    <3>1. shown'[u] = reqs[r].answer
      BY <1>t, <2>2, <1>8 DEF GotTask, TypeOK
    <3>2. reqs[r].task = w => shown[u][w] \in Until(reqs[r].answer[w])
      BY <1>t, <2>2, <1>8 DEF GotTask, InOrderOf, Of
    <3>3. reqs[r].task # w => reqs[r].answer[w] = "none"
      BY <1>q, <2>2, <1>8 DEF GotTask, Owner
    <3> QED
      BY <3>1, <3>2, <3>3
  <2> QED
    BY <2>1, <2>2
<1>9. ASSUME NEW v \in Views, NEW r \in Reqs, TimeoutFires(v, r) PROVE shown'[u][w] = "none" \/ shown[u][w] \in Until(shown'[u][w])
  BY <1>e, <1>9 DEF TimeoutFires, Send
<1>10. ASSUME NEW v \in Views, NEW r \in Reqs, IntervalFires(v, r) PROVE shown'[u][w] = "none" \/ shown[u][w] \in Until(shown'[u][w])
  BY <1>e, <1>10 DEF IntervalFires, Send
<1>11. ASSUME NEW v \in Views, NEW r \in Reqs, Refresh(v, r) PROVE shown'[u][w] = "none" \/ shown[u][w] \in Until(shown'[u][w])
  BY <1>e, <1>11 DEF Refresh, Send
<1>12. ASSUME NEW r \in Reqs, GotList(r) PROVE shown'[u][w] = "none" \/ shown[u][w] \in Until(shown'[u][w])
  <2>1. shown'[u] = shown[u]
    BY <1>q, <1>t, <1>12 DEF GotList, Owner, TypeOK
  <2> QED
    BY <1>e, <2>1
<1>13. ASSUME NEW v \in Views, NEW t \in Tasks, AskRemove(v, t) PROVE shown'[u][w] = "none" \/ shown[u][w] \in Until(shown'[u][w])
  BY <1>e, <1>13 DEF AskRemove
<1>14. ASSUME NEW v \in Views, NEW t \in Tasks, NEW r \in Reqs, Remove(v, t, r) PROVE shown'[u][w] = "none" \/ shown[u][w] \in Until(shown'[u][w])
  BY <1>e, <1>14 DEF Remove, Send
<1>15. ASSUME NEW v \in Views, CancelRemove(v) PROVE shown'[u][w] = "none" \/ shown[u][w] \in Until(shown'[u][w])
  BY <1>e, <1>15 DEF CancelRemove
<1>16. ASSUME NEW r \in Reqs, Removed(r) PROVE shown'[u][w] = "none" \/ shown[u][w] \in Until(shown'[u][w])
  <2>1. shown'[u] = shown[u]
    BY <1>q, <1>t, <1>16 DEF Removed, Owner, TypeOK
  <2> QED
    BY <1>e, <2>1
<1>17. ASSUME NEW r \in Reqs, ServeGet(r) PROVE shown'[u][w] = "none" \/ shown[u][w] \in Until(shown'[u][w])
  BY <1>e, <1>17 DEF ServeGet, Answered
<1>18. ASSUME NEW r \in Reqs, ServeList(r) PROVE shown'[u][w] = "none" \/ shown[u][w] \in Until(shown'[u][w])
  BY <1>e, <1>18 DEF ServeList, Answered
<1>19. ASSUME NEW r \in Reqs, ServeCreate(r) PROVE shown'[u][w] = "none" \/ shown[u][w] \in Until(shown'[u][w])
  BY <1>e, <1>19 DEF ServeCreate, Answered
<1>20. ASSUME NEW r \in Reqs, ServeDelete(r) PROVE shown'[u][w] = "none" \/ shown[u][w] \in Until(shown'[u][w])
  BY <1>e, <1>20 DEF ServeDelete, Answered
<1>21. ASSUME NEW r \in Reqs, Lose(r) PROVE shown'[u][w] = "none" \/ shown[u][w] \in Until(shown'[u][w])
  BY <1>e, <1>21 DEF Lose, Answered
<1>22. ASSUME NEW t \in Tasks, Advance(t) PROVE shown'[u][w] = "none" \/ shown[u][w] \in Until(shown'[u][w])
  BY <1>e, <1>22 DEF Advance
<1>23. CASE UNCHANGED vars
  BY <1>e, <1>23 DEF vars
<1> QED
  BY <1>1, <1>2, <1>3, <1>4, <1>5, <1>6, <1>7, <1>8, <1>9, <1>10, <1>11, <1>12, <1>13, <1>14, <1>15, <1>16, <1>17, <1>18, <1>19, <1>20, <1>21, <1>22, <1>23 DEF Next, Serve, Receive, User

(* A task page never goes back, however its requests and their answers     *)
(* are lost or delayed.                                                    *)
THEOREM PagesOnlyAdvance == Spec => DetailForward
<1>1. ViewInv /\ [Next]_vars =>
        [\A v \in Views, t \in Tasks : kind[v] = "detail" =>
            shown'[v][t] = "none" \/ shown[v][t] \in Until(shown'[v][t])]_vars
  BY ForwardStep
<1> QED
  BY <1>1, Invariance, PTL DEF Spec, DetailForward
=============================================================================
