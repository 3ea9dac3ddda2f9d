------------------------------ MODULE TaskViews ------------------------------
(***************************************************************************)
(* The pages of the frontend that follow tasks: the form that creates one  *)
(* (DesignView, OptimizeView), the task page that polls it until it ends   *)
(* (TaskDetailView) and the history with its deletes (HistoryView).  A     *)
(* view is one mounted component; what it awaits goes on after it has been *)
(* unmounted.  An action is one event of the browser's loop (a click, a    *)
(* timer, an answer) or one request served by the middle layer, of which   *)
(* db shows the statuses of a user's tasks as TaskService has them.        *)
(***************************************************************************)
EXTENDS Naturals, FiniteSets

CONSTANTS
    Tasks, NoTask,  \* the ids a server may give; no task
    Views, NoView,  \* the components that may be mounted; no such page is shown
    Reqs,           \* requests that may be under way at one time
    MaxErrors       \* bound on the requests that fail on their way

ASSUME TaskViewsAssumption ==
    NoTask \notin Tasks /\ NoView \notin Views /\ MaxErrors \in Nat

VARIABLES
    db,         \* the middle layer: the status of a task, or
                \*   none: not created, absent: deleted,
                \*   revivable: deleted while its result may yet be saved
    page,       \* the view that is mounted
    kind,       \* of a view: unused, form, list or detail
    subject,    \* of a detail: props.id
    shown,      \* statuses of tasks.value, or of the one task of task.value
    timer,      \* views whose interval or timeout is set
    busy,       \* forms with submitting, lists with loading not yet over
    confirm,    \* of a list: confirmId
    deleting,   \* of a list: deletingId
    reqs,       \* the requests under way
    errors
viewVars == <<page, kind, subject, shown, timer, busy, confirm, deleting>>
vars == <<db, viewVars, reqs, errors>>

Ended == {"succeeded", "failed"}
Status == {"pending", "running"} \cup Ended
Shown == Status \cup {"none"}
Nothing == [t \in Tasks |-> "none"]

Free == [op |-> "free"]
Request(v, o, t) == [op |-> o, view |-> v, task |-> t, state |-> "sent", answer |-> Nothing]
Request_ ==
    [op : {"get", "list", "create", "delete"}, view : Views, task : Tasks \cup {NoTask},
     state : {"sent", "ok", "error"}, answer : [Tasks -> Shown]]

TypeOK ==
    /\ db \in [Tasks -> Shown \cup {"absent", "revivable"}]
    /\ page \in Views \cup {NoView}
    /\ kind \in [Views -> {"unused", "form", "list", "detail"}]
    /\ subject \in [Views -> Tasks \cup {NoTask}]
    /\ shown \in [Views -> [Tasks -> Shown]]
    /\ timer \subseteq Views /\ busy \subseteq Views
    /\ confirm \in [Views -> Tasks \cup {NoTask}]
    /\ deleting \in [Views -> Tasks \cup {NoTask}]
    /\ reqs \in [Reqs -> Request_ \cup {Free}]
    /\ errors \in 0 .. MaxErrors

Init ==
    /\ db = Nothing
    /\ page = NoView
    /\ kind = [v \in Views |-> "unused"]
    /\ subject = [v \in Views |-> NoTask]
    /\ shown = [v \in Views |-> Nothing]
    /\ timer = {} /\ busy = {}
    /\ confirm = [v \in Views |-> NoTask] /\ deleting = [v \in Views |-> NoTask]
    /\ reqs = [r \in Reqs |-> Free]
    /\ errors = 0

Of(v, o) == {r \in Reqs : reqs[r] # Free /\ reqs[r].view = v /\ reqs[r].op = o}
Send(r, v, o, t) ==
    /\ reqs[r] = Free /\ r = CHOOSE q \in Reqs : reqs[q] = Free
    /\ reqs' = [reqs EXCEPT ![r] = Request(v, o, t)]

(* isTerminal of a detail, hasActive of a list.                            *)
IsTerminal_OnlySuccess(status) == status = "succeeded"
IsTerminal(status) == status \in Ended
AnyTerminal(statuses) == \E t \in Tasks : IsTerminal(statuses[t])
HasActive_OnlyPending(v) == \E t \in Tasks : shown[v][t] = "pending"
HasActive(v) == \E t \in Tasks : shown[v][t] \in {"pending", "running"}
-----------------------------------------------------------------------------
(* Navigation: the page shown is unmounted, which clears its timer, and    *)
(* the next one is mounted, which starts its first load.  The form is two  *)
(* routes; the others are one, which leads to itself without a mount.      *)

(* Which of the unused views, free requests and new ids is taken makes no  *)
(* difference, so one is chosen.                                           *)
Unused(v) == kind[v] = "unused" /\ v = CHOOSE u \in Views : kind[u] = "unused"

Mount(v, k, t) ==
    /\ Unused(v)
    /\ page # NoView /\ kind[page] = k => k = "form"
    /\ page' = v
    /\ kind' = [kind EXCEPT ![v] = k]
    /\ subject' = [subject EXCEPT ![v] = t]
    /\ timer' = (timer \ {page}) \cup (IF k = "list" THEN {v} ELSE {})
    /\ busy' = IF k = "list" THEN busy \cup {v} ELSE busy
    /\ UNCHANGED <<shown, confirm, deleting>>

OpenForm(v) ==
    /\ Mount(v, "form", NoTask)
    /\ UNCHANGED <<db, reqs, errors>>

OpenList(v, r) ==
    /\ Mount(v, "list", NoTask)
    /\ Send(r, v, "list", NoTask)
    /\ UNCHANGED <<db, errors>>

OpenDetail(v, t, r) ==
    /\ db[t] # "none"
    /\ Mount(v, "detail", t)
    /\ Send(r, v, "get", t)
    /\ UNCHANGED <<db, errors>>

(* From one task page to another, through the browser's history: the       *)
(* router keeps the component, which gets the new id and is not mounted    *)
(* again.                                                                  *)
Reuse(t) ==
    /\ page # NoView /\ kind[page] = "detail"
    /\ subject' = [subject EXCEPT ![page] = t]
    /\ UNCHANGED <<page, kind, timer>>
OpenOther(t) ==
    /\ Reuse(t)
    /\ db[t] # "none" /\ t # subject[page]
    /\ UNCHANGED <<db, shown, busy, confirm, deleting, reqs, errors>>

(* To a page that follows no task.                                         *)
Leave ==
    /\ page # NoView
    /\ page' = NoView
    /\ timer' = timer \ {page}
    /\ UNCHANGED <<db, kind, subject, shown, busy, confirm, deleting, reqs, errors>>
-----------------------------------------------------------------------------
(* The form.                                                               *)

Submit(v, r) ==
    /\ page = v /\ kind[v] = "form" /\ v \notin busy
    /\ Send(r, v, "create", NoTask)
    /\ busy' = busy \cup {v}
    /\ UNCHANGED <<db, page, kind, subject, shown, timer, confirm, deleting, errors>>

(* The answer to a create: the router goes to the task, from whatever page *)
(* is shown by then, or the error is shown.  When no view is left the      *)
(* model leaves for a page it does not follow.                             *)
Created(r) ==
    LET t == reqs[r].task IN
    /\ reqs[r] # Free /\ reqs[r].op = "create" /\ reqs[r].state # "sent"
    /\ busy' = busy \ {reqs[r].view}
    /\ \/ /\ reqs[r].state = "error"
          /\ reqs' = [reqs EXCEPT ![r] = Free]
          /\ UNCHANGED <<page, kind, subject, timer>>
       \/ /\ reqs[r].state = "ok"
          /\ reqs' = [reqs EXCEPT ![r] = Free]
          /\ Reuse(t)
       \/ /\ reqs[r].state = "ok" /\ ~(page # NoView /\ kind[page] = "detail")
          /\ timer' = timer \ {page}
          /\ \/ \E v \in Views :
                  /\ Unused(v)
                  /\ page' = v
                  /\ kind' = [kind EXCEPT ![v] = "detail"]
                  /\ subject' = [subject EXCEPT ![v] = t]
                  /\ reqs' = [reqs EXCEPT ![r] = Request(v, "get", t)]
             \/ /\ \A v \in Views : kind[v] # "unused"
                /\ page' = NoView
                /\ reqs' = [reqs EXCEPT ![r] = Free]
                /\ UNCHANGED <<kind, subject>>
    /\ UNCHANGED <<db, shown, confirm, deleting, errors>>
-----------------------------------------------------------------------------
(* The task page.                                                          *)

(* Faulty variant: an error ends the polling.                              *)
GotTask_StopsOnError(r) ==
    LET v == reqs[r].view
        new == IF reqs[r].state = "ok" THEN reqs[r].answer ELSE shown[v]
    IN
    /\ reqs[r] # Free /\ reqs[r].op = "get" /\ reqs[r].state # "sent"
    /\ shown' = [shown EXCEPT ![v] = new]
    /\ timer' = IF AnyTerminal(new) \/ reqs[r].state = "error" THEN timer \ {v} ELSE timer \cup {v}
    /\ reqs' = [reqs EXCEPT ![r] = Free]
    /\ UNCHANGED <<db, page, kind, subject, busy, confirm, deleting, errors>>

(* load has its answer and scheduleNext follows, on a page that may have   *)
(* been left in the meantime, or been given another id: the timeout is set *)
(* again all the same, unless the task answered has ended.                 *)
GotTask(r) ==
    LET v == reqs[r].view
        new == IF reqs[r].state = "ok" THEN reqs[r].answer ELSE shown[v]
    IN
    /\ reqs[r] # Free /\ reqs[r].op = "get" /\ reqs[r].state # "sent"
    /\ shown' = [shown EXCEPT ![v] = new]
    /\ timer' = IF AnyTerminal(new) THEN timer \ {v} ELSE timer \cup {v}
    /\ reqs' = [reqs EXCEPT ![r] = Free]
    /\ UNCHANGED <<db, page, kind, subject, busy, confirm, deleting, errors>>

(* Faulty variant: the page polls at an interval.                          *)
TimeoutFires_Interval(v, r) ==
    /\ v \in timer /\ kind[v] = "detail"
    /\ Send(r, v, "get", subject[v])
    /\ UNCHANGED <<db, viewVars, errors>>

(* The timeout of 1.5 s is over: the next load.                            *)
TimeoutFires(v, r) ==
    /\ v \in timer /\ kind[v] = "detail"
    /\ Send(r, v, "get", subject[v])
    /\ timer' = timer \ {v}
    /\ UNCHANGED <<db, page, kind, subject, shown, busy, confirm, deleting, errors>>
-----------------------------------------------------------------------------
(* The history.                                                            *)

(* The interval of 3 s: it loads while a task shown is under way, without  *)
(* regard to loads that have not been answered.                            *)
IntervalFires(v, r) ==
    /\ v \in timer /\ kind[v] = "list" /\ HasActive(v)
    /\ Send(r, v, "list", NoTask)
    /\ UNCHANGED <<db, viewVars, errors>>

(* The button, disabled until the first load is over.                      *)
Refresh(v, r) ==
    /\ page = v /\ kind[v] = "list" /\ v \notin busy
    /\ Send(r, v, "list", NoTask)
    /\ UNCHANGED <<db, viewVars, errors>>

GotList(r) ==
    LET v == reqs[r].view IN
    /\ reqs[r] # Free /\ reqs[r].op = "list" /\ reqs[r].state # "sent"
    /\ shown' = IF reqs[r].state = "ok" THEN [shown EXCEPT ![v] = reqs[r].answer] ELSE shown
    /\ busy' = busy \ {v}
    /\ reqs' = [reqs EXCEPT ![r] = Free]
    /\ UNCHANGED <<db, page, kind, subject, timer, confirm, deleting, errors>>

(* remove, first click: the row asks for confirmation.                     *)
AskRemove(v, t) ==
    /\ page = v /\ kind[v] = "list" /\ shown[v][t] # "none" /\ confirm[v] # t
    /\ confirm' = [confirm EXCEPT ![v] = t]
    /\ UNCHANGED <<db, page, kind, subject, shown, timer, busy, deleting, reqs, errors>>

(* ... second click, on a button disabled while this row is being deleted. *)
Remove(v, t, r) ==
    /\ page = v /\ kind[v] = "list" /\ shown[v][t] # "none" /\ confirm[v] = t
    /\ deleting[v] # t
    /\ deleting' = [deleting EXCEPT ![v] = t]
    /\ Send(r, v, "delete", t)
    /\ UNCHANGED <<db, page, kind, subject, shown, timer, busy, confirm, errors>>

CancelRemove(v) ==
    /\ page = v /\ kind[v] = "list" /\ confirm[v] # NoTask
    /\ confirm' = [confirm EXCEPT ![v] = NoTask]
    /\ UNCHANGED <<db, page, kind, subject, shown, timer, busy, deleting, reqs, errors>>

(* Faulty variant: what finally resets is reset on success only.           *)
Removed_NoFinally(r) ==
    LET v == reqs[r].view IN
    /\ reqs[r] # Free /\ reqs[r].op = "delete" /\ reqs[r].state # "sent"
    /\ IF reqs[r].state = "ok"
       THEN /\ shown' = [shown EXCEPT ![v][reqs[r].task] = "none"]
            /\ deleting' = [deleting EXCEPT ![v] = NoTask]
            /\ confirm' = [confirm EXCEPT ![v] = NoTask]
       ELSE UNCHANGED <<shown, deleting, confirm>>
    /\ reqs' = [reqs EXCEPT ![r] = Free]
    /\ UNCHANGED <<db, page, kind, subject, timer, busy, errors>>

(* The answer to a delete: the row goes, and whatever row is being         *)
(* confirmed or deleted by then is reset.                                  *)
Removed(r) ==
    LET v == reqs[r].view IN
    /\ reqs[r] # Free /\ reqs[r].op = "delete" /\ reqs[r].state # "sent"
    /\ shown' = IF reqs[r].state = "ok"
                THEN [shown EXCEPT ![v][reqs[r].task] = "none"] ELSE shown
    /\ deleting' = [deleting EXCEPT ![v] = NoTask]
    /\ confirm' = [confirm EXCEPT ![v] = NoTask]
    /\ reqs' = [reqs EXCEPT ![r] = Free]
    /\ UNCHANGED <<db, page, kind, subject, timer, busy, errors>>
-----------------------------------------------------------------------------
(* The middle layer.  A request is served at one moment between its        *)
(* sending and its answer, in any order with the others.                   *)

Exists(t) == db[t] \in Status
Answered(r, s, a) ==
    reqs' = [reqs EXCEPT ![r].state = s, ![r].answer = a]
OwnTasks == [t \in Tasks |-> IF Exists(t) THEN db[t] ELSE "none"]

ServeGet(r) ==
    /\ reqs[r] # Free /\ reqs[r].op = "get" /\ reqs[r].state = "sent"
    /\ Answered(r, IF Exists(reqs[r].task) THEN "ok" ELSE "error",
                [Nothing EXCEPT ![reqs[r].task] = OwnTasks[reqs[r].task]])
    /\ UNCHANGED <<db, viewVars, errors>>

ServeList(r) ==
    /\ reqs[r] # Free /\ reqs[r].op = "list" /\ reqs[r].state = "sent"
    /\ Answered(r, "ok", OwnTasks)
    /\ UNCHANGED <<db, viewVars, errors>>

ServeCreate(r) ==
    /\ reqs[r] # Free /\ reqs[r].op = "create" /\ reqs[r].state = "sent"
    /\ \/ \E t \in Tasks :
            /\ db[t] = "none" /\ t = CHOOSE u \in Tasks : db[u] = "none"
            /\ db' = [db EXCEPT ![t] = "pending"]
            /\ reqs' = [reqs EXCEPT ![r].state = "ok", ![r].task = t]
       \/ /\ \A t \in Tasks : db[t] # "none"     \* the bound: no id is left
          /\ Answered(r, "error", Nothing)
          /\ UNCHANGED db
    /\ UNCHANGED <<viewVars, errors>>

ServeDelete(r) ==
    LET t == reqs[r].task IN
    /\ reqs[r] # Free /\ reqs[r].op = "delete" /\ reqs[r].state = "sent"
    /\ Answered(r, IF Exists(t) THEN "ok" ELSE "error", Nothing)
    /\ db' = IF Exists(t)
             THEN [db EXCEPT ![t] = IF @ = "running" THEN "revivable" ELSE "absent"] ELSE db
    /\ UNCHANGED <<viewVars, errors>>

(* A request, or its answer, is lost: fetch fails, or a status of an error *)
(* that says nothing of the task.                                          *)
Lose(r) ==
    /\ errors < MaxErrors /\ errors' = errors + 1
    /\ reqs[r] # Free /\ reqs[r].state \in {"sent", "ok"}
    /\ Answered(r, "error", Nothing)
    /\ UNCHANGED <<db, viewVars>>

(* A task goes on: TaskService, StatusMonotone and NoHalfRevival.          *)
Advance(t) ==
    /\ \/ db[t] = "pending" /\ \E s \in {"running", "failed"} : db' = [db EXCEPT ![t] = s]
       \/ db[t] = "running" /\ \E s \in Ended : db' = [db EXCEPT ![t] = s]
       \/ db[t] = "revivable" /\ \E s \in {"absent", "succeeded"} : db' = [db EXCEPT ![t] = s]
    /\ UNCHANGED <<viewVars, reqs, errors>>
-----------------------------------------------------------------------------
Serve(r) == ServeGet(r) \/ ServeList(r) \/ ServeCreate(r) \/ ServeDelete(r)
Receive(r) == Created(r) \/ GotTask(r) \/ GotList(r) \/ Removed(r)
User(v, r) ==
    \/ OpenForm(v) \/ OpenList(v, r) \/ (\E t \in Tasks : OpenDetail(v, t, r))
    \/ Submit(v, r) \/ Refresh(v, r) \/ CancelRemove(v)
    \/ \E t \in Tasks : OpenOther(t) \/ AskRemove(v, t) \/ Remove(v, t, r)
Quiet == \A r \in Reqs : reqs[r] = Free

Next ==
    \/ \E v \in Views, r \in Reqs : User(v, r) \/ TimeoutFires(v, r) \/ IntervalFires(v, r)
    \/ \E r \in Reqs : Serve(r) \/ Receive(r) \/ Lose(r)
    \/ \E t \in Tasks : Advance(t)
    \/ Leave
    \/ Quiet /\ UNCHANGED vars      \* nobody touches the page

Spec == Init /\ [][Next]_vars

(* Requests are served and answered and timers fire; that a timer may find *)
(* no free request is the model's bound, hence the strong fairness.  The   *)
(* user need not do anything.                                              *)
Fairness ==
    /\ \A r \in Reqs : WF_vars(Serve(r)) /\ WF_vars(Receive(r))
    /\ \A t \in Tasks : WF_vars(Advance(t))
    /\ \A v \in Views : /\ SF_vars(\E r \in Reqs : TimeoutFires(v, r))
                        /\ SF_vars(\E r \in Reqs : IntervalFires(v, r))
FairSpec == Spec /\ Fairness
-----------------------------------------------------------------------------
(* The statuses a task can have had before it had status b.                *)
Until(b) == IF b \in Ended THEN {"none", "pending", "running", b}
            ELSE IF b = "running" THEN {"none", "pending", "running"}
            ELSE IF b = "pending" THEN {"none", "pending"} ELSE {"none"}

(* x is a status that a task has had by the time it has this one.          *)
Had(x, status) ==
    /\ status = "none" => x = "none"
    /\ status \in Status => x \in Until(status)
    /\ status = "revivable" => x \in Until("running")

(* A detail has one load or one timeout, never two, and none is left once  *)
(* the task has ended; the page that is shown has exactly one until then.  *)
OnePollOf(v) ==
    /\ \A q, r \in Of(v, "get") : q = r
    /\ v \in timer => Of(v, "get") = {}
    /\ AnyTerminal(shown[v]) => v \notin timer /\ Of(v, "get") = {}
    /\ page = v /\ ~AnyTerminal(shown[v]) => v \in timer \/ Of(v, "get") # {}
OnePoll == \A v \in Views : kind[v] = "detail" => OnePollOf(v)

(* What a detail shows, and what is about to be shown to it, is a status   *)
(* the task has had, in that order.                                        *)
InOrderOf(v, t) ==
    /\ Had(shown[v][t], db[t])
    /\ \A r \in Of(v, "get") : reqs[r].state = "ok" /\ reqs[r].task = t =>
          Had(reqs[r].answer[t], db[t]) /\ shown[v][t] \in Until(reqs[r].answer[t])
InOrder == \A v \in Views, t \in Tasks : kind[v] = "detail" => InOrderOf(v, t)

(* A row that says it is being deleted has its request under way: the      *)
(* history never keeps a row disabled for ever.                            *)
DeletingUnderWay ==
    \A v \in Views : deleting[v] # NoTask =>
        \E r \in Of(v, "delete") : reqs[r].task = deleting[v]

(* Who awaits what: a view sends the requests of its kind, and a detail    *)
(* holds one task.                                                         *)
Owner(r) ==
    LET v == reqs[r].view IN
    /\ reqs[r].op = "get" =>
          /\ kind[v] = "detail" /\ reqs[r].task \in Tasks /\ db[reqs[r].task] # "none"
          /\ reqs[r].state = "ok" => \A t \in Tasks \ {reqs[r].task} : reqs[r].answer[t] = "none"
    /\ reqs[r].op = "create" =>
          /\ kind[v] = "form"
          /\ reqs[r].state = "ok" => reqs[r].task \in Tasks /\ db[reqs[r].task] # "none"
    /\ reqs[r].op \in {"list", "delete"} => kind[v] = "list"
    /\ reqs[r].op = "delete" => reqs[r].task \in Tasks
Owners ==
    /\ page # NoView => kind[page] # "unused"
    /\ \A v \in timer : kind[v] \in {"list", "detail"}
    /\ \A v \in Views : /\ kind[v] = "unused" => shown[v] = Nothing
                        /\ kind[v] = "detail" => subject[v] \in Tasks /\ db[subject[v]] # "none"
    /\ \A r \in Reqs : reqs[r] # Free => Owner(r)

ViewInv == TypeOK /\ Owners /\ OnePoll /\ InOrder /\ DeletingUnderWay

(* A task page never goes back: once it has shown a task running, or       *)
(* ended, it never shows it as something earlier.                          *)
DetailForward ==
    [][\A v \in Views, t \in Tasks : kind[v] = "detail" =>
          shown'[v][t] = "none" \/ shown[v][t] \in Until(shown'[v][t])]_vars

Deleted(t) == t \in Tasks /\ db[t] \in {"absent", "revivable"}
OnTask(v, t) == page = v /\ kind[v] = "detail" /\ subject[v] = t

(* A task page that stays open shows in the end how its task ended, also   *)
(* when requests fail in between, unless the task is deleted, or the page  *)
(* showed another task before, which had ended: given another id after     *)
(* that, it goes on showing the old one, for it loads in onMounted only.   *)
DetailSettles ==
    \A v \in Views, t \in Tasks :
        OnTask(v, t) ~> ~OnTask(v, t) \/ AnyTerminal(shown[v]) \/ Deleted(t)

(* A history that stays open shows in the end that no task is under way,   *)
(* although answers overtake each other and may show old statuses.         *)
ListSettles ==
    \A v \in Views : page = v /\ kind[v] = "list" ~>
                         page # v \/ \A t \in Tasks : shown[v][t] \notin {"pending", "running"}

(* The polling of a task page that was left does not go on for ever:       *)
(* onBeforeUnmount has not stopped a load under way, which sets the        *)
(* timeout again, but the end of the task does.  A deleted task has none.  *)
LeftStops ==
    \A v \in Views : kind[v] = "detail" /\ page # v ~>
        Deleted(subject[v]) \/ (v \notin timer /\ Of(v, "get") = {})
=============================================================================
