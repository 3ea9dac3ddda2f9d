# OMOPredict: TLA+ models and proofs

OMOPredict predicts and optimises the optical and electrical behaviour of
oxide/metal/oxide films. This directory holds TLA+ models of it: processes that start,
call, restart and stop each other, tasks that run in the background, locks and timers,
pages and sessions, and the engine itself, from the request that comes in through one
of its three front ends to the search and the training that it runs. The modules are
written from the source; line references are in `PROJECT.json` under `map`.

## 1. The system

```
 Vue frontend ──HTTP──────────────────────────┐
      │ preload bridge (desktop)              ▼
 Electron main: Host ── stdio JSON-RPC ──▶ Go middle layer ── SQLite/other DB
   SingletonLock, Backend + RpcClient       task.Service, GORMStore
                                            StdioEngine / EngineClient
                                               │ stdio JSON-RPC or HTTP
                                               ▼
                                            Python engine (omo.rpc.server)
```

| component | state it keeps | operations | talks to | what is hard | correct when |
|---|---|---|---|---|---|
| stdio engine client `server/internal/task/engine_stdio.go` | current child, `pending` map, `nextID`, `closed`, last start | Simulate, Optimize, Close; the reader goroutine of a child | task goroutines call it; pipes to the child | concurrent callers, crashes, restarts, timers, Close in between, full pipes | one child at a time, none after Close; an answer reaches the call it belongs to; every waiting call gets one result |
| task service and store `service.go`, `store.go` | the task table; one goroutine per task | Create, List, GetOwned, DeleteOwned; the goroutine `run` | API layers, engine, database | delete against a running task, failing statements, crash, restart | a finished task has the result of its own call; statuses only go forward; deleted tasks stay deleted |
| engine front ends `engine/src/omo/rpc/server.py`, `api`, `cli` | none between requests | ping, simulate, optimize as lines; two HTTP routes; `omo-cli optimize` | the Go client and users; `omo.sim` | malformed and oversized lines, notifications, exceptions that are no ValueError, three sets of parameter checks for one search | one reply per request, in order and under its id, until a line ends the process; the same parameters mean the same search |
| backend guardian `desktop/src/host/backend.ts`, `rpc.ts` | state shown to the shell, child, restart timer and counts, pending calls | start, invoke, stop; exit, data and timer callbacks | Electron main, the Go child | exit events, timers and continuations in any order; hung child; stop during a restart | no child is lost; ready means answered; calls end |
| single-instance lock and Host `singleton.ts`, `host.ts`, `main.ts` | the lock file; one Host per shell | acquire, release; Host.start, dispose | other shells through the file system | races on the file, crashes, failing starts | one holder, one backend; a crash locks nobody out, unless its pid has been given to another process |
| Go JSON-RPC server and HTTP API `server/internal/rpc`, `api` | none (identity per request) | tasks.*, auth.*, meta, ping | task and user services | identity of the local user in both transports | a request acts for its own user only |
| user accounts `server/internal/user` | user table, tokens | Register, Login, VerifyToken | HTTP API | two registrations of one name; expiry | names are unique; expired tokens are refused |
| frontend views `frontend/src/views` | the task shown, the list shown, their timers, confirmId, deletingId | load, poll, remove, refresh, submit | HTTP API or preload bridge; the router mounts them | answers in flight when the user acts or leaves; components kept by the router | one poll at a time, a page never goes back, ends up to date; polling ends |
| frontend session, guard, transport `stores/auth.ts`, `router`, `api` | token and user (store and localStorage), meta, the navigation under way | bootstrap, login, register, logout, 401, guard | HTTP API; every view sends through it | a session that ends or changes while requests or pages are under way | one identity; nobody sees another user's tasks; a session's end leads to the login page |
| design search `engine/src/omo/optimize`, `sim.py` | target, space, what is scanned, feasible and analysed so far | checks, scan, ranking, sensitivity | the front ends; the physics for each combination | a ValueError anywhere loses everything; grid ends, ties, thickness zero | the scan is the grid, the candidates are the best, a tolerance is a true window, and what is offered can be simulated |
| physics `materials.py`, `optics`, `electrical`, `emi` | none | formulas with their refusals | `sim.simulate`, `evaluate_candidate` | zero thickness, no conductive film, empty bands | forward simulation and search agree |
| neural surrogate `neural`, `scripts/train_surrogate.py` | network, best weights, patience, two files | generate, train, validate, save | the physics; files of the last run | NaN losses, early stopping, a stop between the files or inside a write | the model saved is the best one, with its own report |
| benchmark `engine/src/omo/benchmark` | none | compares with literature values | – | numerical | out of scope here |
| local debug bridge `scripts/local-bridge*.mjs` | pending calls | map HTTP to JSON-RPC, shut down | the Go layer | a second stdio client | as the guardian |

The hazards, each with its line and the properties that cover it, are in
`PROJECT.json` under `hazards`.

## 2. Modules

| module | models | runs |
|---|---|---|
| `AtMostOnceRpc` | what a caller of a JSON-RPC client may rely on (abstract) | refined in `StdioEngine_safety` and `Backend`, used in `TaskService` |
| `StdioEngine` | the Go client of the engine with its child | `StdioEngine_safety`, `_liveness`, `_timeout` |
| `TaskService` | tasks, their goroutines, the table, deletes, crash and restart; the engine is `AtMostOnceRpc` | `TaskService`, `_deleted` |
| `Backend` | the desktop guardian and its RPC client with the Go child | `Backend` |
| `SingleInstance` | the lock file, Host.start/dispose and the shell around them | `SingleInstance_apart`, `_hang` |
| `TaskViews` | the frontend's pages that follow tasks, their requests and timers | `TaskViews` |
| `Session` | a tab's session, the route guard and the accounts behind it | `Session` |
| `Film` | what the engine computes of a stack, by its branches (operators, no state) | through `EngineServer` |
| `DesignSearch` | one search: checks, scan, ranking, sensitivity | through `EngineServer` |
| `Transports` | what JSON-RPC, HTTP and the command line accept, and what it becomes (operators) | through `EngineServer` |
| `EngineServer` | the engine process: lines, posts and commands in, replies out; composes the three above | `EngineServer` |
| `SurrogateTraining` | the training script with its early stopping and its files | `SurrogateTraining` |
| `…Proofs` (8) | inductive invariants and theorems of the modules they extend | – |
| `MC…` | each module with TLC's operators, its inputs, and its symmetry where a run uses it | |

How they compose. `AtMostOnceRpc` is the contract between the layers. `StdioEngine`
implements it (`Implements`, a refinement mapping from the position and outcome of
each call), so does `Backend` for the next layer up. `TaskService` does not repeat
the client: it instantiates `AtMostOnceRpc` with one caller per task and takes the
contract's steps where the code calls the engine. What `TaskService` shows therefore
holds for every client that keeps the contract. `TaskViews` in turn takes of the
middle layer only what `TaskService` shows of a task's status: `Advance` has the steps
that `StatusMonotone` and `NoHalfRevival` allow, among them that of a deleted task
that comes back as succeeded.

On the engine's side `EngineServer` extends `Transports`, which extends `DesignSearch`,
which extends `Film`. The variables of a search are the engine's own, as it does nothing
else while it searches. `StdioEngine` takes of the engine only that it answers one line
after the other, which `RepliesMatch` shows of it.

### StdioEngine
One action is one critical section of `mu`, one pipe or channel operation, or one
step of the child. `pc[c] = "writing"` is the possession of `writeMu`. Callers run
`EnsureRefused/Found/Spawned` (`ensureStarted`), `AllocateId`, `Register`,
`AcquireWrite`, `WriteOk/WriteError`, then `TakeReply`, or `TimeOut` and `Forget`. The
reader goroutine runs `DispatchLine`, `DeliverReply` and `GenerationEnded`, Close runs
`CloseBegin`, `CloseStdin`, `CloseReaped/CloseKill`. Payloads are reduced to "ok" and
"appErr". The id stays a number, for that ids are never shared is what the client
stands on.

### TaskService
One action is one database statement or one step of the goroutine between two.
`RunLoad` and `RunSave` are the read and the upsert of UpdateResult. The upsert
(gorm's `Save`: update, and insert when nothing was updated) is modelled by what it
does. `Faults` says whether statements may fail and the process may crash.

### Backend
One action is one callback of the event loop with the promise continuations it
releases. An `await` that really waits is a program point (`starter`, `stopper`, `pc`).
`HandleExit` contains the continuation of `start()` when its ping is failed by the
exit, which is why the state can be failed with a restart scheduled. The pid and exit
code checks of `spawnOnce` are `StartCheck`. Whether a spawned child exists at all is
chosen in `Spawn`. The kill of `stop()` is taken to work.

### SingleInstance
One action is one file operation, as two shells are two processes. The exclusive
create and the write of the content are two steps, the file is `Garbled` in between,
and a shell writes to the file it opened, which may have been deleted (`opened`).
`Launches` says how far the starts of shells are apart: at any time, not during
another one's acquisition, or one shell at a time (Electron's own lock). The file holds
a pid, and the probe asks the system whether any process has it (`InUse`; EPERM counts):
a shell is launched under any pid that is free, one of a dead shell too, and processes of
other applications come and go under the others (`foreign`, `ForeignStarts`). The kernel
does not give a pid to two processes at once, nothing else is assumed of it.

### TaskViews
A view is one mounted component (DesignView or OptimizeView, HistoryView,
TaskDetailView). It stays in the model after it has been unmounted, because what it
awaits goes on: `page` is the one that is mounted. One action is one event of the
browser's loop with the continuations it releases, or one request served. A request
(`reqs`) is sent, served at some moment by `Serve…`, and received by `Created`,
`GotTask`, `GotList` or `Removed`, each the code after the `await` with its `finally`.
`GotTask` is the end of `load` together with `scheduleNext`, which is called on a page
that may have been left. `Mount` is navigation with `onBeforeUnmount` of the old page;
`Reuse` is the navigation from one `/tasks/:id` to another, for which vue-router keeps
the component. Statuses are the data; names, layers, results and error texts are not.

### Session
`stored`/`storedUser` are localStorage, `token`/`user` the pinia store; the server is
`mode`, `accounts` and the owners of the tokens issued. Pages are the login page, the
protected ones ("app") and the blank tab before `bootstrap` is over. A navigation is
guarded when it starts (`Guard` is `authGuard`) and ends when the code of the page has
been loaded (`FinishNav`), or not (`NavFails`): a session may end in between. `live`
tells whether the view that sent a request is still mounted. A token may be refused at
any moment, which is its expiry, and also what a failing user lookup is answered with.

### Film
The materials are the three of the registry: one with a resistivity that depends on the
thickness (silver), one with a fixed one (ITO), one without (glass). Every
condition under which the code raises a ValueError, leaves a None or an empty series is
kept, and which films enter which sum. The numbers are coarse: thicknesses are counted
in half nanometres, which is the probe step of the tolerance analysis, frequencies in
tenths of a GHz, transmittances in six levels. The formulas (transfer matrix,
Fuchs-Sondheimer integral, transmission line) are constant operators, so that theorems
hold for any physics. TLC's physics (`MCEngineServer`) interferes, so that
the best stack is neither the thinnest nor the thickest.

### DesignSearch
`Ask` is the part of `sim.optimize` before the scan, with both `__post_init__`.
`EvaluateNext` is one round of the loop in `search_designs`, `Rank` what follows it,
`AnalyseLayer` one round of `analyze_sensitivity` with its two `reach` walks. `phase` is
`refused` after a ValueError before there is a report, `lost` after one that comes when
there is one, and `exhausted` after a MemoryError: `n_combinations` makes the grids before
the limit on their product is checked, so a range that is large enough is no refusal
(`Exhausts`). `MaxArray` stands for the memory there is, `MaxLength` for the length above
which numpy does not try and raises a ValueError. `feasible` holds positions where the code holds a second list. A derivative
is kept as numerator and denominator.

### Transports and EngineServer
A raw JSON value is a record of its kind and its datum, so that "the string 2", "2",
"true" and "2.5" are different values; an object is a function from field names. Numbers
at the ends of what a float can hold are kinds of their own: `infinity` (1e999, read as
infinite), `huge` (an integer that `float()` has no room for) and `vanishing` (positive,
and zero once it is converted from nanometres to metres). The
`Rpc…` operators are the hand-written checks of `rpc/server.py`, the `Http…` ones what
pydantic does with the models of `schemas.py`, the `Cli…` ones the "x or default" of
`cli/main.py`. What passes becomes a specification of a simulation or a job of a search,
the same for all. The engine takes the items of a script one by one. A simulation
is answered in one step, a search in as many as it has.

`handle_line` expects an `RpcError` or a ValueError, of `json.loads` only its
`JSONDecodeError` and a `UnicodeDecodeError`; `serve` expects nothing. Any other exception
ends the server, with nothing written for the line it came from (`Die`). Where the code can raise one,
the model has it: a line `json.loads` gives up on (`unloadable`: an integer of more digits
than Python converts, a nesting too deep, no memory), an answer that quotes a lone
surrogate from its line and so cannot be encoded (`Unwritable`; not of a notification),
an OverflowError of `float()` or `int()` that is reached before another field is refused
(`…Overflows`, in the order of the code), the MemoryError of a grid or of the arrays of a
simulation, and the division by a vanishing thickness (`Breaks`). Over HTTP the same
exceptions are the 500 of one request.

### SurrogateTraining
One action is one statement of `main()`, or one epoch of `train`; each of the two files
is opened, which empties it, and then written (`OpenModel`, `WriteModel`, `OpenReport`,
`WriteReport`), and is `Torn` in between. A network is known by
the epoch its weights come from, a file by the start of the script that wrote it. Which
loss an epoch reaches is free, NaN among them. Without a training sample (one sample in
all) every loss is NaN. The script's own data set has 20000 samples; `train` is
a function other callers use too, so a set of one sample is among the inputs.

## 3. Runs

| run | bounds | question |
|---|---|---|
| `StdioEngine_safety` | 2 callers, 2 children, pipe of 1 | one child, no waiter lost, one result, the inductive invariant; refines `AtMostOnceRpc` |
| `StdioEngine_liveness` | 2 callers, 1 child, pipe of 1 | a crash and Close end the calls, without the timer |
| `StdioEngine_timeout` (violated) | as above, timers fire | every call returns |
| `TaskService` | 2 tasks, 2 users, 1 delete, 1 restart, failing statements and crashes | safety of tasks under failures; a task whose goroutine is not cut off is finished |
| `TaskService_deleted` (violated) | 1 task, 1 delete | a deleted task stays deleted |
| `Backend` | 2 calls, 3 children, 1 restart per window, pipe of 1 | no orphan, ready means answered, nothing after stop; refines `AtMostOnceRpc`; starts settle, crashes and stop end calls |
| `SingleInstance_apart` | 3 shells, 3 pids, crashes, hanging starts, pids taken by other processes | the lock excludes; a crash locks nobody out unless another process has the pid |
| `SingleInstance_hang` (violated) | 2 shells, 2 pids, Electron's lock | one backend at a time |
| `TaskViews` | 2 tasks, 2 views, 2 requests at a time, 1 failing | pages never go back, polls are single and end, lists end up to date |
| `Session` | 2 accounts, 2 tokens, 2 requests at a time, 1 failing page load | one identity, nobody sees another's tasks, the guard stands |
| `EngineServer` | scripts of one search or simulation, or of two lines; arrays of 2500 fit in memory, above 3500 numpy refuses | scans, rankings, tolerances; replies up to the line that ends the server; the front ends agree but for named differences |
| `SurrogateTraining` | 5 epochs, patience 2, 3 losses and NaN, 2 starts | early stopping keeps the best; what is whole in the files belongs together |

Why the bounds are enough. Two callers give every race between a call and another
one, three would add only more of the same queueing behind `writeMu`. Two children
give a stale generation and a current one, the code compares a generation only with
the current one. A pipe of one line is the smallest that can be full, and a second
caller waits behind it. Three children of the guardian are needed for a restart that
fails and is followed by another. In `Backend` the last child of the bound does not
crash by itself, so that no behaviour is cut off with a restart scheduled. Two views
are a page and the one left before it, whose answers are still to come; two tasks a
page and the task it should not show; two requests two answers in either order. Two
tokens are the session that ended and the one that began. Three pids are those of a
shell that crashed, of the shell that starts, and one that is free; the process that has
the dead shell's pid is either of another application or the shell that starts.

The searches of `EngineServer` are six pairs of grids (one from zero, one whose last
point lies past its bound, one with a single step, one that fails at once because it
begins below zero), five triples of materials, six targets and two values of `top_n`;
the requests of wrong shape are one good request with one field exchanged for each kind
of value, or with one field more. Two lines show that what comes after a line of any
kind, or after a search, is still answered, or no more. The grids and the lists of a
simulation lie below, between and above the two limits on arrays, each of the three kinds
of number at the ends of a float is tried in every place that tells it from the others,
and a huge number before and after a field that is refused. The default grid of 4096 combinations is
not among them: its scan is long, and no other than a small one. Five epochs with a
patience of two are enough for a best epoch in the middle, one that is followed by
nothing better, and a NaN before, between and after. Two starts of the training script
are a run stopped anywhere, inside a write too, and the one after it.

Which free request, unused view or new id is taken makes no difference: `TaskViews`
and `Session` choose one (`Send`, `Unused`, `ServeCreate`), which is symmetry by hand
where liveness forbids TLC's. The symmetry sets of the safety runs hold only sets that
the module never orders or chooses from.

Fairness. Go's scheduler runs every goroutine that can run and `sync.Mutex` does not
starve a waiter, hence strong fairness for callers and weak fairness for readers and
Close. The event loop runs every callback that is due, hence weak fairness for the
continuations, timers and events of `Backend`, and for requests served and received in
`TaskViews` and `Session`. In `TaskViews` a timer may find no free request, which is
the model's bound and not the browser's, so timers have strong fairness. Users owe
nothing: no click, navigation or sign-in is fair. Children may hang: nothing is
assumed of them. The call timer is left out of the liveness runs, to show that crash,
Close and stop do not lean on it. `StdioEngine_timeout` adds it. `EveryTaskSettles`
and the `Advance` of `TaskViews` assume that every engine call ends, which
`StdioEngine_timeout` shows to fail for a hung child with a full pipe. `EngineServer` and
`SurrogateTraining` assume no fairness: their loops are bounded and wait for nobody, and
that the engine never stops between a request and its reply is checked as the absence of
deadlock. The training script may stop anywhere for good, so its run does not check
deadlock.

Several properties name the exception the code makes, so that they hold: `LeftStops`
says nothing of a task that was deleted (its page polls the 404 for ever, once it was
left during a load), `DetailSettles` is silent about a page that showed an ended task
before (a page the router keeps for another id), `SignedOutLeaves` and `GuardStands` about a login page whose code cannot be
loaded, `LockInv` about acquisitions that overlap. `ForwardAgrees` names the film of zero
thickness, `ReportLostOnlyNearZero` the layer near zero, `NoLockout` the pid that
another process has, `RepliesMatch` the lines that end the server (`EndsTheEngine`), and
the `…Lax…` operators of `TransportsAgree` every difference between JSON-RPC and HTTP, so that a difference more would be a counterexample.

## 4. What disagrees with the documentation

`PROJECT.json` quotes the lines under `findings`; each is the run that ends with a
counterexample.

- `StdioEngine_timeout`: the Go client creates the timer of a call after the request
  has been written, so a call behind the full pipe of a hung child has no timeout.
- `TaskService_deleted`: a task deleted while its result is being saved is inserted
  again by the save.
- `SingleInstance_hang`: a start that fails by its ping timeout releases the lock but
  keeps its child, and the next shell starts a second backend on the same database.

Seen while modelling and not run, because no document says otherwise or the case is a
variant of one above: the task page loads the id it was mounted with (TaskDetailView.vue:54),
so given another id after its task has ended it goes on showing the old one; the desktop's RPC client awaits its write before it looks at its
timer; a restart that fails leaves the guardian "failed" with another restart under
way; two shells that take the lock at the very same moment can both get it (Electron's
own lock keeps packaged shells apart); the lock of a crashed shell turns every later one
away while another process has its pid, after a reboot for instance, although
singleton.ts:92 takes whoever has the pid for a running OMOPredict and its message says so
(the exception that `NoLockout` names); the answer to a list that was read before a
delete shows the row again; two deletes reset each other's `deletingId`; a 401 to a
request of an old session ends the new one, and a failing user lookup is answered 401
and so signs the user out; `meta` is asked for once, so a single-user installation
whose first request fails shows a login page until it is loaded again.

`desktop.md:176-177` (D5) has the Host ping the Go layer every 5 s, the Go layer the engine, and
restart after three failures. Neither does: `backend.ts` pings once in a start and restarts
only on an exit event, so a child that hangs later stays; `Backend` has it so.

Of the engine, each named as an exception in a property of the run `EngineServer`:

- A silver film of zero thickness is a valid candidate of a search without shielding, and
  `engine.md:52`, `shielding.py:59` and `sheet_resistance.py:81` allow a thickness of
  zero, but a forward simulation of it is refused (422): `from_conductive_layer`
  (shielding.py:101) asks for a resistivity that `fuchs_sondheimer_ratio` refuses at
  zero. `optimize/evaluate.py:5-6` promises that search and simulation agree.
- A search can lose its finished report: the sensitivity of the best candidate evaluates
  a layer at thickness zero (sensitivity.py:122-130, 239), and a ValueError there is the
  answer to the whole request, although sensitivity.py:226 speaks of the edge at zero as a
  case that is handled.
- `sim.py:12-13` says that both transports answer 422 to the same illegal input and
  `rpc/server.py:10` that the parameters are those of the HTTP body field by field. A wrong
  shape is -32602 on JSON-RPC; numbers in strings, booleans as numbers, unknown fields and
  empty grids pass on HTTP only; blanks around a name, an empty name and nulls pass on
  JSON-RPC only.
- pydantic's `bool` takes the numbers 0 and 1 and the words "true", "yes", "on", "t", "y"
  and their opposites for `compute_sensitivity` (schemas.py:76), JSON-RPC only true and
  false (rpc/server.py:212).
- A line can end the server although `handle_line` has an answer for every bad request:
  an infinite `top_n` (`int()`, rpc/server.py:81), an integer of 2^1024 or more in any numeric
  field (`float()`, rpc/server.py:84), a range whose grid does not fit into memory (search.py:66-91;
  the limit of two million combinations comes after the grids), what `json.loads` raises besides
  `JSONDecodeError` (rpc/server.py:249), an answer with a lone surrogate (rpc/server.py:296),
  a thickness that becomes zero in metres (sheet_resistance.py:121).
- `omo-cli` takes an explicit zero for an option not given (`args.x or default`), and a
  late error leaves the printed table but no `--json` file.
- The last point of a grid may lie past its upper bound (search.py:91).
- The training script writes the model before the report, so a stop between the two
  leaves the report of an older model beside it; both are truncated before they are
  written (neural/model.py:205, neural/validate.py:47), so a stop inside a write leaves no usable model,
  or no usable report, of either run; with only NaN losses it saves the last
  weights and refuses nothing.

## 5. Proofs

All are for every value of the constants under the named assumptions of the modules
(`MaxStartsAssumption`, `PipeCapAssumption`, `MaxRestartsAssumption`,
`FaultsAssumption`, `BackendAssumption`, `TaskViewsAssumption`, `SessionAssumption`,
`SingleInstanceAssumption`, `PidAssumption`, `JobsAssumption`, `VisibleAssumption`,
`NoneAssumption`, `ArraysAssumption`, `PhysicsAssumption`, `ScriptsAssumption`, `LossesAssumption`,
`EpochsAssumption`, `SizesAssumption`, `RunsAssumption`: bounds are naturals, a pipe holds
at least a line, "none" values are not members, the numbers of a request are integers in
the units of the model, and so is what the formulas of the physics return for a stack a
search may meet; the visible range is not empty; what the engine is given is a sequence
of lines, POSTs and command lines whose params are JSON, whose options are those of
argparse, and whose searches are `Jobs`). TLC evaluates each of them in the runs.
Each `Invariance` shows that the inductive invariant the run checks holds initially and
is kept by every action; each goes action by action, with one lemma per part of the
invariant.

`StdioEngineProofs`: `Invariance`, and from it `TypeCorrect`, `OneProcess`,
`CloseLeavesNothing`, `PendingIsCurrent`, `ExactlyOneResult`, and `ClientImplements`, the
refinement of `AtMostOnceRpc`. `AtMostOneProcess` is not
inductive: that a new child is started only when the last one has been waited for needs
`ProcessInv` (a child is current from its start until it has been waited for, unless
Close took it over). `OneResult` needs `WaiterInv`: ids are never shared, a call that
has not registered has nothing coming, and two readers never send to the same call.
`PendingOnCurrent` gives that a dying generation fails exactly its own waiters. The
refinement needs `WorkInv`: a work request is in a pipe at most once and has not been
carried out (`RequestInv`), so the child executes it once and never for a call that was
turned away; and whatever carries the id of a live request, in the child, in its stdout,
in the reader's hands or in the channel, is what the child made of that request
(`ReplyInv`, `VerdictInv`), because ids are not reused, not even by the ping of the call.

`TaskServiceProofs`: `Invariance`, `SuccessIsComputed`, `DeletedNeverHalfDone`,
`StatusOnlyAdvances`, `OnlyTheOwnerDeletes`, and `NoTaskIsForgotten`: an unfinished
task has its goroutine while nothing has cut it off. `StageInv` ties the row of a task to the
program point of its goroutine and to its engine call: without it a succeeded row could
hold anything. `OwnerInv` says that a task keeps its owner, also in the copy a save
will write back, so that what DeleteOwned checked still holds when it deletes.

`BackendProofs`: `Invariance`, `NoChildIsLost`, `ReadyMeansAnswered`,
`WaitersCanBeAnswered`, `NothingAfterStop`, and `GuardianImplements`, the refinement of
`AtMostOnceRpc`: every step maps to one step of the contract or to a stutter. `ChildInv`
(children are numbered in order and the held one is the last) carries `NoOrphan`,
`PingInv` (only `start()` waits for a ping, of the current child) carries
`ReadyAnswered`, and `CallInv` (a request is in a pipe at most once and not yet carried
out, an answer names what the child made of it) carries the refinement.

`TaskViewsProofs`: `Invariance`, `PagesOnlyAdvance`. A page never goes back (`InOrder`)
only because it has one load or one timeout, never two (`OnePoll`), and that only
because requests belong to a view of their kind (`Owners`). `DeletingUnderWay`
rests on `Owners` alone.

`SessionProofs`: `Invariance`, `NobodySeesOthers`, `GuardAlwaysStands`. `ShowsOwnData`
needs that a live request of a page carries the token of the session, or the page is
being replaced (`Requests`), and that token and user belong together in the store, in
localStorage and on the server (`OneIdentity`).

`SingleInstanceProofs`: `Invariance` (`LockInv`), `OneShellHolds`, `NobodyStealsTheLock`,
`DeadLockNoOneOut`, where acquisitions do not overlap (`Apart`). The invariant
says what a shell inside an acquisition may count on: the file it writes is the one it
opened, the holder it replaces is dead, and it is alone. Pids play no part in it: a holder
is replaced only if nobody has its pid, so it is dead, whoever gets the pid later; what they do
decide is who is turned away (`DeadLockNoOneOut`). Without the last part two
shells that have both read a dead holder would both take the lock, which is what the
code does when they overlap.

`EngineProofs`, the search (theorems about `SearchSpec`):

- `FailsBeforeItStarts` rests on the fact that whether a combination fails does not get
  worse along the scan: the first one has the thinnest layers (`ThickerIsAccepted`), so a
  scan that passes it passes all.
- `ScansTheGrid` needs that the n-th combination is a bijection between 0..N-1 and the
  grid, a lemma about mixed-radix digits (`RadixDigits`, `DigitsOf`), and that the points of a
  grid are those of its axis (`GridIsAxis`). `ScanInv` and `OrderInv` say which
  combinations a scan of given length has evaluated, `ResultInv` what the report of an
  ended scan was made from: all of them.
- `RanksTheBest`: in a finite set with a strict total order, ranks (how many come before
  one) are ordered as the elements are, and every rank is taken (`RanksAreOrdered`,
  `RanksAreAll`, the latter by counting), so the CHOOSE in `Best` has what it asks for
  (`BestIs`). `_rank_key` is such an order on a scan because no two of its combinations
  are equal (`RankingIsAnOrder`, `ScanIsDistinct`), which is `OrderInv` again.
- `TolerancesAreTrue`: `OffsetsAre` turns the probes into steps of half a nanometre,
  `ReachIs` says what the walk up or down has seen when it stops.
- `LostOnlyNearZero`: with one layer changed, the best candidate is refused only when that
  layer is a conductive one brought to zero (`RefusedWhenThinner`), and the probes and the
  difference quotient get there only from a thickness within their reach.
- `OffersWhatItSimulates`: a candidate is a combination of the scan that did not fail, and
  its simulation forms the same stack and the same conductive films; what is left are the
  minimum over the band (`LeastShielding`) and the film of zero thickness.
- `SearchIsTypeCorrect` needs `PhysicsAssumption` for what the formulas return, and that a
  sum of such numbers is one. The sums are folds over sets: `SumIs` takes the recursive
  function out of them, `SumsExist` and `SumsAgree` show that it exists and is one, each by
  a smallest set for which it would not be (`SmallestSubset`) where no induction is at
  hand.

`EngineProofs`, the engine (theorems about its `Spec`):

- `EngineSearches` is a refinement: with `ServerInv`, every step of the engine is a step
  of `SearchNext` or leaves the search alone (`TakenIs`, `ServerStep`). It carries what is
  said of a search over to the engine: `EngineReportsAreRight`, `EngineIsTypeCorrect`.
- `AnswersInOrder`: `Expected(n)` is a fold over the first n items. `FlatExists` and
  `FlatAgrees` treat it like the sums, `ExpectedIs` gives its equation at n + 1, and
  with that `RepliesInv` is kept by each action: an item appends to the outbox
  what it expects, at once or when its search has ended (`RequestExpects`, `TakesAnswer`),
  or ends the engine and is one of `EndsTheEngine`. That a search out of memory is one of
  these needs `AskedInv`: the search that runs is the one its item asks for, and is
  `exhausted` only where that one does not fit.
- `TransportsTakeTheSame`: the parameters do not change, so this is no matter of steps but
  of two readings of the same value. `OnlyRpcTakes` and `OnlyHttpTakes` say of one field
  what the one accepts and the other does not; `OnlyRpcTakesObject` and
  `OnlyHttpTakesObject` of an object; `SameJobs` that what both read is the same search;
  `TooSmallIsRefused` that a number only pydantic refuses is refused by `__post_init__`.
  `SimulationsAgree` and `OptimizationsAgree` put these together for every JSON value
  (`Params`). For a command line `AskedInv` ties the search to the options of its item.

`SurrogateTrainingProofs`: `Invariance`, `TypeCorrect`, `StopsAtTheBest`,
`DeliversTheBest`. What is restored is the best because `BestIsKept` compares the kept
loss with every earlier one. A report is never ahead of its model (`ReportNeverAhead`): a run
opens its report only when its model has been written in full, so a report of the same run
lies beside a whole model, and beside a torn model lies a report of an older run at most.

Every safety property that a run checks and expects to hold is stated by one of these
theorems. Only model-checked: liveness and everything under fairness (`CrashFailsWaiters`,
`CloseReleasesCalls`, `EveryTaskSettles`, `StartSettles`, `CrashEndsCalls`, `StopEnds`,
`DetailSettles`, `ListSettles`, `LeftStops`, `SignedOutLeaves`), which rests on ENABLED
and is outside the prover's reach, and the absence of deadlock, for the same reason.

## 6. Plan and what is not modelled

Done: the engine client, the task service, the guardian, the lock, the views, the
session, the engine with its front ends, the search, the training script, with the
proofs above. What a later version could add, in this order:

1. The method routing and identity of the Go RPC server and the shutdown of the chain
   shell, Go layer, engine (both grace periods are 3 s).
2. The debug bridge, a third JSON-RPC client, which should refine `AtMostOnceRpc` too.

Not modelled, and why:

- The benchmark, and the formulas of the physics: one pass over fixed data, whose content
  is floating point. What the code decides around the formulas is in `Film`.
- `thin_film_se` and the Schelkunoff decomposition, which no front end calls, and material
  overrides, which only the benchmark gives; the Drude model is part of the formula
  `Transmittance`.
- Of what ends the engine: the system killing it for want of memory where Python gets no
  MemoryError (which would end HTTP as well), a closed stdout, and memory used up
  by the metrics of a scan within the limit of two million. NaN, which `json.loads` reads
  too: it is refused or answered, never an end; an infinite bound or step,
  which is refused late in the code (sim.py:161, a ValueError of `np.arange`); sums and
  thicknesses just above the vanishing ones, whose resistance is infinite. Words for a truth
  value stand for their spellings in any case.
- HTTP requests at the same time: FastAPI runs the two endpoints in a thread pool, the model
  one after the other; they share no state. A result that cannot be rendered as JSON (500)
  stands as a refusal.
- `lines.ts`, `engine_resolve.go`, paths, logging: pure functions that nothing interleaves
  with; their rules are strings, taken apart character by character.
- Electron's window, menu and channels, layout and forms, CORS, password hashing:
  adapters without a state that outlives a call.
- The debug bridge, packaging and CI scripts: tools run by hand.
