------------------------------ MODULE Backend ------------------------------
(***************************************************************************)
(* desktop/src/host/backend.ts and rpc.ts: the desktop shell's guardian of *)
(* the Go middle layer, which runs as a child process and is called with   *)
(* JSON-RPC lines.  The guardian starts the child, pings it, restarts it   *)
(* after a crash within a limit, and stops it when the shell quits.        *)
(*                                                                         *)
(* The code is one JavaScript event loop: an action is one callback (an    *)
(* event of the child, a timer, a settled write, a call from the shell)    *)
(* with the promise continuations it releases, which run before the next   *)
(* callback.  Generation 0 stands for null.  A child reads its requests in *)
(* order and answers each before the next (server/internal/rpc/server.go). *)
(***************************************************************************)
EXTENDS Naturals, Sequences, FiniteSets, SequencesExt

CONSTANTS
    Callers,        \* calls the shell makes (Host.invoke), once each
    MaxSpawns,      \* bound on the number of children
    MaxAttempts,    \* restarts allowed in one window
    PipeCap         \* requests that fit in a child's stdin pipe

ASSUME BackendAssumption ==
    MaxSpawns \in Nat \ {0} /\ MaxAttempts \in Nat /\ PipeCap \in Nat \ {0}

Gens == 1..MaxSpawns
Bodies == {"ok", "appErr"}

(* Request ids, which nextId never repeats: one call per caller and one    *)
(* ping per start.                                                         *)
Call(c) == <<"call", c>>
Calls == {Call(c) : c \in Callers}

(* Faulty variant: every ping carries the same id.                         *)
Ping_SameId(g) == <<"ping", 1>>
Ping(g) == <<"ping", g>>

VARIABLES
    state,          \* what the shell is shown
    stopping,       \* stop was called
    everReady,      \* some start succeeded
    stamps,         \* restarts in the current window (attemptTimestamps)
    restartTimer,   \* a restart is scheduled
    child,          \* the current child, 0 if there is none
    spawned,        \* number of children started so far
    starter,        \* start(): none, check (after delay(0)) or ping
    pending,        \* ids of requests that wait for an answer
    rpcClosed       \* the RpcClient was closed
backendVars == <<state, stopping, everReady, stamps, restartTimer, child, spawned,
                 starter, pending, rpcClosed>>

VARIABLES
    os,             \* per child: unborn, absent (spawn failed), running,
                    \* exited, or gone (its exit event was handled)
    eof,            \* children whose stdin was ended
    inbox,          \* per child: ids of the requests in its stdin pipe
    outbox,         \* per child: the answers in its stdout pipe
    pinged,         \* children that answered a ping
    verdict         \* per caller: what the child made of its request
childVars == <<os, eof, inbox, outbox, pinged, verdict>>

VARIABLES
    pc,             \* per caller: idle, writing, await or returned
    tgt,            \* per caller: the child it writes to
    outcome         \* per caller: how its call ended
callerVars == <<pc, tgt, outcome>>

VARIABLES
    stopper,        \* stop(): none, grace, kill, await or done
    captured        \* the child stop() waits for
stopVars == <<stopper, captured>>

vars == <<backendVars, childVars, callerVars, stopVars>>

Ids == Calls \cup {Ping(g) : g \in Gens}
Answer == [id : Ids, body : Bodies]

BackendTypeOK ==
    /\ state \in {"stopped", "starting", "ready", "restarting", "failed"}
    /\ stopping \in BOOLEAN /\ everReady \in BOOLEAN
    /\ restartTimer \in BOOLEAN /\ rpcClosed \in BOOLEAN
    /\ stamps \in 0..MaxAttempts
    /\ child \in {0} \cup Gens /\ spawned \in 0..MaxSpawns
    /\ starter \in {"none", "check", "ping"}
    /\ pending \subseteq Ids

ChildTypeOK ==
    /\ os \in [Gens -> {"unborn", "absent", "running", "exited", "gone"}]
    /\ eof \subseteq Gens /\ pinged \subseteq Gens
    /\ inbox \in [Gens -> Seq(Ids)] /\ outbox \in [Gens -> Seq(Answer)]
    /\ verdict \in [Callers -> Bodies \cup {"none"}]

CallerTypeOK ==
    /\ pc \in [Callers -> {"idle", "writing", "await", "returned"}]
    /\ tgt \in [Callers -> {0} \cup Gens]
    /\ outcome \in [Callers -> Bodies \cup {"none", "refused", "failed"}]
    /\ \A c \in Callers : pc[c] = "writing" => tgt[c] # 0

StopTypeOK ==
    /\ stopper \in {"none", "grace", "kill", "await", "done"}
    /\ captured \in {0} \cup Gens
    /\ stopper \in {"grace", "kill", "await"} => captured # 0

TypeOK == BackendTypeOK /\ ChildTypeOK /\ CallerTypeOK /\ StopTypeOK

Init ==
    /\ state = "stopped" /\ stopping = FALSE /\ everReady = FALSE
    /\ stamps = 0 /\ restartTimer = FALSE /\ child = 0 /\ spawned = 0
    /\ starter = "none" /\ pending = {} /\ rpcClosed = FALSE
    /\ os = [g \in Gens |-> "unborn"] /\ eof = {} /\ pinged = {}
    /\ inbox = [g \in Gens |-> <<>>] /\ outbox = [g \in Gens |-> <<>>]
    /\ verdict = [c \in Callers |-> "none"]
    /\ pc = [c \in Callers |-> "idle"] /\ tgt = [c \in Callers |-> 0]
    /\ outcome = [c \in Callers |-> "none"]
    /\ stopper = "none" /\ captured = 0
-----------------------------------------------------------------------------
(* Helpers.                                                                *)

Return(c, how) ==
    /\ pc' = [pc EXCEPT ![c] = "returned"]
    /\ outcome' = [outcome EXCEPT ![c] = how]

(* Faulty variant: the shell's calls are left to their timers.             *)
FailPending_PingOnly == pending' = pending \cap Calls /\ UNCHANGED <<pc, outcome>>

(* failPending rejects every call.  A call whose write has not settled yet *)
(* notices only then, for call() awaits the write before the answer.       *)
FailPending ==
    LET told == {c \in Callers : Call(c) \in pending /\ pc[c] = "await"} IN
    /\ pending' = {}
    /\ pc' = [c \in Callers |-> IF c \in told THEN "returned" ELSE pc[c]]
    /\ outcome' = [c \in Callers |-> IF c \in told THEN "failed" ELSE outcome[c]]

(* No line is queued in this process for the child's stdin: end(), which   *)
(* is queued behind them, has taken effect.                                *)
Drained(g) == \A c \in Callers : pc[c] = "writing" => tgt[c] # g

(* Faulty variant: a failed start leaves the state alone.                  *)
StartFails_KeepsState ==
    /\ starter' = "none"
    /\ UNCHANGED state

(* start() throws: the child, if there is one, is left as it is.           *)
StartFails ==
    /\ starter' = "none"
    /\ state' = "failed"

(* spawnOnce up to delay(0).                                               *)
Spawn ==
    LET g == spawned + 1 IN
    /\ g \in Gens
    /\ stopping' = FALSE
    /\ state' = IF spawned = 0 THEN "starting" ELSE "restarting"
    /\ spawned' = g /\ child' = g
    /\ \E s \in {"running", "absent"} : os' = [os EXCEPT ![g] = s]
    /\ starter' = "check"
-----------------------------------------------------------------------------
(* start().                                                                *)

HostStart ==
    /\ spawned = 0
    /\ Spawn
    /\ UNCHANGED <<everReady, stamps, restartTimer, pending, rpcClosed, eof, inbox,
                   outbox, pinged, verdict, callerVars, stopVars>>

(* The restart timer fires.  It was set when the last child ended, at the  *)
(* least interval after that child's start: its start() has thrown by then.*)
RestartFires ==
    /\ restartTimer /\ starter = "none"
    /\ restartTimer' = FALSE
    /\ IF stopping THEN UNCHANGED <<state, stopping, child, spawned, starter, os>>
       ELSE Spawn
    /\ UNCHANGED <<everReady, stamps, pending, rpcClosed, eof, inbox, outbox, pinged,
                   verdict, callerVars, stopVars>>

(* After delay(0): is the child there, and may it be pinged?               *)
StartCheck ==
    LET g == spawned IN
    /\ starter = "check"
    /\ IF os[g] = "running" /\ ~rpcClosed
       THEN /\ starter' = "ping"
            /\ pending' = pending \cup {Ping(g)}
            /\ inbox' = [inbox EXCEPT ![g] = Append(@, Ping(g))]
            /\ UNCHANGED state
       ELSE StartFails /\ UNCHANGED <<pending, inbox>>
    /\ UNCHANGED <<stopping, everReady, stamps, restartTimer, child, spawned, rpcClosed,
                   os, eof, outbox, pinged, verdict, callerVars, stopVars>>

PingTimeOut ==
    /\ starter = "ping"
    /\ pending' = pending \ {Ping(spawned)}
    /\ StartFails
    /\ UNCHANGED <<stopping, everReady, stamps, restartTimer, child, spawned, rpcClosed,
                   childVars, callerVars, stopVars>>
-----------------------------------------------------------------------------
(* invoke() and call().                                                    *)

InvokeRefused(c) ==
    /\ pc[c] = "idle"
    /\ state # "ready" \/ child = 0 \/ rpcClosed
    /\ Return(c, "refused")
    /\ UNCHANGED <<backendVars, childVars, tgt, stopVars>>

Invoke(c) ==
    /\ pc[c] = "idle"
    /\ state = "ready" /\ child # 0 /\ ~rpcClosed
    /\ pending' = pending \cup {Call(c)}
    /\ tgt' = [tgt EXCEPT ![c] = child]
    /\ pc' = [pc EXCEPT ![c] = "writing"]
    /\ UNCHANGED <<state, stopping, everReady, stamps, restartTimer, child, spawned,
                   starter, rpcClosed, childVars, outcome, stopVars>>

(* The write settles well; the call may have been rejected in between.     *)
WriteOk(c) ==
    LET g == tgt[c] IN
    /\ pc[c] = "writing"
    /\ os[g] = "running" /\ Len(inbox[g]) < PipeCap
    /\ inbox' = [inbox EXCEPT ![g] = Append(@, Call(c))]
    /\ IF Call(c) \in pending
       THEN pc' = [pc EXCEPT ![c] = "await"] /\ UNCHANGED outcome
       ELSE Return(c, "failed")
    /\ UNCHANGED <<backendVars, os, eof, outbox, pinged, verdict, tgt, stopVars>>

WriteError(c) ==
    /\ pc[c] = "writing"
    /\ os[tgt[c]] # "running"
    /\ pending' = pending \ {Call(c)}
    /\ Return(c, "failed")
    /\ UNCHANGED <<state, stopping, everReady, stamps, restartTimer, child, spawned,
                   starter, rpcClosed, childVars, tgt, stopVars>>

(* The call's timer: the rejection reaches the caller once the write has   *)
(* settled.                                                                *)
TimeOut(c) ==
    /\ Call(c) \in pending
    /\ pending' = pending \ {Call(c)}
    /\ IF pc[c] = "await" THEN Return(c, "failed") ELSE UNCHANGED <<pc, outcome>>
    /\ UNCHANGED <<state, stopping, everReady, stamps, restartTimer, child, spawned,
                   starter, rpcClosed, childVars, tgt, stopVars>>
-----------------------------------------------------------------------------
(* Events of the child.                                                    *)

(* acceptLine: an answer nobody waits for, late or a child's of long ago,  *)
(* is dropped.  A good answer to the ping of start() makes it succeed.     *)
AcceptLine(g) ==
    /\ outbox[g] # <<>>
    /\ outbox' = [outbox EXCEPT ![g] = Tail(@)]
    /\ LET line == Head(outbox[g]) IN
       /\ pending' = pending \ {line.id}
       /\ IF line.id \notin pending
          THEN UNCHANGED <<state, everReady, starter, pc, outcome>>
          ELSE IF line.id \in Calls
          THEN /\ \E c \in Callers : line.id = Call(c) /\ Return(c, line.body)
               /\ UNCHANGED <<state, everReady, starter>>
          ELSE /\ starter' = "none" /\ state' = "ready" /\ everReady' = TRUE
               /\ UNCHANGED <<pc, outcome>>
    /\ UNCHANGED <<stopping, stamps, restartTimer, child, spawned, rpcClosed, os, eof,
                   inbox, pinged, verdict, tgt, stopVars>>

(* Faulty variant: restarts are not limited.                               *)
MayRestart_NoLimit == everReady

(* Whether handleExit restarts the child (decideRestart).                  *)
MayRestart == everReady /\ stamps < MaxAttempts

(* The exit event.  When it comes during start()'s ping, the ping fails    *)
(* and the continuation of start() has the last word on the state, while   *)
(* the restart stays scheduled.  Of stop(), only the rest of the exit      *)
(* event's listeners is left (StopExited).                                 *)
HandleExit(g) ==
    /\ os[g] = "exited"
    /\ os' = [os EXCEPT ![g] = "gone"]
    /\ IF child # g
       THEN UNCHANGED <<child, state, stamps, restartTimer, starter, pending, pc, outcome>>
       ELSE /\ child' = 0
            /\ IF stopping
               THEN /\ state' = "stopped"
                    /\ UNCHANGED <<stamps, restartTimer, starter, pending, pc, outcome>>
               ELSE /\ FailPending
                    /\ IF MayRestart
                       THEN stamps' = stamps + 1 /\ restartTimer' = TRUE
                       ELSE UNCHANGED <<stamps, restartTimer>>
                    /\ IF starter = "ping" THEN StartFails
                       ELSE /\ state' = IF MayRestart THEN "restarting" ELSE "failed"
                            /\ UNCHANGED starter
    /\ UNCHANGED <<stopping, everReady, spawned, rpcClosed, eof, inbox, outbox, pinged,
                   verdict, tgt, stopVars>>

(* A restart leaves the window in which restarts are counted.              *)
WindowMoves ==
    /\ stamps > 0
    /\ stamps' = stamps - 1
    /\ UNCHANGED <<state, stopping, everReady, restartTimer, child, spawned, starter,
                   pending, rpcClosed, childVars, callerVars, stopVars>>
-----------------------------------------------------------------------------
(* The child.                                                              *)

ChildAnswer(g) ==
    /\ os[g] = "running" /\ inbox[g] # <<>>
    /\ inbox' = [inbox EXCEPT ![g] = Tail(@)]
    /\ LET id == Head(inbox[g]) IN
       \E body \in IF id \in Calls THEN Bodies ELSE {"ok"} :
          /\ outbox' = [outbox EXCEPT ![g] = Append(@, [id |-> id, body |-> body])]
          /\ verdict' = [c \in Callers |-> IF id = Call(c) THEN body ELSE verdict[c]]
          /\ pinged' = IF id \in Calls THEN pinged ELSE pinged \cup {g}
    /\ UNCHANGED <<backendVars, os, eof, callerVars, stopVars>>

Exit(g) ==
    /\ os' = [os EXCEPT ![g] = "exited"]
    /\ inbox' = [inbox EXCEPT ![g] = <<>>]
    /\ UNCHANGED <<backendVars, eof, pinged, verdict, callerVars>>

(* The child dies; the answer it was about to write may be lost.  The last *)
(* child of the bound does not die by itself.                              *)
ChildCrash(g) ==
    /\ os[g] = "running" /\ g < MaxSpawns
    /\ Exit(g)
    /\ \/ UNCHANGED outbox
       \/ outbox[g] # <<>> /\ outbox' = [outbox EXCEPT ![g] = Front(@)]
    /\ UNCHANGED stopVars

ChildEof(g) ==
    /\ os[g] = "running" /\ g \in eof /\ inbox[g] = <<>> /\ Drained(g)
    /\ Exit(g)
    /\ UNCHANGED <<outbox, stopVars>>
-----------------------------------------------------------------------------
(* stop(), called once by Host.dispose, of a Host whose start succeeded.   *)

(* Faulty variant: stop() does not say that it is stopping.                *)
StopBegin_NoFlag ==
    /\ stopper = "none" /\ everReady
    /\ rpcClosed' = TRUE
    /\ FailPending
    /\ captured' = child
    /\ stopper' = IF child = 0 THEN "done" ELSE "grace"
    /\ eof' = eof \cup ({child} \ {0})
    /\ UNCHANGED <<state, stopping, restartTimer, everReady, stamps, child, spawned, starter,
                   os, inbox, outbox, pinged, verdict, tgt>>

(* Closing the RpcClient fails a ping of start() too, whose continuation   *)
(* sets the state.                                                         *)
StopBegin ==
    /\ stopper = "none" /\ everReady
    /\ stopping' = TRUE
    /\ restartTimer' = FALSE
    /\ rpcClosed' = TRUE
    /\ FailPending
    /\ captured' = child
    /\ IF child = 0
       THEN /\ stopper' = "done" /\ state' = "stopped"
            /\ UNCHANGED <<eof, starter>>
       ELSE /\ stopper' = "grace" /\ eof' = eof \cup {child}
            /\ IF starter = "ping" THEN StartFails ELSE UNCHANGED <<starter, state>>
    /\ UNCHANGED <<everReady, stamps, child, spawned, os, inbox, outbox, pinged, verdict,
                   tgt>>

StopReturns ==
    /\ stopper' = "done" /\ child' = 0 /\ state' = "stopped"
    /\ UNCHANGED <<stopping, everReady, stamps, restartTimer, spawned, starter, pending,
                   rpcClosed, childVars, callerVars, captured>>

StopExited ==
    /\ stopper \in {"grace", "await"}
    /\ os[captured] = "gone"
    /\ StopReturns

(* Faulty variant: after the grace period stop() gives up on the child.    *)
StopGraceOver_NoKill ==
    /\ stopper = "grace"
    /\ StopReturns

(* The grace period is over: on to the kill, unless the child has no pid.  *)
StopGraceOver ==
    /\ stopper = "grace"
    /\ IF os[captured] = "absent" THEN StopReturns
       ELSE stopper' = "kill" /\ UNCHANGED <<backendVars, childVars, callerVars, captured>>

(* killTree: by taskkill or SIGKILL, unless the child has ended meanwhile. *)
StopKill ==
    /\ stopper = "kill"
    /\ stopper' = "await"
    /\ IF os[captured] = "running" THEN Exit(captured) /\ UNCHANGED outbox
       ELSE UNCHANGED <<backendVars, childVars, callerVars>>
    /\ UNCHANGED captured
-----------------------------------------------------------------------------
(* Every call has returned and no start is under way.                      *)
Terminating ==
    /\ starter = "none" /\ \A c \in Callers : pc[c] = "returned"
    /\ UNCHANGED vars

StartStep == StartCheck \/ RestartFires \/ PingTimeOut
CallStep(c) == Invoke(c) \/ InvokeRefused(c) \/ WriteOk(c) \/ WriteError(c)
ChildStep(g) == ChildAnswer(g) \/ ChildCrash(g) \/ ChildEof(g)
StopStep == StopExited \/ StopGraceOver \/ StopKill

Next ==
    \/ HostStart \/ StartStep \/ WindowMoves
    \/ \E c \in Callers : CallStep(c) \/ TimeOut(c)
    \/ \E g \in Gens : AcceptLine(g) \/ HandleExit(g) \/ ChildStep(g)
    \/ StopBegin \/ StopStep
    \/ Terminating

Spec == Init /\ [][Next]_vars

(* The event loop runs every callback that is due, and its timers fire;    *)
(* nothing is assumed of the child, of the shell, or of the call timers.   *)
Fairness ==
    /\ WF_vars(StartStep) /\ WF_vars(StopStep)
    /\ \A c \in Callers : WF_vars(WriteOk(c) \/ WriteError(c))
    /\ \A g \in Gens : WF_vars(AcceptLine(g)) /\ WF_vars(HandleExit(g))

FairSpec == Spec /\ Fairness
-----------------------------------------------------------------------------
(* Safety.                                                                 *)

(* Every child that runs, or whose end has not been noticed, is the one    *)
(* the guardian holds: no restart, failed start or stop lets go of a child *)
(* that is still there, so two never write to one database.                *)
NoOrphan == \A g \in Gens : os[g] \in {"running", "exited"} => g = child

(* The shell is told "ready" only while there is a child that has itself   *)
(* answered a ping, not one whose predecessor did.                         *)
ReadyAnswered == state = "ready" => child \in pinged \/ stopping

(* A call waits for an answer only if the answer can still reach it: its   *)
(* id is registered and the child it was sent to is the current one.       *)
WaitersOnCurrent ==
    \A c \in Callers :
        /\ pc[c] = "await" => Call(c) \in pending
        /\ Call(c) \in pending =>
               child # 0 /\ tgt[c] = child /\ pc[c] \in {"writing", "await"}

(* Only a backend that has been ready is restarted, by one timer at a      *)
(* time, when no child is left.                                            *)
RestartsAllowed ==
    /\ spawned > 1 => everReady
    /\ restartTimer => everReady /\ child = 0 /\ ~stopping

(* The inductive invariant.  On the children: they are started in order,   *)
(* the one that is there is the current one.                               *)
ChildInv ==
    /\ \A g \in Gens : os[g] = "unborn" <=> g > spawned
    /\ child # 0 => child = spawned /\ os[child] # "gone"
    /\ starter = "ping" => child = spawned /\ child # 0
    /\ starter # "none" \/ everReady => spawned > 0

(* On stop(): from its call on nothing is pending any more, and the only   *)
(* child there can be is the one it waits for.                             *)
StopInv ==
    /\ stopping = rpcClosed /\ (stopping <=> stopper # "none")
    /\ stopping => everReady /\ pending = {} /\ starter # "ping"
    /\ stopper \in {"grace", "kill", "await"} => child \in {0, captured}
    /\ stopper = "done" => child = 0

(* On pings: only start() waits for one, of the current child, and a child *)
(* is asked and answers no ping but its own.                               *)
PingPending == \A g \in Gens : Ping(g) \in pending => g = spawned /\ starter = "ping"
PingAsked ==
    \A g \in Gens : \A i \in DOMAIN inbox[g] : inbox[g][i] \in Calls \cup {Ping(g)}
PingAnswered ==
    \A g \in Gens : \A i \in DOMAIN outbox[g] :
        outbox[g][i].id \in Calls \/ (outbox[g][i].id = Ping(g) /\ g \in pinged)

PingInv == PingPending /\ PingAsked /\ PingAnswered

(* On calls: a request is in a pipe at most once and not yet carried out,  *)
(* an answer is what the child made of the request it names.               *)
CallInv ==
    /\ \A c \in Callers :
          /\ pc[c] \in {"idle", "writing"} => verdict[c] = "none"
          /\ pc[c] # "returned" => outcome[c] = "none"
    /\ \A c \in Callers, g \in Gens : \A i \in DOMAIN inbox[g] :
          inbox[g][i] = Call(c) =>
              /\ verdict[c] = "none" /\ pc[c] \in {"await", "returned"}
              /\ pc[c] = "returned" => outcome[c] = "failed"
              /\ \A h \in Gens : \A j \in DOMAIN inbox[h] :
                    inbox[h][j] = Call(c) => h = g /\ j = i
    /\ \A c \in Callers, g \in Gens : \A i \in DOMAIN outbox[g] :
          outbox[g][i].id = Call(c) =>
              outbox[g][i].body = verdict[c] /\ pc[c] \in {"await", "returned"}

IInv ==
    /\ TypeOK /\ ChildInv /\ NoOrphan /\ StopInv /\ PingInv /\ ReadyAnswered
    /\ WaitersOnCurrent /\ RestartsAllowed /\ CallInv

(* Once stop() is called no further child is started.                      *)
NoSpawnAfterStop == [][stopper # "none" => spawned' = spawned]_vars

(* The guardian keeps the promises of AtMostOnceRpc to the shell: at most  *)
(* one execution, answers that belong to the call, none after stop().      *)
CallStatus == [c \in Callers |->
    CASE pc[c] = "idle" -> "idle" [] pc[c] = "returned" -> outcome[c] [] OTHER -> "active"]
Stage ==
    IF stopper = "done" THEN "down" ELSE IF stopper = "none" THEN "open" ELSE "closing"

Rpc == INSTANCE AtMostOnceRpc WITH status <- CallStatus, stage <- Stage

Implements == Rpc!Spec
-----------------------------------------------------------------------------
(* Liveness.                                                               *)

(* start() does not stay half-way: a starting or restarting backend        *)
(* becomes ready, failed or stopped.                                       *)
StartSettles ==
    state \in {"starting", "restarting"} ~> state \in {"ready", "failed", "stopped"}

(* When the child ends, the calls that wait for it end, timers or not.     *)
CrashEndsCalls ==
    \A c \in Callers :
        (pc[c] = "await" /\ os[tgt[c]] = "exited") ~> pc[c] = "returned"

(* stop() returns, and so do the calls made before it, even when the child *)
(* hangs with a full pipe.                                                 *)
StopEnds ==
    stopper # "none" ~>
        stopper = "done" /\ \A c \in Callers : pc[c] \in {"idle", "returned"}
=============================================================================
