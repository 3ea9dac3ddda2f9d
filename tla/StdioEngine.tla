---------------------------- MODULE StdioEngine ----------------------------
(***************************************************************************)
(* server/internal/task/engine_stdio.go: the client that runs the Python   *)
(* engine as a child process and calls it with JSON-RPC lines on its stdin *)
(* and stdout.  Task goroutines (Callers) share one client; a child is     *)
(* started when a call finds none, one reader goroutine per child delivers *)
(* its answers, and Close shuts the client down while calls are running.   *)
(*                                                                         *)
(* One action is one critical section of mu, one operation on a pipe or    *)
(* channel, or one step of the child.  writeMu is held by the caller whose *)
(* pc is "writing".  A generation is one child process; generation 0       *)
(* stands for Go's nil.  The child (src/engine/src/omo/rpc/server.py) is   *)
(* modelled by what it does with lines: it reads them in order, answers    *)
(* each one before it reads the next, and leaves at the end of its stdin.  *)
(***************************************************************************)
EXTENDS Naturals, Sequences, Functions

CONSTANTS
    Callers,      \* the goroutines that call the engine, once each
    MaxStarts,    \* bound on how often the child is started
    PipeCap       \* requests that fit in the child's stdin pipe

ASSUME MaxStartsAssumption == MaxStarts \in Nat
ASSUME PipeCapAssumption == PipeCap \in Nat \ {0}

Gens == 1..MaxStarts
NoId == 0                       \* ids start at 1; an answer without id has 0
Bodies == {"ok", "appErr"}      \* result, or error answered by the engine
Methods == {"ping", "work"}     \* work: simulate or optimize
Request == [id : Nat, caller : Callers, method : Methods]
Reply == [id : Nat, body : Bodies]
Delivery == [to : Callers, body : Bodies]

VARIABLES
    proc,         \* the current generation, 0 if there is none
    pending,      \* id -> the caller whose reply channel is registered
    nextID,       \* the last request id handed out
    recent,       \* the last start is less than engineRestartMinInterval ago
    closed,       \* Close has begun
    starts        \* number of children started so far
clientVars == <<proc, pending, nextID, recent, closed, starts>>

VARIABLES
    os,           \* per generation: unborn, running, exited, reaped
    eof,          \* generations whose stdin the client has closed
    inbox,        \* per generation: requests in its stdin pipe
    busy,         \* per generation: the reply under computation, or Idle
    outbox,       \* per generation: replies in its stdout pipe
    delivering,   \* per generation: what dispatchLine is about to send
    verdict       \* per caller: what the child made of its work request
engineVars == <<os, eof, inbox, busy, outbox, delivering, verdict>>

VARIABLES
    pc,           \* per caller: where its call stands
    method,       \* per caller: the request it is making
    reqID,        \* per caller: the id of that request
    tgt,          \* per caller: the generation it writes to
    chan,         \* per caller: its reply channel, which holds one result
    outcome       \* per caller: how its call ended
callerVars == <<pc, method, reqID, tgt, chan, outcome>>

VARIABLES
    closer,       \* where the goroutine in Close stands
    captured      \* the generation Close took over, 0 if none
closeVars == <<closer, captured>>

vars == <<clientVars, engineVars, callerVars, closeVars>>

Idle == [id |-> NoId, body |-> "none"]
Nobody == [to |-> "nobody", body |-> "none"]
Empty == "empty"
Waiting == {"lockWrite", "writing", "await", "forget"}  \* a channel is registered

ClientTypeOK ==
    /\ proc \in {0} \cup Gens
    /\ pending \in [DOMAIN pending -> Callers] /\ DOMAIN pending \subseteq Nat
    /\ nextID \in Nat
    /\ recent \in BOOLEAN
    /\ closed \in BOOLEAN
    /\ starts \in 0..MaxStarts

EngineTypeOK ==
    /\ os \in [Gens -> {"unborn", "running", "exited", "reaped"}]
    /\ eof \subseteq Gens
    /\ inbox \in [Gens -> Seq(Request)]
    /\ busy \in [Gens -> Reply \cup {Idle}]
    /\ outbox \in [Gens -> Seq(Reply)]
    /\ delivering \in [Gens -> Delivery \cup {Nobody}]
    /\ verdict \in [Callers -> Bodies \cup {"none"}]

CallerTypeOK ==
    /\ pc \in [Callers -> {"idle", "alloc", "register", "returned"} \cup Waiting]
    /\ method \in [Callers -> Methods]
    /\ reqID \in [Callers -> Nat]
    /\ tgt \in [Callers -> {0} \cup Gens]
    /\ chan \in [Callers -> Bodies \cup {"gone", Empty}]
    /\ outcome \in [Callers -> Bodies \cup {"none", "refused", "failed"}]

CloseTypeOK ==
    /\ closer \in {"idle", "eof", "waiting", "killed", "done"}
    /\ captured \in {0} \cup Gens
    /\ closer \in {"eof", "waiting", "killed"} => captured # 0

TypeOK == ClientTypeOK /\ EngineTypeOK /\ CallerTypeOK /\ CloseTypeOK

Init ==
    /\ proc = 0 /\ pending = [i \in {} |-> 0] /\ nextID = 0
    /\ recent = FALSE /\ closed = FALSE /\ starts = 0
    /\ os = [g \in Gens |-> "unborn"] /\ eof = {}
    /\ inbox = [g \in Gens |-> <<>>] /\ outbox = [g \in Gens |-> <<>>]
    /\ busy = [g \in Gens |-> Idle] /\ delivering = [g \in Gens |-> Nobody]
    /\ verdict = [c \in Callers |-> "none"]
    /\ pc = [c \in Callers |-> "idle"] /\ method = [c \in Callers |-> "work"]
    /\ reqID = [c \in Callers |-> NoId] /\ tgt = [c \in Callers |-> 0]
    /\ chan = [c \in Callers |-> Empty]
    /\ outcome = [c \in Callers |-> "none"]
    /\ closer = "idle" /\ captured = 0
-----------------------------------------------------------------------------
(* Helpers.                                                                *)

Goto(c, label) == pc' = [pc EXCEPT ![c] = label]

Return(c, how) ==
    /\ Goto(c, "returned")
    /\ outcome' = [outcome EXCEPT ![c] = how]

(* What call checks, twice, under mu before it goes on.                    *)
CanCall == ~closed /\ proc # 0

(* When startLocked may start a child.                                     *)
MayStart == ~closed /\ proc = 0 /\ ~recent

(* A write to the child's stdin finds an open pipe with a reader.          *)
Writable(g) == os[g] = "running" /\ g \notin eof

Without(i) == Restrict(pending, DOMAIN pending \ {i})

(* failPendingLocked: every registered channel gets an error, at once.  A  *)
(* full channel would block the sender while it holds mu.                  *)
FailPending ==
    /\ \A c \in Range(pending) : chan[c] = Empty
    /\ chan' = [c \in Callers |-> IF c \in Range(pending) THEN "gone" ELSE chan[c]]
    /\ pending' = [i \in {} |-> 0]

(* How a call ends once its channel has delivered r.                       *)
OutcomeOf(r) == IF r = "gone" THEN "failed" ELSE r
-----------------------------------------------------------------------------
(* The caller: invoke, ensureStarted, call.                                *)

(* ensureStarted fails: the client is closed, the last start is too recent *)
(* or the child cannot be started.                                         *)
EnsureRefused(c) ==
    /\ pc[c] = "idle"
    /\ closed \/ proc = 0
    /\ Return(c, "refused")
    /\ UNCHANGED <<clientVars, engineVars, method, reqID, tgt, chan, closeVars>>

(* ensureStarted finds a child, answering pings or not.                    *)
EnsureFound(c) ==
    /\ pc[c] = "idle"
    /\ CanCall
    /\ Goto(c, "alloc")
    /\ UNCHANGED <<clientVars, engineVars, method, reqID, tgt, chan, outcome, closeVars>>

(* ensureStarted starts a child; this caller will ping it first.           *)
EnsureSpawned(c) ==
    /\ pc[c] = "idle"
    /\ MayStart
    /\ starts < MaxStarts
    /\ starts' = starts + 1
    /\ proc' = starts + 1
    /\ os' = [os EXCEPT ![starts + 1] = "running"]
    /\ recent' = TRUE
    /\ method' = [method EXCEPT ![c] = "ping"]
    /\ Goto(c, "alloc")
    /\ UNCHANGED <<pending, nextID, closed, eof, inbox, busy, outbox, delivering,
                   verdict, reqID, tgt, chan, outcome, closeVars>>

(* engineRestartMinInterval has passed since the last start.  Once the     *)
(* bound on starts is reached nobody looks at it any more.                 *)
IntervalElapsed ==
    /\ recent
    /\ starts < MaxStarts
    /\ recent' = FALSE
    /\ UNCHANGED <<proc, pending, nextID, closed, starts, engineVars, callerVars, closeVars>>

(* Faulty variant: every request carries the same id.                      *)
AllocateId_NoIncrement(c) ==
    /\ pc[c] = "alloc"
    /\ CanCall
    /\ reqID' = [reqID EXCEPT ![c] = nextID + 1]
    /\ Goto(c, "register")
    /\ UNCHANGED <<clientVars, engineVars, method, tgt, chan, outcome, closeVars>>

(* call, first critical section: take an id.                               *)
AllocateId(c) ==
    /\ pc[c] = "alloc"
    /\ \/ /\ ~CanCall
          /\ Return(c, "refused")
          /\ UNCHANGED <<nextID, reqID>>
       \/ /\ CanCall
          /\ nextID' = nextID + 1
          /\ reqID' = [reqID EXCEPT ![c] = nextID + 1]
          /\ Goto(c, "register")
          /\ UNCHANGED outcome
    /\ UNCHANGED <<proc, pending, recent, closed, starts, engineVars, method, tgt,
                   chan, closeVars>>

(* Faulty variant: closed and stdin are not looked at a second time.       *)
Register_NoRecheck(c) ==
    /\ pc[c] = "register"
    /\ tgt' = [tgt EXCEPT ![c] = proc]
    /\ chan' = [chan EXCEPT ![c] = Empty]
    /\ pending' = [i \in DOMAIN pending \cup {reqID[c]} |->
                       IF i = reqID[c] THEN c ELSE pending[i]]
    /\ Goto(c, "lockWrite")
    /\ UNCHANGED <<proc, nextID, recent, closed, starts, engineVars, method, reqID,
                   outcome, closeVars>>

(* call, second critical section: register a fresh channel and take the    *)
(* stdin of the child that is current now, which may be a newer one.       *)
Register(c) ==
    /\ pc[c] = "register"
    /\ \/ /\ ~CanCall
          /\ Return(c, "refused")
          /\ UNCHANGED <<pending, tgt, chan>>
       \/ /\ CanCall
          /\ tgt' = [tgt EXCEPT ![c] = proc]
          /\ chan' = [chan EXCEPT ![c] = Empty]
          /\ pending' = [i \in DOMAIN pending \cup {reqID[c]} |->
                             IF i = reqID[c] THEN c ELSE pending[i]]
          /\ Goto(c, "lockWrite")
          /\ UNCHANGED outcome
    /\ UNCHANGED <<proc, nextID, recent, closed, starts, engineVars, method, reqID,
                   closeVars>>

AcquireWrite(c) ==
    /\ pc[c] = "lockWrite"
    /\ \A d \in Callers : pc[d] # "writing"
    /\ Goto(c, "writing")
    /\ UNCHANGED <<clientVars, engineVars, method, reqID, tgt, chan, outcome, closeVars>>

(* The write returns: the line fitted in the pipe.  While the pipe is full *)
(* and open the write blocks; the timer is not running yet.                *)
WriteOk(c) ==
    LET g == tgt[c] IN
    /\ pc[c] = "writing"
    /\ Writable(g)
    /\ Len(inbox[g]) < PipeCap
    /\ inbox' = [inbox EXCEPT ![g] =
                    Append(@, [id |-> reqID[c], caller |-> c, method |-> method[c]])]
    /\ Goto(c, "await")
    /\ UNCHANGED <<clientVars, os, eof, busy, outbox, delivering, verdict, method,
                   reqID, tgt, chan, outcome, closeVars>>

(* The write fails, at once or after blocking: the child is gone, or Close *)
(* has closed the pipe.                                                    *)
WriteError(c) ==
    /\ pc[c] = "writing"
    /\ ~Writable(tgt[c])
    /\ Goto(c, "forget")
    /\ UNCHANGED <<clientVars, engineVars, method, reqID, tgt, chan, outcome, closeVars>>

(* The select takes the timer; a reply may be in the channel already.      *)
TimeOut(c) ==
    /\ pc[c] = "await"
    /\ Goto(c, "forget")
    /\ UNCHANGED <<clientVars, engineVars, method, reqID, tgt, chan, outcome, closeVars>>

Forget(c) ==
    /\ pc[c] = "forget"
    /\ pending' = Without(reqID[c])
    /\ Return(c, "failed")
    /\ UNCHANGED <<proc, nextID, recent, closed, starts, engineVars, method, reqID,
                   tgt, chan, closeVars>>

(* The select takes the reply.  A good ping lets the caller go on to its   *)
(* own request; anything else ends the call.                               *)
TakeReply(c) ==
    /\ pc[c] = "await"
    /\ chan[c] # Empty
    /\ chan' = [chan EXCEPT ![c] = Empty]
    /\ \/ /\ method[c] = "ping" /\ chan[c] = "ok"
          /\ method' = [method EXCEPT ![c] = "work"]
          /\ Goto(c, "alloc")
          /\ UNCHANGED outcome
       \/ /\ method[c] = "work" \/ chan[c] # "ok"
          /\ Return(c, IF method[c] = "ping" THEN "failed" ELSE OutcomeOf(chan[c]))
          /\ UNCHANGED method
    /\ UNCHANGED <<clientVars, engineVars, reqID, tgt, closeVars>>
-----------------------------------------------------------------------------
(* The child: serve reads a line, handle_line carries it out, one answer   *)
(* is written.  It may die or stop making progress at any point.           *)

EngineTake(g) ==
    /\ os[g] = "running" /\ busy[g] = Idle /\ inbox[g] # <<>>
    /\ inbox' = [inbox EXCEPT ![g] = Tail(@)]
    /\ LET req == Head(inbox[g]) IN
       \E body \in IF req.method = "ping" THEN {"ok"} ELSE Bodies :
          /\ busy' = [busy EXCEPT ![g] = [id |-> req.id, body |-> body]]
          /\ verdict' = IF req.method = "ping" THEN verdict
                        ELSE [verdict EXCEPT ![req.caller] = body]
    /\ UNCHANGED <<clientVars, os, eof, outbox, delivering, callerVars, closeVars>>

EngineReply(g) ==
    /\ os[g] = "running" /\ busy[g] # Idle
    /\ outbox' = [outbox EXCEPT ![g] = Append(@, busy[g])]
    /\ busy' = [busy EXCEPT ![g] = Idle]
    /\ UNCHANGED <<clientVars, os, eof, inbox, delivering, verdict, callerVars, closeVars>>

(* A line over MAX_LINE_BYTES is not parsed: the error has no id.          *)
EngineOversize(g) ==
    /\ os[g] = "running" /\ busy[g] = Idle /\ inbox[g] # <<>>
    /\ Head(inbox[g]).method = "work"
    /\ inbox' = [inbox EXCEPT ![g] = Tail(@)]
    /\ outbox' = [outbox EXCEPT ![g] = Append(@, [id |-> NoId, body |-> "appErr"])]
    /\ UNCHANGED <<clientVars, os, eof, busy, delivering, verdict, callerVars, closeVars>>

(* What is in the pipes of a dead child: nobody reads its stdin any more,  *)
(* the reader goroutine still gets what it wrote.                          *)
Exit(g) ==
    /\ os' = [os EXCEPT ![g] = "exited"]
    /\ inbox' = [inbox EXCEPT ![g] = <<>>]
    /\ busy' = [busy EXCEPT ![g] = Idle]
    /\ UNCHANGED <<clientVars, eof, outbox, delivering, verdict, callerVars>>

EngineEof(g) ==
    /\ os[g] = "running" /\ g \in eof /\ busy[g] = Idle /\ inbox[g] = <<>>
    /\ Exit(g)
    /\ UNCHANGED closeVars

EngineCrash(g) ==
    /\ os[g] = "running"
    /\ Exit(g)
    /\ UNCHANGED closeVars
-----------------------------------------------------------------------------
(* The reader goroutine of a generation: runGeneration.                    *)

(* Faulty variant: the waiter is looked up and not removed.                *)
DispatchLine_NoDelete(g) ==
    /\ outbox[g] # <<>> /\ delivering[g] = Nobody
    /\ outbox' = [outbox EXCEPT ![g] = Tail(@)]
    /\ LET line == Head(outbox[g]) IN
       /\ line.id \in DOMAIN pending
       /\ delivering' = [delivering EXCEPT ![g] =
                            [to |-> pending[line.id], body |-> line.body]]
    /\ UNCHANGED <<clientVars, os, eof, inbox, busy, verdict, callerVars, closeVars>>

(* dispatchLine up to its unlock: the waiter is looked up and removed.     *)
DispatchLine(g) ==
    /\ outbox[g] # <<>> /\ delivering[g] = Nobody
    /\ outbox' = [outbox EXCEPT ![g] = Tail(@)]
    /\ LET line == Head(outbox[g]) IN
       IF line.id # NoId /\ line.id \in DOMAIN pending
       THEN /\ pending' = Without(line.id)
            /\ delivering' = [delivering EXCEPT ![g] =
                                 [to |-> pending[line.id], body |-> line.body]]
       ELSE UNCHANGED <<pending, delivering>>
    /\ UNCHANGED <<proc, nextID, recent, closed, starts, os, eof, inbox, busy, verdict,
                   callerVars, closeVars>>

(* dispatchLine after its unlock: the send on the channel.                 *)
DeliverReply(g) ==
    LET d == delivering[g] IN
    /\ d # Nobody
    /\ chan[d.to] = Empty
    /\ chan' = [chan EXCEPT ![d.to] = d.body]
    /\ delivering' = [delivering EXCEPT ![g] = Nobody]
    /\ UNCHANGED <<clientVars, os, eof, inbox, busy, outbox, verdict, pc, method, reqID,
                   tgt, outcome, closeVars>>

(* Faulty variant: the waiters of a dead child are not failed.             *)
GenerationEnded_NoFail(g) ==
    /\ os[g] = "exited" /\ outbox[g] = <<>> /\ delivering[g] = Nobody
    /\ os' = [os EXCEPT ![g] = "reaped"]
    /\ proc' = IF proc = g THEN 0 ELSE proc
    /\ UNCHANGED <<pending, nextID, recent, closed, starts, eof, inbox, busy, outbox,
                   delivering, verdict, callerVars, closeVars>>

(* The reader is at the end of the child's stdout, waits for the child and *)
(* runs generationEnded; genDone is closed after it.                       *)
GenerationEnded(g) ==
    /\ os[g] = "exited" /\ outbox[g] = <<>> /\ delivering[g] = Nobody
    /\ os' = [os EXCEPT ![g] = "reaped"]
    /\ IF proc = g
       THEN proc' = 0 /\ FailPending
       ELSE UNCHANGED <<proc, pending, chan>>
    /\ UNCHANGED <<nextID, recent, closed, starts, eof, inbox, busy, outbox, delivering,
                   verdict, pc, method, reqID, tgt, outcome, closeVars>>
-----------------------------------------------------------------------------
(* Close.                                                                  *)

(* Faulty variant: Close does not fail the waiters.                        *)
CloseBegin_NoFail ==
    /\ ~closed
    /\ closed' = TRUE
    /\ captured' = proc
    /\ proc' = 0
    /\ closer' = IF proc = 0 THEN "done" ELSE "eof"
    /\ UNCHANGED <<pending, nextID, recent, starts, engineVars, callerVars>>

CloseBegin ==
    /\ ~closed
    /\ closed' = TRUE
    /\ captured' = proc
    /\ proc' = 0
    /\ FailPending
    /\ closer' = IF proc = 0 THEN "done" ELSE "eof"
    /\ UNCHANGED <<nextID, recent, starts, engineVars, pc, method, reqID, tgt, outcome>>

CloseStdin ==
    /\ closer = "eof"
    /\ eof' = eof \cup {captured}
    /\ closer' = "waiting"
    /\ UNCHANGED <<clientVars, os, inbox, busy, outbox, delivering, verdict, callerVars,
                   captured>>

(* genDone is closed: the child has been reaped.                           *)
CloseReaped ==
    /\ closer \in {"waiting", "killed"}
    /\ os[captured] = "reaped"
    /\ closer' = "done"
    /\ UNCHANGED <<clientVars, engineVars, callerVars, captured>>

(* Three seconds have passed: the child is killed if it is still there.    *)
CloseKill ==
    /\ closer = "waiting"
    /\ closer' = "killed"
    /\ IF os[captured] = "running"
       THEN Exit(captured)
       ELSE UNCHANGED <<clientVars, engineVars, callerVars>>
    /\ UNCHANGED captured
-----------------------------------------------------------------------------
CallerStep(c) ==
    \/ AllocateId(c) \/ Register(c) \/ AcquireWrite(c) \/ WriteOk(c) \/ WriteError(c)
    \/ Forget(c) \/ TakeReply(c)

EnsureStarted(c) == EnsureRefused(c) \/ EnsureFound(c) \/ EnsureSpawned(c)

EngineStep(g) ==
    EngineTake(g) \/ EngineReply(g) \/ EngineOversize(g) \/ EngineEof(g) \/ EngineCrash(g)

ReaderStep(g) == DispatchLine(g) \/ DeliverReply(g) \/ GenerationEnded(g)

CloseStep == CloseStdin \/ CloseReaped \/ CloseKill

(* All calls have returned: nothing more has to happen.                    *)
Terminating == (\A c \in Callers : pc[c] = "returned") /\ UNCHANGED vars

Next ==
    \/ \E c \in Callers : EnsureStarted(c) \/ CallerStep(c) \/ TimeOut(c)
    \/ \E g \in Gens : EngineStep(g) \/ ReaderStep(g)
    \/ IntervalElapsed
    \/ CloseBegin
    \/ CloseStep
    \/ Terminating

Spec == Init /\ [][Next]_vars

(* The Go scheduler runs every goroutine that can run, and sync.Mutex does *)
(* not starve a waiter: hence SF for callers, whose AcquireWrite is        *)
(* enabled on and off.  Nothing is assumed of the child, which may hang,   *)
(* of the environment, or of the call timer.                               *)
Fairness ==
    /\ \A c \in Callers : SF_vars(CallerStep(c))
    /\ \A g \in Gens : WF_vars(ReaderStep(g))
    /\ WF_vars(CloseStep)

FairSpec == Spec /\ Fairness

(* ... and a timer that has been started fires.                            *)
TimedSpec == FairSpec /\ \A c \in Callers : WF_vars(TimeOut(c))
-----------------------------------------------------------------------------
(* Safety.                                                                 *)

(* However calls, crashes, restarts and Close interleave, two children     *)
(* never run at the same time: a new one is started only after the last    *)
(* one has been waited for, and none once Close has taken the last over.   *)
AtMostOneProcess ==
    \A g, h \in Gens : os[g] = "running" /\ os[h] \in {"running", "exited"} => g = h

(* When Close has returned no child is left, not even a zombie.            *)
NoProcessAfterClose ==
    closer = "done" => \A g \in Gens : os[g] \in {"unborn", "reaped"}

(* A registered channel belongs to a call that is still in progress with   *)
(* that very id, and that writes to the child that is current: no waiter   *)
(* is left behind by a crash, by Close, or by its own timeout.             *)
PendingOnCurrent ==
    \A i \in DOMAIN pending :
        LET c == pending[i] IN
        proc # 0 /\ tgt[c] = proc /\ reqID[c] = i /\ pc[c] \in Waiting

Registered(c) == \E i \in DOMAIN pending : pending[i] = c
InFlight(c) == \E g \in Gens : delivering[g] # Nobody /\ delivering[g].to = c
Answered(c) == chan[c] # Empty

(* A call that waits, or is about to, has exactly one result coming: it is *)
(* registered, or a result for it is being sent, or one lies in its        *)
(* channel.  It is never forgotten, and never sent two results, of which   *)
(* the second would block the reader, or mu, on the channel's one slot.    *)
OneResult ==
    \A c \in Callers :
        /\ pc[c] \in {"lockWrite", "writing", "await"} =>
               Registered(c) \/ InFlight(c) \/ Answered(c)
        /\ ~(Registered(c) /\ InFlight(c))
        /\ ~(Registered(c) /\ Answered(c))
        /\ ~(InFlight(c) /\ Answered(c))

(* What makes these inductive.  On the child: it is current from its start *)
(* until it has been waited for, unless Close takes it over.               *)
ProcessInv ==
    /\ \A g \in Gens : os[g] = "unborn" <=> g > starts
    /\ proc # 0 => os[proc] \in {"running", "exited"}
    /\ \A g \in Gens : os[g] \in {"running", "exited"} =>
           g = proc \/ (closed /\ g = captured)
    /\ closed => proc = 0
    /\ closed <=> closer # "idle"
    /\ closer = "done" => captured = 0 \/ os[captured] = "reaped"

(* On the calls: ids are never shared or reused, a call that has not       *)
(* registered has nothing coming, and no two readers send to one call.     *)
WaiterInv ==
    /\ \A c, d \in Callers : reqID[c] = reqID[d] /\ reqID[c] # NoId => c = d
    /\ \A c \in Callers : reqID[c] <= nextID
    /\ \A c \in Callers : pc[c] \in {"register"} \cup Waiting => reqID[c] # NoId
    /\ \A c \in Callers : pc[c] \in {"idle", "alloc", "register"} =>
           ~Registered(c) /\ ~InFlight(c) /\ ~Answered(c)
    /\ \A g, h \in Gens :
           delivering[g] # Nobody /\ delivering[h] # Nobody
           /\ delivering[g].to = delivering[h].to => g = h

(* On what the child makes of a request.  What has not been sent has not   *)
(* been carried out; a result on its way to a call, or in its channel, is  *)
(* what the child made of the call's own request.                          *)
Live(c) == pc[c] \in {"register"} \cup Waiting    \* the id of its request is in use

VerdictInv ==
    /\ \A c \in Callers :
          method[c] = "ping" \/ pc[c] \in {"idle", "alloc", "register", "lockWrite", "writing"}
              => verdict[c] = "none"
    /\ \A g \in Gens : delivering[g] # Nobody =>
          LET d == delivering[g] IN method[d.to] = "work" => verdict[d.to] = d.body
    /\ \A c \in Callers :
          chan[c] \in Bodies /\ method[c] = "work" => verdict[c] = chan[c]

(* A work request in a pipe is the only one of its caller, who waits for   *)
(* its answer or has given up on it; it has not been carried out yet.      *)
Outstanding(c, id) ==
    /\ reqID[c] = id /\ method[c] = "work" /\ verdict[c] = "none"
    /\ pc[c] \in {"await", "forget", "returned"}
    /\ pc[c] = "returned" => outcome[c] = "failed"

RequestInv ==
    \A g \in Gens : \A i \in DOMAIN inbox[g] :
        LET r == inbox[g][i] IN
        /\ r.id <= nextID
        /\ \A c \in Callers : Live(c) /\ reqID[c] = r.id => method[c] = r.method
        /\ r.method = "work" =>
              /\ Outstanding(r.caller, r.id)
              /\ \A h \in Gens : \A j \in DOMAIN inbox[h] :
                    inbox[h][j].method = "work" /\ inbox[h][j].caller = r.caller
                        => h = g /\ j = i

(* An answer of the child that still matches a call answers its request.   *)
Truthful(r) ==
    /\ r.id <= nextID
    /\ \A c \in Callers :
          Live(c) /\ reqID[c] = r.id /\ method[c] = "work" => verdict[c] = r.body

ReplyInv ==
    \A g \in Gens : Truthful(busy[g]) /\ \A i \in DOMAIN outbox[g] : Truthful(outbox[g][i])

WorkInv == VerdictInv /\ RequestInv /\ ReplyInv

(* The inductive invariant.                                                *)
IInv == TypeOK /\ ProcessInv /\ PendingOnCurrent /\ OneResult /\ WaiterInv /\ WorkInv

(* The client keeps the promises of AtMostOnceRpc.                         *)
CallStatus == [c \in Callers |->
    CASE pc[c] = "idle" -> "idle" [] pc[c] = "returned" -> outcome[c] [] OTHER -> "active"]
Stage == IF closer = "done" THEN "down" ELSE IF closed THEN "closing" ELSE "open"

Rpc == INSTANCE AtMostOnceRpc WITH status <- CallStatus, stage <- Stage

Implements == Rpc!Spec
-----------------------------------------------------------------------------
(* Liveness.                                                               *)

(* When the child dies, a call that waits for its answer does not wait for *)
(* the timer: it ends because the child has ended.                         *)
CrashFailsWaiters ==
    \A c \in Callers, g \in Gens :
        (pc[c] = "await" /\ tgt[c] = g /\ os[g] = "exited") ~> (pc[c] # "await")

(* Once Close has begun it returns, and every call in progress returns,    *)
(* wherever it stood: also when it was blocked in a write to a hung child. *)
CloseReleasesCalls ==
    closed ~> (closer = "done" /\ \A c \in Callers : pc[c] \in {"idle", "returned"})

(* What DefaultEngineTimeout and docs/desktop.md claim: with the timer,    *)
(* every call returns.  It does not: the timer starts after the write.     *)
CallsReturn == \A c \in Callers : (pc[c] # "idle") ~> (pc[c] = "returned")
=============================================================================
