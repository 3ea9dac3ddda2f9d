---------------------------- MODULE EngineServer ----------------------------
(* The engine at work: omo.rpc.server.serve reads one line after another and  *)
(* writes one line for each request, the FastAPI application answers a        *)
(* request, or omo-cli runs one search.  A simulation is answered in one      *)
(* step; a search goes through the steps of DesignSearch while the process    *)
(* does nothing else.                                                         *)
(*                                                                            *)
(* An item of the script is what one of the three front ends is given:        *)
(*   rpc   a line: its form, its id (0: none or null), method and params, and *)
(*         whether what its answer quotes (the id, an unknown name) has a lone  *)
(*         surrogate, which JSON can escape and UTF-8 cannot encode             *)
(*   http  a POST: route and body                                             *)
(*   cli   the options of omo-cli optimize, and whether --json was given      *)
EXTENDS Transports, SequencesExt

CONSTANT Scripts        \* what the engine may be given, in order

VARIABLES
    script,             \* the items, fixed at the start
    pos,                \* how many of them have been taken
    busy,               \* a search answers the last of them
    outbox,             \* what has been written
    engine              \* "up", "ended" (end of input), "dead" (an exception)

serverVars == <<script, pos, busy, outbox, engine>>
vars == <<serverVars, searchVars>>

Item == script[pos + 1]

ParseError     == -32700
InvalidRequest == -32600
MethodNotFound == -32601
InvalidParams  == -32602
Unprocessable  == 422
InternalError  == 500
Success        == 0

Answer(id, code, result) == [id |-> id, code |-> code, result |-> result]

(* Faulty variant: a notification is answered like a request. *)
Reply_ToNotifications(item, code, result) ==
    Append(outbox, Answer(item.id, code, result))

(* A response is written for a line with an id, and for one whose id could   *)
(* not be read; a notification is executed in silence.                       *)
Reply(item, code, result) ==
    IF item.id = 0 THEN outbox ELSE Append(outbox, Answer(item.id, code, result))

Protest(code) == Append(outbox, Answer(0, code, None))

Init ==
    /\ script \in Scripts
    /\ pos = 0
    /\ busy = FALSE
    /\ outbox = << >>
    /\ engine = "up"
    /\ SearchInit

Take(front) ==
    /\ engine = "up"
    /\ ~busy
    /\ pos < Len(script)
    /\ Item.front = front
    /\ pos' = pos + 1
    /\ UNCHANGED script

(* The item is answered without a search. *)
AnswerNow(written) ==
    /\ outbox' = written
    /\ UNCHANGED <<busy, engine, searchVars>>

(* An exception nobody expects ends the process; nothing is written. *)
Die == engine' = "dead" /\ UNCHANGED <<busy, outbox, searchVars>>

(* An answer under an id cannot be encoded if it quotes a lone surrogate. *)
Unwritable(item) == item.id # 0 /\ item.surrogate

Respond(item, code, result) ==
    IF Unwritable(item) THEN Die ELSE AnswerNow(Reply(item, code, result))

StartSearch(j) ==
    /\ Ask(j)
    /\ busy' = TRUE
    /\ UNCHANGED <<outbox, engine>>

-----------------------------------------------------------------------------
(* serve and handle_line *)

(* Lines that are no request: only a blank one is passed over in silence, and *)
(* only a missing method is reported under the id of the line.  json.loads    *)
(* raises more than handle_line expects: for an integer of too many digits,   *)
(* for too deep a nesting, and for a line there is no memory for.             *)
RpcMalformed ==
    /\ Take("rpc")
    /\ \/ Item.form = "blank" /\ AnswerNow(outbox)
       \/ Item.form \in {"oversized", "not_object"} /\ AnswerNow(Protest(InvalidRequest))
       \/ Item.form = "unparsable" /\ AnswerNow(Protest(ParseError))
       \/ Item.form = "unloadable" /\ Die
       \/ /\ Item.form = "no_method"
          /\ IF Unwritable(Item) THEN Die
             ELSE AnswerNow(Append(outbox, Answer(Item.id, InvalidRequest, None)))

Methods == {"ping", "simulate", "optimize"}

ParamsOk(item) == item.params.is \in {"null", "object"}

RpcRefuse ==
    /\ Take("rpc")
    /\ Item.form = "request"
    /\ \/ /\ Item.method \notin Methods
          /\ Respond(Item, MethodNotFound, None)
       \/ /\ Item.method \in Methods
          /\ ~ParamsOk(Item)
          /\ Respond(Item, InvalidParams, None)

RpcPing ==
    /\ Take("rpc")
    /\ Item.form = "request" /\ Item.method = "ping" /\ ParamsOk(Item)
    /\ Respond(Item, Success, "ok")

(* A simulation is refused for its shape, or is refused by or done by sim. *)
RpcSimulate ==
    LET p    == Fields(Item.params)
        spec == RpcSimulateSpec(p)
    IN /\ Take("rpc")
       /\ Item.form = "request" /\ Item.method = "simulate" /\ ParamsOk(Item)
       /\ IF RpcSimulateOverflows(p) THEN Die
          ELSE IF RpcSimulateFails(p) THEN Respond(Item, InvalidParams, None)
          ELSE IF Breaks(p, spec) THEN Die
          ELSE IF SimulateFails(spec) THEN Respond(Item, Unprocessable, None)
          ELSE Respond(Item, Success, Simulate(spec))

RpcOptimize ==
    LET p == Fields(Item.params)
    IN /\ Take("rpc")
       /\ Item.form = "request" /\ Item.method = "optimize" /\ ParamsOk(Item)
       /\ IF RpcOptimizeOverflows(p) THEN Die
          ELSE IF RpcOptimizeFails(p) THEN Respond(Item, InvalidParams, None)
          ELSE StartSearch(RpcJob(p))

-----------------------------------------------------------------------------
(* api.main: ValueError and a body pydantic refuses are both 422; any other   *)
(* exception ends its request alone.                                          *)

HttpPost ==
    LET body == Item.body
        spec == HttpSimulateSpec(body)
    IN /\ Take("http")
       /\ \/ /\ Item.route = "/simulate"
             /\ AnswerNow(
                  IF HttpSimulateFails(body) THEN Reply(Item, Unprocessable, None)
                  ELSE IF Breaks(body, spec) THEN Reply(Item, InternalError, None)
                  ELSE IF SimulateFails(spec) THEN Reply(Item, Unprocessable, None)
                  ELSE Reply(Item, Success, Simulate(spec)))
          \/ /\ Item.route = "/optimize"
             /\ IF HttpOptimizeFails(body)
                THEN AnswerNow(Reply(Item, Unprocessable, None))
                ELSE StartSearch(HttpJob(body))

(* cli.main.  Any exception is a traceback. *)
CliOptimize ==
    /\ Take("cli")
    /\ StartSearch(CliJob(Item.args))

(* The search an item asks for, if what it says has the right shape. *)
JobsOf(item) ==
    CASE item.front = "cli"  -> {CliJob(item.args)}
      [] item.front = "http" -> IF item.route = "/optimize" /\ ~HttpOptimizeFails(item.body)
                                THEN {HttpJob(item.body)} ELSE {}
      [] OTHER -> LET p == Fields(item.params)
                  IN IF /\ item.form = "request" /\ item.method = "optimize" /\ ParamsOk(item)
                        /\ ~RpcOptimizeFails(p)
                     THEN {RpcJob(p)} ELSE {}

(* The items are those of the three front ends, and Jobs has their searches.  *)
(* A POST has an answer of its own, and a command line has one search.  The   *)
(* params of a line are JSON, the objects in their fields included.           *)
Forms == {"blank", "oversized", "unparsable", "unloadable", "not_object", "no_method",
          "request"}

Items == UNION {Range(s) : s \in Scripts}

ASSUME ScriptsAssumption ==
    /\ \A s \in Scripts : s \in Seq(Range(s))
    /\ \A item \in Items :
          /\ item.front \in {"rpc", "http", "cli"}
          /\ item.front = "rpc" =>
                /\ item.form \in Forms /\ item.surrogate \in BOOLEAN
                /\ \A x \in Range(Fields(item.params)) :
                      IsRaw(x) /\ \A y \in Range(Fields(x)) : IsRaw(y)
          /\ item.front = "http" => item.id # 0
          /\ item.front = "cli" => item.id = 1 /\ DOMAIN item.args.numbers \subseteq Options
    /\ UNION {JobsOf(item) : item \in Items} \subseteq Jobs
-----------------------------------------------------------------------------
Search == busy /\ SearchStep /\ UNCHANGED serverVars

(* omo-cli prints the table as soon as the scan has ended and writes the     *)
(* --json file last, so what a late error leaves is the table without a file. *)
CliResult(item) ==
    [printed |-> report # None, saved |-> item.json /\ phase = "done"]

(* Faulty variant: what ends in an error is not marked as answered. *)
AnswerSearch_StaysBusy ==
    /\ busy
    /\ Return
    /\ busy' = (phase # "done")
    /\ outbox' = Reply(script[pos], IF phase = "done" THEN Success ELSE Unprocessable, None)
    /\ UNCHANGED <<script, pos, engine>>

Unanswerable(item) == item.front = "rpc" /\ (phase = "exhausted" \/ Unwritable(item))

(* The search has ended: its report or its error is written.  A MemoryError   *)
(* is another end of the JSON-RPC server, and one request's end for HTTP.     *)
AnswerSearch ==
    LET item == script[pos]
    IN /\ busy
       /\ Return
       /\ busy' = FALSE
       /\ UNCHANGED <<script, pos>>
       /\ \/ /\ item.front = "cli"
             /\ outbox' = Append(outbox, Answer(1, IF phase = "done" THEN Success ELSE 1,
                                                CliResult(item)))
             /\ engine' = IF phase = "done" THEN "up" ELSE "dead"
          \/ /\ Unanswerable(item)
             /\ engine' = "dead"
             /\ UNCHANGED outbox
          \/ /\ item.front # "cli" /\ ~Unanswerable(item)
             /\ outbox' = IF phase = "done"
                          THEN Reply(item, Success, [report |-> report, layers |-> layers])
                          ELSE Reply(item, IF phase = "exhausted" THEN InternalError
                                           ELSE Unprocessable, None)
             /\ UNCHANGED engine

(* End of standard input. *)
Eof ==
    /\ engine = "up" /\ ~busy /\ pos = Len(script)
    /\ engine' = "ended"
    /\ UNCHANGED <<script, pos, busy, outbox, searchVars>>

Serve == RpcMalformed \/ RpcRefuse \/ RpcPing \/ RpcSimulate \/ RpcOptimize
         \/ HttpPost \/ CliOptimize \/ AnswerSearch \/ Eof

(* Nothing is left to do.  Every other state has a step: a deadlock would be  *)
(* an engine that neither answers nor reads on.                               *)
Over == engine # "up" /\ UNCHANGED vars

Next == Serve \/ Search \/ Over

Spec == Init /\ [][Next]_vars
-----------------------------------------------------------------------------
(* Every item taken and every answer written is accounted for. *)
TypeOK ==
    /\ pos \in 0..Len(script)
    /\ busy \in BOOLEAN
    /\ busy <=> phase # "idle"
    /\ engine \in {"up", "ended", "dead"}
    /\ busy => engine = "up"
    /\ SearchTypeOK

(* One line out for every line that asks for an answer, in the order they     *)
(* came in and under their ids; none for a blank line or a notification, and  *)
(* one without an id for a line that could not be read.  The caller matches   *)
(* answers to requests by nothing else.  The answers stop only at a line that *)
(* ends the process, and then with the answer to the line before it: a line   *)
(* json.loads gives up on, one whose answer cannot be encoded, one with a     *)
(* number that overflows before any check refuses it, and one that exhausts   *)
(* the memory or divides by a vanishing thickness.  (A command line runs one  *)
(* search and may end in a traceback.)                                        *)
Expects(item) ==
    IF item.front # "rpc" THEN <<item.id>>
    ELSE CASE item.form = "blank" -> << >>
           [] item.form \in {"oversized", "unparsable", "unloadable", "not_object"} -> <<0>>
           [] item.form = "no_method" -> <<item.id>>
           [] OTHER -> IF item.id = 0 THEN << >> ELSE <<item.id>>

Expected(n) == FlattenSeq([i \in 1..n |-> Expects(script[i])])

BreaksSimulate(p) ==
    \/ RpcSimulateOverflows(p)
    \/ ~RpcSimulateFails(p) /\ Breaks(p, RpcSimulateSpec(p))

BreaksOptimize(p) ==
    \/ RpcOptimizeOverflows(p)
    \/ /\ ~RpcOptimizeFails(p)
       /\ ~TargetFails(TargetOf(RpcJob(p))) /\ Exhausts(ConfigOf(RpcJob(p)))

EndsTheEngine(item) ==
    /\ item.front = "rpc"
    /\ \/ item.form = "unloadable"
       \/ item.form \in {"no_method", "request"} /\ Unwritable(item)
       \/ /\ item.form = "request" /\ ParamsOk(item)
          /\ \/ item.method = "simulate" /\ BreaksSimulate(Fields(item.params))
             \/ item.method = "optimize" /\ BreaksOptimize(Fields(item.params))

RepliesMatch ==
    LET out == [i \in DOMAIN outbox |-> outbox[i].id]
    IN IF engine = "dead"
       THEN \/ script[pos].front = "cli" /\ out = Expected(pos)
            \/ EndsTheEngine(script[pos]) /\ out = Expected(pos - 1)
       ELSE out = Expected(IF busy THEN pos - 1 ELSE pos)

-----------------------------------------------------------------------------
(* JSON-RPC and HTTP take "the same parameters, field by field"               *)
(* (omo.rpc.server).  For the same parameters they either both refuse or both *)
(* go on with the same specification, but for the differences named here; and *)
(* the command line searches what it was asked to search.                     *)

Coerces(x) ==
    \/ x.is \in {"digits", "bool"}
    \/ x.is = "list" /\ \E i \in DOMAIN x.datum : x.datum[i].is \in {"digits", "bool"}

CoercedFields(x) == \E f \in DOMAIN Fields(x) : Coerces(Fields(x)[f])

LayerCoerced(p) ==
    \E i \in DOMAIN p["layers"].datum : CoercedFields(p["layers"].datum[i])

(* HTTP accepts and JSON-RPC does not: an unknown field, a number in a string *)
(* or a boolean, an empty grid, and for a truth value a number, a string that *)
(* spells one, or a word for yes or no.                                       *)
SimulateLaxHttp(p) ==
    \/ ~(DOMAIN p \subseteq SimulateFields)
    \/ \E f \in DOMAIN p : Coerces(p[f]) \/ (f \in {"wavelengths", "freqs"} /\ p[f] = List(<< >>))
    \/ \E i \in DOMAIN p["layers"].datum :
          ~(DOMAIN p["layers"].datum[i].datum \subseteq {"material", "thickness_nm"})
    \/ LayerCoerced(p)

(* JSON-RPC accepts and HTTP does not: blanks around the name of a material,  *)
(* a substrate index that is null.                                            *)
SimulateLaxRpc(p) ==
    \/ "substrate" \in DOMAIN p \ Given(p)
    \/ \E i \in DOMAIN p["layers"].datum :
          LET name == p["layers"].datum[i].datum["material"].datum IN name # Strip(name)

SimulateAgrees(p) ==
    LET rpc  == ~RpcSimulateFails(p) /\ ~SimulateFails(RpcSimulateSpec(p))
        http == ~HttpSimulateFails(p) /\ ~SimulateFails(HttpSimulateSpec(p))
    IN /\ rpc /\ http => RpcSimulateSpec(p) = HttpSimulateSpec(p)
       /\ rpc /\ ~http => SimulateLaxRpc(p)
       /\ http /\ ~rpc => SimulateLaxHttp(p)

OptimizeLaxHttp(p) ==
    \/ ~(DOMAIN p \subseteq OptimizeFields)
    \/ ~(DOMAIN Fields(Get(p, "target")) \subseteq TargetFields)
    \/ ~(DOMAIN Fields(Get(p, "space")) \subseteq SpaceFields)
    \/ CoercedFields(Get(p, "target")) \/ CoercedFields(Get(p, "space"))
    \/ Get(p, "compute_sensitivity").is \in {"number", "digits", "text"}

(* An empty name is the default material for JSON-RPC and refused by HTTP. *)
OptimizeLaxRpc(p) ==
    \/ "compute_sensitivity" \in DOMAIN p \ Given(p)
    \/ \E f \in Names : Get(Fields(Get(p, "space")), f) = Text("")

Accepted(j) == ~TargetFails(TargetOf(j)) /\ ~SpaceFails(ConfigOf(j))

OptimizeAgrees(p) ==
    LET rpc  == ~RpcOptimizeFails(p) /\ Accepted(RpcJob(p))
        http == ~HttpOptimizeFails(p) /\ Accepted(HttpJob(p))
    IN /\ rpc /\ http => /\ TargetOf(RpcJob(p)) = TargetOf(HttpJob(p))
                        /\ ConfigOf(RpcJob(p)) = ConfigOf(HttpJob(p))
                        /\ RpcJob(p).sensitivity = HttpJob(p).sensitivity
       /\ rpc /\ ~http => OptimizeLaxRpc(p)
       /\ http /\ ~rpc => OptimizeLaxHttp(p)

(* A field given on the command line has that value in the configuration,     *)
(* except that an explicit zero is taken for a field not given ("args.x or    *)
(* default"), so a scan asked to begin at zero begins at the default.         *)
CliTakesWhatIsGiven ==
    busy /\ script[pos].front = "cli" =>
        LET n == script[pos].args.numbers
            Taken(option, value, default) ==
                option \in DOMAIN n => value = (IF n[option] = 0 THEN default ELSE n[option])
        IN /\ \A f \in SpaceFields \cap DOMAIN n : Taken(f, config[f], DefaultSpace[f])
           /\ Taken("outer_min", config.outer_bounds[1], DefaultSpace.outer_bounds[1])
           /\ Taken("outer_max", config.outer_bounds[2], DefaultSpace.outer_bounds[2])
           /\ Taken("metal_min", config.metal_bounds[1], DefaultSpace.metal_bounds[1])
           /\ Taken("metal_max", config.metal_bounds[2], DefaultSpace.metal_bounds[2])
           /\ \A f \in TargetFields \cap DOMAIN n : target[f] = n[f]

TransportsAgree ==
    /\ pos < Len(script) /\ Item.front = "rpc" /\ Item.form = "request"
       /\ Item.params.is = "object" =>
          LET p == Item.params.datum
          IN /\ Item.method = "simulate" => SimulateAgrees(p)
             /\ Item.method = "optimize" => OptimizeAgrees(p)
    /\ CliTakesWhatIsGiven
=============================================================================
