----------------------------- MODULE Transports -----------------------------
(* The three ways a request reaches the engine: a JSON-RPC line (omo.rpc), an *)
(* HTTP body (omo.api) and a command line (omo.cli).  Each turns what it was  *)
(* given into the same two specifications, of a simulation and of a search,   *)
(* and refuses on its own account what does not have the right shape.         *)
(*                                                                            *)
(* A raw JSON value is a record [is, datum]: what kind of value it is and     *)
(* which.  "digits" is a string that spells the number, "fraction" a number   *)
(* that is not whole, "vanishing" a positive one that is lost when a          *)
(* thickness is divided (1e-320), "infinity" one that is read as infinite     *)
(* (1e999) and "huge" an integer too large for a float (2^1024).  An object   *)
(* is a function from the names of its fields, a list a sequence of raw       *)
(* values, and "unknown" stands for every field no schema has.                *)
EXTENDS DesignSearch

Null       == [is |-> "null", datum |-> 0]
Num(n)     == [is |-> "number", datum |-> n]
Digits(n)  == [is |-> "digits", datum |-> n]
Bool(b)    == [is |-> "bool", datum |-> b]
Text(s)    == [is |-> "text", datum |-> s]
List(s)    == [is |-> "list", datum |-> s]
Obj(f)     == [is |-> "object", datum |-> f]
Nums(s)    == List([i \in DOMAIN s |-> Num(s[i])])

IsRaw(x) ==
    /\ x = [is |-> x.is, datum |-> x.datum]
    /\ x.is \in {"number", "digits", "fraction", "infinity", "huge"} => x.datum \in Int
    /\ x.is = "vanishing" => x.datum \in Nat \ {0}
    /\ x.is = "bool" => x.datum \in BOOLEAN
    /\ x.is = "list" => x.datum \in Seq(Range(x.datum))

(* dict.get, and the fields of an object whose value is not null. *)
Get(fields, f) == IF f \in DOMAIN fields THEN fields[f] ELSE Null

Given(fields) == {f \in DOMAIN fields : fields[f].is # "null"}

Pairs     == {"band", "outer_bounds", "metal_bounds"}
Integral  == {"top_n"}
NotWhole  == {"fraction", "vanishing", "infinity"}

(* str.strip: " Ag " is the only name of the model with blanks around it. *)
Strip(name) == IF name = " Ag " THEN "Ag" ELSE name
Blank(name) == name \in {"", " "}

-----------------------------------------------------------------------------
(* JSON-RPC: omo.rpc.server.  A wrong shape is -32602; the rest is left to   *)
(* omo.sim, whose ValueError becomes 422.  A check fails when its value does *)
(* not come through: it is refused, or its conversion overflows.             *)

IsNumber(x) == x.is \in {"number"} \cup NotWhole

NumberFails(x)  == x.is # "null" /\ ~IsNumber(x)

(* Faulty variant: int() cuts a fraction off. *)
IntegerFails_CutsOff(x) == x.is \notin {"null", "huge", "fraction"} /\ x.is # "number"

IntegerFails(x) == x.is \notin {"null", "huge", "number"}

ListFails(x) ==
    /\ x.is # "null"
    /\ \/ x.is # "list"
       \/ x.datum = << >>
       \/ \E i \in DOMAIN x.datum : ~IsNumber(x.datum[i])

PairFails(x) == ListFails(x) \/ (x.is = "list" /\ Len(x.datum) # 2)

RpcFieldFails(f, x) ==
    CASE f \in Pairs    -> PairFails(x)
      [] f \in Names    -> x.is \notin {"null", "text"}
      [] f \in Integral -> IntegerFails(x)
      [] OTHER          -> NumberFails(x)

(* _as_object and _check_keys, then every field of the object. *)
RpcObjectFails(x, allowed) ==
    /\ x.is # "null"
    /\ \/ x.is # "object"
       \/ ~(DOMAIN x.datum \subseteq allowed)
       \/ \E f \in DOMAIN x.datum : RpcFieldFails(f, x.datum[f])

Fields(x) == IF x.is = "object" THEN x.datum ELSE << >>

UnnamedLayer(layer) ==
    \/ layer.is # "object"
    \/ ~(DOMAIN layer.datum \subseteq {"material", "thickness_nm"})
    \/ Get(layer.datum, "material").is # "text"
    \/ Blank(layer.datum["material"].datum)

RpcLayerFails(layer) ==
    UnnamedLayer(layer) \/ ~IsNumber(Get(layer.datum, "thickness_nm"))

RpcLayersFail(x) ==
    x.is # "list" \/ \E i \in DOMAIN x.datum : RpcLayerFails(x.datum[i])

SimulateFields == {"layers", "substrate", "wavelengths", "freqs"}
OptimizeFields == {"target", "space", "compute_sensitivity"}

RpcSimulateFails(p) ==
    \/ ~(DOMAIN p \subseteq SimulateFields)
    \/ NumberFails(Get(p, "substrate"))
    \/ RpcLayersFail(Get(p, "layers"))
    \/ ListFails(Get(p, "wavelengths"))
    \/ ListFails(Get(p, "freqs"))

RpcOptimizeFails(p) ==
    \/ ~(DOMAIN p \subseteq OptimizeFields)
    \/ RpcObjectFails(Get(p, "target"), TargetFields)
    \/ RpcObjectFails(Get(p, "space"), SpaceFields)
    \/ Get(p, "compute_sensitivity").is \notin {"null", "bool"}

(* float() of an integer it has no room for and int() of an infinity are an   *)
(* OverflowError, which no handler of the server expects.  It is met only if  *)
(* every check before it passes, in the order of the code.                    *)
TargetOrder == <<"min_t", "max_rs", "min_se", "band">>
SpaceOrder  == <<"outer_material", "metal_material", "outer_bounds", "outer_step",
                 "metal_bounds", "metal_step", "substrate", "top_n">>

(* Met at one of the positions, every check before it having passed. *)
FirstAt(Meets(_), Fails(_), positions) ==
    \E i \in positions : Meets(i) /\ \A k \in positions : k < i => ~Fails(k)

ListOverflows(x) ==
    /\ x.is = "list"
    /\ FirstAt(LAMBDA i : x.datum[i].is = "huge", LAMBDA k : ~IsNumber(x.datum[k]),
               DOMAIN x.datum)

FieldOverflows(f, x) ==
    CASE f \in Pairs    -> ListOverflows(x)
      [] f \in Names    -> FALSE
      [] f \in Integral -> x.is = "infinity"
      [] OTHER          -> x.is = "huge"

ObjectOverflows(x, order) ==
    /\ x.is = "object" /\ DOMAIN x.datum \subseteq Range(order)
    /\ FirstAt(LAMBDA i : FieldOverflows(order[i], Get(x.datum, order[i])),
               LAMBDA k : RpcFieldFails(order[k], Get(x.datum, order[k])),
               DOMAIN order)

LayersOverflow(x) ==
    /\ x.is = "list"
    /\ FirstAt(LAMBDA i : /\ ~UnnamedLayer(x.datum[i])
                          /\ Get(x.datum[i].datum, "thickness_nm").is = "huge",
               LAMBDA k : RpcLayerFails(x.datum[k]),
               DOMAIN x.datum)

RpcSimulateOverflows(p) ==
    /\ DOMAIN p \subseteq SimulateFields
    /\ LET Overflows == <<Get(p, "substrate").is = "huge", LayersOverflow(Get(p, "layers")),
                          ListOverflows(Get(p, "wavelengths")), ListOverflows(Get(p, "freqs"))>>
           Fails     == <<NumberFails(Get(p, "substrate")), RpcLayersFail(Get(p, "layers")),
                          ListFails(Get(p, "wavelengths")), ListFails(Get(p, "freqs"))>>
       IN FirstAt(LAMBDA i : Overflows[i], LAMBDA k : Fails[k], 1..4)

RpcOptimizeOverflows(p) ==
    /\ DOMAIN p \subseteq OptimizeFields
    /\ \/ ObjectOverflows(Get(p, "target"), TargetOrder)
       \/ /\ ~RpcObjectFails(Get(p, "target"), TargetFields)
          /\ ObjectOverflows(Get(p, "space"), SpaceOrder)

(* The value a field carries into the specification. *)
Whole(x)  == IF x.is = "bool" THEN (IF x.datum THEN 1 ELSE 0) ELSE x.datum
Value(x)  == IF x.is = "list" THEN [i \in DOMAIN x.datum |-> Whole(x.datum[i])] ELSE Whole(x)
Values(x) == [f \in Given(Fields(x)) |-> Value(Fields(x)[f])]

Grid(x) == IF x.is = "null" \/ x.datum = << >> THEN None ELSE Range(Value(x))

NameOf(name, front) == IF front = "rpc" THEN Strip(name) ELSE name

SimulateSpec(p, front) ==
    [layers      |-> [i \in DOMAIN p["layers"].datum |->
                        LET layer == p["layers"].datum[i].datum
                        IN Film(NameOf(layer["material"].datum, front),
                                Value(layer["thickness_nm"]))],
     substrate   |-> IF "substrate" \in Given(p) THEN Value(p["substrate"]) ELSE 150,
     wavelengths |-> Grid(Get(p, "wavelengths")),
     freqs       |-> Grid(Get(p, "freqs"))]

RpcSimulateSpec(p) == SimulateSpec(p, "rpc")

(* What sim.simulate raises and no caller expects: a MemoryError for arrays   *)
(* of the films by the wavelengths, or of the frequencies, and a              *)
(* ZeroDivisionError for a conductive film whose thickness vanishes in        *)
(* metres.  Its ValueErrors before that are met first.                        *)
GridLength(x, default) == IF Grid(x) = None THEN Cardinality(default) ELSE Len(x.datum)

Breaks(p, spec) ==
    /\ ~OpticsFails(spec)
    /\ \/ TooLong(Len(spec.layers) * GridLength(Get(p, "wavelengths"), Wavelengths))
       \/ /\ Conductive(spec.layers) # {} /\ SizeEffectDefined(spec.layers)
          /\ \/ TooLong(GridLength(Get(p, "freqs"), Frequencies))
             \/ \E i \in Conductive(spec.layers) :
                   p["layers"].datum[i].datum["thickness_nm"].is = "vanishing"

RpcJob(p) ==
    [target      |-> Values(Get(p, "target")),
     space       |-> Values(Get(p, "space")),
     sensitivity |-> IF "compute_sensitivity" \in Given(p)
                     THEN p["compute_sensitivity"].datum ELSE TRUE]
-----------------------------------------------------------------------------
(* HTTP: pydantic reads the body (omo.api.schemas) before run_simulation or  *)
(* run_optimization is called.  Numbers are coerced from strings and from    *)
(* booleans, fields no model has are ignored, and null is a value only of    *)
(* the fields declared optional.                                             *)

Coerced(x) == IsNumber(x) \/ x.is \in {"digits", "bool"}

HttpFieldFails(f, x) ==
    CASE f \in Pairs    -> x.is # "list" \/ Len(x.datum) # 2 \/ \E i \in {1, 2} : ~Coerced(x.datum[i])
      [] f \in Names    -> x.is # "text" \/ x.datum = ""
      [] f \in Integral -> \/ ~(Coerced(x) \/ x.is = "huge") \/ x.is \in NotWhole
                           \/ Whole(x) <= 0
      [] OTHER          -> ~Coerced(x) \/ Whole(x) <= 0 \/ (f = "min_t" /\ Whole(x) > 5)

HttpObjectFails(x, known) ==
    /\ x.is # "null"
    /\ \/ x.is # "object"
       \/ \E f \in Given(x.datum) \cap known : HttpFieldFails(f, x.datum[f])

HttpGridFails(x) ==
    x.is # "null" /\ (x.is # "list" \/ \E i \in DOMAIN x.datum : ~Coerced(x.datum[i]))

HttpLayersFail(x) ==
    \/ x.is # "list"
    \/ x.datum = << >>
    \/ \E i \in DOMAIN x.datum :
          LET layer == x.datum[i]
          IN \/ layer.is # "object"
             \/ Get(layer.datum, "material").is # "text"
             \/ layer.datum["material"].datum = ""
             \/ ~Coerced(Get(layer.datum, "thickness_nm"))
             \/ Value(layer.datum["thickness_nm"]) < 0

HttpSimulateFails(b) ==
    \/ HttpLayersFail(Get(b, "layers"))
    \/ /\ "substrate" \in DOMAIN b
       /\ ~Coerced(b["substrate"]) \/ Whole(b["substrate"]) <= 0
    \/ HttpGridFails(Get(b, "wavelengths"))
    \/ HttpGridFails(Get(b, "freqs"))

(* A truth value may be a number or a string, too, but only zero, one or a    *)
(* word for yes or no.                                                        *)
TrueWords  == {"true", "yes", "on", "t", "y"}
FalseWords == {"false", "no", "off", "f", "n"}

HttpBoolFails(x) ==
    ~ \/ x.is = "bool"
      \/ x.is \in {"number", "digits"} /\ x.datum \in {0, 1}
      \/ x.is = "text" /\ x.datum \in TrueWords \cup FalseWords

Truth(x) == IF x.is = "text" THEN x.datum \in TrueWords ELSE Whole(x) = 1

HttpOptimizeFails(b) ==
    \/ HttpObjectFails(Get(b, "target"), TargetFields)
    \/ HttpObjectFails(Get(b, "space"), SpaceFields)
    \/ /\ "compute_sensitivity" \in DOMAIN b
       /\ HttpBoolFails(b["compute_sensitivity"])

HttpSimulateSpec(b) == SimulateSpec(b, "http")

Restricted(values, known) == [f \in DOMAIN values \cap known |-> values[f]]

HttpJob(b) ==
    [target      |-> Restricted(Values(Get(b, "target")), TargetFields),
     space       |-> Restricted(Values(Get(b, "space")), SpaceFields),
     sensitivity |-> IF "compute_sensitivity" \in DOMAIN b
                     THEN Truth(b["compute_sensitivity"]) ELSE TRUE]
-----------------------------------------------------------------------------
(* The command line: argparse has made numbers of the numbers.  "x or        *)
(* default" takes the default for a zero that was given, and each end of a   *)
(* range is an option of its own.                                            *)

OrDefault(args, option, default) ==
    IF option \in DOMAIN args /\ args[option] # 0 THEN args[option] ELSE default

CliBounds(args, lo, hi, default) ==
    <<OrDefault(args, lo, default[1]), OrDefault(args, hi, default[2])>>

(* args.numbers: the numeric options given; args.materials: the two names.   *)
Options == {"outer_min", "outer_max", "outer_step", "metal_min", "metal_max", "metal_step",
            "substrate", "top_n", "min_t", "max_rs", "min_se", "se_lo", "se_hi"}

CliJob(args) ==
    LET n == args.numbers
    IN [target |->
          [f \in {"band"} \cup (DOMAIN n \cap {"min_t", "max_rs", "min_se"}) |->
              IF f = "band"
              THEN <<IF "se_lo" \in DOMAIN n THEN n["se_lo"] ELSE 82,
                     IF "se_hi" \in DOMAIN n THEN n["se_hi"] ELSE 124>>
              ELSE n[f]],
        space |->
          [f \in SpaceFields |->
             CASE f = "outer_bounds" ->
                    CliBounds(n, "outer_min", "outer_max", DefaultSpace.outer_bounds)
               [] f = "metal_bounds" ->
                    CliBounds(n, "metal_min", "metal_max", DefaultSpace.metal_bounds)
               [] f \in Names ->
                    IF f \in DOMAIN GivenSpace(args.materials)
                    THEN args.materials[f] ELSE DefaultSpace[f]
               [] OTHER -> OrDefault(n, f, DefaultSpace[f])],
        sensitivity |-> TRUE]
=============================================================================
