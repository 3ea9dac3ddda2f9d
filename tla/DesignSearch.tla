---------------------------- MODULE DesignSearch ----------------------------
(* One design search of the engine (sim.optimize): the target and the scan   *)
(* space of the request are checked, every combination of three thicknesses  *)
(* is evaluated in the order of itertools.product, the feasible ones are     *)
(* ranked, and the best one is perturbed layer by layer for its sensitivity. *)
(* A ValueError anywhere ends the whole search with nothing but an error;    *)
(* so does a grid there is no memory for, which no caller expects.           *)
(*                                                                           *)
(* One step is one combination or one layer.  A request names the fields it  *)
(* gives and leaves the others to the defaults.                              *)
EXTENDS Film

CONSTANTS
    Jobs,               \* the requests a search may be asked for
    MaxArray,           \* the longest array there is memory for
    MaxLength           \* the longest array that numpy tries to make

ASSUME ArraysAssumption == MaxArray \in Nat /\ MaxLength \in Nat

VARIABLES
    phase,              \* where the search is; "refused": a ValueError before the
                        \* report, "lost": one after it, "exhausted": no memory
    target,             \* DesignTarget of the request
    config,             \* OmoSearchConfig of the request
    sensitivity,        \* compute_sensitivity
    scanned,            \* metrics of the combinations evaluated so far, in order
    feasible,           \* the positions of those that satisfy the target
    report,             \* OptimizeReport, None until the scan has ended
    layers              \* LayerSensitivity of the layers analysed so far

searchVars == <<phase, target, config, sensitivity, scanned, feasible, report, layers>>

(* DesignTarget *)
DefaultTarget == [min_t |-> None, max_rs |-> None, min_se |-> None,
                  band |-> <<82, 124>>]

(* OmoSearchConfig; a bound or a step of 20 nm is 40 half nanometres. *)
DefaultSpace == [outer_bounds   |-> <<40, 160>>, outer_step |-> 8,
                 metal_bounds   |-> <<10, 40>>,  metal_step |-> 2,
                 outer_material |-> "ITO", metal_material |-> "Ag",
                 substrate      |-> 150,   top_n |-> 10]

Spaces == [outer_bounds : Int \X Int, outer_step : Int,
           metal_bounds : Int \X Int, metal_step : Int,
           outer_material : STRING,   metal_material : STRING,
           substrate : Int,           top_n : Int]

TargetFields == DOMAIN DefaultTarget
SpaceFields  == DOMAIN DefaultSpace

Names        == {"outer_material", "metal_material"}

(* Fields that are given take their value, the others the default; an empty  *)
(* material name counts as not given.                                        *)
GivenSpace(space) ==
    [f \in {g \in DOMAIN space : g \in Names => space[g] # ""} |-> space[f]]

TargetOf(j) == [f \in TargetFields |->
                 IF f \in DOMAIN j.target THEN j.target[f] ELSE DefaultTarget[f]]

ConfigOf(j) == LET given == GivenSpace(j.space)
               IN [f \in SpaceFields |->
                   IF f \in DOMAIN given THEN given[f] ELSE DefaultSpace[f]]

ASSUME JobsAssumption == \A j \in Jobs : ConfigOf(j) \in Spaces

-----------------------------------------------------------------------------
(* The grid: lo + k * step for every k with lo + k * step < hi + step / 2.   *)

(* Faulty variant: without the half step past the upper bound. *)
GridSize_UpToTheBound(bounds, step) == (bounds[2] - bounds[1]) \div step + 1

GridSize(bounds, step) ==
    (2 * (bounds[2] - bounds[1]) + step + 2 * step - 1) \div (2 * step)

(* Faulty variant: from the upper bound downwards. *)
GridPoint_Descending(bounds, step, k) == bounds[2] - k * step

GridPoint(bounds, step, k) == bounds[1] + k * step

OuterSize(s) == GridSize(s.outer_bounds, s.outer_step)
MetalSize(s) == GridSize(s.metal_bounds, s.metal_step)

Combinations(s) == OuterSize(s) * MetalSize(s) * OuterSize(s)

MaxCombinations == 2000000

Materials(s) == <<s.outer_material, s.metal_material, s.outer_material>>

(* The n-th combination, counted from 0, in the order of itertools.product. *)
Combination(s, n) ==
    LET o == OuterSize(s)
        m == MetalSize(s)
    IN <<GridPoint(s.outer_bounds, s.outer_step, n \div (m * o)),
         GridPoint(s.metal_bounds, s.metal_step, (n \div o) % m),
         GridPoint(s.outer_bounds, s.outer_step, n % o)>>

(* CandidateMetrics and OptimizeReport.  None is neither of them, nor a      *)
(* number.                                                                   *)
Metrics == [thicknesses : [1..3 -> Nat], t_vis : 0..5,
            conductance : Nat \cup {None}, se_min : Int \cup {None}]

Reports == [n_scanned : Nat, n_feasible : Nat,
            candidates : Seq(Metrics), best_effort : Metrics \cup {None}]

ASSUME NoneAssumption == None \notin Int \cup Metrics \cup Reports

(* DesignTarget.__post_init__ and OmoSearchConfig.__post_init__ raise. *)
TargetFails(t) ==
    \/ t.min_t # None /\ ~(0 < t.min_t /\ t.min_t <= 5)
    \/ t.max_rs # None /\ t.max_rs <= 0
    \/ t.min_se # None /\ t.min_se <= 0
    \/ ~ValidBand(t.band)

RangesFail(s) ==
    \/ s.outer_bounds[1] >= s.outer_bounds[2]
    \/ s.metal_bounds[1] >= s.metal_bounds[2]
    \/ s.outer_step <= 0
    \/ s.metal_step <= 0
    \/ s.substrate <= 0
    \/ s.top_n <= 0

(* The grids are made before their combinations are counted.  An array too    *)
(* long for the memory is a MemoryError, a longer one yet a ValueError; the   *)
(* outer grid comes first.                                                    *)
TooLong(size) == size > MaxArray

Exhausts(s) ==
    /\ ~RangesFail(s)
    /\ \/ TooLong(OuterSize(s)) /\ OuterSize(s) <= MaxLength
       \/ /\ ~TooLong(OuterSize(s))
          /\ TooLong(MetalSize(s)) /\ MetalSize(s) <= MaxLength

SpaceFails(s) ==
    \/ RangesFail(s)
    \/ TooLong(OuterSize(s)) \/ TooLong(MetalSize(s))
    \/ Combinations(s) > MaxCombinations

(* The formulas of the physics give numbers for the stacks of every grid that *)
(* a search may be asked for: a conductance, a level of transmittance, dB.    *)
GivesNumbers(stack, substrate) ==
    /\ \A i \in Conductive(stack) :
          stack[i].thickness > 0 =>
              FilmConductance(stack[i].material, stack[i].thickness) \in Nat
    /\ \A w \in Visible : Transmittance(stack, substrate, w) \in 0..5
    /\ \A f \in Frequencies : Shielding(ConductiveFilms(stack), f) \in Int

Searched == {s \in {ConfigOf(j) : j \in Jobs} : s \in Spaces /\ ~SpaceFails(s)}

ASSUME PhysicsAssumption ==
    \A s \in Searched : \A n \in 0..(Combinations(s) - 1) :
        LET ts == Combination(s, n)
        IN (\A i \in 1..3 : ts[i] >= 0)
              => GivesNumbers(Stack(ts, Materials(s)), s.substrate)

(* The shielding model runs only for a target that asks for shielding. *)
BandOf(t) == IF t.min_se = None THEN None ELSE t.band

Satisfies(m, t) ==
    /\ t.min_t # None => m.t_vis >= t.min_t
    /\ t.max_rs # None =>
          m.conductance # None /\ t.max_rs * m.conductance >= OhmScale
    /\ t.min_se # None => m.se_min # None /\ m.se_min >= t.min_se

(* _rank_key: the larger figure of merit first, then the thinner layers. *)
Thinner(a, b) ==
    \/ a[1] < b[1]
    \/ a[1] = b[1] /\ a[2] < b[2]
    \/ a[1] = b[1] /\ a[2] = b[2] /\ a[3] < b[3]

Before(m, n) ==
    \/ Fom(m) > Fom(n)
    \/ Fom(m) = Fom(n) /\ Thinner(m.thicknesses, n.thicknesses)

(* Faulty variant: sorted the other way round. *)
Best_Ascending(metrics, n) ==
    [i \in 1..Min({n, Cardinality(metrics)}) |->
        CHOOSE m \in metrics :
            Cardinality({x \in metrics : Before(m, x)}) = i - 1]

(* The n best metrics of a set, best first. *)
Best(metrics, n) ==
    [i \in 1..Min({n, Cardinality(metrics)}) |->
        CHOOSE m \in metrics :
            Cardinality({x \in metrics : Before(x, m)}) = i - 1]
-----------------------------------------------------------------------------
(* The sensitivity of one layer (analyze_sensitivity, one round of its loop) *)

StepNm    == 2          \* step_nm 1.0
ProbeNm   == 1          \* probe_step_nm 0.5
MaxTolNm  == 10         \* max_tolerance_nm 5.0

Perturbed(ts, i, t) == [ts EXCEPT ![i] = t]

(* The offsets reach(direction) tries; what it finds at one of them. *)
Offsets == {ProbeNm * k : k \in 1..((MaxTolNm + ProbeNm - 1) \div ProbeNm)}

Nominal == report.candidates[1]

EvaluateAt(ts) ==
    Evaluate(ts, Materials(config), config.substrate, BandOf(target))

FailsAt(ts) ==
    EvaluateFails(ts, Materials(config), config.substrate, BandOf(target))

(* Faulty variant: a thickness below zero is evaluated like any other. *)
Probe_NoEdge(i, direction, offset) ==
    LET ts == Perturbed(Nominal.thicknesses, i,
                        Nominal.thicknesses[i] + direction * offset)
    IN IF FailsAt(ts) THEN "raises"
       ELSE IF Satisfies(EvaluateAt(ts), target) THEN "holds" ELSE "misses"

Probe(i, direction, offset) ==
    LET ts == Perturbed(Nominal.thicknesses, i,
                        Nominal.thicknesses[i] + direction * offset)
    IN CASE ts[i] < 0                              -> "edge"
         [] ts[i] >= 0 /\ FailsAt(ts)              -> "raises"
         [] OTHER -> IF Satisfies(EvaluateAt(ts), target) THEN "holds" ELSE "misses"

Stops(i, direction) == {o \in Offsets : Probe(i, direction, o) # "holds"}

ReachFails(i, direction) ==
    LET stops == Stops(i, direction)
    IN stops # {} /\ Probe(i, direction, Min(stops)) = "raises"

(* Faulty variant: the offset that misses instead of the last that holds. *)
Reach_TouchesTheMiss(i, direction) ==
    LET stops == Stops(i, direction)
    IN IF stops = {} THEN MaxTolNm ELSE Min(stops)

Reach(i, direction) ==
    LET stops == Stops(i, direction)
    IN IF stops = {} THEN MaxTolNm ELSE Min(stops) - ProbeNm

Plus(i)  == Perturbed(Nominal.thicknesses, i, Nominal.thicknesses[i] + StepNm)
Minus(i) == Perturbed(Nominal.thicknesses, i, Nominal.thicknesses[i] - StepNm)

HasMinus(i) == Nominal.thicknesses[i] - StepNm >= 0

(* The probes run in the code's order: the two differences, then downward    *)
(* until a stop, then upward.                                                *)
LayerFails(i) ==
    \/ FailsAt(Plus(i))
    \/ HasMinus(i) /\ FailsAt(Minus(i))
    \/ ReachFails(i, -1)
    \/ ReachFails(i, 1)

(* A difference quotient is kept as its numerator and its denominator; the   *)
(* lower end is the nominal point when the layer is too thin for a central   *)
(* difference.  dlog10_rs has a sign opposite to that of the conductances.   *)
Quotient(plus, minus, i) ==
    [num |-> plus - minus, den |-> IF HasMinus(i) THEN 2 * StepNm ELSE StepNm]

FomOrZero(m) == Max({Fom(m), 0})

Sensitivity(i) ==
    LET plus  == EvaluateAt(Plus(i))
        minus == IF HasMinus(i) THEN EvaluateAt(Minus(i)) ELSE Nominal
    IN [layer     |-> i,
        dfom      |-> IF FomOrZero(Nominal) = 0 THEN [num |-> 0, den |-> 1]
                      ELSE Quotient(FomOrZero(plus), FomOrZero(minus), i),
        dt        |-> Quotient(plus.t_vis, minus.t_vis, i),
        dg        |-> IF Nominal.conductance = None THEN None
                      ELSE Quotient(plus.conductance, minus.conductance, i),
        tolerance |-> Min({Reach(i, -1), Reach(i, 1)})]
-----------------------------------------------------------------------------
SearchInit ==
    /\ phase = "idle"
    /\ target = DefaultTarget
    /\ config = DefaultSpace
    /\ sensitivity = FALSE
    /\ scanned = << >>
    /\ feasible = {}
    /\ report = None
    /\ layers = << >>

(* sim.optimize builds the target and the configuration before anything runs *)
Ask(j) ==
    /\ phase = "idle"
    /\ target' = TargetOf(j)
    /\ config' = ConfigOf(j)
    /\ sensitivity' = j.sensitivity
    /\ phase' = IF ~TargetFails(TargetOf(j)) /\ Exhausts(ConfigOf(j)) THEN "exhausted"
                ELSE IF TargetFails(TargetOf(j)) \/ SpaceFails(ConfigOf(j)) THEN "refused"
                ELSE "scanning"
    /\ UNCHANGED <<scanned, feasible, report, layers>>

(* One round of the loop of search_designs. *)
EvaluateNext ==
    LET ts == Combination(config, Len(scanned))
    IN /\ phase = "scanning"
       /\ Len(scanned) < Combinations(config)
       /\ \/ /\ FailsAt(ts)
             /\ phase' = "refused"
             /\ UNCHANGED <<scanned, feasible>>
          \/ /\ ~FailsAt(ts)
             /\ scanned' = Append(scanned, EvaluateAt(ts))
             /\ feasible' = IF Satisfies(EvaluateAt(ts), target)
                            THEN feasible \cup {Len(scanned) + 1} ELSE feasible
             /\ UNCHANGED phase
       /\ UNCHANGED <<target, config, sensitivity, report, layers>>

(* The scan has ended: both lists are sorted and the report is made; then    *)
(* sim.optimize asks for the sensitivity of the first candidate, if any.     *)
Rank ==
    LET all  == Range(scanned)
        good == {scanned[n] : n \in feasible}
        cs   == Best(good, config.top_n)
        best == Best(all, 1)[1]
    IN /\ phase = "scanning"
       /\ Len(scanned) = Combinations(config)
       /\ report' = [n_scanned   |-> Combinations(config),
                     n_feasible  |-> Cardinality(feasible),
                     candidates  |-> cs,
                     best_effort |-> IF Fom(best) = -1 THEN None ELSE best]
       /\ phase' = IF sensitivity /\ cs # << >> THEN "analysing" ELSE "done"
       /\ UNCHANGED <<target, config, sensitivity, scanned, feasible, layers>>

AnalyseLayer ==
    LET i == Len(layers) + 1
    IN /\ phase = "analysing"
       /\ \/ /\ LayerFails(i)
             /\ phase' = "lost"
             /\ UNCHANGED layers
          \/ /\ ~LayerFails(i)
             /\ layers' = Append(layers, Sensitivity(i))
             /\ phase' = IF i = 3 THEN "done" ELSE "analysing"
       /\ UNCHANGED <<target, config, sensitivity, scanned, feasible, report>>

(* The caller has the report or the error, and the next request may come. *)
Return ==
    /\ phase \in {"done", "refused", "exhausted", "lost"}
    /\ phase' = "idle"
    /\ target' = DefaultTarget
    /\ config' = DefaultSpace
    /\ sensitivity' = FALSE
    /\ scanned' = << >>
    /\ feasible' = {}
    /\ report' = None
    /\ layers' = << >>

SearchStep == EvaluateNext \/ Rank \/ AnalyseLayer

SearchNext == (\E j \in Jobs : Ask(j)) \/ SearchStep \/ Return

SearchSpec == SearchInit /\ [][SearchNext]_searchVars

-----------------------------------------------------------------------------
(* The search is in one of its phases and holds what that phase has made: a   *)
(* report from the ranking on, at most three analysed layers, and positions   *)
(* of feasible combinations among those scanned.                              *)
SearchTypeOK ==
    /\ phase \in {"idle", "scanning", "analysing", "done", "refused", "exhausted", "lost"}
    /\ Range(scanned) \subseteq Metrics
    /\ Len(scanned) <= (IF phase = "idle" THEN 0 ELSE MaxCombinations)
    /\ feasible \subseteq DOMAIN scanned
    /\ phase \in {"idle", "scanning"} => report = None
    /\ phase = "analysing" => report # None /\ Len(layers) < 3
    /\ layers # << >> => report # None /\ sensitivity

(* A search whose scan fails has failed at its first combination: however    *)
(* long the grid, no scan is lost half-way (search_designs keeps no partial   *)
(* result).                                                                   *)
ScanFailsAtOnce == phase = "refused" => scanned = << >>

(* The scan visits the whole grid and nothing else, every combination once:   *)
(* the points from the lower bound in steps, up to half a step past the upper *)
(* bound (_arange), in each of the three layers.                              *)
Axis(bounds, step) ==
    {x \in bounds[1]..(bounds[2] + step) :
        (x - bounds[1]) % step = 0 /\ 2 * (x - bounds[2]) < step}

ScanIsTheGrid ==
    report # None =>
        LET s     == config
            outer == Axis(s.outer_bounds, s.outer_step)
            metal == Axis(s.metal_bounds, s.metal_step)
        IN /\ {scanned[n].thicknesses : n \in DOMAIN scanned}
                 = {<<a, b, c>> : a \in outer, b \in metal, c \in outer}
           /\ \A m, n \in DOMAIN scanned :
                 m # n => scanned[m].thicknesses # scanned[n].thicknesses
           /\ report.n_scanned = Len(scanned)

(* The candidates are the best feasible combinations, best first, as many as  *)
(* asked for and there are; best_effort is the best of all, and it is the     *)
(* first candidate whenever it is feasible.                                   *)
CandidatesAreBest ==
    report # None =>
        LET cs   == report.candidates
            all  == Range(scanned)
            good == {m \in all : Satisfies(m, target)}
            best == report.best_effort
        IN /\ Len(cs) = Min({config.top_n, Cardinality(good)})
           /\ report.n_feasible = Cardinality(good)
           /\ Range(cs) \subseteq good
           /\ \A i, k \in DOMAIN cs : i < k => Before(cs[i], cs[k])
           /\ \A m \in good \ Range(cs), i \in DOMAIN cs : Before(cs[i], m)
           /\ best = None <=> \A m \in all : m.conductance = None
           /\ best # None => \A m \in all \ {best} : Before(best, m)
           /\ best \in good => cs[1] = best

(* What the engine offers it can also simulate, with the same numbers: the    *)
(* candidates go through sim.simulate as they go through evaluate_candidate.  *)
(* The only ones it refuses have a film of zero thickness whose resistivity   *)
(* depends on the thickness, and were found by a search without shielding.    *)
ForwardSpec(m) ==
    [layers |-> Stack(m.thicknesses, Materials(config)),
     substrate |-> config.substrate, wavelengths |-> None, freqs |-> None]

Offered == IF report = None THEN {}
           ELSE Range(report.candidates) \cup ({report.best_effort} \ {None})

ForwardAgrees ==
    \A m \in Offered :
        LET spec   == ForwardSpec(m)
            result == Simulate(spec)
        IN IF SimulateFails(spec)
           THEN /\ m.se_min = None
                /\ \E i \in 1..3 : /\ m.thicknesses[i] = 0
                                   /\ spec.layers[i].material \in SizeEffect
           ELSE /\ result.conductance = m.conductance
                /\ m.t_vis = SumFunction(Restrict(result.transmittance, Visible))
                                 \div Cardinality(Visible)
                /\ m.se_min # None =>
                      LET band == InBand(target.band, DOMAIN result.se)
                      IN /\ \E f \in band : result.se[f] = m.se_min
                         /\ \A f \in band : result.se[f] >= m.se_min

(* A tolerance is a window of this layer's thickness in which every probed    *)
(* stack exists, can be evaluated and satisfies the target; and it is the     *)
(* widest one: a probe further, on one side, is outside.                      *)
TolerancesHold ==
    \A n \in DOMAIN layers :
        LET i   == layers[n].layer
            t   == Nominal.thicknesses[i]
            tol == layers[n].tolerance
            Inside(x) == LET ts == Perturbed(Nominal.thicknesses, i, x)
                         IN x >= 0 /\ ~FailsAt(ts) /\ Satisfies(EvaluateAt(ts), target)
        IN /\ \A x \in (t - tol)..(t + tol) : Inside(x)
           /\ \/ tol = MaxTolNm
              \/ tol < MaxTolNm /\ \E x \in {t - tol - ProbeNm, t + tol + ProbeNm} : ~Inside(x)

(* A search that has its report is still lost when its sensitivity raises.    *)
(* That happens only near a thickness of zero: the best candidate has a       *)
(* conductive layer within reach of the probes which, taken away, leaves a    *)
(* stack the physics refuses.                                                 *)
ReportLostOnlyNearZero ==
    phase = "lost" =>
        \E i \in 1..3 :
            /\ Materials(config)[i] \in Conductors
            /\ Nominal.thicknesses[i] \in 1..MaxTolNm
            /\ FailsAt(Perturbed(Nominal.thicknesses, i, 0))
=============================================================================
