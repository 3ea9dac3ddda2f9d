-------------------------------- MODULE Film --------------------------------
(* What the engine computes about a stack of films: the material registry,   *)
(* the parallel sheet resistance, the shielding effectiveness, the visible   *)
(* transmittance, a forward simulation (sim.simulate) and the evaluation of  *)
(* one combination of a design search (evaluate_candidate).                  *)
(*                                                                           *)
(* Every branch that decides whether a number is produced at all is kept:    *)
(* each ValueError, None and empty series of the code.  The numbers are      *)
(* coarse.  A thickness is counted in half nanometres (the probe step of the *)
(* tolerance analysis), a frequency in tenths of a GHz, a transmittance in   *)
(* levels 0..5.  The floating-point formulas (the transfer matrix, the       *)
(* Fuchs-Sondheimer integral, the transmission line) are constant operators: *)
(* they stand for any value the formula may give, so nothing here depends on *)
(* optics.                                                                   *)
EXTENDS Integers, Sequences, FiniteSetsExt

CONSTANTS
    Transmittance(_, _, _), \* level of a stack on a substrate at a wavelength
    FilmConductance(_, _),  \* d / rho_eff of a material at a thickness > 0
    Shielding(_, _),        \* dB of conductive films at a frequency
    Wavelengths,            \* DEFAULT_WAVELENGTHS_NM
    OhmScale,               \* a conductance g is the sheet resistance OhmScale/g
    None                    \* Python's None

-----------------------------------------------------------------------------
(* The registry: the names with an index, with a resistivity, and with a     *)
(* mean free path, which makes the resistivity depend on the thickness.      *)
Known      == {"ITO", "Ag", "glass"}
Conductors == {"ITO", "Ag"}
SizeEffect == {"Ag"}

Frequencies == {10 * f : f \in 1..18}

(* A stack is a sequence of films, from the side of incidence. *)
Film(material, thickness) == [material |-> material, thickness |-> thickness]

(* The positions of the films with an electrical model, and those films. *)
Conductive(stack) == {i \in DOMAIN stack : stack[i].material \in Conductors}

ConductiveFilms(stack) == SelectSeq(stack, LAMBDA f : f.material \in Conductors)

(* sheet_resistance raises when no conductive film has a thickness. *)
Conducts(stack) == \E i \in Conductive(stack) : stack[i].thickness > 0

SheetConductance(stack) ==
    SumFunction([i \in {k \in Conductive(stack) : stack[k].thickness > 0} |->
                    FilmConductance(stack[i].material, stack[i].thickness)])

SheetConductanceOrNone(stack) ==
    IF Conductive(stack) = {} THEN None ELSE SheetConductance(stack)

(* from_conductive_layer asks for the effective resistivity of every film,   *)
(* one of thickness zero included; fuchs_sondheimer_ratio refuses that one.   *)
(* (Its other guard, a ratio <= 0, is out of reach at half a nanometre.)     *)
SizeEffectDefined(stack) ==
    \A i \in Conductive(stack) :
        stack[i].material \in SizeEffect => stack[i].thickness > 0

ShieldingSpectrum(stack, freqs) ==
    [f \in freqs |-> Shielding(ConductiveFilms(stack), f)]

InBand(band, freqs) == {f \in freqs : band[1] <= f /\ f <= band[2]}

ValidBand(band) == 0 <= band[1] /\ band[1] < band[2]

(* transfer_matrix: one transmittance per wavelength of the grid. *)
Spectrum(stack, substrate, grid) ==
    [w \in grid |-> Transmittance(stack, substrate, w)]

VisibleRange == 400..800

Visible == Wavelengths \cap VisibleRange

ASSUME VisibleAssumption == Visible # {} /\ Wavelengths \subseteq Nat \ {0}

VisibleAverage(stack, substrate) ==
    SumFunction(Spectrum(stack, substrate, Visible)) \div Cardinality(Visible)

-----------------------------------------------------------------------------
(* sim.simulate.  A spec has a sequence of layers, a substrate index, and    *)
(* the grids wavelengths and freqs (None: the default grid).                 *)

GridOr(grid, default) == IF grid = None THEN default ELSE grid

(* _validate_simulate, the two grids and the indices of the films: all that   *)
(* is checked before the optics.                                              *)
OpticsFails(spec) ==
    \/ spec.layers = << >>
    \/ spec.substrate <= 0
    \/ \E i \in DOMAIN spec.layers :
          \/ spec.layers[i].thickness < 0
          \/ spec.layers[i].material \notin Known
    \/ \E x \in GridOr(spec.wavelengths, Wavelengths)
                    \cup GridOr(spec.freqs, Frequencies) : x <= 0

SimulateFails(spec) ==
    \/ OpticsFails(spec)
    \/ /\ Conductive(spec.layers) # {}
       /\ ~(SizeEffectDefined(spec.layers) /\ Conducts(spec.layers))

Simulate(spec) ==
    [transmittance |-> Spectrum(spec.layers, spec.substrate,
                                GridOr(spec.wavelengths, Wavelengths)),
     conductance   |-> SheetConductanceOrNone(spec.layers),
     se            |-> IF Conductive(spec.layers) = {} THEN << >>
                       ELSE ShieldingSpectrum(spec.layers,
                                              GridOr(spec.freqs, Frequencies))]

-----------------------------------------------------------------------------
(* evaluate_candidate: three thicknesses, three materials, the band of the   *)
(* shielding target or None when the target has none.                        *)

Stack(ts, ms) == [i \in 1..3 |-> Film(ms[i], ts[i])]

EvaluateFails(ts, ms, substrate, band) ==
    LET stack == Stack(ts, ms)
    IN \/ \E i \in 1..3 : ts[i] < 0 \/ ms[i] \notin Known
       \/ substrate <= 0
       \/ /\ Conductive(stack) # {}
          /\ \/ ~Conducts(stack)
             \/ /\ band # None
                /\ \/ ~ValidBand(band)
                   \/ ~SizeEffectDefined(stack)
                   \/ InBand(band, Frequencies) = {}

(* Faulty variant: the least shielding of all frequencies, not of the band. *)
Evaluate_AllFrequencies(ts, ms, substrate, band) ==
    LET stack == Stack(ts, ms)
        se    == ShieldingSpectrum(stack, Frequencies)
    IN [thicknesses |-> ts,
        t_vis       |-> VisibleAverage(stack, substrate),
        conductance |-> SheetConductanceOrNone(stack),
        se_min      |-> IF band = None \/ Conductive(stack) = {} THEN None
                        ELSE Min({se[f] : f \in DOMAIN se})]

Evaluate(ts, ms, substrate, band) ==
    LET stack == Stack(ts, ms)
        se    == ShieldingSpectrum(stack, InBand(band, Frequencies))
    IN [thicknesses |-> ts,
        t_vis       |-> VisibleAverage(stack, substrate),
        conductance |-> SheetConductanceOrNone(stack),
        se_min      |-> IF band = None \/ Conductive(stack) = {} THEN None
                        ELSE Min({se[f] : f \in DOMAIN se})]

(* Haacke's figure of merit T^10 / Rs.  Without a sheet resistance it is     *)
(* None, which ranks below every number: here -1.                            *)
Pow10(t) == (t * t * t * t * t) * (t * t * t * t * t)

Fom(m) == IF m.conductance = None THEN -1 ELSE Pow10(m.t_vis) * m.conductance
=============================================================================
