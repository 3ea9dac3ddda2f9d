--------------------------- MODULE MCEngineServer ---------------------------
(* Small grids, a coarse physics with an interference pattern, and scripts of *)
(* one search each or of two lines of every kind.                             *)
EXTENDS EngineServer

(* A conductance grows with the thickness, for silver faster than the         *)
(* thickness; both are positive from half a nanometre on.                     *)
MCFilmConductance(material, t) ==
    IF material = "Ag" THEN (2 * t * t) \div (t + 10) + 1 ELSE (t + 3) \div 4

(* Sums over the at most three films of a stack. *)
Sum3(films, f(_)) ==
    LET term(i) == IF i \in DOMAIN films THEN f(films[i]) ELSE 0
    IN term(1) + term(2) + term(3)

MCShielding(films, f) ==
    2 * Sum3(films, LAMBDA x : IF x.thickness = 0 THEN 0
                               ELSE MCFilmConductance(x.material, x.thickness))
      + (180 - f) \div 60

(* The level rises and falls with the optical thickness. *)
MCTransmittance(stack, substrate, w) ==
    LET shift == (Sum3(stack, LAMBDA x : (IF x.material = "Ag" THEN 3 ELSE 2) * x.thickness)
                    + w \div 100 + substrate \div 50) % 10
    IN IF shift <= 5 THEN shift ELSE 10 - shift

MCWavelengths == {380, 500, 600, 1000}

-----------------------------------------------------------------------------
Fraction(n) == [is |-> "fraction", datum |-> n]
Infinity    == [is |-> "infinity", datum |-> 1]
Huge        == [is |-> "huge", datum |-> 9]
Vanishing   == [is |-> "vanishing", datum |-> 1]

Repeated(x, n) == List([i \in 1..n |-> x])

(* Searches.  A conductance of 6 or more is a sheet resistance of 10 or less. *)
Grids == {<<Nums(<<0, 4>>), Nums(<<0, 4>>)>>, <<Nums(<<4, 10>>), Nums(<<2, 6>>)>>,
          <<Nums(<<5, 6>>), Nums(<<9, 14>>)>>, <<Nums(<<4, 8>>), Nums(<<0, 7>>)>>,
          <<Nums(<<0, 9>>), Nums(<<12, 13>>)>>, <<Nums(<<-4, 4>>), Nums(<<2, 3>>)>>}

Stacks == {<<"ITO", "Ag">>, <<"glass", "Ag">>, <<"Ag", "glass">>, <<"glass", "glass">>,
           <<"ITO", "mystery">>}

Targets == {[f \in {} |-> Null], "min_t" :> Num(3), "max_rs" :> Num(10), "min_se" :> Num(8),
            "min_t" :> Num(2) @@ "max_rs" :> Num(30) @@ "min_se" :> Num(6),
            "min_se" :> Num(8) @@ "band" :> Nums(<<0, 5>>)}

Search1(grid, stack, goal, top) ==
    "target" :> Obj(goal) @@
    "space" :> Obj("outer_bounds" :> grid[1] @@ "metal_bounds" :> grid[2]
                   @@ "outer_step" :> Num(4) @@ "metal_step" :> Num(3)
                   @@ "outer_material" :> Text(stack[1]) @@ "metal_material" :> Text(stack[2])
                   @@ "top_n" :> Num(top))

Searches == {Search1(g, s, t, n) : g \in Grids, s \in Stacks, t \in Targets, n \in {1, 3}}

(* One search with one field given another value, or one field more. *)
Tried == Search1(<<Nums(<<4, 8>>), Nums(<<2, 4>>)>>, <<"ITO", "Ag">>, "min_se" :> Num(8), 2)

WithTarget(f, x) == [Tried EXCEPT !["target"] = Obj(f :> x @@ Tried["target"].datum)]
WithSpace(f, x)  == [Tried EXCEPT !["space"] = Obj(f :> x @@ Tried["space"].datum)]

Odd == {Null, Num(0), Num(2), Num(-2), Digits(2), Bool(TRUE), Text("x"), List(<< >>), Nums(<<2, 6>>),
        Huge}

Variants ==
    {WithTarget(f, x) : f \in {"min_t", "max_rs", "min_se", "band", "unknown"}, x \in Odd}
    \cup {WithSpace(f, x) : f \in {"outer_step", "substrate", "top_n", "unknown"}, x \in Odd}
    \cup {WithSpace("outer_bounds", x) : x \in Odd \ {Null}}
    \cup {WithSpace("outer_material", x) : x \in {Null, Num(1), Text(""), Text(" Ag "), Text("glass")}}
    \cup {WithSpace("top_n", x) : x \in {Fraction(2), Infinity, Vanishing}}
    \cup {WithSpace("outer_bounds", x) :
            x \in {Nums(<<-4, 4>>), Nums(<<8, 4>>), Nums(<<0, 8000>>), Nums(<<0, 12000>>),
                   Nums(<<0, 16000>>), List(<<Digits(4), Digits(8)>>), List(<<Null, Num(8)>>),
                   List(<<Null, Huge>>), List(<<Num(4), Huge>>), List(<<Huge>>)}}
    \cup {WithSpace("metal_bounds", Nums(<<0, 9000>>))}
    \cup {[WithSpace("outer_step", Huge) EXCEPT !["target"] = x] : x \in {Null, Num(1)}}
    \cup {[WithSpace("outer_bounds", Nums(<<0, 12000>>)) EXCEPT !["target"] = Obj("min_se" :> Num(0))]}
    \cup {"compute_sensitivity" :> x @@ Tried :
            x \in {Null, Bool(FALSE), Bool(TRUE), Num(0), Digits(1), Num(2), Text("x"), Text("yes"),
                   Text("off")}}
    \cup {"unknown" :> Num(1) @@ Tried, [Tried EXCEPT !["space"] = Num(1)],
          [Tried EXCEPT !["target"] = Null], [Tried EXCEPT !["target"] = Num(1)]}

(* Simulations. *)
LayerOf(material, t) == Obj("material" :> Text(material) @@ "thickness_nm" :> t)

Simulations ==
    {"layers" :> List(ls) : ls \in
        {<< >>, <<LayerOf("ITO", Num(4)), LayerOf("Ag", Num(6)), LayerOf("ITO", Num(4))>>,
         <<LayerOf("ITO", Num(4)), LayerOf("Ag", Num(0))>>, <<LayerOf("ITO", Num(0))>>,
         <<LayerOf("glass", Num(4))>>, <<LayerOf(" Ag ", Num(4))>>, <<LayerOf(" ", Num(4))>>,
         <<LayerOf("mystery", Num(4))>>, <<LayerOf("Ag", Num(-1))>>, <<LayerOf("Ag", Digits(4))>>,
         <<LayerOf("Ag", Null)>>, <<LayerOf("Ag", Huge)>>, <<LayerOf("Ag", Null), LayerOf("Ag", Huge)>>,
         <<LayerOf("ITO", Vanishing)>>, <<LayerOf("glass", Vanishing)>>,
         <<LayerOf("mystery", Num(4)), LayerOf("ITO", Vanishing)>>,
         <<LayerOf("ITO", Vanishing), LayerOf("Ag", Num(0))>>, <<Num(1)>>, <<Obj("material" :> Text("Ag"))>>,
         <<Obj("material" :> Text("Ag") @@ "thickness_nm" :> Num(4) @@ "unknown" :> Num(1))>>}}
    \cup {"layers" :> List(<<LayerOf("Ag", Num(4))>>) @@ f :> x :
            f \in {"substrate", "wavelengths", "freqs", "unknown"}, x \in Odd}
    \cup {"layers" :> List(<<LayerOf("Ag", Num(4))>>) @@ f :> x :
            f \in {"wavelengths", "freqs"}, x \in {Repeated(Num(500), 2600), List(<<Null, Huge>>),
                                                  List(<<Num(4), Huge>>)}}
    \cup {"layers" :> List(<<Null>>) @@ "freqs" :> List(<<Huge>>), [f \in {} |-> Null]}

-----------------------------------------------------------------------------
Line(form, id, method, params) ==
    [front |-> "rpc", form |-> form, id |-> id, method |-> method, params |-> params,
     surrogate |-> FALSE]

Quoting(line) == [line EXCEPT !.surrogate = TRUE]

Request(id, method, params) == Line("request", id, method, params)

Post(route, body) == [front |-> "http", id |-> 1, route |-> route, body |-> body]

Cli(numbers, materials, json) ==
    [front |-> "cli", id |-> 1, json |-> json,
     args |-> [numbers |-> numbers, materials |-> materials]]

Small == "outer_min" :> 4 @@ "outer_max" :> 8 @@ "metal_min" :> 2 @@ "metal_max" :> 6
         @@ "metal_step" :> 4

CliItems ==
    {Cli(n @@ Small, m, json) :
        n \in {[f \in {} |-> 0], "metal_min" :> 0, "outer_step" :> 0, "top_n" :> 1, "substrate" :> 0,
               "min_se" :> 8, "min_t" :> 0, "max_rs" :> 10 @@ "top_n" :> 0, "se_lo" :> 200,
               "outer_max" :> 2},
        m \in {[f \in {} |-> ""], "outer_material" :> "glass", "metal_material" :> ""},
        json \in BOOLEAN}

(* Lines of every kind, under the id of their place; 0 makes a notification. *)
Lines(id) ==
    {Line(form, id, "", Null) : form \in Forms \ {"request"}}
    \cup {Quoting(Line("no_method", i, "", Null)) : i \in {0, id}}
    \cup UNION {{Request(i, "ping", Null), Request(i, "ping", Num(1)), Request(i, "reset", Null),
                 Request(i, "simulate", Obj("layers" :> List(<<LayerOf("Ag", Num(4))>>))),
                 Request(i, "simulate", Null), Request(i, "optimize", Obj(Tried)),
                 Request(i, "optimize", Obj(WithSpace("outer_step", Num(0)))),
                 Request(i, "optimize", Obj(WithSpace("top_n", Infinity))),
                 Request(i, "simulate", Obj("substrate" :> Huge)),
                 Request(i, "optimize", Obj(WithSpace("outer_bounds", Nums(<<0, 12000>>)))),
                 Quoting(Request(i, "reset", Null)), Quoting(Request(i, "optimize", Obj(Tried)))}
                : i \in {0, id}}

MCScripts ==
    {<<Request(1, "optimize", Obj(p))>> : p \in Searches \cup Variants}
    \cup {<<Request(1, "simulate", Obj(p))>> : p \in Simulations}
    \cup {<<Post("/optimize", p)>> : p \in Variants}
    \cup {<<Post("/simulate", p)>> : p \in Simulations}
    \cup {<<c>> : c \in CliItems}
    \cup {<<a, b>> : a \in Lines(1), b \in Lines(2)}

MCJobs == UNION {JobsOf(item) : item \in Items}
=============================================================================
