------------------------------ MODULE MCImpact ------------------------------
(***************************************************************************)
(* Two plain tests of one module and a source file.  `a` uses src.py: its  *)
(* outcome and its purity follow src.py.  `b` is skipped by a mark in the  *)
(* module's first version, and a marked skip reports no footprint.         *)
(***************************************************************************)
EXTENDS ImpactContract, ImpactClaims

CONSTANTS mod, src, a, b

MCFiles == {mod, src}
MCContents == {1, 2}
MCIds == {a, b}
MCExpansions == [c \in {a, b} |-> {}]
MCReporter == [i \in {a, b} |-> i]
MCModuleOf == [c \in {a, b} |-> mod]
MCOutcomes == {"passed", "failed", "skipped"}
MCCollects(t) == {a, b}

Ran(out, touched, pure, fork) ==
  [out |-> out, touched |-> touched, origin |-> {}, pure |-> pure, fork |-> fork]

MCResult(i, t) ==
  IF i = a
    THEN IF t[src] = 1 THEN Ran("passed", {mod, src}, "yes", t[mod] = 1)
                       ELSE Ran("failed", {mod, src}, "no", t[mod] = 1)
    ELSE IF t[mod] = 1 THEN Ran("skipped", {}, "unknown", FALSE)
                       ELSE Ran("passed", {mod}, "no", FALSE)
=============================================================================
