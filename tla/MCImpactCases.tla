---------------------------- MODULE MCImpactCases ----------------------------
(***************************************************************************)
(* A parametrized candidate `p`, recorded per case: two cases in the       *)
(* module's first version, one in its second.  `q` is skipped by a mark in *)
(* the first version, so it reports no footprint, and the config file's    *)
(* second version deselects it.  The module may be deleted, and its        *)
(* candidates with it, and so may the config file.                         *)
(***************************************************************************)
EXTENDS ImpactContract

CONSTANTS mod, cfg, p, p1, p2, q

MCFiles == {mod, cfg}
MCContents == {1, 2, Missing}
MCConfigFiles == {cfg}
MCIds == {p, p1, p2, q}
MCCandidates == {p, q}
MCExpansions == [c \in {p, q} |-> IF c = p THEN {p1, p2} ELSE {}]
MCReporter == [i \in MCIds |-> IF i = q THEN q ELSE p]
MCModuleOf == [c \in {p, q} |-> mod]
MCOutcomes == {"passed", "failed", "skipped"}
MCCollects(t) == IF t[mod] = Missing THEN {} ELSE {p, q}

Ran(out, touched, pure) ==
  [out |-> out, touched |-> touched, origin |-> {}, pure |-> pure, fork |-> FALSE]

MCResult(i, t) ==
  CASE t[mod] = 1 /\ i = p1 -> Ran("passed", {mod}, "yes")
    [] t[mod] = 1 /\ i = p2 -> Ran("failed", {mod}, "no")
    [] t[mod] = 2 /\ i = p1 -> Ran("failed", {mod}, "yes")
    [] t[mod] # Missing /\ t[cfg] # 2 /\ i = q -> Ran("skipped", {}, "unknown")
    [] OTHER -> Absent
=============================================================================
