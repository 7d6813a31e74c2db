------------------------------ MODULE Outcomes ------------------------------
(***************************************************************************)
(* How a test went: the outcome of what its body raised or what unittest   *)
(* recorded, the marks that change it, the worst of several variants, and  *)
(* the node's response put together from its variants.                     *)
(*                                                                         *)
(* A mark as written is [dialect, name, positional, keyword, strict]; its  *)
(* condition, positional or by keyword, is "absent", "true", "false" or    *)
(* "text", an expression left unevaluated.                                 *)
(***************************************************************************)
EXTENDS Integers, Sequences, FiniteSets, SequencesExt

Severity == [error |-> 3, failed |-> 2, skipped |-> 1, passed |-> 0, xfail |-> 0, xpass |-> 0]
worst(outcomes) ==
  LET top == {k \in DOMAIN outcomes :
                \A j \in DOMAIN outcomes : Severity[outcomes[j]] <= Severity[outcomes[k]]}
  IN  outcomes[Min(top)]

normalise(mark) ==
  LET Mark(kind, condition) == [kind |-> kind, condition |-> condition, strict |-> mark.strict]
  IN  IF mark.dialect = "native"
      THEN Mark(mark.name, IF mark.name = "skip_if" THEN mark.keyword ELSE "absent")
      ELSE CASE mark.name = "skipif" ->
                  Mark("skip_if", IF mark.positional # "absent" THEN mark.positional ELSE mark.keyword)
             [] mark.name = "xfail" ->
                  Mark("xfail", IF mark.positional \in {"true", "false"} THEN mark.positional
                                ELSE IF mark.keyword = "absent" THEN "true" ELSE mark.keyword)
             [] OTHER -> Mark(mark.name, "absent")
normalise_all(marks) == [k \in DOMAIN marks |-> normalise(marks[k])]

\* A condition left as text never skips, and always expects the failure.
skips(m) == m.kind = "skip" \/ (m.kind = "skip_if" /\ m.condition = "true")
expects_failure(m) == m.kind = "xfail" /\ m.condition # "false"

apply_xfail(m, outcome) ==
  CASE outcome \in {"failed", "error"} -> "xfail"
    [] outcome = "passed" -> IF m.strict THEN "failed" ELSE "xpass"
    [] OTHER -> outcome

\* Closest first: the first unconditional skip, or xfail that applies, decides.
fold(marks, outcome) ==
  LET decides == {k \in DOMAIN marks :
                    marks[k].kind = "skip"
                    \/ (expects_failure(marks[k]) /\ outcome \in {"failed", "error", "passed"})}
      first == marks[Min(decides)]
  IN  IF decides = {} THEN outcome
      ELSE IF first.kind = "skip" THEN "skipped" ELSE apply_xfail(first, outcome)

\* Markers attached while the test ran, the last added closest.
runtime_outcome(attached, outcome) == fold(normalise_all(Reverse(attached)), outcome)

\* What a body raised, in pytest's taxonomy: anything but a skip is a failure.
classify_exception(ends) ==
  CASE ends = "returned" -> "passed" [] ends = "skip" -> "skipped" [] OTHER -> "failed"

\* What unittest's result recorded; pytest's skip, filed as an error, is a skip.
unittest_outcome(recorded) ==
  IF recorded \cap {"error", "failure", "unexpected"} # {} THEN "failed"
  ELSE IF "expected" \in recorded THEN "xfail"
  ELSE IF recorded \cap {"skip", "pytest-skip"} # {} THEN "skipped"
  ELSE "passed"

\* The node's verdict on purity over those of its variants: "impure", "pure" when all
\* that were measured are, "unknown" when none was.
node_purity(verdicts) ==
  IF "impure" \in ToSet(verdicts) THEN "impure" ELSE IF "pure" \in ToSet(verdicts) THEN "pure"
  ELSE "unknown"

\* The response of a node: its own outcome, under the native marks and then pytest's,
\* and, when it is parametrized, its variants as they ran.
assemble(results, parametrized, native, pytest) ==
  [outcome |-> fold(pytest, fold(native, worst([k \in DOMAIN results |-> results[k].outcome]))),
   variants |-> IF parametrized THEN results ELSE <<>>,
   pure |-> node_purity([k \in DOMAIN results |-> results[k].purity]),
   must_fork |-> \E k \in DOMAIN results : results[k].must_fork]

\* What the engine reports of a response: one result per variant when it has any.
Told(id, outcome, must_fork) == [id |-> id, outcome |-> outcome, must_fork |-> must_fork]
into_results(node, resp) ==
  IF resp.variants # <<>> \/ resp.expanded
  THEN [k \in DOMAIN resp.variants |->
          Told(resp.variants[k].id, resp.variants[k].outcome, resp.variants[k].must_fork)]
  ELSE <<Told(node, resp.outcome, resp.must_fork)>>
=============================================================================
