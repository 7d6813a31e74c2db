------------------------------ MODULE Matching ------------------------------
(***************************************************************************)
(* What a selection says of a node: the three-valued evaluation of its     *)
(* expressions, the names `-k` matches and the marks `-m` does.  A word    *)
(* matches a name it is a contiguous part of.  Letter case is left out.    *)
(***************************************************************************)
EXTENDS Selecting

RECURSIVE Words(_), evaluate(_, _)

Words(tree) == {tree.word} \cup UNION {Words(tree.args[k]) : k \in DOMAIN tree.args}

\* Kleene's rules, resolve giving each word "yes", "no" or "unknown": cannot tell yet.
evaluate(tree, resolve) ==
  LET vs == {evaluate(tree.args[k], resolve) : k \in DOMAIN tree.args}
      Decided(by, other) == IF by \in vs THEN by ELSE IF "unknown" \in vs THEN "unknown" ELSE other
  IN  CASE tree.kind = "ident" -> resolve[tree.word]
        [] tree.kind = "not" -> LET v == CHOOSE v \in vs : TRUE
                                IN  CASE v = "yes" -> "no" [] v = "no" -> "yes" [] OTHER -> v
        [] tree.kind = "and" -> Decided("no", "yes")
        [] OTHER -> Decided("yes", "no")
Evaluated(tree, Yes(_), miss) ==
  evaluate(tree, [w \in Words(tree) |-> IF Yes(w) THEN "yes" ELSE miss])

keyword_matches(word, names) ==
  \E name \in names : \E i \in 1 .. Len(name) - Len(word) + 1 :
    SubSeq(name, i, i + Len(word) - 1) = word

\* The names a module's path gives: with pytest 8 on, each directory below the rootdir
\* and the file; before, the package and the file, or the whole path.
path_names(m, major) ==
  IF major >= 8 THEN {<<m.parts[k]>> : k \in DOMAIN m.parts}
  ELSE IF m.package /\ Len(m.parts) > 1 THEN {<<Last(m.parts)>>, <<Last(Front(m.parts))>>}
  ELSE {m.parts}
\* Those, every `::` segment of the id, and the marks.
keyword_names(m, major, segments, marks) ==
  path_names(m, major) \cup ToSet(segments) \cup {<<mk>> : mk \in marks}

\* Mutant of keyword_verdict: a name that does not match the node is a No at once.
KeywordVerdictFinal(tree, names, final) ==
  IF tree = NoFilter THEN "yes" ELSE Evaluated(tree, LAMBDA w : keyword_matches(w, names), "no")
\* Before the cases are known a name that does not match may match a case yet.
keyword_verdict(tree, names, final) ==
  IF tree = NoFilter THEN "yes"
  ELSE Evaluated(tree, LAMBDA w : keyword_matches(w, names), IF final THEN "no" ELSE "unknown")

marker_allows(sel, marks) ==
  sel.marker = NoFilter \/ Evaluated(sel.marker, LAMBDA w : w \in {<<mk>> : mk \in marks}, "no") = "yes"

\* Under strict checking, the marks neither the project, pytest nor a plugin declares:
\* none when the plugins could not be asked.
unknown_marks(sel, marks, builtin, plugins) ==
  IF sel.strict /\ plugins.known THEN marks \ (sel.declared \cup builtin \cup plugins.marks) ELSE {}
=============================================================================
