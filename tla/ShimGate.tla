------------------------------ MODULE ShimGate ------------------------------
(***************************************************************************)
(* What ends a request before anything is built, in pytest's order, and    *)
(* which variants `-k` keeps.                                              *)
(*                                                                         *)
(* A suite has its selection, pytest's major version, and what is known of *)
(* the plugins' marks; a test the names of its marks, and what discovery   *)
(* left on its module: ignored, its directory's mark, skipped at import.   *)
(***************************************************************************)
EXTENDS Expansion, Matching

Builtin == {"skip", "skipif", "xfail", "parametrize", "usefixtures", "filterwarnings",
            "tryfirst", "trylast"}
Segments(t) == IF t.class = "none" THEN <<(<<t.name>>)>> ELSE <<(<<t.class>>), <<t.name>>>>
NodeNames(S, t) == keyword_names(t.path, S.major, Segments(t), t.marks)
\* A variant's names: its function carries the id.
CaseNames(S, node, text) ==
  LET t == node.test
      full == IF parametrized_node(node) THEN <<t.name, "[">> \o text \o <<"]">> ELSE <<t.name>>
  IN  keyword_names(t.path, S.major, ReplaceAt(Segments(t), Len(Segments(t)), full), t.marks)

NodeVerdict(S, t) == keyword_verdict(S.selection.keyword, NodeNames(S, t), FALSE)
keeps(S, node, text) ==
  \/ NodeVerdict(S, node.test) = "yes"
  \/ keyword_verdict(S.selection.keyword, CaseNames(S, node, text), TRUE) = "yes"

gate(S, t) ==
  IF t.ignored THEN "absent"
  ELSE IF t.dirmark # "none" THEN t.dirmark
  ELSE IF t.isfixture THEN "absent"
  ELSE IF t.importskips THEN "skipped"
  ELSE IF unknown_marks(S.selection, t.marks, Builtin, S.plugins) # {} THEN "error"
  ELSE IF ~marker_allows(S.selection, t.marks) \/ NodeVerdict(S, t) = "no" THEN "absent"
  ELSE "open"

\* Whether the verdict on the node foretells those on its cases.
VerdictForetells(S, node) ==
  LET texts == variant_ids(node)
      verdict == NodeVerdict(S, node.test)
      kept == {i \in DOMAIN texts : keyword_verdict(S.selection.keyword, CaseNames(S, node, texts[i]), TRUE) = "yes"}
  IN  /\ verdict = "no" => kept = {}
      /\ verdict = "yes" => kept = DOMAIN texts
=============================================================================
