----------------------------- MODULE Expansion -----------------------------
(***************************************************************************)
(* What a test expands into: the cases of its parametrize axes, the combos *)
(* of the parametrized fixtures in its closure, and the id of each         *)
(* variant, computed before anything is set up.                            *)
(*                                                                         *)
(* A test t requests its parameters t.params, uses the fixtures t.uses     *)
(* without receiving them, and has its axes in the order their ids appear: *)
(* those its pytest_generate_tests hooks declared, then those of its       *)
(* marks, the function's first.  An axis is [names, rows, ids, indirect];  *)
(* a row is [values, id]; a value, and a fixture's param, [text,           *)
(* printable].  A text is the sequence of the pieces it is spelled with;   *)
(* axes name distinct arguments.  Native cases are one axis over the       *)
(* parameters no fixture provides.                                         *)
(***************************************************************************)
EXTENDS FixtureGraph, TLC

NoId == <<"generate">>
Digits == {ToString(n) : n \in 0 .. 9}

Axes(t) == IF t.unittest THEN <<>> ELSE t.hookaxes \o t.markaxes
AxisNames(axes) == UNION {ToSet(axes[k].names) : k \in DOMAIN axes}
Requested(t) == IF t.unittest THEN <<>> ELSE t.params
ParamNames(t) == {Requested(t)[k].name : k \in DOMAIN Requested(t)}

\* The product of axes of these sizes, in the order of nested loops: the last fastest.
Times(sizes) == FoldLeft(LAMBDA a, b : a * b, 1, sizes)
Product(sizes) ==
  [i \in 1 .. Times(sizes) |-> [k \in DOMAIN sizes |->
     (((i - 1) \div Times(SubSeq(sizes, k + 1, Len(sizes)))) % sizes[k]) + 1]]

\* A case is a row of each axis.  An axis without rows leaves no case, and the test
\* runs once, with no value.
parametrize_cases(t) == Product([k \in DOMAIN Axes(t) |-> Len(Axes(t)[k].rows)])
HasCases(t) == Axes(t) # <<>> /\ parametrize_cases(t) # <<>>
case_list(t) == IF HasCases(t) THEN parametrize_cases(t) ELSE <<(<<>>)>>
Supplied(t) == IF HasCases(t) THEN AxisNames(Axes(t)) ELSE {}

\* Names whose value goes to the fixture of that name: those an axis says, and one
\* that is no parameter of the test but names a fixture.
marked_indirect(t) == UNION {Axes(t)[k].indirect : k \in DOMAIN Axes(t)}
inferred(S, t) == {n \in Supplied(t) : n \notin ParamNames(t) /\ is_provider(S, n)}
Direct(S, t) == Supplied(t) \ (marked_indirect(t) \cup inferred(S, t))

\* The parameters that are fixtures: a value the author wrote beside the test wins.
fixture_requested(S, t) ==
  Providers(S, SelectSeq(Requested(t), LAMBDA p :
                 p.name \notin Direct(S, t) /\ is_provider(S, provider(S, p))))

uses(S, t) ==
  t.uses \o IF /\ t.anyio /\ is_provider(S, "anyio_backend")
               /\ "anyio_backend" \notin ToSet(t.uses) \cup ParamNames(t) \cup Direct(S, t)
            THEN <<"anyio_backend">> ELSE <<>>
Closure(S, t) == closure(S, t, fixture_requested(S, t), uses(S, t))
NamesOf(S, ds) == {S.defs[ds[k]].name : k \in DOMAIN ds}

\* A hook may only parametrize what the test or its fixtures name.
generate_tests_error(S, t) ==
  LET own == SelectSeq(Providers(S, Requested(t)), LAMBDA n : is_provider(S, n))
  IN  ~(AxisNames(t.hookaxes) \subseteq
          ParamNames(t) \cup NamesOf(S, closure(S, t, own, <<>>)))

\* A node: its test, the fixtures it asks for, their closure, the names whose value goes
\* to a fixture, and the definitions that fan it out.
Closed(S, t) == [test |-> t, requested |-> fixture_requested(S, t), closure |-> Closure(S, t)]
indirect(S, node) ==
  marked_indirect(node.test) \cup (inferred(S, node.test) \cap NamesOf(S, node.closure))
Routed(S, node) == node @@ [indirect |-> indirect(S, node)]
fanned(S, node) ==
  LET defs == [k \in DOMAIN node.closure |-> S.defs[node.closure[k]]]
  IN  SelectSeq(defs, LAMBDA d : d.params # <<>> /\ d.name \notin node.indirect)
FannedOut(S, node) == node @@ [fanned |-> fanned(S, node)]
NodeOf(S, t) == FannedOut(S, Routed(S, Closed(S, t)))

combos(node) == Product([k \in DOMAIN node.fanned |-> Len(node.fanned[k].params)])
parametrized_node(node) == node.fanned # <<>> \/ Supplied(node.test) # {}
-----------------------------------------------------------------------------
(* Ids.                                                                    *)

Join(parts) ==
  FlattenSeq([k \in DOMAIN parts |-> IF k = 1 THEN parts[k] ELSE <<"-">> \o parts[k]])
\* The author's id of a row: its own, else the axis's for that position.
explicit_id(row, ids, pos) ==
  IF row.id # NoId THEN row.id ELSE IF pos \in DOMAIN ids THEN ids[pos] ELSE NoId
\* A value that does not print is its argument and its position.
id_part(value, name, pos) == IF value.printable THEN value.text ELSE <<name, ToString(pos - 1)>>

AxisText(axis, pos) ==
  LET row == axis.rows[pos]
      own == explicit_id(row, axis.ids, pos)
  IN  IF own # NoId THEN own
      ELSE Join([k \in DOMAIN axis.names |-> id_part(row.values[k], axis.names[k], pos)])
FixtureText(d, pos) ==
  LET own == explicit_id(d.params[pos], d.ids, pos)
  IN  IF own # NoId THEN own ELSE id_part(d.params[pos], d.name, pos)

\* The combo's parts, then the case's.
variant_parts(node, variant) ==
  Join([k \in DOMAIN variant.combo |-> FixtureText(node.fanned[k], variant.combo[k])]
       \o [k \in DOMAIN variant.case |-> AxisText(Axes(node.test)[k], variant.case[k])])

\* Every member of a clash is numbered, from 0; after a digit, with a `_` (pytest 8 on).
disambiguate(texts) ==
  [i \in DOMAIN texts |->
     LET same == {j \in DOMAIN texts : texts[j] = texts[i]}
         digit == texts[i] # <<>> /\ Last(texts[i]) \in Digits
     IN  IF same = {i} THEN texts[i]
         ELSE texts[i] \o (IF digit THEN <<"_">> ELSE <<>>)
              \o <<ToString(Cardinality({j \in same : j < i}))>>]

\* The node's variants in order: for each combo, each case.
specs(node) ==
  LET cs == combos(node)
      ks == case_list(node.test)
      n == Len(ks)
  IN  [i \in 1 .. Len(cs) * n |-> [combo |-> cs[((i - 1) \div n) + 1], case |-> ks[((i - 1) % n) + 1]]]
variant_ids(node) ==
  LET all == specs(node) IN disambiguate([i \in DOMAIN all |-> variant_parts(node, all[i])])

\* The value a name is given in a variant: a text standing for it.
RowValue(axis, pos, name) == <<axis.rows[pos].values[CHOOSE k \in DOMAIN axis.names : axis.names[k] = name],
                               pos>>
case_kwargs(t, case) ==
  [n \in IF case = <<>> THEN {} ELSE Supplied(t) |->
     LET k == CHOOSE k \in DOMAIN case : n \in ToSet(Axes(t)[k].names)
     IN  RowValue(Axes(t)[k], case[k], n)]
combo_params(node, combo) ==
  [n \in {node.fanned[k].name : k \in DOMAIN combo} |->
     LET k == CHOOSE k \in DOMAIN combo : node.fanned[k].name = n
     IN  <<node.fanned[k].params[combo[k]], combo[k]>>]
=============================================================================
