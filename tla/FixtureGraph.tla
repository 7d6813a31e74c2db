---------------------------- MODULE FixtureGraph ----------------------------
(***************************************************************************)
(* The shim's fixture registry: which definition of a name a test is given *)
(* (the nearest), the closure it needs in the order it is built, and the   *)
(* key under which a live fixture is found again.                          *)
(*                                                                         *)
(* A suite S has its definitions S.defs in the order discovery registered  *)
(* them.  A definition is [name, type, native, scope, at, deps, autouse,   *)
(* params, fails]; `at` is the place it was written, [kind, up, dir,       *)
(* module, class]: a directory under the run root (dir its path) or `up`   *)
(* levels above it, a module, a class.  A parameter is [name, type], the   *)
(* type "none" when it has no annotation.  A test t has its module, the    *)
(* path dir of the module's directory, its class ("none" for a function)   *)
(* and the class's ancestry mro.                                           *)
(***************************************************************************)
EXTENDS Integers, Sequences, FiniteSets, SequencesExt

\* The places a fixture is written: a conftest's directory or one above the run root, a
\* module, a class of one.
Dir(path) == [kind |-> "dir", up |-> 0, dir |-> path, module |-> "", class |-> ""]
Above(n) == [Dir(<<>>) EXCEPT !.up = n]
InModule(m) == [Dir(<<>>) EXCEPT !.kind = "module", !.module = m]
InClass(m, c) == [InModule(m) EXCEPT !.kind = "class", !.class = c]

Rank == [function |-> 0, class |-> 1, module |-> 2, package |-> 3, session |-> 4]
rank(d) == Rank[d.scope]

\* A conftest above the run root scores negative, one step per level up.
location_depth(at) == IF at.up > 0 THEN -at.up ELSE Len(at.dir)
is_ancestor_dir(at, t) == at.up > 0 \/ IsPrefix(at.dir, t.dir)

\* Mutant of specificity: a directory above the run root counts its levels.
SpecificityUnsigned(d) ==
  CASE d.at.kind = "class" -> 20000 [] d.at.kind = "module" -> 10000
    [] OTHER -> IF d.at.up > 0 THEN d.at.up ELSE Len(d.at.dir)
specificity(d) ==
  CASE d.at.kind = "class" -> 20000 [] d.at.kind = "module" -> 10000
    [] OTHER -> location_depth(d.at)

Sees(d, t) ==
  CASE d.at.kind = "class" -> d.at.module = t.module /\ d.at.class \in ToSet(t.mro)
    [] d.at.kind = "module" -> d.at.module = t.module
    [] OTHER -> is_ancestor_dir(d.at, t)

visible(S, name, t) == {i \in DOMAIN S.defs : S.defs[i].name = name /\ Sees(S.defs[i], t)}

\* The nearest definition below a ceiling, the first registered of those equally
\* near; 0 when there is none.
NoCeiling == 30000
resolve(S, t, name, below) ==
  LET found == {i \in visible(S, name, t) : specificity(S.defs[i]) < below}
      best == {i \in found : \A j \in found : specificity(S.defs[j]) <= specificity(S.defs[i])}
  IN  IF best = {} THEN 0 ELSE Min(best)

\* A parameter is wired by its type when one provider has it, else by its name.
provider(S, p) ==
  LET typed == {i \in DOMAIN S.defs : p.type # "none" /\ S.defs[i].type = p.type}
  IN  IF Cardinality(typed) = 1 THEN S.defs[CHOOSE i \in typed : TRUE].name ELSE p.name
is_provider(S, name) == \E i \in DOMAIN S.defs : S.defs[i].name = name
Providers(S, params) == [k \in DOMAIN params |-> provider(S, params[k])]
\* What a fixture is given: a native one's parameters are wired as a test's are, those of a
\* pytest-authored one by name, annotated or not.
deps_of(S, i) ==
  LET deps == S.defs[i].deps
  IN  IF S.defs[i].native THEN Providers(S, deps) ELSE [k \in DOMAIN deps |-> deps[k].name]

\* Autouse definitions in scope, widest first; then by name, in order of registration.
autouse_for(S, t) ==
  LET First(i) == Min({j \in DOMAIN S.defs : S.defs[j].name = S.defs[i].name})
      Before(i, j) ==
        \/ rank(S.defs[i]) > rank(S.defs[j])
        \/ /\ rank(S.defs[i]) = rank(S.defs[j])
           /\ First(i) < First(j) \/ (First(i) = First(j) /\ i < j)
  IN  SetToSortSeq({i \in DOMAIN S.defs : S.defs[i].autouse /\ Sees(S.defs[i], t)}, Before)

\* What a definition's own request for `name` looks below: a fixture asking for the
\* name it overrides is given the definition it shadows.
ceiling(S, d, name) == IF name = S.defs[d].name THEN specificity(S.defs[d]) ELSE NoCeiling

\* The definitions a test needs, each after those it depends on.
closure(S, t, requested, extra) ==
  LET Walk == [ordered : Seq(Nat), visiting : SUBSET Nat]
      visit[name \in STRING, below \in Int, w \in Walk] ==
        LET d == resolve(S, t, name, below)
        IN  IF d = 0 \/ d \in ToSet(w.ordered) \cup w.visiting THEN w
            ELSE LET under == FoldLeft(LAMBDA acc, dep : visit[dep, ceiling(S, d, dep), acc],
                                       [w EXCEPT !.visiting = @ \cup {d}], deps_of(S, d))
                 IN  [ordered |-> Append(under.ordered, d), visiting |-> under.visiting \ {d}]
      auto == LET a == autouse_for(S, t) IN [k \in DOMAIN a |-> S.defs[a[k]].name]
  IN  FoldLeft(LAMBDA w, name : visit[name, NoCeiling, w],
               [ordered |-> <<>>, visiting |-> {}], auto \o extra \o requested).ordered

\* Mutant of instance_key: a module's instance is found again from any module.
InstanceKeyShared(d, t) ==
  [scope |-> d.scope, name |-> d.name, module |-> "", class |-> t.class, at |-> <<d.at>>]
\* Of a test outside any class, the "class" is its own name.
class_of(t) == IF t.class = "none" THEN t.name ELSE t.class
\* The key of the live instance of d that serves t.
instance_key(d, t) ==
  LET Key(module, cls, at) == [scope |-> d.scope, name |-> d.name, module |-> module,
                               class |-> cls, at |-> at]
  IN  CASE d.scope = "session" -> Key("", "", <<>>)
        [] d.scope = "package" -> Key("", "", <<d.at>>)
        [] d.scope = "module" -> Key(t.module, "", <<>>)
        [] d.scope = "class" -> Key(t.module, class_of(t), <<>>)
        [] OTHER -> Key(t.module, t.name, <<>>)
=============================================================================
