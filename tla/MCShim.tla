------------------------------- MODULE MCShim -------------------------------
(***************************************************************************)
(* Small suites for the shim's components.                                 *)
(***************************************************************************)
EXTENDS ShimRequests, ShimGate, Objects, ModuleRestore, Footprint, Discovery, ServedPool

VARIABLE part  \* which component the behaviour is of

Arg(n) == [name |-> n, type |-> "none"]
Args(ns) == [k \in DOMAIN ns |-> Arg(ns[k])]
Fixture(name, scope, at, deps) ==
  [name |-> name, type |-> "none", native |-> FALSE, scope |-> scope, at |-> at, deps |-> Args(deps),
   autouse |-> FALSE, params |-> <<>>, ids |-> <<>>, fails |-> FALSE]
Auto(d) == [d EXCEPT !.autouse = TRUE]
Text(x) == [text |-> <<x>>, printable |-> TRUE, id |-> NoId]
Object == [text |-> <<>>, printable |-> FALSE, id |-> NoId]
Fanned(d, values) == [d EXCEPT !.params = values]
Row(v) == [values |-> <<v>>, id |-> NoId]
Axis(name, values, ind) ==
  [names |-> <<name>>, rows |-> [k \in DOMAIN values |-> Row(values[k])], ids |-> <<>>,
   indirect |-> IF ind THEN {name} ELSE {}]

Mark(name) == [dialect |-> "pytest", name |-> name, positional |-> "absent", keyword |-> "absent",
               strict |-> FALSE]
Test(module, dir, name) ==
  [module |-> module, dir |-> dir, name |-> name, class |-> "none", mro |-> <<>>, unittest |-> FALSE,
   params |-> <<>>, uses |-> <<>>, anyio |-> FALSE, hookaxes |-> <<>>, markaxes |-> <<>>,
   native |-> <<>>, pytest |-> <<>>, attached |-> <<>>, hooks |-> "listed", ends |-> {"returned"}, broken |-> FALSE,
   marks |-> {}, path |-> [parts |-> dir \o <<module>>, package |-> FALSE],
   ignored |-> FALSE, dirmark |-> "none", isfixture |-> FALSE, importskips |-> FALSE]
Method(u, class) == [u EXCEPT !.class = class, !.mro = <<class>>]
Listed(u) == [u EXCEPT !.hooks = "listed"]
Wants(u, names) == [u EXCEPT !.params = Args(names)]
One(u) == [node |-> <<u.name>>, inherited |-> FALSE, tests |-> <<u>>]
Ones(us) == [k \in DOMAIN us |-> One(us[k])]
AllOf(class, us) == [node |-> <<class>>, inherited |-> TRUE, tests |-> us]

GivenArgs(expr) == [given |-> TRUE, expr |-> expr]
Null == [given |-> FALSE, expr |-> <<>>]
Project == [keyword |-> <<>>, marker |-> <<>>, strict |-> FALSE, declared |-> {}]
Env == [keyword |-> <<>>, marker |-> <<>>, strict |-> FALSE]
Plain == Selection_load(Project, Env)
Suite(defs, requests) ==
  [defs |-> defs, requests |-> requests, badsetups |-> <<>>, deadline |-> FALSE, selection |-> Plain,
   major |-> 8, plugins |-> [known |-> TRUE, marks |-> {}]]

\* A session, two module and a class fixture, a function fixture over an override of
\* itself, autouse ones above and below the run root; two modules in sister directories.
Scopes ==
  LET db == Fixture("db", "session", Dir(<<>>), <<>>)
      log == Auto(Fixture("log", "session", Above(1), <<>>))
      far == Fixture("conf", "function", Above(1), <<>>)
      conf == Fixture("conf", "function", Dir(<<"a">>), <<"conf">>)
      inner == Fixture("conf", "function", InModule("m"), <<"conf", "db">>)
      box == Fixture("box", "module", Dir(<<>>), <<"log">>)
      kit == Fixture("kit", "class", InModule("m"), <<"box">>)
      own == Auto(Fixture("own", "function", InClass("m", "C"), <<"kit">>))
      m1 == Wants(Method(Test("m", <<"a">>, "m1"), "C"), <<"conf">>)
      m2 == Wants(Test("m", <<"a">>, "m2"), <<"kit", "conf">>)
      n1 == Wants(Test("n", <<"b">>, "n1"), <<"box", "conf">>)
  IN  [Suite(<<db, log, far, conf, inner, box, kit, own>>, Ones(<<m1, m2, n1>>)) EXCEPT !.deadline = TRUE]
\* Parametrized function fixtures, clashing ids, an indirect axis, a fixture's name
\* parametrized directly, hooks that may and may not; a filter by pieces of the ids.
Params ==
  LET arg == Fanned(Fixture("arg", "function", Dir(<<>>), <<>>), <<Text("u"), Text("v"), Object>>)
      wide == Fanned(Fixture("wide", "module", Dir(<<>>), <<>>), <<Text("w"), Text("z")>>)
      dst == Fixture("dst", "function", Dir(<<>>), <<"wide">>)
      one == Wants(Test("m", <<>>, "one"), <<"arg", "x">>)
      two == Wants(Test("m", <<>>, "two"), <<"dst", "y">>)
      three == Wants(Test("m", <<>>, "three"), <<"arg">>)
      four == Wants(Test("m", <<>>, "four"), <<"x">>)
      U == <<"u">>
      V == <<"v">>
      filter == <<Not, U, And, Not, Open, V, And, <<"1">>, Close>>
  IN  [Suite(<<arg, wide, dst>>,
             Ones(<<[one EXCEPT !.markaxes = <<Axis("x", <<Text("1"), Text("2")>>, FALSE)>>,
                                !.ends = {"returned", "raised"}],
                    [two EXCEPT !.markaxes = <<Axis("y", <<Text("1"), Text("1")>>, FALSE),
                                               Axis("dst", <<Text("p"), Object>>, TRUE)>>],
                    [three EXCEPT !.hookaxes = <<Axis("arg", <<Text("5"), Text("6")>>, FALSE)>>],
                    [four EXCEPT !.hookaxes = <<Axis("elsewhere", <<Text("1")>>, FALSE)>>]>>))
       EXCEPT !.selection = Selection_load(Project, [Env EXCEPT !.keyword = filter])]

\* Unittest classes whose setUpClass raises, skips and does neither, a pytest class whose
\* setup_class raises, a module whose setup_module does; no deadline.
Classes ==
  LET U(name, class, ends) == [Method(Test("m", <<>>, name), class) EXCEPT !.unittest = TRUE, !.ends = ends]
      log == Auto(Fixture("log", "class", Dir(<<>>), <<>>))
      bad == [Fixture("bad", "function", Dir(<<>>), <<>>) EXCEPT !.fails = TRUE]
      broad == [Fixture("broad", "module", Dir(<<>>), <<>>) EXCEPT !.fails = TRUE]
      p1 == Wants(Method(Test("m", <<>>, "p1"), "P"), <<"bad">>)
  IN  [Suite(<<log, bad, broad>>,
             Ones(<<U("u1", "U", {"returned"}), U("u2", "U", {"returned"}),
                    U("s1", "S", {"returned"}), U("s2", "S", {"returned"}),
                    U("v1", "V", {"failure", "expected", "pytest-skip", "returned"}),
                    p1, Method(Test("m", <<>>, "p2"), "P"), Method(Test("m", <<>>, "p3"), "P"),
                    Wants(Test("m", <<>>, "w1"), <<"broad">>), Wants(Test("m", <<>>, "w2"), <<"nothing">>),
                    Test("k", <<>>, "k1"), Test("k", <<>>, "k2")>>))
       EXCEPT !.badsetups = (<<"class", "m", "U">> :> "raises") @@ (<<"class", "m", "S">> :> "skips")
                            @@ (<<"class", "m", "P">> :> "raises") @@ (<<"module", "k">> :> "raises")]

\* A class that inherits its methods: one deselected by its marks, one skipped, one that
\* expects a failure when written down, one that comes to while it runs; a deadline.
Inherited ==
  LET tmp == Fixture("tmp", "function", Dir(<<>>), <<>>)
      own == Fixture("own", "function", InClass("m", "D"), <<"tmp">>)
      M(name) == [Wants(Method(Test("m", <<>>, name), "D"), <<"own">>) EXCEPT !.hooks = "unlisted"]
      slow == [M("d2") EXCEPT !.marks = {"slow"}]
      off == [M("d3") EXCEPT !.pytest = <<Mark("skip")>>]
      known == [M("d4") EXCEPT !.pytest = <<[Mark("xfail") EXCEPT !.strict = TRUE]>>,
                               !.ends = {"returned", "raised", "skip"}]
      late == [M("d5") EXCEPT !.attached = <<Mark("xfail")>>, !.ends = {"returned", "raised"}]
  IN  [Suite(<<tmp, own>>, <<AllOf("D", <<M("d1"), slow, off>>), One(Listed(known)), One(Listed(late))>>) EXCEPT
         !.deadline = TRUE,
         !.selection = Selection_load(Project, [Env EXCEPT !.marker = <<Not, <<"slow">>>>])]

\* A unittest class under two fixtures, one wired by name and one by type; a deadline.
Wired ==
  LET tmp == Fixture("tmp", "function", Dir(<<>>), <<>>)
      typed == <<[name |-> "tmp", type |-> "T"]>>
      made == [Fixture("made", "function", Dir(<<>>), <<>>) EXCEPT !.type = "T", !.native = TRUE]
      byname == [Auto(Fixture("byname", "function", InClass("n", "W"), <<>>)) EXCEPT !.deps = typed]
      bytype == [Auto(Fixture("bytype", "function", InClass("n", "W"), <<>>)) EXCEPT !.deps = typed, !.native = TRUE]
      w1 == [Method(Test("n", <<>>, "w1"), "W") EXCEPT !.unittest = TRUE, !.ends = {"returned", "error"}]
  IN  [Suite(<<tmp, made, byname, bytype>>, Ones(<<w1>>)) EXCEPT !.deadline = TRUE]

\* What ends a request at the gate.
Gates ==
  LET T(name) == Test("m", <<"d">>, name)
      odd == [T("g6") EXCEPT !.marks = {"odd"}]
      fine == [T("g7") EXCEPT !.marks = {"own", "skipif"}]
      off == [T("g8") EXCEPT !.markaxes = <<Axis("x", <<Text("1"), Text("2")>>, FALSE)>>,
                             !.pytest = <<Mark("skip")>>]
      hooked == [T("g10") EXCEPT !.hooks = "skip"]
  IN  [Suite(<<>>, Ones(<<[T("g1") EXCEPT !.ignored = TRUE], [T("g2") EXCEPT !.dirmark = "error"],
                          [T("g3") EXCEPT !.dirmark = "skipped"], [T("g4") EXCEPT !.isfixture = TRUE],
                          [T("g5") EXCEPT !.importskips = TRUE], odd, fine, off, hooked,
                          [T("g9") EXCEPT !.broken = TRUE]>>))
       EXCEPT !.selection = Selection_load([Project EXCEPT !.declared = {"own"}], [Env EXCEPT !.strict = TRUE])]

\* A test that is expected to fail, once as it is and once for each of two values.
Expected ==
  LET known == [Test("m", <<>>, "x1") EXCEPT !.pytest = <<Mark("xfail")>>, !.ends = {"returned", "raised"}]
  IN  Suite(<<>>, Ones(<<known, Wants([known EXCEPT !.name = "x2", !.markaxes = <<Axis("v", <<Text("1"), Text("2")>>, FALSE)>>],
                                      <<"v">>)>>))

MCSuites == {Scopes, Params, Classes, Inherited, Wired, Gates}
ClaimSuites == {Expected}
Filters ==
  LET one == <<"one">> u == <<"u">> m == <<"m">> n == <<"1">>
  IN  {<<u>>, <<Not, u>>, <<one, And, Not, u>>, <<m>>, <<Not, one, Or, n>>, <<one, And, Open, u, Or, n, Close>>}
\* A node deselected before its cases are known has none that `-k` keeps, and of a node
\* selected outright none is dropped, whatever the filter: asked of each test in turn.
NodeVerdictSound ==
  pc = "idle" /\ turn <= Len(suite.requests) =>
    \A f \in Filters :
      VerdictForetells([suite EXCEPT !.selection = Selection_load(Project, [Env EXCEPT !.keyword = f])],
                       NodeOf(suite, test))

-----------------------------------------------------------------------------
\* Worlds: two lists, one holding the other; an object of the suite's own, and one that
\* compares by identity; an array beside a list.
World(heap, globals) ==
  [heap |-> heap, globals |-> globals, environ |-> "was", modules |-> [lib |-> 1, other |-> 0],
   containers |-> <<[reg |-> 1], [reg |-> 2]>>, entries |-> <<{[key |-> "k", owner |-> "library"]}, {}>>,
   interp |-> [path |-> "was", filters |-> <<"f", "g">>, handlers |-> <<"h0">>, level |-> "info",
               cwd |-> "home", home |-> TRUE, threads |-> 1]]
Thing(kind, items) == [kind |-> kind, items |-> items]
MCWorlds ==
  {World(<<Thing("list", <<2>>), Thing("list", <<-1>>)>>, [a |-> 1, b |-> 2]),
   World(<<Thing("user", <<2>>), Thing("list", <<-1>>), Thing("plain", <<-1>>)>>, [u |-> 1, p |-> 3]),
   [World(<<Thing("array", <<-1>>), Thing("list", <<-1>>)>>, [a |-> 2, b |-> 1]) EXCEPT
      !.modules = [lib |-> 1], !.containers = <<[reg |-> 1]>>, !.entries = <<{}>>]}
MCOrders(names) ==
  LET o == SelectSeq(<<"a", "added", "b", "p", "u">>, LAMBDA n : n \in names) IN {o, Reverse(o)}
-----------------------------------------------------------------------------
\* A test module over a helper found on two import paths, one of them with a relative import.
InRun(path) == <<"run">> \o path
Imports_(name) == [from |-> FALSE, base |-> name, names |-> {}, level |-> 0]
From(base, names, level) == [from |-> TRUE, base |-> base, names |-> names, level |-> level]
MCTrees ==
  LET t == (InRun(<<"test">>) :> {Imports_(<<"h">>)}) @@ (InRun(<<"h">>) :> {Imports_(<<"ext">>)})
             @@ (InRun(<<"lib", "h">>) :> {From(<<>>, {"k"}, 1)}) @@ (InRun(<<"lib", "k">>) :> {})
             @@ (InRun(<<"conftest">>) :> {}) @@ (<<"site", "ext">> :> {})
  IN  {t, [t EXCEPT ![InRun(<<"test">>)] = {From(<<"lib">>, {"k", "x"}, 0)}]}
MCPaths == LET last == <<InRun(<<>>), <<"site">>>> IN {last, <<InRun(<<"lib">>)>> \o last}
MCModules == {InRun(<<"test">>)}
MCWindows == {{InRun(<<"test">>), InRun(<<"lib", "k">>), <<"site", "ext">>, <<"run2", "aid">>}}
-----------------------------------------------------------------------------
\* A suite with conftests on three levels, any of which may not import, and its plugins,
\* in a process that preimports and in one that does not; packages and an ignored directory.
File(path, ends) ==
  [path |-> path, conftest |-> Last(path) = "conftest", up |-> 0, ends |-> ends, fixtures |-> <<>>,
   classes |-> <<>>, plugins |-> <<>>, nodes |-> {"t"}, skipped |-> {}, hook |-> {}, hookfails |-> FALSE]
Higher(n) == [File(<<"conftest">>, Ends) EXCEPT !.up = n]
Layout(files) ==
  [root |-> <<"top", "run">>, packages |-> {}, above |-> <<>>, files |-> files, warm |-> TRUE,
   globbed |-> {}, prefixes |-> {}, selected |-> {}, builtins |-> <<"tmp">>, autoload |-> TRUE,
   installed |-> <<>>, explicit |-> <<>>, disabled |-> {}, own |-> {"_pytest"}, anyplugin |-> TRUE,
   allowed |-> {}, fragile |-> {}, provides |-> [plug |-> <<"tmp", "mock">>, more |-> <<"more">>, off |-> <<"tmp">>]]
Makes(name, native) == [name |-> name, native |-> native]
Fine == {"fine"}
MCLayouts ==
  LET N(n) == <<<<"d", "test_a">>, n>>
      root == [File(<<"conftest">>, Ends) EXCEPT !.fixtures = <<Makes("tmp", FALSE), Makes("mock", TRUE)>>,
                                                 !.hook = {N("t")}]
      d == [File(<<"d", "conftest">>, Ends) EXCEPT !.fixtures = <<Makes("more", FALSE)>>,
              !.plugins = <<"more", "plug">>, !.hook = {N("u")}, !.hookfails = TRUE]
      a == [File(<<"d", "test_a">>, Ends) EXCEPT !.nodes = {"t", "u", "v"}, !.skipped = {"v"},
              !.classes = <<[name |-> "C", mro |-> <<<<"own">>, <<"own", "kit">>>>]>>]
      b == [File(<<"d", "e", "test_b">>, Fine) EXCEPT !.fixtures = <<Makes("tmp", FALSE)>>]
      deep == [Layout(<<root, d, a, b, File(<<"f", "conftest">>, Fine), File(<<"f", "test_g">>, {"fine", "fails"})>>)
               EXCEPT !.above = <<Higher(2), [Higher(1) EXCEPT !.plugins = <<"off">>]>>,
                      !.installed = <<"plug", "_pytest">>, !.disabled = {"off"}, !.fragile = {"plug"}]
      wide == [Layout(<<File(<<"test_r">>, Fine), File(<<"d", "test_x">>, Fine), File(<<"p", "test_x">>, Ends),
                        File(<<"p", "q", "conftest">>, Fine), File(<<"p", "q", "test_x">>, Fine),
                        File(<<"s", "test_y">>, Fine)>>)
               EXCEPT !.packages = {<<"top", "run">>, <<"top", "run", "p">>, <<"top", "run", "p", "q">>},
                      !.prefixes = {<<"s">>}, !.anyplugin = FALSE]
      twins == [Layout(<<File(<<"t", "test_0">>, Fine), File(<<"t", "x", "t", "z", "test_z">>, Fine),
                         File(<<"t", "z", "conftest">>, Fine), File(<<"t", "z", "test_z">>, Fine)>>)
                EXCEPT !.packages = {<<"top", "run">> \o p : p \in {<<"t">>, <<"t", "z">>, <<"t", "x", "t">>,
                                                                   <<"t", "x", "t", "z">>}},
                       !.warm = FALSE]
      \* A directory that a pattern matches; the names of the files in it do not match.
      matched == [Layout(<<File(<<"d", "conftest">>, Fine), File(<<"d", "test_a">>, Fine)>>)
                  EXCEPT !.globbed = {<<"d">>}]
  IN  {[deep EXCEPT !.warm = w] : w \in BOOLEAN} \cup {twins, matched}
        \cup {[wide EXCEPT !.selected = s] : s \in {{}, {<<"p", "test_x">>}}}
        \cup {Layout(<<File(<<"test_r">>, Fine)>>)}
-----------------------------------------------------------------------------
\* Runs with and without filters of their own, over a project that has one.
MCProject == [Project EXCEPT !.marker = <<Not, <<"slow">>>>]
MCPatches == {[keyword |-> Null, marker |-> Null, strict |-> FALSE],
              [keyword |-> GivenArgs(<<<<"u">>>>), marker |-> Null, strict |-> FALSE],
              [keyword |-> Null, marker |-> GivenArgs(<<<<"w">>>>), strict |-> TRUE],
              [keyword |-> Null, marker |-> GivenArgs(<<>>), strict |-> FALSE]}
-----------------------------------------------------------------------------
(* A behaviour is of one component; the others stay as they start.         *)

shimParts == <<shimVars, restoreVars, footprintVars, discoveryVars, poolVars, part>>
Pinned(a, set) == a = CHOOSE x \in set : TRUE
Init ==
  /\ part \in {"requests", "modules", "footprint", "discovery", "pool"}
  /\ ShimInit /\ RestoreInit /\ FootprintInit /\ DiscoveryInit /\ PoolInit
  /\ part = "requests" \/ Pinned(suite, Suites)
  /\ part = "modules" \/ Pinned(world, Worlds)
  /\ part = "discovery" \/ Len(layout.files) = 1
  /\ part = "footprint" \/ Pinned([f \in DOMAIN disk |-> disk[f].statements], Trees)

Requests == part = "requests" /\ ShimNext /\ UNCHANGED <<part, restoreVars, footprintVars, discoveryVars, poolVars>>
Next ==
  \/ Requests
  \/ part = "modules" /\ RestoreNext /\ UNCHANGED <<part, shimVars, footprintVars, discoveryVars, poolVars>>
  \/ part = "footprint" /\ FootprintNext /\ UNCHANGED <<part, shimVars, restoreVars, discoveryVars, poolVars>>
  \/ part = "discovery" /\ DiscoveryNext /\ UNCHANGED <<part, shimVars, restoreVars, footprintVars, poolVars>>
  \/ part = "pool" /\ PoolNext /\ UNCHANGED <<part, shimVars, restoreVars, footprintVars, discoveryVars>>

Spec == Init /\ [][Next]_shimParts /\ WF_shimParts(Requests)
\* A worker that is given a suite ends, with all of its fixtures torn down.
AllServed == part = "requests" => AllReleased
=============================================================================
