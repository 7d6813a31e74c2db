---------------------------- MODULE ShimRequests ----------------------------
(***************************************************************************)
(* A worker serving its requests in process, one step at a time: the gate, *)
(* the plan, the wider fixtures of each combo, the function fixtures of    *)
(* each case, the xunit hooks, the body, the tear-downs, the reply, and    *)
(* what is closed when the worker ends.  The deadline may strike any step  *)
(* it covers.                                                              *)
(*                                                                         *)
(* A request is [node, inherited, tests]: a test, or the methods a class   *)
(* inherits, run one by one and spliced into one reply.  Besides what      *)
(* Expansion reads, a test has its marks native and pytest, those attached *)
(* while it runs, what the collection hooks made of it, and the ends its   *)
(* body may come to.                                                       *)
(***************************************************************************)
EXTENDS Expansion, Outcomes

CONSTANTS
  Suites,         \* the suites a worker may be given
  Gate(_, _),     \* Gate(S, t): "open", or what stands in for running t
  Keeps(_, _, _)  \* Keeps(S, node, text): whether -k keeps the variant of that text

VARIABLES
  suite,    \* what it was given
  turn,     \* the request being served
  child,    \* which of its tests
  pc,       \* what the worker does next
  plan,     \* the plan of the test being run
  loop,     \* [combo, case, index]: the two loops and the running variant index
  active,   \* live wider fixtures, in order of set-up
  locals,   \* the case's function fixtures, in order of set-up
  running,  \* the case being run: its outcome, whether the deadline struck, what the body got
  results,  \* the variants' results so far
  xunit,    \* the set-ups done, the classes to tear down, the classes that failed
  spliced,  \* results of the request's earlier tests
  replies,  \* what the engine was told, request by request
  leaked    \* history: fixtures given up without a tear-down, and for which test

shimVars == <<suite, turn, child, pc, plan, loop, active, locals, running, results, xunit, spliced,
              replies, leaked>>

IsList(s) == s \in Seq(ToSet(s))
TestsOf(S) == UNION {ToSet(S.requests[p].tests) : p \in DOMAIN S.requests}

\* A suite as it is collected: a request is for one test, or for the methods a class
\* inherits, of which there is one at least; a unittest class is so for all its methods,
\* and no function of a module has a class's name.
ASSUME SuitesAreCollected ==
  \A S \in Suites :
    /\ IsList(S.requests)
    /\ \A p \in DOMAIN S.requests :
         LET tests == S.requests[p].tests
         IN  IsList(tests) /\ tests # <<>> /\ (S.requests[p].inherited \/ Len(tests) = 1)
    /\ \A t, u \in TestsOf(S) :
         /\ t.unittest => t.class # "none"
                          /\ (u.module = t.module /\ u.class = t.class => u.unittest)
         /\ t.class = "none" /\ u.module = t.module => u.class # t.name

\* A suite as it is discovered: its fixtures are in files on disk, whose paths are shorter
\* than the depth a module counts for.
ASSUME FixturesArePlaced ==
  \A S \in Suites :
    /\ IsList(S.defs) /\ \A t \in TestsOf(S) : IsList(t.dir)
    /\ \A i \in DOMAIN S.defs :
         LET at == S.defs[i].at
         IN  /\ S.defs[i].scope \in DOMAIN Rank
             /\ at.kind \in {"dir", "module", "class"} /\ at.up \in Nat
             /\ IsList(at.dir) /\ Len(at.dir) < 10000 /\ (at.up > 0 => at.dir = <<>>)

NoCase == [outcome |-> "none", struck |-> FALSE, spent |-> FALSE, ran |-> FALSE, given |-> <<>>]
NoXunit == [done |-> {}, classes |-> <<>>, failed |-> <<>>]
Start == [combo |-> 1, case |-> 1, index |-> 1]

Request == suite.requests[turn]
test == Request.tests[child]
Def(e) == suite.defs[e.def]
Id(e) == [def |-> e.def, key |-> e.key]

Reply(outcome) == [outcome |-> outcome, variants |-> <<>>, expanded |-> FALSE, must_fork |-> FALSE]
Absent == [Reply("passed") EXCEPT !.expanded = TRUE]
-----------------------------------------------------------------------------
(* The plan, or the reply that stands in for one.                          *)

\* pytest's skips are those discovery found in one pass over the module's functions and the
\* methods a class writes itself, after its collection hooks: "skip" where a hook added one,
\* "unlisted" for an inherited method, whose marks only its outcome is put under.
Skips(marks) == \E m \in ToSet(normalise_all(marks)) : skips(m)
SkipMarked(u) == Skips(u.native) \/ u.hooks = "skip" \/ (u.hooks # "unlisted" /\ Skips(u.pytest))

routed(node, kwargs, params) == [n \in DOMAIN kwargs \cap node.indirect |-> kwargs[n]] @@ params

Planned(S, node) ==
  LET u == node.test
      texts == variant_ids(node)
      all == specs(node)
      Variant(s) ==
        LET kwargs == case_kwargs(u, s.case)
        IN  [kwargs |-> [n \in DOMAIN kwargs \ node.indirect |-> kwargs[n]],
             params |-> routed(node, kwargs, combo_params(node, s.combo))]
  IN  [gate |-> Gate(S, u), broken |-> u.broken \/ generate_tests_error(S, u),
       closure |-> node.closure, requested |-> node.requested,
       parametrized |-> parametrized_node(node), combos |-> Len(combos(node)),
       cases |-> Len(case_list(u)), ids |-> texts,
       variants |-> [i \in DOMAIN all |-> Variant(all[i])],
       selected |-> {i \in DOMAIN texts : Keeps(S, node, texts[i])},
       kept |-> SelectSeq([i \in DOMAIN texts |-> i], LAMBDA i : Keeps(S, node, texts[i]))]

\* A test's plan depends on nothing the worker has done.
Plans ==
  [S \in Suites |-> [p \in DOMAIN S.requests |->
     LET tests == S.requests[p].tests IN [c \in DOMAIN tests |-> Planned(S, NodeOf(S, tests[c]))]]]
NoPlan == <<>>

\* A plan's closure has the nearest definition of each name the test asks for; a namesake
\* only if that one asks for its own name, and before it.  The variants it keeps are those
\* selected, in order.  That holds of the definitions above by induction over the
\* definitions a test needs and over its ids.
ASSUME PlansAreClosed ==
  \A S \in Suites : \A p \in DOMAIN S.requests : \A c \in DOMAIN S.requests[p].tests :
    LET made == Plans[S][p][c]
        deps == made.closure
    IN  /\ made.combos \in Nat /\ made.cases \in Nat \ {0}
        /\ made.selected \subseteq 1 .. made.combos * made.cases
        /\ IsList(made.kept) /\ ToSet(made.kept) = made.selected
        /\ \A j, k \in DOMAIN made.kept : j < k => made.kept[j] < made.kept[k]
        /\ deps \in Seq(DOMAIN S.defs) /\ IsInjective(deps)
        /\ \A n \in ToSet(made.requested) :
             LET d == resolve(S, S.requests[p].tests[c], n, NoCeiling)
             IN  d # 0 =>
                   \E k \in DOMAIN deps :
                     /\ deps[k] = d
                     /\ \A j \in DOMAIN deps \ {k} :
                          S.defs[deps[j]].name = n => j < k /\ n \in ToSet(deps_of(S, d))

Skipped ==
  IF ~plan.parametrized THEN Reply("skipped")
  ELSE [Reply("skipped") EXCEPT !.variants =
          [k \in DOMAIN plan.kept |-> Told(plan.ids[plan.kept[k]], "skipped", FALSE)]]

\* What a test answers before anything is set up, unless it runs.
Answer ==
  IF plan.gate = "absent" THEN Absent
  ELSE IF plan.gate \in {"error", "skipped"} THEN Reply(plan.gate)
  ELSE IF plan.broken THEN Reply("error")
  ELSE IF plan.selected = {} THEN Absent
  ELSE Skipped
Runs == plan.gate = "open" /\ ~plan.broken /\ plan.selected # {} /\ ~SkipMarked(test)

\* The results one test's reply adds to its inherited class's: its variants, nothing
\* when it was deselected, else itself.
Splice(u, r) ==
  IF r.variants # <<>> THEN r.variants
  ELSE IF r.expanded THEN <<>> ELSE <<Told(<<u.name>>, r.outcome, r.must_fork)>>

\* The reply of a test goes to its class's, or to the engine; the next test is next.
Answered(r) ==
  LET last == child = Len(Request.tests)
      all == spliced \o Splice(test, r)
      told == IF ~Request.inherited THEN into_results(<<test.name>>, r)
              ELSE into_results(Request.node, [r EXCEPT !.variants = all, !.expanded = TRUE])
  IN  /\ pc' = "idle" /\ loop' = Start /\ results' = <<>> /\ running' = NoCase
      /\ IF last THEN /\ replies' = Append(replies, told) /\ spliced' = <<>>
                      /\ turn' = turn + 1 /\ child' = 1
         ELSE spliced' = all /\ child' = child + 1 /\ UNCHANGED <<turn, replies>>

MakePlan ==
  /\ pc = "idle" /\ turn <= Len(suite.requests)
  /\ plan' = Plans[suite][turn][child] /\ pc' = "planned"
  /\ UNCHANGED <<suite, turn, child, loop, active, locals, running, results, xunit, spliced, replies, leaked>>

Begin ==
  /\ pc = "planned"
  /\ IF Runs THEN pc' = "combo" /\ UNCHANGED <<turn, child, loop, results, running, spliced, replies>>
     ELSE Answered(Answer)
  /\ UNCHANGED <<suite, plan, active, locals, xunit, leaked>>
-----------------------------------------------------------------------------
(* Wider fixtures.                                                         *)

\* Mutant of SkippedCombo: a skipped combo counts as one variant.
SkippedAsOne == [loop EXCEPT !.combo = @ + 1, !.index = @ + 1]
\* A combo none of whose variants is kept builds nothing.
SkippedCombo == [loop EXCEPT !.combo = @ + 1, !.index = @ + plan.cases]

Combo ==
  /\ pc = "combo" /\ loop.combo <= plan.combos
  /\ IF loop.index .. loop.index + plan.cases - 1 \cap plan.selected = {}
     THEN loop' = SkippedCombo /\ UNCHANGED pc
     ELSE pc' = "stale" /\ loop' = [loop EXCEPT !.case = 1]
  /\ UNCHANGED <<suite, plan, turn, child, active, locals, running, results, xunit, spliced, replies, leaked>>

Stale == active # <<>> /\ Last(active).key # instance_key(Def(Last(active)), test)
TearDownStale ==
  /\ pc = "stale" /\ Stale /\ active' = Front(active)
  /\ UNCHANGED <<suite, plan, turn, child, pc, loop, locals, running, results, xunit, spliced, replies, leaked>>

\* setup_module, once per module and process, before any wider fixture: counted as
\* done before it is called, so one that raised is not called again.
ModuleSetup ==
  /\ pc = "stale" /\ ~Stale
  /\ LET key == <<"module", test.module>>
         raises == key \notin xunit.done /\ key \in DOMAIN suite.badsetups
     IN  /\ xunit' = [xunit EXCEPT !.done = @ \cup {key}]
         /\ IF raises THEN Answered(Reply("error"))
            ELSE pc' = "wide" /\ UNCHANGED <<turn, child, loop, results, running, spliced, replies>>
  /\ UNCHANGED <<suite, plan, active, locals, leaked>>

\* The value of a name: the case's own fixture, else the live one set up last; 0 if none.
LastNamed(es, name) == LET at == {k \in DOMAIN es : Def(es[k]).name = name} IN IF at = {} THEN 0 ELSE Max(at)
Bound(ls, name) ==
  IF LastNamed(ls, name) # 0 THEN {ls[LastNamed(ls, name)]}
  ELSE IF LastNamed(active, name) # 0 THEN {active[LastNamed(active, name)]} ELSE {}

Place(t) == [name |-> t.name, module |-> t.module, class |-> t.class]
\* The fixture d set up for the test, the case's fixtures being ls: [ok, entry].
SetUp(d, ls) ==
  LET deps == deps_of(suite, d)
      on == UNION {Bound(ls, deps[k]) : k \in DOMAIN deps}
  IN  [ok |-> ~suite.defs[d].fails /\ \A k \in DOMAIN deps : Bound(ls, deps[k]) # {},
       entry |-> [def |-> d, key |-> instance_key(suite.defs[d], test), on |-> {Id(e) : e \in on},
                test |-> Place(test)]]

Live == {active[k].key : k \in DOMAIN active}
\* The next wider fixture whose instance is not up; 0 when all are.
Missing ==
  LET ks == {k \in DOMAIN plan.closure : LET d == suite.defs[plan.closure[k]]
                                         IN  rank(d) > 0 /\ instance_key(d, test) \notin Live}
  IN  IF ks = {} THEN 0 ELSE plan.closure[Min(ks)]

SyncWider ==
  /\ pc = "wide"
  /\ IF Missing = 0
     THEN pc' = "case" /\ UNCHANGED <<turn, child, loop, results, running, spliced, replies, active>>
     ELSE LET s == SetUp(Missing, <<>>)
          IN  IF s.ok THEN /\ active' = Append(active, s.entry)
                           /\ UNCHANGED <<pc, turn, child, loop, results, running, spliced, replies>>
              ELSE Answered(Reply("error")) /\ UNCHANGED active
  /\ UNCHANGED <<suite, plan, locals, xunit, leaked>>
-----------------------------------------------------------------------------
(* A case.                                                                 *)

NextCase ==
  LET last == loop.case = plan.cases
  IN  /\ loop' = [combo |-> IF last THEN loop.combo + 1 ELSE loop.combo,
                  case |-> IF last THEN 1 ELSE loop.case + 1, index |-> loop.index + 1]
      /\ pc' = IF last THEN "combo" ELSE "case"

\* Mutant of Case: a variant that was not kept runs as well.
CaseUnfiltered ==
  /\ pc = "case" /\ pc' = "fixtures"
  /\ UNCHANGED <<suite, plan, turn, child, loop, active, locals, running, results, xunit, spliced, replies, leaked>>
Case ==
  /\ pc = "case"
  /\ IF loop.index \in plan.selected THEN pc' = "fixtures" /\ UNCHANGED loop ELSE NextCase
  /\ UNCHANGED <<suite, plan, turn, child, active, locals, running, results, xunit, spliced, replies, leaked>>

\* The case's own fixtures, and the next of them to set up; 0 when all are.
Ours == {d \in ToSet(plan.closure) : rank(suite.defs[d]) = 0}
NextOfOurs ==
  LET ks == {k \in DOMAIN plan.closure : plan.closure[k] \in Ours \ {e.def : e \in ToSet(locals)}}
  IN  IF ks = {} THEN 0 ELSE plan.closure[Min(ks)]

\* A function fixture that cannot be set up, or a name nothing provides, ends the case.
SetUpFunction ==
  /\ pc = "fixtures" /\ NextOfOurs # 0
  /\ LET s == SetUp(NextOfOurs, locals)
     IN  IF s.ok THEN locals' = Append(locals, s.entry) /\ UNCHANGED <<pc, running>>
         ELSE pc' = "down" /\ running' = [running EXCEPT !.outcome = "error"] /\ UNCHANGED locals
  /\ UNCHANGED <<suite, plan, turn, child, loop, active, results, xunit, spliced, replies, leaked>>

ClassKey == <<"class", test.module, test.class>>
\* What a class's set-up comes to: "none" when it goes well.
ClassEnds ==
  IF ClassKey \notin DOMAIN suite.badsetups THEN "none"
  ELSE IF suite.badsetups[ClassKey] = "skips" THEN "skipped"
  ELSE IF test.unittest THEN "error" ELSE "failed"
\* setup_class and setUpClass, once per class and process: [xunit, outcome], the outcome
\* "none" when the method goes on to run.  Only what unittest's came to is remembered, for
\* every method of the class.
\* Mutant of ClassSetup: it is not.
ClassSetupForgotten ==
  IF test.class = "none" \/ ClassKey \in xunit.done THEN [xunit |-> xunit, outcome |-> "none"]
  ELSE [xunit |-> [xunit EXCEPT !.done = @ \cup {ClassKey}, !.classes = Append(@, ClassKey)],
        outcome |-> ClassEnds]
ClassSetup ==
  IF test.unittest /\ ClassKey \in ToSet(xunit.failed) THEN [xunit |-> xunit, outcome |-> ClassEnds]
  ELSE IF test.class = "none" \/ ClassKey \in xunit.done THEN [xunit |-> xunit, outcome |-> "none"]
  ELSE [xunit |-> [xunit EXCEPT
                     !.done = @ \cup {ClassKey}, !.classes = Append(@, ClassKey),
                     !.failed = IF ClassEnds # "none" /\ test.unittest THEN Append(@, ClassKey) ELSE @],
        outcome |-> ClassEnds]

\* A class set-up cut short counts as done, and not as failed.
Interrupted == [ClassSetup.xunit EXCEPT !.failed = xunit.failed]

\* What a test is called with: its case's values, and its fixtures' for the names it asks
\* for; with the parameters its function fixtures were given.
Given ==
  LET v == plan.variants[(loop.combo - 1) * plan.cases + loop.case]
  IN  [kwargs |-> v.kwargs,
       params |-> [n \in {suite.defs[d].name : d \in Ours} \cap DOMAIN v.params |-> v.params[n]],
       fixtures |-> [n \in ToSet(plan.requested) |-> Bound(locals, n)]]

\* The body between its hooks, each of which may raise: a set-up hook or the body ends it,
\* a tear-down hook changes nothing.  The deadline inside a unittest method is one more
\* error to unittest, which keeps it: nothing else is told that it has passed.
Swallowed == IF suite.deadline /\ test.unittest THEN {"deadline"} ELSE {}
CameTo(e) ==
  IF test.unittest THEN unittest_outcome({IF e = "deadline" THEN "error" ELSE e}) ELSE classify_exception(e)

Body ==
  /\ pc = "fixtures" /\ NextOfOurs = 0
  /\ LET setup == ClassSetup
         missing == \E n \in ToSet(plan.requested) : Bound(locals, n) = {}
     IN  IF missing THEN running' = [running EXCEPT !.outcome = "error"] /\ UNCHANGED xunit
         ELSE /\ xunit' = setup.xunit
              /\ IF setup.outcome # "none"
                 THEN running' = [running EXCEPT !.outcome = runtime_outcome(test.attached, setup.outcome)]
                 ELSE \E e \in test.ends \cup Swallowed :
                        running' = [running EXCEPT !.ran = TRUE, !.given = <<Given>>, !.spent = e = "deadline",
                                      !.outcome = runtime_outcome(test.attached, CameTo(e))]
  /\ pc' = "down"
  /\ UNCHANGED <<suite, plan, turn, child, loop, active, locals, results, spliced, replies, leaked>>

\* Mutant of TearDown: function fixtures come down in the order they went up.
DownFirst == Tail(locals)
Down == Front(locals)

\* A tear-down that raises is swallowed: what the fixture holds is let go all the same.
TearDown ==
  /\ pc = "down" /\ locals # <<>> /\ locals' = Down
  /\ UNCHANGED <<suite, plan, turn, child, pc, loop, active, running, results, xunit, spliced, replies, leaked>>

\* Mutant of Result: an interrupted case does not flag its node.
ResultUnflagged == [id |-> plan.ids[loop.index], outcome |-> running.outcome, purity |-> "unknown",
                    must_fork |-> FALSE, ran |-> running.ran, given |-> running.given]
Result == [id |-> plan.ids[loop.index], outcome |-> running.outcome, purity |-> "unknown",
           must_fork |-> running.struck, ran |-> running.ran, given |-> running.given]

CaseDone ==
  /\ pc = "down" /\ locals = <<>>
  /\ results' = Append(results, Result) /\ running' = NoCase /\ NextCase
  /\ UNCHANGED <<suite, plan, turn, child, active, locals, xunit, spliced, replies, leaked>>

\* The in-process deadline, once per case.  Set-up: the fixture in hand is never torn
\* down.  Tear-down: the one in hand may not finish, and the rest are never begun.
Strike ==
  /\ suite.deadline /\ pc \in {"fixtures", "down"} /\ ~running.struck /\ ~running.spent
  /\ running' = [running EXCEPT !.outcome = "error", !.struck = TRUE]
  /\ \/ /\ pc = "fixtures" /\ NextOfOurs # 0 /\ UNCHANGED locals
        /\ leaked' = leaked \cup {[id |-> Id(SetUp(NextOfOurs, locals).entry), node |-> turn]}
     \/ pc = "fixtures" /\ NextOfOurs = 0 /\ UNCHANGED <<locals, leaked>>
     \/ /\ pc = "down" /\ locals # <<>> /\ locals' = <<>>
        /\ \E left \in {locals, Front(locals)} :
             leaked' = leaked \cup {[id |-> Id(e), node |-> turn] : e \in ToSet(left)}
  /\ xunit' = IF pc = "fixtures" /\ NextOfOurs = 0 THEN Interrupted ELSE xunit
  /\ pc' = "down"
  /\ UNCHANGED <<suite, plan, turn, child, loop, active, results, spliced, replies>>

Respond ==
  /\ pc = "combo" /\ loop.combo > plan.combos
  /\ LET r == assemble(results, plan.parametrized, normalise_all(test.native),
                       normalise_all(Reverse(test.pytest)))
     IN  Answered([outcome |-> r.outcome, variants |-> r.variants, expanded |-> FALSE,
                   must_fork |-> r.must_fork])
  /\ UNCHANGED <<suite, plan, active, locals, xunit, leaked>>
-----------------------------------------------------------------------------
(* The end of the worker.                                                  *)

\* The classes' tear-downs, then the modules', run; a class that failed is not forgotten.
XunitTornDown == [NoXunit EXCEPT !.failed = xunit.failed]

\* Mutant of TearDownAll: what is left goes with the process.
TearDownAbandoned ==
  /\ pc = "idle" /\ turn > Len(suite.requests) /\ pc' = "ended"
  /\ UNCHANGED <<suite, plan, turn, child, loop, active, locals, running, results, xunit, spliced, replies, leaked>>
TearDownAll ==
  /\ pc = "idle" /\ turn > Len(suite.requests)
  /\ \/ /\ active # <<>> /\ active' = Front(active) /\ UNCHANGED <<pc, xunit>>
     \/ active = <<>> /\ pc' = "ended" /\ xunit' = XunitTornDown /\ UNCHANGED active
  /\ UNCHANGED <<suite, plan, turn, child, loop, locals, running, results, spliced, replies, leaked>>

ShimInit ==
  /\ suite \in Suites /\ turn = 1 /\ child = 1 /\ pc = "idle" /\ plan = NoPlan /\ loop = Start
  /\ active = <<>> /\ locals = <<>> /\ running = NoCase /\ results = <<>> /\ xunit = NoXunit
  /\ spliced = <<>> /\ replies = <<>> /\ leaked = {}

ShimNext ==
  \/ MakePlan \/ Begin \/ Combo \/ TearDownStale \/ ModuleSetup \/ SyncWider \/ Case \/ SetUpFunction
  \/ Body \/ TearDown \/ CaseDone \/ Strike \/ Respond \/ TearDownAll

ShimSpec == ShimInit /\ [][ShimNext]_shimVars
-----------------------------------------------------------------------------
(* Properties.                                                             *)

Resource(e) == [id |-> Id(e), on |-> e.on]
Resources == INSTANCE ResourceGraph WITH
  held <- {Resource(e) : e \in ToSet(active \o locals)}, lost <- leaked # {}

\* Every fixture is set up after what it depends on and torn down before it, whichever
\* scopes and tests share it; what the deadline cuts off takes nothing with it that
\* another live fixture was built from.
KeepsResources == Resources!Spec

\* Whoever asks, a fixture name means the definition written nearest: none in scope is
\* nearer, and a fixture that asks for the name it overrides gets the one just outside
\* its own.  (Of two classes of one ancestry, the first registered wins; not stated.)
Nearer(a, b) ==
  \/ a.at.kind = "class" /\ b.at.kind # "class"
  \/ a.at.kind = "module" /\ b.at.kind = "dir"
  \/ a.at.kind = "dir" /\ b.at.kind = "dir"
     /\ (a.at.up < b.at.up \/ (a.at.up = b.at.up /\ IsStrictPrefix(b.at.dir, a.at.dir)))
NearestWins ==
  pc = "combo" =>
    \A name \in {suite.defs[i].name : i \in DOMAIN suite.defs} :
      LET seen == visible(suite, name, test)
          d == resolve(suite, test, name, NoCeiling)
          outer == {i \in seen : Nearer(suite.defs[d], suite.defs[i])}
          next == resolve(suite, test, name, ceiling(suite, d, name))
      IN  seen # {} =>
            /\ d \in seen /\ \A i \in seen : ~Nearer(suite.defs[i], suite.defs[d])
            /\ IF outer = {} THEN next = 0
               ELSE next \in outer /\ \A i \in outer : ~Nearer(suite.defs[i], suite.defs[next])

\* The tests of a module come one after the other, and in it those of a class, as they do
\* unless the engine splits modules.
Together(S) ==
  \A p, q, r \in DOMAIN S.requests :
    \A t \in ToSet(S.requests[p].tests), u \in ToSet(S.requests[q].tests), v \in ToSet(S.requests[r].tests) :
      p <= q /\ q <= r /\ t.module = v.module =>
        u.module = t.module /\ (class_of(t) = class_of(v) => class_of(u) = class_of(t))
\* A test is given the nearest definition's own instance for its session, package, module
\* or class, never one another scope left up; where it sees a definition of the name, one
\* at most outlives a test and the tests come together (else they are confused, see README).
InScope(d, a, b) ==
  CASE d.scope \in {"session", "package"} -> TRUE
    [] d.scope = "module" -> a.module = b.module
    [] d.scope = "class" -> a.module = b.module /\ a.class = b.class /\ (a.class = "none" => a.name = b.name)
    [] OTHER -> a.name = b.name
GivenItsOwn ==
  \A g \in ToSet(running.given) : \A n \in DOMAIN g.fixtures :
    LET wide == {i \in DOMAIN suite.defs : suite.defs[i].name = n /\ rank(suite.defs[i]) > 0}
    IN  Together(suite) /\ visible(suite, n, test) # {} /\ Cardinality(wide) <= 1 =>
          \A e \in g.fixtures[n] :
            e.def = resolve(suite, test, n, NoCeiling) /\ InScope(Def(e), e.test, test)

\* Whether a result is of the variant its id was spelled from, one -k had kept.
RanAsNamed(node, result) ==
  \E i \in plan.selected :
    LET v == specs(node)[i]
        kwargs == case_kwargs(test, v.case)
        want == [n \in marked_indirect(test) \cap DOMAIN kwargs |-> kwargs[n]] @@ combo_params(node, v.combo)
    IN  /\ result.id = plan.ids[i]
        /\ \A g \in ToSet(result.given) :
             /\ \A n \in {x \in DOMAIN kwargs : ~is_provider(suite, x)} :
                  n \in DOMAIN g.kwargs /\ g.kwargs[n] = kwargs[n]
             /\ \A n \in DOMAIN want \cap {suite.defs[d].name : d \in Ours} :
                  n \in DOMAIN g.params /\ g.params[n] = want[n]
             /\ \A n \in DOMAIN g.kwargs : g.kwargs[n] = kwargs[n]
\* A result bears the id of the case that ran: the test's arguments and the parameters
\* of its function fixtures are those the id was spelled from, and -k had kept it,
\* however many combos and cases were passed over before it.
NamesWhatRan == \A k \in DOMAIN results : RanAsNamed(NodeOf(suite, test), results[k])

\* Once a test's last combo is done, every variant -k kept has its one result, in the order
\* of the ids, and no other variant has: whatever was passed over, failed to set up or was
\* cut short.
KeptAreAnswered ==
  pc = "combo" /\ loop.combo > plan.combos =>
    [k \in DOMAIN results |-> results[k].id] = [k \in DOMAIN plan.kept |-> plan.ids[plan.kept[k]]]

\* No method of a unittest class runs once the class's setUpClass has raised or skipped,
\* and each is reported as that error or skip, under the marks it was given, or as the
\* error of a fixture of its own, whichever method met it first; no deadline interfering.
FailedClassDecides ==
  \A k \in DOMAIN results :
    ~suite.deadline /\ test.unittest /\ ClassEnds # "none" =>
      /\ ~results[k].ran
      /\ results[k].outcome \in {runtime_outcome(test.attached, ClassEnds), "error"}

\* Whatever the deadline left standing, some result of that very request is flagged, so
\* that the node forks from then on.
LeakIsFlagged ==
  \A l \in leaked : l.node < turn =>
    \E k \in DOMAIN replies[l.node] : replies[l.node][k].must_fork

\* A static xfail that applies and is not strict keeps its test's failure out of the
\* report, as one attached while the test ran does.
XfailMeansTheSame ==
  \A i \in DOMAIN replies :
    LET request == suite.requests[i]
        marks == normalise_all(Reverse(request.tests[1].pytest))
    IN  marks # <<>> /\ expects_failure(marks[1]) /\ ~marks[1].strict =>
          \A k \in DOMAIN replies[i] : replies[i][k].outcome # "failed"

\* A worker that goes on, as one thread does, ends with every fixture torn down but those
\* the deadline cut off.
AllReleased == <>[](active = <<>> /\ locals = <<>> /\ pc = "ended")
=============================================================================
