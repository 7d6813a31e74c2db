---------------------------- MODULE ModuleRestore ----------------------------
(***************************************************************************)
(* Isolation without a fork: a worker enters a test module and snapshots   *)
(* what its tests may disturb, measures each of them, and puts the process *)
(* back when it leaves, so that the next module finds what this one found. *)
(*                                                                         *)
(* A world is the process as tests see it: heap, a sequence of objects     *)
(* [kind, items]; globals, the test module's names; environ; modules, the  *)
(* version of each in sys.modules (0: absent); containers, the registries  *)
(* of each version by name, and entries, what each holds; interp, the      *)
(* rest.  A value is an object's position in the heap or, negative, an     *)
(* immutable.  Objects copy by content ("list", "user"), compare by        *)
(* identity ("plain") or do not copy ("opaque"); comparing an "array" may  *)
(* raise.  Objects do not contain themselves, nor a plain one or an array  *)
(* another object.                                                         *)
(***************************************************************************)
EXTENDS Integers, Sequences, FiniteSets, SequencesExt

CONSTANTS
  Worlds,          \* the worlds a module may be entered in
  MaxPokes,        \* bound: what the tests of one stay may do
  Orders(_),       \* the orders Python may give a set of names
  Content(_, _),   \* a value of a heap by content: Objects says how
  CopyInto(_, _),  \* a heap with a fresh object of a content, [heap, value]
  InPlace(_, _, _) \* a heap where an object took a content back, [handled, heap]

VARIABLES
  world,
  atEntry,  \* history: the world at entry
  guard,    \* the module's snapshot
  memo,     \* the process's memo of the registries worth watching
  trial,    \* the test running: its snapshot, the world it began in
  verdict,  \* what the last test did, [purity, leaked], and the level it was measured at
  stage,    \* "outside", "inside", "testing", "tested", "left"
  pokes,    \* history: what the tests did, bounded by MaxPokes
  rebound   \* history: the globals and registries they bound anew or deleted

restoreVars == <<world, atEntry, guard, memo, trial, verdict, stage, pokes, rebound>>

Added(s) == {s[k] : k \in DOMAIN s}

\* What is a process: versions name their registries, and those their entries.
Entries == [key : {"k", "l"}, owner : {"test", "library"}]
Filters_ == {"f", "g", "new"}
IsProcess(w) ==
  /\ DOMAIN w = {"heap", "globals", "environ", "modules", "containers", "entries", "interp"}
  /\ IsFiniteSet(DOMAIN w.modules) /\ 0 \notin DOMAIN w.containers
  /\ \A m \in DOMAIN w.modules : w.modules[m] \in {0} \cup DOMAIN w.containers
  /\ w.entries \in Seq(SUBSET Entries)
  /\ \A v \in DOMAIN w.containers :
       /\ IsFiniteSet(DOMAIN w.containers[v])
       /\ \A a \in DOMAIN w.containers[v] : w.containers[v][a] \in DOMAIN w.entries
  /\ DOMAIN w.interp = {"path", "filters", "handlers", "level", "cwd", "home", "threads"}
  /\ w.interp.filters \in Seq(Filters_) /\ w.interp.threads \in Nat
ASSUME WorldsAreProcesses == \A w \in Worlds : IsProcess(w)
-----------------------------------------------------------------------------
(* The test module's globals.                                              *)

Missing_ == [kind |-> "missing", at |-> 0, items |-> <<>>]
NoCopy(c) == c.kind = "opaque" \/ \E k \in DOMAIN c.items : c.items[k].kind = "opaque"
HoldsArray(c) == c.kind = "array" \/ \E k \in DOMAIN c.items : c.items[k].kind = "array"
Opaque == [kind |-> "opaque", at |-> 0, items |-> <<>>]

\* A value that copies but compares by identity is kept itself.
snapshot_shared(w) ==
  [n \in DOMAIN w.globals |->
     LET c == Content(w.heap, w.globals[n]) IN IF NoCopy(c) THEN Opaque ELSE c]
Taken(s, n) == IF n \in DOMAIN s THEN s[n] ELSE Missing_
restorable(w) == Opaque \notin {snapshot_shared(w)[n] : n \in DOMAIN w.globals}

\* What of a name `before` holds is put back into w; an opaque value is let be.
RestoreName(w, before, n) ==
  LET old == Taken(before, n)
      live == Taken(snapshot_shared(w), n)
      r == IF live = Missing_ THEN [handled |-> FALSE, heap |-> w.heap]
           ELSE InPlace(w.heap, w.globals[n], old)
      fresh == CopyInto(w.heap, old)
  IN  IF Opaque \in {old, live} \/ old = live THEN w
        ELSE IF old = Missing_ THEN [w EXCEPT !.globals = [m \in DOMAIN @ \ {n} |-> @[m]]]
        ELSE IF r.handled THEN [w EXCEPT !.heap = r.heap]
        ELSE [w EXCEPT !.heap = fresh.heap,
                       !.globals = [m \in DOMAIN @ \cup {n} |-> IF m = n THEN fresh.value ELSE @[m]]]
\* What of v a restore takes: the objects and the globals.
WithShared(w, v, environ) == [w EXCEPT !.heap = v.heap, !.globals = v.globals, !.environ = environ]
\* Names in an order of Python's choosing, the first `done` of them; the environment last.
restore_shared(w, before, environ, order, done) ==
  WithShared(w, FoldLeft(LAMBDA v, n : RestoreName(v, before, n), w, SubSeq(order, 1, done)),
             IF done = Len(order) THEN environ ELSE w.environ)

\* Comparing a name with what was taken of it may raise.
MayRaise(before, w, n) ==
  LET old == Taken(before, n)
      live == Taken(snapshot_shared(w), n)
  IN  Opaque \notin {old, live} /\ old # Missing_ /\ (HoldsArray(old) \/ HoldsArray(live))
\* An exception ends the loop at the name after the first `done`; the array compared may
\* be one that an earlier name put there, the two sharing an object.
Raises(before, w, order, done) == \E k \in 1 .. done + 1 : MayRaise(before, w, order[k])
-----------------------------------------------------------------------------
(* The packages under test: sys.modules and their registries.              *)

Present(w) == {m \in DOMAIN w.modules : w.modules[m] # 0}
\* Mutant of replaced: a module that is there is taken for the one that was.
ReplacedNone(before, w) == {}
replaced(before, w) ==
  {m \in DOMAIN before : before[m] # 0 /\ w.modules[m] \notin {0, before[m]}}
restore_modules(w, before) ==
  [w EXCEPT !.modules = [m \in DOMAIN @ |-> IF m \in replaced(before, w) THEN before[m] ELSE @[m]]]

\* The memo stands while as many modules are loaded, and those watched are the same
\* objects with as many names.
Names(w, m) == w.containers[w.modules[m]]
Scan(w) ==
  [size |-> Cardinality(Present(w)), watched |-> [m \in Present(w) |-> w.modules[m]],
   sizes |-> [m \in Present(w) |-> Cardinality(DOMAIN Names(w, m))],
   targets |-> UNION {{[label |-> <<m, a>>, container |-> Names(w, m)[a]] : a \in DOMAIN Names(w, m)} : m \in Present(w)}]
Stands(c, w) ==
  /\ c.size = Cardinality(Present(w))
  /\ \A m \in DOMAIN c.watched :
       w.modules[m] = c.watched[m] /\ Cardinality(DOMAIN Names(w, m)) = c.sizes[m]
registry_targets(c, w) == IF Stands(c, w) THEN c ELSE Scan(w)
registry_snapshot(c, w) ==
  {[label |-> g.label, container |-> g.container, saved |-> w.entries[g.container]] : g \in registry_targets(c, w).targets}

\* What the test code itself added: an entry of a key that was not there.
TestOwned(entries, saved) ==
  {e \in entries : e.owner = "test" /\ \A s \in saved : s.key # e.key}
registry_delta(before, w) == \E r \in before : TestOwned(w.entries[r.container], r.saved) # {}
\* A container found only now is restored against an empty one.
restore_registries(w, before, now) ==
  LET known == {r.label : r \in before}
      all == before \cup {[r EXCEPT !.saved = {}] : r \in {n \in now : n.label \notin known}}
      Saved(k) == {r.saved : r \in {r \in all : r.container = k}}
  IN  [w EXCEPT !.entries = [k \in DOMAIN @ |-> @[k] \ UNION {TestOwned(@[k], s) : s \in Saved(k)}]]
-----------------------------------------------------------------------------
(* The rest of the interpreter: the threads of library pools are not       *)
(* counted, and a directory that is gone cannot be returned to.            *)

state_fingerprint(w) ==
  [path |-> w.interp.path, filters |-> Len(w.interp.filters), handlers |-> w.interp.handlers,
   level |-> w.interp.level, cwd |-> w.interp.cwd, threads |-> w.interp.threads]
Drifted(before, after) ==
  {k \in DOMAIN before : IF k = "threads" THEN after.threads > before.threads ELSE before[k] # after[k]}
\* Deleting up to a count that shrank is Python's slice from the other end.
Cut(filters, n) ==
  LET to == IF Len(filters) >= n THEN Len(filters) - n ELSE Max({0, 2 * Len(filters) - n})
  IN  SubSeq(filters, to + 1, Len(filters))
restore_state(w, s) ==
  LET i == w.interp
      kept == SelectSeq(s.handlers, LAMBDA h : h \in Added(i.handlers))
  IN  [w EXCEPT !.interp =
         [i EXCEPT !.path = s.path, !.level = s.level, !.filters = Cut(i.filters, s.filters),
                   !.handlers = kept, !.cwd = IF i.home THEN s.cwd ELSE i.cwd]]
-----------------------------------------------------------------------------
(* Isolation.                                                              *)

\* Levels: "full" around a module's stay and a test on the restore tier, "measure" under
\* the purity guard alone, "bare" on the bare tier, which measures no globals, "none" there
\* without the restore.
Before(c, w) ==
  [globals |-> snapshot_shared(w), environ |-> w.environ, modules |-> w.modules,
   state |-> state_fingerprint(w), registries |-> registry_snapshot(c, w)]

purity_verdict(s, w) ==
  LET now == snapshot_shared(w)
      moved == {n \in DOMAIN s.globals \cup DOMAIN now :
                  Opaque \notin {Taken(s.globals, n), Taken(now, n)} /\ Taken(s.globals, n) # Taken(now, n)}
  IN  IF moved # {} THEN "globals" ELSE IF w.environ # s.environ THEN "environ" ELSE "pure"

NoVerdict == [level |-> "none", purity |-> "unknown", leaked |-> FALSE]
Verdict(level, s, w) ==
  LET own == purity_verdict(s, w)
      drift == Drifted(s.state, state_fingerprint(w))
      swapped == IF replaced(s.modules, w) # {} THEN "replaced" ELSE own
      purity == IF "threads" \in drift THEN "disturbed"
                ELSE IF swapped # "pure" THEN swapped
                ELSE IF registry_delta(s.registries, w) THEN "registries"
                ELSE IF drift # {} THEN "state"
                ELSE "pure"
  IN  CASE level = "none" -> NoVerdict
        [] level = "measure" -> [level |-> level, purity |-> own, leaked |-> FALSE]
        [] level = "bare" ->
             [level |-> level, leaked |-> "threads" \in drift,
              purity |-> IF "threads" \in drift THEN "disturbed"
                         ELSE IF replaced(s.modules, w) # {} THEN "replaced" ELSE "unknown"]
        [] OTHER -> [level |-> level, purity |-> purity, leaked |-> "threads" \in drift]

\* The globals first, then sys.modules, the registries as they are then, and the rest;
\* what the globals raise is passed over.
Restored(w, s, order, done) ==
  LET shared == restore_shared(w, s.globals, s.environ, order, done)
      modules == restore_modules(shared, s.modules)
      registries == restore_registries(modules, s.registries, registry_snapshot(memo, modules))
  IN  restore_state(registries, s.state)
-----------------------------------------------------------------------------
(* A stay on a module.                                                     *)

Enter ==
  /\ stage = "outside" /\ stage' = "inside" /\ guard' = <<Before(memo, world)>> /\ atEntry' = <<world>>
  /\ memo' = registry_targets(memo, world)
  /\ UNCHANGED <<world, trial, verdict, pokes, rebound>>

\* A module whose globals do not all copy forks, but where nothing can.
BeginTest ==
  /\ stage \in {"inside", "tested"} /\ restorable(world) /\ stage' = "testing"
  /\ memo' = registry_targets(memo, world)
  /\ trial' = <<[before |-> Before(memo, world), world |-> world]>> /\ verdict' = NoVerdict
  /\ UNCHANGED <<world, atEntry, guard, pokes, rebound>>

\* What a test may do to the world.
Fresh(w, o) == [w EXCEPT !.heap = Append(@, o)]
NewList == [kind |-> "list", items |-> <<-2>>]
Wrote(w) ==
  {[w EXCEPT !.heap[l].items = i] :
     l \in {l \in DOMAIN w.heap : w.heap[l].kind \notin {"opaque", "array"}}, i \in {<<>>, <<-2>>}}
  \cup {[w EXCEPT !.heap[l].items = <<-2>>] : l \in {l \in DOMAIN w.heap : w.heap[l].kind = "array"}}
Bound_(w, n, v) == [w EXCEPT !.globals = [m \in DOMAIN @ \cup {n} |-> IF m = n THEN v ELSE @[m]]]
Rebinds(w, n) ==
  {Bound_(w, n, v) : v \in DOMAIN w.heap \cup {-1}}
  \cup {Bound_(Fresh(w, o), n, Len(w.heap) + 1) : o \in {NewList, [kind |-> "opaque", items |-> <<>>]}}
  \cup {[w EXCEPT !.globals = [m \in DOMAIN @ \ {n} |-> @[m]]]}
Imports(w) ==
  UNION {{[w EXCEPT !.modules[m] = v] : v \in DOMAIN w.containers \cup {0}} : m \in DOMAIN w.modules}
Registers(w) ==
  {[w EXCEPT !.entries[k] = @ \cup {e}] : k \in DOMAIN w.entries, e \in Entries}
MadeAnew(w, v, a) ==
  [w EXCEPT !.containers[v] = [x \in DOMAIN @ \cup {a} |-> IF x = a THEN Len(w.entries) + 1 ELSE @[x]],
            !.entries = Append(@, {[key |-> "k", owner |-> "test"]})]
Changed(i) ==
  {[i EXCEPT !.path = "changed"], [i EXCEPT !.cwd = "away"], [i EXCEPT !.home = FALSE, !.cwd = "away"],
   [i EXCEPT !.level = "debug"], [i EXCEPT !.filters = <<"new">> \o @],
   [i EXCEPT !.handlers = Append(@, "h")], [i EXCEPT !.handlers = <<>>], [i EXCEPT !.threads = @ + 1]}
  \cup (IF i.filters = <<>> THEN {} ELSE {[i EXCEPT !.filters = Tail(@)]})
  \cup (IF i.threads = 0 THEN {} ELSE {[i EXCEPT !.threads = @ - 1]})
Disturbs(w) == {[w EXCEPT !.environ = "changed"]} \cup {[w EXCEPT !.interp = i] : i \in Changed(w.interp)}

Poke ==
  /\ stage = "testing" /\ pokes < MaxPokes /\ pokes' = pokes + 1
  /\ \/ world' \in Wrote(world) \cup Imports(world) \cup Registers(world) \cup Disturbs(world) /\ UNCHANGED rebound
     \/ \E n \in DOMAIN atEntry[1].globals \cup {"added"} :
          world' \in Rebinds(world, n) /\ rebound' = rebound \cup {n}
     \/ \E v \in DOMAIN world.containers : \E a \in {"reg", "late"} :
          /\ world' = MadeAnew(world, v, a)
          /\ rebound' = rebound \cup (IF a \in DOMAIN world.containers[v] THEN {a} ELSE {})
  /\ UNCHANGED <<atEntry, guard, memo, trial, verdict, stage>>

\* Where the comparison raises there is no verdict, and the test has failed for it.
EndTest ==
  /\ stage = "testing" /\ stage' = "tested"
  /\ \/ \E level \in {"full", "measure", "bare", "none"} : verdict' = Verdict(level, trial[1].before, world)
     \/ /\ \E n \in DOMAIN trial[1].before.globals \cap DOMAIN world.globals :
             MayRaise(trial[1].before.globals, world, n)
        /\ verdict' = NoVerdict
  /\ UNCHANGED <<world, atEntry, guard, memo, trial, pokes, rebound>>

Leave ==
  /\ stage \in {"inside", "tested"} /\ stage' = "left"
  /\ \E order \in Orders(DOMAIN guard[1].globals \cup DOMAIN world.globals) :
       \E done \in 0 .. Len(order) :
         /\ done # Len(order) => Raises(guard[1].globals, world, order, done)
         /\ world' = Restored(world, guard[1], order, done)
  /\ memo' = registry_targets(memo, restore_modules(world, guard[1].modules))
  /\ trial' = <<>> /\ verdict' = NoVerdict /\ guard' = <<>>
  /\ UNCHANGED <<atEntry, pokes, rebound>>

RestoreInit ==
  /\ world \in Worlds /\ atEntry = <<>> /\ guard = <<>> /\ memo = Scan(world) /\ trial = <<>>
  /\ verdict = NoVerdict /\ stage = "outside" /\ pokes = 0 /\ rebound = {}
RestoreNext == Enter \/ BeginTest \/ Poke \/ EndTest \/ Leave
RestoreSpec == RestoreInit /\ [][RestoreNext]_restoreVars
-----------------------------------------------------------------------------
(* Properties.                                                             *)

Value(w, n) == IF n \in DOMAIN w.globals THEN Content(w.heap, w.globals[n]) ELSE Missing_
\* What a name refers to, itself or in its items.
Reach(w, n) ==
  IF n \notin DOMAIN w.globals \/ w.globals[n] <= 0 THEN {}
  ELSE {w.globals[n]} \cup {i \in Added(w.heap[w.globals[n]].items) : i > 0}
\* Names a test made refer to one object: no order of restoring suits both.
Entangled(w, n) ==
  \E m \in DOMAIN w.globals \ {n} : Reach(w, m) \cap Reach(w, n) # {} /\ {m, n} \cap rebound # {}
\* Values the snapshots can speak of: that copy, and compare by content.
Judged(v, w, n) == \A c \in {Value(v, n), Value(w, n)} : ~NoCopy(c) /\ c.kind # "plain"
\* No global, then or now, holds a value whose comparison may raise.
Comparable ==
  \A n \in DOMAIN atEntry[1].globals \cup DOMAIN world.globals :
    ~HoldsArray(Value(atEntry[1], n)) /\ ~HoldsArray(Value(world, n))
\* The globals of the next module are those this one found, by content.
GlobalsBack ==
  LET was == atEntry[1]
  IN  Comparable => \A n \in DOMAIN was.globals \cup DOMAIN world.globals :
        Judged(was, world, n) /\ ~Entangled(world, n) => Value(world', n) = Value(was, n)
\* The environment, unless a comparison raised, the modules not removed, the registries of what is still loaded,
\* the path, the level, the warning filters put before others, the working directory
\* if it is still there.
SurroundingsBack ==
  LET was == atEntry[1]
  IN  /\ Comparable => world'.environ = was.environ
      /\ \A m \in Present(was) : world'.modules[m] \in {0, was.modules[m]}
      /\ \A m \in Present(was) \cap Present(world') : \A a \in DOMAIN Names(world', m) \ rebound :
           LET k == Names(world', m)[a]
           IN  TestOwned(world'.entries[k], IF k \in DOMAIN was.entries THEN was.entries[k] ELSE {}) = {}
      /\ world'.interp.path = was.interp.path /\ world'.interp.level = was.interp.level
      /\ IsSuffix(was.interp.filters, world.interp.filters) => world'.interp.filters = was.interp.filters
      /\ world.interp.home => world'.interp.cwd = was.interp.cwd

\* Whoever holds an object of the module, a stub, a callback, a fixture, goes on holding
\* the module's own: a name no test bound anew keeps its object, and a user object the
\* attributes it was left with.
ReferencesFollow ==
  [][Leave =>
      \A n \in DOMAIN atEntry[1].globals \ rebound :
        LET o == atEntry[1].globals[n]
        IN  /\ world'.globals[n] = o
            /\ o > 0 /\ atEntry[1].heap[o].kind = "user" /\ world.heap[o].items = atEntry[1].heap[o].items =>
                 world'.heap[o].items = atEntry[1].heap[o].items]_restoreVars

\* A test found pure, which from then on runs bare, left nothing for its neighbours in
\* all that is watched: no global, variable, module, registry nor interpreter setting.
PureIsClean ==
  stage = "tested" /\ verdict.purity = "pure" /\ verdict.level = "full" =>
    LET was == trial[1].world
    IN  /\ \A n \in DOMAIN was.globals \cup DOMAIN world.globals : Judged(was, world, n) => Value(world, n) = Value(was, n)
        /\ world.environ = was.environ
        /\ \A m \in Present(was) : world.modules[m] \in {0, was.modules[m]}
        /\ \A m \in Present(was) : world.modules[m] = was.modules[m] =>
             \A a \in DOMAIN Names(was, m) \ rebound :
               TestOwned(world.entries[Names(was, m)[a]], was.entries[Names(was, m)[a]]) = {}
        /\ state_fingerprint(world) = [state_fingerprint(was) EXCEPT !.threads = world.interp.threads]
        /\ world.interp.threads <= was.interp.threads
=============================================================================
