------------------------ MODULE ModuleRestoreProofs ------------------------
(***************************************************************************)
(* Theorems about ModuleRestore, for any worlds, however objects copy and  *)
(* compare: a test found pure left nothing in what is watched, and leaving *)
(* a module puts back all that surrounds its globals.  Both rest on the    *)
(* memo of the registries, which is made once and believed while a few     *)
(* counts agree, being true of the process whenever it is believed.        *)
(***************************************************************************)
EXTENDS ModuleRestore, FiniteSetTheorems, TLAPS
-----------------------------------------------------------------------------
(* The inductive invariant.                                                *)

\* What only grows while a module's tests run, but for the names bound anew.
Grown(was, w, r) ==
  /\ DOMAIN w.modules = DOMAIN was.modules /\ DOMAIN w.containers = DOMAIN was.containers
  /\ DOMAIN was.entries \subseteq DOMAIN w.entries
  /\ \A v \in DOMAIN was.containers :
       /\ DOMAIN was.containers[v] \subseteq DOMAIN w.containers[v]
       /\ \A a \in DOMAIN was.containers[v] \ r : w.containers[v][a] = was.containers[v][a]

Target(m, a, k) == [label |-> <<m, a>>, container |-> k]
Labelled(c, m) == {g.label[2] : g \in {g \in c.targets : g.label[1] = m}}

\* A memo tells what was once so: its modules and their counts, and the registries that
\* had a name which nothing has bound anew.
MemoIsTrue(c, w, r) ==
  /\ c.size = Cardinality(DOMAIN c.watched) /\ DOMAIN c.watched \subseteq DOMAIN w.modules
  /\ \A g \in c.targets : g = Target(g.label[1], g.label[2], g.container)
  /\ \A m \in DOMAIN c.watched :
       /\ c.watched[m] \in DOMAIN w.containers
       /\ Labelled(c, m) \subseteq DOMAIN w.containers[c.watched[m]]
       /\ Cardinality(Labelled(c, m)) = c.sizes[m]
       /\ \A g \in c.targets : g.label[1] = m /\ g.label[2] \notin r =>
            g.container = w.containers[c.watched[m]][g.label[2]]

\* A snapshot of a world names the registries it had, and nothing else, of its modules.
RegistriesOf(s, w, r) ==
  /\ \A m \in Present(w) : \A a \in DOMAIN Names(w, m) \ r :
       LET k == Names(w, m)[a]
       IN  [label |-> <<m, a>>, container |-> k, saved |-> w.entries[k]] \in s
  /\ \A x \in s : \A m \in Present(w) : x.label[1] = m => x.label[2] \in DOMAIN Names(w, m)
Snapshot(s, w, r) ==
  /\ s.globals = snapshot_shared(w) /\ s.environ = w.environ /\ s.modules = w.modules
  /\ s.state = state_fingerprint(w) /\ RegistriesOf(s.registries, w, r)

RInv ==
  /\ stage \in {"outside", "inside", "testing", "tested", "left"}
  /\ stage # "left" => IsProcess(world) /\ MemoIsTrue(memo, world, rebound)
  /\ stage \in {"inside", "testing", "tested"} =>
       /\ IsProcess(atEntry[1]) /\ Grown(atEntry[1], world, rebound)
       /\ Snapshot(guard[1], atEntry[1], rebound)
  /\ stage \in {"testing", "tested"} =>
       IsProcess(trial[1].world) /\ Snapshot(trial[1].before, trial[1].world, rebound)
  /\ stage = "tested" => verdict = Verdict(verdict.level, trial[1].before, world)
-----------------------------------------------------------------------------
(* The memo.                                                               *)

LEMMA ScanTargets ==
  ASSUME NEW w
  PROVE  /\ \A g \in Scan(w).targets : \E m \in Present(w) : \E a \in DOMAIN Names(w, m) :
              g = Target(m, a, Names(w, m)[a])
         /\ \A m \in Present(w) : \A a \in DOMAIN Names(w, m) :
              Target(m, a, Names(w, m)[a]) \in Scan(w).targets
BY DEF Scan, Target

LEMMA LabelledTargets ==
  ASSUME NEW c, NEW m, NEW a
  PROVE  a \in Labelled(c, m) <=> \E g \in c.targets : g.label[1] = m /\ g.label[2] = a
BY DEF Labelled

\* What a scan finds is so.
LEMMA ScanIsTrue ==
  ASSUME NEW w, IsProcess(w), NEW r
  PROVE  MemoIsTrue(Scan(w), w, r)
<1> DEFINE c == Scan(w)
<1>1. /\ c.size = Cardinality(Present(w)) /\ DOMAIN c.watched = Present(w)
      /\ \A m \in Present(w) : c.watched[m] = w.modules[m]
      /\ \A m \in Present(w) : c.sizes[m] = Cardinality(DOMAIN Names(w, m))
  BY DEF Scan
<1> HIDE DEF c
<1>2. /\ \A g \in c.targets : \E m \in Present(w) : \E a \in DOMAIN Names(w, m) :
           g = Target(m, a, Names(w, m)[a])
      /\ \A m \in Present(w) : \A a \in DOMAIN Names(w, m) :
           Target(m, a, Names(w, m)[a]) \in c.targets
  BY ScanTargets DEF c
<1>3. \A m, a, k : /\ Target(m, a, k).label[1] = m /\ Target(m, a, k).label[2] = a
                   /\ Target(m, a, k).container = k
  BY DEF Target
<1>4. Present(w) \subseteq DOMAIN w.modules /\ \A m \in Present(w) : w.modules[m] \in DOMAIN w.containers
  BY DEF Present, IsProcess
<1>5. \A g \in c.targets : g = Target(g.label[1], g.label[2], g.container)
  BY <1>2, <1>3
<1>6. ASSUME NEW m \in Present(w)
      PROVE  Labelled(c, m) = DOMAIN Names(w, m)
  <2>1. ASSUME NEW a \in Labelled(c, m) PROVE a \in DOMAIN Names(w, m)
    <3>1. PICK g \in c.targets : g.label[1] = m /\ g.label[2] = a
      BY <2>1, LabelledTargets
    <3>2. PICK n \in Present(w) : \E b \in DOMAIN Names(w, n) : g = Target(n, b, Names(w, n)[b])
      BY <1>2
    <3> QED BY <3>1, <3>2, <1>3
  <2>2. ASSUME NEW a \in DOMAIN Names(w, m) PROVE a \in Labelled(c, m)
    <3>1. Target(m, a, Names(w, m)[a]) \in c.targets
      BY <1>2
    <3> QED BY <3>1, <1>3, LabelledTargets
  <2> QED BY <2>1, <2>2
<1>7. ASSUME NEW m \in Present(w), NEW g \in c.targets, g.label[1] = m
      PROVE  g.container = Names(w, m)[g.label[2]]
  <2>1. PICK n \in Present(w) : \E b \in DOMAIN Names(w, n) : g = Target(n, b, Names(w, n)[b])
    BY <1>2
  <2> QED BY <2>1, <1>3, <1>7
<1> QED BY <1>1, <1>4, <1>5, <1>6, <1>7 DEF MemoIsTrue, Names, c

\* A memo that is true and believed is exact: it watches the modules that are there, and
\* labels the names their registries have.
LEMMA StandingIsExact ==
  ASSUME NEW c, NEW w, NEW r, IsProcess(w), MemoIsTrue(c, w, r), Stands(c, w)
  PROVE  /\ \A m \in Present(w) : Labelled(c, m) = DOMAIN Names(w, m)
         /\ \A m \in Present(w) : \A a \in DOMAIN Names(w, m) \ r :
              Target(m, a, Names(w, m)[a]) \in c.targets
<1>1. IsFiniteSet(Present(w))
  <2>1. Present(w) \subseteq DOMAIN w.modules /\ IsFiniteSet(DOMAIN w.modules)
    BY DEF Present, IsProcess
  <2> QED BY <2>1, FS_Subset
<1>2. DOMAIN c.watched = Present(w)
  <2>1. ASSUME NEW m \in DOMAIN c.watched PROVE m \in Present(w)
    BY DEF MemoIsTrue, Stands, Present, IsProcess
  <2>2. Cardinality(DOMAIN c.watched) = Cardinality(Present(w))
    BY DEF MemoIsTrue, Stands
  <2> QED BY <1>1, <2>1, <2>2, FS_Subset, FS_CardinalityType
<1>3. ASSUME NEW m \in Present(w)
      PROVE  /\ Labelled(c, m) = DOMAIN Names(w, m)
             /\ \A a \in DOMAIN Names(w, m) \ r : Target(m, a, Names(w, m)[a]) \in c.targets
  <2>1. c.watched[m] = w.modules[m] /\ w.modules[m] \in DOMAIN w.containers
    BY <1>2 DEF Stands, IsProcess, MemoIsTrue
  <2>2. /\ Labelled(c, m) \subseteq DOMAIN Names(w, m)
        /\ Cardinality(Labelled(c, m)) = Cardinality(DOMAIN Names(w, m))
        /\ IsFiniteSet(DOMAIN Names(w, m))
    BY <1>2, <2>1 DEF MemoIsTrue, Stands, IsProcess, Names
  <2>3. Labelled(c, m) = DOMAIN Names(w, m)
    BY <2>2, FS_Subset
  <2>4. ASSUME NEW a \in DOMAIN Names(w, m) \ r
        PROVE  Target(m, a, Names(w, m)[a]) \in c.targets
    <3>1. PICK g \in c.targets : g.label[1] = m /\ g.label[2] = a
      BY <2>3, LabelledTargets
    <3>2. g = Target(m, a, g.container)
      BY <3>1 DEF MemoIsTrue
    <3>3. g.container = Names(w, m)[a]
      BY <1>2, <2>1, <3>1 DEF MemoIsTrue, Names
    <3> QED BY <3>1, <3>2, <3>3
  <2> QED BY <2>3, <2>4
<1> QED BY <1>3

\* Whatever the memo, what is watched is true, and exact.
LEMMA TargetsAreExact ==
  ASSUME NEW c, NEW w, NEW r, IsProcess(w), MemoIsTrue(c, w, r)
  PROVE  LET t == registry_targets(c, w) IN
         /\ MemoIsTrue(t, w, r)
         /\ \A m \in Present(w) : Labelled(t, m) = DOMAIN Names(w, m)
         /\ \A m \in Present(w) : \A a \in DOMAIN Names(w, m) \ r :
              Target(m, a, Names(w, m)[a]) \in t.targets
<1>1. CASE Stands(c, w)
  BY <1>1, StandingIsExact DEF registry_targets
<1>2. CASE ~Stands(c, w)
  <2>1. MemoIsTrue(Scan(w), w, r)
    BY ScanIsTrue
  <2>2. Stands(Scan(w), w)
    BY DEF Scan, Stands
  <2> QED BY <1>2, <2>1, <2>2, StandingIsExact DEF registry_targets
<1> QED BY <1>1, <1>2

LEMMA MemoSurvives ==
  ASSUME NEW c, NEW w, NEW v, NEW r, NEW q,
         MemoIsTrue(c, w, r), Grown(w, v, q), r \subseteq q
  PROVE  MemoIsTrue(c, v, q)
<1>1. \A m \in DOMAIN c.watched : \A g \in c.targets :
        g.label[1] = m => g.label[2] \in DOMAIN w.containers[c.watched[m]]
  BY LabelledTargets DEF MemoIsTrue
<1> QED BY <1>1 DEF MemoIsTrue, Grown

LEMMA GrownTwice ==
  ASSUME NEW u, NEW w, NEW v, NEW r, NEW q, Grown(u, w, r), Grown(w, v, q), r \subseteq q
  PROVE  Grown(u, v, q)
BY DEF Grown

LEMMA SnapshotSurvives ==
  ASSUME NEW s, NEW w, NEW r, NEW q, Snapshot(s, w, r), r \subseteq q
  PROVE  Snapshot(s, w, q)
BY DEF Snapshot, RegistriesOf

\* A snapshot taken with a memo that is true is one of the world.
LEMMA BeforeIsSnapshot ==
  ASSUME NEW c, NEW w, NEW r, IsProcess(w), MemoIsTrue(c, w, r)
  PROVE  Snapshot(Before(c, w), w, r)
<1> DEFINE t == registry_targets(c, w)
           s == registry_snapshot(c, w)
<1>1. s = {[label |-> g.label, container |-> g.container, saved |-> w.entries[g.container]] : g \in t.targets}
  BY DEF registry_snapshot
<1> HIDE DEF t, s
<1>2. /\ \A m \in Present(w) : Labelled(t, m) = DOMAIN Names(w, m)
      /\ \A m \in Present(w) : \A a \in DOMAIN Names(w, m) \ r :
           Target(m, a, Names(w, m)[a]) \in t.targets
  BY TargetsAreExact DEF t
<1>3. ASSUME NEW m \in Present(w), NEW a \in DOMAIN Names(w, m) \ r
      PROVE  [label |-> <<m, a>>, container |-> Names(w, m)[a], saved |-> w.entries[Names(w, m)[a]]] \in s
  <2>1. PICK g \in t.targets : g = Target(m, a, Names(w, m)[a])
    BY <1>2
  <2>2. g.label = <<m, a>> /\ g.container = Names(w, m)[a]
    BY <2>1 DEF Target
  <2> QED BY <1>1, <2>2
<1>4. ASSUME NEW x \in s, NEW m \in Present(w), x.label[1] = m
      PROVE  x.label[2] \in DOMAIN Names(w, m)
  <2>1. PICK g \in t.targets : x.label = g.label
    BY <1>1
  <2> QED BY <1>2, <1>4, <2>1, LabelledTargets
<1>5. RegistriesOf(s, w, r)
  BY <1>3, <1>4 DEF RegistriesOf
<1> QED BY <1>5 DEF Snapshot, Before, s
-----------------------------------------------------------------------------
(* What a test may do.                                                     *)

\* Registries and modules untouched.
LEMMA ElsewhereGrown ==
  ASSUME NEW w, NEW v, NEW r, IsProcess(w), DOMAIN v = DOMAIN w,
         v.modules = w.modules, v.containers = w.containers, v.entries = w.entries,
         DOMAIN v.interp = DOMAIN w.interp, v.interp.filters \in Seq(Filters_), v.interp.threads \in Nat
  PROVE  IsProcess(v) /\ Grown(w, v, r)
BY DEF IsProcess, Grown

LEMMA WritesGrow ==
  ASSUME NEW w, NEW r, IsProcess(w), NEW v \in Wrote(w)
  PROVE  IsProcess(v) /\ Grown(w, v, r)
<1>1. PICK h : v = [w EXCEPT !.heap = h]
  BY DEF Wrote
<1> QED BY <1>1, ElsewhereGrown DEF IsProcess

LEMMA RebindsGrow ==
  ASSUME NEW w, NEW r, NEW n, IsProcess(w), NEW v \in Rebinds(w, n)
  PROVE  IsProcess(v) /\ Grown(w, v, r)
<1>1. /\ DOMAIN v = DOMAIN w /\ v.modules = w.modules /\ v.containers = w.containers
      /\ v.entries = w.entries /\ v.interp = w.interp
  BY DEF Rebinds, Bound_, Fresh, IsProcess
<1> QED BY <1>1, ElsewhereGrown DEF IsProcess

LEMMA ImportsGrow ==
  ASSUME NEW w, NEW r, IsProcess(w), NEW v \in Imports(w)
  PROVE  IsProcess(v) /\ Grown(w, v, r)
<1>1. PICK m \in DOMAIN w.modules, x \in DOMAIN w.containers \cup {0} : v = [w EXCEPT !.modules[m] = x]
  BY DEF Imports
<1> QED BY <1>1 DEF IsProcess, Grown

LEMMA RegistersGrow ==
  ASSUME NEW w, NEW r, IsProcess(w), NEW v \in Registers(w)
  PROVE  IsProcess(v) /\ Grown(w, v, r)
<1>1. PICK k \in DOMAIN w.entries, e \in Entries : v = [w EXCEPT !.entries[k] = @ \cup {e}]
  BY DEF Registers
<1>2. /\ DOMAIN v = DOMAIN w /\ v.modules = w.modules /\ v.containers = w.containers /\ v.interp = w.interp
      /\ v.entries = [w.entries EXCEPT ![k] = @ \cup {e}]
  BY <1>1 DEF IsProcess
<1>3. v.entries \in Seq(SUBSET Entries) /\ DOMAIN v.entries = DOMAIN w.entries
  BY <1>2 DEF IsProcess
<1> QED BY <1>2, <1>3 DEF IsProcess, Grown

LEMMA MadeAnewGrows ==
  ASSUME NEW w, IsProcess(w), NEW x \in DOMAIN w.containers, NEW a, NEW r,
         a \in DOMAIN w.containers[x] => a \in r
  PROVE  IsProcess(MadeAnew(w, x, a)) /\ Grown(w, MadeAnew(w, x, a), r)
<1> DEFINE v == MadeAnew(w, x, a)
           new == [y \in DOMAIN w.containers[x] \cup {a} |->
                     IF y = a THEN Len(w.entries) + 1 ELSE w.containers[x][y]]
<1>1. /\ DOMAIN v = DOMAIN w /\ v.modules = w.modules /\ v.interp = w.interp
      /\ v.entries = Append(w.entries, {[key |-> "k", owner |-> "test"]})
      /\ v.containers = [w.containers EXCEPT ![x] = new]
  BY DEF MadeAnew, IsProcess
<1> HIDE DEF v, new
<1>2. /\ v.entries \in Seq(SUBSET Entries) /\ DOMAIN w.entries \subseteq DOMAIN v.entries
      /\ Len(w.entries) + 1 \in DOMAIN v.entries
  <2>1. {[key |-> "k", owner |-> "test"]} \in SUBSET Entries
    BY DEF Entries
  <2>2. w.entries \in Seq(SUBSET Entries)
    BY DEF IsProcess
  <2>3. \A e \in SUBSET Entries :
          /\ Append(w.entries, e) \in Seq(SUBSET Entries) /\ Len(Append(w.entries, e)) = Len(w.entries) + 1
          /\ DOMAIN w.entries = 1 .. Len(w.entries) /\ DOMAIN Append(w.entries, e) = 1 .. Len(w.entries) + 1
    BY <2>2
  <2> QED BY <1>1, <2>1, <2>2, <2>3
<1>3. DOMAIN v.containers = DOMAIN w.containers
      /\ \A y \in DOMAIN w.containers : v.containers[y] = IF y = x THEN new ELSE w.containers[y]
  BY <1>1
<1>4. /\ DOMAIN new = DOMAIN w.containers[x] \cup {a} /\ IsFiniteSet(DOMAIN new)
      /\ \A y \in DOMAIN new : new[y] = IF y = a THEN Len(w.entries) + 1 ELSE w.containers[x][y]
  <2>1. DOMAIN new = DOMAIN w.containers[x] \cup {a}
    BY DEF new
  <2>2. IsFiniteSet(DOMAIN w.containers[x] \cup {a})
    BY FS_AddElement DEF IsProcess
  <2> QED BY <2>1, <2>2 DEF new
<1>5. IsProcess(v)
  BY <1>1, <1>2, <1>3, <1>4 DEF IsProcess
<1>6. Grown(w, v, r)
  BY <1>1, <1>2, <1>3, <1>4 DEF Grown
<1> QED BY <1>5, <1>6 DEF v

LEMMA SequenceFacts ==
  ASSUME NEW S, NEW x \in S, NEW f \in Seq(S)
  PROVE  <<x>> \o f \in Seq(S) /\ (f # <<>> => Tail(f) \in Seq(S))
OBVIOUS

LEMMA ChangedSettings ==
  ASSUME NEW i, DOMAIN i = {"path", "filters", "handlers", "level", "cwd", "home", "threads"},
         i.filters \in Seq(Filters_), i.threads \in Nat, NEW h \in Changed(i)
  PROVE  DOMAIN h = DOMAIN i /\ h.filters \in Seq(Filters_) /\ h.threads \in Nat
<1>1. /\ DOMAIN h = DOMAIN i
      /\ \/ h.filters = i.filters \/ h.filters = <<"new">> \o i.filters
         \/ i.filters # <<>> /\ h.filters = Tail(i.filters)
      /\ h.threads = i.threads \/ h.threads = i.threads + 1 \/ (i.threads # 0 /\ h.threads = i.threads - 1)
  BY DEF Changed
<1>2. <<"new">> \o i.filters \in Seq(Filters_) /\ (i.filters # <<>> => Tail(i.filters) \in Seq(Filters_))
  <2>1. "new" \in Filters_
    BY DEF Filters_
  <2> QED BY <2>1, SequenceFacts
<1>3. h.filters \in Seq(Filters_)
  BY <1>1, <1>2
<1>4. h.threads \in Nat
  BY <1>1
<1> QED BY <1>1, <1>3, <1>4

LEMMA DisturbsGrow ==
  ASSUME NEW w, NEW r, IsProcess(w), NEW v \in Disturbs(w)
  PROVE  IsProcess(v) /\ Grown(w, v, r)
<1>1. /\ DOMAIN v = DOMAIN w /\ v.modules = w.modules /\ v.containers = w.containers
      /\ v.entries = w.entries /\ (v.interp = w.interp \/ v.interp \in Changed(w.interp))
  BY DEF Disturbs, IsProcess
<1>2. /\ DOMAIN v.interp = DOMAIN w.interp
      /\ v.interp.filters \in Seq(Filters_) /\ v.interp.threads \in Nat
  BY <1>1, ChangedSettings DEF IsProcess
<1> QED BY <1>1, <1>2, ElsewhereGrown

LEMMA PokeGrows ==
  ASSUME IsProcess(world), Poke
  PROVE  IsProcess(world') /\ Grown(world, world', rebound') /\ rebound \subseteq rebound'
<1>1. CASE world' \in Wrote(world) \cup Imports(world) \cup Registers(world) \cup Disturbs(world) /\ UNCHANGED rebound
  BY <1>1, WritesGrow, ImportsGrow, RegistersGrow, DisturbsGrow
<1>2. ASSUME NEW n, world' \in Rebinds(world, n), rebound' = rebound \cup {n}
      PROVE  IsProcess(world') /\ Grown(world, world', rebound') /\ rebound \subseteq rebound'
  BY <1>2, RebindsGrow
<1>3. ASSUME NEW v \in DOMAIN world.containers, NEW a, world' = MadeAnew(world, v, a),
             rebound' = rebound \cup (IF a \in DOMAIN world.containers[v] THEN {a} ELSE {})
      PROVE  IsProcess(world') /\ Grown(world, world', rebound') /\ rebound \subseteq rebound'
  BY <1>3, MadeAnewGrows
<1> QED BY <1>1, <1>2, <1>3 DEF Poke
-----------------------------------------------------------------------------
(* Invariance.                                                             *)

LEMMA RestoreStarts == RestoreInit => RInv
BY WorldsAreProcesses, ScanIsTrue DEF RestoreInit, RInv

\* The inductive invariant: what the memo and the snapshots hold is so.
THEOREM RestoreInvariance == RestoreSpec => []RInv
<1>1. RestoreInit => RInv
  BY RestoreStarts
<1>2. ASSUME RInv, [RestoreNext]_restoreVars
      PROVE  RInv'
  <2>1. CASE UNCHANGED restoreVars
    BY <1>2, <2>1 DEF restoreVars, RInv, Snapshot, RegistriesOf
  <2>2. CASE Enter
    <3>1. IsProcess(world) /\ MemoIsTrue(memo, world, rebound) /\ UNCHANGED <<world, rebound>>
      BY <1>2, <2>2 DEF RInv, Enter
    <3>2. MemoIsTrue(memo', world, rebound)
      BY <2>2, <3>1, TargetsAreExact DEF Enter
    <3>3. guard'[1] = Before(memo, world) /\ atEntry'[1] = world /\ stage' = "inside"
      BY <2>2 DEF Enter
    <3>4. Snapshot(guard'[1], world, rebound)
      BY <3>1, <3>3, BeforeIsSnapshot
    <3>5. Grown(world, world, rebound)
      BY DEF Grown
    <3> QED BY <3>1, <3>2, <3>3, <3>4, <3>5 DEF RInv
  <2>3. CASE BeginTest
    <3>1. /\ IsProcess(world) /\ MemoIsTrue(memo, world, rebound)
          /\ UNCHANGED <<world, atEntry, guard, rebound>>
          /\ IsProcess(atEntry[1]) /\ Grown(atEntry[1], world, rebound)
          /\ Snapshot(guard[1], atEntry[1], rebound)
      BY <1>2, <2>3 DEF RInv, BeginTest
    <3>2. MemoIsTrue(memo', world, rebound)
      BY <2>3, <3>1, TargetsAreExact DEF BeginTest
    <3>3. trial'[1].before = Before(memo, world) /\ trial'[1].world = world /\ stage' = "testing"
      BY <2>3 DEF BeginTest
    <3>4. IsProcess(trial'[1].world) /\ Snapshot(trial'[1].before, trial'[1].world, rebound)
      BY <3>1, <3>3, BeforeIsSnapshot
    <3> QED BY <3>1, <3>2, <3>3, <3>4 DEF RInv
  <2>4. CASE Poke
    <3>1. /\ IsProcess(world) /\ MemoIsTrue(memo, world, rebound)
          /\ UNCHANGED <<atEntry, guard, memo, trial, verdict, stage>> /\ stage = "testing"
          /\ IsProcess(atEntry[1]) /\ Grown(atEntry[1], world, rebound)
          /\ Snapshot(guard[1], atEntry[1], rebound)
          /\ IsProcess(trial[1].world) /\ Snapshot(trial[1].before, trial[1].world, rebound)
      BY <1>2, <2>4 DEF RInv, Poke
    <3>2. IsProcess(world') /\ Grown(world, world', rebound') /\ rebound \subseteq rebound'
      BY <2>4, <3>1, PokeGrows
    <3>3. MemoIsTrue(memo, world', rebound') /\ Grown(atEntry[1], world', rebound')
      BY <3>1, <3>2, MemoSurvives, GrownTwice
    <3>4. Snapshot(guard[1], atEntry[1], rebound') /\ Snapshot(trial[1].before, trial[1].world, rebound')
      BY <3>1, <3>2, SnapshotSurvives
    <3> QED BY <3>1, <3>2, <3>3, <3>4 DEF RInv
  <2>5. CASE EndTest
    <3>1. PICK level \in {"full", "measure", "bare", "none"} : verdict' = Verdict(level, trial[1].before, world)
      BY <2>5 DEF EndTest, Verdict
    <3>2. verdict'.level = level
      BY <3>1 DEF Verdict, NoVerdict
    <3>3. verdict' = Verdict(verdict'.level, trial'[1].before, world')
      BY <2>5, <3>1, <3>2 DEF EndTest
    <3> QED BY <1>2, <2>5, <3>3 DEF RInv, EndTest
  <2>6. CASE Leave
    BY <2>6 DEF RInv, Leave
  <2> QED BY <1>2, <2>1, <2>2, <2>3, <2>4, <2>5, <2>6 DEF RestoreNext
<1> QED BY <1>1, <1>2, PTL DEF RestoreSpec
-----------------------------------------------------------------------------
(* A test found pure.                                                      *)

\* What copies is in the snapshot as it is.
LEMMA TakenIsValue ==
  ASSUME NEW w, NEW n, ~NoCopy(Value(w, n))
  PROVE  Taken(snapshot_shared(w), n) = Value(w, n) /\ Value(w, n) # Opaque
<1>1. NoCopy(Opaque)
  BY DEF NoCopy, Opaque
<1>2. DOMAIN snapshot_shared(w) = DOMAIN w.globals
  BY DEF snapshot_shared
<1>3. n \in DOMAIN w.globals => Taken(snapshot_shared(w), n) = Value(w, n)
  BY <1>2 DEF Taken, Value, snapshot_shared
<1>4. n \notin DOMAIN w.globals => Taken(snapshot_shared(w), n) = Value(w, n)
  BY <1>2 DEF Taken, Value
<1> QED BY <1>1, <1>3, <1>4

\* What a full verdict of purity has looked at.
LEMMA PureVerdict ==
  ASSUME NEW s, NEW w, Verdict("full", s, w).purity = "pure"
  PROVE  /\ purity_verdict(s, w) = "pure" /\ replaced(s.modules, w) = {}
         /\ ~registry_delta(s.registries, w) /\ Drifted(s.state, state_fingerprint(w)) = {}
BY DEF Verdict

\* The names the purity guard compares are as they were.
LEMMA PureGlobals ==
  ASSUME NEW s, NEW was, NEW w, NEW n \in DOMAIN was.globals \cup DOMAIN w.globals,
         s.globals = snapshot_shared(was), purity_verdict(s, w) = "pure", Judged(was, w, n)
  PROVE  Value(w, n) = Value(was, n)
<1>1. DOMAIN s.globals = DOMAIN was.globals /\ DOMAIN snapshot_shared(w) = DOMAIN w.globals
  BY DEF snapshot_shared
<1>2. /\ Taken(s.globals, n) = Value(was, n) /\ Value(was, n) # Opaque
      /\ Taken(snapshot_shared(w), n) = Value(w, n) /\ Value(w, n) # Opaque
  BY TakenIsValue DEF Judged
<1>3. ~(Opaque \notin {Taken(s.globals, n), Taken(snapshot_shared(w), n)}
         /\ Taken(s.globals, n) # Taken(snapshot_shared(w), n))
  BY <1>1 DEF purity_verdict
<1> QED BY <1>2, <1>3

LEMMA PureSettings ==
  ASSUME NEW was, NEW w, IsProcess(was), IsProcess(w),
         Drifted(state_fingerprint(was), state_fingerprint(w)) = {}
  PROVE  /\ state_fingerprint(w) = [state_fingerprint(was) EXCEPT !.threads = w.interp.threads]
         /\ w.interp.threads <= was.interp.threads
<1>1. /\ was.interp.threads \in Nat /\ w.interp.threads \in Nat
      /\ state_fingerprint(was).threads = was.interp.threads
      /\ state_fingerprint(w).threads = w.interp.threads
      /\ DOMAIN state_fingerprint(was) = {"path", "filters", "handlers", "level", "cwd", "threads"}
  BY DEF IsProcess, state_fingerprint
<1>2. \A k \in {"path", "filters", "handlers", "level", "cwd", "threads"} :
        ~(IF k = "threads" THEN state_fingerprint(w).threads > state_fingerprint(was).threads
                           ELSE state_fingerprint(was)[k] # state_fingerprint(w)[k])
  BY <1>1 DEF Drifted
<1>3. w.interp.threads <= was.interp.threads
  BY <1>1, <1>2
<1>4. \A k \in {"path", "filters", "handlers", "level", "cwd"} : state_fingerprint(was)[k] = state_fingerprint(w)[k]
  BY <1>2
<1> QED BY <1>3, <1>4 DEF state_fingerprint

LEMMA PureFollows == RInv => PureIsClean
<1> SUFFICES ASSUME RInv, stage = "tested", verdict.purity = "pure", verdict.level = "full"
             PROVE  LET was == trial[1].world
                    IN  /\ \A n \in DOMAIN was.globals \cup DOMAIN world.globals :
                             Judged(was, world, n) => Value(world, n) = Value(was, n)
                        /\ world.environ = was.environ
                        /\ \A m \in Present(was) : world.modules[m] \in {0, was.modules[m]}
                        /\ \A m \in Present(was) : world.modules[m] = was.modules[m] =>
                             \A a \in DOMAIN Names(was, m) \ rebound :
                               TestOwned(world.entries[Names(was, m)[a]], was.entries[Names(was, m)[a]]) = {}
                        /\ state_fingerprint(world) = [state_fingerprint(was) EXCEPT !.threads = world.interp.threads]
                        /\ world.interp.threads <= was.interp.threads
  BY DEF PureIsClean
<1> DEFINE was == trial[1].world
           s == trial[1].before
<1>1. /\ IsProcess(world) /\ IsProcess(was) /\ Snapshot(s, was, rebound)
      /\ verdict = Verdict("full", s, world)
  BY DEF RInv
<1> HIDE DEF was, s
<1>2. /\ purity_verdict(s, world) = "pure" /\ replaced(s.modules, world) = {}
      /\ ~registry_delta(s.registries, world) /\ Drifted(s.state, state_fingerprint(world)) = {}
  BY <1>1, PureVerdict
<1>3. \A n \in DOMAIN was.globals \cup DOMAIN world.globals :
        Judged(was, world, n) => Value(world, n) = Value(was, n)
  BY <1>1, <1>2, PureGlobals DEF Snapshot
<1>4. world.environ = was.environ
  BY <1>1, <1>2 DEF Snapshot, purity_verdict
<1>5. \A m \in Present(was) : world.modules[m] \in {0, was.modules[m]}
  BY <1>1, <1>2 DEF Snapshot, replaced, Present
<1>6. ASSUME NEW m \in Present(was), NEW a \in DOMAIN Names(was, m) \ rebound
      PROVE  TestOwned(world.entries[Names(was, m)[a]], was.entries[Names(was, m)[a]]) = {}
  <2>1. PICK x \in s.registries : x = [label |-> <<m, a>>, container |-> Names(was, m)[a],
                                        saved |-> was.entries[Names(was, m)[a]]]
    BY <1>1 DEF Snapshot, RegistriesOf
  <2>2. TestOwned(world.entries[x.container], x.saved) = {}
    BY <1>2 DEF registry_delta
  <2> QED BY <2>1, <2>2
<1>7. /\ state_fingerprint(world) = [state_fingerprint(was) EXCEPT !.threads = world.interp.threads]
      /\ world.interp.threads <= was.interp.threads
  BY <1>1, <1>2, PureSettings DEF Snapshot
<1> QED BY <1>3, <1>4, <1>5, <1>6, <1>7 DEF was

\* A test measured pure, in full, left nothing of what is watched changed.
THEOREM PureTestsLeaveNothing == RestoreSpec => []PureIsClean
BY RestoreInvariance, PureFollows, PTL
-----------------------------------------------------------------------------
(* What leaving a module puts back.                                        *)

\* The world between restoring the modules and the registries.
Halfway(w, s, order, done) ==
  restore_modules(restore_shared(w, s.globals, s.environ, order, done), s.modules)

LEMMA HalfwayFacts ==
  ASSUME NEW w, IsProcess(w), NEW s, NEW order, NEW done
  PROVE  LET h == Halfway(w, s, order, done)
         IN  /\ DOMAIN h = DOMAIN w /\ h.environ = (IF done = Len(order) THEN s.environ ELSE w.environ)
             /\ h.containers = w.containers
             /\ h.entries = w.entries /\ h.interp = w.interp /\ DOMAIN h.modules = DOMAIN w.modules
             /\ \A m \in DOMAIN w.modules :
                  h.modules[m] = IF m \in replaced(s.modules, w) THEN s.modules[m] ELSE w.modules[m]
<1> DEFINE g == restore_shared(w, s.globals, s.environ, order, done)
<1>1. /\ DOMAIN g = DOMAIN w /\ g.environ = (IF done = Len(order) THEN s.environ ELSE w.environ)
      /\ g.containers = w.containers
      /\ g.entries = w.entries /\ g.interp = w.interp /\ g.modules = w.modules
  BY DEF restore_shared, WithShared, IsProcess
<1>2. replaced(s.modules, g) = replaced(s.modules, w)
  BY <1>1 DEF replaced
<1> HIDE DEF g
<1>3. Halfway(w, s, order, done) = restore_modules(g, s.modules)
  BY DEF Halfway, g
<1> QED BY <1>1, <1>2, <1>3 DEF restore_modules, IsProcess

LEMMA HalfwayIsProcess ==
  ASSUME NEW w, NEW was, NEW s, NEW order, NEW done, NEW r, IsProcess(w), IsProcess(was), Grown(was, w, r),
         s.modules = was.modules
  PROVE  LET h == Halfway(w, s, order, done)
         IN  /\ IsProcess(h) /\ Grown(w, h, r)
             /\ \A m \in Present(was) : h.modules[m] \in {0, was.modules[m]}
<1> DEFINE h == Halfway(w, s, order, done)
<1>1. /\ DOMAIN h = DOMAIN w /\ h.containers = w.containers
      /\ h.entries = w.entries /\ h.interp = w.interp /\ DOMAIN h.modules = DOMAIN w.modules
      /\ \A m \in DOMAIN w.modules :
           h.modules[m] = IF m \in replaced(s.modules, w) THEN s.modules[m] ELSE w.modules[m]
  BY HalfwayFacts
<1> HIDE DEF h
<1>2. \A m \in DOMAIN h.modules : h.modules[m] \in {0} \cup DOMAIN h.containers
  BY <1>1 DEF IsProcess, Grown, replaced
<1>3. IsProcess(h)
  BY <1>1, <1>2 DEF IsProcess
<1>4. Grown(w, h, r)
  BY <1>1 DEF Grown
<1>5. \A m \in Present(was) : h.modules[m] \in {0, was.modules[m]}
  BY <1>1 DEF Present, replaced, Grown
<1> QED BY <1>3, <1>4, <1>5 DEF h

LEMMA StateFacts ==
  ASSUME NEW w, NEW s,
         DOMAIN w = {"heap", "globals", "environ", "modules", "containers", "entries", "interp"},
         DOMAIN w.interp = {"path", "filters", "handlers", "level", "cwd", "home", "threads"}
  PROVE  LET v == restore_state(w, s)
         IN  /\ v.environ = w.environ /\ v.modules = w.modules /\ v.containers = w.containers
             /\ v.entries = w.entries /\ v.interp.path = s.path /\ v.interp.level = s.level
             /\ v.interp.filters = Cut(w.interp.filters, s.filters)
             /\ w.interp.home => v.interp.cwd = s.cwd
<1> DEFINE i == restore_state(w, s).interp
<1>1. /\ i.path = s.path /\ i.level = s.level /\ i.filters = Cut(w.interp.filters, s.filters)
      /\ w.interp.home => i.cwd = s.cwd
  BY DEF restore_state
<1> QED BY <1>1 DEF restore_state

\* What is put back of the rest.
LEMMA RestoredFacts ==
  ASSUME NEW w, NEW s, NEW order, NEW done, IsProcess(w)
  PROVE  LET h == Halfway(w, s, order, done)
             v == Restored(w, s, order, done)
             b == restore_registries(h, s.registries, registry_snapshot(memo, h))
         IN  /\ v.environ = h.environ /\ v.modules = h.modules /\ v.containers = h.containers
             /\ v.entries = b.entries
             /\ v.interp.path = s.state.path /\ v.interp.level = s.state.level
             /\ v.interp.filters = Cut(w.interp.filters, s.state.filters)
             /\ w.interp.home => v.interp.cwd = s.state.cwd
<1> DEFINE h == Halfway(w, s, order, done)
           b == restore_registries(h, s.registries, registry_snapshot(memo, h))
<1>1. DOMAIN h = DOMAIN w /\ h.interp = w.interp
  BY HalfwayFacts
<1> HIDE DEF h
<1>2. /\ DOMAIN b = DOMAIN w /\ b.environ = h.environ /\ b.modules = h.modules
      /\ b.containers = h.containers /\ b.interp = h.interp
  BY <1>1 DEF restore_registries, IsProcess
<1> HIDE DEF b
<1>3. Restored(w, s, order, done) = restore_state(b, s.state)
  BY DEF Restored, Halfway, h, b
<1>4. /\ DOMAIN w.interp = {"path", "filters", "handlers", "level", "cwd", "home", "threads"}
      /\ DOMAIN w = {"heap", "globals", "environ", "modules", "containers", "entries", "interp"}
  BY DEF IsProcess
<1> QED BY <1>1, <1>2, <1>3, <1>4, StateFacts DEF h, b

\* A registry known at entry keeps what it held then, and of one found only since
\* nothing of a test's.
LEMMA RegistriesBack ==
  ASSUME NEW was, NEW h, NEW r, NEW s, NEW now,
         IsProcess(was), IsProcess(h), Grown(was, h, r),
         \A m \in Present(was) : h.modules[m] \in {0, was.modules[m]},
         RegistriesOf(s, was, r), RegistriesOf(now, h, r),
         NEW m \in Present(was) \cap Present(h), NEW a \in DOMAIN Names(h, m) \ r
  PROVE  LET k == Names(h, m)[a]
         IN  TestOwned(restore_registries(h, s, now).entries[k],
                       IF k \in DOMAIN was.entries THEN was.entries[k] ELSE {}) = {}
<1> DEFINE k == Names(h, m)[a]
           known == {x.label : x \in s}
           late == {n \in now : n.label \notin known}
           all == s \cup {[x EXCEPT !.saved = {}] : x \in late}
           Saved == {x.saved : x \in {x \in all : x.container = k}}
           e == h.entries[k]
           left == restore_registries(h, s, now).entries[k]
<1>1. k \in DOMAIN h.entries
  BY DEF IsProcess, Names, Present
<1>2. left = e \ UNION {TestOwned(e, v) : v \in Saved}
  BY <1>1 DEF restore_registries, IsProcess
<1> HIDE DEF left, e
<1>3. ASSUME NEW v \in Saved PROVE TestOwned(left, v) = {}
  BY <1>2 DEF TestOwned
<1> HIDE DEF Saved
<1>4. h.modules[m] = was.modules[m] /\ was.modules[m] \in DOMAIN was.containers
  BY DEF Present, IsProcess
<1>5. CASE a \in DOMAIN Names(was, m)
  <2>1. k = Names(was, m)[a]
    BY <1>4, <1>5 DEF Grown, Names
  <2>2. k \in DOMAIN was.entries
    BY <1>4, <1>5, <2>1 DEF IsProcess, Names
  <2>3. PICK x \in s : x = [label |-> <<m, a>>, container |-> k, saved |-> was.entries[k]]
    BY <1>5, <2>1 DEF RegistriesOf
  <2>4. was.entries[k] \in Saved
    BY <2>3 DEF Saved
  <2> QED BY <1>3, <2>2, <2>4 DEF left
<1>6. CASE a \notin DOMAIN Names(was, m)
  <2>1. PICK x \in now : x = [label |-> <<m, a>>, container |-> k, saved |-> h.entries[k]]
    BY DEF RegistriesOf
  <2>2. x.label \notin known
    BY <1>6, <2>1 DEF RegistriesOf
  <2>3. [x EXCEPT !.saved = {}] \in all
    BY <2>2
  <2>4. {} \in Saved
    <3>1. [x EXCEPT !.saved = {}].container = k /\ [x EXCEPT !.saved = {}].saved = {}
      BY <2>1
    <3> QED BY <2>3, <3>1 DEF Saved
  <2>5. \A v : TestOwned(left, v) \subseteq TestOwned(left, {})
    BY DEF TestOwned
  <2> QED BY <1>3, <2>4, <2>5 DEF left
<1> QED BY <1>5, <1>6

\* Cutting to the count at entry takes off what was put before.
LEMMA FiltersBack ==
  ASSUME NEW f \in Seq(Filters_), NEW g \in Seq(Filters_), IsSuffix(f, g)
  PROVE  Cut(g, Len(f)) = f
<1>1. /\ Len(Reverse(f)) = Len(f) /\ Len(Reverse(g)) = Len(g)
      /\ \A i \in 1 .. Len(f) : Reverse(f)[i] = f[(Len(f) - i) + 1]
      /\ \A i \in 1 .. Len(g) : Reverse(g)[i] = g[(Len(g) - i) + 1]
      /\ Reverse(f) \in Seq(Filters_) /\ Reverse(g) \in Seq(Filters_)
  BY DEF Reverse
<1>2. Len(f) <= Len(g) /\ SubSeq(Reverse(f), 1, Len(f)) = SubSeq(Reverse(g), 1, Len(f))
  BY <1>1 DEF IsSuffix, IsPrefix
<1>3. \A i \in 1 .. Len(f) : Reverse(f)[i] = Reverse(g)[i]
  <2> TAKE i \in 1 .. Len(f)
  <2>1. SubSeq(Reverse(f), 1, Len(f))[i] = Reverse(f)[i] /\ SubSeq(Reverse(g), 1, Len(f))[i] = Reverse(g)[i]
    BY <1>1, <1>2
  <2> QED BY <1>2, <2>1
<1>4. ASSUME NEW j \in 1 .. Len(f) PROVE g[Len(g) - Len(f) + j] = f[j]
  <2>1. Len(f) - j + 1 \in 1 .. Len(f) /\ Len(f) - j + 1 \in 1 .. Len(g)
    BY <1>2
  <2>2. /\ Reverse(f)[Len(f) - j + 1] = f[Len(f) - (Len(f) - j + 1) + 1]
        /\ Reverse(g)[Len(f) - j + 1] = g[Len(g) - (Len(f) - j + 1) + 1]
    BY <1>1, <2>1
  <2>3. Len(f) - (Len(f) - j + 1) + 1 = j /\ Len(g) - (Len(f) - j + 1) + 1 = Len(g) - Len(f) + j
    OBVIOUS
  <2> QED BY <1>3, <2>1, <2>2, <2>3
<1>5. Cut(g, Len(f)) = SubSeq(g, Len(g) - Len(f) + 1, Len(g))
  BY <1>2 DEF Cut
<1> DEFINE c == SubSeq(g, Len(g) - Len(f) + 1, Len(g))
<1>6. /\ c \in Seq(Filters_) /\ Len(c) = Len(f)
      /\ \A j \in 1 .. Len(f) : c[j] = g[Len(g) - Len(f) + j]
  BY <1>2
<1> HIDE DEF c
<1>7. c = f
  BY <1>4, <1>6
<1> QED BY <1>5, <1>7 DEF c

\* Where no global is held that may raise when compared, the restore runs to its end.
LEMMA NothingRaises ==
  ASSUME Comparable, NEW s, s = snapshot_shared(atEntry[1]), NEW order, NEW done
  PROVE  ~Raises(s, world, order, done)
<1>1. \A w : DOMAIN snapshot_shared(w) = DOMAIN w.globals
  BY DEF snapshot_shared
<1>2. ASSUME NEW w, NEW n, Taken(snapshot_shared(w), n) # Opaque
      PROVE  Taken(snapshot_shared(w), n) = Value(w, n)
  BY <1>1, <1>2 DEF snapshot_shared, Taken, Value
<1>3. ~HoldsArray(Missing_)
  BY DEF HoldsArray, Missing_
<1>4. ASSUME NEW n, MayRaise(s, world, n) PROVE FALSE
  <2>1. /\ Taken(s, n) # Opaque /\ Taken(snapshot_shared(world), n) # Opaque /\ Taken(s, n) # Missing_
        /\ HoldsArray(Taken(s, n)) \/ HoldsArray(Taken(snapshot_shared(world), n))
    BY <1>4 DEF MayRaise
  <2>2. n \in DOMAIN atEntry[1].globals
    BY <1>1, <2>1 DEF Taken
  <2>3. HoldsArray(Value(atEntry[1], n)) \/ HoldsArray(Value(world, n))
    BY <1>2, <2>1
  <2> QED BY <2>2, <2>3 DEF Comparable
<1> QED BY <1>4 DEF Raises

LEMMA LeavePutsBack ==
  ASSUME RInv, Leave
  PROVE  SurroundingsBack
<1> DEFINE was == atEntry[1]
           s == guard[1]
<1>1. /\ IsProcess(world) /\ MemoIsTrue(memo, world, rebound)
      /\ IsProcess(was) /\ Grown(was, world, rebound) /\ Snapshot(s, was, rebound)
  BY DEF RInv, Leave
<1>2. PICK order, done : /\ done # Len(order) => Raises(s.globals, world, order, done)
                         /\ world' = Restored(world, s, order, done)
  BY DEF Leave
<1> DEFINE h == Halfway(world, s, order, done)
           now == registry_snapshot(memo, h)
           b == restore_registries(h, s.registries, now)
<1> HIDE DEF was, s
<1>3. /\ world'.environ = h.environ /\ world'.modules = h.modules /\ world'.containers = h.containers
      /\ world'.entries = b.entries
      /\ world'.interp.path = s.state.path /\ world'.interp.level = s.state.level
      /\ world'.interp.filters = Cut(world.interp.filters, s.state.filters)
      /\ world.interp.home => world'.interp.cwd = s.state.cwd
  BY <1>1, <1>2, RestoredFacts
<1>4. s.modules = was.modules /\ s.environ = was.environ /\ RegistriesOf(s.registries, was, rebound)
      /\ s.state.path = was.interp.path /\ s.state.level = was.interp.level
      /\ s.state.filters = Len(was.interp.filters) /\ s.state.cwd = was.interp.cwd
  BY <1>1 DEF Snapshot, state_fingerprint
<1> HIDE DEF was
<1>10. Comparable => world'.environ = was.environ
  <2>1. h.environ = IF done = Len(order) THEN s.environ ELSE world.environ
    BY <1>1, HalfwayFacts
  <2>2. s.globals = snapshot_shared(atEntry[1])
    BY <1>1 DEF Snapshot, was
  <2>3. Comparable => done = Len(order)
    BY <1>2, <2>2, NothingRaises
  <2> QED BY <1>3, <1>4, <2>1, <2>3
<1>5. /\ IsProcess(h) /\ Grown(world, h, rebound)
      /\ \A m \in Present(was) : h.modules[m] \in {0, was.modules[m]}
  BY <1>1, <1>4, HalfwayIsProcess
<1> HIDE DEF h
<1>6. MemoIsTrue(memo, h, rebound) /\ Grown(was, h, rebound)
  BY <1>1, <1>5, MemoSurvives, GrownTwice
<1>7. RegistriesOf(now, h, rebound)
  <2>1. Snapshot(Before(memo, h), h, rebound) /\ Before(memo, h).registries = now
    BY <1>5, <1>6, BeforeIsSnapshot DEF Before
  <2> QED BY <2>1 DEF Snapshot
<1> HIDE DEF now, b
<1>8. \A m \in Present(was) \cap Present(world') : \A a \in DOMAIN Names(world', m) \ rebound :
        LET k == Names(world', m)[a]
        IN  TestOwned(world'.entries[k], IF k \in DOMAIN was.entries THEN was.entries[k] ELSE {}) = {}
  <2>1. Present(world') = Present(h) /\ \A m : Names(world', m) = Names(h, m)
    BY <1>3 DEF Present, Names
  <2>2. \A m \in Present(was) \cap Present(h) : \A a \in DOMAIN Names(h, m) \ rebound :
          LET k == Names(h, m)[a]
          IN  TestOwned(b.entries[k], IF k \in DOMAIN was.entries THEN was.entries[k] ELSE {}) = {}
    BY <1>1, <1>4, <1>5, <1>6, <1>7, RegistriesBack DEF b
  <2> QED BY <1>3, <2>1, <2>2
<1>9. IsSuffix(was.interp.filters, world.interp.filters) => world'.interp.filters = was.interp.filters
  BY <1>1, <1>3, <1>4, FiltersBack DEF IsProcess
<1> QED BY <1>3, <1>4, <1>5, <1>8, <1>9, <1>10 DEF SurroundingsBack, was

\* Leaving a module puts back what surrounds its globals, whatever its tests did.
THEOREM SurroundingsComeBack == RestoreSpec => [][Leave => SurroundingsBack]_restoreVars
<1>1. RInv /\ [RestoreNext]_restoreVars => [Leave => SurroundingsBack]_restoreVars
  BY LeavePutsBack
<1> QED BY <1>1, RestoreInvariance, PTL DEF RestoreSpec
=============================================================================
