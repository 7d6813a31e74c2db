---------------------------- MODULE ImpactProofs ----------------------------
(***************************************************************************)
(* Theorems about ImpactState under ImpactContract, for every set of       *)
(* files, ids and contents: type correctness; that what an unfiltered run  *)
(* recorded while no file was edited is never served stale (IInv) nor with *)
(* a case missing (WInv), unless a later rebaseline overtook it; that a    *)
(* saved impacted run leaves nothing to run.                               *)
(***************************************************************************)
EXTENDS ImpactContract, TLAPS
-----------------------------------------------------------------------------
(* Type correctness.                                                       *)

LEMMA EmptyStateType == EmptyState \in States
BY DEF EmptyState, States, Marks

LEMMA NoResultsType == NoResults \in [Ids -> Answers \cup {Absent}]
BY DEF NoResults

LEMMA FoldedType ==
  ASSUME NEW prior \in Records \cup {NoRecord}, NEW a \in Answers
  PROVE  Folded(prior, a) \in Records
<1>1. FoldedDeps(prior, a) \in SUBSET Files
  BY DEF FoldedDeps, Records, Answers
<1>2. /\ a.out \in Outcomes \cup {WorkerFault, Deselected}
      /\ a.origin \in SUBSET Files
      /\ a.pure \in Purity /\ a.fork \in BOOLEAN
  BY DEF Answers
<1>3. prior # NoRecord => prior.pure \in Purity /\ prior.fork \in BOOLEAN
  BY DEF Records
<1>4. (IF a.pure = "unknown" /\ prior # NoRecord THEN prior.pure ELSE a.pure) \in Purity
  BY <1>2, <1>3
<1>5. (a.fork \/ (prior # NoRecord /\ prior.fork)) \in BOOLEAN
  OBVIOUS
<1> QED BY <1>1, <1>2, <1>4, <1>5 DEF Folded, Records

LEMMA DeselectedType ==
  ASSUME NEW c \in Candidates, NEW t \in Trees
  PROVE  DeselectedRecord(c, t) \in Records
BY ConstantTypes DEF DeselectedRecord, Records, config_deps, Purity

LEMMA PersistType ==
  ASSUME TypeOK
  PROVE  persist_results(tree) \in States
<1>1. \A i \in Ids : Prior(i) \in Records \cup {NoRecord}
  BY DEF TypeOK, States, Prior
<1>2. \A i \in deselected_candidates : i \in Candidates
  BY DEF deselected_candidates, TypeOK
<1>3. \A i \in Ids : FoldedTests(tree)[i] \in Records \cup {NoRecord}
  <2> TAKE i \in Ids
  <2>1. CASE fresh[i] # Absent
    <3>1. fresh[i] \in Answers
      BY <2>1 DEF TypeOK
    <3>2. Folded(Prior(i), fresh[i]) \in Records
      BY <3>1, <1>1, FoldedType
    <3> QED BY <2>1, <3>2 DEF FoldedTests
  <2>2. CASE fresh[i] = Absent /\ kind # "filtered" /\ i \in deselected_candidates
    <3>1. DeselectedRecord(i, tree) \in Records
      BY <2>2, <1>2, DeselectedType DEF TypeOK
    <3> QED BY <2>2, <3>1 DEF FoldedTests
  <2>3. CASE fresh[i] = Absent /\ ~(kind # "filtered" /\ i \in deselected_candidates)
    BY <2>3, <1>1 DEF FoldedTests
  <2> QED BY <2>1, <2>2, <2>3
<1>4. FoldedTests(tree) \in [Ids -> Records \cup {NoRecord}]
  BY <1>3 DEF FoldedTests
<1>5. Rebaselined(FoldedTests(tree), tree) \in [Files -> Contents \cup {NoHash}]
  BY DEF Rebaselined, TypeOK, Trees
<1>6. \A i \in Ids : FoldedMark(i, tree) \in Marks
  BY DEF FoldedMark, TypeOK, States, Marks
<1> QED BY <1>4, <1>5, <1>6 DEF persist_results, States, TypeOK, Marks

\* The conjunct of TypeOK about cache entries.
EntryTypes(entries) ==
  \A e \in entries : /\ e.id \in Ids /\ e.clean \in BOOLEAN
                     /\ e.out \in Outcomes \cup {WorkerFault}
                     /\ e.key.files \subseteq Files
                     /\ e.key.contents \in [e.key.files -> Contents]

LEMMA FreshEntriesType ==
  ASSUME TypeOK
  PROVE  EntryTypes(FreshEntries(tree))
<1> SUFFICES ASSUME NEW e \in FreshEntries(tree)
             PROVE  /\ e.id \in Ids /\ e.clean \in BOOLEAN
                    /\ e.out \in Outcomes \cup {WorkerFault}
                    /\ e.key.files \subseteq Files
                    /\ e.key.contents \in [e.key.files -> Contents]
  BY DEF EntryTypes
<1>0. PICK i \in Ids : /\ fresh[i] # Absent
                      /\ cache_key(fresh[i].touched, tree) # NoKey
                      /\ e = [id |-> i, key |-> cache_key(fresh[i].touched, tree),
                              out |-> fresh[i].out, clean |-> ~raced]
  BY DEF FreshEntries
<1>1. fresh[i].touched \subseteq Files
  BY <1>0 DEF TypeOK, Answers
<1>2. cache_key(fresh[i].touched, tree)
        = [files |-> fresh[i].touched, contents |-> [f \in fresh[i].touched |-> tree[f]]]
  BY <1>0 DEF cache_key
<1>3. tree \in [Files -> Contents]
  BY DEF TypeOK, Trees
<1>4. [f \in fresh[i].touched |-> tree[f]] \in [fresh[i].touched -> Contents]
  BY <1>1, <1>3
<1>5. /\ e.key.files = fresh[i].touched
      /\ e.key.contents = [f \in fresh[i].touched |-> tree[f]]
  BY <1>0, <1>2
<1>6. e.id \in Ids /\ e.clean \in BOOLEAN
  BY <1>0
<1>7. e.out \in Outcomes \cup {WorkerFault}
  BY <1>0 DEF TypeOK, Answers
<1> QED BY <1>1, <1>4, <1>5, <1>6, <1>7

LEMMA IdleType ==
  ASSUME Idle
  PROVE  /\ pc' \in {"idle", "execute", "persist"}
         /\ kind' \in {"full", "filtered", "impacted"}
         /\ st' \in States
         /\ todo' \subseteq Candidates /\ dropped' \subseteq Candidates
         /\ trusted' \subseteq Ids
         /\ fresh' \in [Ids -> Answers \cup {Absent}]
         /\ raced' \in BOOLEAN
BY EmptyStateType, NoResultsType DEF Idle

LEMMA KeptType ==
  ASSUME NEW S, NEW t \in Trees
  PROVE  KeptRecords(S, t) \subseteq Ids
<1>1. Collects(t) \subseteq Candidates /\ Candidates \subseteq Ids
  BY ConstantTypes, BehaviourTypes
<1>2. \A c \in Candidates : Expansions[c] \subseteq Ids
  BY ConstantTypes
<1>3. \A c \in Candidates : JudgedBy(S, t, c) \subseteq Ids
  BY <1>1, <1>2 DEF JudgedBy, expansions_of
<1> QED BY <1>1, <1>3 DEF KeptRecords, PlanCached

LEMMA HitType ==
  ASSUME TypeOK, NEW c \in Ids, Recorded(disk, c), NEW e, e.out \in Outcomes \cup {WorkerFault}
  PROVE  HitRecord(disk, c, e) \in Records
<1>1. disk.tests[c] \in Records
  BY DEF TypeOK, States, Recorded
<1> QED BY <1>1 DEF HitRecord, Records, Purity

LEMMA StartImpactedType ==
  ASSUME TypeOK, StartImpacted
  PROVE  TypeOK'
<1> DEFINE hit == {c \in PlanToRun(disk, tree) : CacheHits(disk, tree, c) # {}}
           entry(c) == CHOOSE e \in CacheHits(disk, tree, c) : TRUE
           tests == [i \in Ids |-> IF i \in hit THEN HitRecord(disk, i, entry(i))
                                   ELSE disk.tests[i]]
           by == [i \in Ids |-> IF i \notin hit THEN disk.by[i]
                                ELSE IF entry(i).clean THEN "hit" ELSE "raced"]
<1>1. tree \in Trees /\ disk \in States
  BY DEF TypeOK
<1>2. \A i \in hit : entry(i) \in cache /\ Recorded(disk, i)
  BY DEF CacheHits
<1>3. tests \in [Ids -> Records \cup {NoRecord}]
  <2> SUFFICES ASSUME NEW i \in Ids PROVE tests[i] \in Records \cup {NoRecord}
    OBVIOUS
  <2>1. CASE i \in hit
    <3> HIDE DEF entry
    <3>1. entry(i).out \in Outcomes \cup {WorkerFault}
      BY <2>1, <1>2 DEF TypeOK
    <3>2. HitRecord(disk, i, entry(i)) \in Records
      BY <2>1, <1>2, <3>1, HitType
    <3> QED BY <2>1, <3>2
  <2>2. CASE i \notin hit
    BY <2>2, <1>1 DEF States
  <2> QED BY <2>1, <2>2
<1>4. by \in [Ids -> Marks]
  BY <1>1 DEF States, Marks
<1>5. st' = [disk EXCEPT !.tests = tests, !.by = by]
  BY DEF StartImpacted
<1>6. st' \in States
  <2> HIDE DEF tests, by
  <2> QED BY <1>1, <1>3, <1>4, <1>5 DEF States
<1>7. todo' \subseteq Candidates
  BY <1>1, BehaviourTypes DEF StartImpacted, PlanToRun
<1>8. pc' \in {"idle", "execute", "persist"} /\ kind' = "impacted" /\ raced' = FALSE
      /\ runs' = runs + 1 /\ runs < MaxRuns
      /\ UNCHANGED <<tree, disk, cache, trusted, fresh, dropped, edits>>
  BY DEF StartImpacted
<1>9. runs' \in 0 .. MaxRuns
  BY <1>8, ConstantTypes DEF TypeOK
<1> QED BY <1>6, <1>7, <1>8, <1>9 DEF TypeOK

LEMMA ExecuteType ==
  ASSUME TypeOK, NEW lost \in SUBSET todo, NEW gone \in SUBSET todo,
         NEW chosen \in SUBSET Ids, NEW measured \in SUBSET Ids,
         Execute(lost, gone, chosen, measured)
  PROVE  TypeOK'
<1>1. LostAnswer \in Answers
  BY DEF LostAnswer, Answers, Purity
<1>2. \A i \in Ids : Result(i, tree) # Absent =>
        [Result(i, tree) EXCEPT !.pure = IF i \in measured THEN @ ELSE "unknown"] \in Answers
  <2> SUFFICES ASSUME NEW i \in Ids, Result(i, tree) \in Answers
               PROVE  [Result(i, tree) EXCEPT
                         !.pure = IF i \in measured THEN @ ELSE "unknown"] \in Answers
    BY BehaviourTypes DEF TypeOK
  <2> QED BY DEF Answers, Purity
<1>3. fresh' \in [Ids -> Answers \cup {Absent}]
  BY <1>1, <1>2 DEF Execute
<1>4. dropped' \subseteq Candidates /\ pc' = "persist"
      /\ UNCHANGED <<tree, disk, cache, kind, st, todo, trusted, raced, edits, runs>>
  BY DEF Execute, TypeOK
<1> QED BY <1>3, <1>4 DEF TypeOK

LEMMA PersistStepType ==
  ASSUME TypeOK, NEW save \in {"saved", "failed", "torn"}, Persist(save)
  PROVE  TypeOK'
<1>1. disk' \in States
  <2>1. persist_results(tree) \in States /\ EmptyState \in States /\ disk \in States
    BY PersistType, EmptyStateType DEF TypeOK
  <2>2. disk' \in {persist_results(tree), EmptyState, disk}
    BY DEF Persist
  <2> QED BY <2>1, <2>2
<1>2. EntryTypes(cache')
  <2>1. \A e \in cache' : e \in cache \/ e \in FreshEntries(tree)
    BY DEF Persist
  <2>2. EntryTypes(cache) /\ EntryTypes(FreshEntries(tree))
    BY FreshEntriesType DEF TypeOK, EntryTypes
  <2> QED BY <2>1, <2>2 DEF EntryTypes
<1>3. Idle /\ UNCHANGED <<tree, edits, runs>>
  BY DEF Persist
<1> QED BY <1>1, <1>2, <1>3, IdleType DEF TypeOK, EntryTypes

\* TypeOK holds in every reachable state.
THEOREM Typing == Spec => []TypeOK
<1>1. Init => TypeOK
  <2> SUFFICES ASSUME Init PROVE TypeOK
    OBVIOUS
  <2>1. edits \in 0 .. MaxEdits /\ runs \in 0 .. MaxRuns
    BY ConstantTypes DEF Init
  <2>2. EmptyState \in States /\ NoResults \in [Ids -> Answers \cup {Absent}]
    BY EmptyStateType, NoResultsType
  <2> QED BY <2>1, <2>2 DEF Init, TypeOK
<1>2. TypeOK /\ [Next]_vars => TypeOK'
  <2> SUFFICES ASSUME TypeOK, [Next]_vars PROVE TypeOK'
    OBVIOUS
  <2>1. ASSUME NEW f \in Files, NEW content \in Contents, Edit(f, content)
        PROVE  TypeOK'
    <3>1. tree' \in Trees
      BY <2>1 DEF Edit, TypeOK, Trees
    <3>2. edits' \in 0 .. MaxEdits
      BY <2>1, ConstantTypes DEF Edit, TypeOK
    <3>3. raced' \in BOOLEAN /\ UNCHANGED <<disk, cache, pc, run, runs>>
      BY <2>1 DEF Edit
    <3> QED BY <3>1, <3>2, <3>3 DEF TypeOK, run
  <2>2. ASSUME NEW scope \in {"full", "filtered"}, StartFull(scope)
        PROVE  TypeOK'
    <3>1. todo' \subseteq Candidates
      BY <2>2, BehaviourTypes DEF StartFull, TypeOK
    <3>2. trusted' \subseteq Ids
      BY <2>2 DEF StartFull, trusted_pure
    <3>3. runs' \in 0 .. MaxRuns
      BY <2>2, ConstantTypes DEF StartFull, TypeOK
    <3> QED BY <2>2, <3>1, <3>2, <3>3 DEF StartFull, TypeOK
  <2>3. CASE StartImpacted
    BY <2>3, StartImpactedType
  <2>4. ASSUME NEW lost \in SUBSET todo, NEW gone \in SUBSET todo,
               NEW chosen \in SUBSET Ids, NEW measured \in SUBSET Ids,
               Execute(lost, gone, chosen, measured)
        PROVE  TypeOK'
    BY <2>4, ExecuteType
  <2>5. ASSUME NEW save \in {"saved", "failed", "torn"}, Persist(save)
        PROVE  TypeOK'
    BY <2>5, PersistStepType
  <2>6. CASE Abandon
    BY <2>6, IdleType DEF Abandon, TypeOK
  <2>7. CASE UNCHANGED vars
    BY <2>7 DEF vars, run, TypeOK
  <2> QED BY <2>1, <2>2, <2>3, <2>4, <2>5, <2>6, <2>7 DEF Next, Reportable
<1> QED BY <1>1, <1>2, PTL DEF Spec
-----------------------------------------------------------------------------
(* Freshness.  A vouching record is one the baseline stands for: on every  *)
(* tree that agrees with the stored hashes on the record's dependencies,   *)
(* the test would report what the record says.  A rebaseline keeps it so   *)
(* where it moves none of those hashes; FoldedMark says so of the others.  *)

Covers(S, i, u) == \A f \in S.tests[i].deps : u[f] = S.files[f]

StandsFor(S, i) ==
  /\ S.tests[i] # NoRecord
  /\ \A f \in S.tests[i].deps : S.files[f] \in Contents
  /\ \A u \in Trees : Covers(S, i, u) =>
       /\ Yields(i, S.tests[i], u)
       /\ S.by[i] = "run" /\ S.tests[i].pure = "yes" =>
            Result(i, u) # Absent /\ Result(i, u).pure = "yes"

Vouched(S) == \A i \in Ids : S.by[i] \in Vouching => StandsFor(S, i)

\* A clean entry gives what a run would report on every tree its key matches.
PureThere(e, u) ==
  (\A f \in e.key.files : u[f] = e.key.contents[f]) =>
    Result(e.id, u) # Absent /\ Result(e.id, u).out = e.out /\ Result(e.id, u).pure = "yes"
CleanEntries == \A e \in cache : e.clean => \A u \in Trees : PureThere(e, u)

\* While no edit overlaps the run: the records it trusts are current, a record
\* refreshed from the cache holds on this tree, and its results are what this
\* tree reports.
TrustedCurrent == \A i \in trusted : Recorded(st, i) /\ Current(st, tree, i)
HitsHold ==
  \A i \in Ids : st.by[i] = "hit" =>
    /\ Recorded(st, i) /\ st.tests[i].out # Deselected
    /\ \A u \in Trees : Agree(st.tests[i].deps, tree, u) =>
         Result(i, u) # Absent /\ Result(i, u).out = st.tests[i].out
           /\ Result(i, u).pure = "yes"
FreshTrue ==
  \A i \in Ids : fresh[i] # Absent =>
    IF fresh[i].out = WorkerFault THEN fresh[i].pure = "unknown"
    ELSE /\ Result(i, tree) # Absent
         /\ fresh[i].out = Result(i, tree).out
         /\ fresh[i].touched = Result(i, tree).touched
         /\ fresh[i].pure # "unknown" => fresh[i].pure = Result(i, tree).pure
FreshComplete ==
  kind # "filtered" =>
    \A c \in todo \ dropped : fresh[c] = Absent =>
      \A j \in Ids : Reporter[j] = c /\ fresh[j] = Absent => Result(j, tree) = Absent

Undisturbed ==
  /\ TrustedCurrent /\ HitsHold
  /\ pc = "persist" => FreshTrue /\ FreshComplete

IdleClean == trusted = {} /\ todo = {} /\ dropped = {} /\ fresh = NoResults

IInv ==
  /\ TypeOK
  /\ Vouched(disk) /\ Vouched(st)
  /\ \A i \in Ids : disk.by[i] # "hit"
  /\ kind # "impacted" => \A i \in Ids : st.by[i] # "hit"
  /\ CleanEntries
  /\ pc = "idle" => IdleClean
  /\ pc # "idle" /\ ~raced => Undisturbed

LEMMA EmptyVouched == Vouched(EmptyState) /\ \A i \in Ids : EmptyState.by[i] # "hit"
BY DEF Vouched, EmptyState, Vouching

\* A rebaseline gives every recorded dependency the content it has now.
LEMMA RebaselinedDeps ==
  ASSUME NEW tests, NEW t, NEW i \in Ids, tests[i] # NoRecord,
         tests[i].deps \subseteq Files
  PROVE  \A f \in tests[i].deps : Rebaselined(tests, t)[f] = t[f]
BY DEF Rebaselined

LEMMA PersistVouched ==
  ASSUME IInv, pc = "persist"
  PROVE  Vouched(persist_results(tree)) /\ \A i \in Ids : persist_results(tree).by[i] # "hit"
<1> DEFINE S == persist_results(tree)
<1>0. /\ TypeOK /\ Vouched(st) /\ S \in States
      /\ ~raced => Undisturbed /\ FreshTrue /\ FreshComplete
  BY PersistType DEF IInv, Undisturbed
<1>1. /\ S.tests = FoldedTests(tree)
      /\ \A i \in Ids : S.by[i] = IF S.tests[i] = NoRecord THEN "none" ELSE FoldedMark(i, tree)
      /\ kind = "filtered" => S.files = st.files
      /\ kind # "filtered" => S.files = Rebaselined(S.tests, tree)
  BY DEF persist_results
<1>2. \A i \in Ids : S.by[i] # "hit"
  <2> SUFFICES ASSUME NEW i \in Ids, S.tests[i] # NoRecord PROVE FoldedMark(i, tree) # "hit"
    BY <1>1
  <2>1. kind = "filtered" => st.by[i] # "hit"
    BY DEF IInv
  <2> QED BY <2>1 DEF FoldedMark
<1>3. ASSUME NEW i \in Ids, S.by[i] \in Vouching
      PROVE  StandsFor(S, i)
  <2> DEFINE r == S.tests[i]
  <2>0. /\ r \in Records /\ r # NoRecord
        /\ FoldedMark(i, tree) = S.by[i] /\ r = FoldedTests(tree)[i]
        /\ tree \in Trees
    BY <1>0, <1>1, <1>3 DEF Vouching, States, TypeOK
  <2>00. r.deps \subseteq Files
    BY <2>0 DEF Records
  <2>1. kind # "filtered" => \A f \in r.deps : S.files[f] = tree[f] /\ S.files[f] \in Contents
    BY <1>1, <2>0, <2>00, RebaselinedDeps DEF Trees
  <2>2. kind # "filtered" => \A u \in Trees : Covers(S, i, u) => Agree(r.deps, tree, u)
    BY <2>1 DEF Covers, Agree
  <2>3. CASE fresh[i] # Absent
    <3>1. /\ fresh[i].out # WorkerFault /\ fresh[i].touched # {}
          /\ kind # "filtered" /\ ~raced
          /\ S.by[i] = "run" => PurityOfThisCode(i)
      BY <2>3, <2>0, <1>3 DEF FoldedMark, Vouching
    <3>2. fresh[i] \in Answers
      BY <1>0, <2>3 DEF TypeOK
    <3>3. /\ Result(i, tree) # Absent
          /\ fresh[i].out = Result(i, tree).out
          /\ fresh[i].touched = Result(i, tree).touched
          /\ fresh[i].pure # "unknown" => fresh[i].pure = Result(i, tree).pure
      BY <1>0, <2>3, <3>1 DEF FreshTrue
    <3>4. r = Folded(Prior(i), fresh[i])
      BY <2>0, <2>3 DEF FoldedTests
    <3>5. r.deps = fresh[i].touched /\ r.out = fresh[i].out
      BY <3>1, <3>4 DEF Folded, FoldedDeps
    <3>6. \A u \in Trees : Covers(S, i, u) => Result(i, u) = Result(i, tree)
      BY <2>0, <2>2, <3>1, <3>3, <3>5, FootprintSound
    <3>7. r.out # Deselected
      BY <3>2, <3>5, ConstantTypes DEF Answers
    <3>8. ASSUME S.by[i] = "run", r.pure = "yes"
          PROVE  Result(i, tree).pure = "yes"
      <4>1. r.pure = IF fresh[i].pure = "unknown" /\ Prior(i) # NoRecord
                       THEN Prior(i).pure ELSE fresh[i].pure
        BY <3>4 DEF Folded
      <4>2. CASE fresh[i].pure # "unknown"
        BY <4>1, <4>2, <3>3, <3>8
      <4>3. CASE fresh[i].pure = "unknown" /\ Prior(i) = NoRecord
        BY <4>1, <4>3, <3>8
      <4>4. CASE fresh[i].pure = "unknown" /\ Prior(i) # NoRecord
        <5>1. /\ i \in trusted /\ st.by[i] = "run"
              /\ Prior(i) = st.tests[i] /\ st.tests[i].pure = "yes"
          BY <4>1, <4>4, <3>1, <3>8 DEF PurityOfThisCode, Prior
        <5>2. StandsFor(st, i) /\ Current(st, tree, i)
          BY <5>1, <3>1, <1>0 DEF Vouched, Vouching, Undisturbed, TrustedCurrent
        <5>3. st.tests[i].deps \subseteq Files
          BY <5>2, <1>0 DEF StandsFor, TypeOK, States, Records
        <5>4. Covers(st, i, tree)
          BY <5>2, <5>3, ConstantTypes DEF StandsFor, Current, changed_files, Covers
        <5> QED BY <5>1, <5>2, <5>4, <2>0 DEF StandsFor
      <4> QED BY <4>2, <4>3, <4>4
    <3> QED BY <2>0, <2>1, <3>1, <3>3, <3>5, <3>6, <3>7, <3>8 DEF StandsFor, Yields
  <2>4. CASE fresh[i] = Absent /\ kind = "filtered"
    <3>1. S.by[i] = st.by[i]
      BY <2>0, <2>4 DEF FoldedMark
    <3>2. S.tests[i] = st.tests[i] /\ S.files = st.files
      BY <2>0, <2>4, <1>1 DEF FoldedTests, Prior, Unrecorded
    <3>3. StandsFor(st, i)
      BY <3>1, <1>3, <1>0 DEF Vouched
    <3> QED BY <3>1, <3>2, <3>3 DEF StandsFor, Covers
  <2>5. CASE fresh[i] = Absent /\ kind # "filtered" /\ i \in deselected_candidates
    <3>1. ~raced /\ i \notin dropped
      BY <2>0, <2>5, <1>3 DEF FoldedMark, Vouching
    <3>2. i \in todo /\ i \in Candidates
      BY <2>5, <1>0 DEF deselected_candidates, TypeOK
    <3>3. ASSUME NEW j \in Ids, Reporter[j] = i
          PROVE  Result(j, tree) = Absent
      <4>1. j \in {i} \cup (Expansions[i] \ todo)
        BY <3>3, <1>0, ConstantTypes DEF TypeOK
      <4>2. fresh[j] = Absent
        BY <4>1, <2>5 DEF deselected_candidates
      <4> QED BY <3>1, <3>2, <3>3, <4>2, <2>5, <1>0 DEF FreshComplete
    <3>4. r = DeselectedRecord(i, tree)
      BY <2>0, <2>5 DEF FoldedTests
    <3>5. /\ r.out = Deselected /\ r.pure = "unknown"
          /\ r.deps = {ModuleOf[i]} \cup config_deps(tree)
      BY <3>4 DEF DeselectedRecord
    <3>6. \A u \in Trees : Covers(S, i, u) => Yields(i, r, u)
      <4> SUFFICES ASSUME NEW u \in Trees, Covers(S, i, u),
                          NEW j \in Ids, Reporter[j] = i
                   PROVE  Result(j, u) = Absent
        BY <3>5 DEF Yields
      <4>1. Agree({ModuleOf[i]} \cup config_deps(tree), tree, u)
        BY <2>2, <2>5, <3>5
      <4>2. \A k \in Ids : Reporter[k] = i => Result(k, tree) = Absent
        BY <3>3
      <4> QED BY <4>1, <4>2, <3>2, <2>0, DeselectionSound
    <3> QED BY <2>0, <2>1, <2>5, <3>5, <3>6 DEF StandsFor
  <2>6. CASE fresh[i] = Absent /\ kind # "filtered" /\ i \notin deselected_candidates
    <3>1. IF st.by[i] = "hit" THEN ~raced ELSE S.by[i] = st.by[i] /\ ~Moved(i, tree)
      BY <2>0, <2>6, <1>3 DEF FoldedMark, Vouching
    <3>2. r = st.tests[i]
      BY <2>0, <2>6 DEF FoldedTests, Prior
    <3>3. CASE st.by[i] = "hit"
      <4>1. /\ st.tests[i].out # Deselected
            /\ \A u \in Trees : Agree(st.tests[i].deps, tree, u) =>
                 /\ Result(i, u) # Absent /\ Result(i, u).out = st.tests[i].out
                 /\ Result(i, u).pure = "yes"
        BY <3>1, <3>3, <1>0 DEF Undisturbed, HitsHold
      <4> QED BY <2>0, <2>1, <2>2, <2>6, <3>2, <4>1 DEF StandsFor, Yields
    <3>4. CASE st.by[i] # "hit"
      <4>1. S.by[i] = st.by[i] /\ \A f \in r.deps : st.files[f] = tree[f]
        BY <3>1, <3>2, <3>4 DEF Moved
      <4>2. StandsFor(st, i)
        BY <4>1, <1>0, <1>3 DEF Vouched
      <4>3. \A u \in Trees : Covers(S, i, u) => Covers(st, i, u)
        BY <4>1, <2>1, <2>6, <3>2 DEF Covers
      <4> QED BY <4>1, <4>2, <4>3, <3>2, <2>0, <2>1, <2>6 DEF StandsFor
    <3> QED BY <3>3, <3>4
  <2> QED BY <2>3, <2>4, <2>5, <2>6
<1> QED BY <1>2, <1>3 DEF Vouched

LEMMA PersistClean ==
  ASSUME IInv, pc = "persist", NEW save \in {"saved", "failed", "torn"}, Persist(save)
  PROVE  CleanEntries'
<1>1. \A e \in cache' : e \in cache \/ e \in FreshEntries(tree)
  BY DEF Persist
<1>2. ASSUME NEW e \in FreshEntries(tree), e.clean, NEW u \in Trees,
             \A f \in e.key.files : u[f] = e.key.contents[f]
      PROVE  Result(e.id, u) # Absent /\ Result(e.id, u).out = e.out
               /\ Result(e.id, u).pure = "yes"
  <2>1. PICK i \in Ids : /\ fresh[i] # Absent /\ fresh[i].pure = "yes"
                         /\ cache_key(fresh[i].touched, tree) # NoKey
                         /\ e = [id |-> i, key |-> cache_key(fresh[i].touched, tree),
                                 out |-> fresh[i].out, clean |-> ~raced]
    BY DEF FreshEntries
  <2>2. ~raced
    BY <1>2, <2>1
  <2>3. /\ Result(i, tree) # Absent
        /\ fresh[i].out = Result(i, tree).out
        /\ fresh[i].touched = Result(i, tree).touched
        /\ Result(i, tree).pure = "yes"
    BY <2>1, <2>2 DEF IInv, Undisturbed, FreshTrue
  <2>4. /\ fresh[i].touched # {}
        /\ e.key.files = fresh[i].touched
        /\ e.key.contents = [f \in fresh[i].touched |-> tree[f]]
    BY <2>1 DEF cache_key
  <2>5. Agree(fresh[i].touched, tree, u)
    BY <1>2, <2>4 DEF Agree
  <2>6. Result(i, u) = Result(i, tree)
    BY <2>3, <2>4, <2>5, FootprintSound DEF IInv, TypeOK
  <2> QED BY <2>1, <2>3, <2>6
<1> QED BY <1>1, <1>2 DEF CleanEntries, PureThere, IInv

LEMMA StartImpactedHits ==
  ASSUME IInv, StartImpacted
  PROVE  HitsHold' /\ Vouched(st)'
<1> DEFINE hit == {c \in PlanToRun(disk, tree) : CacheHits(disk, tree, c) # {}}
           entry(c) == CHOOSE e \in CacheHits(disk, tree, c) : TRUE
<1>1. /\ \A i \in Ids : st'.tests[i] = IF i \in hit THEN HitRecord(disk, i, entry(i))
                                       ELSE disk.tests[i]
      /\ \A i \in Ids : st'.by[i] = IF i \notin hit THEN disk.by[i]
                                    ELSE IF entry(i).clean THEN "hit" ELSE "raced"
      /\ st'.files = disk.files
      /\ tree' = tree
  BY DEF StartImpacted, IInv, TypeOK, States
<1>2. HitsHold'
  <2> SUFFICES ASSUME NEW i \in Ids, st'.by[i] = "hit"
               PROVE  /\ Recorded(st', i) /\ st'.tests[i].out # Deselected
                      /\ \A u \in Trees : Agree(st'.tests[i].deps, tree, u) =>
                           Result(i, u) # Absent /\ Result(i, u).out = st'.tests[i].out
                             /\ Result(i, u).pure = "yes"
    BY <1>1 DEF HitsHold, Recorded
  <2>1. i \in hit /\ entry(i).clean
    BY <1>1 DEF IInv
  <2>2. /\ entry(i) \in cache /\ Recorded(disk, i) /\ entry(i).id = i
        /\ entry(i).key = cache_key(disk.tests[i].deps, tree)
    BY <2>1 DEF CacheHits
  <2> HIDE DEF entry
  <2>3. /\ st'.tests[i] = HitRecord(disk, i, entry(i))
        /\ st'.tests[i].out = entry(i).out /\ st'.tests[i].deps = disk.tests[i].deps
    BY <1>1, <2>1 DEF HitRecord
  <2>4. entry(i).out \in Outcomes \cup {WorkerFault}
    BY <2>2 DEF IInv, TypeOK
  <2>5. st'.tests[i] \in Records
    BY <2>2, <2>3, <2>4, HitType DEF IInv
  <2>6. ASSUME NEW u \in Trees, Agree(disk.tests[i].deps, tree, u)
        PROVE  \A f \in entry(i).key.files : u[f] = entry(i).key.contents[f]
    BY <2>2, <2>6 DEF cache_key, NoKey, Agree
  <2>7. \A u \in Trees : Agree(disk.tests[i].deps, tree, u) =>
          Result(i, u) # Absent /\ Result(i, u).out = entry(i).out /\ Result(i, u).pure = "yes"
    BY <2>1, <2>2, <2>6 DEF IInv, CleanEntries, PureThere
  <2> QED BY <2>3, <2>4, <2>5, <2>7, ConstantTypes DEF Recorded
<1>3. Vouched(st')
  <2> SUFFICES ASSUME NEW i \in Ids, st'.by[i] \in Vouching PROVE StandsFor(st', i)
    BY DEF Vouched
  <2>1. i \notin hit
    BY <1>1 DEF Vouching
  <2>2. StandsFor(disk, i) /\ st'.tests[i] = disk.tests[i] /\ st'.by[i] = disk.by[i]
    BY <1>1, <2>1 DEF IInv, Vouched
  <2> QED BY <1>1, <2>2 DEF StandsFor, Covers
<1>4. Vouched(st)' <=> Vouched(st')
  BY DEF Vouched, StandsFor, Covers, Yields
<1> QED BY <1>2, <1>3, <1>4

LEMMA ExecuteTrue ==
  ASSUME IInv, pc = "execute",
         NEW lost \in SUBSET todo, NEW gone \in SUBSET todo,
         NEW chosen \in SUBSET Ids, NEW measured \in SUBSET Ids,
         Execute(lost, gone, chosen, measured)
  PROVE  FreshTrue' /\ FreshComplete'
<1>0. /\ TypeOK /\ todo \subseteq Candidates /\ Candidates \subseteq Ids
      /\ tree' = tree /\ kind' = kind /\ todo' = todo /\ dropped' = gone
      /\ \A i \in Ids : fresh'[i] =
           IF i \in lost THEN LostAnswer
           ELSE IF /\ Reporter[i] \in todo \ (lost \cup gone)
                   /\ i \in chosen /\ Result(i, tree) # Absent
             THEN [Result(i, tree) EXCEPT !.pure = IF i \in measured THEN @ ELSE "unknown"]
           ELSE Absent
  BY ConstantTypes DEF IInv, TypeOK, Execute
<1>1. LostAnswer # Absent /\ LostAnswer.out = WorkerFault /\ LostAnswer.pure = "unknown"
  <2>1. LostAnswer \in Answers
    BY DEF LostAnswer, Answers, Purity
  <2> QED BY <2>1, ConstantTypes DEF LostAnswer
<1>2. FreshTrue'
  <2> SUFFICES ASSUME NEW i \in Ids, fresh'[i] # Absent
               PROVE  IF fresh'[i].out = WorkerFault THEN fresh'[i].pure = "unknown"
                      ELSE /\ Result(i, tree) # Absent
                           /\ fresh'[i].out = Result(i, tree).out
                           /\ fresh'[i].touched = Result(i, tree).touched
                           /\ fresh'[i].pure # "unknown" =>
                                fresh'[i].pure = Result(i, tree).pure
    BY <1>0 DEF FreshTrue
  <2>1. CASE i \in lost
    BY <2>1, <1>0, <1>1
  <2>2. CASE i \notin lost
    <3>1. /\ Result(i, tree) # Absent
          /\ fresh'[i] = [Result(i, tree) EXCEPT
                            !.pure = IF i \in measured THEN @ ELSE "unknown"]
      BY <2>2, <1>0
    <3>2. Result(i, tree) \in Answers /\ Result(i, tree).out # WorkerFault
      BY <3>1, <1>0, BehaviourTypes DEF TypeOK
    <3> QED BY <3>1, <3>2 DEF Answers
  <2> QED BY <2>1, <2>2
<1>3. FreshComplete'
  <2> SUFFICES ASSUME kind # "filtered", NEW c \in todo \ gone, fresh'[c] = Absent,
                      NEW j \in Ids, Reporter[j] = c, fresh'[j] = Absent
               PROVE  Result(j, tree) = Absent
    BY <1>0 DEF FreshComplete
  <2>1. c \notin lost /\ j \notin lost
    BY <1>0, <1>1
  <2>2. Result(j, tree) # Absent => j \in chosen
    BY <1>0 DEF Execute, Reportable
  <2>3. Result(j, tree) # Absent =>
          [Result(j, tree) EXCEPT !.pure = IF j \in measured THEN @ ELSE "unknown"] # Absent
    <3> SUFFICES ASSUME Result(j, tree) \in Answers
                 PROVE  [Result(j, tree) EXCEPT
                           !.pure = IF j \in measured THEN @ ELSE "unknown"] \in Answers
      BY <1>0, BehaviourTypes, ConstantTypes DEF TypeOK
    <3> QED BY DEF Answers, Purity
  <2> QED BY <1>0, <2>1, <2>2, <2>3
<1> QED BY <1>2, <1>3

\* A run that ends, however it ends, leaves nothing of itself in memory.
LEMMA IdleHolds ==
  ASSUME IInv, Idle, TypeOK', Vouched(disk'), CleanEntries',
         \A i \in Ids : disk'.by[i] # "hit"
  PROVE  IInv'
<1>1. st' = EmptyState /\ pc' = "idle" /\ kind' = "full"
  BY DEF Idle
<1>2. Vouched(st') /\ \A i \in Ids : st'.by[i] # "hit"
  BY <1>1, EmptyVouched
<1>3. IdleClean'
  BY DEF Idle, IdleClean, NoResults
<1>4. Vouched(disk)' /\ Vouched(st)'
  BY <1>2 DEF Vouched, StandsFor, Covers, Yields
<1> QED BY <1>1, <1>2, <1>3, <1>4 DEF IInv

\* The invariant that carries freshness: every reachable state satisfies IInv.
THEOREM Invariance == Spec => []IInv
<1>1. Init => IInv
  <2> SUFFICES ASSUME Init PROVE IInv
    OBVIOUS
  <2>1. TypeOK
    <3>1. edits \in 0 .. MaxEdits /\ runs \in 0 .. MaxRuns
      BY ConstantTypes DEF Init
    <3> QED BY <3>1, EmptyStateType, NoResultsType DEF Init, TypeOK
  <2>2. CleanEntries /\ IdleClean /\ pc = "idle"
    BY DEF Init, CleanEntries, IdleClean
  <2> QED BY <2>1, <2>2, EmptyVouched DEF Init, IInv
<1>2. IInv /\ TypeOK' /\ [Next]_vars => IInv'
  <2> SUFFICES ASSUME IInv, TypeOK', [Next]_vars PROVE IInv'
    OBVIOUS
  <2>1. ASSUME NEW f \in Files, NEW content \in Contents, Edit(f, content)
        PROVE  IInv'
    <3>1. /\ UNCHANGED <<disk, cache, pc, kind, st, todo, trusted, fresh, dropped>>
          /\ raced' = (pc # "idle")
      BY <2>1 DEF Edit, run
    <3>2. Vouched(disk)' /\ Vouched(st)' /\ CleanEntries'
      BY <3>1 DEF IInv, Vouched, StandsFor, Covers, Yields, CleanEntries, PureThere
    <3> QED BY <3>1, <3>2 DEF IInv, IdleClean
  <2>2. ASSUME NEW scope \in {"full", "filtered"}, StartFull(scope)
        PROVE  IInv'
    <3>1. /\ st' = disk /\ UNCHANGED <<tree, disk, cache, fresh, dropped>>
          /\ pc = "idle" /\ pc' = "execute" /\ kind' \in {"full", "filtered"}
          /\ trusted' = trusted_pure(disk, tree)
      BY <2>2 DEF StartFull
    <3>2. Vouched(disk)' /\ Vouched(st)' /\ CleanEntries'
      BY <3>1 DEF IInv, Vouched, StandsFor, Covers, Yields, CleanEntries, PureThere
    <3>3. TrustedCurrent'
      BY <3>1 DEF TrustedCurrent, trusted_pure, Recorded, Current, changed_files
    <3>4. HitsHold'
      BY <3>1 DEF IInv, HitsHold
    <3> QED BY <3>1, <3>2, <3>3, <3>4 DEF IInv, Undisturbed
  <2>3. CASE StartImpacted
    <3>1. /\ UNCHANGED <<tree, disk, cache, trusted, fresh>>
          /\ pc = "idle" /\ pc' \in {"execute", "persist"} /\ kind' = "impacted"
          /\ trusted = {} /\ fresh = NoResults
      BY <2>3 DEF StartImpacted, IInv, IdleClean
    <3>2. Vouched(disk)' /\ CleanEntries'
      BY <3>1 DEF IInv, Vouched, StandsFor, Covers, Yields, CleanEntries, PureThere
    <3>3. HitsHold' /\ Vouched(st)'
      BY <2>3, StartImpactedHits
    <3>4. TrustedCurrent' /\ FreshTrue'
      BY <3>1 DEF TrustedCurrent, FreshTrue, NoResults
    <3>5. pc' = "persist" => todo' = {}
      BY <2>3 DEF StartImpacted
    <3>6. pc' = "persist" => FreshComplete'
      BY <3>5 DEF FreshComplete
    <3> QED BY <3>1, <3>2, <3>3, <3>4, <3>6 DEF IInv, Undisturbed
  <2>4. ASSUME NEW lost \in SUBSET todo, NEW gone \in SUBSET todo,
               NEW chosen \in SUBSET Ids, NEW measured \in SUBSET Ids,
               Execute(lost, gone, chosen, measured)
        PROVE  IInv'
    <3>1. /\ UNCHANGED <<tree, disk, cache, kind, st, todo, trusted, raced>>
          /\ pc = "execute" /\ pc' = "persist"
      BY <2>4 DEF Execute
    <3>2. Vouched(disk)' /\ Vouched(st)' /\ CleanEntries'
      BY <3>1 DEF IInv, Vouched, StandsFor, Covers, Yields, CleanEntries, PureThere
    <3>3. FreshTrue' /\ FreshComplete'
      BY <2>4, <3>1, ExecuteTrue
    <3>4. ~raced => TrustedCurrent' /\ HitsHold'
      BY <3>1 DEF IInv, Undisturbed, TrustedCurrent, HitsHold, Recorded,
                  Current, changed_files, Agree
    <3> QED BY <3>1, <3>2, <3>3, <3>4 DEF IInv, Undisturbed
  <2>5. ASSUME NEW save \in {"saved", "failed", "torn"}, Persist(save)
        PROVE  IInv'
    <3>1. pc = "persist" /\ Idle
      BY <2>5 DEF Persist
    <3>2. CleanEntries'
      BY <2>5, <3>1, PersistClean
    <3>3. disk' \in {disk, persist_results(tree), EmptyState}
      BY <2>5 DEF Persist
    <3>4. Vouched(disk') /\ \A i \in Ids : disk'.by[i] # "hit"
      BY <3>1, <3>3, PersistVouched, EmptyVouched DEF IInv
    <3> QED BY <3>1, <3>2, <3>4, IdleHolds
  <2>6. CASE Abandon
    <3>1. Idle /\ UNCHANGED <<tree, disk, cache>>
      BY <2>6 DEF Abandon
    <3>2. CleanEntries'
      BY <3>1 DEF IInv, CleanEntries, PureThere
    <3> QED BY <3>1, <3>2, IdleHolds DEF IInv
  <2>7. CASE UNCHANGED vars
    <3>1. UNCHANGED <<tree, disk, cache, pc, kind, st, todo, trusted, fresh,
                      dropped, raced>>
      BY <2>7 DEF vars, run
    <3> QED BY <3>1 DEF IInv, Vouched, StandsFor, Covers, Yields, CleanEntries, PureThere,
                        IdleClean, Undisturbed, TrustedCurrent, HitsHold,
                        FreshTrue, FreshComplete, Recorded, Current, changed_files, Agree
  <2> QED BY <2>1, <2>2, <2>3, <2>4, <2>5, <2>6, <2>7 DEF Next, Reportable
<1>3. IInv => TypeOK
  BY DEF IInv
<1> QED BY <1>1, <1>2, Typing, PTL DEF Spec

\* What the planner keeps is recorded and has no changed dependency.
LEMMA KeptIsCovered ==
  ASSUME IInv, NEW i \in KeptRecords(disk, tree), disk.by[i] \in Vouching
  PROVE  i \in Ids /\ Yields(i, disk.tests[i], tree)
<1>1. PICK c \in PlanCached(disk, tree) : i \in JudgedBy(disk, tree, c)
  BY DEF KeptRecords
<1>2. i \in Ids
  BY KeptType DEF IInv, TypeOK
<1>3. Current(disk, tree, i)
  BY <1>1 DEF PlanCached
<1>4. StandsFor(disk, i) /\ disk.tests[i].deps \subseteq Files /\ tree \in Trees
  BY <1>2 DEF IInv, Vouched, StandsFor, TypeOK, States, Records
<1>5. Covers(disk, i, tree)
  BY <1>3, <1>4, ConstantTypes DEF StandsFor, Current, changed_files, Covers
<1> QED BY <1>2, <1>4, <1>5 DEF StandsFor

\* No vouching record is served stale, for every set of files, contents, tests
\* and every behaviour of them that ImpactContract allows.  Records of runs that
\* an edit overlapped, of filtered runs and of runs without a footprint do not
\* vouch, and no record does once a rebaseline has overtaken it.
THEOREM Freshness == Spec => []ServedIsFresh
<1>1. IInv => ServedIsFresh
  BY KeptIsCovered DEF ServedIsFresh, Served
<1> QED BY <1>1, Invariance, PTL

\* No vouching deselection is passed over once its candidate would report; one
\* of a run that an edit overlapped, or that had no worker for it, does not vouch.
THEOREM Deselection == Spec => []DeselectedIsFresh
<1>1. IInv => DeselectedIsFresh
  BY KeptIsCovered DEF DeselectedIsFresh
<1> QED BY <1>1, Invariance, PTL

\* What a full run trusts to the bare tier is pure on the tree it starts on.
THEOREM Trust == Spec => []TrustedIsPure
<1>1. IInv => TrustedIsPure
  <2> SUFFICES ASSUME IInv, NEW i \in trusted_pure(disk, tree), disk.by[i] = "run"
               PROVE  Result(i, tree) # Absent /\ Result(i, tree).pure = "yes"
    BY DEF TrustedIsPure
  <2>1. i \in Ids /\ disk.tests[i].pure = "yes" /\ Current(disk, tree, i)
    BY DEF trusted_pure
  <2>2. StandsFor(disk, i) /\ disk.tests[i].deps \subseteq Files /\ tree \in Trees
    BY <2>1 DEF IInv, Vouched, Vouching, StandsFor, TypeOK, States, Records
  <2>3. Covers(disk, i, tree)
    BY <2>1, <2>2, ConstantTypes DEF StandsFor, Current, changed_files, Covers
  <2> QED BY <2>1, <2>2, <2>3 DEF StandsFor
<1> QED BY <1>1, Invariance, PTL

\* No entry of the shared cache an edit did not race is ever a wrong answer.
THEOREM CacheSoundness == Spec => []CacheIsSound
<1>1. IInv => CacheIsSound
  BY DEF IInv, CleanEntries, PureThere, CacheIsSound, Sound
<1> QED BY <1>1, Invariance, PTL
-----------------------------------------------------------------------------
(* Quiet.  An undisturbed impacted run executes every candidate that no    *)
(* record it loaded could judge, and saves a record for each.              *)

\* Every candidate the impacted run does not execute has records to judge it by.
RestIsJudged ==
  pc # "idle" /\ kind = "impacted" /\ ~raced =>
    \A c \in Collects(tree) \ todo : JudgedBy(st, tree, c) # {}

LEMMA StartIsJudged ==
  ASSUME TypeOK, StartImpacted
  PROVE  RestIsJudged'
<1> DEFINE hit == {c \in PlanToRun(disk, tree) : CacheHits(disk, tree, c) # {}}
           entry(c) == CHOOSE e \in CacheHits(disk, tree, c) : TRUE
<1>1. /\ \A i \in Ids : st'.tests[i] = IF i \in hit THEN HitRecord(disk, i, entry(i))
                                       ELSE disk.tests[i]
      /\ todo' = PlanToRun(disk, tree) \ hit /\ tree' = tree
  BY DEF StartImpacted, TypeOK, States
<1>2. \A i \in Ids : Recorded(disk, i) => Recorded(st', i)
  <2> SUFFICES ASSUME NEW i \in Ids, Recorded(disk, i), i \in hit
               PROVE  HitRecord(disk, i, entry(i)) # NoRecord
    BY <1>1 DEF Recorded
  <2>1. entry(i) \in cache
    BY DEF CacheHits
  <2> HIDE DEF entry
  <2>2. entry(i).out \in Outcomes \cup {WorkerFault}
    BY <2>1 DEF TypeOK
  <2> QED BY <2>2, HitType, ConstantTypes
<1>3. ASSUME NEW c \in Collects(tree), c \notin todo'
      PROVE  JudgedBy(st', tree, c) # {}
  <2>1. c \in Ids /\ \A i \in Expansions[c] : i \in Ids
    BY ConstantTypes, BehaviourTypes DEF TypeOK
  <2>2. CASE c \in hit
    <3>1. Recorded(disk, c)
      BY <2>2 DEF CacheHits
    <3> QED BY <1>2, <2>1, <3>1 DEF JudgedBy
  <2>3. CASE c \notin hit
    <3>1. JudgedBy(disk, tree, c) # {}
      BY <1>1, <1>3, <2>3 DEF PlanToRun, PlanCached
    <3> QED BY <1>2, <2>1, <3>1 DEF JudgedBy, expansions_of
  <2> QED BY <2>2, <2>3
<1> QED BY <1>1, <1>3 DEF RestIsJudged, JudgedBy, expansions_of, Recorded

\* The records the run saves judge every candidate, and no file has changed
\* against the baseline it saves.
LEMMA SavedIsQuiet ==
  ASSUME TypeOK, RestIsJudged, pc = "persist", kind = "impacted", ~raced,
         Persist("saved")
  PROVE  PlanToRun(disk', tree) = {}
<1> DEFINE S == persist_results(tree)
<1>1. /\ disk' = S /\ S.tests = FoldedTests(tree)
      /\ S.files = Rebaselined(S.tests, tree)
  BY DEF Persist, persist_results
<1>2. changed_files(S, tree) = {}
  BY <1>1 DEF changed_files, Rebaselined
<1>3. \A i \in Ids : fresh[i] # Absent => Recorded(S, i)
  <2> SUFFICES ASSUME NEW i \in Ids, fresh[i] # Absent PROVE FoldedTests(tree)[i] # NoRecord
    BY <1>1 DEF Recorded
  <2>1. fresh[i] \in Answers /\ Prior(i) \in Records \cup {NoRecord}
    BY DEF TypeOK, States, Prior
  <2>2. Folded(Prior(i), fresh[i]) \in Records
    BY <2>1, FoldedType
  <2> QED BY <2>2, ConstantTypes DEF FoldedTests
<1>4. \A i \in deselected_candidates : Recorded(S, i)
  <2> SUFFICES ASSUME NEW i \in deselected_candidates PROVE FoldedTests(tree)[i] # NoRecord
    BY <1>1 DEF Recorded
  <2>1. i \in Candidates /\ i \in Ids /\ fresh[i] = Absent
    BY ConstantTypes DEF deselected_candidates, TypeOK
  <2>2. DeselectedRecord(i, tree) \in Records
    BY <2>1, DeselectedType DEF TypeOK
  <2> QED BY <2>1, <2>2, ConstantTypes DEF FoldedTests
<1>5. \A i \in Ids \ todo : Recorded(st, i) => Recorded(S, i)
  <2> SUFFICES ASSUME NEW i \in Ids \ todo, Recorded(st, i), fresh[i] = Absent
               PROVE  FoldedTests(tree)[i] # NoRecord
    BY <1>1, <1>3 DEF Recorded
  <2> QED BY DEF FoldedTests, Prior, Unrecorded, Recorded, deselected_candidates
<1>6. ASSUME NEW c \in Collects(tree)
      PROVE  JudgedBy(S, tree, c) # {}
  <2>1. /\ c \in Candidates /\ c \in Ids
        /\ \A i \in Expansions[c] : i \in Ids /\ i \notin Candidates
        /\ Collects(tree) \subseteq Candidates /\ todo \subseteq Candidates
    BY ConstantTypes, BehaviourTypes DEF TypeOK
  <2>2. CASE c \in deselected_candidates
    BY <1>4, <2>2 DEF JudgedBy
  <2>3. CASE c \in todo \ deselected_candidates
    <3>1. \E i \in {c} \cup Expansions[c] : fresh[i] # Absent
      BY <2>3 DEF deselected_candidates
    <3> QED BY <1>3, <2>1, <3>1 DEF JudgedBy, expansions_of
  <2>4. CASE c \notin todo
    <3>1. JudgedBy(st, tree, c) # {}
      BY <2>4 DEF RestIsJudged
    <3> QED BY <1>5, <2>1, <2>4, <3>1 DEF JudgedBy, expansions_of
  <2> QED BY <2>2, <2>3, <2>4
<1> QED BY <1>1, <1>2, <1>6 DEF PlanToRun, PlanCached, Current

\* After a saved, undisturbed impacted run there is nothing left to run.
THEOREM WarmRun == Spec => WarmRunIsQuiet
<1>1. Init => RestIsJudged
  BY DEF Init, RestIsJudged
<1>2. TypeOK /\ RestIsJudged /\ [Next]_vars => RestIsJudged'
  <2> SUFFICES ASSUME TypeOK, RestIsJudged, [Next]_vars PROVE RestIsJudged'
    OBVIOUS
  <2>1. ASSUME NEW f \in Files, NEW content \in Contents, Edit(f, content)
        PROVE  RestIsJudged'
    BY <2>1 DEF Edit, RestIsJudged
  <2>2. ASSUME NEW scope \in {"full", "filtered"}, StartFull(scope)
        PROVE  RestIsJudged'
    BY <2>2 DEF StartFull, RestIsJudged
  <2>3. CASE StartImpacted
    BY <2>3, StartIsJudged
  <2>4. ASSUME NEW lost, NEW gone, NEW chosen, NEW measured,
               Execute(lost, gone, chosen, measured)
        PROVE  RestIsJudged'
    BY <2>4 DEF Execute, RestIsJudged, JudgedBy, expansions_of, Recorded
  <2>5. ASSUME NEW save, Persist(save)
        PROVE  RestIsJudged'
    BY <2>5 DEF Persist, Idle, RestIsJudged
  <2>6. CASE Abandon
    BY <2>6 DEF Abandon, Idle, RestIsJudged
  <2>7. CASE UNCHANGED vars
    BY <2>7 DEF vars, run, RestIsJudged, JudgedBy, expansions_of, Recorded
  <2> QED BY <2>1, <2>2, <2>3, <2>4, <2>5, <2>6, <2>7 DEF Next
<1>3. TypeOK /\ RestIsJudged =>
        (pc = "persist" /\ kind = "impacted" /\ ~raced /\ Persist("saved")
           => PlanToRun(disk', tree) = {})
  BY SavedIsQuiet
<1>4. TypeOK /\ RestIsJudged =>
        [pc = "persist" /\ kind = "impacted" /\ ~raced /\ Persist("saved")
           => PlanToRun(disk', tree) = {}]_vars
  BY <1>3
<1> QED BY <1>1, <1>2, <1>4, Typing, PTL DEF Spec, WarmRunIsQuiet
-----------------------------------------------------------------------------
(* Completeness.  A case an unfiltered, undisturbed run recorded came with *)
(* every case its candidate had; cases' records are never taken out again  *)
(* (a torn save loses all of them), and as long as the baseline covers the *)
(* one, the candidate has no case that it did not have then.               *)

Whole(S) ==
  \A i \in Ids \ Candidates : S.by[i] \in Vouching =>
    \A u \in Trees : Covers(S, i, u) =>
      \A j \in Ids \ Candidates :
        Reporter[j] = Reporter[i] /\ Result(j, u) # Absent => Recorded(S, j)

\* Only candidates are recorded as deselected or refreshed from the cache.
CandidatesAlone(S) ==
  \A i \in Ids \ Candidates :
    /\ S.by[i] # "hit"
    /\ Recorded(S, i) => S.tests[i].out # Deselected

\* What a run has in hand of a candidate's cases is all of them.
FreshWhole ==
  pc = "persist" /\ kind # "filtered" /\ ~raced =>
    \A i, j \in Ids \ Candidates :
      (/\ fresh[i] # Absent /\ Reporter[j] = Reporter[i]
       /\ Result(j, tree) # Absent) => fresh[j] # Absent

WInv == /\ Whole(disk) /\ Whole(st)
        /\ CandidatesAlone(disk) /\ CandidatesAlone(st)
        /\ FreshWhole

LEMMA EmptyWhole == Whole(EmptyState) /\ CandidatesAlone(EmptyState)
BY DEF Whole, CandidatesAlone, EmptyState, Vouching, Recorded

LEMMA StartWhole ==
  ASSUME IInv, WInv, StartImpacted
  PROVE  Whole(st') /\ CandidatesAlone(st')
<1> DEFINE hit == {c \in PlanToRun(disk, tree) : CacheHits(disk, tree, c) # {}}
           entry(c) == CHOOSE e \in CacheHits(disk, tree, c) : TRUE
<1>1. /\ \A i \in Ids : st'.tests[i] = IF i \in hit THEN HitRecord(disk, i, entry(i))
                                       ELSE disk.tests[i]
      /\ \A i \in Ids : st'.by[i] = IF i \notin hit THEN disk.by[i]
                                    ELSE IF entry(i).clean THEN "hit" ELSE "raced"
      /\ st'.files = disk.files
  BY DEF StartImpacted, IInv, TypeOK, States
<1>2. \A i \in Ids \ Candidates : i \notin hit
  BY BehaviourTypes DEF PlanToRun, IInv, TypeOK
<1>3. \A i \in Ids \ Candidates : st'.tests[i] = disk.tests[i] /\ st'.by[i] = disk.by[i]
  BY <1>1, <1>2
<1> HIDE DEF hit, entry
<1>4. Whole(st')
  BY <1>1, <1>3 DEF WInv, Whole, Covers, Recorded
<1> QED BY <1>3, <1>4 DEF WInv, CandidatesAlone, Recorded

LEMMA ExecuteWhole ==
  ASSUME IInv, pc = "execute",
         NEW lost \in SUBSET todo, NEW gone \in SUBSET todo,
         NEW chosen \in SUBSET Ids, NEW measured \in SUBSET Ids,
         Execute(lost, gone, chosen, measured)
  PROVE  FreshWhole'
<1>0. /\ TypeOK /\ todo \subseteq Candidates /\ tree' = tree /\ kind' = kind
      /\ \A i \in Ids : fresh'[i] =
           IF i \in lost THEN LostAnswer
           ELSE IF /\ Reporter[i] \in todo \ (lost \cup gone)
                   /\ i \in chosen /\ Result(i, tree) # Absent
             THEN [Result(i, tree) EXCEPT !.pure = IF i \in measured THEN @ ELSE "unknown"]
           ELSE Absent
  BY DEF IInv, TypeOK, Execute
<1> SUFFICES ASSUME kind # "filtered", NEW i \in Ids \ Candidates, NEW j \in Ids \ Candidates,
                    fresh'[i] # Absent, Reporter[j] = Reporter[i], Result(j, tree) # Absent
             PROVE  fresh'[j] # Absent
  BY <1>0 DEF FreshWhole
<1>1. Reporter[j] \in todo \ (lost \cup gone) /\ j \notin lost
  BY <1>0
<1>2. j \in chosen
  BY <1>0, <1>1 DEF Execute, Reportable
<1>3. fresh'[j] = [Result(j, tree) EXCEPT !.pure = IF j \in measured THEN @ ELSE "unknown"]
  BY <1>0, <1>1, <1>2
<1>4. Result(j, tree) \in Answers
  BY <1>0, BehaviourTypes DEF TypeOK
<1>5. [Result(j, tree) EXCEPT !.pure = IF j \in measured THEN @ ELSE "unknown"] \in Answers
  BY <1>4 DEF Answers, Purity
<1> QED BY <1>3, <1>5, ConstantTypes

LEMMA PersistWhole ==
  ASSUME IInv, WInv, pc = "persist"
  PROVE  Whole(persist_results(tree)) /\ CandidatesAlone(persist_results(tree))
<1> DEFINE S == persist_results(tree)
<1>0. /\ TypeOK /\ S \in States /\ tree \in Trees
      /\ Whole(st) /\ CandidatesAlone(st) /\ todo \subseteq Candidates
      /\ \A i \in Ids \ Candidates : i \notin deselected_candidates /\ ~Unrecorded(i)
  BY PersistType DEF IInv, WInv, TypeOK, deselected_candidates, Unrecorded
<1>1. /\ S.tests = FoldedTests(tree)
      /\ \A i \in Ids : S.by[i] = IF S.tests[i] = NoRecord THEN "none" ELSE FoldedMark(i, tree)
      /\ kind = "filtered" => S.files = st.files
      /\ kind # "filtered" => S.files = Rebaselined(S.tests, tree)
  BY DEF persist_results
<1>2. \A i \in Ids \ Candidates :
        S.tests[i] = IF fresh[i] # Absent THEN Folded(st.tests[i], fresh[i]) ELSE st.tests[i]
  BY <1>0, <1>1 DEF FoldedTests, Prior
<1>3. ASSUME NEW i \in Ids \ Candidates, fresh[i] # Absent
      PROVE  /\ Recorded(S, i) /\ S.tests[i].out = fresh[i].out
             /\ fresh[i] \in Answers /\ fresh[i].out # Deselected
             /\ fresh[i].touched # {} => S.tests[i].deps = fresh[i].touched
  <2>1. fresh[i] \in Answers /\ st.tests[i] \in Records \cup {NoRecord}
    BY <1>0, <1>3 DEF TypeOK, States
  <2>2. Folded(st.tests[i], fresh[i]) \in Records
    BY <2>1, FoldedType
  <2>3. fresh[i].out \in Outcomes \cup {WorkerFault}
    BY <2>1 DEF Answers
  <2> QED BY <1>2, <1>3, <2>1, <2>2, <2>3, ConstantTypes DEF Recorded, Folded, FoldedDeps
<1>4. \A i \in Ids \ Candidates : Recorded(st, i) => Recorded(S, i)
  BY <1>2, <1>3 DEF Recorded
<1>5. CandidatesAlone(S)
  <2> SUFFICES ASSUME NEW i \in Ids \ Candidates
               PROVE  S.by[i] # "hit" /\ (Recorded(S, i) => S.tests[i].out # Deselected)
    BY DEF CandidatesAlone
  <2>1. S.by[i] # "hit"
    BY PersistVouched
  <2>2. Recorded(S, i) => S.tests[i].out # Deselected
    BY <1>0, <1>2, <1>3 DEF CandidatesAlone, Recorded
  <2> QED BY <2>1, <2>2
<1>6. ASSUME NEW i \in Ids \ Candidates, S.by[i] \in Vouching,
             NEW u \in Trees, Covers(S, i, u),
             NEW j \in Ids \ Candidates, Reporter[j] = Reporter[i], Result(j, u) # Absent
      PROVE  Recorded(S, j)
  <2>0. FoldedMark(i, tree) = S.by[i] /\ S.tests[i] # NoRecord
    BY <1>1, <1>6 DEF Vouching
  <2>00. S.tests[i].deps \subseteq Files
    BY <1>0, <2>0 DEF States, Records
  <2>1. kind # "filtered" => \A f \in S.tests[i].deps : S.files[f] = tree[f]
    BY <1>1, <2>0, <2>00 DEF Rebaselined
  <2>2. CASE fresh[i] # Absent
    <3>1. /\ fresh[i].out # WorkerFault /\ fresh[i].touched # {}
          /\ kind # "filtered" /\ ~raced
      BY <2>0, <2>2, <1>6 DEF FoldedMark, Vouching
    <3>2. Result(i, tree) # Absent /\ fresh[i].touched = Result(i, tree).touched
      BY <2>2, <3>1 DEF IInv, Undisturbed, FreshTrue
    <3>3. Agree(Result(i, tree).touched, tree, u)
      BY <1>3, <1>6, <2>1, <2>2, <3>1, <3>2 DEF Covers, Agree
    <3>4. Result(j, tree) # Absent
      BY <1>0, <1>6, <3>1, <3>2, <3>3, CasesSound
    <3>5. fresh[j] # Absent
      BY <1>6, <2>2, <3>1, <3>4 DEF WInv, FreshWhole
    <3> QED BY <1>3, <3>5
  <2>3. CASE fresh[i] = Absent /\ kind = "filtered"
    <3>1. S.by[i] = st.by[i] /\ S.tests[i] = st.tests[i] /\ S.files = st.files
      BY <2>0, <2>3, <1>1, <1>2 DEF FoldedMark
    <3>2. Recorded(st, j)
      BY <1>0, <1>6, <3>1 DEF Whole, Covers
    <3> QED BY <1>4, <3>2
  <2>4. CASE fresh[i] = Absent /\ kind # "filtered"
    <3>1. S.by[i] = st.by[i] /\ ~Moved(i, tree)
      BY <2>0, <2>4, <1>0, <1>6 DEF FoldedMark, Vouching, CandidatesAlone
    <3>2. S.tests[i] = st.tests[i]
      BY <1>2, <2>4
    <3>3. Covers(st, i, u)
      BY <1>6, <2>1, <2>4, <3>1, <3>2 DEF Covers, Moved
    <3>4. Recorded(st, j)
      BY <1>0, <1>6, <3>1, <3>3 DEF Whole
    <3> QED BY <1>4, <3>4
  <2> QED BY <2>2, <2>3, <2>4
<1> QED BY <1>5, <1>6 DEF Whole

\* Every case recorded together with the others: WInv in every reachable state.
THEOREM Wholeness == Spec => []WInv
<1>1. Init => WInv
  BY EmptyWhole DEF Init, WInv, FreshWhole
<1>2. IInv /\ WInv /\ [Next]_vars => WInv'
  <2> SUFFICES ASSUME IInv, WInv, [Next]_vars PROVE WInv'
    OBVIOUS
  <2>0. /\ Whole(disk)' <=> Whole(disk')
        /\ Whole(st)' <=> Whole(st')
        /\ CandidatesAlone(disk)' <=> CandidatesAlone(disk')
        /\ CandidatesAlone(st)' <=> CandidatesAlone(st')
    BY DEF Whole, CandidatesAlone, Covers, Recorded
  <2>1. ASSUME NEW f \in Files, NEW content \in Contents, Edit(f, content)
        PROVE  WInv'
    BY <2>0, <2>1 DEF Edit, run, WInv, FreshWhole
  <2>2. ASSUME NEW scope \in {"full", "filtered"}, StartFull(scope)
        PROVE  WInv'
    BY <2>0, <2>2 DEF StartFull, WInv, FreshWhole
  <2>3. CASE StartImpacted
    <3>1. UNCHANGED <<tree, disk, fresh>> /\ fresh = NoResults
      BY <2>3 DEF StartImpacted, IInv, IdleClean
    <3>2. Whole(st') /\ CandidatesAlone(st')
      BY <2>3, StartWhole
    <3> QED BY <2>0, <3>1, <3>2 DEF WInv, FreshWhole, NoResults
  <2>4. ASSUME NEW lost \in SUBSET todo, NEW gone \in SUBSET todo,
               NEW chosen \in SUBSET Ids, NEW measured \in SUBSET Ids,
               Execute(lost, gone, chosen, measured)
        PROVE  WInv'
    <3>1. pc = "execute" /\ UNCHANGED <<disk, st>>
      BY <2>4 DEF Execute
    <3>2. FreshWhole'
      BY <2>4, <3>1, ExecuteWhole
    <3> QED BY <2>0, <3>1, <3>2 DEF WInv
  <2>5. ASSUME NEW save \in {"saved", "failed", "torn"}, Persist(save)
        PROVE  WInv'
    <3>1. /\ pc = "persist" /\ pc' = "idle" /\ st' = EmptyState
          /\ disk' \in {disk, persist_results(tree), EmptyState}
      BY <2>5 DEF Persist, Idle
    <3>2. Whole(disk') /\ CandidatesAlone(disk')
      BY <3>1, PersistWhole, EmptyWhole DEF WInv
    <3> QED BY <2>0, <3>1, <3>2, EmptyWhole DEF WInv, FreshWhole
  <2>6. CASE Abandon
    BY <2>0, <2>6, EmptyWhole DEF Abandon, Idle, WInv, FreshWhole
  <2>7. CASE UNCHANGED vars
    BY <2>0, <2>7 DEF vars, run, WInv, FreshWhole
  <2> QED BY <2>1, <2>2, <2>3, <2>4, <2>5, <2>6, <2>7 DEF Next, Reportable
<1> QED BY <1>1, <1>2, Invariance, PTL DEF Spec

\* A candidate served from a vouching case is served with all its cases.
THEOREM Completeness == Spec => []ServedIsComplete
<1>1. IInv /\ WInv => ServedIsComplete
  <2> SUFFICES ASSUME IInv, WInv,
                      NEW c \in PlanCached(disk, tree), NEW i \in JudgedBy(disk, tree, c),
                      disk.by[i] \in Vouching, Reporter[i] = c,
                      NEW j \in Ids, Reporter[j] = c, Result(j, tree) # Absent
               PROVE  j \in JudgedBy(disk, tree, c)
    BY DEF ServedIsComplete
  <2>1. /\ c \in Candidates /\ c \in Ids /\ tree \in Trees
        /\ Collects(tree) \subseteq Candidates /\ TypeOK
    BY ConstantTypes, BehaviourTypes DEF PlanCached, IInv, TypeOK
  <2>2. i \in KeptRecords(disk, tree)
    BY DEF KeptRecords
  <2>3. i \in Ids /\ Yields(i, disk.tests[i], tree)
    BY <2>2, KeptIsCovered
  <2>4. CASE Recorded(disk, c)
    <3>1. i = c /\ JudgedBy(disk, tree, c) = {c}
      BY <2>4 DEF JudgedBy
    <3>2. Result(c, tree) # Absent
      BY <2>3, <3>1 DEF Yields
    <3> QED BY <2>1, <3>1, <3>2, CasesOrSelf
  <2>5. CASE ~Recorded(disk, c)
    <3>1. /\ i \in Expansions[c] /\ Recorded(disk, i)
          /\ JudgedBy(disk, tree, c) = expansions_of(disk, tree, c)
      BY <2>5 DEF JudgedBy, expansions_of
    <3>2. i \in Ids \ Candidates
      BY <2>1, <3>1, ConstantTypes
    <3>3. Result(i, tree) # Absent
      BY <2>3, <3>1, <3>2 DEF WInv, CandidatesAlone, Yields
    <3>4. Result(c, tree) = Absent
      BY <2>1, <3>2, <3>3, CasesOrSelf
    <3>5. j \in Ids \ Candidates
      BY <3>4, ConstantTypes
    <3>6. Covers(disk, i, tree)
      <4>1. Current(disk, tree, i)
        BY DEF PlanCached
      <4>2. StandsFor(disk, i) /\ disk.tests[i].deps \subseteq Files
        BY <2>3, <3>1 DEF IInv, Vouched, StandsFor, TypeOK, States, Records, Recorded
      <4> QED BY <4>1, <4>2, ConstantTypes DEF StandsFor, Current, changed_files, Covers
    <3>7. Recorded(disk, j)
      BY <2>1, <3>2, <3>5, <3>6 DEF WInv, Whole
    <3>8. j \in Expansions[c] /\ j \notin Collects(tree)
      BY <2>1, <3>5, ConstantTypes
    <3> QED BY <3>1, <3>7, <3>8 DEF expansions_of
  <2> QED BY <2>4, <2>5
<1> QED BY <1>1, Invariance, Wholeness, PTL
=============================================================================
