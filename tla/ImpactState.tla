---------------------------- MODULE ImpactState ----------------------------
(***************************************************************************)
(* The daemon's persisted test state and the three kinds of run that read  *)
(* and write it: the full run (`run --all`), the filtered run (`-k`/`-m`)  *)
(* and the impact-aware run, with the shared content-addressed cache.      *)
(*                                                                         *)
(* A file's digest is collision free, so a content stands for its digest;  *)
(* an unreadable file has the content Missing, as hash_file_or_missing     *)
(* gives it.  What the tests of a tree would report is a parameter:        *)
(* Result(i, t) is what the shim answers for id i on tree t, Absent when i *)
(* is not reported there.  The daemon handles one request at a time; files *)
(* may be edited at any moment, between the steps of a run included.       *)
(***************************************************************************)
EXTENDS Naturals

CONSTANTS
  Files,          \* source and config files, as paths relative to the root
  Contents,       \* what a file may hold, Missing included
  Missing,        \* the digest sentinel of an unreadable file
  NoHash,         \* a file the state has no hash for
  ConfigFiles,    \* the files among CONFIG_FILES that can deselect a test
  Ids,            \* node ids a record may be under
  Candidates,     \* the ids the static collector can produce
  Expansions,     \* [Candidates -> SUBSET Ids]: ids that textually expand a candidate
  Reporter,       \* [Ids -> Candidates]: the candidate whose run reports an id
  ModuleOf,       \* [Candidates -> Files]: the file part of a candidate's id
  Outcomes,       \* outcome and detail of a test that ran
  WorkerFault,    \* the outcome of a node whose worker was lost
  Deselected,     \* the recorded outcome of a deselected candidate
  NoRecord, Absent,
  Collects(_),    \* Collects(t): candidates the static collector finds on tree t
  Result(_, _),   \* Result(i, t): what id i reports on tree t, or Absent
  CacheEnabled,   \* whether TIDERACE_CACHE_DIR names a cache
  MaxEdits, MaxRuns   \* bounds on edits and on runs

Trees == [Files -> Contents]
Purity == {"yes", "no", "unknown"}

\* What one id reports: outcome, footprint, the module whose import skipped it
\* (a set of at most one file), the purity verdict and the disturber flag.
Answers == [out: Outcomes \cup {WorkerFault}, touched: SUBSET Files,
            origin: SUBSET Files, pure: Purity, fork: BOOLEAN]
Records == [out: Outcomes \cup {WorkerFault, Deselected}, deps: SUBSET Files,
            origin: SUBSET Files, pure: Purity, fork: BOOLEAN]

\* How a record came to be what it is (history, the code keeps none of it):
\* "run" and "sticky" were reported, with a footprint, by an unfiltered run no
\* edit overlapped, "sticky" with a purity verdict from before its files changed.
\* "overtaken" was such a record until a later unfiltered run moved the hash of a
\* file it depends on and did not write it again.
Marks == {"none", "run", "sticky", "filtered", "raced", "unmeasured", "lost",
          "dropped", "overtaken", "hit"}
Vouching == {"run", "sticky"}

States == [files: [Files -> Contents \cup {NoHash}],
           tests: [Ids -> Records \cup {NoRecord}],
           by: [Ids -> Marks]]

VARIABLES
  tree,     \* the files as they are now
  disk,     \* .tiderace-state.json, as PersistedState::load reads it
  cache,    \* the shared content-addressed cache
  pc,       \* "idle", "execute" or "persist": where the current run is
  kind,     \* the kind of the current run
  st,       \* the run's in-memory PersistedState
  todo,     \* the candidates the run executes
  trusted,  \* ids the run executes on the bare tier
  fresh,    \* the results the run has in hand
  dropped,  \* candidates whose unit no lane was left to run
  raced,    \* whether a file was edited since the run started
  edits, runs

vars == <<tree, disk, cache, pc, kind, st, todo, trusted, fresh, dropped,
          raced, edits, runs>>

run == <<kind, st, todo, trusted, fresh, dropped>>

EmptyState == [files |-> [f \in Files |-> NoHash],
               tests |-> [i \in Ids |-> NoRecord],
               by    |-> [i \in Ids |-> "none"]]
NoResults == [i \in Ids |-> Absent]
-----------------------------------------------------------------------------
(* Planning: what changed, what runs, what is served.                      *)

\* Mutant of changed_files: a file that has gone counts as unchanged.
ReadableChanged(S, t) ==
  {f \in Files : S.files[f] # NoHash /\ t[f] # Missing /\ S.files[f] # t[f]}

changed_files(S, t) == {f \in Files : S.files[f] # NoHash /\ S.files[f] # t[f]}

Recorded(S, i) == S.tests[i] # NoRecord
Current(S, t, i) == S.tests[i].deps \cap changed_files(S, t) = {}

\* Mutant of expansions_of: a failed case is left for the next run.
PassedExpansions(S, t, c) ==
  {i \in Expansions[c] \ Collects(t) : Recorded(S, i) /\ S.tests[i].out # "failed"}

expansions_of(S, t, c) ==
  {i \in Expansions[c] \ Collects(t) : Recorded(S, i)}

\* The records plan() judges a candidate by: its own, or else its expansions'.
JudgedBy(S, t, c) == IF Recorded(S, c) THEN {c} ELSE expansions_of(S, t, c)

PlanCached(S, t) ==
  {c \in Collects(t) : /\ JudgedBy(S, t, c) # {}
                       /\ \A i \in JudgedBy(S, t, c) : Current(S, t, i)}
PlanToRun(S, t) == Collects(t) \ PlanCached(S, t)

KeptRecords(S, t) == UNION {JudgedBy(S, t, c) : c \in PlanCached(S, t)}

\* A deselected record is kept but is neither a result nor a cached count.
Served(S, t) == {i \in KeptRecords(S, t) : S.tests[i].out # Deselected}

trusted_pure(S, t) ==
  {i \in Ids : Recorded(S, i) /\ S.tests[i].pure = "yes" /\ Current(S, t, i)}
-----------------------------------------------------------------------------
(* The content-addressed cache.                                            *)

NoKey == [files |-> {}, contents |-> [f \in {} |-> Missing]]

\* None without a footprint or with an unreadable file.
cache_key(deps, t) ==
  IF deps = {} \/ \E f \in deps : t[f] = Missing
    THEN NoKey
    ELSE [files |-> deps, contents |-> [f \in deps |-> t[f]]]

\* Only a candidate's own record is looked up: a parametrized node always runs.
CacheHits(S, t, c) ==
  {e \in cache : /\ CacheEnabled /\ Recorded(S, c)
                 /\ e.id = c
                 /\ e.key = cache_key(S.tests[c].deps, t)}

\* Mutant of FreshEntries: the key is built from the hashes the state holds.
BaselineEntries(t) ==
  {[id |-> i, key |-> cache_key(fresh[i].touched, st.files), out |-> fresh[i].out,
    clean |-> ~raced] :
     i \in {j \in Ids : fresh[j] # Absent /\ fresh[j].pure = "yes"}}

\* The entries an impacted run adds: fresh outcomes measured pure, keyed by
\* the contents the files have when the key is built.
FreshEntries(t) ==
  {[id |-> i, key |-> cache_key(fresh[i].touched, t), out |-> fresh[i].out,
    clean |-> ~raced] :
     i \in {j \in Ids : /\ fresh[j] # Absent
                        /\ fresh[j].pure = "yes"
                        /\ cache_key(fresh[j].touched, t) # NoKey}}
-----------------------------------------------------------------------------
(* Folding results into the state.                                         *)

config_deps(t) == {f \in ConfigFiles : t[f] # Missing}

\* Mutant of deselected_candidates: a candidate without results leaves no record.
NoneDeselected == {}

deselected_candidates ==
  {c \in todo : ~ \E i \in {c} \cup (Expansions[c] \ todo) : fresh[i] # Absent}

\* Mutant of DeselectedRecord: the config files are not among its dependencies.
ModuleOnlyRecord(c, t) ==
  [out |-> Deselected, deps |-> {ModuleOf[c]},
   origin |-> {}, pure |-> "unknown", fork |-> FALSE]

DeselectedRecord(c, t) ==
  [out |-> Deselected, deps |-> {ModuleOf[c]} \cup config_deps(t),
   origin |-> {}, pure |-> "unknown", fork |-> FALSE]

FoldedDeps(prior, a) ==
  IF a.touched # {} THEN a.touched
  ELSE IF prior # NoRecord /\ prior.deps # {} THEN prior.deps
  ELSE a.origin

\* Mutant of Folded: the recorded purity verdict wins over the measured one.
PriorPurityFolded(prior, a) ==
  [out |-> a.out, deps |-> FoldedDeps(prior, a), origin |-> a.origin,
   pure |-> IF prior # NoRecord /\ prior.pure # "unknown" THEN prior.pure ELSE a.pure,
   fork |-> a.fork]

Folded(prior, a) ==
  [out |-> a.out, deps |-> FoldedDeps(prior, a), origin |-> a.origin,
   pure |-> IF a.pure = "unknown" /\ prior # NoRecord THEN prior.pure ELSE a.pure,
   fork |-> a.fork \/ (prior # NoRecord /\ prior.fork)]

\* A candidate of a whole run that produces results again loses its
\* deselected record before the results are folded.
Unrecorded(i) ==
  /\ kind # "filtered"
  /\ i \in todo \ deselected_candidates
  /\ Recorded(st, i) /\ st.tests[i].out = Deselected

Prior(i) == IF Unrecorded(i) THEN NoRecord ELSE st.tests[i]

FoldedTests(t) ==
  [i \in Ids |->
     IF fresh[i] # Absent THEN Folded(Prior(i), fresh[i])
     ELSE IF kind # "filtered" /\ i \in deselected_candidates
       THEN DeselectedRecord(i, t)
     ELSE Prior(i)]

\* Mutant of Rebaselined: a file that has a hash keeps it.
KeptBaseline(tests, t) ==
  [f \in Files |-> IF st.files[f] # NoHash THEN st.files[f] ELSE t[f]]

\* Mutant of Rebaselined: only the files still known are in the table.
KnownFilesOnly(tests, t) ==
  [f \in UNION {tests[i].deps : i \in {j \in Ids : tests[j] # NoRecord}} |-> t[f]]

\* Every recorded dependency and every config file, as it is now.
Rebaselined(tests, t) ==
  LET known == config_deps(t)
               \cup UNION {tests[i].deps : i \in {j \in Ids : tests[j] # NoRecord}}
  IN  [f \in Files |-> IF f \in known THEN t[f] ELSE NoHash]

\* The purity verdict the record will carry is one for the code it ran.
PurityOfThisCode(i) ==
  \/ fresh[i].pure # "unknown"
  \/ Prior(i) = NoRecord
  \/ i \in trusted /\ st.by[i] = "run"

\* The rebaseline moves the hash of a file that the record of i depends on.
Moved(i, t) == \E f \in st.tests[i].deps : st.files[f] # t[f]

FoldedMark(i, t) ==
  CASE fresh[i] # Absent /\ fresh[i].out = WorkerFault -> "lost"
    [] fresh[i] # Absent /\ fresh[i].out # WorkerFault ->
         IF fresh[i].touched = {} THEN "unmeasured"
         ELSE IF kind = "filtered" THEN "filtered"
         ELSE IF raced THEN "raced"
         ELSE IF PurityOfThisCode(i) THEN "run" ELSE "sticky"
    [] fresh[i] = Absent /\ kind = "filtered" -> st.by[i]
    [] fresh[i] = Absent /\ kind # "filtered" ->
         IF i \in deselected_candidates
           THEN (IF raced THEN "raced" ELSE IF i \in dropped THEN "dropped" ELSE "run")
         ELSE IF st.by[i] = "hit" THEN (IF raced THEN "raced" ELSE "run")
         ELSE IF st.by[i] \in Vouching /\ Moved(i, t) THEN "overtaken"
         ELSE st.by[i]

\* Mutant of persist_results: a filtered run moves the baseline too.
AlwaysRebaselined(t) ==
  LET tests == FoldedTests(t)
  IN  [files |-> Rebaselined(tests, t),
       tests |-> tests,
       by    |-> [i \in Ids |-> IF tests[i] = NoRecord THEN "none" ELSE FoldedMark(i, t)]]

persist_results(t) ==
  LET tests == FoldedTests(t)
  IN  [files |-> IF kind = "filtered" THEN st.files ELSE Rebaselined(tests, t),
       tests |-> tests,
       by    |-> [i \in Ids |-> IF tests[i] = NoRecord THEN "none" ELSE FoldedMark(i, t)]]
-----------------------------------------------------------------------------
Init ==
  /\ tree \in Trees
  /\ disk = EmptyState
  /\ cache = {}
  /\ pc = "idle" /\ kind = "full"
  /\ st = EmptyState
  /\ todo = {} /\ trusted = {} /\ dropped = {}
  /\ fresh = NoResults
  /\ raced = FALSE
  /\ edits = 0 /\ runs = 0

\* The user saves, deletes or restores a file.
Edit(f, content) ==
  /\ edits < MaxEdits
  /\ tree[f] # content
  /\ tree' = [tree EXCEPT ![f] = content]
  /\ raced' = (pc # "idle")
  /\ edits' = edits + 1
  /\ UNCHANGED <<disk, cache, pc, run, runs>>

\* run_full_results up to the dispatch: load, hash, trust, collect.
StartFull(scope) ==
  /\ pc = "idle" /\ runs < MaxRuns
  /\ pc' = "execute"
  /\ kind' = scope
  /\ st' = disk
  /\ todo' = Collects(tree)
  /\ trusted' = trusted_pure(disk, tree)
  /\ raced' = FALSE
  /\ runs' = runs + 1
  /\ UNCHANGED <<tree, disk, cache, fresh, dropped, edits>>

\* A cache hit is served and refreshes the candidate's record.
HitRecord(S, c, e) ==
  [out |-> e.out, deps |-> S.tests[c].deps, origin |-> {}, pure |-> "yes",
   fork |-> S.tests[c].fork]

\* run_impacted up to the dispatch: load, hash, plan, consult the cache.
\* With nothing to run it answers at once and saves nothing.
StartImpacted ==
  LET hit == {c \in PlanToRun(disk, tree) : CacheHits(disk, tree, c) # {}}
      entry(c) == CHOOSE e \in CacheHits(disk, tree, c) : TRUE
      misses == PlanToRun(disk, tree) \ hit
  IN
  /\ pc = "idle" /\ runs < MaxRuns
  /\ PlanToRun(disk, tree) # {}
  /\ pc' = IF misses = {} THEN "persist" ELSE "execute"
  /\ kind' = "impacted"
  /\ st' = [disk EXCEPT
              !.tests = [i \in Ids |-> IF i \in hit THEN HitRecord(disk, i, entry(i))
                                       ELSE disk.tests[i]],
              !.by    = [i \in Ids |-> IF i \notin hit THEN disk.by[i]
                                       ELSE IF entry(i).clean THEN "hit" ELSE "raced"]]
  /\ todo' = misses
  /\ raced' = FALSE
  /\ runs' = runs + 1
  /\ UNCHANGED <<tree, disk, cache, trusted, fresh, dropped, edits>>

LostAnswer == [out |-> WorkerFault, touched |-> {}, origin |-> {},
               pure |-> "unknown", fork |-> FALSE]

\* The ids that the run's candidates would report on the tree as it is.
Reportable == {i \in Ids : Reporter[i] \in todo /\ Result(i, tree) # Absent}

\* The pool runs the candidates on the tree as it is.  A node on a lost worker
\* answers with the fault; when every lane is lost, units nobody took answer
\* nothing.  `chosen` is what a filtered run's selection lets through, and
\* `measured` the ids whose tier measured purity: never the bare tier.
Execute(lost, gone, chosen, measured) ==
  /\ pc = "execute"
  /\ lost \subseteq todo /\ gone \subseteq todo \ lost
  /\ gone # {} => lost # {}
  /\ kind # "filtered" => Reportable \subseteq chosen
  /\ measured \cap trusted = {}
  /\ fresh' = [i \in Ids |->
       IF i \in lost THEN LostAnswer
       ELSE IF /\ Reporter[i] \in todo \ (lost \cup gone)
               /\ i \in chosen /\ Result(i, tree) # Absent
         THEN [Result(i, tree) EXCEPT !.pure = IF i \in measured THEN @ ELSE "unknown"]
       ELSE Absent]
  /\ dropped' = gone
  /\ pc' = "persist"
  /\ UNCHANGED <<tree, disk, cache, kind, st, todo, trusted, raced, edits, runs>>

Idle == /\ pc' = "idle" /\ kind' = "full"
        /\ st' = EmptyState
        /\ todo' = {} /\ trusted' = {} /\ dropped' = {}
        /\ fresh' = NoResults
        /\ raced' = FALSE

\* Fold, populate the cache, save.  A full or filtered run saves only when it
\* changed a record, or recorded a deselection whether new or not; a save may
\* fail, or be cut short and leave a file the next load cannot parse.
Persist(save) ==
  /\ pc = "persist"
  /\ LET S == persist_results(tree)
         worth == \/ kind = "impacted"
                  \/ S.tests # st.tests
                  \/ kind = "full" /\ deselected_candidates # {}
     IN  disk' = IF ~worth \/ save = "failed" THEN disk
                 ELSE IF save = "saved" THEN S ELSE EmptyState
  /\ cache' = IF kind = "impacted" /\ CacheEnabled
                THEN {o \in cache : \A e \in FreshEntries(tree) :
                                      <<o.id, o.key>> # <<e.id, e.key>>}
                     \cup FreshEntries(tree)
                ELSE cache
  /\ Idle
  /\ UNCHANGED <<tree, edits, runs>>

\* The run fails or the daemon dies before anything is saved.
Abandon ==
  /\ pc # "idle"
  /\ Idle
  /\ UNCHANGED <<tree, disk, cache, edits, runs>>

Next ==
  \/ \E f \in Files, content \in Contents : Edit(f, content)
  \/ \E scope \in {"full", "filtered"} : StartFull(scope)
  \/ StartImpacted
  \/ \E lost, gone \in SUBSET todo, chosen, measured \in SUBSET Reportable :
       Execute(lost, gone, chosen, measured)
  \/ \E save \in {"saved", "failed", "torn"} : Persist(save)
  \/ Abandon

Spec == Init /\ [][Next]_vars
-----------------------------------------------------------------------------
(* Properties.                                                             *)

\* Every variable stays in its type, the persisted records included.
TypeOK ==
  /\ tree \in Trees
  /\ disk \in States /\ st \in States
  /\ \A e \in cache : /\ e.id \in Ids /\ e.clean \in BOOLEAN
                     /\ e.out \in Outcomes \cup {WorkerFault}
                     /\ e.key.files \subseteq Files
                     /\ e.key.contents \in [e.key.files -> Contents]
  /\ pc \in {"idle", "execute", "persist"}
  /\ kind \in {"full", "filtered", "impacted"}
  /\ todo \subseteq Candidates /\ dropped \subseteq Candidates
  /\ trusted \subseteq Ids
  /\ fresh \in [Ids -> Answers \cup {Absent}]
  /\ raced \in BOOLEAN
  /\ edits \in 0 .. MaxEdits /\ runs \in 0 .. MaxRuns

\* What record r of id i claims is what a run on tree t would report.
Yields(i, r, t) ==
  IF r.out = Deselected
    THEN \A j \in Ids : Reporter[j] = i => Result(j, t) = Absent
    ELSE Result(i, t) # Absent /\ Result(i, t).out = r.out

\* A record that an unfiltered run wrote while no file was edited is never served
\* stale (impact-analysis.md:48-49, "never a wrong skip"): asked now, the daemon
\* would serve only what running the test now would give, whatever crashes, failed
\* saves, lost workers, filtered runs and edits came since.  Not so once a later
\* unfiltered run has moved the hash of one of the record's files without writing
\* the record again, because the edit came during that run or the test has gone:
\* fold.rs:148-149 makes such a record current, and it is served ("overtaken").
ServedIsFresh ==
  pc = "idle" =>
    \A i \in Served(disk, tree) :
      disk.by[i] \in Vouching => Yields(i, disk.tests[i], tree)

\* A candidate that an unfiltered run recorded as deselected, while no file was
\* edited and its unit was run, is passed over only while it would still report
\* nothing (fold.rs:54-59, TID-73), as long as no later unfiltered run overtook
\* the record as above.
DeselectedIsFresh ==
  pc = "idle" =>
    \A i \in KeptRecords(disk, tree) \ Served(disk, tree) :
      disk.by[i] \in Vouching => Yields(i, disk.tests[i], tree)

\* The cases a candidate is served by are all the cases it has now: one case
\* that vouches (as in ServedIsFresh) answers for the presence of the others, so
\* none goes missing from a cached candidate's report (plan.rs:30-44).
ServedIsComplete ==
  pc = "idle" =>
    \A c \in PlanCached(disk, tree) : \A i \in JudgedBy(disk, tree, c) :
      (disk.by[i] \in Vouching /\ Reporter[i] = c) =>
        \A j \in Ids : Reporter[j] = c /\ Result(j, tree) # Absent =>
                       j \in JudgedBy(disk, tree, c)

\* A test the next full run would trust to the bare tier, which isolates
\* nothing, is pure as its files are now, when the recorded verdict was
\* measured by the run that wrote the record (full_run.rs:36-48).
TrustedIsPure ==
  pc = "idle" =>
    \A i \in trusted_pure(disk, tree) :
      disk.by[i] = "run" => Result(i, tree) # Absent /\ Result(i, tree).pure = "yes"

\* A cache entry no edit raced gives, on every tree its key matches, the
\* outcome a run there would give (result_cache.rs:40-43).
Sound(e, t) ==
  (\A f \in e.key.files : t[f] = e.key.contents[f]) =>
    Result(e.id, t) # Absent /\ Result(e.id, t).out = e.out
CacheIsSound == \A e \in cache : e.clean => \A t \in Trees : Sound(e, t)

\* An undisturbed impacted run that is saved leaves nothing to run: on the same
\* tree the next one executes nothing (impact-analysis.md:53-55, TID-73).
WarmRunIsQuiet ==
  [][pc = "persist" /\ kind = "impacted" /\ ~raced /\ Persist("saved")
       => PlanToRun(disk', tree) = {}]_vars
=============================================================================
