-------------------------- MODULE IsolationLadder --------------------------
(***************************************************************************)
(* One shim worker (Engine) serving a run's requests, one at a time: the   *)
(* tier each test takes, the fixtures kept up between tests, the snapshot  *)
(* taken on entering a module and restored on leaving it, the child an     *)
(* opaque or disturbing module runs in, and the clean room that re-runs a  *)
(* test that leaked.                                                       *)
(*                                                                         *)
(* A process's memory is the set of marks its tests and fixtures left:     *)
(* <<"state", t>> a test's change to restorable state, <<"opaque", t>> its *)
(* change to a global that cannot be snapshot, <<"thread", t>> a thread it *)
(* left running, <<"fixture", k>> the effect of a live wide fixture and    *)
(* <<"call", t>> that of the test's own function fixtures.  A test has one *)
(* variant; the xunit module hooks, which precede any fixture, are left    *)
(* out, and so is what each handler replies besides who ran the test.      *)
(***************************************************************************)
EXTENDS Naturals, Sequences, FiniteSets, SequencesExt

CONSTANTS
  Tests, Modules,
  ModuleOf,    \* [Tests -> Modules]
  Before(_, _),\* Before(t, u): t precedes u in their file
  Opaque,      \* modules with a global no snapshot can hold
  Leaves,      \* [Tests -> SUBSET {"state", "thread"}]: what a test's body leaves
  CallFixture, \* tests with a function fixture that changes shared state
  Fixtures,    \* instances of wide fixtures: one per session, module or class
  Serves,      \* [Fixtures -> SUBSET Tests]: the tests of the instance's scope
  Needs,       \* [Tests -> Seq(Fixtures)]: in the order of the closure
  MustFork,    \* tests recorded as disturbing the interpreter
  Trusted,     \* tests recorded pure, their files unchanged: a record that stays
               \* when its test is edited, so they may leave what any other may
  Configs,     \* the worker set-ups a run may use
  Sharded      \* whether a file may be split into units

ASSUME TestFacts ==
  /\ ModuleOf \in [Tests -> Modules] /\ "none" \notin Modules /\ Opaque \subseteq Modules
  /\ Leaves \in [Tests -> SUBSET {"state", "thread"}]
  /\ CallFixture \subseteq Tests /\ MustFork \subseteq Tests /\ Trusted \subseteq Tests
ASSUME FixtureFacts ==
  /\ Serves \in [Fixtures -> SUBSET Tests] /\ Needs \in [Tests -> Seq(Fixtures)]
  /\ \A t \in Tests : \A i, j \in DOMAIN Needs[t] :
       t \in Serves[Needs[t][i]] /\ (Needs[t][i] = Needs[t][j] => i = j)
\* Whatever runs tests in process is launched with restore (fork_tier.rs:54-57),
\* and only the fork tier, which is built where there is fork and never launched
\* with --no-fork, climbs the ladder (tier.rs:113-137, subprocess.rs:129-136).
ASSUME ConfigFacts ==
  /\ Configs \subseteq [fork: BOOLEAN, no_fork: BOOLEAN, ladder: BOOLEAN, restore: BOOLEAN]
  /\ \A c \in Configs :
       /\ c.ladder \/ c.no_fork => c.restore
       /\ c.ladder => c.fork /\ ~c.no_fork

Restorable == {"state", "fixture", "call"}
Mark == ({"state", "opaque", "thread", "call"} \X Tests) \cup ({"fixture"} \X Fixtures)
NoGuard == [module |-> "none", found |-> {}]
Guards == [module : Modules \cup {"none"}, found : SUBSET Mark]

\* A process's interpreter: its memory, the wide fixtures it has up in order,
\* the snapshot of the module it is in.  `in` and `here` are history: the
\* module it last ran a test of, and the marks made since it entered it.
Processes == [mem : SUBSET Mark, active : Seq(Fixtures), guard : Guards,
              in : Modules \cup {"none"}, here : SUBSET Mark]
Pristine == [mem |-> {}, active |-> <<>>, guard |-> NoGuard, in |-> "none", here |-> {}]
NoChild == [module |-> "none", image |-> Pristine]

\* Tier.IN_PROCESS, without restore, is not among them: no launch may reach it.
Tiers == {"bare", "restore", "fork", "module-child", "refused"}

VARIABLES
  config,    \* this run's set-up
  worker,    \* the worker's process
  alive,     \* whether it still serves
  child,     \* the module child: its module and its process
  room,      \* whether the clean room is up
  asked,     \* tests requested
  last       \* what the last request did

vars == <<config, worker, alive, child, room, asked, last>>

\* How a body ends: it returns, overruns its deadline, or takes the process down.
Ends == {"done", "timeout", "died"}

\* What a request did: the tier, whose result was reported, what the body saw on
\* its tier and what it found set up there, how it ended, what a clean re-run
\* saw, and whether the room was lost on it.
Unrun(t, tier) == [test |-> t, tier |-> tier, from |-> "none", saw |-> {}, up |-> <<>>,
                   here |-> {}, ended |-> "none", again |-> {}, lostroom |-> FALSE]
Nothing == Unrun("none", "none")
-----------------------------------------------------------------------------
(* The tier of a test.                                                     *)

force_no_fork(t) == config.ladder /\ t \notin MustFork
trusted_pure(t) == force_no_fork(t) /\ t \in Trusted
recorded_must_fork(t) == ~config.no_fork /\ t \in MustFork

\* Mutants of NeedsFork: whether the module can be restored is not asked; or a
\* child that holds the file does not take its other tests.
NeedsForkSplit(t) ==
  /\ config.restore
  /\ \/ ModuleOf[t] \in Opaque /\ ~trusted_pure(t) /\ (force_no_fork(t) \/ config.no_fork)
     \/ recorded_must_fork(t)
NeedsForkRecorded(t) ==
  /\ config.restore
  /\ \/ recorded_must_fork(t)
     \/ child.module = ModuleOf[t] /\ config.fork /\ ~config.no_fork

\* Where there is restore: the module cannot be restored, the test is a recorded
\* disturber, or a child already holds the file.  (The module child asks with its own restore off.)
NeedsFork(t) ==
  /\ config.restore
  /\ \/ ModuleOf[t] \in Opaque /\ ~trusted_pure(t) /\ (force_no_fork(t) \/ config.no_fork)
     \/ recorded_must_fork(t)
     \/ child.module = ModuleOf[t] /\ config.fork /\ ~config.no_fork

\* Mutant of route: where there is no fork the test runs in process after all.
RouteUnrefused(t) ==
  IF NeedsFork(t) THEN (IF config.fork THEN "module-child" ELSE "in-process")
  ELSE IF ~(config.no_fork \/ force_no_fork(t)) THEN "fork"
  ELSE IF trusted_pure(t) THEN "bare"
  ELSE IF config.restore THEN "restore" ELSE "in-process"

route(t) ==
  IF NeedsFork(t) THEN (IF config.fork THEN "module-child" ELSE "refused")
  ELSE IF ~(config.no_fork \/ force_no_fork(t)) THEN "fork"
  ELSE IF trusted_pure(t) THEN "bare"
  ELSE IF config.restore THEN "restore" ELSE "in-process"
-----------------------------------------------------------------------------
(* Fixtures and the module guard, of a process P and the test t it is to run. *)

Marks(kind, s) == {<<kind, x>> : x \in s}

\* P with another memory, other fixtures up and another guard.
Process(P, mem, active, guard) ==
  [mem |-> mem, active |-> active, guard |-> guard, in |-> P.in, here |-> P.here]

\* The fixtures that stay: popping stops at the first that serves t.
Standing(P, t) ==
  LET kept == {i \in DOMAIN P.active : t \in Serves[P.active[i]]}
  IN  SubSeq(P.active, 1, IF kept = {} THEN 0 ELSE Max(kept))

\* Mutant of Left: the guard is dropped and nothing is put back.
DroppedGuard(P, t) ==
  IF P.guard.module \in {"none", ModuleOf[t]} THEN P ELSE Process(P, P.mem, P.active, NoGuard)

\* Leaving a module puts back all that can be: threads and opaque state stay.
Left(P, t) ==
  IF P.guard.module \in {"none", ModuleOf[t]} THEN P
  ELSE Process(P, {x \in P.guard.found : x[1] \in Restorable}
                    \cup {x \in P.mem : x[1] \notin Restorable}, P.active, NoGuard)

TearDownStale(P, t) ==
  LET stay == Standing(P, t)
      gone == Marks("fixture", ToSet(P.active) \ ToSet(stay))
      here == IF P.in = ModuleOf[t] THEN P.here ELSE {}
  IN  Left([mem |-> P.mem \ gone, active |-> stay, guard |-> P.guard,
            in |-> ModuleOf[t], here |-> here \ gone], t)

\* Those of the test's fixtures that are not up, in the order of the closure.
Missing(P, t) ==
  LET up == ToSet(P.active)
      upto[n \in 0 .. Len(Needs[t])] ==
        IF n = 0 THEN <<>>
        ELSE IF Needs[t][n] \in up THEN upto[n - 1] ELSE Append(upto[n - 1], Needs[t][n])
  IN  upto[Len(Needs[t])]

\* Stale fixtures down, then the first n missing ones up: all of them, unless
\* the set-up of the next one fails.
SyncWider(P, t, n) ==
  LET Q == TearDownStale(P, t)
      new == SubSeq(Missing(Q, t), 1, n)
      up == Marks("fixture", ToSet(new))
  IN  [mem |-> Q.mem \cup up, active |-> Q.active \o new, guard |-> Q.guard,
       in |-> Q.in, here |-> Q.here \cup up]

Ready(P, t) == SyncWider(P, t, Len(Missing(TearDownStale(P, t), t)))

Own(t) == IF t \in CallFixture THEN {<<"call", t>>} ELSE {}
Effect(t) ==
  (IF "state" \notin Leaves[t] THEN {}
   ELSE {<<IF ModuleOf[t] \in Opaque THEN "opaque" ELSE "state", t>>})
  \cup (IF "thread" \in Leaves[t] THEN {<<"thread", t>>} ELSE {})

\* Mutant of Entered: every test is snapshot and put back on its own.
EnteredPerTest(P, t) ==
  Process(P, IF P.guard.module = ModuleOf[t] THEN P.guard.found ELSE P.mem, P.active,
          [module |-> ModuleOf[t], found |-> P.mem \cup Own(t)])

\* The first in-process test of a module snapshots it, its fixtures being up.
Entered(P, t) ==
  IF P.guard.module = ModuleOf[t] THEN P
  ELSE Process(P, P.mem, P.active, [module |-> ModuleOf[t], found |-> P.mem \cup Own(t)])

Body(P, t) == [mem |-> (P.mem \cup Effect(t)) \ Own(t), active |-> P.active,
               guard |-> P.guard, in |-> P.in, here |-> P.here \cup Effect(t)]

\* The body of t ran in P, whose fixtures were up, its own included; what is
\* reported comes from where `rerun` says.
Ran(t, tier, P, ended, rerun, lost) ==
  [test |-> t, tier |-> tier, from |-> rerun.by, saw |-> P.mem \cup Own(t), up |-> P.active,
   here |-> P.here, ended |-> ended, again |-> rerun.again, lostroom |-> lost]
By(who) == [by |-> who, again |-> {}]
-----------------------------------------------------------------------------
Init ==
  /\ config \in Configs
  /\ worker = Pristine /\ alive = TRUE
  /\ child = NoChild
  /\ room = config.fork
  /\ asked = {} /\ last = Nothing

\* A file's tests come in file order, and a file is not returned to unless it
\* may be split into units.
Request(t) ==
  /\ alive /\ t \notin asked
  /\ \A u \in asked : ~Before(t, u)
  /\ \A u \in asked :
       ModuleOf[u] = ModuleOf[t] => Sharded \/ ModuleOf[last.test] = ModuleOf[t]
  /\ asked' = asked \cup {t}

\* The gate or the plan answers: a skip, a deselection, a broken import.
Gate(t) ==
  /\ Request(t)
  /\ last' = Unrun(t, "none")
  /\ UNCHANGED <<config, worker, alive, child, room>>

\* The fixtures are synced all the same, one of them may fail, and the test never runs.
Refuse(t) ==
  /\ Request(t) /\ route(t) = "refused"
  /\ \E n \in 0 .. Len(Missing(TearDownStale(worker, t), t)) : worker' = SyncWider(worker, t, n)
  /\ last' = Unrun(t, "refused")
  /\ UNCHANGED <<config, alive, child, room>>

\* With n of the missing wide fixtures up the next one fails, or else the test's own.
FailsAfter(P, t, n) ==
  LET missing == Len(Missing(TearDownStale(P, t), t))
  IN  n < missing \/ (n = missing /\ t \in CallFixture)

\* A fixture fails to set up: those before it stay, and the test is an error.
SetUpFails(t, n) ==
  /\ Request(t) /\ route(t) \notin {"module-child", "refused"}
  /\ FailsAfter(worker, t, n)
  /\ worker' = SyncWider(worker, t, n)
  /\ last' = Unrun(t, route(t))
  /\ UNCHANGED <<config, alive, child, room>>

\* A pristine copy of the worker, its wide fixtures up, runs the body and exits.
Fork(t, ended) ==
  /\ Request(t) /\ route(t) = "fork"
  /\ worker' = Ready(worker, t)
  /\ last' = Ran(t, "fork", Ready(worker, t), ended, By("fork"), FALSE)
  /\ UNCHANGED <<config, alive, child, room>>

\* The measured body left a thread running.
Leaked(t, ended) == ended = "done" /\ "thread" \in Leaves[t]

\* Mutant of Rerun: the re-run is a fork of the worker that leaked.
RerunDirty(t, after, lost) ==
  IF lost THEN By("worker")
  ELSE [by |-> "room", again |-> after.mem \cup Own(t)]

\* Who the result of a leaking test is taken from: the clean room, unless it is
\* lost on it; a fork of the worker when there is no room; or the test itself.
Rerun(t, after, lost) ==
  IF config.no_fork \/ ~config.fork \/ lost
    THEN By("worker")
  ELSE IF room THEN [by |-> "room", again |-> Ready(Pristine, t).mem \cup Own(t)]
  ELSE [by |-> "fork", again |-> after.mem \cup Own(t)]

\* The bare and restore tiers: the body runs in the worker, whose module guard
\* is entered first.  A body that overruns is reported as such and not re-run;
\* the room may be found dead when it is asked.
InProcess(t, ended, lost) ==
  LET before == Entered(Ready(worker, t), t)
      after == Body(before, t)
      leak == Leaked(t, ended)
      rerun == IF leak THEN Rerun(t, after, lost) ELSE By("worker")
  IN
  /\ Request(t) /\ route(t) \in {"bare", "restore"}
  /\ lost => leak /\ room /\ ~config.no_fork
  /\ worker' = after
  /\ alive' = (ended # "died")
  /\ room' = (room /\ ~lost)
  /\ last' = Ran(t, route(t), before, ended, rerun, lost)
  /\ UNCHANGED <<config, child>>

\* The child is a copy of the worker, whose stale fixtures are down.
Spawn(t) == [module |-> ModuleOf[t], image |-> TearDownStale(worker, t)]

\* The module's own child, forked when there is none; another module's is
\* closed first.  Inside, the same sync runs in the child, and nothing is
\* measured or snapshot.  Its own deadline ends a body that overruns; a child
\* that is silent past it, dies, or answers with an unreadable frame is reaped.
ModuleChild(t, ended) ==
  LET held == child.module = ModuleOf[t]
      c == IF held THEN child ELSE Spawn(t)
      ready == Ready(c.image, t)
  IN
  /\ Request(t) /\ route(t) = "module-child"
  /\ worker' = IF held THEN worker ELSE TearDownStale(worker, t)
  /\ child' = IF ended = "died" THEN NoChild
              ELSE [module |-> c.module, image |-> Body(ready, t)]
  /\ last' = Ran(t, "module-child", ready, ended, By("child"), FALSE)
  /\ UNCHANGED <<config, alive, room>>

\* In the child too a fixture may fail to set up.
ChildSetUpFails(t, n) ==
  LET held == child.module = ModuleOf[t]
      c == IF held THEN child ELSE Spawn(t)
  IN
  /\ Request(t) /\ route(t) = "module-child"
  /\ FailsAfter(c.image, t, n)
  /\ worker' = IF held THEN worker ELSE TearDownStale(worker, t)
  /\ child' = [module |-> c.module, image |-> SyncWider(c.image, t, n)]
  /\ last' = Unrun(t, "module-child")
  /\ UNCHANGED <<config, alive, room>>

\* A child that died between two tests is found out by the write, or by the
\* closed pipe of the read: either way the test is an error and never ran.
ChildGone(t) ==
  /\ Request(t) /\ route(t) = "module-child" /\ child.module = ModuleOf[t]
  /\ child' = NoChild
  /\ last' = Unrun(t, "module-child")
  /\ UNCHANGED <<config, worker, alive, room>>

\* The run closes the worker: its child ends, then every fixture is torn down,
\* and the process exits.
Finish ==
  /\ alive
  /\ alive' = FALSE
  /\ worker' = Process(worker, worker.mem \ Marks("fixture", ToSet(worker.active)),
                       <<>>, worker.guard)
  /\ child' = NoChild /\ room' = FALSE
  /\ UNCHANGED <<config, asked, last>>

Serve(t) ==
  \/ Gate(t) \/ Refuse(t)
  \/ \E n \in 0 .. Len(Needs[t]) : SetUpFails(t, n) \/ ChildSetUpFails(t, n)
  \/ ChildGone(t)
  \/ \E ended \in Ends :
       \/ Fork(t, ended) \/ ModuleChild(t, ended)
       \/ \E lost \in BOOLEAN : InProcess(t, ended, lost)

Next == Finish \/ \E t \in Tests : Serve(t)
Spec == Init /\ [][Next]_vars
-----------------------------------------------------------------------------
(* Properties.                                                             *)

Ended == last.ended # "none"     \* the last request ran a body

\* Every variable stays in its type; in particular no test runs in process
\* without the restore.
TypeOK ==
  /\ config \in Configs
  /\ worker \in Processes /\ alive \in BOOLEAN
  /\ child.module \in Modules \cup {"none"} /\ child.image \in Processes
  /\ room \in BOOLEAN /\ asked \subseteq Tests
  /\ last.test \in Tests \cup {"none"} /\ last.tier \in Tiers \cup {"none"}
  /\ last.saw \subseteq Mark /\ last.again \subseteq Mark /\ last.here \subseteq Mark
  /\ last.up \in Seq(Fixtures)

\* No test sees what a test of another module did to state that can be restored,
\* whatever tiers, failures and children came between (parallel-execution.md:48-52).
NoForeignMarks ==
  Ended => \A x \in last.saw : x[1] = "state" => ModuleOf[x[2]] = ModuleOf[last.test]

\* Inside a file nothing is put back: a test finds everything that the earlier
\* tests of the file run in its process did, and the fixtures it has set up since.
FileCarries == Ended => last.here \subseteq last.saw

\* While a module child holds a file no test of the file runs outside it, and it
\* has what the worker's tests of the file did before it (tiers.py:69-71).
NeverSplit ==
  child.module # "none" =>
    /\ Ended /\ ModuleOf[last.test] = child.module => last.tier = "module-child"
    /\ worker.in = child.module =>
         {x \in worker.here : x[1] # "fixture"} \subseteq child.image.here

\* State that cannot be restored reaches a worker from no test but one that the
\* records trust to the bare tier (they may be out of date, fold.rs:126, and no
\* measure sees such state); and the threads of a recorded disturber never do
\* where the worker may fork, whatever else is recorded of it.
Contained ==
  \A x \in worker.mem :
    /\ x[1] = "opaque" => trusted_pure(x[2])
    /\ x[1] = "thread" /\ ~config.no_fork => x[2] \notin MustFork

\* A test that left a thread in the worker is not reported from there, unless
\* the clean room died on it: while there is a room, what is reported ran where
\* no test's thread runs (TID-33, TID-50).
LeakIsRerun ==
  last.tier \in {"bare", "restore"} /\ last.ended = "done" /\ "thread" \in Leaves[last.test]
  /\ config.ladder /\ ~last.lostroom =>
    /\ last.from # "worker"
    /\ room => \A x \in last.again : x[1] # "thread"

(* What the documents say and the code does not do. *)

\* Wide fixtures are torn down "as a worker moves between modules and classes"
\* (parallel-execution.md:37-38): none that is up is of another scope.
StaleFixturesGone == Ended => \A k \in ToSet(last.up) : last.test \in Serves[k]

\* A module left is "restored to what the worker found on entering it", and "the
\* next module starts clean" (parallel-execution.md:51-52): no test sees the
\* effect of a fixture that has been torn down.
StartsClean ==
  Ended => \A x \in last.saw :
    /\ x[1] = "call" => x[2] = last.test
    /\ x[1] = "fixture" => x[2] \in ToSet(last.up)

\* The shim "keeps wider-scope fixtures live" (parallel-execution.md:37): the
\* effect of one that is up is there.
LiveFixturesStand == Ended => \A k \in ToSet(last.up) : <<"fixture", k>> \in last.saw
=============================================================================
