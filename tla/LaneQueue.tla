----------------------------- MODULE LaneQueue -----------------------------
(***************************************************************************)
(* One run's parallel phase: lanes, one thread each, drain a shared queue  *)
(* of units (run of tests of one module), each on a worker of its own that *)
(* it talks to one request at a time.  A worker's process may answer late, *)
(* never, or die.  The tier decides what a lane does with a lost worker:   *)
(*   "pooled"      reports the unit, kills the worker and takes no more;   *)
(*   "subprocess"  reports the unit and relaunches for the next one;       *)
(*   "wellspring"  waits without a budget, and a dead worker fails the run.*)
(* A lane of the last two launches its own process, waits for it to say    *)
(* that it is ready and, at the end, for it to exit: neither has a budget. *)
(* Units are numbered as the queue holds them: pop takes the last.         *)
(***************************************************************************)
EXTENDS Naturals, Sequences, FiniteSets

CONSTANTS
  Lanes,     \* one per thread
  Items,     \* collected tests
  Units      \* the queue, a sequence of sequences of tests

ASSUME UnitsPartition ==
  /\ Units \in Seq(Seq(Items))
  /\ \A u \in DOMAIN Units : Units[u] # <<>>
  /\ \A u, v \in DOMAIN Units : \A i \in DOMAIN Units[u], j \in DOMAIN Units[v] :
       Units[u][i] = Units[v][j] => u = v /\ i = j

NoItem == <<>>      \* no request: not the name of a test
ASSUME NoItemIsNone == NoItem \notin Items

UnitIds == DOMAIN Units
Tiers == {"pooled", "subprocess", "wellspring"}
Phases == {"start", "launching", "free", "taken", "send", "wait", "lost", "closing",
           "done", "failed"}

\* What a lane has to say of a test: it ran, and `from` is the test the answer
\* it was given is about; its worker was lost on it; or it never started.
Said(item, kind, from) == [item |-> item, kind |-> kind, from |-> from]
Results == [item : Items, kind : {"ran", "fault", "after"}, from : Items]

VARIABLES
  tier,      \* the tier the run's tests execute on
  left,      \* how many units the queue holds: Units[1 .. left]
  counter,   \* the atomic that numbers units
  phase,     \* [Lanes -> Phases]
  unit,      \* [Lanes -> 0 or the unit in hand]
  at,        \* [Lanes -> position in the unit]
  rank,      \* [UnitIds -> Nat]: the number a unit was given, plus one; 0 before
  proc,      \* [Lanes -> "none", "starting", "live" or "dead"]: the worker's process
  working,   \* [Lanes -> the request the process is working on]
  frames,    \* [Lanes -> replies written and not yet read]
  gone,      \* [Lanes -> BOOLEAN]: PooledWorker.lost
  mine,      \* [Lanes -> SUBSET Results]: the lane's results
  outcome,   \* "running", "ok" or "err"
  report     \* the results the run returns

vars == <<left, counter, phase, unit, at, rank, proc, working, frames, gone, mine,
          outcome, report, tier>>
worker == <<proc, working, frames, gone>>

Reports == tier # "wellspring"     \* LostWorker::Report, with a read budget
-----------------------------------------------------------------------------
Init ==
  /\ tier \in Tiers
  /\ left = Len(Units) /\ counter = 0
  /\ phase = [l \in Lanes |-> "start"]
  /\ unit = [l \in Lanes |-> 0] /\ at = [l \in Lanes |-> 1]
  /\ rank = [u \in UnitIds |-> 0]
  /\ proc = [l \in Lanes |-> IF tier = "pooled" THEN "live" ELSE "none"]
  /\ working = [l \in Lanes |-> NoItem]
  /\ frames = [l \in Lanes |-> <<>>]
  /\ gone = [l \in Lanes |-> FALSE]
  /\ mine = [l \in Lanes |-> {}]
  /\ outcome = "running" /\ report = {}

\* spawn and launch: the interpreter could not be started, or it was and the lane
\* waits for its ready frame, as long as that takes.
Launch(l) ==
  \/ phase' = [phase EXCEPT ![l] = "launching"] /\ proc' = [proc EXCEPT ![l] = "starting"]
  \/ phase' = [phase EXCEPT ![l] = "failed"] /\ UNCHANGED proc

\* seed.start(): a pooled worker is connected already, a wellspring is launched
\* here, a subprocess waits for its first unit.
Start(l) ==
  /\ phase[l] = "start"
  /\ IF tier = "wellspring"
       THEN Launch(l)
       ELSE phase' = [phase EXCEPT ![l] = "free"] /\ UNCHANGED proc
  /\ UNCHANGED <<left, counter, unit, at, rank, working, frames, gone, mine,
                 outcome, report, tier>>

\* The suite is imported, the process says so, and the lane goes on: with the unit
\* it was launched for, or to the queue.
Ready(l) ==
  /\ phase[l] = "launching" /\ proc[l] = "starting"
  /\ phase' = [phase EXCEPT ![l] = IF unit[l] = 0 THEN "free" ELSE "send"]
  /\ proc' = [proc EXCEPT ![l] = "live"]
  /\ UNCHANGED <<left, counter, unit, at, rank, working, frames, gone, mine,
                 outcome, report, tier>>

\* It exits instead: there is no ready frame, and no worker.
NotReady(l) ==
  /\ phase[l] = "launching" /\ proc[l] = "dead"
  /\ phase' = [phase EXCEPT ![l] = "failed"]
  /\ proc' = [proc EXCEPT ![l] = "none"]
  /\ UNCHANGED <<left, counter, unit, at, rank, working, frames, gone, mine,
                 outcome, report, tier>>

\* Mutants of Pop: the last unit is read before it is removed, the emptiness
\* check is off by one, or is missing.
PeekUnit(l) ==
  /\ phase[l] = "free" /\ left # 0
  /\ phase' = [phase EXCEPT ![l] = "taken"]
  /\ unit' = [unit EXCEPT ![l] = left]
  /\ UNCHANGED <<left, proc, counter, at, rank, working, frames, gone, mine, outcome,
                 report, tier>>
PopButOne(l) ==
  /\ phase[l] = "free"
  /\ IF left <= 1
       THEN phase' = [phase EXCEPT ![l] = "done"] /\ UNCHANGED <<left, unit>>
       ELSE /\ phase' = [phase EXCEPT ![l] = "taken"]
            /\ unit' = [unit EXCEPT ![l] = left]
            /\ left' = left - 1
  /\ UNCHANGED <<proc, counter, at, rank, working, frames, gone, mine, outcome, report, tier>>
PopUnchecked(l) ==
  /\ phase[l] = "free"
  /\ phase' = [phase EXCEPT ![l] = "taken"]
  /\ unit' = [unit EXCEPT ![l] = left]
  /\ left' = left - 1
  /\ UNCHANGED <<proc, counter, at, rank, working, frames, gone, mine, outcome, report, tier>>

\* Pop under the lock; an empty queue ends the lane.  Dropping its worker closes the
\* pipe, and a process of the lane's own is waited for.
Pop(l) ==
  /\ phase[l] = "free"
  /\ IF left = 0
       THEN /\ phase' = [phase EXCEPT ![l] =
                            IF tier = "pooled" \/ proc[l] = "none" THEN "done" ELSE "closing"]
            /\ UNCHANGED <<left, unit>>
       ELSE /\ phase' = [phase EXCEPT ![l] = "taken"]
            /\ unit' = [unit EXCEPT ![l] = left]
            /\ left' = left - 1
  /\ UNCHANGED <<counter, at, rank, worker, mine, outcome, report, tier>>

\* The process has run its finalizers and exited, and is reaped.
Reap(l) ==
  /\ phase[l] = "closing" /\ proc[l] = "dead"
  /\ phase' = [phase EXCEPT ![l] = "done"]
  /\ UNCHANGED <<left, counter, unit, at, rank, worker, mine, outcome, report, tier>>

\* Mutant of Number: the counter is read and not advanced.
NumberUncounted(l) ==
  /\ phase[l] = "taken"
  /\ rank' = [rank EXCEPT ![unit[l]] = counter + 1]
  /\ at' = [at EXCEPT ![l] = 1]
  /\ IF proc[l] = "none" THEN Launch(l) ELSE phase' = [phase EXCEPT ![l] = "send"] /\ UNCHANGED proc
  /\ UNCHANGED <<left, counter, unit, working, frames, gone, mine, outcome, report, tier>>

\* Number the unit, after the lock is released, and start on it; a subprocess
\* is launched for it when there is none.
Number(l) ==
  /\ phase[l] = "taken"
  /\ rank' = [rank EXCEPT ![unit[l]] = counter + 1]
  /\ counter' = counter + 1
  /\ at' = [at EXCEPT ![l] = 1]
  /\ IF proc[l] = "none"
       THEN Launch(l)
       ELSE phase' = [phase EXCEPT ![l] = "send"] /\ UNCHANGED proc
  /\ UNCHANGED <<left, unit, working, frames, gone, mine, outcome, report, tier>>

Item(l) == Units[unit[l]][at[l]]

\* write_frame: a dead process's pipe may still take the frame; the read that
\* follows finds it closed.
Send(l) ==
  /\ phase[l] = "send"
  /\ phase' = [phase EXCEPT ![l] = "wait"]
  /\ working' = [working EXCEPT ![l] = IF proc[l] = "live" THEN Item(l) ELSE @]
  /\ UNCHANGED <<left, counter, unit, at, rank, proc, frames, gone, mine, outcome, report, tier>>

\* The process finishes its test and writes the reply.
Answer(l) ==
  /\ proc[l] = "live" /\ working[l] # NoItem
  /\ frames' = [frames EXCEPT ![l] = Append(@, working[l])]
  /\ working' = [working EXCEPT ![l] = NoItem]
  /\ UNCHANGED <<left, counter, phase, unit, at, rank, proc, gone, mine, outcome, report, tier>>

\* The process ends: while it starts, in a test, between two, or told to.
Die(l) ==
  /\ proc[l] \in {"starting", "live"} /\ outcome = "running"
  /\ proc' = [proc EXCEPT ![l] = "dead"]
  /\ working' = [working EXCEPT ![l] = NoItem]
  /\ UNCHANGED <<left, counter, phase, unit, at, rank, frames, gone, mine, outcome, report, tier>>

\* The next frame is the answer to the request in flight; the last one ends the unit.
Receive(l) ==
  /\ phase[l] = "wait" /\ frames[l] # <<>>
  /\ mine' = [mine EXCEPT ![l] = @ \cup {Said(Item(l), "ran", Head(frames[l]))}]
  /\ frames' = [frames EXCEPT ![l] = Tail(@)]
  /\ IF at[l] < Len(Units[unit[l]])
       THEN /\ at' = [at EXCEPT ![l] = @ + 1]
            /\ phase' = [phase EXCEPT ![l] = "send"]
            /\ UNCHANGED unit
       ELSE /\ unit' = [unit EXCEPT ![l] = 0]
            /\ phase' = [phase EXCEPT ![l] = "free"]
            /\ UNCHANGED at
  /\ UNCHANGED <<left, counter, rank, proc, working, gone, outcome, report, tier>>

\* Mutant of FaultReport: the whole unit is reported again.
WholeUnitReport(u, n) ==
  {Said(Units[u][m], "after", Units[u][n]) : m \in DOMAIN Units[u]}

\* What run_batch_lost reports of a unit whose worker is lost at position n.
FaultReport(u, n) ==
  {Said(Units[u][n], "fault", Units[u][n])} \cup
  {Said(Units[u][m], "after", Units[u][n]) : m \in {k \in DOMAIN Units[u] : k > n}}

\* Mutant of Fault: the first lost worker fails the lane on every tier.
FaultFails(l) == phase' = [phase EXCEPT ![l] = "failed"] /\ UNCHANGED mine

Fault(l) ==
  IF Reports
    THEN /\ phase' = [phase EXCEPT ![l] = "lost"]
         /\ mine' = [mine EXCEPT ![l] = @ \cup FaultReport(unit[l], at[l])]
    ELSE /\ phase' = [phase EXCEPT ![l] = "failed"]
         /\ UNCHANGED mine

\* Mutants of Overdue: the test is reported and the next one sent to the same
\* process; or the read has no budget, and only a closed pipe ends it.
OverdueSkips(l) ==
  /\ phase[l] = "wait" /\ frames[l] = <<>> /\ Reports
  /\ at[l] < Len(Units[unit[l]])
  /\ mine' = [mine EXCEPT ![l] = @ \cup {Said(Item(l), "fault", Item(l))}]
  /\ at' = [at EXCEPT ![l] = @ + 1]
  /\ phase' = [phase EXCEPT ![l] = "send"]
  /\ UNCHANGED <<left, counter, unit, rank, worker, outcome, report, tier>>
NoBudget(l) ==
  /\ phase[l] = "wait" /\ frames[l] = <<>> /\ Reports /\ proc[l] = "dead"
  /\ Fault(l)
  /\ UNCHANGED <<left, counter, unit, at, rank, worker, outcome, report, tier>>

\* The budget runs out with nothing to read.
Overdue(l) ==
  /\ phase[l] = "wait" /\ frames[l] = <<>> /\ Reports
  /\ Fault(l)
  /\ UNCHANGED <<left, counter, unit, at, rank, worker, outcome, report, tier>>

\* The pipe closes with nothing to read.
Closed(l) ==
  /\ phase[l] = "wait" /\ frames[l] = <<>> /\ proc[l] = "dead"
  /\ Fault(l)
  /\ UNCHANGED <<left, counter, unit, at, rank, worker, outcome, report, tier>>

\* A lost worker is killed.  The pool's lane ends with it; the fallback's drops
\* the process, pipe and all, and launches another for its next unit.
Retire(l) ==
  /\ phase[l] = "lost"
  /\ unit' = [unit EXCEPT ![l] = 0]
  /\ working' = [working EXCEPT ![l] = NoItem]
  /\ IF tier = "pooled"
       THEN /\ phase' = [phase EXCEPT ![l] = "done"]
            /\ gone' = [gone EXCEPT ![l] = TRUE]
            /\ proc' = [proc EXCEPT ![l] = "dead"]
            /\ UNCHANGED frames
       ELSE /\ phase' = [phase EXCEPT ![l] = "free"]
            /\ proc' = [proc EXCEPT ![l] = "none"]
            /\ frames' = [frames EXCEPT ![l] = <<>>]
            /\ UNCHANGED gone
  /\ UNCHANGED <<left, counter, at, rank, mine, outcome, report, tier>>

\* Every lane is joined; the first failure fails the run and drops what the
\* other lanes have.
Join ==
  /\ outcome = "running"
  /\ \A l \in Lanes : phase[l] \in {"done", "failed"}
  /\ IF \E l \in Lanes : phase[l] = "failed"
       THEN outcome' = "err" /\ UNCHANGED report
       ELSE outcome' = "ok" /\ report' = UNION {mine[l] : l \in Lanes}
  /\ UNCHANGED <<left, counter, phase, unit, at, rank, worker, mine, tier>>

Lane(l) ==
  \/ Start(l) \/ NotReady(l) \/ Pop(l) \/ Number(l) \/ Send(l) \/ Receive(l)
  \/ Overdue(l) \/ Closed(l) \/ Retire(l) \/ Reap(l)
Process(l) == Ready(l) \/ Answer(l) \/ Die(l)

Next == Join \/ \E l \in Lanes : Lane(l) \/ Process(l)

Spec == Init /\ [][Next]_vars

\* A runnable thread runs, and a bounded wait ends.  Nothing is asked of the worker
\* processes.
FairSpec == Spec /\ WF_vars(Join) /\ \A l \in Lanes : WF_vars(Lane(l))

\* The waits no budget ends: for a launched process to be ready, for a wellspring's
\* answer, and for a process told that the run is over to exit.
Unbudgeted(l) ==
  \/ phase[l] \in {"launching", "closing"}
  \/ phase[l] = "wait" /\ ~Reports
-----------------------------------------------------------------------------
(* Properties.                                                             *)

\* Every variable stays in its type.
TypeOK ==
  /\ tier \in Tiers
  /\ left \in 0 .. Len(Units) /\ counter \in Nat
  /\ phase \in [Lanes -> Phases]
  /\ unit \in [Lanes -> UnitIds \cup {0}] /\ at \in [Lanes -> Nat \ {0}]
  /\ rank \in [UnitIds -> Nat]
  /\ proc \in [Lanes -> {"none", "starting", "live", "dead"}]
  /\ working \in [Lanes -> Items \cup {NoItem}]
  /\ frames \in [Lanes -> Seq(Items)]
  /\ gone \in [Lanes -> BOOLEAN]
  /\ mine \in [Lanes -> SUBSET Results]
  /\ outcome \in {"running", "ok", "err"}
  /\ report \subseteq Results

\* Two lanes never hold the same unit, and a unit still queued is held by none.
HeldOnce ==
  \A l \in Lanes : unit[l] # 0 =>
    /\ unit[l] > left
    /\ \A m \in Lanes : unit[m] = unit[l] => m = l

\* No two units get the same number, whatever lanes number them at once.
NumberedOnce ==
  \A u, v \in UnitIds : rank[u] # 0 /\ rank[u] = rank[v] => u = v

\* A test is reported at most once, by one lane, and by the answer to its own
\* request: a late reply to an earlier one is never read as its own (TID-98).
ReportedOnce ==
  \A l, m \in Lanes : \A r \in mine[l], s \in mine[m] :
    r.item = s.item => l = m /\ r = s
OwnAnswer == \A l \in Lanes : \A r \in mine[l] : r.kind = "ran" => r.from = r.item

\* Within a unit the tests that ran come first, in file order; then at most one
\* that took the worker down; then those that never started, which name it.
FileOrder ==
  \A l \in Lanes : \A r, s \in mine[l] :
    \A u \in UnitIds : \A i, j \in DOMAIN Units[u] :
      (Units[u][i] = r.item /\ Units[u][j] = s.item /\ i < j) =>
        /\ s.kind = "ran" => r.kind = "ran"
        /\ s.kind = "fault" => r.kind = "ran"
        /\ s.kind = "after" /\ r.kind = "fault" => s.from = r.item

\* A run that ends well reports every test, as long as one lane kept its worker.
Complete ==
  (outcome = "ok" /\ \E l \in Lanes : ~gone[l]) =>
    {r.item : r \in report} = UNION {{Units[u][i] : i \in DOMAIN Units[u]} : u \in UnitIds}

\* Losing a worker never fails the run on a tier that reports it: only a worker
\* that could not be launched does (TID-93).
LossIsReported ==
  outcome = "err" /\ Reports => \E l \in Lanes : phase[l] = "failed" /\ proc[l] = "none"

\* Whatever its workers do, the run ends, unless a lane waits for one for ever where
\* the engine reads or waits without a budget: no test that hangs holds a pooled or a
\* subprocess lane.
Ends == <>(outcome # "running") \/ \E l \in Lanes : <>[]Unbudgeted(l)

(* What a comment says and the code does not do. *)

\* "The queue drains on the other lanes" (lane.rs:93), whichever lanes are lost.
QueueDrains == outcome = "ok" => left = 0
=============================================================================
