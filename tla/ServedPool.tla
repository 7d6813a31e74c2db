----------------------------- MODULE ServedPool -----------------------------
(***************************************************************************)
(* The daemon's runs and the image they fork their workers from: held      *)
(* while the tree's stamp stands and its parent lives, launched by a full  *)
(* run, replaced for one run by an image of the run's own otherwise.       *)
(*                                                                         *)
(* The tree is the number of edits made to it; its stamp is that number.   *)
(* A patch is a run's selection, [keyword, marker, strict]; a field not    *)
(* given leaves the project's.                                             *)
(***************************************************************************)
EXTENDS Selecting, Integers

CONSTANTS
  Patches,        \* the selections a run may ask for
  ProjectFilters, \* what the project's own configuration selects
  Lanes,          \* the numbers of lanes a run may have
  MaxRuns,        \* bound: runs
  MaxTreeEdits    \* bound: edits of the tree

ASSUME LanesAreNumbers == Lanes \subseteq Nat

VARIABLES
  code,    \* the tree
  image,   \* the image a run holds or the daemon keeps
  stamped, \* the stamp of the last image launched
  job,     \* the run being served
  lanes    \* its workers

poolVars == <<code, image, stamped, job, lanes>>

\* A one-shot image reads the run's selection from the environment.
env_vars(patch) ==
  LET Value(f) == IF f.given THEN f.expr ELSE <<>>
  IN  [keyword |-> Value(patch.keyword), marker |-> Value(patch.marker), strict |-> patch.strict]
NoEnv == [keyword |-> <<>>, marker |-> <<>>, strict |-> FALSE]
NoImage == [state |-> "none", code |-> 0, selection |-> Selection_load(ProjectFilters, NoEnv),
            workers |-> <<>>, own |-> FALSE]
Clears(f) == f.given /\ f.expr = <<>>
is_empty(patch) == ~patch.keyword.given /\ ~patch.marker.given /\ ~patch.strict

\* Mutant of StampKept: the stamp is taken when the image is up.
StampedWhenUp(taken, now) == now
\* An image is kept under the stamp taken before it was launched.
StampKept(taken, now) == taken

take_for_run ==
  /\ job.phase = "idle" /\ job.number < MaxRuns
  /\ \E full \in BOOLEAN, patch \in Patches :
       LET reused == image.state = "up" /\ stamped = code
           phase == CASE reused -> "held" [] ~reused /\ full -> "launching" [] OTHER -> "oneshot"
       IN  /\ job' = [phase |-> phase, number |-> job.number + 1, patch |-> patch, taken |-> code]
           /\ image' = IF reused THEN image ELSE NoImage
  /\ UNCHANGED <<code, stamped, lanes>>

\* The parent imports the tree as it finds it, or does not come up and the run fails.
launch_persistent ==
  /\ job.phase = "launching"
  /\ \/ /\ image' = [NoImage EXCEPT !.state = "up", !.code = code,
                                    !.selection = Selection_load(ProjectFilters, NoEnv)]
        /\ job' = [job EXCEPT !.phase = "launched"]
     \/ image' = NoImage /\ job' = [job EXCEPT !.phase = "idle"]
  /\ UNCHANGED <<code, stamped, lanes>>

KeepStamp ==
  /\ job.phase = "launched"
  /\ stamped' = StampKept(job.taken, code)
  /\ job' = [job EXCEPT !.phase = "held"]
  /\ UNCHANGED <<code, image, lanes>>

launch_own ==
  /\ job.phase = "oneshot"
  /\ \/ /\ image' = [NoImage EXCEPT !.state = "up", !.code = code, !.own = TRUE,
                                    !.selection = Selection_load(ProjectFilters, env_vars(job.patch))]
        /\ job' = [job EXCEPT !.phase = "held"]
     \/ image' = NoImage /\ job' = [job EXCEPT !.phase = "idle"]
  /\ UNCHANGED <<code, stamped, lanes>>

Worker == [number |-> job.number, code |-> image.code,
           selection |-> IF image.own \/ is_empty(job.patch) THEN image.selection
                         ELSE override(image.selection, job.patch)]
\* The run is over and failed: an image of its own goes with it, the daemon's is put back.
Abandoned(with) == IF with.own THEN NoImage ELSE with

\* n workers are forked.  All connect, and the lanes take them from the end of the list;
\* or some do, and are left in it.
spawn_workers ==
  /\ job.phase = "held"
  /\ \E n \in Lanes : \E k \in 0..n :
       LET workers == image.workers \o [i \in 1..k |-> Worker]
       IN  /\ image.state = "up" \/ k = 0
           /\ IF k = n
                THEN /\ lanes' = Reverse(SubSeq(workers, Len(workers) - n + 1, Len(workers)))
                     /\ image' = [image EXCEPT !.workers = SubSeq(workers, 1, Len(workers) - n)]
                     /\ job' = [job EXCEPT !.phase = "serving"]
                ELSE /\ image' = Abandoned([image EXCEPT !.workers = workers])
                     /\ job' = [job EXCEPT !.phase = "idle"]
                     /\ UNCHANGED lanes
  /\ UNCHANGED <<code, stamped>>

put_back ==
  /\ job.phase = "serving"
  /\ image' = Abandoned(image) /\ lanes' = <<>>
  /\ job' = [job EXCEPT !.phase = "idle"]
  /\ UNCHANGED <<code, stamped>>

ParentDies ==
  /\ image.state = "up"
  /\ image' = [image EXCEPT !.state = "dead"]
  /\ UNCHANGED <<code, stamped, job, lanes>>

EditTree ==
  /\ code < MaxTreeEdits
  /\ code' = code + 1
  /\ UNCHANGED <<image, stamped, job, lanes>>

PoolInit ==
  /\ code = 0 /\ image = NoImage /\ stamped = -1 /\ lanes = <<>>
  /\ job = [phase |-> "idle", number |-> 0, patch |-> CHOOSE p \in Patches : TRUE, taken |-> 0]

PoolNext ==
  \/ take_for_run \/ launch_persistent \/ KeepStamp \/ launch_own \/ spawn_workers \/ put_back
  \/ ParentDies \/ EditTree

PoolSpec == PoolInit /\ [][PoolNext]_poolVars
-----------------------------------------------------------------------------
\* Every lane of a run is served by a worker forked for this run, from a tree no older
\* than the one the run was asked for, under the run's own selection over the
\* project's, whether its image was warm or the run's own: nothing of an earlier run,
\* of an image since replaced or of a spawn that failed half way is left in it.  An
\* expression that is given and empty is the exception: only a warm image clears it.
ServedAfresh ==
  job.phase = "serving" =>
    \A k \in DOMAIN lanes :
      /\ lanes[k].number = job.number /\ lanes[k].code >= job.taken
      /\ ~Clears(job.patch.keyword) /\ ~Clears(job.patch.marker) =>
           lanes[k].selection = Selection_load(ProjectFilters, env_vars(job.patch))
=============================================================================
