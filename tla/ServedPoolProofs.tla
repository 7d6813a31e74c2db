-------------------------- MODULE ServedPoolProofs --------------------------
(***************************************************************************)
(* For any selections, any number of lanes, of runs and of edits: a run is *)
(* served by workers of its own, from a tree no older than it asked for,   *)
(* under its own selection.                                                *)
(***************************************************************************)
EXTENDS ServedPool, TLAPS

\* The selection an image of the daemon has, and the one a run asks for.
Plain_ == Selection_load(ProjectFilters, NoEnv)
Own(patch) == Selection_load(ProjectFilters, env_vars(patch))

\* A warm image's worker has the selection the run's own image would have had.
LEMMA OverrideIsLoad ==
  ASSUME NEW patch, ~Clears(patch.keyword), ~Clears(patch.marker)
  PROVE  IF is_empty(patch) THEN Plain_ = Own(patch) ELSE override(Plain_, patch) = Own(patch)
<1> DEFINE K(e) == compile_tree(IF e # <<>> THEN e ELSE ProjectFilters.keyword)
           M(e) == compile_tree(IF e # <<>> THEN e ELSE ProjectFilters.marker)
<1>1. /\ Plain_ = [keyword |-> K(<<>>), marker |-> M(<<>>), strict |-> ProjectFilters.strict \/ FALSE,
                   declared |-> ProjectFilters.declared]
      /\ Own(patch) = [keyword |-> K(env_vars(patch).keyword), marker |-> M(env_vars(patch).marker),
                       strict |-> ProjectFilters.strict \/ patch.strict, declared |-> ProjectFilters.declared]
  BY DEF Plain_, Own, Selection_load, NoEnv, env_vars
<1>2. /\ patch.keyword.given => patch.keyword.expr # <<>> /\ env_vars(patch).keyword = patch.keyword.expr
      /\ ~patch.keyword.given => env_vars(patch).keyword = <<>>
      /\ patch.marker.given => patch.marker.expr # <<>> /\ env_vars(patch).marker = patch.marker.expr
      /\ ~patch.marker.given => env_vars(patch).marker = <<>>
  BY DEF env_vars, Clears
<1>3. CASE is_empty(patch)
  <2>1. env_vars(patch).keyword = <<>> /\ env_vars(patch).marker = <<>> /\ ~patch.strict
    BY <1>2, <1>3 DEF is_empty
  <2> QED BY <1>1, <1>3, <2>1
<1>4. CASE ~is_empty(patch)
  <2>1. override(Plain_, patch) =
          [keyword |-> IF patch.keyword.given THEN compile_tree(patch.keyword.expr) ELSE K(<<>>),
           marker |-> IF patch.marker.given THEN compile_tree(patch.marker.expr) ELSE M(<<>>),
           strict |-> ProjectFilters.strict \/ patch.strict, declared |-> ProjectFilters.declared]
    <3>1. PICK k, m, s, k0, m0, s0, d0 :
            /\ k = IF patch.keyword.given THEN compile_tree(patch.keyword.expr) ELSE Plain_.keyword
            /\ m = IF patch.marker.given THEN compile_tree(patch.marker.expr) ELSE Plain_.marker
            /\ s = (Plain_.strict \/ patch.strict)
            /\ k0 = K(<<>>) /\ m0 = M(<<>>) /\ s0 = (ProjectFilters.strict \/ FALSE)
            /\ d0 = ProjectFilters.declared
      OBVIOUS
    <3>2. PICK Q : Q = [Plain_ EXCEPT !.keyword = k, !.marker = m, !.strict = s]
      OBVIOUS
    <3>3. override(Plain_, patch) = Q
      BY <3>1, <3>2 DEF override
    <3>4. Plain_ = [keyword |-> k0, marker |-> m0, strict |-> s0, declared |-> d0]
      BY <1>1, <3>1
    <3>5. Q = [keyword |-> k, marker |-> m, strict |-> s, declared |-> d0]
      BY <3>2, <3>4
    <3>6. Plain_.keyword = K(<<>>) /\ Plain_.marker = M(<<>>)
      BY <3>1, <3>4
    <3>7. s = (ProjectFilters.strict \/ patch.strict)
      BY <3>1, <3>4
    <3> QED BY <3>1, <3>3, <3>5, <3>6, <3>7
  <2>2. /\ (IF patch.keyword.given THEN compile_tree(patch.keyword.expr) ELSE K(<<>>)) = K(env_vars(patch).keyword)
        /\ (IF patch.marker.given THEN compile_tree(patch.marker.expr) ELSE M(<<>>)) = M(env_vars(patch).marker)
    BY <1>2
  <2> QED BY <1>1, <1>4, <2>1, <2>2
<1> QED BY <1>3, <1>4
-----------------------------------------------------------------------------
(* What holds between the steps of a run.                                  *)

Selections == {Plain_} \cup {Own(p) : p \in Patches} \cup {override(Plain_, p) : p \in Patches}
Workers == [number : Nat, code : Nat, selection : Selections]

JobShape ==
  /\ job = [phase |-> job.phase, number |-> job.number, patch |-> job.patch, taken |-> job.taken]
  /\ job.number \in Nat /\ job.taken \in Nat
  /\ job.phase # "idle" => job.patch \in Patches
Imaged(i) ==
  i = [state |-> i.state, code |-> i.code, selection |-> i.selection, workers |-> i.workers, own |-> i.own]
ImageShape == Imaged(image) /\ image.code \in Nat /\ image.workers \in Seq(Workers)

\* An image of a run's own goes with the run; the daemon's has the project's
\* selection, and a tree no older than the stamp it is kept under.
ImageIsWhose ==
  /\ image.own => job.phase \in {"held", "serving"} /\ image.selection = Own(job.patch)
  /\ ~image.own => image.selection = Plain_
  /\ ~image.own /\ image.state # "none" => stamped <= image.code
\* What a run holds is no older than the tree it asked for.
ImageIsRecent ==
  /\ job.taken <= code /\ stamped <= code
  /\ job.phase \in {"launched", "held"} => image.state # "none" /\ job.taken <= image.code

PInv ==
  /\ code \in Nat /\ stamped \in Int
  /\ JobShape /\ ImageShape /\ ImageIsWhose /\ ImageIsRecent
  /\ ServedAfresh

LEMMA NoImageFacts ==
  /\ Imaged(NoImage) /\ NoImage.code = 0 /\ NoImage.workers = <<>>
  /\ NoImage.own = FALSE /\ NoImage.state = "none" /\ NoImage.selection = Plain_
BY DEF NoImage, Imaged, Plain_

LEMMA AbandonedFacts ==
  ASSUME NEW w
  PROVE  /\ w.own => Abandoned(w) = NoImage
         /\ ~w.own => Abandoned(w) = w
BY DEF Abandoned

LEMMA TakeStep ==
  ASSUME PInv, take_for_run
  PROVE  PInv'
<1>1. PICK full \in BOOLEAN, patch \in Patches :
        LET reused == image.state = "up" /\ stamped = code
            phase == CASE reused -> "held" [] ~reused /\ full -> "launching" [] OTHER -> "oneshot"
        IN  /\ job' = [phase |-> phase, number |-> job.number + 1, patch |-> patch, taken |-> code]
            /\ image' = IF reused THEN image ELSE NoImage
  BY DEF take_for_run
<1>2. job.phase = "idle" /\ UNCHANGED <<code, stamped, lanes>> /\ ~image.own
  BY DEF take_for_run, PInv, ImageIsWhose
<1>3. CASE image.state = "up" /\ stamped = code
  <2>1. job' = [phase |-> "held", number |-> job.number + 1, patch |-> patch, taken |-> code] /\ image' = image
    BY <1>1, <1>3
  <2> QED BY <1>2, <1>3, <2>1
       DEF PInv, JobShape, ImageShape, ImageIsWhose, ImageIsRecent, ServedAfresh
<1>4. CASE ~(image.state = "up" /\ stamped = code)
  <2>1. PICK phase \in {"launching", "oneshot"} :
          job' = [phase |-> phase, number |-> job.number + 1, patch |-> patch, taken |-> code] /\ image' = NoImage
    BY <1>1, <1>4
  <2>2. ImageShape'
    BY <2>1, NoImageFacts DEF ImageShape
  <2> QED BY <1>2, <2>1, <2>2, NoImageFacts
       DEF PInv, JobShape, ImageIsWhose, ImageIsRecent, ServedAfresh
<1> QED BY <1>3, <1>4

\* A launch, persistent or the run's own, gives an image of the tree as it is.
LEMMA LaunchStep ==
  ASSUME PInv, launch_persistent \/ launch_own
  PROVE  PInv'
<1>1. UNCHANGED <<code, stamped, lanes>> /\ job.phase \in {"launching", "oneshot"} /\ ~image.own
  BY DEF launch_persistent, launch_own, PInv, ImageIsWhose
<1>2. \/ job' = [job EXCEPT !.phase = "idle"] /\ image' = NoImage
      \/ /\ job' = [job EXCEPT !.phase = "launched"]
         /\ image' = [NoImage EXCEPT !.state = "up", !.code = code, !.selection = Plain_]
      \/ /\ job' = [job EXCEPT !.phase = "held"]
         /\ image' = [NoImage EXCEPT !.state = "up", !.code = code, !.own = TRUE, !.selection = Own(job.patch)]
  BY DEF launch_persistent, launch_own, Plain_, Own
<1>3. CASE job' = [job EXCEPT !.phase = "idle"] /\ image' = NoImage
  <2>1. ImageShape'
    BY <1>3, NoImageFacts DEF ImageShape
  <2> QED BY <1>1, <1>3, <2>1, NoImageFacts
       DEF PInv, JobShape, ImageIsWhose, ImageIsRecent, ServedAfresh
<1>4. CASE /\ job' = [job EXCEPT !.phase = "launched"]
           /\ image' = [NoImage EXCEPT !.state = "up", !.code = code, !.selection = Plain_]
  <2>1. image' = [state |-> "up", code |-> code, selection |-> Plain_, workers |-> <<>>, own |-> FALSE]
    BY <1>4 DEF NoImage
  <2>2. ImageShape'
    BY <2>1 DEF ImageShape, Imaged, PInv
  <2>3. JobShape' /\ job'.phase = "launched" /\ job'.taken = job.taken
    BY <1>1, <1>4 DEF JobShape, PInv
  <2> QED BY <1>1, <2>1, <2>2, <2>3
       DEF PInv, ImageIsWhose, ImageIsRecent, ServedAfresh
<1>5. CASE /\ job' = [job EXCEPT !.phase = "held"]
           /\ image' = [NoImage EXCEPT !.state = "up", !.code = code, !.own = TRUE, !.selection = Own(job.patch)]
  <2>1. image' = [state |-> "up", code |-> code, selection |-> Own(job.patch), workers |-> <<>>, own |-> TRUE]
    BY <1>5 DEF NoImage
  <2>2. ImageShape'
    BY <2>1 DEF ImageShape, Imaged, PInv
  <2> QED BY <1>1, <1>5, <2>1, <2>2
       DEF PInv, JobShape, ImageIsWhose, ImageIsRecent, ServedAfresh
<1> QED BY <1>2, <1>3, <1>4, <1>5

\* What a worker is forked as.
LEMMA WorkerFacts ==
  ASSUME PInv, job.phase = "held"
  PROVE  /\ Worker \in Workers /\ Worker.number = job.number /\ Worker.code >= job.taken
         /\ ~Clears(job.patch.keyword) /\ ~Clears(job.patch.marker) => Worker.selection = Own(job.patch)
<1>1. job.patch \in Patches /\ job.number \in Nat /\ image.code \in Nat /\ job.taken <= image.code
  BY DEF PInv, JobShape, ImageShape, ImageIsRecent
<1>2. \/ image.own /\ Worker.selection = Own(job.patch)
      \/ ~image.own /\ is_empty(job.patch) /\ Worker.selection = Plain_
      \/ ~image.own /\ ~is_empty(job.patch) /\ Worker.selection = override(Plain_, job.patch)
  BY DEF PInv, ImageIsWhose, Worker
<1>3. Worker.selection \in Selections
  BY <1>1, <1>2 DEF Selections
<1>4. Worker = [number |-> job.number, code |-> image.code, selection |-> Worker.selection]
  BY DEF Worker
<1>5. Worker \in Workers /\ Worker.number = job.number /\ Worker.code = image.code
  BY <1>1, <1>3, <1>4 DEF Workers
<1> QED BY <1>1, <1>2, <1>5, OverrideIsLoad DEF PInv, JobShape

\* The lanes take the workers just forked, whatever an earlier run left in the list.
LEMMA SpawnStep ==
  ASSUME PInv, spawn_workers
  PROVE  PInv'
<1>1. PICK n \in Lanes : \E k \in 0..n :
        LET workers == image.workers \o [i \in 1..k |-> Worker]
        IN  IF k = n
              THEN /\ lanes' = Reverse(SubSeq(workers, Len(workers) - n + 1, Len(workers)))
                   /\ image' = [image EXCEPT !.workers = SubSeq(workers, 1, Len(workers) - n)]
                   /\ job' = [job EXCEPT !.phase = "serving"]
              ELSE /\ image' = Abandoned([image EXCEPT !.workers = workers])
                   /\ job' = [job EXCEPT !.phase = "idle"]
                   /\ UNCHANGED lanes
  BY DEF spawn_workers
<1>2. PICK k \in 0..n :
        LET workers == image.workers \o [i \in 1..k |-> Worker]
        IN  IF k = n
              THEN /\ lanes' = Reverse(SubSeq(workers, Len(workers) - n + 1, Len(workers)))
                   /\ image' = [image EXCEPT !.workers = SubSeq(workers, 1, Len(workers) - n)]
                   /\ job' = [job EXCEPT !.phase = "serving"]
              ELSE /\ image' = Abandoned([image EXCEPT !.workers = workers])
                   /\ job' = [job EXCEPT !.phase = "idle"]
                   /\ UNCHANGED lanes
  BY <1>1
<1> DEFINE new == [i \in 1..k |-> Worker]
           workers == image.workers \o new
           m == Len(image.workers)
<1>3. n \in Nat /\ k \in Nat /\ m \in Nat
  BY LanesAreNumbers DEF PInv, ImageShape
<1>4. job.phase = "held" /\ UNCHANGED <<code, stamped>>
  BY DEF spawn_workers
<1>5. new \in Seq(Workers) /\ Len(new) = k /\ \A i \in 1..k : new[i] = Worker
  BY <1>3, <1>4, WorkerFacts
<1>6. /\ workers \in Seq(Workers) /\ Len(workers) = m + k
      /\ \A i \in 1 .. m + k : i > m => workers[i] = Worker
  <2> HIDE DEF new
  <2> QED BY <1>3, <1>5 DEF PInv, ImageShape
<1> HIDE DEF new, workers
<1>7. CASE k = n
  <2>1. /\ lanes' = Reverse(SubSeq(workers, Len(workers) - n + 1, Len(workers)))
        /\ image' = [image EXCEPT !.workers = SubSeq(workers, 1, Len(workers) - n)]
        /\ job' = [job EXCEPT !.phase = "serving"]
    BY <1>2, <1>7 DEF workers, new
  <2> DEFINE last == SubSeq(workers, m + 1, m + k)
  <2>2. last \in Seq(Workers) /\ Len(last) = k /\ \A i \in 1..k : last[i] = Worker
    BY <1>3, <1>6
  <2>3. lanes' = Reverse(last)
    BY <1>3, <1>6, <1>7, <2>1
  <2> HIDE DEF last
  <2>4. \A i \in DOMAIN lanes' : lanes'[i] = Worker
    BY <1>3, <2>2, <2>3 DEF Reverse
  <2>5. SubSeq(workers, 1, Len(workers) - n) \in Seq(Workers)
    BY <1>3, <1>6, <1>7
  <2>6. /\ ImageShape' /\ image'.own = image.own /\ image'.selection = image.selection
        /\ image'.state = image.state /\ image'.code = image.code
    BY <2>1, <2>5 DEF PInv, ImageShape, Imaged
  <2>7. /\ JobShape' /\ job'.phase = "serving" /\ job'.number = job.number
        /\ job'.taken = job.taken /\ job'.patch = job.patch
    BY <1>4, <2>1 DEF PInv, JobShape
  <2>8. ServedAfresh'
    BY <1>4, <2>4, <2>7, WorkerFacts DEF ServedAfresh, Own
  <2> QED BY <1>4, <2>6, <2>7, <2>8 DEF PInv, ImageIsWhose, ImageIsRecent
<1>8. CASE k # n
  <2>1. /\ image' = Abandoned([image EXCEPT !.workers = workers])
        /\ job' = [job EXCEPT !.phase = "idle"]
    BY <1>2, <1>8 DEF workers, new
  <2>2. PICK with : with = [image EXCEPT !.workers = workers]
    OBVIOUS
  <2>3. /\ Imaged(with) /\ with.own = image.own /\ with.selection = image.selection
        /\ with.state = image.state /\ with.code = image.code /\ with.workers = workers
    BY <2>2 DEF PInv, ImageShape, Imaged
  <2>4. JobShape' /\ job'.phase = "idle" /\ job'.taken = job.taken
    BY <2>1 DEF PInv, JobShape
  <2>5. CASE image.own
    <3>1. image' = NoImage
      BY <2>1, <2>2, <2>3, <2>5, AbandonedFacts
    <3>2. ImageShape'
      BY <3>1, NoImageFacts DEF ImageShape
    <3> QED BY <1>4, <2>4, <3>1, <3>2, NoImageFacts DEF PInv, ImageIsWhose, ImageIsRecent, ServedAfresh
  <2>6. CASE ~image.own
    <3>1. image' = with
      BY <2>1, <2>2, <2>3, <2>6, AbandonedFacts
    <3>2. ImageShape'
      BY <1>6, <2>3, <3>1 DEF PInv, ImageShape
    <3> QED BY <1>4, <2>3, <2>4, <2>6, <3>1, <3>2 DEF PInv, ImageIsWhose, ImageIsRecent, ServedAfresh
  <2> QED BY <2>5, <2>6
<1> QED BY <1>7, <1>8

LEMMA PutBackStep ==
  ASSUME PInv, put_back
  PROVE  PInv'
<1>1. /\ image' = Abandoned(image) /\ job' = [job EXCEPT !.phase = "idle"]
      /\ job.phase = "serving" /\ UNCHANGED <<code, stamped>>
  BY DEF put_back
<1>2. JobShape' /\ job'.phase = "idle" /\ job'.taken = job.taken
  BY <1>1 DEF PInv, JobShape
<1>3. CASE image.own
  <2>1. image' = NoImage
    BY <1>1, <1>3, AbandonedFacts
  <2>2. ImageShape'
    BY <2>1, NoImageFacts DEF ImageShape
  <2> QED BY <1>1, <1>2, <2>1, <2>2, NoImageFacts DEF PInv, ImageIsWhose, ImageIsRecent, ServedAfresh
<1>4. CASE ~image.own
  <2>1. image' = image
    BY <1>1, <1>4, AbandonedFacts
  <2> QED BY <1>1, <1>2, <1>4, <2>1 DEF PInv, ImageShape, ImageIsWhose, ImageIsRecent, ServedAfresh
<1> QED BY <1>3, <1>4

LEMMA KeepStampStep ==
  ASSUME PInv, KeepStamp
  PROVE  PInv'
<1>1. /\ stamped' = job.taken /\ job' = [job EXCEPT !.phase = "held"] /\ job.phase = "launched"
      /\ UNCHANGED <<code, image, lanes>>
  BY DEF KeepStamp, StampKept
<1> QED BY <1>1 DEF PInv, JobShape, ImageShape, ImageIsWhose, ImageIsRecent, ServedAfresh

LEMMA OutsideStep ==
  ASSUME PInv, ParentDies \/ EditTree
  PROVE  PInv'
<1>1. CASE ParentDies
  <2>1. image' = [image EXCEPT !.state = "dead"] /\ image.state = "up" /\ UNCHANGED <<code, stamped, job, lanes>>
    BY <1>1 DEF ParentDies
  <2> QED BY <2>1 DEF PInv, JobShape, ImageShape, Imaged, ImageIsWhose, ImageIsRecent, ServedAfresh
<1>2. CASE EditTree
  <2>1. code' = code + 1 /\ UNCHANGED <<image, stamped, job, lanes>>
    BY <1>2 DEF EditTree
  <2> QED BY <2>1 DEF PInv, JobShape, ImageShape, ImageIsWhose, ImageIsRecent, ServedAfresh
<1> QED BY <1>1, <1>2
-----------------------------------------------------------------------------
\* The inductive invariant of the runs and of the image the daemon keeps.
THEOREM PoolInvariance == PoolSpec => []PInv
<1>1. PoolInit => PInv
  <2> SUFFICES ASSUME PoolInit PROVE PInv
    OBVIOUS
  <2>1. ImageShape
    BY NoImageFacts DEF PoolInit, ImageShape
  <2> QED BY <2>1, NoImageFacts DEF PoolInit, PInv, JobShape, ImageIsWhose, ImageIsRecent, ServedAfresh
<1>2. PInv /\ [PoolNext]_poolVars => PInv'
  <2> SUFFICES ASSUME PInv, [PoolNext]_poolVars PROVE PInv'
    OBVIOUS
  <2>1. CASE UNCHANGED poolVars
    BY <2>1 DEF poolVars, PInv, JobShape, ImageShape, ImageIsWhose, ImageIsRecent, ServedAfresh
  <2> QED BY <2>1, TakeStep, LaunchStep, KeepStampStep, SpawnStep, PutBackStep, OutsideStep DEF PoolNext
<1> QED BY <1>1, <1>2, PTL DEF PoolSpec

\* Every lane is served by a worker of its own run, from a tree no older than it asked
\* for, under its own selection, whatever failed before (pool.rs:239-307).
THEOREM RunsAreServedAfresh == PoolSpec => []ServedAfresh
BY PoolInvariance, PTL DEF PInv
=============================================================================
