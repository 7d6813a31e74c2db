-------------------------- MODULE FootprintProofs --------------------------
(***************************************************************************)
(* For any files, import paths and number of processes: what the caches of *)
(* a process and of earlier runs hold of a file's imports is what its      *)
(* statements resolve to, for as long as no file came or went, none was    *)
(* edited under a process and no import path changed under what a process  *)
(* had resolved, so a report leaves nothing out and adds nothing of the    *)
(* suite.  A process whose import path did change spoils its own reports,  *)
(* and others' once it saves.                                              *)
(***************************************************************************)
EXTENDS Footprint, WellFoundedInduction, TLAPS

LEMMA LeastNat ==
  ASSUME NEW T \in SUBSET Nat, T # {}
  PROVE  \E x \in T : \A y \in T : x <= y
<1> DEFINE R == OpToRel(<, Nat)
<1>1. \E x \in T : \A y \in T : ~(<<y, x>> \in R)
  <2>1. IsWellFoundedOn(R, Nat)
    BY NatLessThanWellFounded
  <2> HIDE DEF R
  <2> QED BY <2>1, WFMin, Zenon
<1>2. \A x, y \in Nat : y < x => <<y, x>> \in R
  BY DEF OpToRel
<1> HIDE DEF R
<1>3. PICK x \in T : \A y \in T : ~(<<y, x>> \in R)
  BY <1>1
<1>4. ASSUME NEW y \in T PROVE x <= y
  <2>1. x \in Nat /\ y \in Nat
    OBVIOUS
  <2>2. ~(y < x)
    BY <1>2, <1>3, <2>1
  <2> QED BY <2>1, <2>2
<1> QED BY <1>4

\* A bounded set of numbers that is not empty has its Max in it.
LEMMA Greatest ==
  ASSUME NEW n \in Nat, NEW T \in SUBSET (0 .. n), T # {}
  PROVE  Max(T) \in T
<1> DEFINE D == {n - x : x \in T}
<1>1. D \in SUBSET Nat /\ D # {}
  <2>1. \A x \in T : x \in Nat /\ n - x \in Nat
    OBVIOUS
  <2> QED BY <2>1
<1>2. PICK d \in D : \A y \in D : d <= y
  <2> HIDE DEF D
  <2> QED BY <1>1, LeastNat
<1>3. PICK x \in T : d = n - x
  BY <1>2
<1>4. ASSUME NEW y \in T PROVE x >= y
  <2>1. x \in Nat /\ y \in Nat /\ n - y \in D
    OBVIOUS
  <2>2. n - x <= n - y
    <3> HIDE DEF D
    <3> QED BY <1>2, <1>3, <2>1
  <2> QED BY <2>1, <2>2
<1>5. \A y \in T : x >= y
  BY <1>4
<1> QED BY <1>3, <1>5 DEF Max
-----------------------------------------------------------------------------
(* What every entry, in memory or on disk, says of its file.               *)

\* The files, the last edit, and whether the files stood still, as one value.
Here == [disk |-> disk, edits |-> edits, settled |-> settled]

\* An entry of a file is not newer than the last edit, and says what the file's
\* statements resolve to while the file is the one it was made of.
Good(w, f, e) ==
  /\ e.stamp \in 0 .. w.edits
  /\ w.settled /\ f \in DOMAIN w.disk /\ w.disk[f].stamp = e.stamp => e.deps = resolved(w.disk, f, e.key)
AllGood(w, entries) == \A f \in DOMAIN entries : Good(w, f, entries[f])
Closure(w, P, m) == Reached([f \in Files |-> resolved(w.disk, f, P.path)], m) \cup conftests(w.disk, m)
\* What a process resolved is believed while its files stand still and its path did.
View(w, P) == [w EXCEPT !.settled = w.settled /\ ~P.moved]
Memo(w, P) ==
  w.settled => /\ \A k \in DOMAIN P.resolved : P.resolved[k] = resolve_module_file(DOMAIN w.disk, k, P.path)
               /\ \A f \in DOMAIN P.deps : P.deps[f] = resolved(w.disk, f, P.path)
               /\ \A m \in DOMAIN P.closures : P.closures[m] = Closure(w, P, m)
Fielded(P) ==
  P = [state |-> P.state, path |-> P.path, moved |-> P.moved, cache |-> P.cache, resolved |-> P.resolved,
       deps |-> P.deps, new |-> P.new, closures |-> P.closures, listed |-> P.listed, disabled |-> P.disabled]
Shape(P) ==
  /\ Fielded(P) /\ P.moved \in BOOLEAN /\ (P.state = "down" => P = Down_)
  /\ DOMAIN P.closures = {} => DOMAIN P.deps = {} /\ DOMAIN P.resolved = {}
Known(w, P) == Shape(P) /\ AllGood(w, P.cache) /\ AllGood(View(w, P), P.new) /\ Memo(View(w, P), P)

FInv ==
  /\ edits \in Nat /\ settled \in BOOLEAN
  /\ \A f \in DOMAIN disk : disk[f].stamp \in 0 .. edits
  /\ DOMAIN persisted \subseteq 0 .. Processes
  /\ \A n \in DOMAIN persisted : AllGood(Here, persisted[n])
  /\ procs = [p \in Pids |-> procs[p]]
  /\ \A p \in Pids : Known(Here, procs[p])
  /\ FootprintExact

LEMMA UpdatedFacts ==
  ASSUME NEW f, NEW g
  PROVE  /\ DOMAIN Updated(f, g) = DOMAIN f \cup DOMAIN g
         /\ \A x \in DOMAIN f \cup DOMAIN g :
              Updated(f, g)[x] = IF x \in DOMAIN g THEN g[x] ELSE f[x]
BY DEF Updated

LEMMA UpdatedGood ==
  ASSUME NEW w, NEW f, NEW g, AllGood(w, f), AllGood(w, g)
  PROVE  AllGood(w, Updated(f, g))
<1>1. /\ DOMAIN Updated(f, g) = DOMAIN f \cup DOMAIN g
      /\ \A x \in DOMAIN f \cup DOMAIN g : Updated(f, g)[x] = IF x \in DOMAIN g THEN g[x] ELSE f[x]
  BY UpdatedFacts
<1> QED BY <1>1 DEF AllGood

\* What a process would say of a file's imports is what they resolve to.
LEMMA FileDepsExact ==
  ASSUME NEW P, Known(Here, P), settled, ~P.moved, NEW f
  PROVE  file_deps(P, f) = resolved(disk, f, P.path)
<1>1. Memo(Here, P)
  BY DEF Known, View, Here, Memo, Closure
<1>2. \A k : resolution(P, k) = resolve_module_file(DOMAIN disk, k, P.path)
  BY <1>1 DEF Memo, Here, resolution
<1>3. parsed_deps(P, f) = resolved(disk, f, P.path)
  BY <1>2 DEF parsed_deps, resolved
<1> QED BY <1>1, <1>3 DEF Here, Known, Memo, AllGood, Good, file_deps, file_deps_from_cache, still_right

LEMMA WalkedExact ==
  ASSUME NEW P, Known(Here, P), settled, ~P.moved, NEW m
  PROVE  /\ Walked(P, m) \cup conftests(disk, m) = Closure(Here, P, m)
         /\ import_closure(P, m) = Closure(Here, P, m)
<1>1. [f \in Files |-> file_deps(P, f)] = [f \in Files |-> resolved(disk, f, P.path)]
  BY FileDepsExact
<1>2. Walked(P, m) \cup conftests(disk, m) = Closure(Here, P, m)
  BY <1>1 DEF Walked, Closure, Here
<1>3. Memo(Here, P)
  BY DEF Known, View, Here, Memo, Closure
<1> QED BY <1>2, <1>3 DEF import_closure, Memo, Here

LEMMA MergedGood ==
  ASSUME FInv
  PROVE  AllGood(Here, Merged)
<1> DEFINE Of(f) == {n \in DOMAIN persisted : f \in DOMAIN persisted[n]}
<1> SUFFICES ASSUME NEW f \in UNION {DOMAIN persisted[n] : n \in DOMAIN persisted}
             PROVE  Good(Here, f, persisted[Max(Of(f))][f])
  BY DEF AllGood, Merged
<1>1. Of(f) \in SUBSET (0 .. Processes) /\ Of(f) # {}
  BY DEF FInv
<1>2. Max(Of(f)) \in Of(f)
  <2> HIDE DEF Of
  <2> QED BY <1>1, Greatest, ProcessesAreFew
<1> QED BY <1>2 DEF FInv, AllGood
-----------------------------------------------------------------------------
(* The steps.                                                              *)

\* What is known stays known of files that stand still, whatever else is found out.
LEMMA KnownStill ==
  ASSUME FInv, UNCHANGED <<disk, edits>>, settled' => settled, settled' \in BOOLEAN, NEW P
  PROVE  /\ Known(Here, P) => Known(Here', P)
         /\ AllGood(Here, P) => AllGood(Here', P)
<1>1. /\ Here'.disk = Here.disk /\ Here'.edits = Here.edits /\ Here'.settled => Here.settled
  BY DEF Here
<1>2. ASSUME NEW v, NEW w, NEW s, w.disk = v.disk, w.edits = v.edits, w.settled => v.settled
      PROVE  AllGood(v, s) => AllGood(w, s)
  BY <1>2 DEF AllGood, Good
<1>3. LET v == View(Here, P)
          w == View(Here', P)
      IN  w.disk = v.disk /\ w.edits = v.edits /\ (w.settled => v.settled)
  BY DEF View, Here
<1>4. Memo(View(Here, P), P) => Memo(View(Here', P), P)
  <2>1. \A m : Closure(View(Here, P), P, m) = Closure(View(Here', P), P, m)
    BY <1>3 DEF Closure
  <2> QED BY <1>3, <2>1 DEF Memo
<1>5. AllGood(View(Here, P), P.new) => AllGood(View(Here', P), P.new)
  BY <1>2, <1>3
<1>6. ASSUME NEW s, AllGood(Here, s) PROVE AllGood(Here', s)
  <2>1. ASSUME NEW f \in DOMAIN s PROVE Good(Here', f, s[f])
    <3>1. Good(Here, f, s[f])
      BY <1>6 DEF AllGood
    <3> QED BY <3>1 DEF Good, Here
  <2> QED BY <2>1 DEF AllGood
<1>7. Known(Here, P) => Known(Here', P)
  <2> SUFFICES ASSUME Known(Here, P) PROVE Known(Here', P)
    OBVIOUS
  <2>1. AllGood(Here', P.cache) /\ AllGood(View(Here', P), P.new) /\ Memo(View(Here', P), P) /\ Shape(P)
    BY <1>4, <1>5, <1>6 DEF Known
  <2> QED BY <2>1 DEF Known
<1> QED BY <1>6, <1>7

\* A process whose files stand still, and what it left on disk.
LEMMA Standing ==
  ASSUME FInv, UNCHANGED <<disk, edits>>, report' = NoReport, settled' => settled, settled' \in BOOLEAN,
         DOMAIN persisted' \subseteq 0 .. Processes,
         \A n \in DOMAIN persisted' : AllGood(Here', persisted'[n]),
         NEW p \in Pids, NEW P, procs' = [procs EXCEPT ![p] = P], Known(Here, P)
  PROVE  FInv'
<1>1. procs' = [q \in Pids |-> procs'[q]] /\ \A q \in Pids : Known(Here, procs'[q])
  BY DEF FInv
<1>2. \A q \in Pids : Known(Here', procs'[q])
  BY <1>1, KnownStill
<1>3. FootprintExact'
  BY DEF FootprintExact, NoReport
<1> QED BY <1>1, <1>2, <1>3 DEF FInv

\* Such a process that leaves the disk as it is.
LEMMA StandingBy ==
  ASSUME FInv, UNCHANGED <<disk, edits, persisted, settled>>, report' = NoReport,
         NEW p \in Pids, NEW P, procs' = [procs EXCEPT ![p] = P], Known(Here, P)
  PROVE  FInv'
<1>1. Here' = Here
  BY DEF Here
<1> QED BY <1>1, Standing DEF FInv

LEMMA DownKnown ==
  ASSUME NEW w
  PROVE  Known(w, Down_)
BY DEF Known, Shape, Fielded, AllGood, Memo, Down_, View

\* The same entries and memos in another state, or with another list of files.
LEMMA StateKnown ==
  ASSUME NEW w, NEW P, Known(w, P), NEW s, s # "down", NEW l
  PROVE  /\ Known(w, [P EXCEPT !.state = s])
         /\ Known(w, [P EXCEPT !.state = s, !.listed = l])
<1>1. Shape(P)
  BY DEF Known
<1>2. ASSUME NEW Q, Q = [P EXCEPT !.state = s] \/ Q = [P EXCEPT !.state = s, !.listed = l]
      PROVE  /\ Shape(Q) /\ Q.cache = P.cache /\ Q.new = P.new /\ Q.deps = P.deps
             /\ Q.path = P.path /\ Q.closures = P.closures /\ Q.moved = P.moved /\ Q.resolved = P.resolved
  BY <1>1, <1>2 DEF Shape, Fielded
<1>3. ASSUME NEW Q, Q.path = P.path, NEW v PROVE \A m : Closure(v, Q, m) = Closure(v, P, m)
  BY <1>3 DEF Closure
<1>4. ASSUME NEW Q, Q.moved = P.moved PROVE View(w, Q) = View(w, P)
  BY <1>4 DEF View
<1> QED BY <1>2, <1>3, <1>4 DEF Known, Memo

LEMMA LoadStep ==
  ASSUME FInv, NEW p \in Pids, load_file_deps_cache(p)
  PROVE  FInv'
<1>1. PICK importPath \in ImportPaths :
        procs' = [procs EXCEPT ![p] =
          [Down_ EXCEPT !.state = IF DOMAIN persisted \ {0} = {} THEN "up" ELSE "folding",
                        !.path = importPath, !.cache = Merged, !.listed = DOMAIN persisted \ {0}]]
  BY DEF load_file_deps_cache
<1> DEFINE s == IF DOMAIN persisted \ {0} = {} THEN "up" ELSE "folding"
           l == DOMAIN persisted \ {0}
           P == [Down_ EXCEPT !.state = s, !.path = importPath, !.cache = Merged, !.listed = l]
<1>2. s # "down"
  OBVIOUS
<1>3. Known(Here, P)
  <2> HIDE DEF s, l
  <2>1. PICK Q : Q = [Down_ EXCEPT !.state = s, !.path = importPath]
    OBVIOUS
  <2>2. Fielded(Down_) /\ Down_.new = <<>> /\ Down_.deps = <<>> /\ Down_.closures = <<>> /\ Down_.resolved = <<>>
         /\ Down_.moved = FALSE
    BY DEF Fielded, Down_
  <2>3. Fielded(Q) /\ Q.state = s /\ Q.new = <<>> /\ Q.deps = <<>> /\ Q.closures = <<>>
         /\ Q.resolved = <<>> /\ Q.moved = FALSE
    BY <2>1, <2>2 DEF Fielded
  <2>4. Fielded(P) /\ P.state = s /\ P.new = <<>> /\ P.deps = <<>> /\ P.closures = <<>> /\ P.cache = Merged
         /\ P.resolved = <<>> /\ P.moved = FALSE
    <3>1. PICK R : R = [Q EXCEPT !.cache = Merged, !.listed = l]
      OBVIOUS
    <3>2. P = R
      BY <2>1, <3>1
    <3> HIDE DEF P
    <3> QED BY <2>3, <3>1, <3>2 DEF Fielded
  <2> HIDE DEF P
  <2>5. AllGood(Here, P.cache) /\ AllGood(View(Here, P), P.new) /\ Memo(View(Here, P), P)
    BY <2>4, MergedGood DEF Memo, AllGood
  <2> QED BY <1>2, <2>4, <2>5 DEF Known, Shape
<1>4. UNCHANGED <<disk, edits, settled, persisted>> /\ report' = NoReport
  BY DEF load_file_deps_cache
<1>5. procs' = [procs EXCEPT ![p] = P]
  BY <1>1
<1> HIDE DEF P
<1> QED BY <1>3, <1>4, <1>5, StandingBy

LEMMA WriteStep ==
  ASSUME FInv, NEW p \in Pids, write_file_deps_index(p)
  PROVE  FInv'
<1>1. /\ UNCHANGED <<disk, edits, settled>> /\ report' = NoReport
      /\ procs' = [procs EXCEPT ![p] = [procs[p] EXCEPT !.state = "dropping"]]
      /\ persisted' = Updated(persisted, [n \in {0} |-> procs[p].cache]) \/ persisted' = persisted
  BY DEF write_file_deps_index, FInv
<1>2. AllGood(Here, procs[p].cache) /\ Known(Here, procs[p])
  BY DEF FInv, Known
<1>3. /\ DOMAIN persisted' \subseteq 0 .. Processes
      /\ \A n \in DOMAIN persisted' : AllGood(Here, persisted'[n])
  <2>1. CASE persisted' = persisted
    BY <2>1 DEF FInv
  <2>2. CASE persisted' = Updated(persisted, [n \in {0} |-> procs[p].cache])
    <3>1. /\ DOMAIN persisted' = DOMAIN persisted \cup {0}
          /\ \A n \in DOMAIN persisted' :
               persisted'[n] = IF n = 0 THEN procs[p].cache ELSE persisted[n]
      BY <2>2 DEF Updated
    <3> QED BY <1>2, <3>1, ProcessesAreFew DEF FInv
  <2> QED BY <1>1, <2>1, <2>2
<1>4. Known(Here, [procs[p] EXCEPT !.state = "dropping"])
  BY <1>2, StateKnown
<1>5. Here' = Here
  BY <1>1 DEF Here
<1> QED BY <1>1, <1>3, <1>4, <1>5, Standing DEF FInv

LEMMA DropStep ==
  ASSUME FInv, NEW p \in Pids, DropWorkerFiles(p)
  PROVE  FInv'
<1>1. /\ UNCHANGED <<disk, edits, settled>> /\ report' = NoReport
      /\ procs' = [procs EXCEPT ![p] = [procs[p] EXCEPT !.state = "up", !.listed = {}]]
      /\ persisted' = [n \in DOMAIN persisted \ procs[p].listed |-> persisted[n]]
  BY DEF DropWorkerFiles, FInv
<1>2. Known(Here, procs[p])
  BY DEF FInv
<1>3. Known(Here, [procs[p] EXCEPT !.state = "up", !.listed = {}])
  BY <1>2, StateKnown
<1>4. /\ DOMAIN persisted' \subseteq 0 .. Processes
      /\ \A n \in DOMAIN persisted' : AllGood(Here, persisted'[n])
  BY <1>1 DEF FInv
<1>5. Here' = Here
  BY <1>1 DEF Here
<1> QED BY <1>1, <1>3, <1>4, <1>5, Standing DEF FInv

LEMMA ForkStep ==
  ASSUME FInv, NEW p \in Pids, NEW q \in Pids, ForkWorker(p, q)
  PROVE  FInv'
<1>1. /\ UNCHANGED <<disk, edits, settled, persisted>> /\ report' = NoReport
      /\ procs' = [procs EXCEPT ![q] = procs[p]]
  BY DEF ForkWorker
<1>2. Known(Here, procs[p])
  BY DEF FInv
<1> QED BY <1>1, <1>2, StandingBy

LEMMA SaveStep ==
  ASSUME FInv, NEW p \in Pids, save_file_deps_cache(p)
  PROVE  FInv'
<1>1. /\ UNCHANGED <<disk, edits>> /\ report' = NoReport /\ procs' = [procs EXCEPT ![p] = Down_]
      /\ \/ /\ persisted' = Updated(persisted, [n \in {p} |-> procs[p].new])
            /\ settled' = (settled /\ ~procs[p].moved)
         \/ persisted' = persisted /\ settled' = settled
  BY DEF save_file_deps_cache
<1>2. Known(Here, procs[p]) /\ procs[p].moved \in BOOLEAN /\ settled \in BOOLEAN
  BY DEF FInv, Known, Shape
<1>3. (settled' => settled) /\ settled' \in BOOLEAN
  <2>1. CASE settled' = settled
    BY <1>2, <2>1
  <2>2. CASE settled' = (settled /\ ~procs[p].moved)
    <3>1. settled' => settled
      BY <2>2
    <3>2. settled' \in BOOLEAN
      BY <2>2
    <3> QED BY <3>1, <3>2
  <2> QED BY <1>1, <2>1, <2>2
<1>4. ASSUME NEW s, AllGood(Here, s) PROVE AllGood(Here', s)
  BY <1>1, <1>3, <1>4, KnownStill
<1>5. /\ DOMAIN persisted' \subseteq 0 .. Processes
      /\ \A n \in DOMAIN persisted' : AllGood(Here', persisted'[n])
  <2>1. CASE persisted' = persisted
    BY <2>1, <1>4 DEF FInv
  <2>2. CASE /\ persisted' = Updated(persisted, [n \in {p} |-> procs[p].new])
             /\ settled' = (settled /\ ~procs[p].moved)
    <3>1. /\ DOMAIN persisted' = DOMAIN persisted \cup {p}
          /\ \A n \in DOMAIN persisted' :
               persisted'[n] = IF n = p THEN procs[p].new ELSE persisted[n]
      BY <2>2 DEF Updated
    <3>2. View(Here, procs[p]) = Here'
      BY <1>1, <2>2 DEF View, Here
    <3>3. AllGood(Here', procs[p].new)
      BY <1>2, <3>2 DEF Known
    <3> QED BY <1>4, <3>1, <3>3, ProcessesAreFew DEF FInv, Pids
  <2> QED BY <1>1, <2>1, <2>2
<1> QED BY <1>1, <1>3, <1>5, DownKnown, Standing

\* A new import path leaves a process that has walked no module nothing to get wrong,
\* and another marked.
LEMMA PathStep ==
  ASSUME FInv, NEW p \in Pids, PathChanges(p)
  PROVE  FInv'
<1> DEFINE proc == procs[p]
           m == proc.moved \/ DOMAIN proc.closures # {}
<1>1. /\ UNCHANGED <<disk, edits, settled, persisted>> /\ report' = NoReport /\ Up(p)
      /\ \E importPath \in ImportPaths :
           procs' = [procs EXCEPT ![p] = [proc EXCEPT !.path = importPath, !.moved = m]]
  BY DEF PathChanges, FInv
<1>2. PICK importPath \in ImportPaths :
        procs' = [procs EXCEPT ![p] = [proc EXCEPT !.path = importPath, !.moved = m]]
  BY <1>1
<1>3. Known(Here, proc) /\ proc.state = "up"
  BY <1>1 DEF FInv, Up
<1> DEFINE P == [proc EXCEPT !.path = importPath, !.moved = m]
<1>4. /\ Fielded(P) /\ P.state = "up" /\ P.moved = m /\ P.cache = proc.cache /\ P.new = proc.new
      /\ P.deps = proc.deps /\ P.resolved = proc.resolved /\ P.closures = proc.closures
  <2> HIDE DEF proc, m
  <2>1. Fielded(proc) /\ proc.state = "up"
    BY <1>3 DEF Known, Shape
  <2>2. PICK Q : Q = [proc EXCEPT !.path = importPath, !.moved = m]
    OBVIOUS
  <2>3. P = Q
    BY <2>2
  <2> HIDE DEF P
  <2> QED BY <2>1, <2>2, <2>3 DEF Fielded
<1> HIDE DEF P
<1>5. Shape(P)
  BY <1>3, <1>4 DEF Known, Shape
<1>6. AllGood(View(Here, P), P.new)
  <2>1. /\ View(Here, P).disk = View(Here, proc).disk /\ View(Here, P).edits = View(Here, proc).edits
        /\ View(Here, P).settled => View(Here, proc).settled
    BY <1>4 DEF View, Here
  <2> HIDE DEF proc
  <2> QED BY <1>3, <1>4, <2>1 DEF Known, AllGood, Good
<1>7. Memo(View(Here, P), P)
  BY <1>3, <1>4 DEF Known, Shape, Memo, View, Here
<1> QED BY <1>1, <1>2, <1>3, <1>4, <1>5, <1>6, <1>7, StandingBy DEF Known, P

LEMMA KilledStep ==
  ASSUME FInv, NEW p \in Pids, Killed(p)
  PROVE  FInv'
<1>1. /\ UNCHANGED <<disk, edits, settled, persisted>> /\ report' = NoReport
      /\ procs' = [procs EXCEPT ![p] = Down_]
  BY DEF Killed
<1> QED BY <1>1, DownKnown, StandingBy

\* An edit between runs leaves every entry right: the stamp of what it wrote is in
\* none, and what is left resolves as it did, the files being the same.
LEMMA EditStep ==
  ASSUME FInv, Edit
  PROVE  FInv'
<1>1. PICK t \in Trees :
        /\ disk' = [f \in DOMAIN t |->
                      IF f \in DOMAIN disk /\ disk[f].statements = t[f] THEN disk[f]
                      ELSE [stamp |-> edits + 1, statements |-> t[f]]]
        /\ settled' = (settled /\ DOMAIN t = DOMAIN disk /\ \A p \in Pids : procs[p].state = "down")
  BY DEF Edit
<1>2. edits' = edits + 1 /\ UNCHANGED <<persisted, procs>> /\ report' = NoReport
  BY DEF Edit
<1>3. \A f \in DOMAIN disk' : /\ disk'[f].stamp \in 0 .. edits'
                              /\ \/ disk'[f] = disk[f] /\ f \in DOMAIN disk
                                 \/ disk'[f].stamp = edits + 1
  BY <1>1, <1>2 DEF FInv
<1>4. ASSUME NEW f, NEW e, Good(Here, f, e) PROVE Good(Here', f, e)
  <2>1. e.stamp \in 0 .. edits /\ e.stamp \in 0 .. edits'
    BY <1>2, <1>4 DEF Good, Here, FInv
  <2>2. ASSUME settled', f \in DOMAIN disk', disk'[f].stamp = e.stamp
        PROVE  e.deps = resolved(disk', f, e.key)
    <3>1. settled /\ DOMAIN disk' = DOMAIN disk
      BY <1>1, <2>2
    <3>2. disk'[f] = disk[f]
      BY <1>3, <2>1, <2>2 DEF FInv
    <3>3. e.deps = resolved(disk, f, e.key)
      BY <1>4, <2>2, <3>1, <3>2 DEF Good, Here
    <3> QED BY <2>2, <3>1, <3>2, <3>3 DEF resolved, Keys, imported_names
  <2> QED BY <2>1, <2>2 DEF Good, Here
<1>5. ASSUME NEW p \in Pids PROVE Known(Here', procs[p])
  <2>1. AllGood(Here', procs[p].cache) /\ Shape(procs[p])
    BY <1>4 DEF FInv, Known, AllGood
  <2>2. CASE procs[p] = Down_
    BY <2>2, DownKnown
  <2>3. CASE procs[p].state # "down"
    <3>1. ~settled'
      BY <1>1, <2>3
    <3>2. AllGood(View(Here', procs[p]), procs[p].new)
      <4>1. ASSUME NEW f \in DOMAIN procs[p].new PROVE procs[p].new[f].stamp \in 0 .. edits'
        <5>1. Good(View(Here, procs[p]), f, procs[p].new[f])
          BY DEF FInv, Known, AllGood
        <5>2. procs[p].new[f].stamp \in 0 .. edits
          BY <5>1 DEF Good, View, Here
        <5> QED BY <1>2, <5>2 DEF FInv
      <4> QED BY <3>1, <4>1 DEF AllGood, Good, View, Here
    <3>3. Memo(View(Here', procs[p]), procs[p])
      <4>1. ~View(Here', procs[p]).settled
        BY <3>1 DEF View, Here
      <4> QED BY <4>1 DEF Memo
    <3> QED BY <2>1, <3>2, <3>3 DEF Known
  <2> QED BY <2>1, <2>2, <2>3 DEF Shape
<1>6. \A n \in DOMAIN persisted : AllGood(Here', persisted[n])
  BY <1>4 DEF FInv, AllGood
<1>7. FootprintExact' /\ settled' \in BOOLEAN /\ edits' \in Nat
  BY <1>1, <1>2 DEF FInv, FootprintExact, NoReport
<1> QED BY <1>2, <1>3, <1>5, <1>6, <1>7 DEF FInv

\* What the walk found is remembered, and what is reported is what it should be.
LEMMA ReportStep ==
  ASSUME FInv, NEW p \in Pids, NEW module, NEW entered, report_with_imports(p, module, entered)
  PROVE  FInv'
<1> DEFINE proc == procs[p]
           walked == IF module \in DOMAIN proc.closures THEN {} ELSE {module} \cup Walked(proc, module)
           parsed == {f \in walked \cap DOMAIN disk : ~Remembered(proc, f)}
           Entry(f) == [stamp |-> disk[f].stamp, key |-> proc.path, deps |-> file_deps(proc, f)]
           found == import_closure(proc, module)
           entries == [f \in parsed |-> Entry(f)]
           sought == UNION {Keys(disk, f) : f \in parsed}
           memo == [k \in sought |-> resolution(proc, k)]
           deps == [f \in walked |-> file_deps(proc, f)]
           P == [proc EXCEPT !.disabled = Restarted(@) \cup entered,
                             !.closures = Updated(@, [m \in {module} |-> found]),
                             !.resolved = Updated(@, memo),
                             !.deps = Updated(@, deps), !.new = Updated(@, entries)]
<1>1. /\ Up(p) /\ UNCHANGED <<disk, persisted, edits, settled>>
      /\ report' = [files |-> Touched(p, entered) \cup found, owed |-> Owed(p, module, entered),
                    steady |-> ~proc.moved]
      /\ procs' = [procs EXCEPT ![p] = P]
  BY DEF report_with_imports, FInv
<1>2. Known(Here, proc) /\ procs = [q \in Pids |-> procs[q]]
  BY DEF FInv
<1>3. /\ P.state = proc.state /\ P.path = proc.path /\ P.cache = proc.cache /\ P.moved = proc.moved
      /\ P.resolved = Updated(proc.resolved, memo)
      /\ P.closures = Updated(proc.closures, [m \in {module} |-> found])
      /\ P.deps = Updated(proc.deps, deps) /\ P.new = Updated(proc.new, entries)
      /\ Shape(P)
  <2> HIDE DEF found, deps, entries, memo
  <2>1. PICK Q : Q = [proc EXCEPT !.disabled = Restarted(@) \cup entered,
                                  !.closures = Updated(@, [m \in {module} |-> found])]
    OBVIOUS
  <2>2. Shape(proc) /\ proc.state = "up"
    BY <1>1, <1>2 DEF Known, Up
  <2>3. /\ Fielded(Q) /\ Q.state = "up" /\ Q.path = proc.path /\ Q.cache = proc.cache
        /\ Q.moved = proc.moved /\ Q.resolved = proc.resolved
        /\ Q.closures = Updated(proc.closures, [m \in {module} |-> found])
        /\ Q.deps = proc.deps /\ Q.new = proc.new
    <3> HIDE DEF proc
    <3> QED BY <2>1, <2>2 DEF Shape, Fielded
  <2>4. PICK R : R = [Q EXCEPT !.resolved = Updated(@, memo), !.deps = Updated(@, deps), !.new = Updated(@, entries)]
    OBVIOUS
  <2>5. P = R
    BY <2>1, <2>4
  <2>6. DOMAIN Updated(proc.closures, [m \in {module} |-> found]) # {}
    <3>1. module \in DOMAIN Updated(proc.closures, [m \in {module} |-> found])
      BY DEF Updated
    <3> QED BY <3>1
  <2> HIDE DEF P, proc
  <2> QED BY <2>2, <2>3, <2>4, <2>5, <2>6 DEF Shape, Fielded
<1>4. AllGood(View(Here, proc), entries)
  <2>1. ASSUME NEW f \in parsed PROVE Good(View(Here, proc), f, Entry(f))
    <3>1. disk[f].stamp \in 0 .. edits
      BY DEF FInv
    <3>2. settled /\ ~proc.moved => file_deps(proc, f) = resolved(disk, f, proc.path)
      BY <1>2, FileDepsExact
    <3> HIDE DEF proc
    <3> QED BY <3>1, <3>2 DEF Good, Here, View
  <2> QED BY <2>1 DEF AllGood
<1>5. AllGood(Here, P.cache) /\ AllGood(View(Here, P), P.new)
  <2> HIDE DEF entries, P
  <2>1. View(Here, P) = View(Here, proc)
    BY <1>3 DEF View
  <2> QED BY <1>2, <1>3, <1>4, <2>1, UpdatedGood DEF Known
<1>6. settled /\ ~proc.moved => found = Closure(Here, proc, module)
  BY <1>2, WalkedExact
<1>7a. ASSUME NEW f \in DOMAIN P.deps
       PROVE  \/ f \in walked /\ P.deps[f] = file_deps(proc, f)
              \/ f \in DOMAIN proc.deps /\ P.deps[f] = proc.deps[f]
  <2> HIDE DEF P, walked
  <2> QED BY <1>3, <1>7a DEF Updated
<1>7b. ASSUME NEW m \in DOMAIN P.closures
       PROVE  \/ m = module /\ P.closures[m] = found
              \/ m \in DOMAIN proc.closures /\ P.closures[m] = proc.closures[m]
  <2> HIDE DEF P, found
  <2> QED BY <1>3, <1>7b DEF Updated
<1>7c. ASSUME NEW k \in DOMAIN P.resolved
       PROVE  \/ P.resolved[k] = resolution(proc, k)
              \/ k \in DOMAIN proc.resolved /\ P.resolved[k] = proc.resolved[k]
  <2> HIDE DEF P, sought
  <2> QED BY <1>3, <1>7c DEF Updated
<1> HIDE DEF P, deps, entries, found, memo
<1>7. Memo(View(Here, P), P)
  <2> SUFFICES ASSUME settled, ~proc.moved PROVE Memo(Here, P)
    BY <1>3 DEF Memo, Here, View, Closure
  <2>0. Memo(Here, proc)
    BY <1>2 DEF Known, View, Here, Memo, Closure
  <2>1. ASSUME NEW f \in DOMAIN P.deps PROVE P.deps[f] = resolved(disk, f, P.path)
    <3>1. /\ settled => \A g \in DOMAIN proc.deps : proc.deps[g] = resolved(disk, g, proc.path)
          /\ P.path = proc.path
      BY <2>0, <1>3 DEF Memo, Here
    <3>2. file_deps(proc, f) = resolved(disk, f, proc.path)
      BY <1>2, FileDepsExact
    <3> HIDE DEF proc, walked
    <3> QED BY <1>7a, <2>1, <3>1, <3>2
  <2>2. ASSUME NEW m \in DOMAIN P.closures PROVE P.closures[m] = Closure(Here, P, m)
    <3>2. Closure(Here, P, m) = Closure(Here, proc, m)
      BY <1>3 DEF Closure
    <3> QED BY <2>0, <1>6, <1>7b, <2>2, <3>2 DEF Memo, Here
  <2>3. ASSUME NEW k \in DOMAIN P.resolved PROVE P.resolved[k] = resolve_module_file(DOMAIN disk, k, P.path)
    <3> HIDE DEF proc
    <3> QED BY <2>0, <1>3, <1>7c, <2>3 DEF Memo, Here, resolution
  <2> QED BY <2>1, <2>2, <2>3 DEF Memo, Here
<1>8. FootprintExact'
  <2> SUFFICES ASSUME settled', report'.steady
               PROVE  /\ report'.owed \subseteq report'.files
                      /\ \A f \in report'.files \ report'.owed : IsPrefix(Beside, f)
    BY DEF FootprintExact
  <2>1. found = Closure(Here, proc, module)
    BY <1>1, <1>6
  <2>2. Touched(p, entered) = {f \in entered : IsPrefix(RunRoot, f) \/ IsPrefix(Beside, f)}
    BY DEF Touched, Restarted, want
  <2>3. report'.owed = {f \in entered : IsPrefix(RunRoot, f)} \cup found
    BY <1>1, <2>1 DEF Owed, Closure, Here
  <2> QED BY <1>1, <2>2, <2>3
<1>9. Here' = Here /\ Known(Here, P)
  BY <1>1, <1>3, <1>5, <1>7 DEF Here, Known
<1> QED BY <1>1, <1>2, <1>8, <1>9 DEF FInv
-----------------------------------------------------------------------------
\* The inductive invariant: what every process and every file of the cache remembers is
\* right while the files stand still, for processes whose import path did
\* (footprint.py:157-345).
THEOREM FootprintInvariance == FootprintSpec => []FInv
<1>1. FootprintInit => FInv
  <2> SUFFICES ASSUME FootprintInit PROVE FInv
    OBVIOUS
  <2>1. PICK t \in Trees : disk = [f \in DOMAIN t |-> [stamp |-> 0, statements |-> t[f]]]
    BY DEF FootprintInit
  <2>2. procs = [q \in Pids |-> Down_] /\ persisted = <<>> /\ report = NoReport /\ edits = 0 /\ settled = TRUE
    BY DEF FootprintInit
  <2> QED BY <2>1, <2>2, DownKnown DEF FInv, FootprintExact, NoReport
<1>2. FInv /\ [FootprintNext]_footprintVars => FInv'
  <2> SUFFICES ASSUME FInv, [FootprintNext]_footprintVars PROVE FInv'
    OBVIOUS
  <2>1. CASE UNCHANGED footprintVars
    <3>1. Here' = Here
      BY <2>1 DEF footprintVars, Here
    <3> QED BY <2>1, <3>1 DEF footprintVars, FInv, FootprintExact
  <2>2. CASE Edit
    BY <2>2, EditStep
  <2>3. ASSUME NEW p \in Pids, \/ load_file_deps_cache(p) \/ write_file_deps_index(p) \/ DropWorkerFiles(p)
                               \/ save_file_deps_cache(p) \/ PathChanges(p) \/ Killed(p)
        PROVE  FInv'
    BY <2>3, LoadStep, WriteStep, DropStep, SaveStep, PathStep, KilledStep
  <2>4. ASSUME NEW p \in Pids, NEW m \in Modules, NEW entered \in Windows, report_with_imports(p, m, entered)
        PROVE  FInv'
    BY <2>4, ReportStep
  <2>5. ASSUME NEW p \in Pids, NEW q \in Pids, ForkWorker(p, q) PROVE FInv'
    BY <2>5, ForkStep
  <2> QED BY <2>1, <2>2, <2>3, <2>4, <2>5 DEF FootprintNext
<1> QED BY <1>1, <1>2, PTL DEF FootprintSpec

\* Every footprint is exact, whatever is killed and whichever caches are read, while no
\* file comes or goes, none is edited under a process, and neither the process that
\* reports nor one that saved changed its import path after walking a module
\* (footprint.py:157-420).
THEOREM FootprintsAreExact == FootprintSpec => []FootprintExact
BY FootprintInvariance, PTL DEF FInv
=============================================================================
