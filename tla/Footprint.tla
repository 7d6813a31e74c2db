----------------------------- MODULE Footprint -----------------------------
(***************************************************************************)
(* What a test depends on, as the shim reports it: the files its window    *)
(* entered and the files its module imports.  The files each file imports  *)
(* are remembered in the process, and across runs in an index and one file *)
(* per worker, which the next parent folds in before it forks.             *)
(*                                                                         *)
(* A file is a path, its directories and its name, "__init__" for a        *)
(* package's own file; the run root is the directory <<"run">>.  On disk   *)
(* it has a stamp (time and size) and its import statements,               *)
(* [from, base, names, level].  The scan of the text for statements is     *)
(* abstracted to the statements it finds.                                  *)
(***************************************************************************)
EXTENDS Integers, Sequences, FiniteSets, SequencesExt

CONSTANTS
  Processes,    \* bound: the processes of a few runs
  ImportPaths,  \* the values sys.path may have
  Modules,      \* the test modules, paths
  Windows,      \* the files a test's window may enter: sets of paths
  Trees,        \* the trees a run may find: files with their statements
  MaxChanges,   \* bound: edits of the files, and changes of a process's import path
  MaxLaunches   \* bound: parents started

VARIABLES
  disk,       \* the files
  persisted,  \* the cache directory: name of file -> entries; 0 is the index, p the file of worker p
  procs,      \* the processes: their import path and memos; moved, a history: the path changed under a memo
  report,     \* the footprint a step reported, and what it had to hold
  edits,
  launches,
  moves,
  settled     \* history: no file came or went, none was edited while a process was up, no moved one saved

ASSUME ProcessesAreFew == Processes \in Nat
Pids == 1 .. Processes
Files == UNION {DOMAIN t : t \in Trees}

footprintVars == <<disk, persisted, procs, report, edits, launches, moves, settled>>

RunRoot == <<"run">>
Beside == <<"run2">>  \* a directory whose name begins with the root's
Init_ == "__init__"
NoFile == <<>>
Updated(f, g) == [x \in DOMAIN f \cup DOMAIN g |-> IF x \in DOMAIN g THEN g[x] ELSE f[x]]
-----------------------------------------------------------------------------
(* The files a file imports, on a tree.                                    *)

import_names_in(s) ==
  IF s.from
    THEN {[name |-> s.base, level |-> s.level]}
           \cup {[name |-> s.base \o <<n>>, level |-> s.level] : n \in s.names}
    ELSE {[name |-> s.base, level |-> 0]}

imported_names(tree, path) ==
  IF path \in DOMAIN tree THEN UNION {import_names_in(s) : s \in tree[path].statements} ELSE {}

\* What a resolution is remembered by: the import path is not of it.
resolution_key(imported, path) ==
  [name |-> imported.name, level |-> imported.level, dir |-> IF imported.level > 0 THEN Front(path) ELSE <<>>]

\* The first candidate that exists among the files, if it is the suite's own.
resolve_module_file(files, key, importPath) ==
  LET above == SubSeq(key.dir, 1, Len(key.dir) + 1 - key.level)
      stems == IF key.level > 0 THEN <<above \o key.name>>
               ELSE [k \in DOMAIN importPath |-> importPath[k] \o key.name]
      candidates == FlattenSeq([k \in DOMAIN stems |-> <<stems[k], Append(stems[k], Init_)>>])
      there == SelectSeq(candidates, LAMBDA c : c \in files)
  IN  IF there # <<>> /\ IsPrefix(RunRoot, there[1]) THEN there[1] ELSE NoFile

Keys(tree, path) == {resolution_key(i, path) : i \in imported_names(tree, path)}
resolved(tree, path, importPath) ==
  {resolve_module_file(DOMAIN tree, k, importPath) : k \in Keys(tree, path)} \ {NoFile}

\* The process's answer for a key, and for what it parses.
resolution(proc, key) ==
  IF key \in DOMAIN proc.resolved THEN proc.resolved[key]
  ELSE resolve_module_file(DOMAIN disk, key, proc.path)
parsed_deps(proc, path) == {resolution(proc, k) : k \in Keys(disk, path)} \ {NoFile}

\* Mutant of still_right: an entry is good for whatever import path.
StillRightAnywhere(path, entry, importPath) ==
  path \in DOMAIN disk /\ disk[path].stamp = entry.stamp
\* A remembered entry is used while the file and the import path are those it was made of.
still_right(path, entry, importPath) ==
  path \in DOMAIN disk /\ disk[path].stamp = entry.stamp /\ importPath = entry.key

file_deps_from_cache(proc, path) ==
  path \in DOMAIN proc.cache /\ still_right(path, proc.cache[path], proc.path)
Remembered(proc, path) == path \in DOMAIN proc.deps \/ file_deps_from_cache(proc, path)
file_deps(proc, path) ==
  IF path \in DOMAIN proc.deps THEN proc.deps[path]
  ELSE IF file_deps_from_cache(proc, path) THEN proc.cache[path].deps
  ELSE parsed_deps(proc, path)

\* Everything reached from a file by the dependencies of each.
Reached(deps, start) ==
  LET Grow[s \in SUBSET Files] ==
        LET more == s \cup UNION {deps[f] : f \in s} IN IF more = s THEN s ELSE Grow[more]
  IN  Grow[deps[start]]
Walked(proc, module) == Reached([f \in Files |-> file_deps(proc, f)], module)

\* The conftests from the run root down to the module.
conftests(tree, module) ==
  {c \in DOMAIN tree : Last(c) = "conftest" /\ IsPrefix(RunRoot, c) /\ IsPrefix(Front(c), Front(module))}

import_closure(proc, module) ==
  IF module \in DOMAIN proc.closures THEN proc.closures[module]
  ELSE Walked(proc, module) \cup conftests(disk, module)
-----------------------------------------------------------------------------
(* The processes.                                                          *)

Down_ == [state |-> "down", path |-> <<>>, moved |-> FALSE, cache |-> <<>>, resolved |-> <<>>, deps |-> <<>>,
          new |-> <<>>, closures |-> <<>>, listed |-> {}, disabled |-> {}]
NoReport == [files |-> {}, owed |-> {}, steady |-> TRUE]
Up(p) == procs[p].state = "up"

\* The last of the files, in order of name, that has an entry for a path gives it.
Merged ==
  LET Of(f) == {n \in DOMAIN persisted : f \in DOMAIN persisted[n]}
  IN  [f \in UNION {DOMAIN persisted[n] : n \in DOMAIN persisted} |-> persisted[Max(Of(f))][f]]

\* A parent reads the index and the files earlier workers left.
load_file_deps_cache(p) ==
  /\ procs[p].state = "down" /\ launches < MaxLaunches
  /\ \E importPath \in ImportPaths :
       LET workers == DOMAIN persisted \ {0}
       IN  procs' = [procs EXCEPT ![p] =
                      [Down_ EXCEPT !.state = IF workers = {} THEN "up" ELSE "folding",
                                    !.path = importPath, !.cache = Merged, !.listed = workers]]
  /\ launches' = launches + 1
  /\ UNCHANGED <<disk, persisted, edits, moves, settled>> /\ report' = NoReport

\* It writes what it read as the new index; a failure to is passed over.
write_file_deps_index(p) ==
  /\ procs[p].state = "folding"
  /\ \/ persisted' = Updated(persisted, [n \in {0} |-> procs[p].cache])
     \/ UNCHANGED persisted
  /\ procs' = [procs EXCEPT ![p].state = "dropping"]
  /\ UNCHANGED <<disk, edits, launches, moves, settled>> /\ report' = NoReport

DropWorkerFiles(p) ==
  /\ procs[p].state = "dropping"
  /\ persisted' = [n \in DOMAIN persisted \ procs[p].listed |-> persisted[n]]
  /\ procs' = [procs EXCEPT ![p].state = "up", ![p].listed = {}]
  /\ UNCHANGED <<disk, edits, launches, moves, settled>> /\ report' = NoReport

\* A worker starts with all its parent remembers.
ForkWorker(p, q) ==
  /\ Up(p) /\ procs[q].state = "down"
  /\ procs' = [procs EXCEPT ![q] = procs[p]]
  /\ UNCHANGED <<disk, persisted, edits, launches, moves, settled>> /\ report' = NoReport

save_file_deps_cache(p) ==
  /\ Up(p)
  /\ \/ /\ procs[p].new # <<>> /\ persisted' = Updated(persisted, [n \in {p} |-> procs[p].new])
        /\ settled' = (settled /\ ~procs[p].moved)
     \/ UNCHANGED <<persisted, settled>>   \* nothing to write, or a failure passed over
  /\ procs' = [procs EXCEPT ![p] = Down_]
  /\ UNCHANGED <<disk, edits, launches, moves>> /\ report' = NoReport

\* A module's import, its set-up or a test changes sys.path, leaving a module puts it
\* back; what was resolved before is remembered as it is.
PathChanges(p) ==
  /\ Up(p) /\ edits + moves < MaxChanges /\ moves' = moves + 1
  /\ \E importPath \in ImportPaths \ {procs[p].path} :
       procs' = [procs EXCEPT ![p].path = importPath, ![p].moved = @ \/ DOMAIN procs[p].closures # {}]
  /\ UNCHANGED <<disk, persisted, edits, launches, settled>> /\ report' = NoReport

Killed(p) ==
  /\ procs[p].state # "down"
  /\ procs' = [procs EXCEPT ![p] = Down_]
  /\ UNCHANGED <<disk, persisted, edits, launches, moves, settled>> /\ report' = NoReport
-----------------------------------------------------------------------------
(* A test's window.                                                        *)

\* Starting to capture turns every code object's event on again.
Restarted(disabled) == {}

\* The path begins with the root's, letter by letter.
want(f) == \E d \in {RunRoot, Beside} : IsPrefix(d, f)
\* The event of a file's code fires once until it is turned on again.
Touched(p, entered) == {f \in entered \ Restarted(procs[p].disabled) : want(f)}

\* What the report has to hold, read off the files with no memo between.
Owed(p, module, entered) ==
  {f \in entered : IsPrefix(RunRoot, f)} \cup conftests(disk, module)
    \cup Reached([f \in Files |-> resolved(disk, f, procs[p].path)], module)

\* A test runs: what its window entered and its module's closure are reported, and
\* what the walk found is remembered, what it parsed also for later runs.
report_with_imports(p, module, entered) ==
  LET proc == procs[p]
      walked == IF module \in DOMAIN proc.closures THEN {}
                ELSE {module} \cup Walked(proc, module)
      parsed == {f \in walked \cap DOMAIN disk : ~Remembered(proc, f)}
      Entry(f) == [stamp |-> disk[f].stamp, key |-> proc.path, deps |-> file_deps(proc, f)]
      sought == UNION {Keys(disk, f) : f \in parsed}
      found == import_closure(proc, module)
  IN  /\ Up(p) /\ module \in DOMAIN disk
      /\ report' = [files |-> Touched(p, entered) \cup found, owed |-> Owed(p, module, entered),
                    steady |-> ~proc.moved]
      /\ procs' = [procs EXCEPT
           ![p].disabled = Restarted(@) \cup entered,
           ![p].closures = Updated(@, [m \in {module} |-> found]),
           ![p].resolved = Updated(@, [k \in sought |-> resolution(proc, k)]),
           ![p].deps = Updated(@, [f \in walked |-> file_deps(proc, f)]),
           ![p].new = Updated(@, [f \in parsed |-> Entry(f)])]
      /\ UNCHANGED <<disk, persisted, edits, launches, moves, settled>>
-----------------------------------------------------------------------------
(* Files are edited; the stamp of what was written is new.                 *)

Edit ==
  /\ edits + moves < MaxChanges
  /\ \E t \in Trees :
       /\ t # [f \in DOMAIN disk |-> disk[f].statements]
       /\ disk' = [f \in DOMAIN t |->
                     IF f \in DOMAIN disk /\ disk[f].statements = t[f] THEN disk[f]
                     ELSE [stamp |-> edits + 1, statements |-> t[f]]]
       /\ settled' = (settled /\ DOMAIN t = DOMAIN disk /\ \A p \in Pids : procs[p].state = "down")
  /\ edits' = edits + 1
  /\ UNCHANGED <<persisted, procs, launches, moves>> /\ report' = NoReport

FootprintInit ==
  /\ \E t \in Trees : disk = [f \in DOMAIN t |-> [stamp |-> 0, statements |-> t[f]]]
  /\ persisted = <<>> /\ procs = [p \in Pids |-> Down_] /\ report = NoReport
  /\ edits = 0 /\ launches = 0 /\ moves = 0 /\ settled = TRUE

FootprintNext ==
  \/ Edit
  \/ \E p \in Pids :
       \/ load_file_deps_cache(p) \/ write_file_deps_index(p) \/ DropWorkerFiles(p)
       \/ save_file_deps_cache(p) \/ PathChanges(p) \/ Killed(p)
       \/ \E m \in Modules, entered \in Windows : report_with_imports(p, m, entered)
       \/ \E q \in Pids : ForkWorker(p, q)

FootprintSpec == FootprintInit /\ [][FootprintNext]_footprintVars
-----------------------------------------------------------------------------
\* A test is credited with every file of the suite its window entered, every file
\* its module imports and every conftest above it, and with no other of the suite,
\* whatever the caches of this and earlier runs hold, whichever were lost, and whatever
\* import path each process was given: as long as files were edited between runs only,
\* none came or went, and neither the process nor one that left a file for it had its
\* import path changed once it had walked a module.  Files of a directory whose name
\* begins with the root's are credited where they were entered.
FootprintExact ==
  settled /\ report.steady =>
    /\ report.owed \subseteq report.files
    /\ \A f \in report.files \ report.owed : IsPrefix(Beside, f)
=============================================================================
