----------------------------- MODULE Discovery -----------------------------
(***************************************************************************)
(* Start-up of a shim process: the conftests above the run root, then (in  *)
(* a process that will be forked) every selected test module, then the     *)
(* walk that registers fixtures, the collection hooks, the builtins and    *)
(* the plugins.  Any file imported may skip itself or fail.                *)
(*                                                                         *)
(* A layout has its run root and packages (absolute directories), the      *)
(* conftests `above`, shallowest first and numbered by how far up they     *)
(* are, and the files of the walk in the order os.walk sorts them, each    *)
(* directory's conftest first.  A file is [path, conftest, up, ends,       *)
(* fixtures, classes, plugins, nodes, skipped, hook, hookfails].           *)
(***************************************************************************)
EXTENDS FixtureGraph, TLC

CONSTANTS Layouts  \* the suites a process may start on

MaxDepth == 10000  \* no path is as deep as the rank of a fixture written in a module
Ends == {"fine", "skips", "fails"}
Directory(file) == Front(file.path)
NameList == Seq(STRING)
\* What a file has: a fixture may be a native provider, and a class lists the fixtures of
\* its own and of each class it inherits from.
FileFacts(f) ==
  /\ f.path \in NameList \ {<<>>} /\ Len(f.path) < MaxDepth
  /\ f.ends \subseteq Ends /\ f.conftest = (Last(f.path) = "conftest")
  /\ f.fixtures \in Seq([name : STRING, native : BOOLEAN])
  /\ f.classes \in Seq([name : STRING, mro : Seq(NameList)])
  /\ f.plugins \in NameList
\* The conftests above, each higher than the next, and the files of the walk: each once,
\* after the conftests of its own directory and of those above it.
LayoutsAreWalked ==
  \A l \in Layouts :
    /\ l.warm \in BOOLEAN /\ l.prefixes \subseteq NameList
    /\ l.builtins \in NameList /\ l.installed \in NameList /\ l.explicit \in NameList
    /\ \A p \in DOMAIN l.provides : l.provides[p] \in NameList
    /\ l.above \in Seq(ToSet(l.above)) /\ l.files \in Seq(ToSet(l.files))
    /\ \A f \in ToSet(l.above) \cup ToSet(l.files) : FileFacts(f)
    /\ \A k \in DOMAIN l.above : l.above[k].up \in Nat \ {0} /\ l.above[k].conftest
    /\ \A j, k \in DOMAIN l.above : j < k => l.above[j].up > l.above[k].up
    /\ \A k \in DOMAIN l.files : l.files[k].up = 0
    /\ \A j, k \in DOMAIN l.files :
         j < k => /\ l.files[j].path # l.files[k].path
                  /\ l.files[k].conftest => ~IsPrefix(Directory(l.files[k]), Directory(l.files[j]))
ASSUME WalkedLayouts == LayoutsAreWalked

VARIABLES
  layout,
  todo,      \* the imports still to come: [phase, file]
  modpath,   \* sys.path
  bound,     \* top-level name -> the sys.path entry it was imported from
  loaded,    \* the files whose import succeeded
  executed,  \* history: the bodies run, in order: [file, asked, up, end, phase]
  disc       \* what discovery has recorded

discoveryVars == <<layout, todo, modpath, bound, loaded, executed, disc>>

Everywhere == <<>>
\* Those of s at the positions of a set, in their order.
Those(s, positions) ==
  LET upto[n \in 0 .. Len(s)] ==
        IF n = 0 THEN <<>>
        ELSE IF n \in positions THEN Append(upto[n - 1], s[n]) ELSE upto[n - 1]
  IN  upto[Len(s)]
-----------------------------------------------------------------------------
(* Names of modules, what is ignored, and what a directory's mark covers.  *)

package_basedir(l, dir) ==
  LET n == CHOOSE k \in 0..Len(dir) :
             /\ SubSeq(dir, 1, k) \notin l.packages
             /\ \A j \in k + 1 .. Len(dir) : SubSeq(dir, 1, j) \in l.packages
  IN  SubSeq(dir, 1, n)

abspath(l, path) == l.root \o path
\* The directory a module is imported from and its dotted name.
module_name(l, path) ==
  LET from == package_basedir(l, Front(abspath(l, path)))
  IN  [from |-> from, name |-> SubSeq(abspath(l, path), Len(from) + 1, Len(l.root) + Len(path))]

exists(l, abs) == abs \in l.packages \/ \E k \in DOMAIN l.files : abspath(l, l.files[k].path) = abs

\* import_module: the file a module key's name leads to, the path and what the name binds.
Import(path) ==
  LET m == module_name(layout, path)
      search == IF m.from \in ToSet(modpath) THEN modpath ELSE <<m.from>> \o modpath
      top == m.name[1]
      where == IF top \in DOMAIN bound THEN bound[top]
               ELSE SelectSeq(search, LAMBDA d : exists(layout, Append(d, top)))[1]
      found == where \o m.name
  IN  [file |-> SubSeq(found, Len(layout.root) + 1, Len(found)), search |-> search,
       top |-> top, where |-> where, package |-> Len(m.name) > 1]

is_ignored(l, path) ==
  \/ path \in l.globbed
  \/ \E p \in l.prefixes : IsPrefix(p, path)
module_selected(l, path) == l.selected = {} \/ path \in l.selected

\* A mark on a directory covers what is below it.
dir_mark(marks, path) == \E d \in marks : IsPrefix(d, path)

Pruned(l, dir, skips) == dir_mark(skips, dir) \/ \E k \in 0..Len(dir) : is_ignored(l, SubSeq(dir, 1, k))
-----------------------------------------------------------------------------
(* Importing.                                                              *)

Step(phase, file) == [phase |-> phase, file |-> file]
Steps(phase, files) == [k \in DOMAIN files |-> Step(phase, files[k])]
is_test(file) == ~file.conftest

Head_(phase) == todo # <<>> /\ todo[1].phase = phase
Ran(file, end) ==
  Append(executed, [file |-> file.path, asked |-> todo[1].file.path, up |-> file.up, end |-> end,
                    phase |-> todo[1].phase])

\* Mutant of Governed: an ancestor's mark is kept under its own location.
GovernedByPlace(file) == IF file.up > 0 THEN [k \in 1..file.up |-> ".."] ELSE Directory(file)
\* What a conftest's mark is kept under: above the run root, it covers everything.
Governed(file) == IF file.up > 0 THEN Everywhere ELSE Directory(file)

import_conftest(d, file, end) ==
  CASE end = "fine" -> d
    [] end = "skips" -> [d EXCEPT !.dir_skips = @ \cup {Governed(file)}]
    [] OTHER -> [d EXCEPT !.dir_errors = @ \cup {Governed(file)}]

module_key(path) == ToString(path)
Location(file) ==
  IF file.up > 0 THEN Above(file.up)
  ELSE IF file.conftest THEN Dir(Directory(file))
  ELSE InModule(module_key(file.path))

Made(names, at, from) == [k \in DOMAIN names |-> [name |-> names[k], at |-> at, from |-> from]]
Fixtures(body, native, at) ==
  LET own == Those(body.fixtures, {k \in DOMAIN body.fixtures : body.fixtures[k].native = native})
  IN  Made([k \in DOMAIN own |-> own[k].name], at, "suite")

\* The fixtures of a class and of what it inherits are all its own.
ClassFixtures(class, file) == Made(FlattenSeq(class.mro), InClass(module_key(file.path), class.name), "suite")
\* With the definitions that have no namesake at their own place yet.
WithNew(reg, defs) ==
  LET Same(a, b) == a.name = b.name /\ a.at = b.at
  IN  reg \o Those(defs, {n \in DOMAIN defs : /\ \A d \in ToSet(reg) : ~Same(d, defs[n])
                                             /\ \A j \in 1 .. n - 1 : ~Same(defs[j], defs[n])})
register_class_fixtures(reg, body, file) ==
  WithNew(reg, FlattenSeq([c \in DOMAIN body.classes |-> ClassFixtures(body.classes[c], file)]))

\* What a file's module defines; its body may be another file's, of the same name.
Register(d, file, body) ==
  [d EXCEPT !.registry = register_class_fixtures(@ \o Fixtures(body, FALSE, Location(file)), body, file),
            !.native = @ \o Fixtures(body, TRUE, Location(file))]

Governs(d, file) == [d EXCEPT !.scopes = Append(@, file), !.plugins = @ \o file.plugins]

load_ancestor_conftest ==
  /\ Head_("above")
  /\ LET file == todo[1].file
     IN  \E end \in file.ends :
           /\ executed' = Ran(file, end)
           /\ disc' = IF end = "fine" THEN [disc EXCEPT !.ancestors = Append(@, file)]
                      ELSE import_conftest(disc, file, end)
  /\ todo' = Tail(todo)
  /\ UNCHANGED <<layout, modpath, bound, loaded>>

\* A name that a test module is imported under is never a conftest's.
FilesAt(path) == {k \in DOMAIN layout.files : is_test(layout.files[k]) /\ layout.files[k].path = path}
FileAt(path) == layout.files[CHOOSE k \in FilesAt(path) : TRUE]

\* A test module's body runs unless a module of its name is there already; then(fine, path)
\* goes on with the file whose body it was.
ImportModule(path, then(_, _)) ==
  LET i == Import(path)
      Binds(end) == IF i.package \/ end = "fine" THEN (i.top :> i.where) @@ bound ELSE bound
  IN  /\ modpath' = i.search
      /\ \/ i.file \in loaded /\ UNCHANGED <<bound, loaded, executed>> /\ then(TRUE, i.file)
         \/ /\ i.file \notin loaded
            /\ \E end \in IF FilesAt(i.file) = {} THEN {"missing"} ELSE FileAt(i.file).ends :
                 /\ executed' = IF end = "missing" THEN executed ELSE Ran(FileAt(i.file), end)
                 /\ loaded' = IF end = "fine" THEN loaded \cup {i.file} ELSE loaded
                 /\ bound' = Binds(end)
                 /\ then(end = "fine", i.file)

preimport ==
  /\ Head_("preimport")
  /\ LET file == todo[1].file
     IN  IF file.conftest \/ is_ignored(layout, file.path) \/ ~module_selected(layout, file.path)
           THEN UNCHANGED <<modpath, bound, loaded, executed>>
           ELSE ImportModule(file.path, LAMBDA fine, as : TRUE)
  /\ todo' = Tail(todo)
  /\ UNCHANGED <<layout, disc>>

\* The fixtures of the conftests above come before the walk's.
StartWalk ==
  /\ Head_("start")
  /\ LET file == todo[1].file
     IN  disc' = IF Contains(disc.ancestors, file) THEN Register(Governs(disc, file), file, file) ELSE disc
  /\ todo' = Tail(todo)
  /\ UNCHANGED <<layout, modpath, bound, loaded, executed>>

WalkConftest ==
  /\ Head_("walk") /\ todo[1].file.conftest
  /\ LET file == todo[1].file
     IN  IF Pruned(layout, Directory(file), disc.dir_skips) THEN UNCHANGED <<executed, disc>>
         ELSE \E end \in file.ends :
                /\ executed' = Ran(file, end)
                /\ disc' = IF end = "fine" THEN Register(Governs(disc, file), file, file)
                           ELSE import_conftest(disc, file, end)
  /\ todo' = Tail(todo)
  /\ UNCHANGED <<layout, modpath, bound, loaded>>

WalkModule ==
  /\ Head_("walk") /\ is_test(todo[1].file)
  /\ LET file == todo[1].file
     IN  IF Pruned(layout, Directory(file), disc.dir_skips) \/ ~module_selected(layout, file.path)
           THEN UNCHANGED <<modpath, bound, loaded, executed, disc>>
           ELSE ImportModule(file.path, LAMBDA fine, as :
                  disc' = IF fine THEN [Register(disc, file, FileAt(as)) EXCEPT
                                          !.imported = (file.path :> as) @@ @]
                          ELSE disc)
  /\ todo' = Tail(todo)
  /\ UNCHANGED <<layout>>
-----------------------------------------------------------------------------
(* What follows the walk.                                                  *)

\* The nodes a mark or a conftest's hook skips; a hook that fails has marked some.
HookMarks(scopes) ==
  LET Hooks(fails) == UNION {c.hook : c \in {d \in ToSet(scopes) : d.hookfails = fails}}
  IN  {Hooks(FALSE) \cup some : some \in SUBSET Hooks(TRUE)}
run_collection_hooks(imported, marked) ==
  UNION {{<<path, n>> : n \in {m \in FileAt(imported[path]).nodes :
                                 m \in FileAt(imported[path]).skipped \/ <<path, m>> \in marked}} :
         path \in DOMAIN imported}

\* Plugins in the order they are found: installed, named by -p, named by a conftest;
\* each module once, none turned off, none of pytest's own.
plugin_modules(l, declared) ==
  LET candidates == (IF l.autoload THEN l.installed ELSE <<>>) \o l.explicit \o declared
      takes(p) == p \notin l.disabled /\ p \notin l.own /\ (l.anyplugin \/ p \in l.allowed)
  IN  Those(candidates, {n \in DOMAIN candidates : /\ takes(candidates[n])
                                                  /\ \A j \in 1 .. n - 1 : candidates[j] # candidates[n]})

AtRoot(names, from) == Made(names, Dir(Everywhere), from)
\* A plugin that is not there, or is broken, gives nothing.
register_plugin_fixtures(l, reg, found, broken) ==
  WithNew(reg, FlattenSeq([k \in DOMAIN found |->
    IF found[k] \in DOMAIN l.provides \ broken THEN AtRoot(l.provides[found[k]], "plugin") ELSE <<>>]))

\* Mutant of Everything: the builtins first.
BuiltinsFirst(l, d, broken) ==
  register_plugin_fixtures(l, AtRoot(l.builtins, "builtin") \o d.registry \o d.native,
                           plugin_modules(l, d.plugins), broken)
\* Every definition in its order: the suite's, its native providers, the builtins, the plugins.
Everything(l, d, broken) ==
  register_plugin_fixtures(l, d.registry \o d.native \o AtRoot(l.builtins, "builtin"),
                           plugin_modules(l, d.plugins), broken)

FinishDiscovery ==
  /\ todo = <<>> /\ ~disc.done
  /\ \E marked \in HookMarks(disc.scopes), broken \in SUBSET layout.fragile :
       disc' = [disc EXCEPT !.marker_skips = run_collection_hooks(disc.imported, marked),
                            !.registry = Everything(layout, disc, broken), !.done = TRUE]
  /\ UNCHANGED <<layout, todo, modpath, bound, loaded, executed>>
-----------------------------------------------------------------------------
\* Mutant of Phases: the walk imports the conftests above again.
PhasesTwice(l) ==
  Steps("above", l.above) \o (IF l.warm THEN Steps("preimport", l.files) ELSE <<>>)
    \o Steps("above", l.above) \o Steps("start", l.above) \o Steps("walk", l.files)
\* A process that will be forked imports the test modules before it walks.
Phases(l) ==
  Steps("above", l.above) \o (IF l.warm THEN Steps("preimport", l.files) ELSE <<>>)
    \o Steps("start", l.above) \o Steps("walk", l.files)

DiscoveryInit ==
  /\ layout \in Layouts
  /\ todo = Phases(layout)
  /\ modpath = <<package_basedir(layout, layout.root)>> /\ bound = <<>> /\ loaded = {} /\ executed = <<>>
  /\ disc = [ancestors |-> <<>>, scopes |-> <<>>, plugins |-> <<>>, registry |-> <<>>, native |-> <<>>,
             imported |-> <<>>, dir_skips |-> {}, dir_errors |-> {}, marker_skips |-> {}, done |-> FALSE]

DiscoveryNext ==
  \/ load_ancestor_conftest \/ preimport \/ StartWalk \/ WalkConftest \/ WalkModule \/ FinishDiscovery
DiscoverySpec == DiscoveryInit /\ [][DiscoveryNext]_discoveryVars
-----------------------------------------------------------------------------
Gated(file) ==
  \/ is_ignored(layout, file.path)
  \/ dir_mark(disc.dir_errors, file.path) \/ dir_mark(disc.dir_skips, file.path)
\* The places of the conftests that govern a module, and which is called before which: the
\* deepest first, those above the run root as they were found.
conftests_governing(d, file) ==
  {k \in DOMAIN d.scopes : d.scopes[k].up > 0 \/ IsPrefix(Directory(d.scopes[k]), Directory(file))}
CalledBefore(d, j, k) ==
  LET depth(n) == IF d.scopes[n].up > 0 THEN -1 ELSE Len(Directory(d.scopes[n]))
  IN  depth(j) > depth(k) \/ (depth(j) = depth(k) /\ j < k)

\* A directory above file m matches a pattern that is ignored: it is not walked.
Matched(m) == \E k \in 0 .. Len(Directory(m)) : SubSeq(m.path, 1, k) \in layout.globbed
Selected == {m \in ToSet(layout.files) : is_test(m) /\ module_selected(layout, m.path)}
\* The conftests of m's own directory and of all those above it, of the directories walked.
Conftests(m) ==
  ToSet(layout.above)
    \cup {c \in ToSet(layout.files) : c.conftest /\ IsPrefix(Directory(c), Directory(m)) /\ ~Matched(c)}
\* Conftest b of m is nearer than c; of those above the run root the highest is the first.
NearerThan(b, c) ==
  IF c.up = 0 THEN b.up = 0 /\ Len(b.path) > Len(c.path) ELSE b.up = 0 \/ b.up > c.up

\* A selected test module either has every conftest above it in force, each once and nearest
\* first, or all of its tests are reported as ignored, skipped or broken by one: none runs
\* without the set-up a conftest that did not import would have given it.  Left out, for
\* the code does not: the conftests of directories that a pattern matches.  Nobody imports
\* them, and the tests below, whose own paths the pattern does not match, are run.
GovernedOrReported ==
  disc.done =>
    \A m \in Selected :
      LET G == conftests_governing(disc, m)
      IN  \/ Gated(m)
          \/ /\ {disc.scopes[k] : k \in G} = Conftests(m)
             /\ \A j, k \in G : CalledBefore(disc, j, k) => NearerThan(disc.scopes[j], disc.scopes[k])

\* No body that ran to its end runs again; the conftests above the run root have run,
\* shallowest first, before any test module; and in a process that does not preimport,
\* so has every conftest beside or above the module, when the body that runs is the module's
\* own and not that of another of its name.
RunsOnceInOrder ==
  LET Of(k) == <<executed[k].up, executed[k].file>>
      IsConftest(k) == Last(executed[k].file) = "conftest"
  IN  \A i, j \in DOMAIN executed : i < j =>
        /\ executed[i].end = "fine" => Of(i) # Of(j)
        /\ executed[i].up > 0 /\ executed[j].up > 0 => executed[i].up >= executed[j].up
        /\ executed[j].up > 0 => executed[i].up > 0
        /\ IsConftest(j) /\ ~IsConftest(i) /\ executed[i].asked = executed[i].file /\ ~layout.warm =>
             ~IsPrefix(Front(executed[j].file), Front(executed[i].file))

\* Within the run root the suite's own fixture outranks a builtin's and a plugin's of
\* its name, for every test it can be seen from.
SuiteOutranks ==
  disc.done =>
    \A k \in DOMAIN layout.files :
      LET m == layout.files[k]
          S == [defs |-> disc.registry]
          t == [module |-> module_key(m.path), dir |-> Directory(m), mro |-> <<>>]
      IN  \A def \in ToSet(disc.registry) :
            def.from = "suite" /\ def.at.up = 0 /\ Sees(def, t) =>
              S.defs[resolve(S, t, def.name, NoCeiling)].from = "suite"
=============================================================================
