---------------------------- MODULE ImpactClaims ----------------------------
(***************************************************************************)
(* What the documents and comments say of the persisted state beyond what  *)
(* ImpactState's own properties state.  The code breaks each of these: the *)
(* runs over them give the shortest history that does.                     *)
(***************************************************************************)
EXTENDS ImpactState

\* "A cold or stale cache is never incorrect" (ci.md:16-17), of a record a
\* filtered run wrote.
FilteredIsFresh ==
  pc = "idle" =>
    \A i \in Served(disk, tree) :
      disk.by[i] = "filtered" => Yields(i, disk.tests[i], tree)

\* "A hit <=> the executed-source closure is byte-identical to when the outcome
\* was produced" (result_cache.rs:42-43).
CacheIsHonest == \A e \in cache : \A t \in Trees : Sound(e, t)
=============================================================================
