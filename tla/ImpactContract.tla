--------------------------- MODULE ImpactContract ---------------------------
(***************************************************************************)
(* What the impact planner needs of the tests and of the footprints the    *)
(* shim reports.  The specification of ImpactState does not depend on it;  *)
(* its guarantees, and the theorems of ImpactProofs, do.                   *)
(***************************************************************************)
EXTENDS ImpactState

Agree(D, t, u) == \A f \in D : t[f] = u[f]

ASSUME ConstantTypes ==
  /\ NoHash \notin Contents
  /\ ConfigFiles \subseteq Files
  /\ Candidates \subseteq Ids
  /\ Expansions \in [Candidates -> SUBSET (Ids \ Candidates)]
  /\ Reporter \in [Ids -> Candidates]
  /\ \A c \in Candidates : Reporter[c] = c
  /\ \A i \in Ids \ Candidates : i \in Expansions[Reporter[i]]
  /\ ModuleOf \in [Candidates -> Files]
  /\ WorkerFault \notin Outcomes /\ Deselected \notin Outcomes
  /\ WorkerFault # Deselected
  /\ NoRecord \notin Records /\ Absent \notin Answers
  /\ CacheEnabled \in BOOLEAN
  /\ MaxEdits \in Nat /\ MaxRuns \in Nat

ASSUME BehaviourTypes ==
  \A t \in Trees :
    /\ Collects(t) \subseteq Candidates
    /\ \A i \in Ids : Result(i, t) \in Answers \cup {Absent}
    /\ \A i \in Ids : Result(i, t) # Absent =>
         Result(i, t).out # WorkerFault /\ Result(i, t).out # Deselected

\* TID-40: an edit outside a test's reported footprint changes nothing about it.
ASSUME FootprintSound ==
  \A i \in Ids : \A t, u \in Trees :
    (/\ Result(i, t) # Absent /\ Result(i, t).touched # {}
     /\ Agree(Result(i, t).touched, t, u)) => Result(i, u) = Result(i, t)

\* into_results: a node answers under its own id or under its cases' ids,
\* never under both.
ASSUME CasesOrSelf ==
  \A c \in Candidates : \A t \in Trees : Result(c, t) # Absent =>
    \A j \in Ids : Reporter[j] = c /\ j # c => Result(j, t) = Absent

\* Which cases a candidate has follows from the files each case of it touched.
ASSUME CasesSound ==
  \A i, j \in Ids : \A t, u \in Trees :
    (/\ Reporter[i] = Reporter[j]
     /\ Result(i, t) # Absent /\ Result(i, t).touched # {}
     /\ Agree(Result(i, t).touched, t, u))
       => (Result(j, t) # Absent <=> Result(j, u) # Absent)

\* TID-73: deselection follows from the candidate's module and the config files.
ASSUME DeselectionSound ==
  \A c \in Candidates : \A t, u \in Trees :
    (/\ \A j \in Ids : Reporter[j] = c => Result(j, t) = Absent
     /\ Agree({ModuleOf[c]} \cup config_deps(t), t, u))
       => \A j \in Ids : Reporter[j] = c => Result(j, u) = Absent
=============================================================================
