------------------------- MODULE MCIsolationLadder -------------------------
(***************************************************************************)
(* Two ordinary modules and an opaque one: a leaking test, a recorded      *)
(* disturber, two tests that records trust and that leave state after all, *)
(* one of them opaque state and a thread, a session, a module and a        *)
(* function fixture.                                                       *)
(***************************************************************************)
EXTENDS IsolationLadder

CONSTANTS a1, a2, a3, b1, c1, c2, A, B, C, session, ofA, ofC

MCTests == {a1, a2, a3, b1, c1, c2}
MCModules == {A, B, C}
MCModuleOf == a1 :> A @@ a2 :> A @@ a3 :> A @@ b1 :> B @@ c1 :> C @@ c2 :> C
MCOrder == <<a1, a2, a3, b1, c1, c2>>
MCBefore(t, u) ==
  MCModuleOf[t] = MCModuleOf[u] /\ \E i, j \in 1 .. 6 : i < j /\ MCOrder[i] = t /\ MCOrder[j] = u
MCOpaque == {C}
MCLeaves == a1 :> {"state"} @@ a2 :> {"state", "thread"} @@ a3 :> {"state", "thread"}
            @@ b1 :> {"state"} @@ c1 :> {"state"} @@ c2 :> {"state", "thread"}
MCCallFixture == {a1}
MCFixtures == {session, ofA, ofC}
MCServes == session :> MCTests @@ ofA :> {a1, a2, a3} @@ ofC :> {c1, c2}
MCNeeds == a1 :> <<ofA>> @@ a2 :> <<session>> @@ a3 :> <<session, ofA>>
           @@ b1 :> <<>> @@ c1 :> <<ofC>> @@ c2 :> <<session>>
MCMustFork == {a3}
MCTrusted == {b1, c2}
Ladder == [fork |-> TRUE, no_fork |-> FALSE, ladder |-> TRUE, restore |-> TRUE]
Forked == [fork |-> TRUE, no_fork |-> FALSE, ladder |-> FALSE, restore |-> TRUE]
Plain == [fork |-> TRUE, no_fork |-> FALSE, ladder |-> FALSE, restore |-> FALSE]
Subprocess == [fork |-> TRUE, no_fork |-> TRUE, ladder |-> FALSE, restore |-> TRUE]
Windows == [fork |-> FALSE, no_fork |-> TRUE, ladder |-> FALSE, restore |-> TRUE]
MCConfigs == {Ladder, Forked, Plain, Subprocess, Windows}
MCDefault == {Ladder}
=============================================================================
