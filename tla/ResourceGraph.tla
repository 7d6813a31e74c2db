---------------------------- MODULE ResourceGraph ----------------------------
(***************************************************************************)
(* What fixtures promise: a resource is acquired once what it was built    *)
(* from is held, is released before any of that is, and is lost only       *)
(* together with whatever was built from it, never silently.               *)
(***************************************************************************)
VARIABLES
  held,   \* [id, on]: the resources held, each with what it was built from
  lost    \* whether any was given up without being released

Ids(S) == {r.id : r \in S}

Init == held = {} /\ lost = FALSE

Acquire ==
  \E r \in held' \ held :
    /\ held' = held \cup {r} /\ UNCHANGED lost
    /\ r.id \notin Ids(held) /\ r.on \subseteq Ids(held)

Release ==
  \E r \in held :
    /\ held' = held \ {r} /\ UNCHANGED lost
    /\ \A s \in held : r.id \notin s.on

Lose ==
  /\ held' \subseteq held /\ lost' = TRUE
  /\ \A r \in held' : r.on \subseteq Ids(held')

Next == Acquire \/ Release \/ Lose
Spec == Init /\ [][Next]_<<held, lost>>
=============================================================================
