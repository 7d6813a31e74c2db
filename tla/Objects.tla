------------------------------- MODULE Objects -------------------------------
(***************************************************************************)
(* What copying, comparing and refilling a test module's objects does, for *)
(* the snapshots of ModuleRestore: a heap is a sequence of objects         *)
(* [kind, items], a value a position in it or, negative, an immutable.     *)
(***************************************************************************)
EXTENDS Integers, Sequences

RECURSIVE ContentOf(_, _), CopyOf(_, _), CopyItems(_, _, _), restore_in_place(_, _, _), RestoreItems(_, _, _, _)

\* A value by content.
ContentOf(heap, v) ==
  IF v <= 0 THEN [kind |-> "atom", at |-> v, items |-> <<>>]
  ELSE [kind |-> heap[v].kind, at |-> IF heap[v].kind \in {"plain", "opaque"} THEN v ELSE 0,
        items |-> IF heap[v].kind \in {"plain", "opaque"} THEN <<>>
                  ELSE [k \in DOMAIN heap[v].items |-> ContentOf(heap, heap[v].items[k])]]
\* A fresh object, [heap, value], of that content.
CopyOf(heap, c) ==
  IF c.kind = "atom" THEN [heap |-> heap, value |-> c.at]
  ELSE LET source == IF c.kind = "plain" THEN [kind |-> "plain", value |-> heap[c.at].items, heap |-> heap]
                     ELSE LET r == CopyItems(heap, c.items, <<>>) IN [kind |-> c.kind, value |-> r.value, heap |-> r.heap]
       IN  [heap |-> Append(source.heap, [kind |-> source.kind, items |-> source.value]),
            value |-> Len(source.heap) + 1]
CopyItems(heap, cs, done) ==
  IF cs = <<>> THEN [heap |-> heap, value |-> done]
  ELSE LET r == CopyOf(heap, Head(cs)) IN CopyItems(r.heap, Tail(cs), Append(done, r.value))

\* Mutant of restore_in_place: no object is refilled.
InPlaceNever(heap, live, c) == [handled |-> FALSE, heap |-> heap]
\* The object takes back its contents and stays the object it is: a container is
\* refilled with copies, a user object's attributes are restored in their turn.
restore_in_place(heap, live, c) ==
  IF live <= 0 \/ c.kind # heap[live].kind \/ c.kind = "opaque" \/ live = c.at
  THEN [handled |-> FALSE, heap |-> heap]
  ELSE CASE c.kind \in {"list", "array"} ->
              LET r == CopyItems(heap, c.items, <<>>)
              IN  [handled |-> TRUE, heap |-> [r.heap EXCEPT ![live].items = r.value]]
         [] c.kind = "plain" ->
              [handled |-> TRUE, heap |-> [heap EXCEPT ![live].items = heap[c.at].items]]
         [] OTHER -> [handled |-> TRUE, heap |-> RestoreItems(heap, live, c.items, 1)]
RestoreItems(heap, live, cs, k) ==
  IF k > Len(cs) THEN [heap EXCEPT ![live].items = SubSeq(@, 1, Len(cs))]
  ELSE LET old == heap[live].items
           r == IF k <= Len(old) THEN restore_in_place(heap, old[k], cs[k])
                ELSE [handled |-> FALSE, heap |-> heap]
           fresh == CopyOf(heap, cs[k])
           next == IF r.handled THEN r.heap
                   ELSE [fresh.heap EXCEPT ![live].items =
                           SubSeq(@, 1, k - 1) \o <<fresh.value>> \o SubSeq(@, k + 1, Len(@))]
       IN  RestoreItems(next, live, cs, k + 1)
==============================================================================
