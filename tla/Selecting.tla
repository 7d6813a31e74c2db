----------------------------- MODULE Selecting -----------------------------
(***************************************************************************)
(* What a run selects: the grammar `-k` and `-m` share, and the selection  *)
(* a worker starts with and a run's patch overrides.                       *)
(*                                                                         *)
(* A word (an identifier, a name, an operator) is the sequence of its      *)
(* pieces; an expression is a sequence of words.                           *)
(***************************************************************************)
EXTENDS Integers, Sequences, FiniteSets, SequencesExt

And == <<"and">>
Or == <<"or">>
Not == <<"not">>
Open == <<"(">>
Close == <<")">>

\* A tree is an identifier, or a connective over trees.
Ident(word) == [kind |-> "ident", word |-> word, args |-> <<>>]
Tree(kind, args) == [kind |-> kind, word |-> <<>>, args |-> args]
Malformed == Tree("malformed", <<>>)
NoFilter == Tree("none", <<>>)
\* One operand stands for itself; what holds a malformed tree is malformed.
Joined(kind, args) ==
  IF Malformed \in ToSet(args) THEN Malformed
  ELSE IF Len(args) = 1 /\ kind # "not" THEN args[1] ELSE Tree(kind, args)

\* What is read from a position on, [trees, pos]: an "or" the chains of `and` it joins, an
\* "and" its unary terms, a "unary" one tree; and where it ends.
Reading(words) ==
  LET At(p) == IF p \in DOMAIN words THEN words[p] ELSE <<>>
      Op == [or |-> Or, and |-> And]
      Lower == [or |-> "and", and |-> "unary"]
      read[what \in {"or", "and", "unary"}, p \in 1 .. Len(words) + 2] ==
        LET One(tree, pos) == [trees |-> <<tree>>, pos |-> pos]
        IN  IF what # "unary"
              THEN LET first == read[Lower[what], p]
                       tree == Joined(Lower[what], first.trees)
                       rest == read[what, first.pos + 1]
                   IN  IF At(first.pos) = Op[what] THEN [trees |-> <<tree>> \o rest.trees, pos |-> rest.pos]
                       ELSE One(tree, first.pos)
            ELSE
            CASE At(p) \in {<<>>, Close, And, Or} -> One(Malformed, p)
              [] At(p) = Not -> LET o == read["unary", p + 1] IN One(Joined("not", o.trees), o.pos)
              [] At(p) = Open -> LET c == read["or", p + 1]
                                 IN  One(IF At(c.pos) = Close THEN Joined("or", c.trees) ELSE Malformed, c.pos + 1)
              [] OTHER -> One(Ident(At(p)), p + 1)
  IN  read

parse_expr(words) ==
  LET c == Reading(words)["or", 1]
  IN  IF c.pos = Len(words) + 1 THEN Joined("or", c.trees) ELSE Malformed

\* A filter that cannot be read selects everything, as an absent one does.
compile_tree(words) ==
  LET tree == parse_expr(words) IN IF words = <<>> \/ tree = Malformed THEN NoFilter ELSE tree

\* An expression given on the command line replaces the project's; <<>> is not given.
Selection_load(project, env) ==
  LET Given(own, addopts) == compile_tree(IF own # <<>> THEN own ELSE addopts)
  IN  [keyword |-> Given(env.keyword, project.keyword), marker |-> Given(env.marker, project.marker),
       strict |-> project.strict \/ env.strict, declared |-> project.declared]

\* A field of the daemon's patch that is absent or null keeps the image's value; an
\* explicit empty expression clears it.
override(sel, patch) ==
  LET Field(own, f) == IF f.given THEN compile_tree(f.expr) ELSE own
  IN  [sel EXCEPT !.keyword = Field(@, patch.keyword), !.marker = Field(@, patch.marker),
                  !.strict = @ \/ patch.strict]
=============================================================================
