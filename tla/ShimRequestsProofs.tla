------------------------- MODULE ShimRequestsProofs -------------------------
(***************************************************************************)
(* A worker's requests keep the fixtures' resources, flag what the         *)
(* deadline leaves, remember the classes that failed and answer each kept  *)
(* variant once; and what a fixture's name means to a test, and whose      *)
(* instance the test is given under it: for any suites, plans, gates and   *)
(* filters that the assumptions of ShimRequests allow.                     *)
(***************************************************************************)
EXTENDS ShimRequests, FiniteSetTheorems, SequenceTheorems, WellFoundedInduction, TLAPS

(* Lists, whatever they are of.                                            *)

LEMMA Listed ==
  ASSUME NEW T, NEW s \in Seq(T)
  PROVE  IsList(s)
<1>1. s \in [1 .. Len(s) -> T] /\ Len(s) \in Nat
  BY LenProperties
<1>2. PICK n \in Nat : s \in [1 .. n -> T]
  BY <1>1
<1> DEFINE R == ToSet(s)
<1>3. \A k \in 1 .. n : s[k] \in R
  BY <1>2 DEF ToSet
<1>4. s \in [1 .. n -> R]
  BY <1>2, <1>3
<1> HIDE DEF R
<1>5. s \in Seq(R)
  BY <1>4
<1> QED BY <1>5 DEF IsList, R

LEMMA ListFacts ==
  ASSUME NEW s, IsList(s)
  PROVE  /\ Len(s) \in Nat /\ DOMAIN s = 1 .. Len(s) /\ (s # <<>> => Len(s) # 0)
         /\ \A k \in DOMAIN s : s[k] \in ToSet(s)
BY DEF IsList, ToSet

LEMMA EmptyList == IsList(<<>>) /\ Len(<<>>) = 0 /\ ToSet(<<>>) = {}
<1>1. <<>> \in Seq({})
  BY EmptySeq
<1>2. IsList(<<>>)
  BY <1>1, Listed
<1>3. Len(<<>>) = 0
  BY EmptySeq
<1>4. DOMAIN <<>> = {}
  BY <1>2, <1>3, ListFacts
<1> QED BY <1>2, <1>3, <1>4 DEF ToSet

LEMMA AppendList ==
  ASSUME NEW s, IsList(s), NEW e
  PROVE  /\ IsList(Append(s, e)) /\ Len(Append(s, e)) = Len(s) + 1
         /\ \A k \in 1 .. Len(s) : Append(s, e)[k] = s[k]
         /\ Append(s, e)[Len(s) + 1] = e
         /\ ToSet(Append(s, e)) = ToSet(s) \cup {e}
<1> DEFINE T == ToSet(s) \cup {e}
<1>1. s \in Seq(T) /\ e \in T
  BY SeqMonotonic DEF IsList
<1>2. /\ Append(s, e) \in Seq(T) /\ Len(Append(s, e)) = Len(s) + 1
      /\ \A k \in 1 .. Len(s) : Append(s, e)[k] = s[k]
      /\ Append(s, e)[Len(s) + 1] = e
  <2> HIDE DEF T
  <2> QED BY <1>1, AppendProperties
<1>3. IsList(Append(s, e))
  BY <1>2, Listed
<1>4. ToSet(Append(s, e)) = T
  <2>1. DOMAIN Append(s, e) = 1 .. (Len(s) + 1) /\ DOMAIN s = 1 .. Len(s) /\ Len(s) \in Nat
    BY <1>2, <1>3, ListFacts
  <2>2. \A k \in 1 .. (Len(s) + 1) : k \in 1 .. Len(s) \/ k = Len(s) + 1
    BY <2>1
  <2> QED BY <1>2, <2>1, <2>2 DEF ToSet
<1> QED BY <1>2, <1>3, <1>4

LEMMA FrontList ==
  ASSUME NEW s, IsList(s), s # <<>>
  PROVE  /\ IsList(Front(s)) /\ Len(Front(s)) = Len(s) - 1
         /\ \A k \in 1 .. Len(s) - 1 : Front(s)[k] = s[k]
<1> DEFINE T == ToSet(s)
<1>1. Len(s) \in Nat \ {0} /\ \A k \in 1 .. Len(s) - 1 : s[k] \in T
  BY ListFacts
<1> HIDE DEF T
<1>2. PICK n \in Nat : n = Len(s) - 1
  BY <1>1
<1>3. /\ SubSeq(s, 1, n) \in Seq(T) /\ Len(SubSeq(s, 1, n)) = n
      /\ \A k \in 1 .. n : SubSeq(s, 1, n)[k] = s[k]
  <2>1. 1 \in Int /\ n \in Int /\ \A k \in 1 .. n : s[k] \in T
    BY <1>1, <1>2
  <2>2. /\ SubSeq(s, 1, n) \in Seq(T)
        /\ Len(SubSeq(s, 1, n)) = IF 1 <= n THEN n - 1 + 1 ELSE 0
        /\ \A k \in 1 .. n - 1 + 1 : SubSeq(s, 1, n)[k] = s[1 + k - 1]
    BY <2>1, SubSeqProperties
  <2> QED BY <2>2
<1> QED BY <1>2, <1>3, Listed DEF Front

LEMMA ConcatList ==
  ASSUME NEW s, IsList(s), NEW t, IsList(t)
  PROVE  /\ IsList(s \o t) /\ Len(s \o t) = Len(s) + Len(t)
         /\ \A k \in 1 .. Len(s) : (s \o t)[k] = s[k]
         /\ \A k \in 1 .. Len(t) : (s \o t)[Len(s) + k] = t[k]
         /\ s \o <<>> = s /\ <<>> \o s = s
<1> DEFINE T == ToSet(s) \cup ToSet(t)
<1>1. s \in Seq(T) /\ t \in Seq(T)
  BY SeqMonotonic DEF IsList
<1> HIDE DEF T
<1>2. /\ s \o t \in Seq(T) /\ Len(s \o t) = Len(s) + Len(t)
      /\ \A k \in 1 .. Len(s) + Len(t) : (s \o t)[k] = IF k <= Len(s) THEN s[k] ELSE t[k - Len(s)]
  BY <1>1, ConcatProperties
<1>3. Len(s) \in Nat /\ Len(t) \in Nat
  BY <1>1
<1>4. \A k \in 1 .. Len(t) : Len(s) + k \in 1 .. Len(s) + Len(t) /\ ~(Len(s) + k <= Len(s)) /\ (Len(s) + k) - Len(s) = k
  BY <1>3
<1>5. \A k \in 1 .. Len(s) : k \in 1 .. Len(s) + Len(t) /\ k <= Len(s)
  BY <1>3
<1>6. s \o <<>> = s /\ <<>> \o s = s
  BY <1>1, ConcatEmptySeq
<1> QED BY <1>2, <1>4, <1>5, <1>6, Listed

\* Two lists of one length with the same members are one.
LEMMA ListsEqual ==
  ASSUME NEW s, IsList(s), NEW t, IsList(t), Len(s) = Len(t), \A k \in 1 .. Len(s) : s[k] = t[k]
  PROVE  s = t
<1> DEFINE T == ToSet(s) \cup ToSet(t)
<1>1. s \in Seq(T) /\ t \in Seq(T)
  BY SeqMonotonic DEF IsList
<1> HIDE DEF T
<1> QED BY <1>1, SeqEqual

\* A set of numbers that is not empty has a least one, and so its Min in it; its Max when
\* it is bounded.
LEMMA LeastNat ==
  ASSUME NEW T \in SUBSET Nat, T # {}
  PROVE  \E x \in T : \A y \in T : x <= y
<1> DEFINE R == OpToRel(<, Nat)
<1>1. \E x \in T : \A y \in T : ~(<<y, x>> \in R)
  <2>1. IsWellFoundedOn(R, Nat)
    BY NatLessThanWellFounded
  <2> HIDE DEF R
  <2> QED BY <2>1, WFMin, Zenon
<1>2. \A x, y \in Nat : y < x => <<y, x>> \in R
  BY DEF OpToRel
<1> HIDE DEF R
<1>3. PICK x \in T : \A y \in T : ~(<<y, x>> \in R)
  BY <1>1
<1>4. ASSUME NEW y \in T PROVE x <= y
  <2>1. x \in Nat /\ y \in Nat
    OBVIOUS
  <2>2. ~(y < x)
    BY <1>2, <1>3, <2>1
  <2> QED BY <2>1, <2>2
<1> QED BY <1>4

LEMMA Least ==
  ASSUME NEW T \in SUBSET Nat, T # {}
  PROVE  Min(T) \in T /\ \A y \in T : Min(T) <= y
BY LeastNat DEF Min

LEMMA Greatest ==
  ASSUME NEW n \in Nat, NEW T \in SUBSET (0 .. n), T # {}
  PROVE  Max(T) \in T /\ \A y \in T : y <= Max(T)
<1> DEFINE D == {n - x : x \in T}
<1>1. D \in SUBSET Nat /\ D # {}
  <2>1. \A x \in T : x \in Nat /\ n - x \in Nat
    OBVIOUS
  <2> QED BY <2>1
<1>2. PICK d \in D : \A y \in D : d <= y
  <2> HIDE DEF D
  <2> QED BY <1>1, LeastNat
<1>3. PICK x \in T : d = n - x
  BY <1>2
<1>4. ASSUME NEW y \in T PROVE x >= y
  <2>1. x \in Nat /\ y \in Nat /\ n - y \in D
    OBVIOUS
  <2>2. n - x <= n - y
    <3> HIDE DEF D
    <3> QED BY <1>2, <1>3, <2>1
  <2> QED BY <2>1, <2>2
<1>5. \A y \in T : x >= y
  BY <1>4
<1>6. Max(T) \in T /\ \A y \in T : Max(T) >= y
  BY <1>3, <1>5 DEF Max
<1>7. ASSUME NEW y \in T PROVE y <= Max(T)
  <2>1. PICK m : m = Max(T)
    OBVIOUS
  <2>2. m \in T /\ m >= y
    BY <1>6, <2>1
  <2>3. m \in Nat /\ y \in Nat
    BY <2>2
  <2> QED BY <2>1, <2>2, <2>3
<1> QED BY <1>6, <1>7
-----------------------------------------------------------------------------
(* Stacks of live fixtures.                                                *)

\* No fixture twice, and each built from those below it only.
Stacked(s) ==
  /\ IsList(s)
  /\ \A j, k \in DOMAIN s : Id(s[j]) = Id(s[k]) => j = k
  /\ \A k \in DOMAIN s : s[k].on \subseteq {Id(s[j]) : j \in 1 .. k - 1}
Held(s) == {Resource(e) : e \in ToSet(s)}
Known(s) == {Id(e) : e \in ToSet(s)}

LEMMA HeldIds ==
  ASSUME NEW s
  PROVE  {r.id : r \in Held(s)} = Known(s)
<1>1. \A e : Resource(e).id = Id(e)
  BY DEF Resource
<1> QED BY <1>1 DEF Held, Known

LEMMA Pushed ==
  ASSUME NEW s, Stacked(s), NEW e, Id(e) \notin Known(s), e.on \subseteq Known(s)
  PROVE  Stacked(Append(s, e)) /\ Held(Append(s, e)) = Held(s) \cup {Resource(e)}
<1> DEFINE n == Len(s)
<1>1. /\ IsList(s) /\ n \in Nat /\ DOMAIN s = 1 .. n
      /\ Known(s) = {Id(s[j]) : j \in 1 .. n}
  BY ListFacts DEF Stacked, Known, ToSet
<1>2. PICK t : t = Append(s, e)
  OBVIOUS
<1>3. /\ IsList(t) /\ DOMAIN t = 1 .. n + 1 /\ ToSet(t) = ToSet(s) \cup {e}
      /\ \A k \in 1 .. n : t[k] = s[k]
      /\ t[n + 1] = e
  <2>1. /\ IsList(t) /\ Len(t) = n + 1 /\ ToSet(t) = ToSet(s) \cup {e}
        /\ \A k \in 1 .. n : t[k] = s[k]
        /\ t[n + 1] = e
    BY <1>1, <1>2, AppendList
  <2> QED BY <2>1, ListFacts
<1> HIDE DEF n
<1>4. \A k \in 1 .. n + 1 : k \in 1 .. n \/ k = n + 1
  BY <1>1
<1>5. \A k \in 1 .. n : Id(s[k]) # Id(e)
  BY <1>1
<1>6. ASSUME NEW j \in 1 .. n + 1, NEW k \in 1 .. n + 1, Id(t[j]) = Id(t[k]) PROVE j = k
  BY <1>1, <1>3, <1>4, <1>5, <1>6 DEF Stacked
<1>7. ASSUME NEW k \in 1 .. n + 1 PROVE t[k].on \subseteq {Id(t[j]) : j \in 1 .. k - 1}
  <2>1. \A j \in 1 .. k - 1 : j \in 1 .. n
    BY <1>1
  <2>2. {Id(t[j]) : j \in 1 .. k - 1} = {Id(s[j]) : j \in 1 .. k - 1}
    BY <2>1, <1>3
  <2>3. CASE k \in 1 .. n
    BY <2>2, <2>3, <1>1, <1>3 DEF Stacked
  <2>4. CASE k = n + 1
    <3>1. k - 1 = n
      BY <2>4, <1>1
    <3> QED BY <3>1, <2>2, <2>4, <1>1, <1>3
  <2> QED BY <2>3, <2>4, <1>4
<1>8. Stacked(t)
  BY <1>3, <1>6, <1>7 DEF Stacked
<1>9. Held(t) = Held(s) \cup {Resource(e)}
  BY <1>3 DEF Held
<1> QED BY <1>2, <1>8, <1>9

LEMMA Popped ==
  ASSUME NEW s, Stacked(s), s # <<>>
  PROVE  /\ Stacked(Front(s))
         /\ \E r \in Held(s) : /\ Held(Front(s)) = Held(s) \ {r}
                               /\ \A q \in Held(s) : r.id \notin q.on
<1> DEFINE n == Len(s)
<1>1. /\ IsList(s) /\ n \in Nat \ {0} /\ DOMAIN s = 1 .. n
  BY ListFacts DEF Stacked
<1>2. PICK t : t = Front(s)
  OBVIOUS
<1>3. IsList(t) /\ DOMAIN t = 1 .. n - 1 /\ \A k \in 1 .. n - 1 : t[k] = s[k]
  <2>1. IsList(t) /\ Len(t) = n - 1 /\ \A k \in 1 .. n - 1 : t[k] = s[k]
    BY <1>1, <1>2, FrontList
  <2> QED BY <2>1, ListFacts
<1> HIDE DEF n
<1>4. \A k \in 1 .. n : k \in 1 .. n - 1 \/ k = n
  BY <1>1
<1>5. \A k \in 1 .. n - 1 : k \in 1 .. n
  BY <1>1
<1>6. Stacked(t)
  <2>1. ASSUME NEW k \in 1 .. n - 1 PROVE t[k].on \subseteq {Id(t[j]) : j \in 1 .. k - 1}
    <3>1. \A j \in 1 .. k - 1 : j \in 1 .. n - 1
      BY <1>1
    <3>2. {Id(t[j]) : j \in 1 .. k - 1} = {Id(s[j]) : j \in 1 .. k - 1}
      BY <3>1, <1>3
    <3> QED BY <3>2, <1>1, <1>3, <1>5 DEF Stacked
  <2>2. \A j, k \in 1 .. n - 1 : Id(t[j]) = Id(t[k]) => j = k
    BY <1>1, <1>3, <1>5 DEF Stacked
  <2> QED BY <2>1, <2>2, <1>3 DEF Stacked
<1>7. ToSet(s) = ToSet(t) \cup {s[n]} /\ ToSet(t) \subseteq ToSet(s)
  <2>1. n \in 1 .. n
    BY <1>1
  <2> QED BY <2>1, <1>1, <1>3, <1>4, <1>5 DEF ToSet
<1>8. \A e \in ToSet(t) : Id(e) # Id(s[n])
  <2>1. \A k \in 1 .. n - 1 : k # n /\ n \in 1 .. n
    BY <1>1
  <2> QED BY <2>1, <1>1, <1>3, <1>5 DEF Stacked, ToSet
<1>9. Held(t) = Held(s) \ {Resource(s[n])} /\ Resource(s[n]) \in Held(s)
  <2>1. \A e \in ToSet(t) : Resource(e) # Resource(s[n])
    BY <1>8 DEF Resource
  <2> QED BY <2>1, <1>7 DEF Held
<1>10. ASSUME NEW q \in Held(s) PROVE Resource(s[n]).id \notin q.on
  <2>1. PICK k \in 1 .. n : q = Resource(s[k])
    BY <1>1 DEF Held, ToSet
  <2>2. q.on \subseteq {Id(s[j]) : j \in 1 .. k - 1}
    BY <2>1, <1>1 DEF Stacked, Resource
  <2>3. \A j \in 1 .. k - 1 : j \in 1 .. n /\ n \in 1 .. n /\ j # n
    BY <1>1
  <2>4. \A j \in 1 .. k - 1 : Id(s[j]) # Id(s[n])
    BY <2>3, <1>1 DEF Stacked
  <2> QED BY <2>2, <2>4 DEF Resource
<1> QED BY <1>2, <1>6, <1>9, <1>10

LEMMA BuiltFromKnown ==
  ASSUME NEW s, Stacked(s), NEW r, r \in Held(s)
  PROVE  r.on \subseteq Known(s)
<1>1. PICK k \in DOMAIN s : r = Resource(s[k])
  BY DEF Held, ToSet
<1>2. Len(s) \in Nat /\ DOMAIN s = 1 .. Len(s)
  BY ListFacts DEF Stacked
<1>3. \A j \in 1 .. k - 1 : j \in DOMAIN s
  BY <1>2
<1>4. r.on \subseteq {Id(s[j]) : j \in 1 .. k - 1}
  BY <1>1 DEF Stacked, Resource
<1> QED BY <1>3, <1>4 DEF Known, ToSet

\* What stands below a stack is one.
LEMMA Lower ==
  ASSUME NEW s, NEW t, IsList(s), IsList(t), Stacked(s \o t)
  PROVE  Stacked(s) /\ ToSet(s \o t) = ToSet(s) \cup ToSet(t)
<1> DEFINE n == Len(s)
           m == Len(t)
<1>1. PICK u : u = s \o t
  OBVIOUS
<1>2. /\ n \in Nat /\ DOMAIN s = 1 .. n /\ m \in Nat /\ DOMAIN t = 1 .. m
      /\ DOMAIN u = 1 .. n + m /\ \A k \in 1 .. n : u[k] = s[k]
      /\ \A k \in 1 .. m : u[n + k] = t[k]
  <2>1. /\ IsList(u) /\ Len(u) = n + m /\ \A k \in 1 .. n : u[k] = s[k]
        /\ \A k \in 1 .. m : u[n + k] = t[k]
    BY <1>1, ConcatList
  <2> QED BY <2>1, ListFacts
<1> HIDE DEF n, m
<1>3. /\ \A k \in 1 .. n : k \in 1 .. n + m
      /\ \A k \in 1 .. m : n + k \in 1 .. n + m
      /\ \A k \in 1 .. n + m : k \in 1 .. n \/ (k - n \in 1 .. m /\ n + (k - n) = k)
  BY <1>2
<1>4. Stacked(u)
  BY <1>1
<1>5. Stacked(s)
  <2>1. ASSUME NEW k \in 1 .. n PROVE s[k].on \subseteq {Id(s[j]) : j \in 1 .. k - 1}
    <3>1. \A j \in 1 .. k - 1 : j \in 1 .. n
      BY <1>2
    <3>2. {Id(u[j]) : j \in 1 .. k - 1} = {Id(s[j]) : j \in 1 .. k - 1}
      BY <3>1, <1>2
    <3> QED BY <3>2, <1>2, <1>3, <1>4 DEF Stacked
  <2>2. \A j, k \in 1 .. n : Id(s[j]) = Id(s[k]) => j = k
    BY <1>2, <1>3, <1>4 DEF Stacked
  <2> QED BY <2>1, <2>2, <1>2 DEF Stacked
<1>6. ToSet(u) = ToSet(s) \cup ToSet(t)
  <2>1. ASSUME NEW x \in ToSet(u) PROVE x \in ToSet(s) \cup ToSet(t)
    <3>1. PICK k \in 1 .. n + m : x = u[k]
      BY <1>2 DEF ToSet
    <3> QED BY <3>1, <1>2, <1>3 DEF ToSet
  <2>2. ToSet(s) \cup ToSet(t) \subseteq ToSet(u)
    BY <1>2, <1>3 DEF ToSet
  <2> QED BY <2>1, <2>2
<1> QED BY <1>1, <1>5, <1>6
-----------------------------------------------------------------------------
(* Where the worker is, and what there is where.                           *)

Steps == {"idle", "planned", "combo", "stale", "wide", "case", "fixtures", "down", "ended"}
Placed ==
  /\ suite \in Suites /\ turn \in Nat \ {0} /\ child \in Nat \ {0}
  /\ turn <= Len(suite.requests) => child <= Len(Request.tests)
  /\ pc \in Steps
  /\ pc \notin {"idle", "ended"} =>
       turn <= Len(suite.requests) /\ plan = Plans[suite][turn][child]
  /\ pc \notin {"fixtures", "down"} => locals = <<>>
  /\ pc # "down" => running = NoCase
\* The records that are assigned field by field have the fields they started with.
Fielded ==
  /\ DOMAIN running = DOMAIN NoCase /\ running.struck \in BOOLEAN
  /\ DOMAIN xunit = DOMAIN NoXunit
Placing == Placed /\ Fielded

LEMMA Position ==
  ASSUME Placed, turn <= Len(suite.requests)
  PROVE  /\ IsList(suite.requests) /\ turn \in DOMAIN suite.requests
         /\ IsList(Request.tests) /\ child \in DOMAIN Request.tests
         /\ Request.inherited \/ Len(Request.tests) = 1
         /\ test \in TestsOf(suite)
<1>1. /\ IsList(suite.requests)
      /\ \A p \in DOMAIN suite.requests :
           /\ IsList(suite.requests[p].tests) /\ suite.requests[p].tests # <<>>
           /\ suite.requests[p].inherited \/ Len(suite.requests[p].tests) = 1
  BY SuitesAreCollected DEF Placed
<1>2. turn \in DOMAIN suite.requests
  <2>1. Len(suite.requests) \in Nat /\ DOMAIN suite.requests = 1 .. Len(suite.requests)
    BY <1>1, ListFacts
  <2> QED BY <2>1 DEF Placed
<1>3. IsList(Request.tests) /\ (Request.inherited \/ Len(Request.tests) = 1)
  BY <1>1, <1>2 DEF Request
<1>4. child \in DOMAIN Request.tests
  <2>1. Len(Request.tests) \in Nat /\ DOMAIN Request.tests = 1 .. Len(Request.tests)
    BY <1>3, ListFacts
  <2> QED BY <2>1 DEF Placed
<1>5. test \in TestsOf(suite)
  BY <1>2, <1>4 DEF test, Request, TestsOf, ToSet
<1> QED BY <1>1, <1>2, <1>3, <1>4, <1>5

LEMMA PlanFacts ==
  ASSUME Placed, pc \notin {"idle", "ended"}
  PROVE  /\ plan.closure \in Seq(DOMAIN suite.defs) /\ IsList(plan.kept)
         /\ IsInjective(plan.closure)
         /\ \A n \in ToSet(plan.requested) :
              LET d == resolve(suite, test, n, NoCeiling)
              IN  d # 0 =>
                    \E k \in DOMAIN plan.closure :
                      /\ plan.closure[k] = d
                      /\ \A j \in DOMAIN plan.closure \ {k} :
                           suite.defs[plan.closure[j]].name = n =>
                             j < k /\ n \in ToSet(deps_of(suite, d))
<1>1. turn \in DOMAIN suite.requests /\ child \in DOMAIN suite.requests[turn].tests
  BY Position DEF Placed, Request
<1>2. plan = Plans[suite][turn][child] /\ suite \in Suites
  BY DEF Placed
<1>3. test = suite.requests[turn].tests[child]
  BY DEF test, Request
<1> DEFINE made == Plans[suite][turn][child]
           deps == made.closure
           asks == suite.requests[turn].tests[child]
<1>4. /\ deps \in Seq(DOMAIN suite.defs) /\ IsList(made.kept) /\ IsInjective(deps)
      /\ \A n \in ToSet(made.requested) :
           LET d == resolve(suite, asks, n, NoCeiling)
           IN  d # 0 =>
                 \E k \in DOMAIN deps :
                   /\ deps[k] = d
                   /\ \A j \in DOMAIN deps \ {k} :
                        suite.defs[deps[j]].name = n =>
                          j < k /\ n \in ToSet(deps_of(suite, d))
  BY <1>1, <1>2, PlansAreClosed, Zenon
<1> QED BY <1>2, <1>3, <1>4, Zenon

\* The move to the next test that goes with every answer.
Moves ==
  /\ pc' = "idle" /\ running' = NoCase /\ results' = <<>>
  /\ \/ child = Len(Request.tests) /\ turn' = turn + 1 /\ child' = 1
     \/ child # Len(Request.tests) /\ turn' = turn /\ child' = child + 1

LEMMA PlacedNext ==
  ASSUME Placed, pc \notin {"idle", "ended"}, Moves, suite' = suite, locals' = <<>>
  PROVE  Placed'
<1>1. turn \in Nat \ {0} /\ child \in Nat \ {0} /\ turn <= Len(suite.requests)
  BY DEF Placed
<1>2. /\ IsList(suite.requests) /\ IsList(Request.tests) /\ child \in DOMAIN Request.tests
  BY <1>1, Position
<1>3. Len(Request.tests) \in Nat /\ child <= Len(Request.tests)
  BY <1>1, <1>2, ListFacts DEF Placed
<1>4. \A p \in DOMAIN suite.requests : 1 <= Len(suite.requests[p].tests)
  <2>1. \A p \in DOMAIN suite.requests : IsList(suite.requests[p].tests) /\ suite.requests[p].tests # <<>>
    BY SuitesAreCollected DEF Placed
  <2>2. ASSUME NEW p \in DOMAIN suite.requests PROVE 1 <= Len(suite.requests[p].tests)
    <3>1. Len(suite.requests[p].tests) \in Nat /\ Len(suite.requests[p].tests) # 0
      BY <2>1, ListFacts
    <3> QED BY <3>1
  <2> QED BY <2>2
<1>5. Len(suite.requests) \in Nat /\ DOMAIN suite.requests = 1 .. Len(suite.requests)
  BY <1>2, ListFacts
<1>6. /\ turn' \in Nat \ {0} /\ child' \in Nat \ {0}
      /\ turn' <= Len(suite'.requests) => child' <= Len(suite'.requests[turn'].tests)
  <2>1. CASE child = Len(Request.tests) /\ turn' = turn + 1 /\ child' = 1
    <3>1. turn + 1 \in Nat \ {0} /\ 1 \in Nat \ {0}
      BY <1>1
    <3>2. turn + 1 <= Len(suite.requests) => turn + 1 \in DOMAIN suite.requests
      BY <1>1, <1>5
    <3> QED BY <2>1, <3>1, <3>2, <1>4
  <2>2. CASE child # Len(Request.tests) /\ turn' = turn /\ child' = child + 1
    <3>1. child + 1 \in Nat \ {0} /\ child + 1 <= Len(Request.tests)
      BY <2>2, <1>1, <1>3
    <3> QED BY <2>2, <3>1, <1>1 DEF Request
  <2> QED BY <2>1, <2>2 DEF Moves
<1> QED BY <1>6 DEF Placed, Moves, Steps, Request

LEMMA PlacedInit ==
  ASSUME ShimInit
  PROVE  Placing
<1>1. \A p \in DOMAIN suite.requests : IsList(suite.requests[p].tests) /\ suite.requests[p].tests # <<>>
  BY SuitesAreCollected DEF ShimInit
<1>2. IsList(suite.requests)
  BY SuitesAreCollected DEF ShimInit
<1>3. 1 <= Len(suite.requests) => 1 <= Len(suite.requests[1].tests)
  <2>1. HAVE 1 <= Len(suite.requests)
  <2>2. 1 \in DOMAIN suite.requests
    BY <1>2, <2>1, ListFacts
  <2>3. Len(suite.requests[1].tests) \in Nat \ {0}
    BY <1>1, <2>2, ListFacts
  <2> QED BY <2>3
<1> QED BY <1>3 DEF ShimInit, Placing, Placed, Fielded, Steps, Request, NoCase, NoXunit

LEMMA XunitFields ==
  ASSUME Fielded
  PROVE  DOMAIN ClassSetup.xunit = DOMAIN NoXunit /\ DOMAIN Interrupted = DOMAIN NoXunit
BY DEF Fielded, ClassSetup, Interrupted

LEMMA PlacedStep ==
  ASSUME Placing, [ShimNext]_shimVars
  PROVE  Placing'
<1> USE DEF Placing
<1>1. CASE MakePlan
  BY <1>1 DEF MakePlan, Placed, Fielded, Steps, Request
<1>2. CASE Begin
  <2>1. DOMAIN xunit' = DOMAIN xunit
    BY <1>2 DEF Begin
  <2>2. CASE Runs
    BY <1>2, <2>1, <2>2 DEF Begin, Placed, Fielded, Steps, Request
  <2>3. CASE ~Runs
    <3>1. Moves /\ suite' = suite /\ locals' = <<>> /\ pc \notin {"idle", "ended"}
      BY <1>2, <2>3 DEF Begin, Placed, Answered, Moves
    <3> QED BY <3>1, <2>1, PlacedNext DEF Fielded, Moves, NoCase
  <2> QED BY <2>2, <2>3
<1>3. CASE Combo
  BY <1>3 DEF Combo, Placed, Fielded, Steps, Request
<1>4. CASE TearDownStale
  BY <1>4 DEF TearDownStale, Placed, Fielded, Steps, Request
<1>5. CASE ModuleSetup
  <2>1. DOMAIN xunit' = DOMAIN xunit
    BY <1>5 DEF ModuleSetup
  <2>2. CASE Answered(Reply("error"))
    <3>1. Moves /\ suite' = suite /\ locals' = <<>> /\ pc \notin {"idle", "ended"}
      BY <1>5, <2>2 DEF ModuleSetup, Placed, Answered, Moves
    <3> QED BY <3>1, <2>1, PlacedNext DEF Fielded, Moves, NoCase
  <2>3. CASE ~Answered(Reply("error"))
    BY <1>5, <2>1, <2>3 DEF ModuleSetup, Placed, Fielded, Steps, Request
  <2> QED BY <2>2, <2>3
<1>6. CASE SyncWider
  <2>1. DOMAIN xunit' = DOMAIN xunit
    BY <1>6 DEF SyncWider
  <2>2. CASE Answered(Reply("error"))
    <3>1. Moves /\ suite' = suite /\ locals' = <<>> /\ pc \notin {"idle", "ended"}
      BY <1>6, <2>2 DEF SyncWider, Placed, Answered, Moves
    <3> QED BY <3>1, <2>1, PlacedNext DEF Fielded, Moves, NoCase
  <2>3. CASE ~Answered(Reply("error"))
    BY <1>6, <2>1, <2>3 DEF SyncWider, Placed, Fielded, Steps, Request
  <2> QED BY <2>2, <2>3
<1>7. CASE Case
  BY <1>7 DEF Case, NextCase, Placed, Fielded, Steps, Request
<1>8. CASE SetUpFunction
  BY <1>8 DEF SetUpFunction, Placed, Fielded, Steps, Request, NoCase
<1>9. CASE Body
  <2>1. Fielded'
    BY <1>9, XunitFields DEF Body, Fielded, NoCase
  <2> QED BY <1>9, <2>1 DEF Body, Placed, Steps, Request
<1>10. CASE TearDown
  BY <1>10 DEF TearDown, Placed, Fielded, Steps, Request
<1>11. CASE CaseDone
  BY <1>11 DEF CaseDone, NextCase, Placed, Fielded, Steps, Request, NoCase
<1>12. CASE Strike
  <2>1. Fielded'
    BY <1>12, XunitFields DEF Strike, Fielded, NoCase
  <2> QED BY <1>12, <2>1 DEF Strike, Placed, Steps, Request
<1>13. CASE Respond
  <2>1. DOMAIN xunit' = DOMAIN xunit
    BY <1>13 DEF Respond
  <2>2. Moves /\ suite' = suite /\ locals' = <<>> /\ pc \notin {"idle", "ended"}
    BY <1>13 DEF Respond, Placed, Answered, Moves
  <2> QED BY <2>1, <2>2, PlacedNext DEF Fielded, Moves, NoCase
<1>14. CASE TearDownAll
  BY <1>14 DEF TearDownAll, Placed, Fielded, Steps, Request, XunitTornDown, NoXunit
<1>15. CASE UNCHANGED shimVars
  BY <1>15 DEF shimVars, Placed, Fielded, Steps, Request
<1> QED BY <1>1, <1>2, <1>3, <1>4, <1>5, <1>6, <1>7, <1>8, <1>9, <1>10, <1>11, <1>12, <1>13, <1>14, <1>15
        DEF ShimNext
-----------------------------------------------------------------------------
(* The live fixtures, wider ones below the case's own, are a stack.        *)

Stack == active \o locals
Standing ==
  /\ IsList(active) /\ IsList(locals) /\ Stacked(Stack)
  /\ \A e \in ToSet(active) : rank(Def(e)) > 0
  /\ \A e \in ToSet(locals) : rank(Def(e)) = 0
\* Without Placing, function fixtures might lie under wider ones; without the ranks, two
\* of a name might share an id.
KInv == Placing /\ Standing

LEMMA LastNamedIn ==
  ASSUME NEW es, IsList(es), NEW name, LastNamed(es, name) # 0
  PROVE  es[LastNamed(es, name)] \in ToSet(es)
<1> DEFINE at == {k \in DOMAIN es : Def(es[k]).name = name}
<1>1. Len(es) \in Nat /\ DOMAIN es = 1 .. Len(es)
  BY ListFacts
<1>2. at # {} /\ LastNamed(es, name) = Max(at)
  BY DEF LastNamed
<1>3. at \in SUBSET (0 .. Len(es)) /\ at \subseteq DOMAIN es
  BY <1>1
<1> HIDE DEF at
<1>4. Max(at) \in at
  BY <1>1, <1>2, <1>3, Greatest
<1> QED BY <1>2, <1>3, <1>4 DEF ToSet

LEMMA BoundLive ==
  ASSUME IsList(active), NEW ls, IsList(ls), NEW name
  PROVE  Bound(ls, name) \subseteq ToSet(active) \cup ToSet(ls)
BY LastNamedIn DEF Bound

LEMMA EntryFacts ==
  ASSUME IsList(active), NEW ls, IsList(ls), NEW d
  PROVE  /\ SetUp(d, ls).entry.def = d
         /\ SetUp(d, ls).entry.key = instance_key(suite.defs[d], test)
         /\ SetUp(d, ls).entry.on \subseteq Known(active) \cup Known(ls)
<1> DEFINE deps == deps_of(suite, d)
           on == UNION {Bound(ls, deps[k]) : k \in DOMAIN deps}
<1>1. SetUp(d, ls).entry.on = {Id(e) : e \in on}
  BY DEF SetUp
<1>2. on \subseteq ToSet(active) \cup ToSet(ls)
  BY BoundLive
<1> HIDE DEF on
<1>3. {Id(e) : e \in on} \subseteq Known(active) \cup Known(ls)
  BY <1>2 DEF Known
<1>4. SetUp(d, ls).entry.def = d /\ SetUp(d, ls).entry.key = instance_key(suite.defs[d], test)
  BY DEF SetUp
<1> QED BY <1>1, <1>3, <1>4

LEMMA MissingFacts ==
  ASSUME Placed, pc \notin {"idle", "ended"}, Missing # 0
  PROVE  /\ rank(suite.defs[Missing]) > 0
         /\ instance_key(suite.defs[Missing], test) \notin Live
<1> DEFINE ks == {k \in DOMAIN plan.closure : /\ rank(suite.defs[plan.closure[k]]) > 0
                                             /\ instance_key(suite.defs[plan.closure[k]], test) \notin Live}
<1>1. ks # {} /\ Missing = plan.closure[Min(ks)]
  BY DEF Missing
<1>2. ks \in SUBSET Nat
  BY PlanFacts
<1>3. Min(ks) \in ks
  <2> HIDE DEF ks
  <2> QED BY <1>1, <1>2, Least
<1> QED BY <1>1, <1>3

LEMMA NextFacts ==
  ASSUME Placed, pc \notin {"idle", "ended"}, NextOfOurs # 0
  PROVE  /\ rank(suite.defs[NextOfOurs]) = 0
         /\ \A e \in ToSet(locals) : e.def # NextOfOurs
<1> DEFINE ks == {k \in DOMAIN plan.closure : plan.closure[k] \in Ours \ {e.def : e \in ToSet(locals)}}
<1>1. ks # {} /\ NextOfOurs = plan.closure[Min(ks)]
  BY DEF NextOfOurs
<1>2. ks \in SUBSET Nat
  BY PlanFacts
<1>3. Min(ks) \in ks
  <2> HIDE DEF ks
  <2> QED BY <1>1, <1>2, Least
<1>4. NextOfOurs \in Ours /\ NextOfOurs \notin {e.def : e \in ToSet(locals)}
  BY <1>1, <1>3
<1> QED BY <1>4 DEF Ours

LEMMA AppendConcat ==
  ASSUME NEW s, IsList(s), NEW t, IsList(t), NEW e
  PROVE  s \o Append(t, e) = Append(s \o t, e)
<1> DEFINE T == ToSet(s) \cup ToSet(t) \cup {e}
<1>1. s \in Seq(T) /\ t \in Seq(T) /\ e \in T
  BY SeqMonotonic DEF IsList
<1> HIDE DEF T
<1>2. <<e>> \in Seq(T) /\ s \o t \in Seq(T)
  BY <1>1, ConcatProperties
<1>3. Append(t, e) = t \o <<e>> /\ Append(s \o t, e) = (s \o t) \o <<e>>
  BY <1>1, <1>2, AppendIsConcat
<1>4. (s \o t) \o <<e>> = s \o (t \o <<e>>)
  BY <1>1, <1>2, ConcatAssociative
<1> QED BY <1>3, <1>4

LEMMA FrontConcat ==
  ASSUME NEW s, IsList(s), NEW t, IsList(t), t # <<>>
  PROVE  s \o Front(t) = Front(s \o t) /\ s \o t # <<>>
<1> DEFINE n == Len(s)
           m == Len(t)
           f == Front(t)
           u == s \o t
           g == Front(u)
           h == s \o f
<1>1. n \in Nat /\ m \in Nat \ {0}
  BY ListFacts
<1>2. IsList(f) /\ Len(f) = m - 1 /\ \A k \in 1 .. m - 1 : f[k] = t[k]
  BY FrontList
<1>3. IsList(u) /\ Len(u) = n + m
  BY ConcatList
<1>4. (\A k \in 1 .. n : u[k] = s[k]) /\ \A k \in 1 .. m : u[n + k] = t[k]
  BY ConcatList
<1>5. u # <<>>
  <2> HIDE DEF u
  <2> QED BY <1>1, <1>3, EmptyList
<1>6. IsList(g) /\ Len(g) = Len(u) - 1 /\ \A k \in 1 .. Len(u) - 1 : g[k] = u[k]
  <2> HIDE DEF u
  <2> QED BY <1>3, <1>5, FrontList
<1>7. IsList(h) /\ Len(h) = n + Len(f)
  <2>1. IsList(f)
    BY <1>2
  <2> HIDE DEF f
  <2> QED BY <2>1, ConcatList
<1>8. (\A k \in 1 .. n : h[k] = s[k]) /\ \A k \in 1 .. Len(f) : h[n + k] = f[k]
  <2>1. IsList(f)
    BY <1>2
  <2> HIDE DEF f
  <2> QED BY <2>1, ConcatList
<1> HIDE DEF n, m, f, u, g, h
<1>9. Len(f) = m - 1 /\ Len(u) - 1 = n + m - 1 /\ Len(h) = n + m - 1 /\ Len(g) = n + m - 1
  BY <1>1, <1>2, <1>3, <1>6, <1>7
<1>10. ASSUME NEW k \in 1 .. n + m - 1 PROVE h[k] = g[k]
  <2>1. g[k] = u[k]
    BY <1>6, <1>9
  <2>2. CASE k \in 1 .. n
    BY <2>1, <2>2, <1>4, <1>8
  <2>3. CASE k \notin 1 .. n
    <3>1. PICK j \in 1 .. m - 1 : k = n + j
      <4>1. k - n \in 1 .. m - 1 /\ k = n + (k - n)
        BY <2>3, <1>1
      <4> QED BY <4>1
    <3>2. j \in 1 .. m /\ j \in 1 .. Len(f)
      BY <1>1, <1>9
    <3>3. h[n + j] = f[j] /\ f[j] = t[j] /\ u[n + j] = t[j]
      BY <3>2, <1>2, <1>4, <1>8
    <3> QED BY <2>1, <3>1, <3>3
  <2> QED BY <2>2, <2>3
<1>11. h = g
  BY <1>6, <1>7, <1>9, <1>10, ListsEqual
<1> QED BY <1>5, <1>11 DEF f, g, h, u

LEMMA Acquires ==
  ASSUME Stacked(Stack), NEW e, Id(e) \notin Known(Stack), e.on \subseteq Known(Stack),
         Stack' = Append(Stack, e), leaked' = leaked
  PROVE  Stacked(Stack') /\ Resources!Acquire
<1>1. Stacked(Stack') /\ Held(Stack') = Held(Stack) \cup {Resource(e)}
  BY Pushed
<1>2. {r.id : r \in Held(Stack)} = Known(Stack)
  BY HeldIds
<1>3. Resource(e).id = Id(e) /\ Resource(e).on = e.on
  BY DEF Resource
<1>4. Resource(e) \notin Held(Stack)
  BY <1>2, <1>3
<1>5. /\ Resource(e) \in Held(Stack') \ Held(Stack) /\ Held(Stack') = Held(Stack) \cup {Resource(e)}
      /\ Resource(e).id \notin {r.id : r \in Held(Stack)}
      /\ Resource(e).on \subseteq {r.id : r \in Held(Stack)}
  BY <1>1, <1>2, <1>3, <1>4
<1>6. Resources!Acquire
  BY <1>5 DEF Resources!Acquire, Resources!Ids, Held, Stack
<1> QED BY <1>1, <1>6

LEMMA Releases ==
  ASSUME Stacked(Stack), Stack # <<>>, Stack' = Front(Stack), leaked' = leaked
  PROVE  Stacked(Stack') /\ Resources!Release
<1>1. /\ Stacked(Stack')
      /\ \E r \in Held(Stack) : Held(Stack') = Held(Stack) \ {r} /\ \A q \in Held(Stack) : r.id \notin q.on
  BY Popped
<1>2. Resources!Release
  BY <1>1 DEF Resources!Release, Held, Stack
<1> QED BY <1>1, <1>2

\* Most steps leave what is live alone.
LEMMA StandingStill ==
  ASSUME Standing, suite' = suite, active' = active, locals' = locals
  PROVE  Standing'
BY DEF Standing, Stack, Def

LEMMA StandingActive ==
  ASSUME Standing, locals = <<>>
  PROVE  Stack = active /\ Known(Stack) = Known(active)
BY ConcatList DEF Standing, Stack

\* The wider fixture in hand goes down: between modules, or at the end.
LEMMA ActiveDown ==
  ASSUME Standing, locals = <<>>, active # <<>>, active' = Front(active),
         UNCHANGED <<suite, locals, leaked>>
  PROVE  Standing' /\ Resources!Release
<1>1. IsList(active') /\ Stack = active /\ Stack' = active'
  <2>1. IsList(active')
    BY FrontList DEF Standing
  <2>2. Stack' = active' \o <<>>
    BY DEF Stack
  <2> QED BY <2>1, <2>2, ConcatList, StandingActive
<1>2. Stacked(Stack') /\ Resources!Release
  BY <1>1, Releases DEF Standing
<1>3. ToSet(active') \subseteq ToSet(active)
  <2>1. Len(active) \in Nat /\ DOMAIN active = 1 .. Len(active) /\ DOMAIN active' = 1 .. Len(active')
    BY <1>1, ListFacts DEF Standing
  <2>2. Len(active') = Len(active) - 1 /\ \A k \in 1 .. Len(active) - 1 : active'[k] = active[k]
    BY FrontList DEF Standing
  <2>3. \A k \in DOMAIN active' : k \in DOMAIN active /\ active'[k] = active[k]
    BY <2>1, <2>2
  <2> QED BY <2>3 DEF ToSet
<1> QED BY <1>1, <1>2, <1>3 DEF Standing, Def

\* A wider fixture goes up, when its instance is not there.
LEMMA ActiveUp ==
  ASSUME KInv, pc \notin {"idle", "ended"}, locals = <<>>, Missing # 0,
         active' = Append(active, SetUp(Missing, <<>>).entry), UNCHANGED <<suite, locals, leaked>>
  PROVE  Standing' /\ Resources!Acquire
<1>1. PICK e : e = SetUp(Missing, <<>>).entry
  OBVIOUS
<1>2. PICK d : d = Missing
  OBVIOUS
<1>3. e.def = d /\ e.key = instance_key(suite.defs[d], test) /\ e.on \subseteq Known(active)
  <2>1. Known(<<>>) = {} /\ IsList(<<>>)
    BY EmptyList DEF Known
  <2> QED BY <2>1, <1>1, <1>2, EntryFacts DEF KInv, Standing
<1>4. rank(suite.defs[d]) > 0 /\ e.key \notin Live
  BY <1>2, <1>3, MissingFacts DEF KInv, Placing
<1>5. Id(e) \notin Known(active)
  <2>1. ASSUME NEW x \in ToSet(active), Id(x) = Id(e) PROVE FALSE
    <3>1. x.key = e.key
      BY <2>1 DEF Id
    <3>2. x.key \in Live
      BY DEF Live, ToSet
    <3> QED BY <3>1, <3>2, <1>4
  <2> QED BY <2>1 DEF Known
<1>6. /\ IsList(active') /\ ToSet(active') = ToSet(active) \cup {e} /\ Stack = active
      /\ Stack' = Append(Stack, e)
  <2>1. active' = Append(active, e)
    BY <1>1
  <2>2. IsList(active') /\ ToSet(active') = ToSet(active) \cup {e}
    BY <2>1, AppendList DEF KInv, Standing
  <2>3. Stack' = active' \o <<>>
    BY DEF Stack
  <2> QED BY <2>1, <2>2, <2>3, ConcatList, StandingActive DEF KInv
<1>7. Stacked(Stack') /\ Resources!Acquire
  BY <1>3, <1>5, <1>6, Acquires DEF KInv, Standing
<1>8. rank(Def(e)) > 0
  BY <1>3, <1>4 DEF Def
<1> QED BY <1>6, <1>7, <1>8 DEF KInv, Standing, Def

\* A function fixture goes up, above all that is live.
LEMMA LocalUp ==
  ASSUME KInv, pc \notin {"idle", "ended"}, NextOfOurs # 0,
         locals' = Append(locals, SetUp(NextOfOurs, locals).entry), UNCHANGED <<suite, active, leaked>>
  PROVE  Standing' /\ Resources!Acquire
<1>1. PICK e : e = SetUp(NextOfOurs, locals).entry
  OBVIOUS
<1>2. PICK d : d = NextOfOurs
  OBVIOUS
<1>3. /\ IsList(active) /\ IsList(locals) /\ Stacked(Stack)
      /\ ToSet(Stack) = ToSet(active) \cup ToSet(locals)
  BY Lower DEF KInv, Standing, Stack
<1>4. e.def = d /\ e.on \subseteq Known(Stack)
  <2>1. e.def = d /\ e.on \subseteq Known(active) \cup Known(locals)
    BY <1>1, <1>2, <1>3, EntryFacts
  <2> QED BY <2>1, <1>3 DEF Known
<1>5. rank(suite.defs[d]) = 0 /\ \A x \in ToSet(locals) : x.def # d
  BY <1>2, NextFacts DEF KInv, Placing
<1>6. Id(e) \notin Known(Stack)
  <2>1. ASSUME NEW x \in ToSet(Stack), Id(x) = Id(e) PROVE FALSE
    <3>1. x.def = d
      BY <2>1, <1>4 DEF Id
    <3>2. x \in ToSet(active)
      BY <3>1, <1>3, <1>5
    <3>3. rank(suite.defs[d]) > 0
      BY <3>1, <3>2 DEF KInv, Standing, Def
    <3> QED BY <3>3, <1>5
  <2> QED BY <2>1 DEF Known
<1>7. locals' = Append(locals, e) /\ IsList(locals') /\ ToSet(locals') = ToSet(locals) \cup {e}
  BY <1>1, <1>3, AppendList
<1>8. Stack' = Append(Stack, e)
  <2>1. Stack' = active \o Append(locals, e)
    BY <1>7 DEF Stack
  <2> QED BY <2>1, <1>3, AppendConcat DEF Stack
<1>9. Stacked(Stack') /\ Resources!Acquire
  BY <1>3, <1>4, <1>6, <1>8, Acquires
<1>10. rank(Def(e)) = 0
  BY <1>4, <1>5 DEF Def
<1> QED BY <1>7, <1>9, <1>10 DEF KInv, Standing, Def

LEMMA LocalDown ==
  ASSUME Standing, locals # <<>>, locals' = Front(locals), UNCHANGED <<suite, active, leaked>>
  PROVE  Standing' /\ Resources!Release
<1>1. IsList(active) /\ IsList(locals) /\ Stacked(Stack)
  BY DEF Standing
<1>2. Stack' = Front(Stack) /\ Stack # <<>>
  <2>1. Stack' = active \o Front(locals)
    BY DEF Stack
  <2> QED BY <2>1, <1>1, FrontConcat DEF Stack
<1>3. Stacked(Stack') /\ Resources!Release
  BY <1>1, <1>2, Releases
<1>4. IsList(locals') /\ ToSet(locals') \subseteq ToSet(locals)
  <2>1. /\ IsList(locals') /\ Len(locals') = Len(locals) - 1
        /\ \A k \in 1 .. Len(locals) - 1 : locals'[k] = locals[k]
    BY <1>1, FrontList
  <2>2. Len(locals) \in Nat /\ DOMAIN locals = 1 .. Len(locals) /\ DOMAIN locals' = 1 .. Len(locals')
    BY <1>1, <2>1, ListFacts
  <2>3. \A k \in DOMAIN locals' : k \in DOMAIN locals /\ locals'[k] = locals[k]
    BY <2>1, <2>2
  <2> QED BY <2>1, <2>3 DEF ToSet
<1> QED BY <1>3, <1>4 DEF Standing, Def

\* The deadline lets all of the case's fixtures go: without a trace only when there was
\* one and its tear-down finished.
LEMMA LocalsCut ==
  ASSUME Standing, locals # <<>>, locals' = <<>>, UNCHANGED <<suite, active>>,
         NEW left \in {locals, Front(locals)},
         leaked' = leaked \cup {[id |-> Id(e), node |-> turn] : e \in ToSet(left)}
  PROVE  Standing' /\ Resources!Next
<1>1. IsList(active) /\ IsList(locals) /\ Stacked(Stack)
  BY DEF Standing
<1>2. /\ Stacked(active) /\ ToSet(Stack) = ToSet(active) \cup ToSet(locals)
      /\ Stack' = active
  <2>1. Stack' = active \o <<>>
    BY DEF Stack
  <2> QED BY <2>1, <1>1, Lower, ConcatList DEF Stack
<1>3. Standing'
  BY <1>1, <1>2, EmptyList DEF Standing, Def
<1>4. CASE leaked' # {}
  <2>1. Held(Stack') \subseteq Held(Stack)
    BY <1>2 DEF Held
  <2>2. ASSUME NEW r \in Held(Stack') PROVE r.on \subseteq {q.id : q \in Held(Stack')}
    <3>1. r.on \subseteq Known(active)
      BY <2>2, <1>2, BuiltFromKnown
    <3> QED BY <3>1, <1>2, HeldIds
  <2>3. Resources!Lose
    BY <2>1, <2>2, <1>4 DEF Resources!Lose, Resources!Ids, Held, Stack
  <2> QED BY <2>3, <1>3 DEF Resources!Next
<1>5. CASE leaked' = {}
  <2>1. leaked' = leaked /\ ToSet(left) = {}
    BY <1>5
  <2>2. Len(locals) \in Nat \ {0} /\ locals[1] \in ToSet(locals)
    BY <1>1, ListFacts
  <2>3. left = Front(locals)
    BY <2>1, <2>2
  <2>4. Front(locals) = <<>>
    <3>1. IsList(left)
      BY <1>1, <2>3, FrontList
    <3>2. left # <<>> => 1 \in DOMAIN left
      BY <3>1, ListFacts
    <3>3. \A k \in DOMAIN left : left[k] \in ToSet(left)
      BY <3>1, ListFacts
    <3> QED BY <3>2, <3>3, <2>1, <2>3
  <2> QED BY <2>1, <2>4, <1>3, LocalDown DEF Resources!Next
<1> QED BY <1>4, <1>5

\* Nothing that is live is touched where only what was lost grows.
LEMMA OnlyLost ==
  ASSUME Standing, UNCHANGED <<suite, active, locals>>, leaked' # {}
  PROVE  Standing' /\ Resources!Lose
<1>1. Standing' /\ Stack' = Stack
  BY StandingStill DEF Stack
<1>2. ASSUME NEW r \in Held(Stack) PROVE r.on \subseteq {q.id : q \in Held(Stack)}
  BY <1>2, BuiltFromKnown, HeldIds DEF Standing
<1>3. Resources!Lose
  BY <1>1, <1>2 DEF Resources!Lose, Resources!Ids, Held, Stack
<1> QED BY <1>1, <1>3

LEMMA KStep ==
  ASSUME KInv, [ShimNext]_shimVars
  PROVE  Standing' /\ (Resources!Next \/ UNCHANGED <<active, locals, leaked>>)
<1> USE DEF KInv
<1> DEFINE Still == UNCHANGED <<suite, active, locals, leaked>>
<1>0. Still => Standing' /\ UNCHANGED <<active, locals, leaked>>
  BY StandingStill
<1>1. CASE MakePlan
  BY <1>0, <1>1 DEF MakePlan
<1>2. CASE Begin
  BY <1>0, <1>2 DEF Begin
<1>3. CASE Combo
  BY <1>0, <1>3 DEF Combo
<1>4. CASE TearDownStale
  BY <1>4, ActiveDown DEF TearDownStale, Stale, Placing, Placed, Resources!Next
<1>5. CASE ModuleSetup
  BY <1>0, <1>5 DEF ModuleSetup
<1>6. CASE SyncWider
  <2>1. locals = <<>> /\ pc \notin {"idle", "ended"} /\ UNCHANGED <<suite, locals, leaked>>
    BY <1>6 DEF SyncWider, Placing, Placed
  <2>2. active' = active \/ (Missing # 0 /\ active' = Append(active, SetUp(Missing, <<>>).entry))
    BY <1>6 DEF SyncWider
  <2> QED BY <2>1, <2>2, <1>0, ActiveUp DEF Resources!Next
<1>7. CASE Case
  BY <1>0, <1>7 DEF Case
<1>8. CASE SetUpFunction
  <2>1. pc \notin {"idle", "ended"} /\ NextOfOurs # 0 /\ UNCHANGED <<suite, active, leaked>>
    BY <1>8 DEF SetUpFunction
  <2>2. locals' = locals \/ locals' = Append(locals, SetUp(NextOfOurs, locals).entry)
    BY <1>8 DEF SetUpFunction
  <2> QED BY <2>1, <2>2, <1>0, LocalUp DEF Resources!Next
<1>9. CASE Body
  BY <1>0, <1>9 DEF Body
<1>10. CASE TearDown
  BY <1>10, LocalDown DEF TearDown, Down, Resources!Next
<1>11. CASE CaseDone
  BY <1>0, <1>11 DEF CaseDone
<1>12. CASE Strike
  <2>1. UNCHANGED <<suite, active>>
    BY <1>12 DEF Strike
  <2>2. CASE pc = "fixtures"
    <3>1. locals' = locals /\ (leaked' # {} \/ leaked' = leaked)
      BY <1>12, <2>2 DEF Strike
    <3> QED BY <2>1, <3>1, <1>0, OnlyLost DEF Resources!Next
  <2>3. CASE pc # "fixtures"
    <3>1. locals # <<>> /\ locals' = <<>>
      BY <1>12, <2>3 DEF Strike
    <3>2. PICK left \in {locals, Front(locals)} :
            leaked' = leaked \cup {[id |-> Id(e), node |-> turn] : e \in ToSet(left)}
      BY <1>12, <2>3 DEF Strike
    <3> QED BY <2>1, <3>1, <3>2, LocalsCut
  <2> QED BY <2>2, <2>3
<1>13. CASE Respond
  BY <1>0, <1>13 DEF Respond
<1>14. CASE TearDownAll
  <2>1. locals = <<>> /\ UNCHANGED <<suite, locals, leaked>>
    BY <1>14 DEF TearDownAll, Placing, Placed
  <2>2. active' = active \/ (active # <<>> /\ active' = Front(active))
    BY <1>14 DEF TearDownAll
  <2> QED BY <2>1, <2>2, <1>0, ActiveDown DEF Resources!Next
<1>15. CASE UNCHANGED shimVars
  BY <1>0, <1>15 DEF shimVars
<1> QED BY <1>1, <1>2, <1>3, <1>4, <1>5, <1>6, <1>7, <1>8, <1>9, <1>10, <1>11, <1>12, <1>13, <1>14, <1>15
        DEF ShimNext

LEMMA KInit ==
  ASSUME ShimInit
  PROVE  KInv /\ Resources!Init
<1>1. active = <<>> /\ locals = <<>> /\ leaked = {}
  BY DEF ShimInit
<1>2. IsList(<<>>) /\ ToSet(<<>>) = {} /\ <<>> \o <<>> = <<>> /\ DOMAIN <<>> = {}
  BY EmptyList, ConcatList, ListFacts
<1>3. Standing
  BY <1>1, <1>2 DEF Standing, Stack, Stacked
<1>4. Resources!Init
  BY <1>1, <1>2 DEF Resources!Init
<1> QED BY <1>3, <1>4, PlacedInit DEF KInv

\* The invariant the resources rest on: the live fixtures are a stack, each built from
\* fixtures below it and at no two places (Engine._sync_wider, Engine._run_case).
THEOREM Sheltered == ShimSpec => []KInv
<1>1. ShimInit => KInv
  BY KInit
<1>2. KInv /\ [ShimNext]_shimVars => KInv'
  BY KStep, PlacedStep DEF KInv
<1> QED BY <1>1, <1>2, PTL DEF ShimSpec

\* Every fixture is set up after what it depends on and torn down before it, and what the
\* deadline cuts off takes nothing with it that a live fixture was built from: a worker's
\* requests keep a resource graph's promises, whatever suite it is given.
THEOREM FixturesKeepResources == ShimSpec => KeepsResources
<1> DEFINE held == {Resource(e) : e \in ToSet(active \o locals)}
           lost == leaked # {}
<1>1. ShimInit => Resources!Init
  BY KInit
<1>2. KInv /\ [ShimNext]_shimVars => [Resources!Next]_<<held, lost>>
  BY KStep
<1>3. ShimSpec => []KInv
  BY Sheltered
<1> QED BY <1>1, <1>2, <1>3, PTL DEF ShimSpec, KeepsResources, Resources!Spec
-----------------------------------------------------------------------------
(* What has been answered, and what the deadline left standing.            *)

Flagged(rs) == \E k \in DOMAIN rs : rs[k].must_fork

ModuleKey == <<"module", test.module>>
\* The wider fixtures of the test are up, and its module is: nothing is left to fail that
\* would answer for it in the place of its results.
Upright ==
  /\ pc = "wide" => ~Stale /\ ModuleKey \in xunit.done
  /\ results # <<>> \/ pc \in {"case", "fixtures", "down"} =>
       Missing = 0 /\ ~Stale /\ ModuleKey \in xunit.done
Answering ==
  /\ IsList(replies) /\ Len(replies) = turn - 1
  /\ IsList(spliced) /\ (child = 1 => spliced = <<>>)
  /\ IsList(results) /\ (pc \in {"idle", "planned", "ended"} => results = <<>>)
\* Where the flag of what was left standing is, until it is in a reply.
Traced ==
  \A l \in leaked :
    /\ l.node \in 1 .. turn
    /\ l.node < turn => Flagged(replies[l.node])
    /\ l.node = turn => Flagged(spliced) \/ Flagged(results) \/ running.struck
LInv == Placing /\ Upright /\ Answering /\ Traced

LEMMA XunitGrows ==
  ASSUME Fielded
  PROVE  xunit.done \subseteq ClassSetup.xunit.done /\ xunit.done \subseteq Interrupted.done
<1>1. "done" \in DOMAIN xunit /\ "failed" # "done" /\ "classes" # "done"
  BY DEF Fielded, NoXunit
<1>2. xunit.done \subseteq ClassSetup.xunit.done
  BY <1>1 DEF ClassSetup
<1>3. Interrupted.done = ClassSetup.xunit.done
  BY XunitFields DEF Interrupted, NoXunit
<1> QED BY <1>2, <1>3

LEMMA UprightStill ==
  ASSUME UNCHANGED <<suite, turn, child, plan, active>>
  PROVE  Missing' = Missing /\ (Stale' <=> Stale) /\ ModuleKey' = ModuleKey
BY DEF Missing, Live, Stale, ModuleKey, test, Request, Def

LEMMA UprightStep ==
  ASSUME Placing, IsList(active), Upright, Answering, [ShimNext]_shimVars
  PROVE  Upright'
<1> DEFINE Same == UNCHANGED <<suite, turn, child, plan, active>>
           Grown == xunit.done \subseteq xunit'.done
<1>0. Same /\ Grown => Missing' = Missing /\ (Stale' <=> Stale) /\ (ModuleKey \in xunit.done => ModuleKey' \in xunit'.done)
  BY UprightStill
<1>1. CASE MakePlan
  BY <1>1 DEF MakePlan, Upright, Answering
<1>2. CASE Begin
  <2>1. CASE Runs
    BY <1>2, <2>1 DEF Begin, Upright, Answering
  <2>2. CASE ~Runs
    BY <1>2, <2>2 DEF Begin, Answered, Upright
  <2> QED BY <2>1, <2>2
<1>3. CASE Combo
  BY <1>0, <1>3 DEF Combo, Upright
<1>4. CASE TearDownStale
  BY <1>4 DEF TearDownStale, Upright
<1>5. CASE ModuleSetup
  <2>1. CASE Answered(Reply("error"))
    BY <2>1 DEF Answered, Upright
  <2>2. CASE ~Answered(Reply("error"))
    <3>1. xunit'.done = xunit.done \cup {ModuleKey}
      BY <1>5 DEF ModuleSetup, ModuleKey, Placing, Fielded, NoXunit
    <3>2. Same /\ pc' = "wide" /\ results' = results /\ ~Stale
      BY <1>5, <2>2 DEF ModuleSetup
    <3>3. ModuleKey' \in xunit'.done
      BY <3>1, <3>2, UprightStill
    <3> QED BY <1>0, <3>1, <3>2, <3>3 DEF Upright
  <2> QED BY <2>1, <2>2
<1>6. CASE SyncWider
  <2>1. xunit' = xunit /\ UNCHANGED <<suite, plan>>
    BY <1>6 DEF SyncWider
  <2>2. CASE Answered(Reply("error"))
    BY <2>2 DEF Answered, Upright
  <2>3. CASE ~Answered(Reply("error")) /\ Missing = 0
    <3>1. Same /\ pc' = "case" /\ results' = results /\ pc = "wide"
      BY <1>6, <2>3 DEF SyncWider
    <3> QED BY <1>0, <2>1, <2>3, <3>1 DEF Upright
  <2>4. CASE ~Answered(Reply("error")) /\ Missing # 0
    <3>1. PICK e : e = SetUp(Missing, <<>>).entry
      OBVIOUS
    <3>2. /\ active' = Append(active, e) /\ UNCHANGED <<suite, turn, child, plan>>
          /\ pc' = pc /\ pc = "wide" /\ results' = results
      BY <1>6, <2>4, <3>1 DEF SyncWider
    <3>3. results = <<>> /\ ModuleKey \in xunit.done
      BY <2>4, <3>2 DEF Upright
    <3>4. e.key = instance_key(suite.defs[e.def], test)
      <4>1. PICK d : d = Missing
        OBVIOUS
      <4>2. e.def = d /\ e.key = instance_key(suite.defs[d], test)
        BY <3>1, <4>1, EmptyList, EntryFacts
      <4> QED BY <4>2
    <3>5. active' # <<>> /\ Last(active') = e
      <4>1. IsList(active') /\ Len(active') = Len(active) + 1 /\ active'[Len(active) + 1] = e /\ Len(active) \in Nat
        BY <3>2, AppendList, ListFacts
      <4> QED BY <4>1, EmptyList DEF Last
    <3>6. ~Stale'
      BY <3>2, <3>4, <3>5 DEF Stale, Def, test, Request
    <3>7. ModuleKey' \in xunit'.done
      BY <2>1, <3>2, <3>3 DEF ModuleKey, test, Request
    <3> QED BY <3>2, <3>3, <3>6, <3>7 DEF Upright
  <2> QED BY <2>2, <2>3, <2>4
<1>7. CASE Case
  BY <1>0, <1>7 DEF Case, NextCase, Upright
<1>8. CASE SetUpFunction
  BY <1>0, <1>8 DEF SetUpFunction, Upright
<1>9. CASE Body
  <2>1. Same /\ pc' = "down" /\ results' = results /\ pc = "fixtures"
    BY <1>9 DEF Body
  <2>2. Grown
    BY <1>9, XunitGrows DEF Body, Placing
  <2> QED BY <1>0, <2>1, <2>2 DEF Upright
<1>10. CASE TearDown
  BY <1>0, <1>10 DEF TearDown, Upright
<1>11. CASE CaseDone
  <2>1. Same /\ pc = "down" /\ pc' \in {"combo", "case"} /\ xunit' = xunit
    BY <1>11 DEF CaseDone, NextCase
  <2> QED BY <1>0, <2>1 DEF Upright
<1>12. CASE Strike
  <2>1. Same /\ pc' = "down" /\ results' = results /\ pc \in {"fixtures", "down"}
    BY <1>12 DEF Strike
  <2>2. Grown
    BY <1>12, XunitGrows DEF Strike, Placing
  <2> QED BY <1>0, <2>1, <2>2 DEF Upright
<1>13. CASE Respond
  BY <1>13 DEF Respond, Answered, Upright
<1>14. CASE TearDownAll
  BY <1>14 DEF TearDownAll, Upright, Answering
<1>15. CASE UNCHANGED shimVars
  BY <1>0, <1>15 DEF shimVars, Upright
<1> QED BY <1>1, <1>2, <1>3, <1>4, <1>5, <1>6, <1>7, <1>8, <1>9, <1>10, <1>11, <1>12, <1>13, <1>14, <1>15
        DEF ShimNext

LEMMA FlagAppend ==
  ASSUME NEW s, IsList(s), NEW e, Flagged(s) \/ e.must_fork
  PROVE  Flagged(Append(s, e))
<1>1. /\ DOMAIN Append(s, e) = 1 .. Len(s) + 1 /\ DOMAIN s = 1 .. Len(s) /\ Len(s) \in Nat
      /\ \A k \in 1 .. Len(s) : Append(s, e)[k] = s[k]
      /\ Append(s, e)[Len(s) + 1] = e
  BY AppendList, ListFacts
<1>2. CASE Flagged(s)
  <2>1. PICK k \in 1 .. Len(s) : s[k].must_fork
    BY <1>1, <1>2 DEF Flagged
  <2>2. k \in DOMAIN Append(s, e) /\ Append(s, e)[k] = s[k]
    BY <1>1
  <2> QED BY <2>1, <2>2 DEF Flagged
<1>3. CASE e.must_fork
  <2>1. Len(s) + 1 \in DOMAIN Append(s, e)
    BY <1>1
  <2> QED BY <2>1, <1>1, <1>3 DEF Flagged
<1> QED BY <1>2, <1>3

LEMMA FlagConcat ==
  ASSUME NEW s, IsList(s), NEW t, IsList(t), Flagged(s) \/ Flagged(t)
  PROVE  Flagged(s \o t)
<1> DEFINE n == Len(s)
           m == Len(t)
<1>1. /\ n \in Nat /\ m \in Nat /\ DOMAIN s = 1 .. n /\ DOMAIN t = 1 .. m /\ DOMAIN (s \o t) = 1 .. n + m
      /\ \A k \in 1 .. n : (s \o t)[k] = s[k]
      /\ \A k \in 1 .. m : (s \o t)[n + k] = t[k]
  <2>1. /\ IsList(s \o t) /\ Len(s \o t) = n + m
        /\ \A k \in 1 .. n : (s \o t)[k] = s[k]
        /\ \A k \in 1 .. m : (s \o t)[n + k] = t[k]
    BY ConcatList
  <2>2. DOMAIN (s \o t) = 1 .. Len(s \o t) /\ n \in Nat /\ m \in Nat /\ DOMAIN s = 1 .. n /\ DOMAIN t = 1 .. m
    BY <2>1, ListFacts
  <2> QED BY <2>1, <2>2
<1> HIDE DEF n, m
<1>2. CASE Flagged(s)
  <2>1. PICK k \in 1 .. n : s[k].must_fork
    BY <1>1, <1>2 DEF Flagged
  <2>2. k \in 1 .. n + m
    BY <1>1
  <2> QED BY <2>1, <2>2, <1>1 DEF Flagged
<1>3. CASE Flagged(t)
  <2>1. PICK k \in 1 .. m : t[k].must_fork
    BY <1>1, <1>3 DEF Flagged
  <2>2. n + k \in 1 .. n + m
    BY <1>1
  <2> QED BY <2>1, <2>2, <1>1 DEF Flagged
<1> QED BY <1>2, <1>3

\* The engine is told of every variant with its flag.
LEMMA FlagTold ==
  ASSUME NEW r, r.variants # <<>> \/ r.expanded, Flagged(r.variants), NEW node
  PROVE  Flagged(into_results(node, r))
<1>1. PICK k \in DOMAIN r.variants : r.variants[k].must_fork
  BY DEF Flagged
<1> DEFINE told == [j \in DOMAIN r.variants |->
                      Told(r.variants[j].id, r.variants[j].outcome, r.variants[j].must_fork)]
<1>2. into_results(node, r) = told
  BY DEF into_results
<1>3. k \in DOMAIN told /\ told[k].must_fork = r.variants[k].must_fork
  BY DEF Told
<1> QED BY <1>1, <1>2, <1>3 DEF Flagged

Fields == DOMAIN Reply("passed")
LEMMA AnswerTraced ==
  ASSUME Placing, Answering, Traced, pc \notin {"idle", "ended"}, ~running.struck,
         NEW r, DOMAIN r = Fields, Answered(r), UNCHANGED <<suite, leaked>>,
         IsList(Splice(test, r)), Flagged(results) => Flagged(Splice(test, r)),
         Flagged(results) /\ ~Request.inherited => Flagged(into_results(<<test.name>>, r))
  PROVE  Answering' /\ Traced'
<1>1. /\ IsList(replies) /\ Len(replies) = turn - 1 /\ IsList(spliced) /\ (child = 1 => spliced = <<>>)
      /\ turn \in Nat \ {0} /\ child \in Nat \ {0}
  BY DEF Answering, Placing, Placed
<1>2. PICK all : all = spliced \o Splice(test, r)
  OBVIOUS
<1>3. IsList(all)
  BY <1>1, <1>2, ConcatList
<1>4. Flagged(spliced) \/ Flagged(results) => Flagged(all)
  BY <1>1, <1>2, FlagConcat
<1>5. pc' = "idle" /\ results' = <<>> /\ IsList(results')
  BY EmptyList DEF Answered
<1>6. CASE child = Len(Request.tests)
  <2>1. PICK told : told = IF ~Request.inherited THEN into_results(<<test.name>>, r)
                           ELSE into_results(Request.node, [r EXCEPT !.variants = all, !.expanded = TRUE])
    OBVIOUS
  <2>2. replies' = Append(replies, told) /\ spliced' = <<>> /\ turn' = turn + 1 /\ child' = 1
    BY <1>2, <1>6, <2>1 DEF Answered
  <2>3. Answering'
    <3>1. IsList(replies') /\ Len(replies') = turn - 1 + 1
      BY <1>1, <2>2, AppendList
    <3>2. turn - 1 + 1 = turn' - 1
      BY <1>1, <2>2
    <3> QED BY <1>5, <2>2, <3>1, <3>2, EmptyList DEF Answering
  <2>4. Flagged(spliced) \/ Flagged(results) => Flagged(told)
    <3>1. CASE Request.inherited
      <4>1. PICK q : q = [r EXCEPT !.variants = all, !.expanded = TRUE]
        OBVIOUS
      <4>2. q.variants = all /\ q.expanded
        BY <4>1 DEF Fields, Reply
      <4>3. told = into_results(Request.node, q)
        BY <2>1, <3>1, <4>1
      <4> QED BY <4>2, <4>3, <1>4, FlagTold
    <3>2. CASE ~Request.inherited
      <4>1. Len(Request.tests) = 1
        BY <3>2, Position DEF Placing, Placed
      <4>2. spliced = <<>>
        BY <4>1, <1>1, <1>6
      <4>3. ~Flagged(spliced)
        BY <4>2, EmptyList, ListFacts DEF Flagged
      <4>4. told = into_results(<<test.name>>, r)
        BY <2>1, <3>2
      <4> QED BY <4>3, <4>4, <3>2
    <3> QED BY <3>1, <3>2
  <2>5. /\ \A k \in 1 .. turn - 1 : replies'[k] = replies[k]
        /\ replies'[turn] = told
    <3>1. PICK s : s = replies
      OBVIOUS
    <3>2. Len(s) = turn - 1 /\ Len(s) + 1 = turn /\ IsList(s)
      BY <3>1, <1>1
    <3>3. (\A k \in 1 .. Len(s) : Append(s, told)[k] = s[k]) /\ Append(s, told)[Len(s) + 1] = told
      BY <3>2, AppendList
    <3> QED BY <3>1, <3>2, <3>3, <2>2
  <2>6. ASSUME NEW l \in leaked PROVE l.node \in 1 .. turn' /\ l.node < turn' /\ Flagged(replies'[l.node])
    <3>1. l.node \in 1 .. turn
      BY DEF Traced
    <3>2. CASE l.node = turn
      BY <2>2, <2>4, <2>5, <3>2, <1>1 DEF Traced
    <3>3. CASE l.node # turn
      <4>1. l.node < turn /\ l.node \in 1 .. turn - 1 /\ l.node \in 1 .. turn + 1
        BY <3>1, <3>3, <1>1
      <4>2. Flagged(replies[l.node])
        BY <4>1 DEF Traced
      <4> QED BY <4>1, <4>2, <2>2, <2>5, <1>1
    <3> QED BY <3>2, <3>3
  <2>7. Traced'
    <3>1. ASSUME NEW l \in leaked' PROVE l.node \in 1 .. turn' /\ l.node < turn' /\ Flagged(replies'[l.node])
      BY <2>6
    <3>2. \A l \in leaked' : l.node # turn'
      BY <3>1, <2>2, <1>1
    <3> QED BY <3>1, <3>2 DEF Traced
  <2> QED BY <2>3, <2>7
<1>7. CASE child # Len(Request.tests)
  <2>1. spliced' = all /\ child' = child + 1 /\ UNCHANGED <<turn, replies>>
    BY <1>2, <1>7 DEF Answered
  <2>2. child' # 1
    BY <1>1, <2>1
  <2>3. Answering'
    BY <1>1, <1>3, <1>5, <2>1, <2>2 DEF Answering
  <2>4. ASSUME NEW l \in leaked
        PROVE /\ l.node \in 1 .. turn /\ (l.node < turn => Flagged(replies[l.node]))
              /\ l.node = turn => Flagged(all)
    BY <1>4 DEF Traced
  <2>5. Traced'
    BY <2>1, <2>4 DEF Traced
  <2> QED BY <2>3, <2>5
<1> QED BY <1>6, <1>7

\* An answer that stands in for the results of a test comes when there are none.
LEMMA NoResults ==
  ASSUME results = <<>>
  PROVE  ~Flagged(results)
BY EmptyList, ListFacts DEF Flagged

LEMMA ErrorTraced ==
  ASSUME Placing, Answering, Traced, pc \notin {"idle", "ended", "down"}, results = <<>>,
         Answered(Reply("error")), UNCHANGED <<suite, leaked>>
  PROVE  Answering' /\ Traced'
<1>1. PICK r : r = Reply("error")
  OBVIOUS
<1>2. DOMAIN r = Fields /\ Answered(r)
  BY <1>1 DEF Answered, Fields, Reply
<1>3. IsList(Splice(test, r))
  <2>1. Splice(test, r) = <<Told(<<test.name>>, "error", FALSE)>>
    BY <1>1 DEF Splice, Reply
  <2>2. <<Told(<<test.name>>, "error", FALSE)>> \in Seq({Told(<<test.name>>, "error", FALSE)})
    OBVIOUS
  <2> QED BY <2>1, <2>2, Listed
<1>4. ~running.struck
  BY DEF Placing, Placed, NoCase
<1> QED BY <1>2, <1>3, <1>4, NoResults, AnswerTraced

LEMMA BeginTraced ==
  ASSUME Placing, Answering, Traced, Begin, ~Runs
  PROVE  Answering' /\ Traced'
<1>1. Answered(Answer) /\ UNCHANGED <<suite, leaked>> /\ pc = "planned" /\ results = <<>>
  BY DEF Begin, Answering
<1>2. PICK r : r = Answer
  OBVIOUS
<1>3. DOMAIN r = Fields
  BY <1>2 DEF Answer, Absent, Skipped, Fields, Reply
<1>4. Answered(r)
  BY <1>1, <1>2 DEF Answered
<1>5. IsList(r.variants)
  <2>1. r.variants = <<>> \/ r.variants = [k \in DOMAIN plan.kept |-> Told(plan.ids[plan.kept[k]], "skipped", FALSE)]
    BY <1>2 DEF Answer, Absent, Skipped, Reply
  <2>2. DOMAIN plan.kept = 1 .. Len(plan.kept) /\ Len(plan.kept) \in Nat
    BY <1>1, PlanFacts, ListFacts DEF Placing
  <2>3. PICK n \in Nat : DOMAIN plan.kept = 1 .. n
    BY <2>2
  <2> DEFINE variants == [k \in 1 .. n |-> Told(plan.ids[plan.kept[k]], "skipped", FALSE)]
             T == {variants[k] : k \in 1 .. n}
  <2>4. variants \in [1 .. n -> T]
    OBVIOUS
  <2>5. IsList(variants)
    <3> HIDE DEF variants, T
    <3>1. variants \in Seq(T)
      BY <2>4
    <3> QED BY <3>1, Listed
  <2> QED BY <2>1, <2>3, <2>5, EmptyList
<1>6. IsList(Splice(test, r))
  <2>1. PICK t : t = Told(<<test.name>>, r.outcome, r.must_fork)
    OBVIOUS
  <2>2. <<t>> \in Seq({t})
    OBVIOUS
  <2>3. IsList(<<t>>)
    BY <2>2, Listed
  <2> QED BY <2>1, <2>3, <1>5, EmptyList DEF Splice
<1>7. ~running.struck
  BY <1>1 DEF Placing, Placed, NoCase
<1> QED BY <1>1, <1>3, <1>4, <1>6, <1>7, NoResults, AnswerTraced

LEMMA RespondTraced ==
  ASSUME Placing, Answering, Traced, Respond
  PROVE  Answering' /\ Traced'
<1> DEFINE made == assemble(results, plan.parametrized, normalise_all(test.native),
                            normalise_all(Reverse(test.pytest)))
<1>1. PICK r : r = [outcome |-> made.outcome, variants |-> made.variants, expanded |-> FALSE,
                    must_fork |-> made.must_fork]
  OBVIOUS
<1>2. Answered(r) /\ UNCHANGED <<suite, leaked>> /\ pc = "combo"
  BY <1>1 DEF Respond, Answered
<1>3. DOMAIN r = Fields
  BY <1>1 DEF Fields, Reply
<1>4. (r.variants = results \/ r.variants = <<>>) /\ ~r.expanded /\ r.must_fork = Flagged(results)
  BY <1>1 DEF assemble, Flagged
<1>5. PICK t : t = Told(<<test.name>>, r.outcome, r.must_fork)
  OBVIOUS
<1>6. IsList(<<t>>) /\ DOMAIN <<t>> = {1} /\ <<t>>[1] = t
  <2>1. <<t>> \in Seq({t}) /\ DOMAIN <<t>> = {1} /\ <<t>>[1] = t
    OBVIOUS
  <2> QED BY <2>1, Listed
<1>7. Splice(test, r) = IF r.variants # <<>> THEN r.variants ELSE <<t>>
  BY <1>4, <1>5 DEF Splice
<1>8. IsList(Splice(test, r))
  BY <1>4, <1>6, <1>7 DEF Answering
<1>9. ASSUME Flagged(results) PROVE r.must_fork = TRUE /\ t.must_fork = TRUE
  BY <1>4, <1>5, <1>9 DEF Told
<1>10. Flagged(results) => Flagged(Splice(test, r))
  <2>1. CASE r.variants # <<>>
    BY <2>1, <1>4, <1>7
  <2>2. CASE r.variants = <<>>
    BY <2>2, <1>6, <1>7, <1>9 DEF Flagged
  <2> QED BY <2>1, <2>2
<1>11. Flagged(results) => Flagged(into_results(<<test.name>>, r))
  <2>1. CASE r.variants # <<>>
    BY <2>1, <1>4, FlagTold
  <2>2. CASE r.variants = <<>>
    <3>1. into_results(<<test.name>>, r) = <<t>>
      BY <2>2, <1>4, <1>5 DEF into_results
    <3> QED BY <3>1, <1>6, <1>9 DEF Flagged
  <2> QED BY <2>1, <2>2
<1>12. ~running.struck
  BY <1>2 DEF Placing, Placed, NoCase
<1> QED BY <1>2, <1>3, <1>8, <1>10, <1>11, <1>12, AnswerTraced

LEMMA LStep ==
  ASSUME LInv, IsList(active), [ShimNext]_shimVars
  PROVE  LInv'
<1>0. Placing /\ Upright /\ Answering /\ Traced
  BY DEF LInv
<1> DEFINE Quiet == UNCHANGED <<turn, child, replies, spliced, results, leaked>>
           Whole == Answering' /\ Traced'
<1>1. SUFFICES Whole
  BY <1>0, PlacedStep, UprightStep DEF LInv
<1>2. ASSUME Quiet, running' = running, pc' \notin {"idle", "planned", "ended"} \/ results = <<>>
      PROVE  Whole
  BY <1>0, <1>2 DEF Answering, Traced
<1>3. ASSUME Quiet, pc' = "down", running.struck => running'.struck
      PROVE  Whole
  BY <1>0, <1>3 DEF Answering, Traced
<1>4. CASE MakePlan
  BY <1>0, <1>2, <1>4 DEF MakePlan, Answering
<1>5. CASE Begin
  <2>1. CASE Runs
    BY <1>2, <1>5, <2>1 DEF Begin
  <2> QED BY <2>1, <1>0, <1>5, BeginTraced
<1>6. CASE Combo
  BY <1>2, <1>6 DEF Combo
<1>7. CASE TearDownStale
  BY <1>2, <1>7 DEF TearDownStale
<1>8. CASE ModuleSetup
  <2>1. UNCHANGED <<suite, leaked>> /\ pc = "stale"
    BY <1>8 DEF ModuleSetup
  <2>2. CASE Answered(Reply("error")) /\ results = <<>>
    BY <2>1, <2>2, <1>0, ErrorTraced
  <2>3. CASE results # <<>>
    <3>1. ModuleKey \in xunit.done
      BY <2>3, <1>0 DEF Upright
    <3>2. Quiet /\ running' = running /\ pc' = "wide"
      BY <3>1, <1>8 DEF ModuleSetup, ModuleKey
    <3> QED BY <3>2, <1>2
  <2>4. CASE ~Answered(Reply("error"))
    <3>1. Quiet /\ running' = running /\ pc' = "wide"
      BY <2>4, <1>8 DEF ModuleSetup
    <3> QED BY <3>1, <1>2
  <2> QED BY <2>2, <2>3, <2>4
<1>9. CASE SyncWider
  <2>1. UNCHANGED <<suite, leaked>> /\ pc = "wide"
    BY <1>9 DEF SyncWider
  <2>2. CASE Answered(Reply("error")) /\ results = <<>>
    BY <2>1, <2>2, <1>0, ErrorTraced
  <2>3. CASE results # <<>>
    <3>1. Missing = 0
      BY <2>3, <1>0 DEF Upright
    <3>2. Quiet /\ running' = running /\ pc' = "case"
      BY <3>1, <1>9 DEF SyncWider
    <3> QED BY <3>2, <1>2
  <2>4. CASE ~Answered(Reply("error"))
    <3>1. Quiet /\ running' = running /\ pc' \in {"case", "wide"}
      BY <2>4, <1>9 DEF SyncWider
    <3> QED BY <3>1, <1>2
  <2> QED BY <2>2, <2>3, <2>4
<1>10. CASE Case
  BY <1>2, <1>10 DEF Case, NextCase
<1>11. CASE SetUpFunction
  <2>1. Quiet /\ ((running' = running /\ pc' = "fixtures") \/ pc' = "down")
    BY <1>11 DEF SetUpFunction
  <2>2. ~running.struck
    BY <1>0, <1>11 DEF SetUpFunction, Placing, Placed, NoCase
  <2> QED BY <2>1, <2>2, <1>2, <1>3
<1>12. CASE Body
  <2>1. ~running.struck
    <3>1. pc # "down"
      BY <1>12 DEF Body
    <3> QED BY <3>1, <1>0 DEF Placing, Placed, NoCase
  <2>2. Quiet /\ pc' = "down"
    BY <1>12 DEF Body
  <2> QED BY <2>1, <2>2, <1>3
<1>13. CASE TearDown
  BY <1>2, <1>13 DEF TearDown
<1>14. CASE CaseDone
  <2>1. /\ results' = Append(results, Result) /\ pc' \in {"combo", "case"}
        /\ UNCHANGED <<turn, child, replies, spliced, leaked>>
    BY <1>14 DEF CaseDone, NextCase
  <2>2. PICK e : e = Result
    OBVIOUS
  <2>3. e.must_fork = running.struck
    BY <2>2 DEF Result
  <2>4. IsList(results) /\ running.struck \in BOOLEAN
    BY <1>0 DEF Answering, Placing, Fielded
  <2>5. IsList(results') /\ (Flagged(results) \/ running.struck => Flagged(results'))
    BY <2>1, <2>2, <2>3, <2>4, AppendList, FlagAppend
  <2>6. Answering'
    BY <2>1, <2>5, <1>0 DEF Answering
  <2>7. Traced'
    <3>1. ASSUME NEW l \in leaked
          PROVE /\ l.node \in 1 .. turn /\ (l.node < turn => Flagged(replies[l.node]))
                /\ l.node = turn => Flagged(spliced) \/ Flagged(results')
      BY <2>5, <1>0 DEF Traced
    <3> QED BY <2>1, <3>1 DEF Traced
  <2> QED BY <2>6, <2>7
<1>15. CASE Strike
  <2>1. pc' = "down" /\ UNCHANGED <<turn, child, replies, spliced, results>>
    BY <1>15 DEF Strike
  <2>2. running'.struck = TRUE
    BY <1>0, <1>15 DEF Strike, Placing, Fielded, NoCase
  <2>3. Answering'
    BY <2>1, <1>0 DEF Answering
  <2>4. \A l \in leaked' : l \in leaked \/ l.node = turn
    BY <1>15 DEF Strike
  <2>5. turn \in 1 .. turn /\ ~(turn < turn)
    BY <1>0 DEF Placing, Placed
  <2>6. Traced'
    BY <2>1, <2>2, <2>4, <2>5, <1>0 DEF Traced
  <2> QED BY <2>3, <2>6
<1>16. CASE Respond
  BY <1>0, <1>16, RespondTraced
<1>17. CASE TearDownAll
  <2>1. Quiet /\ running' = running /\ results = <<>>
    BY <1>0, <1>17 DEF TearDownAll, Answering
  <2> QED BY <2>1, <1>2
<1>18. CASE UNCHANGED shimVars
  BY <1>0, <1>18 DEF shimVars, Answering, Traced
<1> QED
  BY <1>4, <1>5, <1>6, <1>7, <1>8, <1>9, <1>10, <1>11, <1>12, <1>13, <1>14, <1>15, <1>16, <1>17, <1>18
     DEF ShimNext

LEMMA LInit ==
  ASSUME ShimInit
  PROVE  LInv
<1>1. turn = 1 /\ child = 1 /\ pc = "idle" /\ results = <<>> /\ spliced = <<>> /\ replies = <<>> /\ leaked = {}
  BY DEF ShimInit
<1> QED BY <1>1, PlacedInit, EmptyList DEF LInv, Upright, Answering, Traced

\* Whatever the deadline left standing, some result of that very request is flagged, so
\* that the node forks from then on: the flag outlives every later case, answer and
\* splice of its request.
THEOREM LeaksAreFlagged == ShimSpec => []LeakIsFlagged
<1>1. ShimInit => KInv /\ LInv
  BY KInit, LInit
<1>2. KInv /\ LInv /\ [ShimNext]_shimVars => KInv' /\ LInv'
  BY KStep, PlacedStep, LStep DEF KInv, Standing
<1>3. LInv => LeakIsFlagged
  BY DEF LInv, Traced, LeakIsFlagged, Flagged
<1> QED BY <1>1, <1>2, <1>3, PTL DEF ShimSpec
-----------------------------------------------------------------------------
(* A unittest class whose set-up failed.                                   *)

KeyOf(u) == <<"class", u.module, u.class>>
\* Every unittest class that had its turn at a set-up that does not succeed is known to
\* have failed: what is done alone would let its next method run.
Remembered ==
  /\ IsList(xunit.failed)
  /\ ~suite.deadline =>
       \A u \in TestsOf(suite) :
         u.unittest /\ KeyOf(u) \in xunit.done /\ KeyOf(u) \in DOMAIN suite.badsetups =>
           KeyOf(u) \in ToSet(xunit.failed)
Barred == ~suite.deadline /\ test.unittest /\ ClassEnds # "none"
Ended(case) == ~case.ran /\ case.outcome \in {runtime_outcome(test.attached, ClassEnds), "error"}
Decided ==
  /\ pc = "down" /\ Barred => Ended(running)
  /\ IsList(results) /\ (pc \in {"idle", "planned", "ended"} => results = <<>>)
  /\ Barred => \A k \in DOMAIN results : Ended(results[k])
\* Decided says of the case under way what the property says of those done.
CInv == Placing /\ Remembered /\ Decided

LEMMA ClassEndsBadly == ClassEnds # "none" <=> ClassKey \in DOMAIN suite.badsetups
BY DEF ClassEnds

\* What a class set-up comes to, of a test that is about to run.
LEMMA BarredBySetup ==
  ASSUME Placing, Remembered, Barred, pc = "fixtures"
  PROVE  ClassSetup.outcome = ClassEnds
<1>1. test \in TestsOf(suite) /\ suite \in Suites
  BY Position DEF Placing, Placed
<1>2. test.class # "none"
  BY <1>1, SuitesAreCollected DEF Barred
<1>3. ClassKey \in xunit.done => ClassKey \in ToSet(xunit.failed)
  BY <1>1, ClassEndsBadly DEF Barred, Remembered, KeyOf, ClassKey
<1> QED BY <1>2, <1>3 DEF ClassSetup, Barred

LEMMA SetupRemembered ==
  ASSUME Placing, Remembered, pc = "fixtures", suite' = suite, xunit' = ClassSetup.xunit
  PROVE  Remembered'
<1> DEFINE fails == ClassEnds # "none" /\ test.unittest
<1>1. test \in TestsOf(suite) /\ suite \in Suites /\ IsList(xunit.failed)
  BY Position DEF Placing, Placed, Remembered
<1>2. CASE xunit' = xunit
  BY <1>2 DEF Remembered
<1>3. CASE xunit' # xunit
  <2>1. PICK l : l = IF fails THEN Append(xunit.failed, ClassKey) ELSE xunit.failed
    OBVIOUS
  <2>2. xunit'.done = xunit.done \cup {ClassKey} /\ xunit'.failed = l
    BY <1>3, <2>1 DEF ClassSetup, Placing, Fielded, NoXunit
  <2>3. /\ IsList(l) /\ ToSet(xunit.failed) \subseteq ToSet(l)
        /\ fails => ClassKey \in ToSet(l)
    BY <1>1, <2>1, AppendList
  <2>4. ASSUME NEW u \in TestsOf(suite), ~suite.deadline, u.unittest,
               KeyOf(u) \in xunit'.done, KeyOf(u) \in DOMAIN suite.badsetups
        PROVE  KeyOf(u) \in ToSet(l)
    <3>1. CASE KeyOf(u) \in xunit.done
      BY <2>3, <2>4, <3>1 DEF Remembered
    <3>2. CASE KeyOf(u) = ClassKey
      <4>1. test.module = u.module /\ test.class = u.class
        BY <3>2 DEF KeyOf, ClassKey
      <4>2. test.unittest
        BY <4>1, <2>4, <1>1, SuitesAreCollected
      <4>3. ClassEnds # "none"
        BY <3>2, <2>4, ClassEndsBadly
      <4> QED BY <4>2, <4>3, <2>3, <3>2
    <3> QED BY <3>1, <3>2, <2>2, <2>4
  <2> HIDE DEF fails
  <2> QED BY <2>2, <2>3, <2>4 DEF Remembered, TestsOf, KeyOf
<1> QED BY <1>2, <1>3

LEMMA CStep ==
  ASSUME CInv, [ShimNext]_shimVars
  PROVE  CInv'
<1>0. Placing /\ Remembered /\ Decided
  BY DEF CInv
<1> DEFINE Same == UNCHANGED <<suite, turn, child>>
           Rest == Remembered' /\ Decided'
<1>1. SUFFICES Rest
  BY <1>0, PlacedStep DEF CInv
<1>2. ASSUME Same PROVE test' = test /\ ClassEnds' = ClassEnds /\ Barred' = Barred
  BY <1>2 DEF test, Request, ClassEnds, ClassKey, Barred
<1>3. ASSUME UNCHANGED <<suite, xunit>> PROVE Remembered'
  BY <1>0, <1>3 DEF Remembered
<1>4. ASSUME Same, UNCHANGED <<xunit, results, running>>, pc' = pc \/ pc' \notin {"idle", "ended", "down", "planned"}
                                                           \/ (results = <<>> /\ pc' # "down")
      PROVE  Rest
  <2>1. /\ pc' = "down" => pc = "down"
        /\ pc' \in {"idle", "planned", "ended"} => results = <<>>
    BY <1>0, <1>4 DEF Decided
  <2> QED BY <2>1, <1>0, <1>2, <1>3, <1>4 DEF Decided, Ended
<1>5. ASSUME pc' = "idle", results' = <<>> PROVE Decided'
  BY <1>5, EmptyList DEF Decided
<1>6. ASSUME NEW r, Answered(r) PROVE Decided'
  BY <1>5, <1>6 DEF Answered
<1>7. CASE MakePlan
  BY <1>0, <1>4, <1>7 DEF MakePlan, Decided
<1>8. CASE Begin
  <2>1. CASE Runs
    BY <1>4, <1>8, <2>1 DEF Begin
  <2>2. CASE ~Runs
    BY <1>3, <1>6, <1>8, <2>2 DEF Begin
  <2> QED BY <2>1, <2>2
<1>9. CASE Combo
  BY <1>4, <1>9 DEF Combo
<1>10. CASE TearDownStale
  BY <1>4, <1>10 DEF TearDownStale
<1>11. CASE ModuleSetup
  <2>1. Remembered'
    <3>1. PICK key : key = <<"module", test.module>>
      OBVIOUS
    <3>2. xunit'.done = xunit.done \cup {key} /\ xunit'.failed = xunit.failed /\ suite' = suite
      BY <3>1, <1>0, <1>11 DEF ModuleSetup, Placing, Fielded, NoXunit
    <3>3. \A u : KeyOf(u) # key
      BY <3>1 DEF KeyOf
    <3> QED BY <3>2, <3>3, <1>0 DEF Remembered
  <2>2. CASE Answered(Reply("error"))
    BY <2>1, <2>2, <1>6
  <2>3. CASE ~Answered(Reply("error"))
    <3>1. Same /\ UNCHANGED <<results, running>> /\ pc' = "wide"
      BY <2>3, <1>11 DEF ModuleSetup
    <3>2. Decided'
      BY <3>1, <1>0, <1>2 DEF Decided, Ended
    <3> QED BY <2>1, <3>2
  <2> QED BY <2>2, <2>3
<1>12. CASE SyncWider
  <2>1. CASE Answered(Reply("error"))
    BY <2>1, <1>3, <1>6, <1>12 DEF SyncWider
  <2>2. CASE ~Answered(Reply("error"))
    BY <2>2, <1>4, <1>12 DEF SyncWider
  <2> QED BY <2>1, <2>2
<1>13. CASE Case
  BY <1>4, <1>13 DEF Case, NextCase
<1>14. CASE SetUpFunction
  <2>1. CASE running' = running
    <3>1. pc' = pc
      BY <2>1, <1>0, <1>14 DEF SetUpFunction, Placing, Placed, NoCase
    <3> QED BY <3>1, <2>1, <1>4, <1>14 DEF SetUpFunction
  <2>2. CASE running' # running
    <3>1. /\ pc' = "down" /\ running' = [running EXCEPT !.outcome = "error"]
          /\ Same /\ UNCHANGED <<xunit, results>> /\ running = NoCase
      BY <2>2, <1>0, <1>14 DEF SetUpFunction, Placing, Placed
    <3>2. ~running'.ran /\ running'.outcome = "error"
      BY <3>1 DEF NoCase
    <3> QED BY <3>1, <3>2, <1>0, <1>2, <1>3 DEF Decided, Ended
  <2> QED BY <2>1, <2>2
<1>15. CASE Body
  <2>1. /\ pc' = "down" /\ pc = "fixtures" /\ Same /\ UNCHANGED results
        /\ running = NoCase /\ (xunit' = xunit \/ xunit' = ClassSetup.xunit)
    BY <1>0, <1>15 DEF Body, Placing, Placed
  <2>2. Remembered'
    BY <2>1, <1>0, <1>3, SetupRemembered
  <2>3. ASSUME Barred PROVE Ended(running')
    <3>1. ClassSetup.outcome = ClassEnds /\ ClassEnds # "none"
      BY <2>1, <2>3, <1>0, BarredBySetup DEF Barred
    <3>2. \/ running' = [running EXCEPT !.outcome = "error"]
          \/ running' = [running EXCEPT !.outcome = runtime_outcome(test.attached, ClassEnds)]
      BY <3>1, <1>15 DEF Body
    <3> QED BY <2>1, <3>2 DEF Ended, NoCase
  <2> QED BY <2>1, <2>2, <2>3, <1>0, <1>2 DEF Decided, Ended
<1>16. CASE TearDown
  BY <1>4, <1>16 DEF TearDown
<1>17. CASE CaseDone
  <2>1. /\ pc = "down" /\ Same /\ xunit' = xunit /\ results' = Append(results, Result)
        /\ pc' \in {"combo", "case"}
    BY <1>17 DEF CaseDone, NextCase
  <2>2. PICK e : e = Result
    OBVIOUS
  <2>3. e.ran = running.ran /\ e.outcome = running.outcome
    BY <2>2 DEF Result
  <2>4. Barred => Ended(e)
    BY <2>1, <2>3, <1>0 DEF Decided, Ended
  <2>5. IsList(results) /\ IsList(results') /\ ToSet(results') = ToSet(results) \cup {e}
    BY <2>1, <2>2, <1>0, AppendList DEF Decided
  <2>6. ASSUME Barred, NEW k \in DOMAIN results' PROVE Ended(results'[k])
    <3>1. results'[k] \in ToSet(results) \cup {e}
      BY <2>5, ListFacts
    <3> QED BY <3>1, <2>4, <2>6, <1>0 DEF Decided, ToSet
  <2> QED BY <2>1, <2>5, <2>6, <1>2, <1>3 DEF Decided, Ended
<1>18. CASE Strike
  <2>1. suite' = suite /\ suite.deadline /\ pc' = "down" /\ results' = results
    BY <1>18 DEF Strike
  <2>2. xunit'.failed = xunit.failed
    BY <1>0, <1>18, XunitFields DEF Strike, Interrupted, Placing, Fielded, NoXunit
  <2> QED BY <2>1, <2>2, <1>0 DEF Remembered, Decided, Barred
<1>19. CASE Respond
  <2>1. PICK r : Answered(r)
    BY <1>19 DEF Respond
  <2> QED BY <2>1, <1>3, <1>6, <1>19 DEF Respond
<1>20. CASE TearDownAll
  <2>1. Same /\ UNCHANGED <<results, running>> /\ results = <<>> /\ (pc' = "idle" \/ pc' = "ended")
    BY <1>0, <1>20 DEF TearDownAll, Decided
  <2>2. xunit' = xunit \/ (xunit'.done = {} /\ xunit'.failed = xunit.failed)
    BY <1>0, <1>20 DEF TearDownAll, XunitTornDown, NoXunit
  <2>3. Remembered'
    BY <2>1, <2>2, <1>0 DEF Remembered
  <2> QED BY <2>1, <2>3, EmptyList DEF Decided
<1>21. CASE UNCHANGED shimVars
  BY <1>4, <1>21 DEF shimVars
<1> QED
  BY <1>7, <1>8, <1>9, <1>10, <1>11, <1>12, <1>13, <1>14, <1>15, <1>16, <1>17, <1>18, <1>19, <1>20, <1>21
     DEF ShimNext

LEMMA CInit ==
  ASSUME ShimInit
  PROVE  CInv
<1>1. results = <<>> /\ xunit.failed = <<>> /\ xunit.done = {} /\ pc = "idle"
  BY DEF ShimInit, NoXunit
<1> QED BY <1>1, PlacedInit, EmptyList DEF CInv, Remembered, Decided

\* Where no deadline interferes, no method of a unittest class runs once its setUpClass
\* has raised or skipped, and each bears that outcome or the error of a fixture of its
\* own: the failure outlives the tests, the requests and the class's tear-down.
THEOREM FailedClassesDecide == ShimSpec => []FailedClassDecides
<1>1. ShimInit => CInv
  BY CInit
<1>2. CInv /\ [ShimNext]_shimVars => CInv'
  BY CStep
<1>3. CInv => FailedClassDecides
  BY DEF CInv, Decided, Barred, Ended, FailedClassDecides
<1> QED BY <1>1, <1>2, <1>3, PTL DEF ShimSpec
-----------------------------------------------------------------------------
(* What a test's loops answer.                                             *)

Looping == pc \notin {"idle", "planned", "ended"}
\* The results so far are those of the kept variants below the running index, in order.
Tallied ==
  /\ Len(results) <= Len(plan.kept)
  /\ \A k \in 1 .. Len(results) : results[k].id = plan.ids[plan.kept[k]] /\ plan.kept[k] < loop.index
  /\ \A k \in DOMAIN plan.kept : Len(results) < k => loop.index <= plan.kept[k]
\* The running index counts the cases of the combos that are done.
Counted ==
  /\ loop.combo \in 1 .. plan.combos + 1 /\ loop.case \in 1 .. plan.cases
  /\ loop.index = (loop.combo - 1) * plan.cases + loop.case
  /\ pc = "combo" => loop.case = 1
  /\ pc # "combo" => loop.combo <= plan.combos
  /\ pc \in {"fixtures", "down"} => loop.index \in plan.selected
Loops == [combo : Nat, case : Nat, index : Nat]
TInv ==
  /\ Placing /\ IsList(results) /\ loop \in Loops
  /\ ~Looping => loop = Start /\ results = <<>>
  /\ Looping => Counted /\ Tallied

LEMMA KeptFacts ==
  ASSUME Placed, pc \notin {"idle", "ended"}
  PROVE  /\ plan.combos \in Nat /\ plan.cases \in Nat \ {0}
         /\ plan.selected \subseteq 1 .. plan.combos * plan.cases
         /\ IsList(plan.kept) /\ ToSet(plan.kept) = plan.selected
         /\ Len(plan.kept) \in Nat /\ DOMAIN plan.kept = 1 .. Len(plan.kept)
         /\ \A k \in DOMAIN plan.kept : plan.kept[k] \in plan.selected
         /\ \A j, k \in DOMAIN plan.kept : j < k => plan.kept[j] < plan.kept[k]
<1>1. turn \in DOMAIN suite.requests /\ child \in DOMAIN suite.requests[turn].tests
  BY Position DEF Placed, Request
<1>2. plan = Plans[suite][turn][child] /\ suite \in Suites
  BY DEF Placed
<1> DEFINE made == Plans[suite][turn][child]
<1>3. /\ made.combos \in Nat /\ made.cases \in Nat \ {0}
      /\ made.selected \subseteq 1 .. made.combos * made.cases
      /\ IsList(made.kept) /\ ToSet(made.kept) = made.selected
      /\ \A j, k \in DOMAIN made.kept : j < k => made.kept[j] < made.kept[k]
  BY <1>1, <1>2, PlansAreClosed, Zenon
<1> HIDE DEF made
<1>4. Len(made.kept) \in Nat /\ DOMAIN made.kept = 1 .. Len(made.kept)
      /\ \A k \in DOMAIN made.kept : made.kept[k] \in made.selected
  BY <1>3, ListFacts
<1> QED BY <1>2, <1>3, <1>4 DEF made

LEMMA NextCombo ==
  ASSUME NEW c \in Nat \ {0}, NEW n \in Nat
  PROVE  (c - 1) * n + n = (c + 1 - 1) * n
<1>1. PICK b \in Nat : c = b + 1
  <2>1. c - 1 \in Nat /\ c = (c - 1) + 1
    OBVIOUS
  <2> QED BY <2>1
<1>2. b * n + n = (b + 1) * n
  OBVIOUS
<1> QED BY <1>1, <1>2

LEMMA Moved ==
  ASSUME NEW l \in Loops, NEW c \in Nat, NEW i \in Nat
  PROVE  [l EXCEPT !.combo = c, !.index = i] = [combo |-> c, case |-> l.case, index |-> i]
<1>1. PICK a \in Nat, b \in Nat, d \in Nat : l = [combo |-> a, case |-> b, index |-> d]
  BY DEF Loops
<1>2. PICK m : m = [combo |-> c, case |-> b, index |-> d]
  OBVIOUS
<1>3. [l EXCEPT !.combo = c] = m
  BY <1>1, <1>2
<1>4. [m EXCEPT !.index = i] = [combo |-> c, case |-> b, index |-> i] /\ b = l.case
  BY <1>1, <1>2
<1> QED BY <1>3, <1>4, Zenon

\* No variant was kept among those passed over.
LEMMA PassedOver ==
  ASSUME Placed, pc \notin {"idle", "ended"}, Tallied, IsList(results), UNCHANGED <<plan, results>>,
         loop.index \in Nat, loop'.index \in Nat, loop.index <= loop'.index,
         \A i \in loop.index .. loop'.index - 1 : i \notin plan.selected
  PROVE  Tallied'
<1>1. Len(results) \in Nat
  BY ListFacts
<1>2. /\ Len(plan.kept) \in Nat /\ DOMAIN plan.kept = 1 .. Len(plan.kept)
      /\ \A k \in DOMAIN plan.kept : plan.kept[k] \in plan.selected /\ plan.kept[k] \in Nat
  BY KeptFacts
<1>3. PICK i \in Nat, j \in Nat : i = loop.index /\ j = loop'.index
  OBVIOUS
<1>4. ASSUME NEW k \in DOMAIN plan.kept, Len(results) < k PROVE j <= plan.kept[k]
  <2>1. i <= plan.kept[k]
    BY <1>3, <1>4 DEF Tallied
  <2> QED BY <2>1, <1>2, <1>3
<1>5. ASSUME NEW k \in 1 .. Len(results)
      PROVE  results[k].id = plan.ids[plan.kept[k]] /\ plan.kept[k] < j
  <2>1. k \in DOMAIN plan.kept
    BY <1>1, <1>2 DEF Tallied
  <2>2. results[k].id = plan.ids[plan.kept[k]] /\ plan.kept[k] < i
    BY <1>3 DEF Tallied
  <2> QED BY <2>1, <2>2, <1>2, <1>3
<1> QED BY <1>3, <1>4, <1>5 DEF Tallied

\* The variant that ran is the next of those kept.
LEMMA CaseTallied ==
  ASSUME Placed, pc = "down", Tallied, IsList(results), loop.index \in plan.selected,
         loop.index \in Nat, plan' = plan, results' = Append(results, Result),
         loop'.index = loop.index + 1
  PROVE  Tallied'
<1> DEFINE n == Len(results)
<1>1. n \in Nat
  BY ListFacts
<1>2. /\ Len(plan.kept) \in Nat /\ DOMAIN plan.kept = 1 .. Len(plan.kept)
      /\ ToSet(plan.kept) = plan.selected
      /\ \A k \in DOMAIN plan.kept : plan.kept[k] \in Nat
      /\ \A j, k \in DOMAIN plan.kept : j < k => plan.kept[j] < plan.kept[k]
  BY KeptFacts
<1>3. PICK i \in Nat : i = loop.index
  OBVIOUS
<1>4. PICK m \in DOMAIN plan.kept : plan.kept[m] = i
  BY <1>2, <1>3 DEF ToSet
<1>5. m = n + 1
  <2>1. ~(m <= n)
    BY <1>2, <1>3, <1>4 DEF Tallied
  <2>2. ~(n + 1 < m)
    <3>1. SUFFICES ASSUME n + 1 < m PROVE FALSE
      OBVIOUS
    <3>2. n + 1 \in DOMAIN plan.kept
      BY <3>1, <1>1, <1>2
    <3>3. i <= plan.kept[n + 1]
      <4>1. Len(results) < n + 1
        BY <1>1
      <4>2. \A k \in DOMAIN plan.kept : Len(results) < k => loop.index <= plan.kept[k]
        BY DEF Tallied
      <4> HIDE DEF n
      <4> QED BY <4>1, <4>2, <3>2, <1>3
    <3>4. plan.kept[n + 1] < i
      BY <3>1, <3>2, <1>2, <1>4
    <3> QED BY <3>2, <3>3, <3>4, <1>2
  <2> QED BY <2>1, <2>2, <1>1, <1>2
<1>6. PICK e : e = Result
  OBVIOUS
<1>7. e.id = plan.ids[i]
  BY <1>3, <1>6 DEF Result
<1>8. /\ Len(results') = n + 1 /\ results'[n + 1] = e
      /\ \A k \in 1 .. n : results'[k] = results[k]
  BY <1>6, AppendList
<1> HIDE DEF n
<1>9. ASSUME NEW k \in 1 .. n + 1
      PROVE  results'[k].id = plan.ids[plan.kept[k]] /\ plan.kept[k] < i + 1
  <2>1. CASE k = n + 1
    BY <2>1, <1>4, <1>5, <1>7, <1>8
  <2>2. CASE k # n + 1
    <3>1. k \in 1 .. n /\ k \in DOMAIN plan.kept
      BY <2>2, <1>1, <1>2, <1>5
    <3>2. results[k].id = plan.ids[plan.kept[k]] /\ plan.kept[k] < i
      BY <3>1, <1>3 DEF Tallied, n
    <3> QED BY <3>1, <3>2, <1>2, <1>8
  <2> QED BY <2>1, <2>2
<1>10. ASSUME NEW k \in DOMAIN plan.kept, n + 1 < k PROVE i + 1 <= plan.kept[k]
  <2>1. plan.kept[m] < plan.kept[k]
    BY <1>2, <1>5, <1>10
  <2> QED BY <2>1, <1>2, <1>4
<1>11. n + 1 <= Len(plan.kept)
  BY <1>2, <1>5
<1> QED BY <1>3, <1>8, <1>9, <1>10, <1>11 DEF Tallied

\* The next case, of this combo or of the next.
LEMMA NextCounted ==
  ASSUME Placed, Counted, pc \in {"case", "down"}, NextCase, plan' = plan,
         loop \in Loops
  PROVE  /\ loop' \in Loops /\ loop'.index = loop.index + 1
         /\ Counted' /\ pc' \in {"combo", "case"}
<1>1. plan.combos \in Nat /\ plan.cases \in Nat \ {0}
  BY KeptFacts
<1>2. PICK c \in Nat \ {0}, s \in Nat \ {0}, i \in Nat, n \in Nat \ {0}, all \in Nat :
        /\ c = loop.combo /\ s = loop.case /\ i = loop.index /\ n = plan.cases /\ all = plan.combos
        /\ c <= all /\ s <= n /\ i = (c - 1) * n + s
  <2>1. /\ loop.combo \in Nat \ {0} /\ loop.case \in Nat \ {0} /\ loop.index \in Nat
        /\ loop.combo <= plan.combos /\ loop.case <= plan.cases
        /\ loop.index = (loop.combo - 1) * plan.cases + loop.case
    BY <1>1 DEF Counted, Loops
  <2> QED BY <2>1, <1>1
<1>3. CASE s = n
  <2>1. loop' = [combo |-> c + 1, case |-> 1, index |-> i + 1] /\ pc' = "combo"
    BY <1>2, <1>3 DEF NextCase
  <2>2. i + 1 = (c + 1 - 1) * n + 1
    <3>1. (c - 1) * n + n = (c + 1 - 1) * n
      BY NextCombo
    <3> QED BY <3>1, <1>2, <1>3
  <2>3. /\ loop' \in Loops
        /\ loop'.combo = c + 1 /\ loop'.case = 1 /\ loop'.index = i + 1
    BY <2>1 DEF Loops
  <2> QED BY <2>1, <2>2, <2>3, <1>2 DEF Counted
<1>4. CASE s # n
  <2>1. loop' = [combo |-> c, case |-> s + 1, index |-> i + 1] /\ pc' = "case"
    BY <1>2, <1>4 DEF NextCase
  <2>2. /\ loop' \in Loops
        /\ loop'.combo = c /\ loop'.case = s + 1 /\ loop'.index = i + 1
    BY <2>1 DEF Loops
  <2>3. i + 1 = (c - 1) * n + (s + 1) /\ s + 1 <= n
    BY <1>2, <1>4
  <2> QED BY <2>1, <2>2, <2>3, <1>2 DEF Counted
<1> QED BY <1>3, <1>4

LEMMA TStep ==
  ASSUME TInv, [ShimNext]_shimVars
  PROVE  TInv'
<1> DEFINE Rest == /\ IsList(results') /\ loop' \in Loops
                   /\ ~Looping' => loop' = Start /\ results' = <<>>
                   /\ Looping' => Counted' /\ Tallied'
<1>0. /\ Placing /\ IsList(results) /\ loop \in Loops
      /\ ~Looping => loop = Start /\ results = <<>>
      /\ Looping => Counted /\ Tallied
  BY DEF TInv
<1>1. SUFFICES Rest
  BY <1>0, PlacedStep DEF TInv
<1>2. Start \in Loops
  BY DEF Start, Loops
<1>3. ASSUME UNCHANGED <<loop, results>>, ~Looping, ~Looping' PROVE Rest
  BY <1>0, <1>3
<1>4. ASSUME UNCHANGED <<plan, loop, results>>, Looping, Looping',
             pc' # "combo" => pc # "combo", pc' = "combo" => pc = "combo",
             pc' \in {"fixtures", "down"} => loop.index \in plan.selected
      PROVE  Rest
  BY <1>0, <1>4 DEF Counted, Tallied
<1>5. ASSUME NEW r, Answered(r) PROVE Rest
  BY <1>2, <1>5, EmptyList DEF Answered, Looping
<1>6. CASE MakePlan
  BY <1>3, <1>6 DEF MakePlan, Looping
<1>7. CASE Begin
  <2>1. CASE Runs
    <3>1. /\ pc = "planned" /\ pc' = "combo" /\ UNCHANGED <<plan, loop, results>>
          /\ loop = Start /\ results = <<>>
      BY <2>1, <1>0, <1>7 DEF Begin, Looping
    <3>2. /\ plan.combos \in Nat /\ plan.cases \in Nat \ {0} /\ Len(plan.kept) \in Nat
          /\ \A k \in DOMAIN plan.kept : plan.kept[k] \in Nat \ {0}
      BY <3>1, <1>0, KeptFacts DEF Placing
    <3>3. loop.combo = 1 /\ loop.case = 1 /\ loop.index = 1
      BY <3>1 DEF Start
    <3>4. Counted'
      <4>1. PICK n \in Nat \ {0} : n = plan.cases
        BY <3>2
      <4>2. 1 = (1 - 1) * n + 1 /\ 1 \in 1 .. n
        OBVIOUS
      <4> QED BY <3>1, <3>2, <3>3, <4>1, <4>2 DEF Counted
    <3>5. Tallied'
      BY <3>1, <3>2, <3>3, EmptyList DEF Tallied
    <3> QED BY <3>1, <3>4, <3>5, <1>0 DEF Looping
  <2>2. CASE ~Runs
    BY <2>2, <1>5, <1>7 DEF Begin
  <2> QED BY <2>1, <2>2
<1>8. CASE Combo
  <2>1. /\ pc = "combo" /\ Looping /\ Counted /\ Tallied /\ UNCHANGED <<plan, results>>
        /\ loop.combo <= plan.combos /\ loop.case = 1
    BY <1>0, <1>8 DEF Combo, Looping, Counted
  <2>2. PICK c \in Nat \ {0}, i \in Nat, n \in Nat \ {0}, all \in Nat :
          /\ c = loop.combo /\ i = loop.index /\ n = plan.cases /\ all = plan.combos
          /\ c <= all /\ i = (c - 1) * n + 1
    <3>1. plan.combos \in Nat /\ plan.cases \in Nat \ {0}
      BY <2>1, <1>0, KeptFacts DEF Placing
    <3>2. loop.combo \in Nat \ {0} /\ loop.index \in Nat
          /\ loop.index = (loop.combo - 1) * plan.cases + 1
      BY <3>1, <2>1, <1>0 DEF Counted, Loops
    <3> QED BY <3>1, <3>2, <2>1
  <2>3. CASE i .. i + n - 1 \cap plan.selected = {}
    <3>1. loop' = [loop EXCEPT !.combo = c + 1, !.index = i + n] /\ pc' = "combo"
      BY <2>1, <2>2, <2>3, <1>8 DEF Combo, SkippedCombo
    <3>2. loop' \in Loops /\ loop'.combo = c + 1 /\ loop'.case = 1 /\ loop'.index = i + n
      <4>1. loop' = [combo |-> c + 1, case |-> 1, index |-> i + n]
        <5>1. \A l \in Loops : \A x, z \in Nat :
                [l EXCEPT !.combo = x, !.index = z] = [combo |-> x, case |-> l.case, index |-> z]
          BY Moved, Zenon
        <5>2. c + 1 \in Nat /\ i + n \in Nat
          OBVIOUS
        <5> QED BY <5>1, <5>2, <3>1, <2>1, <1>0, Zenon
      <4> QED BY <4>1 DEF Loops
    <3>3. i + n = (c + 1 - 1) * n + 1
      <4>1. (c - 1) * n + n = (c + 1 - 1) * n
        BY NextCombo
      <4> QED BY <4>1, <2>2
    <3>4. Counted'
      BY <3>1, <3>2, <3>3, <2>1, <2>2 DEF Counted
    <3>5. Tallied'
      <4>1. \A k \in loop.index .. loop'.index - 1 : k \notin plan.selected
        BY <3>2, <2>2, <2>3
      <4>2. loop.index \in Nat /\ loop'.index \in Nat /\ loop.index <= loop'.index
        BY <3>2, <2>2
      <4> QED BY <4>1, <4>2, <2>1, <1>0, PassedOver DEF Placing
    <3> QED BY <3>1, <3>2, <3>4, <3>5, <2>1, <1>0 DEF Looping
  <2>4. CASE i .. i + n - 1 \cap plan.selected # {}
    <3>1. loop' = [loop EXCEPT !.case = 1] /\ pc' = "stale"
      BY <2>2, <2>4, <1>8 DEF Combo
    <3>2. loop' = loop
      BY <3>1, <2>1, <1>0 DEF Loops
    <3> QED BY <3>1, <3>2, <2>1, <1>0 DEF Looping, Counted, Tallied
  <2> QED BY <2>3, <2>4
<1>9. CASE TearDownStale
  BY <1>4, <1>9 DEF TearDownStale, Looping
<1>10. CASE ModuleSetup
  <2>1. CASE Answered(Reply("error"))
    BY <2>1, <1>5
  <2>2. CASE ~Answered(Reply("error"))
    BY <2>2, <1>4, <1>10 DEF ModuleSetup, Looping
  <2> QED BY <2>1, <2>2
<1>11. CASE SyncWider
  <2>1. CASE Answered(Reply("error"))
    BY <2>1, <1>5
  <2>2. CASE ~Answered(Reply("error"))
    <3>1. pc' \in {"case", "wide"} /\ pc = "wide" /\ UNCHANGED <<plan, loop, results>>
      BY <2>2, <1>11 DEF SyncWider
    <3> QED BY <3>1, <1>4 DEF Looping
  <2> QED BY <2>1, <2>2
<1>12. CASE Case
  <2>1. pc = "case" /\ Looping /\ Counted /\ Tallied /\ UNCHANGED <<plan, results>>
    BY <1>0, <1>12 DEF Case, Looping
  <2>2. CASE loop.index \in plan.selected
    BY <2>1, <2>2, <1>4, <1>12 DEF Case, Looping
  <2>3. CASE loop.index \notin plan.selected
    <3>1. NextCase
      BY <2>3, <1>12 DEF Case
    <3>2. loop' \in Loops /\ loop'.index = loop.index + 1 /\ Counted' /\ pc' \in {"combo", "case"}
      BY <3>1, <2>1, <1>0, NextCounted DEF Placing
    <3>3. loop.index \in Nat
      BY <1>0 DEF Loops
    <3>4. /\ loop'.index \in Nat /\ loop.index <= loop'.index
          /\ \A k \in loop.index .. loop'.index - 1 : k \notin plan.selected
      BY <2>3, <3>2, <3>3
    <3>5. Tallied'
      BY <2>1, <3>3, <3>4, <1>0, PassedOver DEF Placing
    <3> QED BY <3>2, <3>5, <2>1, <1>0 DEF Looping
  <2> QED BY <2>2, <2>3
<1>13. CASE SetUpFunction
  <2>1. Looping /\ Counted
    BY <1>0, <1>13 DEF SetUpFunction, Looping
  <2> QED BY <2>1, <1>4, <1>13 DEF SetUpFunction, Looping, Counted
<1>14. CASE Body
  <2>1. Looping /\ Counted
    BY <1>0, <1>14 DEF Body, Looping
  <2> QED BY <2>1, <1>4, <1>14 DEF Body, Looping, Counted
<1>15. CASE TearDown
  <2>1. Looping /\ Counted
    BY <1>0, <1>15 DEF TearDown, Looping
  <2> QED BY <2>1, <1>4, <1>15 DEF TearDown, Looping, Counted
<1>16. CASE CaseDone
  <2>1. /\ pc = "down" /\ Looping /\ Counted /\ Tallied /\ plan' = plan /\ NextCase
        /\ results' = Append(results, Result) /\ loop.index \in plan.selected
    BY <1>0, <1>16 DEF CaseDone, Looping, Counted
  <2>2. loop' \in Loops /\ loop'.index = loop.index + 1 /\ Counted' /\ pc' \in {"combo", "case"}
    BY <2>1, <1>0, NextCounted DEF Placing
  <2>3. loop.index \in Nat
    BY <1>0 DEF Loops
  <2>4. Tallied'
    BY <2>1, <2>2, <2>3, <1>0, CaseTallied DEF Placing
  <2>5. IsList(results')
    BY <2>1, <1>0, AppendList
  <2> QED BY <2>2, <2>4, <2>5 DEF Looping
<1>17. CASE Strike
  <2>1. Looping /\ Counted /\ pc' = "down" /\ pc \in {"fixtures", "down"} /\ UNCHANGED <<plan, loop, results>>
    BY <1>0, <1>17 DEF Strike, Looping
  <2> QED BY <2>1, <1>4 DEF Looping, Counted
<1>18. CASE Respond
  <2>1. PICK r : Answered(r)
    BY <1>18 DEF Respond
  <2> QED BY <2>1, <1>5
<1>19. CASE TearDownAll
  BY <1>3, <1>19 DEF TearDownAll, Looping
<1>20. CASE UNCHANGED shimVars
  BY <1>0, <1>20 DEF shimVars, Looping, Counted, Tallied
<1> QED
  BY <1>6, <1>7, <1>8, <1>9, <1>10, <1>11, <1>12, <1>13, <1>14, <1>15, <1>16, <1>17, <1>18, <1>19, <1>20
     DEF ShimNext

LEMMA TInit ==
  ASSUME ShimInit
  PROVE  TInv
<1>1. Start \in Loops
  BY DEF Start, Loops
<1> QED BY <1>1, PlacedInit, EmptyList DEF ShimInit, TInv, Looping

LEMMA AllTallied ==
  ASSUME TInv
  PROVE  KeptAreAnswered
<1> SUFFICES ASSUME pc = "combo", loop.combo > plan.combos
             PROVE  [k \in DOMAIN results |-> results[k].id]
                      = [k \in DOMAIN plan.kept |-> plan.ids[plan.kept[k]]]
  BY DEF KeptAreAnswered
<1>1. Placed /\ Counted /\ Tallied /\ IsList(results)
  BY DEF TInv, Looping, Placing
<1>2. /\ plan.combos \in Nat /\ plan.cases \in Nat \ {0}
      /\ plan.selected \subseteq 1 .. plan.combos * plan.cases
      /\ Len(plan.kept) \in Nat /\ DOMAIN plan.kept = 1 .. Len(plan.kept)
      /\ \A k \in DOMAIN plan.kept : plan.kept[k] \in plan.selected
  BY <1>1, KeptFacts
<1>3. PICK all \in Nat : all = plan.combos * plan.cases
  BY <1>2
<1>4. loop.index = all + 1
  <2>1. PICK b \in Nat, n \in Nat \ {0} : b = plan.combos /\ n = plan.cases
    BY <1>2
  <2>2. loop.combo = b + 1 /\ loop.case = 1 /\ loop.index = (loop.combo - 1) * n + loop.case
    BY <2>1, <1>1 DEF Counted
  <2>3. (b + 1 - 1) * n + 1 = b * n + 1
    OBVIOUS
  <2> QED BY <2>1, <2>2, <2>3, <1>3
<1>5. \A k \in DOMAIN plan.kept : plan.kept[k] \in 1 .. all
  BY <1>2, <1>3
<1>6. Len(results) \in Nat /\ DOMAIN results = 1 .. Len(results)
  BY <1>1, ListFacts
<1>7. Len(results) = Len(plan.kept)
  <2>1. ~(Len(results) < Len(plan.kept))
    <3>1. SUFFICES ASSUME Len(results) < Len(plan.kept) PROVE FALSE
      OBVIOUS
    <3>2. Len(plan.kept) \in DOMAIN plan.kept
      BY <3>1, <1>2, <1>6
    <3>3. all + 1 <= plan.kept[Len(plan.kept)]
      BY <3>1, <3>2, <1>1, <1>4 DEF Tallied
    <3> QED BY <3>2, <3>3, <1>3, <1>5
  <2> QED BY <2>1, <1>1, <1>2, <1>6 DEF Tallied
<1>8. DOMAIN results = DOMAIN plan.kept
  BY <1>2, <1>6, <1>7
<1>9. \A k \in DOMAIN results : results[k].id = plan.ids[plan.kept[k]]
  BY <1>1, <1>6 DEF Tallied
<1> QED BY <1>8, <1>9

\* Once a test's last combo is done, every variant that was kept has its one result, in the
\* order of the ids, and no other variant has: of any number of combos and cases, passed
\* over, failing or cut short in whichever way.
THEOREM KeptVariantsAreAnswered == ShimSpec => []KeptAreAnswered
<1>1. ShimInit => TInv
  BY TInit
<1>2. TInv /\ [ShimNext]_shimVars => TInv'
  BY TStep
<1>3. TInv => KeptAreAnswered
  BY AllTallied
<1> QED BY <1>1, <1>2, <1>3, PTL DEF ShimSpec
-----------------------------------------------------------------------------
(* Which definition a name means.                                          *)

LEMMA PrefixFacts ==
  ASSUME NEW s, IsList(s), NEW t, IsList(t)
  PROVE  IsPrefix(s, t) <=> Len(s) <= Len(t) /\ \A k \in 1 .. Len(s) : s[k] = t[k]
<1> DEFINE n == Len(s)
           T == ToSet(s) \cup ToSet(t)
<1>1. n \in Nat /\ Len(t) \in Nat /\ s \in Seq(T) /\ t \in Seq(T)
  BY ListFacts, SeqMonotonic DEF IsList
<1>2. ASSUME NEW u \in Seq(T), n <= Len(u)
      PROVE  /\ SubSeq(u, 1, n) \in Seq(T) /\ Len(SubSeq(u, 1, n)) = n
             /\ \A k \in 1 .. n : SubSeq(u, 1, n)[k] = u[k]
  <2>1. \A k \in 1 .. n : u[k] \in T
    <3>1. Len(u) \in Nat
      BY <1>2, LenProperties
    <3>2. \A k \in 1 .. n : k \in 1 .. Len(u)
      BY <1>1, <1>2, <3>1
    <3> HIDE DEF T, n
    <3> QED BY <3>2, ElementOfSeq
  <2> HIDE DEF T, n
  <2>2. /\ SubSeq(u, 1, n) \in Seq(T)
        /\ Len(SubSeq(u, 1, n)) = IF 1 <= n THEN n - 1 + 1 ELSE 0
        /\ \A k \in 1 .. n - 1 + 1 : SubSeq(u, 1, n)[k] = u[1 + k - 1]
    BY <1>1, <2>1, SubSeqProperties
  <2>3. n - 1 + 1 = n /\ (~(1 <= n) => n = 0) /\ \A k \in 1 .. n : 1 + k - 1 = k
    BY <1>1
  <2> QED BY <2>2, <2>3
<1>3. CASE n <= Len(t)
  <2>1. /\ SubSeq(s, 1, n) \in Seq(T) /\ Len(SubSeq(s, 1, n)) = n
        /\ \A k \in 1 .. n : SubSeq(s, 1, n)[k] = s[k]
    BY <1>1, <1>2
  <2>2. /\ SubSeq(t, 1, n) \in Seq(T) /\ Len(SubSeq(t, 1, n)) = n
        /\ \A k \in 1 .. n : SubSeq(t, 1, n)[k] = t[k]
    BY <1>1, <1>2, <1>3
  <2>3. SubSeq(s, 1, n) = SubSeq(t, 1, n) <=> \A k \in 1 .. n : SubSeq(s, 1, n)[k] = SubSeq(t, 1, n)[k]
    <3> HIDE DEF T, n
    <3> QED BY <2>1, <2>2, SeqEqual
  <2> QED BY <1>3, <2>1, <2>2, <2>3 DEF IsPrefix
<1>4. CASE ~(n <= Len(t))
  BY <1>4 DEF IsPrefix
<1> QED BY <1>3, <1>4

\* Of two directories above one test, the shallower is a proper prefix of the other.
LEMMA PrefixesNest ==
  ASSUME NEW s, IsList(s), NEW t, IsList(t), NEW u, IsList(u), IsPrefix(s, u), IsPrefix(t, u)
  PROVE  Len(s) < Len(t) <=> IsStrictPrefix(s, t)
<1>1. Len(s) \in Nat /\ Len(t) \in Nat /\ Len(u) \in Nat
  BY ListFacts
<1>2. /\ \A k \in 1 .. Len(s) : s[k] = u[k]
      /\ \A k \in 1 .. Len(t) : t[k] = u[k]
  BY PrefixFacts
<1>3. ASSUME Len(s) < Len(t) PROVE IsStrictPrefix(s, t)
  <2>1. Len(s) <= Len(t) /\ \A k \in 1 .. Len(s) : k \in 1 .. Len(t)
    BY <1>1, <1>3
  <2>2. IsPrefix(s, t)
    BY <2>1, <1>2, PrefixFacts
  <2>3. s # t
    BY <1>1, <1>3
  <2> QED BY <2>2, <2>3 DEF IsStrictPrefix
<1>4. ASSUME IsStrictPrefix(s, t) PROVE Len(s) < Len(t)
  <2>1. IsPrefix(s, t) /\ s # t
    BY <1>4 DEF IsStrictPrefix
  <2>2. Len(s) <= Len(t) /\ \A k \in 1 .. Len(s) : s[k] = t[k]
    BY <2>1, PrefixFacts
  <2>3. Len(s) # Len(t)
    BY <2>1, <2>2, ListsEqual
  <2> QED BY <2>2, <2>3, <1>1
<1> QED BY <1>3, <1>4

\* Of the definitions a test sees, the nearer is the more specific.
LEMMA NearerIsMoreSpecific ==
  ASSUME NEW S \in Suites, NEW t \in TestsOf(S), NEW i \in DOMAIN S.defs, NEW j \in DOMAIN S.defs,
         Sees(S.defs[i], t), Sees(S.defs[j], t)
  PROVE  /\ specificity(S.defs[i]) \in Int /\ specificity(S.defs[i]) <= 20000
         /\ Nearer(S.defs[i], S.defs[j]) <=> specificity(S.defs[i]) > specificity(S.defs[j])
<1>1. IsList(t.dir)
  BY FixturesArePlaced
<1>2. ASSUME NEW k \in DOMAIN S.defs
      PROVE  /\ S.defs[k].at.kind \in {"dir", "module", "class"} /\ S.defs[k].at.up \in Nat
             /\ IsList(S.defs[k].at.dir) /\ Len(S.defs[k].at.dir) \in Nat
             /\ Len(S.defs[k].at.dir) < 10000 /\ (S.defs[k].at.up > 0 => S.defs[k].at.dir = <<>>)
  <2>1. Len(S.defs[k].at.dir) \in Nat
    BY FixturesArePlaced, ListFacts
  <2> QED BY <2>1, FixturesArePlaced
<1>3. PICK a : a = S.defs[i]
  OBVIOUS
<1>4. PICK b : b = S.defs[j]
  OBVIOUS
<1>5. /\ a.at.kind \in {"dir", "module", "class"} /\ a.at.up \in Nat /\ IsList(a.at.dir)
      /\ Len(a.at.dir) \in Nat /\ Len(a.at.dir) < 10000 /\ (a.at.up > 0 => a.at.dir = <<>>)
      /\ b.at.kind \in {"dir", "module", "class"} /\ b.at.up \in Nat /\ IsList(b.at.dir)
      /\ Len(b.at.dir) \in Nat /\ Len(b.at.dir) < 10000 /\ (b.at.up > 0 => b.at.dir = <<>>)
  BY <1>2, <1>3, <1>4
<1>6. ASSUME NEW d, d.at.kind \in {"dir", "module", "class"}
      PROVE  specificity(d) = IF d.at.kind = "class" THEN 20000
                              ELSE IF d.at.kind = "module" THEN 10000
                              ELSE IF d.at.up > 0 THEN -d.at.up ELSE Len(d.at.dir)
  BY <1>6 DEF specificity, location_depth
<1>7. /\ specificity(a) = IF a.at.kind = "class" THEN 20000
                          ELSE IF a.at.kind = "module" THEN 10000
                          ELSE IF a.at.up > 0 THEN -a.at.up ELSE Len(a.at.dir)
      /\ specificity(b) = IF b.at.kind = "class" THEN 20000
                          ELSE IF b.at.kind = "module" THEN 10000
                          ELSE IF b.at.up > 0 THEN -b.at.up ELSE Len(b.at.dir)
  BY <1>5, <1>6
<1>8. /\ a.at.kind = "dir" => a.at.up > 0 \/ IsPrefix(a.at.dir, t.dir)
      /\ b.at.kind = "dir" => b.at.up > 0 \/ IsPrefix(b.at.dir, t.dir)
  BY <1>3, <1>4 DEF Sees, is_ancestor_dir
<1>9. CASE a.at.kind = "dir" /\ b.at.kind = "dir"
  <2>1. CASE a.at.up = 0 /\ b.at.up = 0
    <3>1. Len(b.at.dir) < Len(a.at.dir) <=> IsStrictPrefix(b.at.dir, a.at.dir)
      BY <2>1, <1>1, <1>5, <1>8, <1>9, PrefixesNest
    <3> QED BY <3>1, <2>1, <1>3, <1>4, <1>5, <1>7, <1>9 DEF Nearer
  <2>2. CASE a.at.up > 0 \/ b.at.up > 0
    <3>1. a.at.up = b.at.up => ~IsStrictPrefix(b.at.dir, a.at.dir)
      BY <2>2, <1>5 DEF IsStrictPrefix
    <3>2. specificity(a) > specificity(b) <=> a.at.up < b.at.up
      BY <2>2, <1>5, <1>7, <1>9
    <3> QED BY <3>1, <3>2, <2>2, <1>3, <1>4, <1>5, <1>7, <1>9 DEF Nearer
  <2> QED BY <2>1, <2>2, <1>5
<1>10. CASE ~(a.at.kind = "dir" /\ b.at.kind = "dir")
  BY <1>3, <1>4, <1>5, <1>7, <1>10 DEF Nearer
<1> QED BY <1>9, <1>10

LEMMA Resolved ==
  ASSUME NEW S \in Suites, NEW t \in TestsOf(S), NEW name, NEW below \in Int
  PROVE  LET found == {i \in visible(S, name, t) : specificity(S.defs[i]) < below}
             d == resolve(S, t, name, below)
         IN  IF found = {} THEN d = 0
             ELSE d \in found /\ \A i \in found : specificity(S.defs[i]) <= specificity(S.defs[d])
<1> DEFINE found == {i \in visible(S, name, t) : specificity(S.defs[i]) < below}
           spec(i) == specificity(S.defs[i])
           best == {i \in found : \A j \in found : spec(j) <= spec(i)}
           Lag == {20000 - spec(i) : i \in found}
<1>1. resolve(S, t, name, below) = IF best = {} THEN 0 ELSE Min(best)
  BY DEF resolve
<1>2. \A i \in found : i \in DOMAIN S.defs /\ spec(i) \in Int /\ spec(i) <= 20000
  BY NearerIsMoreSpecific DEF visible
<1>3. DOMAIN S.defs \subseteq Nat
  <2>1. DOMAIN S.defs = 1 .. Len(S.defs) /\ Len(S.defs) \in Nat
    BY FixturesArePlaced, ListFacts
  <2> QED BY <2>1
<1>4. ASSUME found # {} PROVE best # {}
  <2>1. Lag \in SUBSET Nat /\ Lag # {}
    <3> HIDE DEF found, spec
    <3>1. \A i \in found : 20000 - spec(i) \in Nat
      BY <1>2
    <3> QED BY <3>1, <1>4
  <2>2. PICK x \in Lag : \A y \in Lag : x <= y
    <3> HIDE DEF Lag
    <3> QED BY <2>1, LeastNat
  <2>3. PICK i \in found : x = 20000 - spec(i)
    OBVIOUS
  <2>4. ASSUME NEW j \in found PROVE spec(j) <= spec(i)
    <3>1. 20000 - spec(i) <= 20000 - spec(j)
      BY <2>2, <2>3
    <3>2. spec(i) \in Int /\ spec(j) \in Int
      BY <1>2
    <3> HIDE DEF spec
    <3> QED BY <3>1, <3>2
  <2>5. i \in best
    BY <2>4
  <2> QED BY <2>5
<1>5. ASSUME best # {} PROVE Min(best) \in best
  <2>1. best \in SUBSET Nat
    BY <1>2, <1>3
  <2> HIDE DEF best
  <2> QED BY <1>5, <2>1, Least
<1>6. found = {} => best = {}
  OBVIOUS
<1>7. \A i \in best : i \in found /\ \A j \in found : spec(j) <= spec(i)
  OBVIOUS
<1> HIDE DEF found, best
<1>8. CASE found = {}
  BY <1>1, <1>6, <1>8 DEF found
<1>9. CASE found # {}
  <2>1. resolve(S, t, name, below) \in best
    BY <1>1, <1>4, <1>5, <1>9
  <2> QED BY <2>1, <1>7, <1>9 DEF found
<1> QED BY <1>8, <1>9

LEMMA NearestIsResolved ==
  ASSUME NEW S \in Suites, NEW t \in TestsOf(S), NEW name
  PROVE  LET seen == visible(S, name, t)
             d == resolve(S, t, name, NoCeiling)
             outer == {i \in seen : Nearer(S.defs[d], S.defs[i])}
             next == resolve(S, t, name, ceiling(S, d, name))
         IN  seen # {} =>
               /\ d \in seen /\ \A i \in seen : ~Nearer(S.defs[i], S.defs[d])
               /\ IF outer = {} THEN next = 0
                  ELSE next \in outer /\ \A i \in outer : ~Nearer(S.defs[i], S.defs[next])
<1> DEFINE seen == visible(S, name, t)
           d == resolve(S, t, name, NoCeiling)
           outer == {i \in seen : Nearer(S.defs[d], S.defs[i])}
           next == resolve(S, t, name, ceiling(S, d, name))
           spec(i) == specificity(S.defs[i])
<1> SUFFICES ASSUME seen # {}
             PROVE  /\ d \in seen /\ \A i \in seen : ~Nearer(S.defs[i], S.defs[d])
                    /\ IF outer = {} THEN next = 0
                       ELSE next \in outer /\ \A i \in outer : ~Nearer(S.defs[i], S.defs[next])
  OBVIOUS
<1>1. /\ \A i \in seen : spec(i) \in Int /\ spec(i) <= 20000
      /\ \A i, j \in seen : Nearer(S.defs[i], S.defs[j]) <=> spec(i) > spec(j)
  BY NearerIsMoreSpecific DEF visible
<1>2. d \in seen /\ \A i \in seen : spec(i) <= spec(d)
  <2>1. {i \in seen : spec(i) < NoCeiling} = seen
    BY <1>1 DEF NoCeiling
  <2>2. NoCeiling \in Int
    BY DEF NoCeiling
  <2> QED BY <2>1, <2>2, Resolved
<1>3. \A i \in seen : ~Nearer(S.defs[i], S.defs[d])
  <2> HIDE DEF seen, d, spec
  <2> QED BY <1>1, <1>2
<1>4. ceiling(S, d, name) = spec(d)
  BY <1>2 DEF ceiling, visible
<1>5. outer = {i \in seen : spec(i) < spec(d)}
  <2>1. \A i \in seen : Nearer(S.defs[d], S.defs[i]) <=> spec(i) < spec(d)
    <3> HIDE DEF seen, d, spec
    <3> QED BY <1>1, <1>2
  <2> QED BY <2>1
<1>6. IF outer = {} THEN next = 0
      ELSE next \in outer /\ \A i \in outer : spec(i) <= spec(next)
  <2>1. spec(d) \in Int
    BY <1>1, <1>2
  <2> QED BY <2>1, <1>4, <1>5, Resolved
<1>7. ASSUME outer # {} PROVE next \in outer /\ \A i \in outer : ~Nearer(S.defs[i], S.defs[next])
  <2>1. outer \subseteq seen
    OBVIOUS
  <2> HIDE DEF seen, outer, next, spec
  <2> QED BY <2>1, <1>1, <1>6, <1>7
<1> QED BY <1>2, <1>3, <1>6, <1>7

\* Whatever the suite, a name asked for means the definition written nearest to the test,
\* and in a fixture that overrides it, the one just outside its own.
THEOREM NearestDefinitionWins == ShimSpec => []NearestWins
<1>1. ShimInit => Placing
  BY PlacedInit
<1>2. Placing /\ [ShimNext]_shimVars => Placing'
  BY PlacedStep
<1>3. Placing => NearestWins
  <2> SUFFICES ASSUME Placing, pc = "combo" PROVE NearestWins
    BY DEF NearestWins
  <2>1. suite \in Suites /\ test \in TestsOf(suite)
    BY Position DEF Placing, Placed
  <2> QED BY <2>1, NearestIsResolved DEF NearestWins
<1> QED BY <1>1, <1>2, <1>3, PTL DEF ShimSpec
-----------------------------------------------------------------------------
(* Whose instance a test is given.                                         *)

\* Some test of request p is the one described.
Asked(p, a) == \E t \in ToSet(suite.requests[p].tests) : a = Place(t)
\* A live wider fixture is kept under the key of the test it was set up for.  One that is
\* built from a fixture of its own name has a namesake as wide: nothing else could have
\* been live when it was.
Kept(e) ==
  /\ e.def \in DOMAIN suite.defs /\ e.key = instance_key(Def(e), e.test)
  /\ Def(e).name \in ToSet(deps_of(suite, e.def)) =>
       \E i \in DOMAIN suite.defs : i # e.def /\ suite.defs[i].name = Def(e).name /\ rank(suite.defs[i]) > 0
\* The wider fixtures are in the order of the requests they were set up for.
InTurn ==
  /\ \A e \in ToSet(active) : Kept(e)
  /\ \A j, k \in DOMAIN active :
       j <= k => \E p, q \in DOMAIN suite.requests :
                   p <= q /\ q <= turn /\ Asked(p, active[j].test) /\ Asked(q, active[k].test)
\* The case's own are in the order of the closure, none left out.
InClosureOrder ==
  /\ \A k \in DOMAIN locals : locals[k].def \in Ours /\ locals[k].test = Place(test)
  /\ \A j, k \in DOMAIN locals : locals[j].def = locals[k].def => j = k
  /\ \A q \in DOMAIN locals : \A a, b \in DOMAIN plan.closure :
       a < b /\ plan.closure[b] = locals[q].def /\ plan.closure[a] \in Ours =>
         \E p \in DOMAIN locals : p < q /\ locals[p].def = plan.closure[a]
\* GivenItsOwn speaks of values already given, which says nothing of the next test's.
GInv == InTurn /\ InClosureOrder /\ GivenItsOwn

LEMMA LastNamedFacts ==
  ASSUME NEW es, IsList(es), NEW name
  PROVE  LET k == LastNamed(es, name)
         IN  /\ \A j \in DOMAIN es : Def(es[j]).name = name => k # 0 /\ j <= k
             /\ k # 0 => k \in DOMAIN es /\ Def(es[k]).name = name
<1> DEFINE at == {k \in DOMAIN es : Def(es[k]).name = name}
<1>1. Len(es) \in Nat /\ DOMAIN es = 1 .. Len(es)
  BY ListFacts
<1>2. LastNamed(es, name) = IF at = {} THEN 0 ELSE Max(at)
  BY DEF LastNamed
<1>3. at \in SUBSET (0 .. Len(es)) /\ at \subseteq DOMAIN es /\ 0 \notin at
  BY <1>1
<1>4. \A j \in at : Def(es[j]).name = name
  OBVIOUS
<1>5. \A j \in DOMAIN es : Def(es[j]).name = name => j \in at
  OBVIOUS
<1> HIDE DEF at
<1>6. at # {} => Max(at) \in at /\ \A j \in at : j <= Max(at)
  BY <1>1, <1>3, Greatest
<1> QED BY <1>2, <1>3, <1>4, <1>5, <1>6

LEMMA OneAtMost ==
  ASSUME NEW n \in Nat, NEW T \in SUBSET (1 .. n), Cardinality(T) <= 1, NEW x \in T, NEW y \in T
  PROVE  x = y
<1>1. IsFiniteSet(1 .. n)
  BY FS_Interval
<1>2. IsFiniteSet(T)
  BY <1>1, FS_Subset
<1>3. SUFFICES ASSUME x # y PROVE FALSE
  OBVIOUS
<1>4. IsFiniteSet({}) /\ Cardinality({}) = 0
  BY FS_EmptySet
<1>5. IsFiniteSet({x}) /\ Cardinality({x}) = 1
  <2>1. {} \cup {x} = {x} /\ x \notin {}
    OBVIOUS
  <2> QED BY <2>1, <1>4, FS_AddElement
<1>6. Cardinality({x} \cup {y}) = 2
  BY <1>3, <1>5, FS_AddElement
<1>7. {x} \cup {y} \in SUBSET T
  OBVIOUS
<1>8. Cardinality({x} \cup {y}) <= Cardinality(T) /\ Cardinality(T) \in Nat
  BY <1>2, <1>7, FS_Subset, FS_CardinalityType
<1> QED BY <1>6, <1>8

\* An instance found by its key, and those of the definition set up since, are in scope.
LEMMA StaysInScope ==
  ASSUME Placed, turn <= Len(suite.requests), Standing, InTurn, Together(suite),
         NEW j \in DOMAIN active, NEW k \in DOMAIN active, j <= k, active[j].def = active[k].def,
         active[j].key = instance_key(Def(active[j]), test)
  PROVE  InScope(Def(active[k]), active[k].test, test)
<1>1. PICK d : d = Def(active[j])
  OBVIOUS
<1>2. Def(active[k]) = d
  BY <1>1 DEF Def
<1>3. active[j].key = instance_key(d, active[j].test) /\ active[k].def \in DOMAIN suite.defs
  BY <1>1 DEF InTurn, Kept, ToSet
<1>4. d.scope \in DOMAIN Rank
  BY <1>2, <1>3, FixturesArePlaced DEF Def, Placed
<1>5. PICK p, q \in DOMAIN suite.requests :
        p <= q /\ q <= turn /\ Asked(p, active[j].test) /\ Asked(q, active[k].test)
  BY DEF InTurn
<1>6. PICK t \in ToSet(suite.requests[p].tests) : active[j].test = Place(t)
  BY <1>5 DEF Asked
<1>7. PICK u \in ToSet(suite.requests[q].tests) : active[k].test = Place(u)
  BY <1>5 DEF Asked
<1>8. turn \in DOMAIN suite.requests /\ test \in ToSet(suite.requests[turn].tests) /\ suite \in Suites
  BY Position DEF Placed, test, Request, ToSet
<1>9. t.module = test.module =>
        u.module = t.module /\ (class_of(t) = class_of(test) => class_of(u) = class_of(t))
  BY <1>5, <1>8 DEF Together
<1>10. u \in TestsOf(suite) /\ test \in TestsOf(suite)
  BY <1>8 DEF TestsOf
<1>11. instance_key(d, t) = instance_key(d, test)
  <2>1. PICK a : a = Place(t)
    OBVIOUS
  <2>2. a.module = t.module /\ a.class = t.class /\ a.name = t.name
    BY <2>1 DEF Place
  <2>3. class_of(a) = class_of(t)
    BY <2>2 DEF class_of
  <2>4. instance_key(d, a) = instance_key(d, t)
    BY <2>2, <2>3, Zenon DEF instance_key
  <2> QED BY <2>1, <2>4, <1>1, <1>3, <1>6
<1>12. rank(d) > 0
  BY <1>1 DEF Standing, ToSet
<1>13. d.scope \in {"session", "package", "module", "class"}
  BY <1>4, <1>12 DEF rank, Rank
<1>14. SUFFICES InScope(d, Place(u), test)
  BY <1>2, <1>7
<1>15. CASE d.scope \in {"session", "package"}
  BY <1>15 DEF InScope
<1>16. CASE d.scope = "module"
  <2>1. u.module = test.module
    BY <1>9, <1>11, <1>16 DEF instance_key
  <2> QED BY <2>1, <1>16 DEF InScope, Place
<1>17. CASE d.scope = "class"
  <2>1. u.module = test.module /\ class_of(u) = class_of(test)
    BY <1>9, <1>11, <1>17 DEF instance_key
  <2>2. u.class = test.class /\ (u.class = "none" => u.name = test.name)
    BY <2>1, <1>8, <1>10, SuitesAreCollected DEF class_of
  <2> QED BY <2>1, <2>2, <1>17 DEF InScope, Place
<1> QED BY <1>13, <1>15, <1>16, <1>17

LEMMA KeyNames ==
  ASSUME NEW a, NEW t
  PROVE  instance_key(a, t).name = a.name
<1>1. CASE a.scope = "session"
  BY <1>1 DEF instance_key
<1>2. CASE a.scope = "package"
  BY <1>2 DEF instance_key
<1>3. CASE a.scope = "module"
  BY <1>3 DEF instance_key
<1>4. CASE a.scope = "class"
  BY <1>4 DEF instance_key
<1>5. CASE a.scope \notin {"session", "package", "module", "class"}
  BY <1>5 DEF instance_key
<1> QED BY <1>1, <1>2, <1>3, <1>4, <1>5

\* The nearest definition of a name asked for is up, and is the one found by the name.
LEMMA GivenNow ==
  ASSUME KInv, LInv, InTurn, InClosureOrder, pc = "fixtures", NextOfOurs = 0, Together(suite),
         NEW n \in ToSet(plan.requested), visible(suite, n, test) # {},
         Cardinality({i \in DOMAIN suite.defs : suite.defs[i].name = n /\ rank(suite.defs[i]) > 0}) <= 1,
         NEW e \in Bound(locals, n)
  PROVE  e.def = resolve(suite, test, n, NoCeiling) /\ InScope(Def(e), e.test, test)
<1> DEFINE wide == {i \in DOMAIN suite.defs : suite.defs[i].name = n /\ rank(suite.defs[i]) > 0}
<1>1. /\ Placed /\ Standing /\ turn <= Len(suite.requests) /\ suite \in Suites /\ test \in TestsOf(suite)
      /\ IsList(active) /\ IsList(locals) /\ Missing = 0
  BY Position DEF KInv, LInv, Placing, Placed, Standing, Upright
<1>0. \A m \in DOMAIN plan.closure : m \in Nat /\ plan.closure[m] \in DOMAIN suite.defs
  <2>1. plan.closure \in Seq(DOMAIN suite.defs)
    BY <1>1, PlanFacts
  <2> QED BY <2>1
<1>2. PICK d : d = resolve(suite, test, n, NoCeiling)
  OBVIOUS
<1>3. d \in visible(suite, n, test)
  BY <1>1, <1>2, NearestIsResolved
<1>4. /\ IsList(suite.defs) /\ DOMAIN suite.defs = 1 .. Len(suite.defs) /\ Len(suite.defs) \in Nat
      /\ d \in DOMAIN suite.defs /\ d # 0 /\ suite.defs[d].name = n
      /\ suite.defs[d].scope \in DOMAIN Rank
  <2>1. IsList(suite.defs)
    BY <1>1, FixturesArePlaced
  <2>2. DOMAIN suite.defs = 1 .. Len(suite.defs) /\ Len(suite.defs) \in Nat
    BY <2>1, ListFacts
  <2>3. d \in DOMAIN suite.defs /\ suite.defs[d].name = n
    BY <1>3 DEF visible
  <2> QED BY <2>1, <2>2, <2>3, <1>1, FixturesArePlaced
<1>5. PICK k \in DOMAIN plan.closure :
        /\ plan.closure[k] = d
        /\ \A j \in DOMAIN plan.closure \ {k} :
             suite.defs[plan.closure[j]].name = n =>
               j < k /\ n \in ToSet(deps_of(suite, d))
  BY <1>1, <1>2, <1>4, PlanFacts
<1>6. rank(suite.defs[d]) = 0 \/ rank(suite.defs[d]) > 0
  BY <1>4 DEF rank, Rank
<1>7. \A x, y \in wide : x = y
  <2>1. wide \in SUBSET (1 .. Len(suite.defs)) /\ Cardinality(wide) <= 1
    BY <1>4
  <2> HIDE DEF wide
  <2> QED BY <2>1, <1>4, OneAtMost
<1>8. CASE rank(suite.defs[d]) = 0
  <2>1. PICK q \in DOMAIN locals : locals[q].def = d
    <3>1. d \in Ours
      BY <1>5, <1>8 DEF Ours, ToSet
    <3>2. \A m \in DOMAIN plan.closure : plan.closure[m] \notin Ours \ {x.def : x \in ToSet(locals)}
      <4> DEFINE ks == {m \in DOMAIN plan.closure : plan.closure[m] \in Ours \ {x.def : x \in ToSet(locals)}}
      <4>1. SUFFICES ks = {}
        OBVIOUS
      <4>2. SUFFICES ASSUME ks # {} PROVE FALSE
        OBVIOUS
      <4>3. ks \in SUBSET Nat
        BY <1>0
      <4>4. Min(ks) \in ks /\ NextOfOurs = plan.closure[Min(ks)]
        <5>1. NextOfOurs = plan.closure[Min(ks)]
          BY <4>2 DEF NextOfOurs
        <5> HIDE DEF ks
        <5> QED BY <5>1, <4>2, <4>3, Least
      <4>5. PICK m : m = Min(ks)
        OBVIOUS
      <4>6. m \in DOMAIN plan.closure /\ NextOfOurs = plan.closure[m]
        BY <4>4, <4>5
      <4>7. NextOfOurs \in DOMAIN suite.defs
        BY <4>6, <1>0
      <4> QED BY <4>7, <1>4
    <3>3. d \in {x.def : x \in ToSet(locals)}
      BY <3>1, <3>2, <1>5
    <3> QED BY <3>3 DEF ToSet
  <2>2. PICK p : p = LastNamed(locals, n)
    OBVIOUS
  <2>3. p # 0 /\ q <= p /\ p \in DOMAIN locals /\ Def(locals[p]).name = n
    <3>1. Def(locals[q]).name = n
      BY <2>1, <1>4 DEF Def
    <3> QED BY <3>1, <2>2, <1>1, LastNamedFacts
  <2>4. e = locals[p]
    BY <2>2, <2>3 DEF Bound
  <2>5. locals[p].def = d
    <3>1. PICK m \in DOMAIN plan.closure : plan.closure[m] = locals[p].def
      BY <2>3 DEF InClosureOrder, Ours, ToSet
    <3>2. SUFFICES ASSUME m # k PROVE FALSE
      BY <3>1, <1>5
    <3>3. m < k
      BY <3>1, <3>2, <2>3, <1>5 DEF Def
    <3>4. plan.closure[m] \in Ours
      BY <3>1, <2>3 DEF InClosureOrder
    <3>5. PICK r \in DOMAIN locals : r < q /\ locals[r].def = plan.closure[m]
      BY <3>3, <3>4, <2>1, <1>5 DEF InClosureOrder
    <3>6. r = p
      BY <3>1, <3>5, <2>3 DEF InClosureOrder
    <3>7. q \in Nat /\ p \in Nat
      BY <2>3, <1>1, ListFacts
    <3> QED BY <3>5, <3>6, <3>7, <2>3
  <2>6. suite.defs[d].scope = "function" /\ e.test = Place(test)
    BY <1>4, <1>8, <2>3, <2>4 DEF rank, Rank, InClosureOrder
  <2>7. Def(e).scope = "function" /\ e.test.name = test.name
    BY <2>4, <2>5, <2>6 DEF Def, Place
  <2> QED BY <2>4, <2>5, <2>7, <1>2 DEF InScope
<1>9. CASE rank(suite.defs[d]) > 0
  <2>1. instance_key(suite.defs[d], test) \in Live
    <3> DEFINE ks == {m \in DOMAIN plan.closure :
                        /\ rank(suite.defs[plan.closure[m]]) > 0
                        /\ instance_key(suite.defs[plan.closure[m]], test) \notin Live}
    <3>1. SUFFICES ks = {}
      BY <1>5, <1>9
    <3>2. SUFFICES ASSUME ks # {} PROVE FALSE
      OBVIOUS
    <3>3. ks \in SUBSET Nat
      BY <1>0
    <3>4. Min(ks) \in ks /\ Missing = plan.closure[Min(ks)]
      <4>1. Missing = plan.closure[Min(ks)]
        BY <3>2 DEF Missing
      <4> HIDE DEF ks
      <4> QED BY <4>1, <3>2, <3>3, Least
    <3>5. PICK m : m = Min(ks)
      OBVIOUS
    <3>6. m \in DOMAIN plan.closure /\ Missing = plan.closure[m]
      BY <3>4, <3>5
    <3>7. Missing \in DOMAIN suite.defs
      BY <3>6, <1>0
    <3> QED BY <3>7, <1>1, <1>4
  <2>2. PICK j \in DOMAIN active : active[j].key = instance_key(suite.defs[d], test)
    BY <2>1 DEF Live
  <2>3. \A i \in DOMAIN active : /\ active[i].def \in DOMAIN suite.defs /\ rank(Def(active[i])) > 0
                                 /\ active[i].key = instance_key(Def(active[i]), active[i].test)
    BY <1>1 DEF InTurn, Kept, Standing, ToSet
  <2>4. \A a, b, t, u : instance_key(a, t) = instance_key(b, u) => a.name = b.name
    BY KeyNames
  <2>5. \A i \in DOMAIN active : Def(active[i]).name = n => active[i].def = d
    <3>1. d \in wide
      BY <1>4, <1>9
    <3>2. ASSUME NEW i \in DOMAIN active, Def(active[i]).name = n PROVE active[i].def \in wide
      BY <3>2, <2>3 DEF Def
    <3> HIDE DEF wide
    <3> QED BY <3>1, <3>2, <1>7
  <2>6. active[j].def = d /\ Def(active[j]) = suite.defs[d]
    <3>1. Def(active[j]).name = n
      BY <2>2, <2>3, <2>4, <1>4
    <3> QED BY <3>1, <2>5 DEF Def
  <2>7. n \notin ToSet(deps_of(suite, d))
    <3>1. SUFFICES ASSUME n \in ToSet(deps_of(suite, d)) PROVE FALSE
      OBVIOUS
    <3>2. PICK i \in DOMAIN suite.defs : i # d /\ suite.defs[i].name = n /\ rank(suite.defs[i]) > 0
      <4>1. Kept(active[j])
        BY DEF InTurn, ToSet
      <4> QED BY <4>1, <3>1, <2>6, <1>4 DEF Kept
    <3>3. i \in wide /\ d \in wide
      BY <3>2, <1>4, <1>9
    <3> HIDE DEF wide
    <3> QED BY <3>2, <3>3, <1>7
  <2>8. LastNamed(locals, n) = 0
    <3>1. SUFFICES ASSUME NEW p, p = LastNamed(locals, n), p # 0 PROVE FALSE
      OBVIOUS
    <3>2. p \in DOMAIN locals /\ Def(locals[p]).name = n
      BY <3>1, <1>1, LastNamedFacts
    <3>3. locals[p].def \in Ours
      BY <3>2 DEF InClosureOrder
    <3>4. PICK m \in DOMAIN plan.closure : plan.closure[m] = locals[p].def
      BY <3>3 DEF Ours, ToSet
    <3>5. locals[p].def # d
      BY <3>3, <1>9 DEF Ours
    <3> QED BY <3>2, <3>4, <3>5, <2>7, <1>5 DEF Def
  <2>9. PICK l : l = LastNamed(active, n)
    OBVIOUS
  <2>10. l # 0 /\ j <= l /\ l \in DOMAIN active /\ Def(active[l]).name = n
    <3>1. Def(active[j]).name = n
      BY <2>6, <1>4
    <3> QED BY <3>1, <2>9, <1>1, LastNamedFacts
  <2>11. e = active[l] /\ active[l].def = d
    BY <2>5, <2>8, <2>9, <2>10 DEF Bound
  <2>12. InScope(Def(active[l]), active[l].test, test)
    <3>1. active[j].key = instance_key(Def(active[j]), test) /\ active[j].def = active[l].def
      BY <2>2, <2>6, <2>11
    <3> QED BY <3>1, <2>10, <1>1, StaysInScope
  <2> QED BY <2>11, <2>12, <1>2
<1> QED BY <1>6, <1>8, <1>9

LEMMA TurnKept ==
  ASSUME Placed, InTurn, UNCHANGED <<suite, active>>, turn' \in {turn, turn + 1}
  PROVE  InTurn'
<1>1. \A q \in DOMAIN suite.requests : q <= turn => q <= turn'
  <2>1. IsList(suite.requests)
    BY SuitesAreCollected DEF Placed
  <2>2. DOMAIN suite.requests \subseteq Nat /\ turn \in Nat
    BY <2>1, ListFacts DEF Placed
  <2> QED BY <2>2
<1> QED BY <1>1 DEF InTurn, Kept, Asked, Def

LEMMA TurnCut ==
  ASSUME InTurn, IsList(active), active # <<>>, active' = Front(active), UNCHANGED <<suite, turn>>
  PROVE  InTurn'
<1>1. PICK n \in Nat : n = Len(active) - 1 /\ DOMAIN active = 1 .. n + 1
  <2>1. Len(active) \in Nat \ {0} /\ DOMAIN active = 1 .. Len(active)
    BY ListFacts
  <2>2. PICK l \in Nat \ {0} : l = Len(active)
    BY <2>1
  <2>3. l - 1 \in Nat /\ (l - 1) + 1 = l
    OBVIOUS
  <2> QED BY <2>1, <2>2, <2>3
<1>2. DOMAIN active' = 1 .. n /\ \A k \in 1 .. n : active'[k] = active[k]
  <2>1. IsList(active') /\ Len(active') = n /\ \A k \in 1 .. n : active'[k] = active[k]
    BY <1>1, FrontList
  <2> QED BY <2>1, ListFacts
<1>3. \A k \in 1 .. n : k \in DOMAIN active
  BY <1>1
<1>4. \A e \in ToSet(active') : e \in ToSet(active)
  BY <1>2, <1>3 DEF ToSet
<1>5. ASSUME NEW j \in DOMAIN active', NEW k \in DOMAIN active', j <= k
      PROVE  \E p, q \in DOMAIN suite.requests :
               p <= q /\ q <= turn /\ Asked(p, active'[j].test) /\ Asked(q, active'[k].test)
  BY <1>2, <1>3, <1>5 DEF InTurn
<1> QED BY <1>4, <1>5 DEF InTurn, Kept, Asked, Def

LEMMA TurnUp ==
  ASSUME KInv, InTurn, pc = "wide", Missing # 0, SetUp(Missing, <<>>).ok,
         active' = Append(active, SetUp(Missing, <<>>).entry), UNCHANGED <<suite, turn>>
  PROVE  InTurn'
<1>0. Placed /\ IsList(active) /\ turn <= Len(suite.requests)
  BY DEF KInv, Placing, Placed, Standing
<1>1. PICK e : e = SetUp(Missing, <<>>).entry
  OBVIOUS
<1>2. e.def = Missing /\ e.key = instance_key(suite.defs[Missing], test) /\ e.test = Place(test)
  BY <1>1 DEF SetUp
<1>3. Missing \in DOMAIN suite.defs /\ rank(suite.defs[Missing]) > 0
  <2> DEFINE ks == {m \in DOMAIN plan.closure :
                      /\ rank(suite.defs[plan.closure[m]]) > 0
                      /\ instance_key(suite.defs[plan.closure[m]], test) \notin Live}
  <2>1. plan.closure \in Seq(DOMAIN suite.defs)
    BY <1>0, PlanFacts
  <2>2. ks # {} /\ Missing = plan.closure[Min(ks)] /\ ks \in SUBSET Nat
    <3>1. DOMAIN plan.closure \subseteq Nat
      BY <2>1
    <3>2. Missing = IF ks = {} THEN 0 ELSE plan.closure[Min(ks)]
      BY DEF Missing
    <3> QED BY <3>1, <3>2
  <2>3. Min(ks) \in ks
    <3> HIDE DEF ks
    <3> QED BY <2>2, Least
  <2>4. PICK m : m = Min(ks)
    OBVIOUS
  <2>5. m \in DOMAIN plan.closure /\ Missing = plan.closure[m] /\ rank(suite.defs[plan.closure[m]]) > 0
    BY <2>2, <2>3, <2>4
  <2> QED BY <2>1, <2>5
<1>4. Kept(e)
  <2>1. e.key = instance_key(Def(e), e.test)
    <3>1. PICK a : a = Place(test)
      OBVIOUS
    <3>2. a.module = test.module /\ a.class = test.class /\ a.name = test.name
      BY <3>1 DEF Place
    <3>3. class_of(a) = class_of(test)
      BY <3>2 DEF class_of
    <3>4. \A d : instance_key(d, a) = instance_key(d, test)
      BY <3>2, <3>3, Zenon DEF instance_key
    <3> QED BY <3>1, <3>4, <1>2 DEF Def
  <2>2. ASSUME Def(e).name \in ToSet(deps_of(suite, e.def))
        PROVE  \E i \in DOMAIN suite.defs :
                 i # e.def /\ suite.defs[i].name = Def(e).name /\ rank(suite.defs[i]) > 0
    <3>1. PICK deps : deps = deps_of(suite, Missing)
      OBVIOUS
    <3>2. PICK name : name = suite.defs[Missing].name
      OBVIOUS
    <3>3. name \in ToSet(deps) /\ Def(e) = suite.defs[Missing]
      BY <3>1, <3>2, <2>2, <1>2 DEF Def
    <3>4. Bound(<<>>, name) # {}
      BY <3>1, <3>3 DEF SetUp, ToSet
    <3>5. LastNamed(<<>>, name) = 0
      <4>1. DOMAIN <<>> = {}
        OBVIOUS
      <4> QED BY <4>1 DEF LastNamed
    <3>6. PICK l : l = LastNamed(active, name)
      OBVIOUS
    <3>7. l # 0
      BY <3>4, <3>5, <3>6 DEF Bound
    <3>8. l \in DOMAIN active /\ Def(active[l]).name = name
      BY <3>6, <3>7, <1>0, LastNamedFacts
    <3>9. Kept(active[l]) /\ rank(Def(active[l])) > 0
      BY <3>8 DEF KInv, Standing, InTurn, ToSet
    <3>10. CASE active[l].def = e.def
      BY <3>8, <3>9, <3>10, <2>2 DEF Kept, Def
    <3>11. CASE active[l].def # e.def
      BY <3>2, <3>3, <3>8, <3>9, <3>11 DEF Kept, Def
    <3> QED BY <3>10, <3>11
  <2> QED BY <2>1, <2>2, <1>2, <1>3 DEF Kept
<1>5. PICK n \in Nat : n = Len(active) /\ DOMAIN active = 1 .. n
  BY <1>0, ListFacts
<1>6. /\ IsList(active') /\ Len(active') = n + 1 /\ \A k \in 1 .. n : active'[k] = active[k]
      /\ active'[n + 1] = e /\ ToSet(active') = ToSet(active) \cup {e}
  BY <1>0, <1>1, <1>5, AppendList
<1>7. DOMAIN active' = 1 .. n + 1
  BY <1>6, ListFacts
<1>8. turn \in DOMAIN suite.requests /\ Asked(turn, e.test) /\ turn \in Nat
  <2>1. test \in ToSet(suite.requests[turn].tests)
    BY <1>0, Position DEF test, Request, ToSet
  <2> QED BY <2>1, <1>0, <1>2, Position DEF Asked, Placed
<1>9. ASSUME NEW j \in DOMAIN active', NEW k \in DOMAIN active', j <= k
      PROVE  \E p, q \in DOMAIN suite.requests :
               p <= q /\ q <= turn /\ Asked(p, active'[j].test) /\ Asked(q, active'[k].test)
  <2>1. CASE k \in 1 .. n
    <3>1. j \in 1 .. n
      BY <2>1, <1>7, <1>9
    <3> QED BY <2>1, <3>1, <1>5, <1>6, <1>9 DEF InTurn
  <2>2. CASE k = n + 1 /\ j \in 1 .. n
    <3>1. PICK p, q \in DOMAIN suite.requests :
            p <= q /\ q <= turn /\ Asked(p, active[j].test) /\ Asked(q, active[j].test)
      BY <2>2, <1>5 DEF InTurn
    <3>2. q <= turn /\ turn <= turn /\ Asked(q, active'[j].test)
      BY <3>1, <2>2, <1>6, <1>8
    <3> QED BY <3>2, <2>2, <1>6, <1>8
  <2>3. CASE k = n + 1 /\ j = n + 1
    <3>1. turn <= turn
      BY <1>8
    <3> QED BY <3>1, <2>3, <1>6, <1>8
  <2> QED BY <2>1, <2>2, <2>3, <1>7
<1>10. \A x \in ToSet(active') : Kept(x)
  BY <1>4, <1>6 DEF InTurn
<1>11. (\A x \in ToSet(active) : Kept(x))'
  <2>1. \A x : Kept(x) => Kept(x)'
    BY DEF Kept, Def
  <2> QED BY <1>10, <2>1
<1>12. (\A j, k \in DOMAIN active :
          j <= k => \E p, q \in DOMAIN suite.requests :
                      p <= q /\ q <= turn /\ Asked(p, active[j].test) /\ Asked(q, active[k].test))'
  BY <1>9 DEF Asked
<1> QED BY <1>11, <1>12 DEF InTurn

LEMMA OrderKept ==
  ASSUME InClosureOrder, UNCHANGED <<suite, turn, child, plan, locals>>
  PROVE  InClosureOrder'
BY DEF InClosureOrder, Ours, test, Request

LEMMA OrderCut ==
  ASSUME InClosureOrder, IsList(locals), locals # <<>>, locals' = Front(locals),
         UNCHANGED <<suite, turn, child, plan>>
  PROVE  InClosureOrder'
<1>1. PICK n \in Nat : n = Len(locals) - 1 /\ DOMAIN locals = 1 .. n + 1
  <2>1. Len(locals) \in Nat \ {0} /\ DOMAIN locals = 1 .. Len(locals)
    BY ListFacts
  <2>2. PICK l \in Nat \ {0} : l = Len(locals)
    BY <2>1
  <2>3. l - 1 \in Nat /\ (l - 1) + 1 = l
    OBVIOUS
  <2> QED BY <2>1, <2>2, <2>3
<1>2. DOMAIN locals' = 1 .. n /\ \A k \in 1 .. n : locals'[k] = locals[k]
  <2>1. IsList(locals') /\ Len(locals') = n /\ \A k \in 1 .. n : locals'[k] = locals[k]
    BY <1>1, FrontList
  <2> QED BY <2>1, ListFacts
<1>3. \A k \in 1 .. n : k \in DOMAIN locals /\ \A j \in DOMAIN locals : j < k => j \in 1 .. n
  BY <1>1
<1>4. test' = test /\ Ours' = Ours
  BY DEF test, Request, Ours
<1>5. /\ \A k \in 1 .. n : locals[k].def \in Ours /\ locals[k].test = Place(test)
      /\ \A j, k \in 1 .. n : locals[j].def = locals[k].def => j = k
  BY <1>3 DEF InClosureOrder
<1>6. ASSUME NEW q \in 1 .. n, NEW a \in DOMAIN plan.closure, NEW b \in DOMAIN plan.closure,
             a < b, plan.closure[b] = locals[q].def, plan.closure[a] \in Ours
      PROVE  \E p \in 1 .. n : p < q /\ locals[p].def = plan.closure[a]
  BY <1>3, <1>6 DEF InClosureOrder
<1> QED BY <1>2, <1>4, <1>5, <1>6 DEF InClosureOrder, Place

LEMMA OrderUp ==
  ASSUME KInv, InClosureOrder, pc = "fixtures", NextOfOurs # 0,
         locals' = Append(locals, SetUp(NextOfOurs, locals).entry), UNCHANGED <<suite, turn, child, plan>>
  PROVE  InClosureOrder'
<1> DEFINE ks == {k \in DOMAIN plan.closure : plan.closure[k] \in Ours \ {e.def : e \in ToSet(locals)}}
<1>0. Placed /\ IsList(locals)
  BY DEF KInv, Placing, Standing
<1>1. plan.closure \in Seq(DOMAIN suite.defs) /\ IsInjective(plan.closure)
  BY <1>0, PlanFacts
<1>2. DOMAIN plan.closure \subseteq Nat
  BY <1>1
<1>3. ks # {} /\ ks \in SUBSET Nat /\ NextOfOurs = plan.closure[Min(ks)]
  <2>1. NextOfOurs = IF ks = {} THEN 0 ELSE plan.closure[Min(ks)]
    BY DEF NextOfOurs
  <2> QED BY <2>1, <1>2
<1>4. PICK m : m = Min(ks)
  OBVIOUS
<1>5. m \in ks /\ \A k \in ks : m <= k
  <2> HIDE DEF ks
  <2> QED BY <1>3, <1>4, Least
<1>6. m \in DOMAIN plan.closure /\ NextOfOurs = plan.closure[m] /\ NextOfOurs \in Ours
  BY <1>3, <1>4, <1>5
<1>7. \A e \in ToSet(locals) : e.def # NextOfOurs
  BY <1>3, <1>4, <1>5
<1>8. ASSUME NEW a \in DOMAIN plan.closure, a < m, plan.closure[a] \in Ours
      PROVE  \E p \in DOMAIN locals : locals[p].def = plan.closure[a]
  <2>1. a \notin ks
    <3>1. a \in Nat /\ m \in Nat
      BY <1>2, <1>6
    <3> HIDE DEF ks
    <3> QED BY <3>1, <1>5, <1>8
  <2> QED BY <2>1, <1>8 DEF ToSet
<1> HIDE DEF ks
<1>9. PICK e : e = SetUp(NextOfOurs, locals).entry
  OBVIOUS
<1>10. e.def = NextOfOurs /\ e.test = Place(test)
  BY <1>9 DEF SetUp
<1>11. PICK n \in Nat : n = Len(locals) /\ DOMAIN locals = 1 .. n
  BY <1>0, ListFacts
<1>12. /\ IsList(locals') /\ Len(locals') = n + 1 /\ \A k \in 1 .. n : locals'[k] = locals[k]
       /\ locals'[n + 1] = e
  BY <1>0, <1>9, <1>11, AppendList
<1>13. DOMAIN locals' = 1 .. n + 1
  BY <1>12, ListFacts
<1>14. test' = test /\ Ours' = Ours
  BY DEF test, Request, Ours
<1>15. \A k \in 1 .. n + 1 : k \in 1 .. n \/ k = n + 1
  OBVIOUS
<1>16. \A k \in 1 .. n : locals[k].def # NextOfOurs
  BY <1>7, <1>11 DEF ToSet
<1>17. \A k \in DOMAIN locals' : locals'[k].def \in Ours /\ locals'[k].test = Place(test)
  BY <1>6, <1>10, <1>11, <1>12, <1>13, <1>15 DEF InClosureOrder
<1>18. \A j, k \in DOMAIN locals' : locals'[j].def = locals'[k].def => j = k
  BY <1>10, <1>11, <1>12, <1>13, <1>15, <1>16 DEF InClosureOrder
<1>19. ASSUME NEW q \in DOMAIN locals', NEW a \in DOMAIN plan.closure, NEW b \in DOMAIN plan.closure,
              a < b, plan.closure[b] = locals'[q].def, plan.closure[a] \in Ours
       PROVE  \E p \in DOMAIN locals' : p < q /\ locals'[p].def = plan.closure[a]
  <2>1. CASE q \in 1 .. n
    <3>1. PICK p \in DOMAIN locals : p < q /\ locals[p].def = plan.closure[a]
      BY <2>1, <1>11, <1>12, <1>19 DEF InClosureOrder
    <3> QED BY <3>1, <1>11, <1>12, <1>13
  <2>2. CASE q = n + 1
    <3>1. b = m
      BY <2>2, <1>1, <1>6, <1>10, <1>12, <1>19 DEF IsInjective
    <3>2. PICK p \in DOMAIN locals : locals[p].def = plan.closure[a]
      BY <3>1, <1>8, <1>19
    <3>3. p < n + 1 /\ p \in 1 .. n + 1
      BY <1>11
    <3> QED BY <3>2, <3>3, <2>2, <1>11, <1>12, <1>13
  <2> QED BY <2>1, <2>2, <1>13, <1>15
<1> QED BY <1>14, <1>17, <1>18, <1>19 DEF InClosureOrder, Place

LEMMA GivenKept ==
  ASSUME GivenItsOwn, suite' = suite,
         running'.given = <<>> \/ (running'.given = running.given /\ UNCHANGED <<turn, child>>)
  PROVE  GivenItsOwn'
<1>1. CASE running'.given = <<>>
  BY <1>1, EmptyList DEF GivenItsOwn
<1>2. CASE running'.given = running.given /\ UNCHANGED <<turn, child>>
  <2>1. test' = test
    BY <1>2 DEF test, Request
  <2> QED BY <1>2, <2>1 DEF GivenItsOwn, Def
<1> QED BY <1>1, <1>2

LEMMA BodyGives ==
  ASSUME KInv, LInv, GInv, Body
  PROVE  GivenItsOwn'
<1>1. /\ pc = "fixtures" /\ NextOfOurs = 0 /\ running = NoCase
      /\ UNCHANGED <<suite, turn, child>>
  BY DEF Body, KInv, Placing, Placed
<1>2. running'.given = <<>> \/ running'.given = <<Given>>
  BY <1>1 DEF Body, NoCase
<1>3. CASE running'.given = <<>>
  BY <1>1, <1>3, GivenKept DEF GInv
<1>4. CASE running'.given = <<Given>>
  <2>1. PICK g : g = Given
    OBVIOUS
  <2>2. g.fixtures = [n \in ToSet(plan.requested) |-> Bound(locals, n)]
    BY <2>1 DEF Given
  <2>3. ToSet(running'.given) = {g}
    BY <1>4, <2>1 DEF ToSet
  <2>4. test' = test
    BY <1>1 DEF test, Request
  <2>5. ASSUME NEW n \in DOMAIN g.fixtures, Together(suite), visible(suite, n, test) # {},
               Cardinality({i \in DOMAIN suite.defs : suite.defs[i].name = n /\ rank(suite.defs[i]) > 0}) <= 1,
               NEW e \in g.fixtures[n]
        PROVE  e.def = resolve(suite, test, n, NoCeiling) /\ InScope(Def(e), e.test, test)
    <3>1. n \in ToSet(plan.requested) /\ e \in Bound(locals, n)
      BY <2>2, <2>5
    <3> QED BY <3>1, <2>5, <1>1, GivenNow DEF GInv
  <2> QED BY <2>3, <2>4, <2>5, <1>1 DEF GivenItsOwn, Def
<1> QED BY <1>2, <1>3, <1>4

LEMMA GStep ==
  ASSUME KInv, LInv, GInv, [ShimNext]_shimVars
  PROVE  GInv'
<1>0. /\ Placed /\ Fielded /\ IsList(active) /\ IsList(locals) /\ InTurn /\ InClosureOrder /\ GivenItsOwn
      /\ pc \notin {"fixtures", "down"} => locals = <<>>
      /\ pc # "down" => running = NoCase
  BY DEF KInv, Placing, Placed, Standing, GInv
<1> DEFINE Same == UNCHANGED <<suite, turn, child>>
           Whole == InTurn' /\ InClosureOrder' /\ GivenItsOwn'
<1>1. SUFFICES Whole
  BY DEF GInv
<1>2. ASSUME locals' = <<>> PROVE InClosureOrder'
  BY <1>2 DEF InClosureOrder
<1>3. ASSUME NEW r, Answered(r), UNCHANGED <<suite, active, locals>>, locals = <<>> PROVE Whole
  <2>1. turn' \in {turn, turn + 1} /\ running'.given = <<>>
    BY <1>3 DEF Answered, NoCase
  <2> QED BY <2>1, <1>0, <1>2, <1>3, TurnKept, GivenKept
<1>4. ASSUME Same, UNCHANGED <<active, running>>, UNCHANGED <<plan, locals>> \/ locals' = <<>> PROVE Whole
  BY <1>0, <1>2, <1>4, TurnKept, OrderKept, GivenKept
<1>5. CASE MakePlan
  BY <1>0, <1>4, <1>5 DEF MakePlan
<1>6. CASE Begin
  <2>1. CASE Runs
    BY <1>4, <1>6, <2>1 DEF Begin
  <2>2. CASE ~Runs
    BY <1>0, <1>3, <1>6, <2>2 DEF Begin
  <2> QED BY <2>1, <2>2
<1>7. CASE Combo
  BY <1>4, <1>7 DEF Combo
<1>8. CASE TearDownStale
  <2>1. active # <<>> /\ active' = Front(active) /\ Same /\ UNCHANGED <<plan, locals, running>>
    BY <1>8 DEF TearDownStale, Stale
  <2> QED BY <2>1, <1>0, TurnCut, OrderKept, GivenKept
<1>9. CASE ModuleSetup
  <2>1. locals = <<>> /\ UNCHANGED <<suite, plan, active, locals>>
    BY <1>0, <1>9 DEF ModuleSetup
  <2>2. CASE Answered(Reply("error"))
    BY <2>1, <2>2, <1>3
  <2>3. CASE ~Answered(Reply("error"))
    <3>1. Same /\ running' = running
      BY <2>3, <1>9 DEF ModuleSetup
    <3> QED BY <3>1, <2>1, <1>4
  <2> QED BY <2>2, <2>3
<1>10. CASE SyncWider
  <2>1. locals = <<>> /\ UNCHANGED <<suite, plan, locals>> /\ pc = "wide"
    BY <1>0, <1>10 DEF SyncWider
  <2>2. CASE active' = active /\ Answered(Reply("error"))
    BY <2>1, <2>2, <1>3
  <2>3. CASE active' = active /\ ~Answered(Reply("error"))
    <3>1. Same /\ running' = running
      BY <2>3, <1>10 DEF SyncWider
    <3> QED BY <3>1, <2>1, <2>3, <1>4
  <2>4. CASE active' # active
    <3>1. /\ Missing # 0 /\ SetUp(Missing, <<>>).ok /\ active' = Append(active, SetUp(Missing, <<>>).entry)
          /\ Same /\ running' = running
      BY <2>4, <1>10 DEF SyncWider
    <3> QED BY <3>1, <2>1, <1>0, TurnUp, OrderKept, GivenKept
  <2> QED BY <2>2, <2>3, <2>4
<1>11. CASE Case
  BY <1>4, <1>11 DEF Case
<1>12. CASE SetUpFunction
  <2>1. pc = "fixtures" /\ NextOfOurs # 0 /\ Same /\ UNCHANGED <<plan, active>> /\ running = NoCase
    BY <1>0, <1>12 DEF SetUpFunction
  <2>2. InTurn' /\ running'.given = <<>>
    BY <2>1, <1>0, <1>12, TurnKept DEF SetUpFunction, NoCase
  <2>3. InClosureOrder'
    <3>1. locals' = locals \/ locals' = Append(locals, SetUp(NextOfOurs, locals).entry)
      BY <1>12 DEF SetUpFunction
    <3> QED BY <3>1, <2>1, <1>0, OrderKept, OrderUp
  <2> QED BY <2>1, <2>2, <2>3, <1>0, GivenKept
<1>13. CASE Body
  <2>1. Same /\ UNCHANGED <<plan, active, locals>>
    BY <1>13 DEF Body
  <2> QED BY <2>1, <1>0, <1>13, TurnKept, OrderKept, BodyGives
<1>14. CASE TearDown
  <2>1. locals # <<>> /\ locals' = Front(locals) /\ Same /\ UNCHANGED <<plan, active, running>>
    BY <1>14 DEF TearDown, Down
  <2> QED BY <2>1, <1>0, TurnKept, OrderCut, GivenKept
<1>15. CASE CaseDone
  <2>1. locals' = <<>> /\ running'.given = <<>> /\ Same /\ active' = active
    BY <1>15 DEF CaseDone, NoCase
  <2> QED BY <2>1, <1>0, <1>2, TurnKept, GivenKept
<1>16. CASE Strike
  <2>1. Same /\ UNCHANGED <<plan, active>> /\ (locals' = locals \/ locals' = <<>>)
    BY <1>16 DEF Strike
  <2>2. running'.given = running.given
    BY <1>0, <1>16 DEF Strike, Fielded, NoCase
  <2> QED BY <2>1, <2>2, <1>0, <1>2, TurnKept, OrderKept, GivenKept
<1>17. CASE Respond
  <2>1. PICK r : Answered(r)
    BY <1>17 DEF Respond
  <2> QED BY <2>1, <1>0, <1>3, <1>17 DEF Respond
<1>18. CASE TearDownAll
  <2>1. Same /\ UNCHANGED <<plan, locals, running>>
        /\ (active' = active \/ (active # <<>> /\ active' = Front(active)))
    BY <1>18 DEF TearDownAll
  <2> QED BY <2>1, <1>0, TurnKept, TurnCut, OrderKept, GivenKept
<1>19. CASE UNCHANGED shimVars
  BY <1>4, <1>19 DEF shimVars
<1> QED
  BY <1>5, <1>6, <1>7, <1>8, <1>9, <1>10, <1>11, <1>12, <1>13, <1>14, <1>15, <1>16, <1>17, <1>18, <1>19
     DEF ShimNext

LEMMA GInit ==
  ASSUME ShimInit
  PROVE  GInv
<1>1. active = <<>> /\ locals = <<>> /\ running.given = <<>>
  BY DEF ShimInit, NoCase
<1> QED BY <1>1, EmptyList DEF GInv, InTurn, InClosureOrder, GivenItsOwn

\* A test is given the nearest definition's own instance, though an instance is found
\* again by its name and scope only and looked up by its name only, and fixtures of other
\* modules and classes may be up below and above it.
THEOREM TestsAreGivenTheirOwn == ShimSpec => []GivenItsOwn
<1>1. ShimInit => KInv /\ LInv /\ GInv
  BY KInit, LInit, GInit
<1>2. KInv /\ LInv /\ GInv /\ [ShimNext]_shimVars => KInv' /\ LInv' /\ GInv'
  BY KStep, PlacedStep, LStep, GStep DEF KInv, Standing
<1>3. GInv => GivenItsOwn
  BY DEF GInv
<1> QED BY <1>1, <1>2, <1>3, PTL DEF ShimSpec
=============================================================================
