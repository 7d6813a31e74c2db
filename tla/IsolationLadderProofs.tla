----------------------- MODULE IsolationLadderProofs -----------------------
(***************************************************************************)
(* Theorems about IsolationLadder, for any files, fixtures, recorded       *)
(* verdicts and set-ups: a worker is never left holding what no restore    *)
(* can undo of an opaque module's test, unless it is recorded pure, or of  *)
(* a recorded disturber; no test sees what a test of another module did to *)
(* restorable state, and every test sees what the tests of its own file    *)
(* did before it, wherever each ran.                                       *)
(***************************************************************************)
EXTENDS IsolationLadder, WellFoundedInduction, TLAPS
-----------------------------------------------------------------------------
(* Numbers, and functions defined by recursion on them.                    *)

\* A set of numbers that is not empty has a least one, and its Max when it is bounded.
LEMMA LeastNat ==
  ASSUME NEW T \in SUBSET Nat, T # {}
  PROVE  \E x \in T : \A y \in T : x <= y
<1> DEFINE R == OpToRel(<, Nat)
<1>1. \E x \in T : \A y \in T : ~(<<y, x>> \in R)
  <2>1. IsWellFoundedOn(R, Nat)
    BY NatLessThanWellFounded
  <2> HIDE DEF R
  <2> QED BY <2>1, WFMin, Zenon
<1>2. \A x, y \in Nat : y < x => <<y, x>> \in R
  BY DEF OpToRel
<1> HIDE DEF R
<1>3. PICK x \in T : \A y \in T : ~(<<y, x>> \in R)
  BY <1>1
<1>4. ASSUME NEW y \in T PROVE x <= y
  <2>1. x \in Nat /\ y \in Nat
    OBVIOUS
  <2>2. ~(y < x)
    BY <1>2, <1>3, <2>1
  <2> QED BY <2>1, <2>2
<1> QED BY <1>4

LEMMA Greatest ==
  ASSUME NEW n \in Nat, NEW T \in SUBSET (0 .. n), T # {}
  PROVE  Max(T) \in T /\ \A y \in T : y <= Max(T)
<1> DEFINE D == {n - x : x \in T}
<1>1. D \in SUBSET Nat /\ D # {}
  <2>1. \A x \in T : x \in Nat /\ n - x \in Nat
    OBVIOUS
  <2> QED BY <2>1
<1>2. PICK d \in D : \A y \in D : d <= y
  <2> HIDE DEF D
  <2> QED BY <1>1, LeastNat
<1>3. PICK x \in T : d = n - x
  BY <1>2
<1>4. ASSUME NEW y \in T PROVE x >= y
  <2>1. x \in Nat /\ y \in Nat /\ n - y \in D
    OBVIOUS
  <2>2. n - x <= n - y
    <3> HIDE DEF D
    <3> QED BY <1>2, <1>3, <2>1
  <2> QED BY <2>1, <2>2
<1>5. \A y \in T : x >= y
  BY <1>4
<1>6. Max(T) \in T /\ \A y \in T : Max(T) >= y
  BY <1>3, <1>5 DEF Max
<1>7. ASSUME NEW y \in T PROVE y <= Max(T)
  <2>1. PICK m : m = Max(T)
    OBVIOUS
  <2>2. m \in T /\ m >= y
    BY <1>6, <2>1
  <2>3. m \in Nat /\ y \in Nat
    BY <2>2
  <2> QED BY <2>1, <2>2, <2>3
<1> QED BY <1>6, <1>7

\* f starts from b and repeats the steps F.
Steps(F, S, L) == F \in [1 .. L -> [S -> S]]
Repeats(F, S, b, L, f) == f \in [0 .. L -> S] /\ f[0] = b /\ \A n \in 1 .. L : f[n] = F[n][f[n - 1]]

\* Where each step keeps a set, there is the function that repeats it.
LEMMA RecursionExists ==
  ASSUME NEW S, NEW b \in S, NEW L \in Nat, NEW F, Steps(F, S, L)
  PROVE  \E f : Repeats(F, S, b, L, f)
<1> USE DEF Steps
<1> DEFINE Upto(n, f) == f \in [0 .. n -> S] /\ f[0] = b /\ \A k \in 1 .. n : f[k] = F[k][f[k - 1]]
           Bad == {n \in 0 .. L : ~\E f : Upto(n, f)}
<1>1. ASSUME Bad # {} PROVE FALSE
  <2>1. PICK n \in Bad : \A k \in Bad : n <= k
    <3>1. Bad \in SUBSET Nat
      OBVIOUS
    <3> HIDE DEF Bad
    <3> QED BY <1>1, <3>1, LeastNat
  <2>2. n \in 0 .. L /\ ~\E f : Upto(n, f)
    OBVIOUS
  <2>3. CASE n = 0
    <3>1. Upto(0, [k \in 0 .. 0 |-> b])
      OBVIOUS
    <3> QED BY <2>2, <2>3, <3>1
  <2>4. CASE n # 0
    <3>1. n - 1 \in 0 .. L /\ ~(n <= n - 1) /\ n \in 1 .. L
      BY <2>2, <2>4
    <3>2. PICK f : Upto(n - 1, f)
      BY <2>1, <3>1
    <3> DEFINE g == [k \in 0 .. n |-> IF k = n THEN F[n][f[n - 1]] ELSE f[k]]
    <3>3. f[n - 1] \in S /\ F[n][f[n - 1]] \in S
      BY <3>1, <3>2
    <3>4. g \in [0 .. n -> S]
      BY <3>1, <3>2, <3>3
    <3>5. g[0] = b
      BY <3>1, <3>2
    <3>6. ASSUME NEW k \in 1 .. n PROVE g[k] = F[k][g[k - 1]]
      <4>1. k - 1 \in 0 .. n - 1 /\ g[k - 1] = f[k - 1]
        BY <3>1
      <4>2. CASE k = n
        <5>1. g[k] = F[n][f[n - 1]] /\ g[n - 1] = f[n - 1]
          BY <3>1, <4>1, <4>2
        <5> HIDE DEF g
        <5> QED BY <4>2, <5>1
      <4>3. CASE k # n
        <5>1. k \in 1 .. n - 1
          BY <3>1, <4>3
        <5> QED BY <3>2, <4>1, <5>1
      <4> QED BY <4>2, <4>3
    <3> HIDE DEF g
    <3> QED BY <2>2, <3>4, <3>5, <3>6
  <2> QED BY <2>3, <2>4
<1>2. L \in 0 .. L
  OBVIOUS
<1>3. \E f : Upto(L, f)
  <2>1. \A n \in 0 .. L : n \notin Bad => \E f : Upto(n, f)
    OBVIOUS
  <2> HIDE DEF Bad, Upto
  <2> QED BY <1>1, <1>2, <2>1
<1> QED BY <1>3 DEF Repeats

\* What each step keeps, it keeps throughout.
LEMMA RecursionStays ==
  ASSUME NEW S, NEW L \in Nat, NEW f, f[0] \in S,
         \A n \in 1 .. L : f[n - 1] \in S => f[n] \in S
  PROVE  \A n \in 0 .. L : f[n] \in S
<1> DEFINE Bad == {n \in 0 .. L : f[n] \notin S}
<1>1. ASSUME Bad # {} PROVE FALSE
  <2>1. PICK n \in Bad : \A k \in Bad : n <= k
    <3>1. Bad \in SUBSET Nat
      OBVIOUS
    <3> HIDE DEF Bad
    <3> QED BY <1>1, <3>1, LeastNat
  <2>2. n \in 1 .. L /\ n - 1 \in 0 .. L /\ ~(n <= n - 1)
    OBVIOUS
  <2> QED BY <2>1, <2>2
<1> QED BY <1>1

\* The fixtures missing are a sequence of fixtures.
LEMMA MissingIsList ==
  ASSUME NEW P, NEW t \in Tests
  PROVE  Missing(P, t) \in Seq(Fixtures)
<1> DEFINE up == ToSet(P.active)
           L == Len(Needs[t])
           S == Seq(Fixtures)
           Step(s, n) == IF Needs[t][n] \in up THEN s ELSE Append(s, Needs[t][n])
           F == [n \in 1 .. L |-> [s \in S |-> Step(s, n)]]
           Fits(f) == f = [n \in 0 .. L |-> IF n = 0 THEN <<>> ELSE Step(f[n - 1], n)]
<1>1. L \in Nat /\ \A n \in 1 .. L : Needs[t][n] \in Fixtures
  BY FixtureFacts
<1>2. \A s \in S : \A n \in 1 .. L : Step(s, n) \in S
  BY <1>1
<1> HIDE DEF Step
<1>3. \A s \in S : \A n \in 1 .. L : F[n][s] = Step(s, n)
  OBVIOUS
<1>4. <<>> \in S
  OBVIOUS
<1> HIDE DEF S, L, F
<1>5. PICK f : Repeats(F, S, <<>>, L, f)
  <2>1. Steps(F, S, L)
    BY <1>2 DEF F, Steps
  <2> QED BY <1>1, <1>4, <2>1, RecursionExists
<1>6. Fits(f)
  <2> USE DEF Repeats
  <2>1. \A n \in 1 .. L : f[n - 1] \in S
    BY <1>1, <1>5
  <2>2. ASSUME NEW n \in 0 .. L PROVE f[n] = IF n = 0 THEN <<>> ELSE Step(f[n - 1], n)
    <3>1. CASE n = 0
      BY <1>5, <3>1
    <3>2. CASE n # 0
      <4>1. n \in 1 .. L
        BY <1>1, <3>2
      <4> QED BY <1>3, <1>5, <2>1, <3>2, <4>1
    <3> QED BY <3>1, <3>2
  <2> QED BY <1>5, <2>2
<1> DEFINE g == CHOOSE f_1 : Fits(f_1)
<1>7. Fits(g)
  BY <1>6
<1>8. Missing(P, t) = g[L]
  BY DEF Missing, Step, L
<1> HIDE DEF g
<1>9. g[0] \in S /\ \A n \in 1 .. L : g[n - 1] \in S => g[n] \in S
  BY <1>1, <1>2, <1>4, <1>7
<1>10. \A n \in 0 .. L : g[n] \in S
  BY <1>1, <1>9, RecursionStays
<1>11. g[L] \in S
  BY <1>1, <1>10
<1> QED BY <1>8, <1>11 DEF S
-----------------------------------------------------------------------------
(* What the operators on a process do to its memory and its guard.         *)

\* Tearing down keeps marks of the memory, or goes back to restorable marks of
\* the snapshot when another module is left.
LEMMA TearDownFacts ==
  ASSUME NEW P, NEW t
  PROVE  LET Q == TearDownStale(P, t) IN
         \/ Q.mem \subseteq P.mem /\ Q.guard = P.guard
            /\ P.guard.module \in {"none", ModuleOf[t]}
         \/ /\ Q.guard = NoGuard
            /\ \A x \in Q.mem : \/ x \in P.guard.found /\ x[1] \in Restorable
                                \/ x \in P.mem /\ x[1] \notin Restorable
BY DEF TearDownStale, Left, Process

LEMMA SyncFacts ==
  ASSUME NEW P, NEW t, NEW n
  PROVE  /\ SyncWider(P, t, n).guard = TearDownStale(P, t).guard
         /\ \A x \in SyncWider(P, t, n).mem :
              x \in TearDownStale(P, t).mem \/ x[1] = "fixture"
<1> DEFINE Q == TearDownStale(P, t)
           up == Marks("fixture", ToSet(SubSeq(Missing(Q, t), 1, n)))
<1>1. /\ SyncWider(P, t, n).guard = Q.guard
      /\ SyncWider(P, t, n).mem = Q.mem \cup up
  BY DEF SyncWider
<1>2. \A x \in up : x[1] = "fixture"
  BY DEF Marks
<1> QED BY <1>1, <1>2

\* The marks of a test's own fixtures and of its body, by kind.
LEMMA EffectFacts ==
  ASSUME NEW t
  PROVE  /\ \A x \in Own(t) : x[1] = "call"
         /\ \A x \in Effect(t) : x[2] = t
         /\ \A x \in Effect(t) : x[1] = "opaque" => ModuleOf[t] \in Opaque
         /\ \A x \in Effect(t) : x[1] \in {"state", "opaque", "thread"}
         /\ Leaves[t] = {} => Effect(t) = {}
BY DEF Own, Effect
-----------------------------------------------------------------------------
(* Containment.                                                            *)

\* A mark that may stay in the worker.
MayStay(x) == (x[1] = "opaque" => trusted_pure(x[2])) /\ (x[1] = "thread" /\ ~config.no_fork => x[2] \notin MustFork)

LEMMA TearDownContained ==
  ASSUME Contained, NEW t
  PROVE  \A x \in TearDownStale(worker, t).mem : MayStay(x)
<1>1. \A x \in worker.mem : MayStay(x)
  BY DEF Contained, MayStay
<1>2. \A x : x[1] \in Restorable => MayStay(x)
  BY DEF Restorable, MayStay
<1> QED BY <1>1, <1>2, TearDownFacts

LEMMA SyncContained ==
  ASSUME Contained, NEW t, NEW n
  PROVE  \A x \in SyncWider(worker, t, n).mem : MayStay(x)
<1>1. \A x : x[1] = "fixture" => MayStay(x)
  BY DEF MayStay
<1> QED BY <1>1, TearDownContained, SyncFacts

\* What a body run in the worker leaves there may stay: the route sends the
\* others to a child.
LEMMA InProcessEffect ==
  ASSUME NEW t \in Tests, route(t) \in {"bare", "restore"}
  PROVE  \A x \in Effect(t) : MayStay(x)
<1>1. /\ ~NeedsFork(t) /\ (config.no_fork \/ force_no_fork(t))
      /\ trusted_pure(t) \/ config.restore
  BY DEF route
<1>2. ModuleOf[t] \in Opaque => trusted_pure(t)
  BY <1>1 DEF NeedsFork
<1>3. ~config.no_fork => t \notin MustFork
  BY <1>1 DEF force_no_fork
<1> QED BY <1>2, <1>3, EffectFacts DEF MayStay

\* No worker ever holds opaque state of a test that is not trusted, nor, where it may
\* fork, a thread of a recorded disturber: those tests run in a child (tiers.py:55-98).
\* Nothing is assumed of what the trusted ones leave.
THEOREM Containment == Spec => []Contained
<1>1. Init => Contained
  BY DEF Init, Contained, Pristine
<1>2. ASSUME Contained, [Next]_vars
      PROVE  Contained'
  <2>1. CASE UNCHANGED vars
    BY <1>2, <2>1 DEF vars, Contained, trusted_pure, force_no_fork
  <2>2. CASE Finish
    <3>1. worker'.mem \subseteq worker.mem /\ config' = config
      BY <2>2 DEF Finish, Process
    <3> QED BY <1>2, <3>1 DEF Contained, trusted_pure, force_no_fork
  <2>3. ASSUME NEW t \in Tests, Serve(t)
        PROVE  Contained'
    <3>1. SUFFICES ASSUME NEW x \in worker'.mem
                   PROVE  MayStay(x) /\ config' = config
      BY <2>3 DEF Contained, MayStay, trusted_pure, force_no_fork
    <3>2. \A n : \A y \in SyncWider(worker, t, n).mem : MayStay(y)
      BY <1>2, SyncContained
    <3>3. \A y \in Ready(worker, t).mem : MayStay(y)
      BY <3>2 DEF Ready
    <3>4. \A y \in TearDownStale(worker, t).mem : MayStay(y)
      BY <1>2, TearDownContained
    <3>5. \A y \in worker.mem : MayStay(y)
      BY <1>2 DEF Contained, MayStay
    <3>6. CASE Gate(t) \/ ChildGone(t)
      BY <3>5, <3>6 DEF Gate, ChildGone
    <3>7. CASE Refuse(t)
      BY <3>2, <3>7 DEF Refuse
    <3>8. ASSUME NEW n, SetUpFails(t, n) PROVE MayStay(x) /\ config' = config
      BY <3>2, <3>8 DEF SetUpFails
    <3>9. ASSUME NEW n, ChildSetUpFails(t, n) PROVE MayStay(x) /\ config' = config
      BY <3>4, <3>5, <3>9 DEF ChildSetUpFails
    <3>10. ASSUME NEW e, Fork(t, e) PROVE MayStay(x) /\ config' = config
      BY <3>3, <3>10 DEF Fork
    <3>11. ASSUME NEW e, ModuleChild(t, e) PROVE MayStay(x) /\ config' = config
      BY <3>4, <3>5, <3>11 DEF ModuleChild
    <3>12. ASSUME NEW e, NEW lost, InProcess(t, e, lost) PROVE MayStay(x) /\ config' = config
      <4>1. /\ worker' = Body(Entered(Ready(worker, t), t), t) /\ config' = config
            /\ route(t) \in {"bare", "restore"}
        BY <3>12 DEF InProcess
      <4>2. Entered(Ready(worker, t), t).mem = Ready(worker, t).mem
        BY DEF Entered, Process
      <4>3. x \in Ready(worker, t).mem \/ x \in Effect(t)
        BY <4>1, <4>2 DEF Body
      <4> QED BY <4>1, <4>3, <3>3, InProcessEffect
    <3> QED BY <2>3, <3>6, <3>7, <3>8, <3>9, <3>10, <3>11, <3>12 DEF Serve
  <2> QED BY <1>2, <2>1, <2>2, <2>3 DEF Next
<1> QED BY <1>1, <1>2, PTL DEF Spec
-----------------------------------------------------------------------------
(* No foreign marks.                                                       *)

\* The snapshot of a process holds no test's restorable change.
CleanSnapshot(P) == \A x \in P.guard.found : x[1] # "state"

\* The restorable changes in its memory are all by tests of module m.
HeldBy(P, m) == \A x \in P.mem : x[1] = "state" => ModuleOf[x[2]] = m

\* A worker holds those of the module it has a snapshot of, and a child those of
\* the module it is for.
Tidy(P) ==
  /\ CleanSnapshot(P)
  /\ HeldBy(P, P.guard.module)
  /\ P.guard.module = "none" => \A x \in P.mem : x[1] # "state"

IInv ==
  /\ Tidy(worker)
  /\ child.module # "none" => CleanSnapshot(child.image) /\ HeldBy(child.image, child.module)
  /\ NoForeignMarks

\* Whatever module is entered next, a tidy process holds nothing of another.
LEMMA TearDownTidy ==
  ASSUME NEW P, Tidy(P), NEW t
  PROVE  Tidy(TearDownStale(P, t)) /\ HeldBy(TearDownStale(P, t), ModuleOf[t])
<1> DEFINE Q == TearDownStale(P, t)
<1> HIDE DEF Q
<1>1. CASE Q.mem \subseteq P.mem /\ Q.guard = P.guard /\ P.guard.module \in {"none", ModuleOf[t]}
  BY <1>1 DEF Tidy, CleanSnapshot, HeldBy, Q
<1>2. CASE /\ Q.guard = NoGuard
           /\ \A x \in Q.mem : \/ x \in P.guard.found /\ x[1] \in Restorable
                               \/ x \in P.mem /\ x[1] \notin Restorable
  <2>1. \A x \in Q.mem : x[1] # "state"
    BY <1>2 DEF Tidy, CleanSnapshot, Restorable
  <2> QED BY <1>2, <2>1 DEF Tidy, CleanSnapshot, HeldBy, NoGuard, Q
<1> QED BY <1>1, <1>2, TearDownFacts DEF Q

\* A process that holds only the changes of t's module still does.
LEMMA TearDownHeld ==
  ASSUME NEW P, NEW t, CleanSnapshot(P), HeldBy(P, ModuleOf[t])
  PROVE  CleanSnapshot(TearDownStale(P, t)) /\ HeldBy(TearDownStale(P, t), ModuleOf[t])
<1> DEFINE Q == TearDownStale(P, t)
<1> HIDE DEF Q
<1>1. CASE Q.mem \subseteq P.mem /\ Q.guard = P.guard
  BY <1>1 DEF CleanSnapshot, HeldBy, Q
<1>2. CASE /\ Q.guard = NoGuard
           /\ \A x \in Q.mem : \/ x \in P.guard.found /\ x[1] \in Restorable
                               \/ x \in P.mem /\ x[1] \notin Restorable
  <2>1. \A x \in Q.mem : x[1] # "state"
    BY <1>2 DEF CleanSnapshot, Restorable
  <2> QED BY <1>2, <2>1 DEF CleanSnapshot, HeldBy, NoGuard, Q
<1> QED BY <1>1, <1>2, TearDownFacts DEF Q

LEMMA SyncTidy ==
  ASSUME NEW P, Tidy(P), NEW t, NEW n
  PROVE  Tidy(SyncWider(P, t, n)) /\ HeldBy(SyncWider(P, t, n), ModuleOf[t])
<1>1. \A x \in SyncWider(P, t, n).mem : x[1] = "state" => x \in TearDownStale(P, t).mem
  BY SyncFacts
<1> QED BY <1>1, SyncFacts, TearDownTidy DEF Tidy, CleanSnapshot, HeldBy

LEMMA SyncHeld ==
  ASSUME NEW P, NEW t, NEW n, CleanSnapshot(P), HeldBy(P, ModuleOf[t])
  PROVE  CleanSnapshot(SyncWider(P, t, n)) /\ HeldBy(SyncWider(P, t, n), ModuleOf[t])
<1>1. \A x \in SyncWider(P, t, n).mem : x[1] = "state" => x \in TearDownStale(P, t).mem
  BY SyncFacts
<1> QED BY <1>1, SyncFacts, TearDownHeld DEF CleanSnapshot, HeldBy

\* Entering a module from a process that holds nothing of another leaves it tidy.
LEMMA EnteredTidy ==
  ASSUME NEW P, NEW t \in Tests, Tidy(P), HeldBy(P, ModuleOf[t])
  PROVE  /\ Entered(P, t).mem = P.mem
         /\ Entered(P, t).guard.module = ModuleOf[t]
         /\ CleanSnapshot(Entered(P, t))
<1>1. CASE P.guard.module = ModuleOf[t]
  BY <1>1 DEF Entered, Tidy
<1>2. CASE P.guard.module # ModuleOf[t]
  <2>1. /\ Entered(P, t).mem = P.mem
        /\ Entered(P, t).guard = [module |-> ModuleOf[t], found |-> P.mem \cup Own(t)]
    BY <1>2 DEF Entered, Process
  <2>2. \A x \in P.mem : x[1] # "state"
    BY <1>2 DEF Tidy, HeldBy
  <2>3. \A x \in Own(t) : x[1] # "state"
    BY EffectFacts
  <2> QED BY <2>1, <2>2, <2>3 DEF CleanSnapshot
<1> QED BY <1>1, <1>2

\* What a body run in P finds is nothing of another module.
LEMMA RanHome ==
  ASSUME NEW P, NEW t, NEW tier, NEW e, NEW rerun, NEW lost,
         HeldBy(P, ModuleOf[t]), last' = Ran(t, tier, P, e, rerun, lost)
  PROVE  NoForeignMarks'
<1>1. last'.saw = P.mem \cup Own(t) /\ last'.test = t
  BY DEF Ran
<1>2. \A x \in P.mem \cup Own(t) : x[1] = "state" => ModuleOf[x[2]] = ModuleOf[t]
  BY EffectFacts DEF HeldBy
<1> QED BY <1>1, <1>2 DEF NoForeignMarks

LEMMA UnrunHome ==
  ASSUME NEW t, NEW tier, last' = Unrun(t, tier)
  PROVE  NoForeignMarks'
BY DEF Unrun, NoForeignMarks, Ended

\* A body run in process leaves the worker tidy: its changes are its module's.
LEMMA BodyTidy ==
  ASSUME NEW P, NEW t \in Tests, Tidy(P), HeldBy(P, ModuleOf[t])
  PROVE  Tidy(Body(Entered(P, t), t))
<1> DEFINE E == Entered(P, t)
<1> HIDE DEF E
<1>1. E.mem = P.mem /\ E.guard.module = ModuleOf[t] /\ CleanSnapshot(E)
  BY EnteredTidy DEF E
<1>2. /\ Body(E, t).guard = E.guard
      /\ Body(E, t).mem \subseteq E.mem \cup Effect(t)
  BY DEF Body
<1>3. ModuleOf[t] # "none"
  BY TestFacts
<1>4. \A x \in Body(E, t).mem : x[1] = "state" => ModuleOf[x[2]] = ModuleOf[t]
  BY <1>1, <1>2, EffectFacts DEF HeldBy
<1> QED BY <1>1, <1>2, <1>3, <1>4 DEF Tidy, CleanSnapshot, HeldBy, E

LEMMA ChildBodyHeld ==
  ASSUME NEW P, NEW t, CleanSnapshot(P), HeldBy(P, ModuleOf[t])
  PROVE  CleanSnapshot(Body(P, t)) /\ HeldBy(Body(P, t), ModuleOf[t])
<1>1. Body(P, t).guard = P.guard /\ Body(P, t).mem \subseteq P.mem \cup Effect(t)
  BY DEF Body
<1> QED BY <1>1, EffectFacts DEF CleanSnapshot, HeldBy

\* The image a module child runs t in holds nothing of another module.
LEMMA ChildImage ==
  ASSUME IInv, NEW t \in Tests
  PROVE  LET c == IF child.module = ModuleOf[t] THEN child ELSE Spawn(t) IN
         c.module = ModuleOf[t] /\ CleanSnapshot(c.image) /\ HeldBy(c.image, ModuleOf[t])
<1>1. CASE child.module = ModuleOf[t]
  <2>1. ModuleOf[t] # "none"
    BY TestFacts
  <2> QED BY <1>1, <2>1 DEF IInv
<1>2. CASE child.module # ModuleOf[t]
  <2>1. CleanSnapshot(TearDownStale(worker, t)) /\ HeldBy(TearDownStale(worker, t), ModuleOf[t])
    BY TearDownTidy DEF IInv, Tidy
  <2> QED BY <1>2, <2>1 DEF Spawn
<1> QED BY <1>1, <1>2

\* The inductive invariant: worker and child hold only the restorable changes of
\* the module they are in, and every snapshot is free of them.
THEOREM LadderInvariance == Spec => []IInv
<1>1. Init => IInv
  BY DEF Init, IInv, Tidy, CleanSnapshot, HeldBy, Pristine, NoGuard, NoChild,
         Nothing, Unrun, NoForeignMarks, Ended
<1>2. ASSUME IInv, [Next]_vars
      PROVE  IInv'
  <2>1. CASE UNCHANGED vars
    BY <1>2, <2>1 DEF vars, IInv, Tidy, CleanSnapshot, HeldBy, NoForeignMarks, Ended
  <2>2. CASE Finish
    <3>1. /\ worker'.mem \subseteq worker.mem /\ worker'.guard = worker.guard
          /\ child'.module = "none" /\ last' = last
      BY <2>2 DEF Finish, Process, NoChild
    <3> QED BY <1>2, <3>1 DEF IInv, Tidy, CleanSnapshot, HeldBy, NoForeignMarks, Ended
  <2>3. ASSUME NEW t \in Tests, Serve(t)
        PROVE  IInv'
    <3> DEFINE c == IF child.module = ModuleOf[t] THEN child ELSE Spawn(t)
    <3> HIDE DEF c
    <3>1. c.module = ModuleOf[t] /\ CleanSnapshot(c.image) /\ HeldBy(c.image, ModuleOf[t])
      BY <1>2, ChildImage DEF c
    <3>2. Tidy(worker) /\ Tidy(TearDownStale(worker, t))
      BY <1>2, TearDownTidy DEF IInv
    <3>3. \A n : /\ Tidy(SyncWider(worker, t, n))
                 /\ HeldBy(SyncWider(worker, t, n), ModuleOf[t])
      BY <3>2, SyncTidy
    <3>4. Tidy(Ready(worker, t)) /\ HeldBy(Ready(worker, t), ModuleOf[t])
      BY <3>3 DEF Ready
    <3>5. \A n : /\ CleanSnapshot(SyncWider(c.image, t, n))
                 /\ HeldBy(SyncWider(c.image, t, n), ModuleOf[t])
      BY <3>1, SyncHeld
    <3>6. CleanSnapshot(Ready(c.image, t)) /\ HeldBy(Ready(c.image, t), ModuleOf[t])
      BY <3>5 DEF Ready
    <3>7. CASE Gate(t)
      BY <1>2, <3>7, UnrunHome DEF Gate, IInv, Tidy, CleanSnapshot, HeldBy
    <3>8. CASE ChildGone(t)
      <4>1. worker' = worker /\ child'.module = "none" /\ last' = Unrun(t, "module-child")
        BY <3>8 DEF ChildGone, NoChild
      <4> QED BY <4>1, <3>2, UnrunHome DEF IInv, Tidy, CleanSnapshot, HeldBy
    <3>9. CASE Refuse(t)
      <4>1. Tidy(worker)' /\ child' = child
        BY <3>9, <3>3 DEF Refuse, Tidy, CleanSnapshot, HeldBy
      <4> QED BY <1>2, <3>9, <4>1, UnrunHome DEF IInv, Refuse, CleanSnapshot, HeldBy
    <3>10. ASSUME NEW n, SetUpFails(t, n) PROVE IInv'
      <4>1. Tidy(worker)' /\ child' = child
        BY <3>10, <3>3 DEF SetUpFails, Tidy, CleanSnapshot, HeldBy
      <4> QED BY <1>2, <3>10, <4>1, UnrunHome DEF IInv, SetUpFails, CleanSnapshot, HeldBy
    <3>11. ASSUME NEW n, ChildSetUpFails(t, n) PROVE IInv'
      <4>1. /\ child' = [module |-> c.module, image |-> SyncWider(c.image, t, n)]
            /\ worker' = worker \/ worker' = TearDownStale(worker, t)
            /\ last' = Unrun(t, "module-child")
        BY <3>11 DEF ChildSetUpFails, c
      <4>2. Tidy(worker)'
        BY <4>1, <3>2 DEF Tidy, CleanSnapshot, HeldBy
      <4>3. CleanSnapshot(child'.image) /\ HeldBy(child'.image, child'.module)
        BY <4>1, <3>1, <3>5
      <4> QED BY <4>1, <4>2, <4>3, UnrunHome DEF IInv, CleanSnapshot, HeldBy
    <3>12. ASSUME NEW e, Fork(t, e) PROVE IInv'
      <4>1. Tidy(worker)' /\ child' = child
        BY <3>12, <3>4 DEF Fork, Tidy, CleanSnapshot, HeldBy
      <4>2. NoForeignMarks'
        BY <3>12, <3>4, RanHome DEF Fork
      <4> QED BY <1>2, <4>1, <4>2 DEF IInv, CleanSnapshot, HeldBy
    <3>13. ASSUME NEW e, ModuleChild(t, e) PROVE IInv'
      <4>1. /\ child' = NoChild
               \/ child' = [module |-> c.module, image |-> Body(Ready(c.image, t), t)]
            /\ worker' = worker \/ worker' = TearDownStale(worker, t)
            /\ last' = Ran(t, "module-child", Ready(c.image, t), e, By("child"), FALSE)
        BY <3>13 DEF ModuleChild, c
      <4>2. Tidy(worker)'
        BY <4>1, <3>2 DEF Tidy, CleanSnapshot, HeldBy
      <4>3. child'.module # "none" =>
              CleanSnapshot(child'.image) /\ HeldBy(child'.image, child'.module)
        BY <4>1, <3>1, <3>6, ChildBodyHeld DEF NoChild
      <4>4. NoForeignMarks'
        BY <4>1, <3>6, RanHome
      <4> QED BY <4>2, <4>3, <4>4 DEF IInv, CleanSnapshot, HeldBy
    <3>14. ASSUME NEW e, NEW lost, InProcess(t, e, lost) PROVE IInv'
      <4> DEFINE before == Entered(Ready(worker, t), t)
      <4>1. /\ worker' = Body(before, t) /\ child' = child
            /\ \E rerun : last' = Ran(t, route(t), before, e, rerun, lost)
        BY <3>14 DEF InProcess
      <4>2. before.mem = Ready(worker, t).mem
        BY <3>4, EnteredTidy
      <4>3. Tidy(Body(before, t))
        BY <3>4, BodyTidy
      <4>4. HeldBy(before, ModuleOf[t])
        BY <4>2, <3>4 DEF HeldBy
      <4> HIDE DEF before
      <4>5. Tidy(worker)'
        BY <4>1, <4>3 DEF Tidy, CleanSnapshot, HeldBy
      <4>6. NoForeignMarks'
        BY <4>1, <4>4, RanHome
      <4> QED BY <1>2, <4>1, <4>5, <4>6 DEF IInv, CleanSnapshot, HeldBy
    <3> QED BY <2>3, <3>7, <3>8, <3>9, <3>10, <3>11, <3>12, <3>13, <3>14 DEF Serve
  <2> QED BY <1>2, <2>1, <2>2, <2>3 DEF Next
<1> QED BY <1>1, <1>2, PTL DEF Spec

\* No test sees what a test of another module did to restorable state, on any
\* tier and after any failure (parallel-execution.md:48-52).
THEOREM Isolation == Spec => []NoForeignMarks
BY LadderInvariance, PTL DEF IInv
-----------------------------------------------------------------------------
(* What a file carries from test to test.                                  *)

\* The marks made since the module was entered are in memory, none of them that of
\* a test's own fixtures, and no snapshot but the module's waits to be put back.
Carries(P) ==
  /\ P.here \subseteq P.mem
  /\ \A x \in P.here : x[1] # "call"
  /\ P.guard.module \in {"none", P.in}

\* What the tests, not the fixtures, have done since the module was entered.
Done(P) == {x \in P.here : x[1] # "fixture"}

\* A child holds its own module's marks, and one is only forked by a run all of whose
\* tests of the module go to it.
ChildHolds ==
  child.module # "none" =>
    /\ Carries(child.image) /\ child.image.in = child.module
    /\ config.restore /\ config.fork
    /\ config.no_fork => child.module \in Opaque

Carrying ==
  /\ config \in Configs
  /\ alive => Carries(worker)
  /\ ChildHolds
  /\ FileCarries /\ NeverSplit /\ LeakIsRerun

LEMMA TearDownShape ==
  ASSUME NEW P, NEW t
  PROVE  LET Q == TearDownStale(P, t) IN
         /\ Q.in = ModuleOf[t]
         /\ \E gone :
              /\ \A x \in gone : x[1] = "fixture"
              /\ Q.here = (IF P.in = ModuleOf[t] THEN P.here ELSE {}) \ gone
              /\ IF P.guard.module \in {"none", ModuleOf[t]}
                   THEN Q.mem = P.mem \ gone /\ Q.guard = P.guard
                   ELSE Q.guard = NoGuard
<1> DEFINE gone == Marks("fixture", ToSet(P.active) \ ToSet(Standing(P, t)))
           Q == TearDownStale(P, t)
<1>1. \A x \in gone : x[1] = "fixture"
  BY DEF Marks
<1>2. /\ Q.in = ModuleOf[t]
      /\ Q.here = (IF P.in = ModuleOf[t] THEN P.here ELSE {}) \ gone
      /\ IF P.guard.module \in {"none", ModuleOf[t]}
           THEN Q.mem = P.mem \ gone /\ Q.guard = P.guard
           ELSE Q.guard = NoGuard
  BY DEF TearDownStale, Left, Process
<1> QED BY <1>1, <1>2

\* Syncing the fixtures of a file's next test keeps all that its tests have done, in
\* memory as in the account of it.
LEMMA SyncCarries ==
  ASSUME NEW P, Carries(P), NEW t, NEW n
  PROVE  LET Q == TearDownStale(P, t)
             S == SyncWider(P, t, n)
         IN  /\ Carries(Q) /\ Carries(S)
             /\ Q.in = ModuleOf[t] /\ S.in = ModuleOf[t]
             /\ P.in = ModuleOf[t] => Done(Q) = Done(P)
             /\ Done(S) = Done(Q)
<1> DEFINE Q == TearDownStale(P, t)
           S == SyncWider(P, t, n)
           up == Marks("fixture", ToSet(SubSeq(Missing(Q, t), 1, n)))
<1>1. \A x \in up : x[1] = "fixture"
  BY DEF Marks
<1>2. S.here = Q.here \cup up /\ S.mem = Q.mem \cup up /\ S.guard = Q.guard /\ S.in = Q.in
  BY DEF SyncWider
<1>3. Q.in = ModuleOf[t]
  BY TearDownShape
<1>4. PICK gone :
        /\ \A x \in gone : x[1] = "fixture"
        /\ Q.here = (IF P.in = ModuleOf[t] THEN P.here ELSE {}) \ gone
        /\ IF P.guard.module \in {"none", ModuleOf[t]}
             THEN Q.mem = P.mem \ gone /\ Q.guard = P.guard
             ELSE Q.guard = NoGuard
  BY TearDownShape
<1> HIDE DEF Q, S, up
<1>5. Carries(Q) /\ (P.in = ModuleOf[t] => Done(Q) = Done(P))
  BY <1>3, <1>4 DEF Carries, Done, NoGuard
<1>6. Carries(S) /\ Done(S) = Done(Q)
  BY <1>1, <1>2, <1>5 DEF Carries, Done
<1> QED BY <1>2, <1>3, <1>5, <1>6 DEF Q, S

LEMMA BodyCarries ==
  ASSUME NEW P, Carries(P), NEW t
  PROVE  Carries(Body(P, t)) /\ Body(P, t).in = P.in /\ Done(P) \subseteq Done(Body(P, t))
<1>1. /\ Body(P, t).mem = (P.mem \cup Effect(t)) \ Own(t) /\ Body(P, t).guard = P.guard
      /\ Body(P, t).in = P.in /\ Body(P, t).here = P.here \cup Effect(t)
  BY DEF Body
<1> QED BY <1>1, EffectFacts DEF Carries, Done

LEMMA EnteredCarries ==
  ASSUME NEW P, NEW t, Carries(P), P.in = ModuleOf[t]
  PROVE  Carries(Entered(P, t)) /\ Entered(P, t).in = ModuleOf[t]
BY DEF Carries, Entered, Process

\* What a body run in P finds is all that has been done since its module was entered.
LEMMA RanCarries ==
  ASSUME NEW P, NEW t, NEW tier, NEW e, NEW rerun, NEW lost,
         Carries(P), last' = Ran(t, tier, P, e, rerun, lost)
  PROVE  FileCarries'
BY DEF Ran, Carries, FileCarries

LEMMA UnrunCarries ==
  ASSUME NEW t, NEW tier, last' = Unrun(t, tier)
  PROVE  FileCarries' /\ LeakIsRerun'
BY DEF Unrun, FileCarries, LeakIsRerun, Ended

\* While a child holds a module, its tests are routed there and nowhere else.
LEMMA HeldRoute ==
  ASSUME Carrying, NEW t \in Tests, child.module = ModuleOf[t]
  PROVE  route(t) = "module-child"
<1>1. ModuleOf[t] # "none" /\ config \in Configs
  BY TestFacts DEF Carrying
<1>2. config.restore /\ config.fork /\ (config.no_fork => ModuleOf[t] \in Opaque)
  BY <1>1 DEF Carrying, ChildHolds
<1>3. config.no_fork => ~config.ladder
  BY <1>1, ConfigFacts
<1> QED BY <1>2, <1>3 DEF route, NeedsFork, trusted_pure, force_no_fork

\* A step that gives no child a test: the file of the test it serves is not held by one.
LEMMA WorkerStep ==
  ASSUME Carrying, NEW t \in Tests, route(t) # "module-child" \/ last'.ended = "none",
         child' = child, config' = config,
         alive' => Carries(worker'),
         worker' = worker \/ (worker'.in = ModuleOf[t] /\ route(t) # "module-child"),
         last'.test = t, FileCarries', LeakIsRerun'
  PROVE  Carrying'
<1>1. ChildHolds'
  BY DEF Carrying, ChildHolds, Carries
<1>2. NeverSplit'
  <2> SUFFICES ASSUME child.module # "none" PROVE NeverSplit'
    BY DEF NeverSplit
  <2>1. child.module = ModuleOf[t] => worker' = worker /\ last'.ended = "none"
    BY HeldRoute
  <2> QED BY <2>1 DEF Carrying, NeverSplit, Ended
<1> QED BY <1>1, <1>2 DEF Carrying, Carries

\* A request that its module's child took: the child has all that the worker's tests of
\* the file did before it was forked, and all that its own have done since.
LEMMA ChildStep ==
  ASSUME Carrying, NEW t \in Tests, route(t) = "module-child", alive, NEW image,
         config' = config, alive' = alive,
         LET c == IF child.module = ModuleOf[t] THEN child ELSE Spawn(t) IN
         /\ worker' = IF child.module = ModuleOf[t] THEN worker ELSE TearDownStale(worker, t)
         /\ \/ child' = NoChild
            \/ /\ child' = [module |-> c.module, image |-> image]
               /\ Carries(c.image) /\ c.image.in = ModuleOf[t] =>
                    Carries(image) /\ image.in = ModuleOf[t] /\ Done(c.image) \subseteq Done(image),
         last'.test = t, last'.tier = "module-child", FileCarries'
  PROVE  Carrying'
<1> DEFINE c == IF child.module = ModuleOf[t] THEN child ELSE Spawn(t)
<1> HIDE DEF c
<1>1. ModuleOf[t] # "none" /\ Carries(worker) /\ config \in Configs
  BY TestFacts DEF Carrying
<1>2. Carries(TearDownStale(worker, t)) /\ TearDownStale(worker, t).in = ModuleOf[t]
  BY <1>1, SyncCarries
<1>3. /\ c.module = ModuleOf[t] /\ Carries(c.image) /\ c.image.in = ModuleOf[t]
      /\ worker'.in = ModuleOf[t] => Done(worker') \subseteq Done(c.image)
      /\ Carries(worker')
  <2>1. CASE child.module = ModuleOf[t]
    BY <1>1, <2>1 DEF c, Carrying, ChildHolds, NeverSplit, Done
  <2>2. CASE child.module # ModuleOf[t]
    BY <1>2, <2>2 DEF c, Spawn
  <2> QED BY <2>1, <2>2
<1>4. config.restore /\ config.fork /\ (config.no_fork => ModuleOf[t] \in Opaque)
  <2>1. NeedsFork(t) /\ config.fork
    BY DEF route
  <2>2. CASE child.module = ModuleOf[t]
    BY <1>1, <2>2 DEF Carrying, ChildHolds
  <2>3. CASE child.module # ModuleOf[t]
    BY <2>1, <2>3 DEF NeedsFork, recorded_must_fork
  <2> QED BY <2>2, <2>3
<1>5. \/ child'.module = "none"
      \/ /\ child'.module = ModuleOf[t] /\ child'.image = image
         /\ Carries(image) /\ image.in = ModuleOf[t] /\ Done(c.image) \subseteq Done(image)
  BY <1>3 DEF c, NoChild
<1>6. ChildHolds'
  BY <1>4, <1>5 DEF ChildHolds, Carries
<1>7. NeverSplit'
  BY <1>3, <1>5 DEF NeverSplit, Done
<1>8. LeakIsRerun'
  BY DEF LeakIsRerun
<1> QED BY <1>1, <1>3, <1>6, <1>7, <1>8 DEF Carrying, Carries

\* A test that leaked is reported by the clean room, in whose image no test has run, or,
\* when there is none, by a fork.
LEMMA LeakRerun ==
  ASSUME Carrying, NEW t \in Tests, NEW e, NEW lost, InProcess(t, e, lost)
  PROVE  LeakIsRerun'
<1> DEFINE before == Entered(Ready(worker, t), t)
           after == Body(before, t)
           leak == Leaked(t, e)
           rerun == IF leak THEN Rerun(t, after, lost) ELSE By("worker")
<1> HIDE DEF before
<1>1. /\ last' = Ran(t, route(t), before, e, rerun, lost) /\ config' = config
      /\ room' = (room /\ ~lost) /\ config \in Configs
  BY DEF InProcess, before, Carrying
<1>2. /\ last'.test = t /\ last'.ended = e /\ last'.lostroom = lost
      /\ last'.from = rerun.by /\ last'.again = rerun.again
  BY <1>1 DEF Ran
<1> SUFFICES ASSUME e = "done", "thread" \in Leaves[t], config.ladder, ~lost
             PROVE  /\ last'.from # "worker"
                    /\ room' => \A x \in last'.again : x[1] # "thread"
  BY <1>1, <1>2 DEF LeakIsRerun
<1>3. config.fork /\ ~config.no_fork
  BY <1>1, ConfigFacts
<1>4. rerun = IF room THEN [by |-> "room", again |-> Ready(Pristine, t).mem \cup Own(t)]
                      ELSE [by |-> "fork", again |-> after.mem \cup Own(t)]
  BY <1>3 DEF Leaked, Rerun
<1>5. \A x \in Ready(Pristine, t).mem \cup Own(t) : x[1] # "thread"
  <2>1. TearDownStale(Pristine, t).mem = {}
    BY TearDownFacts DEF Pristine, NoGuard
  <2>2. \A x \in Ready(Pristine, t).mem : x[1] = "fixture"
    BY <2>1, SyncFacts DEF Ready
  <2> QED BY <2>2, EffectFacts
<1>6. CASE room
  BY <1>2, <1>4, <1>5, <1>6
<1>7. CASE ~room
  <2>1. ~room'
    BY <1>1, <1>7, Zenon
  <2> QED BY <1>2, <1>4, <1>7, <2>1
<1> QED BY <1>6, <1>7

\* The inductive invariant of the files: whatever process goes on with a file holds
\* what its tests have left, and a child is held only where all of its tests go to it.
THEOREM FileInvariance == Spec => []Carrying
<1>1. Init => Carrying
  BY DEF Init, Carrying, Carries, ChildHolds, Pristine, NoGuard, NoChild, Nothing, Unrun,
         FileCarries, NeverSplit, LeakIsRerun, Ended
<1>2. ASSUME Carrying, [Next]_vars
      PROVE  Carrying'
  <2>1. CASE UNCHANGED vars
    BY <1>2, <2>1 DEF vars, Carrying, Carries, ChildHolds, FileCarries, NeverSplit, LeakIsRerun, Ended
  <2>2. CASE Finish
    <3>1. config' = config /\ last' = last /\ ~alive' /\ child'.module = "none" /\ ~room'
      BY <2>2 DEF Finish, NoChild
    <3> QED BY <1>2, <3>1 DEF Carrying, ChildHolds, FileCarries, NeverSplit, LeakIsRerun, Ended
  <2>3. ASSUME NEW t \in Tests, Serve(t)
        PROVE  Carrying'
    <3> DEFINE c == IF child.module = ModuleOf[t] THEN child ELSE Spawn(t)
    <3>1. alive /\ Carries(worker)
      BY <1>2, <2>3 DEF Serve, Gate, Refuse, SetUpFails, ChildSetUpFails, ChildGone, Fork,
                        ModuleChild, InProcess, Request, Carrying
    <3>2. \A n : Carries(SyncWider(worker, t, n)) /\ SyncWider(worker, t, n).in = ModuleOf[t]
      BY <3>1, SyncCarries
    <3>3. Carries(Ready(worker, t)) /\ Ready(worker, t).in = ModuleOf[t]
      BY <3>2 DEF Ready
    <3>4. CASE Gate(t)
      <4>1. last' = Unrun(t, "none") /\ UNCHANGED <<config, worker, alive, child, room>>
        BY <3>4 DEF Gate
      <4>2. last'.test = t /\ last'.ended = "none" /\ FileCarries' /\ LeakIsRerun'
        BY <4>1, UnrunCarries DEF Unrun
      <4> QED BY <1>2, <3>1, <4>1, <4>2, WorkerStep
    <3>5. CASE Refuse(t)
      <4>1. /\ last' = Unrun(t, "refused") /\ UNCHANGED <<config, alive, child, room>>
            /\ route(t) = "refused" /\ Carries(worker') /\ worker'.in = ModuleOf[t]
        BY <3>5, <3>2 DEF Refuse
      <4>2. last'.test = t /\ FileCarries' /\ LeakIsRerun'
        BY <4>1, UnrunCarries DEF Unrun
      <4> QED BY <1>2, <4>1, <4>2, WorkerStep
    <3>6. ASSUME NEW n, SetUpFails(t, n) PROVE Carrying'
      <4>1. /\ last' = Unrun(t, route(t)) /\ UNCHANGED <<config, alive, child, room>>
            /\ route(t) # "module-child" /\ Carries(worker') /\ worker'.in = ModuleOf[t]
        BY <3>6, <3>2 DEF SetUpFails
      <4>2. last'.test = t /\ FileCarries' /\ LeakIsRerun'
        BY <4>1, UnrunCarries DEF Unrun
      <4> QED BY <1>2, <4>1, <4>2, WorkerStep
    <3>7. ASSUME NEW e, Fork(t, e) PROVE Carrying'
      <4>1. /\ last' = Ran(t, "fork", Ready(worker, t), e, By("fork"), FALSE)
            /\ UNCHANGED <<config, alive, child, room>>
            /\ route(t) # "module-child" /\ worker' = Ready(worker, t)
        BY <3>7 DEF Fork
      <4>2. last'.test = t /\ last'.tier = "fork" /\ FileCarries'
        BY <3>3, <4>1, RanCarries DEF Ran
      <4>3. LeakIsRerun'
        BY <4>2 DEF LeakIsRerun
      <4> QED BY <1>2, <3>3, <4>1, <4>2, <4>3, WorkerStep
    <3>8. ASSUME NEW e, NEW lost, InProcess(t, e, lost) PROVE Carrying'
      <4> DEFINE before == Entered(Ready(worker, t), t)
      <4>1. /\ worker' = Body(before, t) /\ child' = child /\ config' = config
            /\ route(t) # "module-child"
            /\ \E rerun : last' = Ran(t, route(t), before, e, rerun, lost)
        BY <3>8 DEF InProcess
      <4>2. Carries(before) /\ before.in = ModuleOf[t]
        BY <3>3, EnteredCarries
      <4> HIDE DEF before
      <4>3. Carries(worker') /\ worker'.in = ModuleOf[t]
        BY <4>1, <4>2, BodyCarries
      <4>4. last'.test = t /\ FileCarries'
        BY <4>1, <4>2, RanCarries DEF Ran
      <4> QED BY <1>2, <3>8, <4>1, <4>3, <4>4, LeakRerun, WorkerStep
    <3>9. CASE ChildGone(t)
      <4>1. /\ worker' = worker /\ child' = NoChild /\ child.module = ModuleOf[t]
            /\ last' = Unrun(t, "module-child") /\ route(t) = "module-child"
            /\ UNCHANGED <<config, alive>>
        BY <3>9 DEF ChildGone
      <4>2. last'.test = t /\ last'.tier = "module-child" /\ FileCarries'
        BY <4>1, UnrunCarries DEF Unrun
      <4> QED BY <1>2, <3>1, <4>1, <4>2, ChildStep
    <3>10. ASSUME NEW n, ChildSetUpFails(t, n) PROVE Carrying'
      <4> DEFINE image == SyncWider(c.image, t, n)
      <4>1. /\ worker' = IF child.module = ModuleOf[t] THEN worker ELSE TearDownStale(worker, t)
            /\ child' = [module |-> c.module, image |-> image]
            /\ last' = Unrun(t, "module-child") /\ route(t) = "module-child"
            /\ UNCHANGED <<config, alive>>
        BY <3>10 DEF ChildSetUpFails
      <4>2. last'.test = t /\ last'.tier = "module-child" /\ FileCarries'
        BY <4>1, UnrunCarries DEF Unrun
      <4>3. Carries(c.image) /\ c.image.in = ModuleOf[t] =>
              Carries(image) /\ image.in = ModuleOf[t] /\ Done(c.image) \subseteq Done(image)
        BY SyncCarries
      <4> HIDE DEF image
      <4> QED BY <1>2, <3>1, <4>1, <4>2, <4>3, ChildStep
    <3>11. ASSUME NEW e, ModuleChild(t, e) PROVE Carrying'
      <4> DEFINE ready == Ready(c.image, t)
                 image == Body(ready, t)
      <4>1. /\ worker' = IF child.module = ModuleOf[t] THEN worker ELSE TearDownStale(worker, t)
            /\ child' = NoChild \/ child' = [module |-> c.module, image |-> image]
            /\ last' = Ran(t, "module-child", ready, e, By("child"), FALSE)
            /\ route(t) = "module-child" /\ UNCHANGED <<config, alive>>
        BY <3>11 DEF ModuleChild
      <4>2. Carries(c.image) /\ c.image.in = ModuleOf[t] =>
              Carries(ready) /\ ready.in = ModuleOf[t] /\ Done(c.image) \subseteq Done(ready)
        BY SyncCarries DEF Ready
      <4>3. Carries(c.image) /\ c.image.in = ModuleOf[t] =>
              Carries(image) /\ image.in = ModuleOf[t] /\ Done(c.image) \subseteq Done(image)
        <5> HIDE DEF ready
        <5> QED BY <4>2, BodyCarries
      <4>4. Carries(c.image) /\ c.image.in = ModuleOf[t]
        <5>1. CASE child.module = ModuleOf[t]
          BY <1>2, <5>1, TestFacts DEF Carrying, ChildHolds
        <5>2. CASE child.module # ModuleOf[t]
          BY <3>1, <5>2, SyncCarries DEF Spawn
        <5> QED BY <5>1, <5>2
      <4>5. last'.test = t /\ last'.tier = "module-child" /\ FileCarries'
        <5> HIDE DEF ready, c
        <5> QED BY <4>1, <4>2, <4>4, RanCarries DEF Ran
      <4> HIDE DEF image, ready
      <4> QED BY <1>2, <3>1, <4>1, <4>3, <4>5, ChildStep
    <3> QED BY <2>3, <3>4, <3>5, <3>6, <3>7, <3>8, <3>9, <3>10, <3>11 DEF Serve
  <2> QED BY <1>2, <2>1, <2>2, <2>3 DEF Next
<1> QED BY <1>1, <1>2, PTL DEF Spec

\* Inside a file nothing is put back, whatever tier its tests take.
THEOREM FilesCarry == Spec => []FileCarries
BY FileInvariance, PTL DEF Carrying

\* No test of a file that a module child holds runs outside it (tiers.py:69-71).
THEOREM FilesNeverSplit == Spec => []NeverSplit
BY FileInvariance, PTL DEF Carrying

\* On the ladder a test that left a thread is not reported from the worker it left it in.
THEOREM LeaksAreRerun == Spec => []LeakIsRerun
BY FileInvariance, PTL DEF Carrying
-----------------------------------------------------------------------------
(* Types.                                                                  *)

\* The record of a process, field by field.
LEMMA ProcessType ==
  ASSUME NEW mem \in SUBSET Mark, NEW active \in Seq(Fixtures), NEW guard \in Guards,
         NEW in \in Modules \cup {"none"}, NEW here \in SUBSET Mark
  PROVE  [mem |-> mem, active |-> active, guard |-> guard, in |-> in, here |-> here] \in Processes
BY DEF Processes

LEMMA ProcessFields ==
  ASSUME NEW P \in Processes
  PROVE  /\ P.mem \subseteq Mark /\ P.active \in Seq(Fixtures) /\ P.guard \in Guards
         /\ P.guard.found \subseteq Mark
         /\ P.in \in Modules \cup {"none"} /\ P.here \subseteq Mark
BY DEF Processes, Guards

\* The marks of a list of fixtures, of a test's own fixtures and of its body.
LEMMA MarksTyped ==
  ASSUME NEW t \in Tests
  PROVE  /\ \A s \in Seq(Fixtures) : Marks("fixture", ToSet(s)) \subseteq Mark
         /\ Own(t) \subseteq Mark /\ Effect(t) \subseteq Mark
<1>1. ASSUME NEW s \in Seq(Fixtures) PROVE Marks("fixture", ToSet(s)) \subseteq Mark
  <2>1. ToSet(s) \subseteq Fixtures
    BY DEF ToSet
  <2> QED BY <2>1 DEF Marks, Mark
<1>2. Own(t) \subseteq Mark
  BY DEF Own, Mark
<1>3. Effect(t) \subseteq Mark
  <2>1. \A kind \in {"state", "opaque", "thread"} : <<kind, t>> \in Mark
    BY DEF Mark
  <2> QED BY <2>1 DEF Effect
<1> QED BY <1>1, <1>2, <1>3

LEMMA StandingTyped ==
  ASSUME NEW P \in Processes, NEW t
  PROVE  Standing(P, t) \in Seq(Fixtures)
<1> DEFINE kept == {i \in DOMAIN P.active : t \in Serves[P.active[i]]}
           n == IF kept = {} THEN 0 ELSE Max(kept)
           s == P.active
<1>1. s \in Seq(Fixtures) /\ Len(s) \in Nat /\ DOMAIN s = 1 .. Len(s)
  BY ProcessFields
<1>2. kept \in SUBSET (0 .. Len(s)) /\ kept \subseteq 1 .. Len(s)
  BY <1>1
<1>3. Standing(P, t) = SubSeq(s, 1, n)
  BY DEF Standing
<1> HIDE DEF kept, s
<1>4. n \in 0 .. Len(s)
  <2>1. CASE kept = {}
    BY <1>1, <2>1
  <2>2. CASE kept # {}
    <3>1. PICK len \in Nat : len = Len(s)
      BY <1>1
    <3>2. kept \in SUBSET (0 .. len)
      BY <1>2, <3>1
    <3>3. Max(kept) \in kept
      BY <2>2, <3>2, Greatest
    <3>4. n = Max(kept)
      BY <2>2
    <3> HIDE DEF n
    <3> QED BY <1>2, <3>3, <3>4
  <2> QED BY <2>1, <2>2
<1> HIDE DEF n
<1> QED BY <1>1, <1>3, <1>4

LEMMA TearDownTyped ==
  ASSUME NEW P \in Processes, NEW t \in Tests
  PROVE  TearDownStale(P, t) \in Processes
<1> DEFINE stay == Standing(P, t)
           gone == Marks("fixture", ToSet(P.active) \ ToSet(stay))
           Q == [mem |-> P.mem \ gone, active |-> stay, guard |-> P.guard, in |-> ModuleOf[t],
                 here |-> (IF P.in = ModuleOf[t] THEN P.here ELSE {}) \ gone]
<1>1. stay \in Seq(Fixtures)
  BY StandingTyped
<1>2. TearDownStale(P, t) = Left(Q, t)
  BY DEF TearDownStale
<1> HIDE DEF stay, gone
<1>3. Q \in Processes
  <2>1. /\ P.mem \ gone \in SUBSET Mark /\ P.guard \in Guards /\ ModuleOf[t] \in Modules \cup {"none"}
        /\ (IF P.in = ModuleOf[t] THEN P.here ELSE {}) \ gone \in SUBSET Mark
    BY ProcessFields, TestFacts
  <2> QED BY <1>1, <2>1, ProcessType
<1> HIDE DEF Q
<1>4. Left(Q, t) \in Processes
  <2> DEFINE mem == {x \in Q.guard.found : x[1] \in Restorable} \cup {x \in Q.mem : x[1] \notin Restorable}
  <2>1. /\ mem \in SUBSET Mark /\ Q.active \in Seq(Fixtures) /\ Q.in \in Modules \cup {"none"}
        /\ Q.here \in SUBSET Mark
    BY <1>3, ProcessFields
  <2>2. NoGuard \in Guards
    BY DEF NoGuard, Guards
  <2>3. Left(Q, t) = Q \/ Left(Q, t) = [mem |-> mem, active |-> Q.active, guard |-> NoGuard, in |-> Q.in, here |-> Q.here]
    BY DEF Left, Process
  <2> HIDE DEF mem
  <2> QED BY <1>3, <2>1, <2>2, <2>3, ProcessType
<1> QED BY <1>2, <1>4

LEMMA SyncTyped ==
  ASSUME NEW P \in Processes, NEW t \in Tests, NEW n \in 0 .. Len(Missing(TearDownStale(P, t), t))
  PROVE  SyncWider(P, t, n) \in Processes
<1> DEFINE Q == TearDownStale(P, t)
           missing == Missing(Q, t)
           new == SubSeq(missing, 1, n)
           up == Marks("fixture", ToSet(new))
<1>1. Q \in Processes /\ missing \in Seq(Fixtures)
  BY TearDownTyped, MissingIsList
<1>2. SyncWider(P, t, n) = [mem |-> Q.mem \cup up, active |-> Q.active \o new, guard |-> Q.guard,
                            in |-> Q.in, here |-> Q.here \cup up]
  BY DEF SyncWider
<1>3. n \in 0 .. Len(missing)
  OBVIOUS
<1> HIDE DEF Q, missing
<1>4. new \in Seq(Fixtures)
  BY <1>1, <1>3
<1> HIDE DEF new
<1>5. up \subseteq Mark
  BY <1>4, MarksTyped
<1> HIDE DEF up
<1>6. /\ Q.mem \cup up \in SUBSET Mark /\ Q.active \o new \in Seq(Fixtures) /\ Q.guard \in Guards
      /\ Q.in \in Modules \cup {"none"} /\ Q.here \cup up \in SUBSET Mark
  <2>1. /\ Q.mem \subseteq Mark /\ Q.active \in Seq(Fixtures) /\ Q.guard \in Guards
        /\ Q.in \in Modules \cup {"none"} /\ Q.here \subseteq Mark
    BY <1>1, ProcessFields
  <2>2. Q.active \o new \in Seq(Fixtures)
    BY <1>4, <2>1
  <2>3. Q.mem \cup up \in SUBSET Mark /\ Q.here \cup up \in SUBSET Mark
    BY <1>5, <2>1
  <2> QED BY <2>1, <2>2, <2>3
<1>7. [mem |-> Q.mem \cup up, active |-> Q.active \o new, guard |-> Q.guard,
       in |-> Q.in, here |-> Q.here \cup up] \in Processes
  BY <1>6, ProcessType
<1> QED BY <1>2, <1>7 DEF up, new, missing, Q

LEMMA ReadyTyped ==
  ASSUME NEW P \in Processes, NEW t \in Tests
  PROVE  Ready(P, t) \in Processes
<1>1. Len(Missing(TearDownStale(P, t), t)) \in 0 .. Len(Missing(TearDownStale(P, t), t))
  BY MissingIsList
<1> QED BY <1>1, SyncTyped DEF Ready

LEMMA EnteredTyped ==
  ASSUME NEW P \in Processes, NEW t \in Tests
  PROVE  Entered(P, t) \in Processes
<1> DEFINE found == P.mem \cup Own(t)
           g == [module |-> ModuleOf[t], found |-> found]
<1>1. /\ P.mem \in SUBSET Mark /\ P.active \in Seq(Fixtures) /\ P.in \in Modules \cup {"none"}
      /\ P.here \in SUBSET Mark /\ found \in SUBSET Mark
  BY ProcessFields, MarksTyped
<1>2. g \in Guards
  BY <1>1, TestFacts DEF Guards
<1>3. Entered(P, t) = P \/ Entered(P, t) = [mem |-> P.mem, active |-> P.active, guard |-> g, in |-> P.in, here |-> P.here]
  BY DEF Entered, Process
<1> HIDE DEF g, found
<1>4. [mem |-> P.mem, active |-> P.active, guard |-> g, in |-> P.in, here |-> P.here] \in Processes
  BY <1>1, <1>2, ProcessType
<1> QED BY <1>3, <1>4

LEMMA BodyTyped ==
  ASSUME NEW P \in Processes, NEW t \in Tests
  PROVE  Body(P, t) \in Processes
<1>1. /\ (P.mem \cup Effect(t)) \ Own(t) \in SUBSET Mark /\ P.active \in Seq(Fixtures) /\ P.guard \in Guards
      /\ P.in \in Modules \cup {"none"} /\ P.here \cup Effect(t) \in SUBSET Mark
  BY ProcessFields, MarksTyped
<1> QED BY <1>1, ProcessType DEF Body

LEMMA PristineTyped == Pristine \in Processes /\ NoGuard \in Guards /\ "none" \notin Tiers
<1>1. NoGuard \in Guards
  BY DEF NoGuard, Guards
<1>2. {} \in SUBSET Mark /\ <<>> \in Seq(Fixtures) /\ "none" \in Modules \cup {"none"}
  OBVIOUS
<1>3. Pristine \in Processes
  BY <1>1, <1>2, ProcessType DEF Pristine
<1> QED BY <1>1, <1>3 DEF Tiers

\* No launch reaches a tier that runs in process without the restore.
LEMMA RouteTyped ==
  ASSUME NEW t, config \in Configs
  PROVE  route(t) \in Tiers
<1>1. config.no_fork \/ force_no_fork(t) => config.restore
  BY ConfigFacts DEF force_no_fork
<1> QED BY <1>1 DEF route, Tiers

\* What a request leaves in last, when a body ran in P and when none ran.
LastTyped ==
  /\ last.test \in Tests \cup {"none"} /\ last.tier \in Tiers \cup {"none"}
  /\ last.saw \subseteq Mark /\ last.again \subseteq Mark /\ last.here \subseteq Mark
  /\ last.up \in Seq(Fixtures)

\* What a request may change.
StateTyped ==
  /\ worker \in Processes /\ alive \in BOOLEAN /\ room \in BOOLEAN /\ LastTyped
  /\ child.module \in Modules \cup {"none"} /\ child.image \in Processes

LEMMA RanTyped ==
  ASSUME NEW t \in Tests, NEW tier \in Tiers \cup {"none"}, NEW P \in Processes, NEW e, NEW rerun,
         NEW lost, rerun.again \subseteq Mark, last' = Ran(t, tier, P, e, rerun, lost)
  PROVE  LastTyped'
<1>1. P.mem \subseteq Mark /\ P.active \in Seq(Fixtures) /\ P.here \subseteq Mark /\ Own(t) \subseteq Mark
  BY ProcessFields, MarksTyped
<1> QED BY <1>1 DEF Ran, LastTyped

LEMMA UnrunTyped ==
  ASSUME NEW t \in Tests, NEW tier \in Tiers \cup {"none"}, last' = Unrun(t, tier)
  PROVE  LastTyped'
BY DEF Unrun, LastTyped

\* The result of a test that leaked, wherever it is taken from.
LEMMA RerunTyped ==
  ASSUME NEW t \in Tests, NEW after \in Processes, NEW lost
  PROVE  Rerun(t, after, lost).again \subseteq Mark
<1>1. Ready(Pristine, t) \in Processes
  BY PristineTyped, ReadyTyped
<1>2. Ready(Pristine, t).mem \cup Own(t) \subseteq Mark /\ after.mem \cup Own(t) \subseteq Mark
  BY <1>1, ProcessFields, MarksTyped
<1> QED BY <1>2 DEF Rerun, By

\* A set-up fails after no more fixtures than are missing.
LEMMA FailsWithin ==
  ASSUME NEW P, NEW t \in Tests, NEW n \in 0 .. Len(Needs[t]), FailsAfter(P, t, n)
  PROVE  n \in 0 .. Len(Missing(TearDownStale(P, t), t))
<1>1. PICK m \in Nat : m = Len(Missing(TearDownStale(P, t), t))
  BY MissingIsList
<1>2. n < m \/ n = m
  BY <1>1 DEF FailsAfter
<1>3. n \in Nat
  BY FixtureFacts
<1> QED BY <1>1, <1>2, <1>3

\* Every variable stays in its type: a memory holds marks of known tests and fixtures, a
\* process's fixtures are a list of them however many sets them up or tears them down, and
\* no request is ever given a tier that runs in process without the restore.
THEOREM LadderTypes == Spec => []TypeOK
<1>1. Init => TypeOK
  <2>1. /\ NoChild.module = "none" /\ NoChild.image = Pristine
        /\ Nothing.test = "none" /\ Nothing.tier = "none" /\ Nothing.saw = {} /\ Nothing.again = {}
        /\ Nothing.here = {} /\ Nothing.up = <<>>
    BY DEF NoChild, Nothing, Unrun
  <2>2. \A c \in Configs : c.fork \in BOOLEAN
    BY ConfigFacts
  <2> SUFFICES ASSUME Init PROVE TypeOK
    OBVIOUS
  <2>3. /\ config \in Configs /\ worker = Pristine /\ alive = TRUE /\ child = NoChild
        /\ room = config.fork /\ asked = {} /\ last = Nothing
    BY DEF Init
  <2>4. room \in BOOLEAN
    BY <2>2, <2>3
  <2>5. last.up \in Seq(Fixtures)
    <3>1. last.up = <<>>
      BY <2>1, <2>3, Zenon
    <3>2. <<>> \in Seq(Fixtures)
      OBVIOUS
    <3> QED BY <3>1, <3>2, Zenon
  <2> QED BY <2>1, <2>3, <2>4, <2>5, PristineTyped DEF TypeOK
<1>2. ASSUME TypeOK, [Next]_vars
      PROVE  TypeOK'
  <2>1. CASE UNCHANGED vars
    BY <1>2, <2>1 DEF vars, TypeOK
  <2>2. CASE Finish
    <3>1. /\ worker.mem \ Marks("fixture", ToSet(worker.active)) \in SUBSET Mark
          /\ worker.guard \in Guards /\ worker.in \in Modules \cup {"none"} /\ worker.here \in SUBSET Mark
      BY <1>2, ProcessFields DEF TypeOK
    <3>2. <<>> \in Seq(Fixtures)
      OBVIOUS
    <3>3. worker' \in Processes
      BY <2>2, <3>1, <3>2, ProcessType DEF Finish, Process
    <3> QED BY <1>2, <2>2, <3>3, PristineTyped DEF Finish, NoChild, TypeOK
  <2>3. ASSUME NEW t \in Tests, Serve(t)
        PROVE  TypeOK'
    <3> DEFINE c == IF child.module = ModuleOf[t] THEN child ELSE Spawn(t)
    <3>1. config \in Configs /\ worker \in Processes /\ LastTyped /\ route(t) \in Tiers
      BY <1>2, RouteTyped DEF TypeOK, LastTyped
    <3>2. TearDownStale(worker, t) \in Processes /\ Ready(worker, t) \in Processes
      BY <3>1, TearDownTyped, ReadyTyped
    <3>3. c.module \in Modules \cup {"none"} /\ c.image \in Processes
      BY <1>2, <3>2, TestFacts DEF Spawn, TypeOK
    <3>4. config' = config /\ asked' \subseteq Tests
      BY <1>2, <2>3 DEF Serve, Gate, Refuse, SetUpFails, ChildSetUpFails, ChildGone, Fork,
                        ModuleChild, InProcess, Request, TypeOK
    <3>5. SUFFICES StateTyped'
      BY <3>1, <3>4 DEF TypeOK, LastTyped, StateTyped
    <3>6. alive \in BOOLEAN /\ room \in BOOLEAN /\ child.module \in Modules \cup {"none"} /\ child.image \in Processes
      BY <1>2 DEF TypeOK
    <3> HIDE DEF c
    <3>7. CASE Gate(t)
      <4>1. LastTyped'
        BY <3>7, UnrunTyped DEF Gate
      <4> QED BY <3>1, <3>6, <3>7, <4>1 DEF Gate, StateTyped
    <3>8. CASE Refuse(t)
      <4>1. LastTyped'
        BY <3>8, UnrunTyped DEF Refuse, Tiers
      <4>2. worker' \in Processes
        BY <3>1, <3>8, SyncTyped DEF Refuse
      <4> QED BY <3>6, <3>8, <4>1, <4>2 DEF Refuse, StateTyped
    <3>9. ASSUME NEW n \in 0 .. Len(Needs[t]), SetUpFails(t, n) PROVE StateTyped'
      <4>1. LastTyped'
        BY <3>1, <3>9, UnrunTyped DEF SetUpFails
      <4>2. n \in 0 .. Len(Missing(TearDownStale(worker, t), t))
        BY <3>9, FailsWithin DEF SetUpFails
      <4>3. worker' \in Processes
        BY <3>1, <3>9, <4>2, SyncTyped DEF SetUpFails
      <4> QED BY <3>6, <3>9, <4>1, <4>3 DEF SetUpFails, StateTyped
    <3>10. ASSUME NEW e, Fork(t, e) PROVE StateTyped'
      <4>1. By("fork").again \subseteq Mark /\ "fork" \in Tiers
        BY DEF By, Tiers
      <4>2. LastTyped'
        BY <3>2, <3>10, <4>1, RanTyped DEF Fork
      <4> QED BY <3>2, <3>6, <3>10, <4>2 DEF Fork, StateTyped
    <3>11. ASSUME NEW e, NEW lost \in BOOLEAN, InProcess(t, e, lost) PROVE StateTyped'
      <4> DEFINE before == Entered(Ready(worker, t), t)
                 after == Body(before, t)
                 rerun == IF Leaked(t, e) THEN Rerun(t, after, lost) ELSE By("worker")
      <4>1. before \in Processes /\ after \in Processes
        BY <3>2, EnteredTyped, BodyTyped
      <4>2. /\ worker' = after /\ child' = child /\ alive' \in BOOLEAN /\ room' = (room /\ ~lost)
            /\ last' = Ran(t, route(t), before, e, rerun, lost)
        BY <3>11 DEF InProcess
      <4> HIDE DEF before, after
      <4>3. rerun.again \subseteq Mark
        BY <4>1, RerunTyped DEF By
      <4> HIDE DEF rerun
      <4>4. LastTyped'
        BY <3>1, <4>1, <4>2, <4>3, RanTyped
      <4> QED BY <3>6, <4>1, <4>2, <4>4 DEF StateTyped
    <3>12. CASE ChildGone(t)
      <4>1. LastTyped'
        BY <3>12, UnrunTyped DEF ChildGone, Tiers
      <4> QED BY <3>1, <3>6, <3>12, <4>1, PristineTyped DEF ChildGone, NoChild, StateTyped
    <3>13. ASSUME NEW n \in 0 .. Len(Needs[t]), ChildSetUpFails(t, n) PROVE StateTyped'
      <4>1. /\ worker' = IF child.module = ModuleOf[t] THEN worker ELSE TearDownStale(worker, t)
            /\ child' = [module |-> c.module, image |-> SyncWider(c.image, t, n)]
            /\ last' = Unrun(t, "module-child") /\ FailsAfter(c.image, t, n)
            /\ UNCHANGED <<alive, room>>
        BY <3>13 DEF ChildSetUpFails, c
      <4>2. LastTyped'
        BY <4>1, UnrunTyped DEF Tiers
      <4>3. SyncWider(c.image, t, n) \in Processes
        BY <3>3, <3>13, <4>1, FailsWithin, SyncTyped
      <4> QED BY <3>1, <3>2, <3>3, <3>6, <4>1, <4>2, <4>3 DEF StateTyped
    <3>14. ASSUME NEW e, ModuleChild(t, e) PROVE StateTyped'
      <4> DEFINE ready == Ready(c.image, t)
      <4>1. /\ worker' = IF child.module = ModuleOf[t] THEN worker ELSE TearDownStale(worker, t)
            /\ child' = NoChild \/ child' = [module |-> c.module, image |-> Body(ready, t)]
            /\ last' = Ran(t, "module-child", ready, e, By("child"), FALSE)
            /\ UNCHANGED <<alive, room>>
        BY <3>14 DEF ModuleChild, c
      <4>2. ready \in Processes /\ Body(ready, t) \in Processes
        BY <3>3, ReadyTyped, BodyTyped
      <4> HIDE DEF ready
      <4>3. By("child").again \subseteq Mark /\ "module-child" \in Tiers
        BY DEF By, Tiers
      <4>4. LastTyped'
        BY <4>1, <4>2, <4>3, RanTyped
      <4> QED BY <3>1, <3>2, <3>3, <3>6, <4>1, <4>2, <4>4, PristineTyped DEF NoChild, StateTyped
    <3> QED BY <2>3, <3>7, <3>8, <3>9, <3>10, <3>11, <3>12, <3>13, <3>14 DEF Serve
  <2> QED BY <1>2, <2>1, <2>2, <2>3 DEF Next
<1> QED BY <1>1, <1>2, PTL DEF Spec
=============================================================================
