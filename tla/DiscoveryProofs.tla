-------------------------- MODULE DiscoveryProofs --------------------------
(***************************************************************************)
(* A process of the shim runs each file's body once and the conftests      *)
(* first; a module a test is run of has every set-up above it in force, or *)
(* its tests are reported; and what the suite wrote comes before what is   *)
(* built in or plugged in.  All for any layout that is walked in order.    *)
(***************************************************************************)
EXTENDS Discovery, SequenceTheorems, WellFoundedInduction, TLAPS

(* The steps still to come, of which the later ones follow the earlier.    *)

Files(l) == ToSet(l.above) \cup ToSet(l.files)
StepsOf(l) ==
  [phase : {"above", "start"}, file : ToSet(l.above)]
    \cup [phase : {"walk"} \cup (IF l.warm THEN {"preimport"} ELSE {}), file : ToSet(l.files)]

\* What step t may be, when s comes before it.
Follows(s, t) ==
  /\ t.phase = "above" => s.phase = "above" /\ s.file.up > t.file.up
  /\ t.phase = "start" => s.phase # "walk" /\ (s.phase = "start" => s.file.up > t.file.up)
  /\ s.phase = "walk" /\ t.phase = "walk" =>
       /\ s.file.path # t.file.path
       /\ t.file.conftest => ~IsPrefix(Directory(t.file), Directory(s.file))
InOrder(steps) == \A j, k \in 1 .. Len(steps) : j < k => Follows(steps[j], steps[k])

(* The bodies that have run, and what is still to come after one.          *)

Entries == [file : {f.path : f \in Files(layout)}, asked : {f.path : f \in Files(layout)}, up : Nat,
            end : Ends, phase : {"above", "preimport", "walk"}]
OwnTest(e) == Last(e.file) # "conftest" /\ e.asked = e.file
\* Body e runs before step t.
Precedes(e, t) ==
  /\ t.phase = "above" => e.up > t.file.up
  /\ t.phase = "walk" /\ t.file.conftest =>
       /\ <<e.up, e.file>> # <<0, t.file.path>>
       /\ OwnTest(e) /\ ~layout.warm => ~IsPrefix(Directory(t.file), Front(e.file))
\* Only a conftest runs above the run root, and a test's body that succeeded is a module.
Settled(e) ==
  /\ e.up > 0 => Last(e.file) = "conftest"
  /\ e.up = 0 /\ e.end = "fine" /\ Last(e.file) # "conftest" => e.file \in loaded
\* What RunsOnceInOrder says of a body and of one that runs after it.
Allows(a, b) ==
  /\ a.end = "fine" => <<a.up, a.file>> # <<b.up, b.file>>
  /\ a.up > 0 /\ b.up > 0 => a.up >= b.up
  /\ b.up > 0 => a.up > 0
  /\ Last(b.file) = "conftest" /\ OwnTest(a) /\ ~layout.warm => ~IsPrefix(Front(b.file), Front(a.file))

DTypeOK ==
  /\ layout \in Layouts
  /\ todo \in Seq(StepsOf(layout)) /\ executed \in Seq(Entries)
DInv ==
  /\ DTypeOK
  /\ InOrder(todo)
  /\ \A i, j \in 1 .. Len(executed) : i < j => Allows(executed[i], executed[j])
  /\ \A i \in 1 .. Len(executed) : Settled(executed[i])
  /\ \A i \in 1 .. Len(executed), k \in 1 .. Len(todo) : Precedes(executed[i], todo[k])
-----------------------------------------------------------------------------
LEMMA LayoutFacts ==
  ASSUME NEW l \in Layouts
  PROVE  /\ l.warm \in BOOLEAN
         /\ l.above \in Seq(ToSet(l.above)) /\ l.files \in Seq(ToSet(l.files))
         /\ \A f \in Files(l) : f.ends \subseteq Ends /\ f.conftest = (Last(f.path) = "conftest")
         /\ \A f \in ToSet(l.above) : f.up \in Nat \ {0} /\ f.conftest
         /\ \A f \in ToSet(l.files) : f.up = 0
<1>1. /\ l.warm \in BOOLEAN
      /\ l.above \in Seq(ToSet(l.above)) /\ l.files \in Seq(ToSet(l.files))
      /\ \A f \in Files(l) : f.ends \subseteq Ends /\ f.conftest = (Last(f.path) = "conftest")
  BY WalkedLayouts DEF LayoutsAreWalked, FileFacts, Files
<1>2. \A k \in DOMAIN l.above : l.above[k].up \in Nat \ {0} /\ l.above[k].conftest
  BY WalkedLayouts DEF LayoutsAreWalked
<1>3. \A k \in DOMAIN l.files : l.files[k].up = 0
  BY WalkedLayouts DEF LayoutsAreWalked
<1>4. \A f \in ToSet(l.above) : f.up \in Nat \ {0} /\ f.conftest
  BY <1>2 DEF ToSet
<1>5. \A f \in ToSet(l.files) : f.up = 0
  BY <1>3 DEF ToSet
<1> QED BY <1>1, <1>4, <1>5

\* What a sequence has, and what two of them have.
LEMMA Elements ==
  ASSUME NEW T, NEW s \in Seq(T)
  PROVE  ToSet(s) = {s[k] : k \in 1 .. Len(s)}
BY DEF ToSet

LEMMA ConcatElements ==
  ASSUME NEW T, NEW s \in Seq(T), NEW t \in Seq(T)
  PROVE  s \o t \in Seq(T) /\ ToSet(s \o t) = ToSet(s) \cup ToSet(t)
<1>1. PICK m \in Nat, n \in Nat : m = Len(s) /\ n = Len(t)
  OBVIOUS
<1>2. PICK r : r = s \o t
  OBVIOUS
<1>3. /\ r \in Seq(T) /\ Len(r) = m + n
      /\ \A i \in 1 .. m + n : r[i] = IF i <= m THEN s[i] ELSE t[i - m]
  BY <1>1, <1>2, ConcatProperties
<1>4. /\ ToSet(r) = {r[k] : k \in 1 .. m + n} /\ ToSet(s) = {s[k] : k \in 1 .. m}
      /\ ToSet(t) = {t[k] : k \in 1 .. n}
  BY <1>1, <1>3, Elements
<1>5. \A i \in 1 .. m + n : (i <= m => i \in 1 .. m) /\ (~(i <= m) => i - m \in 1 .. n)
  OBVIOUS
<1>6. \A i \in 1 .. m : i \in 1 .. m + n /\ i <= m
  OBVIOUS
<1>7. \A i \in 1 .. n : m + i \in 1 .. m + n /\ ~(m + i <= m) /\ (m + i) - m = i
  OBVIOUS
<1>8. ToSet(r) \subseteq ToSet(s) \cup ToSet(t)
  BY <1>3, <1>4, <1>5
<1>9. ToSet(s) \subseteq ToSet(r)
  BY <1>3, <1>4, <1>6
<1>10. ToSet(t) \subseteq ToSet(r)
  <2> SUFFICES ASSUME NEW i \in 1 .. n PROVE t[i] \in ToSet(r)
    BY <1>4
  <2>1. r[m + i] = t[i]
    BY <1>3, <1>7
  <2> QED BY <2>1, <1>4, <1>7
<1> QED BY <1>2, <1>3, <1>8, <1>9, <1>10

\* One list of steps in order after another, when each of its steps may be.
LEMMA ConcatInOrder ==
  ASSUME NEW T, NEW s \in Seq(T), NEW t \in Seq(T), InOrder(s), InOrder(t),
         \A j \in 1 .. Len(s), k \in 1 .. Len(t) : Follows(s[j], t[k])
  PROVE  InOrder(s \o t)
<1>1. PICK m \in Nat, n \in Nat : m = Len(s) /\ n = Len(t)
  OBVIOUS
<1>2. /\ Len(s \o t) = m + n
      /\ \A i \in 1 .. m + n : (s \o t)[i] = IF i <= m THEN s[i] ELSE t[i - m]
  BY <1>1, ConcatProperties
<1> SUFFICES ASSUME NEW j \in 1 .. m + n, NEW k \in 1 .. m + n, j < k
             PROVE  Follows((s \o t)[j], (s \o t)[k])
  BY <1>2 DEF InOrder
<1>3. CASE k <= m
  <2>1. j \in 1 .. m /\ k \in 1 .. m
    BY <1>3
  <2> QED BY <2>1, <1>1, <1>2 DEF InOrder
<1>4. CASE j <= m /\ ~(k <= m)
  <2>1. j \in 1 .. m /\ k - m \in 1 .. n
    BY <1>4
  <2> QED BY <2>1, <1>1, <1>2, <1>4
<1>5. CASE ~(j <= m) /\ ~(k <= m)
  <2>1. j - m \in 1 .. n /\ k - m \in 1 .. n /\ j - m < k - m
    BY <1>5
  <2> QED BY <2>1, <1>1, <1>2, <1>5 DEF InOrder
<1> QED BY <1>3, <1>4, <1>5

\* The steps of one phase.
LEMMA EachStep ==
  ASSUME NEW files, files \in Seq(ToSet(files)), NEW phase, NEW steps, steps = Steps(phase, files)
  PROVE  /\ DOMAIN steps = 1 .. Len(files) /\ Len(steps) = Len(files)
         /\ \A k \in 1 .. Len(steps) : steps[k].phase = phase /\ steps[k].file = files[k]
<1>1. Len(files) \in Nat /\ DOMAIN files = 1 .. Len(files)
  BY LenProperties
<1>2. PICK n \in Nat : n = Len(files)
  BY <1>1
<1>3. steps = [k \in 1 .. n |-> Step(phase, files[k])]
  BY <1>1, <1>2 DEF Steps
<1>4. DOMAIN steps = 1 .. n /\ \A k \in 1 .. n : steps[k] = Step(phase, files[k])
  BY <1>3
<1>5. Len(steps) = n
  <2> DEFINE R == {steps[k] : k \in 1 .. n}
  <2>1. steps \in [1 .. n -> R]
    BY <1>3
  <2> HIDE DEF R
  <2> QED BY <2>1
<1>6. \A f : Step(phase, f).phase = phase /\ Step(phase, f).file = f
  BY DEF Step
<1> QED BY <1>2, <1>4, <1>5, <1>6

LEMMA StepsTyped ==
  ASSUME NEW files, files \in Seq(ToSet(files)), NEW phase
  PROVE  Steps(phase, files) \in Seq([phase : {phase}, file : ToSet(files)])
<1> DEFINE R == [phase : {phase}, file : ToSet(files)]
<1>1. PICK n \in Nat : n = Len(files) /\ DOMAIN files = 1 .. n
  BY LenProperties
<1>2. Steps(phase, files) = [k \in 1 .. n |-> Step(phase, files[k])]
  BY <1>1 DEF Steps
<1>3. \A k \in 1 .. n : Step(phase, files[k]) \in R
  <2>1. \A k \in 1 .. n : files[k] \in ToSet(files)
    BY <1>1 DEF ToSet
  <2> QED BY <2>1 DEF Step
<1> HIDE DEF R
<1>4. Steps(phase, files) \in [1 .. n -> R]
  BY <1>2, <1>3
<1>5. Steps(phase, files) \in Seq(R)
  BY <1>4
<1> QED BY <1>5 DEF R

LEMMA PhasesInOrder ==
  ASSUME NEW l \in Layouts
  PROVE  Phases(l) \in Seq(StepsOf(l)) /\ InOrder(Phases(l))
<1> DEFINE T == StepsOf(l)
           U == {t \in T : t.phase # "walk"}
           A == Steps("above", l.above)
           P == IF l.warm THEN Steps("preimport", l.files) ELSE <<>>
           S == Steps("start", l.above)
           W == Steps("walk", l.files)
<1>0. l.above \in Seq(ToSet(l.above)) /\ l.files \in Seq(ToSet(l.files))
  BY LayoutFacts
<1>1. /\ A \in Seq(U) /\ Len(A) = Len(l.above)
      /\ \A k \in 1 .. Len(A) : A[k].phase = "above" /\ A[k].file = l.above[k]
  <2> DEFINE R == [phase : {"above"}, file : ToSet(l.above)]
  <2>1. /\ A \in Seq(R) /\ Len(A) = Len(l.above)
        /\ \A k \in 1 .. Len(A) : A[k].phase = "above" /\ A[k].file = l.above[k]
    <3>1. A \in Seq(R)
      BY <1>0, StepsTyped
    <3>2. A = Steps("above", l.above)
      OBVIOUS
    <3> HIDE DEF A, R
    <3>3. Len(A) = Len(l.above) /\ \A k \in 1 .. Len(A) : A[k].phase = "above" /\ A[k].file = l.above[k]
      BY <3>2, <1>0, EachStep
    <3> QED BY <3>1, <3>3
  <2>2. R \subseteq U
    BY DEF StepsOf
  <2>3. A \in Seq(U)
    <3> HIDE DEF R, U, A
    <3> QED BY <2>1, <2>2, SeqMonotonic
  <2> QED BY <2>1, <2>3
<1>2. /\ W \in Seq(T) /\ Len(W) = Len(l.files)
      /\ \A k \in 1 .. Len(W) : W[k].phase = "walk" /\ W[k].file = l.files[k]
  <2> DEFINE R == [phase : {"walk"}, file : ToSet(l.files)]
  <2>1. /\ W \in Seq(R) /\ Len(W) = Len(l.files)
        /\ \A k \in 1 .. Len(W) : W[k].phase = "walk" /\ W[k].file = l.files[k]
    <3>1. W \in Seq(R)
      BY <1>0, StepsTyped
    <3>2. W = Steps("walk", l.files)
      OBVIOUS
    <3> HIDE DEF W, R
    <3>3. Len(W) = Len(l.files) /\ \A k \in 1 .. Len(W) : W[k].phase = "walk" /\ W[k].file = l.files[k]
      BY <3>2, <1>0, EachStep
    <3> QED BY <3>1, <3>3
  <2>2. R \subseteq T
    BY DEF StepsOf
  <2>3. W \in Seq(T)
    <3> HIDE DEF R, T, W
    <3> QED BY <2>1, <2>2, SeqMonotonic
  <2> QED BY <2>1, <2>3
<1>3. P \in Seq(U) /\ \A k \in 1 .. Len(P) : P[k].phase = "preimport"
  <2>1. CASE l.warm
    <3> DEFINE R == [phase : {"preimport"}, file : ToSet(l.files)]
    <3>1. P \in Seq(R) /\ \A k \in 1 .. Len(P) : P[k].phase = "preimport"
      <4>1. P = Steps("preimport", l.files)
        BY <2>1
      <4> HIDE DEF P
      <4>2. P \in Seq(R)
        BY <4>1, <1>0, StepsTyped
      <4> HIDE DEF R
      <4>3. \A k \in 1 .. Len(P) : P[k].phase = "preimport"
        BY <4>1, <1>0, EachStep
      <4> QED BY <4>2, <4>3
    <3>2. R \subseteq U
      BY <2>1 DEF StepsOf
    <3>3. P \in Seq(U)
      <4> HIDE DEF R, U, P
      <4> QED BY <3>1, <3>2, SeqMonotonic
    <3> QED BY <3>1, <3>3
  <2>2. CASE ~l.warm
    BY <2>2
  <2> QED BY <2>1, <2>2
<1>4. /\ S \in Seq(U) /\ Len(S) = Len(l.above)
      /\ \A k \in 1 .. Len(S) : S[k].phase = "start" /\ S[k].file = l.above[k]
  <2> DEFINE R == [phase : {"start"}, file : ToSet(l.above)]
  <2>1. R \subseteq U
    BY DEF StepsOf
  <2>2. S \in Seq(R)
    BY <1>0, StepsTyped
  <2>3. S = Steps("start", l.above)
    OBVIOUS
  <2> HIDE DEF R, U, S
  <2>4. Len(S) = Len(l.above) /\ \A k \in 1 .. Len(S) : S[k].phase = "start" /\ S[k].file = l.above[k]
    BY <2>3, <1>0, EachStep
  <2> QED BY <2>1, <2>2, <2>4, SeqMonotonic
<1>5. U \subseteq T /\ \A t \in U : t.phase # "walk"
  OBVIOUS
<1> HIDE DEF T, U, A, P, S, W
<1>6. InOrder(A)
  <2>1. \A j, k \in DOMAIN l.above : j < k => l.above[j].up > l.above[k].up
    BY WalkedLayouts DEF LayoutsAreWalked
  <2>2. DOMAIN l.above = 1 .. Len(A)
    BY <1>1, LayoutFacts
  <2>3. \A j, k \in 1 .. Len(A) : j < k => A[j].file.up > A[k].file.up
    BY <2>1, <2>2, <1>1
  <2>4. \A k \in 1 .. Len(A) : A[k].phase = "above" /\ A[k].phase # "walk"
    BY <1>1
  <2> QED BY <2>3, <2>4 DEF InOrder, Follows
<1>7. InOrder(W)
  <2>1. \A j, k \in DOMAIN l.files :
          j < k => /\ l.files[j].path # l.files[k].path
                   /\ l.files[k].conftest => ~IsPrefix(Directory(l.files[k]), Directory(l.files[j]))
    BY WalkedLayouts DEF LayoutsAreWalked
  <2>2. DOMAIN l.files = 1 .. Len(W)
    BY <1>2, LayoutFacts
  <2>3. \A k \in 1 .. Len(W) : W[k].phase = "walk" /\ W[k].phase # "above" /\ W[k].file = l.files[k]
    BY <1>2
  <2>4. ASSUME NEW j \in 1 .. Len(W), NEW k \in 1 .. Len(W), j < k
        PROVE  /\ W[j].file.path # W[k].file.path
               /\ W[k].file.conftest => ~IsPrefix(Directory(W[k].file), Directory(W[j].file))
    BY <2>1, <2>2, <2>3, <2>4
  <2> QED BY <2>3, <2>4 DEF InOrder, Follows
<1>8. InOrder(P) /\ InOrder(S)
  <2>1. \A j, k \in DOMAIN l.above : j < k => l.above[j].up > l.above[k].up
    BY WalkedLayouts DEF LayoutsAreWalked
  <2>2. DOMAIN l.above = 1 .. Len(S)
    BY <1>4, LayoutFacts
  <2>3. \A j, k \in 1 .. Len(S) : j < k => S[j].file.up > S[k].file.up
    BY <2>1, <2>2, <1>4
  <2>4. InOrder(S)
    BY <2>3, <1>4 DEF InOrder, Follows
  <2> QED BY <2>4, <1>3 DEF InOrder, Follows
<1>9. InOrder(A \o P)
  <2>1. \A j \in 1 .. Len(A), k \in 1 .. Len(P) : Follows(A[j], P[k])
    BY <1>3 DEF Follows
  <2> QED BY <2>1, <1>1, <1>3, <1>6, <1>8, ConcatInOrder
<1>10. A \o P \in Seq(U)
  BY <1>1, <1>3, ConcatProperties
<1>11. InOrder((A \o P) \o S)
  <2>1. \A j \in 1 .. Len(A \o P), k \in 1 .. Len(S) : Follows((A \o P)[j], S[k])
    <3>1. \A t \in ToSet(A) \cup ToSet(P) : t.phase \in {"above", "preimport"}
      BY <1>1, <1>3, Elements
    <3>2. ToSet(A \o P) = ToSet(A) \cup ToSet(P) /\ A \o P \in Seq(U)
      BY <1>1, <1>3, ConcatElements
    <3>3. PICK B : B = A \o P
      OBVIOUS
    <3>4. \A i \in 1 .. Len(B) : B[i] \in ToSet(B)
      BY <3>2, <3>3, Elements
    <3>5. \A i \in 1 .. Len(A \o P) : (A \o P)[i].phase \in {"above", "preimport"}
      BY <3>1, <3>2, <3>3, <3>4
    <3> QED BY <1>4, <3>5 DEF Follows
  <2> QED BY <2>1, <1>4, <1>8, <1>9, <1>10, ConcatInOrder
<1>12. (A \o P) \o S \in Seq(U)
  BY <1>4, <1>10, ConcatProperties
<1>13. PICK B : B = (A \o P) \o S
  OBVIOUS
<1>14. B \in Seq(U) /\ B \in Seq(T) /\ InOrder(B)
  BY <1>5, <1>11, <1>12, <1>13, SeqMonotonic
<1>15. InOrder(B \o W)
  <2>1. ASSUME NEW j \in 1 .. Len(B), NEW k \in 1 .. Len(W)
        PROVE  Follows(B[j], W[k])
    <3>1. B[j] \in U
      BY <1>14
    <3> QED BY <3>1, <1>2, <1>5 DEF Follows
  <2> QED BY <2>1, <1>2, <1>7, <1>14, ConcatInOrder
<1>16. B \o W \in Seq(T)
  BY <1>2, <1>14, ConcatProperties
<1>17. Phases(l) = B \o W
  BY <1>13 DEF Phases, A, P, S, W
<1> QED BY <1>15, <1>16, <1>17 DEF T
-----------------------------------------------------------------------------
LEMMA DInvInit == DiscoveryInit => DInv
<1> SUFFICES ASSUME DiscoveryInit PROVE DInv
  OBVIOUS
<1>1. layout \in Layouts /\ todo = Phases(layout) /\ executed = <<>>
  BY DEF DiscoveryInit
<1>2. todo \in Seq(StepsOf(layout)) /\ InOrder(todo)
  BY <1>1, PhasesInOrder
<1>3. executed \in Seq(Entries) /\ Len(executed) = 0
  BY <1>1, EmptySeq
<1> QED BY <1>1, <1>2, <1>3 DEF DInv, DTypeOK

LEMMA InvariantRunsInOrder == DInv => RunsOnceInOrder
<1> SUFFICES ASSUME DInv PROVE RunsOnceInOrder
  OBVIOUS
<1>1. DOMAIN executed = 1 .. Len(executed)
  BY DEF DInv, DTypeOK
<1>2. \A i, j \in DOMAIN executed : i < j => Allows(executed[i], executed[j])
  BY <1>1 DEF DInv
<1> QED BY <1>2 DEF RunsOnceInOrder, Allows, OwnTest

\* The steps left after the first.
LEMMA TailFacts ==
  ASSUME DInv, todo # <<>>, todo' = Tail(todo), layout' = layout
  PROVE  /\ layout' \in Layouts /\ todo' \in Seq(StepsOf(layout')) /\ InOrder(todo')
         /\ \A i \in 1 .. Len(executed), k \in 1 .. Len(todo') : Precedes(executed[i], todo'[k])
         /\ \A k \in 1 .. Len(todo') : todo'[k] \in StepsOf(layout) /\ Follows(todo[1], todo'[k])
<1>1. layout \in Layouts /\ todo \in Seq(StepsOf(layout)) /\ InOrder(todo)
  BY DEF DInv, DTypeOK
<1>2. PICK n \in Nat : n = Len(todo) - 1 /\ Len(todo) = n + 1
  <2>1. Len(todo) \in Nat /\ Len(todo) # 0
    BY <1>1
  <2> QED BY <2>1
<1>3. todo' \in Seq(StepsOf(layout)) /\ Len(todo') = n /\ \A k \in 1 .. n : todo'[k] = todo[k + 1]
  BY <1>1, <1>2, HeadTailProperties
<1>4. \A k \in 1 .. n : k + 1 \in 1 .. Len(todo) /\ 1 \in 1 .. Len(todo) /\ 1 < k + 1
  BY <1>2
<1>5. InOrder(todo')
  <2> SUFFICES ASSUME NEW j \in 1 .. n, NEW k \in 1 .. n, j < k
               PROVE  Follows(todo'[j], todo'[k])
    BY <1>3 DEF InOrder
  <2>1. j + 1 < k + 1
    OBVIOUS
  <2> QED BY <2>1, <1>1, <1>3, <1>4 DEF InOrder
<1>6. \A k \in 1 .. n : Follows(todo[1], todo'[k])
  BY <1>1, <1>3, <1>4 DEF InOrder
<1>7. \A i \in 1 .. Len(executed), k \in 1 .. n : Precedes(executed[i], todo'[k])
  BY <1>3, <1>4 DEF DInv
<1>8. \A k \in 1 .. n : todo'[k] \in StepsOf(layout)
  BY <1>3
<1> QED BY <1>1, <1>3, <1>5, <1>6, <1>7, <1>8

\* A step that runs nobody's body.
LEMMA NoBody ==
  ASSUME DInv, todo # <<>>, todo' = Tail(todo), UNCHANGED <<layout, executed, loaded>>
  PROVE  DInv'
<1>1. /\ layout' \in Layouts /\ todo' \in Seq(StepsOf(layout')) /\ InOrder(todo')
      /\ \A i \in 1 .. Len(executed), k \in 1 .. Len(todo') : Precedes(executed[i], todo'[k])
  BY TailFacts
<1>2. DTypeOK'
  BY <1>1 DEF DInv, DTypeOK, Entries
<1>3. /\ \A a, b : Allows(a, b) <=> Allows(a, b)'
      /\ \A a : Settled(a) <=> Settled(a)'
      /\ \A a, t : Precedes(a, t) <=> Precedes(a, t)'
  BY DEF Allows, Settled, Precedes
<1> QED BY <1>1, <1>2, <1>3 DEF DInv

\* A step that runs a body, in its place.
LEMMA OneBody ==
  ASSUME DInv, todo # <<>>, todo' = Tail(todo), UNCHANGED layout, todo[1].phase # "start",
         NEW file \in Files(layout), NEW end \in file.ends, file.up \in Nat,
         executed' = Ran(file, end), loaded \subseteq loaded',
         NEW e, e = [file |-> file.path, asked |-> todo[1].file.path, up |-> file.up, end |-> end,
                     phase |-> todo[1].phase],
         \A i \in 1 .. Len(executed) : Allows(executed[i], e),
         \A k \in 1 .. Len(todo') : Precedes(e, todo'[k]),
         Settled(e)'
  PROVE  DInv'
<1>1. /\ layout' \in Layouts /\ todo' \in Seq(StepsOf(layout')) /\ InOrder(todo')
      /\ \A i \in 1 .. Len(executed), k \in 1 .. Len(todo') : Precedes(executed[i], todo'[k])
  BY TailFacts
<1>2. layout \in Layouts /\ executed \in Seq(Entries) /\ todo \in Seq(StepsOf(layout))
  BY DEF DInv, DTypeOK
<1>3. e \in Entries
  <2>1. todo[1] \in StepsOf(layout)
    BY <1>2
  <2>2. todo[1].file \in Files(layout) /\ todo[1].phase \in {"above", "preimport", "walk"}
    BY <2>1 DEF StepsOf, Step, Files
  <2>3. end \in Ends
    BY <1>2, LayoutFacts
  <2> QED BY <2>2, <2>3 DEF Entries
<1>4. PICK n \in Nat : n = Len(executed)
  BY <1>2
<1>5. /\ executed' \in Seq(Entries) /\ Len(executed') = n + 1
      /\ \A k \in 1 .. n : executed'[k] = executed[k]
      /\ executed'[n + 1] = e
  <2>1. executed' = Append(executed, e)
    BY DEF Ran
  <2> QED BY <2>1, <1>2, <1>3, <1>4, AppendProperties
<1>6. DTypeOK'
  BY <1>1, <1>5 DEF DTypeOK, Entries
<1>7. /\ \A a, b : Allows(a, b) => Allows(a, b)'
      /\ \A a : Settled(a) => Settled(a)'
      /\ \A a, t : Precedes(a, t) => Precedes(a, t)'
  BY DEF Allows, Settled, Precedes
<1>8. \A k \in 1 .. n + 1 : k \in 1 .. n \/ k = n + 1
  OBVIOUS
<1>9. (\A i, j \in 1 .. Len(executed) : i < j => Allows(executed[i], executed[j]))'
  <2>1. \A i, j \in 1 .. n + 1 : i < j => i \in 1 .. n
    OBVIOUS
  <2>2. ASSUME NEW i \in 1 .. n, NEW j \in 1 .. n + 1, i < j
        PROVE  Allows(executed'[i], executed'[j])
    BY <2>2, <1>4, <1>5, <1>8 DEF DInv
  <2>3. \A i, j \in 1 .. n + 1 : i < j => Allows(executed'[i], executed'[j])
    BY <2>1, <2>2
  <2> QED BY <2>3, <1>5, <1>7
<1>10. (\A i \in 1 .. Len(executed) : Settled(executed[i]))'
  <2>1. \A i \in 1 .. n : Settled(executed'[i])
    BY <1>4, <1>5 DEF DInv
  <2> QED BY <2>1, <1>5, <1>7, <1>8
<1>11. (\A i \in 1 .. Len(executed), k \in 1 .. Len(todo) : Precedes(executed[i], todo[k]))'
  BY <1>1, <1>4, <1>5, <1>7, <1>8
<1> QED BY <1>1, <1>6, <1>9, <1>10, <1>11 DEF DInv

(* The steps that run one.                                                 *)

LEMMA AboveKeeps == ASSUME DInv, load_ancestor_conftest PROVE DInv'
<1>1. todo # <<>> /\ todo[1].phase = "above" /\ todo' = Tail(todo) /\ UNCHANGED <<layout, loaded>>
  BY DEF load_ancestor_conftest, Head_
<1>2. layout \in Layouts /\ todo[1] \in StepsOf(layout) /\ 1 \in 1 .. Len(todo)
  BY <1>1 DEF DInv, DTypeOK
<1>3. PICK file : file = todo[1].file
  OBVIOUS
<1>4. /\ file \in Files(layout) /\ file.up \in Nat \ {0} /\ file.conftest
      /\ Last(file.path) = "conftest" /\ file.ends \subseteq Ends
  <2>1. file \in ToSet(layout.above)
    BY <1>1, <1>2, <1>3 DEF StepsOf, Step
  <2> QED BY <2>1, <1>2, LayoutFacts DEF Files
<1>5. PICK end \in file.ends : executed' = Ran(file, end)
  BY <1>3 DEF load_ancestor_conftest
<1>6. PICK e : e = [file |-> file.path, asked |-> todo[1].file.path, up |-> file.up, end |-> end,
                    phase |-> todo[1].phase]
  OBVIOUS
<1>7. e.file = file.path /\ e.up = file.up
  BY <1>6
<1>8. ASSUME NEW i \in 1 .. Len(executed)
      PROVE  Allows(executed[i], e)
  <2>1. Precedes(executed[i], todo[1]) /\ Settled(executed[i]) /\ executed[i].up \in Nat
    <3>1. Precedes(executed[i], todo[1]) /\ Settled(executed[i])
      BY <1>2 DEF DInv
    <3>2. executed[i] \in Entries
      BY DEF DInv, DTypeOK
    <3> QED BY <3>1, <3>2 DEF Entries
  <2>2. executed[i].up > file.up
    BY <2>1, <1>1, <1>3 DEF Precedes
  <2>3. Last(executed[i].file) = "conftest"
    BY <2>1, <2>2, <1>4 DEF Settled
  <2>4. executed[i].up # file.up /\ executed[i].up >= file.up /\ executed[i].up > 0
    BY <2>1, <2>2, <1>4
  <2> QED BY <2>3, <2>4, <1>7 DEF Allows, OwnTest
<1>9. ASSUME NEW k \in 1 .. Len(todo')
      PROVE  Precedes(e, todo'[k])
  <2>1. Follows(todo[1], todo'[k])
    BY <1>1, TailFacts
  <2>2. todo'[k].phase = "above" => e.up > todo'[k].file.up
    BY <2>1, <1>3, <1>7 DEF Follows
  <2>3. e.up # 0 /\ ~OwnTest(e)
    BY <1>4, <1>7 DEF OwnTest
  <2> QED BY <2>2, <2>3 DEF Precedes
<1>10. Settled(e)'
  BY <1>4, <1>7 DEF Settled
<1> QED BY <1>1, <1>3, <1>4, <1>5, <1>6, <1>8, <1>9, <1>10, OneBody

LEMMA ConftestKeeps == ASSUME DInv, WalkConftest PROVE DInv'
<1>1. /\ todo # <<>> /\ todo[1].phase = "walk" /\ todo[1].file.conftest
      /\ todo' = Tail(todo) /\ UNCHANGED <<layout, loaded>>
  BY DEF WalkConftest, Head_
<1>2. layout \in Layouts /\ todo[1] \in StepsOf(layout) /\ 1 \in 1 .. Len(todo)
  BY <1>1 DEF DInv, DTypeOK
<1>3. PICK file : file = todo[1].file
  OBVIOUS
<1>4. file \in Files(layout) /\ file.up = 0 /\ Last(file.path) = "conftest"
  <2>1. file \in ToSet(layout.files)
    BY <1>1, <1>2, <1>3 DEF StepsOf, Step
  <2> QED BY <2>1, <1>1, <1>2, <1>3, LayoutFacts DEF Files
<1>5. CASE UNCHANGED executed
  BY <1>1, <1>5, NoBody
<1>6. CASE \E end \in file.ends : executed' = Ran(file, end)
  <2>1. PICK end \in file.ends : executed' = Ran(file, end)
    BY <1>6
  <2>2. PICK e : e = [file |-> file.path, asked |-> todo[1].file.path, up |-> file.up, end |-> end,
                      phase |-> todo[1].phase]
    OBVIOUS
  <2>3. e.file = file.path /\ e.up = 0
    BY <2>2, <1>4
  <2>4. ASSUME NEW i \in 1 .. Len(executed)
        PROVE  Allows(executed[i], e)
    <3>1. Precedes(executed[i], todo[1])
      BY <1>2 DEF DInv
    <3>2. /\ <<executed[i].up, executed[i].file>> # <<0, file.path>>
          /\ OwnTest(executed[i]) /\ ~layout.warm => ~IsPrefix(Front(file.path), Front(executed[i].file))
      BY <3>1, <1>1, <1>3 DEF Precedes, Directory
    <3>3. ~(e.up > 0)
      BY <2>3
    <3> QED BY <3>2, <3>3, <2>3 DEF Allows
  <2>5. ASSUME NEW k \in 1 .. Len(todo')
        PROVE  Precedes(e, todo'[k])
    <3>1. Follows(todo[1], todo'[k])
      BY <1>1, TailFacts
    <3>2. todo'[k].phase # "above" /\ (todo'[k].phase = "walk" => file.path # todo'[k].file.path)
      BY <3>1, <1>1, <1>3 DEF Follows
    <3>3. ~OwnTest(e)
      BY <2>3, <1>4 DEF OwnTest
    <3> QED BY <3>2, <3>3, <2>3 DEF Precedes
  <2>6. Settled(e)'
    BY <2>3, <1>4 DEF Settled
  <2> QED BY <1>1, <1>3, <1>4, <2>1, <2>2, <2>4, <2>5, <2>6, OneBody
<1> QED BY <1>3, <1>5, <1>6 DEF WalkConftest

\* What importing a module does to what has run.
ImportedBody ==
  \/ UNCHANGED <<loaded, executed>>
  \/ \E path : \E end \in FileAt(path).ends :
       /\ path \notin loaded /\ FilesAt(path) # {}
       /\ executed' = Ran(FileAt(path), end)
       /\ loaded' = IF end = "fine" THEN loaded \cup {path} ELSE loaded

\* The step of a test module, before the walk or in it.
LEMMA ModuleKeeps ==
  ASSUME DInv, todo # <<>>, todo[1].phase \in {"preimport", "walk"}, ~todo[1].file.conftest,
         todo' = Tail(todo), UNCHANGED layout, ImportedBody
  PROVE  DInv'
<1>1. CASE UNCHANGED <<loaded, executed>>
  BY <1>1, NoBody
<1>2. ASSUME NEW path, NEW end \in FileAt(path).ends, path \notin loaded, FilesAt(path) # {},
             executed' = Ran(FileAt(path), end),
             loaded' = IF end = "fine" THEN loaded \cup {path} ELSE loaded
      PROVE  DInv'
  <2>1. layout \in Layouts /\ todo[1] \in StepsOf(layout) /\ 1 \in 1 .. Len(todo)
    BY DEF DInv, DTypeOK
  <2>2. PICK file : file = FileAt(path)
    OBVIOUS
  <2>3. file \in Files(layout) /\ file.up = 0 /\ file.path = path /\ Last(path) # "conftest"
    <3>1. PICK k \in DOMAIN layout.files : file = layout.files[k] /\ ~file.conftest /\ file.path = path
      <4>1. (CHOOSE k \in FilesAt(path) : TRUE) \in FilesAt(path)
        BY <1>2
      <4> QED BY <4>1, <2>2 DEF FileAt, FilesAt, is_test
    <3>2. file \in ToSet(layout.files)
      BY <3>1 DEF ToSet
    <3> QED BY <3>1, <3>2, <2>1, LayoutFacts DEF Files
  <2>4. PICK e : e = [file |-> file.path, asked |-> todo[1].file.path, up |-> file.up, end |-> end,
                      phase |-> todo[1].phase]
    OBVIOUS
  <2>5. e.file = path /\ e.up = 0 /\ e.end = end /\ e.asked = todo[1].file.path
    BY <2>3, <2>4
  <2>6. ASSUME NEW i \in 1 .. Len(executed)
        PROVE  Allows(executed[i], e)
    <3>1. Settled(executed[i])
      BY DEF DInv
    <3>2. executed[i].end = "fine" => <<executed[i].up, executed[i].file>> # <<0, path>>
      BY <3>1, <1>2, <2>3 DEF Settled
    <3>3. ~(e.up > 0) /\ Last(e.file) # "conftest"
      BY <2>3, <2>5
    <3> QED BY <3>2, <3>3, <2>5 DEF Allows
  <2>7. ASSUME NEW k \in 1 .. Len(todo')
        PROVE  Precedes(e, todo'[k])
    <3>1. Follows(todo[1], todo'[k]) /\ todo'[k] \in StepsOf(layout)
      BY TailFacts
    <3>2. todo'[k].phase # "above"
      BY <3>1 DEF Follows
    <3>3. ASSUME todo'[k].phase = "walk", todo'[k].file.conftest
          PROVE  /\ path # todo'[k].file.path
                 /\ OwnTest(e) /\ ~layout.warm => ~IsPrefix(Directory(todo'[k].file), Front(e.file))
      <4>1. todo'[k].file \in Files(layout)
        BY <3>1, <3>3 DEF StepsOf, Step, Files
      <4>2. Last(todo'[k].file.path) = "conftest"
        BY <4>1, <3>3, <2>1, LayoutFacts
      <4>3. ASSUME OwnTest(e), ~layout.warm
            PROVE  ~IsPrefix(Directory(todo'[k].file), Front(e.file))
        <5>1. todo[1].phase = "walk"
          BY <4>3, <2>1 DEF StepsOf, Step
        <5>2. Front(e.file) = Directory(todo[1].file)
          BY <4>3, <2>5 DEF OwnTest, Directory
        <5> QED BY <5>1, <5>2, <3>1, <3>3 DEF Follows
      <4> QED BY <4>2, <4>3, <2>3
    <3> QED BY <3>2, <3>3, <2>5 DEF Precedes
  <2>8. Settled(e)'
    BY <1>2, <2>3, <2>5 DEF Settled
  <2> QED BY <1>2, <2>2, <2>3, <2>4, <2>6, <2>7, <2>8, OneBody
<1> QED BY <1>1, <1>2 DEF ImportedBody

LEMMA PreimportKeeps == ASSUME DInv, preimport PROVE DInv'
<1>1. /\ todo # <<>> /\ todo[1].phase = "preimport" /\ todo' = Tail(todo) /\ UNCHANGED layout
  BY DEF preimport, Head_
<1>2. CASE UNCHANGED <<loaded, executed>>
  BY <1>1, <1>2, NoBody
<1>3. CASE ~todo[1].file.conftest /\ ImportModule(todo[1].file.path, LAMBDA fine, as : TRUE)
  <2>1. ImportedBody
    BY <1>3 DEF ImportModule, ImportedBody
  <2> QED BY <2>1, <1>1, <1>3, ModuleKeeps
<1> QED BY <1>2, <1>3 DEF preimport

LEMMA WalkKeeps == ASSUME DInv, WalkModule PROVE DInv'
<1>1. /\ todo # <<>> /\ todo[1].phase = "walk" /\ ~todo[1].file.conftest
      /\ todo' = Tail(todo) /\ UNCHANGED layout
  BY DEF WalkModule, Head_, is_test
<1>2. ImportedBody
  BY DEF WalkModule, ImportModule, ImportedBody
<1> QED BY <1>1, <1>2, ModuleKeeps

LEMMA DInvStep == DInv /\ [DiscoveryNext]_discoveryVars => DInv'
<1> SUFFICES ASSUME DInv, [DiscoveryNext]_discoveryVars PROVE DInv'
  OBVIOUS
<1>1. CASE load_ancestor_conftest
  BY <1>1, AboveKeeps
<1>2. CASE preimport
  BY <1>2, PreimportKeeps
<1>3. CASE StartWalk
  <2>1. todo # <<>> /\ todo' = Tail(todo) /\ UNCHANGED <<layout, executed, loaded>>
    BY <1>3 DEF StartWalk, Head_
  <2> QED BY <2>1, NoBody
<1>4. CASE WalkConftest
  BY <1>4, ConftestKeeps
<1>5. CASE WalkModule
  BY <1>5, WalkKeeps
<1>6. CASE FinishDiscovery \/ UNCHANGED discoveryVars
  <2>1. UNCHANGED <<layout, todo, loaded, executed>>
    BY <1>6 DEF FinishDiscovery, discoveryVars
  <2> QED BY <2>1 DEF DInv, DTypeOK, Entries, Allows, Settled, Precedes, InOrder
<1> QED BY <1>1, <1>2, <1>3, <1>4, <1>5, <1>6 DEF DiscoveryNext

\* A process imports what its layout has, and records each body it runs.
THEOREM DiscoveryTypes == DiscoverySpec => []DTypeOK
<1>1. DInv => DTypeOK
  BY DEF DInv
<1> QED BY <1>1, DInvInit, DInvStep, PTL DEF DiscoverySpec

\* In every layout a body that ran to its end is not run again, the conftests above the
\* run root run first, the highest before the others, and every other conftest before the
\* test modules it governs, in a process that does not preimport them.
THEOREM Ordering == DiscoverySpec => []RunsOnceInOrder
BY DInvInit, DInvStep, InvariantRunsInOrder, PTL DEF DiscoverySpec
-----------------------------------------------------------------------------
(* Paths.                                                                  *)

\* The first n elements of a sequence.
LEMMA TakeFacts ==
  ASSUME NEW T, NEW u \in Seq(T), NEW n \in Nat, n <= Len(u)
  PROVE  /\ SubSeq(u, 1, n) \in Seq(T) /\ Len(SubSeq(u, 1, n)) = n
         /\ \A k \in 1 .. n : SubSeq(u, 1, n)[k] = u[k]
<1>1. \A k \in 1 .. n : u[k] \in T
  <2>1. Len(u) \in Nat
    BY LenProperties
  <2>2. \A k \in 1 .. n : k \in 1 .. Len(u)
    BY <2>1
  <2> QED BY <2>2, ElementOfSeq
<1>2. /\ SubSeq(u, 1, n) \in Seq(T)
      /\ Len(SubSeq(u, 1, n)) = IF 1 <= n THEN n - 1 + 1 ELSE 0
      /\ \A k \in 1 .. n - 1 + 1 : SubSeq(u, 1, n)[k] = u[1 + k - 1]
  BY <1>1, SubSeqProperties
<1>3. n - 1 + 1 = n /\ (~(1 <= n) => n = 0) /\ \A k \in 1 .. n : 1 + k - 1 = k
  OBVIOUS
<1> QED BY <1>2, <1>3

LEMMA PrefixMeans ==
  ASSUME NEW s \in NameList, NEW t \in NameList
  PROVE  IsPrefix(s, t) <=> Len(s) <= Len(t) /\ \A k \in 1 .. Len(s) : s[k] = t[k]
<1> DEFINE T == STRING
<1>1. PICK n : n = Len(s)
  OBVIOUS
<1>2. n \in Nat /\ Len(t) \in Nat /\ s \in Seq(T) /\ t \in Seq(T)
  BY <1>1 DEF NameList
<1> HIDE DEF T
<1>3. ASSUME NEW u \in Seq(T), n <= Len(u)
      PROVE  /\ SubSeq(u, 1, n) \in Seq(T) /\ Len(SubSeq(u, 1, n)) = n
             /\ \A k \in 1 .. n : SubSeq(u, 1, n)[k] = u[k]
  BY <1>2, <1>3, TakeFacts
<1>4. CASE n <= Len(t)
  <2>1. n <= Len(s)
    BY <1>1, <1>2
  <2>2. /\ SubSeq(s, 1, n) \in Seq(T) /\ Len(SubSeq(s, 1, n)) = n
        /\ \A k \in 1 .. n : SubSeq(s, 1, n)[k] = s[k]
    BY <1>2, <1>3, <2>1
  <2>3. /\ SubSeq(t, 1, n) \in Seq(T) /\ Len(SubSeq(t, 1, n)) = n
        /\ \A k \in 1 .. n : SubSeq(t, 1, n)[k] = t[k]
    BY <1>2, <1>3, <1>4
  <2>4. SubSeq(s, 1, n) = SubSeq(t, 1, n) <=> \A k \in 1 .. n : SubSeq(s, 1, n)[k] = SubSeq(t, 1, n)[k]
    BY <2>2, <2>3, SeqEqual
  <2> QED BY <1>1, <1>4, <2>2, <2>3, <2>4 DEF IsPrefix
<1>5. CASE ~(n <= Len(t))
  BY <1>1, <1>5 DEF IsPrefix
<1> QED BY <1>4, <1>5

LEMMA PrefixesChain ==
  ASSUME NEW s \in NameList, NEW t \in NameList, NEW u \in NameList, IsPrefix(s, t)
  PROVE  /\ IsPrefix(s, s)
         /\ IsPrefix(t, u) => IsPrefix(s, u)
<1>1. Len(s) \in Nat /\ Len(t) \in Nat /\ Len(u) \in Nat
  BY DEF NameList
<1>2. Len(s) <= Len(t) /\ \A k \in 1 .. Len(s) : s[k] = t[k]
  BY PrefixMeans
<1>3. IsPrefix(s, s)
  BY <1>1, PrefixMeans
<1>4. ASSUME IsPrefix(t, u) PROVE IsPrefix(s, u)
  <2>1. Len(t) <= Len(u) /\ \A k \in 1 .. Len(t) : t[k] = u[k]
    BY <1>4, PrefixMeans
  <2>2. Len(s) <= Len(u) /\ \A k \in 1 .. Len(s) : k \in 1 .. Len(t)
    BY <1>1, <1>2, <2>1
  <2> QED BY <1>2, <2>1, <2>2, PrefixMeans
<1> QED BY <1>3, <1>4

\* Of two directories above one file, the one that is not deeper is above the other.
LEMMA PrefixesNest ==
  ASSUME NEW s \in NameList, NEW t \in NameList, NEW u \in NameList,
         IsPrefix(s, u), IsPrefix(t, u), Len(s) <= Len(t)
  PROVE  IsPrefix(s, t)
<1>1. Len(s) \in Nat /\ Len(t) \in Nat
  BY DEF NameList
<1>2. (\A k \in 1 .. Len(s) : s[k] = u[k]) /\ (\A k \in 1 .. Len(t) : t[k] = u[k])
  BY PrefixMeans
<1>3. \A k \in 1 .. Len(s) : k \in 1 .. Len(t)
  BY <1>1
<1> QED BY <1>2, <1>3, PrefixMeans

\* A directory and what is above it, of a path.
LEMMA DirectoryFacts ==
  ASSUME NEW f, f.path \in NameList \ {<<>>}
  PROVE  /\ Directory(f) \in NameList /\ Len(f.path) \in Nat
         /\ Len(Directory(f)) \in Nat /\ Len(Directory(f)) + 1 = Len(f.path)
         /\ IsPrefix(Directory(f), f.path) /\ IsPrefix(<<>>, f.path)
         /\ \A k \in 0 .. Len(Directory(f)) : /\ SubSeq(Directory(f), 1, k) = SubSeq(f.path, 1, k)
                                              /\ SubSeq(f.path, 1, k) \in NameList
                                              /\ IsPrefix(SubSeq(f.path, 1, k), Directory(f))
<1>1. PICK p, n : p = f.path /\ n = Len(f.path) - 1
  OBVIOUS
<1>2. p \in Seq(STRING) /\ n \in Nat /\ Len(p) = n + 1 /\ Len(p) \in Nat
  <2>1. p \in Seq(STRING) /\ Len(p) \in Nat
    BY <1>1 DEF NameList
  <2>2. Len(p) # 0
    BY <1>1, <2>1
  <2> QED BY <1>1, <2>1, <2>2
<1>3. PICK d : d = SubSeq(p, 1, n)
  OBVIOUS
<1>4. n <= Len(p)
  BY <1>2
<1>5. d \in Seq(STRING) /\ Len(d) = n /\ \A k \in 1 .. n : d[k] = p[k]
  BY <1>2, <1>3, <1>4, TakeFacts
<1>6. Directory(f) = d
  BY <1>1, <1>3 DEF Directory, Front
<1>7. IsPrefix(d, p)
  BY <1>2, <1>4, <1>5, PrefixMeans DEF NameList
<1>8. IsPrefix(<<>>, p)
  <2>1. PICK e : e = <<>>
    OBVIOUS
  <2>2. e \in NameList /\ Len(e) = 0
    BY <2>1 DEF NameList
  <2>3. p \in NameList /\ 0 <= Len(p)
    BY <1>2 DEF NameList
  <2> QED BY <2>1, <2>2, <2>3, PrefixMeans
<1>9. ASSUME NEW k \in 0 .. n
      PROVE  SubSeq(d, 1, k) = SubSeq(p, 1, k) /\ SubSeq(p, 1, k) \in NameList /\ IsPrefix(SubSeq(p, 1, k), d)
  <2>1. k \in Nat /\ k <= n /\ k <= Len(p) /\ k <= Len(d)
    BY <1>2, <1>5
  <2>2. /\ SubSeq(p, 1, k) \in Seq(STRING) /\ Len(SubSeq(p, 1, k)) = k
        /\ \A j \in 1 .. k : SubSeq(p, 1, k)[j] = p[j]
    BY <1>2, <2>1, TakeFacts
  <2>3. /\ SubSeq(d, 1, k) \in Seq(STRING) /\ Len(SubSeq(d, 1, k)) = k
        /\ \A j \in 1 .. k : SubSeq(d, 1, k)[j] = d[j]
    BY <1>5, <2>1, TakeFacts
  <2>4. \A j \in 1 .. k : j \in 1 .. n
    BY <1>2, <2>1
  <2>5. \A j \in 1 .. k : SubSeq(d, 1, k)[j] = SubSeq(p, 1, k)[j]
    BY <1>5, <2>2, <2>3, <2>4
  <2>6. SubSeq(d, 1, k) = SubSeq(p, 1, k)
    BY <2>2, <2>3, <2>5, SeqEqual
  <2>7. IsPrefix(SubSeq(p, 1, k), d)
    BY <1>5, <2>1, <2>2, <2>4, PrefixMeans DEF NameList
  <2> QED BY <2>2, <2>6, <2>7 DEF NameList
<1> QED BY <1>1, <1>2, <1>5, <1>6, <1>7, <1>8, <1>9 DEF NameList
-----------------------------------------------------------------------------
(* The conftests in force, and those still to come.                        *)

Ahead(phase, f) == Step(phase, f) \in ToSet(todo)
Marks == disc.dir_skips \cup disc.dir_errors
\* A conftest that is not in force: a mark covers its directory, or nobody walks there.
Out(c) ==
  \/ \E d \in Marks : IsPrefix(d, Directory(c))
  \/ \E k \in 0 .. Len(Directory(c)) : is_ignored(layout, SubSeq(Directory(c), 1, k))
InForce == ToSet(layout.above) \cup {c \in ToSet(layout.files) : c.conftest /\ ~Matched(c)}
\* Conftest b may come into force after a.
After(a, b) == IF b.up > 0 THEN a.up > b.up ELSE a.up = 0 => ~IsPrefix(Directory(b), Directory(a))
AfterStep(a, t) == t.phase = "start" \/ (t.phase = "walk" /\ t.file.conftest) => After(a, t.file)

DFields == {"ancestors", "scopes", "plugins", "registry", "native", "imported", "dir_skips",
            "dir_errors", "marker_skips", "done"}
GTypes ==
  /\ DFields \subseteq DOMAIN disc
  /\ disc.scopes \in Seq(InForce) /\ disc.ancestors \in Seq(ToSet(layout.above))
  /\ Marks \subseteq NameList
  /\ disc.done => todo = <<>>
\* Each conftest is still to be imported, or in force, or out for a reason that is kept.
Accounted ==
  /\ \A f \in ToSet(layout.above) :
       /\ Ahead("above", f) => Ahead("start", f)
       /\ Ahead("above", f) \/ f \in ToSet(disc.ancestors) \/ Everywhere \in Marks
       /\ Ahead("start", f) \/ (f \in ToSet(disc.ancestors) => f \in ToSet(disc.scopes))
  /\ \A c \in ToSet(layout.files) :
       c.conftest => Ahead("walk", c) \/ c \in ToSet(disc.scopes) \/ Out(c)
ScopesInOrder ==
  /\ \A i, j \in 1 .. Len(disc.scopes) : i < j => After(disc.scopes[i], disc.scopes[j])
  /\ \A i \in 1 .. Len(disc.scopes) : \A t \in ToSet(todo) : AfterStep(disc.scopes[i], t)
GInv == GTypes /\ Accounted /\ ScopesInOrder

LEMMA FileFact ==
  ASSUME NEW l \in Layouts, NEW f \in Files(l)
  PROVE  FileFacts(f)
BY WalkedLayouts DEF LayoutsAreWalked, Files

\* Every file has its step in each phase it is due in.
LEMMA StepsOfPhase ==
  ASSUME NEW files, files \in Seq(ToSet(files)), NEW phase, NEW f \in ToSet(files)
  PROVE  Step(phase, f) \in ToSet(Steps(phase, files))
<1>1. PICK steps : steps = Steps(phase, files)
  OBVIOUS
<1>2. DOMAIN steps = DOMAIN files /\ \A k \in DOMAIN files : steps[k] = Step(phase, files[k])
  BY <1>1 DEF Steps
<1>3. PICK k \in DOMAIN files : f = files[k]
  BY DEF ToSet
<1> QED BY <1>1, <1>2, <1>3 DEF ToSet

LEMMA PhasesHave ==
  ASSUME NEW l \in Layouts
  PROVE  /\ \A f \in ToSet(l.above) : Step("above", f) \in ToSet(Phases(l)) /\ Step("start", f) \in ToSet(Phases(l))
         /\ \A f \in ToSet(l.files) : Step("walk", f) \in ToSet(Phases(l))
<1> DEFINE T == [phase : {"above", "preimport", "start", "walk"}, file : Files(l)]
<1>0. l.above \in Seq(ToSet(l.above)) /\ l.files \in Seq(ToSet(l.files))
  BY LayoutFacts
<1>1. ASSUME NEW phase \in {"above", "preimport", "start", "walk"}
      PROVE  Steps(phase, l.above) \in Seq(T) /\ Steps(phase, l.files) \in Seq(T)
  <2>1. /\ [phase : {phase}, file : ToSet(l.above)] \subseteq T
        /\ [phase : {phase}, file : ToSet(l.files)] \subseteq T
    BY DEF Files
  <2>2. /\ Steps(phase, l.above) \in Seq([phase : {phase}, file : ToSet(l.above)])
        /\ Steps(phase, l.files) \in Seq([phase : {phase}, file : ToSet(l.files)])
    BY <1>0, StepsTyped
  <2> HIDE DEF T
  <2> QED BY <2>1, <2>2, SeqMonotonic
<1>2. PICK A, P, S, W : /\ A = Steps("above", l.above) /\ S = Steps("start", l.above) /\ W = Steps("walk", l.files)
                        /\ P = IF l.warm THEN Steps("preimport", l.files) ELSE <<>>
  OBVIOUS
<1> HIDE DEF T
<1>3. A \in Seq(T) /\ P \in Seq(T) /\ S \in Seq(T) /\ W \in Seq(T)
  <2>1. <<>> \in Seq(T)
    OBVIOUS
  <2> QED BY <1>1, <1>2, <2>1
<1>4. PICK B : B = A \o P
  OBVIOUS
<1>5. B \in Seq(T) /\ ToSet(A) \subseteq ToSet(B)
  BY <1>3, <1>4, ConcatElements
<1>6. PICK C : C = B \o S
  OBVIOUS
<1>7. C \in Seq(T) /\ ToSet(B) \subseteq ToSet(C) /\ ToSet(S) \subseteq ToSet(C)
  BY <1>3, <1>5, <1>6, ConcatElements
<1>8. ToSet(C \o W) = ToSet(C) \cup ToSet(W)
  BY <1>3, <1>7, ConcatElements
<1>9. Phases(l) = C \o W
  BY <1>2, <1>4, <1>6 DEF Phases
<1> QED BY <1>0, <1>2, <1>5, <1>7, <1>8, <1>9, StepsOfPhase

LEMMA GInit == DiscoveryInit => GInv
<1> SUFFICES ASSUME DiscoveryInit PROVE GInv
  OBVIOUS
<1>1. /\ layout \in Layouts /\ todo = Phases(layout)
      /\ disc = [ancestors |-> <<>>, scopes |-> <<>>, plugins |-> <<>>, registry |-> <<>>, native |-> <<>>,
                 imported |-> <<>>, dir_skips |-> {}, dir_errors |-> {}, marker_skips |-> {}, done |-> FALSE]
  BY DEF DiscoveryInit
<1>2. disc.ancestors = <<>> /\ disc.scopes = <<>> /\ Marks = {} /\ ~disc.done /\ DFields \subseteq DOMAIN disc
  BY <1>1 DEF Marks, DFields
<1>3. GTypes
  <2>1. <<>> \in Seq(InForce) /\ <<>> \in Seq(ToSet(layout.above))
    OBVIOUS
  <2> QED BY <1>2, <2>1 DEF GTypes
<1>4. Accounted
  BY <1>1, <1>2, PhasesHave DEF Accounted, Ahead, ToSet
<1>5. ScopesInOrder
  BY <1>2 DEF ScopesInOrder
<1> QED BY <1>3, <1>4, <1>5 DEF GInv

\* The steps left after the first, as a set.
LEMMA TailSet ==
  ASSUME DInv, todo # <<>>, todo' = Tail(todo)
  PROVE  /\ todo[1] \in ToSet(todo) /\ ToSet(todo) \subseteq {todo[1]} \cup ToSet(todo')
         /\ ToSet(todo') \subseteq ToSet(todo) /\ \A t \in ToSet(todo') : Follows(todo[1], t)
<1>1. todo \in Seq(StepsOf(layout)) /\ InOrder(todo)
  BY DEF DInv, DTypeOK
<1>2. PICK n \in Nat : n = Len(todo) - 1 /\ Len(todo) = n + 1
  <2>1. Len(todo) \in Nat /\ Len(todo) # 0
    BY <1>1
  <2> QED BY <2>1
<1>3. todo' \in Seq(StepsOf(layout)) /\ Len(todo') = n /\ \A k \in 1 .. n : todo'[k] = todo[k + 1]
  BY <1>1, <1>2, HeadTailProperties
<1>4. ToSet(todo) = {todo[k] : k \in 1 .. n + 1}
  BY <1>1, <1>2, Elements
<1>5. ToSet(todo') = {todo'[k] : k \in 1 .. n}
  <2>1. PICK rest, T : rest = todo' /\ T = StepsOf(layout)
    OBVIOUS
  <2>2. rest \in Seq(T) /\ Len(rest) = n
    BY <2>1, <1>3
  <2>3. ToSet(rest) = {rest[k] : k \in 1 .. Len(rest)}
    BY <2>2, Elements
  <2> QED BY <2>1, <2>2, <2>3
<1>6. \A k \in 1 .. n + 1 : k = 1 \/ (k - 1 \in 1 .. n /\ (k - 1) + 1 = k)
  OBVIOUS
<1>7. \A k \in 1 .. n : k + 1 \in 1 .. n + 1 /\ 1 < k + 1
  OBVIOUS
<1>8. 1 \in 1 .. n + 1
  OBVIOUS
<1>9. ToSet(todo) \subseteq {todo[1]} \cup ToSet(todo')
  <2> SUFFICES ASSUME NEW k \in 1 .. n + 1, k # 1 PROVE todo[k] \in ToSet(todo')
    BY <1>4
  <2>1. todo'[k - 1] = todo[k] /\ k - 1 \in 1 .. n
    BY <1>3, <1>6
  <2> QED BY <2>1, <1>5
<1>10. ToSet(todo') \subseteq ToSet(todo)
  BY <1>3, <1>4, <1>5, <1>7
<1>11. ASSUME NEW k \in 1 .. n PROVE Follows(todo[1], todo'[k])
  BY <1>1, <1>2, <1>3, <1>7, <1>8 DEF InOrder
<1> QED BY <1>4, <1>5, <1>8, <1>9, <1>10, <1>11

LEMMA AppendFacts ==
  ASSUME NEW T, NEW s, NEW e, s \in Seq(T), e \in T
  PROVE  /\ Append(s, e) \in Seq(T) /\ Len(Append(s, e)) = Len(s) + 1 /\ Append(s, e)[Len(s) + 1] = e
         /\ \A k \in 1 .. Len(s) : Append(s, e)[k] = s[k]
         /\ ToSet(Append(s, e)) = ToSet(s) \cup {e}
<1>1. PICK n, r : n = Len(s) /\ r = Append(s, e)
  OBVIOUS
<1>0. n \in Nat
  BY <1>1, LenProperties
<1>2. r \in Seq(T) /\ Len(r) = n + 1 /\ r[n + 1] = e /\ \A k \in 1 .. n : r[k] = s[k]
  BY <1>0, <1>1, AppendProperties
<1>3. ToSet(r) = {r[k] : k \in 1 .. n + 1} /\ ToSet(s) = {s[k] : k \in 1 .. n}
  <2>1. ToSet(s) = {s[k] : k \in 1 .. Len(s)}
    BY Elements
  <2>2. r \in Seq(T)
    BY <1>2
  <2>3. ToSet(r) = {r[k] : k \in 1 .. Len(r)}
    BY <2>2, Elements
  <2> QED BY <1>1, <1>2, <2>1, <2>3
<1>4. \A k \in 1 .. n + 1 : k \in 1 .. n \/ k = n + 1
  BY <1>0
<1>5. (\A k \in 1 .. n : k \in 1 .. n + 1) /\ n + 1 \in 1 .. n + 1
  BY <1>0
<1>6. ToSet(r) = ToSet(s) \cup {e}
  BY <1>2, <1>3, <1>4, <1>5
<1> QED BY <1>1, <1>2, <1>6

LEMMA TailTyped ==
  ASSUME DInv, todo # <<>>, todo' = Tail(todo)
  PROVE  \A t \in ToSet(todo') :
           /\ t.phase \in {"above", "start"} => t.file \in ToSet(layout.above) /\ t.file.up \in Nat \ {0}
           /\ t.phase = "walk" => t.file \in ToSet(layout.files) /\ t.file.up = 0
<1>1. layout \in Layouts /\ ToSet(todo') \subseteq StepsOf(layout)
  BY TailSet, Elements DEF DInv, DTypeOK
<1>2. \A t \in StepsOf(layout) : /\ t.phase \in {"above", "start"} => t.file \in ToSet(layout.above)
                                 /\ t.phase = "walk" => t.file \in ToSet(layout.files)
  BY DEF StepsOf
<1> QED BY <1>1, <1>2, LayoutFacts

\* What the step of one file does for it: a conftest comes into force, or is out.
LEMMA GStep ==
  ASSUME DInv, GInv, todo # <<>>, todo' = Tail(todo), UNCHANGED layout,
         NEW file, file = todo[1].file,
         DFields \subseteq DOMAIN disc', disc'.done = disc.done,
         Marks \subseteq Marks', Marks' \subseteq NameList,
         \/ disc'.ancestors = disc.ancestors
         \/ todo[1].phase = "above" /\ disc'.ancestors = Append(disc.ancestors, file),
         \/ disc'.scopes = disc.scopes
         \/ /\ todo[1].phase = "start" \/ (todo[1].phase = "walk" /\ file.conftest)
            /\ file \in InForce /\ disc'.scopes = Append(disc.scopes, file),
         todo[1].phase = "above" => file \in ToSet(disc'.ancestors) \/ Everywhere \in Marks',
         todo[1].phase = "start" => (file \in ToSet(disc.ancestors) => file \in ToSet(disc'.scopes)),
         todo[1].phase = "walk" /\ file.conftest => file \in ToSet(disc'.scopes) \/ Out(file)'
  PROVE  GInv'
<1>1. PICK s, rest, h, old, new : /\ s = todo /\ rest = todo' /\ h = todo[1] /\ h.file = file
                                  /\ old = disc.scopes /\ new = disc'.scopes
  OBVIOUS
<1>2. /\ h \in ToSet(s) /\ ToSet(s) \subseteq {h} \cup ToSet(rest) /\ ToSet(rest) \subseteq ToSet(s)
      /\ \A t \in ToSet(rest) : Follows(h, t)
  BY <1>1, TailSet
<1>3. InForce' = InForce
  BY DEF InForce, Matched
<1>4. old \in Seq(InForce) /\ disc.ancestors \in Seq(ToSet(layout.above)) /\ ~disc.done
  BY <1>1 DEF GInv, GTypes
<1>5. layout \in Layouts /\ h \in StepsOf(layout)
  BY <1>1, TailSet DEF DInv, DTypeOK
<1>6. /\ h.phase \in {"above", "start"} => h.file \in ToSet(layout.above) /\ h.file.up \in Nat \ {0}
      /\ h.phase = "walk" => h.file \in ToSet(layout.files) /\ h.file.up = 0
  <2>1. /\ h.phase \in {"above", "start"} => h.file \in ToSet(layout.above)
        /\ h.phase = "walk" => h.file \in ToSet(layout.files)
    BY <1>5 DEF StepsOf
  <2> QED BY <2>1, <1>5, LayoutFacts
<1>7. /\ new \in Seq(InForce) /\ ToSet(old) \subseteq ToSet(new)
      /\ \/ new = old
         \/ /\ h.phase = "start" \/ (h.phase = "walk" /\ h.file.conftest)
            /\ Len(new) = Len(old) + 1 /\ new[Len(old) + 1] = h.file
            /\ \A k \in 1 .. Len(old) : new[k] = old[k]
  <2>1. CASE new = old
    BY <1>4, <2>1
  <2>2. CASE /\ h.phase = "start" \/ (h.phase = "walk" /\ h.file.conftest)
             /\ h.file \in InForce /\ new = Append(old, h.file)
    <3>1. PICK T, e : T = InForce /\ e = h.file
      OBVIOUS
    <3>2. old \in Seq(T) /\ e \in T /\ new = Append(old, e)
      BY <1>4, <2>2, <3>1
    <3>3. /\ new \in Seq(T) /\ Len(new) = Len(old) + 1 /\ new[Len(old) + 1] = e
          /\ \A k \in 1 .. Len(old) : new[k] = old[k]
          /\ ToSet(new) = ToSet(old) \cup {e}
      BY <3>2, AppendFacts
    <3> QED BY <2>2, <3>1, <3>3
  <2> QED BY <1>1, <2>1, <2>2
<1>8. ToSet(disc.ancestors) \subseteq ToSet(disc'.ancestors) /\ disc'.ancestors \in Seq(ToSet(layout.above))
      /\ \A f : f \in ToSet(disc'.ancestors) => f \in ToSet(disc.ancestors) \/ (h.phase = "above" /\ f = h.file)
  <2>1. CASE disc'.ancestors = disc.ancestors
    BY <1>4, <2>1
  <2>2. CASE h.phase = "above" /\ disc'.ancestors = Append(disc.ancestors, h.file)
    <3>1. PICK T, e, a, b : T = ToSet(layout.above) /\ e = h.file /\ a = disc.ancestors /\ b = disc'.ancestors
      OBVIOUS
    <3>2. a \in Seq(T) /\ e \in T /\ b = Append(a, e)
      BY <1>4, <1>6, <2>2, <3>1
    <3>3. b \in Seq(T) /\ ToSet(b) = ToSet(a) \cup {e}
      BY <3>2, AppendFacts
    <3>4. /\ ToSet(a) \subseteq ToSet(b)
          /\ \A f : f \in ToSet(b) => f \in ToSet(a) \/ f = e
      BY <3>3
    <3> QED BY <2>2, <3>1, <3>3, <3>4
  <2> QED BY <1>1, <2>1, <2>2
<1>9. GTypes'
  <2>1. disc'.scopes \in Seq(InForce') /\ disc'.ancestors \in Seq(ToSet(layout'.above))
    BY <1>1, <1>3, <1>7, <1>8
  <2> QED BY <2>1, <1>4 DEF GTypes
<1>10. ASSUME NEW phase, NEW f
       PROVE  /\ Ahead(phase, f) => Ahead(phase, f)' \/ (h.phase = phase /\ h.file = f)
              /\ Ahead(phase, f)' => Ahead(phase, f)
              /\ Ahead(phase, f)' => Follows(h, Step(phase, f))
  BY <1>1, <1>2 DEF Ahead, Step
<1>11. \A c : Out(c) => Out(c)'
  BY DEF Out
<1>12. Accounted'
  <2>1. ASSUME NEW f \in ToSet(layout.above)
        PROVE  /\ Ahead("above", f)' => Ahead("start", f)'
               /\ Ahead("above", f)' \/ f \in ToSet(disc'.ancestors) \/ Everywhere \in Marks'
               /\ Ahead("start", f)' \/ (f \in ToSet(disc'.ancestors) => f \in ToSet(disc'.scopes))
    <3>1. /\ Ahead("above", f) => Ahead("start", f)
          /\ Ahead("above", f) \/ f \in ToSet(disc.ancestors) \/ Everywhere \in Marks
          /\ Ahead("start", f) \/ (f \in ToSet(disc.ancestors) => f \in ToSet(disc.scopes))
      BY DEF GInv, Accounted
    <3>2. Ahead("above", f)' => h.phase = "above"
      BY <1>10 DEF Follows, Step
    <3>3. Ahead("above", f)' => Ahead("start", f)'
      BY <3>1, <3>2, <1>10
    <3>4. Ahead("above", f)' \/ f \in ToSet(disc'.ancestors) \/ Everywhere \in Marks'
      BY <3>1, <1>1, <1>8, <1>10
    <3>5. Ahead("start", f)' \/ (f \in ToSet(disc'.ancestors) => f \in ToSet(disc'.scopes))
      <4>1. CASE h.phase = "above" /\ f = h.file
        <5>1. Ahead("start", f)
          BY <3>1, <4>1, <1>1, <1>2, <1>5 DEF Ahead, Step, StepsOf
        <5> QED BY <5>1, <4>1, <1>10
      <4>2. CASE ~(h.phase = "above" /\ f = h.file)
        BY <3>1, <4>2, <1>1, <1>7, <1>8, <1>10
      <4> QED BY <4>1, <4>2
    <3> QED BY <3>3, <3>4, <3>5
  <2>2. ASSUME NEW c \in ToSet(layout.files), c.conftest
        PROVE  Ahead("walk", c)' \/ c \in ToSet(disc'.scopes) \/ Out(c)'
    <3>1. Ahead("walk", c) \/ c \in ToSet(disc.scopes) \/ Out(c)
      BY <2>2 DEF GInv, Accounted
    <3>2. CASE h.phase = "walk" /\ h.file = c
      BY <2>2, <3>2, <1>1
    <3>3. CASE ~(h.phase = "walk" /\ h.file = c)
      <4>1. Ahead("walk", c) => Ahead("walk", c)'
        BY <3>3, <1>10
      <4>2. c \in ToSet(disc.scopes) => c \in ToSet(disc'.scopes)
        BY <1>1, <1>7
      <4>3. Out(c) => Out(c)'
        BY <1>11
      <4> QED BY <3>1, <4>1, <4>2, <4>3
    <3> QED BY <3>2, <3>3
  <2> QED BY <2>1, <2>2 DEF Accounted
<1>13. ScopesInOrder'
  <2> DEFINE n == Len(old)
  <2>1. n \in Nat
    BY <1>4
  <2>2. /\ \A i, j \in 1 .. n : i < j => After(old[i], old[j])
        /\ \A i \in 1 .. n : \A t \in ToSet(s) : AfterStep(old[i], t)
    BY <1>1 DEF GInv, ScopesInOrder
  <2>3. CASE new = old
    BY <1>1, <1>2, <2>2, <2>3 DEF ScopesInOrder
  <2>4. CASE /\ h.phase = "start" \/ (h.phase = "walk" /\ h.file.conftest)
             /\ Len(new) = n + 1 /\ new[n + 1] = h.file /\ \A k \in 1 .. n : new[k] = old[k]
    <3>1. \A i \in 1 .. n : After(old[i], h.file)
      BY <1>2, <2>2, <2>4 DEF AfterStep
    <3>2. \A t \in ToSet(rest) : AfterStep(h.file, t)
      BY <1>2, <1>6, <2>4, <1>5, TailTyped, <1>1 DEF AfterStep, After, Follows
    <3> HIDE DEF n
    <3>3. \A i \in 1 .. n + 1 : i \in 1 .. n \/ i = n + 1
      BY <2>1
    <3>4. \A i, j \in 1 .. n + 1 : i < j => i \in 1 .. n
      BY <2>1
    <3>5. \A i \in 1 .. n : \A t \in ToSet(rest) : AfterStep(new[i], t)
      BY <1>2, <2>2, <2>4
    <3>6. \A i \in 1 .. n + 1 : \A t \in ToSet(rest) : AfterStep(new[i], t)
      BY <2>4, <3>2, <3>3, <3>5
    <3>7. ASSUME NEW i \in 1 .. n, NEW j \in 1 .. n + 1, i < j
          PROVE  After(new[i], new[j])
      BY <3>7, <2>2, <2>4, <3>1, <3>3
    <3>8. \A i, j \in 1 .. n + 1 : i < j => After(new[i], new[j])
      BY <3>4, <3>7
    <3> QED BY <1>1, <2>4, <3>6, <3>8 DEF ScopesInOrder
  <2> QED BY <1>7, <2>3, <2>4
<1> QED BY <1>9, <1>12, <1>13 DEF GInv

\* A conftest that does not import leaves a mark, and nothing else.
LEMMA MarkFacts ==
  ASSUME NEW d, NEW r, NEW file, NEW end, DFields \subseteq DOMAIN d, end # "fine",
         r = import_conftest(d, file, end)
  PROVE  /\ DFields \subseteq DOMAIN r /\ r.ancestors = d.ancestors /\ r.scopes = d.scopes /\ r.done = d.done
         /\ r.dir_skips \cup r.dir_errors = d.dir_skips \cup d.dir_errors \cup {Governed(file)}
<1>1. PICK g : g = Governed(file)
  OBVIOUS
<1>2. CASE end = "skips"
  <2>1. r = [d EXCEPT !.dir_skips = d.dir_skips \cup {g}]
    BY <1>1, <1>2 DEF import_conftest
  <2> QED BY <2>1, <1>1 DEF DFields
<1>3. CASE end # "skips"
  <2>1. r = [d EXCEPT !.dir_errors = d.dir_errors \cup {g}]
    BY <1>1, <1>3 DEF import_conftest
  <2> QED BY <2>1, <1>1 DEF DFields
<1> QED BY <1>2, <1>3

\* A file's definitions change neither what is in force nor what is marked.
LEMMA RegisterFacts ==
  ASSUME NEW d, NEW r, NEW file, NEW body, DFields \subseteq DOMAIN d, r = Register(d, file, body)
  PROVE  /\ DFields \subseteq DOMAIN r /\ r.ancestors = d.ancestors /\ r.scopes = d.scopes /\ r.done = d.done
         /\ r.dir_skips = d.dir_skips /\ r.dir_errors = d.dir_errors
BY DEF Register, DFields

LEMMA GovernsFacts ==
  ASSUME NEW d, NEW r, NEW file, DFields \subseteq DOMAIN d, r = Register(Governs(d, file), file, file)
  PROVE  /\ DFields \subseteq DOMAIN r /\ r.ancestors = d.ancestors /\ r.scopes = Append(d.scopes, file)
         /\ r.done = d.done /\ r.dir_skips = d.dir_skips /\ r.dir_errors = d.dir_errors
<1>1. PICK g : g = Governs(d, file)
  OBVIOUS
<1>2. /\ DFields \subseteq DOMAIN g /\ g.ancestors = d.ancestors /\ g.scopes = Append(d.scopes, file)
      /\ g.done = d.done /\ g.dir_skips = d.dir_skips /\ g.dir_errors = d.dir_errors
  BY <1>1 DEF Governs, DFields
<1>3. r = Register(g, file, file)
  BY <1>1
<1> QED BY <1>2, <1>3, RegisterFacts

\* The file of the step at hand.
LEMMA FirstStep ==
  ASSUME DInv, todo # <<>>
  PROVE  /\ layout \in Layouts /\ FileFacts(todo[1].file)
         /\ todo[1].phase \in {"above", "start"} =>
              todo[1].file \in ToSet(layout.above) /\ todo[1].file.up \in Nat \ {0}
         /\ todo[1].phase = "walk" => todo[1].file \in ToSet(layout.files) /\ todo[1].file.up = 0
<1>1. layout \in Layouts /\ todo[1] \in StepsOf(layout)
  <2>1. layout \in Layouts /\ todo \in Seq(StepsOf(layout))
    BY DEF DInv, DTypeOK
  <2> QED BY <2>1
<1>2. PICK l, h : l = layout /\ h = todo[1]
  OBVIOUS
<1>3. h.file \in Files(l) /\ FileFacts(h.file)
  <2>1. h.file \in Files(l)
    BY <1>1, <1>2 DEF StepsOf, Files
  <2> QED BY <2>1, <1>1, <1>2, FileFact
<1>4. /\ h.phase \in {"above", "start"} => h.file \in ToSet(l.above)
      /\ h.phase = "walk" => h.file \in ToSet(l.files)
  BY <1>1, <1>2 DEF StepsOf
<1> QED BY <1>1, <1>2, <1>3, <1>4, LayoutFacts

LEMMA GAbove == ASSUME DInv, GInv, load_ancestor_conftest PROVE GInv'
<1>1. PICK file : file = todo[1].file
  OBVIOUS
<1>2. /\ todo # <<>> /\ todo[1].phase = "above" /\ todo' = Tail(todo) /\ UNCHANGED layout
      /\ DFields \subseteq DOMAIN disc /\ Marks \subseteq NameList
  BY DEF load_ancestor_conftest, Head_, GInv, GTypes
<1>3. file.up > 0
  BY <1>1, <1>2, FirstStep
<1>4. disc.ancestors \in Seq(ToSet(layout.above)) /\ file \in ToSet(layout.above)
  BY <1>1, <1>2, FirstStep DEF GInv, GTypes
<1>5. PICK d, r, end : d = disc /\ r = disc' /\ r = IF end = "fine" THEN [d EXCEPT !.ancestors = Append(@, file)]
                                                   ELSE import_conftest(d, file, end)
  BY <1>1 DEF load_ancestor_conftest
<1>6. CASE end = "fine"
  <2>1. PICK s : s = Append(d.ancestors, file)
    OBVIOUS
  <2>2. r = [d EXCEPT !.ancestors = s]
    BY <1>5, <1>6, <2>1
  <2>3. /\ DFields \subseteq DOMAIN r /\ r.ancestors = s /\ r.scopes = d.scopes /\ r.done = d.done
        /\ r.dir_skips = d.dir_skips /\ r.dir_errors = d.dir_errors
    BY <1>2, <1>5, <2>2 DEF DFields
  <2>4. file \in ToSet(s)
    <3>1. PICK T, a : T = ToSet(layout.above) /\ a = d.ancestors
      OBVIOUS
    <3>2. a \in Seq(T) /\ file \in T
      BY <3>1, <1>4, <1>5
    <3>3. ToSet(Append(a, file)) = ToSet(a) \cup {file}
      BY <3>2, AppendFacts
    <3> QED BY <3>1, <3>3, <2>1
  <2>5. Marks' = Marks
    BY <1>5, <2>3 DEF Marks
  <2> QED BY <1>1, <1>2, <1>5, <2>1, <2>3, <2>4, <2>5, GStep
<1>7. CASE end # "fine"
  <2>1. r = import_conftest(d, file, end)
    BY <1>5, <1>7
  <2>2. /\ DFields \subseteq DOMAIN r /\ r.ancestors = d.ancestors /\ r.scopes = d.scopes /\ r.done = d.done
        /\ r.dir_skips \cup r.dir_errors = d.dir_skips \cup d.dir_errors \cup {Governed(file)}
    BY <1>2, <1>5, <1>7, <2>1, MarkFacts
  <2>3. Governed(file) = Everywhere /\ Everywhere \in NameList
    <3>1. <<>> \in Seq(STRING)
      OBVIOUS
    <3> QED BY <3>1, <1>3 DEF Governed, Everywhere, NameList
  <2>4. Marks \subseteq Marks' /\ Everywhere \in Marks' /\ Marks' \subseteq NameList
    BY <1>2, <1>5, <2>2, <2>3 DEF Marks
  <2> QED BY <1>1, <1>2, <1>5, <2>2, <2>4, GStep
<1> QED BY <1>6, <1>7

LEMMA GStart == ASSUME DInv, GInv, StartWalk PROVE GInv'
<1>1. PICK file : file = todo[1].file
  OBVIOUS
<1>2. /\ todo # <<>> /\ todo[1].phase = "start" /\ todo' = Tail(todo) /\ UNCHANGED layout
      /\ DFields \subseteq DOMAIN disc /\ Marks \subseteq NameList
  BY DEF StartWalk, Head_, GInv, GTypes
<1>3. /\ disc.scopes \in Seq(InForce) /\ disc.ancestors \in Seq(ToSet(layout.above))
      /\ file \in ToSet(layout.above) /\ file \in InForce
  BY <1>1, <1>2, FirstStep DEF GInv, GTypes, InForce
<1>4. Contains(disc.ancestors, file) <=> file \in ToSet(disc.ancestors)
  <2>1. ToSet(disc.ancestors) = {disc.ancestors[k] : k \in 1 .. Len(disc.ancestors)}
    BY <1>3, Elements
  <2> QED BY <2>1 DEF Contains
<1>5. PICK d, r : d = disc /\ r = disc'
  OBVIOUS
<1>6. CASE Contains(disc.ancestors, file)
  <2>1. r = Register(Governs(d, file), file, file)
    BY <1>1, <1>5, <1>6 DEF StartWalk
  <2>2. /\ DFields \subseteq DOMAIN r /\ r.ancestors = d.ancestors /\ r.scopes = Append(d.scopes, file)
        /\ r.done = d.done /\ r.dir_skips = d.dir_skips /\ r.dir_errors = d.dir_errors
    BY <1>2, <1>5, <2>1, GovernsFacts
  <2>3. file \in ToSet(r.scopes)
    <3>1. PICK T, a : T = InForce /\ a = d.scopes
      OBVIOUS
    <3>2. a \in Seq(T) /\ file \in T
      BY <3>1, <1>3, <1>5
    <3>3. ToSet(Append(a, file)) = ToSet(a) \cup {file}
      BY <3>2, AppendFacts
    <3> QED BY <3>1, <3>3, <2>2
  <2>4. Marks' = Marks
    BY <1>5, <2>2 DEF Marks
  <2> QED BY <1>1, <1>2, <1>3, <1>5, <2>2, <2>3, <2>4, GStep
<1>7. CASE ~Contains(disc.ancestors, file)
  <2>1. disc' = disc
    BY <1>1, <1>7 DEF StartWalk
  <2>2. Marks' = Marks
    BY <2>1 DEF Marks
  <2> QED BY <1>1, <1>2, <1>4, <1>7, <2>1, <2>2, GStep
<1> QED BY <1>6, <1>7

LEMMA GConftest == ASSUME DInv, GInv, WalkConftest PROVE GInv'
<1>1. PICK file : file = todo[1].file
  OBVIOUS
<1>2. /\ todo # <<>> /\ todo[1].phase = "walk" /\ file.conftest /\ todo' = Tail(todo) /\ UNCHANGED layout
      /\ DFields \subseteq DOMAIN disc /\ Marks \subseteq NameList
  BY <1>1 DEF WalkConftest, Head_, GInv, GTypes
<1>3. /\ disc.scopes \in Seq(InForce) /\ file \in ToSet(layout.files) /\ file.up = 0
      /\ file.path \in NameList \ {<<>>}
  BY <1>1, <1>2, FirstStep DEF GInv, GTypes, FileFacts
<1>4. /\ Directory(file) \in NameList
      /\ \A k \in 0 .. Len(Directory(file)) : SubSeq(Directory(file), 1, k) = SubSeq(file.path, 1, k)
  BY <1>3, DirectoryFacts
<1>5. PICK d, r : d = disc /\ r = disc'
  OBVIOUS
<1>6. CASE Pruned(layout, Directory(file), disc.dir_skips)
  <2>1. disc' = disc
    BY <1>1, <1>6 DEF WalkConftest
  <2>2. Marks' = Marks
    BY <2>1 DEF Marks
  <2>3. Out(file)
    BY <1>6 DEF Out, Pruned, dir_mark, Marks
  <2>4. Out(file)'
    BY <2>2, <2>3, <1>2 DEF Out
  <2> QED BY <1>1, <1>2, <2>1, <2>2, <2>4, GStep
<1>7. CASE ~Pruned(layout, Directory(file), disc.dir_skips)
  <2>1. PICK end : r = IF end = "fine" THEN Register(Governs(d, file), file, file) ELSE import_conftest(d, file, end)
    BY <1>1, <1>5, <1>7 DEF WalkConftest
  <2>2. CASE end = "fine"
    <3>1. r = Register(Governs(d, file), file, file)
      BY <2>1, <2>2
    <3>2. /\ DFields \subseteq DOMAIN r /\ r.ancestors = d.ancestors /\ r.scopes = Append(d.scopes, file)
          /\ r.done = d.done /\ r.dir_skips = d.dir_skips /\ r.dir_errors = d.dir_errors
      BY <1>2, <1>5, <3>1, GovernsFacts
    <3>3. file \in InForce
      <4>1. ~Matched(file)
        BY <1>4, <1>7 DEF Matched, Pruned, is_ignored
      <4> QED BY <4>1, <1>2, <1>3 DEF InForce
    <3>4. file \in ToSet(r.scopes)
      <4>1. PICK T, a : T = InForce /\ a = d.scopes
        OBVIOUS
      <4>2. a \in Seq(T) /\ file \in T
        BY <4>1, <1>3, <1>5, <3>3
      <4>3. ToSet(Append(a, file)) = ToSet(a) \cup {file}
        BY <4>2, AppendFacts
      <4> QED BY <4>1, <4>3, <3>2
    <3>5. Marks' = Marks
      BY <1>5, <3>2 DEF Marks
    <3> QED BY <1>1, <1>2, <1>5, <3>2, <3>3, <3>4, <3>5, GStep
  <2>3. CASE end # "fine"
    <3>1. r = import_conftest(d, file, end)
      BY <2>1, <2>3
    <3>2. /\ DFields \subseteq DOMAIN r /\ r.ancestors = d.ancestors /\ r.scopes = d.scopes /\ r.done = d.done
          /\ r.dir_skips \cup r.dir_errors = d.dir_skips \cup d.dir_errors \cup {Governed(file)}
      BY <1>2, <1>5, <2>3, <3>1, MarkFacts
    <3>3. Governed(file) = Directory(file)
      BY <1>3 DEF Governed
    <3>4. Marks \subseteq Marks' /\ Directory(file) \in Marks' /\ Marks' \subseteq NameList
      BY <1>2, <1>4, <1>5, <3>2, <3>3 DEF Marks
    <3>5. IsPrefix(Directory(file), Directory(file))
      <4>1. Len(Directory(file)) \in Nat
        BY <1>4 DEF NameList
      <4> QED BY <4>1, <1>4, PrefixMeans
    <3>6. Out(file)'
      BY <3>4, <3>5 DEF Out
    <3> QED BY <1>1, <1>2, <1>5, <3>2, <3>4, <3>6, GStep
  <2> QED BY <2>2, <2>3
<1> QED BY <1>6, <1>7

\* A test module puts no conftest in force.
LEMMA GModule ==
  ASSUME DInv, GInv, todo # <<>>, todo[1].phase \in {"preimport", "walk"},
         todo[1].phase = "walk" => ~todo[1].file.conftest, todo' = Tail(todo), UNCHANGED layout,
         DFields \subseteq DOMAIN disc', disc'.done = disc.done, disc'.ancestors = disc.ancestors,
         disc'.scopes = disc.scopes, disc'.dir_skips = disc.dir_skips, disc'.dir_errors = disc.dir_errors
  PROVE  GInv'
<1>1. PICK file : file = todo[1].file
  OBVIOUS
<1>2. Marks' = Marks /\ Marks \subseteq NameList
  BY DEF Marks, GInv, GTypes
<1> QED BY <1>1, <1>2, GStep

LEMMA GWalk == ASSUME DInv, GInv, WalkModule PROVE GInv'
<1>1. /\ todo # <<>> /\ todo[1].phase = "walk" /\ ~todo[1].file.conftest /\ todo' = Tail(todo)
      /\ UNCHANGED layout /\ DFields \subseteq DOMAIN disc
  BY DEF WalkModule, Head_, is_test, GInv, GTypes
<1>2. PICK d, r : d = disc /\ r = disc'
  OBVIOUS
<1>3. CASE r = d
  BY <1>1, <1>2, <1>3, GModule
<1>4. ASSUME NEW file, NEW body, NEW imported, r = [Register(d, file, body) EXCEPT !.imported = imported]
      PROVE  GInv'
  <2>1. PICK q : q = Register(d, file, body)
    OBVIOUS
  <2>2. /\ DFields \subseteq DOMAIN q /\ q.ancestors = d.ancestors /\ q.scopes = d.scopes /\ q.done = d.done
        /\ q.dir_skips = d.dir_skips /\ q.dir_errors = d.dir_errors
    BY <1>1, <1>2, <2>1, RegisterFacts
  <2>3. r = [q EXCEPT !.imported = imported]
    BY <1>4, <2>1
  <2>4. /\ DFields \subseteq DOMAIN r /\ r.ancestors = d.ancestors /\ r.scopes = d.scopes /\ r.done = d.done
        /\ r.dir_skips = d.dir_skips /\ r.dir_errors = d.dir_errors
    BY <2>2, <2>3 DEF DFields
  <2> QED BY <1>1, <1>2, <2>4, GModule
<1>5. \/ r = d
      \/ \E file, body, imported : r = [Register(d, file, body) EXCEPT !.imported = imported]
  BY <1>2 DEF WalkModule, ImportModule
<1> QED BY <1>3, <1>4, <1>5

LEMMA GInvStep == DInv /\ GInv /\ [DiscoveryNext]_discoveryVars => GInv'
<1> SUFFICES ASSUME DInv, GInv, [DiscoveryNext]_discoveryVars PROVE GInv'
  OBVIOUS
<1>1. CASE load_ancestor_conftest
  BY <1>1, GAbove
<1>2. CASE preimport
  <2>1. todo # <<>> /\ todo[1].phase = "preimport" /\ todo' = Tail(todo) /\ UNCHANGED <<layout, disc>>
    BY <1>2 DEF preimport, Head_
  <2>2. DFields \subseteq DOMAIN disc
    BY DEF GInv, GTypes
  <2> QED BY <2>1, <2>2, GModule
<1>3. CASE StartWalk
  BY <1>3, GStart
<1>4. CASE WalkConftest
  BY <1>4, GConftest
<1>5. CASE WalkModule
  BY <1>5, GWalk
<1>6. CASE FinishDiscovery
  <2>1. UNCHANGED <<layout, todo>> /\ todo = <<>> /\ DFields \subseteq DOMAIN disc
    BY <1>6 DEF FinishDiscovery, GInv, GTypes
  <2>2. PICK skips, registry, d, r : d = disc /\ r = disc' /\
          r = [d EXCEPT !.marker_skips = skips, !.registry = registry, !.done = TRUE]
    BY <1>6 DEF FinishDiscovery
  <2>3. /\ DFields \subseteq DOMAIN r /\ r.ancestors = d.ancestors /\ r.scopes = d.scopes
        /\ r.dir_skips = d.dir_skips /\ r.dir_errors = d.dir_errors
    BY <2>1, <2>2 DEF DFields
  <2>4. Marks' = Marks
    BY <2>2, <2>3 DEF Marks
  <2>5. InForce' = InForce /\ disc'.scopes = disc.scopes /\ disc'.ancestors = disc.ancestors
        /\ DFields \subseteq DOMAIN disc'
    BY <2>1, <2>2, <2>3 DEF InForce, Matched
  <2>6. GTypes'
    BY <2>1, <2>4, <2>5 DEF GInv, GTypes
  <2>7. Accounted'
    BY <2>1, <2>4, <2>5 DEF GInv, Accounted, Ahead, Out
  <2>8. ScopesInOrder'
    BY <2>1, <2>5 DEF GInv, ScopesInOrder
  <2> QED BY <2>6, <2>7, <2>8 DEF GInv
<1>7. CASE UNCHANGED discoveryVars
  <2>1. UNCHANGED <<layout, todo, disc>>
    BY <1>7 DEF discoveryVars
  <2> QED BY <2>1 DEF GInv, GTypes, Accounted, ScopesInOrder, Ahead, Out, Marks, InForce, Matched
<1> QED BY <1>1, <1>2, <1>3, <1>4, <1>5, <1>6, <1>7 DEF DiscoveryNext

LEMMA InvariantGoverns == DInv /\ GInv => GovernedOrReported
<1> SUFFICES ASSUME DInv, GInv, disc.done, NEW m \in Selected, ~Gated(m)
             PROVE  LET G == conftests_governing(disc, m)
                    IN  /\ {disc.scopes[k] : k \in G} = Conftests(m)
                        /\ \A j, k \in G : CalledBefore(disc, j, k) => NearerThan(disc.scopes[j], disc.scopes[k])
  BY DEF GovernedOrReported
<1>1. PICK G, scopes : G = conftests_governing(disc, m) /\ scopes = disc.scopes
  OBVIOUS
<1>2. layout \in Layouts /\ scopes \in Seq(InForce) /\ todo = <<>> /\ Marks \subseteq NameList
  BY <1>1 DEF DInv, DTypeOK, GInv, GTypes
<1>3. \A phase, f : ~Ahead(phase, f)
  BY <1>2 DEF Ahead, ToSet
<1>4. DOMAIN scopes = 1 .. Len(scopes) /\ ToSet(scopes) = {scopes[k] : k \in 1 .. Len(scopes)}
  BY <1>2, Elements
<1>5. G = {k \in 1 .. Len(scopes) : scopes[k].up > 0 \/ IsPrefix(Directory(scopes[k]), Directory(m))}
  BY <1>1, <1>4 DEF conftests_governing
<1>6. /\ \A f \in ToSet(layout.above) : FileFacts(f) /\ f.up \in Nat \ {0}
      /\ \A f \in ToSet(layout.files) : FileFacts(f) /\ f.up = 0
      /\ \A f \in InForce : FileFacts(f) /\ f.up \in Nat
  BY <1>2, FileFact, LayoutFacts DEF Files, InForce
<1>7. /\ m.path \in NameList \ {<<>>} /\ Directory(m) \in NameList
      /\ IsPrefix(Directory(m), m.path) /\ IsPrefix(<<>>, m.path)
  BY <1>6, DirectoryFacts DEF Selected, FileFacts
<1>8. \A d \in Marks : ~IsPrefix(d, m.path)
  BY DEF Gated, dir_mark, Marks
<1>9. ASSUME NEW d \in NameList, IsPrefix(d, Directory(m))
      PROVE  d \notin Marks /\ d \notin layout.prefixes
  <2>1. IsPrefix(d, m.path)
    BY <1>7, <1>9, PrefixesChain
  <2> QED BY <2>1, <1>8 DEF Gated, is_ignored
<1>10. \A f \in ToSet(layout.above) : f \in ToSet(scopes)
  <2>1. Everywhere \notin Marks
    BY <1>7, <1>8 DEF Everywhere
  <2> QED BY <2>1, <1>1, <1>3 DEF GInv, Accounted
<1>11. ASSUME NEW c \in ToSet(layout.files), c.conftest, IsPrefix(Directory(c), Directory(m)), ~Matched(c)
       PROVE  c \in ToSet(scopes)
  <2>1. c \in ToSet(scopes) \/ Out(c)
    BY <1>1, <1>3, <1>11 DEF GInv, Accounted
  <2>2. c.path \in NameList \ {<<>>}
    BY <1>6 DEF FileFacts
  <2>3. /\ Directory(c) \in NameList
        /\ \A k \in 0 .. Len(Directory(c)) : /\ SubSeq(Directory(c), 1, k) = SubSeq(c.path, 1, k)
                                             /\ SubSeq(c.path, 1, k) \in NameList
                                             /\ IsPrefix(SubSeq(c.path, 1, k), Directory(c))
    BY <2>2, DirectoryFacts
  <2>4. ASSUME NEW d \in Marks, IsPrefix(d, Directory(c)) PROVE FALSE
    <3>1. d \in NameList
      BY <1>2
    <3>2. IsPrefix(d, Directory(m))
      BY <3>1, <2>3, <2>4, <1>7, <1>11, PrefixesChain
    <3> QED BY <3>1, <3>2, <1>9
  <2>5. ASSUME NEW k \in 0 .. Len(Directory(c)), is_ignored(layout, SubSeq(Directory(c), 1, k)) PROVE FALSE
    <3>1. PICK b : b = SubSeq(c.path, 1, k)
      OBVIOUS
    <3>2. b \in NameList /\ IsPrefix(b, Directory(c)) /\ is_ignored(layout, b)
      BY <3>1, <2>3, <2>5
    <3>3. b \notin layout.globbed
      BY <3>1, <1>11 DEF Matched
    <3>4. PICK p \in layout.prefixes : IsPrefix(p, b)
      BY <3>2, <3>3 DEF is_ignored
    <3>5. p \in NameList
      BY <1>2, WalkedLayouts DEF LayoutsAreWalked
    <3>6. IsPrefix(p, Directory(c))
      BY <3>2, <3>4, <3>5, <2>3, PrefixesChain
    <3>7. IsPrefix(p, Directory(m))
      BY <3>5, <3>6, <2>3, <1>7, <1>11, PrefixesChain
    <3> QED BY <3>5, <3>7, <1>9
  <2> QED BY <2>1, <2>4, <2>5 DEF Out
<1>12. {scopes[k] : k \in G} = Conftests(m)
  <2>1. ASSUME NEW c \in Conftests(m) PROVE c \in {scopes[k] : k \in G}
    <3>1. c \in ToSet(scopes) /\ (c.up > 0 \/ IsPrefix(Directory(c), Directory(m)))
      BY <1>6, <1>10, <1>11 DEF Conftests
    <3> QED BY <3>1, <1>4, <1>5
  <2>2. ASSUME NEW k \in G PROVE scopes[k] \in Conftests(m)
    <3>1. PICK c : c = scopes[k]
      OBVIOUS
    <3>2. c \in InForce /\ (c.up > 0 \/ IsPrefix(Directory(c), Directory(m)))
      <4>1. k \in 1 .. Len(scopes)
        BY <1>5
      <4> QED BY <4>1, <3>1, <1>2, <1>5, ElementOfSeq
    <3> QED BY <3>1, <3>2, <1>6 DEF InForce, Conftests
  <2> QED BY <2>1, <2>2
<1>13. ASSUME NEW j \in G, NEW k \in G, CalledBefore(disc, j, k)
       PROVE  NearerThan(scopes[j], scopes[k])
  <2>1. PICK b, c : b = scopes[j] /\ c = scopes[k]
    OBVIOUS
  <2> SUFFICES NearerThan(b, c)
    BY <2>1
  <2>2. j \in 1 .. Len(scopes) /\ k \in 1 .. Len(scopes)
    BY <1>5
  <2>3. b \in InForce /\ c \in InForce
    BY <2>1, <2>2, <1>2, ElementOfSeq
  <2>4. b.up \in Nat /\ c.up \in Nat /\ b.path \in NameList \ {<<>>} /\ c.path \in NameList \ {<<>>}
    BY <2>3, <1>6 DEF FileFacts
  <2>5. /\ Directory(b) \in NameList /\ Directory(c) \in NameList
        /\ Len(Directory(b)) \in Nat /\ Len(Directory(c)) \in Nat
        /\ Len(Directory(b)) + 1 = Len(b.path) /\ Len(Directory(c)) + 1 = Len(c.path)
    BY <2>4, DirectoryFacts
  <2>6. PICK x, y : /\ x = IF b.up > 0 THEN -1 ELSE Len(Directory(b))
                    /\ y = IF c.up > 0 THEN -1 ELSE Len(Directory(c))
    OBVIOUS
  <2>7. x > y \/ (x = y /\ j < k)
    <3> DEFINE depth(n) == IF disc.scopes[n].up > 0 THEN -1 ELSE Len(Directory(disc.scopes[n]))
    <3>1. depth(j) > depth(k) \/ (depth(j) = depth(k) /\ j < k)
      BY <1>13 DEF CalledBefore
    <3>2. depth(j) = x /\ depth(k) = y
      BY <1>1, <2>1, <2>6
    <3> HIDE DEF depth
    <3> QED BY <3>1, <3>2
  <2>8. CASE x > y
    <3>1. CASE c.up > 0
      <4>1. ~(b.up > 0)
        BY <2>6, <2>8, <3>1
      <4> QED BY <4>1, <3>1, <2>4 DEF NearerThan
    <3>2. CASE ~(c.up > 0)
      <4>1. x > Len(Directory(c)) /\ c.up = 0
        BY <2>4, <2>6, <2>8, <3>2
      <4>2. b.up = 0 /\ Len(Directory(b)) > Len(Directory(c))
        BY <4>1, <2>4, <2>5, <2>6
      <4>3. Len(b.path) > Len(c.path)
        BY <4>2, <2>5
      <4> QED BY <4>1, <4>2, <4>3 DEF NearerThan
    <3> QED BY <3>1, <3>2
  <2>9. CASE x = y /\ j < k
    <3>1. After(b, c)
      BY <2>1, <2>2, <2>9, <1>1 DEF GInv, ScopesInOrder
    <3>2. CASE c.up > 0
      BY <3>1, <3>2, <2>4 DEF After, NearerThan
    <3>3. CASE ~(c.up > 0)
      <4>1. b.up = 0 /\ c.up = 0 /\ Len(Directory(c)) = Len(Directory(b))
        BY <3>3, <2>4, <2>5, <2>6, <2>9
      <4>2. IsPrefix(Directory(b), Directory(m)) /\ IsPrefix(Directory(c), Directory(m))
        BY <4>1, <2>1, <1>5
      <4>3. Len(Directory(c)) <= Len(Directory(b))
        BY <4>1, <2>5
      <4>4. IsPrefix(Directory(c), Directory(b))
        BY <4>2, <4>3, <2>5, <1>7, PrefixesNest
      <4> QED BY <3>1, <4>1, <4>4 DEF After
    <3> QED BY <3>2, <3>3
  <2> QED BY <2>1, <2>7, <2>8, <2>9
<1> QED BY <1>1, <1>12, <1>13

\* In every layout: when discovery is over, a selected test module has every conftest of its
\* directory and of those above it in force, called nearest first, or all its tests are
\* reported; below a directory that a pattern matches, no conftest is in force.
THEOREM EverySetUp == DiscoverySpec => []GovernedOrReported
BY DInvInit, DInvStep, GInit, GInvStep, InvariantGoverns, PTL DEF DiscoverySpec
-----------------------------------------------------------------------------
(* Lists defined by recursion.                                             *)

\* A set of numbers that is not empty has a least one, and so its Min in it.
LEMMA LeastNat ==
  ASSUME NEW T \in SUBSET Nat, T # {}
  PROVE  \E x \in T : \A y \in T : x <= y
<1> DEFINE R == OpToRel(<, Nat)
<1>1. \E x \in T : \A y \in T : ~(<<y, x>> \in R)
  <2>1. IsWellFoundedOn(R, Nat)
    BY NatLessThanWellFounded
  <2> HIDE DEF R
  <2> QED BY <2>1, WFMin, Zenon
<1>2. \A x, y \in Nat : y < x => <<y, x>> \in R
  BY DEF OpToRel
<1> HIDE DEF R
<1>3. PICK x \in T : \A y \in T : ~(<<y, x>> \in R)
  BY <1>1
<1>4. ASSUME NEW y \in T PROVE x <= y
  <2>1. x \in Nat /\ y \in Nat
    OBVIOUS
  <2>2. ~(y < x)
    BY <1>2, <1>3, <2>1
  <2> QED BY <2>1, <2>2
<1> QED BY <1>4

LEMMA Least ==
  ASSUME NEW T \in SUBSET Nat, T # {}
  PROVE  Min(T) \in T /\ \A y \in T : Min(T) <= y
BY LeastNat DEF Min

\* f starts from b and repeats the steps F.
Maps(F, S, L) == F \in [1 .. L -> [S -> S]]
Repeats(F, S, b, L, f) == f \in [0 .. L -> S] /\ f[0] = b /\ \A n \in 1 .. L : f[n] = F[n][f[n - 1]]

\* Where each step keeps a set, there is the function that repeats it.
LEMMA RecursionExists ==
  ASSUME NEW S, NEW b \in S, NEW L \in Nat, NEW F, Maps(F, S, L)
  PROVE  \E f : Repeats(F, S, b, L, f)
<1> USE DEF Maps
<1> DEFINE Upto(n, f) == f \in [0 .. n -> S] /\ f[0] = b /\ \A k \in 1 .. n : f[k] = F[k][f[k - 1]]
           Bad == {n \in 0 .. L : ~\E f : Upto(n, f)}
<1>1. ASSUME Bad # {} PROVE FALSE
  <2>1. PICK n \in Bad : \A k \in Bad : n <= k
    <3>1. Bad \in SUBSET Nat
      OBVIOUS
    <3> HIDE DEF Bad
    <3> QED BY <1>1, <3>1, LeastNat
  <2>2. n \in 0 .. L /\ ~\E f : Upto(n, f)
    OBVIOUS
  <2>3. CASE n = 0
    <3>1. Upto(0, [k \in 0 .. 0 |-> b])
      OBVIOUS
    <3> QED BY <2>2, <2>3, <3>1
  <2>4. CASE n # 0
    <3>1. n - 1 \in 0 .. L /\ ~(n <= n - 1) /\ n \in 1 .. L
      BY <2>2, <2>4
    <3>2. PICK f : Upto(n - 1, f)
      BY <2>1, <3>1
    <3> DEFINE g == [k \in 0 .. n |-> IF k = n THEN F[n][f[n - 1]] ELSE f[k]]
    <3>3. f[n - 1] \in S /\ F[n][f[n - 1]] \in S
      BY <3>1, <3>2
    <3>4. g \in [0 .. n -> S]
      BY <3>1, <3>2, <3>3
    <3>5. g[0] = b
      BY <3>1, <3>2
    <3>6. ASSUME NEW k \in 1 .. n PROVE g[k] = F[k][g[k - 1]]
      <4>1. k - 1 \in 0 .. n - 1 /\ g[k - 1] = f[k - 1]
        BY <3>1
      <4>2. CASE k = n
        <5>1. g[k] = F[n][f[n - 1]] /\ g[n - 1] = f[n - 1]
          BY <3>1, <4>1, <4>2
        <5> HIDE DEF g
        <5> QED BY <4>2, <5>1
      <4>3. CASE k # n
        <5>1. k \in 1 .. n - 1
          BY <3>1, <4>3
        <5> QED BY <3>2, <4>1, <5>1
      <4> QED BY <4>2, <4>3
    <3> HIDE DEF g
    <3> QED BY <2>2, <3>4, <3>5, <3>6
  <2> QED BY <2>3, <2>4
<1>2. L \in 0 .. L
  OBVIOUS
<1>3. \E f : Upto(L, f)
  <2>1. \A n \in 0 .. L : n \notin Bad => \E f : Upto(n, f)
    OBVIOUS
  <2> HIDE DEF Bad, Upto
  <2> QED BY <1>1, <1>2, <2>1
<1> QED BY <1>3 DEF Repeats

\* What each step keeps, it keeps throughout.
LEMMA RecursionStays ==
  ASSUME NEW S, NEW L \in Nat, NEW f, f[0] \in S,
         \A n \in 1 .. L : f[n - 1] \in S => f[n] \in S
  PROVE  \A n \in 0 .. L : f[n] \in S
<1> DEFINE Bad == {n \in 0 .. L : f[n] \notin S}
<1>1. ASSUME Bad # {} PROVE FALSE
  <2>1. PICK n \in Bad : \A k \in Bad : n <= k
    <3>1. Bad \in SUBSET Nat
      OBVIOUS
    <3> HIDE DEF Bad
    <3> QED BY <1>1, <3>1, LeastNat
  <2>2. n \in 1 .. L /\ n - 1 \in 0 .. L /\ ~(n <= n - 1)
    OBVIOUS
  <2> QED BY <2>1, <2>2
<1> QED BY <1>1

\* A function on the first numbers is a list.
LEMMA ListOf ==
  ASSUME NEW T, NEW n \in Nat, NEW f \in [1 .. n -> T]
  PROVE  f \in Seq(T) /\ Len(f) = n
OBVIOUS

\* Some of a list are a list.
LEMMA ThoseTyped ==
  ASSUME NEW T, NEW s \in Seq(T), NEW K
  PROVE  Those(s, K) \in Seq(T)
<1> DEFINE L == Len(s)
           S == Seq(T)
           Next1(u, n) == IF n \in K THEN Append(u, s[n]) ELSE u
           F == [n \in 1 .. L |-> [u \in S |-> Next1(u, n)]]
           Fits(f) == f = [n \in 0 .. L |-> IF n = 0 THEN <<>> ELSE Next1(f[n - 1], n)]
<1>1. L \in Nat /\ \A n \in 1 .. L : s[n] \in T
  BY LenProperties, ElementOfSeq
<1>2. \A u \in S : \A n \in 1 .. L : Next1(u, n) \in S
  BY <1>1
<1> HIDE DEF Next1
<1>3. \A u \in S : \A n \in 1 .. L : F[n][u] = Next1(u, n)
  OBVIOUS
<1>4. <<>> \in S
  OBVIOUS
<1> HIDE DEF S, L, F
<1>5. PICK f : Repeats(F, S, <<>>, L, f)
  <2>1. Maps(F, S, L)
    BY <1>2 DEF F, Maps
  <2> QED BY <1>1, <1>4, <2>1, RecursionExists
<1>6. Fits(f)
  <2> USE DEF Repeats
  <2>1. \A n \in 1 .. L : f[n - 1] \in S
    BY <1>1, <1>5
  <2>2. ASSUME NEW n \in 0 .. L PROVE f[n] = IF n = 0 THEN <<>> ELSE Next1(f[n - 1], n)
    <3>1. CASE n = 0
      BY <1>5, <3>1
    <3>2. CASE n # 0
      <4>1. n \in 1 .. L
        BY <1>1, <3>2
      <4> QED BY <1>3, <1>5, <2>1, <3>2, <4>1
    <3> QED BY <3>1, <3>2
  <2> QED BY <1>5, <2>2
<1> DEFINE g == CHOOSE f_1 : Fits(f_1)
<1>7. Fits(g)
  BY <1>6
<1>8. Those(s, K) = g[L]
  BY DEF Those, Next1, L
<1> HIDE DEF g
<1>9. g[0] \in S /\ \A n \in 1 .. L : g[n - 1] \in S => g[n] \in S
  BY <1>1, <1>2, <1>4, <1>7
<1>10. \A n \in 0 .. L : g[n] \in S
  BY <1>1, <1>9, RecursionStays
<1>11. g[L] \in S
  BY <1>1, <1>10
<1> QED BY <1>8, <1>11 DEF S

\* Lists one after another are a list.
LEMMA FlattenTyped ==
  ASSUME NEW T, NEW s \in Seq(Seq(T))
  PROVE  FlattenSeq(s) \in Seq(T)
<1> DEFINE L == Len(s)
           S == Seq(T)
           Next1(u, n) == IF n = 1 THEN s[n] ELSE u \o s[n]
           F == [n \in 1 .. L |-> [u \in S |-> Next1(u, n)]]
           Fits(f) == f = [n \in 1 .. L |-> IF n = 1 THEN s[n] ELSE f[n - 1] \o s[n]]
<1>1. L \in Nat /\ \A n \in 1 .. L : s[n] \in S
  BY LenProperties, ElementOfSeq
<1>2. \A u \in S : \A n \in 1 .. L : Next1(u, n) \in S
  BY <1>1, ConcatProperties
<1>3. \A u \in S : \A n \in 1 .. L : F[n][u] = Next1(u, n)
  <2> HIDE DEF Next1
  <2> QED OBVIOUS
<1>4. <<>> \in S
  OBVIOUS
<1>5. CASE L = 0
  <2>1. s = <<>>
    BY <1>5
  <2> QED BY <2>1, <1>4, <1>5 DEF FlattenSeq
<1>6. CASE L # 0
  <2> HIDE DEF S, L, F, Next1
  <2>1. PICK f : Repeats(F, S, <<>>, L, f)
    <3>1. Maps(F, S, L)
      BY <1>2 DEF F, Maps
    <3> QED BY <1>1, <1>4, <3>1, RecursionExists
  <2>2. PICK h : h = [n \in 1 .. L |-> f[n]]
    OBVIOUS
  <2>3. Fits(h)
    <3> USE DEF Repeats
    <3>1. \A n \in 1 .. L : f[n - 1] \in S
      BY <1>1, <2>1
    <3>2. ASSUME NEW n \in 1 .. L PROVE h[n] = IF n = 1 THEN s[n] ELSE h[n - 1] \o s[n]
      <4>1. h[n] = Next1(f[n - 1], n)
        BY <1>3, <2>1, <2>2, <3>1
      <4>2. n # 1 => h[n - 1] = f[n - 1]
        <5>1. n # 1 => n - 1 \in 1 .. L
          BY <1>1
        <5> QED BY <5>1, <2>2
      <4> QED BY <4>1, <4>2 DEF Next1
    <3> QED BY <2>2, <3>2
  <2> DEFINE g == CHOOSE f_1 : Fits(f_1)
  <2>4. Fits(g)
    BY <2>3
  <2>5. FlattenSeq(s) = g[L]
    BY <1>6 DEF FlattenSeq, L
  <2> HIDE DEF g
  <2>6. PICK k : k = [n \in 0 .. L |-> IF n = 0 THEN <<>> ELSE g[n]]
    OBVIOUS
  <2>7. k[0] = <<>> /\ \A n \in 1 .. L : k[n] = g[n] /\ n \in 0 .. L
    BY <1>1, <2>6
  <2>8. ASSUME NEW n \in 1 .. L, k[n - 1] \in S PROVE k[n] \in S
    <3>1. n = 1 => k[n] = s[n]
      BY <2>4, <2>7
    <3>2. n # 1 => k[n] = k[n - 1] \o s[n]
      <4>1. n # 1 => n - 1 \in 1 .. L
        BY <1>1
      <4> QED BY <4>1, <2>4, <2>7
    <3> QED BY <3>1, <3>2, <2>8, <1>1, ConcatProperties DEF S
  <2>9. \A n \in 0 .. L : k[n] \in S
    BY <1>1, <1>4, <2>7, <2>8, RecursionStays
  <2>10. L \in 1 .. L
    BY <1>1, <1>6
  <2>11. g[L] \in S
    BY <2>7, <2>9, <2>10
  <2> QED BY <2>5, <2>11 DEF S
<1> QED BY <1>5, <1>6
-----------------------------------------------------------------------------
(* The suite's definitions, and those at the root that others provide.     *)

Places ==
  {Dir(p) : p \in {q \in NameList : Len(q) < MaxDepth}} \cup {Above(n) : n \in Nat \ {0}}
    \cup {InModule(module_key(p)) : p \in NameList} \cup {InClass(module_key(p), c) : p \in NameList, c \in STRING}
Definitions(places, from) == [name : STRING, at : places, from : from]
SuiteDefs == Definitions(Places, {"suite"})
RootDefs == Definitions({Dir(Everywhere)}, {"builtin", "plugin"})
\* Every definition of the suite comes before any other.
SuiteFirst(reg) == \E A \in Seq(SuiteDefs), B \in Seq(RootDefs) : reg = A \o B
RInv ==
  /\ ~disc.done => disc.registry \in Seq(SuiteDefs) /\ disc.native \in Seq(SuiteDefs)
  /\ disc.done => SuiteFirst(disc.registry)
  /\ disc.plugins \in NameList
  /\ \A path \in loaded : FilesAt(path) # {}

LEMMA MadeTyped ==
  ASSUME NEW places, NEW at \in places, NEW from, NEW names \in NameList
  PROVE  Made(names, at, from) \in Seq(Definitions(places, {from}))
<1>1. PICK n \in Nat : n = Len(names) /\ DOMAIN names = 1 .. n
  BY LenProperties DEF NameList
<1>2. \A k \in 1 .. n : names[k] \in STRING
  BY <1>1, ElementOfSeq DEF NameList
<1>3. Made(names, at, from) = [k \in 1 .. n |-> [name |-> names[k], at |-> at, from |-> from]]
  BY <1>1 DEF Made
<1>4. \A k \in 1 .. n : [name |-> names[k], at |-> at, from |-> from] \in Definitions(places, {from})
  BY <1>2 DEF Definitions
<1>5. Made(names, at, from) \in [1 .. n -> Definitions(places, {from})]
  BY <1>3, <1>4
<1> QED BY <1>5, ListOf

LEMMA WithNewTyped ==
  ASSUME NEW T, NEW reg \in Seq(T), NEW defs \in Seq(T)
  PROVE  \E more \in Seq(T) : WithNew(reg, defs) = reg \o more
BY ThoseTyped DEF WithNew

\* The places of what a file defines.
LEMMA FilePlaces ==
  ASSUME NEW file, file.path \in NameList \ {<<>>}, Len(file.path) < MaxDepth, file.up \in Nat
  PROVE  /\ Location(file) \in Places
         /\ \A c \in STRING : InClass(module_key(file.path), c) \in Places
<1>1. CASE file.up > 0
  BY <1>1 DEF Location, Places
<1>2. CASE ~(file.up > 0) /\ file.conftest
  <2>1. Directory(file) \in NameList /\ Len(Directory(file)) < MaxDepth
    <3>1. Directory(file) \in NameList /\ Len(Directory(file)) \in Nat /\ Len(Directory(file)) + 1 = Len(file.path)
      BY DirectoryFacts
    <3> QED BY <3>1 DEF MaxDepth
  <2> QED BY <2>1, <1>2 DEF Location, Places
<1>3. CASE ~(file.up > 0) /\ ~file.conftest
  BY <1>3 DEF Location, Places
<1>4. \A c \in STRING : InClass(module_key(file.path), c) \in Places
  BY DEF Places
<1> QED BY <1>1, <1>2, <1>3, <1>4

LEMMA FixturesTyped ==
  ASSUME NEW body, FileFacts(body), NEW native, NEW at \in Places
  PROVE  Fixtures(body, native, at) \in Seq(SuiteDefs)
<1> DEFINE T == [name : STRING, native : BOOLEAN]
<1>1. PICK own : own = Those(body.fixtures, {k \in DOMAIN body.fixtures : body.fixtures[k].native = native})
  OBVIOUS
<1>2. body.fixtures \in Seq(T)
  BY DEF FileFacts
<1>3. own \in Seq(T)
  <2> HIDE DEF T
  <2> QED BY <1>1, <1>2, ThoseTyped
<1>4. PICK n \in Nat : n = Len(own) /\ DOMAIN own = 1 .. n
  BY <1>3, LenProperties
<1>5. \A k \in 1 .. n : own[k] \in T
  <2> HIDE DEF T
  <2> QED BY <1>3, <1>4, ElementOfSeq
<1>6. PICK names : names = [k \in 1 .. n |-> own[k].name]
  OBVIOUS
<1>7. names \in NameList
  <2>1. names \in [1 .. n -> STRING]
    BY <1>5, <1>6
  <2> QED BY <2>1, ListOf DEF NameList
<1>8. Fixtures(body, native, at) = Made(names, at, "suite")
  BY <1>1, <1>4, <1>6 DEF Fixtures
<1> QED BY <1>7, <1>8, MadeTyped DEF SuiteDefs

LEMMA ClassesTyped ==
  ASSUME NEW body, FileFacts(body), NEW file, FileFacts(file), file.up \in Nat
  PROVE  FlattenSeq([c \in DOMAIN body.classes |-> ClassFixtures(body.classes[c], file)]) \in Seq(SuiteDefs)
<1> DEFINE T == [name : STRING, mro : Seq(NameList)]
<1>1. body.classes \in Seq(T)
  BY DEF FileFacts
<1>2. PICK n \in Nat : n = Len(body.classes) /\ DOMAIN body.classes = 1 .. n
  <2> HIDE DEF T
  <2> QED BY <1>1, LenProperties
<1>3. ASSUME NEW c \in 1 .. n PROVE ClassFixtures(body.classes[c], file) \in Seq(SuiteDefs)
  <2>1. PICK class : class = body.classes[c]
    OBVIOUS
  <2>2. class \in T
    <3> HIDE DEF T
    <3> QED BY <1>1, <1>2, <2>1, ElementOfSeq
  <2>3. FlattenSeq(class.mro) \in NameList
    <3>1. class.mro \in Seq(Seq(STRING))
      BY <2>2 DEF NameList
    <3> QED BY <3>1, FlattenTyped DEF NameList
  <2>4. InClass(module_key(file.path), class.name) \in Places
    BY <2>2, FilePlaces DEF FileFacts
  <2> QED BY <2>1, <2>3, <2>4, MadeTyped DEF ClassFixtures, SuiteDefs
<1>4. PICK each : each = [c \in 1 .. n |-> ClassFixtures(body.classes[c], file)]
  OBVIOUS
<1>5. each \in Seq(Seq(SuiteDefs))
  <2>1. each \in [1 .. n -> Seq(SuiteDefs)]
    BY <1>3, <1>4
  <2> QED BY <2>1, ListOf
<1> QED BY <1>2, <1>4, <1>5, FlattenTyped

\* What a file registers is the suite's.
LEMMA RegisterTyped ==
  ASSUME NEW d, DFields \subseteq DOMAIN d, d.registry \in Seq(SuiteDefs), d.native \in Seq(SuiteDefs),
         NEW file, FileFacts(file), file.up \in Nat, NEW body, FileFacts(body), NEW r, r = Register(d, file, body)
  PROVE  /\ r.registry \in Seq(SuiteDefs) /\ r.native \in Seq(SuiteDefs) /\ r.plugins = d.plugins
         /\ r.done = d.done /\ DFields \subseteq DOMAIN r
<1>1. Location(file) \in Places
  BY FilePlaces DEF FileFacts
<1>2. PICK own, nat, classes : /\ own = Fixtures(body, FALSE, Location(file)) /\ nat = Fixtures(body, TRUE, Location(file))
                               /\ classes = FlattenSeq([c \in DOMAIN body.classes |-> ClassFixtures(body.classes[c], file)])
  OBVIOUS
<1>3. own \in Seq(SuiteDefs) /\ nat \in Seq(SuiteDefs) /\ classes \in Seq(SuiteDefs)
  BY <1>1, <1>2, FixturesTyped, ClassesTyped
<1>4. PICK T, reg, natives : T = SuiteDefs /\ reg = d.registry \o own /\ natives = d.native \o nat
  OBVIOUS
<1>5. reg \in Seq(T) /\ natives \in Seq(T)
  BY <1>3, <1>4, ConcatProperties
<1>6. WithNew(reg, classes) \in Seq(T)
  <2>1. PICK more \in Seq(T) : WithNew(reg, classes) = reg \o more
    BY <1>3, <1>4, <1>5, WithNewTyped
  <2> QED BY <2>1, <1>5, ConcatProperties
<1>7. r = [d EXCEPT !.registry = WithNew(reg, classes), !.native = natives]
  BY <1>2, <1>4 DEF Register, register_class_fixtures
<1> QED BY <1>4, <1>5, <1>6, <1>7 DEF DFields

LEMMA GovernsTyped ==
  ASSUME NEW d, DFields \subseteq DOMAIN d, d.registry \in Seq(SuiteDefs), d.native \in Seq(SuiteDefs),
         d.plugins \in NameList, NEW file, FileFacts(file), file.up \in Nat,
         NEW r, r = Register(Governs(d, file), file, file)
  PROVE  /\ r.registry \in Seq(SuiteDefs) /\ r.native \in Seq(SuiteDefs) /\ r.plugins \in NameList
         /\ r.done = d.done /\ DFields \subseteq DOMAIN r
<1>1. PICK g : g = Governs(d, file)
  OBVIOUS
<1>2. /\ DFields \subseteq DOMAIN g /\ g.registry = d.registry /\ g.native = d.native /\ g.done = d.done
      /\ g.plugins = d.plugins \o file.plugins
  BY <1>1 DEF Governs, DFields
<1>3. g.plugins \in NameList
  BY <1>2, ConcatProperties DEF FileFacts, NameList
<1>4. r = Register(g, file, file)
  BY <1>1
<1>5. DFields \subseteq DOMAIN g /\ g.registry \in Seq(SuiteDefs) /\ g.native \in Seq(SuiteDefs)
  BY <1>2
<1>6. /\ r.registry \in Seq(SuiteDefs) /\ r.native \in Seq(SuiteDefs) /\ r.plugins = g.plugins
      /\ r.done = g.done /\ DFields \subseteq DOMAIN r
  BY <1>4, <1>5, RegisterTyped
<1> QED BY <1>2, <1>3, <1>6

\* The builtins and the plugins come after the suite, and lie at the root.
LEMMA EverythingRanked ==
  ASSUME NEW l \in Layouts, NEW d, d.registry \in Seq(SuiteDefs), d.native \in Seq(SuiteDefs),
         d.plugins \in NameList, NEW broken
  PROVE  SuiteFirst(Everything(l, d, broken))
<1>1. /\ l.builtins \in NameList /\ l.installed \in NameList /\ l.explicit \in NameList
      /\ \A p \in DOMAIN l.provides : l.provides[p] \in NameList
  BY WalkedLayouts DEF LayoutsAreWalked
<1>2. PICK found : found = plugin_modules(l, d.plugins)
  OBVIOUS
<1>3. found \in NameList
  <2>1. PICK candidates : candidates = (IF l.autoload THEN l.installed ELSE <<>>) \o l.explicit \o d.plugins
    OBVIOUS
  <2>2. candidates \in NameList
    <3>1. <<>> \in Seq(STRING)
      OBVIOUS
    <3>2. PICK a : a = IF l.autoload THEN l.installed ELSE <<>>
      OBVIOUS
    <3>3. a \in Seq(STRING)
      BY <1>1, <3>1, <3>2 DEF NameList
    <3>4. a \o l.explicit \in Seq(STRING)
      BY <1>1, <3>3, ConcatProperties DEF NameList
    <3> QED BY <2>1, <3>2, <3>4, ConcatProperties DEF NameList
  <2> QED BY <1>2, <2>1, <2>2, ThoseTyped DEF plugin_modules, NameList
<1>4. PICK n \in Nat : n = Len(found) /\ DOMAIN found = 1 .. n
  BY <1>3, LenProperties DEF NameList
<1>5. ASSUME NEW names \in NameList, NEW from \in {"builtin", "plugin"}
      PROVE  AtRoot(names, from) \in Seq(RootDefs)
  <2>1. AtRoot(names, from) \in Seq(Definitions({Dir(Everywhere)}, {from}))
    BY MadeTyped DEF AtRoot
  <2>2. Definitions({Dir(Everywhere)}, {from}) \subseteq RootDefs
    BY DEF Definitions, RootDefs
  <2> QED BY <2>1, <2>2, SeqMonotonic
<1> DEFINE given(k) == IF found[k] \in DOMAIN l.provides \ broken THEN AtRoot(l.provides[found[k]], "plugin") ELSE <<>>
<1>6. ASSUME NEW k \in 1 .. n PROVE given(k) \in Seq(RootDefs)
  <2>1. <<>> \in Seq(RootDefs)
    OBVIOUS
  <2>2. CASE found[k] \in DOMAIN l.provides \ broken
    BY <1>1, <1>5, <2>2
  <2>3. CASE ~(found[k] \in DOMAIN l.provides \ broken)
    BY <2>1, <2>3
  <2> QED BY <2>2, <2>3
<1>7. PICK extra, each : each = [k \in 1 .. n |-> given(k)] /\ extra = FlattenSeq(each)
  OBVIOUS
<1>8. extra \in Seq(RootDefs)
  <2>1. each \in [1 .. n -> Seq(RootDefs)]
    <3> HIDE DEF given
    <3> QED BY <1>6, <1>7
  <2>2. each \in Seq(Seq(RootDefs))
    BY <2>1, ListOf
  <2> QED BY <1>7, <2>2, FlattenTyped
<1>9. PICK A, builtins, reg : A = d.registry \o d.native /\ builtins = AtRoot(l.builtins, "builtin") /\ reg = A \o builtins
  OBVIOUS
<1>10. A \in Seq(SuiteDefs) /\ builtins \in Seq(RootDefs)
  BY <1>1, <1>5, <1>9, ConcatProperties
<1>11. Everything(l, d, broken) = WithNew(reg, extra)
  BY <1>2, <1>4, <1>7, <1>9 DEF Everything, register_plugin_fixtures
<1>12. PICK more \in Seq(RootDefs) : WithNew(reg, extra) = reg \o more
  BY <1>8, ThoseTyped DEF WithNew
<1>13. builtins \o more \in Seq(RootDefs)
  BY <1>10, <1>12, ConcatProperties
<1>14. reg \o more = A \o (builtins \o more)
  <2>1. PICK T : T = SuiteDefs \cup RootDefs
    OBVIOUS
  <2>2. A \in Seq(T) /\ builtins \in Seq(T) /\ more \in Seq(T)
    BY <1>10, <1>12, <2>1, SeqMonotonic
  <2>3. (A \o builtins) \o more = A \o (builtins \o more)
    BY <2>2, ConcatAssociative
  <2> QED BY <1>9, <2>3
<1> QED BY <1>10, <1>11, <1>12, <1>13, <1>14 DEF SuiteFirst

LEMMA RInit == DiscoveryInit => RInv
<1> SUFFICES ASSUME DiscoveryInit PROVE RInv
  OBVIOUS
<1>1. /\ disc.registry = <<>> /\ disc.native = <<>> /\ disc.plugins = <<>> /\ ~disc.done
      /\ loaded = {}
  BY DEF DiscoveryInit
<1>2. <<>> \in Seq(SuiteDefs) /\ <<>> \in Seq(STRING)
  OBVIOUS
<1> QED BY <1>1, <1>2 DEF RInv, NameList

\* A module that is loaded is one of the walk's test modules.
LEMMA LoadedTested ==
  ASSUME RInv, UNCHANGED layout, NEW path, NEW as,
         \/ UNCHANGED loaded
         \/ loaded' = loaded \cup {as} /\ FilesAt(as) # {}
  PROVE  \A p \in loaded' : FilesAt(p)' # {}
<1>1. \A p : FilesAt(p)' = FilesAt(p)
  BY DEF FilesAt
<1> QED BY <1>1 DEF RInv

\* What importing a module loads; it goes on with a file that is loaded.
LEMMA Imported ==
  ASSUME NEW path, ImportModule(path, LAMBDA fine, as : TRUE)
  PROVE  UNCHANGED loaded \/ \E as : loaded' = loaded \cup {as} /\ FilesAt(as) # {}
<1>1. PICK i : i = Import(path)
  OBVIOUS
<1>2. CASE i.file \in loaded /\ UNCHANGED loaded
  BY <1>2
<1>3. ASSUME NEW end \in IF FilesAt(i.file) = {} THEN {"missing"} ELSE FileAt(i.file).ends,
             loaded' = IF end = "fine" THEN loaded \cup {i.file} ELSE loaded
      PROVE  UNCHANGED loaded \/ \E as : loaded' = loaded \cup {as} /\ FilesAt(as) # {}
  <2>1. CASE end = "fine"
    <3>1. FilesAt(i.file) # {}
      BY <1>3, <2>1
    <3> QED BY <3>1, <2>1, <1>3
  <2>2. CASE end # "fine"
    BY <2>2, <1>3
  <2> QED BY <2>1, <2>2
<1> QED BY <1>1, <1>2, <1>3 DEF ImportModule

\* A module of the walk loads nothing but tests, and registers what a loaded file defines.
LEMMA Walked ==
  ASSUME RInv, WalkModule, NEW file, file = todo[1].file
  PROVE  /\ UNCHANGED loaded \/ \E as : loaded' = loaded \cup {as} /\ FilesAt(as) # {}
         /\ \/ disc' = disc
            \/ \E as, imported : /\ disc' = [Register(disc, file, FileAt(as)) EXCEPT !.imported = imported]
                                 /\ FilesAt(as) # {}
<1>1. CASE UNCHANGED <<loaded, disc>>
  BY <1>1
<1> DEFINE then(fine, as) == disc' = IF fine THEN [Register(disc, file, FileAt(as)) EXCEPT
                                                     !.imported = (file.path :> as) @@ @]
                                     ELSE disc
           Goes(as) == \E imported : disc' = [Register(disc, file, FileAt(as)) EXCEPT !.imported = imported]
<1>2. PICK i : i = Import(file.path)
  OBVIOUS
<1>3. ASSUME NEW as, then(TRUE, as) PROVE Goes(as)
  BY <1>3
<1>4. then(FALSE, i.file) => disc' = disc
  OBVIOUS
<1>5. \/ UNCHANGED <<loaded, disc>>
      \/ i.file \in loaded /\ UNCHANGED loaded /\ then(TRUE, i.file)
      \/ \E end \in IF FilesAt(i.file) = {} THEN {"missing"} ELSE FileAt(i.file).ends :
           /\ loaded' = IF end = "fine" THEN loaded \cup {i.file} ELSE loaded
           /\ then(end = "fine", i.file)
  BY <1>2 DEF WalkModule, ImportModule
<1>6. CASE i.file \in loaded /\ UNCHANGED loaded /\ then(TRUE, i.file)
  <2>1. FilesAt(i.file) # {}
    BY <1>6 DEF RInv
  <2> QED BY <2>1, <1>3, <1>6
<1>7. ASSUME NEW end \in IF FilesAt(i.file) = {} THEN {"missing"} ELSE FileAt(i.file).ends,
             loaded' = IF end = "fine" THEN loaded \cup {i.file} ELSE loaded, then(end = "fine", i.file)
      PROVE  /\ UNCHANGED loaded \/ \E as : loaded' = loaded \cup {as} /\ FilesAt(as) # {}
             /\ disc' = disc \/ \E as : Goes(as) /\ FilesAt(as) # {}
  <2>1. CASE end = "fine"
    <3>1. FilesAt(i.file) # {}
      BY <1>7, <2>1
    <3>2. then(TRUE, i.file)
      BY <1>7, <2>1
    <3>3. Goes(i.file)
      BY <1>3, <3>2
    <3> HIDE DEF Goes, then
    <3> QED BY <3>1, <3>3, <2>1, <1>7
  <2>2. CASE end # "fine"
    <3>1. then(FALSE, i.file)
      BY <1>7, <2>2
    <3> QED BY <3>1, <2>2, <1>4, <1>7
  <2> QED BY <2>1, <2>2
<1> QED BY <1>1, <1>3, <1>5, <1>6, <1>7

LEMMA RInvStep == DInv /\ GInv /\ RInv /\ [DiscoveryNext]_discoveryVars => RInv'
<1> SUFFICES ASSUME DInv, GInv, RInv, [DiscoveryNext]_discoveryVars PROVE RInv'
  OBVIOUS
<1>1. PICK d, r, file : d = disc /\ r = disc' /\ file = todo[1].file
  OBVIOUS
<1>2. /\ DFields \subseteq DOMAIN d /\ d.plugins \in NameList
      /\ todo # <<>> => ~d.done /\ d.registry \in Seq(SuiteDefs) /\ d.native \in Seq(SuiteDefs)
  BY <1>1 DEF GInv, GTypes, RInv
<1>3. todo # <<>> => FileFacts(file) /\ (todo[1].phase \in {"above", "start", "walk"} => file.up \in Nat)
  BY <1>1, FirstStep
<1> DEFINE Same == /\ UNCHANGED layout /\ r.registry = d.registry /\ r.native = d.native
                   /\ r.plugins = d.plugins /\ r.done = d.done
           Tests == \A p \in loaded' : FilesAt(p)' # {}
<1>4. ASSUME Same, Tests PROVE RInv'
  BY <1>1, <1>4 DEF RInv
<1>5. ASSUME todo # <<>>, Tests, r.registry \in Seq(SuiteDefs), r.native \in Seq(SuiteDefs), r.plugins \in NameList,
             r.done = d.done
      PROVE  RInv'
  BY <1>1, <1>2, <1>5 DEF RInv
<1>6. ASSUME UNCHANGED <<layout, loaded>> PROVE Tests
  BY <1>6 DEF RInv, FilesAt
<1> HIDE DEF Tests
<1>7. ASSUME NEW end, end # "fine", r = import_conftest(d, file, end), UNCHANGED <<layout, loaded>> PROVE RInv'
  <2>1. PICK g : g = Governed(file)
    OBVIOUS
  <2>2. r = [d EXCEPT !.dir_skips = d.dir_skips \cup {g}] \/ r = [d EXCEPT !.dir_errors = d.dir_errors \cup {g}]
    BY <1>7, <2>1 DEF import_conftest
  <2>3. Same
    BY <1>2, <1>7, <2>2 DEF DFields
  <2> QED BY <1>4, <1>6, <1>7, <2>3
<1>8. CASE load_ancestor_conftest
  <2>1. UNCHANGED <<layout, loaded>>
    BY <1>8 DEF load_ancestor_conftest
  <2>2. PICK end : r = IF end = "fine" THEN [d EXCEPT !.ancestors = Append(d.ancestors, file)]
                       ELSE import_conftest(d, file, end)
    BY <1>1, <1>8 DEF load_ancestor_conftest
  <2>3. CASE end = "fine"
    <3>1. Same
      BY <1>2, <2>1, <2>2, <2>3 DEF DFields
    <3> QED BY <1>4, <1>6, <2>1, <3>1
  <2>4. CASE end # "fine"
    BY <1>7, <2>1, <2>2, <2>4
  <2> QED BY <2>3, <2>4
<1>9. CASE preimport
  <2>1. UNCHANGED <<layout, disc>>
    BY <1>9 DEF preimport
  <2>2. UNCHANGED loaded \/ \E as : loaded' = loaded \cup {as} /\ FilesAt(as) # {}
    BY <1>9, Imported DEF preimport
  <2>3. Tests
    BY <2>1, <2>2, LoadedTested DEF Tests
  <2> QED BY <1>1, <1>4, <2>1, <2>3
<1>10. CASE StartWalk
  <2>1. UNCHANGED <<layout, loaded>> /\ todo # <<>> /\ todo[1].phase = "start"
    BY <1>10 DEF StartWalk, Head_
  <2>2. r = d \/ r = Register(Governs(d, file), file, file)
    BY <1>1, <1>10 DEF StartWalk
  <2>3. CASE r = d
    BY <1>4, <1>6, <2>1, <2>3
  <2>4. CASE r = Register(Governs(d, file), file, file)
    <3>1. /\ r.registry \in Seq(SuiteDefs) /\ r.native \in Seq(SuiteDefs) /\ r.plugins \in NameList
          /\ r.done = d.done
      BY <1>2, <1>3, <2>1, <2>4, GovernsTyped
    <3> QED BY <1>5, <1>6, <2>1, <3>1
  <2> QED BY <2>2, <2>3, <2>4
<1>11. CASE WalkConftest
  <2>1. UNCHANGED <<layout, loaded>> /\ todo # <<>> /\ todo[1].phase = "walk"
    BY <1>11 DEF WalkConftest, Head_
  <2>2. \/ r = d
        \/ r = Register(Governs(d, file), file, file)
        \/ \E end : end # "fine" /\ r = import_conftest(d, file, end)
    BY <1>1, <1>11 DEF WalkConftest
  <2>3. CASE r = d
    BY <1>4, <1>6, <2>1, <2>3
  <2>4. CASE r = Register(Governs(d, file), file, file)
    <3>1. /\ r.registry \in Seq(SuiteDefs) /\ r.native \in Seq(SuiteDefs) /\ r.plugins \in NameList
          /\ r.done = d.done
      BY <1>2, <1>3, <2>1, <2>4, GovernsTyped
    <3> QED BY <1>5, <1>6, <2>1, <3>1
  <2> QED BY <1>7, <2>1, <2>2, <2>3, <2>4
<1>12. CASE WalkModule
  <2>1. UNCHANGED layout /\ todo # <<>> /\ todo[1].phase = "walk"
    BY <1>12 DEF WalkModule, Head_
  <2>2. UNCHANGED loaded \/ \E as : loaded' = loaded \cup {as} /\ FilesAt(as) # {}
    BY <1>1, <1>12, Walked
  <2>3. Tests
    BY <2>1, <2>2, LoadedTested DEF Tests
  <2>4. r = d \/ \E as, imported : /\ r = [Register(d, file, FileAt(as)) EXCEPT !.imported = imported]
                                   /\ FilesAt(as) # {}
    BY <1>1, <1>12, Walked
  <2>5. CASE r = d
    BY <1>4, <2>1, <2>3, <2>5
  <2>6. ASSUME NEW as, NEW imported, r = [Register(d, file, FileAt(as)) EXCEPT !.imported = imported], FilesAt(as) # {}
        PROVE  RInv'
    <3>1. PICK body, q : body = FileAt(as) /\ q = Register(d, file, body)
      OBVIOUS
    <3>2. FileFacts(body)
      <4>1. (CHOOSE k \in FilesAt(as) : TRUE) \in FilesAt(as)
        BY <2>6
      <4>2. PICK k \in DOMAIN layout.files : body = layout.files[k]
        BY <4>1, <3>1 DEF FileAt, FilesAt
      <4>3. body \in Files(layout) /\ layout \in Layouts
        BY <4>2 DEF Files, ToSet, DInv, DTypeOK
      <4> QED BY <4>3, FileFact
    <3>3. /\ q.registry \in Seq(SuiteDefs) /\ q.native \in Seq(SuiteDefs) /\ q.plugins = d.plugins
          /\ q.done = d.done /\ DFields \subseteq DOMAIN q
      <4>1. /\ DFields \subseteq DOMAIN d /\ d.registry \in Seq(SuiteDefs) /\ d.native \in Seq(SuiteDefs)
            /\ FileFacts(file) /\ file.up \in Nat
        BY <1>2, <1>3, <2>1
      <4>2. q = Register(d, file, body)
        BY <3>1
      <4> QED BY <4>1, <4>2, <3>2, RegisterTyped
    <3>4. r = [q EXCEPT !.imported = imported]
      BY <2>6, <3>1
    <3>5. /\ r.registry = q.registry /\ r.native = q.native /\ r.plugins = q.plugins /\ r.done = q.done
      BY <3>3, <3>4 DEF DFields
    <3> QED BY <1>2, <1>5, <2>1, <2>3, <3>3, <3>5
  <2> QED BY <2>4, <2>5, <2>6
<1>13. CASE FinishDiscovery
  <2>1. UNCHANGED <<layout, loaded>> /\ ~d.done
    BY <1>1, <1>13 DEF FinishDiscovery
  <2>2. PICK skips, broken : r = [d EXCEPT !.marker_skips = skips, !.registry = Everything(layout, d, broken), !.done = TRUE]
    BY <1>1, <1>13 DEF FinishDiscovery
  <2>3. PICK l, reg : l = layout /\ reg = Everything(l, d, broken)
    OBVIOUS
  <2>4. SuiteFirst(reg)
    <3>1. l \in Layouts /\ d.registry \in Seq(SuiteDefs) /\ d.native \in Seq(SuiteDefs)
      BY <1>1, <2>1, <2>3 DEF DInv, DTypeOK, RInv
    <3> QED BY <3>1, <2>3, <1>2, EverythingRanked
  <2>5. r = [d EXCEPT !.marker_skips = skips, !.registry = reg, !.done = TRUE]
    BY <2>2, <2>3
  <2>6. r.registry = reg /\ r.plugins = d.plugins /\ r.done = TRUE
    BY <1>2, <2>5 DEF DFields
  <2>7. Tests
    BY <1>6, <2>1
  <2> QED BY <1>1, <1>2, <2>4, <2>6, <2>7 DEF RInv, Tests
<1>14. CASE UNCHANGED discoveryVars
  <2>1. UNCHANGED <<layout, loaded, disc>>
    BY <1>14 DEF discoveryVars
  <2> QED BY <1>1, <1>4, <1>6, <2>1
<1> QED BY <1>8, <1>9, <1>10, <1>11, <1>12, <1>13, <1>14 DEF DiscoveryNext

LEMMA DirFields ==
  ASSUME NEW p
  PROVE  Dir(p).kind = "dir" /\ Dir(p).up = 0 /\ Dir(p).dir = p
BY DEF Dir

\* How near the definitions are that discovery registers.
LEMMA Near ==
  /\ \A d \in SuiteDefs : /\ specificity(d) \in Int /\ specificity(d) <= 20000 /\ d.from = "suite"
                          /\ d.at.up = 0 => specificity(d) >= 0
  /\ \A d \in RootDefs : specificity(d) = 0 /\ d.from # "suite"
<1>1. ASSUME NEW d \in SuiteDefs
      PROVE  /\ specificity(d) \in Int /\ specificity(d) <= 20000 /\ d.from = "suite"
             /\ d.at.up = 0 => specificity(d) >= 0
  <2>1. d.from = "suite" /\ d.at \in Places
    BY DEF SuiteDefs, Definitions
  <2>2. ASSUME NEW p \in NameList, Len(p) < MaxDepth, d.at = Dir(p)
        PROVE  specificity(d) \in Nat /\ specificity(d) <= 20000
    <3>1. specificity(d) = Len(p)
      <4>1. d.at.kind = "dir" /\ d.at.up = 0 /\ d.at.dir = p
        BY <2>2, DirFields
      <4>2. specificity(d) = location_depth(d.at)
        BY <4>1 DEF specificity
      <4> QED BY <4>1, <4>2 DEF location_depth
    <3>2. Len(p) \in Nat
      BY DEF NameList
    <3> QED BY <2>2, <3>1, <3>2 DEF MaxDepth
  <2>3. ASSUME NEW n \in Nat \ {0}, d.at = Above(n)
        PROVE  specificity(d) \in Int /\ specificity(d) <= 20000 /\ d.at.up # 0
    <3>1. d.at.kind = "dir" /\ d.at.up = n
      BY <2>3 DEF Dir, Above
    <3>2. specificity(d) = location_depth(d.at)
      BY <3>1 DEF specificity
    <3>3. location_depth(d.at) = -n
      BY <3>1 DEF location_depth
    <3> QED BY <3>1, <3>2, <3>3
  <2>4. ASSUME NEW m, d.at = InModule(m)
        PROVE  specificity(d) = 10000
    BY <2>4 DEF specificity, Dir, InModule
  <2>5. ASSUME NEW m, NEW c, d.at = InClass(m, c)
        PROVE  specificity(d) = 20000
    BY <2>5 DEF specificity, Dir, InModule, InClass
  <2> QED BY <2>1, <2>2, <2>3, <2>4, <2>5 DEF Places
<1>2. ASSUME NEW d \in RootDefs PROVE specificity(d) = 0 /\ d.from # "suite"
  <2>1. d.at = Dir(<<>>) /\ d.from \in {"builtin", "plugin"}
    BY DEF RootDefs, Definitions, Everywhere
  <2>2. d.at.kind = "dir" /\ d.at.up = 0 /\ d.at.dir = <<>>
    BY <2>1, DirFields
  <2>3. specificity(d) = location_depth(d.at)
    BY <2>2 DEF specificity
  <2>4. location_depth(d.at) = 0
    BY <2>2 DEF location_depth
  <2> QED BY <2>1, <2>3, <2>4
<1> QED BY <1>1, <1>2

\* Of the definitions seen, the one given is as near as any, and the first of those.
LEMMA FirstNearest ==
  ASSUME NEW S, NEW t, NEW name, NEW i \in visible(S, name, t), DOMAIN S.defs \subseteq Nat,
         \A j \in DOMAIN S.defs : specificity(S.defs[j]) \in Int /\ specificity(S.defs[j]) <= 20000
  PROVE  LET w == resolve(S, t, name, NoCeiling)
         IN  /\ w \in DOMAIN S.defs /\ specificity(S.defs[w]) >= specificity(S.defs[i])
             /\ specificity(S.defs[w]) = specificity(S.defs[i]) => w <= i
<1> DEFINE found == {j \in visible(S, name, t) : specificity(S.defs[j]) < NoCeiling}
           spec(j) == specificity(S.defs[j])
           best == {j \in found : \A k \in found : spec(k) <= spec(j)}
           Lag == {20000 - spec(j) : j \in found}
<1>1. resolve(S, t, name, NoCeiling) = IF best = {} THEN 0 ELSE Min(best)
  BY DEF resolve
<1>2. \A j \in found : j \in DOMAIN S.defs /\ j \in Nat /\ spec(j) \in Int /\ spec(j) <= 20000
  BY DEF visible
<1>3. i \in found
  <2>1. spec(i) \in Int /\ spec(i) <= 20000
    BY DEF visible
  <2>2. spec(i) < NoCeiling
    <3> HIDE DEF spec
    <3> QED BY <2>1 DEF NoCeiling
  <2> QED BY <2>2
<1>4. best # {}
  <2>1. Lag \in SUBSET Nat /\ Lag # {}
    <3> HIDE DEF found, spec
    <3>1. \A j \in found : 20000 - spec(j) \in Nat
      BY <1>2
    <3> QED BY <3>1, <1>3
  <2>2. PICK x \in Lag : \A y \in Lag : x <= y
    <3> HIDE DEF Lag
    <3> QED BY <2>1, LeastNat
  <2>3. PICK j \in found : x = 20000 - spec(j)
    OBVIOUS
  <2>4. ASSUME NEW k \in found PROVE spec(k) <= spec(j)
    <3>1. 20000 - spec(j) <= 20000 - spec(k)
      BY <2>2, <2>3
    <3>2. spec(j) \in Int /\ spec(k) \in Int
      BY <1>2
    <3> HIDE DEF spec
    <3> QED BY <3>1, <3>2
  <2>5. j \in best
    BY <2>4
  <2> QED BY <2>5
<1>5. PICK w : w = resolve(S, t, name, NoCeiling)
  OBVIOUS
<1>6. w \in best /\ \A j \in best : w <= j
  <2>1. best \in SUBSET Nat
    BY <1>2
  <2>2. Min(best) \in best /\ \A j \in best : Min(best) <= j
    <3> HIDE DEF best
    <3> QED BY <1>4, <2>1, Least
  <2>3. w = Min(best)
    BY <1>1, <1>4, <1>5
  <2> HIDE DEF best
  <2> QED BY <2>2, <2>3
<1>7. w \in found /\ \A j \in found : spec(j) <= spec(w)
  BY <1>6
<1>8. ASSUME spec(w) = spec(i) PROVE w <= i
  <2>1. i \in best
    BY <1>3, <1>7, <1>8
  <2> QED BY <1>6, <2>1
<1>9. w \in DOMAIN S.defs /\ spec(w) >= spec(i)
  <2>1. spec(w) \in Int /\ spec(i) \in Int /\ spec(i) <= spec(w) /\ w \in DOMAIN S.defs
    BY <1>2, <1>3, <1>7
  <2> HIDE DEF spec
  <2> QED BY <2>1
<1> QED BY <1>5, <1>8, <1>9

LEMMA InvariantOutranks == RInv => SuiteOutranks
<1> SUFFICES ASSUME RInv, disc.done, NEW m, NEW def \in ToSet(disc.registry), def.from = "suite", def.at.up = 0,
                    Sees(def, [module |-> module_key(m.path), dir |-> Directory(m), mro |-> <<>>])
             PROVE  LET S == [defs |-> disc.registry]
                        t == [module |-> module_key(m.path), dir |-> Directory(m), mro |-> <<>>]
                    IN  S.defs[resolve(S, t, def.name, NoCeiling)].from = "suite"
  BY DEF SuiteOutranks
<1>1. PICK S, t, reg : /\ S = [defs |-> disc.registry] /\ reg = disc.registry
                       /\ t = [module |-> module_key(m.path), dir |-> Directory(m), mro |-> <<>>]
  OBVIOUS
<1>2. S.defs = reg /\ Sees(def, t) /\ def \in ToSet(reg)
  BY <1>1
<1> SUFFICES reg[resolve(S, t, def.name, NoCeiling)].from = "suite"
  BY <1>1, <1>2
<1>3. PICK A \in Seq(SuiteDefs), B \in Seq(RootDefs) : reg = A \o B
  BY <1>1 DEF RInv, SuiteFirst
<1>4. PICK n, k : n = Len(A) /\ k = Len(B)
  OBVIOUS
<1>5. n \in Nat /\ k \in Nat
  BY <1>4, LenProperties
<1>6. PICK T : T = SuiteDefs \cup RootDefs
  OBVIOUS
<1>7. A \in Seq(T) /\ B \in Seq(T)
  BY <1>6, SeqMonotonic
<1>8. reg \in Seq(T) /\ Len(reg) = n + k /\ \A j \in 1 .. n + k : reg[j] = IF j <= n THEN A[j] ELSE B[j - n]
  BY <1>3, <1>4, <1>7, ConcatProperties
<1>9. DOMAIN reg = 1 .. n + k /\ ToSet(reg) = {reg[j] : j \in 1 .. n + k}
  BY <1>8, LenProperties, Elements
<1>10. \A j \in 1 .. n + k : (j <= n => reg[j] \in SuiteDefs) /\ (~(j <= n) => reg[j] \in RootDefs)
  <2>1. ASSUME NEW j \in 1 .. n + k, j <= n PROVE reg[j] \in SuiteDefs
    <3>1. j \in 1 .. Len(A) /\ reg[j] = A[j]
      BY <1>4, <1>5, <1>8, <2>1
    <3> QED BY <3>1, ElementOfSeq
  <2>2. ASSUME NEW j \in 1 .. n + k, ~(j <= n) PROVE reg[j] \in RootDefs
    <3>1. j - n \in 1 .. Len(B) /\ reg[j] = B[j - n]
      BY <1>4, <1>5, <1>8, <2>2
    <3> QED BY <3>1, ElementOfSeq
  <2> QED BY <2>1, <2>2
<1>11. PICK i \in 1 .. n + k : reg[i] = def
  BY <1>2, <1>9
<1>12. i \in visible(S, def.name, t)
  BY <1>2, <1>9, <1>11 DEF visible
<1>13. \A j \in 1 .. n + k : specificity(reg[j]) \in Int /\ specificity(reg[j]) <= 20000
  BY <1>10, Near
<1>14. DOMAIN S.defs \subseteq Nat /\
       \A j \in DOMAIN S.defs : specificity(S.defs[j]) \in Int /\ specificity(S.defs[j]) <= 20000
  BY <1>2, <1>5, <1>9, <1>13
<1>15. PICK w : w = resolve(S, t, def.name, NoCeiling)
  OBVIOUS
<1>16. /\ w \in DOMAIN S.defs /\ specificity(S.defs[w]) >= specificity(S.defs[i])
       /\ specificity(S.defs[w]) = specificity(S.defs[i]) => w <= i
  BY <1>12, <1>14, <1>15, FirstNearest
<1>17. i <= n /\ specificity(def) \in Int /\ specificity(def) >= 0
  BY <1>10, <1>11, Near
<1>18. ASSUME ~(w <= n) PROVE FALSE
  <2>1. w \in 1 .. n + k /\ specificity(reg[w]) = 0
    BY <1>2, <1>9, <1>10, <1>16, <1>18, Near
  <2>2. specificity(def) = 0 /\ w <= i
    BY <1>2, <1>11, <1>16, <1>17, <2>1
  <2> QED BY <1>5, <1>17, <1>18, <2>1, <2>2
<1>19. w \in 1 .. n + k
  BY <1>2, <1>9, <1>16
<1>20. reg[w] \in SuiteDefs
  BY <1>10, <1>18, <1>19
<1> QED BY <1>15, <1>20, Near

\* In every layout, whatever the plugins provide: within the run root a fixture that the suite
\* wrote is the one given, and no builtin or plugin of its name.
THEOREM SuiteComesFirst == DiscoverySpec => []SuiteOutranks
BY DInvInit, DInvStep, GInit, GInvStep, RInit, RInvStep, InvariantOutranks, PTL DEF DiscoverySpec
=============================================================================
