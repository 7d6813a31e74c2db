-------------------------- MODULE LaneQueueProofs --------------------------
(***************************************************************************)
(* For any number of lanes, any queue and any tier: a unit is in one       *)
(* lane's hands at a time, no test is ever given the answer to another     *)
(* test's request, and the books balance: every item is still queued, in a *)
(* lane's hands or reported, once, in its file's order.                    *)
(***************************************************************************)
EXTENDS LaneQueue, TLAPS

LEMMA UnitFacts ==
  /\ UnitIds = 1 .. Len(Units) /\ Len(Units) \in Nat
  /\ \A u \in UnitIds : /\ Units[u] \in Seq(Items)
                        /\ DOMAIN Units[u] = 1 .. Len(Units[u])
                        /\ Len(Units[u]) \in Nat \ {0}
                        /\ \A n \in DOMAIN Units[u] : Units[u][n] \in Items
<1>1. Units \in Seq(Seq(Items)) /\ UnitIds = 1 .. Len(Units) /\ Len(Units) \in Nat
  BY UnitsPartition DEF UnitIds
<1>2. ASSUME NEW u \in UnitIds
      PROVE  /\ Units[u] \in Seq(Items) /\ Units[u] # <<>>
             /\ DOMAIN Units[u] = 1 .. Len(Units[u])
             /\ Len(Units[u]) \in Nat \ {0}
             /\ \A n \in DOMAIN Units[u] : Units[u][n] \in Items
  <2>1. Units[u] \in Seq(Items) /\ Units[u] # <<>>
    BY <1>1, <1>2, UnitsPartition DEF UnitIds
  <2> QED BY <2>1
<1> QED BY <1>1, <1>2

\* Where a lane stands tells what it holds and what its pipe can hold.
InHand(l) ==
  /\ phase[l] = "start" => unit[l] = 0
  /\ phase[l] \in {"taken", "send", "wait", "lost"} => unit[l] \in UnitIds
  /\ phase[l] \in {"send", "wait", "lost"} => at[l] \in DOMAIN Units[unit[l]]
  /\ phase[l] = "launching" /\ unit[l] # 0 => at[l] \in DOMAIN Units[unit[l]]
Pipe(l) ==
  /\ phase[l] \in {"start", "launching", "free", "taken", "send"} =>
       frames[l] = <<>> /\ working[l] = NoItem
  /\ phase[l] = "wait" =>
       \/ frames[l] = <<>> /\ working[l] \in {NoItem, Item(l)}
       \/ frames[l] = <<Item(l)>> /\ working[l] = NoItem

IInv ==
  /\ TypeOK
  /\ \A l \in Lanes : InHand(l) /\ Pipe(l)
  /\ HeldOnce /\ OwnAnswer

LEMMA FaultReportType ==
  ASSUME NEW u \in UnitIds, NEW n \in DOMAIN Units[u]
  PROVE  FaultReport(u, n) \subseteq Results /\ \A r \in FaultReport(u, n) : r.kind # "ran"
BY UnitFacts DEF FaultReport, Said, Results

\* A fault is reported with results of its own kinds, whichever way the worker
\* was lost, and the lane's hand is left as it was.
LEMMA FaultHolds ==
  ASSUME IInv, NEW l \in Lanes, phase[l] = "wait", Fault(l),
         UNCHANGED <<left, counter, unit, at, rank, worker, outcome, report, tier>>
  PROVE  IInv'
<1>1. /\ unit[l] \in UnitIds /\ at[l] \in DOMAIN Units[unit[l]]
      /\ phase \in [Lanes -> Phases] /\ mine \in [Lanes -> SUBSET Results]
  BY DEF IInv, TypeOK, InHand
<1>2. \/ phase' = [phase EXCEPT ![l] = "lost"]
      \/ phase' = [phase EXCEPT ![l] = "failed"]
  BY DEF Fault
<1>3. phase' \in [Lanes -> Phases] /\ \A m \in Lanes \ {l} : phase'[m] = phase[m]
  BY <1>1, <1>2 DEF Phases
<1>4. \/ mine' = mine
      \/ mine' = [mine EXCEPT ![l] = @ \cup FaultReport(unit[l], at[l])]
  BY DEF Fault
<1>5. mine' \in [Lanes -> SUBSET Results] /\ OwnAnswer'
  BY <1>1, <1>4, FaultReportType DEF IInv, OwnAnswer
<1>6. TypeOK'
  BY <1>3, <1>5 DEF IInv, TypeOK, worker
<1>7. ASSUME NEW m \in Lanes PROVE InHand(m)' /\ Pipe(m)'
  <2>1. CASE m = l
    BY <2>1, <1>1, <1>2 DEF InHand, Pipe
  <2>2. CASE m # l
    BY <2>2, <1>3, <1>7 DEF IInv, InHand, Pipe, Item, worker
  <2> QED BY <2>1, <2>2
<1>8. HeldOnce'
  BY DEF IInv, HeldOnce
<1> QED BY <1>5, <1>6, <1>7, <1>8 DEF IInv

\* The invariant holds in every reachable state.
THEOREM LaneInvariance == Spec => []IInv
<1>1. Init => IInv
  <2> SUFFICES ASSUME Init PROVE IInv
    OBVIOUS
  <2>1. TypeOK
    BY UnitFacts DEF Init, TypeOK, Phases, Results
  <2> QED BY <2>1 DEF Init, IInv, InHand, Pipe, HeldOnce, OwnAnswer
<1>2. IInv /\ [Next]_vars => IInv'
  <2> SUFFICES ASSUME IInv, [Next]_vars PROVE IInv'
    OBVIOUS
  <2>0. /\ TypeOK /\ HeldOnce /\ OwnAnswer
        /\ \A l \in Lanes : InHand(l) /\ Pipe(l)
    BY DEF IInv
  <2>1. ASSUME NEW l \in Lanes, Start(l) PROVE IInv'
    <3>3. /\ phase[l] = "start"
          /\ phase' \in {[phase EXCEPT ![l] = p] : p \in {"launching", "free", "failed"}}
          /\ proc' = proc \/ proc' = [proc EXCEPT ![l] = "starting"]
          /\ UNCHANGED <<left, counter, unit, at, rank, working, frames, gone, mine, outcome,
                         report, tier>>
      BY <2>1 DEF Start, Launch
    <3>4. unit[l] = 0
      BY <2>0, <3>3 DEF InHand
    <3>1. TypeOK'
      BY <2>0, <3>3 DEF TypeOK, Phases
    <3>2. \A m \in Lanes : InHand(m)' /\ Pipe(m)'
      BY <2>0, <3>3, <3>4 DEF TypeOK, InHand, Pipe, Item
    <3> QED BY <2>0, <3>3, <3>1, <3>2 DEF IInv, HeldOnce, OwnAnswer
  <2>13. ASSUME NEW l \in Lanes, Ready(l) PROVE IInv'
    <3>1. TypeOK'
      BY <2>0, <2>13 DEF Ready, TypeOK, Phases
    <3>2. \A m \in Lanes : InHand(m)' /\ Pipe(m)'
      BY <2>0, <2>13 DEF Ready, TypeOK, InHand, Pipe, Item
    <3> QED BY <2>0, <2>13, <3>1, <3>2 DEF Ready, IInv, HeldOnce, OwnAnswer
  <2>14. ASSUME NEW l \in Lanes, NotReady(l) PROVE IInv'
    <3>1. TypeOK'
      BY <2>0, <2>14 DEF NotReady, TypeOK, Phases
    <3>2. \A m \in Lanes : InHand(m)' /\ Pipe(m)'
      BY <2>0, <2>14 DEF NotReady, TypeOK, InHand, Pipe, Item
    <3> QED BY <2>0, <2>14, <3>1, <3>2 DEF NotReady, IInv, HeldOnce, OwnAnswer
  <2>15. ASSUME NEW l \in Lanes, Reap(l) PROVE IInv'
    <3>1. TypeOK'
      BY <2>0, <2>15 DEF Reap, TypeOK, Phases, worker
    <3>2. \A m \in Lanes : InHand(m)' /\ Pipe(m)'
      BY <2>0, <2>15 DEF Reap, TypeOK, InHand, Pipe, Item, worker
    <3> QED BY <2>0, <2>15, <3>1, <3>2 DEF Reap, IInv, HeldOnce, OwnAnswer, worker
  <2>2. ASSUME NEW l \in Lanes, Pop(l) PROVE IInv'
    <3>1. CASE left = 0
      <4>1. TypeOK'
        BY <2>0, <2>2, <3>1 DEF Pop, TypeOK, Phases, worker
      <4>2. \A m \in Lanes : InHand(m)' /\ Pipe(m)'
        BY <2>0, <2>2, <3>1 DEF Pop, TypeOK, InHand, Pipe, Item, worker
      <4> QED BY <2>0, <2>2, <3>1, <4>1, <4>2 DEF Pop, IInv, HeldOnce, OwnAnswer
    <3>2. CASE left # 0
      <4>1. /\ unit' = [unit EXCEPT ![l] = left] /\ left' = left - 1
            /\ phase' = [phase EXCEPT ![l] = "taken"]
            /\ UNCHANGED <<counter, at, rank, working, frames, gone, mine, outcome, report, tier, proc>>
            /\ left \in UnitIds
        BY <2>0, <2>2, <3>2, UnitFacts DEF Pop, TypeOK, worker
      <4>2. TypeOK'
        BY <2>0, <4>1, UnitFacts DEF TypeOK, Phases
      <4>3. \A m \in Lanes : InHand(m)' /\ Pipe(m)'
        <5> SUFFICES ASSUME NEW m \in Lanes PROVE InHand(m)' /\ Pipe(m)'
          OBVIOUS
        <5>1. CASE m = l
          BY <5>1, <2>0, <2>2, <4>1 DEF TypeOK, InHand, Pipe, Pop
        <5>2. CASE m # l
          BY <5>2, <2>0, <4>1 DEF TypeOK, InHand, Pipe, Item
        <5> QED BY <5>1, <5>2
      <4>4. HeldOnce'
        BY <2>0, <4>1, UnitFacts DEF TypeOK, HeldOnce
      <4> QED BY <2>0, <4>1, <4>2, <4>3, <4>4 DEF IInv, OwnAnswer
    <3> QED BY <3>1, <3>2
  <2>3. ASSUME NEW l \in Lanes, Number(l) PROVE IInv'
    <3>1. unit[l] \in UnitIds
      BY <2>0, <2>3 DEF Number, InHand
    <3>4. /\ phase' \in {[phase EXCEPT ![l] = p] : p \in {"send", "launching", "failed"}}
          /\ proc' = proc \/ proc' = [proc EXCEPT ![l] = "starting"]
          /\ rank' = [rank EXCEPT ![unit[l]] = counter + 1] /\ counter' = counter + 1
          /\ at' = [at EXCEPT ![l] = 1] /\ phase[l] = "taken"
          /\ UNCHANGED <<left, unit, working, frames, gone, mine, outcome, report, tier>>
      BY <2>3 DEF Number, Launch
    <3>5. proc' \in [Lanes -> {"none", "starting", "live", "dead"}]
      BY <2>0, <3>4 DEF TypeOK
    <3>7. counter' \in Nat /\ counter + 1 \in Nat
      BY <2>0, <3>4 DEF TypeOK
    <3>6. phase' \in [Lanes -> Phases]
      <4>1. \A p \in {"send", "launching", "failed"} : [phase EXCEPT ![l] = p] \in [Lanes -> Phases]
        BY <2>0 DEF TypeOK, Phases
      <4> QED BY <3>4, <4>1
    <3>8. rank' \in [UnitIds -> Nat]
      BY <2>0, <3>1, <3>4, <3>7 DEF TypeOK
    <3>9. at' \in [Lanes -> Nat \ {0}]
      BY <2>0, <3>4 DEF TypeOK
    <3>2. TypeOK'
      BY <2>0, <3>4, <3>5, <3>6, <3>7, <3>8, <3>9 DEF TypeOK
    <3>3. \A m \in Lanes : InHand(m)' /\ Pipe(m)'
      <4> SUFFICES ASSUME NEW m \in Lanes PROVE InHand(m)' /\ Pipe(m)'
        OBVIOUS
      <4>1. CASE m = l
        <5>1. frames'[l] = <<>> /\ working'[l] = NoItem /\ phase'[l] \in {"send", "launching", "failed"}
          BY <2>0, <3>4 DEF Pipe, TypeOK
        <5>2. at'[l] = 1 /\ unit'[l] = unit[l] /\ 1 \in DOMAIN Units[unit[l]]
          BY <2>0, <3>1, <3>4, UnitFacts DEF TypeOK
        <5> QED BY <4>1, <5>1, <5>2, <3>1 DEF InHand, Pipe
      <4>2. CASE m # l
        BY <4>2, <2>0, <3>4 DEF TypeOK, InHand, Pipe, Item
      <4> QED BY <4>1, <4>2
    <3> QED BY <2>0, <2>3, <3>2, <3>3 DEF Number, IInv, HeldOnce, OwnAnswer
  <2>4. ASSUME NEW l \in Lanes, Send(l) PROVE IInv'
    <3>1. Item(l) \in Items
      BY <2>0, <2>4, UnitFacts DEF Send, InHand, Item
    <3>2. TypeOK'
      BY <2>0, <2>4, <3>1 DEF Send, TypeOK, Phases
    <3>3. \A m \in Lanes : InHand(m)' /\ Pipe(m)'
      BY <2>0, <2>4 DEF Send, TypeOK, InHand, Pipe, Item
    <3> QED BY <2>0, <2>4, <3>2, <3>3 DEF Send, IInv, HeldOnce, OwnAnswer
  <2>5. ASSUME NEW l \in Lanes, Answer(l) PROVE IInv'
    <3>1. /\ frames' = [frames EXCEPT ![l] = Append(@, working[l])]
          /\ working' = [working EXCEPT ![l] = NoItem]
          /\ working[l] # NoItem /\ working[l] \in Items
          /\ UNCHANGED <<left, counter, phase, unit, at, rank, proc, gone, mine, outcome, report, tier>>
      BY <2>0, <2>5 DEF Answer, TypeOK
    <3>2. TypeOK'
      BY <2>0, <3>1 DEF TypeOK
    <3>3. \A m \in Lanes : InHand(m)' /\ Pipe(m)'
      <4> SUFFICES ASSUME NEW m \in Lanes PROVE InHand(m)' /\ Pipe(m)'
        OBVIOUS
      <4>1. CASE m = l
        <5>1. working'[l] = NoItem /\ frames'[l] = Append(frames[l], working[l])
          BY <2>0, <3>1 DEF TypeOK
        <5>2. Item(l)' = Item(l) /\ InHand(l)'
          BY <2>0, <3>1 DEF Item, InHand
        <5>3. phase[l] \notin {"start", "launching", "free", "taken", "send"}
          BY <2>0, <3>1 DEF Pipe
        <5>4. phase[l] = "wait" => frames[l] = <<>> /\ working[l] = Item(l)
          BY <2>0, <3>1 DEF Pipe
        <5>5. phase[l] = "wait" => frames'[l] = <<Item(l)>>
          <6>1. Append(<<>>, Item(l)) = <<Item(l)>>
            OBVIOUS
          <6> QED BY <5>1, <5>4, <6>1
        <5> QED BY <4>1, <3>1, <5>1, <5>2, <5>3, <5>5 DEF Pipe
      <4>2. CASE m # l
        BY <4>2, <2>0, <3>1 DEF TypeOK, InHand, Pipe, Item
      <4> QED BY <4>1, <4>2
    <3> QED BY <2>0, <3>1, <3>2, <3>3 DEF IInv, HeldOnce, OwnAnswer
  <2>6. ASSUME NEW l \in Lanes, Die(l) PROVE IInv'
    <3>1. TypeOK'
      BY <2>0, <2>6 DEF Die, TypeOK
    <3>2. \A m \in Lanes : InHand(m)' /\ Pipe(m)'
      BY <2>0, <2>6 DEF Die, TypeOK, InHand, Pipe, Item
    <3> QED BY <2>0, <2>6, <3>1, <3>2 DEF Die, IInv, HeldOnce, OwnAnswer
  <2>7. ASSUME NEW l \in Lanes, Receive(l) PROVE IInv'
    <3>1. /\ unit[l] \in UnitIds /\ at[l] \in DOMAIN Units[unit[l]] /\ Item(l) \in Items
          /\ frames[l] = <<Item(l)>> /\ working[l] = NoItem
      BY <2>0, <2>7, UnitFacts DEF Receive, InHand, Pipe, Item
    <3>2. /\ mine' = [mine EXCEPT ![l] = @ \cup {Said(Item(l), "ran", Item(l))}]
          /\ frames' = [frames EXCEPT ![l] = <<>>]
      BY <3>1, <2>7 DEF Receive
    <3>3. \/ /\ at' = [at EXCEPT ![l] = @ + 1] /\ phase' = [phase EXCEPT ![l] = "send"]
             /\ unit' = unit /\ at[l] < Len(Units[unit[l]])
          \/ /\ unit' = [unit EXCEPT ![l] = 0] /\ phase' = [phase EXCEPT ![l] = "free"]
             /\ at' = at
      BY <2>7 DEF Receive
    <3>4. UNCHANGED <<left, counter, rank, proc, working, gone, outcome, report, tier>>
      BY <2>7 DEF Receive
    <3>5. TypeOK'
      <4>1. Said(Item(l), "ran", Item(l)) \in Results
        BY <3>1 DEF Said, Results
      <4>2. mine' \in [Lanes -> SUBSET Results] /\ frames' \in [Lanes -> Seq(Items)]
        BY <2>0, <3>2, <4>1 DEF TypeOK
      <4>3. at' \in [Lanes -> Nat \ {0}]
        <5>1. at[l] + 1 \in Nat \ {0}
          BY <2>0 DEF TypeOK
        <5>2. at' = at \/ at' = [at EXCEPT ![l] = at[l] + 1]
          BY <3>3
        <5> QED BY <2>0, <5>1, <5>2 DEF TypeOK
      <4>5. unit' \in [Lanes -> UnitIds \cup {0}]
        BY <2>0, <3>3 DEF TypeOK
      <4>4. phase' \in [Lanes -> Phases]
        BY <2>0, <3>3 DEF TypeOK, Phases
      <4> QED BY <2>0, <3>4, <4>2, <4>3, <4>4, <4>5 DEF TypeOK
    <3>6. \A m \in Lanes : InHand(m)' /\ Pipe(m)'
      <4> SUFFICES ASSUME NEW m \in Lanes PROVE InHand(m)' /\ Pipe(m)'
        OBVIOUS
      <4>1. CASE m = l
        <5>1. frames'[l] = <<>> /\ working'[l] = NoItem
          BY <2>0, <3>1, <3>2, <3>4 DEF TypeOK
        <5>2. phase'[l] \in {"send", "free"} /\ InHand(l)'
          BY <2>0, <3>1, <3>3, UnitFacts DEF TypeOK, InHand
        <5> QED BY <4>1, <5>1, <5>2 DEF Pipe
      <4>2. CASE m # l
        BY <4>2, <2>0, <3>2, <3>3, <3>4 DEF TypeOK, InHand, Pipe, Item
      <4> QED BY <4>1, <4>2
    <3>7. HeldOnce'
      BY <2>0, <3>1, <3>3, <3>4 DEF TypeOK, HeldOnce
    <3>8. OwnAnswer'
      BY <2>0, <3>2 DEF TypeOK, OwnAnswer, Said
    <3> QED BY <3>5, <3>6, <3>7, <3>8 DEF IInv
  <2>8. ASSUME NEW l \in Lanes, Overdue(l) PROVE IInv'
    BY <2>8, FaultHolds DEF Overdue
  <2>9. ASSUME NEW l \in Lanes, Closed(l) PROVE IInv'
    BY <2>9, FaultHolds DEF Closed
  <2>10. ASSUME NEW l \in Lanes, Retire(l) PROVE IInv'
    <3>4. /\ phase' = [phase EXCEPT ![l] = "done"] \/ phase' = [phase EXCEPT ![l] = "free"]
          /\ gone' = gone \/ gone' = [gone EXCEPT ![l] = TRUE]
          /\ proc' = [proc EXCEPT ![l] = "dead"] \/ proc' = [proc EXCEPT ![l] = "none"]
          /\ frames' = frames \/ frames' = [frames EXCEPT ![l] = <<>>]
          /\ unit' = [unit EXCEPT ![l] = 0] /\ working' = [working EXCEPT ![l] = NoItem]
          /\ UNCHANGED <<left, counter, at, rank, mine, outcome, report, tier>>
      BY <2>10 DEF Retire
    <3>5. phase' \in [Lanes -> Phases] /\ gone' \in [Lanes -> BOOLEAN]
      BY <2>0, <3>4 DEF TypeOK, Phases
    <3>6. proc' \in [Lanes -> {"none", "starting", "live", "dead"}]
      BY <2>0, <3>4 DEF TypeOK
    <3>7. frames' \in [Lanes -> Seq(Items)]
      <4>1. <<>> \in Seq(Items)
        OBVIOUS
      <4> QED BY <2>0, <3>4, <4>1 DEF TypeOK
    <3>1. TypeOK'
      BY <2>0, <3>4, <3>5, <3>6, <3>7 DEF TypeOK
    <3>2. \A m \in Lanes : InHand(m)' /\ Pipe(m)'
      BY <2>0, <2>10 DEF Retire, TypeOK, InHand, Pipe, Item
    <3>3. HeldOnce'
      BY <2>0, <2>10 DEF Retire, TypeOK, HeldOnce
    <3> QED BY <2>0, <2>10, <3>1, <3>2, <3>3 DEF Retire, IInv, OwnAnswer
  <2>11. CASE Join
    <3>1. TypeOK'
      BY <2>0, <2>11 DEF Join, TypeOK, worker
    <3> QED BY <2>0, <2>11, <3>1 DEF Join, worker, IInv, InHand, Pipe, Item, HeldOnce, OwnAnswer
  <2>12. CASE UNCHANGED vars
    BY <2>0, <2>12 DEF vars, IInv, TypeOK, InHand, Pipe, Item, HeldOnce, OwnAnswer
  <2> QED BY <2>1, <2>2, <2>3, <2>4, <2>5, <2>6, <2>7, <2>8, <2>9, <2>10, <2>11, <2>12,
             <2>13, <2>14, <2>15
          DEF Next, Lane, Process
<1> QED BY <1>1, <1>2, PTL DEF Spec

\* Every variable keeps its type.
THEOREM LaneTyping == Spec => []TypeOK
BY LaneInvariance, PTL DEF IInv

\* A unit is in at most one lane's hands, and out of the queue once it is.
THEOREM UnitsHeldOnce == Spec => []HeldOnce
BY LaneInvariance, PTL DEF IInv

\* No test is reported by the answer to another's request.
THEOREM AnswersAreOwn == Spec => []OwnAnswer
BY LaneInvariance, PTL DEF IInv
-----------------------------------------------------------------------------
(* The books of a run: which tests have been reported, and by whom.        *)

Reported(l, u, i) == \E r \in mine[l] : r.item = Units[u][i]

\* A lane at a position of the unit in hand.
Going == {"launching", "send", "wait"}

\* Whatever is reported is a queued test's.
Listed ==
  \A l \in Lanes : \A r \in mine[l] :
    \E u \in UnitIds : \E i \in DOMAIN Units[u] : r.item = Units[u][i]

\* A result is of a unit that has left the queue.  Of a unit still in hand, only the
\* lane that holds it has results: the tests before the one it is at, all of which ran.
Ledger ==
  \A l \in Lanes : \A r \in mine[l] : \A u \in UnitIds : \A i \in DOMAIN Units[u] :
    r.item = Units[u][i] =>
      /\ left < u
      /\ \A m \in Lanes : unit[m] = u =>
           /\ m = l /\ phase[m] # "taken"
           /\ phase[m] \in Going => i < at[m] /\ r.kind = "ran"

\* How far a lane has got with the unit in hand, and how it may have stopped.
Progress(l) ==
  /\ phase[l] \in {"start", "free", "closing", "done"} => unit[l] = 0
  /\ phase[l] \in Going /\ unit[l] # 0 =>
       \A i \in DOMAIN Units[unit[l]] : i < at[l] => Reported(l, unit[l], i)
  /\ phase[l] = "lost" => \A i \in DOMAIN Units[unit[l]] : Reported(l, unit[l], i)
  /\ phase[l] \in {"closing", "done"} /\ ~gone[l] => left = 0
  /\ phase[l] = "failed" /\ Reports => proc[l] = "none"

\* A unit that has left the queue is in a lane's hands, or all of it is reported.
Served ==
  \A u \in UnitIds : left < u =>
    \/ \E l \in Lanes : unit[l] = u
    \/ \A i \in DOMAIN Units[u] : \E l \in Lanes : Reported(l, u, i)

Ending ==
  /\ outcome # "running" => \A l \in Lanes : phase[l] \in {"done", "failed"}
  /\ outcome = "err" => \E l \in Lanes : phase[l] = "failed"
  /\ outcome = "ok" =>
       (\A l \in Lanes : phase[l] = "done") /\ report = UNION {mine[l] : l \in Lanes}

Numbers == NumberedOnce /\ \A u \in UnitIds : rank[u] <= counter

Books ==
  /\ Listed /\ Ledger /\ Served /\ Ending /\ Numbers
  /\ \A l \in Lanes : Progress(l)
  /\ ReportedOnce /\ FileOrder

\* A test has one place in the queue.
LEMMA OnePlace ==
  ASSUME NEW u \in UnitIds, NEW v \in UnitIds, NEW i \in DOMAIN Units[u], NEW j \in DOMAIN Units[v],
         Units[u][i] = Units[v][j]
  PROVE  u = v /\ i = j
BY UnitsPartition DEF UnitIds

\* A step that reports nothing leaves what results say of each other as it was.
LEMMA NothingReported ==
  ASSUME Books, mine' = mine
  PROVE  ReportedOnce' /\ FileOrder' /\ Listed'
BY DEF Books, ReportedOnce, FileOrder, Listed

\* A step that numbers nothing leaves the numbers as they were.
LEMMA NothingNumbered ==
  ASSUME Books, rank' = rank, counter' = counter
  PROVE  Numbers'
BY DEF Books, Numbers, NumberedOnce

\* A step before the run is joined.
LEMMA StillRunning ==
  ASSUME Books, NEW l \in Lanes, phase[l] \notin {"done", "failed"}, outcome' = outcome
  PROVE  Ending'
BY DEF Books, Ending

\* A step that reports nothing and takes no unit from the queue, of lanes that go on
\* with their unit or start on it, or are through with it.
LEMMA BooksKept ==
  ASSUME Books, TypeOK, mine' = mine, left' = left,
         \A m \in Lanes :
           \/ /\ unit'[m] = unit[m] /\ (phase'[m] = "taken" => phase[m] = "taken")
              /\ phase'[m] \in Going =>
                   \/ phase[m] \in Going /\ at'[m] = at[m]
                   \/ phase[m] = "taken"
           \/ unit'[m] = 0 /\ (unit[m] = 0 \/ \A i \in DOMAIN Units[unit[m]] : Reported(m, unit[m], i))
  PROVE  Ledger' /\ Served'
<1>0. Ledger /\ Served /\ 0 \notin UnitIds
  BY UnitFacts DEF Books
<1>1. Ledger'
  <2> SUFFICES ASSUME NEW l \in Lanes, NEW r \in mine[l], NEW u \in UnitIds,
                      NEW i \in DOMAIN Units[u], r.item = Units[u][i],
                      NEW m \in Lanes, unit'[m] = u
               PROVE  /\ m = l /\ phase'[m] # "taken"
                      /\ phase'[m] \in Going => i < at'[m] /\ r.kind = "ran"
    BY <1>0 DEF Ledger
  <2>1. unit[m] = u
    BY <1>0
  <2> QED BY <1>0, <2>1 DEF Ledger
<1>2. Served'
  <2> SUFFICES ASSUME NEW u \in UnitIds, left < u, \A l \in Lanes : unit'[l] # u
               PROVE  \A i \in DOMAIN Units[u] : \E l \in Lanes : Reported(l, u, i)
    BY DEF Served, Reported
  <2>1. CASE \E l \in Lanes : unit[l] = u
    BY <2>1, <1>0
  <2>2. CASE \A l \in Lanes : unit[l] # u
    BY <2>2, <1>0 DEF Served
  <2> QED BY <2>1, <2>2
<1> QED BY <1>1, <1>2

\* What a lane's step leaves of the other lanes' progress: all of it.
LEMMA OthersProgress ==
  ASSUME Books, NEW l \in Lanes, left = 0 => left' = 0, tier' = tier,
         \A m \in Lanes \ {l} :
           /\ phase'[m] = phase[m] /\ unit'[m] = unit[m] /\ at'[m] = at[m]
           /\ gone'[m] = gone[m] /\ proc'[m] = proc[m] /\ mine'[m] = mine[m]
  PROVE  \A m \in Lanes \ {l} : Progress(m)'
BY DEF Books, Progress, Reported, Reports

\* A lane starts, becomes ready or does not, or is through: it has nothing to report,
\* and what it has in hand stays there.
LEMMA StandingBooks ==
  ASSUME IInv, Books, NEW l \in Lanes, Start(l) \/ Ready(l) \/ NotReady(l) \/ Reap(l)
  PROVE  Books'
<1>0. TypeOK /\ Progress(l)
  BY DEF IInv, Books
<1>1. /\ phase[l] \in {"start", "launching", "closing"}
      /\ \A m \in Lanes \ {l} : phase'[m] = phase[m] /\ proc'[m] = proc[m]
      /\ UNCHANGED <<left, counter, unit, at, rank, gone, mine, outcome, report, tier>>
  BY <1>0 DEF Start, Launch, Ready, NotReady, Reap, worker, TypeOK
<1>2. \/ phase[l] = "start" /\ phase'[l] \in {"launching", "free"}
      \/ phase[l] = "start" /\ phase'[l] = "failed" /\ ~Reports
      \/ phase[l] = "launching" /\ phase'[l] = IF unit[l] = 0 THEN "free" ELSE "send"
      \/ phase[l] = "launching" /\ phase'[l] = "failed" /\ proc'[l] = "none"
      \/ phase[l] = "closing" /\ phase'[l] = "done"
  BY <1>0 DEF Start, Launch, Ready, NotReady, Reap, TypeOK, Reports
<1>3. ReportedOnce' /\ FileOrder' /\ Listed' /\ Numbers' /\ Ending'
  BY <1>1, NothingReported, NothingNumbered, StillRunning
<1>4. Ledger' /\ Served'
  BY <1>0, <1>1, <1>2, BooksKept DEF Progress, Going
<1>5. Progress(l)'
  BY <1>0, <1>1, <1>2 DEF Progress, Reported, Reports, Going
<1>6. \A m \in Lanes \ {l} : Progress(m)'
  BY <1>1, OthersProgress
<1> QED BY <1>3, <1>4, <1>5, <1>6 DEF Books

LEMMA PopBooks ==
  ASSUME IInv, Books, NEW l \in Lanes, Pop(l)
  PROVE  Books'
<1>0. /\ TypeOK /\ Progress(l) /\ phase[l] = "free" /\ unit[l] = 0 /\ left \in Nat
      /\ UNCHANGED <<counter, at, rank, working, frames, gone, mine, outcome, report, tier>>
  BY DEF IInv, Books, Progress, Pop, TypeOK, worker
<1>1. ReportedOnce' /\ FileOrder' /\ Listed' /\ Numbers' /\ Ending'
  BY <1>0, NothingReported, NothingNumbered, StillRunning
<1>2. CASE left = 0
  <2>1. /\ phase' \in {[phase EXCEPT ![l] = "done"], [phase EXCEPT ![l] = "closing"]}
        /\ left' = left /\ unit' = unit /\ proc' = proc
    BY <1>2 DEF Pop, worker
  <2>2. Ledger' /\ Served'
    BY <1>0, <2>1, BooksKept DEF TypeOK, Going
  <2>3. Progress(l)'
    BY <1>0, <1>2, <2>1 DEF Progress, TypeOK, Going
  <2>4. \A m \in Lanes \ {l} : Progress(m)'
    BY <1>0, <2>1, OthersProgress DEF TypeOK
  <2> QED BY <1>1, <2>2, <2>3, <2>4 DEF Books
<1>3. CASE left # 0
  <2>1. /\ phase' = [phase EXCEPT ![l] = "taken"] /\ left' = left - 1 /\ proc' = proc
        /\ unit' = [unit EXCEPT ![l] = left]
    BY <1>3 DEF Pop, worker
  <2>2. Ledger'
    <3> SUFFICES ASSUME NEW k \in Lanes, NEW r \in mine[k], NEW u \in UnitIds,
                        NEW i \in DOMAIN Units[u], r.item = Units[u][i]
                 PROVE  /\ left' < u
                        /\ \A m \in Lanes : unit'[m] = u =>
                             /\ m = k /\ phase'[m] # "taken"
                             /\ phase'[m] \in Going => i < at'[m] /\ r.kind = "ran"
      BY <1>0 DEF Ledger
    <3>1. /\ left < u
          /\ \A m \in Lanes : unit[m] = u =>
               /\ m = k /\ phase[m] # "taken"
               /\ phase[m] \in Going => i < at[m] /\ r.kind = "ran"
      BY DEF Books, Ledger
    <3>2. u \in Nat /\ left' < u
      BY <3>1, <1>0, <2>1, UnitFacts
    <3>3. ASSUME NEW m \in Lanes, unit'[m] = u
          PROVE  m # l /\ unit[m] = u /\ phase'[m] = phase[m] /\ at'[m] = at[m]
      BY <3>3, <3>1, <3>2, <1>0, <2>1 DEF TypeOK
    <3> QED BY <3>1, <3>2, <3>3
  <2>3. Served'
    <3> SUFFICES ASSUME NEW u \in UnitIds, left' < u, \A m \in Lanes : unit'[m] # u
                 PROVE  \A i \in DOMAIN Units[u] : \E m \in Lanes : Reported(m, u, i)
      BY <1>0 DEF Served, Reported
    <3>1. u \in Nat /\ unit'[l] = left /\ left < u /\ u # 0
      BY <1>0, <2>1, UnitFacts DEF TypeOK
    <3>2. \A m \in Lanes : unit[m] # u
      BY <3>1, <1>0, <2>1 DEF TypeOK
    <3> QED BY <3>1, <3>2 DEF Books, Served
  <2>4. Progress(l)'
    BY <1>0, <2>1 DEF Progress, TypeOK, Going
  <2>5. \A m \in Lanes \ {l} : Progress(m)'
    BY <1>0, <1>3, <2>1, OthersProgress DEF TypeOK
  <2> QED BY <1>1, <2>2, <2>3, <2>4, <2>5 DEF Books
<1> QED BY <1>2, <1>3

LEMMA NumberBooks ==
  ASSUME IInv, Books, NEW l \in Lanes, Number(l)
  PROVE  Books'
<1>1. /\ phase[l] = "taken"
      /\ \/ phase' \in {[phase EXCEPT ![l] = "send"], [phase EXCEPT ![l] = "launching"]}
         \/ phase' = [phase EXCEPT ![l] = "failed"] /\ proc[l] = "none" /\ proc' = proc
      /\ proc' = proc \/ proc' = [proc EXCEPT ![l] = "starting"]
      /\ rank' = [rank EXCEPT ![unit[l]] = counter + 1] /\ counter' = counter + 1
      /\ at' = [at EXCEPT ![l] = 1]
      /\ UNCHANGED <<left, unit, gone, mine, outcome, report, tier>>
  BY DEF Number, Launch
<1>0. /\ TypeOK /\ Progress(l) /\ counter \in Nat /\ Numbers
      /\ unit[l] \in UnitIds /\ rank \in [UnitIds -> Nat]
  BY <1>1 DEF IInv, InHand, Books, TypeOK
<1>2. ReportedOnce' /\ FileOrder' /\ Listed' /\ Ending'
  BY <1>1, NothingReported, StillRunning
<1>3. Numbers'
  <2>1. \A u \in UnitIds : rank'[u] = IF u = unit[l] THEN counter + 1 ELSE rank[u]
    BY <1>0, <1>1
  <2>2. \A u \in UnitIds : rank[u] \in Nat /\ rank[u] <= counter
    BY <1>0 DEF Numbers
  <2> QED BY <1>0, <1>1, <2>1, <2>2 DEF Numbers, NumberedOnce
<1>4. Ledger' /\ Served'
  BY <1>0, <1>1, BooksKept DEF TypeOK, Going
<1>5. Progress(l)'
  <2>1. at'[l] = 1 /\ \A i \in DOMAIN Units[unit[l]] : ~(i < 1)
    BY <1>0, <1>1, UnitFacts DEF TypeOK
  <2> QED BY <1>0, <1>1, <2>1 DEF Progress, TypeOK, Going
<1>6. \A m \in Lanes \ {l} : Progress(m)'
  BY <1>0, <1>1, OthersProgress DEF TypeOK
<1> QED BY <1>2, <1>3, <1>4, <1>5, <1>6 DEF Books

LEMMA SendBooks ==
  ASSUME IInv, Books, NEW l \in Lanes, Send(l)
  PROVE  Books'
<1>1. /\ phase[l] = "send" /\ phase' = [phase EXCEPT ![l] = "wait"]
      /\ UNCHANGED <<left, counter, unit, at, rank, proc, gone, mine, outcome, report, tier>>
  BY DEF Send
<1>0. TypeOK /\ Progress(l)
  BY DEF IInv, Books
<1>2. ReportedOnce' /\ FileOrder' /\ Listed' /\ Numbers' /\ Ending'
  BY <1>1, NothingReported, NothingNumbered, StillRunning
<1>3. Ledger' /\ Served'
  BY <1>0, <1>1, BooksKept DEF TypeOK, Going
<1>4. Progress(l)'
  BY <1>0, <1>1 DEF Progress, TypeOK, Reported, Going
<1>5. \A m \in Lanes \ {l} : Progress(m)'
  BY <1>0, <1>1, OthersProgress DEF TypeOK
<1> QED BY <1>2, <1>3, <1>4, <1>5 DEF Books

\* What a worker's process does changes none of the books.
LEMMA ProcessBooks ==
  ASSUME IInv, Books, NEW l \in Lanes, Answer(l) \/ Die(l)
  PROVE  Books'
<1>1. /\ proc' = proc \/ (proc[l] # "none" /\ proc' = [proc EXCEPT ![l] = "dead"])
      /\ UNCHANGED <<left, counter, phase, unit, at, rank, gone, mine, outcome, report, tier>>
  BY DEF Answer, Die
<1>0. TypeOK /\ \A m \in Lanes : Progress(m)
  BY DEF IInv, Books
<1>2. ReportedOnce' /\ FileOrder' /\ Listed' /\ Numbers'
  BY <1>1, NothingReported, NothingNumbered
<1>3. Ledger' /\ Served'
  BY <1>0, <1>1, BooksKept
<1>4. Ending'
  BY <1>1 DEF Books, Ending
<1>5. ASSUME NEW m \in Lanes PROVE Progress(m)'
  <2>1. proc[m] = "none" => proc'[m] = "none"
    BY <1>0, <1>1 DEF TypeOK
  <2> QED BY <1>0, <1>1, <2>1 DEF Progress, Reported, Reports
<1> QED BY <1>2, <1>3, <1>4, <1>5 DEF Books

\* A result of a test the lane has not got past.
Fresh(l, r) == \E i \in DOMAIN Units[unit[l]] : at[l] <= i /\ r.item = Units[unit[l]][i]

\* A lane at position n of its unit reports some of the tests from n on, each once and
\* in the order of the file.
LEMMA Reporting ==
  ASSUME IInv, Books, NEW l \in Lanes, phase[l] = "wait",
         \A m \in Lanes : \A r \in mine'[m] : r \in mine[m] \/ (m = l /\ Fresh(l, r)),
         \A x, y \in mine'[l] \ mine[l] : x.item = y.item => x = y,
         \A x, y \in mine'[l] \ mine[l] : \A i, j \in DOMAIN Units[unit[l]] :
           (Units[unit[l]][i] = x.item /\ Units[unit[l]][j] = y.item /\ i < j) =>
             y.kind = "after" /\ (x.kind = "fault" => y.from = x.item)
  PROVE  ReportedOnce' /\ FileOrder' /\ Listed'
<1> DEFINE U == unit[l]
           n == at[l]
           New == mine'[l] \ mine[l]
<1>0. /\ U \in UnitIds /\ n \in DOMAIN Units[U] /\ DOMAIN Units[U] \subseteq Nat
      /\ mine \in [Lanes -> SUBSET Results] /\ n \in Nat
  BY UnitFacts DEF IInv, InHand, TypeOK
<1>1. Ledger /\ Listed /\ ReportedOnce /\ FileOrder
  BY DEF Books
<1>2. \A m \in Lanes : \A r \in mine'[m] : r \in mine[m] \/ (m = l /\ r \in New)
  OBVIOUS
<1>3. \A x \in New : \E i \in DOMAIN Units[U] : n <= i /\ x.item = Units[U][i]
  BY DEF Fresh
\* An earlier result of the unit is of a test before n, which ran.
<1>4. ASSUME NEW m \in Lanes, NEW r \in mine[m], NEW i \in DOMAIN Units[U], r.item = Units[U][i]
      PROVE  m = l /\ i < n /\ r.kind = "ran"
  <2>1. \A p \in Lanes : unit[p] = U =>
          p = m /\ (phase[p] \in Going => i < at[p] /\ r.kind = "ran")
    BY <1>0, <1>1, <1>4 DEF Ledger
  <2> QED BY <2>1 DEF Going
<1>5. ASSUME NEW m \in Lanes, NEW r \in mine[m], NEW x \in New
      PROVE  r.item # x.item
  <2>1. PICK i \in DOMAIN Units[U] : n <= i /\ x.item = Units[U][i]
    BY <1>3
  <2> QED BY <2>1, <1>0, <1>4
<1>6. ReportedOnce'
  <2> SUFFICES ASSUME NEW p \in Lanes, NEW m \in Lanes, NEW r \in mine'[p], NEW s \in mine'[m],
                      r.item = s.item
               PROVE  p = m /\ r = s
    BY DEF ReportedOnce
  <2>1. CASE r \in mine[p] /\ s \in mine[m]
    BY <2>1, <1>1 DEF ReportedOnce
  <2>2. CASE r \in New /\ p = l /\ s \in New /\ m = l
    BY <2>2
  <2> QED BY <2>1, <2>2, <1>2, <1>5
<1>7. FileOrder'
  <2> SUFFICES ASSUME NEW p \in Lanes, NEW r \in mine'[p], NEW s \in mine'[p],
                      NEW u \in UnitIds, NEW i \in DOMAIN Units[u], NEW j \in DOMAIN Units[u],
                      Units[u][i] = r.item, Units[u][j] = s.item, i < j
               PROVE  /\ s.kind = "ran" => r.kind = "ran"
                      /\ s.kind = "fault" => r.kind = "ran"
                      /\ s.kind = "after" /\ r.kind = "fault" => s.from = r.item
    BY DEF FileOrder
  <2>1. CASE r \in mine[p] /\ s \in mine[p]
    BY <2>1, <1>1 DEF FileOrder
  <2>2. ASSUME NEW x \in New, NEW k \in DOMAIN Units[u], x.item = Units[u][k]
        PROVE  u = U /\ n <= k
    <3>1. PICK h \in DOMAIN Units[U] : n <= h /\ x.item = Units[U][h]
      BY <1>3
    <3>2. Units[u][k] = Units[U][h] /\ U \in UnitIds
      BY <2>2, <3>1, <1>0
    <3>3. u = U /\ k = h
      BY <3>2, OnePlace
    <3> QED BY <3>1, <3>3
  <2>3. CASE r \in mine[p] /\ s \in New /\ p = l
    <3>1. u = U
      BY <2>2, <2>3
    <3> QED BY <3>1, <2>3, <1>4
  <2>4. CASE r \in New /\ s \in mine[p] /\ p = l
    <3>1. u = U /\ n <= i
      BY <2>2, <2>4
    <3>2. j < n
      BY <3>1, <2>4, <1>4
    <3> QED BY <3>1, <3>2, <1>0
  <2>5. CASE r \in New /\ s \in New /\ p = l
    <3>1. u = U
      BY <2>2, <2>5
    <3>2. s.kind = "after" /\ (r.kind = "fault" => s.from = r.item)
      BY <3>1, <2>5
    <3> QED BY <3>2
  <2> QED BY <2>1, <2>3, <2>4, <2>5, <1>2
<1>8. Listed'
  BY <1>0, <1>1, <1>2, <1>3 DEF Listed
<1> QED BY <1>6, <1>7, <1>8

\* After it, the unit is out of its hands, or it is on to the next test, or it is
\* through with the worker.
LEMMA ReportingLedger ==
  ASSUME IInv, Books, NEW l \in Lanes, phase[l] = "wait", left' = left,
         \A m \in Lanes : \A r \in mine'[m] : r \in mine[m] \/ (m = l /\ Fresh(l, r)),
         \A m \in Lanes \ {l} : unit'[m] = unit[m] /\ phase'[m] = phase[m] /\ at'[m] = at[m],
         \/ unit'[l] = 0
         \/ unit'[l] = unit[l] /\ phase'[l] \in {"lost", "failed"}
         \/ /\ unit'[l] = unit[l] /\ phase'[l] = "send" /\ at'[l] = at[l] + 1
            /\ \A r \in mine'[l] : r \in mine[l] \/ (r.kind = "ran" /\ r.item = Item(l))
  PROVE  Ledger'
<1> DEFINE U == unit[l]
           n == at[l]
<1>0. /\ U \in UnitIds /\ n \in DOMAIN Units[U] /\ DOMAIN Units[U] \subseteq Nat /\ 0 \notin UnitIds
      /\ mine \in [Lanes -> SUBSET Results] /\ n \in Nat /\ left < U
      /\ \A m \in Lanes : unit[m] = U => m = l
  BY UnitFacts DEF IInv, InHand, TypeOK, HeldOnce
<1>1. Ledger
  BY DEF Books
<1> SUFFICES ASSUME NEW k \in Lanes, NEW r \in mine'[k], NEW u \in UnitIds,
                    NEW i \in DOMAIN Units[u], r.item = Units[u][i]
             PROVE  /\ left < u
                    /\ \A m \in Lanes : unit'[m] = u =>
                         /\ m = k /\ phase'[m] # "taken"
                         /\ phase'[m] \in Going => i < at'[m] /\ r.kind = "ran"
  BY DEF Ledger
<1>2. r \in mine[k] \/ (k = l /\ r \notin mine[l] /\ Fresh(l, r))
  OBVIOUS
<1>6. unit'[l] = 0 \/ unit'[l] = unit[l]
  OBVIOUS
<1>3. ASSUME NEW m \in Lanes, unit'[m] = u PROVE unit[m] = u
  BY <1>0, <1>3, <1>6
<1>4. CASE r \in mine[k]
  <2>1. /\ left < u
        /\ \A m \in Lanes : unit[m] = u =>
             /\ m = k /\ phase[m] # "taken"
             /\ phase[m] \in Going => i < at[m] /\ r.kind = "ran"
    BY <1>1, <1>4 DEF Ledger
  <2>3. phase'[l] \notin {"send", "wait", "taken"} \/ unit'[l] = 0
        \/ (phase'[l] = "send" /\ at'[l] = at[l] + 1)
    OBVIOUS
  <2>2. ASSUME NEW m \in Lanes, unit'[m] = u
        PROVE  /\ m = k /\ phase'[m] # "taken"
               /\ phase'[m] \in Going => i < at'[m] /\ r.kind = "ran"
    <3>1. unit[m] = u
      BY <2>2, <1>3
    <3>2. CASE m = l
      <4>1. i < n /\ r.kind = "ran" /\ m = k /\ i \in Nat
        BY <3>1, <3>2, <2>1, <1>0 DEF Going
      <4> QED BY <4>1, <3>2, <2>2, <2>3, <1>0 DEF Going
    <3>3. CASE m # l
      BY <3>1, <3>3, <2>1
    <3> QED BY <3>2, <3>3
  <2> QED BY <2>1, <2>2
<1>5. CASE k = l /\ r \notin mine[l] /\ Fresh(l, r)
  <2>1. PICK h \in DOMAIN Units[U] : n <= h /\ r.item = Units[U][h]
    BY <1>5 DEF Fresh
  <2>4. Units[u][i] = Units[U][h] /\ U \in UnitIds
    BY <2>1, <1>0
  <2>2. u = U /\ i = h
    BY <2>4, OnePlace
  <2>3. ASSUME NEW m \in Lanes, unit'[m] = u
        PROVE  /\ m = k /\ phase'[m] # "taken"
               /\ phase'[m] \in Going => i < at'[m] /\ r.kind = "ran"
    <3>1. m = l
      BY <2>2, <2>3, <1>0, <1>3
    <3>2. CASE phase'[l] = "send" /\ at'[l] = n + 1 /\ r.kind = "ran" /\ r.item = Units[U][n]
      <4>2. Units[U][i] = Units[U][n] /\ i \in DOMAIN Units[U] /\ n \in DOMAIN Units[U] /\ U \in UnitIds
        BY <3>2, <2>1, <2>2, <1>0
      <4>1. i = n
        BY <4>2, OnePlace
      <4> QED BY <4>1, <3>1, <3>2, <1>0, <1>5
    <3> QED BY <3>1, <3>2, <2>2, <2>3, <1>0, <1>5 DEF Item, Going
  <2> QED BY <2>2, <2>3, <1>0
<1> QED BY <1>2, <1>4, <1>5

\* The report of a lost worker has a result for each test from n on: the first is the
\* fault, and the others name it.
LEMMA FaultReportShape ==
  ASSUME NEW u \in UnitIds, NEW n \in DOMAIN Units[u]
  PROVE  /\ \A i \in DOMAIN Units[u] : n <= i => \E x \in FaultReport(u, n) : x.item = Units[u][i]
         /\ \A x \in FaultReport(u, n) : \E i \in DOMAIN Units[u] : n <= i /\ x.item = Units[u][i]
         /\ \A x \in FaultReport(u, n) : \A i \in DOMAIN Units[u] :
              x.item = Units[u][i] =>
                x = Said(Units[u][i], IF i = n THEN "fault" ELSE "after", Units[u][n])
<1>1. DOMAIN Units[u] \subseteq Nat
  BY UnitFacts
<1>2. ASSUME NEW i \in DOMAIN Units[u], n <= i
      PROVE  \E x \in FaultReport(u, n) : x.item = Units[u][i]
  <2>1. CASE i = n
    <3>1. Said(Units[u][n], "fault", Units[u][n]) \in FaultReport(u, n)
      BY DEF FaultReport
    <3> QED BY <2>1, <3>1 DEF Said
  <2>2. CASE i # n
    <3>1. i > n
      BY <1>1, <1>2, <2>2
    <3>2. Said(Units[u][i], "after", Units[u][n]) \in FaultReport(u, n)
      BY <3>1 DEF FaultReport
    <3> QED BY <3>2 DEF Said
  <2> QED BY <2>1, <2>2
<1>3. ASSUME NEW x \in FaultReport(u, n)
      PROVE  \E i \in DOMAIN Units[u] :
               /\ n <= i
               /\ x = Said(Units[u][i], IF i = n THEN "fault" ELSE "after", Units[u][n])
  BY <1>1 DEF FaultReport
<1>4. ASSUME NEW x \in FaultReport(u, n), NEW i \in DOMAIN Units[u], x.item = Units[u][i]
      PROVE  x = Said(Units[u][i], IF i = n THEN "fault" ELSE "after", Units[u][n])
  <2>1. PICK j \in DOMAIN Units[u] :
          x = Said(Units[u][j], IF j = n THEN "fault" ELSE "after", Units[u][n])
    BY <1>3
  <2>2. Units[u][i] = Units[u][j]
    BY <1>4, <2>1 DEF Said
  <2> QED BY <2>1, <2>2, OnePlace
<1> QED BY <1>2, <1>3, <1>4 DEF Said

\* A lost worker's unit is reported to its end, or the run fails on it.
LEMMA FaultBooks ==
  ASSUME IInv, Books, NEW l \in Lanes, phase[l] = "wait", Fault(l),
         UNCHANGED <<left, counter, unit, at, rank, worker, outcome, report, tier>>
  PROVE  Books'
<1> DEFINE U == unit[l]
           n == at[l]
           New == FaultReport(U, n)
<1>0. /\ TypeOK /\ Progress(l) /\ U \in UnitIds /\ n \in DOMAIN Units[U]
      /\ DOMAIN Units[U] \subseteq Nat /\ n \in Nat
      /\ UNCHANGED <<left, counter, unit, at, rank, proc, gone, outcome, report, tier>>
  BY UnitFacts DEF IInv, InHand, Books, worker
<1>1. Numbers' /\ Ending'
  BY <1>0, NothingNumbered, StillRunning
<1>2. CASE Reports
  <2>1. phase' = [phase EXCEPT ![l] = "lost"] /\ mine' = [mine EXCEPT ![l] = @ \cup New]
    BY <1>2 DEF Fault
  <2>2. \A x \in New : \E i \in DOMAIN Units[U] : n <= i /\ x.item = Units[U][i]
    BY <1>0, FaultReportShape
  <2>3. \A x \in New : \A i \in DOMAIN Units[U] :
          x.item = Units[U][i] =>
            x = Said(Units[U][i], IF i = n THEN "fault" ELSE "after", Units[U][n])
    BY <1>0, FaultReportShape
  <2>4. \A x, y \in New : x.item = y.item => x = y
    BY <2>2, <2>3
  <2>5. \A x, y \in New : \A i, j \in DOMAIN Units[U] :
          (Units[U][i] = x.item /\ Units[U][j] = y.item /\ i < j) =>
            y.kind = "after" /\ (x.kind = "fault" => y.from = x.item)
    <3> SUFFICES ASSUME NEW x \in New, NEW y \in New,
                        NEW i \in DOMAIN Units[U], NEW j \in DOMAIN Units[U],
                        Units[U][i] = x.item, Units[U][j] = y.item, i < j
                 PROVE  y.kind = "after" /\ (x.kind = "fault" => y.from = x.item)
      OBVIOUS
    <3>1. /\ x = Said(Units[U][i], IF i = n THEN "fault" ELSE "after", Units[U][n])
          /\ y = Said(Units[U][j], IF j = n THEN "fault" ELSE "after", Units[U][n])
      BY <2>3
    <3>2. n <= i
      <4>1. PICK h \in DOMAIN Units[U] : n <= h /\ x.item = Units[U][h]
        BY <2>2
      <4>2. Units[U][h] = Units[U][i]
        BY <4>1
      <4> QED BY <1>0, <4>1, <4>2, OnePlace
    <3>3. j # n /\ y.kind = "after" /\ y.from = Units[U][n]
      BY <1>0, <3>1, <3>2 DEF Said
    <3>4. x.kind = "fault" => i = n
      BY <3>1 DEF Said
    <3> QED BY <3>3, <3>4
  <2>6. /\ \A m \in Lanes : \A r \in mine'[m] : r \in mine[m] \/ (m = l /\ Fresh(l, r))
        /\ mine'[l] \ mine[l] \subseteq New
    BY <1>0, <2>1, <2>2 DEF TypeOK, Fresh
  <2>7. ReportedOnce' /\ FileOrder' /\ Listed'
    BY <2>6, <2>4, <2>5, Reporting
  <2>8. Ledger'
    <3>1. /\ \A m \in Lanes \ {l} : unit'[m] = unit[m] /\ phase'[m] = phase[m] /\ at'[m] = at[m]
          /\ unit'[l] = unit[l] /\ phase'[l] \in {"lost", "failed"} /\ left' = left
      BY <1>0, <2>1 DEF TypeOK
    <3> QED BY <3>1, <2>6, ReportingLedger
  <2>9. \A m \in Lanes : mine[m] \subseteq mine'[m]
    BY <1>0, <2>1 DEF TypeOK
  <2>10. Served'
    BY <1>0, <2>9 DEF Books, Served, Reported
  <2>11. Progress(l)'
    <3>1. New \subseteq mine'[l]
      BY <1>0, <2>1 DEF TypeOK
    <3>2. ASSUME NEW i \in DOMAIN Units[U] PROVE \E r \in mine'[l] : r.item = Units[U][i]
      <4>1. CASE i < n
        BY <4>1, <1>0, <2>9, UnitFacts DEF Progress, Reported, Going
      <4>2. CASE n <= i
        BY <4>2, <1>0, <3>1, FaultReportShape
      <4> QED BY <1>0, <4>1, <4>2
    <3>3. phase'[l] = "lost" /\ unit' = unit
      BY <1>0, <2>1 DEF TypeOK
    <3> QED BY <3>2, <3>3 DEF Progress, Reported
  <2>12. \A m \in Lanes \ {l} : Progress(m)'
    BY <1>0, <2>1, OthersProgress DEF TypeOK
  <2> QED BY <1>1, <2>7, <2>8, <2>10, <2>11, <2>12 DEF Books
<1>3. CASE ~Reports
  <2>1. phase' = [phase EXCEPT ![l] = "failed"] /\ mine' = mine
    BY <1>3 DEF Fault
  <2>2. ReportedOnce' /\ FileOrder' /\ Listed'
    BY <2>1, NothingReported
  <2>3. Ledger' /\ Served'
    BY <1>0, <2>1, BooksKept DEF TypeOK, Going
  <2>4. Progress(l)'
    BY <1>0, <1>3, <2>1 DEF Progress, TypeOK, Reports, Going
  <2>5. \A m \in Lanes \ {l} : Progress(m)'
    BY <1>0, <2>1, OthersProgress DEF TypeOK
  <2> QED BY <1>1, <2>2, <2>3, <2>4, <2>5 DEF Books
<1> QED BY <1>2, <1>3

\* An answer is one more result of the unit in hand, which goes on or is done.
LEMMA ReceiveBooks ==
  ASSUME IInv, Books, NEW l \in Lanes, Receive(l)
  PROVE  Books'
<1> DEFINE U == unit[l]
           n == at[l]
           x == Said(Item(l), "ran", Head(frames[l]))
<1>0. /\ phase[l] = "wait" /\ U \in UnitIds /\ n \in DOMAIN Units[U] /\ n \in Nat
      /\ DOMAIN Units[U] = 1 .. Len(Units[U]) /\ Len(Units[U]) \in Nat /\ 0 \notin UnitIds
      /\ TypeOK /\ Progress(l) /\ x.item = Units[U][n] /\ x.kind = "ran"
      /\ mine' = [mine EXCEPT ![l] = @ \cup {x}]
      /\ UNCHANGED <<left, counter, rank, proc, gone, outcome, report, tier>>
  BY UnitFacts DEF IInv, InHand, Books, Receive, Item, Said
<1>1. \/ /\ n < Len(Units[U]) /\ at' = [at EXCEPT ![l] = @ + 1]
         /\ phase' = [phase EXCEPT ![l] = "send"] /\ unit' = unit
      \/ /\ n = Len(Units[U]) /\ unit' = [unit EXCEPT ![l] = 0]
         /\ phase' = [phase EXCEPT ![l] = "free"] /\ at' = at
  BY <1>0 DEF Receive
<1>2. Numbers' /\ Ending'
  BY <1>0, NothingNumbered, StillRunning
<1>3. /\ \A m \in Lanes \ {l} : /\ phase'[m] = phase[m] /\ unit'[m] = unit[m] /\ at'[m] = at[m]
                                /\ mine'[m] = mine[m]
      /\ mine'[l] = mine[l] \cup {x}
      /\ \A m \in Lanes : mine[m] \subseteq mine'[m]
  BY <1>0, <1>1 DEF TypeOK
<1>4. \A m \in Lanes : \A r \in mine'[m] : r \in mine[m] \/ (m = l /\ r = x /\ Fresh(l, r))
  BY <1>0, <1>3 DEF Fresh
<1>5. ReportedOnce' /\ FileOrder' /\ Listed'
  <2>1. \A y \in mine'[l] \ mine[l] : y = x
    BY <1>4
  <2>2. ASSUME NEW i \in DOMAIN Units[U], NEW j \in DOMAIN Units[U],
               Units[U][i] = x.item, Units[U][j] = x.item, i < j
        PROVE  FALSE
    <3>1. i = j
      BY <1>0, <2>2, OnePlace
    <3> QED BY <2>2, <3>1, <1>0
  <2> QED BY <1>0, <1>4, <2>1, <2>2, Reporting
<1>6. Ledger'
  <2>1. \A m \in Lanes : \A r \in mine'[m] : r \in mine[m] \/ (m = l /\ Fresh(l, r))
    BY <1>4
  <2>2. CASE phase' = [phase EXCEPT ![l] = "send"] /\ at' = [at EXCEPT ![l] = @ + 1] /\ unit' = unit
    <3>1. /\ unit'[l] = unit[l] /\ phase'[l] = "send" /\ at'[l] = at[l] + 1
          /\ \A r \in mine'[l] : r \in mine[l] \/ (r.kind = "ran" /\ r.item = Item(l))
      BY <2>2, <1>0, <1>3 DEF TypeOK, Item
    <3> QED BY <1>0, <1>3, <2>1, <3>1, ReportingLedger
  <2>3. CASE unit' = [unit EXCEPT ![l] = 0]
    <3>1. unit'[l] = 0
      BY <2>3, <1>0 DEF TypeOK
    <3> QED BY <1>0, <1>3, <2>1, <3>1, ReportingLedger
  <2> QED BY <1>1, <2>2, <2>3
<1>7. \A i \in DOMAIN Units[U] : i <= n => \E r \in mine'[l] : r.item = Units[U][i]
  BY <1>0, <1>3 DEF Progress, Reported, Going
<1>8. Served'
  <2> SUFFICES ASSUME NEW u \in UnitIds, left < u, \A m \in Lanes : unit'[m] # u
               PROVE  \A i \in DOMAIN Units[u] : \E m \in Lanes : \E r \in mine'[m] : r.item = Units[u][i]
    BY <1>0 DEF Served, Reported
  <2>1. CASE unit[l] = u
    <3>1. n = Len(Units[U])
      BY <1>0, <1>1, <2>1
    <3> QED BY <1>0, <1>7, <2>1, <3>1
  <2>2. CASE unit[l] # u
    BY <1>3, <2>2 DEF Books, Served, Reported
  <2> QED BY <2>1, <2>2
<1>9. Progress(l)'
  <2>1. CASE phase'[l] = "send" /\ at'[l] = n + 1 /\ unit'[l] = U
    <3>1. \A i \in DOMAIN Units[U] : i < n + 1 => \E r \in mine'[l] : r.item = Units[U][i]
      BY <1>0, <1>7
    <3> QED BY <2>1, <3>1 DEF Progress, Reported
  <2>2. CASE phase'[l] = "free" /\ unit'[l] = 0
    BY <2>2 DEF Progress
  <2> QED BY <1>0, <1>1, <2>1, <2>2 DEF TypeOK
<1>10. \A m \in Lanes \ {l} : Progress(m)'
  BY <1>0, <1>3, OthersProgress
<1> QED BY <1>2, <1>5, <1>6, <1>8, <1>9, <1>10 DEF Books

LEMMA RetireBooks ==
  ASSUME IInv, Books, NEW l \in Lanes, Retire(l)
  PROVE  Books'
<1>0. TypeOK /\ Progress(l)
  BY DEF IInv, Books
<1>1. /\ phase[l] = "lost" /\ unit' = [unit EXCEPT ![l] = 0]
      /\ \/ /\ phase' = [phase EXCEPT ![l] = "done"] /\ gone' = [gone EXCEPT ![l] = TRUE]
            /\ proc' = [proc EXCEPT ![l] = "dead"]
         \/ /\ phase' = [phase EXCEPT ![l] = "free"] /\ gone' = gone
            /\ proc' = [proc EXCEPT ![l] = "none"]
      /\ UNCHANGED <<left, counter, at, rank, mine, outcome, report, tier>>
  BY DEF Retire
<1>2. ReportedOnce' /\ FileOrder' /\ Listed' /\ Numbers' /\ Ending'
  BY <1>1, NothingReported, NothingNumbered, StillRunning
<1>3. \A m \in Lanes \ {l} : /\ phase'[m] = phase[m] /\ unit'[m] = unit[m] /\ at'[m] = at[m]
                            /\ gone'[m] = gone[m] /\ proc'[m] = proc[m] /\ mine'[m] = mine[m]
  BY <1>0, <1>1 DEF TypeOK
<1>4. /\ unit'[l] = 0 /\ \A i \in DOMAIN Units[unit[l]] : Reported(l, unit[l], i)
      /\ phase'[l] = "free" \/ (phase'[l] = "done" /\ gone'[l])
  BY <1>0, <1>1 DEF TypeOK, Progress
<1>5. Ledger' /\ Served'
  BY <1>0, <1>1, <1>3, <1>4, BooksKept
<1>6. Progress(l)'
  BY <1>4 DEF Progress
<1>7. \A m \in Lanes \ {l} : Progress(m)'
  BY <1>1, <1>3, OthersProgress
<1> QED BY <1>2, <1>5, <1>6, <1>7 DEF Books

LEMMA JoinBooks ==
  ASSUME IInv, Books, Join
  PROVE  Books'
<1>1. /\ \A l \in Lanes : phase[l] \in {"done", "failed"}
      /\ UNCHANGED <<left, counter, phase, unit, at, rank, proc, gone, mine, tier>>
  BY DEF Join, worker
<1>2. ReportedOnce' /\ FileOrder' /\ Listed' /\ Numbers'
  BY <1>1, NothingReported, NothingNumbered
<1>3. TypeOK /\ \A m \in Lanes : Progress(m)
  BY DEF IInv, Books
<1>4. Ledger' /\ Served'
  BY <1>1, <1>3, BooksKept
<1>5. Ending'
  BY <1>1 DEF Join, Ending
<1>6. \A m \in Lanes : Progress(m)'
  BY <1>1, <1>3 DEF Progress, Reported, Reports
<1> QED BY <1>2, <1>4, <1>5, <1>6 DEF Books

\* The books are kept by every step of every lane and every process.
THEOREM LaneBooks == Spec => []Books
<1>1. Init => Books
  <2> SUFFICES ASSUME Init PROVE Books
    OBVIOUS
  <2>1. \A l \in Lanes : mine[l] = {} /\ phase[l] = "start" /\ unit[l] = 0
    BY DEF Init
  <2>2. Listed /\ Ledger /\ ReportedOnce /\ FileOrder
    BY <2>1 DEF Listed, Ledger, ReportedOnce, FileOrder
  <2>3. Served
    BY UnitFacts DEF Init, Served
  <2>4. Ending /\ \A l \in Lanes : Progress(l)
    BY <2>1 DEF Init, Ending, Progress
  <2>5. Numbers
    BY DEF Init, Numbers, NumberedOnce
  <2> QED BY <2>2, <2>3, <2>4, <2>5 DEF Books
<1>2. IInv /\ Books /\ [Next]_vars => Books'
  <2> SUFFICES ASSUME IInv, Books, [Next]_vars PROVE Books'
    OBVIOUS
  <2>1. ASSUME NEW l \in Lanes, Lane(l) PROVE Books'
    <3>1. CASE Start(l) \/ NotReady(l) \/ Reap(l)  BY <3>1, StandingBooks
    <3>2. CASE Pop(l)     BY <3>2, PopBooks
    <3>3. CASE Number(l)  BY <3>3, NumberBooks
    <3>4. CASE Send(l)    BY <3>4, SendBooks
    <3>5. CASE Receive(l) BY <3>5, ReceiveBooks
    <3>6. CASE Overdue(l) BY <3>6, FaultBooks DEF Overdue
    <3>7. CASE Closed(l)  BY <3>7, FaultBooks DEF Closed
    <3>8. CASE Retire(l)  BY <3>8, RetireBooks
    <3> QED BY <2>1, <3>1, <3>2, <3>3, <3>4, <3>5, <3>6, <3>7, <3>8 DEF Lane
  <2>2. ASSUME NEW l \in Lanes, Process(l) PROVE Books'
    BY <2>2, StandingBooks, ProcessBooks DEF Process
  <2>3. CASE UNCHANGED vars
    <3>1. UNCHANGED <<left, counter, phase, unit, at, rank, proc, gone, mine, outcome, report, tier>>
      BY <2>3 DEF vars
    <3>2. ReportedOnce' /\ FileOrder' /\ Listed' /\ Numbers'
      BY <3>1, NothingReported, NothingNumbered
    <3>3. TypeOK /\ \A m \in Lanes : Progress(m)
      BY DEF IInv, Books
    <3>4. Ledger' /\ Served'
      BY <3>1, <3>3, BooksKept
    <3>5. Ending' /\ \A m \in Lanes : Progress(m)'
      BY <3>1, <3>3 DEF Books, Ending, Progress, Reported, Reports
    <3> QED BY <3>2, <3>4, <3>5 DEF Books
  <2> QED BY <2>1, <2>2, <2>3, JoinBooks DEF Next
<1> QED BY <1>1, <1>2, LaneInvariance, PTL DEF Spec

\* No two units are given one number, however the lanes that number them interleave.
THEOREM NumbersAreOnce == Spec => []NumberedOnce
<1>1. Books => NumberedOnce
  BY DEF Books, Numbers
<1> QED BY <1>1, LaneBooks, PTL

\* No test is reported twice, by one lane or by two, whatever becomes of their workers.
THEOREM TestsReportedOnce == Spec => []ReportedOnce
<1>1. Books => ReportedOnce
  BY DEF Books
<1> QED BY <1>1, LaneBooks, PTL

\* What a unit's results say of each other follows the order of its file.
THEOREM ResultsInFileOrder == Spec => []FileOrder
<1>1. Books => FileOrder
  BY DEF Books
<1> QED BY <1>1, LaneBooks, PTL

\* A run that ends well on a lane that kept its worker reports every test queued, and
\* no other.
THEOREM RunIsComplete == Spec => []Complete
<1>1. IInv /\ Books => Complete
  <2> SUFFICES ASSUME IInv, Books, outcome = "ok", NEW k \in Lanes, ~gone[k]
               PROVE  {r.item : r \in report} =
                        UNION {{Units[u][i] : i \in DOMAIN Units[u]} : u \in UnitIds}
    BY DEF Complete
  <2>1. /\ \A l \in Lanes : phase[l] = "done" /\ unit[l] = 0
        /\ report = UNION {mine[l] : l \in Lanes} /\ left = 0
    BY DEF Books, Ending, Progress
  <2>2. ASSUME NEW u \in UnitIds, NEW i \in DOMAIN Units[u]
        PROVE  \E r \in report : r.item = Units[u][i]
    <3>1. 0 < u /\ u # 0
      BY UnitFacts
    <3>2. \E l \in Lanes : Reported(l, u, i)
      BY <2>1, <3>1 DEF Books, Served
    <3> QED BY <2>1, <3>2 DEF Reported
  <2>3. ASSUME NEW r \in report
        PROVE  \E u \in UnitIds : \E i \in DOMAIN Units[u] : r.item = Units[u][i]
    BY <2>1 DEF Books, Listed
  <2> QED BY <2>2, <2>3
<1> QED BY <1>1, LaneBooks, LaneInvariance, PTL

\* Where a lost worker is reported, only a worker that never came up fails the run.
THEOREM LostWorkersAreReported == Spec => []LossIsReported
<1>1. Books => LossIsReported
  BY DEF Books, Ending, Progress, LossIsReported
<1> QED BY <1>1, LaneBooks, PTL
=============================================================================
