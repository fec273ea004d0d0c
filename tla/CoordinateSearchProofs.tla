----------------------- MODULE CoordinateSearchProofs -----------------------
(***************************************************************************)
(* Proofs about CoordinateSearch: that the record functions are never      *)
(* handed a foreign move, and that a local optimum has been bracketed.     *)
(***************************************************************************)
EXTENDS CoordinateSearch, CoordinatePatternProofs

PlusDone(i)  == <<i, 1>> \in probed \/ Lattice(session.comps[i], 1) = Lattice(session.comps[i], 0)
MinusDone(i) == \/ <<i, -1>> \in probed
                \/ Lattice(session.comps[i], -1) = Lattice(session.comps[i], 0)
                \/ i \in gained

\* The history variables count what the session counts.
CountInv ==
    /\ session.material <=> gained # {}
    /\ session.failed > 0 <=> lost
    /\ lost \in BOOLEAN

\* A pending move is the one the stored, normalized session proposes.
MoveInv ==
    move # NoMove => /\ session.stop = Running
                     /\ Normalized(session) = session
                     /\ move = MoveOf(session)
                     /\ <<move.cursor, move.tick>> \in probed

\* The sweep: what lies before the session's position is done.
SweepInv ==
    session.stop = Running =>
        /\ \A i \in 1 .. session.cursor - 1 : PlusDone(i) /\ MinusDone(i)
        /\ session.phase = Minus => PlusDone(session.cursor)

\* What a local optimum was found on.
EndInv ==
    session.stop \in LocalOptima =>
        /\ session.failed = 0 \/ session.material
        /\ \A i \in 1 .. Len(session.comps) : PlusDone(i) /\ MinusDone(i)

SearchInv ==
    /\ SessionOK(session) /\ Fresh(session)
    /\ CountInv /\ MoveInv /\ SweepInv /\ EndInv

-----------------------------------------------------------------------------
\* A session starts with nothing swept.
LEMMA InitInv == Init => SearchInv
<1> SUFFICES ASSUME Init PROVE SearchInv
  OBVIOUS
<1>1. PICK comps \in Components : \E chosen \in Orders({c \in comps : Movable(c)}) :
          session = StartSession(chosen, ProbeBudget, ActiveCap, MaxPasses)
  BY DEF Init
<1> DEFINE movable == {c \in comps : Movable(c)}
<1>2. PICK chosen \in Orders(movable) :
          session = StartSession(chosen, ProbeBudget, ActiveCap, MaxPasses)
  BY <1>1
<1>3. movable \subseteq Component /\ IsFiniteSet(movable)
  BY SearchAssumption, FS_Subset
<1> HIDE DEF movable
<1>4. /\ SessionOK(session) /\ session.ticks = [i \in DOMAIN session.comps |-> 0]
      /\ session.cursor = 1 /\ session.phase = Plus /\ ~session.material /\ session.failed = 0
      /\ session.stop \notin LocalOptima
  BY <1>2, <1>3, StartResult, SearchAssumption
<1>5. Fresh(session)
  BY <1>4 DEF Fresh, SessionOK
<1>6. CountInv /\ MoveInv /\ EndInv
  <2>1. gained = {} /\ lost = FALSE /\ move = NoMove
    BY DEF Init
  <2>2. CountInv
    <3>1. session.material <=> gained # {}
      BY <1>4, <2>1, Zenon
    <3>2. ~(session.failed > 0)
      BY <1>4
    <3> QED BY <2>1, <3>1, <3>2, Zenon DEF CountInv
  <2> QED BY <1>4, <2>1, <2>2 DEF MoveInv, EndInv
<1>7. SweepInv
  BY <1>4 DEF SweepInv, Plus, Minus
<1> QED BY <1>4, <1>5, <1>6, <1>7 DEF SearchInv

\* A proposal only skips positions that are done.
LEMMA ProposeInv == SearchInv /\ Propose => SearchInv'
<1> SUFFICES ASSUME SearchInv, Propose PROVE SearchInv'
  OBVIOUS
<1> DEFINE s == session
           r == Normalized(session)
<1>0. /\ SessionOK(s) /\ Fresh(s) /\ s.stop = Running /\ session' = r
      /\ gained' = gained /\ lost' = lost /\ move = NoMove
      /\ probed \subseteq probed'
  BY DEF SearchInv, Propose
<1>1. /\ SessionOK(r) /\ KeepsProbe(r, s) /\ r.material = s.material
      /\ r.stop = Running =>
            /\ <<r.cursor, r.phase>> \in Ahead(s)
            /\ \A q \in Ahead(s) : Before(<<r.cursor, r.phase>>, q)
      /\ r.stop \in LocalOptima => Ahead(s) = {} /\ (s.failed = 0 \/ s.material)
  BY <1>0, NormalizedResult
<1>2. r.stop = Running => Normalized(r) = r
  BY <1>0, NormalizedIdempotent
<1> HIDE DEF s, r
<1>3. /\ r.comps = s.comps /\ r.ticks = s.ticks /\ r.failed = s.failed
      /\ Len(s.comps) \in Nat /\ s.cursor \in 1 .. Len(s.comps)
      /\ \A i \in 1 .. Len(s.comps) : s.comps[i] \in Component
      /\ s.phase \in Directions
  BY <1>0, <1>1 DEF KeepsProbe, SessionOK
<1>4. Fresh(r)
  <2>1. r.stop = Running => Before(<<s.cursor, s.phase>>, <<r.cursor, r.phase>>)
    BY <1>1 DEF Ahead
  <2> QED BY <1>0, <1>1, <1>3, <2>1, FreshMoves
<1>5. CountInv'
  BY <1>0, <1>1, <1>3 DEF CountInv, SearchInv, s
<1>6. MoveInv'
  BY <1>0, <1>2 DEF MoveInv, Propose, r
<1>7. \A i \in 1 .. Len(s.comps) : (PlusDone(i) => PlusDone(i)') /\ (MinusDone(i) => MinusDone(i)')
  BY <1>0, <1>3 DEF PlusDone, MinusDone, s
<1>8. \A i \in 1 .. s.cursor - 1 : PlusDone(i) /\ MinusDone(i)
  BY <1>0 DEF SearchInv, SweepInv, s
<1>9. s.phase = Minus => PlusDone(s.cursor)
  BY <1>0 DEF SearchInv, SweepInv, s
<1>10. \A i \in s.cursor .. Len(s.comps) : s.ticks[i] \in {0, 1}
  BY <1>0, <1>3 DEF Fresh
\* A position at or after the session's own that is not feasible is done.
<1>11. \A i \in s.cursor .. Len(s.comps) :
          /\ Before(<<s.cursor, s.phase>>, <<i, Plus>>) /\ ~Feasible(s, i, Plus) => PlusDone(i)
          /\ ~Feasible(s, i, Minus) => MinusDone(i)
  <2> SUFFICES ASSUME NEW i \in s.cursor .. Len(s.comps)
               PROVE  /\ Before(<<s.cursor, s.phase>>, <<i, Plus>>) /\ ~Feasible(s, i, Plus) => PlusDone(i)
                      /\ ~Feasible(s, i, Minus) => MinusDone(i)
    OBVIOUS
  <2>1. s.comps[i] \in Component
    BY <1>3
  <2>2. ASSUME Before(<<s.cursor, s.phase>>, <<i, Plus>>), ~Feasible(s, i, Plus) PROVE PlusDone(i)
    <3>1. i > s.cursor \/ s.phase = Plus
      BY <1>3, <2>2 DEF Before, Directions, Plus, Minus
    <3>2. s.ticks[i] = 0
      BY <1>0, <1>3, <3>1 DEF Fresh
    <3>3. TickAt(s, i, Plus) = 1
      BY <3>2 DEF TickAt
    <3> QED BY <2>2, <3>2, <3>3 DEF Feasible, PlusDone, s
  <2>3. ASSUME ~Feasible(s, i, Minus) PROVE MinusDone(i)
    <3>1. Lattice(s.comps[i], -1) = Lattice(s.comps[i], s.ticks[i])
      BY <2>3 DEF Feasible, TickAt, Plus, Minus
    <3>2. Lattice(s.comps[i], -1) = Lattice(s.comps[i], 0)
      BY <1>10, <2>1, <3>1, LatticeSandwich
    <3> QED BY <3>2 DEF MinusDone, s
  <2> QED BY <2>2, <2>3
<1>12. SweepInv'
  <2> SUFFICES ASSUME r.stop = Running
               PROVE  /\ \A i \in 1 .. r.cursor - 1 : PlusDone(i) /\ MinusDone(i)
                      /\ r.phase = Minus => PlusDone(r.cursor)
    <3>1. r.stop = Running => r.cursor \in 1 .. Len(s.comps)
      BY <1>1, <1>3 DEF SessionOK
    <3> QED BY <1>0, <1>3, <1>7, <3>1 DEF SweepInv
  <2>1. r.cursor \in s.cursor .. Len(s.comps) /\ r.phase \in Directions
    BY <1>1 DEF Ahead
  <2>2. \A i \in s.cursor .. Len(s.comps), d \in Directions :
            /\ Before(<<s.cursor, s.phase>>, <<i, d>>)
            /\ ~Before(<<r.cursor, r.phase>>, <<i, d>>)
            => ~Feasible(s, i, d)
    BY <1>1 DEF Ahead
  <2>3. \A i \in s.cursor .. r.cursor - 1 : PlusDone(i) /\ MinusDone(i)
    <3> SUFFICES ASSUME NEW i \in s.cursor .. r.cursor - 1 PROVE PlusDone(i) /\ MinusDone(i)
      OBVIOUS
    <3>1. i \in s.cursor .. Len(s.comps) /\ i < r.cursor
      BY <1>3, <2>1
    <3>2. \A d \in Directions : ~Before(<<r.cursor, r.phase>>, <<i, d>>)
      BY <1>3, <2>1, <3>1 DEF Before
    <3>3. Before(<<s.cursor, s.phase>>, <<i, Minus>>)
      BY <1>3, <3>1 DEF Before, Directions, Plus, Minus
    <3>4. MinusDone(i)
      BY <1>11, <2>2, <3>1, <3>2, <3>3 DEF Directions
    <3>5. CASE Before(<<s.cursor, s.phase>>, <<i, Plus>>)
      BY <1>11, <2>2, <3>1, <3>2, <3>4, <3>5 DEF Directions
    <3>6. CASE ~Before(<<s.cursor, s.phase>>, <<i, Plus>>)
      <4>1. i = s.cursor /\ s.phase = Minus
        BY <1>3, <3>1, <3>6 DEF Before, Directions, Plus, Minus
      <4> QED BY <1>9, <3>4, <4>1
    <3> QED BY <3>5, <3>6
  <2>4. r.phase = Minus => PlusDone(r.cursor)
    <3> SUFFICES ASSUME r.phase = Minus PROVE PlusDone(r.cursor)
      OBVIOUS
    <3>1. ~Before(<<r.cursor, r.phase>>, <<r.cursor, Plus>>)
      BY <1>3, <2>1 DEF Before, Plus, Minus
    <3>2. CASE Before(<<s.cursor, s.phase>>, <<r.cursor, Plus>>)
      BY <1>11, <2>1, <2>2, <3>1, <3>2 DEF Directions
    <3>3. CASE ~Before(<<s.cursor, s.phase>>, <<r.cursor, Plus>>)
      <4>1. r.cursor = s.cursor /\ s.phase = Minus
        BY <1>3, <2>1, <3>3 DEF Before, Directions, Plus, Minus
      <4> QED BY <1>9, <4>1
    <3> QED BY <3>2, <3>3
  <2> QED BY <1>3, <1>8, <2>1, <2>3, <2>4
<1>13. EndInv'
  <2> SUFFICES ASSUME r.stop \in LocalOptima
               PROVE  \A i \in 1 .. Len(s.comps) : PlusDone(i) /\ MinusDone(i)
    BY <1>0, <1>1, <1>3, <1>7 DEF EndInv
  <2>1. \A i \in s.cursor .. Len(s.comps), d \in Directions :
            Before(<<s.cursor, s.phase>>, <<i, d>>) => ~Feasible(s, i, d)
    BY <1>1 DEF Ahead
  <2>2. \A i \in s.cursor .. Len(s.comps) : PlusDone(i) /\ MinusDone(i)
    <3> SUFFICES ASSUME NEW i \in s.cursor .. Len(s.comps) PROVE PlusDone(i) /\ MinusDone(i)
      OBVIOUS
    <3>1. Before(<<s.cursor, s.phase>>, <<i, Minus>>)
      BY <1>3 DEF Before, Directions, Plus, Minus
    <3>2. MinusDone(i)
      BY <1>11, <2>1, <3>1 DEF Directions
    <3>3. CASE Before(<<s.cursor, s.phase>>, <<i, Plus>>)
      BY <1>11, <2>1, <3>2, <3>3 DEF Directions
    <3>4. CASE ~Before(<<s.cursor, s.phase>>, <<i, Plus>>)
      <4>1. i = s.cursor /\ s.phase = Minus
        BY <1>3, <3>4 DEF Before, Directions, Plus, Minus
      <4> QED BY <1>9, <3>2, <4>1
    <3> QED BY <3>3, <3>4
  <2> QED BY <1>3, <1>8, <2>2
<1> QED BY <1>0, <1>1, <1>4, <1>5, <1>6, <1>12, <1>13 DEF SearchInv

\* An answer to the pending move, scored or failed, keeps the sweep.
Answers(gain, tick) ==
    /\ move # NoMove /\ move' = NoMove /\ probed' = probed
    /\ Answered(session', session, gain)
    /\ session'.ticks = [session.ticks EXCEPT ![session.cursor] = tick]
    /\ session.phase = Plus => tick \in {0, 1}
    /\ gained' = IF gain THEN gained \cup {session.cursor} ELSE gained
    /\ session'.failed > 0 <=> lost'
    /\ lost' \in BOOLEAN

\* Any answer to the pending move keeps the sweep.
LEMMA AnswerInv ==
    ASSUME NEW gain \in BOOLEAN, NEW tick \in Ticks, SearchInv, Answers(gain, tick)
    PROVE  SearchInv'
<1> USE DEF Answers
<1> DEFINE s == session
           r == session'
<1>0. /\ SessionOK(s) /\ Fresh(s) /\ CountInv /\ SweepInv
      /\ s.stop = Running /\ move = MoveOf(s) /\ <<move.cursor, move.tick>> \in probed
  BY DEF SearchInv, MoveInv
<1>1. /\ SessionOK(r) /\ r.comps = s.comps /\ r.material = (s.material \/ gain)
      /\ s.phase = Plus /\ ~gain => r.cursor = s.cursor /\ r.phase = Minus
      /\ ~(s.phase = Plus /\ ~gain) => r.cursor = s.cursor + 1 /\ r.phase = Plus
      /\ r.stop \in LocalOptima => r.cursor = Len(s.comps) + 1 /\ (r.failed = 0 \/ r.material)
  BY DEF Answered
<1>2. /\ Len(s.comps) \in Nat /\ s.cursor \in 1 .. Len(s.comps) /\ s.phase \in Directions
      /\ Plus # Minus
  BY <1>0 DEF SessionOK, Plus, Minus
<1>3. Fresh(r)
  BY <1>0, FreshAnswers
<1>4. CountInv'
  BY <1>0, <1>1 DEF CountInv
<1>5. MoveInv'
  BY DEF MoveInv
<1>6. \A i : (PlusDone(i) => PlusDone(i)') /\ (MinusDone(i) => MinusDone(i)')
  BY <1>1 DEF PlusDone, MinusDone
\* The probe just answered is one side of the current component.
<1>7. \A i : i = s.cursor =>
          /\ s.phase = Plus => PlusDone(i)'
          /\ s.phase = Minus => MinusDone(i)' /\ PlusDone(i)'
          /\ gain => MinusDone(i)'
  <2> SUFFICES ASSUME NEW i, i = s.cursor
               PROVE  /\ s.phase = Plus => PlusDone(i)'
                      /\ s.phase = Minus => MinusDone(i)' /\ PlusDone(i)'
                      /\ gain => MinusDone(i)'
    OBVIOUS
  <2>1. /\ move.cursor = i
        /\ s.phase = Plus => move.tick = 1
        /\ s.phase = Minus => move.tick = -1
    BY <1>0, FreshMoveTick
  <2>2. s.phase = Plus => PlusDone(i)'
    BY <1>0, <2>1 DEF PlusDone
  <2>3. s.phase = Minus => MinusDone(i)'
    BY <1>0, <2>1 DEF MinusDone
  <2>4. s.phase = Minus => PlusDone(i)'
    BY <1>0, <1>6 DEF SweepInv
  <2>5. gain => MinusDone(i)'
    BY DEF MinusDone
  <2> QED BY <2>2, <2>3, <2>4, <2>5
<1>8. \A i \in 1 .. s.cursor - 1 : PlusDone(i)' /\ MinusDone(i)'
  BY <1>0, <1>6 DEF SweepInv
<1>9. ~(s.phase = Plus /\ ~gain) => \A i \in 1 .. s.cursor : PlusDone(i)' /\ MinusDone(i)'
  <2> SUFFICES ASSUME ~(s.phase = Plus /\ ~gain), NEW i \in 1 .. s.cursor
               PROVE  PlusDone(i)' /\ MinusDone(i)'
    OBVIOUS
  <2>1. CASE i = s.cursor
    BY <1>2, <1>7, <2>1 DEF Directions
  <2>2. CASE i # s.cursor
    <3>1. i \in 1 .. s.cursor - 1
      BY <1>2, <2>2
    <3> QED BY <1>8, <3>1
  <2> QED BY <2>1, <2>2
<1>10. SweepInv'
  <2> SUFFICES ASSUME r.stop = Running
               PROVE  /\ \A i \in 1 .. r.cursor - 1 : PlusDone(i)' /\ MinusDone(i)'
                      /\ \A i : i = r.cursor /\ r.phase = Minus => PlusDone(i)'
    BY DEF SweepInv, PlusDone
  <2>1. CASE s.phase = Plus /\ ~gain
    BY <1>1, <1>7, <1>8, <2>1
  <2>2. CASE ~(s.phase = Plus /\ ~gain)
    <3>1. r.cursor = s.cursor + 1 /\ r.phase = Plus
      BY <1>1, <2>2
    <3>2. r.cursor - 1 = s.cursor
      BY <1>2, <3>1
    <3> QED BY <1>2, <1>9, <2>2, <3>1, <3>2
  <2> QED BY <2>1, <2>2
<1>11. EndInv'
  <2> SUFFICES ASSUME r.stop \in LocalOptima
               PROVE  \A i \in 1 .. Len(s.comps) : PlusDone(i)' /\ MinusDone(i)'
    BY <1>1 DEF EndInv, PlusDone, MinusDone
  <2>1. r.cursor = Len(s.comps) + 1
    BY <1>1
  <2>2. ~(s.phase = Plus /\ ~gain)
    BY <1>1, <1>2, <2>1
  <2>3. s.cursor = Len(s.comps)
    BY <1>1, <1>2, <2>1, <2>2
  <2> QED BY <1>9, <2>2, <2>3
<1> QED BY <1>1, <1>3, <1>4, <1>5, <1>10, <1>11 DEF SearchInv

\* So does a scored candidate.
LEMMA RecordScoredInv == SearchInv /\ RecordScored => SearchInv'
<1> SUFFICES ASSUME SearchInv, RecordScored PROVE SearchInv'
  OBVIOUS
<1>1. PICK selected \in BOOLEAN, material \in BOOLEAN :
          /\ session' = RecordOutcome(session, move, selected, material)
          /\ gained' = IF material THEN gained \cup {move.cursor} ELSE gained
  BY DEF RecordScored
<1>2. /\ move # NoMove /\ move' = NoMove /\ probed' = probed /\ lost' = lost
  BY DEF RecordScored
<1>3. /\ SessionOK(session) /\ Fresh(session) /\ session.stop = Running /\ move = MoveOf(session)
      /\ CountInv
  BY <1>2 DEF SearchInv, MoveInv
<1>4. /\ move.tick \in Ticks /\ move.direction = session.phase /\ move.cursor = session.cursor
      /\ session.phase = Plus => move.tick = 1
  BY <1>3, FreshMoveTick
<1> DEFINE tick == IF selected THEN move.tick ELSE session.ticks[session.cursor]
<1>5. /\ Answered(session', session, material) /\ session'.failed = session.failed
      /\ session'.ticks = [session.ticks EXCEPT ![session.cursor] = tick]
  BY <1>1, <1>3, <1>4, RecordOutcomeResult
<1>6. /\ tick \in Ticks
      /\ session.phase = Plus => tick \in {0, 1}
  BY <1>3, <1>4 DEF Fresh, SessionOK, Ticks
<1> HIDE DEF tick
<1>7. (session'.failed > 0 <=> lost') /\ lost' \in BOOLEAN
  BY <1>2, <1>3, <1>5 DEF CountInv
<1>8. gained' = IF material THEN gained \cup {session.cursor} ELSE gained
  BY <1>1, <1>4
<1>9. Answers(material, tick) /\ tick \in Ticks
  BY <1>2, <1>5, <1>6, <1>7, <1>8, Zenon DEF Answers
<1> QED BY <1>9, AnswerInv

\* And so does a failed one.
LEMMA RecordFailedInv == SearchInv /\ RecordFailed => SearchInv'
<1> SUFFICES ASSUME SearchInv, RecordFailed PROVE SearchInv'
  OBVIOUS
<1>1. /\ move # NoMove /\ session' = RecordFailure(session, move) /\ move' = NoMove
      /\ lost' = TRUE /\ probed' = probed /\ gained' = gained
  BY DEF RecordFailed
<1>2. /\ SessionOK(session) /\ Fresh(session) /\ session.stop = Running /\ move = MoveOf(session)
  BY <1>1 DEF SearchInv, MoveInv
<1>3. move.direction = session.phase
  BY <1>2, FreshMoveTick
<1>4. /\ Answered(session', session, FALSE) /\ session'.failed = session.failed + 1
      /\ session'.ticks = session.ticks
  BY <1>1, <1>2, <1>3, RecordFailureResult
<1> DEFINE tick == session.ticks[session.cursor]
<1>5. /\ session.ticks \in [1 .. Len(session.comps) -> Ticks]
      /\ session.cursor \in 1 .. Len(session.comps) /\ session.failed \in Nat
  BY <1>2 DEF SessionOK
<1>6. /\ tick \in Ticks
      /\ session.phase = Plus => tick \in {0, 1}
      /\ session'.ticks = [session.ticks EXCEPT ![session.cursor] = tick]
  BY <1>2, <1>4, <1>5 DEF Fresh
<1> HIDE DEF tick
<1>7. session'.failed > 0 <=> lost'
  BY <1>1, <1>4, <1>5
<1>8. /\ gained' = IF FALSE THEN gained \cup {session.cursor} ELSE gained
      /\ FALSE \in BOOLEAN /\ lost' \in BOOLEAN
  BY <1>1
<1>9. Answers(FALSE, tick) /\ tick \in Ticks
  BY <1>1, <1>4, <1>6, <1>7, <1>8, Zenon DEF Answers
<1> QED BY <1>8, <1>9, AnswerInv

-----------------------------------------------------------------------------
\* The inductive invariant: the session's shape, that what it has not tried is at
\* its anchor, that the pending move is its own, and how far the sweep has come.
THEOREM Invariance == Spec => []SearchInv
<1>1. Init => SearchInv
  BY InitInv
<1>2. SearchInv /\ [Next]_vars => SearchInv'
  <2> SUFFICES ASSUME SearchInv, [Next]_vars PROVE SearchInv'
    OBVIOUS
  <2>1. CASE Propose
    BY <2>1, ProposeInv
  <2>2. CASE RecordScored
    BY <2>2, RecordScoredInv
  <2>3. CASE RecordFailed
    BY <2>3, RecordFailedInv
  <2>4. CASE UNCHANGED vars
    BY <2>4 DEF vars, SearchInv, CountInv, MoveInv, SweepInv, EndInv, PlusDone, MinusDone
  <2> QED BY <2>1, <2>2, <2>3, <2>4 DEF Next
<1> QED BY <1>1, <1>2, PTL DEF Spec

\* The record functions of search.py never raise "invalid_outcome" under the driver of
\* uniform_optimization_nodes.py, for any components, budgets and answers.
THEOREM RecordsAreOwn == Spec => []RecordNeverRaises
<1>1. SearchInv => RecordNeverRaises
  <2> SUFFICES ASSUME SearchInv, move # NoMove PROVE AwaitsMove(session, move)
    BY DEF RecordNeverRaises
  <2>1. /\ session.stop = Running /\ Normalized(session) = session /\ move = MoveOf(session)
    BY DEF SearchInv, MoveInv
  <2>2. session.cursor <= Len(session.comps)
    BY <2>1 DEF SearchInv, SessionOK
  <2> QED BY <2>1, <2>2 DEF AwaitsMove
<1> QED BY <1>1, Invariance, PTL

\* A "local_optimum" of next_coordinate_move and _finish_pass was bracketed on both
\* sides of every active component, without a failure in doubt.
THEOREM OptimaAreBracketed == Spec => []OptimumIsBracketed
<1>1. SearchInv => OptimumIsBracketed
  <2> SUFFICES ASSUME SearchInv, session.stop \in LocalOptima
               PROVE  /\ gained # {} \/ ~lost
                      /\ \A i \in DOMAIN session.comps : PlusDone(i) /\ MinusDone(i)
    BY DEF OptimumIsBracketed, PlusDone, MinusDone
  <2>1. gained # {} \/ ~lost
    BY DEF SearchInv, EndInv, CountInv, SessionOK
  <2>2. DOMAIN session.comps = 1 .. Len(session.comps)
    BY DEF SearchInv, SessionOK
  <2> QED BY <2>1, <2>2 DEF SearchInv, EndInv
<1> QED BY <1>1, Invariance, PTL
=============================================================================
