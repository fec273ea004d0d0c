---------------------- MODULE CoordinatePatternProofs ----------------------
(***************************************************************************)
(* Facts about the operators of CoordinatePattern: what a session looks    *)
(* like, that the first feasible position exists and is unique, so that    *)
(* normalising twice is normalising once, and what recording an answer     *)
(* may change.                                                             *)
(***************************************************************************)
EXTENDS CoordinatePattern, FiniteSetTheorems, SequenceTheorems, WellFoundedInduction, TLAPS

Ticks == {-1, 0, 1}

\* A record of exactly the fields of CoordinatePatternSession.
Shaped(s) ==
    s = [comps |-> s.comps, budget |-> s.budget, ticks |-> s.ticks, cursor |-> s.cursor,
         phase |-> s.phase, material |-> s.material, evaluated |-> s.evaluated,
         failed |-> s.failed, accepted |-> s.accepted, capped |-> s.capped, stop |-> s.stop]

\* The fields of a session, as StartSession makes them and every step keeps them.
SessionOK(s) ==
    /\ Shaped(s)
    /\ Len(s.comps) \in Nat
    /\ DOMAIN s.comps = 1 .. Len(s.comps)
    /\ \A i \in DOMAIN s.comps : s.comps[i] \in Component
    /\ s.ticks \in [1 .. Len(s.comps) -> Ticks]
    /\ s.budget \in Nat /\ s.evaluated \in Nat /\ s.failed \in Nat /\ s.accepted \in Nat
    /\ s.cursor \in 1 .. Len(s.comps) + 1 /\ s.phase \in Directions
    /\ s.material \in BOOLEAN /\ s.capped \in BOOLEAN
    /\ s.stop = Running => s.cursor \in 1 .. Len(s.comps)

\* A value of the lattice is an integer.
LEMMA LatticeType ==
    ASSUME NEW c \in Component, NEW tick \in Int
    PROVE  Lattice(c, tick) \in Int
  BY DEF Lattice, Component

\* A component whose two sides agree does not move at all: the lattice is monotone.
LEMMA LatticeSandwich ==
    ASSUME NEW c \in Component, Lattice(c, -1) = Lattice(c, 1)
    PROVE  Lattice(c, -1) = Lattice(c, 0) /\ Lattice(c, 1) = Lattice(c, 0)
<1>1. /\ c.base \in Int /\ c.step \in Int /\ c.lo \in Int /\ c.hi \in Int
  BY DEF Component
<1>2. /\ c.base + (-1) * c.step = c.base - c.step
      /\ c.base + 1 * c.step = c.base + c.step
      /\ c.base + 0 * c.step = c.base
  BY <1>1
<1> QED BY <1>1, <1>2 DEF Lattice

\* Every nonempty set of naturals has a least element.
LEMMA LeastNatural ==
    ASSUME NEW T, T \subseteq Nat, T # {}
    PROVE  \E m \in T : \A n \in T : m <= n
<1> DEFINE LT == {ss \in Nat \X Nat : ss[1] < ss[2]}
<1>1. IsWellFoundedOn(LT, Nat)
  BY NatLessThanWellFounded DEF OpToRel
<1>2. \A m, n \in T : n < m => <<n, m>> \in LT
  OBVIOUS
<1> HIDE DEF LT
<1>3. PICK m \in T : \A n \in T : <<n, m>> \notin LT
  BY <1>1, WFMin
<1>4. \A n \in T : ~(n < m)
  BY <1>2, <1>3
<1> QED BY <1>4

-----------------------------------------------------------------------------
(* The first feasible position.                                              *)

\* Of the feasible positions still ahead, one comes before all the others.
LEMMA FirstAhead ==
    ASSUME NEW s, SessionOK(s), Ahead(s) # {}
    PROVE  /\ \E p \in Ahead(s) : \A q \in Ahead(s) : Before(p, q)
           /\ \A p, q \in Ahead(s) : Before(p, q) /\ Before(q, p) => p = q
           /\ \A p \in Ahead(s) : /\ p = <<p[1], p[2]>>
                                  /\ p[1] \in s.cursor .. Len(s.comps) /\ p[2] \in Directions
<1> DEFINE Rows == {p[1] : p \in Ahead(s)}
<1>1. \A p \in Ahead(s) : /\ p = <<p[1], p[2]>>
                          /\ p[1] \in s.cursor .. Len(s.comps) /\ p[2] \in Directions
  BY DEF Ahead
<1>2. s.cursor \in Nat \ {0} /\ Len(s.comps) \in Nat
  BY DEF SessionOK
<1>3. Rows \subseteq Nat /\ Rows # {}
  BY <1>1, <1>2
<1>4. PICK row \in Rows : \A n \in Rows : row <= n
  <2> HIDE DEF Rows
  <2> QED BY <1>3, LeastNatural
<1>5. \E p \in Ahead(s) : \A q \in Ahead(s) : Before(p, q)
  <2>0. \A q \in Ahead(s) : q[1] \in Nat /\ row \in Nat /\ row <= q[1] /\ q[2] \in {1, -1}
    BY <1>1, <1>2, <1>4 DEF Directions, Plus, Minus
  <2>1. CASE <<row, Plus>> \in Ahead(s)
    <3>1. \A q \in Ahead(s) : Before(<<row, Plus>>, q)
      BY <2>0 DEF Before, Plus
    <3> QED BY <2>1, <3>1
  <2>2. CASE <<row, Plus>> \notin Ahead(s)
    <3>1. PICK p \in Ahead(s) : p[1] = row
      BY <1>4
    <3>2. p[2] = Minus /\ p = <<row, Minus>>
      BY <3>1, <2>2, <1>1 DEF Directions
    <3>3. \A q \in Ahead(s) : q[1] = row => q[2] = Minus
      BY <2>2, <1>1 DEF Directions
    <3>4. \A q \in Ahead(s) : Before(p, q)
      BY <2>0, <3>1, <3>2, <3>3 DEF Before, Minus
    <3> QED BY <3>4
  <2> QED BY <2>1, <2>2
<1>6. \A p, q \in Ahead(s) : Before(p, q) /\ Before(q, p) => p = q
  <2> SUFFICES ASSUME NEW p \in Ahead(s), NEW q \in Ahead(s), Before(p, q), Before(q, p)
               PROVE  p = q
    OBVIOUS
  <2>1. p[1] = q[1] /\ p[2] = q[2]
    BY <1>1, <1>2 DEF Before, Directions, Plus, Minus
  <2> QED BY <2>1, <1>1
<1> QED BY <1>1, <1>5, <1>6

\* The three ways in which next_coordinate_move answers a running session.
LEMMA NormalizedCases ==
    ASSUME NEW s, SessionOK(s), s.stop = Running
    PROVE  \/ /\ Probes(s) >= s.budget
              /\ Normalized(s) = FinishProbeBudget(s)
           \/ /\ Probes(s) < s.budget /\ Ahead(s) = {}
              /\ Normalized(s) = FinishPass([s EXCEPT !.cursor = Len(s.comps) + 1, !.phase = Plus])
           \/ /\ Probes(s) < s.budget
              /\ \E p \in Ahead(s) :
                    /\ \A q \in Ahead(s) : Before(p, q)
                    /\ Normalized(s) = [s EXCEPT !.cursor = p[1], !.phase = p[2]]
<1>1. Probes(s) >= s.budget \/ Probes(s) < s.budget
  BY DEF Probes, SessionOK
<1>2. ~(Probes(s) >= s.budget /\ Probes(s) < s.budget)
  BY DEF Probes, SessionOK
<1>3. CASE Probes(s) >= s.budget
  BY <1>3 DEF Normalized
<1>4. CASE Probes(s) < s.budget /\ Ahead(s) = {}
  BY <1>2, <1>4, Zenon DEF Normalized
<1>5. CASE Probes(s) < s.budget /\ Ahead(s) # {}
  <2> DEFINE next == CHOOSE p \in Ahead(s) : \A q \in Ahead(s) : Before(p, q)
  <2>1. next \in Ahead(s) /\ \A q \in Ahead(s) : Before(next, q)
    BY <1>5, FirstAhead
  <2>2. Normalized(s) = [s EXCEPT !.cursor = next[1], !.phase = next[2]]
    BY <1>2, <1>5, Zenon DEF Normalized
  <2> HIDE DEF next
  <2> QED BY <2>1, <2>2, <1>5, Zenon
<1> QED BY <1>1, <1>3, <1>4, <1>5, Zenon

-----------------------------------------------------------------------------
(* What each update of a session changes.                                    *)

\* r is s but for the fields named: the others are kept.
KeepsProbe(r, s) ==
    /\ r.comps = s.comps /\ r.budget = s.budget /\ r.ticks = s.ticks
    /\ r.evaluated = s.evaluated /\ r.failed = s.failed /\ r.accepted = s.accepted
    /\ r.capped = s.capped

\* Setting the stop reason changes nothing else.
LEMMA SetStop ==
    ASSUME NEW s, Shaped(s), NEW v
    PROVE  LET r == [s EXCEPT !.stop = v]
           IN  /\ Shaped(r) /\ KeepsProbe(r, s) /\ r.stop = v
               /\ r.cursor = s.cursor /\ r.phase = s.phase /\ r.material = s.material
<1> QED BY DEF Shaped, KeepsProbe

\* Setting the phase changes nothing else.
LEMMA SetPhase ==
    ASSUME NEW s, Shaped(s), NEW v
    PROVE  LET r == [s EXCEPT !.phase = v]
           IN  /\ Shaped(r) /\ KeepsProbe(r, s) /\ r.phase = v
               /\ r.cursor = s.cursor /\ r.stop = s.stop /\ r.material = s.material
<1> QED BY DEF Shaped, KeepsProbe

\* Setting the cursor changes nothing else.
LEMMA SetCursor ==
    ASSUME NEW s, Shaped(s), NEW v
    PROVE  LET r == [s EXCEPT !.cursor = v]
           IN  /\ Shaped(r) /\ KeepsProbe(r, s) /\ r.cursor = v
               /\ r.phase = s.phase /\ r.stop = s.stop /\ r.material = s.material
<1> QED BY DEF Shaped, KeepsProbe

\* Setting the material flag changes nothing else.
LEMMA SetMaterial ==
    ASSUME NEW s, Shaped(s), NEW v
    PROVE  LET r == [s EXCEPT !.material = v]
           IN  /\ Shaped(r) /\ KeepsProbe(r, s) /\ r.material = v
               /\ r.cursor = s.cursor /\ r.phase = s.phase /\ r.stop = s.stop
<1> QED BY DEF Shaped, KeepsProbe

\* The step to the next component.
Moved(s, gain) == [s EXCEPT !.cursor = @ + 1, !.phase = Plus, !.material = @ \/ gain]

\* Moving on to the next component changes only the position and the flag.
LEMMA SetMoved ==
    ASSUME NEW s, Shaped(s), NEW gain
    PROVE  LET r == Moved(s, gain)
           IN  /\ Shaped(r) /\ KeepsProbe(r, s) /\ r.cursor = s.cursor + 1 /\ r.phase = Plus
               /\ r.stop = s.stop /\ r.material = (s.material \/ gain)
<1> DEFINE r == Moved(s, gain)
           t == [s EXCEPT !.cursor = s.cursor + 1]
           u == [t EXCEPT !.phase = Plus]
           after == u.material \/ gain
<1>1. r = [u EXCEPT !.material = after]
  BY DEF Moved
<1>2. /\ Shaped(t) /\ KeepsProbe(t, s) /\ t.cursor = s.cursor + 1
      /\ t.phase = s.phase /\ t.stop = s.stop /\ t.material = s.material
  BY SetCursor
<1> HIDE DEF t
<1>3. /\ Shaped(u) /\ KeepsProbe(u, t) /\ u.phase = Plus
      /\ u.cursor = t.cursor /\ u.stop = t.stop /\ u.material = t.material
  BY <1>2, SetPhase
<1> HIDE DEF u
<1>4. /\ Shaped(r) /\ KeepsProbe(r, u) /\ r.material = after
      /\ r.cursor = u.cursor /\ r.phase = u.phase /\ r.stop = u.stop
  <2> HIDE DEF after, r
  <2> QED BY <1>1, <1>3, SetMaterial
<1> QED BY <1>2, <1>3, <1>4 DEF KeepsProbe

\* Counting a failed probe changes nothing else.
LEMMA SetFailed ==
    ASSUME NEW s, Shaped(s), NEW v
    PROVE  LET r == [s EXCEPT !.failed = v]
           IN  /\ Shaped(r) /\ r.comps = s.comps /\ r.budget = s.budget /\ r.ticks = s.ticks
               /\ r.evaluated = s.evaluated /\ r.accepted = s.accepted /\ r.capped = s.capped
               /\ r.cursor = s.cursor /\ r.phase = s.phase /\ r.stop = s.stop
               /\ r.material = s.material /\ r.failed = v
<1> QED BY DEF Shaped

\* A scored candidate, before the session advances.
Told(s, tick, n) ==
    [s EXCEPT !.ticks[s.cursor] = tick, !.evaluated = @ + 1, !.accepted = @ + n]

\* Counting a scored probe changes its tick and the counters.
LEMMA SetScored ==
    ASSUME NEW s, Shaped(s), NEW tick, NEW n
    PROVE  LET r == Told(s, tick, n)
           IN  /\ Shaped(r) /\ r.comps = s.comps /\ r.budget = s.budget
               /\ r.ticks = [s.ticks EXCEPT ![s.cursor] = tick]
               /\ r.evaluated = s.evaluated + 1 /\ r.accepted = s.accepted + n
               /\ r.capped = s.capped /\ r.cursor = s.cursor /\ r.phase = s.phase
               /\ r.stop = s.stop /\ r.material = s.material /\ r.failed = s.failed
<1> DEFINE r == Told(s, tick, n)
           t == [s EXCEPT !.ticks = [s.ticks EXCEPT ![s.cursor] = tick]]
           u == [t EXCEPT !.evaluated = t.evaluated + 1]
<1>1. t = [comps |-> s.comps, budget |-> s.budget, ticks |-> [s.ticks EXCEPT ![s.cursor] = tick],
           cursor |-> s.cursor, phase |-> s.phase, material |-> s.material,
           evaluated |-> s.evaluated, failed |-> s.failed, accepted |-> s.accepted,
           capped |-> s.capped, stop |-> s.stop]
  BY DEF Shaped
<1>2. r = [u EXCEPT !.accepted = u.accepted + n]
  BY DEF Told
<1> HIDE DEF t
<1>3. u = [comps |-> s.comps, budget |-> s.budget, ticks |-> [s.ticks EXCEPT ![s.cursor] = tick],
           cursor |-> s.cursor, phase |-> s.phase, material |-> s.material,
           evaluated |-> s.evaluated + 1, failed |-> s.failed, accepted |-> s.accepted,
           capped |-> s.capped, stop |-> s.stop]
  BY <1>1
<1> HIDE DEF u
<1>4. r = [comps |-> s.comps, budget |-> s.budget, ticks |-> [s.ticks EXCEPT ![s.cursor] = tick],
           cursor |-> s.cursor, phase |-> s.phase, material |-> s.material,
           evaluated |-> s.evaluated + 1, failed |-> s.failed, accepted |-> s.accepted + n,
           capped |-> s.capped, stop |-> s.stop]
  BY <1>2, <1>3
<1> QED BY <1>4 DEF Shaped
-----------------------------------------------------------------------------
(* How a session ends.                                                       *)

\* A finished pass stops, at a local optimum only if no failure spoilt it.
LEMMA FinishPassEnds ==
    ASSUME NEW s, Shaped(s), s.failed \in Nat
    PROVE  LET r == FinishPass(s)
           IN  /\ Shaped(r) /\ KeepsProbe(r, s)
               /\ r.cursor = s.cursor /\ r.phase = s.phase /\ r.material = s.material
               /\ r.stop \in StopReasons
               /\ r.stop \in LocalOptima => s.failed = 0 \/ s.material
<1> DEFINE reason == IF s.failed > 0 /\ ~s.material THEN "candidate_failures_exhausted"
                     ELSE IF s.capped THEN "dimension_cap_reached_local_optimum"
                     ELSE "local_optimum"
<1>1. reason \in StopReasons /\ (reason \in LocalOptima => s.failed = 0 \/ s.material)
  BY DEF StopReasons, LocalOptima
<1>2. FinishPass(s) = [s EXCEPT !.stop = reason]
  BY DEF FinishPass
<1> HIDE DEF reason
<1> QED BY <1>1, <1>2, SetStop

\* Looking at the probe budget may stop a session, never at a local optimum.
LEMMA FinishBudgetEnds ==
    ASSUME NEW s, SessionOK(s)
    PROVE  LET r == FinishProbeBudget(s)
           IN  /\ Shaped(r) /\ KeepsProbe(r, s)
               /\ r.cursor = s.cursor /\ r.phase = s.phase /\ r.material = s.material
               /\ s.stop # Running => r = s
               /\ r.stop = Running => r = s /\ Probes(s) < s.budget
               /\ r.stop \in LocalOptima => r = s
<1> DEFINE reason == IF s.failed > 0 /\ ~s.material THEN "candidate_failures_exhausted"
                     ELSE "uniform_tuning_budget_exhausted"
<1>1. reason \in StopReasons \ LocalOptima /\ reason # Running
  BY DEF StopReasons, LocalOptima, Running
<1>2. Shaped(s)
  BY DEF SessionOK
<1>3. CASE s.stop # Running \/ Probes(s) < s.budget
  BY <1>2, <1>3, Zenon DEF FinishProbeBudget, KeepsProbe
<1>4. CASE ~(s.stop # Running \/ Probes(s) < s.budget)
  <2>1. FinishProbeBudget(s) = [s EXCEPT !.stop = reason]
    BY <1>4, Zenon DEF FinishProbeBudget
  <2> HIDE DEF reason
  <2> QED BY <1>1, <1>2, <1>4, <2>1, SetStop
<1> QED BY <1>3, <1>4

\* A shape with a good position is a session.
LEMMA KeepsSession ==
    ASSUME NEW s, SessionOK(s), NEW r, Shaped(r), KeepsProbe(r, s),
           r.cursor \in 1 .. Len(s.comps) + 1, r.phase \in Directions, r.material \in BOOLEAN,
           r.stop = Running => r.cursor \in 1 .. Len(s.comps)
    PROVE  SessionOK(r)
<1> QED BY DEF SessionOK, KeepsProbe

-----------------------------------------------------------------------------
(* next_coordinate_move and the two record functions.                        *)

\* What next_coordinate_move leaves: the first feasible position, or a stop.
LEMMA NormalizedResult ==
    ASSUME NEW s, SessionOK(s), s.stop = Running
    PROVE  LET r == Normalized(s)
           IN  /\ SessionOK(r) /\ KeepsProbe(r, s) /\ r.material = s.material
               /\ r.stop = Running =>
                     /\ Probes(s) < s.budget
                     /\ <<r.cursor, r.phase>> \in Ahead(s)
                     /\ \A q \in Ahead(s) : Before(<<r.cursor, r.phase>>, q)
                     /\ r = [s EXCEPT !.cursor = r.cursor, !.phase = r.phase]
               /\ r.stop \in LocalOptima =>
                     Ahead(s) = {} /\ (s.failed = 0 \/ s.material)
<1> DEFINE r == Normalized(s)
<1>0. Shaped(s) /\ Running \notin LocalOptima /\ Running \notin StopReasons
  BY DEF SessionOK, Running, LocalOptima, StopReasons
<1>1. CASE Probes(s) >= s.budget /\ r = FinishProbeBudget(s)
  <2>1. ~(Probes(s) < s.budget)
    BY <1>1 DEF Probes, SessionOK
  <2>2. r.stop # Running /\ r.stop \notin LocalOptima
    BY <1>0, <1>1, <2>1, FinishBudgetEnds
  <2>3. Shaped(r) /\ KeepsProbe(r, s) /\ r.cursor = s.cursor /\ r.phase = s.phase /\ r.material = s.material
    BY <1>1, FinishBudgetEnds
  <2> HIDE DEF r
  <2>4. SessionOK(r)
    BY <2>2, <2>3, KeepsSession DEF SessionOK
  <2> QED BY <2>2, <2>3, <2>4 DEF r
<1>2. CASE /\ Probes(s) < s.budget /\ Ahead(s) = {}
           /\ r = FinishPass([s EXCEPT !.cursor = Len(s.comps) + 1, !.phase = Plus])
  <2> DEFINE past == Len(s.comps) + 1
             t == [s EXCEPT !.cursor = past, !.phase = Plus]
  <2>1. past \in 1 .. Len(s.comps) + 1 /\ Plus \in Directions
    BY DEF SessionOK, Directions
  <2> HIDE DEF past
  <2>2. Shaped(t) /\ KeepsProbe(t, s) /\ t.cursor = past /\ t.phase = Plus
        /\ t.stop = Running /\ t.material = s.material
    <3> DEFINE t0 == [s EXCEPT !.cursor = past]
    <3>1. t = [t0 EXCEPT !.phase = Plus]
      OBVIOUS
    <3>2. /\ Shaped(t0) /\ KeepsProbe(t0, s) /\ t0.cursor = past
          /\ t0.phase = s.phase /\ t0.stop = s.stop /\ t0.material = s.material
      BY <1>0, SetCursor
    <3> HIDE DEF t0, t
    <3> QED BY <3>1, <3>2, SetPhase DEF KeepsProbe
  <2>3. r = FinishPass(t)
    BY <1>2 DEF past
  <2> HIDE DEF t, r
  <2>4. t.failed \in Nat
    BY <2>2 DEF SessionOK, KeepsProbe
  <2>5. /\ Shaped(r) /\ KeepsProbe(r, t)
        /\ r.cursor = t.cursor /\ r.phase = t.phase /\ r.material = t.material
        /\ r.stop \in StopReasons /\ (r.stop \in LocalOptima => t.failed = 0 \/ t.material)
    BY <2>2, <2>3, <2>4, FinishPassEnds
  <2>6. Shaped(r) /\ KeepsProbe(r, s) /\ r.cursor = past /\ r.phase = Plus /\ r.material = s.material
        /\ r.stop # Running /\ (r.stop \in LocalOptima => s.failed = 0 \/ s.material)
    BY <1>0, <2>2, <2>5 DEF KeepsProbe
  <2>7. SessionOK(r)
    <3>1. s.material \in BOOLEAN
      BY DEF SessionOK
    <3> QED BY <2>1, <2>6, <3>1, KeepsSession
  <2> QED BY <1>2, <2>6, <2>7 DEF r
<1>3. CASE /\ Probes(s) < s.budget
           /\ \E p \in Ahead(s) :
                 /\ \A q \in Ahead(s) : Before(p, q)
                 /\ r = [s EXCEPT !.cursor = p[1], !.phase = p[2]]
  <2>1. PICK p \in Ahead(s) : /\ \A q \in Ahead(s) : Before(p, q)
                              /\ r = [s EXCEPT !.cursor = p[1], !.phase = p[2]]
    BY <1>3
  <2>2. p = <<p[1], p[2]>> /\ p[1] \in s.cursor .. Len(s.comps) /\ p[2] \in Directions
    BY FirstAhead
  <2> DEFINE i == p[1]
             d == p[2]
  <2>3. r = [s EXCEPT !.cursor = i, !.phase = d]
    BY <2>1
  <2> HIDE DEF i, d, r
  <2>4. Shaped(r) /\ KeepsProbe(r, s) /\ r.cursor = i /\ r.phase = d
        /\ r.stop = Running /\ r.material = s.material
    <3> DEFINE t0 == [s EXCEPT !.cursor = i]
    <3>1. r = [t0 EXCEPT !.phase = d]
      BY <2>3
    <3>2. /\ Shaped(t0) /\ KeepsProbe(t0, s) /\ t0.cursor = i
          /\ t0.phase = s.phase /\ t0.stop = s.stop /\ t0.material = s.material
      BY <1>0, SetCursor
    <3> HIDE DEF t0
    <3> QED BY <3>1, <3>2, SetPhase DEF KeepsProbe
  <2>5. i \in 1 .. Len(s.comps) /\ d \in Directions /\ i \in 1 .. Len(s.comps) + 1
    BY <2>2 DEF i, d, SessionOK
  <2>6. SessionOK(r)
    <3>1. s.material \in BOOLEAN
      BY DEF SessionOK
    <3> QED BY <2>4, <2>5, <3>1, KeepsSession
  <2>7. p = <<r.cursor, r.phase>>
    BY <2>2, <2>4 DEF i, d
  <2>8. r = [s EXCEPT !.cursor = r.cursor, !.phase = r.phase]
    BY <2>3, <2>4
  <2> QED BY <1>0, <1>3, <2>1, <2>4, <2>6, <2>7, <2>8 DEF r
<1> QED BY <1>1, <1>2, <1>3, NormalizedCases

\* Normalising twice is normalising once: the record functions, which normalise the
\* session again before they compare its move with the one they are given, find
\* the session that proposed it.
LEMMA NormalizedIdempotent ==
    ASSUME NEW s, SessionOK(s), s.stop = Running, Normalized(s).stop = Running
    PROVE  Normalized(Normalized(s)) = Normalized(s)
<1> DEFINE r == Normalized(s)
           first == <<r.cursor, r.phase>>
<1>1. /\ SessionOK(r) /\ KeepsProbe(r, s) /\ r.stop = Running
      /\ Probes(s) < s.budget
      /\ first \in Ahead(s) /\ \A q \in Ahead(s) : Before(first, q)
  BY NormalizedResult
<1> HIDE DEF r
<1>2. Probes(r) < r.budget
  BY <1>1 DEF Probes, KeepsProbe
<1>3. r.cursor \in s.cursor .. Len(s.comps) /\ r.phase \in Directions
  BY <1>1, FirstAhead
<1>4. Ahead(r) = Ahead(s)
  <2>1. \A i, d : Feasible(r, i, d) = Feasible(s, i, d)
    BY <1>1 DEF Feasible, TickAt, KeepsProbe
  <2>2. Ahead(r) \subseteq Ahead(s)
    <3> SUFFICES ASSUME NEW q \in Ahead(r) PROVE q \in Ahead(s)
      OBVIOUS
    <3>1. /\ q \in (r.cursor .. Len(r.comps)) \X Directions
          /\ Before(first, q) /\ Feasible(s, q[1], q[2])
      BY <2>1 DEF Ahead
    <3>2. s.cursor \in Int /\ Len(s.comps) \in Int /\ r.comps = s.comps
      BY <1>1 DEF SessionOK, KeepsProbe
    <3>3. q \in (s.cursor .. Len(s.comps)) \X Directions
      BY <1>3, <3>1, <3>2
    <3>4. Before(<<s.cursor, s.phase>>, first)
      BY <1>1 DEF Ahead
    <3>5. Before(<<s.cursor, s.phase>>, q)
      <4>1. /\ q[1] \in Int /\ q[2] \in Int /\ s.cursor \in Int /\ s.phase \in Int
            /\ r.cursor \in Int /\ r.phase \in Int
        <5>1. \A d \in Directions : d \in Int
          BY DEF Directions, Plus, Minus
        <5>2. s.phase \in Directions
          BY DEF SessionOK
        <5>3. q[1] \in s.cursor .. Len(s.comps) /\ q[2] \in Directions
          BY <3>3
        <5> QED BY <1>3, <3>2, <5>1, <5>2, <5>3
      <4> QED BY <3>1, <3>4, <4>1 DEF Before
    <3> QED BY <3>1, <3>3, <3>5 DEF Ahead
  <2>3. Ahead(s) \subseteq Ahead(r)
    <3> SUFFICES ASSUME NEW q \in Ahead(s) PROVE q \in Ahead(r)
      OBVIOUS
    <3>1. /\ q \in (s.cursor .. Len(s.comps)) \X Directions
          /\ Before(first, q) /\ Feasible(r, q[1], q[2])
      BY <1>1, <2>1 DEF Ahead
    <3>2. s.cursor \in Int /\ Len(s.comps) \in Int /\ r.comps = s.comps
      BY <1>1 DEF SessionOK, KeepsProbe
    <3>3. q[1] >= r.cursor
      BY <1>3, <3>1, <3>2 DEF Before
    <3>4. q \in (r.cursor .. Len(r.comps)) \X Directions
      BY <1>3, <3>1, <3>2, <3>3
    <3> QED BY <3>1, <3>4 DEF Ahead
  <2> QED BY <2>2, <2>3
<1>5. /\ Probes(r) < r.budget /\ \E p \in Ahead(r) :
            /\ \A q \in Ahead(r) : Before(p, q)
            /\ Normalized(r) = [r EXCEPT !.cursor = p[1], !.phase = p[2]]
  <2>1. Probes(r) \in Nat /\ r.budget \in Nat
    BY <1>1 DEF Probes, SessionOK
  <2>2. ~(Probes(r) >= r.budget)
    BY <1>2, <2>1
  <2> QED BY <1>1, <1>4, <2>2, NormalizedCases
<1>6. PICK p \in Ahead(r) : /\ \A q \in Ahead(r) : Before(p, q)
                            /\ Normalized(r) = [r EXCEPT !.cursor = p[1], !.phase = p[2]]
  BY <1>5
<1>7. p = first
  BY <1>1, <1>4, <1>6, FirstAhead
<1>8. Normalized(r) = [r EXCEPT !.cursor = r.cursor, !.phase = r.phase]
  BY <1>6, <1>7
<1>9. [r EXCEPT !.cursor = r.cursor, !.phase = r.phase] = r
  <2>1. Shaped(r)
    BY <1>1 DEF SessionOK
  <2>2. [r EXCEPT !.cursor = r.cursor] = r
    BY <2>1 DEF Shaped
  <2>3. [r EXCEPT !.phase = r.phase] = r
    BY <2>1 DEF Shaped
  <2> DEFINE t == [r EXCEPT !.cursor = r.cursor]
  <2>4. [r EXCEPT !.cursor = r.cursor, !.phase = r.phase] = [t EXCEPT !.phase = r.phase]
    OBVIOUS
  <2> QED BY <2>2, <2>3, <2>4
<1> QED BY <1>8, <1>9 DEF r

\* _advance: the paired probe of the same component, the next one, or the end.
LEMMA AdvanceResult ==
    ASSUME NEW s, SessionOK(s), s.stop = Running, NEW gain \in BOOLEAN
    PROVE  LET r == Advance(s, s.phase, gain)
           IN  /\ SessionOK(r) /\ KeepsProbe(r, s)
               /\ r.material = (s.material \/ gain)
               /\ s.phase = Plus /\ ~gain =>
                     r.cursor = s.cursor /\ r.phase = Minus /\ r.stop = Running
               /\ ~(s.phase = Plus /\ ~gain) =>
                     r.cursor = s.cursor + 1 /\ r.phase = Plus
               /\ r.stop \in LocalOptima =>
                     r.cursor = Len(s.comps) + 1 /\ (s.failed = 0 \/ r.material)
<1> DEFINE r == Advance(s, s.phase, gain)
<1>0. /\ Shaped(s) /\ s.material \in BOOLEAN /\ s.cursor \in 1 .. Len(s.comps)
      /\ Len(s.comps) \in Nat /\ s.failed \in Nat
      /\ Plus \in Directions /\ Minus \in Directions
      /\ Running \notin LocalOptima /\ Running \notin StopReasons
  BY DEF SessionOK, Directions, Running, LocalOptima, StopReasons
<1>1. CASE s.phase = Plus /\ ~gain
  <2>1. r = [s EXCEPT !.phase = Minus]
    BY <1>1 DEF Advance
  <2> HIDE DEF r
  <2>2. /\ Shaped(r) /\ KeepsProbe(r, s) /\ r.phase = Minus
        /\ r.cursor = s.cursor /\ r.stop = s.stop /\ r.material = s.material
    BY <1>0, <2>1, SetPhase
  <2>3. SessionOK(r)
    BY <1>0, <2>2, KeepsSession
  <2> QED BY <1>0, <1>1, <2>2, <2>3 DEF r
<1>2. CASE ~(s.phase = Plus /\ ~gain)
  <2> DEFINE t == Moved(s, gain)
  <2>1. r = IF t.cursor > Len(t.comps) THEN FinishPass(t) ELSE t
    BY <1>2, Zenon DEF Advance, Moved
  <2>2. /\ Shaped(t) /\ KeepsProbe(t, s) /\ t.cursor = s.cursor + 1 /\ t.phase = Plus
        /\ t.stop = Running /\ t.material = (s.material \/ gain)
    BY <1>0, SetMoved
  <2> HIDE DEF t, r
  <2>3. CASE t.cursor > Len(t.comps)
    <3>1. r = FinishPass(t)
      BY <2>1, <2>3
    <3>2. t.failed = s.failed
      BY <2>2 DEF KeepsProbe
    <3>5. /\ Shaped(r) /\ KeepsProbe(r, t)
          /\ r.cursor = t.cursor /\ r.phase = t.phase /\ r.material = t.material
          /\ r.stop \in StopReasons /\ (r.stop \in LocalOptima => t.failed = 0 \/ t.material)
      BY <1>0, <2>2, <3>1, <3>2, FinishPassEnds
    <3>6. t.cursor = Len(s.comps) + 1
      BY <1>0, <2>2, <2>3 DEF KeepsProbe
    <3>7. KeepsProbe(r, s) /\ r.cursor = Len(s.comps) + 1 /\ r.phase = Plus
          /\ r.material = (s.material \/ gain) /\ r.stop # Running
          /\ (r.stop \in LocalOptima => s.failed = 0 \/ r.material)
      BY <1>0, <2>2, <3>2, <3>5, <3>6 DEF KeepsProbe
    <3>8. SessionOK(r)
      <4>1. r.cursor \in 1 .. Len(s.comps) + 1 /\ r.material \in BOOLEAN
        BY <1>0, <3>7
      <4> QED BY <1>0, <3>5, <3>7, <4>1, KeepsSession
    <3>9. s.cursor + 1 = r.cursor
      BY <2>2, <3>5
    <3> QED BY <1>0, <1>2, <3>7, <3>8, <3>9 DEF r
  <2>4. CASE ~(t.cursor > Len(t.comps))
    <3>1. r = t
      BY <2>1, <2>4
    <3>2. t.cursor \in 1 .. Len(s.comps)
      BY <1>0, <2>2, <2>4 DEF KeepsProbe
    <3>3. t.cursor \in 1 .. Len(s.comps) + 1 /\ t.material \in BOOLEAN
      BY <1>0, <2>2, <3>2
    <3>4. SessionOK(r)
      BY <1>0, <2>2, <3>1, <3>2, <3>3, KeepsSession
    <3> QED BY <1>0, <1>2, <2>2, <3>1, <3>4 DEF r
  <2> QED BY <2>3, <2>4
<1> QED BY <1>1, <1>2

\* What an answer leaves behind: the probe is counted, and the session stands at
\* the paired probe, at the next component, or at its end.
Answered(r, s, gain) ==
    /\ SessionOK(r)
    /\ r.comps = s.comps /\ r.budget = s.budget /\ r.capped = s.capped
    /\ r.material = (s.material \/ gain)
    /\ s.phase = Plus /\ ~gain => r.cursor = s.cursor /\ r.phase = Minus
    /\ ~(s.phase = Plus /\ ~gain) => r.cursor = s.cursor + 1 /\ r.phase = Plus
    /\ r.stop \in LocalOptima =>
          r.cursor = Len(s.comps) + 1 /\ (r.failed = 0 \/ r.material)

\* A failed probe is counted, and moves no tick.
LEMMA RecordFailureResult ==
    ASSUME NEW s, SessionOK(s), s.stop = Running, NEW move, move.direction = s.phase
    PROVE  LET r == RecordFailure(s, move)
           IN  Answered(r, s, FALSE) /\ r.failed = s.failed + 1 /\ r.ticks = s.ticks
<1> DEFINE count == s.failed + 1
           t == [s EXCEPT !.failed = count]
           u == Advance(t, t.phase, FALSE)
           r == FinishProbeBudget(u)
<1>1. /\ Shaped(t) /\ t.comps = s.comps /\ t.budget = s.budget /\ t.ticks = s.ticks
      /\ t.evaluated = s.evaluated /\ t.accepted = s.accepted /\ t.capped = s.capped
      /\ t.cursor = s.cursor /\ t.phase = s.phase /\ t.stop = s.stop
      /\ t.material = s.material /\ t.failed = count
  <2> HIDE DEF count
  <2> QED BY SetFailed DEF SessionOK
<1>2. RecordFailure(s, move) = r
  BY <1>1 DEF RecordFailure
<1> HIDE DEF t
<1>3. SessionOK(t)
  <2>1. /\ Len(s.comps) \in Nat /\ DOMAIN s.comps = 1 .. Len(s.comps)
        /\ \A i \in DOMAIN s.comps : s.comps[i] \in Component
        /\ s.ticks \in [1 .. Len(s.comps) -> Ticks]
        /\ s.budget \in Nat /\ s.evaluated \in Nat /\ s.failed \in Nat /\ s.accepted \in Nat
        /\ s.cursor \in 1 .. Len(s.comps) + 1 /\ s.phase \in Directions
        /\ s.material \in BOOLEAN /\ s.capped \in BOOLEAN
        /\ s.stop = Running => s.cursor \in 1 .. Len(s.comps)
    BY DEF SessionOK
  <2>2. t.ticks \in [1 .. Len(t.comps) -> Ticks]
    BY <1>1, <2>1
  <2>3. t.failed \in Nat /\ t.evaluated \in Nat /\ t.accepted \in Nat
    BY <1>1, <2>1
  <2> QED BY <1>1, <2>1, <2>2, <2>3 DEF SessionOK
<1>4. /\ SessionOK(u) /\ KeepsProbe(u, t)
      /\ u.material = (t.material \/ FALSE)
      /\ t.phase = Plus => u.cursor = t.cursor /\ u.phase = Minus
      /\ ~(t.phase = Plus) => u.cursor = t.cursor + 1 /\ u.phase = Plus
      /\ u.stop \in LocalOptima =>
            u.cursor = Len(t.comps) + 1 /\ (t.failed = 0 \/ u.material)
  BY <1>1, <1>3, AdvanceResult
<1> HIDE DEF u
<1>5. /\ Shaped(r) /\ KeepsProbe(r, u)
      /\ r.cursor = u.cursor /\ r.phase = u.phase /\ r.material = u.material
      /\ r.stop = Running => r = u
      /\ r.stop \in LocalOptima => r = u
  BY <1>4, FinishBudgetEnds
<1> HIDE DEF r
<1>6. SessionOK(r)
  <2>1. /\ r.cursor \in 1 .. Len(u.comps) + 1 /\ r.phase \in Directions /\ r.material \in BOOLEAN
        /\ r.stop = Running => r.cursor \in 1 .. Len(u.comps)
    BY <1>4, <1>5 DEF SessionOK
  <2> QED BY <1>4, <1>5, <2>1, KeepsSession
<1> QED BY <1>1, <1>2, <1>4, <1>5, <1>6 DEF Answered, KeepsProbe

\* A scored probe is counted, and moves the tick of its component if selected.
LEMMA RecordOutcomeResult ==
    ASSUME NEW s, SessionOK(s), s.stop = Running, NEW move, move.direction = s.phase,
           move.tick \in Ticks, NEW selected \in BOOLEAN, NEW gain \in BOOLEAN
    PROVE  LET r == RecordOutcome(s, move, selected, gain)
           IN  /\ Answered(r, s, gain) /\ r.failed = s.failed
               /\ r.ticks = [s.ticks EXCEPT ![s.cursor] =
                                 IF selected THEN move.tick ELSE s.ticks[s.cursor]]
<1> DEFINE tick == IF selected THEN move.tick ELSE s.ticks[s.cursor]
           n == IF selected THEN 1 ELSE 0
           t == Told(s, tick, n)
           u == Advance(t, t.phase, gain)
           r == FinishProbeBudget(u)
<1>0. n \in Nat /\ tick \in Ticks
  BY DEF SessionOK
<1>2. RecordOutcome(s, move, selected, gain) = FinishProbeBudget(Advance(t, move.direction, gain))
  BY DEF RecordOutcome, Told
<1> HIDE DEF tick, n
<1>1. /\ Shaped(t) /\ t.comps = s.comps /\ t.budget = s.budget
      /\ t.ticks = [s.ticks EXCEPT ![s.cursor] = tick]
      /\ t.evaluated = s.evaluated + 1 /\ t.accepted = s.accepted + n
      /\ t.capped = s.capped /\ t.cursor = s.cursor /\ t.phase = s.phase
      /\ t.stop = s.stop /\ t.material = s.material /\ t.failed = s.failed
  BY SetScored DEF SessionOK
<1> HIDE DEF t
<1>3. SessionOK(t)
  <2>1. /\ Len(s.comps) \in Nat /\ DOMAIN s.comps = 1 .. Len(s.comps)
        /\ \A i \in DOMAIN s.comps : s.comps[i] \in Component
        /\ s.ticks \in [1 .. Len(s.comps) -> Ticks]
        /\ s.budget \in Nat /\ s.evaluated \in Nat /\ s.failed \in Nat /\ s.accepted \in Nat
        /\ s.cursor \in 1 .. Len(s.comps) + 1 /\ s.phase \in Directions
        /\ s.material \in BOOLEAN /\ s.capped \in BOOLEAN
        /\ s.stop = Running => s.cursor \in 1 .. Len(s.comps)
    BY DEF SessionOK
  <2>2. t.ticks \in [1 .. Len(t.comps) -> Ticks]
    BY <1>0, <1>1, <2>1
  <2>3. t.failed \in Nat /\ t.evaluated \in Nat /\ t.accepted \in Nat
    <3>1. s.evaluated + 1 \in Nat /\ s.accepted + n \in Nat
      BY <1>0, <2>1
    <3> QED BY <1>1, <2>1, <3>1
  <2> QED BY <1>1, <2>1, <2>2, <2>3 DEF SessionOK
<1>4. /\ SessionOK(u) /\ KeepsProbe(u, t)
      /\ u.material = (t.material \/ gain)
      /\ t.phase = Plus /\ ~gain => u.cursor = t.cursor /\ u.phase = Minus
      /\ ~(t.phase = Plus /\ ~gain) => u.cursor = t.cursor + 1 /\ u.phase = Plus
      /\ u.stop \in LocalOptima =>
            u.cursor = Len(t.comps) + 1 /\ (t.failed = 0 \/ u.material)
  BY <1>1, <1>3, AdvanceResult
<1> HIDE DEF u
<1>5. /\ Shaped(r) /\ KeepsProbe(r, u)
      /\ r.cursor = u.cursor /\ r.phase = u.phase /\ r.material = u.material
      /\ r.stop = Running => r = u
      /\ r.stop \in LocalOptima => r = u
  BY <1>4, FinishBudgetEnds
<1>6. RecordOutcome(s, move, selected, gain) = r
  BY <1>1, <1>2 DEF u
<1> HIDE DEF r
<1>7. SessionOK(r)
  <2>1. /\ r.cursor \in 1 .. Len(u.comps) + 1 /\ r.phase \in Directions /\ r.material \in BOOLEAN
        /\ r.stop = Running => r.cursor \in 1 .. Len(u.comps)
    BY <1>4, <1>5 DEF SessionOK
  <2> QED BY <1>4, <1>5, <2>1, KeepsSession
<1>8. Answered(r, s, gain) /\ r.failed = s.failed /\ r.ticks = [s.ticks EXCEPT ![s.cursor] = tick]
  BY <1>1, <1>4, <1>5, <1>7 DEF Answered, KeepsProbe
<1> QED BY <1>6, <1>8 DEF tick

\* A session starts on the anchor of its active components.
LEMMA StartResult ==
    ASSUME NEW C, C \subseteq Component, IsFiniteSet(C), NEW comps \in Orders(C),
           NEW budget \in Nat, NEW cap \in Nat, NEW passes
    PROVE  LET s == StartSession(comps, budget, cap, passes)
           IN  /\ SessionOK(s) /\ s.ticks = [i \in DOMAIN s.comps |-> 0]
               /\ s.cursor = 1 /\ s.phase = Plus /\ ~s.material /\ s.failed = 0
               /\ s.stop \notin LocalOptima
               /\ Len(s.comps) <= Len(comps)
               /\ \A i \in DOMAIN s.comps : i \in DOMAIN comps /\ s.comps[i] = comps[i]
<1> DEFINE size == IF Len(comps) < cap THEN Len(comps) ELSE cap
           active == SubSeq(comps, 1, size)
           s == StartSession(comps, budget, cap, passes)
<1>1. Cardinality(C) \in Nat
  BY FS_CardinalityType
<1>2. comps \in Seq(C) /\ Len(comps) = Cardinality(C) /\ DOMAIN comps = 1 .. Len(comps)
  BY <1>1 DEF Orders
<1>3. size \in 0 .. Len(comps)
  BY <1>1, <1>2
<1> HIDE DEF size
<1>4. /\ active \in Seq(C) /\ Len(active) = size
      /\ \A i \in 1 .. size : active[i] = comps[i]
  BY <1>1, <1>2, <1>3, SubSeqProperties
<1>5. /\ Len(active) \in Nat /\ DOMAIN active = 1 .. Len(active)
      /\ \A i \in DOMAIN active : active[i] \in Component
  BY <1>4
<1> HIDE DEF active
<1> DEFINE zero == [i \in DOMAIN active |-> 0]
           stop == IF active = <<>> THEN "no_tunables"
                   ELSE IF budget = 0 \/ passes = 0 THEN "uniform_tuning_budget_exhausted"
                   ELSE Running
           capped == Len(comps) > Len(active)
<1>6. s = [comps |-> active, budget |-> budget, ticks |-> zero, cursor |-> 1, phase |-> Plus,
           material |-> FALSE, evaluated |-> 0, failed |-> 0, accepted |-> 0,
           capped |-> capped, stop |-> stop]
  BY DEF StartSession, active, size
<1>7. zero \in [1 .. Len(active) -> Ticks] /\ capped \in BOOLEAN /\ Plus \in Directions
      /\ 1 \in 1 .. Len(active) + 1 /\ 0 \in Nat
  BY <1>5 DEF Ticks, Directions
<1>8. stop \notin LocalOptima /\ (stop = Running => 1 \in 1 .. Len(active))
  <2>1. active # <<>> => Len(active) # 0
    BY <1>4, EmptySeq
  <2> QED BY <1>5, <2>1 DEF LocalOptima, Running
<1> HIDE DEF zero, stop, capped, s
<1>9. SessionOK(s)
  BY <1>5, <1>6, <1>7, <1>8 DEF SessionOK, Shaped
<1>10. /\ s.ticks = [i \in DOMAIN s.comps |-> 0] /\ s.stop \notin LocalOptima
       /\ s.cursor = 1 /\ s.phase = Plus /\ ~s.material /\ s.failed = 0
  BY <1>6, <1>8 DEF zero
<1>11. /\ Len(s.comps) <= Len(comps)
       /\ \A i \in DOMAIN s.comps : i \in DOMAIN comps /\ s.comps[i] = comps[i]
  BY <1>1, <1>2, <1>3, <1>4, <1>5, <1>6
<1> QED BY <1>9, <1>10, <1>11 DEF s

-----------------------------------------------------------------------------
(* What a running session has not tried yet is still at its anchor.          *)

Fresh(s) ==
    s.stop = Running =>
        /\ \A i \in s.cursor + 1 .. Len(s.comps) : s.ticks[i] = 0
        /\ s.phase = Plus => s.ticks[s.cursor] = 0
        /\ s.ticks[s.cursor] \in {0, 1}

\* The move of a fresh session is one of its two anchored probes.
LEMMA FreshMoveTick ==
    ASSUME NEW s, SessionOK(s), Fresh(s), s.stop = Running
    PROVE  /\ MoveOf(s).tick \in Ticks /\ MoveOf(s).direction = s.phase
           /\ MoveOf(s).cursor = s.cursor
           /\ s.phase = Plus => MoveOf(s).tick = 1
           /\ s.phase = Minus => MoveOf(s).tick = -1
<1>1. /\ MoveOf(s).tick = TickAt(s, s.cursor, s.phase) /\ MoveOf(s).direction = s.phase
      /\ MoveOf(s).cursor = s.cursor
  BY DEF MoveOf
<1>2. s.phase = Plus => TickAt(s, s.cursor, s.phase) = 1
  BY DEF TickAt, Fresh
<1>3. s.phase = Minus => TickAt(s, s.cursor, s.phase) = -1
  BY DEF TickAt, Plus, Minus
<1> QED BY <1>1, <1>2, <1>3 DEF SessionOK, Directions, Ticks

\* A session that only moves ahead stays fresh.
LEMMA FreshMoves ==
    ASSUME NEW s, SessionOK(s), Fresh(s), s.stop = Running, NEW r, SessionOK(r),
           r.comps = s.comps, r.ticks = s.ticks,
           r.stop = Running => Before(<<s.cursor, s.phase>>, <<r.cursor, r.phase>>)
    PROVE  Fresh(r)
<1> SUFFICES ASSUME r.stop = Running
             PROVE  /\ \A i \in r.cursor + 1 .. Len(r.comps) : r.ticks[i] = 0
                    /\ r.phase = Plus => r.ticks[r.cursor] = 0
                    /\ r.ticks[r.cursor] \in {0, 1}
  BY DEF Fresh
<1>1. /\ s.cursor \in 1 .. Len(s.comps) /\ r.cursor \in 1 .. Len(s.comps) /\ Len(s.comps) \in Nat
      /\ s.phase \in {1, -1} /\ r.phase \in {1, -1} /\ Plus = 1
  BY DEF SessionOK, Directions, Plus, Minus
<1>2. /\ \A i \in s.cursor + 1 .. Len(s.comps) : s.ticks[i] = 0
      /\ s.phase = 1 => s.ticks[s.cursor] = 0
      /\ s.ticks[s.cursor] \in {0, 1}
  BY <1>1 DEF Fresh
<1>3. s.cursor < r.cursor \/ (s.cursor = r.cursor /\ s.phase >= r.phase)
  BY DEF Before
<1> QED BY <1>1, <1>2, <1>3

\* An answer keeps a session fresh.
LEMMA FreshAnswers ==
    ASSUME NEW s, SessionOK(s), Fresh(s), s.stop = Running, NEW gain \in BOOLEAN,
           NEW r, Answered(r, s, gain), NEW tick \in Ticks,
           r.ticks = [s.ticks EXCEPT ![s.cursor] = tick], s.phase = Plus => tick \in {0, 1}
    PROVE  Fresh(r)
<1> SUFFICES ASSUME r.stop = Running
             PROVE  /\ \A i \in r.cursor + 1 .. Len(r.comps) : r.ticks[i] = 0
                    /\ r.phase = Plus => r.ticks[r.cursor] = 0
                    /\ r.ticks[r.cursor] \in {0, 1}
  BY DEF Fresh
<1>1. /\ s.cursor \in 1 .. Len(s.comps) /\ r.cursor \in 1 .. Len(s.comps) /\ Len(s.comps) \in Nat
      /\ r.comps = s.comps /\ Plus # Minus /\ s.ticks \in [1 .. Len(s.comps) -> Ticks]
  BY DEF SessionOK, Answered, Plus, Minus
<1>2. \A i \in s.cursor + 1 .. Len(s.comps) : s.ticks[i] = 0 /\ r.ticks[i] = 0
  BY <1>1 DEF Fresh
<1>3. r.ticks[s.cursor] = tick
  BY <1>1
<1>4. CASE s.phase = Plus /\ ~gain
  <2>1. r.cursor = s.cursor /\ r.phase = Minus
    BY <1>4 DEF Answered
  <2> QED BY <1>1, <1>2, <1>3, <1>4, <2>1
<1>5. CASE ~(s.phase = Plus /\ ~gain)
  <2>1. r.cursor = s.cursor + 1
    BY <1>5 DEF Answered
  <2> QED BY <1>1, <1>2, <2>1
<1> QED BY <1>4, <1>5
=============================================================================
