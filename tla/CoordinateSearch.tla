-------------------------- MODULE CoordinateSearch --------------------------
(***************************************************************************)
(* One coordinate-pattern session from start to stop: the driver is the    *)
(* propose / record cycle of uniform_optimization_nodes.py with the scorer *)
(* left free.  A proposed candidate whose uniform vector was already       *)
(* scored is a duplicate and consumes a failed probe, as                   *)
(* apply_uniform_candidate makes it.                                       *)
(***************************************************************************)
EXTENDS CoordinatePattern

CONSTANTS Components,    \* the sets of components a session may start on
          ProbeBudget,   \* uniform_tuning_draw_budget
          ActiveCap,     \* uniform_tuning_active_component_cap
          MaxPasses      \* uniform_tuning_max_passes, at most 1

ASSUME SearchAssumption ==
    /\ \A comps \in Components : comps \subseteq Component /\ IsFiniteSet(comps)
    /\ ProbeBudget \in Nat
    /\ ActiveCap \in Nat
    /\ MaxPasses \in {0, 1}

VARIABLES session,       \* the CoordinatePatternSession
          move,          \* the pending CoordinateMove, or NoMove
          scored,        \* uniform vectors of the candidates evaluated so far
          probed,        \* history: the <<cursor, tick>> pairs proposed so far
          gained,        \* history: the components moved by a material gain
          lost           \* history: whether a probe failed

vars == <<session, move, scored, probed, gained, lost>>

NoMove == [cursor |-> 0]

\* The incumbent's uniform vector, as the session believes it to be.
Vector(s) == [i \in DOMAIN s.comps |-> Lattice(s.comps[i], s.ticks[i])]
Candidate(s, m) == [Vector(s) EXCEPT ![m.cursor] = m.replacement]

Init ==
    /\ \E comps \in Components :
          \E chosen \in Orders({c \in comps : Movable(c)}) :
              session = StartSession(chosen, ProbeBudget, ActiveCap, MaxPasses)
    /\ move = NoMove
    /\ scored = {Vector(session)}
    /\ probed = {}
    /\ gained = {}
    /\ lost = FALSE

\* Mutant of Propose: the skipped positions are not stored with the move.
ProposeUnnormalized ==
    /\ session.stop = Running
    /\ move = NoMove
    /\ LET s == Normalized(session)
       IN  IF s.stop = Running
           THEN session' = session /\ move' = MoveOf(s) /\ probed' = probed
           ELSE session' = s /\ UNCHANGED <<move, probed>>
    /\ UNCHANGED <<scored, gained, lost>>

Propose ==
    /\ session.stop = Running
    /\ move = NoMove
    /\ session' = Normalized(session)
    /\ IF session'.stop = Running
       THEN /\ move' = MoveOf(session')
            /\ probed' = probed \cup {<<move'.cursor, move'.tick>>}
       ELSE UNCHANGED <<move, probed>>
    /\ UNCHANGED <<scored, gained, lost>>

\* The candidate was drawn and scored; only a selected one can be material.
RecordScored ==
    /\ move # NoMove
    /\ Candidate(session, move) \notin scored
    /\ scored' = scored \cup {Candidate(session, move)}
    /\ \E selected, material \in BOOLEAN :
          /\ material => selected
          /\ session' = RecordOutcome(session, move, selected, material)
          /\ gained' = IF material THEN gained \cup {move.cursor} ELSE gained
    /\ move' = NoMove
    /\ UNCHANGED <<probed, lost>>

\* A duplicate, or a candidate-local failure before it could be scored.
RecordFailed ==
    /\ move # NoMove
    /\ session' = RecordFailure(session, move)
    /\ move' = NoMove
    /\ lost' = TRUE
    /\ UNCHANGED <<scored, probed, gained>>

Next == Propose \/ RecordScored \/ RecordFailed

Spec == Init /\ [][Next]_vars
-----------------------------------------------------------------------------
\* record_coordinate_outcome and record_coordinate_failure raise "invalid_outcome"
\* for a move that is not the session's own: the driver never makes them do so,
\* whatever was skipped between the proposal and the answer.
RecordNeverRaises == move # NoMove => AwaitsMove(session, move)

\* What "local optimum" must mean: of every active component, each side of its
\* anchor was either probed, or cannot be reached from the value the component
\* ended with, or was made pointless by a material gain on the plus side; and
\* without a material gain no probe was lost to a failed candidate.
OptimumIsBracketed ==
    session.stop \in LocalOptima =>
        /\ gained # {} \/ ~lost
        /\ \A i \in DOMAIN session.comps :
            /\ <<i, 1>> \in probed \/ Lattice(session.comps[i], 1) = Lattice(session.comps[i], 0)
            /\ \/ <<i, -1>> \in probed
               \/ Lattice(session.comps[i], -1) = Lattice(session.comps[i], 0)
               \/ i \in gained
=============================================================================
