------------------------- MODULE CoordinatePattern -------------------------
(***************************************************************************)
(* The pure coordinate-pattern search of shaderforge/uniform_optimization: *)
(* models.py (which components are legal), flattening.py (which of them    *)
(* can move, and their clamped lattice) and search.py (the session record, *)
(* the next move, and how an outcome or a failure advances the session).   *)
(* Operators only: CoordinateSearch runs one session on its own and        *)
(* DirectAttempt drives it from the graph.                                 *)
(*                                                                         *)
(* A component is [field, base, step, lo, hi] over integers.  Decimal      *)
(* lattice values and their binary32 transport are abstracted to integers: *)
(* two values are the same uniform exactly when the integers are equal.    *)
(* models.py refuses max_passes > 1, so a finished pass always stops.      *)
(***************************************************************************)
EXTENDS Integers, Sequences, FiniteSets

Plus  == 1
Minus == -1
Directions == {Plus, Minus}

Running == "running"                     \* stop_reason is None
LocalOptima == {"local_optimum", "dimension_cap_reached_local_optimum"}
StopReasons == LocalOptima \cup
    {"no_tunables", "uniform_tuning_budget_exhausted", "candidate_failures_exhausted"}

\* FlatTunableComponent: a step that is not positive, or a value outside its range, is refused.
Component == {c \in [field : Int, base : Int, step : Int, lo : Int, hi : Int] :
                 c.step > 0 /\ c.lo <= c.base /\ c.base <= c.hi}

\* lattice_value: the base-anchored lattice, clamped to the tunable's range.
Lattice(c, tick) ==
    LET value == c.base + tick * c.step
    IN  IF value < c.lo THEN c.lo ELSE IF value > c.hi THEN c.hi ELSE value

\* flatten_tunable_components keeps a component only if one side leaves its value.
Movable(c) == \E d \in Directions : Lattice(c, d) # c.base

\* The orders of a set of components.  start_coordinate_pattern_session sorts by
\* a hash of the base spec and the path (_permutation_key), so any of them.
Orders(comps) == {s \in [1 .. Cardinality(comps) -> comps] :
                     \A i, j \in DOMAIN s : s[i].field = s[j].field => i = j}

StartSession(comps, budget, cap, passes) ==
    LET active == SubSeq(comps, 1, IF Len(comps) < cap THEN Len(comps) ELSE cap)
    IN  [comps |-> active, budget |-> budget, ticks |-> [i \in DOMAIN active |-> 0],
         cursor |-> 1, phase |-> Plus, material |-> FALSE,
         evaluated |-> 0, failed |-> 0, accepted |-> 0,
         capped |-> Len(comps) > Len(active),
         stop |-> IF active = <<>> THEN "no_tunables"
                  ELSE IF budget = 0 \/ passes = 0 THEN "uniform_tuning_budget_exhausted"
                  ELSE Running]

Probes(s) == s.evaluated + s.failed

FinishPass(s) ==
    [s EXCEPT !.stop = IF s.failed > 0 /\ ~s.material THEN "candidate_failures_exhausted"
                       ELSE IF s.capped THEN "dimension_cap_reached_local_optimum"
                       ELSE "local_optimum"]

FinishProbeBudget(s) ==
    IF s.stop # Running \/ Probes(s) < s.budget THEN s
    ELSE [s EXCEPT !.stop = IF s.failed > 0 /\ ~s.material
                            THEN "candidate_failures_exhausted"
                            ELSE "uniform_tuning_budget_exhausted"]

\* Mutant of Advance: the paired minus probe is forgotten.
AdvanceUnpaired(s, direction, material) ==
    LET moved == [s EXCEPT !.cursor = @ + 1, !.phase = Plus, !.material = @ \/ material]
    IN  IF moved.cursor > Len(moved.comps) THEN FinishPass(moved) ELSE moved

\* _advance: a non-material plus probe is paired with the minus probe of the
\* same component; anything else moves on to the next component.
Advance(s, direction, material) ==
    IF direction = Plus /\ ~material
    THEN [s EXCEPT !.phase = Minus]
    ELSE LET moved == [s EXCEPT !.cursor = @ + 1, !.phase = Plus,
                                !.material = @ \/ material]
         IN  IF moved.cursor > Len(moved.comps) THEN FinishPass(moved) ELSE moved

-----------------------------------------------------------------------------
(* next_coordinate_move.  Its loop skips, without consuming a probe, every   *)
(* position whose replacement equals the current value; what it returns is   *)
(* the first feasible position at or after the session's own.                *)

TickAt(s, i, d) == IF d = Plus THEN s.ticks[i] + 1 ELSE -1

Feasible(s, i, d) ==
    Lattice(s.comps[i], TickAt(s, i, d)) # Lattice(s.comps[i], s.ticks[i])

Before(p, q) == p[1] < q[1] \/ (p[1] = q[1] /\ p[2] >= q[2])

Ahead(s) == {p \in (s.cursor .. Len(s.comps)) \X Directions :
                Before(<<s.cursor, s.phase>>, p) /\ Feasible(s, p[1], p[2])}

Normalized(s) ==
    IF s.stop # Running THEN s
    ELSE IF Probes(s) >= s.budget THEN FinishProbeBudget(s)
    ELSE IF Ahead(s) = {} THEN FinishPass([s EXCEPT !.cursor = Len(s.comps) + 1, !.phase = Plus])
    ELSE LET next == CHOOSE p \in Ahead(s) : \A q \in Ahead(s) : Before(p, q)
         IN  [s EXCEPT !.cursor = next[1], !.phase = next[2]]

\* The move a normalized, running session proposes.
MoveOf(s) ==
    LET tick == TickAt(s, s.cursor, s.phase)
        c    == s.comps[s.cursor]
    IN  [cursor |-> s.cursor, field |-> c.field, tick |-> tick,
         direction |-> s.phase, ordinal |-> Probes(s) + 1,
         expected |-> Lattice(c, s.ticks[s.cursor]),
         replacement |-> Lattice(c, tick)]

\* The check both record functions make before they accept a move.
AwaitsMove(s, move) ==
    /\ s.stop = Running
    /\ s.cursor <= Len(s.comps)
    /\ Normalized(s) = s
    /\ move = MoveOf(s)

\* Mutant of RecordOutcome: the tick follows the material gains only.
RecordOutcomeMaterialOnly(s, move, selected, material) ==
    LET updated == [s EXCEPT !.ticks[s.cursor] = IF material THEN move.tick ELSE @,
                             !.evaluated = @ + 1,
                             !.accepted = @ + (IF selected THEN 1 ELSE 0)]
    IN  FinishProbeBudget(Advance(updated, move.direction, material))

RecordOutcome(s, move, selected, material) ==
    LET updated == [s EXCEPT !.ticks[s.cursor] = IF selected THEN move.tick ELSE @,
                             !.evaluated = @ + 1,
                             !.accepted = @ + (IF selected THEN 1 ELSE 0)]
    IN  FinishProbeBudget(Advance(updated, move.direction, material))

\* Mutant of RecordFailure: the same move is retried.
RecordFailureRetries(s, move) == s

RecordFailure(s, move) ==
    FinishProbeBudget(Advance([s EXCEPT !.failed = @ + 1], move.direction, FALSE))
=============================================================================
