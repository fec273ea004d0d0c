------------------------ MODULE MCCoordinateSearch ------------------------
(* Small sets of components for CoordinateSearch: every start value of a    *)
(* three-value range (both clamps included), a step that overshoots the      *)
(* range, and an immovable component, in sets of up to four.                 *)
EXTENDS CoordinateSearch

Ranged(f, base) == [field |-> f, base |-> base, step |-> 1, lo |-> 0, hi |-> 2]
Coarse(f)       == [field |-> f, base |-> 1, step |-> 3, lo |-> 0, hi |-> 2]
Frozen(f)       == [field |-> f, base |-> 1, step |-> 1, lo |-> 1, hi |-> 1]

Choices(f) == {Ranged(f, b) : b \in 0 .. 2} \cup {Coarse(f)}

MCComponents ==
    {{}, {Frozen(1)}}
    \cup {{a} : a \in Choices(1)}
    \cup {{a, b} : a \in Choices(1), b \in Choices(2)}
    \cup {{a, Frozen(2), c} : a \in Choices(1), c \in Choices(3)}
    \cup {{a, b, c} : a \in Choices(1), b \in Choices(2), c \in Choices(3)}
    \cup {{a, Ranged(2, 1), Ranged(3, 2), d} : a \in Choices(1), d \in Choices(4)}
=============================================================================
