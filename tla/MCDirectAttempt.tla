-------------------------- MODULE MCDirectAttempt --------------------------
(* Values for DirectAttempt: two sources, of which only the first has a      *)
(* tunable uniform; the model may author the first with two start values.    *)
EXTENDS DirectAttempt

MCTunables == [A |-> <<[step |-> 2, lo |-> 0, hi |-> 4]>>, B |-> <<>>]
MCAuthored == {[src |-> "A", vals |-> <<0>>], [src |-> "A", vals |-> <<2>>],
               [src |-> "B", vals |-> <<>>]}
\* With a start value outside the range it is to be searched in.
MCOutside == MCAuthored \cup {[src |-> "A", vals |-> <<5>>]}
\* Around targets 1 and 1: a start, a minor and a material gain that do not
\* dominate each other, and the target itself.
MCScores == {[mae |-> 3, loss |-> 3], [mae |-> 3, loss |-> 2],
             [mae |-> 1, loss |-> 3], [mae |-> 0, loss |-> 1]}

\* A chain of three gains short of the target, for two refinements.
MCChain == {[mae |-> 3, loss |-> 3], [mae |-> 3, loss |-> 1], [mae |-> 2, loss |-> 1]}
=============================================================================
