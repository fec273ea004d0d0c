---------------------------- MODULE MCLayeredAuthor ----------------------------
(* Values for LayeredAuthor: plans of one and two layers, drafts that keep to   *)
(* the plan and drafts that do not, and replacements that clash or outgrow.     *)
EXTENDS LayeredAuthor

Back  == [id |-> "back", z |-> 0, body |-> 1, uniforms |-> {}, val |-> 0]
Front == [id |-> "front", z |-> 1, body |-> 1, uniforms |-> {"u"}, val |-> 0]

MCPlans == {<<[id |-> "back", z |-> 0], [id |-> "front", z |-> 1]>>,
            <<[id |-> "back", z |-> 0], [id |-> "back", z |-> 1]>>}

MCDrafts == {[side |-> 1, layers |-> <<Back, Front>>],
             [side |-> 2, layers |-> <<Back, Front>>],
             [side |-> 1, layers |-> <<[Back EXCEPT !.uniforms = {"u"}], Front>>],
             [side |-> 1, layers |-> <<[Back EXCEPT !.body = 2], Front>>],
             [side |-> 1, layers |-> <<Back>>]}

MCReplacements == {[Back EXCEPT !.body = 2], [Back EXCEPT !.uniforms = {"u"}],
                   [Back EXCEPT !.uniforms = {"v", "w"}],
                   [Front EXCEPT !.body = 2], [Front EXCEPT !.uniforms = {}],
                   Front, [Back EXCEPT !.body = 0]}

MCCredits == {[named |-> TRUE, counted |-> TRUE], [named |-> FALSE, counted |-> TRUE],
              [named |-> TRUE, counted |-> FALSE]}
MCTargets == {"back", "front", "other"}
MCBudget == [plan |-> 1, direct |-> 3]
=============================================================================
