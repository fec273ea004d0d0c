------------------------ MODULE MCGenerationService ------------------------
(* Three requests: the second names the run of the first, the third its      *)
(* project; for the conflict all of them name one run of one project.        *)
EXTENDS GenerationService

CONSTANTS first, again, other

MCRequests   == {first, again, other}
MCRunOf      == [r \in MCRequests |-> IF r = other THEN "run2" ELSE "run"]
MCProjectOf  == [r \in MCRequests |-> IF r = again THEN "project2" ELSE "project"]
MCOneRun     == [r \in MCRequests |-> "run"]
MCOneProject == [r \in MCRequests |-> "project"]
=============================================================================
