------------------------- MODULE DirectAttemptProofs -------------------------
(***************************************************************************)
(* What DirectAttempt guarantees for every set of shaders, every score and *)
(* every budget.                                                           *)
(*                                                                         *)
(* The argument: each draw is charged to exactly one of three accounts.    *)
(* Mask draws and uniform draws are bounded where they are made; the rest, *)
(* the structural draws, are at most one for the initial candidate and one *)
(* per refinement.  Compiles are charged to the structural account alone,  *)
(* because a uniform candidate keeps its incumbent's source, and that      *)
(* source's program is in the cache for as long as its search runs.        *)
(* Then the incumbent: what was scored, and why the attempt stopped.       *)
(* Last the search: its session, the candidate in flight and the incumbent *)
(* stay one move apart at most, through every node that changes one of     *)
(* them, and the writer's replay ends where the attempt did.               *)
(***************************************************************************)
EXTENDS DirectAttempt, CoordinatePatternProofs

PreCompile == {"compile_candidate", "validate_candidate", "prepare_program"}
PreDraw    == PreCompile \cup {"render_program"}
PostCompile == {"render_program", "verify_receipt", "attest_candidate", "evaluate_candidate"}
Pipeline   == PreCompile \cup PostCompile
Refining   == {"decide_refinement", "author_refinement", "apply_refinement"}
Proposing  == {"propose_uniform_candidate", "apply_uniform_candidate"}
Searching  == Proposing \cup {"record_uniform_outcome"}
Ending     == {"release_resources", "finalize_attempt", "unwinding"} \cup Terminal

Structural   == draws - maskDraws - uniDraws
NothingDrawn == draws = 0 /\ maskDraws = 0 /\ uniDraws = 0

\* Which role a node can be running for.
RolesByNode ==
    /\ pc \in {"author_layer_plan", "author_initial"} => role = "initial"
    /\ pc = "apply_refinement" => role = "refine" /\ pending = None
    /\ pc \in Pipeline => pending = None

\* Where the shaders in flight come from.
SourcesKnown ==
    /\ pc \in Pipeline => cand.src \in Sources
    /\ pc = "select_candidate" => pending.src \in Sources
    /\ pc = "apply_refinement" => patch = Invalid \/ patch.src \in Sources
    /\ pc \in {"author_layer_plan", "author_initial"} => best = None
    /\ pc \in Pipeline \cup {"select_candidate"} =>
          IF role = "initial" THEN best = None ELSE best.src \in Sources
    /\ pc \in Refining \cup Searching \cup {"decide_uniform_optimization"} =>
          best.src \in Sources

\* The three accounts of the global draw counter.
DrawLedger ==
    /\ uniDraws <= UniformBudget /\ maskDraws <= MaskBudget
    /\ Structural <= 1 + refCount
    /\ pc \in {"author_layer_plan", "author_initial"} => refCount = 0 /\ NothingDrawn
    /\ pc \in PreDraw /\ role = "initial" => NothingDrawn
    /\ pc \in PreDraw \cup {"apply_refinement"} /\ role = "refine" => Structural <= refCount
    /\ pc \in Proposing => uniDraws < UniformBudget
    /\ pc \in PreDraw /\ role = "uniform_optimize" => uniDraws < UniformBudget
    /\ pc = "author_refinement" => refCount < RefineBudget
    /\ pc \in Proposing \cup {"author_refinement"} => draws < DrawBudget
    /\ pc \in PreDraw \cup {"apply_refinement"} /\ role # "initial" => draws < DrawBudget

\* Only initial and refined candidates are ever charged a compile.
CompileLedger ==
    /\ compiles <= 1 + refCount
    /\ pc \in {"author_layer_plan", "author_initial"} => compiles = 0
    /\ pc \in PreCompile /\ role = "initial" => compiles = 0
    /\ pc \in PreCompile \cup {"apply_refinement"} /\ role = "refine" => compiles <= refCount

\* The incumbent's program stays cached from its selection to the end of its search.
ProgramKept ==
    /\ pc \in PostCompile => cand.src \in cache
    /\ pc = "select_candidate" => pending.src \in cache
    /\ pc \in Pipeline /\ role = "uniform_optimize" => cand.src = best.src /\ best.src \in cache
    /\ pc = "select_candidate" /\ role = "uniform_optimize" =>
          pending.src = best.src /\ best.src \in cache
    /\ pc \in Proposing => best.src \in cache
    /\ pc = "record_uniform_outcome" =>
          best.src \in cache \/ (pending = None /\ lastError \in HardCodes)
    /\ pc = "decide_uniform_optimization" => best.src \in completed \/ best.src \in cache

\* A source is searched while it is not completed, and refined only once it is.
SearchOrder ==
    /\ pc \in Refining => best.src \in completed
    /\ pc \in Pipeline \cup {"select_candidate"} /\ role = "refine" => best.src \in completed
    /\ pc \in Searching => sessionSrc = best.src /\ best.src \notin completed
    /\ pc \in Pipeline \cup {"select_candidate"} /\ role = "uniform_optimize" =>
          sessionSrc = best.src /\ best.src \notin completed
    /\ pc \notin Ending /\ session # None /\ session.stop = Running
       /\ sessionSrc \in completed =>
          uniDraws >= UniformBudget \/ blocked

\* A hard block is only ever seen by the nodes that end the attempt.
BlockEnds ==
    blocked => pc \in {"decide_uniform_optimization", "decide_refinement"} \cup Ending

\* Where each node may be, and what the ledgers say there.
AttemptInv ==
    /\ RolesByNode
    /\ SourcesKnown
    /\ DrawLedger
    /\ CompileLedger
    /\ ProgramKept
    /\ SearchOrder
    /\ BlockEnds

IndInv == TypeOK /\ AttemptInv
-----------------------------------------------------------------------------
\* The mask share is a natural number.
LEMMA MaskBudgetType == MaskBudget \in Nat
BY BudgetAssumption DEF MaskBudget

\* It is nothing, or what completes the draw budget.
LEMMA MaskBudgetValue ==
    MaskBudget = 0 \/ MaskBudget = DrawBudget - (1 + RefineBudget) - UniformBudget
BY DEF MaskBudget

\* Least picks a lower bound of its arguments.
LEMMA LeastOfThree ==
    ASSUME NEW a \in Int, NEW b \in Int, NEW c \in Int
    PROVE  Least({a, b, c}) \in {a, b, c} /\ Least({a, b, c}) <= b /\ Least({a, b, c}) <= c
<1>1. \E n \in {a, b, c} : \A m \in {a, b, c} : n <= m
  OBVIOUS
<1>2. QED
  BY <1>1 DEF Least

\* When k more masks are drawn, what is not a mask stays the same.
LEMMA SameStructure ==
    ASSUME NEW d \in Nat, NEW m \in Nat, NEW k \in Nat
    PROVE  (d + k) - (m + k) = d - m
OBVIOUS

\* Of d draws, m were for masks and u for probes, and c refinements were charged:
\* when k more masks are drawn, a budget of full accounts has room for one more.
LEMMA FullAccounts ==
    ASSUME NEW d \in Nat, NEW m \in Nat, NEW u \in Nat, NEW c \in Nat, NEW k \in Nat,
           NEW budget \in Nat, NEW refines \in Nat, NEW probes \in Nat,
           m + k <= budget - (1 + refines) - probes,
           u <= probes, c < refines, d - m - u <= 1 + c
    PROVE  d + k < budget
OBVIOUS

\* The mask draws of one refinement stay within their share and the global budget.
LEMMA RoleMasksBounded ==
    ASSUME TypeOK, maskDraws <= MaskBudget, RoleMasks
    PROVE  /\ draws' \in 0 .. DrawBudget /\ maskDraws' \in Nat
           /\ maskDraws' <= MaskBudget
           /\ draws' - maskDraws' = draws - maskDraws
           /\ \E k \in Nat : draws' = draws + k /\ maskDraws + k <= MaskBudget
           /\ cache' \subseteq cache /\ live' \subseteq live
<1>1. MaskBudget \in Nat /\ DrawBudget \in Nat
  BY MaskBudgetType, BudgetAssumption
<1> DEFINE room == Least({2, MaskBudget - maskDraws, DrawBudget - draws})
<1>2. room \in Int /\ room <= MaskBudget - maskDraws /\ room <= DrawBudget - draws
  BY <1>1, LeastOfThree DEF TypeOK
<1> DEFINE n == IF best.src \in cache /\ room > 0 THEN room ELSE 0
<1>3. PICK k \in 0 .. n : draws' = draws + k /\ maskDraws' = maskDraws + k
  BY <1>2 DEF RoleMasks, MasksAllowed
<1>4. cache' \subseteq cache /\ live' \subseteq live
  BY DEF RoleMasks, Release
<1> HIDE DEF room
<1>5. /\ k \in Nat /\ draws + k \in 0 .. DrawBudget
      /\ maskDraws + k \in Nat /\ maskDraws + k <= MaskBudget
  BY <1>1, <1>2 DEF TypeOK
<1>6. draws' - maskDraws' = draws - maskDraws
  BY <1>3, <1>5, SameStructure DEF TypeOK
<1>7. QED
  BY <1>3, <1>4, <1>5, <1>6

\* After the mask draws of a refinement there is still a draw for its candidate.
LEMMA MasksLeaveADraw ==
    ASSUME TypeOK, DrawLedger, pc = "author_refinement", RoleMasks
    PROVE  draws' < DrawBudget
<1>1. PICK k \in Nat : draws' = draws + k /\ maskDraws + k <= MaskBudget
  BY RoleMasksBounded DEF DrawLedger
<1>2. /\ draws < DrawBudget /\ refCount < RefineBudget /\ uniDraws <= UniformBudget
      /\ draws - maskDraws - uniDraws <= 1 + refCount
  BY DEF DrawLedger, Structural
<1>3. /\ draws \in Nat /\ maskDraws \in Nat /\ uniDraws \in Nat /\ refCount \in Nat
      /\ RefineBudget \in Nat /\ UniformBudget \in Nat /\ DrawBudget \in Nat
  BY BudgetAssumption DEF TypeOK
<1>4. CASE MaskBudget = 0
  <2>1. k = 0
    BY <1>1, <1>3, <1>4
  <2>2. QED
    BY <1>1, <1>2, <1>3, <2>1
<1>5. CASE MaskBudget = DrawBudget - (1 + RefineBudget) - UniformBudget
  <2>1. maskDraws + k <= DrawBudget - (1 + RefineBudget) - UniformBudget
    BY <1>1, <1>5
  <2>2. draws + k < DrawBudget
    BY <1>2, <1>3, <2>1, FullAccounts
  <2>3. QED
    BY <1>1, <2>2
<1>6. QED
  BY <1>4, <1>5, MaskBudgetValue

\* The type invariant by kinds of variables, as the provers want it.
NodeTypes == pc \in Pcs /\ role \in Roles
CounterTypes ==
    /\ llm \in 0 .. LlmBudget
    /\ compiles \in 0 .. CompileBudget
    /\ draws \in 0 .. DrawBudget
    /\ refCount \in 0 .. RefineBudget
    /\ maskDraws \in Nat /\ uniDraws \in Nat /\ nonImproving \in Nat
    /\ accepted \in Nat /\ sessions \in Nat
SetTypes == cache \subseteq Sources /\ live \subseteq Sources /\ completed \subseteq Sources
FlagTypes == /\ blocked \in BOOLEAN /\ dup \in BOOLEAN
             /\ selected \in BOOLEAN /\ material \in BOOLEAN

\* The four kinds make up the type invariant.
LEMMA TypeParts == TypeOK <=> NodeTypes /\ CounterTypes /\ SetTypes /\ FlagTypes
BY DEF TypeOK, NodeTypes, CounterTypes, SetTypes, FlagTypes

\* Everything starts at zero.
LEMMA IndInvInit == Init => IndInv
<1> SUFFICES ASSUME Init PROVE IndInv
  OBVIOUS
<1>1. NodeTypes
  BY DEF Init, NodeTypes, Pcs, Roles
<1>2. CounterTypes
  BY BudgetAssumption DEF Init, CounterTypes
<1>3. SetTypes /\ FlagTypes
  BY DEF Init, SetTypes, FlagTypes
<1>4. RolesByNode /\ SourcesKnown /\ CompileLedger /\ ProgramKept /\ SearchOrder /\ BlockEnds
  BY DEF Init, RolesByNode, SourcesKnown, CompileLedger, ProgramKept, SearchOrder, BlockEnds,
         PreCompile, PostCompile, Pipeline, Refining, Proposing, Searching, Ending
<1>5. DrawLedger
  BY MaskBudgetType, BudgetAssumption
  DEF Init, DrawLedger, Structural, NothingDrawn, Proposing, PreCompile, PreDraw
<1>6. QED
  BY <1>1, <1>2, <1>3, <1>4, <1>5, TypeParts DEF IndInv, AttemptInv

\* Every node keeps the variables in their types.
LEMMA TypeStep ==
    ASSUME IndInv, [Next]_vars
    PROVE  TypeOK'
<1> USE BudgetAssumption
    DEF Pcs, Roles, Terminal, NodeTypes, CounterTypes, SetTypes, FlagTypes,
        candVars, bestVars, refVars, uniVars, counters, SearchFrame, AttemptFrame,
        Proceed, Reject, RejectHard, FailureRoute, Release
<1>0. NodeTypes /\ CounterTypes /\ SetTypes /\ FlagTypes
  BY TypeParts DEF IndInv
<1>1. CASE AuthorLayerPlan
  BY <1>0, <1>1 DEF AuthorLayerPlan, TypeOK
<1>2. CASE AuthorInitial
  BY <1>0, <1>2 DEF AuthorInitial, AuthorCalls, AuthorFailures, Sources, TypeOK
<1>3. CASE AuthorRefinement
  <2>1. NodeTypes'
    BY <1>3 DEF AuthorRefinement
  <2>2. CounterTypes'
    <3>1. draws' \in 0 .. DrawBudget /\ maskDraws' \in Nat
      BY <1>3, RoleMasksBounded DEF AuthorRefinement, IndInv, AttemptInv, DrawLedger
    <3>2. llm' \in 0 .. LlmBudget
      BY <1>0, <1>3 DEF AuthorRefinement, AuthorCalls, AuthorFailures
    <3>3. refCount' \in 0 .. RefineBudget
      BY <1>0, <1>3 DEF AuthorRefinement, IndInv, AttemptInv, DrawLedger
    <3>4. nonImproving' \in Nat
      BY <1>0, <1>3 DEF AuthorRefinement
    <3>5. QED
      BY <1>0, <1>3, <3>1, <3>2, <3>3, <3>4 DEF AuthorRefinement
  <2>3. SetTypes'
    <3>1. cache' \subseteq cache /\ live' \subseteq live
      BY <1>3, RoleMasksBounded DEF AuthorRefinement, IndInv, AttemptInv, DrawLedger
    <3>2. QED
      BY <1>0, <1>3, <3>1 DEF AuthorRefinement
  <2>4. FlagTypes'
    <3>1. blocked' \in BOOLEAN
      BY <1>3 DEF AuthorRefinement
    <3>2. QED
      BY <1>0, <1>3, <3>1 DEF AuthorRefinement
  <2>5. QED
    BY <2>1, <2>2, <2>3, <2>4 DEF TypeOK
<1>4. CASE ApplyRefinement
  <2>1. NodeTypes' /\ FlagTypes'
    BY <1>0, <1>4 DEF ApplyRefinement
  <2>2. CounterTypes' /\ SetTypes'
    BY <1>0, <1>4 DEF ApplyRefinement
  <2>3. QED
    BY <2>1, <2>2 DEF TypeOK
<1>5. CASE CompileCandidate
  <2>1. NodeTypes' /\ FlagTypes'
    BY <1>0, <1>5 DEF CompileCandidate, Gate
  <2>2. CounterTypes' /\ SetTypes'
    BY <1>0, <1>5 DEF CompileCandidate, Gate
  <2>3. QED
    BY <2>1, <2>2 DEF TypeOK
<1>6. CASE ValidateCandidate
  <2>1. NodeTypes' /\ FlagTypes'
    BY <1>0, <1>6 DEF ValidateCandidate, Gate
  <2>2. CounterTypes' /\ SetTypes'
    BY <1>0, <1>6 DEF ValidateCandidate, Gate
  <2>3. QED
    BY <2>1, <2>2 DEF TypeOK
<1>7. CASE PrepareHit
  BY <1>0, <1>7 DEF PrepareHit, TypeOK
<1>8. CASE PrepareDenied
  <2>1. NodeTypes' /\ FlagTypes'
    BY <1>0, <1>8 DEF PrepareDenied
  <2>2. CounterTypes' /\ SetTypes'
    BY <1>0, <1>8 DEF PrepareDenied
  <2>3. QED
    BY <2>1, <2>2 DEF TypeOK
<1>9. CASE PrepareMiss
  <2>1. NodeTypes' /\ FlagTypes'
    BY <1>0, <1>9 DEF PrepareMiss
  <2>2. CounterTypes' /\ SetTypes'
    BY <1>0, <1>9 DEF PrepareMiss, IndInv, AttemptInv, SourcesKnown, Proposing,
       Searching, Pipeline, PreCompile
  <2>3. QED
    BY <2>1, <2>2 DEF TypeOK
<1>10. CASE RenderDenied
  <2>1. NodeTypes' /\ FlagTypes'
    BY <1>0, <1>10 DEF RenderDenied
  <2>2. CounterTypes' /\ SetTypes'
    BY <1>0, <1>10 DEF RenderDenied
  <2>3. QED
    BY <2>1, <2>2 DEF TypeOK
<1>11. CASE RenderDraw
  <2>1. NodeTypes' /\ FlagTypes'
    BY <1>0, <1>11 DEF RenderDraw, HardCodes
  <2>2. CounterTypes' /\ SetTypes'
    BY <1>0, <1>11 DEF RenderDraw, HardCodes
  <2>3. QED
    BY <2>1, <2>2 DEF TypeOK
<1>12. CASE VerifyReceipt
  <2>1. NodeTypes' /\ FlagTypes'
    BY <1>0, <1>12 DEF VerifyReceipt, Gate
  <2>2. CounterTypes' /\ SetTypes'
    BY <1>0, <1>12 DEF VerifyReceipt, Gate
  <2>3. QED
    BY <2>1, <2>2 DEF TypeOK
<1>13. CASE AttestCandidate
  <2>1. NodeTypes' /\ FlagTypes'
    BY <1>0, <1>13 DEF AttestCandidate, Gate
  <2>2. CounterTypes' /\ SetTypes'
    BY <1>0, <1>13 DEF AttestCandidate, Gate
  <2>3. QED
    BY <2>1, <2>2 DEF TypeOK
<1>14. CASE EvaluateCandidate
  BY <1>0, <1>14 DEF EvaluateCandidate, TypeOK
<1>15. CASE SelectCandidate
  BY <1>0, <1>15 DEF SelectCandidate, Selects, NonImprovingAfter, TypeOK
<1>16. CASE DecideUniform
  <2>1. NodeTypes' /\ FlagTypes'
    BY <1>0, <1>16 DEF DecideUniform, DecideTargetReached, DecideSpent, DecideConverged,
       DecideContinue, DecideSearchedBefore, DecideStart, StopSearch
  <2>2. /\ completed' \in {completed, completed \cup {best.src}}
        /\ sessions' \in {sessions, sessions + 1}
    BY <1>16 DEF DecideUniform, DecideTargetReached, DecideSpent, DecideConverged,
       DecideContinue, DecideSearchedBefore, DecideStart, StopSearch
  <2>3. best.src \in Sources
    BY <1>16 DEF DecideUniform, IndInv, AttemptInv, SourcesKnown
  <2>4. CounterTypes' /\ SetTypes'
    BY <1>0, <1>16, <2>2, <2>3 DEF DecideUniform
  <2>5. QED
    BY <2>1, <2>4 DEF TypeOK
<1>17. CASE ProposeUniform
  <2>1. NodeTypes' /\ FlagTypes'
    BY <1>0, <1>17 DEF ProposeUniform
  <2>2. CounterTypes' /\ SetTypes'
    BY <1>0, <1>17 DEF ProposeUniform, IndInv, AttemptInv, SourcesKnown, Proposing, Searching
  <2>3. QED
    BY <2>1, <2>2 DEF TypeOK
<1>18. CASE ApplyUniform
  BY <1>0, <1>18 DEF ApplyUniform, TypeOK
<1>19. CASE RecordUniform
  <2>1. NodeTypes' /\ FlagTypes'
    BY <1>0, <1>19 DEF RecordUniform, RecordHardFailure, RecordSearchStep
  <2>2. CounterTypes' /\ SetTypes'
    BY <1>0, <1>19 DEF RecordUniform, RecordHardFailure, RecordSearchStep, IndInv,
       AttemptInv, SourcesKnown, Proposing, Searching
  <2>3. QED
    BY <2>1, <2>2 DEF TypeOK
<1>20. CASE DecideRefinement
  BY <1>0, <1>20 DEF DecideRefinement, RefineStop, TypeOK
<1>21. CASE ReleaseResources
  BY <1>0, <1>21 DEF ReleaseResources, TypeOK
<1>22. CASE FinalizeAttempt
  BY <1>0, <1>22 DEF FinalizeAttempt, TypeOK
<1>23. CASE Abort
  BY <1>0, <1>23 DEF Abort, Cancel, Unwind, CancelRelease, Cut, TypeOK
<1>24. CASE UNCHANGED vars
  BY <1>0, <1>24 DEF vars, TypeOK
<1>25. QED
  BY <1>1, <1>2, <1>3, <1>4, <1>5, <1>6, <1>7, <1>8, <1>9, <1>10, <1>11, <1>12, <1>13,
     <1>14, <1>15, <1>16, <1>17, <1>18, <1>19, <1>20, <1>21, <1>22, <1>23, <1>24
  DEF Next, Step, RenderProgram

\* Every node charges its draws to the right account.
LEMMA DrawLedgerStep ==
    ASSUME IndInv, [Next]_vars
    PROVE  DrawLedger'
<1> USE BudgetAssumption
    DEF IndInv, AttemptInv, TypeOK, RolesByNode, DrawLedger, Structural, NothingDrawn,
        Pcs, Roles, Terminal, PreCompile, PreDraw, PostCompile, Pipeline, Proposing,
        candVars, bestVars, refVars, uniVars, counters,
        SearchFrame, AttemptFrame, Proceed, Reject, RejectHard, FailureRoute
<1>1. CASE AuthorLayerPlan
  BY <1>1 DEF AuthorLayerPlan
<1>2. CASE AuthorInitial
  BY <1>2 DEF AuthorInitial
<1>3. CASE AuthorRefinement
  <2>1. maskDraws' <= MaskBudget /\ draws' - maskDraws' = draws - maskDraws
    BY <1>3, RoleMasksBounded DEF AuthorRefinement
  <2>2. draws' < DrawBudget
    BY <1>3, MasksLeaveADraw DEF AuthorRefinement
  <2>3. pc' \in {"apply_refinement", "decide_refinement"}
    BY <1>3 DEF AuthorRefinement
  <2>4. QED
    BY <1>3, <2>1, <2>2, <2>3 DEF AuthorRefinement
<1>4. CASE ApplyRefinement
  BY <1>4 DEF ApplyRefinement
<1>5. CASE CompileCandidate \/ ValidateCandidate
  BY <1>5 DEF CompileCandidate, ValidateCandidate, Gate
<1>6. CASE VerifyReceipt \/ AttestCandidate
  BY <1>6 DEF VerifyReceipt, AttestCandidate, Gate
<1>7. CASE PrepareHit \/ PrepareDenied
  BY <1>7 DEF PrepareHit, PrepareDenied
<1>8. CASE PrepareMiss
  BY <1>8 DEF PrepareMiss
<1>9. CASE RenderDenied
  BY <1>9 DEF RenderDenied
<1>10. CASE RenderDraw
  <2>1. pc' \in {"verify_receipt", "record_uniform_outcome", "decide_refinement",
                 "release_resources"}
    BY <1>10 DEF RenderDraw
  <2>2. /\ uniDraws' <= UniformBudget /\ maskDraws' = maskDraws
        /\ draws' - maskDraws' - uniDraws' <= 1 + refCount'
    BY <1>10 DEF RenderDraw
  <2>3. QED
    BY <2>1, <2>2
<1>11. CASE EvaluateCandidate \/ SelectCandidate
  BY <1>11 DEF EvaluateCandidate, SelectCandidate
<1>12. CASE DecideUniform
  <2>1. \/ pc' \in {"release_resources", "decide_refinement"}
        \/ pc' = "propose_uniform_candidate" /\ uniDraws < UniformBudget /\ draws < DrawBudget
    BY <1>12 DEF DecideUniform, DecideTargetReached, DecideSpent, DecideConverged,
       DecideContinue, DecideSearchedBefore, DecideStart, StopSearch, Spent
  <2>2. QED
    BY <1>12, <2>1 DEF DecideUniform
<1>13. CASE ProposeUniform
  BY <1>13 DEF ProposeUniform
<1>14. CASE ApplyUniform
  BY <1>14 DEF ApplyUniform
<1>15. CASE RecordUniform
  BY <1>15 DEF RecordUniform
<1>16. CASE DecideRefinement
  <2>1. ASSUME pc' = "author_refinement" PROVE refCount < RefineBudget /\ draws < DrawBudget
    <3>1. RefineStop = None
      BY <1>16, <2>1 DEF DecideRefinement
    <3>2. QED
      BY <3>1, NoneAssumption DEF RefineStop, RefineStops
  <2>2. QED
    BY <1>16, <2>1 DEF DecideRefinement
<1>17. CASE ReleaseResources \/ FinalizeAttempt \/ Abort
  BY <1>17 DEF ReleaseResources, FinalizeAttempt, Abort, Cancel, Unwind, CancelRelease, Cut
<1>18. CASE UNCHANGED vars
  BY <1>18 DEF vars
<1>19. QED
  BY <1>1, <1>2, <1>3, <1>4, <1>5, <1>6, <1>7, <1>8, <1>9, <1>10, <1>11, <1>12, <1>13,
     <1>14, <1>15, <1>16, <1>17, <1>18
  DEF Next, Step, RenderProgram

\* Every node keeps the other parts of the inductive invariant.
LEMMA AttemptStep ==
    ASSUME IndInv, [Next]_vars
    PROVE  (RolesByNode /\ SourcesKnown /\ CompileLedger /\ ProgramKept /\ SearchOrder
            /\ BlockEnds)'
<1> USE BudgetAssumption
    DEF IndInv, AttemptInv, TypeOK, RolesByNode, SourcesKnown, CompileLedger,
        ProgramKept, SearchOrder, BlockEnds, Pcs, Roles, Terminal,
        PreCompile, PostCompile, Pipeline, Refining, Proposing, Searching, Ending,
        candVars, bestVars, refVars, uniVars, counters,
        SearchFrame, AttemptFrame, Proceed, Reject, RejectHard, FailureRoute, Release
<1>1. CASE AuthorLayerPlan
  BY <1>1 DEF AuthorLayerPlan
<1>2. CASE AuthorInitial
  BY <1>2 DEF AuthorInitial, AuthorCalls, AuthorFailures, Sources
<1>3. CASE AuthorRefinement
  <2>1. /\ pc' \in {"apply_refinement", "decide_refinement"}
        /\ pc' = "apply_refinement" => patch' = Invalid \/ patch'.src \in Sources
        /\ pc' = "apply_refinement" => ~blocked'
    BY <1>3 DEF AuthorRefinement, Sources, Patches
  <2>2. cache' \subseteq cache
    BY <1>3, RoleMasksBounded DEF AuthorRefinement, DrawLedger
  <2>3. QED
    BY <1>3, <2>1, <2>2 DEF AuthorRefinement
<1>4. CASE ApplyRefinement
  BY <1>4 DEF ApplyRefinement
<1>5. CASE CompileCandidate
  BY <1>5 DEF CompileCandidate, Gate
<1>6. CASE ValidateCandidate
  BY <1>6 DEF ValidateCandidate, Gate
<1>7. CASE PrepareHit
  BY <1>7 DEF PrepareHit
<1>8. CASE PrepareDenied
  BY <1>8 DEF PrepareDenied
<1>9. CASE PrepareMiss
  BY <1>9 DEF PrepareMiss
<1>10. CASE RenderDenied
  BY <1>10 DEF RenderDenied
<1>11. CASE RenderDraw
  BY <1>11 DEF RenderDraw, HardCodes
<1>12. CASE VerifyReceipt
  BY <1>12 DEF VerifyReceipt, Gate
<1>13. CASE AttestCandidate
  BY <1>13 DEF AttestCandidate, Gate
<1>14. CASE EvaluateCandidate
  BY <1>14 DEF EvaluateCandidate
<1>15. CASE SelectCandidate
  BY <1>15 DEF SelectCandidate, Selects, NonImprovingAfter
<1>16. CASE DecideUniform
  <2>1. CASE DecideTargetReached
    BY <1>16, <2>1 DEF DecideUniform, DecideTargetReached, StopSearch
  <2>2. CASE DecideSpent
    BY <1>16, <2>2 DEF DecideUniform, DecideSpent, StopSearch, Spent
  <2>3. CASE DecideConverged
    BY <1>16, <2>3 DEF DecideUniform, DecideConverged, StopSearch, Spent, SessionOver, OwnSession
  <2>4. CASE DecideContinue
    BY <1>16, <2>4 DEF DecideUniform, DecideContinue, OwnSession, Spent
  <2>5. CASE DecideSearchedBefore
    BY <1>16, <2>5 DEF DecideUniform, DecideSearchedBefore, OwnSession, SearchedBefore, Spent
  <2>6. CASE DecideStart
    <3>1. \/ session' = None
          \/ /\ session'.stop # Running /\ pc' = "decide_refinement"
             /\ completed' = completed \cup {best.src}
          \/ /\ pc' = "propose_uniform_candidate"
             /\ completed' = completed /\ best.src \notin completed
      BY <1>16, <2>6 DEF DecideStart, SearchedBefore
    <3>2. QED
      BY <1>16, <2>6, <3>1 DEF DecideUniform, DecideStart, SearchedBefore, Spent
  <2>7. QED
    BY <1>16, <2>1, <2>2, <2>3, <2>4, <2>5, <2>6 DEF DecideUniform
<1>17. CASE ProposeUniform
  BY <1>17 DEF ProposeUniform
<1>18. CASE ApplyUniform
  BY <1>18 DEF ApplyUniform
<1>19. CASE RecordUniform
  BY <1>19 DEF RecordUniform, RecordHardFailure, RecordSearchStep
<1>20. CASE DecideRefinement
  <2>1. ASSUME pc' = "author_refinement" PROVE ~blocked
    <3>1. RefineStop = None
      BY <1>20, <2>1 DEF DecideRefinement
    <3>2. QED
      BY <3>1, NoneAssumption DEF RefineStop, RefineStops
  <2>2. QED
    BY <1>20, <2>1 DEF DecideRefinement
<1>21. CASE ReleaseResources
  BY <1>21 DEF ReleaseResources
<1>22. CASE FinalizeAttempt
  BY <1>22 DEF FinalizeAttempt
<1>23. CASE Abort
  BY <1>23 DEF Abort, Cancel, Unwind, CancelRelease, Cut
<1>24. CASE UNCHANGED vars
  BY <1>24 DEF vars
<1>25. QED
  BY <1>1, <1>2, <1>3, <1>4, <1>5, <1>6, <1>7, <1>8, <1>9, <1>10, <1>11, <1>12, <1>13,
     <1>14, <1>15, <1>16, <1>17, <1>18, <1>19, <1>20, <1>21, <1>22, <1>23, <1>24
  DEF Next, Step, RenderProgram

\* Every node preserves the inductive invariant.
LEMMA IndInvStep == IndInv /\ [Next]_vars => IndInv'
BY TypeStep, DrawLedgerStep, AttemptStep DEF IndInv, AttemptInv
-----------------------------------------------------------------------------
\* Every state of every attempt satisfies the inductive invariant.
THEOREM Invariance == Spec => []IndInv
BY IndInvInit, IndInvStep, PTL DEF Spec

\* No counter ever exceeds its budget of LayerPlanGlslDirectConfig.
THEOREM TypeCorrect == Spec => []TypeOK
<1>1. IndInv => TypeOK
  BY DEF IndInv
<1>2. QED
  BY <1>1, Invariance, PTL

\* No candidate that got as far as render_program is refused for lack of draws:
\* the mask draws take only what the other two accounts cannot use.
THEOREM DrawsAreReserved == Spec => []DrawsReserved
<1>1. IndInv => DrawsReserved
  <2> SUFFICES ASSUME IndInv PROVE DrawsReserved
    OBVIOUS
  <2>1. uniDraws <= UniformBudget /\ maskDraws <= MaskBudget
    BY DEF IndInv, AttemptInv, DrawLedger
  <2>2. ASSUME DrawBudget > 0, pc = "render_program" PROVE draws < DrawBudget
    BY <2>2 DEF IndInv, AttemptInv, DrawLedger, NothingDrawn, PreDraw
  <2>3. QED
    BY <2>1, <2>2 DEF DrawsReserved
<1>2. QED
  BY <1>1, Invariance, PTL

\* A uniform candidate never compiles, so a covering compile budget never refuses
\* an initial or a refined candidate.
THEOREM CompilesAreReserved == Spec => []CompilesReserved
<1>1. IndInv => CompilesReserved
  <2> SUFFICES ASSUME IndInv, pc = "prepare_program"
               PROVE  /\ role = "uniform_optimize" => cand.src \in cache
                      /\ CompilesCovered /\ cand.src \notin cache => compiles < CompileBudget
    BY DEF CompilesReserved
  <2>1. role = "uniform_optimize" => cand.src \in cache
    BY DEF IndInv, AttemptInv, ProgramKept, Pipeline, PreCompile
  <2>2. role = "initial" => compiles = 0
    BY DEF IndInv, AttemptInv, CompileLedger, PreCompile
  <2>3. role = "refine" => compiles <= refCount
    BY DEF IndInv, AttemptInv, CompileLedger, PreCompile
  <2>4. QED
    BY <2>1, <2>2, <2>3, BudgetAssumption DEF CompilesCovered, IndInv, TypeOK, Roles
<1>2. QED
  BY <1>1, Invariance, PTL

\* The model is only asked to refine an incumbent whose uniforms were searched.
THEOREM RefinementsAreSearched == Spec => []SearchBeforeRefine
<1>1. IndInv => SearchBeforeRefine
  BY DEF IndInv, AttemptInv, SearchOrder, SearchBeforeRefine, Refining
<1>2. QED
  BY <1>1, Invariance, PTL

\* A hard resource block is never lifted and no budget is spent after it.
THEOREM BlockStopsWork == Spec => NoWorkAfterBlock
<1>1. IndInv /\ [Next]_vars => [blocked => blocked' /\ UNCHANGED counters]_vars
  <2> SUFFICES ASSUME BlockEnds, Next, blocked PROVE blocked' /\ UNCHANGED counters
    BY DEF IndInv, AttemptInv, vars, counters
  <2>1. pc \in {"decide_uniform_optimization", "decide_refinement"} \cup Ending
    BY DEF BlockEnds
  <2>2. CASE DecideUniform
    BY <2>2 DEF DecideUniform, SearchFrame
  <2>3. CASE DecideRefinement
    BY <2>3 DEF DecideRefinement
  <2>4. CASE ReleaseResources \/ FinalizeAttempt \/ Abort
    BY <2>4 DEF ReleaseResources, FinalizeAttempt,
                Abort, Cancel, Unwind, CancelRelease, Cut, AttemptFrame
  <2>5. QED
    BY <2>1, <2>2, <2>3, <2>4
    DEF Next, Step, Ending, Terminal, AuthorLayerPlan, AuthorInitial, AuthorRefinement,
        ApplyRefinement, CompileCandidate, ValidateCandidate, PrepareHit, PrepareDenied,
        PrepareMiss, RenderProgram, RenderDenied, RenderDraw, VerifyReceipt, AttestCandidate, Gate,
        EvaluateCandidate, SelectCandidate, ProposeUniform, ApplyUniform, RecordUniform
<1>2. QED
  BY <1>1, Invariance, PTL DEF NoWorkAfterBlock, Spec

\* Only a release that is itself cancelled leaves handles of the renderer open: an
\* attempt that ends by itself, or is cancelled at any other await, closes them all.
THEOREM HandlesAreClosed == Spec => []NoHandleLeak
<1>1. Init => NoHandleLeak
  BY DEF Init, NoHandleLeak, Terminal
<1>2. TypeOK /\ NoHandleLeak /\ [Next]_vars => NoHandleLeak'
  <2> SUFFICES ASSUME role \in Roles, NoHandleLeak, [Next]_vars PROVE NoHandleLeak'
    BY DEF TypeOK
  <2> USE DEF NoHandleLeak, Terminal, Release, counters, Roles
  <2>1. CASE AuthorLayerPlan \/ AuthorInitial \/ ApplyRefinement
    BY <2>1 DEF AuthorLayerPlan, AuthorInitial, ApplyRefinement
  <2>2. CASE AuthorRefinement
    BY <2>2 DEF AuthorRefinement, RoleMasks
  <2>3. CASE CompileCandidate \/ ValidateCandidate \/ VerifyReceipt \/ AttestCandidate
    BY <2>3 DEF CompileCandidate, ValidateCandidate, VerifyReceipt, AttestCandidate, Gate,
                Proceed, Reject, FailureRoute
  <2>4. CASE PrepareHit \/ PrepareDenied
    BY <2>4 DEF PrepareHit, PrepareDenied, Proceed, Reject, RejectHard, FailureRoute
  <2>5. CASE PrepareMiss
    BY <2>5 DEF PrepareMiss, Proceed, Reject, RejectHard, FailureRoute
  <2>6. CASE RenderDenied \/ RenderDraw
    BY <2>6 DEF RenderDenied, RenderDraw, Proceed, Reject, RejectHard, FailureRoute
  <2>7. CASE EvaluateCandidate \/ SelectCandidate
    BY <2>7 DEF EvaluateCandidate, SelectCandidate
  <2>8. CASE DecideUniform \/ ProposeUniform \/ ApplyUniform \/ RecordUniform
    BY <2>8 DEF DecideUniform, DecideTargetReached, DecideSpent, DecideConverged,
                DecideContinue, DecideSearchedBefore, DecideStart, StopSearch,
                ProposeUniform, ApplyUniform, RecordUniform, SearchFrame
  <2>9. CASE DecideRefinement
    BY <2>9 DEF DecideRefinement
  <2>10. CASE ReleaseResources \/ FinalizeAttempt \/ Abort
    BY <2>10 DEF ReleaseResources, FinalizeAttempt, Abort, Cancel, Unwind, CancelRelease, Cut
  <2>11. CASE UNCHANGED vars
    BY <2>11 DEF vars
  <2>12. QED
    BY <2>1, <2>2, <2>3, <2>4, <2>5, <2>6, <2>7, <2>8, <2>9, <2>10, <2>11
    DEF Next, Step, RenderProgram
<1>3. QED
  BY <1>1, <1>2, TypeCorrect, PTL DEF Spec
-----------------------------------------------------------------------------
(* What is returned: domination is transitive, so an incumbent that was only *)
(* ever compared with its successor still beats everything before it.        *)

\* None is not a candidate.
NoneIsNoCandidate == \A s, v, m, l : None # [src |-> s, vals |-> v, mae |-> m, loss |-> l]

HasScores(c) == c.mae \in Int /\ c.loss \in Int

SelectionInv ==
    /\ \E S : candidates \in Seq(S)
    /\ \A c \in Scored : HasScores(c) /\ ~Dominates(c, best)
    /\ IF candidates = <<>> THEN best = None
       ELSE best # None /\ HasScores(best) /\ best \in Scored
    /\ pc = "select_candidate" => pending # None /\ HasScores(pending)

\* An excess over the target is an integer.
LEMMA ExcessType ==
    ASSUME NEW v \in Int, NEW t \in Int
    PROVE  Excess(v, t) \in Int
BY DEF Excess

\* Domination is transitive.
LEMMA DominatesTransitively ==
    ASSUME NEW c, NEW d, NEW e, HasScores(c), HasScores(d), HasScores(e),
           Dominates(c, d), Dominates(d, e)
    PROVE  Dominates(c, e)
<1>1. /\ Excess(c.mae, TargetMae) \in Int /\ Excess(c.loss, TargetLoss) \in Int
      /\ Excess(d.mae, TargetMae) \in Int /\ Excess(d.loss, TargetLoss) \in Int
      /\ Excess(e.mae, TargetMae) \in Int /\ Excess(e.loss, TargetLoss) \in Int
  BY ExcessType, ScoreAssumption DEF HasScores
<1>2. QED
  BY <1>1 DEF Dominates

\* A candidate does not dominate itself.
LEMMA DominatesIrreflexively ==
    ASSUME NEW c, HasScores(c)
    PROVE  ~Dominates(c, c)
<1>1. Excess(c.mae, TargetMae) \in Int /\ Excess(c.loss, TargetLoss) \in Int
  BY ExcessType, ScoreAssumption DEF HasScores
<1>2. QED
  BY <1>1 DEF Dominates

\* Scoring one more candidate adds just that one.
LEMMA ScoredAppend ==
    ASSUME NEW S, candidates \in Seq(S), candidates' = Append(candidates, pending)
    PROVE  /\ candidates' \in Seq(S \cup {pending}) /\ candidates' # <<>>
           /\ Scored' = Scored \cup {pending}
<1>1. candidates \in Seq(S \cup {pending})
  OBVIOUS
<1>2. /\ candidates' \in Seq(S \cup {pending})
      /\ Len(candidates') = Len(candidates) + 1
      /\ \A i \in 1 .. Len(candidates) : candidates'[i] = candidates[i]
      /\ candidates'[Len(candidates) + 1] = pending
  BY <1>1
<1>3. DOMAIN candidates = 1 .. Len(candidates) /\ DOMAIN candidates' = 1 .. Len(candidates')
      /\ Len(candidates) \in Nat
  BY <1>1, <1>2
<1>4. Scored' = Scored \cup {pending}
  BY <1>2, <1>3 DEF Scored
<1>5. QED
  BY <1>2, <1>3, <1>4

\* Only two nodes touch what the selection is about.
LEMMA SelectionFrame ==
    ASSUME TypeOK, [Next]_vars
    PROVE  \/ SelectCandidate \/ EvaluateCandidate
           \/ /\ UNCHANGED <<best, candidates>>
              /\ pc' = "select_candidate" => UNCHANGED <<pc, pending>>
<1>0. role \in Roles
  BY DEF TypeOK
<1> USE <1>0 DEF Roles, candVars, bestVars, AttemptFrame, SearchFrame,
        Proceed, Reject, RejectHard, FailureRoute
<1>1. CASE AuthorLayerPlan \/ AuthorInitial \/ AuthorRefinement \/ ApplyRefinement
  BY <1>1 DEF AuthorLayerPlan, AuthorInitial, AuthorRefinement, ApplyRefinement
<1>2. CASE CompileCandidate \/ ValidateCandidate \/ VerifyReceipt \/ AttestCandidate
  BY <1>2 DEF CompileCandidate, ValidateCandidate, VerifyReceipt, AttestCandidate, Gate
<1>3. CASE PrepareHit \/ PrepareDenied \/ PrepareMiss
  BY <1>3 DEF PrepareHit, PrepareDenied, PrepareMiss
<1>4. CASE RenderProgram
  BY <1>4 DEF RenderProgram, RenderDenied, RenderDraw
<1>5. CASE DecideUniform
  BY <1>5 DEF DecideUniform, DecideTargetReached, DecideSpent, DecideConverged,
              DecideContinue, DecideSearchedBefore, DecideStart, StopSearch
<1>6. CASE ProposeUniform \/ ApplyUniform \/ RecordUniform
  BY <1>6 DEF ProposeUniform, ApplyUniform, RecordUniform
<1>7. CASE DecideRefinement \/ ReleaseResources \/ FinalizeAttempt \/ Abort
  BY <1>7 DEF DecideRefinement, ReleaseResources, FinalizeAttempt,
              Abort, Cancel, Unwind, CancelRelease, Cut
<1>8. CASE UNCHANGED vars
  BY <1>8 DEF vars
<1>9. QED
  BY <1>1, <1>2, <1>3, <1>4, <1>5, <1>6, <1>7, <1>8 DEF Next, Step

\* Every node keeps the incumbent undominated.
LEMMA SelectionStep ==
    ASSUME NoneIsNoCandidate, TypeOK, SelectionInv, [Next]_vars
    PROVE  SelectionInv'
<1>1. CASE SelectCandidate
  <2> PICK S : candidates \in Seq(S)
    BY DEF SelectionInv
  <2>1. /\ candidates' \in Seq(S \cup {pending}) /\ candidates' # <<>>
        /\ Scored' = Scored \cup {pending}
    BY <1>1, ScoredAppend DEF SelectCandidate
  <2>2. /\ pending # None /\ HasScores(pending) /\ pc' # "select_candidate"
        /\ \A c \in Scored : HasScores(c) /\ ~Dominates(c, best)
    BY <1>1 DEF SelectCandidate, SelectionInv
  <2>3. CASE Selects(pending, best)
    <3>1. best' = pending
      BY <1>1, <2>3 DEF SelectCandidate
    <3>2. ASSUME NEW c \in Scored PROVE ~Dominates(c, pending)
      <4>1. candidates # <<>>
        BY DEF Scored
      <4>2. best # None /\ HasScores(best)
        BY <4>1 DEF SelectionInv
      <4>3. Dominates(pending, best)
        BY <2>3, <4>2 DEF Selects
      <4>4. QED
        BY <2>2, <4>2, <4>3, DominatesTransitively
    <3>3. \A c \in Scored' : HasScores(c) /\ ~Dominates(c, best')
      BY <2>1, <2>2, <3>1, <3>2, DominatesIrreflexively
    <3>4. QED
      BY <2>1, <2>2, <3>1, <3>3 DEF SelectionInv, HasScores
  <2>4. CASE ~Selects(pending, best)
    <3>1. best' = best /\ best # None /\ ~Dominates(pending, best)
      BY <1>1, <2>4 DEF SelectCandidate, Selects
    <3>2. QED
      BY <2>1, <2>2, <3>1 DEF SelectionInv, HasScores
  <2>5. QED
    BY <2>3, <2>4
<1>2. CASE EvaluateCandidate
  <2>1. UNCHANGED <<best, candidates>>
    BY <1>2 DEF EvaluateCandidate, bestVars
  <2>2. pending' # None /\ HasScores(pending')
    BY <1>2, ScoreAssumption DEF EvaluateCandidate, NoneIsNoCandidate, HasScores
  <2>3. QED
    BY <2>1, <2>2 DEF SelectionInv, Scored, HasScores, Dominates
<1>3. CASE /\ UNCHANGED <<best, candidates>>
           /\ pc' = "select_candidate" => UNCHANGED <<pc, pending>>
  BY <1>3 DEF SelectionInv, Scored, HasScores, Dominates
<1>4. QED
  BY <1>1, <1>2, <1>3, SelectionFrame

\* The incumbent is the one undominated selection in every state.
LEMMA SelectionHolds ==
    ASSUME NoneIsNoCandidate
    PROVE  Spec => []SelectionInv
<1>1. Init => SelectionInv
  <2> SUFFICES ASSUME Init PROVE SelectionInv
    OBVIOUS
  <2>1. candidates = <<>> /\ best = None /\ pc # "select_candidate"
    BY DEF Init
  <2>2. candidates \in Seq({}) /\ Scored = {}
    BY <2>1 DEF Scored
  <2>3. QED
    BY <2>1, <2>2 DEF SelectionInv
<1>2. TypeOK /\ SelectionInv /\ [Next]_vars => SelectionInv'
  BY SelectionStep
<1>3. QED
  BY <1>1, <1>2, TypeCorrect, PTL DEF Spec

\* Of everything an attempt scored, nothing dominates what it returns, whatever
\* the scores, the targets and the order they came in.
THEOREM BestIsUndominated ==
    ASSUME NoneIsNoCandidate
    PROVE  Spec => []BestUndominated
<1>1. SelectionInv => BestUndominated
  BY DEF SelectionInv, BestUndominated
<1>2. QED
  BY <1>1, SelectionHolds, PTL
-----------------------------------------------------------------------------
(* The reported reason.  It is settled when the attempt turns to its end,    *)
(* and nothing it speaks of changes after that.                              *)

Candidate == Pipeline \cup {"select_candidate"}

\* What StopReasonTruthful says of the reason stop.
Truthful(stop) ==
    /\ best # None => (TargetReached(best) <=> stop = "target_reached")
    /\ stop = "refine_budget_exhausted" => refCount >= RefineBudget
    /\ stop = "no_valid_candidate" <=> candidates = <<>>
    /\ stop = "patience_exhausted" => nonImproving <= refCount /\ refCount > Patience

\* Each refinement spends at most one unit of patience, and is counted before.
PatienceLedger ==
    /\ nonImproving <= refCount
    /\ pc \in Candidate \cup {"apply_refinement"} /\ role = "refine" => nonImproving < refCount

\* After the first selection there always is a scored candidate.
CandidateKnown ==
    /\ pc \in Refining \cup Searching \cup {"decide_uniform_optimization"} => candidates # <<>>
    /\ pc \in Candidate /\ role # "initial" => candidates # <<>>

\* An attempt that ends without a reason never had an incumbent.
ReasonSettled ==
    /\ pc \notin Ending => refStop = None /\ result = None
    /\ pc \in {"release_resources", "finalize_attempt"} =>
          /\ result = None
          /\ IF refStop = None THEN best = None ELSE Truthful(refStop)
    /\ pc = "unwinding" => result = None
    /\ result # None => Truthful(result.stop)

StopInv == PatienceLedger /\ CandidateKnown /\ ReasonSettled

\* decide_refinement never gives an untrue reason.
LEMMA RefineStopTruthful ==
    ASSUME TypeOK, SelectionInv, nonImproving <= refCount, RefineStop # None
    PROVE  Truthful(RefineStop)
<1>1. /\ nonImproving \in Nat /\ refCount \in Nat /\ RefineBudget \in Nat /\ Patience \in Nat
  BY BudgetAssumption DEF TypeOK
<1>2. best = None <=> candidates = <<>>
  BY DEF SelectionInv
<1>3. QED
  BY <1>1, <1>2 DEF RefineStop, Truthful

\* The patience spent is covered by the refinements made.
LEMMA PatienceStep ==
    ASSUME IndInv, PatienceLedger, [Next]_vars
    PROVE  PatienceLedger'
<1>1. role \in Roles /\ nonImproving \in Nat /\ refCount \in Nat
  BY DEF IndInv, TypeOK
<1> USE <1>1 DEF PatienceLedger, Candidate, Pipeline, PreCompile, PostCompile, Roles, candVars,
        refVars, AttemptFrame, SearchFrame, Proceed, Reject, RejectHard, FailureRoute
<1>2. CASE AuthorLayerPlan \/ AuthorInitial
  BY <1>2 DEF AuthorLayerPlan, AuthorInitial
<1>3. CASE AuthorRefinement
  BY <1>3 DEF AuthorRefinement
<1>4. CASE ApplyRefinement
  BY <1>4 DEF ApplyRefinement, IndInv, AttemptInv, RolesByNode
<1>5. CASE CompileCandidate \/ ValidateCandidate
  BY <1>5 DEF CompileCandidate, ValidateCandidate, Gate
<1>6. CASE VerifyReceipt \/ AttestCandidate
  BY <1>6 DEF VerifyReceipt, AttestCandidate, Gate
<1>7. CASE PrepareHit \/ PrepareDenied \/ PrepareMiss
  BY <1>7 DEF PrepareHit, PrepareDenied, PrepareMiss
<1>8. CASE RenderProgram
  BY <1>8 DEF RenderProgram, RenderDenied, RenderDraw
<1>9. CASE EvaluateCandidate \/ SelectCandidate
  BY <1>9 DEF EvaluateCandidate, SelectCandidate, NonImprovingAfter
<1>10. CASE DecideUniform
  BY <1>10 DEF DecideUniform, DecideTargetReached, DecideSpent, DecideConverged,
               DecideContinue, DecideSearchedBefore, DecideStart, StopSearch
<1>11. CASE ProposeUniform \/ ApplyUniform \/ RecordUniform
  BY <1>11 DEF ProposeUniform, ApplyUniform, RecordUniform
<1>12. CASE DecideRefinement \/ ReleaseResources \/ FinalizeAttempt \/ Abort
  BY <1>12 DEF DecideRefinement, ReleaseResources, FinalizeAttempt,
               Abort, Cancel, Unwind, CancelRelease, Cut, Terminal
<1>13. CASE UNCHANGED vars
  BY <1>13 DEF vars
<1>14. QED
  BY <1>2, <1>3, <1>4, <1>5, <1>6, <1>7, <1>8, <1>9, <1>10, <1>11, <1>12, <1>13
  DEF Next, Step

\* No node but select_candidate touches the candidates, and it only adds one.
LEMMA CandidateStep ==
    ASSUME IndInv, SelectionInv, CandidateKnown, [Next]_vars
    PROVE  CandidateKnown'
<1>1. role \in Roles
  BY DEF IndInv, TypeOK
<1> USE <1>1 DEF CandidateKnown, Candidate, Pipeline, PreCompile, PostCompile, Roles, Refining,
        Searching, Proposing, candVars, bestVars, AttemptFrame, SearchFrame,
        Proceed, Reject, RejectHard, FailureRoute
<1>2. CASE AuthorLayerPlan \/ AuthorInitial
  BY <1>2 DEF AuthorLayerPlan, AuthorInitial
<1>3. CASE AuthorRefinement \/ ApplyRefinement
  BY <1>3 DEF AuthorRefinement, ApplyRefinement
<1>5. CASE CompileCandidate \/ ValidateCandidate
  BY <1>5 DEF CompileCandidate, ValidateCandidate, Gate
<1>6. CASE VerifyReceipt \/ AttestCandidate
  BY <1>6 DEF VerifyReceipt, AttestCandidate, Gate
<1>7. CASE PrepareHit \/ PrepareDenied \/ PrepareMiss
  BY <1>7 DEF PrepareHit, PrepareDenied, PrepareMiss
<1>8. CASE RenderProgram
  BY <1>8 DEF RenderProgram, RenderDenied, RenderDraw
<1>9. CASE EvaluateCandidate
  BY <1>9 DEF EvaluateCandidate
<1>10. CASE SelectCandidate
  <2>1. PICK S : candidates \in Seq(S)
    BY DEF SelectionInv
  <2>2. candidates' # <<>>
    BY <1>10, <2>1, ScoredAppend DEF SelectCandidate
  <2>3. QED
    BY <2>2
<1>11. CASE DecideUniform
  BY <1>11 DEF DecideUniform, DecideTargetReached, DecideSpent, DecideConverged,
               DecideContinue, DecideSearchedBefore, DecideStart, StopSearch
<1>12. CASE ProposeUniform \/ ApplyUniform \/ RecordUniform
  BY <1>12 DEF ProposeUniform, ApplyUniform, RecordUniform
<1>13. CASE DecideRefinement \/ ReleaseResources \/ FinalizeAttempt \/ Abort
  BY <1>13 DEF DecideRefinement, ReleaseResources, FinalizeAttempt,
               Abort, Cancel, Unwind, CancelRelease, Cut, Terminal
<1>14. CASE UNCHANGED vars
  BY <1>14 DEF vars
<1>15. QED
  BY <1>2, <1>3, <1>5, <1>6, <1>7, <1>8, <1>9, <1>10, <1>11, <1>12, <1>13, <1>14
  DEF Next, Step

\* A node that only moves a failed or a fresh candidate on settles no reason, and
\* ends the attempt only for an initial candidate.
LEMMA ReasonOpen ==
    ASSUME pc \notin Ending, ReasonSettled, UNCHANGED <<best, refStop, result>>,
           pc' \in Ending => best = None /\ pc' = "release_resources"
    PROVE  ReasonSettled'
BY DEF ReasonSettled, Ending, Terminal

\* The reason is settled once, and truthfully.
LEMMA ReasonStep ==
    ASSUME IndInv, SelectionInv, StopInv, [Next]_vars
    PROVE  ReasonSettled'
<1>1. role \in Roles /\ (best = None <=> candidates = <<>>)
  BY DEF IndInv, TypeOK, SelectionInv
<1>2. ReasonSettled /\ CandidateKnown /\ nonImproving <= refCount
  BY DEF StopInv, PatienceLedger
<1>3. /\ pc \in {"author_layer_plan", "author_initial"} => best = None
      /\ pc \in Pipeline /\ role = "initial" => best = None
  BY DEF IndInv, AttemptInv, SourcesKnown
<1> USE <1>1, <1>3 DEF Roles, candVars, bestVars, AttemptFrame, SearchFrame, uniVars,
        Proceed, Reject, RejectHard, FailureRoute, Ending, Terminal
<1>4. CASE AuthorLayerPlan \/ AuthorInitial \/ AuthorRefinement \/ ApplyRefinement
  BY <1>2, <1>4, ReasonOpen DEF AuthorLayerPlan, AuthorInitial, AuthorRefinement, ApplyRefinement
<1>5. CASE CompileCandidate \/ ValidateCandidate \/ VerifyReceipt \/ AttestCandidate
  BY <1>2, <1>5, ReasonOpen DEF CompileCandidate, ValidateCandidate, VerifyReceipt,
     AttestCandidate, Gate, Pipeline, PreCompile, PostCompile
<1>6. CASE PrepareHit \/ PrepareDenied \/ PrepareMiss
  BY <1>2, <1>6, ReasonOpen DEF PrepareHit, PrepareDenied, PrepareMiss, Pipeline, PreCompile
<1>7. CASE RenderProgram
  BY <1>2, <1>7, ReasonOpen DEF RenderProgram, RenderDenied, RenderDraw, Pipeline, PostCompile
<1>8. CASE EvaluateCandidate
  BY <1>2, <1>8, ReasonOpen DEF EvaluateCandidate
<1>9. CASE SelectCandidate
  BY <1>2, <1>9 DEF SelectCandidate, ReasonSettled
<1>10. CASE DecideUniform
  <2>1. /\ pc = "decide_uniform_optimization" /\ refStop = None /\ result = None
        /\ best # None /\ candidates # <<>>
    BY <1>2, <1>10 DEF DecideUniform, ReasonSettled, CandidateKnown
  <2>2. /\ UNCHANGED <<best, candidates, refCount, nonImproving, result>>
        /\ \/ /\ pc' = "release_resources"
              /\ \/ TargetReached(best) /\ refStop' = "target_reached"
                 \/ ~TargetReached(best) /\ refStop' = "hard_resource_block"
           \/ pc' \in {"decide_refinement", "propose_uniform_candidate"} /\ refStop' = refStop
    BY <1>10 DEF DecideUniform, DecideTargetReached, DecideSpent, DecideConverged,
       DecideContinue, DecideSearchedBefore, DecideStart, StopSearch, refVars
  <2>3. CASE pc' = "release_resources"
    <3>1. refStop' # None /\ result' = None
      BY <2>1, <2>2, <2>3, NoneAssumption DEF RefineStops
    <3>2. Truthful(refStop)'
      BY <2>1, <2>2, <2>3 DEF Truthful, TargetReached
    <3>3. QED
      BY <2>3, <3>1, <3>2 DEF ReasonSettled
  <2>4. CASE pc' # "release_resources"
    BY <2>1, <2>2, <2>4 DEF ReasonSettled
  <2>5. QED
    BY <2>3, <2>4
<1>11. CASE ProposeUniform \/ ApplyUniform \/ RecordUniform
  BY <1>2, <1>11, ReasonOpen DEF ProposeUniform, ApplyUniform, RecordUniform
<1>12. CASE DecideRefinement
  <2>1. result = None /\ refStop' = RefineStop
        /\ UNCHANGED <<best, candidates, refCount, nonImproving, result>>
    BY <1>2, <1>12 DEF DecideRefinement, ReasonSettled, refVars
  <2>2. CASE RefineStop = None
    BY <1>12, <2>1, <2>2 DEF DecideRefinement, ReasonSettled
  <2>3. CASE RefineStop # None
    <3>1. Truthful(RefineStop)
      BY <1>2, <2>3, RefineStopTruthful DEF IndInv
    <3>2. Truthful(refStop)'
      BY <2>1, <3>1 DEF Truthful, TargetReached
    <3>3. QED
      BY <1>12, <2>1, <2>3, <3>2 DEF DecideRefinement, ReasonSettled
  <2>4. QED
    BY <2>2, <2>3
<1>13. CASE ReleaseResources
  BY <1>2, <1>13 DEF ReleaseResources, ReasonSettled, Truthful, TargetReached, refVars
<1>14. CASE FinalizeAttempt
  <2>1. /\ UNCHANGED <<best, candidates, refCount, nonImproving>> /\ pc' = "done"
        /\ IF refStop = None THEN best = None ELSE Truthful(refStop)
    BY <1>2, <1>14 DEF FinalizeAttempt, ReasonSettled, refVars
  <2>2. result'.stop = IF refStop = None THEN "no_valid_candidate" ELSE refStop
    BY <1>14, <2>1 DEF FinalizeAttempt
  <2>3. Truthful(result'.stop)
    BY <2>1, <2>2 DEF Truthful
  <2>4. Truthful(result.stop)'
    BY <2>1, <2>3 DEF Truthful, TargetReached
  <2>5. QED
    BY <2>1, <2>4 DEF ReasonSettled
<1>15. CASE Abort
  <2>1. pc' \in {"unwinding", "cancelled", "abandoned"} /\ result' = result
    BY <1>15 DEF Abort, Cancel, Unwind, CancelRelease
  <2>2. result = None
    BY <1>2, <1>15 DEF Abort, Cancel, Unwind, CancelRelease, Releasing, ReasonSettled
  <2>3. QED
    BY <2>1, <2>2 DEF ReasonSettled
<1>16. CASE UNCHANGED vars
  BY <1>2, <1>16 DEF vars, ReasonSettled, Truthful, TargetReached, refVars
<1>17. QED
  BY <1>4, <1>5, <1>6, <1>7, <1>8, <1>9, <1>10, <1>11, <1>12, <1>13, <1>14, <1>15, <1>16
  DEF Next, Step

\* The ledger of the reason holds in every state.
LEMMA StopHolds ==
    ASSUME NoneIsNoCandidate
    PROVE  Spec => []StopInv
<1>1. Init => StopInv
  BY DEF Init, StopInv, PatienceLedger, CandidateKnown, ReasonSettled, Candidate, Pipeline,
     PreCompile, PostCompile, Refining, Searching, Proposing, Ending, Terminal
<1>2. IndInv /\ SelectionInv /\ StopInv /\ [Next]_vars => StopInv'
  BY PatienceStep, CandidateStep, ReasonStep DEF StopInv
<1>3. QED
  BY <1>1, <1>2, SelectionHolds, Invariance, PTL DEF Spec

\* The reason an attempt reports is the true one: the target wins over every
\* budget, and patience is spent by refinements only.
THEOREM ReasonIsTruthful ==
    ASSUME NoneIsNoCandidate
    PROVE  Spec => []StopReasonTruthful
<1>1. StopInv => StopReasonTruthful
  BY DEF StopInv, ReasonSettled, Truthful, StopReasonTruthful
<1>2. QED
  BY <1>1, StopHolds, PTL
-----------------------------------------------------------------------------
(* The uniform search.  Its session and the incumbent are changed by         *)
(* different nodes: select_candidate moves the incumbent one node before     *)
(* record_uniform_outcome moves the session's tick.                          *)

\* The uniforms of a shader are one integer for every tunable of its source.
Fitting(s) == s.src \in Sources /\ s.vals \in [DOMAIN Tunables[s.src] -> Int]

ShadersFit ==
    /\ pc \in Pipeline => Fitting(cand)
    /\ pc = "select_candidate" => Fitting(pending)
    /\ pc = "apply_refinement" => patch = Invalid \/ Fitting(patch)
    /\ pc \in Candidate /\ role # "initial" => Fitting(best)
    /\ pc \in Refining \cup Searching \cup {"decide_uniform_optimization"} => Fitting(best)

\* The components of a session on the source src, each a field of its own.
OnSource(s, src) ==
    /\ \A i \in DOMAIN s.comps : s.comps[i].field \in DOMAIN Tunables[src]
    /\ \A i, j \in DOMAIN s.comps : s.comps[i].field = s.comps[j].field => i = j

SessionKept ==
    session # None => SessionOK(session) /\ Fresh(session) /\ OnSource(session, sessionSrc)

\* A session is that of a source already completed, or of the one being searched.
SessionOwned ==
    /\ pc \in {"author_layer_plan", "author_initial"} => session = None
    /\ pc \in Candidate /\ role = "initial" => session = None
    /\ pc \in Searching => session # None
    /\ pc \in Candidate /\ role = "uniform_optimize" => session # None
    /\ session # None =>
          \/ sessionSrc \in completed \/ pc \in Ending
          \/ /\ sessionSrc = best.src
             /\ \/ pc \in Searching \cup {"decide_uniform_optimization"}
                \/ pc \in Candidate /\ role = "uniform_optimize"

\* The incumbent's uniforms are those that the ticks stand for.
Spelt(ticks) ==
    \A i \in DOMAIN session.comps :
        best.vals[session.comps[i].field] = Lattice(session.comps[i], ticks[i])

Probed == [best.vals EXCEPT ![move.field] = move.replacement]

\* Between the selection and its record the incumbent is one tick ahead.
TicksToBe == IF pending # None /\ selected
             THEN [session.ticks EXCEPT ![session.cursor] = move.tick]
             ELSE session.ticks

Tracking ==
    /\ pc \in Proposing => session.stop = Running /\ Spelt(session.ticks)
    /\ pc = "apply_uniform_candidate" => AwaitsMove(session, move)
    /\ pc \in Candidate /\ role = "uniform_optimize" =>
          AwaitsMove(session, move) /\ Spelt(session.ticks)
    /\ pc \in Pipeline /\ role = "uniform_optimize" => cand.vals = Probed
    /\ pc = "select_candidate" /\ role = "uniform_optimize" => pending.vals = Probed
    /\ pc = "record_uniform_outcome" => AwaitsMove(session, move) /\ Spelt(TicksToBe)
    /\ pc = "decide_uniform_optimization" /\ session # None /\ sessionSrc \notin completed =>
          Spelt(session.ticks)

SearchInv == ShadersFit /\ SessionKept /\ SessionOwned /\ Tracking

\* What the model may author fits its source.
LEMMA AuthoredFits == \A s \in Authored : Fitting(s)
<1> SUFFICES ASSUME NEW s \in Authored PROVE Fitting(s)
  OBVIOUS
<1>1. /\ Tunables[s.src] \in Seq([step : Int, lo : Int, hi : Int])
      /\ s.vals \in Seq(Int) /\ Len(s.vals) = Len(Tunables[s.src])
  BY ShaderAssumption
<1>2. DOMAIN Tunables[s.src] = 1 .. Len(s.vals) /\ s.vals \in [1 .. Len(s.vals) -> Int]
  BY <1>1
<1> QED BY <1>2 DEF Fitting, Sources

\* The parts of the move a session awaits.
LEMMA AwaitedMove ==
    ASSUME NEW s, SessionOK(s), Fresh(s), NEW src, OnSource(s, src), NEW m, AwaitsMove(s, m)
    PROVE  LET c == s.comps[s.cursor]
           IN  /\ s.stop = Running /\ s.cursor \in 1 .. Len(s.comps)
               /\ c \in Component
               /\ m.field = c.field /\ m.field \in DOMAIN Tunables[src]
               /\ m.tick \in Ticks /\ m.direction = s.phase
               /\ m.replacement = Lattice(c, m.tick) /\ m.replacement \in Int
               /\ m.expected = Lattice(c, s.ticks[s.cursor])
<1> DEFINE c == s.comps[s.cursor]
<1>1. /\ s.stop = Running /\ m = MoveOf(s) /\ s.cursor \in 1 .. Len(s.comps)
  BY DEF AwaitsMove, SessionOK
<1>2. /\ c \in Component /\ s.ticks[s.cursor] \in Ticks
  BY <1>1 DEF SessionOK
<1>3. c.field \in DOMAIN Tunables[src]
  BY <1>1 DEF OnSource, SessionOK
<1>4. m.tick \in Ticks /\ m.direction = s.phase
  BY <1>1, FreshMoveTick
<1>5. m.field = c.field /\ m.replacement = Lattice(c, m.tick) /\ m.expected = Lattice(c, s.ticks[s.cursor])
  BY <1>1 DEF MoveOf
<1>6. Lattice(c, m.tick) \in Int
  BY <1>2, <1>4, LatticeType DEF Ticks
<1> QED BY <1>1, <1>2, <1>3, <1>4, <1>5, <1>6

\* A pipeline node either moves the candidate on or sends it back where its role
\* belongs, and touches neither the incumbent nor the search.
PipelineNode ==
    \/ CompileCandidate \/ ValidateCandidate \/ PrepareHit \/ PrepareDenied \/ PrepareMiss
    \/ RenderProgram \/ VerifyReceipt \/ AttestCandidate

\* Such a node leaves the incumbent and the search alone.
LEMMA PipelineFrame ==
    ASSUME PipelineNode
    PROVE  /\ pc \in Pipeline
           /\ pc' \in Pipeline \/ pc' = FailureRoute
           /\ UNCHANGED <<role, cand, pending, best, patch, session, sessionSrc, completed, move, sessions>>
<1> USE DEF Pipeline, PreCompile, PostCompile, candVars, uniVars, refVars, bestVars,
        Proceed, Reject, RejectHard
<1>1. CASE CompileCandidate \/ ValidateCandidate \/ VerifyReceipt \/ AttestCandidate
  BY <1>1 DEF CompileCandidate, ValidateCandidate, VerifyReceipt, AttestCandidate, Gate
<1>2. CASE PrepareHit \/ PrepareDenied \/ PrepareMiss
  BY <1>2 DEF PrepareHit, PrepareDenied, PrepareMiss
<1>3. CASE RenderProgram
  BY <1>3 DEF RenderProgram, RenderDenied, RenderDraw
<1> QED BY <1>1, <1>2, <1>3 DEF PipelineNode

\* The nodes by what they may do to the search.
LEMMA NodeKinds ==
    ASSUME [Next]_vars
    PROVE  \/ AuthorLayerPlan \/ AuthorInitial \/ AuthorRefinement \/ ApplyRefinement
           \/ PipelineNode \/ EvaluateCandidate \/ SelectCandidate
           \/ DecideUniform \/ ProposeUniform \/ ApplyUniform \/ RecordUniform
           \/ DecideRefinement
           \/ pc' \in Ending /\ UNCHANGED <<best, candidates, session, sessionSrc, completed, sessions>>
           \/ UNCHANGED vars
<1>1. ReleaseResources \/ FinalizeAttempt \/ Abort =>
          pc' \in Ending /\ UNCHANGED <<best, candidates, session, sessionSrc, completed, sessions>>
  BY DEF ReleaseResources, FinalizeAttempt,
         Abort, Cancel, Unwind, CancelRelease, Cut, AttemptFrame, Ending, Terminal, bestVars, uniVars
<1> QED BY <1>1 DEF Next, Step, PipelineNode

\* Every node keeps the shaders in flight fitting their sources.
LEMMA ShadersFitStep ==
    ASSUME IndInv, SearchInv, [Next]_vars
    PROVE  ShadersFit'
<1>1. role \in Roles
  BY DEF IndInv, TypeOK
<1>2. \A s \in Authored : Fitting(s)
  BY AuthoredFits
<1> USE <1>1 DEF Roles, ShadersFit, Candidate, Pipeline, PreCompile, PostCompile, Refining,
        Searching, Proposing, candVars, bestVars, refVars, uniVars, SearchFrame
<1>4. CASE AuthorLayerPlan
  BY <1>4 DEF AuthorLayerPlan
<1>5. CASE AuthorInitial
  BY <1>2, <1>5 DEF AuthorInitial
<1>6. CASE AuthorRefinement
  <2>1. pc' = "apply_refinement" => patch' \in Patches
    BY <1>6 DEF AuthorRefinement
  <2>2. Fitting(best) => Fitting([src |-> best.src, vals |-> best.vals])
    BY DEF Fitting
  <2>3. pc' = "apply_refinement" => patch' = Invalid \/ Fitting(patch')
    BY <1>2, <1>6, <2>1, <2>2 DEF SearchInv, Patches, AuthorRefinement
  <2> QED BY <1>6, <2>3 DEF AuthorRefinement, SearchInv
<1>7. CASE ApplyRefinement
  BY <1>7 DEF ApplyRefinement, SearchInv
<1>8. CASE PipelineNode
  BY <1>8, PipelineFrame DEF SearchInv, FailureRoute
<1>9. CASE EvaluateCandidate
  <2>1. pending'.src = cand.src /\ pending'.vals = cand.vals
    BY <1>9 DEF EvaluateCandidate
  <2> QED BY <1>9, <2>1 DEF EvaluateCandidate, SearchInv, Fitting
<1>10. CASE SelectCandidate
  <2>1. role = "initial" => best = None
    BY <1>10 DEF SelectCandidate, IndInv, AttemptInv, SourcesKnown
  <2>2. Fitting(best')
    BY <1>10, <2>1 DEF SelectCandidate, Selects, SearchInv
  <2> QED BY <1>10, <2>2 DEF SelectCandidate
<1>11. CASE DecideUniform
  <2>1. pc' \in {"release_resources", "decide_refinement", "propose_uniform_candidate"}
    BY <1>11 DEF DecideUniform, DecideTargetReached, DecideSpent, DecideConverged,
       DecideContinue, DecideSearchedBefore, DecideStart, StopSearch
  <2> QED BY <1>11, <2>1 DEF DecideUniform, SearchInv
<1>12. CASE ProposeUniform
  BY <1>12 DEF ProposeUniform, SearchInv
<1>13. CASE ApplyUniform
  <2>1. /\ Fitting(best) /\ session # None /\ AwaitsMove(session, move)
        /\ SessionOK(session) /\ Fresh(session) /\ OnSource(session, best.src)
    BY <1>13 DEF ApplyUniform, SearchInv, SessionKept, SessionOwned, Tracking, IndInv, AttemptInv, SearchOrder
  <2>2. move.replacement \in Int
    BY <2>1, AwaitedMove
  <2>3. Fitting([src |-> best.src, vals |-> Probed])
    BY <2>1, <2>2 DEF Fitting, Probed
  <2>4. pc' = "compile_candidate" => cand' = [src |-> best.src, vals |-> Probed]
    BY <1>13 DEF ApplyUniform, Probed
  <2>5. pc' = "compile_candidate" => Fitting(cand')
    BY <2>3, <2>4
  <2> QED BY <1>13, <2>1, <2>5 DEF ApplyUniform
<1>14. CASE RecordUniform
  BY <1>14 DEF RecordUniform, SearchInv
<1>15. CASE DecideRefinement
  BY <1>15 DEF DecideRefinement, SearchInv
<1>16. CASE pc' \in Ending
  BY <1>16 DEF Ending, Terminal
<1>17. CASE UNCHANGED vars
  BY <1>17 DEF vars, SearchInv
<1> QED BY <1>4, <1>5, <1>6, <1>7, <1>8, <1>9, <1>10, <1>11, <1>12, <1>13, <1>14, <1>15,
           <1>16, <1>17, NodeKinds

\* A session that stops by a hard failure keeps its shape.
LEMMA StoppedSession ==
    ASSUME NEW s, SessionOK(s), Fresh(s), NEW v, v # Running
    PROVE  LET r == [s EXCEPT !.stop = v]
           IN  SessionOK(r) /\ Fresh(r) /\ r.comps = s.comps /\ r.ticks = s.ticks /\ r.stop = v
<1> DEFINE r == [s EXCEPT !.stop = v]
<1>1. /\ Shaped(r) /\ KeepsProbe(r, s) /\ r.stop = v
      /\ r.cursor = s.cursor /\ r.phase = s.phase /\ r.material = s.material
  BY SetStop DEF SessionOK
<1>2. r.cursor \in 1 .. Len(s.comps) + 1 /\ r.phase \in Directions /\ r.material \in BOOLEAN
  BY <1>1 DEF SessionOK
<1> HIDE DEF r
<1>3. SessionOK(r)
  BY <1>1, <1>2, KeepsSession
<1> QED BY <1>1, <1>3 DEF Fresh, KeepsProbe, r

\* The session that follows a proposal.
LEMMA ProposedSession ==
    ASSUME NEW s, SessionOK(s), Fresh(s), s.stop = Running
    PROVE  LET r == Normalized(s)
           IN  /\ SessionOK(r) /\ Fresh(r) /\ r.comps = s.comps /\ r.ticks = s.ticks
               /\ r.stop = Running => AwaitsMove(r, MoveOf(r))
<1> DEFINE r == Normalized(s)
<1>1. /\ SessionOK(r) /\ KeepsProbe(r, s)
      /\ r.stop = Running => <<r.cursor, r.phase>> \in Ahead(s)
  BY NormalizedResult
<1>2. r.stop = Running => Normalized(r) = r
  BY NormalizedIdempotent
<1> HIDE DEF r
<1>3. r.comps = s.comps /\ r.ticks = s.ticks
  BY <1>1 DEF KeepsProbe
<1>4. r.stop = Running => Before(<<s.cursor, s.phase>>, <<r.cursor, r.phase>>)
  BY <1>1 DEF Ahead
<1>5. Fresh(r)
  BY <1>1, <1>3, <1>4, FreshMoves
<1>6. r.stop = Running => AwaitsMove(r, MoveOf(r))
  <2> SUFFICES ASSUME r.stop = Running PROVE AwaitsMove(r, MoveOf(r))
    OBVIOUS
  <2>1. r.cursor <= Len(r.comps)
    BY <1>1 DEF SessionOK
  <2> QED BY <1>2, <2>1 DEF AwaitsMove
<1> QED BY <1>1, <1>3, <1>5, <1>6 DEF r

\* The session that follows an answer: its ticks are those of the incumbent.
LEMMA RecordedSession ==
    ASSUME NEW s, SessionOK(s), Fresh(s), NEW src, OnSource(s, src), NEW m, AwaitsMove(s, m),
           NEW sel \in BOOLEAN, NEW gain \in BOOLEAN
    PROVE  /\ LET r == RecordOutcome(s, m, sel, gain)
              IN  /\ SessionOK(r) /\ Fresh(r) /\ r.comps = s.comps
                  /\ r.ticks = IF sel THEN [s.ticks EXCEPT ![s.cursor] = m.tick] ELSE s.ticks
           /\ LET r == RecordFailure(s, m)
              IN  SessionOK(r) /\ Fresh(r) /\ r.comps = s.comps /\ r.ticks = s.ticks
<1>1. /\ s.stop = Running /\ s.cursor \in 1 .. Len(s.comps)
      /\ m.tick \in Ticks /\ m.direction = s.phase
  BY AwaitedMove
<1>2. /\ s.ticks \in [1 .. Len(s.comps) -> Ticks] /\ s.phase \in Directions
      /\ s.phase = Plus => m.tick = 1
      /\ s.phase = Plus => s.ticks[s.cursor] \in {0, 1}
  <2>1. s.ticks \in [1 .. Len(s.comps) -> Ticks] /\ s.phase \in Directions
    BY DEF SessionOK
  <2>2. s.phase = Plus => m.tick = 1
    BY <1>1, FreshMoveTick DEF AwaitsMove
  <2> QED BY <1>1, <2>1, <2>2 DEF Fresh
<1>3. [s.ticks EXCEPT ![s.cursor] = s.ticks[s.cursor]] = s.ticks
  BY <1>1, <1>2
<1>4. LET r == RecordOutcome(s, m, sel, gain)
      IN  /\ SessionOK(r) /\ Fresh(r) /\ r.comps = s.comps
          /\ r.ticks = IF sel THEN [s.ticks EXCEPT ![s.cursor] = m.tick] ELSE s.ticks
  <2> DEFINE tick == IF sel THEN m.tick ELSE s.ticks[s.cursor]
             r == RecordOutcome(s, m, sel, gain)
  <2>1. Answered(r, s, gain) /\ r.ticks = [s.ticks EXCEPT ![s.cursor] = tick]
    BY <1>1, RecordOutcomeResult
  <2>2. tick \in Ticks /\ (s.phase = Plus => tick \in {0, 1})
    BY <1>1, <1>2
  <2> HIDE DEF r, tick
  <2>3. Fresh(r)
    BY <1>1, <2>1, <2>2, FreshAnswers
  <2>4. r.ticks = IF sel THEN [s.ticks EXCEPT ![s.cursor] = m.tick] ELSE s.ticks
    BY <1>3, <2>1 DEF tick
  <2> QED BY <2>1, <2>3, <2>4 DEF Answered, r
<1>5. LET r == RecordFailure(s, m)
      IN  SessionOK(r) /\ Fresh(r) /\ r.comps = s.comps /\ r.ticks = s.ticks
  <2> DEFINE r == RecordFailure(s, m)
             tick == s.ticks[s.cursor]
  <2>1. Answered(r, s, FALSE) /\ r.ticks = s.ticks
    BY <1>1, RecordFailureResult
  <2>2. tick \in Ticks /\ (s.phase = Plus => tick \in {0, 1})
    BY <1>1, <1>2
  <2>3. r.ticks = [s.ticks EXCEPT ![s.cursor] = tick]
    BY <1>3, <2>1
  <2> HIDE DEF r, tick
  <2>4. Fresh(r)
    BY <1>1, <2>1, <2>2, <2>3, FreshAnswers
  <2> QED BY <2>1, <2>4 DEF Answered, r
<1> QED BY <1>4, <1>5

\* The session that a search starts with, on the components of the incumbent.
LEMMA StartedSession ==
    ASSUME NEW b, Fitting(b), Scalars(b) \subseteq Component,
           NEW chosen \in Selections(ComponentsOf(b))
    PROVE  LET s == StartSession(chosen, UniformBudget, ActiveCap, MaxPasses)
           IN  /\ SessionOK(s) /\ Fresh(s) /\ OnSource(s, b.src)
               /\ \A i \in DOMAIN s.comps :
                     b.vals[s.comps[i].field] = Lattice(s.comps[i], s.ticks[i])
<1> DEFINE s == StartSession(chosen, UniformBudget, ActiveCap, MaxPasses)
           T == Tunables[b.src]
           C == ComponentsOf(b)
           Comp(i) == [field |-> i, base |-> b.vals[i], step |-> T[i].step, lo |-> T[i].lo, hi |-> T[i].hi]
           D == {Comp(i) : i \in DOMAIN T}
<1>1. T \in Seq([step : Int, lo : Int, hi : Int])
  BY ShaderAssumption DEF Fitting, Sources
<1>2. DOMAIN T = 1 .. Len(T) /\ Len(T) \in Nat
  BY <1>1
<1>3. D = Scalars(b)
  BY DEF Scalars
<1> HIDE DEF T
<1>4. \A i \in DOMAIN T : Comp(i) \in Component
  BY <1>3
<1>5. D \subseteq Component /\ IsFiniteSet(D)
  <2>1. IsFiniteSet(DOMAIN T)
    BY <1>2, FS_Interval
  <2> DEFINE f == [i \in DOMAIN T |-> Comp(i)]
  <2>2. f \in Surjection(DOMAIN T, D)
    BY DEF Surjection
  <2>3. IsFiniteSet(D)
    BY <2>1, <2>2, FS_Surjection
  <2> QED BY <1>4, <2>3
<1>6. C \subseteq D
  BY <1>3 DEF ComponentsOf
<1>7. PICK S \in SUBSET C : chosen \in Orders(S)
  BY DEF Selections
<1>8. S \subseteq Component /\ IsFiniteSet(S)
  BY <1>5, <1>6, <1>7, FS_Subset
<1> HIDE DEF C, D
<1>9. /\ SessionOK(s) /\ s.ticks = [i \in DOMAIN s.comps |-> 0]
      /\ s.cursor = 1 /\ s.phase = Plus
      /\ \A i \in DOMAIN s.comps : i \in DOMAIN chosen /\ s.comps[i] = chosen[i]
  BY <1>7, <1>8, StartResult, BudgetAssumption
<1> HIDE DEF s
<1>10. /\ DOMAIN chosen = 1 .. Cardinality(S)
       /\ \A i \in DOMAIN chosen : chosen[i] \in S
       /\ \A i, j \in DOMAIN chosen : chosen[i].field = chosen[j].field => i = j
  BY <1>7 DEF Orders
<1>11. Cardinality(S) \in Nat
  BY <1>8, FS_CardinalityType
<1>12. Fresh(s)
  BY <1>9 DEF Fresh, SessionOK
<1>13. \A i \in DOMAIN s.comps : \E k \in DOMAIN T : s.comps[i] = Comp(k)
  BY <1>6, <1>7, <1>9, <1>10 DEF D
<1>14. \A i \in DOMAIN s.comps : s.comps[i].field \in DOMAIN T
  <2> SUFFICES ASSUME NEW i \in DOMAIN s.comps PROVE s.comps[i].field \in DOMAIN T
    OBVIOUS
  <2>1. PICK k \in DOMAIN T : s.comps[i] = Comp(k)
    BY <1>13
  <2> QED BY <2>1
<1>15. \A i, j \in DOMAIN s.comps : s.comps[i].field = s.comps[j].field => i = j
  BY <1>9, <1>10
<1>16. \A i \in DOMAIN s.comps : b.vals[s.comps[i].field] = Lattice(s.comps[i], s.ticks[i])
  <2> SUFFICES ASSUME NEW i \in DOMAIN s.comps
               PROVE  b.vals[s.comps[i].field] = Lattice(s.comps[i], s.ticks[i])
    OBVIOUS
  <2>1. PICK k \in DOMAIN T : s.comps[i] = Comp(k)
    BY <1>13
  <2>2. b.vals[s.comps[i].field] = s.comps[i].base /\ s.comps[i] \in Component
    BY <1>4, <2>1
  <2>3. s.ticks[i] = 0
    BY <1>9
  <2> HIDE DEF Comp
  <2>4. Lattice(s.comps[i], 0) = s.comps[i].base
    BY <2>2 DEF Lattice, Component
  <2> QED BY <2>2, <2>3, <2>4
<1> QED BY <1>9, <1>12, <1>14, <1>15, <1>16 DEF OnSource, T, s

\* None is not a search session.
NoneIsNoSession == \A s : SessionOK(s) => s # None

\* What decide_uniform_optimization does to the session.
LEMMA DecideFrame ==
    ASSUME DecideUniform
    PROVE  /\ pc = "decide_uniform_optimization" /\ UNCHANGED <<best, role, cand, pending>>
           /\ \/ /\ UNCHANGED <<session, sessionSrc, sessions>> /\ completed \subseteq completed'
                 /\ pc' \in {"release_resources", "decide_refinement"}
                 /\ pc' = "decide_refinement" => best.src \in completed'
              \/ /\ UNCHANGED <<session, sessionSrc, sessions, completed>>
                 /\ pc' = "propose_uniform_candidate"
                 /\ OwnSession /\ session.stop = Running
                 /\ ~Spent /\ uniDraws < UniformBudget
              \/ /\ ~OwnSession /\ best.src \notin completed
                 /\ sessions' = sessions + 1 /\ sessionSrc' = best.src
                 /\ Scalars(best) \subseteq Component
                 /\ \E chosen \in Selections(ComponentsOf(best)) :
                       session' = StartSession(chosen, UniformBudget, ActiveCap, MaxPasses)
                 /\ \/ /\ pc' = "propose_uniform_candidate" /\ session'.stop = Running
                       /\ completed' = completed
                    \/ /\ pc' = "decide_refinement"
                       /\ completed' = completed \cup {best.src}
              \/ /\ ~OwnSession /\ best.src \notin completed
                 /\ session' = None /\ sessions' = sessions
                 /\ pc' = "decide_refinement" /\ completed' = completed \cup {best.src}
<1>1. /\ pc = "decide_uniform_optimization" /\ UNCHANGED <<best, role, cand, pending>>
  BY DEF DecideUniform, SearchFrame, bestVars, candVars
<1>2. CASE DecideTargetReached \/ DecideSpent \/ DecideConverged
  BY <1>1, <1>2 DEF DecideTargetReached, DecideSpent, DecideConverged, StopSearch
<1>3. CASE DecideContinue
  BY <1>1, <1>3 DEF DecideContinue, uniVars
<1>4. CASE DecideSearchedBefore
  BY <1>1, <1>4 DEF DecideSearchedBefore, SearchedBefore, uniVars
<1>5. CASE DecideStart
  BY <1>1, <1>5 DEF DecideStart, SearchedBefore
<1> QED BY <1>2, <1>3, <1>4, <1>5 DEF DecideUniform

\* What record_uniform_outcome does to it.
LEMMA RecordFrame ==
    ASSUME SearchInv, TypeOK, RecordUniform
    PROVE  /\ pc = "record_uniform_outcome" /\ pc' = "decide_uniform_optimization"
           /\ UNCHANGED <<best, role, cand, pending, sessionSrc, sessions>>
           /\ completed \subseteq completed'
           /\ completed' = completed \/ best.src \in completed'
           /\ SessionOK(session') /\ Fresh(session') /\ session'.comps = session.comps
           /\ completed' # completed \/ session'.ticks = TicksToBe
<1>0. /\ pc = "record_uniform_outcome" /\ session # None /\ AwaitsMove(session, move)
      /\ SessionOK(session) /\ Fresh(session) /\ OnSource(session, sessionSrc)
      /\ selected \in BOOLEAN /\ material \in BOOLEAN
  BY DEF RecordUniform, SearchInv, SessionKept, SessionOwned, Tracking, Searching, TypeOK
<1>1. /\ pc' = "decide_uniform_optimization"
      /\ UNCHANGED <<best, role, cand, pending, sessionSrc, sessions>>
  BY DEF RecordUniform, SearchFrame, bestVars, candVars
<1>2. CASE RecordHardFailure
  <2>1. HardReason # Running
    BY DEF HardReason, Running
  <2>2. session' = [session EXCEPT !.stop = HardReason] /\ completed' = completed \cup {best.src}
        /\ pending = None
    BY <1>2 DEF RecordHardFailure
  <2> QED BY <1>0, <1>1, <2>1, <2>2, StoppedSession DEF TicksToBe
<1>3. CASE RecordSearchStep
  <2>1. completed' = completed \/ completed' = completed \cup {best.src}
    BY <1>3 DEF RecordSearchStep
  <2>2. /\ SessionOK(session') /\ Fresh(session') /\ session'.comps = session.comps
        /\ session'.ticks = TicksToBe
    <3>1. CASE pending = None /\ session' = RecordFailure(session, move)
      BY <1>0, <3>1, RecordedSession DEF TicksToBe
    <3>2. CASE pending # None /\ session' = RecordOutcome(session, move, selected, material)
      BY <1>0, <3>2, RecordedSession DEF TicksToBe
    <3> QED BY <1>3, <3>1, <3>2 DEF RecordSearchStep
  <2> QED BY <1>0, <1>1, <2>1, <2>2
<1> QED BY <1>2, <1>3 DEF RecordUniform

\* What propose_uniform_candidate does to it.
LEMMA ProposeFrame ==
    ASSUME SearchInv, ProposeUniform
    PROVE  /\ pc = "propose_uniform_candidate"
           /\ UNCHANGED <<best, role, cand, pending, sessionSrc, sessions>>
           /\ SessionOK(session') /\ Fresh(session')
           /\ session'.comps = session.comps /\ session'.ticks = session.ticks
           /\ \/ /\ pc' = "apply_uniform_candidate" /\ completed' = completed
                 /\ session'.stop = Running /\ AwaitsMove(session', move')
              \/ pc' = "decide_refinement" /\ completed' = completed \cup {best.src}
<1>1. /\ pc = "propose_uniform_candidate" /\ session # None /\ session.stop = Running
      /\ SessionOK(session) /\ Fresh(session) /\ session' = Normalized(session)
      /\ UNCHANGED <<best, role, cand, pending, sessionSrc, sessions>>
  BY DEF ProposeUniform, SearchInv, SessionKept, SessionOwned, Tracking, Searching, Proposing,
     SearchFrame, bestVars, candVars
<1>2. /\ SessionOK(session') /\ Fresh(session')
      /\ session'.comps = session.comps /\ session'.ticks = session.ticks
      /\ session'.stop = Running => AwaitsMove(session', MoveOf(session'))
  BY <1>1, ProposedSession
<1>3. \/ /\ pc' = "apply_uniform_candidate" /\ completed' = completed
         /\ session'.stop = Running /\ move' = MoveOf(session')
      \/ pc' = "decide_refinement" /\ completed' = completed \cup {best.src}
  BY DEF ProposeUniform
<1> QED BY <1>1, <1>2, <1>3

\* Every node keeps the session in shape and on its source.
LEMMA SessionKeptStep ==
    ASSUME IndInv, SearchInv, [Next]_vars
    PROVE  SessionKept'
<1>0. TypeOK /\ SessionKept
  BY DEF IndInv, SearchInv
<1>1. \A s, src : OnSource(s, src)' <=> OnSource(s, src)
  BY DEF OnSource
<1>2. CASE DecideUniform
  <2>1. CASE /\ \E chosen \in Selections(ComponentsOf(best)) :
                    session' = StartSession(chosen, UniformBudget, ActiveCap, MaxPasses)
             /\ sessionSrc' = best.src /\ Scalars(best) \subseteq Component
    <3>1. Fitting(best)
      BY <1>2, DecideFrame DEF SearchInv, ShadersFit
    <3> QED BY <2>1, <3>1, StartedSession DEF SessionKept
  <2>2. CASE session' = None
    BY <2>2 DEF SessionKept
  <2>3. CASE UNCHANGED <<session, sessionSrc>>
    BY <1>0, <2>3 DEF SessionKept
  <2> QED BY <1>2, <2>1, <2>2, <2>3, DecideFrame
<1>3. CASE RecordUniform
  <2>1. session # None
    BY <1>3 DEF RecordUniform, SearchInv, SessionOwned, Searching
  <2> QED BY <1>0, <1>3, <2>1, RecordFrame DEF SessionKept, OnSource
<1>4. CASE ProposeUniform
  <2>1. session # None
    BY <1>4 DEF ProposeUniform, SearchInv, SessionOwned, Searching, Proposing
  <2> QED BY <1>0, <1>4, <2>1, ProposeFrame DEF SessionKept, OnSource
<1>5. CASE UNCHANGED <<session, sessionSrc>>
  BY <1>0, <1>5 DEF SessionKept
<1>6. AuthorLayerPlan \/ AuthorInitial \/ AuthorRefinement \/ ApplyRefinement \/ PipelineNode
      \/ EvaluateCandidate \/ SelectCandidate \/ ApplyUniform \/ DecideRefinement
      \/ UNCHANGED vars => UNCHANGED <<session, sessionSrc>>
  BY PipelineFrame DEF AuthorLayerPlan, AuthorInitial, AuthorRefinement, ApplyRefinement,
     EvaluateCandidate, SelectCandidate, ApplyUniform, DecideRefinement, uniVars, vars
<1> QED BY <1>2, <1>3, <1>4, <1>5, <1>6, NodeKinds

\* Every node keeps the session a completed one, or that of the current search.
LEMMA SessionOwnedStep ==
    ASSUME NoneIsNoSession, IndInv, SearchInv, [Next]_vars
    PROVE  SessionOwned'
<1>0. role \in Roles /\ SessionOwned
  BY DEF IndInv, TypeOK, SearchInv
<1> USE <1>0 DEF Roles, SessionOwned, Candidate, Pipeline, PreCompile, PostCompile, Refining,
        Searching, Proposing, Ending, Terminal, candVars, bestVars, refVars, uniVars
<1>1. CASE AuthorLayerPlan \/ AuthorInitial
  BY <1>1 DEF AuthorLayerPlan, AuthorInitial
<1>2. CASE AuthorRefinement \/ ApplyRefinement
  BY <1>2 DEF AuthorRefinement, ApplyRefinement, IndInv, AttemptInv, RolesByNode
<1>3. CASE PipelineNode
  BY <1>3, PipelineFrame DEF FailureRoute
<1>4. CASE EvaluateCandidate
  BY <1>4 DEF EvaluateCandidate
<1>5. CASE SelectCandidate
  <2>1. role = "uniform_optimize" => best'.src = best.src
    BY <1>5 DEF SelectCandidate, IndInv, AttemptInv, ProgramKept
  <2> QED BY <1>5, <2>1 DEF SelectCandidate
<1>6. CASE DecideUniform
  <2>1. Scalars(best) \subseteq Component => \A chosen \in Selections(ComponentsOf(best)) :
            StartSession(chosen, UniformBudget, ActiveCap, MaxPasses) # None
    <3>1. Fitting(best)
      BY <1>6, DecideFrame DEF SearchInv, ShadersFit
    <3> QED BY <3>1, StartedSession DEF NoneIsNoSession
  <2> QED BY <1>6, <2>1, DecideFrame DEF OwnSession
<1>7. CASE ProposeUniform
  <2>1. session' # None
    BY <1>7, ProposeFrame DEF NoneIsNoSession
  <2> QED BY <1>7, <2>1, ProposeFrame
<1>8. CASE ApplyUniform
  BY <1>8 DEF ApplyUniform, SearchFrame
<1>9. CASE RecordUniform
  BY <1>9, RecordFrame DEF IndInv
<1>10. CASE DecideRefinement
  BY <1>10 DEF DecideRefinement
<1>11. CASE pc' \in Ending
  BY <1>11
<1>12. CASE UNCHANGED vars
  BY <1>12 DEF vars
<1> QED BY <1>1, <1>2, <1>3, <1>4, <1>5, <1>6, <1>7, <1>8, <1>9, <1>10, <1>11, <1>12, NodeKinds

\* A selected probe moves the incumbent to the move's tick, and nothing else of it.
LEMMA SelectedTick ==
    ASSUME NEW s, SessionOK(s), Fresh(s), NEW src, OnSource(s, src), NEW m, AwaitsMove(s, m),
           NEW vals \in [DOMAIN Tunables[src] -> Int],
           \A i \in DOMAIN s.comps : vals[s.comps[i].field] = Lattice(s.comps[i], s.ticks[i])
    PROVE  \A i \in DOMAIN s.comps :
              [vals EXCEPT ![m.field] = m.replacement][s.comps[i].field]
                  = Lattice(s.comps[i], [s.ticks EXCEPT ![s.cursor] = m.tick][i])
<1> SUFFICES ASSUME NEW i \in DOMAIN s.comps
             PROVE  [vals EXCEPT ![m.field] = m.replacement][s.comps[i].field]
                        = Lattice(s.comps[i], [s.ticks EXCEPT ![s.cursor] = m.tick][i])
  OBVIOUS
<1> DEFINE k == s.cursor
           c == s.comps[k]
<1>1. /\ k \in DOMAIN s.comps /\ DOMAIN s.comps = 1 .. Len(s.comps) /\ c \in Component
      /\ m.field = c.field /\ m.field \in DOMAIN Tunables[src]
      /\ m.replacement = Lattice(c, m.tick)
      /\ s.ticks \in [1 .. Len(s.comps) -> Ticks]
  BY AwaitedMove DEF SessionOK
<1> HIDE DEF c
<1>2. CASE i = k
  BY <1>1, <1>2 DEF c
<1>3. CASE i # k
  <2>1. s.comps[i].field # m.field
    BY <1>1, <1>3 DEF OnSource, c
  <2>2. s.comps[i].field \in DOMAIN Tunables[src]
    BY DEF OnSource
  <2> QED BY <1>1, <1>3, <2>1, <2>2
<1> QED BY <1>2, <1>3

\* Every node keeps the ticks and the incumbent together.
LEMMA TrackingStep ==
    ASSUME IndInv, SelectionInv, SearchInv, [Next]_vars
    PROVE  Tracking'
<1>0. /\ role \in Roles /\ Tracking /\ SessionOwned /\ SessionKept /\ ShadersFit
      /\ RolesByNode /\ SearchOrder /\ TypeOK
  BY DEF IndInv, AttemptInv, TypeOK, SearchInv
<1> USE DEF Roles, Candidate, Pipeline, PreCompile, PostCompile, Refining,
        Searching, Proposing, Ending, Terminal, candVars, bestVars, refVars, uniVars
<1>1. CASE AuthorLayerPlan \/ AuthorInitial
  BY <1>0, <1>1 DEF AuthorLayerPlan, AuthorInitial, Tracking
<1>2. CASE AuthorRefinement \/ ApplyRefinement
  BY <1>0, <1>2 DEF AuthorRefinement, ApplyRefinement, Tracking, RolesByNode
<1>3. CASE PipelineNode
  <2>1. /\ pc \in Pipeline /\ pending = None /\ (pc' \in Pipeline \/ pc' = FailureRoute)
        /\ UNCHANGED <<role, cand, pending, best, session, sessionSrc, completed, move>>
    BY <1>0, <1>3, PipelineFrame DEF RolesByNode
  <2>2. TicksToBe' = session.ticks
    BY <1>0, <1>3, PipelineFrame DEF RolesByNode, TicksToBe
  <2>3. \A t : Spelt(t)' <=> Spelt(t)
    BY <2>1 DEF Spelt
  <2>4. Spelt(session.ticks) => Spelt(session.ticks)' /\ Spelt(TicksToBe)'
    BY <2>1, <2>2 DEF Spelt
  <2> QED BY <1>0, <1>3, <2>1, <2>4, PipelineFrame DEF Tracking, FailureRoute, Probed, AwaitsMove
<1>4. CASE EvaluateCandidate
  <2>1. /\ pc = "evaluate_candidate" /\ pc' = "select_candidate" /\ pending'.vals = cand.vals
        /\ UNCHANGED <<role, best, session, sessionSrc, completed, move>>
    BY <1>4 DEF EvaluateCandidate
  <2> QED BY <1>0, <2>1 DEF Tracking, Spelt, Probed, AwaitsMove
<1>5. CASE SelectCandidate
  <2>1. /\ pc = "select_candidate"
        /\ UNCHANGED <<role, pending, session, sessionSrc, completed, move>>
        /\ pc' = IF role = "uniform_optimize" THEN "record_uniform_outcome"
                 ELSE "decide_uniform_optimization"
        /\ best' = IF selected' THEN pending ELSE best
    BY <1>5 DEF SelectCandidate
  <2>2. CASE role = "uniform_optimize"
    <3>1. /\ session # None /\ AwaitsMove(session, move) /\ Spelt(session.ticks)
          /\ pending.vals = Probed
          /\ SessionOK(session) /\ Fresh(session) /\ OnSource(session, best.src) /\ Fitting(best)
      BY <1>0, <2>1, <2>2 DEF Tracking, SessionKept, SessionOwned, SearchOrder, ShadersFit
    <3>2. CASE selected' /\ pending # None
      <4>1. TicksToBe' = [session.ticks EXCEPT ![session.cursor] = move.tick] /\ best'.vals = Probed
        BY <2>1, <3>1, <3>2 DEF TicksToBe
      <4>2. best.vals \in [DOMAIN Tunables[best.src] -> Int]
        BY <3>1 DEF Fitting
      <4>3. \A i \in DOMAIN session.comps :
                Probed[session.comps[i].field] =
                    Lattice(session.comps[i], [session.ticks EXCEPT ![session.cursor] = move.tick][i])
        BY <3>1, <4>2, SelectedTick DEF Spelt, Probed
      <4>4. \A i \in DOMAIN session.comps :
                best'.vals[session.comps[i].field] = Lattice(session.comps[i], TicksToBe'[i])
        BY <4>1, <4>3
      <4>5. Spelt(TicksToBe)'
        BY <2>1, <4>4 DEF Spelt
      <4> QED BY <2>1, <2>2, <3>1, <4>5 DEF Tracking, AwaitsMove
    <3>3. CASE ~selected'
      <4>1. TicksToBe' = session.ticks /\ best' = best
        BY <2>1, <3>3 DEF TicksToBe
      <4>2. Spelt(TicksToBe)'
        BY <2>1, <3>1, <4>1 DEF Spelt
      <4> QED BY <2>1, <2>2, <3>1, <4>2 DEF Tracking, AwaitsMove
    <3>4. pending # None
      BY <2>1 DEF SelectionInv
    <3> QED BY <3>2, <3>3, <3>4
  <2>3. CASE role # "uniform_optimize"
    <3>1. session # None => sessionSrc \in completed
      BY <1>0, <2>1, <2>3 DEF SessionOwned
    <3> QED BY <2>1, <2>3, <3>1 DEF Tracking
  <2> QED BY <2>2, <2>3
<1>6. CASE DecideUniform
  <2>1. ASSUME pc' = "propose_uniform_candidate" PROVE session'.stop = Running /\ Spelt(session.ticks)'
    <3>1. CASE /\ UNCHANGED <<session, sessionSrc, sessions, completed>>
               /\ OwnSession /\ session.stop = Running
               /\ ~Spent /\ uniDraws < UniformBudget
      <4>1. sessionSrc \notin completed
        BY <1>0, <1>6, <3>1, DecideFrame, BudgetAssumption DEF SearchOrder, OwnSession, Spent, TypeOK
      <4>2. Spelt(session.ticks)
        BY <1>0, <1>6, <3>1, <4>1, DecideFrame DEF Tracking, OwnSession
      <4> QED BY <1>6, <3>1, <4>2, DecideFrame DEF Spelt
    <3>2. CASE /\ session'.stop = Running /\ Scalars(best) \subseteq Component
               /\ \E chosen \in Selections(ComponentsOf(best)) :
                      session' = StartSession(chosen, UniformBudget, ActiveCap, MaxPasses)
      <4>1. Fitting(best) /\ best' = best
        BY <1>0, <1>6, DecideFrame DEF ShadersFit
      <4> QED BY <3>2, <4>1, StartedSession DEF Spelt
    <3> QED BY <1>6, <2>1, <3>1, <3>2, DecideFrame
  <2> QED BY <1>6, <2>1, DecideFrame DEF Tracking
<1>7. CASE ProposeUniform
  <2>1. Spelt(session.ticks)'
    BY <1>0, <1>7, ProposeFrame DEF Tracking, Spelt
  <2> QED BY <1>7, <2>1, ProposeFrame DEF Tracking, AwaitsMove
<1>8. CASE ApplyUniform
  <2>1. /\ pc = "apply_uniform_candidate" /\ pending' = None /\ role' = "uniform_optimize"
        /\ UNCHANGED <<best, session, sessionSrc, completed, move>>
        /\ \/ pc' = "compile_candidate" /\ cand'.vals = Probed
           \/ pc' = "record_uniform_outcome"
    BY <1>8 DEF ApplyUniform, SearchFrame, Probed
  <2>2. AwaitsMove(session, move) /\ Spelt(session.ticks)
    BY <1>0, <2>1 DEF Tracking
  <2>3. TicksToBe' = session.ticks
    BY <2>1 DEF TicksToBe
  <2>4. Spelt(session.ticks)' /\ Spelt(TicksToBe)'
    BY <2>1, <2>2, <2>3 DEF Spelt
  <2> QED BY <2>1, <2>2, <2>4 DEF Tracking, AwaitsMove, Probed
<1>9. CASE RecordUniform
  <2>1. Spelt(TicksToBe) /\ sessionSrc = best.src
    BY <1>0, <1>9, RecordFrame DEF Tracking, SearchOrder
  <2>2. completed' = completed => Spelt(session.ticks)'
    BY <1>9, <2>1, RecordFrame, <1>0 DEF Spelt
  <2>3. completed' # completed => sessionSrc' \in completed'
    BY <1>0, <1>9, <2>1, RecordFrame
  <2> QED BY <1>0, <1>9, <2>2, <2>3, RecordFrame DEF Tracking
<1>10. CASE DecideRefinement
  BY <1>10 DEF DecideRefinement, Tracking
<1>11. CASE pc' \in Ending
  BY <1>11 DEF Tracking
<1>12. CASE UNCHANGED vars
  BY <1>0, <1>12 DEF vars, Tracking, Spelt, AwaitsMove, Probed, TicksToBe
<1> QED BY <1>1, <1>2, <1>3, <1>4, <1>5, <1>6, <1>7, <1>8, <1>9, <1>10, <1>11, <1>12, NodeKinds

\* Every node keeps the search and the incumbent together.
LEMMA SearchStep ==
    ASSUME NoneIsNoSession, IndInv, SelectionInv, SearchInv, [Next]_vars
    PROVE  SearchInv'
BY ShadersFitStep, SessionKeptStep, SessionOwnedStep, TrackingStep DEF SearchInv

\* They are together in every state.
LEMMA SearchHolds ==
    ASSUME NoneIsNoCandidate, NoneIsNoSession
    PROVE  Spec => []SearchInv
<1>1. Init => SearchInv
  BY DEF Init, SearchInv, ShadersFit, SessionKept, SessionOwned, Tracking, Candidate, Pipeline,
     PreCompile, PostCompile, Refining, Searching, Proposing, Ending
<1>2. IndInv /\ SelectionInv /\ SearchInv /\ [Next]_vars => SearchInv'
  BY SearchStep
<1>3. QED
  BY <1>1, <1>2, SelectionHolds, Invariance, PTL DEF Spec

\* What the session believes of the incumbent is true whenever a move is proposed or
\* applied, for all shaders, budgets and scores.
THEOREM SearchTracksIncumbent ==
    ASSUME NoneIsNoCandidate, NoneIsNoSession
    PROVE  Spec => []SessionTracksIncumbent
<1>1. IndInv /\ SearchInv => SessionTracksIncumbent
  BY DEF IndInv, AttemptInv, SearchOrder, Searching, Proposing, SearchInv, Tracking, Spelt,
     SessionTracksIncumbent
<1>2. QED
  BY <1>1, SearchHolds, Invariance, PTL

\* The record functions of search.py, which raise "invalid_outcome" for a foreign
\* move, are only ever given the move their own session proposes.
MovesMatch == pc = "record_uniform_outcome" => AwaitsMove(session, move)

\* apply_uniform_patch compares the value a move expects with the incumbent's and
\* refuses the patch with "expected_value_mismatch" if they differ.
PatchIsCurrent == pc = "apply_uniform_candidate" => best.vals[move.field] = move.expected

\* No patch of the search is ever refused as stale, so a probe is only lost to a
\* duplicate or to a candidate that fails.
THEOREM PatchesAreCurrent ==
    ASSUME NoneIsNoCandidate, NoneIsNoSession
    PROVE  Spec => []PatchIsCurrent
<1>1. IndInv /\ SearchInv => PatchIsCurrent
  <2> SUFFICES ASSUME IndInv, SearchInv, pc = "apply_uniform_candidate"
               PROVE  best.vals[move.field] = move.expected
    BY DEF PatchIsCurrent
  <2>1. /\ session # None /\ AwaitsMove(session, move) /\ Spelt(session.ticks)
        /\ SessionOK(session) /\ Fresh(session) /\ OnSource(session, sessionSrc)
    BY DEF SearchInv, SessionOwned, SessionKept, Tracking, Searching, Proposing
  <2>2. /\ session.cursor \in DOMAIN session.comps /\ move.field = session.comps[session.cursor].field
        /\ move.expected = Lattice(session.comps[session.cursor], session.ticks[session.cursor])
    BY <2>1, AwaitedMove DEF SessionOK
  <2> QED BY <2>1, <2>2 DEF Spelt
<1>2. QED
  BY <1>1, SearchHolds, Invariance, PTL

\* No record function of search.py is ever given a foreign move.
THEOREM MovesAreOwn ==
    ASSUME NoneIsNoCandidate, NoneIsNoSession
    PROVE  Spec => []MovesMatch
<1>1. SearchInv => MovesMatch
  BY DEF SearchInv, Tracking, MovesMatch
<1>2. QED
  BY <1>1, SearchHolds, PTL

-----------------------------------------------------------------------------
\* The sources that were searched, or are.
Searched == completed \cup (IF session = None THEN {} ELSE {sessionSrc})

SessionsCounted ==
    /\ IsFiniteSet(completed) /\ sessions \in Nat
    /\ sessions <= Cardinality(Searched)

\* What was searched stays searched.
LEMMA SearchedGrows ==
    ASSUME SessionsCounted, UNCHANGED sessions, IsFiniteSet(completed'), Searched \subseteq Searched'
    PROVE  SessionsCounted'
<1>1. IsFiniteSet(Searched)'
  BY FS_Singleton, FS_Union, FS_EmptySet DEF Searched
<1>2. /\ Cardinality(Searched) <= Cardinality(Searched')
      /\ Cardinality(Searched) \in Nat /\ Cardinality(Searched') \in Nat
  BY <1>1, FS_Subset, FS_CardinalityType
<1> QED BY <1>2 DEF SessionsCounted

\* Only a source that was never searched gets a new session.
LEMMA SessionsStep ==
    ASSUME NoneIsNoSession, IndInv, SearchInv, SessionsCounted, [Next]_vars
    PROVE  SessionsCounted'
<1>0. /\ \A s : IsFiniteSet(completed) => IsFiniteSet(completed \cup {s})
      /\ IsFiniteSet(completed) /\ TypeOK
  BY FS_AddElement DEF SessionsCounted, IndInv
<1>1. CASE UNCHANGED <<session, sessionSrc, sessions, completed>>
  BY <1>0, <1>1, SearchedGrows DEF Searched
<1>2. CASE DecideUniform
  <2>0. /\ pc = "decide_uniform_optimization"
        /\ session # None => sessionSrc \in completed \/ sessionSrc = best.src
    BY <1>2, DecideFrame DEF SearchInv, SessionOwned, Candidate, Pipeline, PreCompile, PostCompile,
       Ending, Terminal
  <2>1. IsFiniteSet(completed')
    <3>1. completed' = completed \/ completed' = completed \cup {best.src}
      BY <1>2 DEF DecideUniform, DecideTargetReached, DecideSpent, DecideConverged,
         DecideContinue, DecideSearchedBefore, DecideStart, StopSearch, uniVars
    <3> QED BY <1>0, <3>1
  <2>2. CASE UNCHANGED <<session, sessionSrc, sessions>> /\ completed \subseteq completed'
    BY <2>1, <2>2, SearchedGrows DEF Searched
  <2>3. CASE /\ ~OwnSession /\ best.src \notin completed
             /\ sessions' = sessions + 1 /\ sessionSrc' = best.src /\ completed \subseteq completed'
             /\ session' # None
    <3>1. Searched = completed
      BY <2>0, <2>3 DEF Searched, OwnSession
    <3>2. completed \cup {best.src} \subseteq Searched' /\ IsFiniteSet(Searched')
      <4>1. IsFiniteSet(completed' \cup {sessionSrc'})
        BY <2>1, FS_AddElement
      <4> QED BY <2>3, <4>1 DEF Searched
    <3>3. /\ Cardinality(completed \cup {best.src}) = Cardinality(completed) + 1
          /\ Cardinality(completed) \in Nat
      BY <1>0, <2>3, FS_AddElement, FS_CardinalityType
    <3>4. /\ Cardinality(completed \cup {best.src}) <= Cardinality(Searched')
          /\ Cardinality(Searched') \in Nat
      BY <3>2, FS_Subset, FS_CardinalityType
    <3> QED BY <2>1, <2>3, <3>1, <3>3, <3>4 DEF SessionsCounted
  <2>4. CASE /\ session' = None /\ sessions' = sessions /\ ~OwnSession
             /\ completed' = completed \cup {best.src}
    <3>1. Searched \subseteq Searched'
      BY <2>0, <2>4 DEF Searched
    <3> QED BY <2>1, <2>4, <3>1, SearchedGrows
  <2>5. Scalars(best) \subseteq Component => \A chosen \in Selections(ComponentsOf(best)) :
            StartSession(chosen, UniformBudget, ActiveCap, MaxPasses) # None
    <3>1. Fitting(best)
      BY <2>0 DEF SearchInv, ShadersFit
    <3> QED BY <3>1, StartedSession DEF NoneIsNoSession
  <2> QED BY <1>2, <2>2, <2>3, <2>4, <2>5, DecideFrame
<1>3. CASE RecordUniform
  <2>1. /\ UNCHANGED <<sessions, sessionSrc>> /\ completed \subseteq completed' /\ session' # None
    BY <1>0, <1>3, RecordFrame DEF NoneIsNoSession
  <2>2. IsFiniteSet(completed')
    BY <1>0, <1>3 DEF RecordUniform, RecordHardFailure, RecordSearchStep
  <2> QED BY <2>1, <2>2, SearchedGrows DEF Searched
<1>4. CASE ProposeUniform
  <2>1. /\ UNCHANGED <<sessions, sessionSrc>> /\ session' # None
        /\ completed' = completed \/ completed' = completed \cup {best.src}
    BY <1>4, ProposeFrame DEF NoneIsNoSession
  <2>2. IsFiniteSet(completed') /\ completed \subseteq completed'
    BY <1>0, <2>1
  <2> QED BY <2>1, <2>2, SearchedGrows DEF Searched
<1>5. AuthorLayerPlan \/ AuthorInitial \/ AuthorRefinement \/ ApplyRefinement
      \/ EvaluateCandidate \/ SelectCandidate \/ ApplyUniform \/ DecideRefinement
      \/ UNCHANGED vars => UNCHANGED <<session, sessionSrc, sessions, completed>>
  BY DEF AuthorLayerPlan, AuthorInitial, AuthorRefinement, ApplyRefinement,
     EvaluateCandidate, SelectCandidate, ApplyUniform, DecideRefinement, uniVars, vars
<1>6. PipelineNode => UNCHANGED <<session, sessionSrc, sessions, completed>>
  BY PipelineFrame
<1> QED BY <1>1, <1>2, <1>3, <1>4, <1>5, <1>6, NodeKinds

\* However often refinements leave a source and come back to it, it is searched
\* at most once in an attempt.
THEOREM SourcesAreSearchedOnce ==
    ASSUME NoneIsNoCandidate, NoneIsNoSession
    PROVE  Spec => []OneSessionPerSource
<1>1. Init => SessionsCounted
  <2> SUFFICES ASSUME Init PROVE SessionsCounted
    OBVIOUS
  <2>1. completed = {} /\ session = None /\ sessions = 0
    BY DEF Init
  <2> QED BY <2>1, FS_EmptySet DEF SessionsCounted, Searched
<1>2. IndInv /\ SearchInv /\ SessionsCounted /\ [Next]_vars => SessionsCounted'
  BY SessionsStep
<1>3. SessionsCounted => OneSessionPerSource
  BY DEF SessionsCounted, OneSessionPerSource, Searched
<1>4. QED
  BY <1>1, <1>2, <1>3, SearchHolds, Invariance, PTL DEF Spec

-----------------------------------------------------------------------------
(* What is kept: the candidates' replay, and a success that no later failure *)
(* takes back.                                                               *)

\* f lists the incumbents of the writer's replay of the candidates cs.
Replays(f, cs) ==
    f = [n \in 0 .. Len(cs) |->
            IF n = 0 THEN None
            ELSE IF f[n - 1] = None \/ Dominates(cs[n], f[n - 1]) THEN cs[n] ELSE f[n - 1]]

\* There is such a replay, and it ends at b.
ReplaysTo(cs, b) ==
    /\ \E f : Replays(f, cs)
    /\ \A f : Replays(f, cs) => f[Len(cs)] = b

Replayed == ReplaysTo(candidates, best)

\* The failure code is that of an attempt that has scored nothing.
FailureKept ==
    /\ candidates # <<>> => failure = None
    /\ result # None /\ candidates # <<>> => result.status = "ok" /\ result.failure = None

\* ReplayedBest is the end of that replay.
LEMMA ReplayOfBest == Replayed => ReplayedBest = best
BY DEF Replayed, ReplaysTo, Replays, ReplayedBest

\* Replaying one more candidate takes one more step of the selection rule.
LEMMA ReplayAppend ==
    ASSUME NEW S, NEW cs \in Seq(S), NEW c, NEW b, ReplaysTo(cs, b)
    PROVE  ReplaysTo(Append(cs, c), IF Selects(c, b) THEN c ELSE b)
<1> DEFINE N == Len(cs)
           ds == Append(cs, c)
<1>1. /\ N \in Nat /\ Len(ds) = N + 1 /\ ds[N + 1] = c
      /\ \A i \in 1 .. N : ds[i] = cs[i]
  OBVIOUS
<1> HIDE DEF N, ds
<1>2. \E g : Replays(g, ds)
  <2>1. PICK f : Replays(f, cs)
    BY DEF ReplaysTo
  <2> DEFINE last == IF f[N] = None \/ Dominates(c, f[N]) THEN c ELSE f[N]
             g == [n \in 0 .. N + 1 |-> IF n = N + 1 THEN last ELSE f[n]]
             h == [n \in 0 .. Len(ds) |->
                      IF n = 0 THEN None
                      ELSE IF g[n - 1] = None \/ Dominates(ds[n], g[n - 1]) THEN ds[n] ELSE g[n - 1]]
  <2>2. \A n \in 0 .. N : f[n] = IF n = 0 THEN None
                                  ELSE IF f[n - 1] = None \/ Dominates(cs[n], f[n - 1]) THEN cs[n] ELSE f[n - 1]
    BY <2>1 DEF Replays, N
  <2>3. \A n \in 0 .. N : g[n] = f[n]
    BY <1>1
  <2>4. g[N + 1] = last
    BY <1>1
  <2> HIDE DEF g, last
  <2>5. ASSUME NEW n \in 0 .. N + 1 PROVE h[n] = g[n]
    <3>1. CASE n = 0
      BY <1>1, <2>2, <2>3, <3>1
    <3>2. CASE n \in 1 .. N
      <4>1. n - 1 \in 0 .. N /\ n \in 0 .. N /\ n # 0 /\ ds[n] = cs[n]
        BY <1>1, <3>2
      <4>2. g[n - 1] = f[n - 1] /\ g[n] = f[n]
        BY <2>3, <4>1
      <4>3. f[n] = IF f[n - 1] = None \/ Dominates(cs[n], f[n - 1]) THEN cs[n] ELSE f[n - 1]
        BY <2>2, <4>1
      <4> QED BY <1>1, <2>5, <4>1, <4>2, <4>3
    <3>3. CASE n = N + 1
      <4>1. n - 1 = N /\ n # 0 /\ ds[n] = c
        BY <1>1, <3>3
      <4>2. g[n - 1] = f[N]
        BY <1>1, <2>3, <4>1
      <4> QED BY <1>1, <2>4, <2>5, <3>3, <4>1, <4>2 DEF last
    <3> QED BY <1>1, <3>1, <3>2, <3>3
  <2>6. g = h
    BY <1>1, <2>5 DEF g
  <2> QED BY <2>6 DEF Replays
<1>3. ASSUME NEW g, Replays(g, ds) PROVE g[N + 1] = IF Selects(c, b) THEN c ELSE b
  <2> DEFINE f == [n \in 0 .. N |-> g[n]]
             h == [n \in 0 .. Len(cs) |->
                      IF n = 0 THEN None
                      ELSE IF f[n - 1] = None \/ Dominates(cs[n], f[n - 1]) THEN cs[n] ELSE f[n - 1]]
  <2>1. \A n \in 0 .. N + 1 : g[n] = IF n = 0 THEN None
                                  ELSE IF g[n - 1] = None \/ Dominates(ds[n], g[n - 1]) THEN ds[n] ELSE g[n - 1]
    BY <1>1, <1>3 DEF Replays
  <2>2. ASSUME NEW n \in 0 .. N PROVE h[n] = f[n]
    <3>1. CASE n = 0
      BY <1>1, <2>1, <3>1 DEF N
    <3>2. CASE n # 0
      <4>1. n \in 1 .. N /\ n - 1 \in 0 .. N /\ n \in 0 .. N + 1
        BY <1>1, <3>2
      <4>2. f[n - 1] = g[n - 1] /\ f[n] = g[n] /\ ds[n] = cs[n]
        BY <1>1, <4>1
      <4>3. g[n] = IF g[n - 1] = None \/ Dominates(ds[n], g[n - 1]) THEN ds[n] ELSE g[n - 1]
        BY <2>1, <3>2, <4>1
      <4>4. h[n] = IF f[n - 1] = None \/ Dominates(cs[n], f[n - 1]) THEN cs[n] ELSE f[n - 1]
        BY <2>2, <3>2 DEF N
      <4> QED BY <4>2, <4>3, <4>4
    <3> QED BY <3>1, <3>2
  <2>3. f = h
    BY <2>2 DEF N
  <2>4. f[N] = b
    <3>1. Replays(f, cs)
      BY <2>3 DEF Replays
    <3> QED BY <3>1 DEF N, ReplaysTo
  <2>5. g[N] = b
    BY <1>1, <2>4
  <2>6. N + 1 \in 0 .. N + 1 /\ N + 1 # 0 /\ N + 1 - 1 = N
    BY <1>1
  <2> QED BY <1>1, <2>1, <2>5, <2>6 DEF Selects
<1> QED BY <1>1, <1>2, <1>3 DEF ReplaysTo, ds

\* Only select_candidate scores, and only it clears the failure code for good.
LEMMA FailureStep ==
    ASSUME IndInv, SelectionInv, FailureKept, ReasonSettled, CandidateKnown, [Next]_vars
    PROVE  FailureKept'
<1>0. role \in Roles /\ (best = None <=> candidates = <<>>)
  BY DEF IndInv, TypeOK, SelectionInv
<1>1. pc \in Pipeline /\ role = "initial" => best = None
  BY DEF IndInv, AttemptInv, SourcesKnown
<1>2. pc \in {"author_layer_plan", "author_initial"} => best = None
  BY DEF IndInv, AttemptInv, SourcesKnown
<1>3. pc \notin Ending => result = None
  BY DEF ReasonSettled
<1> USE <1>0 DEF FailureKept, Roles, Pipeline, PreCompile, PostCompile, candVars, bestVars,
        AttemptFrame, SearchFrame, Proceed, Reject, RejectHard, Ending, Terminal
<1>4. CASE AuthorLayerPlan \/ AuthorInitial
  BY <1>2, <1>3, <1>4 DEF AuthorLayerPlan, AuthorInitial
<1>5. CASE AuthorRefinement \/ ApplyRefinement
  BY <1>3, <1>5 DEF AuthorRefinement, ApplyRefinement
<1>6. CASE CompileCandidate \/ ValidateCandidate \/ VerifyReceipt \/ AttestCandidate
  BY <1>1, <1>3, <1>6 DEF CompileCandidate, ValidateCandidate, VerifyReceipt, AttestCandidate, Gate
<1>7. CASE PrepareHit \/ PrepareDenied \/ PrepareMiss
  BY <1>1, <1>3, <1>7 DEF PrepareHit, PrepareDenied, PrepareMiss
<1>8. CASE RenderProgram
  BY <1>1, <1>3, <1>8 DEF RenderProgram, RenderDenied, RenderDraw
<1>9. CASE EvaluateCandidate
  BY <1>3, <1>9 DEF EvaluateCandidate
<1>10. CASE SelectCandidate
  BY <1>3, <1>10 DEF SelectCandidate
<1>11. CASE DecideUniform \/ ProposeUniform \/ ApplyUniform \/ RecordUniform
  BY <1>3, <1>11 DEF DecideUniform, ProposeUniform, ApplyUniform, RecordUniform
<1>12. CASE DecideRefinement \/ ReleaseResources \/ Abort
  BY <1>3, <1>12 DEF DecideRefinement, ReleaseResources, Abort, Cancel, Unwind, CancelRelease, Cut
<1>13. CASE FinalizeAttempt
  BY <1>13 DEF FinalizeAttempt
<1>14. CASE UNCHANGED vars
  BY <1>14 DEF vars
<1> QED BY <1>4, <1>5, <1>6, <1>7, <1>8, <1>9, <1>10, <1>11, <1>12, <1>13, <1>14
        DEF Next, Step

\* The incumbent stays what a replay of the candidates ends at.
LEMMA ReplayStep ==
    ASSUME TypeOK, SelectionInv, Replayed, [Next]_vars
    PROVE  Replayed'
<1>1. CASE SelectCandidate
  <2>1. PICK S : candidates \in Seq(S)
    BY DEF SelectionInv
  <2>2. /\ candidates' = Append(candidates, pending)
        /\ best' = IF Selects(pending, best) THEN pending ELSE best
    BY <1>1 DEF SelectCandidate
  <2>3. ReplaysTo(candidates', best')
    BY <2>1, <2>2, ReplayAppend DEF Replayed
  <2> QED BY <2>3 DEF Replayed, ReplaysTo, Replays, Dominates
<1>2. CASE UNCHANGED <<best, candidates>>
  BY <1>2 DEF Replayed, ReplaysTo, Replays, Dominates
<1> QED BY <1>1, <1>2, SelectionFrame DEF EvaluateCandidate, bestVars

\* Whatever fails after the first scored candidate, the attempt succeeds with its
\* best one, and the writer of its evidence comes to the same one.
THEOREM ScoredCandidatesAreKept ==
    ASSUME NoneIsNoCandidate
    PROVE  Spec => []ScoredCandidateIsKept
<1>1. Init => FailureKept /\ Replayed
  <2> SUFFICES ASSUME Init PROVE FailureKept /\ Replayed
    OBVIOUS
  <2>1. candidates = <<>> /\ best = None /\ result = None
    BY DEF Init
  <2> DEFINE f == [n \in 0 .. Len(candidates) |-> None]
  <2>2. Len(candidates) = 0
    BY <2>1
  <2>3. Replays(f, candidates)
    BY <2>2 DEF Replays
  <2>4. \A g : Replays(g, candidates) => g[Len(candidates)] = best
    BY <2>1, <2>2 DEF Replays
  <2> QED BY <2>1, <2>3, <2>4 DEF FailureKept, Replayed, ReplaysTo
<1>2. IndInv /\ SelectionInv /\ StopInv /\ FailureKept /\ [Next]_vars => FailureKept'
  BY FailureStep DEF StopInv
<1>3. TypeOK /\ SelectionInv /\ Replayed /\ [Next]_vars => Replayed'
  BY ReplayStep
<1>4. SelectionInv /\ FailureKept /\ Replayed => ScoredCandidateIsKept
  BY ReplayOfBest DEF SelectionInv, FailureKept, ScoredCandidateIsKept
<1>5. QED
  BY <1>1, <1>2, <1>3, <1>4, StopHolds, SelectionHolds, Invariance, TypeCorrect, PTL DEF Spec
=============================================================================
