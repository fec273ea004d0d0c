---------------------------- MODULE DirectAttempt ----------------------------
(***************************************************************************)
(* One attempt of the LayerPlan Direct engine: the LangGraph of            *)
(* agent/app/graphs/layerplan_glsl_direct.py, one action per node, pc is   *)
(* the node that runs next.  The attempt authors an initial layered        *)
(* shader, draws and scores it, tunes its uniforms by coordinate search,   *)
(* and asks the model for single-layer refinements, all under the budgets  *)
(* of LayerPlanGlslDirectConfig.                                           *)
(*                                                                         *)
(* A shader is [src, vals]: its GLSL source (which is also the program     *)
(* cache key) and the values of its tunable uniforms.  A candidate adds    *)
(* the scores the evaluator gave it.  What a model, a shader compiler, a   *)
(* draw or the evaluator answers is a free choice.                         *)
(***************************************************************************)
EXTENDS CoordinatePattern

CONSTANTS
    Authored,          \* the shaders the model may author, initially or as a refinement
    Tunables,          \* Tunables[src]: the [step, lo, hi] of the source's components
    Scores,            \* the [mae, loss] pairs the evaluator may return
    LlmBudget,         \* direct_author_llm_budget
    CompileBudget,     \* compile_budget
    DrawBudget,        \* draw_budget
    RefineBudget,      \* refine_budget
    UniformBudget,     \* uniform_tuning_draw_budget
    ActiveCap,         \* uniform_tuning_active_component_cap
    MaxPasses,         \* uniform_tuning_max_passes
    TargetMae, TargetLoss, MinDeltaMae, MinDeltaLoss,   \* DirectOptimizationPolicy
    Patience,          \* refinement_patience
    DetectDuplicates,  \* detect_duplicate_patch
    None,              \* Python's None
    Invalid            \* a patch that apply_layer_patch refuses

ASSUME BudgetAssumption ==
    /\ LlmBudget \in Nat /\ CompileBudget \in Nat /\ DrawBudget \in Nat
    /\ RefineBudget \in Nat /\ UniformBudget \in Nat
    /\ ActiveCap \in Nat /\ MaxPasses \in {0, 1} /\ Patience \in Nat
    /\ DetectDuplicates \in BOOLEAN

\* RefineStopReason: None, a refinement that goes on, is none of them.
RefineStops == {"target_reached", "hard_resource_block", "duplicate_patch",
                "refine_budget_exhausted", "patience_exhausted", "no_valid_candidate"}
ASSUME NoneAssumption == None \notin RefineStops

\* A score is a point of a grid: only the order of scores and their gains matter.
ASSUME ScoreAssumption ==
    Scores \subseteq [mae : Int, loss : Int] /\ TargetMae \in Int /\ TargetLoss \in Int

\* A shader has one integer for every tunable uniform of its source.  The parser
\* keeps it in the uniform's own domain, of which the tunable range is a part: a
\* start value may lie outside the range it is to be searched in.
ASSUME ShaderAssumption ==
    \A s \in Authored :
        /\ s = [src |-> s.src, vals |-> s.vals]
        /\ Tunables[s.src] \in Seq([step : Int, lo : Int, hi : Int])
        /\ s.vals \in Seq(Int) /\ Len(s.vals) = Len(Tunables[s.src])

VARIABLES
    pc,
    role, cand, pending,               \* the candidate in flight
    best, candidates,                  \* current_best, and every scored candidate in order
    llm, compiles, draws, maskDraws, uniDraws, accepted,     \* the AttemptLedger
    cache, live,                       \* program_cache, and the renderer's open handles
    refCount, nonImproving, blocked, dup, attempted, patch,  \* refinement state
    selected, material,                \* outcome of the last selection
    session, sessionSrc, completed, move, sessions,          \* uniform search state
    uniStop, refStop, lastError, failure, result

candVars  == <<role, cand, pending>>
bestVars  == <<best, candidates, accepted, selected, material>>
refVars   == <<refCount, attempted, patch>>
uniVars   == <<session, sessionSrc, completed, move, sessions>>
counters  == <<llm, compiles, draws, maskDraws, uniDraws>>
vars == <<pc, candVars, bestVars, counters, cache, live, refVars, nonImproving, blocked, dup,
          uniVars, uniStop, refStop, lastError, failure, result>>

\* How the attempt is over: by itself, by a cancellation whose finally clause
\* released the programs, or by one that cut a release short.
Terminal == {"done", "cancelled", "abandoned"}

\* Mutant of HardCodes: a lost worker is taken for a candidate-local failure.
HardCodesBudgetsOnly == {"compile_budget_exhausted", "draw_budget_exhausted"}

HardCodes == {"renderer_unavailable", "compile_budget_exhausted", "draw_budget_exhausted"}
HardReasons == {"renderer_unavailable", "global_compile_budget_exhausted",
                "global_draw_budget_exhausted"}

Least(S) == CHOOSE n \in S : \A m \in S : n <= m

\* Mutant of MaskBudget: the uniform search's draws are not reserved.
MaskBudgetUnreserved == IF DrawBudget > 1 + RefineBudget
                        THEN DrawBudget - (1 + RefineBudget) ELSE 0

\* role_mask_draw_budget: what is left of the draw budget once every candidate
\* the refinement loop and the uniform search may draw has its own draw.
MaskBudget == IF DrawBudget > 1 + RefineBudget + UniformBudget
              THEN DrawBudget - (1 + RefineBudget) - UniformBudget ELSE 0

Sources == {s.src : s \in Authored}

\* The scalars of a shader's manifest, each with its value.
Scalars(s) == {[field |-> i, base |-> s.vals[i], step |-> Tunables[s.src][i].step,
                lo |-> Tunables[s.src][i].lo, hi |-> Tunables[s.src][i].hi] :
                   i \in DOMAIN Tunables[s.src]}

\* flatten_tunable_components of a shader whose scalars are all components.
ComponentsOf(s) == {c \in Scalars(s) : Movable(c)}

\* _select_target_components: the focus or the ranked layer picks some of them.
Selections(comps) == UNION {Orders(chosen) : chosen \in SUBSET comps}

TargetReached(c) == c.mae <= TargetMae /\ c.loss <= TargetLoss

Excess(value, target) == IF value > target THEN value - target ELSE 0

\* candidate_excess_dominates: strict domination of the target-relative excesses.
Dominates(c, d) ==
    LET cm == Excess(c.mae, TargetMae)   cl == Excess(c.loss, TargetLoss)
        dm == Excess(d.mae, TargetMae)   dl == Excess(d.loss, TargetLoss)
    IN  cm <= dm /\ cl <= dl /\ (cm < dm \/ cl < dl)

\* Mutant of Selects: the single-objective rule the dual target replaced.
SelectsByLoss(c, incumbent) == incumbent = None \/ c.loss < incumbent.loss

Selects(c, incumbent) == incumbent = None \/ Dominates(c, incumbent)

\* _write_private_process_renders replays the retained candidates with its own copy
\* of the rule; an attempt is refused whose replay does not end at current_best.
ReplayedBest ==
    LET incumbent[n \in 0 .. Len(candidates)] ==
            IF n = 0 THEN None
            ELSE IF incumbent[n - 1] = None \/ Dominates(candidates[n], incumbent[n - 1])
                 THEN candidates[n] ELSE incumbent[n - 1]
    IN  incumbent[Len(candidates)]

Scored == {candidates[i] : i \in DOMAIN candidates}

Material(c, d) == d.loss - c.loss >= MinDeltaLoss \/ d.mae - c.mae >= MinDeltaMae
-----------------------------------------------------------------------------
\* prepare_reference resets every field.
Init ==
    /\ pc = "author_layer_plan"
    /\ role = "initial" /\ cand = None /\ pending = None
    /\ best = None /\ candidates = <<>> /\ accepted = 0
    /\ selected = FALSE /\ material = FALSE
    /\ llm = 0 /\ compiles = 0 /\ draws = 0 /\ maskDraws = 0 /\ uniDraws = 0
    /\ cache = {} /\ live = {}
    /\ refCount = 0 /\ attempted = {} /\ patch = None
    /\ nonImproving = 0 /\ blocked = FALSE /\ dup = FALSE
    /\ session = None /\ sessionSrc = None /\ completed = {} /\ move = None /\ sessions = 0
    /\ uniStop = None /\ refStop = None
    /\ lastError = None /\ failure = None /\ result = None

\* Mutant of Release: the cache forgets the programs without closing them.
ReleaseUnclosed == cache' = {} /\ live' = live

\* release_programs: empty the cache, close every handle it held.  Nothing else
\* runs on the attempt's programs, so that a release which is not cancelled is
\* one step of its node.
Release == cache' = {} /\ live' = live \ cache

\* release_programs with a CancelledError at one of its awaits, which `except
\* Exception` lets through: the cache is empty already, the handles up to the
\* awaited one count as closed, the ones behind it stay open.
Cut ==
    /\ cache' = {}
    /\ \E closed \in SUBSET (cache \cap live) \ {{}} : live' = live \ closed

\* Where candidate_failure_route and render_failure_route send a failed candidate.
FailureRoute == CASE role = "uniform_optimize" -> "record_uniform_outcome"
                  [] role = "refine"           -> "decide_refinement"
                  [] role = "initial"          -> "release_resources"

\* Mutant of Reject: a failed refinement overwrites the attempt's failure code.
RejectAnyRole(code) ==
    /\ lastError' = code
    /\ failure' = code
    /\ IF role = "refine"
       THEN nonImproving' = nonImproving + 1 /\ selected' = FALSE /\ material' = FALSE
       ELSE UNCHANGED <<nonImproving, selected, material>>
    /\ pc' = FailureRoute
    /\ UNCHANGED <<candVars, best, candidates, accepted, refVars, dup, uniVars,
                   uniStop, refStop, result>>

\* reject_candidate with refine_failure_update: the common end of a failing node.
Reject(code) ==
    /\ lastError' = code
    /\ failure' = IF role = "initial" THEN code ELSE failure
    /\ IF role = "refine"
       THEN nonImproving' = nonImproving + 1 /\ selected' = FALSE /\ material' = FALSE
       ELSE UNCHANGED <<nonImproving, selected, material>>
    /\ pc' = FailureRoute
    /\ UNCHANGED <<candVars, best, candidates, accepted, refVars, dup, uniVars,
                   uniStop, refStop, result>>

\* A failure that also decides whether refinement may go on.
RejectHard(code) == Reject(code) /\ blocked' = (role = "refine")

\* A node that only routes the candidate onwards.
Proceed(node) ==
    /\ pc' = node
    /\ UNCHANGED <<candVars, bestVars, refVars, nonImproving, blocked, dup, uniVars,
                   uniStop, refStop, lastError, failure, result>>
-----------------------------------------------------------------------------
(* Authoring.                                                              *)

AuthorLayerPlan ==
    /\ pc = "author_layer_plan"
    /\ \/ pc' = "author_initial" /\ UNCHANGED failure
       \/ pc' = "release_resources" /\ failure' = "layer_plan_generation_failed"
    /\ UNCHANGED <<candVars, bestVars, counters, cache, live, refVars, nonImproving, blocked,
                   dup, uniVars, uniStop, refStop, lastError, result>>

\* The structured author makes one call and at most one repair call; with no
\* call left it answers llm_budget_exhausted without calling the model.
AuthorCalls == {n \in 1 .. 2 : llm + n <= LlmBudget}

AuthorFailures ==
    IF AuthorCalls = {} THEN {<<0, "llm_budget_exhausted">>}
    ELSE {<<n, code>> : n \in AuthorCalls, code \in {"llm_invocation_failed", "author_output_invalid"}}

AuthorInitial ==
    /\ pc = "author_initial"
    /\ role' = "initial" /\ pending' = None
    /\ \/ \E n \in AuthorCalls, s \in Authored :
             /\ llm' = llm + n /\ cand' = s
             /\ pc' = "compile_candidate"
             /\ failure' = None
             /\ UNCHANGED lastError
       \/ \E f \in AuthorFailures :
             /\ llm' = llm + f[1] /\ cand' = None
             /\ lastError' = f[2] /\ failure' = f[2]
             /\ pc' = "release_resources"
    /\ UNCHANGED <<bestVars, compiles, draws, maskDraws, uniDraws, cache, live, refVars,
                   nonImproving, blocked, dup, uniVars, uniStop, refStop, result>>

MasksAllowed ==
    LET room == Least({2, MaskBudget - maskDraws, DrawBudget - draws})
    IN  IF best.src \in cache /\ room > 0 THEN room ELSE 0

\* _render_role_alpha_masks: up to two diagnostic draws of the incumbent from
\* its cached program; a lost worker ends them and evicts the whole cache.
RoleMasks ==
    LET n == MasksAllowed
    IN  \/ \E k \in 0 .. n :
              /\ best.src \in live \/ k = 0
              /\ draws' = draws + k /\ maskDraws' = maskDraws + k
              /\ UNCHANGED <<cache, live>>
        \/ \E k \in 1 .. n :
              /\ best.src \in live \/ k = 1
              /\ draws' = draws + k /\ maskDraws' = maskDraws + k
              /\ Release

\* The patch names the incumbent's layer: it yields another authored shader,
\* the incumbent itself (a no-op), or something apply_layer_patch refuses.
Patches == Authored \cup {[src |-> best.src, vals |-> best.vals]} \cup {Invalid}

AuthorRefinement ==
    /\ pc = "author_refinement"
    /\ RoleMasks
    /\ role' = "refine" /\ cand' = None /\ pending' = None
    /\ refCount' = refCount + 1
    /\ \/ \E n \in AuthorCalls, p \in Patches :
             /\ llm' = llm + n /\ patch' = p
             /\ blocked' = FALSE
             /\ pc' = "apply_refinement"
             /\ UNCHANGED <<lastError, nonImproving, selected, material>>
       \/ \E f \in AuthorFailures :
             /\ llm' = llm + f[1] /\ patch' = None
             /\ lastError' = f[2]
             /\ blocked' = (f[2] = "llm_budget_exhausted")
             /\ nonImproving' = nonImproving + 1
             /\ selected' = FALSE /\ material' = FALSE
             /\ pc' = "decide_refinement"
    /\ UNCHANGED <<best, candidates, accepted, compiles, uniDraws, attempted, dup, uniVars,
                   uniStop, refStop, failure, result>>

\* The fingerprint binds the incumbent; accepted numbers the incumbents.  Invalid
\* stands for many patches: two of them may differ, and one refused for a wrong
\* hash may share its fingerprint with a patch that is not refused.
Fingerprint == <<accepted, patch>>

Duplicate ==
    IF ~DetectDuplicates THEN {FALSE}
    ELSE IF patch # Invalid /\ Fingerprint \in attempted THEN {TRUE}
    ELSE IF \E known \in attempted : Invalid \in {patch, known[2]} THEN BOOLEAN
    ELSE {FALSE}

\* The no-op test looks at the layer only, not at the hashes the patch claims.
NoOp == IF patch = Invalid THEN BOOLEAN
        ELSE {patch = [src |-> best.src, vals |-> best.vals]}

ApplyRefinement ==
    /\ pc = "apply_refinement"
    /\ \E duplicate \in Duplicate, noOp \in NoOp :
           /\ attempted' = attempted \cup {Fingerprint}
           /\ \/ /\ duplicate \/ noOp
                 /\ cand' = None /\ dup' = TRUE
                 /\ lastError' = IF duplicate THEN "duplicate_patch" ELSE "no_op_patch"
                 /\ pc' = "decide_refinement"
                 /\ UNCHANGED <<nonImproving, selected, material>>
              \/ /\ ~duplicate /\ ~noOp /\ patch = Invalid
                 /\ cand' = None /\ lastError' = "author_output_invalid"
                 /\ nonImproving' = nonImproving + 1
                 /\ selected' = FALSE /\ material' = FALSE
                 /\ pc' = "decide_refinement"
                 /\ UNCHANGED dup
              \/ /\ ~duplicate /\ ~noOp /\ patch # Invalid
                 /\ cand' = patch
                 /\ pc' = "compile_candidate"
                 /\ UNCHANGED <<dup, lastError, nonImproving, selected, material>>
    /\ UNCHANGED <<role, pending, best, candidates, accepted, counters, cache, live, refCount,
                   patch, blocked, uniVars, uniStop, refStop, failure, result>>
-----------------------------------------------------------------------------
(* The candidate pipeline.                                                 *)

\* compile_candidate, validate_candidate, verify_receipt and attest_candidate
\* check the candidate without changing anything else.
Gate(node, next, code) ==
    /\ pc = node
    /\ Proceed(next) \/ (Reject(code) /\ UNCHANGED blocked)
    /\ UNCHANGED <<counters, cache, live>>

CompileCandidate  == Gate("compile_candidate", "validate_candidate",
                          IF role = "initial" THEN "static_validation_failed"
                          ELSE "author_output_invalid")
ValidateCandidate == Gate("validate_candidate", "prepare_program", "static_validation_failed")
VerifyReceipt     == Gate("verify_receipt", "attest_candidate", "static_validation_failed")
AttestCandidate   == Gate("attest_candidate", "evaluate_candidate", "static_validation_failed")

PrepareHit ==
    /\ pc = "prepare_program" /\ cand.src \in cache
    /\ Proceed("render_program")
    /\ UNCHANGED <<counters, cache, live>>

PrepareDenied ==
    /\ pc = "prepare_program" /\ cand.src \notin cache
    /\ compiles >= CompileBudget
    /\ RejectHard("compile_budget_exhausted")
    /\ UNCHANGED <<counters, cache, live>>

\* renderer.prepare may lose its worker once, close every handle and replay
\* before it succeeds, refuses the shader, or gives up; a ValueError is raised
\* before the worker is used.
PrepareMiss ==
    /\ pc = "prepare_program" /\ cand.src \notin cache
    /\ compiles < CompileBudget
    /\ compiles' = compiles + 1
    /\ \/ \E open \in {live, {}} :
             \/ /\ Proceed("render_program")
                /\ cache' = cache \cup {cand.src} /\ live' = open \cup {cand.src}
             \/ /\ Reject("compile_or_link_failed") /\ UNCHANGED blocked
                /\ live' = open /\ UNCHANGED cache
       \/ RejectHard("renderer_unavailable") /\ cache' = {} /\ live' = {}
       \/ RejectHard("renderer_unavailable") /\ UNCHANGED <<cache, live>>
    /\ UNCHANGED <<llm, draws, maskDraws, uniDraws>>

RenderDenied ==
    /\ pc = "render_program" /\ draws >= DrawBudget
    /\ RejectHard("draw_budget_exhausted")
    /\ UNCHANGED <<counters, cache, live>>

RenderDraw ==
    /\ pc = "render_program" /\ draws < DrawBudget
    /\ draws' = draws + 1
    /\ uniDraws' = IF role = "uniform_optimize" THEN uniDraws + 1 ELSE uniDraws
    /\ \/ cand.src \in live /\ Proceed("verify_receipt") /\ UNCHANGED <<cache, live>>
       \/ cand.src \in live /\ Reject("draw_failed") /\ UNCHANGED <<blocked, cache, live>>
       \/ RejectHard("renderer_unavailable") /\ Release     \* RendererUnavailableError
       \/ cand.src \in live /\ RejectHard("renderer_unavailable") /\ UNCHANGED <<cache, live>>
    /\ UNCHANGED <<llm, compiles, maskDraws>>

\* The refusal is for an attempt that may not draw at all: see DrawsReserved.
RenderProgram == IF draws < DrawBudget THEN RenderDraw ELSE RenderDenied

EvaluateCandidate ==
    /\ pc = "evaluate_candidate"
    /\ \E score \in Scores :
          pending' = [src |-> cand.src, vals |-> cand.vals, mae |-> score.mae, loss |-> score.loss]
    /\ pc' = "select_candidate"
    /\ UNCHANGED <<role, cand, bestVars, counters, cache, live, refVars, nonImproving, blocked,
                   dup, uniVars, uniStop, refStop, lastError, failure, result>>

\* Only a refinement moves the patience counter.
NonImprovingAfter(gain) ==
    IF role # "refine" THEN nonImproving ELSE IF gain THEN 0 ELSE nonImproving + 1

SelectCandidate ==
    /\ pc = "select_candidate"
    /\ candidates' = Append(candidates, pending)
    /\ selected' = Selects(pending, best)
    /\ material' = (role # "initial" /\ best # None /\ selected' /\ Material(pending, best))
    /\ best' = IF selected' THEN pending ELSE best
    /\ accepted' = IF selected' THEN accepted + 1 ELSE accepted
    /\ nonImproving' = NonImprovingAfter(material')
    /\ failure' = None
    /\ pc' = IF role = "uniform_optimize" THEN "record_uniform_outcome"
             ELSE "decide_uniform_optimization"
    /\ UNCHANGED <<candVars, counters, cache, live, refVars, blocked, dup, uniVars,
                   uniStop, refStop, lastError, result>>
-----------------------------------------------------------------------------
(* The uniform search.                                                     *)

\* Frame of the nodes that only touch the uniform search.
SearchFrame == UNCHANGED <<bestVars, counters, cache, live, refVars, nonImproving, dup,
                           failure, result>>

OwnSession == session # None /\ sessionSrc = best.src

\* decide_uniform_optimization tries its branches in this order.  Its first one,
\* no incumbent, cannot happen: only select_candidate leads here.
Spent == blocked \/ draws >= DrawBudget
SessionOver == OwnSession /\ session.stop # Running

\* Mutant of StopSearch: the searched source is not recorded.
StopSearchUnrecorded(next, reason) ==
    /\ pc' = next /\ uniStop' = reason
    /\ UNCHANGED <<completed, session, sessionSrc, move, sessions>>

StopSearch(next, reason) ==
    /\ pc' = next /\ uniStop' = reason
    /\ completed' = completed \cup {best.src}
    /\ UNCHANGED <<session, sessionSrc, move, sessions>>

DecideTargetReached ==
    /\ TargetReached(best)
    /\ StopSearch("release_resources", "target_reached")
    /\ refStop' = "target_reached"

\* Mutant of DecideSpent: it is tried before the target.
DecideSpentFirst ==
    /\ Spent
    /\ StopSearch("release_resources", "global_draw_budget_exhausted")
    /\ refStop' = "hard_resource_block"

DecideSpent ==
    /\ ~TargetReached(best) /\ Spent
    /\ StopSearch("release_resources",
                  IF uniStop \in HardReasons THEN uniStop ELSE "global_draw_budget_exhausted")
    /\ refStop' = "hard_resource_block"

DecideConverged ==
    /\ ~TargetReached(best) /\ ~Spent
    /\ \/ SessionOver /\ StopSearch("decide_refinement", session.stop)
       \/ /\ ~SessionOver /\ uniDraws >= UniformBudget
          /\ StopSearch("decide_refinement", "uniform_tuning_budget_exhausted")
    /\ UNCHANGED refStop

DecideContinue ==
    /\ ~TargetReached(best) /\ ~Spent /\ uniDraws < UniformBudget
    /\ OwnSession /\ session.stop = Running
    /\ pc' = "propose_uniform_candidate" /\ uniStop' = None
    /\ UNCHANGED <<uniVars, refStop>>

\* Mutant of SearchedBefore: only the latest session's source is remembered.
SearchedLast == sessionSrc = best.src

SearchedBefore == best.src \in completed

\* A source is searched once: coming back to it goes straight to refinement.
DecideSearchedBefore ==
    /\ ~TargetReached(best) /\ ~Spent /\ uniDraws < UniformBudget
    /\ ~OwnSession /\ SearchedBefore
    /\ pc' = "decide_refinement"
    /\ UNCHANGED <<uniVars, uniStop, refStop>>

DecideStart ==
    /\ ~TargetReached(best) /\ ~Spent /\ uniDraws < UniformBudget
    /\ ~OwnSession /\ ~SearchedBefore
    /\ UNCHANGED <<move, refStop>>
    /\ LET comps == ComponentsOf(best)
       IN  \/ /\ Scalars(best) \subseteq Component
              /\ \E chosen \in Selections(comps) :
                    LET s == StartSession(chosen, UniformBudget, ActiveCap, MaxPasses)
                    IN  /\ session' = s /\ sessionSrc' = best.src
                        /\ sessions' = sessions + 1
                        /\ IF s.stop = Running
                           THEN /\ pc' = "propose_uniform_candidate" /\ uniStop' = None
                                /\ UNCHANGED completed
                           ELSE /\ pc' = "decide_refinement"
                                /\ uniStop' = IF comps # {} /\ chosen = <<>>
                                              THEN "no_feasible_components" ELSE s.stop
                                /\ completed' = completed \cup {best.src}
           \* UniformOptimizationError: of a scalar outside its range, or of a number
           \* that WebGL cannot hold.
           \/ /\ session' = None /\ sessionSrc' = None
              /\ uniStop' = "no_feasible_components"
              /\ completed' = completed \cup {best.src}
              /\ pc' = "decide_refinement"
              /\ UNCHANGED sessions

DecideUniform ==
    /\ pc = "decide_uniform_optimization"
    /\ \/ DecideTargetReached \/ DecideSpent \/ DecideConverged
       \/ DecideContinue \/ DecideSearchedBefore \/ DecideStart
    /\ SearchFrame /\ UNCHANGED <<candVars, blocked, lastError>>

ProposeUniform ==
    /\ pc = "propose_uniform_candidate"
    /\ session' = Normalized(session)
    /\ IF session'.stop = Running
       THEN /\ move' = MoveOf(session') /\ pc' = "apply_uniform_candidate"
            /\ UNCHANGED <<uniStop, completed>>
       ELSE /\ move' = None /\ pc' = "decide_refinement"
            /\ uniStop' = session'.stop
            /\ completed' = completed \cup {best.src}
    /\ SearchFrame
    /\ UNCHANGED <<candVars, blocked, lastError, sessionSrc, sessions, refStop>>

\* apply_uniform_patch refuses a patch whose expected value is stale; the node
\* refuses uniforms that were already scored for this source.
ApplyUniform ==
    /\ pc = "apply_uniform_candidate"
    /\ LET next      == [src |-> best.src, vals |-> [best.vals EXCEPT ![move.field] = move.replacement]]
           stale     == best.vals[move.field] # move.expected
           duplicate == \E c \in Scored : c.src = next.src /\ c.vals = next.vals
       IN  IF stale \/ duplicate
           THEN /\ cand' = None /\ pc' = "record_uniform_outcome"
                /\ lastError' = IF stale THEN "expected_value_mismatch"
                                ELSE "duplicate_uniform_candidate"
           ELSE /\ cand' = next /\ pc' = "compile_candidate"
                /\ UNCHANGED lastError
    /\ role' = "uniform_optimize" /\ pending' = None
    /\ SearchFrame /\ UNCHANGED <<uniVars, uniStop, refStop, blocked>>

\* _hard_failure_stop_reason of the failure that was recorded last.
HardReason == CASE lastError = "renderer_unavailable"     -> "renderer_unavailable"
                [] lastError = "compile_budget_exhausted" -> "global_compile_budget_exhausted"
                [] OTHER                                  -> "global_draw_budget_exhausted"

RecordHardFailure ==
    /\ pending = None /\ (lastError \in HardCodes \/ blocked)
    /\ session' = [session EXCEPT !.stop = HardReason]
    /\ uniStop' = HardReason
    /\ completed' = completed \cup {best.src}
    /\ blocked' = TRUE

RecordSearchStep ==
    /\ \/ /\ pending = None /\ lastError \notin HardCodes /\ ~blocked
          /\ session' = RecordFailure(session, move)
       \/ /\ pending # None
          /\ session' = RecordOutcome(session, move, selected, material)
    /\ IF session'.stop # Running
       THEN uniStop' = session'.stop /\ completed' = completed \cup {best.src}
       ELSE UNCHANGED <<uniStop, completed>>
    /\ UNCHANGED blocked

RecordUniform ==
    /\ pc = "record_uniform_outcome"
    /\ RecordHardFailure \/ RecordSearchStep
    /\ move' = None
    /\ pc' = "decide_uniform_optimization"
    /\ SearchFrame /\ UNCHANGED <<candVars, lastError, sessionSrc, sessions, refStop>>
-----------------------------------------------------------------------------
(* Refinement control and the end of the attempt.                          *)

\* Mutant of RefineStop: the hard block is not looked at.
RefineStopUnblocked ==
    IF best = None THEN "no_valid_candidate"
    ELSE IF TargetReached(best) THEN "target_reached"
    ELSE IF dup THEN "duplicate_patch"
    ELSE IF refCount >= RefineBudget THEN "refine_budget_exhausted"
    ELSE IF nonImproving > Patience THEN "patience_exhausted"
    ELSE IF llm >= LlmBudget \/ draws >= DrawBudget THEN "hard_resource_block"
    ELSE None

\* decide_refinement's reasons, in the code's order.
RefineStop ==
    IF best = None THEN "no_valid_candidate"
    ELSE IF TargetReached(best) THEN "target_reached"
    ELSE IF blocked THEN "hard_resource_block"
    ELSE IF dup THEN "duplicate_patch"
    ELSE IF refCount >= RefineBudget THEN "refine_budget_exhausted"
    ELSE IF nonImproving > Patience THEN "patience_exhausted"
    ELSE IF llm >= LlmBudget \/ draws >= DrawBudget THEN "hard_resource_block"
    ELSE None

DecideRefinement ==
    /\ pc = "decide_refinement"
    /\ refStop' = RefineStop
    /\ pc' = IF refStop' = None THEN "author_refinement" ELSE "release_resources"
    /\ UNCHANGED <<candVars, bestVars, counters, cache, live, refVars, nonImproving, blocked,
                   dup, uniVars, uniStop, lastError, failure, result>>

AttemptFrame == UNCHANGED <<candVars, bestVars, counters, refVars, nonImproving, blocked, dup,
                            uniVars, uniStop, refStop, lastError, failure>>

ReleaseResources ==
    /\ pc = "release_resources"
    /\ Release
    /\ pc' = "finalize_attempt"
    /\ AttemptFrame /\ UNCHANGED result

FinalizeAttempt ==
    /\ pc = "finalize_attempt"
    /\ result' = [status  |-> IF best # None THEN "ok" ELSE "inconclusive",
                  failure |-> IF best = None /\ failure = None THEN "no_valid_candidate" ELSE failure,
                  stop    |-> IF refStop # None THEN refStop
                              ELSE IF best = None THEN "no_valid_candidate"
                              ELSE "refine_budget_exhausted"]
    /\ Release
    /\ pc' = "done"
    /\ AttemptFrame

\* The nodes that draw or compile, and so may be waiting for a worker reset.
Rendering == {"prepare_program", "render_program", "author_refinement"}

\* The parent's attempt timeout (or an exception) ends a node before it returns its
\* update of the state; the finally clause of run_layerplan_glsl_direct_graph is
\* next.  A reset that the node waited for may have closed handles.
Cancel ==
    /\ pc \notin Terminal \cup {"unwinding"}
    /\ pc' = "unwinding"
    /\ \/ UNCHANGED live
       \/ pc \in Rendering /\ live' \in SUBSET live
    /\ AttemptFrame /\ UNCHANGED <<cache, result>>

\* The release of the finally clause.
Unwind ==
    /\ pc = "unwinding"
    /\ pc' = "cancelled"
    /\ Release
    /\ AttemptFrame /\ UNCHANGED result

\* The releases that may wait for a close: of release_resources, of the finally clause,
\* and of a draw whose worker failed.  When prepare gives up it has closed every
\* handle itself, so that its node's release waits for nothing.
Releasing ==
    \/ pc \in {"release_resources", "unwinding"}
    \/ pc = "render_program" /\ draws < DrawBudget
    \/ pc = "author_refinement" /\ MasksAllowed > 0

\* The cancellation arrives in a release.  What is left of the finally clause has
\* an empty cache and nothing to wait for.
CancelRelease ==
    /\ Releasing
    /\ pc' = "abandoned"
    /\ Cut
    /\ AttemptFrame /\ UNCHANGED result

Step ==
    \/ AuthorLayerPlan \/ AuthorInitial \/ AuthorRefinement \/ ApplyRefinement
    \/ CompileCandidate \/ ValidateCandidate \/ PrepareHit \/ PrepareDenied \/ PrepareMiss
    \/ RenderProgram \/ VerifyReceipt \/ AttestCandidate
    \/ EvaluateCandidate \/ SelectCandidate
    \/ DecideUniform \/ ProposeUniform \/ ApplyUniform \/ RecordUniform
    \/ DecideRefinement \/ ReleaseResources \/ FinalizeAttempt

Abort == Cancel \/ Unwind \/ CancelRelease

Next == Step \/ Abort

\* Every await in a node is bounded by a timeout of runtime_timeouts.yaml.
Spec == Init /\ [][Next]_vars /\ WF_vars(Step \/ Unwind)
-----------------------------------------------------------------------------
Pcs == {"author_layer_plan", "author_initial", "compile_candidate", "validate_candidate",
        "prepare_program", "render_program", "verify_receipt", "attest_candidate",
        "evaluate_candidate", "select_candidate", "decide_uniform_optimization",
        "propose_uniform_candidate", "apply_uniform_candidate", "record_uniform_outcome",
        "decide_refinement", "author_refinement", "apply_refinement", "release_resources",
        "finalize_attempt", "unwinding"} \cup Terminal
Roles == {"initial", "refine", "uniform_optimize"}

\* Every counter stays within its budget of LayerPlanGlslDirectConfig.
TypeOK ==
    /\ pc \in Pcs /\ role \in Roles
    /\ llm \in 0 .. LlmBudget
    /\ compiles \in 0 .. CompileBudget
    /\ draws \in 0 .. DrawBudget
    /\ refCount \in 0 .. RefineBudget
    /\ maskDraws \in Nat /\ uniDraws \in Nat /\ nonImproving \in Nat
    /\ accepted \in Nat /\ sessions \in Nat
    /\ cache \subseteq Sources /\ live \subseteq Sources /\ completed \subseteq Sources
    /\ blocked \in BOOLEAN /\ dup \in BOOLEAN /\ selected \in BOOLEAN /\ material \in BOOLEAN

\* What direct_quality_presets.yaml asks of a preset.
CompilesCovered == CompileBudget >= 1 + RefineBudget

\* Mask draws and uniform draws keep to their shares, so that whatever the draw
\* budget (unless it is zero) no candidate that was authored, patched and prepared
\* is refused at render_program for lack of draws: the three consumers of one
\* global counter cannot starve another half way through a candidate.
DrawsReserved ==
    /\ uniDraws <= UniformBudget
    /\ maskDraws <= MaskBudget
    /\ DrawBudget > 0 /\ pc = "render_program" => draws < DrawBudget

\* A uniform candidate always finds its program in the cache, whatever was
\* evicted before, so only the initial shader and the refinements compile and a
\* covering compile budget is never what refuses a candidate.
CompilesReserved ==
    pc = "prepare_program" =>
        /\ role = "uniform_optimize" => cand.src \in cache
        /\ CompilesCovered /\ cand.src \notin cache => compiles < CompileBudget

\* No candidate scored during the attempt dominates the one it returns, although
\* each was compared only with the incumbent of its own time.
BestUndominated == \A c \in Scored : ~Dominates(c, best)

\* While a search runs, the lattice ticks of the session spell exactly the
\* uniforms of current_best, which select_candidate changes on its own: otherwise
\* apply_uniform_patch would refuse every later patch as stale.
SessionTracksIncumbent ==
    pc \in {"propose_uniform_candidate", "apply_uniform_candidate"} =>
        /\ sessionSrc = best.src
        /\ \A i \in DOMAIN session.comps :
              best.vals[session.comps[i].field] = Lattice(session.comps[i], session.ticks[i])

\* Cheap numeric search comes before the model: a refinement is only decided or
\* authored for an incumbent whose source was searched, or could not be.
SearchBeforeRefine ==
    pc \in {"decide_refinement", "author_refinement", "apply_refinement"} => best.src \in completed

\* Every source gets at most one optimizer session in an attempt, also when a
\* refinement leaves it and a later one comes back to it.
OneSessionPerSource ==
    sessions <= Cardinality(completed \cup (IF session = None THEN {} ELSE {sessionSrc}))

\* Once a candidate was scored, no later failure of a refinement, a search or the
\* renderer can turn the attempt into a failed one, here or where its evidence is
\* written: the writer's own replay of the candidates ends at current_best.
ScoredCandidateIsKept ==
    result # None /\ candidates # <<>> =>
        result.status = "ok" /\ result.failure = None /\ best \in Scored /\ ReplayedBest = best

\* The reported reason is the true one: reaching both targets wins over every
\* budget, block or patience reason, finalize_attempt's default covers up none of
\* another kind, and the patience is spent by refinements only.
StopReasonTruthful ==
    result # None =>
        /\ best # None => (TargetReached(best) <=> result.stop = "target_reached")
        /\ result.stop = "refine_budget_exhausted" => refCount >= RefineBudget
        /\ result.stop = "no_valid_candidate" <=> candidates = <<>>
        /\ result.stop = "patience_exhausted" => nonImproving <= refCount /\ refCount > Patience

\* An open handle is one that the attempt still names and will close, through worker
\* resets, failing nodes and a cancellation at any await but one: only a release
\* that is itself cancelled leaves handles behind.
NoHandleLeak ==
    /\ pc # "abandoned" => live \subseteq cache
    /\ pc \in {"done", "cancelled"} => live = {}

\* After a hard resource block the attempt does no further work of any kind.
NoWorkAfterBlock == [][blocked => blocked' /\ UNCHANGED counters]_vars

\* The attempt ends: no cycle of propose, reject, record or of failing refinements
\* runs for ever.
Terminates == <>(pc \in Terminal)

\* candidate_nodes.py:240-242, 327-328 and workflow_author_nodes.py:125-127: a worker
\* reset invalidates every prepared handle, and the cache is cleared so that a
\* same-source candidate prepares a fresh program: no cached program is dead.
StaleProgramsEvicted == cache \subseteq live
=============================================================================
