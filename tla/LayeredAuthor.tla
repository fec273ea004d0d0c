----------------------------- MODULE LayeredAuthor -----------------------------
(***************************************************************************)
(* The authors of one attempt: the structured call with its one repair     *)
(* (structured_author.py), the layer plan, the initial layered spec and    *)
(* the layer patches that are made of its answers (layer_plan_author.py,   *)
(* authors.py), and the layered specs they lead to (layered_spec).         *)
(*                                                                         *)
(* A layer is [id, z, body, uniforms, val]: z stands for role and z_index, *)
(* body is the length of the GLSL text, 0 for a text the parser refuses,   *)
(* val the values of the uniforms.  Equal contents have equal hashes and   *)
(* only these, so the hash of a layer is the layer, and the hash of a spec *)
(* its index in specs, the contents hashed so far; 0 is a hash of nothing. *)
(* The compiled program binds the same content, so it shares the index.    *)
(* What the model writes is external: any text may come back from a call.  *)
(***************************************************************************)
EXTENDS Integers, Sequences, FiniteSets, Functions, FiniteSetsExt, Folds

CONSTANTS
    Plans, Drafts,         \* texts for a plan and for an initial spec
    Replacements, Targets, \* layers and layer ids a patch may name
    Credits,               \* [named, counted]: an answer may lack its identity or token count
    Vals,                  \* values a uniform search may set
    Budget,                \* plan_llm_budget and direct_author_llm_budget
    RefineBudget,
    MaxTunes,              \* bound: uniform moves that are kept
    MaxLayers, MaxTunables, MaxSource, MaxSide, RequiredSide,
    DetectDuplicates,
    Garbled, Unhashable,   \* texts that are no JSON, or that make a parser raise
    None

ASSUME AuthorAssumption ==
    /\ Budget \in [{"plan", "direct"} -> Nat]
    /\ {RefineBudget, MaxTunes, MaxLayers, MaxTunables, MaxSource, MaxSide, RequiredSide} \subseteq Nat
    /\ DetectDuplicates \in BOOLEAN
    /\ None \notin {"llm_budget_exhausted", "llm_transient_failure", "llm_invocation_failed",
                    "author_output_invalid"}

\* A LayerProgram.
IsLayer(layer) ==
    layer = [id |-> layer.id, z |-> layer.z, body |-> layer.body, uniforms |-> layer.uniforms,
             val |-> layer.val]

\* Texts are JSON documents of the shape their parser looks for.
ASSUME TextAssumption ==
    /\ \A p \in Plans : DOMAIN p = 1..Len(p)
    /\ \A d \in Drafts : /\ d = [side |-> d.side, layers |-> d.layers]
                         /\ DOMAIN d.layers = 1..Len(d.layers)
                         /\ \A i \in DOMAIN d.layers : IsLayer(d.layers[i])
    /\ \A r \in Replacements : IsLayer(r)
    /\ None \notin {Garbled, Unhashable} /\ None \notin Plans /\ None \notin Drafts

VARIABLES
    role, pc,               \* whose turn it is, and at which node
    allowed, calls,         \* of the structured call in progress
    response, repaired,     \* its answers: [n, named, counted, text] or None
    value, error, known,    \* its value, error code and token total
    said,                   \* every text the model returned, None for a failed call
    spent, tokens, outcome, \* ledgers, and how the last author ended
    plan, specs,            \* the layer plan, and every spec hashed so far
    best, candidate,        \* current_best and candidate_layered_spec, 0 for None
    patch, signature,       \* refine_patch and refine_author_identity
    attempted,              \* attempted_patch_fingerprints
    refinements, blocked, tunes

turn    == <<role, pc>>
local   == <<allowed, calls, response, repaired, value, error, known>>
ledgers == <<spent, tokens, outcome>>
work    == <<plan, specs, best, candidate, patch, signature, attempted>>
loop    == <<refinements, blocked, tunes>>
vars == <<turn, local, said, ledgers, work, loop>>

Ledger == IF role = "plan" THEN "plan" ELSE "direct"

Unknown == -1               \* a token total of None

Init ==
    /\ role = "plan" /\ pc = "author"
    /\ allowed = 0 /\ calls = 0 /\ response = None /\ repaired = None
    /\ value = None /\ error = None /\ known = Unknown
    /\ said = <<>>
    /\ spent = [l \in DOMAIN Budget |-> 0] /\ tokens = [l \in DOMAIN Budget |-> 0]
    /\ outcome = "none"
    /\ plan = None /\ specs = <<>> /\ best = 0 /\ candidate = 0
    /\ patch = None /\ signature = None /\ attempted = {}
    /\ refinements = 0 /\ blocked = FALSE /\ tunes = 0
-----------------------------------------------------------------------------
(* Domain rules: parsing.py of program_spec and of layered_spec. *)

PlanOk(p) == /\ Len(p) \in 1..MaxLayers
             /\ \A i, j \in DOMAIN p : p[i].id = p[j].id => i = j

InPlace(layer, slot) == layer.id = slot.id /\ layer.z = slot.z

\* _validate_global_uniforms
Disjoint(layers) ==
    \A i, j \in DOMAIN layers : i # j => layers[i].uniforms \cap layers[j].uniforms = {}

Total(counts) == FoldFunction(LAMBDA n, sum : n + sum, 0, counts)

\* _validate_resource_limits: the tunables, of which every uniform is one here, the
\* longer side, and the emitted source: the bodies in a row, without uniform values.
Fits(side, layers) ==
    /\ Total([i \in DOMAIN layers |-> Cardinality(layers[i].uniforms)]) <= MaxTunables
    /\ side <= MaxSide
    /\ Total([i \in DOMAIN layers |-> layers[i].body]) <= MaxSource

\* build_layered_shader_spec
DraftOk(d) ==
    /\ Len(d.layers) = Len(plan.layers)
    /\ \A i \in DOMAIN d.layers : d.layers[i].body > 0 /\ InPlace(d.layers[i], plan.layers[i])
    /\ Disjoint(d.layers) /\ Fits(d.side, d.layers)

\* The parser the author hands to the structured call.  A patch is only read:
\* whether it applies is found out later.
Parses(text) ==
    /\ text # Garbled
    /\ CASE role = "plan" -> PlanOk(text)
         [] role = "initial" -> DraftOk(text)
         [] role = "refine" -> text.replacement.body > 0

\* Texts of the model.  It is shown current_best, and may copy the wrong hash.
Texts ==
    {Garbled, Unhashable} \cup
    CASE role = "plan" -> Plans
      [] role = "initial" -> Drafts
      [] role = "refine" -> [base : {1, best}, target : Targets,
                             expected : Range(specs[best].layers), replacement : Replacements]

\* gateway.ainvoke: the call fails, or answers with or without an effective
\* identity and a token count.
CallFails ==
    /\ said' = Append(said, None)
    /\ error' \in {"llm_transient_failure", "llm_invocation_failed"}

Answers == {[n |-> Len(said) + 1, named |-> c.named, counted |-> c.counted, text |-> text] :
              c \in Credits, text \in Texts}

CallAnswers(answer) ==
    /\ said' = Append(said, answer.text)
    /\ error' = None

Tokens(answer) == IF answer.counted THEN 1 ELSE Unknown
-----------------------------------------------------------------------------
(* structured_author.py, one action per node. *)

\* Mutant of Allowed: a repair is always allowed.
AllowedAlways == 2

\* min(MAX_STRUCTURED_ATTEMPTS, max(0, remaining_calls))
Allowed == Min({2, Max({0, Budget[Ledger] - spent[Ledger]})})

InvokeOriginal ==
    /\ pc = "author"
    /\ allowed' = Allowed
    /\ repaired' = None /\ value' = None
    /\ IF allowed' = 0
       THEN /\ calls' = 0 /\ response' = None /\ error' = "llm_budget_exhausted"
            /\ known' = Unknown /\ pc' = "finalize" /\ UNCHANGED said
       ELSE /\ calls' = 1
            /\ \/ CallFails /\ response' = None /\ known' = Unknown /\ pc' = "finalize"
               \/ \E answer \in Answers :
                    /\ CallAnswers(answer)
                    /\ response' = answer /\ known' = Tokens(answer) /\ pc' = "parse"
    /\ UNCHANGED <<role, ledgers, work, loop>>

\* A parser catches ValueError only: a role, a type or a path that is no string
\* raises TypeError out of the graph, and the attempt is over.
ParserRaises(answer) ==
    /\ answer.text = Unhashable
    /\ pc' = "over" /\ outcome' = "raised"
    /\ UNCHANGED <<role, local, said, spent, tokens, work, loop>>

ParseOriginal ==
    /\ pc = "parse"
    /\ \/ ParserRaises(response)
       \/ /\ response.text # Unhashable
          /\ IF Parses(response.text)
             THEN value' = response.text /\ error' = None /\ pc' = "finalize"
             ELSE /\ error' = "author_output_invalid" /\ UNCHANGED value
                  /\ pc' = IF allowed >= 2 THEN "repair" ELSE "finalize"
          /\ UNCHANGED <<role, allowed, calls, response, repaired, known, said, ledgers, work, loop>>

\* Mutant of RepairTokens: the repair's total replaces that of the first call.
RepairTokensLast(answer) == Tokens(answer)

\* _combine_token_totals
RepairTokens(answer) ==
    IF Unknown \in {known, Tokens(answer)} THEN Unknown ELSE known + Tokens(answer)

InvokeRepair ==
    /\ pc = "repair"
    /\ calls' = calls + 1
    /\ \/ CallFails /\ pc' = "finalize" /\ UNCHANGED <<repaired, known>>
       \/ \E answer \in Answers :
            /\ CallAnswers(answer)
            /\ repaired' = answer /\ known' = RepairTokens(answer) /\ pc' = "parse_repair"
    /\ UNCHANGED <<role, allowed, response, value, ledgers, work, loop>>

ParseRepair ==
    /\ pc = "parse_repair"
    /\ \/ ParserRaises(repaired)
       \/ /\ repaired.text # Unhashable
          /\ IF Parses(repaired.text)
             THEN value' = repaired.text /\ error' = None
             ELSE error' = "author_output_invalid" /\ UNCHANGED value
          /\ pc' = "finalize"
          /\ UNCHANGED <<role, allowed, calls, response, repaired, known, said, ledgers, work, loop>>

\* Mutant of FinalResponse: the first answer keeps the credit.
FinalResponseFirst == response

\* finalize_structured_author: the last answer that came back names the author.
FinalResponse == IF repaired # None THEN repaired ELSE response

Identity == IF FinalResponse # None /\ FinalResponse.named THEN FinalResponse.n ELSE None

\* _repair_context_sha256 binds the first answer and is there iff the repair parsed.
RepairContext == IF value # None /\ repaired # None THEN response.n ELSE 0
-----------------------------------------------------------------------------
(* The author nodes of workflow_author_nodes.py, from the result on. *)

\* The ledger takes the calls and, while all of them are known, the tokens.
Book ==
    /\ spent' = [spent EXCEPT ![Ledger] = @ + calls]
    /\ tokens' = [tokens EXCEPT ![Ledger] = IF calls = 0 THEN @ ELSE IF Unknown \in {@, known}
                                            THEN Unknown ELSE @ + known]

\* A call that ends without an error code has a value, but a value without an
\* identity is no value.
Succeeds == error = None /\ Identity # None

Code == IF Succeeds THEN "value"
        ELSE IF error = None THEN "author_identity_unavailable" ELSE error

\* The structured call is over, and its state is gone.
Finalized ==
    /\ pc = "finalize"
    /\ Book /\ outcome' = Code
    /\ allowed' = 0 /\ calls' = 0 /\ response' = None /\ repaired' = None
    /\ value' = None /\ error' = None /\ known' = Unknown

AuthorLayerPlan ==
    /\ role = "plan" /\ Finalized
    /\ IF Succeeds
       THEN /\ plan' = [layers |-> value, call |-> Identity, repair |-> RepairContext]
            /\ role' = "initial" /\ pc' = "author"
       ELSE pc' = "over" /\ UNCHANGED <<role, plan>>
    /\ UNCHANGED <<said, specs, best, candidate, patch, signature, attempted, loop>>

\* Hash a content.
Mint(content) ==
    IF content \in Range(specs)
    THEN candidate' = (CHOOSE i \in DOMAIN specs : specs[i] = content) /\ UNCHANGED specs
    ELSE specs' = Append(specs, content) /\ candidate' = Len(specs) + 1

AuthorInitial ==
    /\ role = "initial" /\ Finalized
    /\ IF Succeeds
       THEN /\ Mint([side |-> value.side, layers |-> value.layers, derived |-> 0,
                     author |-> [role |-> "initial", call |-> Identity, repair |-> RepairContext,
                                 parent |-> 0]])
            /\ pc' = "judge"
       ELSE pc' = "over" /\ UNCHANGED <<specs, candidate>>
    /\ UNCHANGED <<role, said, plan, best, patch, signature, attempted, loop>>

\* The identity names the program that current_best runs as the parent.
AuthorRefinement ==
    /\ role = "refine" /\ Finalized
    /\ refinements' = refinements + 1
    /\ candidate' = 0
    /\ IF Succeeds
       THEN /\ patch' = value
            /\ signature' = [role |-> "refine", call |-> Identity, repair |-> RepairContext,
                             parent |-> best]
            /\ pc' = "apply" /\ blocked' = FALSE
       ELSE /\ patch' = None /\ signature' = None
            /\ blocked' = (Code = "llm_budget_exhausted")
            /\ pc' = "decide"
    /\ UNCHANGED <<role, said, plan, specs, best, attempted, tunes>>

Fingerprint == [base |-> patch.base, target |-> patch.target, replacement |-> patch.replacement]

TargetIndex(layers) == {i \in DOMAIN layers : layers[i].id = patch.target}

NoOp == \E i \in TargetIndex(specs[best].layers) : specs[best].layers[i] = patch.replacement

\* Mutant of Refused: earlier patches are not remembered.
RefusedNoOp == NoOp

Refused == (DetectDuplicates /\ Fingerprint \in attempted) \/ NoOp

\* Mutant of Guards: the replacement may come from elsewhere.
GuardsLoose(base) ==
    /\ patch.base = best
    /\ TargetIndex(base.layers) # {}
    /\ \A i \in TargetIndex(base.layers) : patch.expected = base.layers[i]

\* The checks of apply_layer_patch on what is replaced.
Guards(base) ==
    /\ patch.base = best
    /\ TargetIndex(base.layers) # {}
    /\ \A i \in TargetIndex(base.layers) :
         patch.expected = base.layers[i] /\ InPlace(patch.replacement, base.layers[i])

\* Mutant of Whole: uniforms are compared within the layer only.
WholeUnchecked(side, layers) == Fits(side, layers)

\* The checks of apply_layer_patch on the result.
Whole(side, layers) == Disjoint(layers) /\ Fits(side, layers)

ApplyRefinement ==
    /\ pc = "apply"
    /\ attempted' = attempted \cup {Fingerprint}
    /\ LET base == specs[best]
           layers == [i \in DOMAIN base.layers |->
                        IF i \in TargetIndex(base.layers) THEN patch.replacement ELSE base.layers[i]]
       IN  IF ~Refused /\ Guards(base) /\ Whole(base.side, layers)
           THEN /\ Mint([side |-> base.side, layers |-> layers, derived |-> 0,
                         author |-> signature])
                /\ pc' = "judge"
           ELSE candidate' = 0 /\ pc' = "decide" /\ UNCHANGED specs
    /\ patch' = None /\ signature' = None      \* not read again
    /\ UNCHANGED <<role, local, said, ledgers, plan, best, loop>>
-----------------------------------------------------------------------------
(* The rest of the attempt, as far as the authors depend on it. *)

\* evaluate_candidate compares the picture with the reference, and raises when
\* their sizes differ; before it, a candidate may fail for reasons of its own.
Judge ==
    /\ pc = "judge"
    /\ \/ /\ specs[candidate].side = RequiredSide
          /\ best' = candidate /\ pc' = "decide" /\ UNCHANGED outcome
       \/ /\ specs[candidate].side # RequiredSide
          /\ outcome' = "raised" /\ pc' = "over" /\ UNCHANGED best
       \/ /\ pc' = (IF role = "initial" THEN "over" ELSE "decide") /\ UNCHANGED <<best, outcome>>
    /\ candidate' = 0
    /\ UNCHANGED <<role, local, said, spent, tokens, plan, specs, patch, signature, attempted, loop>>

\* A uniform move that is selected: apply_uniform_patch keeps the author and
\* binds the parent as provenance.
Tune ==
    /\ pc = "decide" /\ best # 0 /\ tunes < MaxTunes
    /\ tunes' = tunes + 1
    /\ LET base == specs[best]
       IN  \E i \in DOMAIN base.layers, v \in Vals :
             /\ base.layers[i].uniforms # {} /\ base.layers[i].val # v
             /\ Mint([side |-> base.side, layers |-> [base.layers EXCEPT ![i] = [@ EXCEPT !.val = v]],
                      derived |-> best, author |-> base.author])
    /\ best' = candidate'
    /\ UNCHANGED <<turn, local, said, ledgers, plan, patch, signature, attempted, refinements,
                   blocked>>

\* decide_refinement
Refine ==
    /\ pc = "decide"
    /\ IF best # 0 /\ refinements < RefineBudget /\ ~blocked
       THEN role' = "refine" /\ pc' = "author"
       ELSE pc' = "over" /\ UNCHANGED role
    /\ UNCHANGED <<local, said, ledgers, work, loop>>

Next == \/ InvokeOriginal \/ ParseOriginal \/ InvokeRepair \/ ParseRepair
        \/ AuthorLayerPlan \/ AuthorInitial \/ AuthorRefinement \/ ApplyRefinement
        \/ Judge \/ Tune \/ Refine

Spec == Init /\ [][Next]_vars
-----------------------------------------------------------------------------
Contract == INSTANCE AuthorContract

\* The authors keep their contract (structured_author.py's budget of two calls
\* and authors.py's one value or one code), which the attempt relies on when it
\* counts its calls.
KeepsContract == Contract!ContractSpec

\* Whatever ids and hashes the model echoes, a candidate differs from the spec
\* it descends from in one layer, which keeps its place; and a uniform move
\* changes nothing but values (apply_layer_patch, apply_uniform_patch).
OneLayerAtATime ==
    \A s \in {t \in Range(specs) : t.derived # 0 \/ t.author.parent # 0} :
      LET p == specs[IF s.derived # 0 THEN s.derived ELSE s.author.parent]
      IN  \E i \in DOMAIN p.layers :
            /\ s.side = p.side /\ DOMAIN s.layers = DOMAIN p.layers
            /\ s.layers[i] # p.layers[i] /\ InPlace(s.layers[i], p.layers[i])
            /\ \A j \in DOMAIN p.layers \ {i} : s.layers[j] = p.layers[j]
            /\ s.derived # 0 => /\ s.author = p.author
                                /\ s.layers[i] = [p.layers[i] EXCEPT !.val = s.layers[i].val]

\* No patch, however it was accepted, lets two layers share a uniform, outgrows
\* the limits or leaves the plan (the compiler would refuse such a spec, or
\* bind one value to two layers).
SpecsStayWhole ==
    \A s \in Range(specs) :
      /\ Disjoint(s.layers) /\ Fits(s.side, s.layers)
      /\ \A i \in DOMAIN s.layers : InPlace(s.layers[i], plan.layers[i])

\* The identity in a spec names the call that wrote its new layers, and it
\* carries a repair context iff that call repaired an earlier answer which the
\* parser had refused (build_author_identity, _repair_context_sha256).
SignedByItsAuthor ==
    \A s \in {t \in Range(specs) : t.derived = 0} :
      /\ LET text == said[s.author.call]
         IN  IF s.author.role = "initial" THEN text = [side |-> s.side, layers |-> s.layers]
             ELSE text \notin {None, Garbled, Unhashable} /\ text.replacement \in Range(s.layers)
      /\ s.author.repair # 0 => /\ s.author.repair = s.author.call - 1
                                /\ said[s.author.repair] # said[s.author.call]

\* A known token total counts every answer that was booked (accumulate_token_usage).
TokensCountAnswers ==
    pc = "author" =>
      LET answered == Cardinality({n \in DOMAIN said : said[n] # None})
      IN  Unknown \notin Range(tokens) => tokens["plan"] + tokens["direct"] = answered

\* No candidate is drawn twice: no two refinements of one parent are the same,
\* and none is its parent again (attempted_patch_fingerprints).
PatchesAreNew ==
    DetectDuplicates =>
      \A i, j \in DOMAIN specs :
        specs[i].derived = 0 /\ specs[j].derived = 0 /\ specs[i].author.parent # 0 =>
          /\ specs[i].layers # specs[specs[i].author.parent].layers
          /\ specs[i].author.parent = specs[j].author.parent /\ specs[i].layers = specs[j].layers
               => i = j
=============================================================================
