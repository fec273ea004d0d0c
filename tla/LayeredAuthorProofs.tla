-------------------------- MODULE LayeredAuthorProofs --------------------------
(* The authors, whatever the model answers, however large the budgets and     *)
(* however many refinements are asked for.                                   *)
(*                                                                           *)
(* First, they implement AuthorContract: a refinement proof, where spent and  *)
(* outcome mean the same in both modules.  Then the specs: they are whole,    *)
(* descend from each other one layer at a time, carry the identity of the     *)
(* call that wrote them, and no patch is made twice.  Last, the token totals. *)
EXTENDS LayeredAuthor, FiniteSetTheorems, SequenceTheorems, TLAPS

Nodes   == {"author", "parse", "repair", "parse_repair", "finalize", "apply", "judge", "decide",
            "over"}
Calling == {"parse", "repair", "parse_repair", "finalize"}    \* inside the structured call

(* Whose turn it is.                                                         *)
TurnType == role \in {"plan", "initial", "refine"} /\ pc \in Nodes

(* The ledgers never run over.                                               *)
Ledgered == /\ spent \in [DOMAIN Budget -> Nat]
            /\ \A l \in DOMAIN Budget : spent[l] <= Budget[l]

Left == Budget[Ledger] - spent[Ledger]

(* The structured call in progress: one call, or two when two are allowed,    *)
(* and none exactly when nothing was left.                                   *)
CallBounded ==
    pc \in Calling =>
        /\ allowed \in 0..2 /\ allowed <= Left
        /\ calls \in 0..2 /\ calls <= allowed
        /\ pc # "finalize" => calls >= 1
        /\ pc \in {"parse", "repair"} => calls = 1
        /\ pc = "repair" => allowed = 2
        /\ pc = "finalize" /\ calls = 0 => Left = 0 /\ error = "llm_budget_exhausted"
        /\ pc = "finalize" /\ calls > 0 => error \in Contract!Failures \cup {None}

(* Whatever raises ends the attempt.                                         *)
RaisedIsOver == outcome = "raised" => pc = "over"

IndInv == TurnType /\ Ledgered /\ CallBounded /\ RaisedIsOver
-----------------------------------------------------------------------------
(* Every call that is under way stays within what its ledger has left.        *)

\* The larger of two integers.
LEMMA MaxOfTwo ==
  ASSUME NEW a \in Int, NEW b \in Int
  PROVE  Max({a, b}) = IF a >= b THEN a ELSE b
<1>1. \E x \in {a, b} : \A y \in {a, b} : x >= y OBVIOUS
<1>2. Max({a, b}) \in {a, b} /\ \A y \in {a, b} : Max({a, b}) >= y BY <1>1 DEF Max
<1> QED BY <1>2

\* The smaller of two integers.
LEMMA MinOfTwo ==
  ASSUME NEW a \in Int, NEW b \in Int
  PROVE  Min({a, b}) = IF a <= b THEN a ELSE b
<1>1. \E x \in {a, b} : \A y \in {a, b} : x =< y OBVIOUS
<1>2. Min({a, b}) \in {a, b} /\ \A y \in {a, b} : Min({a, b}) =< y BY <1>1 DEF Min
<1> QED BY <1>2

\* What the ledger counts, as a sum.
LEMMA LedgerIs ==
  ASSUME TurnType, Ledgered
  PROVE  Ledger \in DOMAIN Budget /\ Ledger \in Contract!Ledgers /\ Left \in Nat
         /\ Budget[Ledger] \in Nat /\ spent[Ledger] \in Nat
<1>1. DOMAIN Budget = {"plan", "direct"} BY AuthorAssumption
<1>2. Ledger \in DOMAIN Budget BY <1>1 DEF Ledger
<1> QED BY <1>1, <1>2, AuthorAssumption DEF Ledgered, Left, Contract!Ledgers

\* What is allowed for the next call.
LEMMA AllowedIs ==
  ASSUME TurnType, Ledgered
  PROVE  Allowed = IF Left < 2 THEN Left ELSE 2
<1>1. Left \in Nat BY LedgerIs
<1>2. Max({0, Left}) = Left BY <1>1, MaxOfTwo
<1>3. Min({2, Left}) = IF Left < 2 THEN Left ELSE 2 BY <1>1, MinOfTwo
<1> QED BY <1>2, <1>3 DEF Allowed, Left

(* What a call books fits, and is 1 or 2 unless nothing was left.             *)
LEMMA Booked ==
  ASSUME IndInv, Finalized
  PROVE  /\ Ledgered'
         /\ spent' = [spent EXCEPT ![Ledger] = @ + calls]
         /\ \/ calls = 0 /\ Left = 0 /\ outcome' = "llm_budget_exhausted"
            \/ /\ calls \in {1, 2} /\ calls <= Left
               /\ outcome' \in Contract!Values \cup Contract!Failures
<1> USE DEF IndInv
<1>1. Ledger \in DOMAIN Budget /\ Left \in Nat /\ spent[Ledger] \in Nat /\ Budget[Ledger] \in Nat
  BY LedgerIs
<1>2. calls \in 0..2 /\ calls <= Left
  BY <1>1 DEF Finalized, CallBounded, Calling
<1>3. spent' = [spent EXCEPT ![Ledger] = @ + calls] BY DEF Finalized, Book
<1>4. Ledgered' BY <1>1, <1>2, <1>3 DEF Ledgered, Left
<1>5. outcome' = Code BY DEF Finalized
<1>6. CASE calls = 0
  <2>1. Left = 0 /\ error = "llm_budget_exhausted" BY <1>6 DEF Finalized, CallBounded, Calling
  <2> QED BY <1>3, <1>4, <1>5, <1>6, <2>1, AuthorAssumption DEF Code, Succeeds
<1>7. CASE calls # 0
  <2>1. error \in Contract!Failures \cup {None}
    BY <1>2, <1>7 DEF Finalized, CallBounded, Calling
  <2>2. Code \in Contract!Values \cup Contract!Failures
    BY <2>1 DEF Code, Succeeds, Contract!Values, Contract!Failures
  <2> QED BY <1>2, <1>3, <1>4, <1>5, <1>7, <2>2
<1> QED BY <1>6, <1>7

(* The call invariant says nothing outside of the call.                      *)
LEMMA OutsideCall ==
  ASSUME pc' \notin Calling
  PROVE  CallBounded'
BY DEF CallBounded

\* Every step keeps the invariant.
LEMMA StepInv == IndInv /\ [Next]_vars => IndInv'
<1> SUFFICES ASSUME IndInv, [Next]_vars PROVE IndInv' OBVIOUS
<1> USE DEF IndInv, TurnType, Nodes, RaisedIsOver
<1>0. Left \in Nat BY LedgerIs
<1>1. CASE InvokeOriginal
  <2>1. UNCHANGED <<role, spent, outcome>> /\ pc = "author" BY <1>1 DEF InvokeOriginal, ledgers
  <2>2. Left' = Left /\ Ledgered' BY <2>1 DEF Left, Ledger, Ledgered
  <2>3. allowed' = IF Left < 2 THEN Left ELSE 2 BY <1>1, AllowedIs DEF InvokeOriginal
  <2>4. CASE allowed' = 0
    BY <1>0, <1>1, <2>1, <2>2, <2>3, <2>4 DEF InvokeOriginal, CallBounded
  <2>5. CASE allowed' # 0
    <3>1. calls' = 1 /\ pc' \in {"parse", "finalize"} BY <1>1, <2>5 DEF InvokeOriginal
    <3>2. pc' = "finalize" => error' \in Contract!Failures
      BY <1>1, <2>5 DEF InvokeOriginal, CallFails, Contract!Failures
    <3> QED BY <1>0, <2>1, <2>2, <2>3, <2>5, <3>1, <3>2 DEF CallBounded
  <2> QED BY <2>4, <2>5
<1>2. CASE ParseOriginal \/ ParseRepair
  <2>1. CASE ParserRaises(response) \/ ParserRaises(repaired)
    <3>1. CallBounded' BY <2>1, OutsideCall DEF ParserRaises, Calling
    <3> QED BY <2>1, <3>1 DEF ParserRaises, Ledgered
  <2>2. CASE UNCHANGED <<role, allowed, calls, ledgers>> /\ pc \in {"parse", "parse_repair"}
             /\ \/ pc' = "repair" /\ pc = "parse" /\ allowed >= 2
                \/ pc' = "finalize" /\ error' \in {None, "author_output_invalid"}
    <3>1. Left' = Left /\ Ledgered' /\ UNCHANGED outcome
      BY <2>2 DEF Left, Ledger, Ledgered, ledgers
    <3>2. allowed \in 0..2 /\ allowed <= Left /\ calls \in 1..2 /\ calls <= allowed
      BY <2>2 DEF CallBounded, Calling
    <3>3. pc = "parse" => calls = 1 BY <2>2 DEF CallBounded, Calling
    <3> QED BY <2>2, <3>1, <3>2, <3>3 DEF CallBounded, Contract!Failures
  <2> QED BY <1>2, <2>1, <2>2 DEF ParseOriginal, ParseRepair
<1>3. CASE InvokeRepair
  <2>1. UNCHANGED <<role, allowed, spent, outcome>> /\ pc = "repair" /\ calls' = calls + 1
    BY <1>3 DEF InvokeRepair, ledgers
  <2>2. Left' = Left /\ Ledgered' BY <2>1 DEF Left, Ledger, Ledgered
  <2>3. allowed = 2 /\ calls = 1 /\ allowed <= Left BY <2>1 DEF CallBounded, Calling
  <2>4. pc' = "parse_repair" \/ (pc' = "finalize" /\ error' \in Contract!Failures)
    BY <1>3 DEF InvokeRepair, CallFails, Contract!Failures
  <2> QED BY <1>0, <2>1, <2>2, <2>3, <2>4 DEF CallBounded
<1>4. CASE AuthorLayerPlan \/ AuthorInitial \/ AuthorRefinement
  <2>1. Finalized BY <1>4 DEF AuthorLayerPlan, AuthorInitial, AuthorRefinement
  <2>2. Ledgered' /\ outcome' # "raised"
    BY <2>1, Booked DEF Contract!Values, Contract!Failures
  <2>3. role' \in {"plan", "initial", "refine"} /\ pc' \in {"author", "over", "judge", "apply", "decide"}
    BY <1>4 DEF AuthorLayerPlan, AuthorInitial, AuthorRefinement
  <2>4. CallBounded' BY <2>3, OutsideCall DEF Calling
  <2> QED BY <2>2, <2>3, <2>4
<1>5. CASE ApplyRefinement \/ Judge \/ Tune \/ Refine
  <2>1. UNCHANGED spent
    BY <1>5 DEF ApplyRefinement, Judge, Tune, Refine, ledgers
  <2>2. role' \in {"plan", "initial", "refine"} /\ pc' \in {"author", "over", "judge", "decide"}
    BY <1>5 DEF ApplyRefinement, Judge, Tune, Refine, turn
  <2>3. (outcome' = outcome /\ pc # "over") \/ pc' = "over"
    BY <1>5 DEF ApplyRefinement, Judge, Tune, Refine, ledgers
  <2>4. CallBounded' BY <2>2, OutsideCall DEF Calling
  <2> QED BY <2>1, <2>2, <2>3, <2>4 DEF Ledgered
<1>6. CASE UNCHANGED vars
  BY <1>6 DEF vars, turn, local, ledgers, Ledgered, CallBounded, Left, Ledger
<1> QED BY <1>1, <1>2, <1>3, <1>4, <1>5, <1>6 DEF Next

\* The invariant holds at the start.
LEMMA InitInv == Init => IndInv
<1> SUFFICES ASSUME Init PROVE IndInv OBVIOUS
<1>1. TurnType /\ RaisedIsOver BY DEF Init, TurnType, Nodes, RaisedIsOver
<1>2. Ledgered BY AuthorAssumption DEF Init, Ledgered
<1>3. CallBounded BY DEF Init, CallBounded, Calling
<1> QED BY <1>1, <1>2, <1>3 DEF IndInv

(* The structured call's bounds hold in every state of every attempt.         *)
THEOREM Invariance == Spec => []IndInv
<1>1. Init => IndInv BY InitInv
<1>2. IndInv /\ [Next]_vars => IndInv' BY StepInv
<1> QED BY <1>1, <1>2, PTL DEF Spec

(* A step of an author that finalizes is an answer of the contract, a raise   *)
(* is one of its raises, and every other step leaves it alone.                *)
LEMMA StepRefines ==
  ASSUME IndInv, [Next]_vars
  PROVE  [(\E l \in Contract!Ledgers : Contract!Answer(l)) \/ Contract!Raise]_<<spent, outcome>>
<1>1. CASE AuthorLayerPlan \/ AuthorInitial \/ AuthorRefinement
  <2>1. Finalized BY <1>1 DEF AuthorLayerPlan, AuthorInitial, AuthorRefinement
  <2>2. Ledger \in Contract!Ledgers /\ Left \in Nat /\ spent[Ledger] \in Nat
    BY LedgerIs DEF IndInv
  <2>3. outcome # "raised" BY <2>1 DEF Finalized, IndInv, RaisedIsOver
  <2>4. CASE calls = 0 /\ Left = 0 /\ outcome' = "llm_budget_exhausted"
    <3>1. spent' = spent BY <2>1, <2>2, <2>4, Booked DEF IndInv, Ledgered
    <3>2. Contract!Answer(Ledger) BY <2>3, <2>4, <3>1 DEF Contract!Answer, Left
    <3> QED BY <2>2, <3>2
  <2>5. CASE calls \in {1, 2} /\ calls <= Left /\ outcome' \in Contract!Values \cup Contract!Failures
    <3>1. spent' = [spent EXCEPT ![Ledger] = @ + calls] BY <2>1, Booked
    <3>2. Contract!Answer(Ledger) BY <2>3, <2>5, <3>1 DEF Contract!Answer, Left
    <3> QED BY <2>2, <3>2
  <2> QED BY <2>1, <2>4, <2>5, Booked
<1>2. CASE InvokeOriginal \/ InvokeRepair \/ ApplyRefinement \/ Tune \/ Refine \/ UNCHANGED vars
  BY <1>2 DEF InvokeOriginal, InvokeRepair, ApplyRefinement, Tune, Refine, vars, ledgers
<1>3. CASE ParseOriginal \/ ParseRepair \/ Judge
  BY <1>3 DEF ParseOriginal, ParseRepair, ParserRaises, Judge, ledgers, Contract!Raise
<1> QED BY <1>1, <1>2, <1>3 DEF Next

(* The authors keep their contract: the structured call of structured_author *)
(* with its repair and its ledgers implements AuthorContract, which is all    *)
(* that DirectAttempt assumes of an author.                                  *)
THEOREM AuthorsKeepContract == Spec => KeepsContract
<1>1. Init => Contract!ContractInit
  BY AuthorAssumption DEF Init, Contract!ContractInit, Contract!Ledgers
<1>2. IndInv /\ [Next]_vars =>
        [(\E l \in Contract!Ledgers : Contract!Answer(l)) \/ Contract!Raise]_<<spent, outcome>>
  BY StepRefines
<1> QED BY <1>1, <1>2, Invariance, PTL DEF Spec, KeepsContract, Contract!ContractSpec

-----------------------------------------------------------------------------
(* The specs.                                                                *)
(*                                                                           *)
(* What is known of a spec only speaks of specs, texts and patches that are   *)
(* never taken back, so that a spec stays sound while these grow.            *)

(* Values that are no None: an answer of the gateway and a patch.            *)
NoneIsApart ==
    /\ \A n, a, c, t : [n |-> n, named |-> a, counted |-> c, text |-> t] # None
    /\ \A b, t, e, r : [base |-> b, target |-> t, expected |-> e, replacement |-> r] # None

IsSeq(s) == \E S : s \in Seq(S)

(* One sequence continues another.                                           *)
Grown(s, t) == \A i \in DOMAIN s : i \in DOMAIN t /\ t[i] = s[i]

(* A spec that keeps to the slots of the plan and to the limits.             *)
Placed(s, slots) ==
    /\ DOMAIN s.layers = DOMAIN slots
    /\ \A k \in DOMAIN slots : IsLayer(s.layers[k]) /\ InPlace(s.layers[k], slots[k])
    /\ Disjoint(s.layers) /\ Fits(s.side, s.layers)

(* s is p but for layer i.                                                   *)
OneLayer(s, p, i) ==
    /\ i \in DOMAIN p.layers /\ s.side = p.side /\ DOMAIN s.layers = DOMAIN p.layers
    /\ s.layers[i] # p.layers[i] /\ InPlace(s.layers[i], p.layers[i])
    /\ \A j \in DOMAIN p.layers \ {i} : s.layers[j] = p.layers[j]

Retuned(s, p) ==
    \E i : /\ OneLayer(s, p, i) /\ s.author = p.author
           /\ s.layers[i] = [p.layers[i] EXCEPT !.val = s.layers[i].val]

(* Where a spec comes from.                                                  *)
Descends(s, all) ==
    /\ s.derived \in {0} \cup DOMAIN all /\ s.author.parent \in {0} \cup DOMAIN all
    /\ s.derived # 0 => Retuned(s, all[s.derived])
    /\ s.derived = 0 /\ s.author.parent # 0 => \E i : OneLayer(s, all[s.author.parent], i)

(* Call number call said text, after a repair of another text or without.     *)
Signs(number, repair, text, heard) ==
    /\ number \in DOMAIN heard /\ heard[number] = text
    /\ repair # 0 => repair = number - 1 /\ repair \in DOMAIN heard /\ heard[repair] # text

Authored(s, heard) ==
    s.derived = 0 =>
      \E text : /\ Signs(s.author.call, s.author.repair, text, heard)
                /\ IF s.author.role = "initial" THEN text = [side |-> s.side, layers |-> s.layers]
                   ELSE /\ text \notin {None, Garbled, Unhashable}
                        /\ text.replacement \in Range(s.layers)

(* The patch that led to a spec is remembered.                               *)
Tried(s, all, tried) ==
    s.derived = 0 /\ s.author.parent # 0 =>
      \A k \in DOMAIN s.layers :
        s.layers[k] # all[s.author.parent].layers[k] =>
          [base |-> s.author.parent, target |-> all[s.author.parent].layers[k].id,
           replacement |-> s.layers[k]] \in tried

Sound(s, all, slots, heard, tried) ==
    Placed(s, slots) /\ Descends(s, all) /\ Authored(s, heard) /\ Tried(s, all, tried)

AllDiffer(all) == \A i, j \in DOMAIN all : all[i] = all[j] => i = j

SpecsInv ==
    /\ IsSeq(specs) /\ AllDiffer(specs)
    /\ \A i \in DOMAIN specs : Sound(specs[i], specs, plan.layers, said, attempted)

(* What the author whose turn it is can rely on.                             *)
WorkInv ==
    /\ role = "plan" => specs = <<>> /\ best = 0 /\ pc \notin {"apply", "judge", "decide"}
    /\ role # "plan" => /\ DOMAIN plan.layers = 1..Len(plan.layers)
                        /\ \A i, j \in DOMAIN plan.layers :
                             plan.layers[i].id = plan.layers[j].id => i = j
    /\ best \in {0} \cup DOMAIN specs
    /\ role = "refine" => best # 0
    /\ pc = "apply" => role = "refine"
    /\ pc = "judge" => candidate \in DOMAIN specs

(* Texts.                                                                    *)
Shaped(text) ==
    /\ text # None
    /\ role = "plan" => text \in Plans
    /\ role = "initial" => text \in Drafts
    /\ role = "refine" => text.replacement \in Replacements

Understood(text) == text \notin {Garbled, Unhashable} /\ Parses(text) /\ Shaped(text)

(* An answer of which the text was said.                                     *)
Heard(answer) ==
    /\ answer # None
    /\ answer.n \in DOMAIN said /\ said[answer.n] = answer.text /\ answer.text # None

(* The answers of the call in progress; one that is repaired was refused.     *)
CallInv ==
    /\ IsSeq(said)
    /\ pc \in {"parse", "repair", "parse_repair"} => Heard(response)
    /\ pc \in {"parse", "repair"} => repaired = None /\ response.n = Len(said)
    /\ pc = "parse" => response.text \in {Garbled, Unhashable} \/ Shaped(response.text)
    /\ pc = "repair" => error # None
    /\ pc \in {"repair", "parse_repair"} => ~Parses(response.text)
    /\ pc = "parse_repair" =>
         /\ Heard(repaired) /\ repaired.n = response.n + 1
         /\ repaired.text \in {Garbled, Unhashable} \/ Shaped(repaired.text)
    /\ pc = "finalize" /\ error = None =>
         /\ Heard(response) /\ value = FinalResponse.text /\ Understood(value)
         /\ repaired # None => /\ Heard(repaired) /\ repaired.n = response.n + 1
                               /\ ~Parses(response.text)

(* The patch that is about to be applied is that of the call it is signed by. *)
PatchInv ==
    pc = "apply" =>
      /\ Signs(signature.call, signature.repair, patch, said)
      /\ patch \notin {None, Garbled, Unhashable} /\ patch.replacement \in Replacements
      /\ signature.role = "refine" /\ signature.parent = best

(* Two refinements of one parent differ.                                     *)
NewInv ==
    DetectDuplicates =>
      \A i, j \in DOMAIN specs :
        specs[i].derived = 0 /\ specs[j].derived = 0 /\ specs[i].author.parent # 0 =>
          (specs[i].author.parent = specs[j].author.parent /\ specs[i].layers = specs[j].layers
            => i = j)

LineageInv == TurnType /\ SpecsInv /\ WorkInv /\ CallInv /\ PatchInv /\ NewInv
-----------------------------------------------------------------------------
(* Sequences that grow.                                                      *)

(* What appending does.                                                      *)
LEMMA Appended ==
  ASSUME NEW s, IsSeq(s), NEW e
  PROVE  /\ IsSeq(Append(s, e)) /\ Grown(s, Append(s, e))
         /\ Len(s) \in Nat /\ Len(Append(s, e)) = Len(s) + 1
         /\ DOMAIN s = 1..Len(s) /\ Len(s) + 1 \notin DOMAIN s
         /\ DOMAIN Append(s, e) = DOMAIN s \cup {Len(s) + 1}
         /\ Append(s, e)[Len(s) + 1] = e
<1>1. PICK S : s \in Seq(S) BY DEF IsSeq
<1> DEFINE T == S \cup {e}
<1>2. s \in Seq(T) /\ e \in T BY <1>1
<1>3. Append(s, e) \in Seq(T) /\ IsSeq(Append(s, e)) BY <1>2, AppendProperties DEF IsSeq
<1>4. Len(Append(s, e)) = Len(s) + 1 /\ Append(s, e)[Len(s) + 1] = e
      /\ \A i \in 1..Len(s) : Append(s, e)[i] = s[i]
  BY <1>2, AppendProperties
<1> HIDE DEF T
<1>5. DOMAIN s = 1..Len(s) /\ Len(s) \in Nat BY <1>2
<1>6. DOMAIN Append(s, e) = 1..(Len(s) + 1) BY <1>3, <1>4
<1>7. DOMAIN Append(s, e) = DOMAIN s \cup {Len(s) + 1} /\ Len(s) + 1 \notin DOMAIN s BY <1>5, <1>6
<1> QED BY <1>3, <1>4, <1>5, <1>7 DEF Grown

(* A sequence continues itself.                                              *)
LEMMA GrownSame == \A s : Grown(s, s)
BY DEF Grown

(* Hashing a content finds it, or makes it the next spec.                     *)
LEMMA Minted ==
  ASSUME IsSeq(specs), NEW content, Mint(content)
  PROVE  /\ IsSeq(specs') /\ Grown(specs, specs')
         /\ candidate' \in DOMAIN specs' /\ specs'[candidate'] = content /\ candidate' # 0
         /\ \A i \in DOMAIN specs' : i \in DOMAIN specs \/ i = candidate'
         /\ candidate' \in DOMAIN specs => specs' = specs
         /\ candidate' \notin DOMAIN specs => \A i \in DOMAIN specs : specs[i] # content
<1>1. CASE content \in Range(specs)
  <2>1. \E i \in DOMAIN specs : specs[i] = content BY <1>1 DEF Range
  <2>2. candidate' \in DOMAIN specs /\ specs[candidate'] = content /\ specs' = specs
    BY <1>1, <2>1 DEF Mint
  <2>3. candidate' # 0 BY <2>2, Appended
  <2> QED BY <2>2, <2>3, GrownSame
<1>2. CASE content \notin Range(specs)
  <2>1. \A i \in DOMAIN specs : specs[i] # content BY <1>2 DEF Range
  <2>2. specs' = Append(specs, content) /\ candidate' = Len(specs) + 1 BY <1>2 DEF Mint
  <2> QED BY <2>1, <2>2, Appended
<1> QED BY <1>1, <1>2

(* A sound spec stays so while specs, texts and patches are added.           *)
LEMMA StaysSound ==
  ASSUME NEW s, NEW all, NEW slots, NEW heard, NEW tried, NEW all2, NEW heard2, NEW tried2,
         Sound(s, all, slots, heard, tried), Grown(all, all2), Grown(heard, heard2),
         tried \subseteq tried2
  PROVE  Sound(s, all2, slots, heard2, tried2)
<1> USE DEF Sound, Grown
<1>1. Descends(s, all2) BY DEF Descends
<1>2. Authored(s, heard2) BY DEF Authored, Signs
<1>3. Tried(s, all2, tried2) BY DEF Tried, Descends
<1> QED BY <1>1, <1>2, <1>3

(* Specs stay sound where none is added.                                     *)
LEMMA SpecsStay ==
  ASSUME SpecsInv, UNCHANGED <<specs, attempted>>, plan' = plan \/ specs = <<>>, Grown(said, said')
  PROVE  SpecsInv'
<1>1. IsSeq(specs)' /\ AllDiffer(specs)' BY DEF SpecsInv
<1>2. CASE plan' = plan
  <2>1. \A i \in DOMAIN specs : Sound(specs[i], specs, plan.layers, said', attempted)
    BY StaysSound, GrownSame DEF SpecsInv
  <2> QED BY <1>1, <1>2, <2>1 DEF SpecsInv
<1>3. CASE specs = <<>> BY <1>1, <1>3 DEF SpecsInv
<1> QED BY <1>2, <1>3

(* And where a sound one is.                                                 *)
LEMMA SpecsGrow ==
  ASSUME SpecsInv, NEW content, Mint(content), UNCHANGED plan, UNCHANGED said,
         attempted \subseteq attempted',
         Sound(content, specs, plan.layers, said, attempted')
  PROVE  SpecsInv'
<1>1. /\ IsSeq(specs') /\ Grown(specs, specs')
      /\ candidate' \in DOMAIN specs' /\ specs'[candidate'] = content
      /\ \A i \in DOMAIN specs' : i \in DOMAIN specs \/ i = candidate'
      /\ candidate' \in DOMAIN specs => specs' = specs
      /\ candidate' \notin DOMAIN specs => \A i \in DOMAIN specs : specs[i] # content
  BY Minted DEF SpecsInv
<1>2. AllDiffer(specs') BY <1>1 DEF SpecsInv, AllDiffer, Grown
<1>3. ASSUME NEW i \in DOMAIN specs'
      PROVE  Sound(specs'[i], specs', plan.layers, said, attempted')
  <2>1. CASE i \in DOMAIN specs
    <3>1. specs'[i] = specs[i] BY <1>1, <2>1 DEF Grown
    <3>2. Sound(specs[i], specs, plan.layers, said, attempted) BY <2>1 DEF SpecsInv
    <3> QED BY <1>1, <3>1, <3>2, StaysSound, GrownSame
  <2>2. CASE i = candidate' BY <1>1, <2>2, StaysSound, GrownSame
  <2> QED BY <1>1, <2>1, <2>2
<1> QED BY <1>1, <1>2, <1>3 DEF SpecsInv

-----------------------------------------------------------------------------
(* The calls.                                                                *)

(* What comes back from the model.                                           *)
LEMMA TextsAre ==
  ASSUME NoneIsApart, TurnType, NEW text \in Texts
  PROVE  text # None /\ (text \in {Garbled, Unhashable} \/ Shaped(text))
<1>1. CASE text \in {Garbled, Unhashable} BY <1>1, TextAssumption
<1>2. CASE text \notin {Garbled, Unhashable}
  <2>1. CASE role = "plan"
    <3>1. text \in Plans BY <1>2, <2>1 DEF Texts
    <3> QED BY <2>1, <3>1, TextAssumption DEF Shaped
  <2>2. CASE role = "initial"
    <3>1. text \in Drafts BY <1>2, <2>2 DEF Texts
    <3> QED BY <2>2, <3>1, TextAssumption DEF Shaped
  <2>3. CASE role = "refine"
    <3>1. text \in [base : {1, best}, target : Targets, expected : Range(specs[best].layers),
                    replacement : Replacements]
      BY <1>2, <2>3 DEF Texts
    <3>2. text = [base |-> text.base, target |-> text.target, expected |-> text.expected,
                  replacement |-> text.replacement]
      BY <3>1
    <3>3. text # None BY <3>2 DEF NoneIsApart
    <3> QED BY <2>3, <3>1, <3>3 DEF Shaped
  <2> QED BY <2>1, <2>2, <2>3 DEF TurnType
<1> QED BY <1>1, <1>2

(* An answer, once it has come back.                                         *)
LEMMA AnswersAre ==
  ASSUME NoneIsApart, TurnType, NEW answer \in Answers
  PROVE  /\ answer # None /\ answer.n = Len(said) + 1 /\ answer.text # None
         /\ answer.text \in {Garbled, Unhashable} \/ Shaped(answer.text)
<1>1. PICK c \in Credits, text \in Texts :
        answer = [n |-> Len(said) + 1, named |-> c.named, counted |-> c.counted, text |-> text]
  BY DEF Answers
<1>2. answer # None BY <1>1 DEF NoneIsApart
<1> QED BY <1>1, <1>2, TextsAre

(* What is said stays said.                                                  *)
LEMMA SaidGrows ==
  ASSUME IsSeq(said), [Next]_vars
  PROVE  IsSeq(said') /\ Grown(said, said')
<1>1. CASE said' = said BY <1>1, GrownSame
<1>2. CASE \E text : said' = Append(said, text) BY <1>2, Appended
<1>3. CASE InvokeOriginal \/ InvokeRepair
  BY <1>1, <1>2, <1>3 DEF InvokeOriginal, InvokeRepair, CallFails, CallAnswers
<1>4. CASE ParseOriginal \/ ParseRepair
  BY <1>1, <1>4 DEF ParseOriginal, ParseRepair, ParserRaises
<1>5. CASE AuthorLayerPlan \/ AuthorInitial \/ AuthorRefinement
  BY <1>1, <1>5 DEF AuthorLayerPlan, AuthorInitial, AuthorRefinement
<1>6. CASE ApplyRefinement \/ Judge \/ Tune \/ Refine \/ UNCHANGED vars
  BY <1>1, <1>6 DEF ApplyRefinement, Judge, Tune, Refine, vars
<1> QED BY <1>3, <1>4, <1>5, <1>6 DEF Next

(* An answer that was heard stays so.                                        *)
LEMMA StillHeard ==
  ASSUME Grown(said, said')
  PROVE  \A answer : Heard(answer) =>
           /\ answer # None
           /\ answer.n \in DOMAIN said' /\ said'[answer.n] = answer.text /\ answer.text # None
BY DEF Heard, Grown

(* A new one is the last thing said.                                         *)
LEMMA NewlyHeard ==
  ASSUME NoneIsApart, TurnType, IsSeq(said), NEW answer \in Answers, CallAnswers(answer)
  PROVE  /\ answer # None
         /\ answer.n \in DOMAIN said' /\ said'[answer.n] = answer.text /\ answer.text # None
         /\ answer.n = Len(said') /\ answer.n = Len(said) + 1
         /\ answer.text \in {Garbled, Unhashable} \/ Shaped(answer.text)
<1>1. said' = Append(said, answer.text) BY DEF CallAnswers
<1> QED BY <1>1, Appended, AnswersAre

(* The parser of a call is the same until its author finalizes.               *)
LEMMA CallStep ==
  ASSUME NoneIsApart, TurnType, CallInv, [Next]_vars
  PROVE  CallInv'
<1>0. IsSeq(said') /\ Grown(said, said') BY SaidGrows DEF CallInv
<1> USE DEF CallInv
<1>1. CASE InvokeOriginal
  <2>1. UNCHANGED <<role, plan>> /\ repaired' = None /\ pc' \in {"parse", "finalize"}
    BY <1>1 DEF InvokeOriginal, work
  <2>2. CASE pc' = "finalize"
    <3>1. error' # None BY <1>1, <2>2, AuthorAssumption DEF InvokeOriginal, CallFails
    <3> QED BY <1>0, <2>2, <3>1
  <2>3. CASE pc' = "parse"
    <3>1. PICK answer \in Answers : CallAnswers(answer) /\ response' = answer
      BY <1>1, <2>3 DEF InvokeOriginal
    <3>2. Heard(response)' /\ response'.n = Len(said') BY <3>1, NewlyHeard DEF Heard
    <3>3. (response.text \in {Garbled, Unhashable} \/ Shaped(response.text))'
      BY <2>1, <3>1, NewlyHeard DEF Shaped
    <3> QED BY <1>0, <2>1, <2>3, <3>2, <3>3
  <2> QED BY <2>1, <2>2, <2>3
<1>2. CASE ParserRaises(response) \/ ParserRaises(repaired)
  BY <1>0, <1>2 DEF ParserRaises
<1>3. CASE ParseOriginal /\ ~ParserRaises(response)
  <2>1. /\ UNCHANGED <<role, plan, response, repaired, said>> /\ pc = "parse"
        /\ response.text # Unhashable /\ repaired = None /\ Heard(response)
        /\ response.text \in {Garbled, Unhashable} \/ Shaped(response.text)
    BY <1>3 DEF ParseOriginal, work
  <2>2. Heard(response)' BY <2>1 DEF Heard
  <2>3. CASE Parses(response.text)
    <3>1. value' = response.text /\ error' = None /\ pc' = "finalize" BY <1>3, <2>3 DEF ParseOriginal
    <3>2. FinalResponse' = response BY <2>1 DEF FinalResponse
    <3>3. response.text # Garbled BY <2>3 DEF Parses
    <3>4. Understood(value)'
      BY <2>1, <2>3, <3>1, <3>3 DEF Understood, Shaped, Parses, DraftOk
    <3> QED BY <1>0, <2>1, <2>2, <3>1, <3>2, <3>4
  <2>4. CASE ~Parses(response.text)
    <3>1. error' = "author_output_invalid" /\ pc' \in {"repair", "finalize"}
      BY <1>3, <2>4 DEF ParseOriginal
    <3>2. ~Parses(response.text)' BY <2>1, <2>4 DEF Parses, DraftOk
    <3>3. error' # None BY <3>1, AuthorAssumption
    <3> QED BY <1>0, <2>1, <2>2, <3>1, <3>2, <3>3
  <2> QED BY <2>3, <2>4
<1>4. CASE InvokeRepair
  <2>1. /\ UNCHANGED <<role, plan, response>> /\ pc = "repair" /\ Heard(response) /\ repaired = None
        /\ ~Parses(response.text) /\ response.n = Len(said)
    BY <1>4 DEF InvokeRepair, work
  <2>2. Heard(response)' BY <1>0, <2>1, StillHeard DEF Heard
  <2>3. ~Parses(response.text)' BY <2>1 DEF Parses, DraftOk
  <2>4. CASE CallFails /\ pc' = "finalize"
    <3>1. error' # None BY <2>4, AuthorAssumption DEF CallFails
    <3> QED BY <1>0, <2>4, <3>1
  <2>5. CASE /\ pc' = "parse_repair"
             /\ \E answer \in Answers : CallAnswers(answer) /\ repaired' = answer
    <3>1. PICK answer \in Answers : CallAnswers(answer) /\ repaired' = answer BY <2>5
    <3>2. Heard(repaired)' /\ repaired'.n = response'.n + 1
      BY <2>1, <3>1, NewlyHeard DEF Heard
    <3>3. (repaired.text \in {Garbled, Unhashable} \/ Shaped(repaired.text))'
      BY <2>1, <3>1, NewlyHeard DEF Shaped
    <3> QED BY <1>0, <2>2, <2>3, <2>5, <3>2, <3>3
  <2> QED BY <1>4, <2>4, <2>5 DEF InvokeRepair
<1>5. CASE ParseRepair /\ ~ParserRaises(repaired)
  <2>1. /\ UNCHANGED <<role, plan, response, repaired, said>> /\ pc = "parse_repair"
        /\ pc' = "finalize" /\ repaired.text # Unhashable
        /\ Heard(response) /\ Heard(repaired) /\ repaired.n = response.n + 1
        /\ ~Parses(response.text)
        /\ repaired.text \in {Garbled, Unhashable} \/ Shaped(repaired.text)
    BY <1>5 DEF ParseRepair, work
  <2>2. Heard(response)' /\ Heard(repaired)' BY <2>1 DEF Heard
  <2>3. ~Parses(response.text)' BY <2>1 DEF Parses, DraftOk
  <2>4. CASE Parses(repaired.text)
    <3>1. value' = repaired.text /\ error' = None BY <1>5, <2>4 DEF ParseRepair
    <3>2. FinalResponse' = repaired BY <2>1 DEF FinalResponse, Heard
    <3>3. repaired.text # Garbled BY <2>4 DEF Parses
    <3>4. Understood(value)'
      BY <2>1, <2>4, <3>1, <3>3 DEF Understood, Shaped, Parses, DraftOk
    <3> QED BY <1>0, <2>1, <2>2, <2>3, <3>1, <3>2, <3>4
  <2>5. CASE ~Parses(repaired.text)
    <3>1. error' # None BY <1>5, <2>5, AuthorAssumption DEF ParseRepair
    <3> QED BY <1>0, <2>1, <3>1
  <2> QED BY <2>4, <2>5
<1>6. CASE AuthorLayerPlan \/ AuthorInitial \/ AuthorRefinement
  <2>1. pc' \in {"author", "over", "judge", "apply", "decide"}
    BY <1>6 DEF AuthorLayerPlan, AuthorInitial, AuthorRefinement
  <2> QED BY <1>0, <2>1
<1>7. CASE ApplyRefinement \/ Judge \/ Tune \/ Refine
  <2>1. pc' \in {"author", "over", "judge", "decide"}
    BY <1>7 DEF ApplyRefinement, Judge, Tune, Refine, turn
  <2> QED BY <1>0, <2>1
<1>8. CASE UNCHANGED vars
  <2>1. UNCHANGED <<role, pc, plan, said, response, repaired, value, error>>
    BY <1>8 DEF vars, turn, local, work
  <2> QED BY <1>0, <2>1 DEF Heard, Understood, Shaped, Parses, DraftOk, FinalResponse
<1> QED
  BY <1>1, <1>2, <1>3, <1>4, <1>5, <1>6, <1>7, <1>8 DEF Next, ParseOriginal, ParseRepair

(* An author that succeeds can sign what its last answer said.                *)
LEMMA Credited ==
  ASSUME CallInv, pc = "finalize", Succeeds
  PROVE  Understood(value) /\ Signs(Identity, RepairContext, value, said)
<1>1. /\ error = None /\ Identity # None /\ IsSeq(said)
      /\ Heard(response) /\ value = FinalResponse.text /\ Understood(value)
      /\ repaired # None => /\ Heard(repaired) /\ repaired.n = response.n + 1
                            /\ ~Parses(response.text)
  BY DEF Succeeds, CallInv
<1>2. Identity = FinalResponse.n BY <1>1 DEF Identity
<1>3. CASE repaired = None
  <2>1. FinalResponse = response /\ RepairContext = 0 BY <1>3 DEF FinalResponse, RepairContext
  <2> QED BY <1>1, <1>2, <2>1 DEF Heard, Signs
<1>4. CASE repaired # None
  <2>1. FinalResponse = repaired /\ RepairContext = response.n
    BY <1>1, <1>4 DEF FinalResponse, RepairContext, Understood, Shaped
  <2>2. response.n \in 1..Len(said) /\ Len(said) \in Nat BY <1>1, Appended DEF Heard
  <2>3. response.n = repaired.n - 1 BY <1>1, <1>4, <2>2
  <2>4. response.text # value BY <1>1, <1>4 DEF Understood
  <2> QED BY <1>1, <1>2, <1>4, <2>1, <2>3, <2>4 DEF Heard, Signs
<1> QED BY <1>1, <1>3, <1>4

-----------------------------------------------------------------------------
(* A new value makes a layer another one in the same place.                   *)
LEMMA ValueSet ==
  ASSUME NEW layer, IsLayer(layer), NEW v, layer.val # v
  PROVE  LET new == [layer EXCEPT !.val = v]
         IN  /\ IsLayer(new) /\ new # layer /\ InPlace(new, layer) /\ new.val = v
             /\ new.body = layer.body /\ new.uniforms = layer.uniforms
             /\ \A slot : InPlace(layer, slot) => InPlace(new, slot)
BY DEF IsLayer, InPlace

(* An initial spec is sound.                                                 *)
LEMMA InitialSound ==
  ASSUME SpecsInv, WorkInv, CallInv, role = "initial", pc = "finalize", Succeeds
  PROVE  Sound([side |-> value.side, layers |-> value.layers, derived |-> 0,
                author |-> [role |-> "initial", call |-> Identity, repair |-> RepairContext,
                            parent |-> 0]],
               specs, plan.layers, said, attempted)
<1> DEFINE new == [side |-> value.side, layers |-> value.layers, derived |-> 0,
                   author |-> [role |-> "initial", call |-> Identity, repair |-> RepairContext,
                               parent |-> 0]]
<1>0. /\ new.side = value.side /\ new.layers = value.layers /\ new.derived = 0
      /\ new.author.role = "initial" /\ new.author.call = Identity
      /\ new.author.repair = RepairContext /\ new.author.parent = 0
  OBVIOUS
<1>1. Understood(value) /\ Signs(Identity, RepairContext, value, said) BY Credited
<1>2. value \in Drafts /\ DraftOk(value) BY <1>1 DEF Understood, Shaped, Parses
<1>3. DOMAIN value.layers = DOMAIN plan.layers
  BY <1>2, TextAssumption DEF DraftOk, WorkInv
<1> HIDE DEF new
<1>4. Placed(new, plan.layers) BY <1>0, <1>2, <1>3, TextAssumption DEF Placed, DraftOk
<1>5. Descends(new, specs) /\ Tried(new, specs, attempted) BY <1>0 DEF Descends, Tried
<1>6. Authored(new, said)
  <2>1. value = [side |-> new.side, layers |-> new.layers] BY <1>0, <1>2, TextAssumption
  <2> QED BY <1>0, <1>1, <2>1 DEF Authored
<1>7. Sound(new, specs, plan.layers, said, attempted) BY <1>4, <1>5, <1>6 DEF Sound
<1> QED BY <1>7 DEF new

(* So is one with other values.                                              *)
LEMMA TuneSound ==
  ASSUME SpecsInv, best \in DOMAIN specs, best # 0, NEW i \in DOMAIN specs[best].layers, NEW v,
         specs[best].layers[i].val # v
  PROVE  Sound([side |-> specs[best].side,
                layers |-> [specs[best].layers EXCEPT ![i] = [@ EXCEPT !.val = v]],
                derived |-> best, author |-> specs[best].author],
               specs, plan.layers, said, attempted)
<1> DEFINE base == specs[best]
           layer == [base.layers[i] EXCEPT !.val = v]
           layers == [base.layers EXCEPT ![i] = layer]
           new == [side |-> base.side, layers |-> layers, derived |-> best, author |-> base.author]
<1>0. /\ new.side = base.side /\ new.layers = layers /\ new.derived = best
      /\ new.author = base.author
      /\ [base.layers EXCEPT ![i] = [@ EXCEPT !.val = v]] = layers
  OBVIOUS
<1>1. Placed(base, plan.layers) /\ Descends(base, specs) BY DEF SpecsInv, Sound
<1>2. /\ IsLayer(layer) /\ layer # base.layers[i] /\ InPlace(layer, base.layers[i])
      /\ layer.body = base.layers[i].body /\ layer.uniforms = base.layers[i].uniforms
      /\ layer = [base.layers[i] EXCEPT !.val = layer.val]
      /\ \A slot : InPlace(base.layers[i], slot) => InPlace(layer, slot)
  BY <1>1, ValueSet DEF Placed
<1>3. /\ DOMAIN layers = DOMAIN base.layers /\ layers[i] = layer
      /\ \A j \in DOMAIN base.layers \ {i} : layers[j] = base.layers[j]
  <2> HIDE DEF layer
  <2> QED OBVIOUS
<1>3a. i \in DOMAIN base.layers OBVIOUS
<1> HIDE DEF new, layers, layer, base
<1>4. /\ \A k \in DOMAIN base.layers : /\ layers[k].body = base.layers[k].body
                                       /\ layers[k].uniforms = base.layers[k].uniforms
  BY <1>2, <1>3
<1>5. Placed(new, plan.layers)
  <2>1. DOMAIN layers = DOMAIN plan.layers BY <1>1, <1>3 DEF Placed
  <2>2. \A k \in DOMAIN plan.layers : IsLayer(layers[k]) /\ InPlace(layers[k], plan.layers[k])
    BY <1>1, <1>2, <1>3, <2>1 DEF Placed
  <2>3. Disjoint(layers) BY <1>1, <1>3, <1>4 DEF Placed, Disjoint
  <2>4. [k \in DOMAIN layers |-> layers[k].body] = [k \in DOMAIN base.layers |-> base.layers[k].body]
    BY <1>3, <1>4
  <2>4a. [k \in DOMAIN layers |-> Cardinality(layers[k].uniforms)]
         = [k \in DOMAIN base.layers |-> Cardinality(base.layers[k].uniforms)]
    BY <1>3, <1>4
  <2>5. Fits(base.side, layers) BY <1>1, <2>4, <2>4a DEF Placed, Fits
  <2> QED BY <1>0, <2>1, <2>2, <2>3, <2>5 DEF Placed
<1>6. Descends(new, specs)
  <2>1. OneLayer(new, base, i) BY <1>0, <1>2, <1>3, <1>3a DEF OneLayer
  <2>2. Retuned(new, base) BY <1>0, <1>2, <1>3, <2>1 DEF Retuned
  <2> QED BY <1>0, <1>1, <2>2 DEF Descends, base
<1>7. Authored(new, said) /\ Tried(new, specs, attempted) BY <1>0 DEF Authored, Tried
<1>8. Sound(new, specs, plan.layers, said, attempted) BY <1>5, <1>6, <1>7 DEF Sound
<1> QED BY <1>0, <1>8 DEF new, base

(* What a patch makes of the best spec.                                      *)
PatchedLayers ==
    [i \in DOMAIN specs[best].layers |->
       IF i \in TargetIndex(specs[best].layers) THEN patch.replacement ELSE specs[best].layers[i]]

Patched == [side |-> specs[best].side, layers |-> PatchedLayers, derived |-> 0, author |-> signature]

Accepted == ~Refused /\ Guards(specs[best]) /\ Whole(specs[best].side, PatchedLayers)

(* Ids are the plan's, so that there is one layer to replace.                 *)
LEMMA OneTarget ==
  ASSUME SpecsInv, WorkInv, PatchInv, pc = "apply", Accepted
  PROVE  /\ best \in DOMAIN specs /\ best # 0 /\ Placed(specs[best], plan.layers)
         /\ \E i \in DOMAIN specs[best].layers :
              /\ TargetIndex(specs[best].layers) = {i} /\ specs[best].layers[i].id = patch.target
              /\ patch.replacement # specs[best].layers[i]
              /\ InPlace(patch.replacement, specs[best].layers[i])
              /\ PatchedLayers[i] = patch.replacement
              /\ \A j \in DOMAIN specs[best].layers \ {i} : PatchedLayers[j] = specs[best].layers[j]
         /\ DOMAIN PatchedLayers = DOMAIN specs[best].layers
         /\ patch.base = best
<1> DEFINE base == specs[best]
<1>1. best \in DOMAIN specs /\ best # 0 /\ role = "refine" BY DEF WorkInv
<1>2. Placed(base, plan.layers) BY <1>1 DEF SpecsInv, Sound
<1>3. PICK i : i \in TargetIndex(base.layers) BY DEF Accepted, Guards
<1>4. i \in DOMAIN base.layers /\ base.layers[i].id = patch.target BY <1>3 DEF TargetIndex
<1>5. \A j \in TargetIndex(base.layers) : j = i
  BY <1>1, <1>2, <1>4 DEF TargetIndex, Placed, InPlace, WorkInv
<1>6. TargetIndex(base.layers) = {i} BY <1>3, <1>5
<1>7. patch.replacement # base.layers[i] BY <1>3 DEF Accepted, Refused, NoOp
<1>8. InPlace(patch.replacement, base.layers[i]) /\ patch.base = best
  BY <1>3 DEF Accepted, Guards
<1>9. /\ DOMAIN PatchedLayers = DOMAIN base.layers /\ PatchedLayers[i] = patch.replacement
      /\ \A j \in DOMAIN base.layers \ {i} : PatchedLayers[j] = base.layers[j]
  BY <1>4, <1>6 DEF PatchedLayers
<1> QED BY <1>1, <1>2, <1>4, <1>6, <1>7, <1>8, <1>9

(* A spec that was patched is sound, and its patch is remembered.             *)
LEMMA PatchSound ==
  ASSUME SpecsInv, WorkInv, PatchInv, pc = "apply", Accepted
  PROVE  Sound(Patched, specs, plan.layers, said, attempted \cup {Fingerprint})
<1> DEFINE base == specs[best]
<1>0. /\ Patched.side = base.side /\ Patched.layers = PatchedLayers /\ Patched.derived = 0
      /\ Patched.author = signature
  BY DEF Patched
<1>1. /\ best \in DOMAIN specs /\ best # 0 /\ Placed(base, plan.layers)
      /\ DOMAIN PatchedLayers = DOMAIN base.layers /\ patch.base = best
  BY OneTarget
<1>2. PICK i \in DOMAIN base.layers :
        /\ TargetIndex(base.layers) = {i} /\ base.layers[i].id = patch.target
        /\ patch.replacement # base.layers[i] /\ InPlace(patch.replacement, base.layers[i])
        /\ PatchedLayers[i] = patch.replacement
        /\ \A j \in DOMAIN base.layers \ {i} : PatchedLayers[j] = base.layers[j]
  BY OneTarget
<1>3. /\ Signs(signature.call, signature.repair, patch, said)
      /\ patch \notin {None, Garbled, Unhashable} /\ patch.replacement \in Replacements
      /\ signature.role = "refine" /\ signature.parent = best
  BY DEF PatchInv
<1>4. Disjoint(PatchedLayers) /\ Fits(base.side, PatchedLayers) BY DEF Accepted, Whole
<1> HIDE DEF base
<1>5. Placed(Patched, plan.layers)
  <2>1. DOMAIN PatchedLayers = DOMAIN plan.layers BY <1>1 DEF Placed
  <2>2. ASSUME NEW k \in DOMAIN plan.layers
        PROVE  IsLayer(PatchedLayers[k]) /\ InPlace(PatchedLayers[k], plan.layers[k])
    <3>1. IsLayer(base.layers[k]) /\ InPlace(base.layers[k], plan.layers[k]) BY <1>1 DEF Placed
    <3>2. CASE k = i BY <1>2, <1>3, <3>1, <3>2, TextAssumption DEF InPlace
    <3>3. CASE k # i BY <1>1, <1>2, <2>1, <3>1, <3>3
    <3> QED BY <3>2, <3>3
  <2> QED BY <1>0, <1>4, <2>1, <2>2 DEF Placed
<1>6. Descends(Patched, specs)
  <2>1. OneLayer(Patched, base, i) BY <1>0, <1>1, <1>2 DEF OneLayer
  <2> QED BY <1>0, <1>1, <1>3, <2>1 DEF Descends, base
<1>7. Authored(Patched, said)
  <2>1. patch.replacement \in Range(PatchedLayers) BY <1>1, <1>2 DEF Range
  <2> QED BY <1>0, <1>3, <2>1 DEF Authored
<1>8. Tried(Patched, specs, attempted \cup {Fingerprint})
  <2> SUFFICES ASSUME NEW k \in DOMAIN PatchedLayers, PatchedLayers[k] # base.layers[k]
               PROVE  [base |-> best, target |-> base.layers[k].id, replacement |-> PatchedLayers[k]]
                        = Fingerprint
    BY <1>0, <1>3 DEF Tried, base
  <2>1. k = i BY <1>1, <1>2
  <2> QED BY <1>1, <1>2, <2>1 DEF Fingerprint
<1> QED BY <1>5, <1>6, <1>7, <1>8 DEF Sound

-----------------------------------------------------------------------------
(* The steps.                                                                *)

(* Every step keeps all specs sound.                                         *)
LEMMA SpecsStep ==
  ASSUME LineageInv, [Next]_vars
  PROVE  SpecsInv'
<1> USE DEF LineageInv
<1>0. Grown(said, said') BY SaidGrows DEF CallInv
<1>1. CASE InvokeOriginal \/ InvokeRepair
  BY <1>0, <1>1, SpecsStay DEF InvokeOriginal, InvokeRepair, work
<1>2. CASE ParseOriginal \/ ParseRepair
  BY <1>0, <1>2, SpecsStay DEF ParseOriginal, ParseRepair, ParserRaises, work
<1>3. CASE AuthorLayerPlan \/ AuthorRefinement
  BY <1>0, <1>3, SpecsStay DEF AuthorLayerPlan, AuthorRefinement, WorkInv
<1>4. CASE AuthorInitial
  <2>1. UNCHANGED <<plan, said, attempted>> /\ pc = "finalize" /\ role = "initial"
    BY <1>4 DEF AuthorInitial, Finalized
  <2>2. CASE Succeeds
    BY <1>4, <2>1, <2>2, InitialSound, SpecsGrow DEF AuthorInitial
  <2>3. CASE ~Succeeds BY <1>0, <1>4, <2>1, <2>3, SpecsStay DEF AuthorInitial
  <2> QED BY <2>2, <2>3
<1>5. CASE ApplyRefinement
  <2>1. /\ UNCHANGED <<plan, said>> /\ pc = "apply" /\ attempted' = attempted \cup {Fingerprint}
        /\ IF Accepted THEN Mint(Patched) ELSE specs' = specs
    BY <1>5 DEF ApplyRefinement, Accepted, Patched, PatchedLayers
  <2>2. CASE Accepted BY <2>1, <2>2, PatchSound, SpecsGrow
  <2>3. CASE ~Accepted
    <3>1. \A i \in DOMAIN specs : Sound(specs[i], specs, plan.layers, said, attempted')
      BY <2>1, StaysSound, GrownSame DEF SpecsInv
    <3> QED BY <2>1, <2>3, <3>1 DEF SpecsInv
  <2> QED BY <2>2, <2>3
<1>6. CASE Tune
  <2>1. /\ UNCHANGED <<plan, said, attempted>> /\ best \in DOMAIN specs /\ best # 0
    BY <1>6 DEF Tune, WorkInv
  <2>2. PICK i \in DOMAIN specs[best].layers, v \in Vals :
          /\ specs[best].layers[i].val # v
          /\ Mint([side |-> specs[best].side,
                   layers |-> [specs[best].layers EXCEPT ![i] = [@ EXCEPT !.val = v]],
                   derived |-> best, author |-> specs[best].author])
    BY <1>6 DEF Tune
  <2> QED BY <2>1, <2>2, TuneSound, SpecsGrow
<1>7. CASE Judge \/ Refine \/ UNCHANGED vars
  BY <1>0, <1>7, SpecsStay DEF Judge, Refine, vars, work
<1> QED BY <1>1, <1>2, <1>3, <1>4, <1>5, <1>6, <1>7 DEF Next

(* Every step keeps what the author relies on.                               *)
LEMMA WorkStep ==
  ASSUME LineageInv, [Next]_vars
  PROVE  WorkInv'
<1> USE DEF LineageInv
<1>0. IsSeq(specs) BY DEF SpecsInv
<1>1. CASE InvokeOriginal \/ InvokeRepair
  BY <1>1 DEF InvokeOriginal, InvokeRepair, work, WorkInv
<1>2. CASE ParseOriginal \/ ParseRepair
  BY <1>2 DEF ParseOriginal, ParseRepair, ParserRaises, work, WorkInv
<1>3. CASE AuthorLayerPlan
  <2>1. UNCHANGED <<specs, best>> /\ role = "plan" /\ specs = <<>> /\ best = 0 /\ pc = "finalize"
        /\ pc' \in {"author", "over"}
    BY <1>3 DEF AuthorLayerPlan, Finalized, WorkInv
  <2>2. CASE Succeeds
    <3>1. plan' = [layers |-> value, call |-> Identity, repair |-> RepairContext]
          /\ role' = "initial"
      BY <1>3, <2>2 DEF AuthorLayerPlan
    <3>2. value \in Plans /\ PlanOk(value)
      BY <2>1, <2>2, Credited DEF Understood, Shaped, Parses
    <3>3. DOMAIN value = 1..Len(value) BY <3>2, TextAssumption
    <3>4. plan'.layers = value BY <3>1
    <3> QED BY <2>1, <3>1, <3>2, <3>3, <3>4 DEF WorkInv, PlanOk
  <2>3. CASE ~Succeeds BY <1>3, <2>1, <2>3 DEF AuthorLayerPlan, WorkInv
  <2> QED BY <2>2, <2>3
<1>4. CASE AuthorInitial
  <2>1. UNCHANGED <<plan, best, role>> /\ role = "initial" /\ pc' \in {"judge", "over"}
    BY <1>4 DEF AuthorInitial
  <2>2. Grown(specs, specs') /\ (pc' = "judge" => candidate' \in DOMAIN specs')
    BY <1>0, <1>4, Minted, GrownSame DEF AuthorInitial
  <2> QED BY <2>1, <2>2 DEF WorkInv, Grown
<1>5. CASE AuthorRefinement
  BY <1>5 DEF AuthorRefinement, WorkInv
<1>6. CASE ApplyRefinement
  <2>1. UNCHANGED <<plan, best, role>> /\ pc = "apply" /\ pc' \in {"judge", "decide"}
    BY <1>6 DEF ApplyRefinement
  <2>2. Grown(specs, specs') /\ (pc' = "judge" => candidate' \in DOMAIN specs')
    BY <1>0, <1>6, Minted, GrownSame DEF ApplyRefinement
  <2> QED BY <2>1, <2>2 DEF WorkInv, Grown
<1>7. CASE Judge
  <2>1. UNCHANGED <<plan, specs, role>> /\ best' \in {best, candidate} /\ pc = "judge"
        /\ pc' \in {"decide", "over"}
    BY <1>7 DEF Judge
  <2>2. candidate \in DOMAIN specs /\ 0 \notin DOMAIN specs BY <1>0, <2>1, Appended DEF WorkInv
  <2> QED BY <2>1, <2>2 DEF WorkInv
<1>8. CASE Tune
  <2>1. UNCHANGED <<plan, role, pc>> /\ pc = "decide" /\ best' = candidate'
    BY <1>8 DEF Tune, turn
  <2>2. candidate' \in DOMAIN specs' /\ candidate' # 0 BY <1>0, <1>8, Minted DEF Tune
  <2> QED BY <2>1, <2>2 DEF WorkInv
<1>9. CASE Refine BY <1>9 DEF Refine, work, WorkInv
<1>10. CASE UNCHANGED vars BY <1>10 DEF vars, turn, work, WorkInv
<1> QED BY <1>1, <1>2, <1>3, <1>4, <1>5, <1>6, <1>7, <1>8, <1>9, <1>10 DEF Next

(* Every step keeps the patch in hand signed by its call.                     *)
LEMMA PatchStep ==
  ASSUME LineageInv, [Next]_vars
  PROVE  PatchInv'
<1> USE DEF LineageInv, PatchInv
<1>1. CASE InvokeOriginal \/ InvokeRepair BY <1>1 DEF InvokeOriginal, InvokeRepair
<1>2. CASE ParseOriginal \/ ParseRepair BY <1>2 DEF ParseOriginal, ParseRepair, ParserRaises
<1>3. CASE AuthorLayerPlan \/ AuthorInitial BY <1>3 DEF AuthorLayerPlan, AuthorInitial
<1>4. CASE AuthorRefinement
  <2>1. /\ UNCHANGED <<said, best>> /\ pc = "finalize" /\ role = "refine"
    BY <1>4 DEF AuthorRefinement, Finalized
  <2>2. CASE Succeeds
    <3>1. /\ Understood(value) /\ Signs(Identity, RepairContext, value, said)
      BY <2>1, <2>2, Credited
    <3>2. /\ patch' = value
          /\ signature' = [role |-> "refine", call |-> Identity, repair |-> RepairContext,
                           parent |-> best]
      BY <1>4, <2>2 DEF AuthorRefinement
    <3>3. /\ signature'.call = Identity /\ signature'.repair = RepairContext
          /\ signature'.role = "refine" /\ signature'.parent = best
      BY <3>2
    <3> QED BY <2>1, <3>1, <3>2, <3>3 DEF Understood, Shaped
  <2>3. CASE ~Succeeds BY <1>4, <2>3 DEF AuthorRefinement
  <2> QED BY <2>2, <2>3
<1>5. CASE ApplyRefinement \/ Judge \/ Tune \/ Refine
  BY <1>5 DEF ApplyRefinement, Judge, Tune, Refine, turn
<1>6. CASE UNCHANGED vars BY <1>6 DEF vars, turn, work
<1> QED BY <1>1, <1>2, <1>3, <1>4, <1>5, <1>6 DEF Next

(* A new spec that is a refinement was not reached before: the patch that     *)
(* led there would be remembered.                                            *)
LEMMA PatchIsNew ==
  ASSUME SpecsInv, WorkInv, PatchInv, pc = "apply", Accepted, DetectDuplicates,
         NEW j \in DOMAIN specs, specs[j].derived = 0, specs[j].author.parent = best
  PROVE  specs[j].layers # PatchedLayers
<1> SUFFICES ASSUME specs[j].layers = PatchedLayers PROVE FALSE OBVIOUS
<1>1. best # 0 /\ patch.base = best BY OneTarget
<1>2. PICK i \in DOMAIN specs[best].layers :
        /\ specs[best].layers[i].id = patch.target /\ PatchedLayers[i] = patch.replacement
        /\ patch.replacement # specs[best].layers[i] /\ i \in DOMAIN PatchedLayers
  BY OneTarget
<1>3. Tried(specs[j], specs, attempted) BY DEF SpecsInv, Sound
<1>4. [base |-> best, target |-> specs[best].layers[i].id, replacement |-> PatchedLayers[i]]
        \in attempted
  BY <1>1, <1>2, <1>3 DEF Tried
<1>5. Fingerprint \in attempted BY <1>1, <1>2, <1>4 DEF Fingerprint
<1> QED BY <1>5 DEF Accepted, Refused

(* Every step keeps the refinements of one parent different.                  *)
LEMMA NewStep ==
  ASSUME LineageInv, [Next]_vars
  PROVE  NewInv'
<1> USE DEF LineageInv
<1>0. IsSeq(specs) BY DEF SpecsInv
<1>1. CASE specs' = specs BY <1>1 DEF NewInv
<1>2. ASSUME NEW content, Mint(content),
             content.derived # 0 \/ content.author.parent = 0
      PROVE  NewInv'
  <2>1. /\ Grown(specs, specs') /\ specs'[candidate'] = content
        /\ \A i \in DOMAIN specs' : i \in DOMAIN specs \/ i = candidate'
    BY <1>0, <1>2, Minted
  <2> QED BY <1>2, <2>1 DEF NewInv, Grown
<1>3. CASE InvokeOriginal \/ InvokeRepair
  BY <1>1, <1>3 DEF InvokeOriginal, InvokeRepair, work
<1>4. CASE ParseOriginal \/ ParseRepair
  BY <1>1, <1>4 DEF ParseOriginal, ParseRepair, ParserRaises, work
<1>5. CASE AuthorLayerPlan \/ AuthorRefinement
  BY <1>1, <1>5 DEF AuthorLayerPlan, AuthorRefinement
<1>6. CASE AuthorInitial BY <1>1, <1>2, <1>6 DEF AuthorInitial
<1>7. CASE ApplyRefinement
  <2>1. pc = "apply" /\ IF Accepted THEN Mint(Patched) ELSE specs' = specs
    BY <1>7 DEF ApplyRefinement, Accepted, Patched, PatchedLayers
  <2>2. CASE Accepted /\ specs' # specs /\ DetectDuplicates
    <3>1. /\ Grown(specs, specs') /\ specs'[candidate'] = Patched
          /\ \A i \in DOMAIN specs' : i \in DOMAIN specs \/ i = candidate'
      BY <1>0, <2>1, <2>2, Minted
    <3>2. Patched.layers = PatchedLayers /\ Patched.author.parent = best
      BY <2>1 DEF Patched, PatchInv
    <3>3. \A j \in DOMAIN specs : specs[j].derived = 0 /\ specs[j].author.parent = best
            => specs[j].layers # PatchedLayers
      BY <2>1, <2>2, PatchIsNew
    <3> QED BY <3>1, <3>2, <3>3 DEF NewInv, Grown
  <2>3. CASE ~DetectDuplicates BY <2>3 DEF NewInv
  <2> QED BY <1>1, <2>1, <2>2, <2>3
<1>8. CASE Tune
  <2>1. best # 0 BY <1>8 DEF Tune
  <2> QED BY <1>2, <1>8, <2>1 DEF Tune
<1>9. CASE Judge \/ Refine \/ UNCHANGED vars
  BY <1>1, <1>9 DEF Judge, Refine, vars, work
<1> QED BY <1>3, <1>4, <1>5, <1>6, <1>7, <1>8, <1>9 DEF Next

(* The lineage of all specs is sound in every state of every attempt.         *)
THEOREM LineageHolds == NoneIsApart => (Spec => [](IndInv /\ LineageInv))
<1> SUFFICES ASSUME NoneIsApart PROVE Spec => [](IndInv /\ LineageInv) OBVIOUS
<1>1. Init => LineageInv
  <2> SUFFICES ASSUME Init PROVE LineageInv OBVIOUS
  <2>1. IsSeq(<<>>) /\ DOMAIN <<>> = {} BY DEF IsSeq
  <2>2. specs = <<>> /\ said = <<>> /\ role = "plan" /\ pc = "author" /\ best = 0 BY DEF Init
  <2>3. TurnType BY <2>2 DEF TurnType, Nodes
  <2>4. SpecsInv /\ NewInv BY <2>1, <2>2 DEF SpecsInv, NewInv, AllDiffer
  <2>5. WorkInv /\ CallInv /\ PatchInv BY <2>1, <2>2 DEF WorkInv, CallInv, PatchInv
  <2> QED BY <2>3, <2>4, <2>5 DEF LineageInv
<1>2. IndInv /\ LineageInv /\ [Next]_vars => (IndInv /\ LineageInv)'
  <2> SUFFICES ASSUME IndInv, LineageInv, [Next]_vars PROVE (IndInv /\ LineageInv)' OBVIOUS
  <2>1. IndInv' BY StepInv
  <2>2. TurnType' BY <2>1 DEF IndInv
  <2>3. CallInv' BY CallStep DEF LineageInv
  <2> QED BY <2>1, <2>2, <2>3, SpecsStep, WorkStep, PatchStep, NewStep DEF LineageInv
<1> QED BY <1>1, <1>2, InitInv, PTL DEF Spec

(* apply_layer_patch and apply_uniform_patch: a refinement differs from its    *)
(* parent in one layer, which keeps its place, and a uniform move in values.  *)
THEOREM LayersChangeOneByOne == NoneIsApart => (Spec => []OneLayerAtATime)
<1>1. LineageInv => OneLayerAtATime
  <2> SUFFICES ASSUME LineageInv, NEW n \in DOMAIN specs,
                      specs[n].derived # 0 \/ specs[n].author.parent # 0
               PROVE  LET s == specs[n]
                          p == specs[IF s.derived # 0 THEN s.derived ELSE s.author.parent]
                      IN  \E i \in DOMAIN p.layers :
                            /\ s.side = p.side /\ DOMAIN s.layers = DOMAIN p.layers
                            /\ s.layers[i] # p.layers[i] /\ InPlace(s.layers[i], p.layers[i])
                            /\ \A j \in DOMAIN p.layers \ {i} : s.layers[j] = p.layers[j]
                            /\ s.derived # 0 => /\ s.author = p.author
                                                /\ s.layers[i] = [p.layers[i] EXCEPT !.val = s.layers[i].val]
    BY DEF OneLayerAtATime, Range
  <2>1. Descends(specs[n], specs) BY DEF LineageInv, SpecsInv, Sound
  <2> QED BY <2>1 DEF Descends, Retuned, OneLayer
<1> QED BY <1>1, LineageHolds, PTL

(* _assemble_spec: uniforms are not shared, the limits and the plan are kept,  *)
(* however a spec was patched or tuned.                                      *)
THEOREM SpecsAreWhole == NoneIsApart => (Spec => []SpecsStayWhole)
<1>1. LineageInv => SpecsStayWhole
  BY DEF LineageInv, SpecsInv, Sound, Placed, SpecsStayWhole, Range
<1> QED BY <1>1, LineageHolds, PTL

(* build_author_identity: the identity in a spec is that of the call which     *)
(* wrote its new layers, and the repair context that of the refused answer.   *)
THEOREM SpecsAreSigned == NoneIsApart => (Spec => []SignedByItsAuthor)
<1>1. LineageInv => SignedByItsAuthor
  <2> SUFFICES ASSUME LineageInv, NEW n \in DOMAIN specs, specs[n].derived = 0
               PROVE  LET s == specs[n]
                          text == said[s.author.call]
                      IN  /\ IF s.author.role = "initial"
                             THEN text = [side |-> s.side, layers |-> s.layers]
                             ELSE /\ text \notin {None, Garbled, Unhashable}
                                  /\ text.replacement \in Range(s.layers)
                          /\ s.author.repair # 0 => /\ s.author.repair = s.author.call - 1
                                                    /\ said[s.author.repair] # text
    BY DEF SignedByItsAuthor, Range
  <2>1. Authored(specs[n], said) BY DEF LineageInv, SpecsInv, Sound
  <2> QED BY <2>1 DEF Authored, Signs
<1> QED BY <1>1, LineageHolds, PTL

(* attempted_patch_fingerprints: where duplicates are detected, no refinement  *)
(* of a parent is made twice, and none is its parent again.                  *)
THEOREM PatchesAreTriedOnce == NoneIsApart => (Spec => []PatchesAreNew)
<1>1. LineageInv => PatchesAreNew
  <2> SUFFICES ASSUME LineageInv, DetectDuplicates,
                      NEW i \in DOMAIN specs, NEW j \in DOMAIN specs,
                      specs[i].derived = 0, specs[j].derived = 0, specs[i].author.parent # 0
               PROVE  /\ specs[i].layers # specs[specs[i].author.parent].layers
                      /\ (specs[i].author.parent = specs[j].author.parent
                            /\ specs[i].layers = specs[j].layers => i = j)
    BY DEF PatchesAreNew
  <2>1. Descends(specs[i], specs) BY DEF LineageInv, SpecsInv, Sound
  <2>2. specs[i].layers # specs[specs[i].author.parent].layers BY <2>1 DEF Descends, OneLayer
  <2> QED BY <2>2 DEF LineageInv, NewInv
<1> QED BY <1>1, LineageHolds, PTL

-----------------------------------------------------------------------------
(* Tokens.                                                                   *)
(*                                                                           *)
(* Each answer that names its token count is worth one token in the model, so *)
(* that a total that is known is a number of answers.                        *)

Answered(s) == Cardinality({n \in DOMAIN s : s[n] # None})

(* The answers of the call in progress.                                      *)
Here == IF pc \notin Calling THEN 0
        ELSE (IF response = None THEN 0 ELSE 1) + (IF repaired = None THEN 0 ELSE 1)

AllKnown == \A l \in DOMAIN Budget : tokens[l] # Unknown

TokenInv ==
    /\ tokens \in [DOMAIN Budget -> Nat \cup {Unknown}] /\ known \in Nat \cup {Unknown}
    /\ pc \in Calling => (known # Unknown => known = Here) /\ (calls = 0 => Here = 0)
    /\ pc # "over" /\ AllKnown => tokens["plan"] + tokens["direct"] + Here = Answered(said)

(* The answers can be counted.                                               *)
LEMMA AnsweredIs ==
  ASSUME NEW s, IsSeq(s)
  PROVE  IsFiniteSet({n \in DOMAIN s : s[n] # None}) /\ Answered(s) \in Nat
<1>1. DOMAIN s = 1..Len(s) /\ Len(s) \in Nat BY Appended
<1>2. IsFiniteSet(1..Len(s)) BY <1>1, FS_Interval
<1>3. IsFiniteSet({n \in DOMAIN s : s[n] # None}) BY <1>1, <1>2, FS_Subset
<1> QED BY <1>3, FS_CardinalityType DEF Answered

(* One more text, or one more failed call.                                   *)
LEMMA AnsweredMore ==
  ASSUME NEW s, IsSeq(s), NEW text
  PROVE  Answered(Append(s, text)) = IF text = None THEN Answered(s) ELSE Answered(s) + 1
<1> DEFINE A == {n \in DOMAIN s : s[n] # None}
           B == {n \in DOMAIN Append(s, text) : Append(s, text)[n] # None}
<1>1. /\ DOMAIN Append(s, text) = DOMAIN s \cup {Len(s) + 1} /\ Len(s) + 1 \notin DOMAIN s
      /\ Append(s, text)[Len(s) + 1] = text /\ \A i \in DOMAIN s : Append(s, text)[i] = s[i]
  BY Appended DEF Grown
<1>2. Answered(s) = Cardinality(A) /\ Answered(Append(s, text)) = Cardinality(B) /\ IsFiniteSet(A)
  BY AnsweredIs DEF Answered
<1>3. CASE text = None
  <2>1. B = A BY <1>1, <1>3
  <2> QED BY <1>2, <1>3, <2>1
<1>4. CASE text # None
  <2>1. B = A \cup {Len(s) + 1} /\ Len(s) + 1 \notin A BY <1>1, <1>4
  <2> HIDE DEF A, B
  <2>2. Cardinality(A \cup {Len(s) + 1}) = Cardinality(A) + 1 BY <1>2, <2>1, FS_AddElement
  <2> QED BY <1>2, <1>4, <2>1, <2>2
<1> QED BY <1>3, <1>4

(* Every step keeps the totals true.                                         *)
LEMMA TokenStep ==
  ASSUME NoneIsApart, IndInv, CallInv, TokenInv, [Next]_vars
  PROVE  TokenInv'
<1> USE DEF TokenInv
<1>0. /\ TurnType /\ IsSeq(said) /\ Answered(said) \in Nat
      /\ DOMAIN Budget = {"plan", "direct"} /\ Ledger \in DOMAIN Budget
  BY AnsweredIs, AuthorAssumption, LedgerIs DEF IndInv, CallInv
<1>1. \A answer : Tokens(answer) \in {1, Unknown} BY DEF Tokens
<1>2. CASE InvokeOriginal
  <2>1. UNCHANGED tokens /\ repaired' = None /\ pc = "author" /\ pc' \in {"parse", "finalize"}
    BY <1>2 DEF InvokeOriginal, ledgers
  <2>2. CASE response' = None /\ known' = Unknown /\ (said' = said \/ said' = Append(said, None))
    <3>1. Answered(Append(said, None)) = Answered(said) BY <1>0, AnsweredMore
    <3>2. Answered(said') = Answered(said)
      <4>1. CASE said' = said BY <4>1
      <4>2. CASE said' = Append(said, None) BY <3>1, <4>2
      <4> QED BY <2>2, <4>1, <4>2
    <3> QED BY <1>0, <2>1, <2>2, <3>2 DEF Here, Calling, AllKnown
  <2>3. CASE calls' = 1 /\ \E answer \in Answers : /\ CallAnswers(answer) /\ response' = answer
                                                   /\ known' = Tokens(answer)
    <3>1. PICK answer \in Answers : /\ CallAnswers(answer) /\ response' = answer
                                    /\ known' = Tokens(answer)
      BY <2>3
    <3>2. response' # None /\ answer.text # None BY <1>0, <3>1, AnswersAre
    <3>3. Answered(said') = Answered(said) + 1 BY <1>0, <3>1, <3>2, AnsweredMore DEF CallAnswers
    <3> QED BY <1>0, <1>1, <2>1, <2>3, <3>1, <3>2, <3>3 DEF Here, Calling, AllKnown, Unknown
  <2> QED BY <1>2, <2>2, <2>3 DEF InvokeOriginal, CallFails
<1>3. CASE ParserRaises(response) \/ ParserRaises(repaired)
  BY <1>3 DEF ParserRaises, local, Calling
<1>4. CASE (ParseOriginal /\ ~ParserRaises(response)) \/ (ParseRepair /\ ~ParserRaises(repaired))
  <2>1. /\ UNCHANGED <<tokens, known, calls, response, repaired, said>>
        /\ pc \in Calling /\ pc' \in Calling
    BY <1>4 DEF ParseOriginal, ParseRepair, ledgers, Calling
  <2> QED BY <2>1 DEF Here, AllKnown, Calling
<1>5. CASE InvokeRepair
  <2>1. /\ UNCHANGED <<tokens, response>> /\ pc = "repair" /\ pc' \in {"parse_repair", "finalize"}
        /\ calls' = calls + 1 /\ repaired = None /\ response # None /\ calls = 1
    BY <1>5 DEF InvokeRepair, ledgers, CallInv, Heard, IndInv, CallBounded, Calling
  <2>2. CASE said' = Append(said, None) /\ UNCHANGED <<repaired, known>>
    <3>1. Answered(said') = Answered(said) BY <1>0, <2>2, AnsweredMore
    <3> QED BY <1>0, <2>1, <2>2, <3>1 DEF Here, Calling, AllKnown
  <2>3. CASE \E answer \in Answers : /\ CallAnswers(answer) /\ repaired' = answer
                                     /\ known' = RepairTokens(answer)
    <3>1. PICK answer \in Answers : /\ CallAnswers(answer) /\ repaired' = answer
                                    /\ known' = RepairTokens(answer)
      BY <2>3
    <3>2. repaired' # None /\ answer.text # None BY <1>0, <3>1, AnswersAre
    <3>3. Answered(said') = Answered(said) + 1 BY <1>0, <3>1, <3>2, AnsweredMore DEF CallAnswers
    <3>4. Here = 1 /\ Here' = 2 BY <2>1, <3>2 DEF Here, Calling
    <3>5. /\ known' \in Nat \cup {Unknown} /\ (known' # Unknown => known' = 2)
      <4>1. known \in {1, Unknown} BY <2>1, <3>4 DEF Calling
      <4> QED BY <1>1, <3>1, <4>1 DEF RepairTokens, Unknown
    <3> QED BY <1>0, <2>1, <3>3, <3>4, <3>5 DEF AllKnown
  <2> QED BY <1>5, <2>2, <2>3 DEF InvokeRepair, CallFails
<1>6. CASE AuthorLayerPlan \/ AuthorInitial \/ AuthorRefinement
  <2>1. Finalized /\ UNCHANGED said /\ pc' \notin Calling
    BY <1>6 DEF AuthorLayerPlan, AuthorInitial, AuthorRefinement, Calling
  <2>2. /\ pc = "finalize" /\ known' = Unknown
        /\ tokens' = [tokens EXCEPT ![Ledger] = IF calls = 0 THEN @ ELSE IF Unknown \in {@, known}
                                                THEN Unknown ELSE @ + known]
    BY <2>1 DEF Finalized, Book
  <2>3. tokens' \in [DOMAIN Budget -> Nat \cup {Unknown}] BY <1>0, <2>2 DEF Unknown
  <2>4. Here' = 0 BY <2>1 DEF Here
  <2>5. ASSUME AllKnown'
        PROVE  tokens'["plan"] + tokens'["direct"] = Answered(said)
    <3>1. AllKnown
      BY <1>0, <2>2, <2>5 DEF AllKnown
    <3>2. tokens["plan"] + tokens["direct"] + Here = Answered(said) /\ Here \in Nat
      BY <2>2, <3>1 DEF Here
    <3>3. CASE calls = 0
      <4>1. Here = 0 BY <2>2, <3>3 DEF Calling
      <4> QED BY <1>0, <2>2, <3>1, <3>2, <3>3, <4>1 DEF AllKnown, Unknown
    <3>4. CASE calls # 0
      <4>1. known # Unknown /\ known = Here
        BY <1>0, <2>2, <2>5, <3>4 DEF AllKnown, Calling
      <4>2. tokens' = [tokens EXCEPT ![Ledger] = @ + Here]
        BY <1>0, <2>2, <3>1, <3>4, <4>1 DEF AllKnown
      <4> QED BY <1>0, <3>1, <3>2, <4>2 DEF AllKnown, Unknown
    <3> QED BY <3>3, <3>4
  <2>6. Answered(said') = Answered(said) BY <2>1
  <2> QED BY <1>0, <2>1, <2>2, <2>3, <2>4, <2>5, <2>6 DEF Unknown, AllKnown
<1>7. CASE ApplyRefinement \/ Judge \/ Tune \/ Refine
  <2>1. UNCHANGED <<tokens, known, said>> /\ pc \notin Calling /\ pc' \notin Calling /\ pc # "over"
    BY <1>7 DEF ApplyRefinement, Judge, Tune, Refine, turn, local, ledgers, Calling
  <2> QED BY <2>1 DEF Here, AllKnown
<1>8. CASE UNCHANGED vars
  <2>1. UNCHANGED <<tokens, known, said, pc, response, repaired, calls>>
    BY <1>8 DEF vars, turn, local, ledgers
  <2> QED BY <2>1 DEF Here, AllKnown
<1> QED
  BY <1>2, <1>3, <1>4, <1>5, <1>6, <1>7, <1>8 DEF Next, ParseOriginal, ParseRepair

(* accumulate_token_usage: a total that is known counts every answer that was  *)
(* booked, whatever was repaired, refused or failed.                         *)
THEOREM KnownTokensAreAnswers == NoneIsApart => (Spec => []TokensCountAnswers)
<1> SUFFICES ASSUME NoneIsApart PROVE Spec => []TokensCountAnswers OBVIOUS
<1>1. Init => TokenInv
  <2> SUFFICES ASSUME Init PROVE TokenInv OBVIOUS
  <2>1. /\ tokens = [l \in DOMAIN Budget |-> 0] /\ known = Unknown /\ pc = "author" /\ said = <<>>
    BY DEF Init
  <2>2. Answered(said) = 0
    <3>1. {n \in DOMAIN said : said[n] # None} = {} BY <2>1
    <3> QED BY <3>1, FS_EmptySet DEF Answered
  <2>3. DOMAIN Budget = {"plan", "direct"} BY AuthorAssumption
  <2> QED BY <2>1, <2>2, <2>3 DEF TokenInv, Here, Calling, Unknown
<1>2. IndInv /\ LineageInv /\ TokenInv /\ [Next]_vars => TokenInv'
  BY TokenStep DEF LineageInv
<1>3. TokenInv => TokensCountAnswers
  <2> SUFFICES ASSUME TokenInv, pc = "author", Unknown \notin Range(tokens)
               PROVE  tokens["plan"] + tokens["direct"]
                        = Cardinality({n \in DOMAIN said : said[n] # None})
    BY DEF TokensCountAnswers
  <2>1. DOMAIN Budget = {"plan", "direct"} BY AuthorAssumption
  <2>2. AllKnown BY DEF AllKnown, TokenInv, Range
  <2>3. Here = 0 BY DEF Here, Calling
  <2>4. tokens["plan"] \in Nat /\ tokens["direct"] \in Nat BY <2>1, <2>2 DEF TokenInv, AllKnown
  <2> QED BY <2>2, <2>3, <2>4 DEF TokenInv, Answered
<1> QED BY <1>1, <1>2, <1>3, LineageHolds, PTL DEF Spec
=============================================================================
