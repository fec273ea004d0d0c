----------------------------- MODULE AuthorContract -----------------------------
(***************************************************************************)
(* What a structured author promises the attempt that asks it: an answer   *)
(* takes one model call or two, never more than its ledger has left, and   *)
(* none at all exactly when nothing is left.  It ends with a value or with *)
(* one failure code.  An answer whose JSON the parsers cannot even look at *)
(* raises instead, and nothing is booked.                                  *)
(***************************************************************************)
EXTENDS Integers

CONSTANTS Budget       \* calls a ledger may spend, per ledger: "plan", "direct"

VARIABLES spent,       \* calls booked, per ledger
          outcome      \* how the last author ended

Ledgers == {"plan", "direct"}
Values == {"value"}
Failures == {"llm_transient_failure", "llm_invocation_failed", "author_output_invalid",
             "author_identity_unavailable"}

ContractInit ==
    /\ spent = [l \in Ledgers |-> 0]
    /\ outcome = "none"

Answer(l) ==
    LET left == Budget[l] - spent[l]
    IN  /\ outcome # "raised"
        /\ \/ /\ left = 0 /\ UNCHANGED spent
              /\ outcome' = "llm_budget_exhausted"
           \/ \E n \in {1, 2} :
                /\ n <= left
                /\ spent' = [spent EXCEPT ![l] = @ + n]
                /\ outcome' \in Values \cup Failures

Raise == outcome' = "raised" /\ UNCHANGED spent

ContractSpec == ContractInit /\ [][(\E l \in Ledgers : Answer(l)) \/ Raise]_<<spent, outcome>>
=============================================================================
