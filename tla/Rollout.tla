------------------------------- MODULE Rollout -------------------------------
(***************************************************************************)
(* What a parent rollout promises, without its attempts' inner life: each  *)
(* execution of a run makes at most AttemptLimit tries one after another,  *)
(* stops at the first that succeeds, and answers "ok" only for the bundle  *)
(* that this try committed.  The bundle is committed at most once, by a    *)
(* winning try, whatever became of the execution it belonged to.           *)
(* ParentRollout implements this.                                          *)
(***************************************************************************)
EXTENDS Naturals

CONSTANTS AttemptLimit,    \* direct_attempt_limit
          Executions,      \* how often one run id may be executed
          None

VARIABLES execution,       \* the current or latest execution, 0 before the first
          active,          \* whether it is still running
          tries,           \* the tries it has finished
          winners,         \* the <<execution, try>> that succeeded
          bundle,          \* the winner whose bundle was committed, or None
          answers          \* the answer of every execution

vars == <<execution, active, tries, winners, bundle, answers>>

Init ==
    /\ execution = 0 /\ active = FALSE /\ tries = 0
    /\ winners = {} /\ bundle = None
    /\ answers = [e \in 1 .. Executions |-> None]

Last == <<execution, tries - 1>>
Won  == Last \in winners

Begin ==
    /\ ~active /\ execution < Executions
    /\ execution' = execution + 1 /\ active' = TRUE /\ tries' = 0
    /\ UNCHANGED <<winners, bundle, answers>>

Try ==
    /\ active /\ ~Won /\ tries < AttemptLimit
    /\ tries' = tries + 1
    /\ winners' \in {winners, winners \cup {<<execution, tries>>}}
    /\ UNCHANGED <<execution, active, bundle, answers>>

Commit ==
    /\ bundle = None
    /\ bundle' \in winners
    /\ UNCHANGED <<execution, active, tries, winners, answers>>

Answer(value) ==
    /\ active /\ active' = FALSE
    /\ answers' = [answers EXCEPT ![execution] = value]
    /\ UNCHANGED <<execution, tries, winners, bundle>>

Succeed == Won /\ bundle = Last /\ Answer("ok")
Exhaust == ~Won /\ tries = AttemptLimit /\ Answer("direct_attempts_failed")
Refuse  == Won /\ Answer("parent_artifact_publish_failed")
\* Refuse may come with the commit: the last check of a committed bundle failed.
RefuseCommitted ==
    /\ active /\ Won /\ bundle = None
    /\ bundle' = Last
    /\ active' = FALSE
    /\ answers' = [answers EXCEPT ![execution] = "parent_artifact_publish_failed"]
    /\ UNCHANGED <<execution, tries, winners>>
Abort   == \E value \in {"cancelled", "lost"} : Answer(value)

Next == Begin \/ Try \/ Commit \/ Succeed \/ Exhaust \/ Refuse \/ RefuseCommitted \/ Abort

Spec == Init /\ [][Next]_vars
=============================================================================
