---------------------------- MODULE ParentRollout ----------------------------
(***************************************************************************)
(* The parent rollout of one run id: the LangGraph of                      *)
(* backend/app/services/engine_rollout_graph.py, whose execute_attempt     *)
(* drives DirectEngineAttemptExecutor (engine_rollout_runtime.py), and the *)
(* publication of the selected attempt (local_artifacts.py).               *)
(*                                                                         *)
(* Disk work runs in worker threads (asyncio.to_thread): a coroutine whose *)
(* attempt times out, or which is cancelled, stops waiting for its thread, *)
(* but the thread goes on.  The same run id may be executed again, after a *)
(* finished execution or a restart of the process, on the same directories *)
(* (progress.begin allows it, and the ledger that would refuse it is       *)
(* optional).  What the attempt inside the executor does is DirectAttempt. *)
(***************************************************************************)
EXTENDS Naturals, Sequences

CONSTANTS AttemptLimit,    \* direct_attempt_limit, 1..3
          Executions,      \* bound: how often the run id is executed
          None             \* Python's None

ASSUME RolloutAssumption ==
    /\ AttemptLimit \in Nat \ {0}
    /\ Executions \in Nat
    /\ None \notin Nat /\ None \notin Nat \X Nat /\ None # "ok"

VARIABLES
    execution,             \* the current or latest execution of the run id
    pc,                    \* where its coroutine is
    index, success, refs, selected,           \* EngineParentState, failure codes left out
    claimed,               \* the executor's local flag
    cancelled,             \* the parent coroutine is being cancelled
    threads,               \* worker threads at work, awaited or not
    dirs,                  \* who made each attempt's private directory, 0 for nobody
    evidence,              \* manifests and failure summaries in those directories
    open, abandoned,       \* executors not closed, and those whose close failed
    bundle, indexed,       \* the public final directory, and its run index entry
    won,                   \* history: the attempts recorded as succeeded
    answers                \* history: what each execution returned or raised

stateVars == <<index, success, refs, selected>>
diskVars  == <<dirs, evidence, bundle, indexed>>
execVars  == <<open, abandoned>>
vars == <<execution, pc, stateVars, claimed, cancelled, threads, diskVars, execVars,
          won, answers>>

Attempts == 0 .. AttemptLimit - 1
Runs     == 1 .. Executions

\* A thread, and the pc of the coroutine that waits for it.
Thread(kind) == [kind |-> kind, attempt |-> index, execution |-> execution]
PcOf(kind)   == CASE kind = "manifest" -> "persist"
                  [] kind = "register" -> "publish"
                  [] OTHER             -> kind
Awaited(t)   == pc = PcOf(t.kind) /\ index = t.attempt /\ execution = t.execution
Finished(t)  == threads' = threads \ {t}
Becomes(t, kind) == threads' = (threads \ {t}) \cup {[t EXCEPT !.kind = kind]}

Init ==
    /\ execution = 0 /\ pc = "idle"
    /\ index = 0 /\ success = FALSE /\ refs = <<>> /\ selected = None
    /\ claimed = FALSE /\ cancelled = FALSE
    /\ threads = {}
    /\ dirs = [a \in Attempts |-> 0] /\ evidence = {}
    /\ open = {} /\ abandoned = {}
    /\ bundle = None /\ indexed = FALSE
    /\ won = {} /\ answers = [e \in Runs |-> None]

Answer(value) ==
    /\ pc' = "idle"
    /\ answers' = [answers EXCEPT ![execution] = value]

\* initialize_parent of the next execution of the run id.
InitializeParent ==
    /\ pc = "idle" /\ execution < Executions
    /\ execution' = execution + 1
    /\ pc' = "create"
    /\ index' = 0 /\ success' = FALSE /\ refs' = <<>> /\ selected' = None
    /\ claimed' = FALSE /\ cancelled' = FALSE
    /\ UNCHANGED <<threads, diskVars, execVars, won, answers>>
-----------------------------------------------------------------------------
(* execute_attempt, with DirectEngineAttemptExecutor.execute inlined.      *)

\* A factory that raises leaves no executor to close.
CreateExecutor ==
    /\ pc = "create"
    /\ claimed' = FALSE
    /\ \/ /\ open' = open \cup {<<execution, index>>}
          /\ pc' = "claim" /\ threads' = threads \cup {Thread("claim")}
       \/ pc' = "record" /\ UNCHANGED <<open, threads>>
    /\ UNCHANGED <<execution, stateVars, cancelled, diskVars, abandoned, won, answers>>

\* Mutant of Fail: the summary is written whether or not the claim succeeded.
FailUnclaimed(others) == pc' = "summary" /\ threads' = others \cup {Thread("summary")}

\* The executor's except clauses: only a claimed attempt gets a failure summary.
Fail(others) == IF claimed
                THEN pc' = "summary" /\ threads' = others \cup {Thread("summary")}
                ELSE pc' = "close"   /\ threads' = others

\* A failing thread raises in the coroutine that awaits it, or in nobody.
RaiseIn(t) == IF Awaited(t) THEN Fail(threads \ {t}) ELSE Finished(t) /\ UNCHANGED pc

ThreadFrame == UNCHANGED <<execution, stateVars, cancelled, execVars, won>>

\* _claim_private_attempt: mkdir decides who owns the directory; mkdir itself or
\* the register_run after it may fail, and then nobody considers it claimed.
ClaimThread(t) ==
    /\ t.kind = "claim"
    /\ \/ /\ dirs[t.attempt] # 0
          /\ RaiseIn(t)
          /\ UNCHANGED <<dirs, claimed>>
       \/ /\ dirs[t.attempt] = 0
          /\ dirs' = [dirs EXCEPT ![t.attempt] = t.execution]
          /\ IF Awaited(t) THEN claimed' = TRUE /\ pc' = "run" ELSE UNCHANGED <<claimed, pc>>
          /\ Finished(t)
       \/ /\ dirs[t.attempt] = 0
          /\ dirs' \in {dirs, [dirs EXCEPT ![t.attempt] = t.execution]}
          /\ RaiseIn(t)
          /\ UNCHANGED claimed
    /\ ThreadFrame /\ UNCHANGED <<evidence, bundle, indexed, answers>>

\* runner.run and the response made of its result: the outcome of DirectAttempt.
RunAttempt ==
    /\ pc = "run"
    /\ \/ /\ pc' = "persist" /\ threads' = threads \cup {Thread("persist")}
       \/ Fail(threads)
    /\ UNCHANGED <<execution, stateVars, claimed, cancelled, diskVars, execVars, won, answers>>

\* _write_private_success up to its last file, the manifest.
PersistThread(t) ==
    /\ t.kind = "persist"
    /\ \/ Becomes(t, "manifest") /\ UNCHANGED pc
       \/ RaiseIn(t)
    /\ ThreadFrame /\ UNCHANGED <<claimed, diskVars, answers>>

\* write_bytes replaces the file before its last fsync, which may still raise.
Written(t) == evidence \cup {<<t.kind, t.attempt, t.execution>>}

\* Mutant of ManifestThread: a failing write is logged and suppressed.
ManifestSuppressed(t) ==
    /\ t.kind = "manifest"
    /\ evidence' \in {evidence, Written(t)}
    /\ pc' = IF Awaited(t) THEN "validate" ELSE pc
    /\ Finished(t)
    /\ ThreadFrame /\ UNCHANGED <<claimed, dirs, bundle, indexed, answers>>

ManifestThread(t) ==
    /\ t.kind = "manifest"
    /\ \/ /\ evidence' = Written(t)
          /\ pc' = IF Awaited(t) THEN "validate" ELSE pc
          /\ Finished(t)
       \/ /\ evidence' \in {evidence, Written(t)}
          /\ RaiseIn(t)
    /\ ThreadFrame /\ UNCHANGED <<claimed, dirs, bundle, indexed, answers>>

\* _write_private_failure; if it raises, the attempt fails all the same.
SummaryThread(t) ==
    /\ t.kind = "summary"
    /\ Finished(t)
    /\ pc' = IF Awaited(t) THEN "close" ELSE pc
    /\ evidence' \in {evidence, Written(t)}
    /\ ThreadFrame /\ UNCHANGED <<claimed, dirs, bundle, indexed, answers>>

\* _validate_success of what the executor returned.
ValidateSuccess ==
    /\ pc = "validate"
    /\ success' \in BOOLEAN
    /\ pc' = "close"
    /\ UNCHANGED <<execution, index, refs, selected, claimed, cancelled, threads, diskVars,
                   execVars, won, answers>>

\* Mutant of Timed: the executor's own run is not under the timeout.
TimedDisk == {"claim", "persist", "summary"}

\* The awaits of the executor, all under the attempt's one timeout.
Timed == {"claim", "run", "persist", "summary"}

\* asyncio.wait_for gives up: the thread that was awaited goes on without it.
AttemptTimeout ==
    /\ pc \in Timed
    /\ pc' = "close"
    /\ UNCHANGED <<execution, stateVars, claimed, cancelled, threads, diskVars, execVars,
                   won, answers>>

\* Mutant of CloseExecutor: a cancelled attempt is not closed.
CloseIfNotCancelled ==
    /\ pc = "close"
    /\ open' = IF cancelled THEN open ELSE open \ {<<execution, index>>}
    /\ IF cancelled THEN Answer("cancelled") ELSE pc' = "record" /\ UNCHANGED answers
    /\ UNCHANGED <<execution, stateVars, claimed, cancelled, threads, diskVars,
                   abandoned, won>>

\* The finally block: close may fail or time out, which is logged and suppressed.
CloseExecutor ==
    /\ pc = "close"
    /\ \/ open' = open \ {<<execution, index>>} /\ UNCHANGED abandoned
       \/ abandoned' = abandoned \cup {<<execution, index>>} /\ UNCHANGED open
    /\ IF cancelled THEN Answer("cancelled") ELSE pc' = "record" /\ UNCHANGED answers
    /\ UNCHANGED <<execution, stateVars, claimed, cancelled, threads, diskVars, won>>
-----------------------------------------------------------------------------
(* Retry, publication and the end.                                         *)

\* Mutant of Route: one attempt too few.
RouteEarly == IF selected' # None THEN "publish"
              ELSE IF index + 2 < AttemptLimit THEN "retry" ELSE "finalize"

\* route_after_outcome of the state that record_attempt_outcome leaves.
Route == IF selected' # None THEN "publish"
         ELSE IF index + 1 < AttemptLimit THEN "retry" ELSE "finalize"

\* publish_parent starts its thread at once.
RecordOutcome ==
    /\ pc = "record"
    /\ refs' = Append(refs, IF success THEN "succeeded" ELSE "failed")
    /\ selected' = IF success THEN index ELSE selected
    /\ won' = IF success THEN won \cup {<<execution, index>>} ELSE won
    /\ pc' = Route
    /\ threads' = IF pc' = "publish" THEN threads \cup {Thread("publish")} ELSE threads
    /\ UNCHANGED <<execution, index, success, claimed, cancelled, diskVars, execVars,
                   answers>>

PrepareRetry ==
    /\ pc = "retry"
    /\ index' = index + 1 /\ success' = FALSE
    /\ pc' = "create"
    /\ UNCHANGED <<execution, refs, selected, claimed, cancelled, threads, diskVars, execVars,
                   won, answers>>

PublishFails(t) ==
    /\ Finished(t)
    /\ IF Awaited(t) THEN Answer("parent_artifact_publish_failed") ELSE UNCHANGED <<pc, answers>>

\* Mutant of PublishThread: the run is indexed before the rename.
PublishIndexedFirst(t) ==
    /\ t.kind = "publish"
    /\ indexed' = TRUE
    /\ \/ /\ bundle = None /\ bundle' = <<t.execution, t.attempt>>
          /\ Becomes(t, "register") /\ UNCHANGED <<pc, answers>>
       \/ UNCHANGED bundle /\ PublishFails(t)
    /\ ThreadFrame /\ UNCHANGED <<claimed, dirs, evidence>>

\* Mutant of Verified: an existing bundle is taken as published.
VerifiedPresent(t) == bundle # None

\* _verify_final_directory reads the public directory, whole and unchanged while it
\* is read, and compares it with the files to publish; manifest.json names the
\* attempts, so that no other attempt's bundle is equal.
Verified(t) == bundle = <<t.execution, t.attempt>>

\* publish_public_final_bundle commits by renaming the staging directory, and then
\* compares what is there.  Disk errors strike before or after the rename.
PublishThread(t) ==
    /\ t.kind = "publish"
    /\ \/ /\ bundle' = IF bundle = None THEN <<t.execution, t.attempt>> ELSE bundle
          /\ Verified(t)'
          /\ Becomes(t, "register") /\ UNCHANGED <<pc, answers>>
       \/ /\ bundle' \in {bundle, IF bundle = None THEN <<t.execution, t.attempt>> ELSE bundle}
          /\ PublishFails(t)
    /\ ThreadFrame /\ UNCHANGED <<claimed, dirs, evidence, indexed>>

\* Only then is the run entered into the public index, and compared once more.
RegisterThread(t) ==
    /\ t.kind = "register"
    /\ \/ /\ indexed' = TRUE /\ Verified(t)
          /\ pc' = IF Awaited(t) THEN "finalize" ELSE pc
          /\ Finished(t) /\ UNCHANGED answers
       \/ indexed' \in {indexed, TRUE} /\ PublishFails(t)
    /\ ThreadFrame /\ UNCHANGED <<claimed, dirs, evidence, bundle>>

FinalizeParent ==
    /\ pc = "finalize"
    /\ Answer(IF selected = None THEN "direct_attempts_failed" ELSE "ok")
    /\ UNCHANGED <<execution, stateVars, claimed, cancelled, threads, diskVars,
                   execVars, won>>
-----------------------------------------------------------------------------
(* The outside: cancellation of the request and restart of the process.    *)

\* A cancelled attempt still runs its finally block; a cancelled close, and every
\* other await of the parent, just ends.
Cancel ==
    /\ pc \notin {"idle", "validate"}
    /\ IF pc \in {"claim", "run", "persist", "summary"}
       THEN pc' = "close" /\ cancelled' = TRUE /\ UNCHANGED <<answers, abandoned>>
       ELSE /\ Answer("cancelled")
            /\ abandoned' = IF pc = "close" THEN abandoned \cup {<<execution, index>>}
                                            ELSE abandoned
            /\ UNCHANGED cancelled
    /\ UNCHANGED <<execution, stateVars, claimed, threads, diskVars, open, won>>

Restart ==
    /\ pc # "idle" \/ threads # {}
    /\ IF pc = "idle" THEN UNCHANGED <<pc, answers>> ELSE Answer("lost")
    /\ threads' = {} /\ open' = {} /\ abandoned' = {}
    /\ UNCHANGED <<execution, stateVars, claimed, cancelled, diskVars, won>>

Coroutine == \/ CreateExecutor \/ ValidateSuccess \/ CloseExecutor
             \/ RecordOutcome \/ PrepareRetry \/ FinalizeParent

ThreadStep == \E t \in threads :
    \/ ClaimThread(t) \/ PersistThread(t) \/ ManifestThread(t) \/ SummaryThread(t)
    \/ PublishThread(t) \/ RegisterThread(t)

Next == \/ InitializeParent \/ Coroutine \/ RunAttempt \/ ThreadStep
        \/ AttemptTimeout \/ Cancel \/ Restart

\* The event loop runs what is ready, close has a timeout of its own, disk calls
\* return and the attempt's timer fires; the attempt itself may hang.
Spec == /\ Init /\ [][Next]_vars
        /\ WF_vars(Coroutine) /\ WF_vars(ThreadStep) /\ WF_vars(AttemptTimeout)
-----------------------------------------------------------------------------
Pcs == {"idle", "create", "claim", "run", "persist", "summary", "validate", "close",
        "record", "retry", "publish", "finalize"}
Kinds == {"claim", "persist", "manifest", "summary", "publish", "register"}
Answers == {"ok", "direct_attempts_failed", "parent_artifact_publish_failed",
            "cancelled", "lost"}

\* Types of the parent state, the directories and the public bundle.
TypeOK ==
    /\ execution \in 0 .. Executions /\ pc \in Pcs
    /\ index \in Attempts /\ success \in BOOLEAN
    /\ refs \in Seq({"succeeded", "failed"}) /\ Len(refs) <= AttemptLimit
    /\ selected \in Attempts \cup {None}
    /\ claimed \in BOOLEAN /\ cancelled \in BOOLEAN /\ indexed \in BOOLEAN
    /\ threads \subseteq [kind : Kinds, attempt : Attempts, execution : Runs]
    /\ dirs \in [Attempts -> 0 .. Executions]
    /\ evidence \subseteq {"manifest", "summary"} \X Attempts \X Runs
    /\ open \subseteq Runs \X Attempts /\ abandoned \subseteq open
    /\ bundle \in (Runs \X Attempts) \cup {None}
    /\ won \subseteq Runs \X Attempts
    /\ answers \in [Runs -> Answers \cup {None}]

\* Everything in an attempt's private directory comes from the execution that made
\* it: threads that outlive their attempt, and later executions of the same run id,
\* never write into another one's evidence.
EvidenceIsOneExecution == \A f \in evidence : f[3] = dirs[f[2]]

\* What is public was won by its attempt, and that attempt's private evidence was
\* complete before anything was published.
PublishedIsPersisted ==
    bundle # None => bundle \in won /\ <<"manifest", bundle[2], bundle[1]>> \in evidence

\* The run index names the run only after its bundle was committed, so that a
\* reader never finds a run without its final directory.
ReadableIsCommitted == indexed => bundle # None

\* An execution that answered "ok" owns the bundle readers see: so at most one
\* execution of a run id ever answers "ok".
OkIsReadable == \A e \in Runs : answers[e] = "ok" => indexed /\ bundle[1] = e

\* At most one executor (browser) is alive at a time, and none is left when the
\* execution is over, except those whose close failed.
ExecutorsDoNotOverlap ==
    /\ \A x, y \in open \ abandoned : x = y
    /\ pc \in {"idle", "create"} => open \subseteq abandoned

\* The public bundle is written once, whoever executes the run id again.
BundleWriteOnce == [][bundle # None => bundle' = bundle]_vars

\* Every execution ends, also when an attempt hangs.
ExecutionEnds == pc # "idle" ~> pc = "idle"

\* agent/app/services/ARCHITECTURE.md:24-25: a failed attempt writes
\* private/failure-summary.json instead of a completed private manifest.
FailedAttemptsLeaveSummary ==
    pc = "record" /\ claimed /\ ~success =>
        /\ <<"summary", index, execution>> \in evidence
        /\ <<"manifest", index, execution>> \notin evidence

\* The rollout keeps its promise.
Promise == INSTANCE Rollout WITH active <- pc # "idle", tries <- Len(refs), winners <- won
KeepsPromise == Promise!Spec
=============================================================================
