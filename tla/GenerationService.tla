-------------------------- MODULE GenerationService --------------------------
(***************************************************************************)
(* Shader generation requests against one backend process:                 *)
(* execute_shader_generation (shader_generation.py) with the project locks *)
(* (shader.py), the in-memory progress registry (run_progress.py) and the  *)
(* optional PostgreSQL ledger (agent_process_store.py).                    *)
(*                                                                         *)
(* The event loop switches requests only where a coroutine really waits:   *)
(* on the database and in runtime.generate.  The guard of the project      *)
(* locks is never held across a wait, so everything from progress.begin to *)
(* the first of these is one step, and so is everything from the end of    *)
(* one to the next.  runtime.generate itself is ParentRollout.             *)
(***************************************************************************)
CONSTANTS Requests, RunOf, ProjectOf,   \* the POST requests, and what they name
          None

Settled  == {"succeeded", "failed"}
Statuses == Settled \cup {"running"}
Replies  == {"200", "5xx", "409 run_conflict", "409 project_busy", "cancelled", "lost"}
Entries  == [status : Statuses, owner : Requests, age : {"fresh", "quiet"}]
Rows     == [status : Statuses, owner : Requests]

ASSUME ServiceAssumption == None \notin Requests \cup Replies \cup Entries \cup Rows

VARIABLES
    recording,     \* whether DATABASE_URL is configured: app.state.pool is not None
    pc,            \* what each request waits for
    started,       \* the requests whose run_started flag is set
    active,        \* ProjectLockRegistry._active
    entry,         \* RunProgressRegistry._runs: status, owner, "quiet" once the TTL passed
    ledger,        \* agent_runs: status and owner of each row
    published,     \* whose bundle is the public one of each run
    orphans,       \* cancelled requests whose publication may still complete
    answer,        \* what each request answered
    sweptLive,     \* history: runs whose entry was swept while a request ran them
    lostWrites     \* history: requests whose outcome the ledger did not confirm

vars == <<recording, pc, started, active, entry, ledger, published, orphans, answer, sweptLive,
          lostWrites>>

Runs     == {RunOf[r] : r \in Requests}
Projects == {ProjectOf[r] : r \in Requests}
Waiting  == {"insert", "generate", "contract", "failed", "succeeded"}
Holding  == {"insert", "generate", "contract"}     \* inside locks.hold

InFlight(r) == pc[r] \in Waiting
Working(r)  == pc[r] \in Waiting \ {"succeeded"}   \* its run is not finished yet

Init ==
    /\ recording \in BOOLEAN
    /\ pc = [r \in Requests |-> "new"] /\ started = {}
    /\ answer = [r \in Requests |-> None]
    /\ active = {}
    /\ entry = [n \in Runs |-> None] /\ ledger = [n \in Runs |-> None]
    /\ published = [n \in Runs |-> None] /\ orphans = {}
    /\ sweptLive = {} /\ lostWrites = {}
-----------------------------------------------------------------------------
(* The progress registry.                                                  *)

NewEntry(r) == [status |-> "running", owner |-> r, age |-> "fresh"]

\* _sweep: every entry untouched for RUN_PROGRESS_TTL_SECONDS goes, running or not.
Expired   == {n \in Runs : entry[n] # None /\ entry[n].age = "quiet"}
Swept     == [n \in Runs |-> IF n \in Expired THEN None ELSE entry[n]]
SweptLive == sweptLive \cup {n \in Expired : \E r \in Requests : InFlight(r) /\ RunOf[r] = n}

Live(entries, n) == entries[n] # None /\ entries[n].status = "running"

\* finish and publish ignore an entry that is missing or not running.
Finish(entries, n, status) ==
    IF Live(entries, n)
    THEN [entries EXCEPT ![n].status = status, ![n].age = "fresh"] ELSE entries

Touch(n) == entry' = IF Live(entry, n) THEN [entry EXCEPT ![n].age = "fresh"] ELSE entry

\* Half an hour without an event: one LLM call alone may take an hour.
GoQuiet ==
    /\ \E n \in Runs : /\ entry[n] # None /\ entry[n].age = "fresh"
                       /\ entry' = [entry EXCEPT ![n].age = "quiet"]
    /\ UNCHANGED <<recording, pc, started, active, ledger, published, orphans, answer, sweptLive,
                   lostWrites>>

\* GET .../progress sweeps before it reads.
Poll ==
    /\ Expired # {}
    /\ entry' = Swept /\ sweptLive' = SweptLive
    /\ UNCHANGED <<recording, pc, started, active, ledger, published, orphans, answer, lostWrites>>
-----------------------------------------------------------------------------
(* The ledger.                                                             *)

Row(r, status)    == [status |-> status, owner |-> r]
Inserted(r)       == [ledger EXCEPT ![RunOf[r]] = Row(r, "running")]
IsRunning(n)      == ledger[n] # None /\ ledger[n].status = "running"

\* _persist_generation_outcome: one transaction that locks the row and refuses to
\* replace a terminal status.
Outcome(r, status) ==
    IF IsRunning(RunOf[r]) THEN [ledger EXCEPT ![RunOf[r]].status = status] ELSE ledger

\* Errors are logged and suppressed, also when the transaction did commit.
Persist(r, status) ==
    \/ /\ IsRunning(RunOf[r])
       /\ ledger' = Outcome(r, status) /\ UNCHANGED lostWrites
    \/ ledger' \in {ledger, Outcome(r, status)} /\ lostWrites' = lostWrites \cup {r}
-----------------------------------------------------------------------------
(* One request.                                                            *)

Reply(r, value) == /\ pc' = [pc EXCEPT ![r] = "answered"]
                   /\ answer' = [answer EXCEPT ![r] = value]
Await(r, what)  == pc' = [pc EXCEPT ![r] = what] /\ UNCHANGED answer
Unlock(r)       == active' = active \ {ProjectOf[r]}
FinishOwn(r, status) == entry' = Finish(entry, RunOf[r], status)

Conflict(r) ==
    /\ Live(Swept, RunOf[r])
    /\ entry' = Swept /\ UNCHANGED active
    /\ Reply(r, "409 run_conflict")

\* Mutant of Busy: the refused request gives the project free.
BusyUnlocks(r) ==
    /\ ~Live(Swept, RunOf[r]) /\ ProjectOf[r] \in active
    /\ entry' = Finish([Swept EXCEPT ![RunOf[r]] = NewEntry(r)], RunOf[r], "failed")
    /\ Unlock(r)
    /\ Reply(r, "409 project_busy")

\* The run was already begun when hold refuses the project.
Busy(r) ==
    /\ ~Live(Swept, RunOf[r]) /\ ProjectOf[r] \in active
    /\ entry' = Finish([Swept EXCEPT ![RunOf[r]] = NewEntry(r)], RunOf[r], "failed")
    /\ UNCHANGED active
    /\ Reply(r, "409 project_busy")

\* Mutant of Admit: begin does not look for a run of that id.
AdmitAny(r) ==
    /\ ProjectOf[r] \notin active
    /\ entry' = [Swept EXCEPT ![RunOf[r]] = NewEntry(r)]
    /\ active' = active \cup {ProjectOf[r]}
    /\ Await(r, IF recording THEN "insert" ELSE "generate")

Admit(r) ==
    /\ ~Live(Swept, RunOf[r]) /\ ProjectOf[r] \notin active
    /\ entry' = [Swept EXCEPT ![RunOf[r]] = NewEntry(r)]
    /\ active' = active \cup {ProjectOf[r]}
    /\ Await(r, IF recording THEN "insert" ELSE "generate")

\* progress.begin, then ProjectLockRegistry.hold.
Accept(r) ==
    /\ pc[r] = "new"
    /\ Conflict(r) \/ Busy(r) \/ Admit(r)
    /\ sweptLive' = SweptLive
    /\ UNCHANGED <<recording, started, ledger, published, orphans, lostWrites>>

\* Mutant of InsertRefused: the failure of another request's run is recorded.
InsertRefusedRecorded(r) ==
    /\ ledger' \in {ledger, Outcome(r, "failed")}
    /\ Unlock(r) /\ FinishOwn(r, "failed") /\ Reply(r, "5xx")
    /\ UNCHANGED started

\* A reused run id violates the primary key; the insert may also fail after all,
\* and then even a row that was written is left behind.
InsertRefused(r) ==
    /\ ledger' \in {ledger, IF ledger[RunOf[r]] = None THEN Inserted(r) ELSE ledger}
    /\ Unlock(r) /\ FinishOwn(r, "failed") /\ Reply(r, "5xx")
    /\ UNCHANGED started

\* Mutant of StartRun: the row of an earlier request is replaced.
StartRunUpsert(r) ==
    /\ pc[r] = "insert"
    /\ ledger' = Inserted(r) /\ started' = started \cup {r}
    /\ Await(r, "generate")
    /\ UNCHANGED <<recording, active, entry, published, orphans, sweptLive, lostWrites>>

StartRun(r) ==
    /\ pc[r] = "insert"
    /\ \/ /\ ledger[RunOf[r]] = None
          /\ ledger' = Inserted(r) /\ started' = started \cup {r}
          /\ Await(r, "generate") /\ UNCHANGED <<active, entry>>
       \/ InsertRefused(r)
    /\ UNCHANGED <<recording, published, orphans, sweptLive, lostWrites>>

\* A progress event of the running graph.
Publish(r) ==
    /\ pc[r] = "generate"
    /\ Touch(RunOf[r])
    /\ UNCHANGED <<recording, pc, started, active, ledger, published, orphans, answer, sweptLive,
                   lostWrites>>

Bundled(r) == [published EXCEPT ![RunOf[r]] = IF @ = None THEN r ELSE @]

\* Mutant of Succeeded: success is reported before the bundle is looked at.
SucceededUnpublished(r) ==
    /\ UNCHANGED published
    /\ Unlock(r) /\ FinishOwn(r, "succeeded")
    /\ IF recording THEN Await(r, "succeeded") ELSE Reply(r, "200")

\* ParentRollout answers "ok" only for the bundle it committed.  The lock is
\* released and the run finished before the success is persisted.
Succeeded(r) ==
    /\ published[RunOf[r]] = None /\ published' = Bundled(r)
    /\ Unlock(r) /\ FinishOwn(r, "succeeded")
    /\ IF recording THEN Await(r, "succeeded") ELSE Reply(r, "200")

\* The result does not fit the response: recorded while the project is still held.
ContractFailed(r) ==
    /\ published[RunOf[r]] = None /\ published' = Bundled(r)
    /\ IF r \in started THEN Await(r, "contract") /\ UNCHANGED <<active, entry>>
                     ELSE Unlock(r) /\ FinishOwn(r, "failed") /\ Reply(r, "5xx")

\* ParentRunFailure, which is reported as an event, or anything else generate raises.
Failed(r) ==
    /\ published' \in {published, Bundled(r)}
    /\ Unlock(r)
    /\ IF r \in started THEN Await(r, "failed") /\ (Touch(RunOf[r]) \/ UNCHANGED entry)
                     ELSE FinishOwn(r, "failed") /\ Reply(r, "5xx")

GenerateEnds(r) ==
    /\ pc[r] = "generate"
    /\ Succeeded(r) \/ ContractFailed(r) \/ Failed(r)
    /\ UNCHANGED <<recording, started, ledger, orphans, sweptLive, lostWrites>>

\* Mutants of RecordFailure: the project is locked again for it; it is left out.
RecordFailureRelocked(r) ==
    /\ pc[r] \in {"contract", "failed"} /\ ProjectOf[r] \notin active
    /\ Persist(r, "failed")
    /\ FinishOwn(r, "failed") /\ Reply(r, "5xx")
    /\ UNCHANGED <<recording, started, active, published, orphans, sweptLive>>
RecordFailureSkipped(r) ==
    /\ pc[r] \in {"contract", "failed"}
    /\ IF pc[r] = "contract" THEN Unlock(r) ELSE UNCHANGED active
    /\ FinishOwn(r, "failed") /\ Reply(r, "5xx")
    /\ UNCHANGED <<recording, started, ledger, published, orphans, sweptLive, lostWrites>>

\* _record_failure, then the finally block, then the error envelope.
RecordFailure(r) ==
    /\ pc[r] \in {"contract", "failed"}
    /\ Persist(r, "failed")
    /\ IF pc[r] = "contract" THEN Unlock(r) ELSE UNCHANGED active
    /\ FinishOwn(r, "failed") /\ Reply(r, "5xx")
    /\ UNCHANGED <<recording, started, published, orphans, sweptLive>>

RecordSuccess(r) ==
    /\ pc[r] = "succeeded"
    /\ Persist(r, "succeeded")
    /\ Reply(r, "200")
    /\ UNCHANGED <<recording, started, active, entry, published, orphans, sweptLive>>
-----------------------------------------------------------------------------
(* Cancellation and restart.                                               *)

\* What the interrupted database call may have done by then.
Interrupted(r) ==
    CASE pc[r] = "insert"    -> IF ledger[RunOf[r]] = None THEN Inserted(r) ELSE ledger
      [] pc[r] = "generate"  -> ledger
      [] pc[r] = "succeeded" -> Outcome(r, "succeeded")
      [] OTHER               -> Outcome(r, "failed")

\* CancelledError passes every except clause; only the finally blocks run.
Cancel(r) ==
    /\ InFlight(r)
    /\ ledger' \in {ledger, Interrupted(r)}
    /\ IF pc[r] \in Holding THEN Unlock(r) ELSE UNCHANGED active
    /\ IF pc[r] = "succeeded" THEN UNCHANGED entry ELSE FinishOwn(r, "failed")
    /\ orphans' = IF pc[r] = "generate" THEN orphans \cup {r} ELSE orphans
    /\ Reply(r, "cancelled")
    /\ UNCHANGED <<recording, started, published, sweptLive, lostWrites>>

\* The publishing thread of a cancelled request goes on.
LatePublish(r) ==
    /\ r \in orphans /\ published[RunOf[r]] = None
    /\ published' = Bundled(r)
    /\ UNCHANGED <<recording, pc, started, active, entry, ledger, orphans, answer, sweptLive,
                   lostWrites>>

\* What a call that the process did not live to see answered may have left behind.
Unseen(n)      == {ledger[n]} \cup
                  {Interrupted(r)[n] : r \in {q \in Requests : InFlight(q) /\ RunOf[q] = n}}
Unannounced(n) == {published[n]} \cup
                  {Bundled(r)[n] : r \in {q \in Requests : /\ pc[q] = "generate" \/ q \in orphans
                                                          /\ RunOf[q] = n}}

\* Locks, progress and requests are gone; the ledger and the bundles stay.
Restart ==
    /\ \E r \in Requests : InFlight(r)
    /\ pc' = [r \in Requests |-> IF InFlight(r) THEN "answered" ELSE pc[r]]
    /\ answer' = [r \in Requests |-> IF InFlight(r) THEN "lost" ELSE answer[r]]
    /\ active' = {} /\ entry' = [n \in Runs |-> None] /\ orphans' = {}
    /\ ledger' \in {rows \in [Runs -> Rows \cup {None}] : \A n \in Runs : rows[n] \in Unseen(n)}
    /\ published' \in {bundles \in [Runs -> Requests \cup {None}] :
                        \A n \in Runs : bundles[n] \in Unannounced(n)}
    /\ UNCHANGED <<recording, started, sweptLive, lostWrites>>

Step(r) == StartRun(r) \/ GenerateEnds(r) \/ RecordFailure(r) \/ RecordSuccess(r)

Next ==
    \/ GoQuiet \/ Poll \/ Restart
    \/ \E r \in Requests : Accept(r) \/ Step(r) \/ Publish(r) \/ Cancel(r) \/ LatePublish(r)

\* Database calls return or raise, and ParentRollout's executions end.
Spec == Init /\ [][Next]_vars /\ \A r \in Requests : WF_vars(Step(r))
-----------------------------------------------------------------------------
\* Types of the requests, the registries and the ledger.
TypeOK ==
    /\ recording \in BOOLEAN
    /\ pc \in [Requests -> Waiting \cup {"new", "answered"}]
    /\ started \subseteq Requests
    /\ active \subseteq Projects
    /\ entry \in [Runs -> Entries \cup {None}]
    /\ ledger \in [Runs -> Rows \cup {None}]
    /\ published \in [Runs -> Requests \cup {None}]
    /\ orphans \subseteq Requests
    /\ answer \in [Requests -> Replies \cup {None}]
    /\ sweptLive \subseteq Runs /\ lostWrites \subseteq Requests

\* A project is locked exactly while one request holds it: a refused, failed or
\* cancelled request neither leaves the lock behind nor takes away another's.
LockMatchesHolder ==
    /\ active = {ProjectOf[r] : r \in {q \in Requests : pc[q] \in Holding}}
    /\ \A r, q \in Requests :
          pc[r] \in Holding /\ pc[q] \in Holding /\ ProjectOf[r] = ProjectOf[q] => r = q

\* The ledger never contradicts what the request that made the row answered, also
\* when its run id is used again: no "failed" for a 200, no "succeeded" for a failure,
\* and a 200 always has a row of its own.
LedgerMatchesAnswer ==
    /\ \A n \in Runs : ledger[n] # None =>
          /\ ledger[n].status = "succeeded" => answer[ledger[n].owner] \in {"200", "cancelled", "lost"}
          /\ ledger[n].status = "failed"    => answer[ledger[n].owner] \in {"5xx", "cancelled", "lost"}
    /\ \A r \in Requests : recording /\ answer[r] = "200" => /\ ledger[RunOf[r]] # None
                                                         /\ ledger[RunOf[r]].owner = r

\* An answered request whose run was recorded has a settled row, unless the
\* database refused the outcome.
AnsweredIsSettled ==
    \A r \in Requests :
        r \in started /\ answer[r] \in {"200", "5xx"} /\ r \notin lostWrites =>
            ledger[RunOf[r]].status \in Settled

\* A poll that reads "succeeded", and a 200, mean that the artifacts can be fetched
\* and are those of this very request.
SucceededIsReadable ==
    /\ \A n \in Runs : entry[n] # None /\ entry[n].status = "succeeded" => published[n] # None
    /\ \A r \in Requests : answer[r] = "200" => published[RunOf[r]] = r

\* As long as the TTL never swept the entry of a live run, each request that is still
\* working reports to a running entry of its own: however a run id is reused, no
\* request takes over, ends or loses the progress of another.  And no run is reported
\* as running once the request that began it was answered.
ProgressIsOwn ==
    /\ \A r \in Requests : Working(r) /\ RunOf[r] \notin sweptLive =>
          Live(entry, RunOf[r]) /\ entry[RunOf[r]].owner = r
    /\ \A n \in Runs : Live(entry, n) => InFlight(entry[n].owner)

\* A settled row of the ledger is never changed again.
SettledIsFinal ==
    [][\A n \in Runs : ledger[n] # None /\ ledger[n].status \in Settled
                       => ledger'[n] = ledger[n]]_vars

\* Every accepted request is answered.
EveryRequestAnswered == \A r \in Requests : InFlight(r) ~> pc[r] = "answered"

\* run_progress.py:62: a run id that is still running is a conflict, so that no other
\* request can take over the entry of a request in flight.
RunningIdConflicts ==
    \A r \in Requests : Working(r) /\ entry[RunOf[r]] # None => entry[RunOf[r]].owner = r
=============================================================================
