----------------------- MODULE GenerationServiceProofs -----------------------
(* Theorems about GenerationService for any requests, runs and projects.     *)
(*                                                                           *)
(* The argument goes by three step lemmas that say what one step may do to   *)
(* one thing: RequestStep to a request, RowStep to a row of the ledger and   *)
(* BundleStep to a public bundle.  The parts of the invariant that relate    *)
(* requests, rows and bundles follow from them without looking at the        *)
(* actions again.  The locks and the progress entries are proved by action.  *)
EXTENDS GenerationService, TLAPS

(* The invariant.                                                            *)

PcType        == pc \in [Requests -> Waiting \cup {"new", "answered"}]
AnswerType    == answer \in [Requests -> Replies \cup {None}]
EntryType     == entry \in [Runs -> Entries \cup {None}]
LedgerType    == ledger \in [Runs -> Rows \cup {None}]
PublishedType == published \in [Runs -> Requests \cup {None}]
SetsType      == /\ started \subseteq Requests /\ orphans \subseteq Requests
                 /\ sweptLive \subseteq Runs /\ lostWrites \subseteq Requests

Typed == PcType /\ AnswerType /\ EntryType /\ LedgerType /\ PublishedType /\ SetsType

(* A request answers once, when it is over.                                  *)
AnswersLast == \A r \in Requests : pc[r] # "answered" => answer[r] = None

(* run_started: set only when the ledger is on and past the insert, and set  *)
(* for every later request while it is on.                                   *)
StartedWhenRecording ==
    \A r \in Requests :
        /\ r \in started => recording /\ pc[r] \notin {"new", "insert"}
        /\ pc[r] = "insert" => recording
        /\ recording /\ (pc[r] = "generate" \/ answer[r] = "200") => r \in started
        /\ pc[r] \in {"contract", "failed", "succeeded"} => r \in started

(* A started request has the row of its run.                                 *)
StartedOwnsRow ==
    \A r \in started : ledger[RunOf[r]] # None /\ ledger[RunOf[r]].owner = r

(* A row is that of a request past its insert; a settled one repeats what    *)
(* its request answered.                                                     *)
RowOf(n) ==
    LET o == ledger[n].owner IN
    /\ RunOf[o] = n /\ pc[o] \notin {"new", "insert"}
    /\ ledger[n].status = "succeeded" => answer[o] \in {"200", "cancelled", "lost"}
    /\ ledger[n].status = "failed"    => answer[o] \in {"5xx", "cancelled", "lost"}
RowsTell == \A n \in Runs : ledger[n] # None => RowOf(n)

(* The bundle of a successful request is the public one of its run.          *)
SuccessIsPublished ==
    \A r \in Requests : pc[r] = "succeeded" \/ answer[r] = "200" => published[RunOf[r]] = r

(* A running entry is that of a working request; a succeeded one has a       *)
(* bundle.                                                                   *)
EntryOf(n) ==
    /\ Live(entry, n) => RunOf[entry[n].owner] = n /\ Working(entry[n].owner)
    /\ entry[n] # None /\ entry[n].status = "succeeded" => published[n] # None
EntriesTell == \A n \in Runs : EntryOf(n)

(* A working request has its entry, unless the TTL swept it.                 *)
EntryKept ==
    \A r \in Requests : Working(r) /\ RunOf[r] \notin sweptLive =>
        Live(entry, RunOf[r]) /\ entry[RunOf[r]].owner = r

IndInv ==
    /\ Typed
    /\ AnswersLast /\ StartedWhenRecording /\ StartedOwnsRow /\ RowsTell /\ SuccessIsPublished
    /\ AnsweredIsSettled
    /\ LockMatchesHolder
    /\ EntriesTell /\ EntryKept

-----------------------------------------------------------------------------
(* What one step may do.                                                     *)

Answers(r, values) == pc'[r] = "answered" /\ answer'[r] \in values
Goes(r, where)     == pc'[r] = where /\ answer'[r] = answer[r]
NewlyStarted(r)    == /\ r \in started' /\ ledger[RunOf[r]] = None
                      /\ ledger'[RunOf[r]] = Row(r, "running")

(* A request: nothing, or one of the steps of execute_shader_generation.     *)
Arrives(r) ==
    /\ pc[r] = "new"
    /\ \/ Answers(r, {"409 run_conflict", "409 project_busy"})
       \/ recording /\ Goes(r, "insert")
       \/ ~recording /\ Goes(r, "generate")
Generates(r) ==
    /\ pc[r] = "generate"
    /\ \/ recording /\ Goes(r, "succeeded") /\ published'[RunOf[r]] = r
       \/ ~recording /\ Answers(r, {"200"}) /\ published'[RunOf[r]] = r
       \/ r \in started /\ (Goes(r, "contract") \/ Goes(r, "failed"))
       \/ r \notin started /\ Answers(r, {"5xx"})
Records(r) ==
    \/ pc[r] = "insert" /\ Answers(r, {"5xx"})
    \/ /\ ledger'[RunOf[r]].status \in Settled \/ r \in lostWrites'
       /\ \/ pc[r] \in {"contract", "failed"} /\ Answers(r, {"5xx"})
          \/ pc[r] = "succeeded" /\ Answers(r, {"200"})
Moves(r) ==
    \/ (r \in started' => r \in started) /\ Goes(r, pc[r])
    \/ (r \in started' => r \in started) /\ (Arrives(r) \/ Generates(r) \/ Records(r))
    \/ (r \in started' => r \in started) /\ InFlight(r) /\ Answers(r, {"cancelled", "lost"})
    \/ pc[r] = "insert" /\ Goes(r, "generate") /\ NewlyStarted(r)

(* A row: it is written once for a request that leaves its insert, and       *)
(* settled once by a request of its run that answers accordingly.            *)
Written(n, r) ==
    /\ ledger[n] = None /\ ledger'[n] = Row(r, "running")
    /\ pc[r] = "insert" /\ pc'[r] \in {"generate", "answered"}
SettledBy(n, r) ==
    /\ IsRunning(n)
    /\ \/ /\ pc[r] \in {"contract", "failed"}
          /\ ledger'[n] = [ledger[n] EXCEPT !.status = "failed"]
          /\ Answers(r, {"5xx", "cancelled", "lost"})
       \/ /\ pc[r] = "succeeded"
          /\ ledger'[n] = [ledger[n] EXCEPT !.status = "succeeded"]
          /\ Answers(r, {"200", "cancelled", "lost"})
RowMoves(n) ==
    \/ ledger'[n] = ledger[n]
    \/ \E r \in Requests : RunOf[r] = n /\ (Written(n, r) \/ SettledBy(n, r))

(* A bundle: published once, by a request of its run.                        *)
BundleMoves(n) ==
    published'[n] = published[n] \/ (published[n] = None /\ published'[n] \in Requests)

(* One request steps; the others stay where they are.                        *)
LEMMA OthersStay ==
  ASSUME PcType, AnswerType, NEW q \in Requests, NEW r \in Requests, r # q,
         Accept(q) \/ Step(q) \/ Publish(q) \/ Cancel(q) \/ LatePublish(q)
  PROVE  pc'[r] = pc[r] /\ answer'[r] = answer[r] /\ (r \in started' => r \in started)
<1> USE DEF PcType, AnswerType, Reply, Await
<1>1. CASE Accept(q) BY <1>1 DEF Accept, Conflict, Busy, Admit
<1>2. CASE StartRun(q) BY <1>2 DEF StartRun, InsertRefused
<1>3. CASE GenerateEnds(q) BY <1>3 DEF GenerateEnds, Succeeded, ContractFailed, Failed
<1>4. CASE RecordFailure(q) BY <1>4 DEF RecordFailure
<1>5. CASE RecordSuccess(q) BY <1>5 DEF RecordSuccess
<1>6. CASE Publish(q) BY <1>6 DEF Publish
<1>7. CASE Cancel(q) BY <1>7 DEF Cancel
<1>8. CASE LatePublish(q) BY <1>8 DEF LatePublish
<1> QED BY <1>1, <1>2, <1>3, <1>4, <1>5, <1>6, <1>7, <1>8 DEF Step

(* What an outcome leaves in the row of its run.                             *)
LEMMA PersistSettles ==
  ASSUME LedgerType, NEW r \in Requests, NEW status \in Settled, Persist(r, status)
  PROVE  ledger'[RunOf[r]].status \in Settled \/ r \in lostWrites'
<1>1. RunOf[r] \in Runs BY DEF Runs
<1>2. CASE r \in lostWrites' BY <1>2
<1>3. CASE IsRunning(RunOf[r]) /\ ledger' = Outcome(r, status)
  BY <1>1, <1>3 DEF LedgerType, Rows, Outcome, IsRunning
<1> QED BY <1>2, <1>3 DEF Persist

\* A step of a request is one of its own nodes.
LEMMA RequestStep ==
  ASSUME Typed, [Next]_vars, NEW r \in Requests
  PROVE  Moves(r)
<1> USE DEF Typed, PcType, AnswerType, Moves
<1>0. RunOf[r] \in Runs BY DEF Runs
<1>1. CASE UNCHANGED vars \/ GoQuiet \/ Poll
  BY <1>1 DEF vars, GoQuiet, Poll, Goes
<1>2. CASE Restart
  BY <1>2 DEF Restart, Goes, Answers
<1>3. ASSUME NEW q \in Requests, q # r,
             Accept(q) \/ Step(q) \/ Publish(q) \/ Cancel(q) \/ LatePublish(q)
      PROVE  Moves(r)
  BY <1>3, OthersStay DEF Goes
<1>4. CASE Accept(r)
  BY <1>4 DEF Accept, Conflict, Busy, Admit, Arrives, Goes, Answers, Reply, Await
<1>5. CASE StartRun(r)
  <2>1. CASE InsertRefused(r)
    BY <1>5, <2>1 DEF StartRun, InsertRefused, Records, Answers, Reply
  <2>2. CASE ledger[RunOf[r]] = None /\ ledger' = Inserted(r) /\ started' = started \cup {r}
             /\ Await(r, "generate")
    <3>1. NewlyStarted(r)
      BY <1>0, <2>2 DEF NewlyStarted, Inserted, LedgerType
    <3> QED BY <1>5, <2>2, <3>1 DEF StartRun, Await, Goes
  <2> QED BY <1>5, <2>1, <2>2 DEF StartRun
<1>6. CASE GenerateEnds(r)
  <2> USE DEF Goes, Answers, Reply, Await, Generates, Settled
  <2>1. CASE Succeeded(r)
    <3>1. published'[RunOf[r]] = r
      BY <1>0, <2>1 DEF Succeeded, Bundled, PublishedType
    <3> QED BY <1>6, <2>1, <3>1 DEF GenerateEnds, Succeeded
  <2>2. CASE ContractFailed(r) BY <1>6, <2>2 DEF GenerateEnds, ContractFailed
  <2>3. CASE Failed(r) BY <1>6, <2>3 DEF GenerateEnds, Failed
  <2> QED BY <1>6, <2>1, <2>2, <2>3 DEF GenerateEnds
<1>7. CASE RecordFailure(r)
  <2>1. ledger'[RunOf[r]].status \in Settled \/ r \in lostWrites'
    BY <1>7, PersistSettles DEF RecordFailure, Settled
  <2> QED BY <1>7, <2>1 DEF RecordFailure, Records, Answers, Reply
<1>8. CASE RecordSuccess(r)
  <2>1. ledger'[RunOf[r]].status \in Settled \/ r \in lostWrites'
    BY <1>8, PersistSettles DEF RecordSuccess, Settled
  <2> QED BY <1>8, <2>1 DEF RecordSuccess, Records, Answers, Reply
<1>9. CASE Publish(r) \/ LatePublish(r)
  BY <1>9 DEF Publish, LatePublish, Goes
<1>10. CASE Cancel(r)
  BY <1>10 DEF Cancel, Answers, Reply
<1> QED BY <1>1, <1>2, <1>3, <1>4, <1>5, <1>6, <1>7, <1>8, <1>9, <1>10 DEF Next, Step

(* A history of what the ledger refused only grows.                          *)
LEMMA LossesStay ==
  ASSUME [Next]_vars
  PROVE  lostWrites \subseteq lostWrites'
  BY DEF Next, vars, GoQuiet, Poll, Restart, Accept, Step, StartRun, GenerateEnds, RecordFailure,
         RecordSuccess, Persist, Publish, Cancel, LatePublish

(* What an interrupted call left is no more than what the call does.         *)
LEMMA OutcomeRow ==
  ASSUME LedgerType, NEW r \in Requests, NEW status \in Settled, NEW n \in Runs,
         Outcome(r, status)[n] # ledger[n]
  PROVE  /\ RunOf[r] = n /\ IsRunning(n)
         /\ Outcome(r, status)[n] = [ledger[n] EXCEPT !.status = status]
<1>1. RunOf[r] \in Runs BY DEF Runs
<1>2. IsRunning(RunOf[r]) BY DEF Outcome
<1>3. ledger[RunOf[r]] \in Rows BY <1>1, <1>2 DEF IsRunning, LedgerType
<1>4. Outcome(r, status)
        = [ledger EXCEPT ![RunOf[r]] = [ledger[RunOf[r]] EXCEPT !.status = status]]
  BY <1>2 DEF Outcome
<1> QED BY <1>1, <1>2, <1>4 DEF LedgerType

\* What an insert leaves of the ledger.
LEMMA InsertedRow ==
  ASSUME LedgerType, NEW r \in Requests, NEW n \in Runs, Inserted(r)[n] # ledger[n]
  PROVE  RunOf[r] = n /\ Inserted(r)[n] = Row(r, "running")
<1>1. RunOf[r] \in Runs BY DEF Runs
<1> QED BY <1>1 DEF LedgerType, Inserted

\* What the reconciliation leaves of the ledger.
LEMMA InterruptedRow ==
  ASSUME LedgerType, NEW r \in Requests, InFlight(r), NEW n \in Runs,
         Interrupted(r)[n] # ledger[n], Answers(r, {"cancelled", "lost"})
  PROVE  RunOf[r] = n /\
         \/ /\ ledger[n] = None /\ pc[r] = "insert" /\ Interrupted(r)[n] = Row(r, "running")
         \/ /\ IsRunning(n) /\ pc[r] \in {"contract", "failed"}
            /\ Interrupted(r)[n] = [ledger[n] EXCEPT !.status = "failed"]
         \/ /\ IsRunning(n) /\ pc[r] = "succeeded"
            /\ Interrupted(r)[n] = [ledger[n] EXCEPT !.status = "succeeded"]
<1>1. CASE pc[r] = "insert"
  <2>1. ledger[RunOf[r]] = None /\ Interrupted(r) = Inserted(r) BY <1>1 DEF Interrupted
  <2> QED BY <1>1, <2>1, InsertedRow
<1>2. CASE pc[r] = "generate" BY <1>2 DEF Interrupted
<1>3. CASE pc[r] = "succeeded"
  <2>1. Interrupted(r) = Outcome(r, "succeeded") BY <1>3 DEF Interrupted
  <2> QED BY <1>3, <2>1, OutcomeRow DEF Settled
<1>4. CASE pc[r] \in {"contract", "failed"}
  <2>1. Interrupted(r) = Outcome(r, "failed") BY <1>4 DEF Interrupted
  <2> QED BY <1>4, <2>1, OutcomeRow DEF Settled
<1> QED BY <1>1, <1>2, <1>3, <1>4 DEF InFlight, Waiting

(* The ledger is written by the steps of one request or by a restart.        *)
LEMMA RowStep ==
  ASSUME Typed, [Next]_vars, NEW n \in Runs
  PROVE  RowMoves(n)
<1> USE DEF RowMoves
<1> LedgerType /\ PcType /\ AnswerType BY DEF Typed
<1>1. CASE UNCHANGED ledger BY <1>1
<1>2. CASE Restart
  <2>1. ledger'[n] \in Unseen(n) BY <1>2 DEF Restart
  <2>2. ASSUME NEW r \in Requests, InFlight(r), RunOf[r] = n, ledger'[n] = Interrupted(r)[n],
               ledger'[n] # ledger[n]
        PROVE  Written(n, r) \/ SettledBy(n, r)
    <3>1. Answers(r, {"cancelled", "lost"}) BY <1>2, <2>2 DEF Restart, Answers, PcType, AnswerType
    <3> QED BY <2>2, <3>1, InterruptedRow DEF Written, SettledBy, Answers
  <2> QED BY <2>1, <2>2 DEF Unseen
<1>3. ASSUME NEW r \in Requests, StartRun(r) PROVE RowMoves(n)
  <2>1. CASE ledger[RunOf[r]] = None /\ ledger' = Inserted(r) /\ pc'[r] \in {"generate", "answered"}
    <3> SUFFICES ASSUME ledger'[n] # ledger[n] PROVE RunOf[r] = n /\ Written(n, r)
      OBVIOUS
    <3> QED BY <1>3, <2>1, InsertedRow DEF StartRun, Written
  <2> QED BY <1>1, <1>3, <2>1 DEF StartRun, InsertRefused, Await, Reply, PcType
<1>4. ASSUME NEW r \in Requests, RecordFailure(r) PROVE RowMoves(n)
  <2> SUFFICES ASSUME ledger'[n] # ledger[n] PROVE RunOf[r] = n /\ SettledBy(n, r)
    OBVIOUS
  <2>1. ledger' = Outcome(r, "failed") BY <1>4 DEF RecordFailure, Persist
  <2>2. Answers(r, {"5xx"}) /\ pc[r] \in {"contract", "failed"}
    BY <1>4 DEF RecordFailure, Reply, Answers, PcType, AnswerType
  <2> QED BY <2>1, <2>2, OutcomeRow DEF Settled, SettledBy, Answers
<1>5. ASSUME NEW r \in Requests, RecordSuccess(r) PROVE RowMoves(n)
  <2> SUFFICES ASSUME ledger'[n] # ledger[n] PROVE RunOf[r] = n /\ SettledBy(n, r)
    OBVIOUS
  <2>1. ledger' = Outcome(r, "succeeded") BY <1>5 DEF RecordSuccess, Persist
  <2>2. Answers(r, {"200"}) /\ pc[r] = "succeeded"
    BY <1>5 DEF RecordSuccess, Reply, Answers, PcType, AnswerType
  <2> QED BY <2>1, <2>2, OutcomeRow DEF Settled, SettledBy, Answers
<1>6. ASSUME NEW r \in Requests, Cancel(r) PROVE RowMoves(n)
  <2> SUFFICES ASSUME ledger'[n] # ledger[n] PROVE RunOf[r] = n /\ (Written(n, r) \/ SettledBy(n, r))
    OBVIOUS
  <2>1. InFlight(r) /\ ledger' = Interrupted(r) BY <1>6 DEF Cancel
  <2>2. Answers(r, {"cancelled", "lost"}) BY <1>6 DEF Cancel, Reply, Answers, PcType, AnswerType
  <2> QED BY <2>1, <2>2, InterruptedRow DEF Written, SettledBy, Answers
<1>7. ASSUME NEW r \in Requests, Accept(r) \/ GenerateEnds(r) \/ Publish(r) \/ LatePublish(r)
      PROVE  UNCHANGED ledger
  BY <1>7 DEF Accept, GenerateEnds, Publish, LatePublish
<1>8. CASE GoQuiet \/ Poll \/ UNCHANGED vars BY <1>1, <1>8 DEF GoQuiet, Poll, vars
<1> QED BY <1>1, <1>2, <1>3, <1>4, <1>5, <1>6, <1>7, <1>8 DEF Next, Step

(* Bundles are never replaced.                                               *)
LEMMA BundledOnce ==
  ASSUME PublishedType, NEW r \in Requests, NEW n \in Runs
  PROVE  Bundled(r)[n] = published[n] \/ (published[n] = None /\ Bundled(r)[n] = r)
<1>1. RunOf[r] \in Runs BY DEF Runs
<1> QED BY <1>1 DEF PublishedType, Bundled

\* What writing a bundle leaves of the store.
LEMMA BundleStep ==
  ASSUME Typed, [Next]_vars, NEW n \in Runs
  PROVE  BundleMoves(n)
<1> USE DEF BundleMoves
<1> PublishedType BY DEF Typed
<1>1. CASE UNCHANGED published BY <1>1
<1>2. ASSUME NEW r \in Requests, published' = Bundled(r) PROVE BundleMoves(n)
  BY <1>2, BundledOnce
<1>3. CASE Restart
  <2>1. published'[n] \in Unannounced(n) BY <1>3 DEF Restart
  <2> QED BY <2>1, BundledOnce DEF Unannounced
<1>4. ASSUME NEW r \in Requests, GenerateEnds(r) \/ LatePublish(r)
      PROVE  UNCHANGED published \/ published' = Bundled(r)
  BY <1>4 DEF GenerateEnds, Succeeded, ContractFailed, Failed, LatePublish
<1>5. ASSUME NEW r \in Requests, Accept(r) \/ StartRun(r) \/ RecordFailure(r) \/ RecordSuccess(r)
                                  \/ Publish(r) \/ Cancel(r)
      PROVE  UNCHANGED published
  BY <1>5 DEF Accept, StartRun, RecordFailure, RecordSuccess, Publish, Cancel
<1>6. CASE GoQuiet \/ Poll \/ UNCHANGED vars BY <1>1, <1>6 DEF GoQuiet, Poll, vars
<1> QED BY <1>1, <1>2, <1>3, <1>4, <1>5, <1>6 DEF Next, Step

-----------------------------------------------------------------------------
(* Types.                                                                    *)

\* Every step keeps the requests in their types.
LEMMA RequestTypes ==
  ASSUME Typed, [Next]_vars
  PROVE  PcType' /\ AnswerType'
<1> PcType /\ AnswerType BY DEF Typed
<1> USE DEF PcType, AnswerType, Waiting, Replies, Reply, Await
<1>1. CASE UNCHANGED <<pc, answer>> BY <1>1
<1>2. CASE Restart BY <1>2 DEF Restart
<1>3. ASSUME NEW r \in Requests, Accept(r) PROVE PcType' /\ AnswerType'
  BY <1>3 DEF Accept, Conflict, Busy, Admit
<1>4. ASSUME NEW r \in Requests, StartRun(r) PROVE PcType' /\ AnswerType'
  BY <1>4 DEF StartRun, InsertRefused
<1>5. ASSUME NEW r \in Requests, GenerateEnds(r) PROVE PcType' /\ AnswerType'
  BY <1>5 DEF GenerateEnds, Succeeded, ContractFailed, Failed
<1>6. ASSUME NEW r \in Requests, RecordFailure(r) \/ RecordSuccess(r) \/ Cancel(r)
      PROVE  PcType' /\ AnswerType'
  BY <1>6 DEF RecordFailure, RecordSuccess, Cancel
<1>7. ASSUME NEW r \in Requests, Publish(r) \/ LatePublish(r) PROVE UNCHANGED <<pc, answer>>
  BY <1>7 DEF Publish, LatePublish
<1>8. CASE GoQuiet \/ Poll \/ UNCHANGED vars BY <1>1, <1>8 DEF GoQuiet, Poll, vars
<1> QED BY <1>1, <1>2, <1>3, <1>4, <1>5, <1>6, <1>7, <1>8 DEF Next, Step

(* Sweeping, finishing and touching entries leave entries.                   *)
LEMMA SweptType ==
  ASSUME EntryType
  PROVE  Swept \in [Runs -> Entries \cup {None}]
BY DEF EntryType, Swept

\* A finished progress entry is an entry.
LEMMA FinishType ==
  ASSUME NEW entries \in [Runs -> Entries \cup {None}], NEW n \in Runs, NEW status \in Settled
  PROVE  Finish(entries, n, status) \in [Runs -> Entries \cup {None}]
<1>1. CASE ~Live(entries, n) BY <1>1 DEF Finish
<1>2. CASE Live(entries, n)
  <2>1. entries[n] \in Entries BY <1>2 DEF Live
  <2>2. [entries[n] EXCEPT !.status = status, !.age = "fresh"] \in Entries
    BY <2>1 DEF Entries, Statuses
  <2>3. Finish(entries, n, status)
          = [entries EXCEPT ![n] = [entries[n] EXCEPT !.status = status, !.age = "fresh"]]
    BY <1>2 DEF Finish
  <2> QED BY <2>2, <2>3
<1> QED BY <1>1, <1>2

\* A new progress entry is an entry.
LEMMA NewEntryType ==
  ASSUME NEW r \in Requests
  PROVE  NewEntry(r) \in Entries
BY DEF NewEntry, Entries, Statuses

(* The entry of a run, touched.                                              *)
LEMMA TouchType ==
  ASSUME EntryType, NEW n \in Runs, Touch(n)
  PROVE  EntryType' /\ \A m \in Runs : \/ entry'[m] = entry[m]
                                       \/ /\ entry[m] # None /\ entry'[m] # None
                                          /\ entry'[m].status = entry[m].status
                                          /\ entry'[m].owner = entry[m].owner
<1> USE DEF EntryType
<1>1. CASE ~Live(entry, n) BY <1>1 DEF Touch
<1>2. CASE Live(entry, n)
  <2>1. entry[n] \in Entries BY <1>2 DEF Live
  <2> DEFINE touched == [entry[n] EXCEPT !.age = "fresh"]
  <2>2. touched \in Entries /\ touched.status = entry[n].status /\ touched.owner = entry[n].owner
    BY <2>1 DEF Entries
  <2>3. entry' = [entry EXCEPT ![n] = touched] BY <1>2 DEF Touch
  <2>4. touched # None BY <2>2, ServiceAssumption
  <2> HIDE DEF touched
  <2> QED BY <1>2, <2>2, <2>3, <2>4 DEF Live
<1> QED BY <1>1, <1>2

(* Nor does going quiet change whose entry it is.                            *)
LEMMA QuietType ==
  ASSUME EntryType, GoQuiet
  PROVE  EntryType' /\ \A m \in Runs : \/ entry'[m] = entry[m]
                                       \/ /\ entry[m] # None /\ entry'[m] # None
                                          /\ entry'[m].status = entry[m].status
                                          /\ entry'[m].owner = entry[m].owner
<1> USE DEF EntryType
<1>1. PICK n \in Runs : entry[n] # None /\ entry' = [entry EXCEPT ![n].age = "quiet"]
  BY DEF GoQuiet
<1>2. entry[n] \in Entries BY <1>1
<1> DEFINE quiet == [entry[n] EXCEPT !.age = "quiet"]
<1>3. quiet \in Entries /\ quiet.status = entry[n].status /\ quiet.owner = entry[n].owner
  BY <1>2 DEF Entries
<1>4. entry' = [entry EXCEPT ![n] = quiet] BY <1>1
<1>5. quiet # None BY <1>3, ServiceAssumption
<1> HIDE DEF quiet
<1> QED BY <1>1, <1>3, <1>4, <1>5

\* Every step keeps the progress entries in their types.
LEMMA EntryTypes ==
  ASSUME Typed, [Next]_vars
  PROVE  EntryType'
<1> EntryType BY DEF Typed
<1>0. \A r \in Requests : RunOf[r] \in Runs BY DEF Runs
<1>1. CASE UNCHANGED entry BY <1>1 DEF EntryType
<1>2. CASE Restart BY <1>2 DEF Restart, EntryType
<1>3. CASE Poll BY <1>3, SweptType DEF Poll, EntryType
<1>4. CASE GoQuiet BY <1>4, QuietType
<1>5. ASSUME NEW r \in Requests, Accept(r) PROVE EntryType'
  <2>1. [Swept EXCEPT ![RunOf[r]] = NewEntry(r)] \in [Runs -> Entries \cup {None}]
    BY <1>0, SweptType, NewEntryType
  <2>2. Finish([Swept EXCEPT ![RunOf[r]] = NewEntry(r)], RunOf[r], "failed")
          \in [Runs -> Entries \cup {None}]
    BY <1>0, <2>1, FinishType DEF Settled
  <2> QED BY <1>5, <2>1, <2>2, SweptType DEF Accept, Conflict, Busy, Admit, EntryType
<1>6. ASSUME NEW r \in Requests, NEW status \in Settled, FinishOwn(r, status) PROVE EntryType'
  BY <1>0, <1>6, FinishType DEF FinishOwn, EntryType
<1>7. ASSUME NEW r \in Requests, Touch(RunOf[r]) PROVE EntryType'
  BY <1>0, <1>7, TouchType
<1>8. ASSUME NEW r \in Requests, Step(r) \/ Cancel(r)
      PROVE  \/ UNCHANGED entry \/ Touch(RunOf[r])
             \/ FinishOwn(r, "failed") \/ FinishOwn(r, "succeeded")
  BY <1>8 DEF Step, StartRun, InsertRefused, GenerateEnds, Succeeded, ContractFailed, Failed,
              RecordFailure, RecordSuccess, Cancel
<1>9. ASSUME NEW r \in Requests, Publish(r) \/ LatePublish(r)
      PROVE  UNCHANGED entry \/ Touch(RunOf[r])
  BY <1>9 DEF Publish, LatePublish
<1>10. CASE UNCHANGED vars BY <1>1, <1>10 DEF vars
<1> QED
  BY <1>1, <1>2, <1>3, <1>4, <1>5, <1>6, <1>7, <1>8, <1>9, <1>10 DEF Next, Settled

(* What the calls of one request write are ledgers, and bundles of its run.  *)
LEMMA WriteTypes ==
  ASSUME Typed, NEW r \in Requests
  PROVE  /\ Inserted(r) \in [Runs -> Rows \cup {None}]
         /\ \A status \in Settled : Outcome(r, status) \in [Runs -> Rows \cup {None}]
         /\ InFlight(r) => Interrupted(r) \in [Runs -> Rows \cup {None}]
         /\ Bundled(r) \in [Runs -> Requests \cup {None}]
<1> LedgerType /\ PublishedType BY DEF Typed
<1>0. RunOf[r] \in Runs BY DEF Runs
<1>1. Inserted(r) \in [Runs -> Rows \cup {None}]
  <2>1. Row(r, "running") \in Rows BY DEF Row, Rows, Statuses
  <2> QED BY <1>0, <2>1 DEF Inserted, LedgerType
<1>2. ASSUME NEW status \in Settled PROVE Outcome(r, status) \in [Runs -> Rows \cup {None}]
  <2>1. CASE ~IsRunning(RunOf[r]) BY <2>1 DEF Outcome, LedgerType
  <2>2. CASE IsRunning(RunOf[r])
    <3>1. ledger[RunOf[r]] \in Rows BY <1>0, <2>2 DEF IsRunning, LedgerType
    <3>2. [ledger[RunOf[r]] EXCEPT !.status = status] \in Rows BY <3>1 DEF Rows, Statuses
    <3>3. Outcome(r, status)
            = [ledger EXCEPT ![RunOf[r]] = [ledger[RunOf[r]] EXCEPT !.status = status]]
      BY <2>2 DEF Outcome
    <3> QED BY <3>2, <3>3 DEF LedgerType
  <2> QED BY <2>1, <2>2
<1>3. InFlight(r) => Interrupted(r) \in [Runs -> Rows \cup {None}]
  BY <1>1, <1>2 DEF Interrupted, LedgerType, Settled
<1>4. Bundled(r) \in [Runs -> Requests \cup {None}] BY <1>0 DEF Bundled, PublishedType
<1> QED BY <1>1, <1>2, <1>3, <1>4

\* Every step keeps the store in its types.
LEMMA StoreTypes ==
  ASSUME Typed, [Next]_vars
  PROVE  LedgerType' /\ PublishedType'
<1> LedgerType /\ PublishedType BY DEF Typed
<1> USE DEF LedgerType, PublishedType
<1>1. CASE UNCHANGED <<ledger, published>> BY <1>1
<1>2. CASE Restart BY <1>2 DEF Restart
<1>3. ASSUME NEW r \in Requests, StartRun(r) PROVE LedgerType' /\ PublishedType'
  BY <1>3, WriteTypes DEF StartRun, InsertRefused
<1>4. ASSUME NEW r \in Requests, GenerateEnds(r) PROVE LedgerType' /\ PublishedType'
  BY <1>4, WriteTypes DEF GenerateEnds, Succeeded, ContractFailed, Failed
<1>5. ASSUME NEW r \in Requests, RecordFailure(r) \/ RecordSuccess(r)
      PROVE  LedgerType' /\ PublishedType'
  BY <1>5, WriteTypes DEF RecordFailure, RecordSuccess, Persist, Settled
<1>6. ASSUME NEW r \in Requests, Cancel(r) PROVE LedgerType' /\ PublishedType'
  BY <1>6, WriteTypes DEF Cancel
<1>7. ASSUME NEW r \in Requests, LatePublish(r) PROVE LedgerType' /\ PublishedType'
  BY <1>7, WriteTypes DEF LatePublish
<1>8. ASSUME NEW r \in Requests, Accept(r) \/ Publish(r) PROVE UNCHANGED <<ledger, published>>
  BY <1>8 DEF Accept, Publish
<1>9. CASE GoQuiet \/ Poll \/ UNCHANGED vars BY <1>1, <1>9 DEF GoQuiet, Poll, vars
<1> QED BY <1>1, <1>2, <1>3, <1>4, <1>5, <1>6, <1>7, <1>8, <1>9 DEF Next, Step

\* Every step keeps the sets in their types.
LEMMA SetTypes ==
  ASSUME Typed, [Next]_vars
  PROVE  SetsType'
<1> SetsType BY DEF Typed
<1> USE DEF SetsType
<1>1. CASE UNCHANGED <<started, orphans, sweptLive, lostWrites>> BY <1>1
<1>2. SweptLive \subseteq Runs BY DEF SweptLive, Expired
<1>3. ASSUME NEW r \in Requests, Accept(r) PROVE SetsType' BY <1>2, <1>3 DEF Accept
<1>4. ASSUME NEW r \in Requests, StartRun(r) PROVE SetsType' BY <1>4 DEF StartRun, InsertRefused
<1>5. ASSUME NEW r \in Requests, RecordFailure(r) \/ RecordSuccess(r) PROVE SetsType'
  BY <1>5 DEF RecordFailure, RecordSuccess, Persist
<1>6. ASSUME NEW r \in Requests, Cancel(r) PROVE SetsType' BY <1>6 DEF Cancel
<1>7. CASE Poll BY <1>2, <1>7 DEF Poll
<1>8. CASE Restart BY <1>8 DEF Restart
<1>9. ASSUME NEW r \in Requests, GenerateEnds(r) \/ Publish(r) \/ LatePublish(r)
      PROVE  UNCHANGED <<started, orphans, sweptLive, lostWrites>>
  BY <1>9 DEF GenerateEnds, Publish, LatePublish
<1>10. CASE GoQuiet \/ UNCHANGED vars BY <1>1, <1>10 DEF GoQuiet, vars
<1> QED BY <1>1, <1>3, <1>4, <1>5, <1>6, <1>7, <1>8, <1>9, <1>10 DEF Next, Step

\* Every step keeps the type invariant.
LEMMA TypesStep ==
  ASSUME Typed, [Next]_vars
  PROVE  Typed'
BY RequestTypes, EntryTypes, StoreTypes, SetTypes DEF Typed

-----------------------------------------------------------------------------
(* Requests, rows and bundles, from the three step lemmas.                   *)

\* Every step keeps an answer the last thing a request does.
LEMMA AnswersLastStep ==
  ASSUME Typed, AnswersLast, [Next]_vars
  PROVE  AnswersLast'
<1> SUFFICES ASSUME NEW r \in Requests, pc'[r] # "answered" PROVE answer'[r] = None
  BY DEF AnswersLast
<1>1. Moves(r) BY RequestStep
<1>2. answer'[r] = answer[r] /\ pc[r] # "answered"
  BY <1>1 DEF Moves, Arrives, Generates, Records, Answers, Goes
<1> QED BY <1>2 DEF AnswersLast

\* Every step keeps what a started request holds.
LEMMA StartedStep ==
  ASSUME Typed, AnswersLast, StartedWhenRecording, [Next]_vars
  PROVE  StartedWhenRecording'
<1>1. recording' = recording
  BY DEF Next, vars, GoQuiet, Poll, Restart, Accept, Step, StartRun, GenerateEnds, RecordFailure,
         RecordSuccess, Publish, Cancel, LatePublish
<1> SUFFICES ASSUME NEW r \in Requests
             PROVE  /\ r \in started' => recording /\ pc'[r] \notin {"new", "insert"}
                    /\ pc'[r] = "insert" => recording
                    /\ recording /\ (pc'[r] = "generate" \/ answer'[r] = "200") => r \in started'
                    /\ pc'[r] \in {"contract", "failed", "succeeded"} => r \in started'
  BY <1>1 DEF StartedWhenRecording
<1>2. Moves(r) BY RequestStep
<1>3. started \subseteq started'
  BY DEF Next, vars, GoQuiet, Poll, Restart, Accept, Step, StartRun, InsertRefused, GenerateEnds,
         RecordFailure, RecordSuccess, Publish, Cancel, LatePublish
<1>4. pc[r] # "answered" => answer[r] = None BY DEF AnswersLast
<1>5. /\ r \in started => recording /\ pc[r] \notin {"new", "insert"}
      /\ pc[r] = "insert" => recording
      /\ recording /\ (pc[r] = "generate" \/ answer[r] = "200") => r \in started
      /\ pc[r] \in {"contract", "failed", "succeeded"} => r \in started
  BY DEF StartedWhenRecording
<1>6. CASE pc[r] = "insert" /\ Goes(r, "generate") /\ NewlyStarted(r)
  BY <1>4, <1>5, <1>6 DEF Goes, NewlyStarted
<1>7. CASE (r \in started' => r \in started) /\ Goes(r, pc[r])
  BY <1>3, <1>4, <1>5, <1>7 DEF Goes
<1>8. CASE (r \in started' => r \in started) /\ Arrives(r)
  BY <1>3, <1>4, <1>5, <1>8, ServiceAssumption DEF Arrives, Goes, Answers, Replies
<1>9. CASE (r \in started' => r \in started) /\ Generates(r)
  BY <1>3, <1>4, <1>5, <1>9, ServiceAssumption DEF Generates, Goes, Answers, Replies
<1>10. CASE (r \in started' => r \in started) /\ Records(r)
  BY <1>3, <1>5, <1>10 DEF Records, Answers
<1>11. CASE (r \in started' => r \in started) /\ InFlight(r) /\ Answers(r, {"cancelled", "lost"})
  BY <1>3, <1>5, <1>11 DEF InFlight, Waiting, Answers
<1> QED BY <1>2, <1>6, <1>7, <1>8, <1>9, <1>10, <1>11 DEF Moves

(* A row keeps its owner.                                                    *)
LEMMA OwnersStay ==
  ASSUME Typed, [Next]_vars, NEW n \in Runs, ledger[n] # None
  PROVE  ledger'[n] # None /\ ledger'[n].owner = ledger[n].owner
<1>1. RowMoves(n) BY RowStep
<1>2. ledger[n] \in Rows BY DEF Typed, LedgerType
<1>3. ASSUME NEW status \in Settled, ledger'[n] = [ledger[n] EXCEPT !.status = status]
      PROVE  ledger'[n] # None /\ ledger'[n].owner = ledger[n].owner
  <2>1. ledger'[n] \in Rows BY <1>2, <1>3 DEF Rows, Statuses
  <2> QED BY <1>2, <1>3, <2>1, ServiceAssumption DEF Rows
<1> QED BY <1>1, <1>3 DEF RowMoves, Written, SettledBy, Settled

\* Every step keeps a running request the owner of its row.
LEMMA OwnsRowStep ==
  ASSUME Typed, StartedOwnsRow, [Next]_vars
  PROVE  StartedOwnsRow'
<1> SUFFICES ASSUME NEW r \in started'
             PROVE  ledger'[RunOf[r]] # None /\ ledger'[RunOf[r]].owner = r
  BY DEF StartedOwnsRow
<1>1. r \in Requests /\ RunOf[r] \in Runs BY SetTypes DEF SetsType, Runs
<1>2. CASE r \in started BY <1>1, <1>2, OwnersStay DEF StartedOwnsRow
<1>3. CASE r \notin started
  <2>1. ledger'[RunOf[r]] = Row(r, "running")
    BY <1>1, <1>3, RequestStep DEF Moves, NewlyStarted
  <2>2. Row(r, "running") \in Rows BY <1>1 DEF Row, Rows, Statuses
  <2> QED BY <2>1, <2>2, ServiceAssumption DEF Row
<1> QED BY <1>2, <1>3

(* A request that answered keeps its answer, and one past its insert does    *)
(* not go back.                                                              *)
LEMMA RequestsAdvance ==
  ASSUME Typed, AnswersLast, [Next]_vars, NEW r \in Requests
  PROVE  /\ answer[r] # None => answer'[r] = answer[r]
         /\ pc[r] \notin {"new", "insert"} => pc'[r] \notin {"new", "insert"}
<1>1. Moves(r) BY RequestStep
<1>2. answer[r] # None => pc[r] = "answered" BY DEF AnswersLast
<1> QED
  BY <1>1, <1>2 DEF Moves, Arrives, Generates, Records, Goes, Answers, InFlight, Waiting

\* Every step keeps the rows of the ledger accounted for.
LEMMA RowsStep ==
  ASSUME Typed, AnswersLast, StartedWhenRecording, StartedOwnsRow, RowsTell, [Next]_vars
  PROVE  RowsTell'
<1> SUFFICES ASSUME NEW n \in Runs, ledger'[n] # None PROVE RowOf(n)'
  BY DEF RowsTell
<1>1. RowMoves(n) BY RowStep
<1>2. CASE ledger'[n] = ledger[n]
  <2>1. RowOf(n) /\ ledger[n].owner \in Requests BY <1>2 DEF RowsTell, Typed, LedgerType, Rows
  <2>2. answer[ledger[n].owner] # None =>
          answer'[ledger[n].owner] = answer[ledger[n].owner]
    BY <2>1, RequestsAdvance
  <2>3. pc'[ledger[n].owner] \notin {"new", "insert"} BY <2>1, RequestsAdvance DEF RowOf
  <2> QED BY <1>2, <2>1, <2>2, <2>3, ServiceAssumption DEF RowOf, Replies
<1>3. ASSUME NEW r \in Requests, RunOf[r] = n, Written(n, r) PROVE RowOf(n)'
  BY <1>3 DEF Written, Row, RowOf
<1>4. ASSUME NEW r \in Requests, RunOf[r] = n, SettledBy(n, r) PROVE RowOf(n)'
  <2>1. r \in started BY <1>4 DEF SettledBy, StartedWhenRecording
  <2>2. ledger[n].owner = r /\ ledger[n] \in Rows
    BY <1>4, <2>1 DEF StartedOwnsRow, Typed, LedgerType
  <2>3. pc'[r] = "answered" BY <1>4 DEF SettledBy, Answers
  <2>4. CASE /\ ledger'[n] = [ledger[n] EXCEPT !.status = "failed"]
             /\ Answers(r, {"5xx", "cancelled", "lost"})
    BY <1>4, <2>2, <2>3, <2>4 DEF RowOf, Rows, Answers
  <2>5. CASE /\ ledger'[n] = [ledger[n] EXCEPT !.status = "succeeded"]
             /\ Answers(r, {"200", "cancelled", "lost"})
    BY <1>4, <2>2, <2>3, <2>5 DEF RowOf, Rows, Answers
  <2> QED BY <1>4, <2>4, <2>5 DEF SettledBy
<1> QED BY <1>1, <1>2, <1>3, <1>4 DEF RowMoves

(* A settled row is never touched again.                                     *)
LEMMA SettledRowsStay ==
  ASSUME Typed, [Next]_vars, NEW n \in Runs, ledger[n] # None, ledger[n].status \in Settled
  PROVE  ledger'[n] = ledger[n]
<1>1. RowMoves(n) BY RowStep
<1> QED BY <1>1 DEF RowMoves, Written, SettledBy, IsRunning, Settled

\* Every step keeps what a settling request knows.
LEMMA SettlingStep ==
  ASSUME Typed, AnswersLast, StartedWhenRecording, StartedOwnsRow, AnsweredIsSettled, [Next]_vars
  PROVE  AnsweredIsSettled'
<1> SUFFICES ASSUME NEW r \in Requests,
                    r \in started', answer'[r] \in {"200", "5xx"}, r \notin lostWrites'
             PROVE  ledger'[RunOf[r]].status \in Settled
  BY DEF AnsweredIsSettled
<1>1. Moves(r) BY RequestStep
<1>2. r \notin lostWrites BY LossesStay
<1>3. RunOf[r] \in Runs BY DEF Runs
<1>4. CASE answer'[r] = answer[r]
  <2>1. pc[r] = "answered" BY <1>4, ServiceAssumption DEF AnswersLast, Replies
  <2>2. r \in started BY <1>1, <2>1 DEF Moves
  <2>3. ledger[RunOf[r]].status \in Settled /\ ledger[RunOf[r]] # None
    BY <1>2, <1>4, <2>2 DEF AnsweredIsSettled, StartedOwnsRow
  <2> QED BY <1>3, <2>3, SettledRowsStay
<1>5. CASE answer'[r] # answer[r]
  <2>1. r \in started => recording /\ pc[r] \notin {"new", "insert"} BY DEF StartedWhenRecording
  <2>2. (r \in started' => r \in started) /\ (Arrives(r) \/ Generates(r) \/ Records(r))
    BY <1>1, <1>5 DEF Moves, Goes, Answers
  <2>3. Records(r) BY <1>5, <2>1, <2>2 DEF Arrives, Generates, Goes, Answers
  <2> QED BY <2>1, <2>2, <2>3 DEF Records
<1> QED BY <1>4, <1>5

\* Every step keeps a success backed by its bundle.
LEMMA SuccessStep ==
  ASSUME Typed, AnswersLast, SuccessIsPublished, [Next]_vars
  PROVE  SuccessIsPublished'
<1> SUFFICES ASSUME NEW r \in Requests, pc'[r] = "succeeded" \/ answer'[r] = "200"
             PROVE  published'[RunOf[r]] = r
  BY DEF SuccessIsPublished
<1>1. Moves(r) BY RequestStep
<1>2. RunOf[r] \in Runs /\ r # None BY ServiceAssumption DEF Runs
<1>3. CASE pc[r] = "succeeded" \/ answer[r] = "200"
  <2>1. published[RunOf[r]] = r BY <1>3 DEF SuccessIsPublished
  <2> QED BY <1>2, <2>1, BundleStep DEF BundleMoves
<1>4. CASE pc[r] # "succeeded" /\ answer[r] # "200"
  BY <1>1, <1>4 DEF Moves, Arrives, Generates, Records, Goes, Answers
<1> QED BY <1>3, <1>4

-----------------------------------------------------------------------------
(* Locks.                                                                    *)

Holders == {q \in Requests : pc[q] \in Holding}

(* The same holders hold the same locks.                                     *)
LEMMA HoldersStay ==
  ASSUME LockMatchesHolder, Holders' = Holders, UNCHANGED active
  PROVE  LockMatchesHolder'
BY DEF LockMatchesHolder, Holders

(* A holder that lets go frees its own project and no other.               *)
LEMMA HolderLeaves ==
  ASSUME LockMatchesHolder, NEW r \in Requests, r \in Holders,
         Holders' = Holders \ {r}, Unlock(r)
  PROVE  LockMatchesHolder'
<1>1. active = {ProjectOf[q] : q \in Holders} BY DEF LockMatchesHolder, Holders
<1>2. \A p, q \in Holders : ProjectOf[p] = ProjectOf[q] => p = q BY DEF LockMatchesHolder, Holders
<1>3. active' = {ProjectOf[q] : q \in Holders'} BY <1>1, <1>2 DEF Unlock
<1>4. \A p, q \in Holders' : ProjectOf[p] = ProjectOf[q] => p = q BY <1>2
<1> QED BY <1>3, <1>4 DEF LockMatchesHolder, Holders

(* A new holder takes a free project.                                        *)
LEMMA HolderEnters ==
  ASSUME LockMatchesHolder, NEW r \in Requests, ProjectOf[r] \notin active,
         Holders' = Holders \cup {r}, active' = active \cup {ProjectOf[r]}
  PROVE  LockMatchesHolder'
<1>1. active = {ProjectOf[q] : q \in Holders} BY DEF LockMatchesHolder, Holders
<1>2. \A p, q \in Holders : ProjectOf[p] = ProjectOf[q] => p = q BY DEF LockMatchesHolder, Holders
<1>3. active' = {ProjectOf[q] : q \in Holders'} BY <1>1
<1>4. \A p, q \in Holders' : ProjectOf[p] = ProjectOf[q] => p = q BY <1>1, <1>2
<1> QED BY <1>3, <1>4 DEF LockMatchesHolder, Holders

\* Every step keeps a project lock with one holder.
LEMMA LocksStep ==
  ASSUME Typed, LockMatchesHolder, [Next]_vars
  PROVE  LockMatchesHolder'
<1> PcType BY DEF Typed
<1> USE DEF PcType, Reply, Await
<1>1. CASE UNCHANGED <<pc, active>> BY <1>1 DEF LockMatchesHolder
<1>2. CASE Restart
  <2>1. \A r \in Requests : pc'[r] \notin Holding
    BY <1>2 DEF Restart, InFlight, Waiting, Holding
  <2> QED BY <1>2, <2>1 DEF Restart, LockMatchesHolder
<1>3. ASSUME NEW r \in Requests, Accept(r) PROVE LockMatchesHolder'
  <2>1. CASE Conflict(r) \/ Busy(r)
    <3>1. Holders' = Holders /\ UNCHANGED active
      BY <1>3, <2>1 DEF Accept, Conflict, Busy, Holders, Holding
    <3> QED BY <3>1, HoldersStay
  <2>2. CASE Admit(r)
    <3>1. Holders' = Holders \cup {r} BY <2>2 DEF Admit, Holders, Holding
    <3> QED BY <2>2, <3>1, HolderEnters DEF Admit
  <2> QED BY <1>3, <2>1, <2>2 DEF Accept
<1>4. ASSUME NEW r \in Requests, r \in Holders, pc' = [pc EXCEPT ![r] = "answered"], Unlock(r)
      PROVE  LockMatchesHolder'
  <2>1. Holders' = Holders \ {r} BY <1>4 DEF Holders, Holding
  <2> QED BY <1>4, <2>1, HolderLeaves
<1>5. ASSUME NEW r \in Requests, StartRun(r) PROVE LockMatchesHolder'
  <2>1. CASE InsertRefused(r) BY <1>4, <1>5, <2>1 DEF StartRun, InsertRefused, Holders, Holding
  <2>2. CASE Await(r, "generate") /\ UNCHANGED active
    <3>1. Holders' = Holders BY <1>5, <2>2 DEF StartRun, Holders, Holding
    <3> QED BY <2>2, <3>1, HoldersStay
  <2> QED BY <1>5, <2>1, <2>2 DEF StartRun
<1>6. ASSUME NEW r \in Requests, pc[r] = "generate", Unlock(r),
             pc' = [pc EXCEPT ![r] = "failed"] \/ pc' = [pc EXCEPT ![r] = "succeeded"]
      PROVE  LockMatchesHolder'
  <2>1. Holders' = Holders \ {r} /\ r \in Holders BY <1>6 DEF Holders, Holding
  <2> QED BY <1>6, <2>1, HolderLeaves
<1>7. ASSUME NEW r \in Requests, GenerateEnds(r) PROVE LockMatchesHolder'
  <2>0. pc[r] = "generate" /\ r \in Holders BY <1>7 DEF GenerateEnds, Holders, Holding
  <2>1. CASE pc' = [pc EXCEPT ![r] = "contract"] /\ UNCHANGED active
    <3>1. Holders' = Holders BY <2>0, <2>1 DEF Holders, Holding
    <3> QED BY <2>1, <3>1, HoldersStay
  <2> QED BY <1>4, <1>6, <1>7, <2>0, <2>1 DEF GenerateEnds, Succeeded, ContractFailed, Failed
<1>8. ASSUME NEW r \in Requests, r \notin Holders, pc' = [pc EXCEPT ![r] = "answered"],
             UNCHANGED active
      PROVE  LockMatchesHolder'
  <2>1. Holders' = Holders BY <1>8 DEF Holders, Holding
  <2> QED BY <1>8, <2>1, HoldersStay
<1>9. ASSUME NEW r \in Requests, RecordFailure(r) PROVE LockMatchesHolder'
  <2>1. CASE pc[r] = "contract" BY <1>4, <1>9, <2>1 DEF RecordFailure, Holders, Holding
  <2>2. CASE pc[r] = "failed" BY <1>8, <1>9, <2>2 DEF RecordFailure, Holders, Holding
  <2> QED BY <1>9, <2>1, <2>2 DEF RecordFailure
<1>10. ASSUME NEW r \in Requests, RecordSuccess(r) PROVE LockMatchesHolder'
  BY <1>8, <1>10 DEF RecordSuccess, Holders, Holding
<1>11. ASSUME NEW r \in Requests, Cancel(r) PROVE LockMatchesHolder'
  BY <1>4, <1>8, <1>11 DEF Cancel, Holders
<1>12. ASSUME NEW r \in Requests, Publish(r) \/ LatePublish(r) PROVE UNCHANGED <<pc, active>>
  BY <1>12 DEF Publish, LatePublish
<1>13. CASE GoQuiet \/ Poll \/ UNCHANGED vars BY <1>1, <1>13 DEF GoQuiet, Poll, vars
<1> QED BY <1>1, <1>2, <1>3, <1>5, <1>7, <1>9, <1>10, <1>11, <1>12, <1>13 DEF Next, Step

-----------------------------------------------------------------------------
(* Progress.                                                                 *)

(* The entry of a run is the same, whatever its age.                         *)
Alike(n) ==
    \/ entry'[n] = entry[n]
    \/ /\ entry[n] # None /\ entry'[n] # None
       /\ entry'[n].status = entry[n].status /\ entry'[n].owner = entry[n].owner

(* A request that ends settles the entry of its run.                         *)
EndsEntry(r, n) ==
    /\ n = RunOf[r] /\ Working(r) /\ ~Working(r)'
    /\ entry'[n] # None /\ entry'[n].status \in Settled
    /\ entry'[n].status = "succeeded" => published'[n] # None

(* What a step of one request, other than its arrival, does to the entries.  *)
EntryEffect(r) ==
    /\ \A q \in Requests : q # r => pc'[q] = pc[q]
    /\ Working(r)' => Working(r)
    /\ \A n \in Runs : Alike(n) \/ EndsEntry(r, n)
    /\ Working(r) /\ ~Working(r)' => ~Live(entry', RunOf[r])
    /\ UNCHANGED sweptLive

\* What finishing does to the progress entries.
LEMMA FinishEffect ==
  ASSUME NEW entries \in [Runs -> Entries \cup {None}], NEW n \in Runs, NEW m \in Runs,
         NEW status \in Settled
  PROVE  LET f == Finish(entries, n, status) IN
         /\ m # n \/ ~Live(entries, n) => f[m] = entries[m]
         /\ m = n /\ Live(entries, n) =>
                f[m] # None /\ f[m].status = status /\ f[m].owner = entries[n].owner
<1>1. CASE ~Live(entries, n) BY <1>1 DEF Finish
<1>2. CASE Live(entries, n)
  <2>1. entries[n] \in Entries BY <1>2 DEF Live
  <2> DEFINE e == [entries[n] EXCEPT !.status = status, !.age = "fresh"]
  <2>2. e \in Entries /\ e.status = status /\ e.owner = entries[n].owner
    BY <2>1 DEF Entries, Statuses
  <2>3. Finish(entries, n, status) = [entries EXCEPT ![n] = e] BY <1>2 DEF Finish
  <2>4. e # None BY <2>2, ServiceAssumption
  <2> HIDE DEF e
  <2> QED BY <1>2, <2>2, <2>3, <2>4
<1> QED BY <1>1, <1>2

(* Finishing the own run is such an effect for a request that ends.          *)
LEMMA FinishOwnEffect ==
  ASSUME Typed, NEW r \in Requests, NEW status \in Settled,
         FinishOwn(r, status), Working(r), ~Working(r)',
         status = "succeeded" => published'[RunOf[r]] # None
  PROVE  /\ \A n \in Runs : Alike(n) \/ EndsEntry(r, n)
         /\ ~Live(entry', RunOf[r])
<1>0. RunOf[r] \in Runs /\ EntryType BY DEF Runs, Typed
<1>1. entry' = Finish(entry, RunOf[r], status) BY DEF FinishOwn
<1>2. CASE ~Live(entry, RunOf[r])
  <2>1. entry' = entry BY <1>1, <1>2 DEF Finish
  <2> QED BY <1>2, <2>1 DEF Alike, Live
<1>3. CASE Live(entry, RunOf[r])
  <2>1. /\ entry'[RunOf[r]] # None /\ entry'[RunOf[r]].status = status
        /\ \A n \in Runs : n # RunOf[r] => entry'[n] = entry[n]
    BY <1>0, <1>1, <1>3, FinishEffect DEF EntryType
  <2> QED BY <2>1 DEF Alike, EndsEntry, Live, Settled
<1> QED BY <1>2, <1>3

\* What a progress report does to the entries.
LEMMA TouchEffect ==
  ASSUME Typed, NEW r \in Requests, UNCHANGED entry \/ Touch(RunOf[r])
  PROVE  \A n \in Runs : Alike(n)
<1>0. RunOf[r] \in Runs /\ EntryType BY DEF Runs, Typed
<1> QED BY <1>0, TouchType DEF Alike

\* What each step does to the entries.
LEMMA EntryEffects ==
  ASSUME Typed, [Next]_vars, NEW r \in Requests,
         Step(r) \/ Publish(r) \/ Cancel(r) \/ LatePublish(r)
  PROVE  EntryEffect(r)
<1> PcType BY DEF Typed
<1> USE DEF Working, Waiting
<1>0. /\ \A q \in Requests : q # r => pc'[q] = pc[q]
      /\ UNCHANGED sweptLive
  BY OthersStay DEF Typed, Step, StartRun, GenerateEnds, RecordFailure, RecordSuccess, Publish,
                    Cancel, LatePublish
<1>1. pc'[r] = "answered" \/ pc'[r] = "succeeded" \/ pc[r] \in Waiting \ {"succeeded"} \/ pc'[r] = pc[r]
  BY DEF Step, StartRun, GenerateEnds, RecordFailure, RecordSuccess, Publish, Cancel, LatePublish,
         Reply, PcType, InFlight
<1>2. Working(r)' => Working(r) BY <1>1
<1>3. SUFFICES /\ \A n \in Runs : Alike(n) \/ EndsEntry(r, n)
               /\ Working(r) /\ ~Working(r)' => ~Live(entry', RunOf[r])
  BY <1>0, <1>2 DEF EntryEffect
<1>4. ASSUME UNCHANGED entry \/ Touch(RunOf[r]), ~Working(r) \/ Working(r)'
      PROVE  /\ \A n \in Runs : Alike(n) \/ EndsEntry(r, n)
             /\ Working(r) /\ ~Working(r)' => ~Live(entry', RunOf[r])
  BY <1>4, TouchEffect
<1>5. ASSUME FinishOwn(r, "failed"), Working(r), ~Working(r)'
      PROVE  /\ \A n \in Runs : Alike(n) \/ EndsEntry(r, n)
             /\ Working(r) /\ ~Working(r)' => ~Live(entry', RunOf[r])
  BY <1>5, FinishOwnEffect DEF Settled
<1>6. CASE StartRun(r)
  <2>1. CASE InsertRefused(r)
    BY <1>5, <1>6, <2>1 DEF StartRun, InsertRefused, Reply, PcType
  <2>2. CASE Await(r, "generate") /\ UNCHANGED entry BY <1>4, <1>6, <2>2 DEF Await, PcType
  <2> QED BY <1>6, <2>1, <2>2 DEF StartRun
<1>7. CASE GenerateEnds(r)
  <2>0. pc[r] = "generate" BY <1>7 DEF GenerateEnds
  <2>1. CASE Succeeded(r)
    <3>1. published'[RunOf[r]] = r
      <4>1. RunOf[r] \in Runs /\ PublishedType BY DEF Runs, Typed
      <4> QED BY <2>1, <4>1 DEF Succeeded, Bundled, PublishedType
    <3>2. ~Working(r)' BY <2>1 DEF Succeeded, Await, Reply, PcType
    <3> QED BY <2>0, <2>1, <3>1, <3>2, FinishOwnEffect, ServiceAssumption DEF Succeeded, Settled
  <2>2. CASE ContractFailed(r) BY <1>4, <1>5, <2>0, <2>2 DEF ContractFailed, Await, Reply, PcType
  <2>3. CASE Failed(r) BY <1>4, <1>5, <2>0, <2>3 DEF Failed, Await, Reply, PcType
  <2> QED BY <1>7, <2>1, <2>2, <2>3 DEF GenerateEnds
<1>8. CASE RecordFailure(r) BY <1>5, <1>8 DEF RecordFailure, Reply, PcType
<1>9. CASE RecordSuccess(r) BY <1>4, <1>9 DEF RecordSuccess
<1>10. CASE Publish(r) \/ LatePublish(r) BY <1>4, <1>10 DEF Publish, LatePublish
<1>11. CASE Cancel(r)
  <2>1. CASE pc[r] = "succeeded" BY <1>4, <1>11, <2>1 DEF Cancel
  <2>2. CASE pc[r] # "succeeded" BY <1>5, <1>11, <2>2 DEF Cancel, Reply, PcType, InFlight
  <2> QED BY <2>1, <2>2
<1> QED BY <1>6, <1>7, <1>8, <1>9, <1>10, <1>11 DEF Step

(* What was published stays published.                                       *)
LEMMA BundlesStay ==
  ASSUME Typed, [Next]_vars, NEW n \in Runs, published[n] # None
  PROVE  published'[n] # None
BY BundleStep DEF BundleMoves

\* Every such effect keeps the entries in order.
LEMMA EffectKeepsEntries ==
  ASSUME Typed, EntriesTell, EntryKept, [Next]_vars, NEW r \in Requests, EntryEffect(r)
  PROVE  EntriesTell' /\ EntryKept'
<1> USE DEF Working
<1>1. ASSUME NEW n \in Runs PROVE EntryOf(n)'
  <2>1. EntryOf(n) BY DEF EntriesTell
  <2>2. CASE EndsEntry(r, n) BY <2>2 DEF EndsEntry, EntryOf, Live, Settled
  <2>3. CASE Alike(n)
    <3>1. entry'[n] # None /\ entry'[n].status = "succeeded" => published'[n] # None
      BY <2>1, <2>3, BundlesStay DEF EntryOf, Alike
    <3>2. ASSUME Live(entry', n)
          PROVE  RunOf[entry'[n].owner] = n /\ Working(entry[n].owner)'
      <4>1. Live(entry, n) /\ entry'[n].owner = entry[n].owner BY <2>3, <3>2 DEF Live, Alike
      <4>2. RunOf[entry[n].owner] = n /\ Working(entry[n].owner) BY <2>1, <4>1 DEF EntryOf
      <4>3. entry[n].owner \in Requests BY <4>1 DEF Live, Typed, EntryType, Entries
      <4>4. CASE entry[n].owner # r BY <4>1, <4>2, <4>3, <4>4 DEF EntryEffect
      <4>5. CASE entry[n].owner = r BY <3>2, <4>1, <4>2, <4>5 DEF EntryEffect
      <4> QED BY <4>4, <4>5
    <3> QED BY <3>1, <3>2 DEF EntryOf
  <2> QED BY <2>2, <2>3 DEF EntryEffect
<1>2. ASSUME NEW q \in Requests, Working(q)', RunOf[q] \notin sweptLive'
      PROVE  Live(entry', RunOf[q]) /\ entry'[RunOf[q]].owner = q
  <2>1. Working(q) /\ RunOf[q] \notin sweptLive BY <1>2 DEF EntryEffect
  <2>2. Live(entry, RunOf[q]) /\ entry[RunOf[q]].owner = q BY <2>1 DEF EntryKept
  <2>3. RunOf[q] \in Runs BY DEF Runs
  <2>4. ~EndsEntry(r, RunOf[q])
    BY <1>2, <2>1, <2>2 DEF EndsEntry, EntryKept
  <2>5. Alike(RunOf[q]) BY <2>3, <2>4 DEF EntryEffect
  <2> QED BY <2>2, <2>5 DEF Alike, Live
<1> QED BY <1>1, <1>2 DEF EntriesTell, EntryKept

(* A sweep takes no entry of a working request without remembering it.       *)
LEMMA SweepEffect ==
  ASSUME Typed, EntriesTell, EntryKept
  PROVE  /\ \A n \in Runs : Swept[n] = entry[n] \/ Swept[n] = None
         /\ \A r \in Requests : Working(r) /\ RunOf[r] \notin SweptLive =>
                Live(Swept, RunOf[r]) /\ Swept[RunOf[r]].owner = r
<1>1. \A n \in Runs : Swept[n] = entry[n] \/ Swept[n] = None BY DEF Swept
<1>2. ASSUME NEW r \in Requests, Working(r), RunOf[r] \notin SweptLive
      PROVE  Live(Swept, RunOf[r]) /\ Swept[RunOf[r]].owner = r
  <2>1. RunOf[r] \in Runs /\ InFlight(r) BY <1>2 DEF Runs, InFlight, Working
  <2>2. RunOf[r] \notin Expired /\ RunOf[r] \notin sweptLive BY <1>2, <2>1 DEF SweptLive
  <2>3. Swept[RunOf[r]] = entry[RunOf[r]] BY <2>1, <2>2 DEF Swept
  <2> QED BY <1>2, <2>2, <2>3 DEF EntryKept, Live
<1> QED BY <1>1, <1>2

\* Polling changes no entry.
LEMMA PollEntries ==
  ASSUME Typed, EntriesTell, EntryKept, [Next]_vars, entry' = Swept, sweptLive' = SweptLive,
         UNCHANGED published, \A q \in Requests : Working(q)' <=> Working(q)
  PROVE  EntriesTell' /\ EntryKept'
<1>1. ASSUME NEW n \in Runs PROVE EntryOf(n)'
  <2>1. EntryOf(n) BY DEF EntriesTell
  <2>2. CASE entry'[n] = None BY <2>2 DEF EntryOf, Live
  <2>3. CASE entry'[n] = entry[n] /\ entry[n] # None
    <3>1. entry[n].owner \in Requests BY <2>3 DEF Typed, EntryType, Entries
    <3> QED BY <2>1, <2>3, <3>1 DEF EntryOf, Live
  <2> QED BY <2>2, <2>3, SweepEffect
<1>2. EntryKept' BY SweepEffect DEF EntryKept
<1> QED BY <1>1, <1>2 DEF EntriesTell

(* An arriving request takes the entry of its run only when none is running. *)
LEMMA ArrivalEntries ==
  ASSUME Typed, EntriesTell, EntryKept, [Next]_vars, NEW r \in Requests, Accept(r)
  PROVE  EntriesTell' /\ EntryKept'
<1> PcType BY DEF Typed
<1> DEFINE n0 == RunOf[r]
<1>0. n0 \in Runs BY DEF Runs
<1>1. /\ \A q \in Requests : q # r => pc'[q] = pc[q]
      /\ pc[r] = "new" /\ ~Working(r)
      /\ sweptLive' = SweptLive /\ UNCHANGED published
  BY OthersStay DEF Accept, Working, Waiting, Typed
<1>2. CASE Conflict(r)
  <2>1. ~Working(r)' BY <1>2 DEF Conflict, Reply, Working, Waiting, PcType
  <2>2. \A q \in Requests : Working(q)' <=> Working(q) BY <1>1, <2>1 DEF Working
  <2> QED BY <1>1, <1>2, <2>2, PollEntries DEF Conflict
<1>3. CASE Busy(r) \/ Admit(r)
  <2> DEFINE begun == [Swept EXCEPT ![n0] = NewEntry(r)]
  <2>0. ~Live(Swept, n0) BY <1>3 DEF Busy, Admit
  <2>1. begun \in [Runs -> Entries \cup {None}] /\ begun[n0] = NewEntry(r)
        /\ \A n \in Runs : n # n0 => begun[n] = Swept[n]
    BY <1>0, SweptType, NewEntryType DEF Typed
  <2>2. NewEntry(r) # None /\ NewEntry(r).owner = r /\ NewEntry(r).status = "running"
    BY NewEntryType, ServiceAssumption DEF NewEntry
  <2>3. Live(begun, n0) BY <2>1, <2>2 DEF Live
  <2> HIDE DEF begun
  <2>4. /\ \A n \in Runs : n # n0 => entry'[n] = Swept[n]
        /\ entry'[n0] # None /\ entry'[n0].owner = r
        /\ entry'[n0].status # "succeeded"
        /\ Live(entry', n0) => Working(r)'
        /\ Working(r)' => Live(entry', n0)
    <3>1. CASE Busy(r)
      <4>1. entry' = Finish(begun, n0, "failed") BY <3>1 DEF Busy, begun
      <4>2. ~Working(r)' BY <3>1 DEF Busy, Reply, Working, Waiting, PcType
      <4>3. /\ \A n \in Runs : n # n0 => entry'[n] = begun[n]
            /\ entry'[n0] # None /\ entry'[n0].status = "failed" /\ entry'[n0].owner = r
        BY <1>0, <2>1, <2>2, <2>3, <4>1, FinishEffect DEF Settled
      <4> QED BY <2>1, <4>2, <4>3 DEF Live
    <3>2. CASE Admit(r)
      <4>1. entry' = begun BY <3>2 DEF Admit, begun
      <4>2. Working(r)' BY <3>2 DEF Admit, Await, Working, Waiting, PcType
      <4> QED BY <2>1, <2>2, <2>3, <4>1, <4>2
    <3> QED BY <1>3, <3>1, <3>2
  <2>5. ASSUME NEW n \in Runs PROVE EntryOf(n)'
    <3>1. CASE n = n0 BY <2>4, <3>1 DEF EntryOf
    <3>2. CASE n # n0 /\ entry'[n] = None BY <3>2 DEF EntryOf, Live
    <3>3. CASE n # n0 /\ entry'[n] = entry[n] /\ entry[n] # None
      <4>1. EntryOf(n) /\ entry[n].owner \in Requests
        BY <3>3 DEF EntriesTell, Typed, EntryType, Entries
      <4>2. Live(entry, n) => entry[n].owner # r BY <1>1, <4>1 DEF EntryOf
      <4> QED BY <1>1, <3>3, <4>1, <4>2 DEF EntryOf, Live, Working
    <3> QED BY <2>4, <3>1, <3>2, <3>3, SweepEffect
  <2>6. ASSUME NEW q \in Requests, Working(q)', RunOf[q] \notin sweptLive'
        PROVE  Live(entry', RunOf[q]) /\ entry'[RunOf[q]].owner = q
    <3>1. CASE q = r BY <2>4, <2>6, <3>1
    <3>2. CASE q # r
      <4>1. Working(q) BY <1>1, <2>6, <3>2 DEF Working
      <4>2. Live(Swept, RunOf[q]) /\ Swept[RunOf[q]].owner = q BY <1>1, <2>6, <4>1, SweepEffect
      <4>3. RunOf[q] # n0 /\ RunOf[q] \in Runs BY <2>0, <4>2 DEF Runs
      <4> QED BY <2>4, <4>2, <4>3 DEF Live
    <3> QED BY <3>1, <3>2
  <2> QED BY <2>5, <2>6 DEF EntriesTell, EntryKept
<1> QED BY <1>2, <1>3 DEF Accept

\* Every step keeps the entries in order.
LEMMA EntriesStep ==
  ASSUME Typed, EntriesTell, EntryKept, [Next]_vars
  PROVE  EntriesTell' /\ EntryKept'
<1>1. CASE UNCHANGED vars
  BY <1>1 DEF vars, EntriesTell, EntryKept, EntryOf, Live, Working
<1>2. CASE Poll
  <2>1. \A q \in Requests : Working(q)' <=> Working(q) BY <1>2 DEF Poll, Working
  <2> QED BY <1>2, <2>1, PollEntries DEF Poll
<1>3. CASE GoQuiet
  <2>1. \A n \in Runs : Alike(n) BY <1>3, QuietType DEF Typed, Alike
  <2>2. UNCHANGED <<pc, sweptLive>> BY <1>3 DEF GoQuiet
  <2>3. ASSUME NEW r \in Requests PROVE EntryEffect(r)
    BY <2>1, <2>2 DEF EntryEffect, Working
  <2>4. CASE Requests # {} BY <2>3, <2>4, EffectKeepsEntries
  <2>5. CASE Requests = {} BY <2>5 DEF EntriesTell, EntryKept, Runs
  <2> QED BY <2>4, <2>5
<1>4. CASE Restart
  <2>1. \A n \in Runs : entry'[n] = None BY <1>4 DEF Restart
  <2>2. \A r \in Requests : ~Working(r)' BY <1>4 DEF Restart, InFlight, Working, Waiting
  <2> QED BY <2>1, <2>2 DEF EntriesTell, EntryKept, EntryOf, Live
<1>5. ASSUME NEW r \in Requests, Accept(r) PROVE EntriesTell' /\ EntryKept'
  BY <1>5, ArrivalEntries
<1>6. ASSUME NEW r \in Requests, Step(r) \/ Publish(r) \/ Cancel(r) \/ LatePublish(r)
      PROVE  EntriesTell' /\ EntryKept'
  BY <1>6, EntryEffects, EffectKeepsEntries
<1> QED BY <1>1, <1>2, <1>3, <1>4, <1>5, <1>6 DEF Next

-----------------------------------------------------------------------------
(* The theorems.                                                             *)

\* The invariant holds at the start.
LEMMA InitInv == Init => IndInv
<1> SUFFICES ASSUME Init PROVE IndInv OBVIOUS
<1> USE DEF Init
<1>1. Typed
  BY DEF Typed, PcType, AnswerType, EntryType, LedgerType, PublishedType, SetsType
<1>2. AnswersLast /\ StartedWhenRecording /\ StartedOwnsRow /\ RowsTell /\ SuccessIsPublished
  BY ServiceAssumption DEF AnswersLast, StartedWhenRecording, StartedOwnsRow, RowsTell,
                           SuccessIsPublished, Replies
<1>3. AnsweredIsSettled /\ LockMatchesHolder BY DEF AnsweredIsSettled, LockMatchesHolder, Holding
<1>4. EntriesTell /\ EntryKept
  BY DEF EntriesTell, EntryKept, EntryOf, Live, Working, Waiting
<1> QED BY <1>1, <1>2, <1>3, <1>4 DEF IndInv

\* Every step keeps the invariant.
LEMMA StepInv == IndInv /\ [Next]_vars => IndInv'
<1> SUFFICES ASSUME IndInv, [Next]_vars PROVE IndInv' OBVIOUS
<1> USE DEF IndInv
<1>1. Typed' BY TypesStep
<1>2. AnswersLast' /\ StartedWhenRecording' BY AnswersLastStep, StartedStep
<1>3. StartedOwnsRow' /\ RowsTell' BY OwnsRowStep, RowsStep
<1>4. SuccessIsPublished' /\ AnsweredIsSettled' BY SuccessStep, SettlingStep
<1>5. LockMatchesHolder' BY LocksStep
<1>6. EntriesTell' /\ EntryKept' BY EntriesStep
<1> QED BY <1>1, <1>2, <1>3, <1>4, <1>5, <1>6

(* The invariant holds in every state of every service, whatever requests    *)
(* are sent and whichever runs and projects they name.                       *)
THEOREM Invariance == Spec => []IndInv
<1>1. Init => IndInv BY InitInv
<1>2. IndInv /\ [Next]_vars => IndInv' BY StepInv
<1> QED BY <1>1, <1>2, PTL DEF Spec

(* The configuration of the service is its whole life's.                     *)
LEMMA RecordingStays == Spec => [](recording \in BOOLEAN)
<1>1. Init => recording \in BOOLEAN BY DEF Init
<1>2. recording \in BOOLEAN /\ [Next]_vars => (recording \in BOOLEAN)'
  BY DEF Next, vars, GoQuiet, Poll, Restart, Accept, Step, StartRun, GenerateEnds, RecordFailure,
         RecordSuccess, Publish, Cancel, LatePublish
<1> QED BY <1>1, <1>2, PTL DEF Spec

(* Requests, registries, ledger and bundles keep their types.                *)
THEOREM TypeCorrect == Spec => []TypeOK
<1>1. IndInv /\ recording \in BOOLEAN => TypeOK
  BY DEF IndInv, TypeOK, Typed, PcType, AnswerType, EntryType, LedgerType, PublishedType, SetsType,
         LockMatchesHolder, Projects
<1> QED BY <1>1, Invariance, RecordingStays, PTL

(* project locks: whatever is refused, fails, is cancelled or lost in a      *)
(* restart, a project is locked exactly while one request holds it.          *)
THEOREM LocksAreHeld == Spec => []LockMatchesHolder
<1>1. IndInv => LockMatchesHolder BY DEF IndInv
<1> QED BY <1>1, Invariance, PTL

(* agent_runs: no row says of a run what its request did not answer.         *)
THEOREM LedgerTellsAnswers == Spec => []LedgerMatchesAnswer
<1>1. IndInv => LedgerMatchesAnswer
  <2> SUFFICES ASSUME IndInv PROVE LedgerMatchesAnswer OBVIOUS
  <2>1. \A n \in Runs : ledger[n] # None => RowOf(n) BY DEF IndInv, RowsTell
  <2>2. \A r \in Requests : recording /\ answer[r] = "200" => r \in started
    BY DEF IndInv, StartedWhenRecording
  <2> QED BY <2>1, <2>2 DEF LedgerMatchesAnswer, RowOf, IndInv, StartedOwnsRow
<1> QED BY <1>1, Invariance, PTL

(* _persist_generation_outcome: an answered run has a settled row, unless    *)
(* the database refused it.                                                  *)
THEOREM RowsSettle == Spec => []AnsweredIsSettled
<1>1. IndInv => AnsweredIsSettled BY DEF IndInv
<1> QED BY <1>1, Invariance, PTL

(* A success that is told, by answer or by progress, can be fetched.         *)
THEOREM SuccessIsReadable == Spec => []SucceededIsReadable
<1>1. IndInv => SucceededIsReadable
  BY DEF IndInv, SucceededIsReadable, EntriesTell, EntryOf, SuccessIsPublished
<1> QED BY <1>1, Invariance, PTL

(* run_progress: no request takes over, ends or loses the progress of        *)
(* another unless the TTL swept it, and a running entry has a request.       *)
THEOREM ProgressStaysOwn == Spec => []ProgressIsOwn
<1>1. IndInv => ProgressIsOwn
  <2> SUFFICES ASSUME IndInv PROVE ProgressIsOwn OBVIOUS
  <2>1. ASSUME NEW n \in Runs, Live(entry, n) PROVE InFlight(entry[n].owner)
    BY <2>1 DEF IndInv, EntriesTell, EntryOf, InFlight, Working
  <2> QED BY <2>1 DEF ProgressIsOwn, IndInv, EntryKept
<1> QED BY <1>1, Invariance, PTL

(* agent_runs: the transaction that settles a row refuses to settle it       *)
(* again, also when its run id is used by a later request or the process     *)
(* restarts.                                                                 *)
THEOREM SettledRowsAreFinal == Spec => SettledIsFinal
<1>1. IndInv /\ [Next]_vars =>
        [\A n \in Runs : ledger[n] # None /\ ledger[n].status \in Settled
                         => ledger'[n] = ledger[n]]_vars
  BY SettledRowsStay DEF IndInv
<1> QED BY <1>1, Invariance, PTL DEF Spec, SettledIsFinal

=============================================================================
