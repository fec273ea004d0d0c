------------------------- MODULE ParentRolloutProofs -------------------------
(***************************************************************************)
(* What ParentRollout guarantees for every attempt limit and every number  *)
(* of executions of one run id, and that it implements Rollout.            *)
(*                                                                         *)
(* The argument: a private directory belongs to the execution whose mkdir  *)
(* made it, for good; every thread that writes evidence there, awaited or  *)
(* orphaned, was started by that execution.  An attempt only counts as won *)
(* with its manifest on disk, only a won attempt starts a publishing       *)
(* thread, and only the thread that renamed the bundle goes on to index it.*)
(***************************************************************************)
EXTENDS ParentRollout, TLAPS

Executing == {"claim", "run", "persist", "summary", "validate", "close"}
Trying    == Executing \cup {"create", "record"}

Current == <<execution, index>>

\* How far the attempts of the current execution are.
AttemptsCounted ==
    /\ pc # "idle" => execution \in Runs
    /\ pc \in Trying => Len(refs) = index
    /\ pc \in {"retry", "publish", "finalize"} => Len(refs) = index + 1
    /\ pc = "retry" => index + 1 < AttemptLimit
    /\ pc = "finalize" /\ selected = None => Len(refs) = AttemptLimit

\* Only the last attempt of an execution can have won.
WinnersRecorded ==
    /\ selected # None => pc \in {"publish", "finalize", "idle"}
    /\ \A w \in won : w[1] < execution \/ (w = Current /\ selected # None)
    /\ pc = "publish" \/ (pc = "finalize" /\ selected # None) => Current \in won

\* Who wrote, or is about to write, into a private directory made it.
DirectoriesOwned ==
    /\ pc \in {"run", "persist", "validate"} => claimed
    /\ claimed /\ pc \in Executing => dirs[index] = execution
    /\ \A t \in threads :
          t.kind \in {"persist", "manifest", "summary"} => dirs[t.attempt] = t.execution
    /\ EvidenceIsOneExecution

Manifest(a, e) == <<"manifest", a, e>>

\* Nothing is published that was not won, and nothing is won without its manifest.
PublicationOrdered ==
    /\ pc = "validate" \/ success => Manifest(index, execution) \in evidence
    /\ \A t \in threads : t.kind = "publish" =>
          <<t.execution, t.attempt>> \in won /\ Manifest(t.attempt, t.execution) \in evidence
    /\ \A t \in threads : t.kind = "register" => bundle = <<t.execution, t.attempt>>
    /\ PublishedIsPersisted
    /\ ReadableIsCommitted
    /\ pc = "finalize" /\ selected # None => indexed /\ bundle = Current
    /\ OkIsReadable

\* The executor of the current attempt is the only one that may be alive, and it
\* is a new one.
ExecutorsFresh ==
    /\ \A x \in open : \/ x[1] < execution
                       \/ x[1] = execution /\ x[2] < index
                       \/ x = Current /\ pc # "create"
    /\ pc \in Executing => Current \in open \ abandoned /\ open \ abandoned \subseteq {Current}
    /\ pc \notin Executing => open \subseteq abandoned

IndInv ==
    /\ TypeOK
    /\ AttemptsCounted
    /\ WinnersRecorded
    /\ DirectoriesOwned
    /\ PublicationOrdered
    /\ ExecutorsFresh
-----------------------------------------------------------------------------
ThreadSet == [kind : Kinds, attempt : Attempts, execution : Runs]

\* The type invariant by kinds of variables, as the provers want it.
ControlTypes ==
    /\ execution \in 0 .. Executions /\ pc \in Pcs
    /\ index \in Attempts /\ success \in BOOLEAN
    /\ selected \in Attempts \cup {None}
    /\ claimed \in BOOLEAN /\ cancelled \in BOOLEAN /\ indexed \in BOOLEAN
RefTypes == refs \in Seq({"succeeded", "failed"}) /\ Len(refs) <= AttemptLimit
ThreadTypes == threads \subseteq ThreadSet
DiskTypes ==
    /\ dirs \in [Attempts -> 0 .. Executions]
    /\ evidence \subseteq {"manifest", "summary"} \X Attempts \X Runs
    /\ bundle \in (Runs \X Attempts) \cup {None}
ExecutorTypes == open \subseteq Runs \X Attempts /\ abandoned \subseteq open
HistoryTypes ==
    /\ won \subseteq Runs \X Attempts
    /\ answers \in [Runs -> Answers \cup {None}]

\* The kinds make up the type invariant.
LEMMA TypeParts ==
    TypeOK <=> /\ ControlTypes /\ RefTypes /\ ThreadTypes /\ DiskTypes
               /\ ExecutorTypes /\ HistoryTypes
BY DEF TypeOK, ControlTypes, RefTypes, ThreadTypes, ThreadSet, DiskTypes, ExecutorTypes,
       HistoryTypes

\* There is a first attempt.
LEMMA FirstAttempt == 0 \in Attempts /\ AttemptLimit \in Nat \ {0} /\ Executions \in Nat
BY RolloutAssumption DEF Attempts

\* Nothing has happened yet.
LEMMA IndInvInit == Init => IndInv
<1> SUFFICES ASSUME Init PROVE IndInv
  OBVIOUS
<1> USE DEF Init
<1>1. ControlTypes
  BY FirstAttempt DEF ControlTypes, Pcs
<1>2. RefTypes /\ ThreadTypes /\ DiskTypes /\ ExecutorTypes /\ HistoryTypes
  BY FirstAttempt DEF RefTypes, ThreadTypes, DiskTypes, ExecutorTypes, HistoryTypes
<1>3. AttemptsCounted /\ WinnersRecorded
  BY DEF AttemptsCounted, WinnersRecorded, Trying, Executing
<1>4. DirectoriesOwned
  BY DEF DirectoriesOwned, Executing, EvidenceIsOneExecution
<1>5. PublicationOrdered
  BY RolloutAssumption DEF PublicationOrdered, PublishedIsPersisted, ReadableIsCommitted,
     OkIsReadable
<1>6. ExecutorsFresh
  BY DEF ExecutorsFresh, Executing
<1>7. QED
  BY <1>1, <1>2, <1>3, <1>4, <1>5, <1>6, TypeParts DEF IndInv

\* A thread that the current execution starts is a well-typed one.
LEMMA NewThread ==
    ASSUME TypeOK, execution \in Runs, NEW kind \in Kinds
    PROVE  Thread(kind) \in ThreadSet
BY DEF TypeOK, Thread, ThreadSet

\* So is a thread that goes on to its next kind of work.
LEMMA NextKind ==
    ASSUME NEW t \in ThreadSet, NEW kind \in Kinds
    PROVE  [t EXCEPT !.kind = kind] \in ThreadSet
BY DEF ThreadSet

\* A finished coroutine answers one of the known answers.
LEMMA AnswerTypes ==
    ASSUME TypeOK, execution \in Runs, NEW value \in Answers, Answer(value)
    PROVE  pc' = "idle" /\ answers' \in [Runs -> Answers \cup {None}]
BY DEF TypeOK, Answer

\* Every step of the coroutine keeps the types.
LEMMA CoroutineTypes ==
    ASSUME IndInv, \/ InitializeParent \/ Coroutine \/ RunAttempt
                   \/ AttemptTimeout \/ Cancel \/ Restart
    PROVE  TypeOK'
<1> SUFFICES (/\ ControlTypes /\ RefTypes /\ ThreadTypes /\ DiskTypes
              /\ ExecutorTypes /\ HistoryTypes)'
  BY DEF TypeOK, ControlTypes, RefTypes, ThreadTypes, ThreadSet, DiskTypes, ExecutorTypes,
         HistoryTypes
<1>0. /\ TypeOK
      /\ ControlTypes /\ RefTypes /\ ThreadTypes /\ DiskTypes /\ ExecutorTypes /\ HistoryTypes
      /\ pc # "idle" => execution \in Runs
  BY TypeParts DEF IndInv, AttemptsCounted
<1> USE FirstAttempt DEF stateVars, diskVars, execVars
<1>1. CASE InitializeParent
  <2>1. ControlTypes'
    <3>1. execution' \in 0 .. Executions
      BY <1>0, <1>1 DEF InitializeParent, ControlTypes
    <3>2. QED
      BY <1>0, <1>1, <3>1 DEF InitializeParent, ControlTypes, Pcs
  <2>2. RefTypes' /\ ThreadTypes' /\ DiskTypes' /\ ExecutorTypes' /\ HistoryTypes'
    BY <1>0, <1>1 DEF InitializeParent, RefTypes, ThreadTypes, DiskTypes, ExecutorTypes,
       HistoryTypes
  <2>3. QED
    BY <2>1, <2>2
<1>2. CASE CreateExecutor
  <2>1. Thread("claim") \in ThreadSet
    BY <1>0, <1>2, NewThread DEF CreateExecutor, Kinds
  <2>2. <<execution, index>> \in Runs \X Attempts
    BY <1>0, <1>2 DEF CreateExecutor, ControlTypes
  <2>3. ControlTypes' /\ RefTypes' /\ DiskTypes' /\ HistoryTypes'
    BY <1>0, <1>2 DEF CreateExecutor, ControlTypes, RefTypes, DiskTypes, HistoryTypes, Pcs
  <2>4. ThreadTypes' /\ ExecutorTypes'
    BY <1>0, <1>2, <2>1, <2>2 DEF CreateExecutor, ThreadTypes, ExecutorTypes
  <2>5. QED
    BY <2>3, <2>4
<1>3. CASE ValidateSuccess
  BY <1>0, <1>3 DEF ValidateSuccess, ControlTypes, RefTypes, ThreadTypes, DiskTypes,
     ExecutorTypes, HistoryTypes, Pcs
<1>4. CASE CloseExecutor
  <2>1. /\ pc' \in Pcs
        /\ answers' \in [Runs -> Answers \cup {None}]
    BY <1>0, <1>4, AnswerTypes DEF CloseExecutor, HistoryTypes, Pcs, Answers
  <2>2. ControlTypes' /\ RefTypes' /\ ThreadTypes' /\ DiskTypes' /\ HistoryTypes'
    BY <1>0, <1>4, <2>1 DEF CloseExecutor, ControlTypes, RefTypes, ThreadTypes, DiskTypes,
       HistoryTypes
  <2>3. Current \in open \ abandoned
    BY <1>4 DEF CloseExecutor, IndInv, ExecutorsFresh, Executing
  <2>4. ExecutorTypes'
    BY <1>0, <1>4, <2>3 DEF CloseExecutor, ExecutorTypes, Current
  <2>5. QED
    BY <2>2, <2>4
<1>5. CASE RecordOutcome
  <2>1. Thread("publish") \in ThreadSet
    BY <1>0, <1>5, NewThread DEF RecordOutcome, Kinds
  <2>2. Current \in Runs \X Attempts
    BY <1>0, <1>5 DEF RecordOutcome, ControlTypes, Current
  <2>3. Len(refs) = index
    BY <1>5 DEF RecordOutcome, IndInv, AttemptsCounted, Trying
  <2>4. ControlTypes'
    BY <1>0, <1>5 DEF RecordOutcome, ControlTypes, Route, Pcs
  <2>5. RefTypes'
    BY <1>0, <1>5, <2>3 DEF RecordOutcome, RefTypes, ControlTypes, Attempts
  <2>6. ThreadTypes' /\ DiskTypes' /\ ExecutorTypes' /\ HistoryTypes'
    BY <1>0, <1>5, <2>1, <2>2 DEF RecordOutcome, ThreadTypes, DiskTypes, ExecutorTypes,
       HistoryTypes, Current
  <2>7. QED
    BY <2>4, <2>5, <2>6
<1>6. CASE PrepareRetry
  <2>1. index + 1 \in Attempts
    BY <1>0, <1>6 DEF PrepareRetry, IndInv, AttemptsCounted, ControlTypes, Attempts
  <2>2. QED
    BY <1>0, <1>6, <2>1 DEF PrepareRetry, ControlTypes, RefTypes, ThreadTypes, DiskTypes,
       ExecutorTypes, HistoryTypes, Pcs
<1>7. CASE FinalizeParent
  <2>1. pc' \in Pcs /\ answers' \in [Runs -> Answers \cup {None}]
    BY <1>0, <1>7, AnswerTypes DEF FinalizeParent, Pcs, Answers
  <2>2. QED
    BY <1>0, <1>7, <2>1 DEF FinalizeParent, ControlTypes, RefTypes, ThreadTypes, DiskTypes,
       ExecutorTypes, HistoryTypes
<1>8. CASE RunAttempt
  <2>1. Thread("persist") \in ThreadSet /\ Thread("summary") \in ThreadSet
    BY <1>0, <1>8, NewThread DEF RunAttempt, Kinds
  <2>2. QED
    BY <1>0, <1>8, <2>1 DEF RunAttempt, Fail, ControlTypes, RefTypes, ThreadTypes, DiskTypes,
       ExecutorTypes, HistoryTypes, Pcs
<1>9. CASE AttemptTimeout
  BY <1>0, <1>9 DEF AttemptTimeout, ControlTypes, RefTypes, ThreadTypes, DiskTypes,
     ExecutorTypes, HistoryTypes, Pcs
<1>10. CASE Cancel
  <2>1. pc' \in Pcs /\ cancelled' \in BOOLEAN /\ answers' \in [Runs -> Answers \cup {None}]
    BY <1>0, <1>10, AnswerTypes DEF Cancel, ControlTypes, HistoryTypes, Pcs, Answers
  <2>2. pc = "close" => Current \in open
    BY DEF IndInv, ExecutorsFresh, Executing
  <2>3. ControlTypes' /\ RefTypes' /\ ThreadTypes' /\ DiskTypes' /\ HistoryTypes'
    BY <1>0, <1>10, <2>1 DEF Cancel, ControlTypes, RefTypes, ThreadTypes, DiskTypes,
       HistoryTypes
  <2>4. ExecutorTypes'
    BY <1>0, <1>10, <2>2 DEF Cancel, ExecutorTypes, Current
  <2>5. QED
    BY <2>3, <2>4
<1>11. CASE Restart
  <2>1. pc' \in Pcs /\ answers' \in [Runs -> Answers \cup {None}]
    BY <1>0, <1>11, AnswerTypes DEF Restart, ControlTypes, HistoryTypes, Pcs, Answers
  <2>2. QED
    BY <1>0, <1>11, <2>1 DEF Restart, ControlTypes, RefTypes, ThreadTypes, DiskTypes,
       ExecutorTypes, HistoryTypes
<1>12. QED
  BY <1>1, <1>2, <1>3, <1>4, <1>5, <1>6, <1>7, <1>8, <1>9, <1>10, <1>11 DEF Coroutine

\* Where the coroutine stands that waits for a thread.
LEMMA AwaitedAt ==
    ASSUME TypeOK, NEW t \in threads
    PROVE  /\ t \in ThreadSet /\ t.attempt \in Attempts /\ t.execution \in Runs
           /\ Awaited(t) => /\ t.attempt = index /\ t.execution = execution
                            /\ t.kind = "claim" => pc = "claim"
                            /\ t.kind \in {"persist", "manifest"} => pc = "persist"
                            /\ t.kind = "summary" => pc = "summary"
                            /\ t.kind \in {"publish", "register"} => pc = "publish"
BY DEF TypeOK, ThreadSet, Awaited, PcOf

\* What becomes of the coroutine when a thread raises.
LEMMA RaisedIn ==
    ASSUME IndInv, NEW t \in threads, t.kind \in {"claim", "persist", "manifest"}, RaiseIn(t)
    PROVE  /\ \/ threads' = threads \ {t}
              \/ threads' = (threads \ {t}) \cup {Thread("summary")} /\ claimed
           /\ \/ pc' = pc /\ ~Awaited(t)
              \/ pc' \in {"summary", "close"} /\ Awaited(t)
           /\ Thread("summary") \in ThreadSet \/ threads' = threads \ {t}
<1>1. TypeOK /\ (pc # "idle" => execution \in Runs)
  BY DEF IndInv, AttemptsCounted
<1>2. Awaited(t) => Thread("summary") \in ThreadSet
  BY <1>1, AwaitedAt, NewThread DEF Kinds
<1>3. QED
  BY <1>2 DEF RaiseIn, Fail, Finished

\* Every step of a worker thread keeps the types.
LEMMA WorkerTypes ==
    ASSUME IndInv, NEW t \in threads,
           \/ ClaimThread(t) \/ PersistThread(t) \/ ManifestThread(t) \/ SummaryThread(t)
           \/ PublishThread(t) \/ RegisterThread(t)
    PROVE  TypeOK'
<1> SUFFICES (/\ ControlTypes /\ RefTypes /\ ThreadTypes /\ DiskTypes
              /\ ExecutorTypes /\ HistoryTypes)'
  BY DEF TypeOK, ControlTypes, RefTypes, ThreadTypes, ThreadSet, DiskTypes, ExecutorTypes,
         HistoryTypes
<1>0. /\ TypeOK
      /\ ControlTypes /\ RefTypes /\ ThreadTypes /\ DiskTypes /\ ExecutorTypes /\ HistoryTypes
      /\ pc # "idle" => execution \in Runs
  BY TypeParts DEF IndInv, AttemptsCounted
<1>t. t \in ThreadSet /\ t.attempt \in Attempts /\ t.execution \in Runs
  BY <1>0, AwaitedAt
<1> USE FirstAttempt DEF stateVars, execVars, ThreadFrame
<1>1. RefTypes' /\ ExecutorTypes'
  BY <1>0 DEF ClaimThread, PersistThread, ManifestThread, SummaryThread, PublishThread,
     RegisterThread, RefTypes, ExecutorTypes
<1>2. CASE ClaimThread(t)
  <2>1. pc' \in Pcs /\ claimed' \in BOOLEAN /\ threads' \subseteq ThreadSet
    <3>1. CASE RaiseIn(t)
      BY <1>0, <1>2, <3>1, RaisedIn DEF ClaimThread, ControlTypes, ThreadTypes, Pcs
    <3>2. CASE ~RaiseIn(t)
      BY <1>0, <1>2, <3>2 DEF ClaimThread, Finished, ControlTypes, ThreadTypes, Pcs
    <3>3. QED
      BY <3>1, <3>2
  <2>2. t.execution \in 0 .. Executions
    BY <1>t DEF Runs
  <2>3. DiskTypes'
    BY <1>0, <1>2, <1>t, <2>2 DEF ClaimThread, DiskTypes
  <2>4. ControlTypes' /\ ThreadTypes' /\ HistoryTypes'
    BY <1>0, <1>2, <2>1 DEF ClaimThread, ControlTypes, ThreadTypes, HistoryTypes
  <2>5. QED
    BY <1>1, <2>3, <2>4
<1>3. CASE PersistThread(t)
  <2>1. [t EXCEPT !.kind = "manifest"] \in ThreadSet
    BY <1>t, NextKind DEF Kinds
  <2>2. pc' \in Pcs /\ threads' \subseteq ThreadSet
    <3>1. CASE RaiseIn(t)
      BY <1>0, <1>3, <3>1, RaisedIn DEF PersistThread, ControlTypes, ThreadTypes, Pcs
    <3>2. CASE ~RaiseIn(t)
      BY <1>0, <1>3, <2>1, <3>2 DEF PersistThread, Becomes, ControlTypes, ThreadTypes
    <3>3. QED
      BY <3>1, <3>2
  <2>3. ControlTypes' /\ ThreadTypes' /\ DiskTypes' /\ HistoryTypes'
    BY <1>0, <1>3, <2>2 DEF PersistThread, diskVars, ControlTypes, ThreadTypes, DiskTypes,
       HistoryTypes
  <2>4. QED
    BY <1>1, <2>3
<1>4. CASE ManifestThread(t)
  <2>1. pc' \in Pcs /\ threads' \subseteq ThreadSet
    <3>1. CASE RaiseIn(t)
      BY <1>0, <1>4, <3>1, RaisedIn DEF ManifestThread, ControlTypes, ThreadTypes, Pcs
    <3>2. CASE ~RaiseIn(t)
      BY <1>0, <1>4, <3>2 DEF ManifestThread, Finished, ControlTypes, ThreadTypes, Pcs
    <3>3. QED
      BY <3>1, <3>2
  <2>2. Written(t) \subseteq {"manifest", "summary"} \X Attempts \X Runs
    BY <1>0, <1>4, <1>t DEF ManifestThread, Written, DiskTypes
  <2>3. DiskTypes'
    BY <1>0, <1>4, <2>2 DEF ManifestThread, DiskTypes
  <2>4. ControlTypes' /\ ThreadTypes' /\ HistoryTypes'
    BY <1>0, <1>4, <2>1 DEF ManifestThread, ControlTypes, ThreadTypes, HistoryTypes
  <2>5. QED
    BY <1>1, <2>3, <2>4
<1>5. CASE SummaryThread(t)
  <2>1. Written(t) \subseteq {"manifest", "summary"} \X Attempts \X Runs
    BY <1>0, <1>5, <1>t DEF SummaryThread, Written, DiskTypes
  <2>2. DiskTypes'
    BY <1>0, <1>5, <2>1 DEF SummaryThread, DiskTypes
  <2>3. ControlTypes' /\ ThreadTypes' /\ HistoryTypes'
    BY <1>0, <1>5 DEF SummaryThread, Finished, ControlTypes, ThreadTypes, HistoryTypes, Pcs
  <2>4. QED
    BY <1>1, <2>2, <2>3
<1>6. CASE PublishThread(t)
  <2>1. [t EXCEPT !.kind = "register"] \in ThreadSet
    BY <1>t, NextKind DEF Kinds
  <2>2. /\ pc' \in Pcs /\ threads' \subseteq ThreadSet
        /\ answers' \in [Runs -> Answers \cup {None}]
    <3>1. CASE PublishFails(t)
      <4>1. Awaited(t) => execution \in Runs
        BY <1>0, <1>t, AwaitedAt
      <4>2. QED
        BY <1>0, <3>1, <4>1, AnswerTypes DEF PublishFails, Finished, ControlTypes, ThreadTypes,
           HistoryTypes, Pcs, Answers
    <3>2. CASE ~PublishFails(t)
      BY <1>0, <1>6, <2>1, <3>2 DEF PublishThread, Becomes, ControlTypes, ThreadTypes,
         HistoryTypes
    <3>3. QED
      BY <3>1, <3>2
  <2>3. DiskTypes'
    BY <1>0, <1>6, <1>t DEF PublishThread, DiskTypes
  <2>4. ControlTypes' /\ ThreadTypes' /\ HistoryTypes'
    BY <1>0, <1>6, <2>2 DEF PublishThread, ControlTypes, ThreadTypes, HistoryTypes
  <2>5. QED
    BY <1>1, <2>3, <2>4
<1>7. CASE RegisterThread(t)
  <2>1. /\ pc' \in Pcs /\ threads' \subseteq ThreadSet /\ indexed' \in BOOLEAN
        /\ answers' \in [Runs -> Answers \cup {None}]
    <3>1. CASE PublishFails(t)
      <4>1. Awaited(t) => execution \in Runs
        BY <1>0, <1>t, AwaitedAt
      <4>2. QED
        BY <1>0, <1>7, <3>1, <4>1, AnswerTypes DEF RegisterThread, PublishFails, Finished,
           ControlTypes, ThreadTypes, HistoryTypes, Pcs, Answers
    <3>2. CASE ~PublishFails(t)
      BY <1>0, <1>7, <3>2 DEF RegisterThread, Finished, ControlTypes, ThreadTypes,
         HistoryTypes, Pcs
    <3>3. QED
      BY <3>1, <3>2
  <2>2. ControlTypes' /\ ThreadTypes' /\ DiskTypes' /\ HistoryTypes'
    BY <1>0, <1>7, <2>1 DEF RegisterThread, ControlTypes, ThreadTypes, DiskTypes, HistoryTypes
  <2>3. QED
    BY <1>1, <2>2
<1>8. QED
  BY <1>2, <1>3, <1>4, <1>5, <1>6, <1>7

\* Every step keeps the types.
LEMMA TypeStep ==
    ASSUME IndInv, [Next]_vars
    PROVE  TypeOK'
<1>1. CASE InitializeParent \/ Coroutine \/ RunAttempt \/ AttemptTimeout \/ Cancel \/ Restart
  BY <1>1, CoroutineTypes
<1>2. CASE ThreadStep
  BY <1>2, WorkerTypes DEF ThreadStep
<1>3. CASE UNCHANGED vars
  BY <1>3 DEF IndInv, vars, stateVars, diskVars, execVars, TypeOK
<1>4. QED
  BY <1>1, <1>2, <1>3 DEF Next
-----------------------------------------------------------------------------
\* A private directory that somebody made is that execution's for good.
LEMMA DirectoriesStay ==
    ASSUME IndInv, [Next]_vars, NEW a \in Attempts, dirs[a] # 0
    PROVE  dirs'[a] = dirs[a]
<1>1. dirs \in [Attempts -> 0 .. Executions]
  BY DEF IndInv, TypeOK
<1>2. CASE ThreadStep
  <2>1. PICK t \in threads :
           \/ ClaimThread(t) \/ PersistThread(t) \/ ManifestThread(t) \/ SummaryThread(t)
           \/ PublishThread(t) \/ RegisterThread(t)
    BY <1>2 DEF ThreadStep
  <2>2. CASE ClaimThread(t)
    BY <1>1, <2>2 DEF ClaimThread
  <2>3. CASE ~ClaimThread(t)
    BY <2>1, <2>3 DEF PersistThread, ManifestThread, SummaryThread, PublishThread,
       RegisterThread, diskVars
  <2>4. QED
    BY <2>2, <2>3
<1>3. CASE ~ThreadStep
  BY <1>3 DEF Next, vars, diskVars, InitializeParent, Coroutine, RunAttempt, AttemptTimeout,
     Cancel, Restart, CreateExecutor, ValidateSuccess, CloseExecutor, RecordOutcome,
     PrepareRetry, FinalizeParent
<1>4. QED
  BY <1>2, <1>3

\* Evidence is never removed, and only threads that write manifests and summaries
\* add to it.
LEMMA EvidenceGrows ==
    ASSUME IndInv, [Next]_vars
    PROVE  /\ evidence \subseteq evidence'
           /\ \A f \in evidence' \ evidence : \E t \in threads :
                 t.kind \in {"manifest", "summary"} /\ f = <<t.kind, t.attempt, t.execution>>
<1>1. CASE ThreadStep
  <2>1. PICK t \in threads :
           \/ ClaimThread(t) \/ PersistThread(t) \/ ManifestThread(t) \/ SummaryThread(t)
           \/ PublishThread(t) \/ RegisterThread(t)
    BY <1>1 DEF ThreadStep
  <2>2. CASE ManifestThread(t)
    BY <2>2 DEF ManifestThread, Written
  <2>3. CASE SummaryThread(t)
    BY <2>3 DEF SummaryThread, Written
  <2>4. CASE ~ManifestThread(t) /\ ~SummaryThread(t)
    BY <2>1, <2>4 DEF ClaimThread, PersistThread, PublishThread, RegisterThread, diskVars
  <2>5. QED
    BY <2>2, <2>3, <2>4
<1>2. CASE ~ThreadStep
  BY <1>2 DEF Next, vars, diskVars, InitializeParent, Coroutine, RunAttempt, AttemptTimeout,
     Cancel, Restart, CreateExecutor, ValidateSuccess, CloseExecutor, RecordOutcome,
     PrepareRetry, FinalizeParent
<1>3. QED
  BY <1>1, <1>2

\* A bundle stays what it is; what is committed was carried by a publishing thread.
\* The index entry stays, and only the registering thread of a bundle makes it.
LEMMA PublicationGrows ==
    ASSUME IndInv, [Next]_vars
    PROVE  /\ \/ bundle' = bundle
              \/ /\ bundle = None
                 /\ \E t \in threads :
                       t.kind = "publish" /\ bundle' = <<t.execution, t.attempt>>
           /\ \/ indexed' = indexed
              \/ indexed' = TRUE /\ \E t \in threads : t.kind = "register"
<1>1. CASE ThreadStep
  <2>1. PICK t \in threads :
           \/ ClaimThread(t) \/ PersistThread(t) \/ ManifestThread(t) \/ SummaryThread(t)
           \/ PublishThread(t) \/ RegisterThread(t)
    BY <1>1 DEF ThreadStep
  <2>2. CASE PublishThread(t)
    BY <2>2 DEF PublishThread
  <2>3. CASE RegisterThread(t)
    BY <2>3 DEF RegisterThread
  <2>4. CASE ~PublishThread(t) /\ ~RegisterThread(t)
    BY <2>1, <2>4 DEF ClaimThread, PersistThread, ManifestThread, SummaryThread, diskVars
  <2>5. QED
    BY <2>2, <2>3, <2>4
<1>2. CASE ~ThreadStep
  BY <1>2 DEF Next, vars, diskVars, InitializeParent, Coroutine, RunAttempt, AttemptTimeout,
     Cancel, Restart, CreateExecutor, ValidateSuccess, CloseExecutor, RecordOutcome,
     PrepareRetry, FinalizeParent
<1>3. QED
  BY <1>1, <1>2

\* Where a thread comes from that works after a step.
Origin(t) ==
    \/ t \in threads
    \/ t.kind = "claim"
    \/ t.kind = "persist" /\ t = Thread("persist") /\ pc = "run"
    \/ t.kind = "summary" /\ t = Thread("summary") /\ claimed /\ pc \in Executing
    \/ t.kind = "publish" /\ t = Thread("publish") /\ pc = "record" /\ selected' # None
       /\ RecordOutcome
    \/ t.kind = "manifest" /\ \E u \in threads :
          u.kind = "persist" /\ u.attempt = t.attempt /\ u.execution = t.execution
    \/ t.kind = "register" /\ bundle' = <<t.execution, t.attempt>>

\* Where each thread of the rollout comes from.
LEMMA ThreadOrigins ==
    ASSUME IndInv, [Next]_vars, NEW t \in threads'
    PROVE  Origin(t)
<1>1. CASE ThreadStep
  <2>1. PICK u \in threads :
           \/ ClaimThread(u) \/ PersistThread(u) \/ ManifestThread(u) \/ SummaryThread(u)
           \/ PublishThread(u) \/ RegisterThread(u)
    BY <1>1 DEF ThreadStep
  <2>2. u \in ThreadSet
    BY AwaitedAt DEF IndInv
  <2>3. CASE u.kind \in {"claim", "persist", "manifest"} /\ RaiseIn(u)
    BY <2>3, AwaitedAt DEF IndInv, Origin, RaiseIn, Fail, Finished, Thread, Executing
  <2>4. CASE ClaimThread(u)
    BY <2>3, <2>4 DEF ClaimThread, Finished, Origin
  <2>5. CASE PersistThread(u)
    BY <2>2, <2>3, <2>5 DEF PersistThread, Becomes, Origin, ThreadSet
  <2>6. CASE ManifestThread(u)
    BY <2>3, <2>6 DEF ManifestThread, Finished, Origin
  <2>7. CASE SummaryThread(u)
    BY <2>7 DEF SummaryThread, Finished, Origin
  <2>8. CASE PublishThread(u)
    BY <2>2, <2>8 DEF PublishThread, PublishFails, Verified, Becomes, Finished, Origin, ThreadSet
  <2>9. CASE RegisterThread(u)
    BY <2>9 DEF RegisterThread, PublishFails, Finished, Origin
  <2>10. QED
    BY <2>1, <2>4, <2>5, <2>6, <2>7, <2>8, <2>9
<1>2. CASE CreateExecutor
  BY <1>2 DEF CreateExecutor, Thread, Origin
<1>3. CASE RunAttempt
  BY <1>3 DEF RunAttempt, Fail, Thread, Origin, Executing
<1>4. CASE RecordOutcome
  BY <1>4 DEF RecordOutcome, Route, Thread, Origin
<1>5. CASE ~(ThreadStep \/ CreateExecutor \/ RunAttempt \/ RecordOutcome)
  BY <1>5 DEF Next, vars, InitializeParent, Coroutine, AttemptTimeout, Cancel, Restart,
     ValidateSuccess, CloseExecutor, PrepareRetry, FinalizeParent, Origin
<1>6. QED
  BY <1>1, <1>2, <1>3, <1>4, <1>5

\* What a worker thread does to the coroutine that awaits it.
Moves ==
    \/ pc' = pc /\ claimed' = claimed /\ answers' = answers
    \/ /\ pc = "claim" /\ pc' = "run" /\ claimed' /\ dirs'[index] = execution
       /\ answers' = answers
    \/ /\ pc \in {"claim", "persist", "summary"} /\ pc' \in {"summary", "close"}
       /\ claimed' = claimed /\ answers' = answers
    \/ /\ pc = "persist" /\ pc' = "validate" /\ Manifest(index, execution) \in evidence'
       /\ claimed' = claimed /\ answers' = answers
    \/ /\ pc = "publish" /\ pc' = "finalize" /\ indexed' = TRUE /\ bundle = Current
       /\ claimed' = claimed /\ answers' = answers
    \/ /\ pc = "publish" /\ Answer("parent_artifact_publish_failed") /\ claimed' = claimed

\* What a worker may do to the rollout.
LEMMA WorkerMoves ==
    ASSUME IndInv, ThreadStep
    PROVE  Moves /\ UNCHANGED <<execution, stateVars, cancelled, execVars, won>>
<1>1. PICK u \in threads :
         \/ ClaimThread(u) \/ PersistThread(u) \/ ManifestThread(u) \/ SummaryThread(u)
         \/ PublishThread(u) \/ RegisterThread(u)
  BY DEF ThreadStep
<1>2. UNCHANGED <<execution, stateVars, cancelled, execVars, won>>
  BY <1>1 DEF ThreadFrame, ClaimThread, PersistThread, ManifestThread, SummaryThread,
     PublishThread, RegisterThread
<1> SUFFICES Moves
  BY <1>2
<1>3. /\ u.attempt \in Attempts
      /\ Awaited(u) => /\ u.attempt = index /\ u.execution = execution
                       /\ u.kind = "claim" => pc = "claim"
                       /\ u.kind \in {"persist", "manifest"} => pc = "persist"
                       /\ u.kind = "summary" => pc = "summary"
                       /\ u.kind \in {"publish", "register"} => pc = "publish"
  BY AwaitedAt DEF IndInv
<1>4. u.kind \in {"claim", "persist", "manifest"} /\ RaiseIn(u) =>
         \/ pc' = pc
         \/ pc \in {"claim", "persist"} /\ pc' \in {"summary", "close"}
  BY <1>3, RaisedIn
<1>5. CASE ClaimThread(u)
  <2>1. dirs \in [Attempts -> 0 .. Executions]
    BY DEF IndInv, TypeOK
  <2>2. QED
    BY <1>3, <1>4, <1>5, <2>1 DEF ClaimThread, Moves
<1>6. CASE PersistThread(u)
  BY <1>3, <1>4, <1>6 DEF PersistThread, Moves
<1>7. CASE ManifestThread(u)
  BY <1>3, <1>4, <1>7 DEF ManifestThread, Moves, Manifest, Written
<1>8. CASE SummaryThread(u)
  BY <1>3, <1>8 DEF SummaryThread, Moves
<1>9. CASE PublishThread(u)
  BY <1>3, <1>9 DEF PublishThread, PublishFails, Moves
<1>10. CASE RegisterThread(u)
  <2>1. bundle = <<u.execution, u.attempt>>
    BY <1>10 DEF RegisterThread, IndInv, PublicationOrdered
  <2>2. QED
    BY <1>3, <1>10, <2>1 DEF RegisterThread, PublishFails, Moves, Current
<1>11. QED
  BY <1>1, <1>5, <1>6, <1>7, <1>8, <1>9, <1>10

\* Numbers the steps below compute with.
LEMMA Counters ==
    ASSUME TypeOK
    PROVE  /\ index \in Nat /\ index < AttemptLimit /\ execution \in Nat
           /\ AttemptLimit \in Nat /\ Len(refs) \in Nat /\ None # index
           /\ execution \in Runs <=> execution # 0
BY RolloutAssumption DEF TypeOK, Attempts, Runs

\* The attempts of an execution stay counted.
LEMMA AttemptsCountedStep ==
    ASSUME IndInv, [Next]_vars
    PROVE  AttemptsCounted'
<1>0. /\ TypeOK /\ AttemptsCounted /\ WinnersRecorded
      /\ index \in Nat /\ index < AttemptLimit /\ execution \in Nat
      /\ AttemptLimit \in Nat /\ Len(refs) \in Nat /\ None # index
  BY Counters DEF IndInv
<1> USE DEF AttemptsCounted, Trying, Executing
<1>1. CASE InitializeParent
  <2>1. execution + 1 \in Runs
    BY <1>0, <1>1, RolloutAssumption DEF InitializeParent, Runs
  <2>2. QED
    BY <1>1, <2>1 DEF InitializeParent
<1>2. CASE CreateExecutor
  BY <1>0, <1>2 DEF CreateExecutor, stateVars
<1>3. CASE ValidateSuccess
  BY <1>0, <1>3 DEF ValidateSuccess
<1>4. CASE CloseExecutor
  BY <1>0, <1>4 DEF CloseExecutor, Answer, stateVars
<1>5. CASE RecordOutcome
  <2>1. Len(refs') = index + 1
    BY <1>0, <1>5 DEF RecordOutcome, TypeOK
  <2>2. QED
    BY <1>0, <1>5, <2>1 DEF RecordOutcome, Route
<1>6. CASE PrepareRetry
  BY <1>0, <1>6 DEF PrepareRetry
<1>7. CASE FinalizeParent
  BY <1>0, <1>7 DEF FinalizeParent, Answer
<1>8. CASE RunAttempt
  BY <1>0, <1>8 DEF RunAttempt, Fail, stateVars
<1>9. CASE AttemptTimeout
  BY <1>0, <1>9 DEF AttemptTimeout, Timed, stateVars
<1>10. CASE Cancel
  BY <1>0, <1>10 DEF Cancel, Answer, stateVars
<1>11. CASE Restart
  BY <1>0, <1>11 DEF Restart, Answer, stateVars
<1>12. CASE ThreadStep
  <2>1. pc = "publish" => selected # None
    BY <1>0 DEF WinnersRecorded, Current
  <2>2. QED
    BY <1>0, <1>12, <2>1, WorkerMoves DEF Moves, Answer, stateVars
<1>13. CASE UNCHANGED vars
  BY <1>0, <1>13 DEF vars, stateVars
<1>14. QED
  BY <1>1, <1>2, <1>3, <1>4, <1>5, <1>6, <1>7, <1>8, <1>9, <1>10, <1>11, <1>12, <1>13
     DEF Next, Coroutine

\* Won attempts stay the last ones of their executions.
LEMMA WinnersRecordedStep ==
    ASSUME IndInv, [Next]_vars
    PROVE  WinnersRecorded'
<1>0. /\ AttemptsCounted /\ WinnersRecorded /\ won \subseteq Runs \X Attempts
      /\ execution \in Nat /\ None # index /\ pc \in Pcs
  BY Counters DEF IndInv, TypeOK
<1>w. \A w \in won : w[1] \in Nat
  BY <1>0 DEF Runs
<1> USE DEF WinnersRecorded, Current
<1>1. CASE InitializeParent
  BY <1>0, <1>w, <1>1 DEF InitializeParent
<1>2. CASE CreateExecutor
  BY <1>0, <1>2 DEF CreateExecutor, stateVars
<1>3. CASE ValidateSuccess
  BY <1>0, <1>3 DEF ValidateSuccess
<1>4. CASE CloseExecutor
  BY <1>0, <1>4 DEF CloseExecutor, Answer, stateVars
<1>5. CASE RecordOutcome
  BY <1>0, <1>5 DEF RecordOutcome, Route
<1>6. CASE PrepareRetry
  BY <1>0, <1>6 DEF PrepareRetry
<1>7. CASE FinalizeParent
  BY <1>0, <1>7 DEF FinalizeParent, Answer, stateVars
<1>8. CASE RunAttempt
  BY <1>0, <1>8 DEF RunAttempt, Fail, stateVars
<1>9. CASE AttemptTimeout
  BY <1>0, <1>9 DEF AttemptTimeout, Timed, stateVars
<1>10. CASE Cancel
  BY <1>0, <1>10 DEF Cancel, Answer, stateVars
<1>11. CASE Restart
  BY <1>0, <1>11 DEF Restart, Answer, stateVars
<1>12. CASE ThreadStep
  BY <1>0, <1>12, WorkerMoves DEF Moves, Answer, stateVars
<1>13. CASE UNCHANGED vars
  BY <1>0, <1>13 DEF vars, stateVars
<1>14. QED
  BY <1>1, <1>2, <1>3, <1>4, <1>5, <1>6, <1>7, <1>8, <1>9, <1>10, <1>11, <1>12, <1>13
     DEF Next, Coroutine

\* Threads that write evidence still belong to the execution that made the directory.
LEMMA WritersOwn ==
    ASSUME IndInv, [Next]_vars, NEW t \in threads',
           t.kind \in {"persist", "manifest", "summary"}
    PROVE  dirs'[t.attempt] = t.execution
<1>0. /\ TypeOK /\ DirectoriesOwned /\ index \in Attempts
      /\ pc # "idle" => execution # 0
  BY Counters DEF IndInv, TypeOK, AttemptsCounted
<1>1. \A u \in threads : u.attempt \in Attempts /\ u.execution # 0
  BY <1>0, AwaitedAt DEF Runs
<1>2. \A u \in threads : /\ u.kind \in {"persist", "manifest", "summary"}
                         /\ u.attempt = t.attempt /\ u.execution = t.execution
                         => dirs'[t.attempt] = t.execution
  BY <1>0, <1>1, DirectoriesStay DEF DirectoriesOwned
<1>3. claimed /\ pc \in Executing => dirs'[index] = execution
  BY <1>0, DirectoriesStay DEF DirectoriesOwned, Executing
<1>4. pc = "run" => claimed
  BY <1>0 DEF DirectoriesOwned
<1>5. CASE t \in threads
  BY <1>2, <1>5
<1>6. CASE t = Thread("persist") /\ pc = "run"
  BY <1>3, <1>4, <1>6 DEF Thread, Executing
<1>7. CASE t = Thread("summary") /\ claimed /\ pc \in Executing
  BY <1>3, <1>7 DEF Thread
<1>8. CASE \E u \in threads :
             u.kind = "persist" /\ u.attempt = t.attempt /\ u.execution = t.execution
  BY <1>2, <1>8
<1>9. QED
  BY <1>5, <1>6, <1>7, <1>8, ThreadOrigins DEF Origin

\* New evidence is in a directory of the execution it comes from.
LEMMA EvidenceStep ==
    ASSUME IndInv, [Next]_vars
    PROVE  EvidenceIsOneExecution'
<1>0. TypeOK /\ DirectoriesOwned
  BY DEF IndInv
<1> SUFFICES ASSUME NEW f \in evidence' PROVE f[3] = dirs'[f[2]]
  BY DEF EvidenceIsOneExecution
<1>1. CASE f \in evidence
  <2>1. f[2] \in Attempts /\ f[3] # 0
    BY <1>0, <1>1 DEF TypeOK, Runs
  <2>2. f[3] = dirs[f[2]]
    BY <1>0, <1>1 DEF DirectoriesOwned, EvidenceIsOneExecution
  <2>3. QED
    BY <2>1, <2>2, DirectoriesStay
<1>2. CASE f \notin evidence
  <2>1. PICK t \in threads : /\ t.kind \in {"manifest", "summary"}
                             /\ f = <<t.kind, t.attempt, t.execution>>
    BY <1>2, EvidenceGrows
  <2>2. t.attempt \in Attempts /\ t.execution # 0
    BY <1>0, AwaitedAt DEF Runs
  <2>3. dirs[t.attempt] = t.execution
    BY <1>0, <2>1 DEF DirectoriesOwned
  <2>4. QED
    BY <2>1, <2>2, <2>3, DirectoriesStay
<1>3. QED
  BY <1>1, <1>2

\* Private directories stay owned by those who write into them.
LEMMA DirectoriesOwnedStep ==
    ASSUME IndInv, [Next]_vars
    PROVE  DirectoriesOwned'
<1>0. /\ TypeOK /\ DirectoriesOwned /\ index \in Attempts
      /\ pc # "idle" => execution # 0
  BY Counters DEF IndInv, TypeOK, AttemptsCounted
<1>1. claimed /\ pc \in Executing => dirs'[index] = execution
  BY <1>0, DirectoriesStay DEF DirectoriesOwned, Executing
<1>2. /\ pc' \in {"run", "persist", "validate"} => claimed'
      /\ claimed' /\ pc' \in Executing => dirs'[index'] = execution'
  <2> USE DEF Executing
  <2>0. pc \in {"run", "persist", "validate"} => claimed
    BY <1>0 DEF DirectoriesOwned
  <2>1. CASE InitializeParent
    BY <2>1 DEF InitializeParent
  <2>2. CASE CreateExecutor
    BY <2>2 DEF CreateExecutor
  <2>3. CASE ValidateSuccess
    BY <1>1, <2>3 DEF ValidateSuccess
  <2>4. CASE CloseExecutor
    BY <2>4 DEF CloseExecutor, Answer
  <2>5. CASE RecordOutcome
    BY <2>5 DEF RecordOutcome, Route
  <2>6. CASE PrepareRetry
    BY <2>6 DEF PrepareRetry
  <2>7. CASE FinalizeParent
    BY <2>7 DEF FinalizeParent, Answer
  <2>8. CASE RunAttempt
    BY <1>1, <2>0, <2>8 DEF RunAttempt, Fail, stateVars
  <2>9. CASE AttemptTimeout
    BY <1>1, <2>9 DEF AttemptTimeout, Timed, stateVars
  <2>10. CASE Cancel
    BY <1>1, <2>10 DEF Cancel, Answer, stateVars
  <2>11. CASE Restart
    BY <1>1, <2>0, <2>11 DEF Restart, Answer, stateVars
  <2>12. CASE ThreadStep
    <3>1. Moves /\ index' = index /\ execution' = execution
      BY <2>12, WorkerMoves DEF stateVars
    <3>2. QED
      BY <1>1, <2>0, <3>1 DEF Moves, Answer
  <2>13. CASE UNCHANGED vars
    BY <1>1, <2>0, <2>13 DEF vars, stateVars
  <2>14. QED
    BY <2>1, <2>2, <2>3, <2>4, <2>5, <2>6, <2>7, <2>8, <2>9, <2>10, <2>11, <2>12, <2>13
       DEF Next, Coroutine
<1>3. QED
  BY <1>2, WritersOwn, EvidenceStep DEF DirectoriesOwned

\* Attempts once won stay so.
LEMMA WonGrows ==
    ASSUME IndInv, [Next]_vars
    PROVE  won \subseteq won'
<1>1. CASE ThreadStep
  BY <1>1, WorkerMoves
<1>2. CASE ~ThreadStep
  BY <1>2 DEF Next, vars, InitializeParent, Coroutine, RunAttempt, AttemptTimeout,
     Cancel, Restart, CreateExecutor, ValidateSuccess, CloseExecutor, RecordOutcome,
     PrepareRetry, FinalizeParent
<1>3. QED
  BY <1>1, <1>2

\* The attempt that may be won has its manifest.
LEMMA ManifestStep ==
    ASSUME IndInv, [Next]_vars
    PROVE  (pc = "validate" \/ success => Manifest(index, execution) \in evidence)'
<1>1. pc = "validate" \/ success => Manifest(index, execution) \in evidence'
  BY EvidenceGrows DEF IndInv, PublicationOrdered
<1> SUFFICES pc' = "validate" \/ success' => Manifest(index', execution') \in evidence'
  BY DEF Manifest
<1>2. CASE InitializeParent \/ PrepareRetry
  BY <1>2 DEF InitializeParent, PrepareRetry
<1>3. CASE ThreadStep
  <2>1. Moves /\ index' = index /\ execution' = execution /\ success' = success
    BY <1>3, WorkerMoves DEF stateVars
  <2>2. QED
    BY <1>1, <2>1 DEF Moves, Answer
<1>4. CASE CreateExecutor \/ ValidateSuccess \/ CloseExecutor \/ RecordOutcome \/ FinalizeParent
  BY <1>1, <1>4 DEF stateVars, CreateExecutor, ValidateSuccess, CloseExecutor, RecordOutcome,
     Route, FinalizeParent, Answer
<1>5. CASE RunAttempt \/ AttemptTimeout \/ Cancel \/ Restart \/ UNCHANGED vars
  BY <1>1, <1>5 DEF vars, stateVars, RunAttempt, Fail, AttemptTimeout, Timed, Cancel, Restart,
     Answer
<1>6. QED
  BY <1>2, <1>3, <1>4, <1>5 DEF Next, Coroutine

\* Threads that publish carry a won attempt with its manifest.
LEMMA PublishersStep ==
    ASSUME IndInv, [Next]_vars, NEW t \in threads', t.kind = "publish"
    PROVE  <<t.execution, t.attempt>> \in won' /\ Manifest(t.attempt, t.execution) \in evidence'
<1>1. CASE t \in threads
  BY <1>1, WonGrows, EvidenceGrows DEF IndInv, PublicationOrdered
<1>2. CASE t = Thread("publish") /\ pc = "record" /\ selected' # None /\ RecordOutcome
  <2>1. selected = None
    BY <1>2 DEF IndInv, WinnersRecorded
  <2>2. success /\ Current \in won'
    BY <1>2, <2>1 DEF RecordOutcome, Current
  <2>3. Manifest(index, execution) \in evidence'
    BY <2>2, EvidenceGrows DEF IndInv, PublicationOrdered
  <2>4. QED
    BY <1>2, <2>2, <2>3 DEF Thread, Current
<1>3. QED
  BY <1>1, <1>2, ThreadOrigins DEF Origin

\* A pair of an execution and an attempt is not None.
LEMMA PairIsSomething ==
    ASSUME NEW e \in Runs, NEW a \in Attempts
    PROVE  <<e, a>> # None
BY RolloutAssumption DEF Runs, Attempts

\* A bundle once there stays.
LEMMA BundleStays ==
    ASSUME IndInv, [Next]_vars
    PROVE  bundle # None => bundle' = bundle
BY PublicationGrows

\* Threads that register a run index the bundle they committed.
LEMMA RegistrarsStep ==
    ASSUME IndInv, [Next]_vars, NEW t \in threads', t.kind = "register"
    PROVE  bundle' = <<t.execution, t.attempt>>
<1>1. CASE t \in threads
  <2>1. bundle = <<t.execution, t.attempt>>
    BY <1>1 DEF IndInv, PublicationOrdered
  <2>2. bundle # None
    BY <1>1, <2>1, AwaitedAt, PairIsSomething DEF IndInv
  <2>3. QED
    BY <2>1, <2>2, BundleStays
<1>2. QED
  BY <1>1, ThreadOrigins DEF Origin

\* What is public stays won and persisted.
LEMMA PublishedStep ==
    ASSUME IndInv, [Next]_vars
    PROVE  PublishedIsPersisted'
<1>1. CASE bundle' = bundle
  <2>1. bundle # None => bundle \in won /\ <<"manifest", bundle[2], bundle[1]>> \in evidence
    BY DEF IndInv, PublicationOrdered, PublishedIsPersisted
  <2>2. QED
    BY <1>1, <2>1, WonGrows, EvidenceGrows DEF PublishedIsPersisted
<1>2. CASE bundle' # bundle
  <2>1. PICK t \in threads : t.kind = "publish" /\ bundle' = <<t.execution, t.attempt>>
    BY <1>2, PublicationGrows
  <2>2. <<t.execution, t.attempt>> \in won /\ Manifest(t.attempt, t.execution) \in evidence
    BY <2>1 DEF IndInv, PublicationOrdered
  <2>3. QED
    BY <2>1, <2>2, WonGrows, EvidenceGrows DEF PublishedIsPersisted, Manifest
<1>3. QED
  BY <1>1, <1>2

\* The index entry stays, and its bundle with it.
LEMMA ReadableStep ==
    ASSUME IndInv, [Next]_vars
    PROVE  /\ ReadableIsCommitted'
           /\ indexed => indexed' /\ bundle' = bundle /\ bundle # None
<1>1. TypeOK /\ (indexed => bundle # None)
  BY DEF IndInv, PublicationOrdered, ReadableIsCommitted
<1>2. indexed => indexed' /\ bundle' = bundle /\ bundle # None
  BY <1>1, PublicationGrows
<1>3. ASSUME NEW t \in threads, t.kind = "register"
      PROVE  bundle # None
  <2>1. bundle = <<t.execution, t.attempt>>
    BY <1>3 DEF IndInv, PublicationOrdered
  <2>2. QED
    BY <1>1, <2>1, AwaitedAt, PairIsSomething
<1>4. indexed' => indexed \/ bundle # None
  BY <1>3, PublicationGrows
<1>5. indexed' => bundle' # None
  BY <1>2, <1>4, BundleStays
<1>6. QED
  BY <1>2, <1>5 DEF ReadableIsCommitted

\* An execution about to answer "ok" owns the bundle that readers see.
LEMMA SelectedIsReadableStep ==
    ASSUME IndInv, [Next]_vars
    PROVE  (pc = "finalize" /\ selected # None => indexed /\ bundle = Current)'
<1>1. TypeOK /\ (pc = "finalize" /\ selected # None => indexed /\ bundle = Current)
  BY DEF IndInv, PublicationOrdered
<1> SUFFICES pc' = "finalize" /\ selected' # None
             => indexed' /\ bundle' = <<execution', index'>>
  BY DEF Current
<1>2. CASE ThreadStep
  <2>1. Moves /\ index' = index /\ execution' = execution /\ selected' = selected
    BY <1>2, WorkerMoves DEF stateVars
  <2>2. CASE pc' = pc
    BY <1>1, <2>1, <2>2, ReadableStep DEF Current
  <2>3. CASE pc' # pc /\ pc' = "finalize"
    <3>1. indexed' /\ bundle = Current
      BY <2>1, <2>3 DEF Moves, Answer
    <3>2. Current # None
      <4>1. pc = "publish"
        BY <2>1, <2>3 DEF Moves, Answer
      <4>2. execution \in Runs /\ index \in Attempts
        BY <1>1, <4>1 DEF IndInv, AttemptsCounted, TypeOK
      <4>3. QED
        BY <4>2, PairIsSomething DEF Current
    <3>3. QED
      BY <2>1, <3>1, <3>2, BundleStays DEF Current
  <2>4. QED
    BY <2>2, <2>3
<1>3. CASE RecordOutcome
  BY <1>3 DEF RecordOutcome, Route
<1>4. CASE UNCHANGED vars
  BY <1>1, <1>4 DEF vars, stateVars, diskVars, Current
<1>5. CASE InitializeParent \/ CreateExecutor \/ ValidateSuccess \/ CloseExecutor \/ PrepareRetry
           \/ FinalizeParent \/ RunAttempt \/ AttemptTimeout \/ Cancel
  BY <1>5 DEF InitializeParent, CreateExecutor, ValidateSuccess, CloseExecutor, PrepareRetry,
     FinalizeParent, RunAttempt, Fail, AttemptTimeout, Cancel, Answer
<1>6. CASE Restart
  BY <1>6 DEF Restart, Answer
<1>7. QED
  BY <1>2, <1>3, <1>4, <1>5, <1>6 DEF Next, Coroutine

\* Executions that answered "ok" keep their bundle.
LEMMA OkStep ==
    ASSUME IndInv, [Next]_vars
    PROVE  OkIsReadable'
<1> SUFFICES ASSUME NEW e \in Runs, answers'[e] = "ok"
             PROVE  indexed' /\ bundle'[1] = e
  BY DEF OkIsReadable
<1>0. answers \in [Runs -> Answers \cup {None}]
  BY DEF IndInv, TypeOK
<1>1. CASE answers[e] = "ok"
  <2>1. indexed /\ bundle[1] = e
    BY <1>1 DEF IndInv, PublicationOrdered, OkIsReadable
  <2>2. QED
    BY <2>1, ReadableStep
<1>2. CASE answers[e] # "ok"
  <2>1. FinalizeParent /\ selected # None /\ e = execution
    <3>1. CASE ThreadStep
      BY <1>0, <1>2, <3>1, WorkerMoves DEF Moves, Answer
    <3>2. CASE ~ThreadStep
      BY <1>0, <1>2, <3>2 DEF Next, vars, InitializeParent, Coroutine, RunAttempt,
         AttemptTimeout, Cancel, Restart, CreateExecutor, ValidateSuccess, CloseExecutor,
         RecordOutcome, PrepareRetry, FinalizeParent, Answer
    <3>3. QED
      BY <3>1, <3>2
  <2>2. indexed /\ bundle = Current
    BY <2>1 DEF FinalizeParent, IndInv, PublicationOrdered
  <2>3. QED
    BY <2>1, <2>2, ReadableStep DEF Current
<1>3. QED
  BY <1>1, <1>2

\* Publication stays ordered.
LEMMA PublicationOrderedStep ==
    ASSUME IndInv, [Next]_vars
    PROVE  PublicationOrdered'
BY ManifestStep, PublishersStep, RegistrarsStep, PublishedStep, ReadableStep,
   SelectedIsReadableStep, OkStep DEF PublicationOrdered, Manifest

\* Only the current attempt's executor may be alive.
LEMMA ExecutorsFreshStep ==
    ASSUME IndInv, [Next]_vars
    PROVE  ExecutorsFresh'
<1>0. /\ ExecutorsFresh /\ open \subseteq Runs \X Attempts /\ abandoned \subseteq open
      /\ execution \in Nat /\ index \in Nat
  BY Counters DEF IndInv, TypeOK
<1>o. \A x \in open : x[1] \in Nat /\ x[2] \in Nat
  BY <1>0 DEF Runs, Attempts
<1> USE DEF ExecutorsFresh, Executing, Current
<1>1. CASE InitializeParent
  BY <1>0, <1>o, <1>1 DEF InitializeParent, execVars
<1>2. CASE CreateExecutor
  <2>1. Current \notin open /\ open \subseteq abandoned
    BY <1>0, <1>2 DEF CreateExecutor
  <2>2. QED
    BY <1>0, <2>1, <1>2 DEF CreateExecutor, stateVars
<1>3. CASE ValidateSuccess
  BY <1>0, <1>3 DEF ValidateSuccess, execVars
<1>4. CASE CloseExecutor
  BY <1>0, <1>4 DEF CloseExecutor, Answer, stateVars
<1>5. CASE RecordOutcome
  BY <1>0, <1>5 DEF RecordOutcome, Route, execVars
<1>6. CASE PrepareRetry
  BY <1>0, <1>o, <1>6 DEF PrepareRetry, execVars
<1>7. CASE FinalizeParent
  BY <1>0, <1>7 DEF FinalizeParent, Answer, stateVars, execVars
<1>8. CASE RunAttempt
  BY <1>0, <1>8 DEF RunAttempt, Fail, stateVars, execVars
<1>9. CASE AttemptTimeout
  BY <1>0, <1>9 DEF AttemptTimeout, Timed, stateVars, execVars
<1>10. CASE Cancel
  BY <1>0, <1>10 DEF Cancel, Answer, stateVars
<1>11. CASE Restart
  BY <1>11 DEF Restart, Answer
<1>12. CASE ThreadStep
  <2>1. Moves /\ UNCHANGED <<execution, index, open, abandoned>>
    BY <1>12, WorkerMoves DEF stateVars, execVars
  <2>2. /\ pc' \in Executing <=> pc \in Executing
        /\ pc' = "create" <=> pc = "create"
    BY <2>1 DEF Moves, Answer
  <2>3. QED
    BY <1>0, <2>1, <2>2
<1>13. CASE UNCHANGED vars
  BY <1>0, <1>13 DEF vars, stateVars, execVars
<1>14. QED
  BY <1>1, <1>2, <1>3, <1>4, <1>5, <1>6, <1>7, <1>8, <1>9, <1>10, <1>11, <1>12, <1>13
     DEF Next, Coroutine

\* The invariant is inductive.
LEMMA IndInvStep == IndInv /\ [Next]_vars => IndInv'
BY TypeStep, AttemptsCountedStep, WinnersRecordedStep, DirectoriesOwnedStep,
   PublicationOrderedStep, ExecutorsFreshStep DEF IndInv

\* It holds throughout every rollout.
THEOREM Invariance == Spec => []IndInv
BY IndInvInit, IndInvStep, PTL DEF Spec

\* The types of the rollout's state.
THEOREM TypeCorrect == Spec => []TypeOK
<1>1. IndInv => TypeOK
  BY DEF IndInv
<1>2. QED
  BY Invariance, <1>1, PTL

\* Timed-out and cancelled attempts' threads, and later executions of the run id,
\* never write into the private evidence of another execution.
THEOREM EvidenceBelongsToOneExecution == Spec => []EvidenceIsOneExecution
<1>1. IndInv => EvidenceIsOneExecution
  BY DEF IndInv, DirectoriesOwned
<1>2. QED
  BY Invariance, <1>1, PTL

\* What is public was won, with complete private evidence.
THEOREM PublishedIsComplete == Spec => []PublishedIsPersisted
<1>1. IndInv => PublishedIsPersisted
  BY DEF IndInv, PublicationOrdered
<1>2. QED
  BY Invariance, <1>1, PTL

\* A reader of the run index always finds the bundle.
THEOREM ReadersFindBundles == Spec => []ReadableIsCommitted
<1>1. IndInv => ReadableIsCommitted
  BY DEF IndInv, PublicationOrdered
<1>2. QED
  BY Invariance, <1>1, PTL

\* An execution that answered "ok" owns what readers see.
THEOREM OkMeansReadable == Spec => []OkIsReadable
<1>1. IndInv => OkIsReadable
  BY DEF IndInv, PublicationOrdered
<1>2. QED
  BY Invariance, <1>1, PTL

\* One executor at a time, and none is left behind but those whose close failed.
THEOREM ExecutorsStaySingle == Spec => []ExecutorsDoNotOverlap
<1>1. IndInv => ExecutorsDoNotOverlap
  <2>1. SUFFICES ASSUME ExecutorsFresh PROVE ExecutorsDoNotOverlap
    BY DEF IndInv
  <2>2. \A x, y \in open \ abandoned : x = y
    BY <2>1 DEF ExecutorsFresh
  <2>3. pc \in {"idle", "create"} => open \subseteq abandoned
    BY <2>1 DEF ExecutorsFresh, Executing
  <2>4. QED
    BY <2>2, <2>3 DEF ExecutorsDoNotOverlap
<1>2. QED
  BY Invariance, <1>1, PTL

\* No execution of the run id replaces a bundle that is there.
THEOREM BundleIsWrittenOnce == Spec => BundleWriteOnce
<1>1. IndInv /\ [Next]_vars => [bundle # None => bundle' = bundle]_vars
  BY BundleStays
<1>2. QED
  BY Invariance, <1>1, PTL DEF BundleWriteOnce, Spec
-----------------------------------------------------------------------------
(* The rollout keeps the promise of Rollout, step by step.                 *)

\* Nothing promised has happened yet.
LEMMA PromiseInit == Init => Promise!Init
BY DEF Init, Promise!Init, Runs

PromiseView == <<execution, pc # "idle", Len(refs), won, bundle, answers>>

\* An execution in which no attempt was selected has no winner.
LEMMA NothingWon ==
    ASSUME IndInv, selected = None
    PROVE  ~Promise!Won
<1>1. \A w \in won : w[1] < execution
  BY DEF IndInv, WinnersRecorded
<1>2. execution \in Nat
  BY Counters DEF IndInv
<1>3. QED
  BY <1>1, <1>2 DEF Promise!Won, Promise!Last

\* An execution that publishes, or returns what it selected, has a winner: its last try.
LEMMA LastWon ==
    ASSUME IndInv, pc = "publish" \/ (pc = "finalize" /\ selected # None)
    PROVE  Promise!Won /\ Promise!Last = Current
<1>1. Len(refs) - 1 = index
  BY Counters DEF IndInv, AttemptsCounted
<1>2. Current \in won
  BY DEF IndInv, WinnersRecorded
<1>3. QED
  BY <1>1, <1>2 DEF Promise!Won, Promise!Last, Current

\* A publishing thread's step is a commit, a refusal, both, or nothing.
LEMMA PublishKeepsPromise ==
    ASSUME IndInv, NEW t \in threads, PublishThread(t)
    PROVE  Promise!Next \/ UNCHANGED PromiseView
<1>1. UNCHANGED <<execution, refs, won>>
  BY DEF PublishThread, ThreadFrame, stateVars
<1>2. <<t.execution, t.attempt>> \in won
  BY DEF PublishThread, IndInv, PublicationOrdered
<1>3. Awaited(t) => pc = "publish" /\ <<t.execution, t.attempt>> = Current
  BY AwaitedAt DEF PublishThread, IndInv, Current
<1>4. CASE pc' = pc /\ answers' = answers
  BY <1>1, <1>2, <1>4 DEF PublishThread, Promise!Next, Promise!Commit, PromiseView
<1>5. CASE Awaited(t) /\ Answer("parent_artifact_publish_failed")
  <2>1. pc = "publish" /\ Promise!Won /\ Promise!Last = <<t.execution, t.attempt>>
    BY <1>3, <1>5, LastWon
  <2>2. bundle' = bundle \/ (bundle = None /\ bundle' = Promise!Last)
    BY <2>1 DEF PublishThread
  <2>3. CASE bundle' = bundle
    BY <1>1, <1>5, <2>1, <2>3 DEF Answer, Promise!Next, Promise!Refuse, Promise!Answer
  <2>4. CASE bundle = None /\ bundle' = Promise!Last
    BY <1>1, <1>5, <2>1, <2>4 DEF Answer, Promise!Next, Promise!RefuseCommitted
  <2>5. QED
    BY <2>2, <2>3, <2>4
<1>6. QED
  BY <1>4, <1>5 DEF PublishThread, PublishFails

\* A registering thread's step is a refusal or nothing.
LEMMA RegisterKeepsPromise ==
    ASSUME IndInv, NEW t \in threads, RegisterThread(t)
    PROVE  Promise!Next \/ UNCHANGED PromiseView
<1>1. UNCHANGED <<execution, refs, won, bundle>>
  BY DEF RegisterThread, ThreadFrame, stateVars
<1>2. Awaited(t) => pc = "publish"
  BY AwaitedAt DEF RegisterThread, IndInv
<1>3. CASE (pc # "idle") = (pc' # "idle") /\ answers' = answers
  BY <1>1, <1>3 DEF PromiseView
<1>4. CASE Awaited(t) /\ Answer("parent_artifact_publish_failed")
  BY <1>1, <1>2, <1>4, LastWon DEF Answer, Promise!Next, Promise!Refuse, Promise!Answer
<1>5. QED
  BY <1>2, <1>3, <1>4 DEF RegisterThread, PublishFails

\* The other threads' steps are none of the promise's.
LEMMA WorkersKeepPromise ==
    ASSUME IndInv, NEW t \in threads,
           ClaimThread(t) \/ PersistThread(t) \/ ManifestThread(t) \/ SummaryThread(t)
    PROVE  UNCHANGED PromiseView
<1>1. UNCHANGED <<execution, refs, won, bundle, answers>>
  BY DEF ClaimThread, PersistThread, ManifestThread, SummaryThread, ThreadFrame, stateVars,
     diskVars
<1>2. t.kind \in {"claim", "persist", "manifest", "summary"}
  BY DEF ClaimThread, PersistThread, ManifestThread, SummaryThread
<1>3. Awaited(t) => pc \in Executing
  BY <1>2, AwaitedAt DEF IndInv, Executing
<1>4. (pc' # "idle") = (pc # "idle")
  <2>1. pc' = pc \/ (pc \in Executing /\ pc' \in Executing)
    BY <1>3 DEF ClaimThread, PersistThread, ManifestThread, SummaryThread, RaiseIn, Fail,
       Executing
  <2>2. QED
    BY <2>1 DEF Executing
<1>5. QED
  BY <1>1, <1>4 DEF PromiseView

\* Every step of the rollout is a step of its promise, or none.
LEMMA PromiseStep ==
    ASSUME IndInv, [Next]_vars
    PROVE  Promise!Next \/ UNCHANGED PromiseView
<1>1. CASE InitializeParent
  BY <1>1 DEF InitializeParent, diskVars, Promise!Next, Promise!Begin
<1>2. CASE CreateExecutor \/ ValidateSuccess \/ PrepareRetry \/ RunAttempt \/ AttemptTimeout
  BY <1>2 DEF CreateExecutor, ValidateSuccess, PrepareRetry, RunAttempt, Fail, AttemptTimeout,
     Timed, stateVars, diskVars, PromiseView
<1>3. CASE CloseExecutor
  BY <1>3 DEF CloseExecutor, Answer, stateVars, diskVars, PromiseView, Promise!Next,
     Promise!Abort, Promise!Answer
<1>4. CASE RecordOutcome
  <2>1. selected = None /\ Len(refs) = index
    BY <1>4 DEF RecordOutcome, IndInv, WinnersRecorded, AttemptsCounted, Trying
  <2>2. index \in Nat /\ index < AttemptLimit
    BY Counters DEF IndInv
  <2>3. Len(refs') = Len(refs) + 1
    BY <1>4 DEF RecordOutcome, IndInv, TypeOK
  <2>4. pc' # "idle"
    BY <1>4 DEF RecordOutcome, Route
  <2>5. QED
    BY <1>4, <2>1, <2>2, <2>3, <2>4, NothingWon DEF RecordOutcome, diskVars, Promise!Next,
       Promise!Try
<1>5. CASE FinalizeParent
  <2>1. CASE selected = None
    <3>1. Len(refs) = AttemptLimit
      BY <1>5, <2>1 DEF FinalizeParent, IndInv, AttemptsCounted
    <3>2. QED
      BY <1>5, <2>1, <3>1, NothingWon DEF FinalizeParent, Answer, stateVars, diskVars,
         Promise!Next, Promise!Exhaust, Promise!Answer
  <2>2. CASE selected # None
    <3>1. bundle = Current /\ Promise!Won /\ Promise!Last = Current
      BY <1>5, <2>2, LastWon DEF FinalizeParent, IndInv, PublicationOrdered
    <3>2. QED
      BY <1>5, <2>2, <3>1 DEF FinalizeParent, Answer, stateVars, diskVars, Promise!Next,
         Promise!Succeed, Promise!Answer
  <2>3. QED
    BY <2>1, <2>2
<1>6. CASE Cancel
  BY <1>6 DEF Cancel, Answer, stateVars, diskVars, PromiseView, Promise!Next, Promise!Abort,
     Promise!Answer
<1>7. CASE Restart
  BY <1>7 DEF Restart, Answer, stateVars, diskVars, PromiseView, Promise!Next, Promise!Abort,
     Promise!Answer
<1>8. CASE ThreadStep
  BY <1>8, PublishKeepsPromise, RegisterKeepsPromise, WorkersKeepPromise DEF ThreadStep
<1>9. CASE UNCHANGED vars
  BY <1>9 DEF vars, stateVars, diskVars, PromiseView
<1>10. QED
  BY <1>1, <1>2, <1>3, <1>4, <1>5, <1>6, <1>7, <1>8, <1>9 DEF Next, Coroutine

\* The rollout implements Rollout, whatever its threads, timeouts, cancellations and
\* restarts do.
THEOREM ImplementsPromise == Spec => KeepsPromise
<1>1. IndInv /\ [Next]_vars => [Promise!Next]_(Promise!vars)
  BY PromiseStep DEF PromiseView, Promise!vars
<1>2. QED
  BY Invariance, PromiseInit, <1>1, PTL DEF Spec, KeepsPromise, Promise!Spec
=============================================================================
