--------------------------- MODULE RunObserverProofs ---------------------------
(***************************************************************************)
(* The page's three properties, for every number of runs, every window and *)
(* every number of events.  An answer is read at one moment and shown at    *)
(* another, so the invariant says of each answer on its way what it will be *)
(* true of when it arrives, whatever page and server did meanwhile.         *)
(***************************************************************************)
EXTENDS RunObserver, TLAPS

(* The registry keeps or has dropped every event, and settles as its run did. *)
EntriesTrue ==
    \A r \in Ids : entry[r] # None =>
        /\ 1..entry[r].seq \subseteq Held(entry[r]) \union dropped[r]
        /\ entry[r].status \in Terminal => job[r] = entry[r].status

(* So does an answer, of the events its observer has not seen. *)
AnswersTrue ==
    \A r \in Ids : answer[r] # None =>
        /\ answer[r].events \subseteq 1..answer[r].latest
        /\ \A s \in 1..answer[r].latest :
             s > lastSeq[r] => s \in answer[r].events \union dropped[r]
        /\ answer[r].status \in Terminal => job[r] = answer[r].status

(* The registry counts every event while it knows the run, an answer never    *)
(* counts more, and one that reports the end counts them all. *)
Counted ==
    \A r \in Ids :
        /\ job[r] \in {"none", "posted"} => published[r] = 0
        /\ entry[r] # None => entry[r].seq = published[r]
        /\ lastSeq[r] <= published[r]
        /\ answer[r] # None => answer[r].latest <= published[r]
        /\ answer[r] # None /\ answer[r].status \in Terminal => answer[r].latest = published[r]

(* Nothing is known of a run that the page has not begun. *)
RunsAreNew ==
    \A r \in Ids : r > started =>
        /\ job[r] = "none" /\ loop[r] = "none"
        /\ r \notin stopped \union late /\ lastSeq[r] = 0

(* The POST that is out is the panel's, the observer that watches too, and a  *)
(* settled panel is not watched any more. *)
PageCoherent ==
    /\ post # None => /\ panel # None /\ panel.run = post /\ mounted
                      /\ result = None /\ post \notin late /\ notice = ""
    /\ current # None => current <= started
    /\ current # None /\ current \notin stopped => panel # None
    /\ panel # None /\ panel.status \in Terminal => panel.run \in stopped
    /\ result # None => job[result] = "succeeded"

IndInv ==
    /\ TypeOK /\ EntriesTrue /\ AnswersTrue /\ Counted /\ RunsAreNew /\ PageCoherent
    /\ PanelIsTrue /\ NeverSilent

(* The parts of TypeOK. *)
PageTypes ==
    /\ started \in 0..Runs
    /\ post \in Ids \union {None} /\ current \in Ids \union {None} /\ result \in Ids \union {None}
    /\ loop \in [Ids -> {"none", "timer", "reading", "over"}]
    /\ stopped \subseteq Ids /\ late \subseteq Ids
    /\ notice \in {"", "limit"} /\ mounted \in BOOLEAN
PanelType == panel \in Panels \union {None}
SeqType == lastSeq \in [Ids -> 0..MaxEvents]
JobType == job \in [Ids -> {"none", "posted", "running", "refused", "lost"} \union Terminal]
EntryType ==
    entry \in [Ids -> [status : {"running"} \union Terminal, seq : 0..MaxEvents] \union {None}]
AnswerType ==
    answer \in [Ids -> [status : Statuses, latest : 0..MaxEvents,
                       events : SUBSET (1..MaxEvents)] \union {None}]
DroppedType == dropped \in [Ids -> SUBSET (1..MaxEvents)]
PublishedType == published \in [Ids -> 0..MaxEvents]

\* The type invariant by kinds of variables.
LEMMA TypeParts ==
  TypeOK <=> /\ PageTypes /\ PanelType /\ SeqType /\ JobType
             /\ EntryType /\ AnswerType /\ DroppedType /\ PublishedType
  BY DEF TypeOK, PageTypes, PanelType, SeqType, JobType, EntryType, AnswerType, DroppedType,
         PublishedType

-----------------------------------------------------------------------------
(* Who moves what. *)

(* The registry and the jobs it reports move by themselves, but for the job that *)
(* a POST creates. *)
RegistryStep ==
    \/ RestartServer
    \/ \E r \in Ids : RefusePost(r) \/ BeginRun(r) \/ PublishEvent(r) \/ FinishRun(r) \/ Sweep(r)

(* Answers and what the observers have seen of their runs. *)
AnswerStep ==
    \E r \in Ids : ServerReads(r) \/ PollStarts(r) \/ PollAnswered(r) \/ PollFails(r) \/ LoopEnds(r)

PanelStep ==
    HandleFile \/ HandleRun \/ Unmount \/ PostRefused \/ \E r \in Ids : PollAnswered(r)

(* Every step but these leaves registry, answers and panel alone. *)
LEMMA Movers ==
  ASSUME [Next]_vars
  PROVE  /\ RegistryStep \/ HandleRun \/ UNCHANGED server
         /\ AnswerStep \/ UNCHANGED <<answer, lastSeq>>
         /\ PanelStep \/ UNCHANGED panel
<1> USE DEF RegistryStep, AnswerStep, PanelStep, page, server
<1>1. CASE HandleFile BY <1>1 DEF HandleFile
<1>2. CASE HandleRun BY <1>2 DEF HandleRun
<1>3. CASE Unmount BY <1>3 DEF Unmount
<1>4. CASE PostReturns BY <1>4 DEF PostReturns, PostSucceeds, PostRefused, PostAborted
<1>5. CASE RestartServer BY <1>5 DEF RestartServer
<1>6. ASSUME NEW r \in Ids, Backend(r)
      PROVE  /\ RegistryStep \/ UNCHANGED server
             /\ AnswerStep \/ UNCHANGED <<answer, lastSeq>>
             /\ UNCHANGED panel
  BY <1>6 DEF Backend, RefusePost, BeginRun, PublishEvent, FinishRun, Sweep, ServerReads
<1>7. ASSUME NEW r \in Ids, Observer(r)
      PROVE  /\ UNCHANGED server
             /\ AnswerStep \/ UNCHANGED <<answer, lastSeq>>
             /\ PanelStep \/ UNCHANGED panel
  BY <1>7 DEF Observer, PollStarts, PollAnswered, PollFails, PollGivesUp, LoopEnds
<1>8. ASSUME NEW r \in Ids, DeadlinePasses(r) PROVE UNCHANGED <<server, answer, lastSeq, panel>>
  BY <1>8 DEF DeadlinePasses
<1>9. CASE UNCHANGED vars BY <1>9 DEF vars
<1> QED BY <1>1, <1>2, <1>3, <1>4, <1>5, <1>6, <1>7, <1>8, <1>9 DEF Next

(* What is settled stays settled, and what is dropped stays dropped. *)
JobsSettle == \A r \in Ids : job[r] \in Terminal \union {"refused"} => job'[r] = job[r]
DroppedGrows == \A r \in Ids : dropped[r] \subseteq dropped'[r]

(* A run publishes while it is at work. *)
PublishedGrows ==
    \A r \in Ids : /\ published[r] <= published'[r]
                   /\ job[r] # "running" => published'[r] = published[r]

(* The run that HandleRun begins. *)
LEMMA FreshId ==
  ASSUME PageTypes, HandleRun
  PROVE  started + 1 \in Ids /\ started + 1 \in 0..Runs /\ started + 1 <= started + 1
<1>1. started < Runs BY DEF HandleRun
<1>2. started \in 0..Runs BY DEF PageTypes
<1> QED BY <1>1, <1>2, ObserverAssumption DEF Ids

(* Nothing has happened to it yet. *)
LEMMA FreshRun ==
  ASSUME PageTypes, RunsAreNew, HandleRun
  PROVE  /\ started + 1 \in Ids /\ job[started + 1] = "none"
         /\ started + 1 \notin stopped \union late /\ lastSeq[started + 1] = 0
<1>1. started \in 0..Runs BY DEF PageTypes
<1>2. started + 1 \in Ids /\ started + 1 > started BY <1>1, FreshId, ObserverAssumption
<1> QED BY <1>2 DEF RunsAreNew

(* Restarts and sweeps take entries, never what was settled or dropped. *)
LEMMA RegistryGrows ==
  ASSUME PageTypes, JobType, DroppedType, RunsAreNew, [Next]_vars
  PROVE  JobsSettle /\ DroppedGrows
<1>1. CASE UNCHANGED server
  BY <1>1 DEF server, JobsSettle, DroppedGrows
<1>2. CASE HandleRun
  <2>1. job' = [job EXCEPT ![started + 1] = "posted"] /\ dropped' = dropped
    BY <1>2 DEF HandleRun
  <2> QED BY <1>2, <2>1, FreshRun DEF JobType, JobsSettle, DroppedGrows, Terminal
<1>3. CASE RestartServer
  BY <1>3 DEF RestartServer, JobsSettle, DroppedGrows, Terminal
<1>4. ASSUME NEW r \in Ids, RefusePost(r) PROVE JobsSettle /\ DroppedGrows
  BY <1>4 DEF RefusePost, Posted, JobType, JobsSettle, DroppedGrows, Terminal
<1>5. ASSUME NEW r \in Ids, BeginRun(r) PROVE JobsSettle /\ DroppedGrows
  BY <1>5 DEF BeginRun, Posted, JobType, JobsSettle, DroppedGrows, Terminal
<1>6. ASSUME NEW r \in Ids, PublishEvent(r) PROVE JobsSettle /\ DroppedGrows
  BY <1>6 DEF PublishEvent, Register, DroppedType, JobsSettle, DroppedGrows
<1>7. ASSUME NEW r \in Ids, FinishRun(r) PROVE JobsSettle /\ DroppedGrows
  BY <1>7 DEF FinishRun, JobType, JobsSettle, DroppedGrows, Terminal
<1>8. ASSUME NEW r \in Ids, Sweep(r) PROVE JobsSettle /\ DroppedGrows
  BY <1>8 DEF Sweep, JobsSettle, DroppedGrows
<1> QED BY <1>1, <1>2, <1>3, <1>4, <1>5, <1>6, <1>7, <1>8, Movers DEF RegistryStep

-----------------------------------------------------------------------------
(* Types. *)

(* The page's own variables. *)
LEMMA PageTypesStep ==
  ASSUME PageTypes, [Next]_vars
  PROVE  PageTypes'
<1> USE ObserverAssumption DEF PageTypes, page, server
<1>1. CASE HandleFile BY <1>1 DEF HandleFile, ClearRunOutput
<1>2. CASE HandleRun
  <2>1. started + 1 \in Ids /\ started + 1 \in 0..Runs BY <1>2, FreshId
  <2> QED BY <1>2, <2>1 DEF HandleRun, ClearRunOutput
<1>3. CASE Unmount BY <1>3 DEF Unmount
<1>4. CASE PostSucceeds BY <1>4 DEF PostSucceeds
<1>5. CASE PostRefused BY <1>5 DEF PostRefused
<1>6. CASE PostAborted BY <1>6 DEF PostAborted
<1>7. CASE RestartServer BY <1>7 DEF RestartServer
<1>8. ASSUME NEW r \in Ids, Backend(r) PROVE PageTypes'
  BY <1>8 DEF Backend, RefusePost, BeginRun, PublishEvent, FinishRun, Sweep, ServerReads
<1>9. ASSUME NEW r \in Ids, PollStarts(r) PROVE PageTypes' BY <1>9 DEF PollStarts
<1>10. ASSUME NEW r \in Ids, PollAnswered(r) PROVE PageTypes' BY <1>10 DEF PollAnswered
<1>11. ASSUME NEW r \in Ids, PollFails(r) PROVE PageTypes' BY <1>11 DEF PollFails
<1>12. ASSUME NEW r \in Ids, PollGivesUp(r) PROVE PageTypes' BY <1>12 DEF PollGivesUp
<1>13. ASSUME NEW r \in Ids, LoopEnds(r) PROVE PageTypes' BY <1>13 DEF LoopEnds
<1>14. ASSUME NEW r \in Ids, DeadlinePasses(r) PROVE PageTypes' BY <1>14 DEF DeadlinePasses
<1>15. CASE UNCHANGED vars BY <1>15 DEF vars
<1> QED BY <1>1, <1>2, <1>3, <1>4, <1>5, <1>6, <1>7, <1>8, <1>9, <1>10, <1>11, <1>12, <1>13,
          <1>14, <1>15 DEF Next, PostReturns, Observer

(* A merged answer is a panel. *)
LEMMA MergedPanel ==
  ASSUME PanelType, AnswerType, NEW r \in Ids, answer[r] # None
  PROVE  Merged(r, answer[r]) \in Panels
  BY DEF PanelType, AnswerType, Merged, Panels

(* The panel. *)
LEMMA PanelTypeStep ==
  ASSUME PanelType, PageTypes, AnswerType, PageCoherent, [Next]_vars
  PROVE  PanelType'
<1> USE DEF PanelType, Panels, Statuses, Terminal
<1>1. CASE HandleFile BY <1>1 DEF HandleFile
<1>2. CASE HandleRun
  <2>1. started + 1 \in Ids BY <1>2, FreshId
  <2> QED BY <1>2, <2>1 DEF HandleRun
<1>3. CASE Unmount BY <1>3 DEF Unmount
<1>4. CASE PostRefused
  <2>1. panel \in Panels
    BY <1>4 DEF PostRefused, PageCoherent
  <2>2. panel' = panel \/ panel' = [panel EXCEPT !.status = "failed"]
    BY <1>4 DEF PostRefused
  <2> QED BY <2>1, <2>2
<1>5. ASSUME NEW r \in Ids, PollAnswered(r) PROVE PanelType'
  BY <1>5, MergedPanel DEF PollAnswered
<1>6. CASE UNCHANGED panel BY <1>6
<1> QED BY <1>1, <1>2, <1>3, <1>4, <1>5, <1>6, Movers DEF PanelStep

(* Event numbers seen. *)
LEMMA SeqTypeStep ==
  ASSUME SeqType, AnswerType, [Next]_vars
  PROVE  SeqType'
<1> USE ObserverAssumption DEF SeqType, page
<1>1. ASSUME NEW r \in Ids, ServerReads(r) PROVE SeqType' BY <1>1 DEF ServerReads
<1>2. ASSUME NEW r \in Ids, PollStarts(r) PROVE SeqType' BY <1>2 DEF PollStarts
<1>3. ASSUME NEW r \in Ids, PollAnswered(r) PROVE SeqType' BY <1>3 DEF PollAnswered, AnswerType
<1>4. ASSUME NEW r \in Ids, PollFails(r) PROVE SeqType' BY <1>4 DEF PollFails
<1>5. ASSUME NEW r \in Ids, LoopEnds(r) PROVE SeqType' BY <1>5 DEF LoopEnds
<1>6. CASE UNCHANGED lastSeq BY <1>6
<1> QED BY <1>1, <1>2, <1>3, <1>4, <1>5, <1>6, Movers DEF AnswerStep

(* Answers. *)
LEMMA AnswerTypeStep ==
  ASSUME AnswerType, EntryType, [Next]_vars
  PROVE  AnswerType'
<1> USE ObserverAssumption DEF AnswerType, Statuses, Terminal
<1>1. ASSUME NEW r \in Ids, ServerReads(r) PROVE AnswerType'
  BY <1>1 DEF ServerReads, Increment, EntryType, Held
<1>2. ASSUME NEW r \in Ids, PollStarts(r) PROVE AnswerType' BY <1>2 DEF PollStarts
<1>3. ASSUME NEW r \in Ids, PollAnswered(r) PROVE AnswerType' BY <1>3 DEF PollAnswered
<1>4. ASSUME NEW r \in Ids, PollFails(r) PROVE AnswerType' BY <1>4 DEF PollFails
<1>5. ASSUME NEW r \in Ids, LoopEnds(r) PROVE AnswerType' BY <1>5 DEF LoopEnds
<1>6. CASE UNCHANGED answer BY <1>6
<1> QED BY <1>1, <1>2, <1>3, <1>4, <1>5, <1>6, Movers DEF AnswerStep

(* Only PublishEvent counts. *)
LEMMA PublishedStep ==
  ASSUME PublishedType, [Next]_vars
  PROVE  PublishedType' /\ PublishedGrows
<1> USE ObserverAssumption DEF PublishedType, PublishedGrows
<1>1. CASE published' = published BY <1>1
<1>2. ASSUME NEW r \in Ids, PublishEvent(r) PROVE PublishedType' /\ PublishedGrows
  BY <1>2 DEF PublishEvent
<1>3. published' = published \/ \E r \in Ids : PublishEvent(r)
  BY Movers DEF RegistryStep, RestartServer, RefusePost, BeginRun, FinishRun, Sweep, HandleRun,
                server
<1> QED BY <1>1, <1>2, <1>3

(* Jobs, entries and dropped events. *)
LEMMA ServerTypesStep ==
  ASSUME PageTypes, JobType, EntryType, DroppedType, PublishedType, Counted, [Next]_vars
  PROVE  JobType' /\ EntryType' /\ DroppedType'
<1> USE ObserverAssumption DEF JobType, EntryType, DroppedType, Terminal
<1>1. CASE UNCHANGED server BY <1>1 DEF server
<1>2. CASE HandleRun
  <2>1. started + 1 \in Ids BY <1>2, FreshId
  <2> QED BY <1>2, <2>1 DEF HandleRun
<1>3. CASE RestartServer BY <1>3 DEF RestartServer
<1>4. ASSUME NEW r \in Ids, RefusePost(r) PROVE JobType' /\ EntryType' /\ DroppedType'
  BY <1>4 DEF RefusePost
<1>5. ASSUME NEW r \in Ids, BeginRun(r) PROVE JobType' /\ EntryType' /\ DroppedType'
  BY <1>5 DEF BeginRun, Entry
<1>6. ASSUME NEW r \in Ids, PublishEvent(r) PROVE JobType' /\ EntryType' /\ DroppedType'
  <2>0. CASE entry[r] = None BY <1>6, <2>0 DEF PublishEvent
  <2>a. CASE entry[r] # None
    <3>1. entry[r].seq \in 0..MaxEvents /\ entry[r].seq + 1 \in 0..MaxEvents
      BY <1>6, <2>a DEF PublishEvent, Counted, PublishedType
    <3>2. Held(entry[r]) \subseteq 1..MaxEvents
      BY <3>1 DEF Held
    <3>3. EntryType' BY <1>6, <2>a, <3>1 DEF PublishEvent, Register, Entry
    <3>4. DroppedType' BY <1>6, <2>a, <3>2 DEF PublishEvent, Register
    <3> QED BY <1>6, <3>3, <3>4 DEF PublishEvent
  <2> QED BY <2>0, <2>a
<1>7. ASSUME NEW r \in Ids, FinishRun(r) PROVE JobType' /\ EntryType' /\ DroppedType'
  <2>1. JobType' /\ DroppedType' BY <1>7 DEF FinishRun
  <2>2. EntryType' BY <1>7 DEF FinishRun, Entry
  <2> QED BY <2>1, <2>2
<1>8. ASSUME NEW r \in Ids, Sweep(r) PROVE JobType' /\ EntryType' /\ DroppedType'
  BY <1>8 DEF Sweep
<1> QED BY <1>1, <1>2, <1>3, <1>4, <1>5, <1>6, <1>7, <1>8, Movers DEF RegistryStep
-----------------------------------------------------------------------------
(* Registry and answers. *)

(* An event leaves the window only into `dropped`. *)
LEMMA EntriesStep ==
  ASSUME PageTypes, JobType, EntryType, DroppedType, RunsAreNew, EntriesTrue, [Next]_vars
  PROVE  EntriesTrue'
<1>0. JobsSettle /\ DroppedGrows BY RegistryGrows
<1>k. ASSUME NEW q \in Ids, entry'[q] = entry[q], entry[q] # None
      PROVE  /\ 1..entry'[q].seq \subseteq Held(entry'[q]) \union dropped'[q]
             /\ entry'[q].status \in Terminal => job'[q] = entry'[q].status
  BY <1>0, <1>k DEF EntriesTrue, JobsSettle, DroppedGrows, Held
<1>1. CASE UNCHANGED entry BY <1>1, <1>k DEF EntriesTrue
<1>2. CASE HandleRun BY <1>2, <1>k DEF HandleRun, EntriesTrue
<1>3. CASE RestartServer BY <1>3 DEF RestartServer, EntriesTrue
<1>4. ASSUME NEW r \in Ids, RefusePost(r) PROVE EntriesTrue'
  BY <1>4, <1>k DEF RefusePost, EntriesTrue
<1>5. ASSUME NEW r \in Ids, BeginRun(r) PROVE EntriesTrue'
  <2>1. entry'[r].seq = 0 /\ entry'[r].status = "running"
    BY <1>5 DEF BeginRun, Entry, EntryType
  <2>2. 1..entry'[r].seq = {} BY <2>1
  <2>3. \A q \in Ids \ {r} : entry'[q] = entry[q] BY <1>5 DEF BeginRun, EntryType
  <2> QED BY <2>1, <2>2, <2>3, <1>k DEF EntriesTrue, Terminal
<1>6. ASSUME NEW r \in Ids, PublishEvent(r), entry[r] # None PROVE EntriesTrue'
  <2>0. Register(r) BY <1>6 DEF PublishEvent
  <2>1. entry[r].seq \in Nat BY <1>6, ObserverAssumption DEF EntryType
  <2>2. entry'[r] = [status |-> "running", seq |-> entry[r].seq + 1]
    BY <2>0 DEF Register, Entry, EntryType
  <2>3. dropped'[r] = dropped[r] \union (Held(entry[r]) \ Held(entry'[r]))
    BY <2>0, <2>2 DEF Register, Entry, DroppedType
  <2>4. \A q \in Ids \ {r} : entry'[q] = entry[q] BY <2>0 DEF Register, EntryType
  <2>5. ASSUME NEW s \in 1..entry'[r].seq PROVE s \in Held(entry'[r]) \union dropped'[r]
    <3>1. CASE s = entry[r].seq + 1
      BY <2>1, <2>2, <3>1, ObserverAssumption DEF Held
    <3>2. CASE s # entry[r].seq + 1
      <4>1. s \in 1..entry[r].seq BY <2>1, <2>2, <3>2
      <4>2. s \in Held(entry[r]) \union dropped[r] BY <4>1, <1>6 DEF EntriesTrue
      <4> QED BY <4>2, <2>3
    <3> QED BY <3>1, <3>2
  <2> QED BY <2>2, <2>4, <2>5, <1>k DEF EntriesTrue, Terminal
<1>7. ASSUME NEW r \in Ids, FinishRun(r) PROVE EntriesTrue'
  <2>1. PICK status \in Terminal :
          /\ job' = [job EXCEPT ![r] = status]
          /\ entry' = [entry EXCEPT ![r] = IF @ = None THEN None ELSE Entry(status, @.seq)]
    BY <1>7 DEF FinishRun
  <2>2. job'[r] = status BY <2>1 DEF JobType
  <2>3. \A q \in Ids \ {r} : entry'[q] = entry[q] BY <2>1 DEF EntryType
  <2>4. CASE entry[r] = None
    <3>1. entry'[r] = None BY <2>1, <2>4 DEF EntryType
    <3> QED BY <3>1, <2>3, <1>k DEF EntriesTrue
  <2>5. CASE entry[r] # None
    <3>1. entry'[r] = [status |-> status, seq |-> entry[r].seq]
      BY <2>1, <2>5 DEF EntryType, Entry
    <3>2. Held(entry'[r]) = Held(entry[r]) /\ entry'[r].seq = entry[r].seq
      BY <3>1 DEF Held
    <3>3. 1..entry[r].seq \subseteq Held(entry[r]) \union dropped'[r]
      BY <2>5, <1>0 DEF EntriesTrue, DroppedGrows
    <3> QED BY <3>1, <3>2, <3>3, <2>2, <2>3, <1>k DEF EntriesTrue
  <2> QED BY <2>4, <2>5
<1>8. ASSUME NEW r \in Ids, Sweep(r) PROVE EntriesTrue'
  <2>1. entry'[r] = None /\ \A q \in Ids \ {r} : entry'[q] = entry[q]
    BY <1>8 DEF Sweep, EntryType
  <2> QED BY <2>1, <1>k DEF EntriesTrue
<1>9. ASSUME NEW r \in Ids, PublishEvent(r), entry[r] = None PROVE entry' = entry
  BY <1>9 DEF PublishEvent
<1> QED BY <1>1, <1>2, <1>3, <1>4, <1>5, <1>6, <1>7, <1>8, <1>9, Movers DEF RegistryStep, server

(* An answer on its way stays true while the registry moves on. *)
LEMMA AnswersStep ==
  ASSUME PageTypes, SeqType, JobType, EntryType, AnswerType, DroppedType,
         RunsAreNew, EntriesTrue, AnswersTrue, [Next]_vars
  PROVE  AnswersTrue'
<1>0. JobsSettle /\ DroppedGrows BY RegistryGrows
<1>k. ASSUME NEW q \in Ids, answer'[q] = answer[q], lastSeq'[q] = lastSeq[q], answer[q] # None
      PROVE  /\ answer'[q].events \subseteq 1..answer'[q].latest
             /\ \A s \in 1..answer'[q].latest :
                  s > lastSeq'[q] => s \in answer'[q].events \union dropped'[q]
             /\ answer'[q].status \in Terminal => job'[q] = answer'[q].status
  BY <1>0, <1>k DEF AnswersTrue, JobsSettle, DroppedGrows
<1>l. ASSUME NEW r \in Ids, answer'[r] = None, NEW v, lastSeq' = [lastSeq EXCEPT ![r] = v],
             answer' = [answer EXCEPT ![r] = None]
      PROVE  AnswersTrue'
  <2>1. \A q \in Ids \ {r} : answer'[q] = answer[q] /\ lastSeq'[q] = lastSeq[q]
    BY <1>l DEF AnswerType, SeqType
  <2> QED BY <2>1, <1>l, <1>k DEF AnswersTrue
<1>m. ASSUME NEW r \in Ids, lastSeq' = lastSeq, answer' = [answer EXCEPT ![r] = None]
      PROVE  AnswersTrue'
  <2>1. answer'[r] = None /\ \A q \in Ids \ {r} : answer'[q] = answer[q] /\ lastSeq'[q] = lastSeq[q]
    BY <1>m DEF AnswerType
  <2> QED BY <2>1, <1>k DEF AnswersTrue
<1>1. ASSUME NEW r \in Ids, ServerReads(r) PROVE AnswersTrue'
  <2>1. answer'[r] = Increment(r, lastSeq[r]) BY <1>1 DEF ServerReads, AnswerType
  <2>2. /\ \A q \in Ids \ {r} : answer'[q] = answer[q]
        /\ lastSeq' = lastSeq /\ job' = job /\ dropped' = dropped
    BY <1>1 DEF ServerReads, AnswerType, page, server
  <2>3. CASE entry[r] = None
    <3>1. answer'[r] = [status |-> "pending", latest |-> 0, events |-> {}]
      BY <2>1, <2>3 DEF Increment
    <3> QED BY <3>1, <2>2, <1>k DEF AnswersTrue, Terminal
  <2>4. CASE entry[r] # None
    <3>1. answer'[r] = [status |-> entry[r].status, latest |-> entry[r].seq,
                        events |-> {s \in Held(entry[r]) : s > lastSeq[r]}]
      BY <2>1, <2>4 DEF Increment
    <3>2. Held(entry[r]) \subseteq 1..entry[r].seq BY DEF Held
    <3>3. 1..entry[r].seq \subseteq Held(entry[r]) \union dropped[r] BY <2>4 DEF EntriesTrue
    <3>4. answer'[r].events \subseteq 1..answer'[r].latest BY <3>1, <3>2
    <3>5. \A s \in 1..answer'[r].latest :
            s > lastSeq'[r] => s \in answer'[r].events \union dropped'[r]
      BY <3>1, <3>3, <2>2
    <3>6. answer'[r].status \in Terminal => job'[r] = answer'[r].status
      BY <3>1, <2>2, <2>4 DEF EntriesTrue
    <3> QED BY <3>4, <3>5, <3>6, <2>2, <1>k DEF AnswersTrue
  <2> QED BY <2>3, <2>4
<1>2. ASSUME NEW r \in Ids, PollStarts(r) PROVE AnswersTrue'
  BY <1>2, <1>m DEF PollStarts
<1>3. ASSUME NEW r \in Ids, PollAnswered(r) PROVE AnswersTrue'
  <2>1. answer'[r] = None BY <1>3 DEF PollAnswered, AnswerType
  <2> QED BY <1>3, <2>1, <1>l DEF PollAnswered
<1>4. ASSUME NEW r \in Ids, PollFails(r) PROVE AnswersTrue'
  BY <1>4, <1>m DEF PollFails
<1>5. ASSUME NEW r \in Ids, LoopEnds(r) PROVE AnswersTrue'
  <2>1. answer'[r] = None BY <1>5 DEF LoopEnds, AnswerType
  <2> QED BY <1>5, <2>1, <1>l, <1>m DEF LoopEnds
<1>6. CASE UNCHANGED <<answer, lastSeq>> BY <1>6, <1>k DEF AnswersTrue
<1> QED BY <1>1, <1>2, <1>3, <1>4, <1>5, <1>6, Movers DEF AnswerStep

(* An entry counts from its run's first event on; an answer copies the count,  *)
(* and a settled run has no further event to make it stale. *)
LEMMA CountedStep ==
  ASSUME PageTypes, SeqType, JobType, EntryType, AnswerType, DroppedType, PublishedType,
         RunsAreNew, EntriesTrue, AnswersTrue, Counted, [Next]_vars
  PROVE  Counted'
<1> DEFINE Number(q) ==
      /\ lastSeq'[q] <= published'[q]
      /\ answer'[q] # None => answer'[q].latest <= published'[q]
      /\ answer'[q] # None /\ answer'[q].status \in Terminal => answer'[q].latest = published'[q]
<1>0. JobsSettle /\ PublishedGrows BY RegistryGrows, PublishedStep
<1>1. \A q \in Ids : job'[q] \in {"none", "posted"} => published'[q] = 0
  <2>1. \A q \in Ids : job'[q] \in {"none", "posted"} => job[q] \in {"none", "posted"}
    BY Movers, FreshRun DEF RegistryStep, RestartServer, RefusePost, BeginRun, PublishEvent,
                            FinishRun, Sweep, HandleRun, server, JobType, Terminal
  <2> QED BY <2>1, <1>0 DEF Counted, PublishedGrows
<1>2. \A q \in Ids : entry'[q] # None => entry'[q].seq = published'[q]
  <2>1. CASE UNCHANGED <<entry, published>> BY <2>1 DEF Counted
  <2>2. CASE RestartServer BY <2>2 DEF RestartServer
  <2>3. ASSUME NEW r \in Ids, BeginRun(r)
        PROVE  \A q \in Ids : entry'[q] # None => entry'[q].seq = published'[q]
    BY <2>3 DEF BeginRun, Posted, Entry, EntryType, Counted
  <2>4. ASSUME NEW r \in Ids, PublishEvent(r)
        PROVE  \A q \in Ids : entry'[q] # None => entry'[q].seq = published'[q]
    <3>1. published'[r] = published[r] + 1 /\ \A q \in Ids \ {r} : published'[q] = published[q]
      BY <2>4 DEF PublishEvent, PublishedType
    <3>2. CASE entry[r] = None BY <2>4, <3>1, <3>2 DEF PublishEvent, Counted
    <3>3. CASE entry[r] # None
      <4>1. entry'[r].seq = entry[r].seq + 1 /\ \A q \in Ids \ {r} : entry'[q] = entry[q]
        BY <2>4, <3>3 DEF PublishEvent, Register, Entry, EntryType
      <4> QED BY <3>1, <3>3, <4>1 DEF Counted
    <3> QED BY <3>2, <3>3
  <2>5. ASSUME NEW r \in Ids, FinishRun(r)
        PROVE  \A q \in Ids : entry'[q] # None => entry'[q].seq = published'[q]
    BY <2>5 DEF FinishRun, Entry, EntryType, Counted
  <2>6. ASSUME NEW r \in Ids, Sweep(r)
        PROVE  \A q \in Ids : entry'[q] # None => entry'[q].seq = published'[q]
    BY <2>6 DEF Sweep, EntryType, Counted
  <2> QED BY <2>1, <2>2, <2>3, <2>4, <2>5, <2>6, Movers
          DEF RegistryStep, HandleRun, RefusePost, server
<1>3. \A q \in Ids : Number(q)
  <2>k. ASSUME NEW q \in Ids, lastSeq'[q] = lastSeq[q], answer'[q] = answer[q] \/ answer'[q] = None
        PROVE  Number(q)
    <3>1. published[q] \in Nat /\ published'[q] \in Nat /\ lastSeq[q] \in Nat
      BY PublishedStep, ObserverAssumption DEF PublishedType, SeqType
    <3>2. published[q] <= published'[q] /\ (job[q] \in Terminal => published'[q] = published[q])
      BY <1>0 DEF PublishedGrows, Terminal
    <3>3. lastSeq'[q] <= published'[q] BY <2>k, <3>1, <3>2 DEF Counted
    <3>4. answer[q] # None =>
            /\ answer[q].latest \in Nat /\ answer[q].latest <= published[q]
            /\ answer[q].status \in Terminal => job[q] \in Terminal /\ answer[q].latest = published[q]
      BY ObserverAssumption DEF AnswerType, AnswersTrue, Counted
    <3> QED BY <2>k, <3>1, <3>2, <3>3, <3>4
  <2>1. ASSUME NEW r \in Ids, ServerReads(r) PROVE \A q \in Ids : Number(q)
    <3>1. UNCHANGED <<lastSeq, entry, published>> BY <2>1 DEF ServerReads, page, server
    <3>2. answer'[r] = Increment(r, lastSeq[r]) BY <2>1 DEF ServerReads, AnswerType
    <3>3. \A q \in Ids \ {r} : answer'[q] = answer[q] BY <2>1 DEF ServerReads, AnswerType
    <3>4. published[r] \in Nat BY ObserverAssumption DEF PublishedType
    <3>5. /\ answer'[r].latest <= published[r]
          /\ answer'[r].status \in Terminal => answer'[r].latest = published[r]
      <4>1. CASE entry[r] = None BY <3>2, <3>4, <4>1 DEF Increment, Terminal
      <4>2. CASE entry[r] # None
        <5>1. answer'[r].latest = entry[r].seq BY <3>2, <4>2 DEF Increment
        <5> QED BY <3>4, <4>2, <5>1 DEF Counted
      <4> QED BY <4>1, <4>2
    <3>6. Number(r) BY <3>1, <3>5 DEF Counted
    <3> QED BY <3>1, <3>3, <3>6, <2>k
  <2>2. ASSUME NEW r \in Ids, PollStarts(r) \/ PollFails(r) \/ LoopEnds(r)
        PROVE  \A q \in Ids : Number(q)
    <3>1. /\ \A q \in Ids : answer'[q] = answer[q] \/ answer'[q] = None
          /\ answer'[r] = None
          /\ \A q \in Ids : lastSeq'[q] = lastSeq[q] \/ (q = r /\ lastSeq'[q] = 0)
      BY <2>2 DEF PollStarts, PollFails, LoopEnds, AnswerType, SeqType
    <3>2. published'[r] \in Nat BY PublishedStep, ObserverAssumption DEF PublishedType
    <3>3. lastSeq'[r] = 0 => Number(r) BY <3>1, <3>2
    <3> QED BY <3>1, <3>3, <2>k
  <2>3. ASSUME NEW r \in Ids, PollAnswered(r) PROVE \A q \in Ids : Number(q)
    <3>1. /\ answer[r] # None /\ answer'[r] = None /\ published' = published
          /\ \A q \in Ids \ {r} : answer'[q] = answer[q] /\ lastSeq'[q] = lastSeq[q]
          /\ lastSeq'[r] = IF answer[r].latest > lastSeq[r] THEN answer[r].latest ELSE lastSeq[r]
      BY <2>3 DEF PollAnswered, AnswerType, SeqType, server
    <3>2. Number(r) BY <3>1 DEF Counted
    <3> QED BY <3>1, <3>2, <2>k
  <2>4. CASE UNCHANGED <<answer, lastSeq>> BY <2>4, <2>k
  <2> QED BY <2>1, <2>2, <2>3, <2>4, Movers DEF AnswerStep
<1> QED BY <1>1, <1>2, <1>3 DEF Counted

-----------------------------------------------------------------------------
(* The page. *)

(* Nothing names a run before HandleRun does. *)
LEMMA RunsStep ==
  ASSUME PageTypes, PageTypes', JobType, SeqType, RunsAreNew, PageCoherent, PanelIsTrue,
         [Next]_vars
  PROVE  RunsAreNew'
<1> USE ObserverAssumption
<1>1. SUFFICES ASSUME NEW q \in Ids, q > started'
      PROVE  /\ job'[q] = "none" /\ loop'[q] = "none"
             /\ q \notin stopped' \union late' /\ lastSeq'[q] = 0
  BY DEF RunsAreNew
<1>2. started' >= started /\ started \in Nat /\ started' \in Nat
  <2>1. started' \in {started, started + 1}
    BY DEF Next, vars, page, server, HandleFile, HandleRun, Unmount, PostReturns, PostSucceeds,
       PostRefused, PostAborted, RestartServer, Backend, RefusePost, BeginRun, PublishEvent,
       FinishRun, Sweep, ServerReads, Observer, PollStarts, PollAnswered, PollFails, PollGivesUp,
       LoopEnds, DeadlinePasses
  <2>2. started \in 0..Runs BY DEF PageTypes
  <2> QED BY <2>1, <2>2
<1>3. /\ q > started /\ job[q] = "none" /\ loop[q] = "none"
      /\ q \notin stopped \union late /\ lastSeq[q] = 0
  BY <1>1, <1>2 DEF RunsAreNew, Ids
<1>4. q # current
  <2>1. current # None => current <= started BY DEF PageCoherent
  <2>2. q # None BY DEF Ids
  <2> QED BY <1>2, <1>3, <2>1, <2>2 DEF Ids
<1>5. ASSUME NEW r \in Ids, job[r] # "none" \/ loop[r] # "none" PROVE r # q
  BY <1>3, <1>5
<1>6. CASE HandleFile BY <1>3, <1>4, <1>6 DEF HandleFile, ClearRunOutput, server
<1>7. CASE HandleRun
  <2>1. q # started + 1 BY <1>1, <1>7 DEF HandleRun
  <2> QED BY <1>3, <1>4, <1>7, <2>1 DEF HandleRun, ClearRunOutput, PageTypes, JobType
<1>8. CASE Unmount BY <1>3, <1>4, <1>8 DEF Unmount, server
<1>9. CASE PostSucceeds BY <1>3, <1>9 DEF PostSucceeds, server
<1>10. CASE PostRefused
  <2>1. post = current BY <1>10 DEF PostRefused, PageCoherent, PanelIsTrue
  <2> QED BY <1>3, <1>4, <1>10, <2>1 DEF PostRefused, server
<1>11. CASE PostAborted BY <1>3, <1>11 DEF PostAborted, server
<1>12. CASE RestartServer BY <1>3, <1>12 DEF RestartServer, page
<1>13. ASSUME NEW r \in Ids, RefusePost(r) PROVE /\ job'[q] = "none" /\ UNCHANGED page
  BY <1>3, <1>5, <1>13 DEF RefusePost, Posted, JobType
<1>14. ASSUME NEW r \in Ids, BeginRun(r) PROVE /\ job'[q] = "none" /\ UNCHANGED page
  BY <1>3, <1>5, <1>14 DEF BeginRun, Posted, JobType
<1>15. ASSUME NEW r \in Ids, FinishRun(r) PROVE /\ job'[q] = "none" /\ UNCHANGED page
  BY <1>3, <1>5, <1>15 DEF FinishRun, JobType
<1>16. ASSUME NEW r \in Ids, PublishEvent(r) \/ Sweep(r) \/ ServerReads(r)
       PROVE  /\ job'[q] = "none" /\ UNCHANGED page
  BY <1>3, <1>16 DEF PublishEvent, Sweep, ServerReads, server
<1>17. ASSUME NEW r \in Ids, PollStarts(r)
       PROVE  /\ job'[q] = "none" /\ loop'[q] = "none"
              /\ q \notin stopped' \union late' /\ lastSeq'[q] = 0
  BY <1>3, <1>5, <1>17 DEF PollStarts, PageTypes, server
<1>18. ASSUME NEW r \in Ids, PollAnswered(r)
       PROVE  /\ job'[q] = "none" /\ loop'[q] = "none"
              /\ q \notin stopped' \union late' /\ lastSeq'[q] = 0
  BY <1>3, <1>5, <1>18 DEF PollAnswered, PageTypes, SeqType, server
<1>19. ASSUME NEW r \in Ids, PollFails(r)
       PROVE  /\ job'[q] = "none" /\ loop'[q] = "none"
              /\ q \notin stopped' \union late' /\ lastSeq'[q] = 0
  BY <1>3, <1>5, <1>19 DEF PollFails, PageTypes, server
<1>20. ASSUME NEW r \in Ids, PollGivesUp(r)
       PROVE  /\ job'[q] = "none" /\ loop'[q] = "none"
              /\ q \notin stopped' \union late' /\ lastSeq'[q] = 0
  BY <1>3, <1>5, <1>20 DEF PollGivesUp, PageTypes, server
<1>21. ASSUME NEW r \in Ids, LoopEnds(r)
       PROVE  /\ job'[q] = "none" /\ loop'[q] = "none"
              /\ q \notin stopped' \union late' /\ lastSeq'[q] = 0
  BY <1>3, <1>5, <1>21 DEF LoopEnds, PageTypes, SeqType, server
<1>22. ASSUME NEW r \in Ids, DeadlinePasses(r)
       PROVE  /\ job'[q] = "none" /\ loop'[q] = "none"
              /\ q \notin stopped' \union late' /\ lastSeq'[q] = 0
  BY <1>3, <1>5, <1>22 DEF DeadlinePasses, server
<1>23. CASE UNCHANGED vars BY <1>3, <1>23 DEF vars, page, server
<1>24. CASE \E r \in Ids : Backend(r)
  BY <1>3, <1>13, <1>14, <1>15, <1>16, <1>24 DEF Backend, page
<1>25. CASE \E r \in Ids : Observer(r)
  BY <1>17, <1>18, <1>19, <1>20, <1>21, <1>25 DEF Observer
<1> QED BY <1>6, <1>7, <1>8, <1>9, <1>10, <1>11, <1>12, <1>22, <1>23, <1>24, <1>25
        DEF Next, PostReturns

(* An observer that watches belongs to the panel, and to the POST if one is out. *)
LEMMA WatchedPanel ==
  ASSUME PageTypes, PageCoherent, PanelIsTrue, NEW r \in Ids, Watched(r)
  PROVE  /\ panel # None /\ panel.run = r /\ current = r
         /\ panel.status \notin Terminal
         /\ post # None => post = r
<1>1. r # None /\ r \notin stopped /\ current = r BY ObserverAssumption DEF Watched, Ids
<1>2. panel # None BY <1>1 DEF PageCoherent
<1>3. panel.run = r BY <1>1, <1>2 DEF PanelIsTrue
<1> QED BY <1>1, <1>2, <1>3 DEF PageCoherent

(* POST, observer and panel go together. *)
LEMMA PageStep ==
  ASSUME PageTypes, PanelType, AnswerType, JobType, DroppedType, RunsAreNew, PageCoherent,
         PanelIsTrue, [Next]_vars
  PROVE  PageCoherent'
<1> USE DEF PageCoherent
<1>0. JobsSettle BY RegistryGrows
<1>p. ASSUME UNCHANGED page PROVE PageCoherent'
  <2>1. result # None => job'[result] = "succeeded"
    BY <1>0 DEF JobsSettle, PageTypes, Terminal
  <2> QED BY <1>p, <2>1 DEF page
<1>1. CASE HandleFile
  BY <1>1 DEF HandleFile, ClearRunOutput
<1>2. CASE HandleRun
  <2>1. started + 1 \in Ids /\ started + 1 \notin stopped \union late BY <1>2, FreshRun
  <2>2. panel' = [run |-> started + 1, events |-> {}, status |-> "pending"]
    BY <1>2 DEF HandleRun
  <2>3. panel' # None
    <3>1. panel' \in Panels BY <2>1, <2>2 DEF Panels, Statuses
    <3> QED BY <3>1, ObserverAssumption
  <2>4. /\ post' = started + 1 /\ current' = started + 1 /\ started' = started + 1
        /\ result' = None /\ notice' = "" /\ late' = late /\ mounted /\ mounted' = mounted
    BY <1>2 DEF HandleRun, ClearRunOutput
  <2>5. started + 1 <= started + 1 BY <1>2, FreshId
  <2>6. PageCoherent' BY <2>1, <2>2, <2>3, <2>4, <2>5 DEF Terminal
  <2> QED BY <2>6
<1>3. CASE Unmount
  BY <1>3 DEF Unmount
<1>4. CASE PostSucceeds
  BY <1>4 DEF PostSucceeds, server
<1>5. CASE PostRefused
  <2>1. panel # None /\ panel.run = post /\ post = current /\ result = None
    BY <1>5 DEF PostRefused, PanelIsTrue
  <2>2. CASE UNCHANGED <<panel, stopped>>
    BY <1>5, <2>1, <2>2 DEF PostRefused, server
  <2>3. CASE panel' = [panel EXCEPT !.status = "failed"] /\ stopped' = stopped \union {post}
    <3>1. panel'.run = post BY <2>1, <2>3 DEF PanelType, Panels
    <3>2. post' = None /\ current' = current /\ current \in stopped' /\ started' = started
          /\ result' = None
      BY <1>5, <2>1, <2>3 DEF PostRefused
    <3> QED BY <3>1, <3>2, <2>1, <2>3
  <2> QED BY <1>5, <2>2, <2>3 DEF PostRefused
<1>6. CASE PostAborted
  BY <1>6 DEF PostAborted, server
<1>7. CASE RestartServer
  BY <1>7, <1>p DEF RestartServer
<1>8. ASSUME NEW r \in Ids, Backend(r) PROVE PageCoherent'
  BY <1>8, <1>p DEF Backend, RefusePost, BeginRun, PublishEvent, FinishRun, Sweep, ServerReads
<1>9. ASSUME NEW r \in Ids, PollStarts(r) PROVE PageCoherent'
  BY <1>9 DEF PollStarts, server
<1>10. ASSUME NEW r \in Ids, PollAnswered(r) PROVE PageCoherent'
  <2>1. /\ panel # None /\ panel.run = r /\ current = r
        /\ post # None => post = r
    BY <1>10, WatchedPanel DEF PollAnswered
  <2>2. panel' = Merged(r, answer[r]) /\ answer[r] # None BY <1>10 DEF PollAnswered
  <2>3. panel'.run = r /\ panel'.status = answer[r].status BY <2>2 DEF Merged
  <2>4. panel' # None BY <2>2, MergedPanel, ObserverAssumption
  <2>5. stopped' = (IF answer[r].status \in Terminal THEN stopped \union {r} ELSE stopped)
    BY <1>10 DEF PollAnswered
  <2>6. /\ post' = post /\ current' = current /\ started' = started /\ result' = result
        /\ job' = job /\ late' = late /\ notice' = "" /\ mounted' = mounted
    BY <1>10 DEF PollAnswered, server
  <2>7. post' # None => /\ panel' # None /\ panel'.run = post' /\ mounted'
                        /\ result' = None /\ post' \notin late' /\ notice' = ""
    BY <2>1, <2>3, <2>4, <2>6
  <2>8. current' # None => current' <= started' BY <2>6
  <2>9. panel'.status \in Terminal => panel'.run \in stopped' BY <2>3, <2>5
  <2>10. result' # None => job'[result'] = "succeeded" BY <2>6
  <2> QED BY <2>4, <2>7, <2>8, <2>9, <2>10
<1>11. ASSUME NEW r \in Ids, PollFails(r) PROVE PageCoherent'
  BY <1>11 DEF PollFails, server
<1>12. ASSUME NEW r \in Ids, PollGivesUp(r) PROVE PageCoherent'
  <2>1. current = r /\ post = None
    BY <1>12, WatchedPanel DEF PollGivesUp
  <2> QED BY <1>12, <2>1 DEF PollGivesUp, server
<1>13. ASSUME NEW r \in Ids, LoopEnds(r) PROVE PageCoherent'
  BY <1>13 DEF LoopEnds, server
<1>14. ASSUME NEW r \in Ids, DeadlinePasses(r) PROVE PageCoherent'
  BY <1>14 DEF DeadlinePasses, server
<1>15. CASE UNCHANGED vars BY <1>15, <1>p DEF vars
<1> QED BY <1>1, <1>2, <1>3, <1>4, <1>5, <1>6, <1>7, <1>8, <1>9, <1>10, <1>11, <1>12, <1>13,
          <1>14, <1>15 DEF Next, PostReturns, Observer
(* What is merged was true and still is. *)
LEMMA PanelTrueStep ==
  ASSUME PageTypes, PanelType, PanelType', SeqType, JobType, AnswerType, DroppedType,
         PublishedType, RunsAreNew, PageCoherent, PageCoherent', AnswersTrue, Counted,
         PanelIsTrue, [Next]_vars
  PROVE  PanelIsTrue'
<1>0. JobsSettle /\ DroppedGrows /\ PublishedGrows BY RegistryGrows, PublishedStep
<1>p. ASSUME panel' = panel, panel # None, current' = current, result' = result,
             lastSeq'[panel.run] = lastSeq[panel.run]
      PROVE  PanelIsTrue'
  <2>1. panel.run \in Ids BY <1>p DEF PanelType, Panels
  <2>2. /\ current = panel.run
        /\ 1..lastSeq[panel.run] \subseteq panel.events \union dropped[panel.run]
        /\ panel.events \subseteq 1..lastSeq[panel.run]
        /\ panel.status = "succeeded" =>
             job[panel.run] = "succeeded" /\ lastSeq[panel.run] = published[panel.run]
        /\ panel.status = "failed" => job[panel.run] \in {"failed", "refused"}
        /\ result # None => result = panel.run /\ panel.status # "failed"
    BY <1>p DEF PanelIsTrue
  <2>3. /\ panel.status = "succeeded" =>
             job'[panel.run] = "succeeded" /\ lastSeq'[panel.run] = published'[panel.run]
        /\ panel.status = "failed" => job'[panel.run] \in {"failed", "refused"}
    BY <2>1, <2>2, <1>0, <1>p DEF JobsSettle, PublishedGrows, Terminal
  <2>4. dropped[panel.run] \subseteq dropped'[panel.run] BY <2>1, <1>0 DEF DroppedGrows
  <2> QED BY <1>p, <2>2, <2>3, <2>4 DEF PanelIsTrue
<1>n. ASSUME panel' = None PROVE PanelIsTrue' BY <1>n DEF PanelIsTrue
<1>u. ASSUME UNCHANGED <<panel, current, result, lastSeq>> PROVE PanelIsTrue'
  BY <1>u, <1>p, <1>n
<1>1. CASE HandleFile BY <1>1, <1>n DEF HandleFile
<1>2. CASE HandleRun
  <2>1. lastSeq[started + 1] = 0 BY <1>2, FreshRun
  <2>2. panel' = [run |-> started + 1, events |-> {}, status |-> "pending"]
    BY <1>2 DEF HandleRun
  <2>3. current' = started + 1 /\ result' = None /\ lastSeq' = lastSeq
    BY <1>2 DEF HandleRun, ClearRunOutput
  <2>4. 1..0 = {} OBVIOUS
  <2> QED BY <2>1, <2>2, <2>3, <2>4 DEF PanelIsTrue
<1>3. CASE Unmount BY <1>3, <1>n DEF Unmount
<1>4. CASE PostSucceeds
  <2>1. /\ panel # None /\ panel.run = post /\ result' = post /\ job[post] = "succeeded"
        /\ UNCHANGED <<panel, current, lastSeq, job, dropped, published>>
    BY <1>4 DEF PostSucceeds, PageCoherent, server
  <2>2. panel.status # "failed" BY <2>1 DEF PanelIsTrue
  <2> QED BY <2>1, <2>2 DEF PanelIsTrue
<1>5. CASE PostRefused
  <2>1. /\ panel # None /\ panel.run = post /\ result = None /\ post # None
        /\ UNCHANGED <<current, result, lastSeq, job, dropped, published>>
    BY <1>5 DEF PostRefused, PageCoherent, server
  <2>2. CASE UNCHANGED panel BY <2>1, <2>2, <1>p
  <2>3. CASE panel' = [panel EXCEPT !.status = "failed"] /\ job[post] \in {"failed", "refused"}
    <3>1. /\ panel'.run = panel.run /\ panel'.events = panel.events /\ panel'.status = "failed"
      BY <2>1, <2>3 DEF PanelType, Panels
    <3> QED BY <2>1, <2>3, <3>1 DEF PanelIsTrue
  <2>4. UNCHANGED panel \/ (panel' = [panel EXCEPT !.status = "failed"]
                            /\ job[post] \in {"failed", "refused"})
    BY <1>5 DEF PostRefused, Authoritative, ErrorReplies
  <2> QED BY <2>2, <2>3, <2>4
<1>6. CASE PostAborted BY <1>6, <1>u DEF PostAborted
<1>7. CASE RestartServer BY <1>7, <1>u DEF RestartServer, page
<1>8. ASSUME NEW r \in Ids, Backend(r) PROVE PanelIsTrue'
  BY <1>8, <1>u DEF Backend, RefusePost, BeginRun, PublishEvent, FinishRun, Sweep, ServerReads, page
<1>9. ASSUME NEW r \in Ids, PollStarts(r) PROVE PanelIsTrue'
  BY <1>9, <1>u DEF PollStarts
<1>10. ASSUME NEW r \in Ids, PollAnswered(r) PROVE PanelIsTrue'
  <2> DEFINE a == answer[r]
  <2>1. a # None /\ panel # None /\ panel.run = r /\ current = r
    BY <1>10, WatchedPanel DEF PollAnswered
  <2>2. panel' = [run |-> r, status |-> a.status, events |-> panel.events \union a.events]
    BY <1>10, <2>1 DEF PollAnswered, Merged
  <2>3. /\ lastSeq' = [lastSeq EXCEPT ![r] = IF a.latest > @ THEN a.latest ELSE @]
        /\ UNCHANGED <<current, result, job, dropped, published>>
    BY <1>10 DEF PollAnswered, server
  <2>4. lastSeq[r] \in Nat /\ a.latest \in Nat
    BY <2>1, ObserverAssumption DEF SeqType, AnswerType
  <2>5. lastSeq'[r] = IF a.latest > lastSeq[r] THEN a.latest ELSE lastSeq[r]
    BY <2>3 DEF SeqType
  <2>6. /\ 1..lastSeq[r] \subseteq panel.events \union dropped[r]
        /\ panel.events \subseteq 1..lastSeq[r]
        /\ result # None => result = r
    BY <2>1 DEF PanelIsTrue
  <2>7. /\ a.events \subseteq 1..a.latest
        /\ \A s \in 1..a.latest : s > lastSeq[r] => s \in a.events \union dropped[r]
        /\ a.status \in Terminal => job[r] = a.status
    BY <2>1 DEF AnswersTrue
  <2>8. 1..lastSeq'[r] \subseteq (panel.events \union a.events) \union dropped[r]
    <3> SUFFICES ASSUME NEW s \in 1..lastSeq'[r]
                 PROVE  s \in panel.events \union a.events \union dropped[r]
      OBVIOUS
    <3>1. CASE s <= lastSeq[r] BY <3>1, <2>4, <2>5, <2>6
    <3>2. CASE s > lastSeq[r]
      <4>1. s \in 1..a.latest BY <3>2, <2>4, <2>5
      <4> QED BY <4>1, <3>2, <2>7
    <3> QED BY <3>1, <3>2, <2>4, <2>5
  <2>9. panel.events \union a.events \subseteq 1..lastSeq'[r]
    BY <2>4, <2>5, <2>6, <2>7
  <2>10. result # None => a.status # "failed"
    BY <2>6, <2>7 DEF PageCoherent, Terminal
  <2>11. /\ a.status = "succeeded" => job[r] = "succeeded"
         /\ a.status = "failed" => job[r] = "failed"
    BY <2>7 DEF Terminal
  <2>12. a.status = "succeeded" => lastSeq'[r] = published[r]
    <3>1. published[r] \in Nat /\ lastSeq[r] <= published[r]
      BY ObserverAssumption DEF PublishedType, Counted
    <3>2. a.status = "succeeded" => a.latest = published[r] BY <2>1 DEF Counted, Terminal
    <3> QED BY <2>4, <2>5, <3>1, <3>2
  <2> QED BY <2>1, <2>2, <2>3, <2>6, <2>8, <2>9, <2>10, <2>11, <2>12 DEF PanelIsTrue
<1>11. ASSUME NEW r \in Ids, PollFails(r) PROVE PanelIsTrue'
  BY <1>11, <1>u DEF PollFails
<1>12. ASSUME NEW r \in Ids, PollGivesUp(r) PROVE PanelIsTrue'
  BY <1>12, <1>u DEF PollGivesUp
<1>13. ASSUME NEW r \in Ids, LoopEnds(r) PROVE PanelIsTrue'
  <2>1. UNCHANGED <<panel, current, result>> BY <1>13 DEF LoopEnds
  <2>2. panel # None => lastSeq'[panel.run] = lastSeq[panel.run]
    BY <1>13 DEF LoopEnds, PanelIsTrue, PanelType, Panels, SeqType
  <2> QED BY <2>1, <2>2, <1>p, <1>n
<1>14. ASSUME NEW r \in Ids, DeadlinePasses(r) PROVE PanelIsTrue'
  BY <1>14, <1>u DEF DeadlinePasses
<1>15. CASE UNCHANGED vars BY <1>15, <1>u DEF vars, page
<1> QED BY <1>1, <1>2, <1>3, <1>4, <1>5, <1>6, <1>7, <1>8, <1>9, <1>10, <1>11, <1>12, <1>13,
          <1>14, <1>15 DEF Next, PostReturns, Observer

(* Who stops an observer settles its panel or says so. *)
LEMMA SilentStep ==
  ASSUME PageTypes, PanelType, RunsAreNew, PageCoherent, PanelIsTrue, NeverSilent, [Next]_vars
  PROVE  NeverSilent'
<1> USE DEF NeverSilent
<1>u. ASSUME UNCHANGED <<panel, stopped, notice, mounted>> PROVE NeverSilent' BY <1>u
<1>1. CASE HandleFile BY <1>1 DEF HandleFile
<1>2. CASE HandleRun
  <2>1. started + 1 \notin stopped /\ started + 1 \in Ids BY <1>2, FreshRun
  <2>2. started \in 0..Runs /\ (current # None => current <= started)
    BY DEF PageTypes, PageCoherent
  <2>3. current # None => current # started + 1 BY <2>1, <2>2, ObserverAssumption DEF Ids
  <2>4. stopped' = stopped \union ({current} \ {None}) /\ panel'.run = started + 1
    BY <1>2 DEF HandleRun, ClearRunOutput
  <2>5. panel'.run \notin stopped' BY <2>1, <2>3, <2>4
  <2> QED BY <2>5
<1>3. CASE Unmount BY <1>3 DEF Unmount
<1>4. CASE PostSucceeds BY <1>4, <1>u DEF PostSucceeds
<1>5. CASE PostRefused
  <2>1. panel # None /\ mounted /\ notice = "" BY <1>5 DEF PostRefused, PageCoherent
  <2>2. CASE UNCHANGED <<panel, stopped>>
    <3>1. panel.run \in stopped => panel.status \in Terminal BY <2>1
    <3> QED BY <2>2, <3>1
  <2>3. CASE panel' = [panel EXCEPT !.status = "failed"]
    <3>1. panel'.status = "failed" BY <2>1, <2>3 DEF PanelType, Panels
    <3> QED BY <3>1 DEF Terminal
  <2> QED BY <1>5, <2>2, <2>3 DEF PostRefused
<1>6. CASE PostAborted BY <1>6, <1>u DEF PostAborted
<1>7. CASE RestartServer BY <1>7, <1>u DEF RestartServer, page
<1>8. ASSUME NEW r \in Ids, Backend(r) PROVE NeverSilent'
  BY <1>8, <1>u DEF Backend, RefusePost, BeginRun, PublishEvent, FinishRun, Sweep, ServerReads, page
<1>9. ASSUME NEW r \in Ids, PollStarts(r) PROVE NeverSilent'
  BY <1>9, <1>u DEF PollStarts
<1>10. ASSUME NEW r \in Ids, PollAnswered(r) PROVE NeverSilent'
  <2>1. panel'.run = r /\ panel'.status = answer[r].status BY <1>10 DEF PollAnswered, Merged
  <2>2. r \in stopped' => answer[r].status \in Terminal BY <1>10 DEF PollAnswered, Watched
  <2> QED BY <2>1, <2>2
<1>11. ASSUME NEW r \in Ids, PollFails(r) PROVE NeverSilent'
  <2>1. panel.run = r /\ r \notin stopped /\ UNCHANGED <<panel, stopped>>
    BY <1>11, WatchedPanel DEF PollFails, Watched
  <2> QED BY <2>1
<1>12. ASSUME NEW r \in Ids, PollGivesUp(r) PROVE NeverSilent'
  BY <1>12 DEF PollGivesUp
<1>13. ASSUME NEW r \in Ids, LoopEnds(r) PROVE NeverSilent'
  BY <1>13, <1>u DEF LoopEnds
<1>14. ASSUME NEW r \in Ids, DeadlinePasses(r) PROVE NeverSilent'
  BY <1>14, <1>u DEF DeadlinePasses
<1>15. CASE UNCHANGED vars BY <1>15, <1>u DEF vars, page
<1> QED BY <1>1, <1>2, <1>3, <1>4, <1>5, <1>6, <1>7, <1>8, <1>9, <1>10, <1>11, <1>12, <1>13,
          <1>14, <1>15 DEF Next, PostReturns, Observer

(* A settled panel has a stopped observer and a settled job. *)
LEMMA SettledStep ==
  ASSUME PageTypes, PanelType, RunsAreNew, PageCoherent, PanelIsTrue, [Next]_vars,
         panel # None, panel.status \in Terminal, panel' # None, panel'.run = panel.run
  PROVE  panel'.status = panel.status
<1>1. panel.run \in stopped BY DEF PageCoherent
<1>2. CASE HandleFile BY <1>2 DEF HandleFile
<1>3. CASE HandleRun
  <2>1. started + 1 \notin stopped BY <1>3, FreshRun
  <2>2. panel'.run = started + 1 BY <1>3 DEF HandleRun
  <2> QED BY <1>1, <2>1, <2>2
<1>4. CASE Unmount BY <1>4 DEF Unmount
<1>5. CASE PostRefused
  <2>1. panel.run = post BY <1>5 DEF PostRefused, PageCoherent
  <2>2. CASE UNCHANGED panel BY <2>2
  <2>3. CASE panel' = [panel EXCEPT !.status = "failed"] /\ job[post] \in {"failed", "refused"}
    <3>1. panel.status # "succeeded" BY <2>1, <2>3 DEF PanelIsTrue
    <3>2. panel.status = "failed" BY <3>1 DEF Terminal
    <3> QED BY <2>3, <3>2 DEF PanelType, Panels
  <2>4. UNCHANGED panel \/ (panel' = [panel EXCEPT !.status = "failed"]
                            /\ job[post] \in {"failed", "refused"})
    BY <1>5 DEF PostRefused, Authoritative, ErrorReplies
  <2> QED BY <2>2, <2>3, <2>4
<1>6. ASSUME NEW r \in Ids, PollAnswered(r) PROVE FALSE
  BY <1>6, WatchedPanel DEF PollAnswered
<1>7. CASE UNCHANGED panel BY <1>7
<1> QED BY <1>2, <1>3, <1>4, <1>5, <1>6, <1>7, Movers DEF PanelStep

-----------------------------------------------------------------------------
(* Together. *)

(* The page before its first run. *)
LEMMA IndInvInit == Init => IndInv
<1> SUFFICES ASSUME Init PROVE IndInv OBVIOUS
<1>0. 0 \in 0..Runs /\ 0 \in 0..MaxEvents /\ 0 <= 0 BY ObserverAssumption
<1> USE DEF Init
<1>1. PageTypes /\ PanelType BY <1>0 DEF PageTypes, PanelType
<1>2. SeqType BY <1>0 DEF SeqType
<1>3. JobType BY DEF JobType
<1>4. EntryType /\ AnswerType BY DEF EntryType, AnswerType
<1>5. DroppedType /\ PublishedType BY <1>0 DEF DroppedType, PublishedType
<1>6. EntriesTrue BY DEF EntriesTrue
<1>7. AnswersTrue BY DEF AnswersTrue
<1>8. RunsAreNew BY DEF RunsAreNew
<1>9. PageCoherent BY DEF PageCoherent
<1>10. PanelIsTrue /\ NeverSilent BY DEF PanelIsTrue, NeverSilent
<1>11. Counted
  <2>1. \A r \in Ids : entry[r] = None /\ answer[r] = None OBVIOUS
  <2>2. \A r \in Ids : published[r] = 0 /\ lastSeq[r] = 0 OBVIOUS
  <2> HIDE DEF Init
  <2> QED BY <1>0, <2>1, <2>2 DEF Counted
<1> QED BY <1>1, <1>2, <1>3, <1>4, <1>5, <1>6, <1>7, <1>8, <1>9, <1>10, <1>11, TypeParts DEF IndInv

(* The parts together. *)
LEMMA IndInvStep == IndInv /\ [Next]_vars => IndInv'
<1> SUFFICES ASSUME IndInv, [Next]_vars PROVE IndInv' OBVIOUS
<1>1. /\ PageTypes /\ PanelType /\ SeqType /\ JobType /\ EntryType /\ AnswerType /\ DroppedType
      /\ PublishedType /\ EntriesTrue /\ AnswersTrue /\ Counted /\ RunsAreNew /\ PageCoherent
      /\ PanelIsTrue /\ NeverSilent
  BY TypeParts DEF IndInv
<1>2. PageTypes' BY <1>1, PageTypesStep
<1>3. PanelType' BY <1>1, PanelTypeStep
<1>4. SeqType' BY <1>1, SeqTypeStep
<1>5. JobType' /\ EntryType' /\ DroppedType' /\ PublishedType'
  BY <1>1, ServerTypesStep, PublishedStep
<1>6. AnswerType' BY <1>1, AnswerTypeStep
<1>7. TypeOK'
  BY <1>2, <1>3, <1>4, <1>5, <1>6
     DEF TypeOK, PageTypes, PanelType, SeqType, JobType, EntryType, AnswerType, DroppedType,
         PublishedType
<1>8. EntriesTrue' BY <1>1, EntriesStep
<1>9. AnswersTrue' BY <1>1, AnswersStep
<1>10. RunsAreNew' BY <1>1, <1>2, RunsStep
<1>11. PageCoherent' BY <1>1, PageStep
<1>12. PanelIsTrue' BY <1>1, <1>3, <1>11, PanelTrueStep
<1>13. NeverSilent' BY <1>1, SilentStep
<1>14. Counted' BY <1>1, CountedStep
<1> QED BY <1>7, <1>8, <1>9, <1>10, <1>11, <1>12, <1>13, <1>14 DEF IndInv

(* The inductive invariant: what registry, answers and page say of one another. *)
THEOREM Invariance == Spec => []IndInv
  BY IndInvInit, IndInvStep, PTL DEF Spec

(* The types of the page and of what it talks to; event numbers stay in bounds. *)
THEOREM TypeCorrect == Spec => []TypeOK
<1>1. IndInv => TypeOK BY DEF IndInv
<1> QED BY <1>1, Invariance, PTL

(* Whatever is lost, late, swept or restarted, the panel shows what the run it *)
(* names did, every event that the window still held when it was asked, and a  *)
(* success only together with the run's last event.                            *)
THEOREM PanelsAreTrue == Spec => []PanelIsTrue
<1>1. IndInv => PanelIsTrue BY DEF IndInv
<1> QED BY <1>1, Invariance, PTL

(* A page that stopped asking says so or shows a settled run. *)
THEOREM NoPanelIsSilent == Spec => []NeverSilent
<1>1. IndInv => NeverSilent BY DEF IndInv
<1> QED BY <1>1, Invariance, PTL

(* No answer takes a settled panel back. *)
THEOREM SettledPanelsStay == Spec => SettledStays
<1>1. IndInv /\ [Next]_vars =>
        [panel # None /\ panel.status \in Terminal /\ panel' # None /\ panel'.run = panel.run
           => panel'.status = panel.status]_vars
  BY SettledStep, TypeParts DEF IndInv
<1> QED BY <1>1, Invariance, PTL DEF Spec, SettledStays
=============================================================================
