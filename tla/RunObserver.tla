---------------------------- MODULE RunObserver ----------------------------
(* The page that starts runs and watches them (frontend/src/App.tsx) against *)
(* the progress registry of the backend (run_progress.py): one POST, a       *)
(* single-flight polling loop per run, late and lost answers, a server that  *)
(* sweeps or restarts, a user who stops waiting, chooses another file or      *)
(* closes the page.                                                          *)
EXTENDS Naturals, FiniteSets

CONSTANTS
    Runs,       \* how many runs a page starts
    Window,     \* MAX_EVENTS_PER_RUN
    MaxEvents,  \* bound: events of one run
    None

Ids == 1..Runs
Terminal == {"succeeded", "failed"}
Statuses == {"pending", "running"} \union Terminal
Panels == [run : Ids, events : SUBSET (1..MaxEvents), status : Statuses]

ASSUME ObserverAssumption ==
    /\ Runs \in Nat /\ Window \in Nat \ {0} /\ MaxEvents \in Nat
    /\ None \notin Nat /\ None \notin Panels

VARIABLES
    started,  \* runs begun by this page; run ids are never used twice
    post,     \* activeGenerationRef: the run whose POST is out, or None
    current,  \* runObserverRef: the run whose observer is the page's, or None
    loop,     \* of each observer: where its polling loop is
    stopped,  \* the observers whose `stopped` is set
    late,     \* the observers for whom Date.now() reached the deadline
    lastSeq,  \* of each observer: the highest event number it has seen
    panel,    \* liveRun: None, or run, events and status
    notice,   \* progressNotice: "limit" when it says that the page gave up, else ""
    result,   \* runResult: None or the run whose shader is displayed
    mounted,  \* the page is open
    job,      \* what the backend does for each run
    entry,    \* the registry's entry of each run, or None
    answer,   \* the progress answer on its way to each observer, or None
    dropped,  \* the events the registry's window let go
    published \* of each run: how many events it published, registered or not

page == << started, post, current, loop, stopped, late, lastSeq, panel, notice, result, mounted >>
server == << job, entry, dropped, published >>
vars == << page, server, answer >>

Entry(status, seq) == [status |-> status, seq |-> seq]

(* The events of an entry that its window still holds. *)
Held(e) == {s \in 1..e.seq : s + Window > e.seq}

Init ==
    /\ started = 0 /\ post = None /\ current = None /\ panel = None /\ result = None
    /\ notice = "" /\ mounted = TRUE
    /\ loop = [r \in Ids |-> "none"]
    /\ stopped = {} /\ late = {}
    /\ lastSeq = [r \in Ids |-> 0]
    /\ job = [r \in Ids |-> "none"]
    /\ entry = [r \in Ids |-> None]
    /\ answer = [r \in Ids |-> None]
    /\ dropped = [r \in Ids |-> {}]
    /\ published = [r \in Ids |-> 0]

----------------------------------------------------------------------------
(* The backend. *)

(* Bound: the backend's further steps for a run that nobody asks about any    *)
(* more change nothing the page could see, and are left out. *)
Asked(r) == loop[r] \in {"timer", "reading"} \/ post = r

Posted(r) == r <= started /\ job[r] = "posted"

(* Refused before progress.begin: validation, or no runtime yet. *)
RefusePost(r) ==
    /\ Posted(r)
    /\ job' = [job EXCEPT ![r] = "refused"]
    /\ UNCHANGED << page, entry, answer, dropped, published >>

(* RunProgressRegistry.begin *)
BeginRun(r) ==
    /\ Posted(r)
    /\ job' = [job EXCEPT ![r] = "running"]
    /\ entry' = [entry EXCEPT ![r] = Entry("running", 0)]
    /\ UNCHANGED << page, answer, dropped, published >>

(* publish: the event gets the next number and may push the oldest one out; a *)
(* run that was swept publishes into the void. *)
Register(r) ==
    LET e == entry[r]
        grown == Entry("running", e.seq + 1)
    IN  /\ entry' = [entry EXCEPT ![r] = grown]
        /\ dropped' = [dropped EXCEPT ![r] = @ \union (Held(e) \ Held(grown))]

PublishEvent(r) ==
    /\ job[r] = "running" /\ published[r] < MaxEvents
    /\ published' = [published EXCEPT ![r] = @ + 1]
    /\ IF entry[r] # None THEN Register(r) ELSE UNCHANGED << entry, dropped >>
    /\ UNCHANGED << page, job, answer >>

(* finish: an entry that was swept is not made again. *)
FinishRun(r) ==
    /\ job[r] = "running"
    /\ \E status \in Terminal :
        /\ job' = [job EXCEPT ![r] = status]
        /\ entry' = [entry EXCEPT ![r] = IF @ = None THEN None ELSE Entry(status, @.seq)]
    /\ UNCHANGED << page, answer, dropped, published >>

(* _sweep: the entry was quiet for RUN_PROGRESS_TTL_SECONDS, whatever its status. *)
Sweep(r) ==
    /\ entry[r] # None
    /\ entry' = [entry EXCEPT ![r] = None]
    /\ UNCHANGED << page, job, answer, dropped, published >>

(* The process ends and comes back with an empty registry; its requests are lost. *)
RestartServer ==
    /\ \E r \in Ids : Asked(r) /\ entry[r] # None
    /\ entry' = [r \in Ids |-> None]
    /\ job' = [r \in Ids |-> IF job[r] \in {"posted", "running"} THEN "lost" ELSE job[r]]
    /\ UNCHANGED << page, answer, dropped, published >>

\* Mutant of Increment: a torn read, the status newer than the tail it comes with.
IncrementTorn(r, after) ==
    IF entry[r] = None
    THEN [status |-> "pending", latest |-> 0, events |-> {}]
    ELSE LET seen == IF entry[r].seq = 0 THEN 0 ELSE entry[r].seq - 1
         IN  [status |-> entry[r].status, latest |-> seen,
              events |-> {s \in Held(entry[r]) : s > after /\ s <= seen}]

(* read: status, increment and latest number, taken at one moment. *)
Increment(r, after) ==
    IF entry[r] = None
    THEN [status |-> "pending", latest |-> 0, events |-> {}]
    ELSE [status |-> entry[r].status, latest |-> entry[r].seq,
          events |-> {s \in Held(entry[r]) : s > after}]

ServerReads(r) ==
    /\ loop[r] = "reading" /\ answer[r] = None
    /\ answer' = [answer EXCEPT ![r] = Increment(r, lastSeq[r])]
    /\ UNCHANGED << page, server >>

----------------------------------------------------------------------------
(* The page. *)

(* clearRunOutput.  The request it aborts comes back as a failure, or was     *)
(* answered before; PollAnswered and PollFails look at the flag in both cases. *)
ClearRunOutput ==
    /\ stopped' = stopped \union ({current} \ {None})
    /\ result' = None /\ notice' = ""

(* handleFile: refused while a POST is out, not while a run is only watched. *)
HandleFile ==
    /\ mounted /\ post = None /\ panel # None
    /\ ClearRunOutput
    /\ current' = None /\ panel' = None
    /\ UNCHANGED << started, post, loop, late, lastSeq, mounted, server, answer >>

(* handleRun, up to its first await: the POST is sent, the first poll waits 500 ms. *)
HandleRun ==
    LET r == started + 1
    IN  /\ mounted /\ post = None /\ started < Runs
        /\ ClearRunOutput
        /\ started' = r
        /\ post' = r
        /\ current' = r
        /\ loop' = [loop EXCEPT ![r] = "timer"]
        /\ panel' = [run |-> r, events |-> {}, status |-> "pending"]
        /\ job' = [job EXCEPT ![r] = "posted"]
        /\ UNCHANGED << late, lastSeq, mounted, entry, answer, dropped, published >>

\* Mutant of Watched: an answer counts as long as its run is the page's.
WatchedByRun(r) == current = r

(* What both ends of every await in pollProgress and mergeProgress ask. *)
Watched(r) == r \notin stopped /\ current = r

(* pollProgress, up to its await.  One request at a time per observer. *)
PollStarts(r) ==
    /\ loop[r] = "timer" /\ Watched(r) /\ r \notin late
    /\ loop' = [loop EXCEPT ![r] = "reading"]
    /\ answer' = [answer EXCEPT ![r] = None]
    /\ UNCHANGED << started, post, current, stopped, late, lastSeq, panel, notice, result, mounted, server >>

PollGivesUp(r) ==
    /\ loop[r] = "timer" /\ Watched(r) /\ r \in late
    /\ loop' = [loop EXCEPT ![r] = "over"]
    /\ stopped' = stopped \union {r}
    /\ notice' = "limit"
    /\ UNCHANGED << started, post, current, late, lastSeq, panel, result, mounted, server, answer >>

(* A timer, an answer or a failure that finds its observer stopped, or no      *)
(* longer the page's, ends the loop and touches nothing; what the loop         *)
(* remembered goes with it. *)
LoopEnds(r) ==
    /\ loop[r] \in {"timer", "reading"} /\ ~Watched(r)
    /\ loop' = [loop EXCEPT ![r] = "over"]
    /\ late' = late \ {r}
    /\ answer' = [answer EXCEPT ![r] = None]
    /\ lastSeq' = IF current = r THEN lastSeq ELSE [lastSeq EXCEPT ![r] = 0]
    /\ UNCHANGED << started, post, current, stopped, panel, notice, result, mounted, server >>

(* mergeProgress: the panel keeps what it had of this run. *)
Merged(r, a) ==
    [run |-> r, status |-> a.status,
     events |-> (IF panel # None /\ panel.run = r THEN panel.events ELSE {}) \union a.events]

(* The answer arrives. *)
PollAnswered(r) ==
    LET a == answer[r]
    IN  /\ loop[r] = "reading" /\ a # None /\ Watched(r)
        /\ answer' = [answer EXCEPT ![r] = None]
        /\ lastSeq' = [lastSeq EXCEPT ![r] = IF a.latest > @ THEN a.latest ELSE @]
        /\ panel' = Merged(r, a)
        /\ notice' = ""
        /\ stopped' = IF a.status \in Terminal THEN stopped \union {r} ELSE stopped
        /\ loop' = [loop EXCEPT ![r] = IF a.status \in Terminal THEN "over" ELSE "timer"]
        /\ UNCHANGED << started, post, current, late, result, mounted, server >>

(* The request times out, is aborted or fails; an answer on its way is lost. *)
PollFails(r) ==
    /\ loop[r] = "reading" /\ Watched(r)
    /\ answer' = [answer EXCEPT ![r] = None]
    /\ loop' = [loop EXCEPT ![r] = "timer"]
    /\ notice' = ""
    /\ UNCHANGED << started, post, current, stopped, late, lastSeq, panel, result, mounted, server >>

\* Mutant of DeadlinePasses: no grace, so that it may pass before the POST is over.
DeadlinePassesEarly(r) ==
    /\ loop[r] \in {"timer", "reading"} /\ Watched(r) /\ r \notin late
    /\ late' = late \union {r}
    /\ UNCHANGED << started, post, current, loop, stopped, lastSeq, panel, notice, result, mounted, server, answer >>

(* Assumption on time, not a test of the page: the deadline is the POST's own  *)
(* timeout and a grace, so that the POST's timer is first.  A wall clock that  *)
(* jumps (Date.now of a machine that was suspended) is left out. *)
DeadlinePasses(r) ==
    /\ loop[r] \in {"timer", "reading"} /\ Watched(r) /\ r \notin late
    /\ post # r
    /\ late' = late \union {r}
    /\ UNCHANGED << started, post, current, loop, stopped, lastSeq, panel, notice, result, mounted, server, answer >>

(* 200: nothing is asked of the observer, which reads the terminal state itself. *)
PostSucceeds ==
    /\ post # None /\ job[post] = "succeeded"
    /\ post' = None
    /\ result' = post
    /\ UNCHANGED << started, current, loop, stopped, late, lastSeq, panel, notice, mounted, server, answer >>

\* Mutant of Authoritative: any answer but 200 is taken for the run's failure.
AuthoritativeAlways(reply) == reply # "200"

(* isAuthoritativeRunFailure: an envelope of the application for this very run. *)
Authoritative(reply) == reply = "envelope"

(* What a POST may be answered with instead: the envelope  *)
(* of a failed or refused run, or a page of some proxy at any time. *)
ErrorReplies(r) ==
    {"proxy"} \union IF job[r] \in {"failed", "refused"} THEN {"envelope"} ELSE {}

PostRefused ==
    /\ post # None
    /\ post' = None
    /\ notice' = ""
    /\ \E reply \in ErrorReplies(post) :
        IF Authoritative(reply)
        THEN /\ panel' = [panel EXCEPT !.status = "failed"]
             /\ stopped' = stopped \union {post}
        ELSE UNCHANGED << panel, stopped >>
    /\ UNCHANGED << started, current, loop, late, lastSeq, result, mounted, server, answer >>

(* The connection fails, the timer of handleRun fires or the user stops        *)
(* waiting (handleStopWaiting): the server goes on, and so does the observer. *)
PostAborted ==
    /\ post # None
    /\ post' = None
    /\ UNCHANGED << started, current, loop, stopped, late, lastSeq, panel, notice, result, mounted, server, answer >>

(* The effect that runs when the page goes, and with it all it showed. *)
Unmount ==
    /\ mounted
    /\ mounted' = FALSE
    /\ post' = None
    /\ panel' = None /\ result' = None /\ notice' = ""
    /\ stopped' = stopped \union ({current} \ {None})
    /\ UNCHANGED << started, current, loop, late, lastSeq, server, answer >>

Backend(r) ==
    \/ RefusePost(r) \/ BeginRun(r) \/ PublishEvent(r) \/ FinishRun(r)
    \/ Sweep(r) \/ ServerReads(r)

Observer(r) ==
    PollStarts(r) \/ PollAnswered(r) \/ PollFails(r) \/ PollGivesUp(r) \/ LoopEnds(r)

PostReturns == PostSucceeds \/ PostRefused \/ PostAborted

Next ==
    \/ HandleFile \/ HandleRun \/ Unmount \/ PostReturns
    \/ RestartServer
    \/ \E r \in Ids : (Asked(r) /\ Backend(r)) \/ Observer(r) \/ DeadlinePasses(r)

Spec == Init /\ [][Next]_vars

----------------------------------------------------------------------------
(* Properties. *)

TypeOK ==
    /\ started \in 0..Runs
    /\ {post, current, result} \subseteq Ids \union {None}
    /\ loop \in [Ids -> {"none", "timer", "reading", "over"}]
    /\ stopped \subseteq Ids /\ late \subseteq Ids
    /\ lastSeq \in [Ids -> 0..MaxEvents]
    /\ panel \in Panels \union {None}
    /\ notice \in {"", "limit"}
    /\ mounted \in BOOLEAN
    /\ job \in [Ids -> {"none", "posted", "running", "refused", "lost"} \union Terminal]
    /\ entry \in [Ids -> [status : {"running"} \union Terminal, seq : 0..MaxEvents] \union {None}]
    /\ answer \in [Ids -> [status : Statuses, latest : 0..MaxEvents,
                          events : SUBSET (1..MaxEvents)] \union {None}]
    /\ dropped \in [Ids -> SUBSET (1..MaxEvents)]
    /\ published \in [Ids -> 0..MaxEvents]

(* What the panel says of a run is what the backend did: a gap in its events  *)
(* was never held back by a lost answer but let go by the registry's window,  *)
(* a panel that reads "succeeded" has seen the run to its last event, and no  *)
(* answer of a proxy, a restart or an older run makes it look failed or done. *)
PanelIsTrue ==
    panel # None =>
        LET r == panel.run IN
        /\ current = r
        /\ 1..lastSeq[r] \subseteq panel.events \union dropped[r]
        /\ panel.events \subseteq 1..lastSeq[r]
        /\ panel.status = "succeeded" => job[r] = "succeeded" /\ lastSeq[r] = published[r]
        /\ panel.status = "failed" => job[r] \in {"failed", "refused"}
        /\ result # None => result = r /\ panel.status # "failed"

(* A page that no longer asks shows a settled run or says that it gave up:     *)
(* whatever order POST, polls and the deadline behind the POST come in, no     *)
(* panel waits in silence. *)
NeverSilent ==
    mounted /\ panel # None /\ panel.run \in stopped =>
        panel.status \in Terminal \/ notice = "limit"

(* A settled run stays settled on its panel: no late, repeated or restarted    *)
(* answer takes it back to running or pending. *)
SettledStays ==
    [][panel # None /\ panel.status \in Terminal /\ panel' # None /\ panel'.run = panel.run
       => panel'.status = panel.status]_vars

=============================================================================
