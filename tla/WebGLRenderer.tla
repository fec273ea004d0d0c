----------------------------- MODULE WebGLRenderer -----------------------------
(***************************************************************************)
(* PlaywrightWebGL1Renderer and its prepared programs                      *)
(* (shaderforge/rendering/webgl1_renderer.py), driven by the one attempt   *)
(* that owns it.  pc is the await the renderer is suspended at.            *)
(*                                                                         *)
(* A worker is a number: its Playwright driver, the browser the driver     *)
(* launched, the browser's page, and HOST_HTML in that page.  drivers,     *)
(* browsers, pages and hosts say which of them exist; driver, browser and  *)
(* page are the references Python holds, 0 for None.  A program in a page  *)
(* and a PreparedWebGL1Renderer are both [page, id, src]: the ids of a     *)
(* page count from "1", so the pair of page and id is the identity of a    *)
(* handle, while the code hands only the id to whatever page is current.   *)
(***************************************************************************)
EXTENDS Integers, FiniteSets

CONSTANTS
    Sources,       \* fragment sources the attempt may prepare
    Replays,       \* replay_on_worker_failure
    MaxCalls,      \* bound: prepare and render calls of the attempt
    MaxFaults,     \* bound: errors, deaths and hangs
    MaxCancels,    \* bound: cancellations
    None

ASSUME RendererAssumption ==
    /\ Replays \in Nat /\ MaxCalls \in Nat /\ MaxFaults \in Nat /\ MaxCancels \in Nat
    /\ None \notin [page : Nat, id : Nat, src : Sources]

VARIABLES
    drivers, browsers, pages, hosts,   \* what exists
    hung,                              \* pages whose JavaScript no longer returns
    started,                           \* workers started so far
    driver, browser, page,             \* _playwright, _browser, _page
    programs, nextId,                  \* preparedPrograms and nextPreparedId of the page
    open,                              \* _prepared: the handles not closed
    pc, kind, source, try, handle,     \* the call in progress
    doomed, failing,                   \* locals of a reset and of a close
    cache, releasing, mode,            \* the attempt: program_cache, release_programs
    receipt,                           \* what the last draw attested
    calls, faults, cancels, lost, mishaps

worker  == <<drivers, browsers, pages, hosts, hung, started>>
refs    == <<driver, browser, page>>
progs   == <<programs, nextId, open>>
call    == <<kind, source, try, handle>>
attempt == <<cache, releasing, mode>>
tallies == <<calls, faults, cancels, lost, mishaps>>
vars == <<worker, refs, progs, pc, call, doomed, failing, attempt, receipt, tallies>>

Handles == [page : Nat, id : Nat, src : Sources]

PageUsable == page # 0 /\ page \in pages      \* _page is not None and not is_closed()

Fault == faults < MaxFaults /\ faults' = faults + 1
NoFault == UNCHANGED faults

\* Closing a resource takes what runs inside it along.
Shut(stage, w) ==
    /\ hosts' = hosts \ {w}
    /\ pages' = pages \ {w}
    /\ browsers' = IF stage = "page" THEN browsers ELSE browsers \ {w}
    /\ drivers' = IF stage = "driver" THEN drivers \ {w} ELSE drivers
    /\ UNCHANGED <<hung, started>>

Init ==
    /\ drivers = {} /\ browsers = {} /\ pages = {} /\ hosts = {} /\ hung = {} /\ started = 0
    /\ driver = 0 /\ browser = 0 /\ page = 0
    /\ programs = {} /\ nextId = 1 /\ open = {}
    /\ pc = "idle" /\ kind = "close" /\ source = None /\ try = 0 /\ handle = None
    /\ doomed = 0 /\ failing = FALSE
    /\ cache = {} /\ releasing = {} /\ mode = "using"
    /\ receipt = None
    /\ calls = 0 /\ faults = 0 /\ cancels = 0 /\ lost = {} /\ mishaps = 0
-----------------------------------------------------------------------------
(* The calls of the attempt. *)

Ready == pc = "idle" /\ releasing = {} /\ mode = "using"

\* prepare and render start the same way; a source that static validation
\* refuses never gets here.
Begin(k, s) ==
    /\ Ready /\ calls < MaxCalls
    /\ calls' = calls + 1
    /\ pc' = "start" /\ kind' = k /\ source' = s /\ try' = 1 /\ handle' = None
    /\ receipt' = None
    /\ UNCHANGED <<worker, refs, progs, doomed, failing, attempt, faults, cancels, lost, mishaps>>

\* A program is prepared once per cache key.
Prepare == \E s \in Sources : (\A h \in cache : h.src # s) /\ Begin("prepare", s)
Render  == \E s \in Sources : Begin("render", s)

\* RendererUnavailableError: the attempt answers with release_programs.
Unavailable ==
    /\ pc' = "idle"
    /\ releasing' = cache /\ cache' = {}
    /\ UNCHANGED mode

\* What the page finds under the id it is given.
DrawTarget(h) == {p \in programs : p.id = h.id}

\* render_uniforms up to its await: a closed handle and a missing page are
\* refused, anything else is sent to the owner's current page.
Draw ==
    /\ Ready
    /\ \E h \in cache :
         /\ handle' = h /\ kind' = "draw" /\ receipt' = None
         /\ IF h \in open /\ PageUsable
            THEN pc' = "draw" /\ UNCHANGED attempt
            ELSE Unavailable
    /\ UNCHANGED <<worker, refs, progs, source, try, doomed, failing, tallies>>

\* The graph is over: its finally clause releases the cache.
RunEnds ==
    /\ Ready
    /\ mode' = "ending" /\ releasing' = cache /\ cache' = {}
    /\ UNCHANGED <<worker, refs, progs, pc, call, doomed, failing, receipt, tallies>>

\* One turn of release_programs: PreparedWebGL1Renderer.close of one handle.
Release ==
    /\ pc = "idle"
    /\ \E h \in releasing :
         /\ releasing' = releasing \ {h}
         /\ open' = open \ {h}
         /\ kind' = "release" /\ handle' = h
         /\ pc' = IF h \in open /\ PageUsable THEN "close_program" ELSE "idle"
    /\ UNCHANGED <<worker, refs, programs, nextId, source, try, doomed, failing, cache, mode,
                   receipt, tallies>>

\* The executor closes the renderer it owns.
CloseRenderer ==
    /\ pc = "idle" /\ mode = "ending" /\ releasing = {}
    /\ pc' = "close_handles" /\ kind' = "close" /\ failing' = FALSE
    /\ UNCHANGED <<worker, refs, progs, source, try, handle, doomed, attempt, receipt, tallies>>
-----------------------------------------------------------------------------
(* _ensure_started. *)

Quiet == UNCHANGED <<call, doomed, failing, attempt, receipt, calls, cancels, lost, mishaps>>

EnsureStarted ==
    /\ pc = "start"
    /\ pc' = IF PageUsable THEN "evaluate" ELSE "driver"
    /\ UNCHANGED <<worker, refs, progs, faults>> /\ Quiet

StartDriver ==
    /\ pc = "driver"
    /\ started' = started + 1
    /\ drivers' = drivers \cup {started + 1}
    /\ driver' = started + 1
    /\ pc' = "launch"
    /\ UNCHANGED <<browsers, pages, hosts, hung, browser, page, progs, faults>> /\ Quiet

Launch ==
    /\ pc = "launch"
    /\ browsers' = browsers \cup {driver}
    /\ browser' = driver
    /\ pc' = "new_page"
    /\ UNCHANGED <<drivers, pages, hosts, hung, started, driver, page, progs, faults>> /\ Quiet

NewPage ==
    /\ pc = "new_page" /\ browser \in browsers
    /\ pages' = pages \cup {browser}
    /\ page' = browser
    /\ programs' = {} /\ nextId' = 1
    /\ pc' = "set_content"
    /\ UNCHANGED <<drivers, browsers, hosts, hung, started, driver, browser, open, faults>>
    /\ Quiet

SetContent ==
    /\ pc = "set_content" /\ page \in pages
    /\ hosts' = hosts \cup {page}
    /\ pc' = "evaluate"
    /\ UNCHANGED <<drivers, browsers, pages, hung, started, refs, progs, faults>> /\ Quiet
-----------------------------------------------------------------------------
(* _prepare_once and _render_once: evaluate under a timer, then one turn of *)
(* the page's event loop.                                                   *)

\* Mutant of FreshId: the page does not advance nextPreparedId.
FreshIdStuck == nextId

FreshId == nextId + 1

\* window.__prepareShader compiles and registers a program, or refuses the
\* shader and cleans up.
PrepareInPage ==
    \/ LET p == [page |-> page, id |-> nextId, src |-> source]
       IN  /\ handle' = p
           /\ programs' = {q \in programs : q.id # nextId} \cup {p}
           /\ nextId' = FreshId
    \/ handle' = None /\ UNCHANGED <<programs, nextId>>

\* window.__renderShader keeps nothing, whatever it draws.
RenderInPage == handle' = None /\ UNCHANGED <<programs, nextId>>

Evaluate ==
    /\ pc = "evaluate" /\ page \in hosts \ hung
    /\ pc' = "settle"
    /\ \/ kind = "prepare" /\ PrepareInPage
       \/ kind = "render" /\ RenderInPage
    /\ UNCHANGED <<worker, refs, open, kind, source, try, doomed, failing, attempt, receipt,
                   tallies>>

\* The preparation returns: a handle, or ShaderPreparationError.
SettlePrepare ==
    /\ pc = "settle" /\ kind = "prepare" /\ page \in pages
    /\ pc' = "idle"
    /\ open' = IF handle = None THEN open ELSE open \cup {handle}
    /\ cache' = IF handle = None THEN cache ELSE cache \cup {handle}
    /\ UNCHANGED <<worker, refs, programs, nextId, call, doomed, failing, releasing, mode, receipt,
                   tallies>>

\* A picture or a compile result is returned; there is nothing to close later.
SettleRender ==
    /\ pc = "settle" /\ kind = "render" /\ page \in pages
    /\ pc' = "idle"
    /\ UNCHANGED <<worker, refs, progs, call, doomed, failing, attempt, receipt, tallies>>

\* The resource the await needs is gone, so that it raises in any case.
Broken == \/ pc = "new_page" /\ browser \notin browsers
          \/ pc \in {"set_content", "settle"} /\ page \notin pages
          \/ pc \in {"evaluate", "draw", "close_program"} /\ page \notin hosts

\* A hung evaluation neither returns nor raises.
Raises == IF Broken THEN NoFault
          ELSE Fault /\ ~(pc \in {"evaluate", "draw", "close_program"} /\ page \in hung)

\* PlaywrightError, OSError or RendererUnavailableError inside a preparation:
\* the loop of prepare (render) closes everything and tries again.
WorkerFails ==
    /\ pc \in {"driver", "launch", "new_page", "set_content", "evaluate", "settle"}
    /\ Raises
    /\ pc' = "close_handles" /\ failing' = FALSE
    /\ UNCHANGED <<worker, refs, progs, call, doomed, attempt, receipt, calls, cancels, lost,
                   mishaps>>
-----------------------------------------------------------------------------
(* PreparedWebGL1Renderer.render_uniforms, from its await on. *)

\* The receipt names the handle's source, the pixels are the program's.
DrawReturns ==
    /\ pc = "draw" /\ page \in hosts \ hung
    /\ pc' = "idle"
    /\ receipt' = IF DrawTarget(handle) = {} THEN None
                  ELSE [by |-> handle, drawn |-> (CHOOSE p \in DrawTarget(handle) : TRUE).src]
    /\ UNCHANGED <<worker, refs, progs, call, doomed, failing, attempt, tallies>>

DrawRaises ==
    /\ pc = "draw" /\ Raises
    /\ Unavailable
    /\ UNCHANGED <<worker, refs, progs, call, doomed, failing, receipt, calls, cancels, lost,
                   mishaps>>
-----------------------------------------------------------------------------
(* _reset_worker_quietly. *)

\* Mutant of Invalidate: the reset leaves the handles registered.
InvalidateNone == UNCHANGED open

Invalidate == open' = {}

\* Mutant of TimerPcs: a draw is awaited without a timer.
TimerPcsPrepareOnly == {"evaluate"}

TimerPcs == {"evaluate", "draw"}

\* The timer of wait_for ends a slow or hung evaluation: Python lets go of the
\* worker and of every handle before it awaits anything.
TimedOut ==
    /\ pc \in TimerPcs /\ page # 0
    /\ IF page \in hung THEN NoFault ELSE Fault
    /\ doomed' = page
    /\ driver' = 0 /\ browser' = 0 /\ page' = 0
    /\ Invalidate
    /\ pc' = "reset_page"
    /\ UNCHANGED <<worker, programs, nextId, call, failing, attempt, receipt, calls, cancels, lost,
                   mishaps>>

ResetPcs == {"reset_page", "reset_browser", "reset_driver"}

BeingReset == IF pc \in ResetPcs THEN {doomed} ELSE {}

\* Each resource is closed under its own timer and errors are suppressed; a
\* driver that does not stop stays behind.
Reset(stage) ==
    \/ Shut(stage, doomed) /\ UNCHANGED <<faults, mishaps>>
    \/ Fault /\ UNCHANGED worker /\ mishaps' = mishaps + (IF stage = "driver" THEN 1 ELSE 0)

ResetStep ==
    /\ \/ pc = "reset_page" /\ Reset("page") /\ pc' = "reset_browser" /\ UNCHANGED failing
       \/ pc = "reset_browser" /\ Reset("browser") /\ pc' = "reset_driver" /\ UNCHANGED failing
       \/ /\ pc = "reset_driver" /\ kind # "draw" /\ Reset("driver")
          /\ pc' = "close_handles" /\ failing' = FALSE
    /\ UNCHANGED <<refs, progs, call, doomed, attempt, receipt, calls, cancels, lost>>

ResetDrawDone ==
    /\ pc = "reset_driver" /\ kind = "draw" /\ Reset("driver")
    /\ Unavailable
    /\ UNCHANGED <<refs, progs, call, doomed, failing, receipt, calls, cancels, lost>>
-----------------------------------------------------------------------------
(* close: every handle, then page, browser and driver; what fails to close  *)
(* stays referenced for a later close, and the first error is raised.       *)

CloseHandles ==
    /\ pc = "close_handles"
    /\ \/ \E h \in open :
            /\ open' = open \ {h} /\ handle' = h
            /\ pc' = IF PageUsable THEN "close_program" ELSE pc
       \/ open = {} /\ pc' = "close_page" /\ UNCHANGED <<open, handle>>
    /\ UNCHANGED <<worker, refs, programs, nextId, kind, source, try, doomed, failing, attempt,
                   receipt, tallies>>

\* The await of a handle's close, from release_programs or from the loop above;
\* it has no timer.
CloseProgram ==
    /\ pc = "close_program"
    /\ \/ /\ page \in hosts \ hung /\ NoFault
          /\ programs' = programs \ DrawTarget(handle)
          /\ UNCHANGED failing
       \/ /\ Raises
          /\ failing' = TRUE /\ UNCHANGED programs
    /\ pc' = IF kind = "release" THEN "idle" ELSE "close_handles"
    /\ UNCHANGED <<worker, refs, nextId, open, call, doomed, attempt, receipt, calls, cancels, lost,
                   mishaps>>

ClosePage ==
    /\ pc = "close_page"
    /\ pc' = "close_browser"
    /\ \/ ~PageUsable /\ page' = 0 /\ UNCHANGED <<worker, failing, faults>>
       \/ PageUsable /\ Shut("page", page) /\ page' = 0 /\ UNCHANGED <<failing, faults>>
       \/ PageUsable /\ Fault /\ failing' = TRUE /\ UNCHANGED <<worker, page>>
    /\ UNCHANGED <<driver, browser, progs, call, doomed, attempt, receipt, calls, cancels, lost,
                   mishaps>>

CloseBrowser ==
    /\ pc = "close_browser"
    /\ pc' = "close_driver"
    /\ \/ Shut("browser", browser) /\ browser' = 0 /\ UNCHANGED <<failing, faults>>
       \/ browser # 0 /\ Fault /\ failing' = TRUE /\ UNCHANGED <<worker, browser>>
    /\ UNCHANGED <<driver, page, progs, call, doomed, attempt, receipt, calls, cancels, lost,
                   mishaps>>

\* Mutant of StopDriver: the driver is forgotten, not stopped.
StopDriverForgets ==
    driver' = 0 /\ UNCHANGED <<worker, failing, faults, mishaps>>

StopDriver ==
    \/ Shut("driver", driver) /\ driver' = 0 /\ UNCHANGED <<failing, faults, mishaps>>
    \/ /\ driver # 0 /\ Fault
       /\ failing' = TRUE /\ mishaps' = mishaps + 1
       /\ UNCHANGED <<worker, driver>>

\* The last await of close; a preparation then replays or gives up.
CloseDriver ==
    /\ pc = "close_driver"
    /\ StopDriver
    /\ \/ /\ kind = "close"
          /\ mode' = IF failing' THEN "abandoned" ELSE "closed"
          /\ pc' = "idle" /\ UNCHANGED <<try, cache, releasing>>
       \/ /\ kind # "close" /\ try <= Replays
          /\ try' = try + 1 /\ pc' = "start" /\ UNCHANGED attempt
       \/ kind # "close" /\ try > Replays /\ Unavailable /\ UNCHANGED try
    /\ UNCHANGED <<browser, page, progs, kind, source, handle, doomed, receipt, calls, cancels,
                   lost>>
-----------------------------------------------------------------------------
(* What the environment may do. *)

\* The program in a page stops answering.
Hang ==
    /\ pc \in {"evaluate", "draw"} /\ page \in hosts \ hung
    /\ Fault
    /\ hung' = hung \cup {page}
    /\ UNCHANGED <<drivers, browsers, pages, hosts, started, refs, progs, pc, call, doomed, failing,
                   attempt, receipt, calls, cancels, lost, mishaps>>

\* The browser process ends by itself: its page reports is_closed() from now on.
BrowserDies ==
    /\ browser \in browsers
    /\ Fault
    /\ Shut("browser", browser)
    /\ lost' = lost \cup {browser} /\ mishaps' = mishaps + 1
    /\ UNCHANGED <<refs, progs, pc, call, doomed, failing, attempt, receipt, calls, cancels>>

\* CancelledError at the current await.  What was awaited may still happen: a
\* driver comes up that nobody refers to, a program is compiled that has no
\* handle.  The attempt goes on to release what it has; a close that is
\* cancelled is not repeated.
Cancel ==
    /\ pc # "idle" /\ cancels < MaxCancels
    /\ cancels' = cancels + 1
    /\ pc' = "idle"
    /\ IF kind = "close"
       THEN mode' = "abandoned" /\ UNCHANGED <<cache, releasing>>
       ELSE mode' = "ending" /\ releasing' = cache /\ cache' = {}
    /\ \/ pc \in ResetPcs
          /\ mishaps' = mishaps + 1 /\ UNCHANGED <<drivers, started, programs, nextId>>
       \/ /\ pc = "driver"
          /\ started' = started + 1 /\ drivers' = drivers \cup {started'}
          /\ mishaps' = mishaps + 1 /\ UNCHANGED <<programs, nextId>>
       \/ /\ pc = "evaluate" /\ kind = "prepare" /\ page \in hosts
          /\ programs' = {q \in programs : q.id # nextId}
                             \cup {[page |-> page, id |-> nextId, src |-> source]}
          /\ nextId' = FreshId /\ UNCHANGED <<drivers, started, mishaps>>
       \/ /\ pc \notin ResetPcs
          /\ UNCHANGED <<drivers, started, programs, nextId, mishaps>>
    /\ UNCHANGED <<browsers, pages, hosts, hung, refs, open, call, doomed, failing, receipt, calls,
                   faults, lost>>

\* A call in progress moves on.
Serve == \/ EnsureStarted \/ StartDriver \/ Launch \/ NewPage \/ SetContent
         \/ Evaluate \/ SettlePrepare \/ SettleRender \/ WorkerFails \/ DrawReturns \/ DrawRaises
         \/ TimedOut \/ ResetStep \/ ResetDrawDone
         \/ CloseHandles \/ CloseProgram \/ ClosePage \/ CloseBrowser \/ CloseDriver

Next == \/ Serve
        \/ Prepare \/ Render \/ Draw \/ RunEnds \/ Release \/ CloseRenderer
        \/ Hang \/ BrowserDies \/ Cancel

\* Playwright calls return or raise and timers fire; the attempt's own calls
\* and what the environment may do are not owed to anybody.
Spec == Init /\ [][Next]_vars /\ WF_vars(Serve)
-----------------------------------------------------------------------------
TypeOK ==
    /\ drivers \subseteq 1..started /\ browsers \subseteq drivers
    /\ pages \subseteq browsers /\ hosts \subseteq pages /\ hung \subseteq 1..started
    /\ started \in Nat /\ {driver, browser, page, doomed} \subseteq 0..started
    /\ programs \subseteq Handles /\ nextId \in Nat \ {0} /\ open \subseteq Handles
    /\ cache \subseteq Handles /\ releasing \subseteq Handles
    /\ handle \in Handles \cup {None} /\ source \in Sources \cup {None}
    /\ kind \in {"prepare", "render", "draw", "release", "close"}
    /\ mode \in {"using", "ending", "closed", "abandoned"} /\ failing \in BOOLEAN
    /\ try \in 0..(Replays + 1)
    /\ receipt \in [by : Handles, drawn : Sources] \cup {None}
    /\ calls \in 0..MaxCalls /\ faults \in 0..MaxFaults /\ cancels \in 0..MaxCancels
    /\ lost \subseteq 1..started /\ mishaps \in Nat

\* While no browser has died, every handle that is not closed has its own
\* program in the page that a draw would be sent to: resets, replays, closes
\* that fail half way and cancellations never leave a handle behind
\* (_prepared, _reset_worker_quietly, close).
OpenHandleHasProgram == lost = {} => \A h \in open : h.page = page /\ h \in programs

\* A receipt binds its own source to the pixels of that very program, unless
\* the handle is left over from a browser that died (render_uniforms,
\* nextPreparedId).
ReceiptsAttestUnlessLost ==
    receipt # None => receipt.drawn = receipt.by.src \/ receipt.by.page \in lost

\* The class holds one compiled program, and render_uniforms attests with the
\* source hash of the program it drew.
ReceiptsAttestOwnProgram == receipt # None => receipt.drawn = receipt.by.src

\* A driver that Python no longer refers to was lost by a mishap of its own: a
\* browser that died, a driver that did not stop, or a cancellation while one
\* was started or reset.  Errors, timeouts and replays alone lose none, and a
\* renderer that is closed has let go of everything else.
LeaksAreMishaps ==
    Cardinality(drivers \ (IF mode = "closed" THEN {} ELSE {driver} \cup BeingReset)) <= mishaps

\* Unless the caller was cancelled before, every call ends, be the page hung,
\* dead or failing: the only waits without a timer are the closes of handles,
\* and a reset has dropped these before anybody closes them.
CallsEnd == (pc # "idle" /\ cancels = 0) ~> (pc = "idle" \/ cancels > 0)
=============================================================================
