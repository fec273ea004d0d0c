-------------------------- MODULE WebGLRendererProofs --------------------------
(* Handles and programs of WebGLRenderer, for any number of calls, faults,    *)
(* cancellations and replays.                                                *)
(*                                                                           *)
(* A handle is bound to its program by the page both belong to: as long as    *)
(* that page is the current one nobody else gets its id, and a page that is   *)
(* replaced was either closed, which takes its handles first, or lost with    *)
(* its browser.  A driver that is let go of is paid for before it happens.    *)
EXTENDS WebGLRenderer, FiniteSetTheorems, TLAPS

(* The worker: what runs inside what, and whose page it is.                  *)
WorkerInv ==
    /\ started \in Nat /\ 0 \notin pages \cup browsers /\ hosts \subseteq pages
    /\ pc = "launch" => driver # 0
    /\ page \in pages => page = browser
    /\ pc \in {"driver", "launch", "new_page"} => ~PageUsable

(* A handle whose page lives on: no other program of the page has its id.    *)
Attests(h) ==
    \/ h.page \in lost
    \/ /\ PageUsable /\ h.page = page
       /\ h.id \in Nat /\ h.id < nextId
       /\ \A p \in programs : p.id = h.id => p = h

IdsInv == nextId \in Nat /\ \A p \in programs : p.id \in Nat /\ p.id < nextId

(* Handles that are open, that are about to be and that are being closed.    *)
HandlesInv ==
    /\ \A h \in open : Attests(h)
    /\ pc = "settle" /\ kind = "prepare" /\ handle # None => Attests(handle)
    /\ pc = "close_program" => handle \notin open /\ Attests(handle)
    /\ pc = "draw" => handle \in open

(* And with no browser lost, they have their programs.                       *)
ProgramsInv ==
    lost = {} => /\ \A h \in open : h \in programs
                 /\ pc = "settle" /\ kind = "prepare" /\ handle # None => handle \in programs

(* Resets and closes find no handle left when they end a page.               *)
Ending == {"reset_page", "reset_browser", "reset_driver", "close_page", "close_browser",
           "close_driver"}
EndingInv == pc \in Ending => open = {}

IndInv ==
    /\ WorkerInv /\ IdsInv /\ HandlesInv /\ ProgramsInv /\ EndingInv
    /\ ReceiptsAttestUnlessLost
-----------------------------------------------------------------------------
(* Steps that leave the page and what is in it alone.                        *)

Scene == <<drivers, browsers, pages, hosts, started, driver, browser, page, programs, nextId, lost>>

\* Such a step leaves the page and what is in it alone.
LEMMA Bystanders ==
  ASSUME \/ Prepare \/ Render \/ Draw \/ RunEnds \/ Release \/ CloseRenderer
         \/ EnsureStarted \/ SettlePrepare \/ SettleRender \/ WorkerFails
         \/ DrawReturns \/ DrawRaises \/ CloseHandles \/ Hang \/ UNCHANGED vars
  PROVE  UNCHANGED Scene
<1> USE DEF Scene, worker, refs, progs, tallies, Quiet
<1>1. CASE Prepare \/ Render BY <1>1 DEF Prepare, Render, Begin
<1>2. CASE Draw \/ RunEnds \/ Release \/ CloseRenderer
  BY <1>2 DEF Draw, RunEnds, Release, CloseRenderer
<1>3. CASE EnsureStarted \/ SettlePrepare \/ SettleRender \/ WorkerFails
  BY <1>3 DEF EnsureStarted, SettlePrepare, SettleRender, WorkerFails
<1>4. CASE DrawReturns \/ DrawRaises \/ CloseHandles \/ Hang
  BY <1>4 DEF DrawReturns, DrawRaises, CloseHandles, Hang
<1>5. CASE UNCHANGED vars BY <1>5 DEF vars
<1> QED BY <1>1, <1>2, <1>3, <1>4, <1>5

(* Where they leave the call.                                                *)
LEMMA BystanderPcs ==
  ASSUME \/ Prepare \/ Render \/ Draw \/ RunEnds \/ Release \/ CloseRenderer
         \/ EnsureStarted \/ SettlePrepare \/ SettleRender \/ WorkerFails
         \/ DrawReturns \/ DrawRaises \/ CloseHandles \/ Hang \/ UNCHANGED vars
  PROVE  \/ pc' = pc
         \/ pc' \in {"start", "idle", "draw", "close_program", "close_handles", "close_page", "evaluate"}
         \/ pc' = "driver" /\ ~PageUsable
<1>1. CASE Prepare \/ Render BY <1>1 DEF Prepare, Render, Begin
<1>2. CASE Draw \/ RunEnds \/ Release \/ CloseRenderer
  BY <1>2 DEF Draw, RunEnds, Release, CloseRenderer, Unavailable
<1>3. CASE EnsureStarted \/ SettlePrepare \/ SettleRender \/ WorkerFails
  BY <1>3 DEF EnsureStarted, SettlePrepare, SettleRender, WorkerFails
<1>4. CASE DrawReturns \/ DrawRaises \/ CloseHandles \/ Hang
  BY <1>4 DEF DrawReturns, DrawRaises, CloseHandles, Hang, Unavailable
<1>5. CASE UNCHANGED vars BY <1>5 DEF vars
<1> QED BY <1>1, <1>2, <1>3, <1>4, <1>5

\* Every step keeps the worker in shape.
LEMMA WorkerStep ==
  ASSUME WorkerInv, [Next]_vars
  PROVE  WorkerInv'
<1> USE DEF WorkerInv, PageUsable
<1>1. CASE \/ Prepare \/ Render \/ Draw \/ RunEnds \/ Release \/ CloseRenderer
           \/ EnsureStarted \/ SettlePrepare \/ SettleRender \/ WorkerFails
           \/ DrawReturns \/ DrawRaises \/ CloseHandles \/ Hang \/ UNCHANGED vars
  BY <1>1, Bystanders, BystanderPcs DEF Scene
<1>2. CASE StartDriver BY <1>2 DEF StartDriver
<1>3. CASE Launch BY <1>3 DEF Launch
<1>4. CASE NewPage BY <1>4 DEF NewPage
<1>5. CASE SetContent BY <1>5 DEF SetContent, refs
<1>6. CASE Evaluate BY <1>6 DEF Evaluate, worker, refs
<1>7. CASE TimedOut BY <1>7 DEF TimedOut, worker
<1>8. CASE ResetStep \/ ResetDrawDone
  BY <1>8 DEF ResetStep, ResetDrawDone, Reset, Shut, worker, refs, Unavailable
<1>9. CASE CloseProgram BY <1>9 DEF CloseProgram, worker, refs
<1>10. CASE ClosePage BY <1>10 DEF ClosePage, Shut, worker
<1>11. CASE CloseBrowser BY <1>11 DEF CloseBrowser, Shut, worker
<1>12. CASE CloseDriver BY <1>12 DEF CloseDriver, StopDriver, Shut, worker, Unavailable
<1>13. CASE BrowserDies BY <1>13 DEF BrowserDies, Shut, refs
<1>14. CASE Cancel BY <1>14 DEF Cancel, refs
<1> QED
  BY <1>1, <1>2, <1>3, <1>4, <1>5, <1>6, <1>7, <1>8, <1>9, <1>10, <1>11, <1>12, <1>13, <1>14
  DEF Next, Serve

\* Every step keeps the ids of the page below the next one.
LEMMA IdsStep ==
  ASSUME IdsInv, [Next]_vars
  PROVE  IdsInv'
<1> USE DEF IdsInv
<1>1. CASE UNCHANGED <<programs, nextId>> BY <1>1
<1>2. CASE NewPage BY <1>2 DEF NewPage
<1>3. CASE Evaluate
  <2>1. CASE PrepareInPage BY <2>1 DEF PrepareInPage, FreshId
  <2>2. CASE RenderInPage BY <2>2 DEF RenderInPage
  <2> QED BY <1>3, <2>1, <2>2 DEF Evaluate
<1>4. CASE CloseProgram BY <1>4 DEF CloseProgram
<1>5. CASE Cancel BY <1>5 DEF Cancel, FreshId
<1>6. CASE StartDriver \/ Launch \/ SetContent \/ TimedOut \/ ResetStep \/ ResetDrawDone
  BY <1>1, <1>6 DEF StartDriver, Launch, SetContent, TimedOut, ResetStep, ResetDrawDone, progs
<1>7. CASE ClosePage \/ CloseBrowser \/ CloseDriver \/ BrowserDies
  BY <1>1, <1>7 DEF ClosePage, CloseBrowser, CloseDriver, BrowserDies, progs
<1>8. CASE \/ Prepare \/ Render \/ Draw \/ RunEnds \/ Release \/ CloseRenderer
           \/ EnsureStarted \/ SettlePrepare \/ SettleRender \/ WorkerFails
           \/ DrawReturns \/ DrawRaises \/ CloseHandles \/ Hang \/ UNCHANGED vars
  BY <1>1, <1>8, Bystanders DEF Scene
<1> QED BY <1>2, <1>3, <1>4, <1>5, <1>6, <1>7, <1>8 DEF Next, Serve

-----------------------------------------------------------------------------
(* Handles.                                                                  *)

(* The same of a handle after the step.                                      *)
AttestsNext(h) ==
    \/ h.page \in lost'
    \/ /\ PageUsable' /\ h.page = page'
       /\ h.id \in Nat /\ h.id < nextId'
       /\ \A p \in programs' : p.id = h.id => p = h

\* It suffices to look at each handle after the step.
LEMMA HandlesNext ==
  ASSUME /\ \A h \in open' : AttestsNext(h)
         /\ pc' = "settle" /\ kind' = "prepare" /\ handle' # None => AttestsNext(handle')
         /\ pc' = "close_program" => handle' \notin open' /\ AttestsNext(handle')
         /\ pc' = "draw" => handle' \in open'
  PROVE  HandlesInv'
BY DEF HandlesInv, Attests, AttestsNext, PageUsable

(* What keeps a handle bound to its program.                                 *)
LEMMA StillAttests ==
  ASSUME UNCHANGED <<pages, page, nextId>>, programs' \subseteq programs, lost \subseteq lost'
  PROVE  \A h : Attests(h) => AttestsNext(h)
BY DEF Attests, AttestsNext, PageUsable

(* A new program has an id of its own.                                       *)
LEMMA NewProgramAttests ==
  ASSUME IdsInv, WorkerInv, page \in hosts, UNCHANGED <<pages, page, lost>>, NEW new,
         new.page = page, new.id = nextId,
         programs' = {q \in programs : q.id # nextId} \cup {new}, nextId' = FreshId
  PROVE  AttestsNext(new) /\ \A h : Attests(h) => AttestsNext(h)
<1>1. PageUsable' /\ nextId \in Nat BY DEF PageUsable, WorkerInv, IdsInv
<1>2. AttestsNext(new) BY <1>1 DEF AttestsNext, FreshId
<1>3. ASSUME NEW h, Attests(h) PROVE AttestsNext(h)
  <2>1. CASE h.page \in lost BY <2>1 DEF AttestsNext
  <2>2. CASE h.page \notin lost BY <1>1, <1>3, <2>2 DEF Attests, AttestsNext, FreshId
  <2> QED BY <2>1, <2>2
<1> QED BY <1>2, <1>3

(* A page that died took its browser along, which is known to be lost.       *)
LEMMA DeathAttests ==
  ASSUME WorkerInv, BrowserDies
  PROVE  \A h : Attests(h) => AttestsNext(h)
<1> SUFFICES ASSUME NEW h, Attests(h) PROVE AttestsNext(h) OBVIOUS
<1>1. UNCHANGED <<page, programs, nextId>> /\ lost' = lost \cup {browser}
  BY DEF BrowserDies, refs, progs
<1>2. CASE h.page \in lost BY <1>1, <1>2 DEF AttestsNext
<1>3. CASE h.page \notin lost
  <2>1. h.page = page /\ page \in pages BY <1>3 DEF Attests, PageUsable
  <2>2. h.page = browser BY <2>1 DEF WorkerInv
  <2> QED BY <1>1, <2>2 DEF AttestsNext
<1> QED BY <1>2, <1>3

\* Every step that ends a page finds no handle open.
LEMMA EndingStep ==
  ASSUME EndingInv, [Next]_vars
  PROVE  EndingInv'
<1> USE DEF EndingInv, Ending
<1>1. CASE Prepare \/ Render BY <1>1 DEF Prepare, Render, Begin
<1>2. CASE Draw \/ RunEnds \/ Release \/ CloseRenderer
  BY <1>2 DEF Draw, RunEnds, Release, CloseRenderer, Unavailable, progs
<1>3. CASE EnsureStarted \/ SettlePrepare \/ SettleRender \/ WorkerFails
  BY <1>3 DEF EnsureStarted, SettlePrepare, SettleRender, WorkerFails
<1>4. CASE DrawReturns \/ DrawRaises \/ Hang
  BY <1>4 DEF DrawReturns, DrawRaises, Hang, Unavailable, progs
<1>5. CASE StartDriver \/ Launch \/ NewPage \/ SetContent \/ Evaluate
  BY <1>5 DEF StartDriver, Launch, NewPage, SetContent, Evaluate
<1>6. CASE TimedOut BY <1>6 DEF TimedOut, Invalidate
<1>7. CASE ResetStep \/ ResetDrawDone
  BY <1>7 DEF ResetStep, ResetDrawDone, Unavailable, progs
<1>8. CASE CloseHandles BY <1>8 DEF CloseHandles
<1>9. CASE CloseProgram BY <1>9 DEF CloseProgram
<1>10. CASE ClosePage \/ CloseBrowser \/ CloseDriver
  BY <1>10 DEF ClosePage, CloseBrowser, CloseDriver, Unavailable, progs
<1>11. CASE BrowserDies BY <1>11 DEF BrowserDies, progs
<1>12. CASE Cancel BY <1>12 DEF Cancel
<1>13. CASE UNCHANGED vars BY <1>13 DEF vars, progs
<1> QED
  BY <1>1, <1>2, <1>3, <1>4, <1>5, <1>6, <1>7, <1>8, <1>9, <1>10, <1>11, <1>12, <1>13 DEF Next, Serve

(* What the steps that leave the page alone do to handles.                   *)
LEMMA BystanderHandles ==
  ASSUME WorkerInv, HandlesInv,
         \/ Prepare \/ Render \/ Draw \/ RunEnds \/ Release \/ CloseRenderer
         \/ EnsureStarted \/ SettlePrepare \/ SettleRender \/ WorkerFails
         \/ DrawReturns \/ DrawRaises \/ CloseHandles \/ Hang \/ UNCHANGED vars
  PROVE  HandlesInv'
<1>1. \A h : Attests(h) => AttestsNext(h) BY Bystanders, StillAttests DEF Scene
<1>2. SUFFICES /\ \A h \in open' : Attests(h)
               /\ pc' = "settle" /\ kind' = "prepare" /\ handle' # None => Attests(handle')
               /\ pc' = "close_program" => handle' \notin open' /\ Attests(handle')
               /\ pc' = "draw" => handle' \in open'
  BY <1>1, HandlesNext
<1> USE DEF HandlesInv
<1>3. CASE Prepare \/ Render BY <1>3 DEF Prepare, Render, Begin, progs
<1>4. CASE Draw BY <1>4 DEF Draw, Unavailable, progs
<1>5. CASE RunEnds BY <1>5 DEF RunEnds, progs, call
<1>6. CASE Release BY <1>6 DEF Release
<1>7. CASE CloseRenderer BY <1>7 DEF CloseRenderer, progs
<1>8. CASE EnsureStarted BY <1>8 DEF EnsureStarted, progs
<1>9. CASE SettlePrepare BY <1>9 DEF SettlePrepare
<1>10. CASE SettleRender \/ WorkerFails BY <1>10 DEF SettleRender, WorkerFails, progs
<1>11. CASE DrawReturns \/ DrawRaises BY <1>11 DEF DrawReturns, DrawRaises, Unavailable, progs
<1>12. CASE CloseHandles BY <1>12 DEF CloseHandles
<1>13. CASE Hang BY <1>13 DEF Hang, progs, call
<1>14. CASE UNCHANGED vars BY <1>14 DEF vars, progs, call
<1> QED BY <1>3, <1>4, <1>5, <1>6, <1>7, <1>8, <1>9, <1>10, <1>11, <1>12, <1>13, <1>14

\* Every step keeps every handle bound to its program.
LEMMA HandlesStep ==
  ASSUME WorkerInv, IdsInv, HandlesInv, EndingInv, [Next]_vars
  PROVE  HandlesInv'
<1>1. CASE \/ Prepare \/ Render \/ Draw \/ RunEnds \/ Release \/ CloseRenderer
           \/ EnsureStarted \/ SettlePrepare \/ SettleRender \/ WorkerFails
           \/ DrawReturns \/ DrawRaises \/ CloseHandles \/ Hang \/ UNCHANGED vars
  BY <1>1, BystanderHandles
<1>2. CASE StartDriver \/ Launch \/ SetContent
  <2>1. UNCHANGED <<pages, page, nextId, programs, lost, open>>
        /\ pc' \notin {"settle", "close_program", "draw"}
    BY <1>2 DEF StartDriver, Launch, SetContent, Quiet, refs, progs
  <2> QED BY <2>1, StillAttests, HandlesNext DEF HandlesInv
<1>3. CASE NewPage
  <2>1. ~PageUsable /\ UNCHANGED <<open, lost>> /\ pc' = "set_content"
    BY <1>3 DEF NewPage, WorkerInv, Quiet
  <2>2. \A h \in open : h.page \in lost BY <2>1 DEF HandlesInv, Attests
  <2> QED BY <2>1, <2>2, HandlesNext DEF AttestsNext
<1>4. CASE Evaluate
  <2>1. UNCHANGED <<pages, page, lost, open, kind>> /\ pc' = "settle" /\ page \in hosts
    BY <1>4 DEF Evaluate, worker, refs, tallies
  <2>2. CASE /\ handle' = [page |-> page, id |-> nextId, src |-> source]
             /\ programs' = {q \in programs : q.id # nextId} \cup {handle'}
             /\ nextId' = FreshId
    <3>1. handle'.page = page /\ handle'.id = nextId BY <2>2
    <3>2. AttestsNext(handle') /\ \A h : Attests(h) => AttestsNext(h)
      BY <2>1, <2>2, <3>1, NewProgramAttests
    <3> QED BY <2>1, <3>2, HandlesNext DEF HandlesInv
  <2>3. CASE handle' = None /\ UNCHANGED <<programs, nextId>>
    <3>1. \A h : Attests(h) => AttestsNext(h) BY <2>1, <2>3, StillAttests
    <3> QED BY <2>1, <2>3, <3>1, HandlesNext DEF HandlesInv
  <2> QED BY <1>4, <2>2, <2>3 DEF Evaluate, PrepareInPage, RenderInPage
<1>5. CASE TimedOut
  <2>1. open' = {} /\ pc' = "reset_page" BY <1>5 DEF TimedOut, Invalidate
  <2> QED BY <2>1 DEF HandlesInv
<1>6. CASE ResetStep \/ ResetDrawDone \/ ClosePage \/ CloseBrowser \/ CloseDriver
  <2>1. pc \in Ending /\ UNCHANGED open /\ pc' \notin {"settle", "close_program", "draw"}
    BY <1>6 DEF ResetStep, ResetDrawDone, ClosePage, CloseBrowser, CloseDriver, Ending, Unavailable,
                progs
  <2> QED BY <2>1 DEF EndingInv, HandlesInv
<1>7. CASE CloseProgram
  <2>1. UNCHANGED <<pages, page, nextId, lost, open>> /\ programs' \subseteq programs
        /\ pc' \in {"idle", "close_handles"}
    BY <1>7 DEF CloseProgram, worker, refs
  <2> QED BY <2>1, StillAttests, HandlesNext DEF HandlesInv
<1>8. CASE BrowserDies
  <2>1. UNCHANGED <<open, pc, kind, handle>> BY <1>8 DEF BrowserDies, progs, call
  <2> QED BY <1>8, <2>1, DeathAttests, HandlesNext DEF HandlesInv
<1>9. CASE Cancel
  <2>1. UNCHANGED <<pages, page, lost, open>> /\ pc' = "idle"
    BY <1>9 DEF Cancel, refs
  <2>2. CASE UNCHANGED <<programs, nextId>>
    BY <2>1, <2>2, StillAttests, HandlesNext DEF HandlesInv
  <2>3. CASE /\ page \in hosts
             /\ programs' = {q \in programs : q.id # nextId}
                                \cup {[page |-> page, id |-> nextId, src |-> source]}
             /\ nextId' = FreshId
    <3> DEFINE new == [page |-> page, id |-> nextId, src |-> source]
    <3>1. new.page = page /\ new.id = nextId OBVIOUS
    <3>2. \A h : Attests(h) => AttestsNext(h) BY <2>1, <2>3, <3>1, NewProgramAttests
    <3> QED BY <2>1, <3>2, HandlesNext DEF HandlesInv
  <2> QED BY <1>9, <2>2, <2>3 DEF Cancel
<1> QED
  BY <1>1, <1>2, <1>3, <1>4, <1>5, <1>6, <1>7, <1>8, <1>9 DEF Next, Serve

-----------------------------------------------------------------------------
(* Programs.                                                                 *)

\* A browser that is lost stays lost.
LEMMA LostStay ==
  ASSUME [Next]_vars
  PROVE  lost \subseteq lost'
<1>1. CASE BrowserDies BY <1>1 DEF BrowserDies
<1>2. CASE StartDriver \/ Launch \/ NewPage \/ SetContent \/ Evaluate
  BY <1>2 DEF StartDriver, Launch, NewPage, SetContent, Evaluate, Quiet, tallies
<1>3. CASE TimedOut \/ ResetStep \/ ResetDrawDone \/ CloseProgram
  BY <1>3 DEF TimedOut, ResetStep, ResetDrawDone, CloseProgram
<1>4. CASE ClosePage \/ CloseBrowser \/ CloseDriver \/ Cancel
  BY <1>4 DEF ClosePage, CloseBrowser, CloseDriver, Cancel
<1>5. CASE \/ Prepare \/ Render \/ Draw \/ RunEnds \/ Release \/ CloseRenderer
           \/ EnsureStarted \/ SettlePrepare \/ SettleRender \/ WorkerFails
           \/ DrawReturns \/ DrawRaises \/ CloseHandles \/ Hang \/ UNCHANGED vars
  BY <1>5, Bystanders DEF Scene
<1> QED BY <1>1, <1>2, <1>3, <1>4, <1>5 DEF Next, Serve

\* Every step keeps the programs with their handles.
LEMMA ProgramsStep ==
  ASSUME WorkerInv, IdsInv, HandlesInv, EndingInv, ProgramsInv, [Next]_vars
  PROVE  ProgramsInv'
<1> SUFFICES ASSUME lost' = {}
             PROVE  /\ \A h \in open' : h \in programs'
                    /\ pc' = "settle" /\ kind' = "prepare" /\ handle' # None => handle' \in programs'
  BY DEF ProgramsInv
<1>0. lost = {} BY LostStay
<1>1. /\ \A h \in open : h \in programs /\ Attests(h)
      /\ pc = "settle" /\ kind = "prepare" /\ handle # None => handle \in programs
  BY <1>0 DEF ProgramsInv, HandlesInv
<1>2. CASE /\ open' \subseteq open /\ UNCHANGED programs
           /\ pc' = "settle" => UNCHANGED <<pc, kind, handle>>
  BY <1>1, <1>2
<1>3. CASE Prepare \/ Render \/ RunEnds \/ CloseRenderer
  BY <1>2, <1>3 DEF Prepare, Render, Begin, RunEnds, CloseRenderer, progs, call
<1>4. CASE Draw BY <1>2, <1>4 DEF Draw, Unavailable, progs
<1>5. CASE Release \/ CloseHandles BY <1>2, <1>5 DEF Release, CloseHandles
<1>6. CASE EnsureStarted \/ SettleRender \/ WorkerFails
  BY <1>2, <1>6 DEF EnsureStarted, SettleRender, WorkerFails, progs
<1>7. CASE SettlePrepare BY <1>1, <1>7 DEF SettlePrepare
<1>8. CASE DrawReturns \/ DrawRaises \/ Hang \/ UNCHANGED vars
  BY <1>2, <1>8 DEF DrawReturns, DrawRaises, Unavailable, Hang, progs, call, vars
<1>9. CASE StartDriver \/ Launch \/ SetContent
  BY <1>2, <1>9 DEF StartDriver, Launch, SetContent, progs
<1>10. CASE NewPage
  <2>1. ~PageUsable /\ UNCHANGED open /\ pc' = "set_content" BY <1>10 DEF NewPage, WorkerInv
  <2>2. open = {} BY <1>0, <1>1, <2>1 DEF Attests
  <2> QED BY <2>1, <2>2
<1>11. CASE Evaluate
  <2>1. \A h \in open : h.id # nextId BY <1>0, <1>1, <1>11 DEF Attests, IdsInv
  <2>2. UNCHANGED open BY <1>11 DEF Evaluate
  <2>3. CASE PrepareInPage BY <1>1, <2>1, <2>2, <2>3 DEF PrepareInPage
  <2>4. CASE RenderInPage BY <1>1, <2>2, <2>4 DEF RenderInPage
  <2> QED BY <1>11, <2>3, <2>4 DEF Evaluate
<1>12. CASE TimedOut BY <1>12 DEF TimedOut, Invalidate
<1>13. CASE ResetStep \/ ResetDrawDone \/ ClosePage \/ CloseBrowser \/ CloseDriver
  BY <1>2, <1>13 DEF ResetStep, ResetDrawDone, ClosePage, CloseBrowser, CloseDriver, Unavailable,
                     progs
<1>14. CASE CloseProgram
  <2>1. handle \notin open /\ Attests(handle) BY <1>14 DEF CloseProgram, HandlesInv
  <2>2. \A h \in open : h \notin DrawTarget(handle)
    BY <1>0, <1>1, <2>1 DEF Attests, DrawTarget
  <2>3. programs' = programs \/ programs' = programs \ DrawTarget(handle)
    BY <1>14 DEF CloseProgram
  <2>4. UNCHANGED open /\ pc' # "settle" BY <1>14 DEF CloseProgram
  <2> QED BY <1>1, <2>2, <2>3, <2>4
<1>15. CASE BrowserDies BY <1>0, <1>15 DEF BrowserDies
<1>16. CASE Cancel
  <2>1. \A h \in open : h.id # nextId BY <1>0, <1>1 DEF Attests, IdsInv
  <2> QED BY <1>1, <1>16, <2>1 DEF Cancel
<1> QED
  BY <1>3, <1>4, <1>5, <1>6, <1>7, <1>8, <1>9, <1>10, <1>11, <1>12, <1>13, <1>14, <1>15, <1>16
  DEF Next, Serve

(* Only the end of a draw makes a receipt.                                   *)
LEMMA ReceiptsMade ==
  ASSUME [Next]_vars
  PROVE  DrawReturns \/ receipt' \in {receipt, None}
<1>1. CASE Prepare \/ Render \/ Draw \/ RunEnds \/ Release \/ CloseRenderer
  BY <1>1 DEF Prepare, Render, Begin, Draw, RunEnds, Release, CloseRenderer
<1>2. CASE EnsureStarted \/ SettlePrepare \/ SettleRender \/ WorkerFails \/ DrawRaises
  BY <1>2 DEF EnsureStarted, SettlePrepare, SettleRender, WorkerFails, DrawRaises, Quiet
<1>3. CASE StartDriver \/ Launch \/ NewPage \/ SetContent \/ Evaluate
  BY <1>3 DEF StartDriver, Launch, NewPage, SetContent, Evaluate, Quiet
<1>4. CASE TimedOut \/ ResetStep \/ ResetDrawDone \/ CloseHandles \/ CloseProgram
  BY <1>4 DEF TimedOut, ResetStep, ResetDrawDone, CloseHandles, CloseProgram
<1>5. CASE ClosePage \/ CloseBrowser \/ CloseDriver \/ Hang \/ BrowserDies \/ Cancel
  BY <1>5 DEF ClosePage, CloseBrowser, CloseDriver, Hang, BrowserDies, Cancel
<1>6. CASE UNCHANGED vars BY <1>6 DEF vars
<1> QED BY <1>1, <1>2, <1>3, <1>4, <1>5, <1>6 DEF Next, Serve

\* Every step keeps a receipt true to what was drawn.
LEMMA ReceiptsStep ==
  ASSUME HandlesInv, ReceiptsAttestUnlessLost, [Next]_vars
  PROVE  ReceiptsAttestUnlessLost'
<1> USE DEF ReceiptsAttestUnlessLost
<1>1. CASE receipt' \in {receipt, None} BY <1>1, LostStay
<1>2. CASE DrawReturns
  <2>1. CASE DrawTarget(handle) = {} BY <1>2, <2>1 DEF DrawReturns
  <2>2. CASE DrawTarget(handle) # {}
    <3> DEFINE p == CHOOSE q \in DrawTarget(handle) : TRUE
    <3>1. p \in DrawTarget(handle) BY <2>2
    <3>2. receipt' = [by |-> handle, drawn |-> p.src] BY <1>2, <2>2 DEF DrawReturns
    <3>3. Attests(handle) /\ UNCHANGED lost BY <1>2 DEF DrawReturns, HandlesInv, tallies
    <3> HIDE DEF p
    <3>4. handle.page \in lost \/ p = handle BY <3>1, <3>3 DEF DrawTarget, Attests
    <3> QED BY <3>2, <3>3, <3>4
  <2> QED BY <2>1, <2>2
<1> QED BY <1>1, <1>2, ReceiptsMade

-----------------------------------------------------------------------------
(* The theorems.                                                             *)

\* The invariant holds at the start.
LEMMA InitInv == Init => IndInv
  BY DEF Init, IndInv, WorkerInv, IdsInv, HandlesInv, ProgramsInv, EndingInv, Ending, PageUsable,
         ReceiptsAttestUnlessLost

\* Every step keeps the invariant.
LEMMA StepInv == IndInv /\ [Next]_vars => IndInv'
  BY WorkerStep, IdsStep, HandlesStep, ProgramsStep, EndingStep, ReceiptsStep DEF IndInv

(* The invariant holds in every state of every renderer.                     *)
THEOREM Invariance == Spec => []IndInv
<1>1. Init => IndInv BY InitInv
<1>2. IndInv /\ [Next]_vars => IndInv' BY StepInv
<1> QED BY <1>1, <1>2, PTL DEF Spec

(* _prepared: unless a browser died, every handle that is not closed has its *)
(* program in the current page, however calls fail, hang, time out, are      *)
(* replayed or cancelled.                                                    *)
THEOREM OpenHandlesArePrepared == Spec => []OpenHandleHasProgram
<1>1. IndInv => OpenHandleHasProgram
  BY DEF IndInv, HandlesInv, ProgramsInv, OpenHandleHasProgram, Attests
<1> QED BY <1>1, Invariance, PTL

(* render_uniforms: a receipt names the source that was drawn, unless its     *)
(* handle is left over from a browser that died.                             *)
THEOREM ReceiptsAttest == Spec => []ReceiptsAttestUnlessLost
<1>1. IndInv => ReceiptsAttestUnlessLost BY DEF IndInv
<1> QED BY <1>1, Invariance, PTL

-----------------------------------------------------------------------------
(* Types.                                                                    *)

WorkerTypes ==
    /\ drivers \subseteq 1..started /\ browsers \subseteq drivers
    /\ pages \subseteq browsers /\ hosts \subseteq pages /\ hung \subseteq 1..started
    /\ started \in Nat /\ {driver, browser, page, doomed} \subseteq 0..started
    /\ lost \subseteq 1..started
    /\ pc = "launch" => driver \in drivers

HandleTypes ==
    /\ programs \subseteq Handles /\ nextId \in Nat \ {0} /\ open \subseteq Handles
    /\ cache \subseteq Handles /\ releasing \subseteq Handles
    /\ handle \in Handles \cup {None} /\ source \in Sources \cup {None}
    /\ kind \in {"prepare", "render", "draw", "release", "close"}
    /\ kind \in {"prepare", "render"} => source \in Sources
    /\ pc = "settle" /\ kind = "prepare" /\ handle # None => handle \in Handles
    /\ pc = "draw" => handle \in Handles
    /\ receipt \in [by : Handles, drawn : Sources] \cup {None}

PlainTypes ==
    /\ mode \in {"using", "ending", "closed", "abandoned"}
    /\ try \in 0..(Replays + 1)
    /\ calls \in 0..MaxCalls /\ faults \in 0..MaxFaults /\ cancels \in 0..MaxCancels
    /\ mishaps \in Nat

FailingType == failing \in BOOLEAN

\* The type invariant by kinds of variables.
LEMMA TypeParts == WorkerTypes /\ HandleTypes /\ PlainTypes /\ FailingType => TypeOK
BY Zenon DEF WorkerTypes, HandleTypes, PlainTypes, FailingType, TypeOK

(* Closing takes away, and leaves what runs inside what.                     *)
LEMMA ShutTypes ==
  ASSUME WorkerTypes, NEW stage \in {"page", "browser", "driver"}, NEW w, Shut(stage, w)
  PROVE  /\ drivers' \subseteq 1..started' /\ browsers' \subseteq drivers'
         /\ pages' \subseteq browsers' /\ hosts' \subseteq pages' /\ hung' \subseteq 1..started'
         /\ started' = started
BY DEF WorkerTypes, Shut

\* Every step keeps the worker variables in their types.
LEMMA WorkerTypesStep ==
  ASSUME WorkerTypes, [Next]_vars
  PROVE  WorkerTypes'
<1> USE DEF WorkerTypes
<1>0. started \in Nat OBVIOUS
<1>1. CASE Hang BY <1>1 DEF Hang, refs
<1>2. ASSUME \/ Prepare \/ Render \/ Draw \/ RunEnds \/ Release \/ CloseRenderer
             \/ EnsureStarted \/ SettlePrepare \/ SettleRender \/ WorkerFails
             \/ DrawReturns \/ DrawRaises \/ CloseHandles \/ UNCHANGED vars
      PROVE  UNCHANGED <<hung, doomed>>
  <2>1. CASE Prepare \/ Render \/ Draw \/ RunEnds \/ Release \/ CloseRenderer
    BY <2>1 DEF Prepare, Render, Begin, Draw, RunEnds, Release, CloseRenderer, worker
  <2>2. CASE EnsureStarted \/ SettlePrepare \/ SettleRender \/ WorkerFails
    BY <2>2 DEF EnsureStarted, SettlePrepare, SettleRender, WorkerFails, worker, Quiet
  <2>3. CASE DrawReturns \/ DrawRaises \/ CloseHandles \/ UNCHANGED vars
    BY <2>3 DEF DrawReturns, DrawRaises, CloseHandles, worker, vars
  <2> QED BY <1>2, <2>1, <2>2, <2>3
<1>3. CASE \/ Prepare \/ Render \/ Draw \/ RunEnds \/ Release \/ CloseRenderer
           \/ EnsureStarted \/ SettlePrepare \/ SettleRender \/ WorkerFails
           \/ DrawReturns \/ DrawRaises \/ CloseHandles \/ UNCHANGED vars
  <2>1. UNCHANGED <<drivers, browsers, pages, hosts, hung, started, driver, browser, page, doomed, lost>>
    BY <1>2, <1>3, Bystanders DEF Scene
  <2>2. pc' = "launch" => pc = "launch" BY <1>3, BystanderPcs
  <2> QED BY <2>1, <2>2
<1>4. CASE StartDriver BY <1>4 DEF StartDriver, Quiet
<1>5. CASE Launch BY <1>5 DEF Launch, Quiet
<1>6. CASE NewPage BY <1>6 DEF NewPage, Quiet
<1>7. CASE SetContent \/ Evaluate
  BY <1>7 DEF SetContent, Evaluate, worker, refs, Quiet, tallies
<1>8. CASE TimedOut BY <1>8 DEF TimedOut, worker
<1>9. CASE ResetStep \/ ResetDrawDone
  <2>1. UNCHANGED <<driver, browser, page, doomed, lost>> /\ pc' # "launch"
    BY <1>9 DEF ResetStep, ResetDrawDone, refs, Unavailable
  <2>2. \/ UNCHANGED worker
        \/ Shut("page", doomed) \/ Shut("browser", doomed) \/ Shut("driver", doomed)
    BY <1>9 DEF ResetStep, ResetDrawDone, Reset
  <2> QED BY <2>1, <2>2, ShutTypes DEF worker
<1>10. CASE CloseProgram BY <1>10 DEF CloseProgram, worker, refs
<1>11. CASE ClosePage \/ CloseBrowser \/ CloseDriver
  <2>1. /\ UNCHANGED <<doomed, lost>> /\ pc' # "launch"
        /\ driver' \in {0, driver} /\ browser' \in {0, browser} /\ page' \in {0, page}
    BY <1>11 DEF ClosePage, CloseBrowser, CloseDriver, StopDriver, Unavailable
  <2>2. \/ UNCHANGED worker
        \/ Shut("page", page) \/ Shut("browser", browser) \/ Shut("driver", driver)
    BY <1>11 DEF ClosePage, CloseBrowser, CloseDriver, StopDriver
  <2>3. /\ drivers' \subseteq 1..started' /\ browsers' \subseteq drivers'
        /\ pages' \subseteq browsers' /\ hosts' \subseteq pages' /\ hung' \subseteq 1..started'
        /\ started' = started
    BY <2>2, ShutTypes DEF worker
  <2>4. {driver', browser', page', doomed'} \subseteq 0..started BY <1>0, <2>1
  <2> QED BY <1>0, <2>1, <2>3, <2>4
<1>12. CASE BrowserDies
  <2>1. /\ Shut("browser", browser) /\ browser \in 1..started
        /\ UNCHANGED <<driver, browser, page, doomed, pc>> /\ lost' = lost \cup {browser}
    BY <1>12 DEF BrowserDies, refs
  <2>2. drivers' = drivers BY <2>1 DEF Shut
  <2> QED BY <2>1, <2>2, ShutTypes
<1>13. CASE Cancel
  <2>1. UNCHANGED <<browsers, pages, hosts, hung, driver, browser, page, doomed, lost>> /\ pc' = "idle"
    BY <1>13 DEF Cancel, refs
  <2>2. \/ UNCHANGED <<drivers, started>>
        \/ started' = started + 1 /\ drivers' = drivers \cup {started'}
    BY <1>13 DEF Cancel
  <2>3. CASE UNCHANGED <<drivers, started>> BY <2>1, <2>3
  <2>4. CASE started' = started + 1 /\ drivers' = drivers \cup {started'}
    <3>1. started' \in Nat /\ 1..started \subseteq 1..started' /\ 0..started \subseteq 0..started'
          /\ started' \in 1..started'
      BY <1>0, <2>4
    <3>2. drivers' \subseteq 1..started' /\ browsers' \subseteq drivers' BY <2>1, <2>4, <3>1
    <3>3. hung' \subseteq 1..started' /\ lost' \subseteq 1..started' BY <2>1, <3>1
    <3>4. {driver', browser', page', doomed'} \subseteq 0..started' BY <2>1, <3>1
    <3> QED BY <2>1, <3>1, <3>2, <3>3, <3>4
  <2> QED BY <2>2, <2>3, <2>4
<1> QED
  BY <1>1, <1>3, <1>4, <1>5, <1>6, <1>7, <1>8, <1>9, <1>10, <1>11, <1>12, <1>13 DEF Next, Serve

(* The program a preparation registers.                                      *)
LEMMA ProgramType ==
  ASSUME WorkerTypes, HandleTypes, kind = "prepare"
  PROVE  [page |-> page, id |-> nextId, src |-> source] \in Handles
<1>1. page \in Nat /\ nextId \in Nat /\ source \in Sources BY DEF WorkerTypes, HandleTypes
<1> QED BY <1>1 DEF Handles

\* Every step keeps the handle variables in their types.
LEMMA HandleTypesStep ==
  ASSUME WorkerTypes, HandleTypes, HandlesInv, [Next]_vars
  PROVE  HandleTypes'
<1> USE DEF HandleTypes
<1>1. CASE Prepare \/ Render BY <1>1 DEF Prepare, Render, Begin, progs, attempt
<1>2. CASE Draw BY <1>2 DEF Draw, Unavailable, progs, attempt
<1>3. CASE RunEnds BY <1>3 DEF RunEnds, progs, call
<1>4. CASE Release BY <1>4 DEF Release
<1>5. CASE CloseRenderer BY <1>5 DEF CloseRenderer, progs, attempt
<1>6. CASE EnsureStarted \/ StartDriver \/ Launch \/ SetContent
  BY <1>6 DEF EnsureStarted, StartDriver, Launch, SetContent, Quiet, progs, call, attempt
<1>7. CASE NewPage BY <1>7 DEF NewPage, Quiet, call, attempt
<1>8. CASE Evaluate
  <2>1. UNCHANGED <<open, kind, source, cache, releasing, receipt>> /\ pc' = "settle"
    BY <1>8 DEF Evaluate, attempt
  <2>2. CASE kind = "prepare" /\ PrepareInPage
    BY <2>1, <2>2, ProgramType DEF PrepareInPage, FreshId
  <2>3. CASE RenderInPage BY <2>1, <2>3 DEF RenderInPage
  <2> QED BY <1>8, <2>2, <2>3 DEF Evaluate
<1>9. CASE SettlePrepare BY <1>9 DEF SettlePrepare, call
<1>10. CASE SettleRender \/ WorkerFails
  BY <1>10 DEF SettleRender, WorkerFails, progs, call, attempt
<1>11. CASE DrawReturns
  <2>1. /\ UNCHANGED <<programs, nextId, open, kind, source, handle, cache, releasing>>
        /\ pc' = "idle" /\ handle \in Handles
    BY <1>11 DEF DrawReturns, progs, call, attempt
  <2>2. CASE DrawTarget(handle) = {} BY <1>11, <2>1, <2>2 DEF DrawReturns
  <2>3. CASE DrawTarget(handle) # {}
    <3> DEFINE p == CHOOSE q \in DrawTarget(handle) : TRUE
    <3>1. p \in programs BY <2>3 DEF DrawTarget
    <3>2. receipt' = [by |-> handle, drawn |-> p.src] BY <1>11, <2>3 DEF DrawReturns
    <3> HIDE DEF p
    <3>3. p.src \in Sources BY <3>1 DEF Handles
    <3> QED BY <2>1, <3>2, <3>3
  <2> QED BY <2>2, <2>3
<1>12. CASE DrawRaises \/ ResetDrawDone
  BY <1>12 DEF DrawRaises, ResetDrawDone, Unavailable, progs, call
<1>13. CASE TimedOut BY <1>13 DEF TimedOut, Invalidate, call, attempt
<1>14. CASE ResetStep \/ ClosePage \/ CloseBrowser
  BY <1>14 DEF ResetStep, ClosePage, CloseBrowser, progs, call, attempt
<1>15. CASE CloseHandles BY <1>15 DEF CloseHandles, attempt
<1>16. CASE CloseProgram BY <1>16 DEF CloseProgram, call, attempt
<1>17. CASE CloseDriver BY <1>17 DEF CloseDriver, Unavailable, progs, attempt
<1>18. CASE Hang BY <1>18 DEF Hang, progs, call, attempt
<1>19. CASE BrowserDies BY <1>19 DEF BrowserDies, progs, call, attempt
<1>20. CASE Cancel
  <2>1. UNCHANGED <<open, kind, source, handle, receipt>> /\ pc' = "idle"
        /\ cache' \in {cache, {}} /\ releasing' \in {releasing, cache}
    BY <1>20 DEF Cancel, call
  <2>2. \/ UNCHANGED <<programs, nextId>>
        \/ /\ kind = "prepare" /\ nextId' = nextId + 1
           /\ programs' = {q \in programs : q.id # nextId}
                             \cup {[page |-> page, id |-> nextId, src |-> source]}
    BY <1>20 DEF Cancel, FreshId
  <2> QED BY <2>1, <2>2, ProgramType
<1>21. CASE UNCHANGED vars BY <1>21 DEF vars, progs, call, attempt
<1> QED
  BY <1>1, <1>2, <1>3, <1>4, <1>5, <1>6, <1>7, <1>8, <1>9, <1>10, <1>11, <1>12, <1>13, <1>14, <1>15,
     <1>16, <1>17, <1>18, <1>19, <1>20, <1>21
  DEF Next, Serve

\* Every step keeps the plain variables in their types.
LEMMA PlainTypesStep ==
  ASSUME PlainTypes, [Next]_vars
  PROVE  PlainTypes'
<1> USE RendererAssumption DEF PlainTypes, Fault
<1>1. CASE Prepare \/ Render BY <1>1 DEF Prepare, Render, Begin, attempt
<1>2. CASE Draw \/ RunEnds \/ Release \/ CloseRenderer
  BY <1>2 DEF Draw, RunEnds, Release, CloseRenderer, Unavailable, call, attempt, tallies
<1>3. CASE EnsureStarted \/ StartDriver \/ Launch \/ NewPage \/ SetContent
  BY <1>3 DEF EnsureStarted, StartDriver, Launch, NewPage, SetContent, Quiet, call, attempt
<1>4. CASE Evaluate \/ SettlePrepare \/ SettleRender \/ DrawReturns
  BY <1>4 DEF Evaluate, SettlePrepare, SettleRender, DrawReturns, call, attempt, tallies
<1>5. ASSUME Raises PROVE faults' \in 0..MaxFaults BY <1>5 DEF Raises, NoFault
<1>6. CASE WorkerFails \/ DrawRaises
  BY <1>5, <1>6 DEF WorkerFails, DrawRaises, Unavailable, call, attempt
<1>7. CASE TimedOut BY <1>7 DEF TimedOut, NoFault, call, attempt
<1>8. ASSUME NEW stage, Reset(stage) PROVE faults' \in 0..MaxFaults /\ mishaps' \in Nat
  BY <1>8 DEF Reset
<1>9. CASE ResetStep BY <1>8, <1>9 DEF ResetStep, call, attempt
<1>10. CASE ResetDrawDone BY <1>8, <1>10 DEF ResetDrawDone, Unavailable, call
<1>11. CASE CloseHandles BY <1>11 DEF CloseHandles, attempt, tallies
<1>12. CASE CloseProgram BY <1>5, <1>12 DEF CloseProgram, NoFault, call, attempt
<1>13. CASE ClosePage \/ CloseBrowser BY <1>13 DEF ClosePage, CloseBrowser, call, attempt
<1>14. CASE CloseDriver
  <2>1. faults' \in 0..MaxFaults /\ mishaps' \in Nat
    BY <1>14 DEF CloseDriver, StopDriver
  <2> QED BY <1>14, <2>1 DEF CloseDriver, Unavailable, attempt
<1>15. CASE Hang \/ BrowserDies BY <1>15 DEF Hang, BrowserDies, call, attempt
<1>16. CASE Cancel BY <1>16 DEF Cancel, call
<1>17. CASE UNCHANGED vars BY <1>17 DEF vars, call, attempt, tallies
<1> QED
  BY <1>1, <1>2, <1>3, <1>4, <1>6, <1>7, <1>9, <1>10, <1>11, <1>12, <1>13, <1>14, <1>15, <1>16, <1>17
  DEF Next, Serve

\* Every step keeps the failing flag in its type.
LEMMA FailingTypeStep ==
  ASSUME FailingType, [Next]_vars
  PROVE  FailingType'
<1> USE DEF FailingType
<1>1. CASE UNCHANGED failing BY <1>1
<1>2. CASE failing' = TRUE \/ failing' = FALSE BY <1>2
<1>3. CASE Prepare \/ Render \/ Draw \/ RunEnds \/ Release
  BY <1>1, <1>3 DEF Prepare, Render, Begin, Draw, RunEnds, Release
<1>4. CASE CloseRenderer \/ WorkerFails BY <1>2, <1>4 DEF CloseRenderer, WorkerFails
<1>5. CASE EnsureStarted \/ StartDriver \/ Launch \/ NewPage \/ SetContent
  BY <1>1, <1>5 DEF EnsureStarted, StartDriver, Launch, NewPage, SetContent, Quiet
<1>6. CASE Evaluate \/ SettlePrepare \/ SettleRender \/ DrawReturns \/ DrawRaises
  BY <1>1, <1>6 DEF Evaluate, SettlePrepare, SettleRender, DrawReturns, DrawRaises
<1>7. CASE TimedOut \/ ResetDrawDone \/ CloseHandles \/ Hang \/ BrowserDies \/ Cancel
  BY <1>1, <1>7 DEF TimedOut, ResetDrawDone, CloseHandles, Hang, BrowserDies, Cancel
<1>8. CASE ResetStep \/ CloseProgram BY <1>1, <1>2, <1>8 DEF ResetStep, CloseProgram
<1>9. CASE ClosePage \/ CloseBrowser BY <1>1, <1>2, <1>9 DEF ClosePage, CloseBrowser
<1>10. CASE CloseDriver BY <1>1, <1>2, <1>10 DEF CloseDriver, StopDriver
<1>11. CASE UNCHANGED vars BY <1>1, <1>11 DEF vars
<1> QED
  BY <1>3, <1>4, <1>5, <1>6, <1>7, <1>8, <1>9, <1>10, <1>11 DEF Next, Serve

(* What exists is nested as the processes are, and every reference, handle   *)
(* and counter keeps its type.                                               *)
THEOREM TypeCorrect == Spec => []TypeOK
<1> DEFINE T == WorkerTypes /\ HandleTypes /\ PlainTypes /\ FailingType
<1>1. Init => T
  <2>1. Init => WorkerTypes BY DEF Init, WorkerTypes
  <2>2. Init => HandleTypes BY DEF Init, HandleTypes
  <2>3. Init => PlainTypes BY RendererAssumption DEF Init, PlainTypes
  <2>4. Init => FailingType BY Zenon DEF Init, FailingType
  <2> QED BY <2>1, <2>2, <2>3, <2>4
<1>2. T /\ IndInv /\ [Next]_vars => T'
  BY WorkerTypesStep, HandleTypesStep, PlainTypesStep, FailingTypeStep DEF IndInv
<1>3. T => TypeOK BY TypeParts
<1> HIDE DEF T
<1> QED BY <1>1, <1>2, <1>3, Invariance, PTL DEF Spec

-----------------------------------------------------------------------------
(* Drivers.                                                                  *)
(*                                                                           *)
(* Losing the only reference to a driver is counted before it happens: where  *)
(* a call may go on to start a driver without a page to use, the driver that  *)
(* Python still refers to is paid for already.                               *)

(* Where a missing page can only be the fault of a browser that died or of a  *)
(* driver that did not stop.                                                 *)
Served ==
    \/ pc \in {"start", "driver", "set_content", "evaluate", "settle", "draw", "close_program"}
    \/ pc = "idle" /\ mode = "using"

LinksInv == /\ pc = "new_page" => browser = driver
            /\ page \in pages => page = driver

LossInv ==
    /\ pc \in ResetPcs => Cardinality(drivers \ {doomed}) <= mishaps
    /\ pc \notin ResetPcs => Cardinality(drivers \ {driver}) <= mishaps
    /\ Served /\ ~PageUsable => Cardinality(drivers) <= mishaps

ClosedInv ==
    mode = "closed" => /\ pc = "idle" \/ (pc = "close_program" /\ kind = "release")
                       /\ Cardinality(drivers) <= mishaps

(* Part of a finite set is no larger.                                        *)
LEMMA PartIsFewer ==
  ASSUME NEW S, IsFiniteSet(S), NEW T, T \subseteq S
  PROVE  /\ IsFiniteSet(T) /\ Cardinality(T) \in Nat /\ Cardinality(S) \in Nat
         /\ Cardinality(T) <= Cardinality(S)
BY FS_Subset, FS_CardinalityType

(* One element makes one of difference.                                      *)
LEMMA OneMore ==
  ASSUME NEW S, IsFiniteSet(S), NEW x, NEW T, T \subseteq S \cup {x}
  PROVE  Cardinality(T) \in Nat /\ Cardinality(S) \in Nat /\ Cardinality(T) <= Cardinality(S) + 1
<1>1. /\ IsFiniteSet(S \cup {x}) /\ Cardinality(S) \in Nat
      /\ Cardinality(S \cup {x}) \in {Cardinality(S), Cardinality(S) + 1}
  BY FS_AddElement, FS_CardinalityType
<1>2. Cardinality(T) \in Nat /\ Cardinality(T) <= Cardinality(S \cup {x}) BY <1>1, PartIsFewer
<1> QED BY <1>1, <1>2

\* There are only so many drivers.
LEMMA DriversFinite ==
  ASSUME TypeOK
  PROVE  IsFiniteSet(drivers)
<1>1. IsFiniteSet(1..started) BY FS_Interval DEF TypeOK
<1> QED BY <1>1, FS_Subset DEF TypeOK

(* Which browser and page belong to which driver.                            *)
LEMMA LinksStep ==
  ASSUME TypeOK, WorkerInv, LinksInv, [Next]_vars
  PROVE  LinksInv'
<1> USE DEF LinksInv
<1>0. page \in pages => PageUsable BY DEF WorkerInv, PageUsable
<1>1. CASE \/ Prepare \/ Render \/ Draw \/ RunEnds \/ Release \/ CloseRenderer
           \/ EnsureStarted \/ SettlePrepare \/ SettleRender \/ WorkerFails
           \/ DrawReturns \/ DrawRaises \/ CloseHandles \/ Hang \/ UNCHANGED vars
  BY <1>1, Bystanders, BystanderPcs DEF Scene
<1>2. CASE StartDriver BY <1>0, <1>2 DEF StartDriver, WorkerInv
<1>3. CASE Launch BY <1>0, <1>3 DEF Launch, WorkerInv
<1>4. CASE NewPage BY <1>4 DEF NewPage
<1>5. CASE SetContent \/ Evaluate BY <1>5 DEF SetContent, Evaluate, worker, refs
<1>6. CASE TimedOut BY <1>6 DEF TimedOut, worker, WorkerInv
<1>7. CASE ResetStep \/ ResetDrawDone
  BY <1>7 DEF ResetStep, ResetDrawDone, Reset, Shut, worker, refs, Unavailable
<1>8. CASE CloseProgram BY <1>8 DEF CloseProgram, worker, refs
<1>9. CASE ClosePage \/ CloseBrowser
  BY <1>9 DEF ClosePage, CloseBrowser, Shut, worker, WorkerInv
<1>10. CASE CloseDriver
  BY <1>10 DEF CloseDriver, StopDriver, Shut, worker, Unavailable
<1>11. CASE BrowserDies BY <1>11 DEF BrowserDies, Shut, refs
<1>12. CASE Cancel BY <1>12 DEF Cancel, refs
<1> QED
  BY <1>1, <1>2, <1>3, <1>4, <1>5, <1>6, <1>7, <1>8, <1>9, <1>10, <1>11, <1>12 DEF Next, Serve

(* Mishaps are never taken back.                                             *)
LEMMA MishapsStay ==
  ASSUME TypeOK, [Next]_vars
  PROVE  mishaps <= mishaps'
<1> USE DEF TypeOK
<1>1. CASE Prepare \/ Render \/ Draw \/ RunEnds \/ Release \/ CloseRenderer
  BY <1>1 DEF Prepare, Render, Begin, Draw, RunEnds, Release, CloseRenderer, tallies
<1>2. CASE EnsureStarted \/ SettlePrepare \/ SettleRender \/ WorkerFails
  BY <1>2 DEF EnsureStarted, SettlePrepare, SettleRender, WorkerFails, Quiet, tallies
<1>3. CASE StartDriver \/ Launch \/ NewPage \/ SetContent \/ Evaluate
  BY <1>3 DEF StartDriver, Launch, NewPage, SetContent, Evaluate, Quiet, tallies
<1>4. CASE DrawReturns \/ DrawRaises \/ TimedOut \/ CloseHandles \/ CloseProgram
  BY <1>4 DEF DrawReturns, DrawRaises, TimedOut, CloseHandles, CloseProgram, tallies
<1>5. CASE ResetStep \/ ResetDrawDone BY <1>5 DEF ResetStep, ResetDrawDone, Reset
<1>6. CASE ClosePage \/ CloseBrowser \/ Hang BY <1>6 DEF ClosePage, CloseBrowser, Hang
<1>7. CASE CloseDriver BY <1>7 DEF CloseDriver, StopDriver
<1>8. CASE BrowserDies \/ Cancel BY <1>8 DEF BrowserDies, Cancel
<1>9. CASE UNCHANGED vars BY <1>9 DEF vars, tallies
<1> QED BY <1>1, <1>2, <1>3, <1>4, <1>5, <1>6, <1>7, <1>8, <1>9 DEF Next, Serve

(* The steps that leave the page alone do not get it served either.           *)
LEMMA BystanderServed ==
  ASSUME \/ Prepare \/ Render \/ Draw \/ RunEnds \/ Release \/ CloseRenderer
         \/ EnsureStarted \/ SettlePrepare \/ SettleRender \/ WorkerFails
         \/ DrawReturns \/ DrawRaises \/ CloseHandles \/ Hang \/ UNCHANGED vars
  PROVE  /\ pc' \notin ResetPcs \/ pc' = pc
         /\ pc \notin ResetPcs \/ pc' = pc
         /\ Served' /\ ~PageUsable' => Served /\ ~PageUsable
<1> USE DEF Served, PageUsable, ResetPcs
<1>1. CASE Prepare \/ Render BY <1>1 DEF Prepare, Render, Begin, Ready, worker, refs
<1>2. CASE Draw BY <1>2 DEF Draw, Unavailable, Ready, worker, refs
<1>3. CASE RunEnds \/ CloseRenderer
  BY <1>3 DEF RunEnds, CloseRenderer, Ready, worker, refs
<1>4. CASE Release BY <1>4 DEF Release, worker, refs
<1>5. CASE EnsureStarted \/ WorkerFails BY <1>5 DEF EnsureStarted, WorkerFails, worker, refs
<1>6. CASE SettlePrepare \/ SettleRender
  BY <1>6 DEF SettlePrepare, SettleRender, worker, refs
<1>7. CASE DrawReturns \/ DrawRaises
  BY <1>7 DEF DrawReturns, DrawRaises, Unavailable, worker, refs
<1>8. CASE CloseHandles BY <1>8 DEF CloseHandles, worker, refs
<1>9. CASE Hang BY <1>9 DEF Hang, refs, attempt
<1>10. CASE UNCHANGED vars BY <1>10 DEF vars, worker, refs, attempt
<1> QED BY <1>1, <1>2, <1>3, <1>4, <1>5, <1>6, <1>7, <1>8, <1>9, <1>10

(* Every driver that is let go of has its mishap.                            *)
LEMMA LossStep ==
  ASSUME TypeOK, TypeOK', WorkerInv, LinksInv, LossInv, [Next]_vars
  PROVE  LossInv'
<1>0. /\ IsFiniteSet(drivers) /\ IsFiniteSet(drivers')
      /\ mishaps \in Nat /\ mishaps' \in Nat /\ mishaps <= mishaps'
      /\ \A x : IsFiniteSet(drivers \ {x})
  <2>1. IsFiniteSet(drivers) BY DriversFinite
  <2>2. IsFiniteSet(1..started')
    <3>1. 1 \in Int /\ started' \in Int BY DEF TypeOK
    <3> QED BY <3>1, FS_Interval
  <2>3. IsFiniteSet(drivers') BY <2>2, FS_Subset DEF TypeOK
  <2> QED BY <2>1, <2>3, MishapsStay, FS_Subset DEF TypeOK
<1>1. ASSUME NEW T, NEW S, IsFiniteSet(S), Cardinality(S) <= mishaps, T \subseteq S
      PROVE  Cardinality(T) <= mishaps'
  BY <1>0, <1>1, PartIsFewer
<1>2. ASSUME NEW T, NEW S, IsFiniteSet(S), Cardinality(S) <= mishaps, mishaps' = mishaps + 1,
             NEW x, T \subseteq S \cup {x}
      PROVE  Cardinality(T) <= mishaps'
  <2>1. Cardinality(T) \in Nat /\ Cardinality(S) \in Nat /\ Cardinality(T) <= Cardinality(S) + 1
    BY <1>2, OneMore
  <2> QED BY <1>0, <1>2, <2>1
<1> USE DEF LossInv, ResetPcs
<1>3. CASE \/ Prepare \/ Render \/ Draw \/ RunEnds \/ Release \/ CloseRenderer
           \/ EnsureStarted \/ SettlePrepare \/ SettleRender \/ WorkerFails
           \/ DrawReturns \/ DrawRaises \/ CloseHandles \/ Hang \/ UNCHANGED vars
  <2>1. UNCHANGED <<drivers, driver>> BY <1>3, Bystanders DEF Scene
  <2>2. pc \in ResetPcs <=> pc' \in ResetPcs BY <1>3, BystanderServed
  <2>3. pc \in ResetPcs => UNCHANGED doomed
    BY <1>3, BystanderServed
       DEF Prepare, Render, Begin, Draw, RunEnds, Release, CloseRenderer, Ready, EnsureStarted,
           SettlePrepare, SettleRender, WorkerFails, DrawReturns, DrawRaises, CloseHandles, Hang, vars
  <2>4. CASE pc' \in ResetPcs
    BY <1>0, <1>1, <2>1, <2>2, <2>3, <2>4, BystanderServed, <1>3 DEF Served
  <2>5. CASE pc' \notin ResetPcs
    <3>1. Cardinality(drivers' \ {driver'}) <= mishaps' BY <1>0, <1>1, <2>1, <2>2, <2>5
    <3>2. Served' /\ ~PageUsable' => Cardinality(drivers') <= mishaps'
      BY <1>0, <1>1, <1>3, <2>1, BystanderServed
    <3> QED BY <2>5, <3>1, <3>2
  <2> QED BY <2>4, <2>5
<1>4. CASE StartDriver
  <2>1. /\ Served /\ ~PageUsable /\ pc' = "launch" /\ drivers' \ {driver'} \subseteq drivers
    BY <1>4 DEF StartDriver, Served, WorkerInv
  <2> QED BY <1>0, <1>1, <2>1 DEF Served
<1>5. CASE Launch \/ NewPage \/ SetContent \/ Evaluate
  <2>1. UNCHANGED <<drivers, driver>> /\ pc \notin ResetPcs /\ pc' \notin ResetPcs
    BY <1>5 DEF Launch, NewPage, SetContent, Evaluate, worker, refs
  <2>2. Cardinality(drivers' \ {driver'}) <= mishaps' BY <1>0, <1>1, <2>1
  <2>3. Served' /\ ~PageUsable' => FALSE
    BY <1>5, <1>0 DEF Launch, NewPage, SetContent, Evaluate, worker, refs, Served, PageUsable, TypeOK, WorkerInv
  <2> QED BY <2>1, <2>2, <2>3
<1>6. CASE TimedOut
  <2>1. /\ pc' = "reset_page" /\ UNCHANGED drivers /\ doomed' = page /\ driver' = 0
        /\ Served /\ pc \notin ResetPcs /\ page # 0
    BY <1>6 DEF TimedOut, TimerPcs, worker, Served
  <2>2. Cardinality(drivers' \ {doomed'}) <= mishaps'
    <3>1. CASE PageUsable
      <4>1. page = driver BY <3>1 DEF PageUsable, LinksInv
      <4> QED BY <1>0, <1>1, <2>1, <4>1
    <3>2. CASE ~PageUsable BY <1>0, <1>1, <2>1, <3>2
    <3> QED BY <3>1, <3>2
  <2> QED BY <2>1, <2>2 DEF Served
<1>7. CASE ResetStep \/ ResetDrawDone
  <2>1. UNCHANGED <<driver, doomed>> /\ pc \in ResetPcs
    BY <1>7 DEF ResetStep, ResetDrawDone, refs
  <2>2. drivers' \ {doomed} \subseteq drivers \ {doomed}
    BY <1>7 DEF ResetStep, ResetDrawDone, Reset, Shut, worker
  <2>3. Cardinality(drivers' \ {doomed'}) <= mishaps' BY <1>0, <1>1, <2>1, <2>2
  <2>4. CASE pc' \in ResetPcs BY <2>3, <2>4 DEF Served
  <2>5. CASE pc' \notin ResetPcs
    <3>1. Reset("driver")
      BY <1>7, <2>5 DEF ResetStep, ResetDrawDone
    <3>2. Cardinality(drivers') <= mishaps'
      <4>1. CASE Shut("driver", doomed)
        BY <1>0, <1>1, <2>1, <4>1 DEF Shut
      <4>2. CASE UNCHANGED worker /\ mishaps' = mishaps + 1
        <5>1. drivers' \subseteq (drivers \ {doomed}) \cup {doomed} BY <4>2 DEF worker
        <5> QED BY <1>0, <1>2, <2>1, <4>2, <5>1
      <4> QED BY <3>1, <4>1, <4>2 DEF Reset
    <3>3. Cardinality(drivers' \ {driver'}) <= mishaps'
      BY <1>0, <3>2, PartIsFewer
    <3> QED BY <2>5, <3>2, <3>3
  <2> QED BY <2>4, <2>5
<1>8. CASE CloseProgram
  <2>1. /\ UNCHANGED <<drivers, driver, page, pages>> /\ pc = "close_program"
        /\ pc' \in {"idle", "close_handles"}
    BY <1>8 DEF CloseProgram, worker, refs
  <2> QED BY <1>0, <1>1, <2>1 DEF Served, PageUsable
<1>9. CASE ClosePage \/ CloseBrowser
  <2>1. /\ UNCHANGED driver /\ drivers' \subseteq drivers /\ pc \notin ResetPcs
        /\ pc' \in {"close_browser", "close_driver"}
    BY <1>9 DEF ClosePage, CloseBrowser, Shut, worker
  <2>2. drivers' \ {driver'} \subseteq drivers \ {driver} BY <2>1
  <2> QED BY <1>0, <1>1, <2>1, <2>2 DEF Served
<1>10. CASE CloseDriver
  <2>1. pc \notin ResetPcs /\ pc' \in {"idle", "start"}
    BY <1>10 DEF CloseDriver, Unavailable
  <2>2. Cardinality(drivers') <= mishaps'
    <3>1. CASE Shut("driver", driver) BY <1>0, <1>1, <2>1, <3>1 DEF Shut
    <3>2. CASE UNCHANGED worker /\ mishaps' = mishaps + 1
      <4>1. drivers' \subseteq (drivers \ {driver}) \cup {driver} BY <3>2 DEF worker
      <4> QED BY <1>0, <1>2, <2>1, <3>2, <4>1
    <3> QED BY <1>10, <3>1, <3>2 DEF CloseDriver, StopDriver
  <2>3. Cardinality(drivers' \ {driver'}) <= mishaps' BY <1>0, <2>2, PartIsFewer
  <2> QED BY <2>1, <2>2, <2>3
<1>11. CASE BrowserDies
  <2>1. UNCHANGED <<drivers, driver, doomed, pc, mode, page>> /\ mishaps' = mishaps + 1
    BY <1>11 DEF BrowserDies, Shut, refs, attempt
  <2>2. CASE pc \in ResetPcs BY <1>0, <1>1, <2>1, <2>2 DEF Served
  <2>3. CASE pc \notin ResetPcs
    <3>1. drivers' \subseteq (drivers \ {driver}) \cup {driver} BY <2>1
    <3>2. Cardinality(drivers') <= mishaps' BY <1>0, <1>2, <2>1, <2>3, <3>1
    <3> QED BY <1>0, <1>1, <2>1, <2>3, <3>2
  <2> QED BY <2>2, <2>3
<1>12. CASE Cancel
  <2>1. UNCHANGED <<driver, doomed>> /\ pc' = "idle" /\ mode' # "using"
    BY <1>12 DEF Cancel, refs
  <2>2. SUFFICES Cardinality(drivers' \ {driver'}) <= mishaps' BY <2>1 DEF Served
  <2>3. CASE pc \in ResetPcs
    <3>1. UNCHANGED drivers /\ mishaps' = mishaps + 1 BY <1>12, <2>3 DEF Cancel
    <3>2. drivers' \ {driver'} \subseteq (drivers \ {doomed}) \cup {doomed} BY <3>1
    <3> QED BY <1>0, <1>2, <2>3, <3>1, <3>2
  <2>4. CASE pc \notin ResetPcs /\ UNCHANGED drivers
    BY <1>0, <1>1, <2>1, <2>4
  <2>5. CASE /\ pc \notin ResetPcs /\ drivers' = drivers \cup {started'} /\ mishaps' = mishaps + 1
    <3>1. drivers' \ {driver'} \subseteq (drivers \ {driver}) \cup {started'} BY <2>1, <2>5
    <3> QED BY <1>0, <1>2, <2>5, <3>1
  <2> QED BY <1>12, <2>3, <2>4, <2>5 DEF Cancel
<1> QED
  BY <1>3, <1>4, <1>5, <1>6, <1>7, <1>8, <1>9, <1>10, <1>11, <1>12 DEF Next, Serve

(* A renderer that is closed leaves only what went wrong, and stays closed.   *)
LEMMA ClosedStep ==
  ASSUME TypeOK, TypeOK', LossInv, ClosedInv, [Next]_vars
  PROVE  ClosedInv'
<1>0. /\ IsFiniteSet(drivers) /\ mishaps \in Nat /\ mishaps' \in Nat /\ mishaps <= mishaps'
      /\ \A x : IsFiniteSet(drivers \ {x})
  BY DriversFinite, MishapsStay, FS_Subset DEF TypeOK
<1> USE DEF ClosedInv
<1>1. ASSUME UNCHANGED <<drivers, mode>>,
             mode = "closed" => pc' = "idle" \/ (pc' = "close_program" /\ kind' = "release")
      PROVE  ClosedInv'
  BY <1>0, <1>1, PartIsFewer
<1>2. CASE Prepare \/ Render \/ Draw \/ RunEnds \/ Cancel
  BY <1>2 DEF Prepare, Render, Begin, Draw, RunEnds, Cancel, Ready, Unavailable, attempt
<1>3. CASE Release BY <1>1, <1>3 DEF Release, worker
<1>4. CASE CloseRenderer BY <1>4 DEF CloseRenderer, attempt
<1>5. CASE EnsureStarted \/ StartDriver \/ Launch \/ NewPage \/ SetContent
  BY <1>5 DEF EnsureStarted, StartDriver, Launch, NewPage, SetContent, Quiet, attempt
<1>6. CASE Evaluate \/ SettlePrepare \/ SettleRender \/ WorkerFails
  BY <1>6 DEF Evaluate, SettlePrepare, SettleRender, WorkerFails, attempt
<1>7. CASE DrawReturns \/ DrawRaises \/ TimedOut
  BY <1>7 DEF DrawReturns, DrawRaises, TimedOut, TimerPcs, Unavailable, attempt
<1>8. CASE ResetStep \/ ResetDrawDone
  BY <1>8 DEF ResetStep, ResetDrawDone, Unavailable, attempt
<1>9. CASE CloseHandles \/ ClosePage \/ CloseBrowser
  BY <1>9 DEF CloseHandles, ClosePage, CloseBrowser, attempt
<1>10. CASE CloseProgram BY <1>1, <1>10 DEF CloseProgram, worker, attempt, call
<1>11. CASE CloseDriver
  <2>1. pc = "close_driver" BY <1>11 DEF CloseDriver
  <2>2. CASE mode' = "closed"
    <3>1. pc' = "idle" /\ failing' # TRUE
      BY <1>11, <2>1, <2>2 DEF CloseDriver, Unavailable, attempt
    <3>2. drivers' = drivers \ {driver} BY <1>11, <3>1 DEF CloseDriver, StopDriver, Shut
    <3>3. Cardinality(drivers \ {driver}) <= mishaps BY <2>1 DEF LossInv, ResetPcs
    <3> QED BY <1>0, <3>1, <3>2, <3>3, PartIsFewer
  <2> QED BY <2>2
<1>12. CASE Hang BY <1>1, <1>12 DEF Hang, attempt, call
<1>13. CASE BrowserDies
  <2>1. UNCHANGED <<drivers, mode, pc, kind>> BY <1>13 DEF BrowserDies, Shut, attempt, call
  <2> QED BY <1>1, <2>1
<1>14. CASE UNCHANGED vars BY <1>1, <1>14 DEF vars, worker, attempt, call
<1> QED
  BY <1>2, <1>3, <1>4, <1>5, <1>6, <1>7, <1>8, <1>9, <1>10, <1>11, <1>12, <1>13, <1>14
  DEF Next, Serve

(* close and _reset_worker_quietly: a driver nobody refers to any more was    *)
(* lost by a mishap of its own, and a closed renderer has let go of the rest. *)
THEOREM DriversAreLostByMishap == Spec => []LeaksAreMishaps
<1> DEFINE D == LinksInv /\ LossInv /\ ClosedInv
<1>1. Init => D
  <2> SUFFICES ASSUME Init PROVE D OBVIOUS
  <2>1. drivers = {} /\ pages = {} /\ mishaps = 0 /\ pc = "idle" /\ mode = "using" BY DEF Init
  <2>2. Cardinality(drivers) = 0 /\ \A x : Cardinality(drivers \ {x}) = 0
    <3>1. \A x : drivers \ {x} = {} BY <2>1
    <3> QED BY <2>1, <3>1, FS_EmptySet
  <2> QED BY <2>1, <2>2 DEF LinksInv, LossInv, ClosedInv
<1>2. D /\ TypeOK /\ TypeOK' /\ IndInv /\ [Next]_vars => D'
  BY LinksStep, LossStep, ClosedStep DEF IndInv
<1>3. D /\ TypeOK => LeaksAreMishaps
  <2> SUFFICES ASSUME D, TypeOK PROVE LeaksAreMishaps OBVIOUS
  <2>0. IsFiniteSet(drivers) /\ mishaps \in Nat /\ \A x : IsFiniteSet(drivers \ {x})
    BY DriversFinite, FS_Subset DEF TypeOK
  <2>1. CASE mode = "closed"
    <3>1. drivers \ {} = drivers OBVIOUS
    <3> QED BY <2>1, <3>1 DEF ClosedInv, LeaksAreMishaps
  <2>2. CASE mode # "closed"
    <3> DEFINE F == drivers \ ({driver} \cup BeingReset)
    <3>1. PICK x : F \subseteq drivers \ {x} /\ Cardinality(drivers \ {x}) <= mishaps
      <4>1. CASE pc \in ResetPcs BY <4>1 DEF LossInv, BeingReset
      <4>2. CASE pc \notin ResetPcs BY <4>2 DEF LossInv, BeingReset
      <4> QED BY <4>1, <4>2
    <3>2. Cardinality(F) <= mishaps
      <4> HIDE DEF F
      <4> QED BY <2>0, <3>1, PartIsFewer
    <3> QED BY <2>2, <3>2 DEF LeaksAreMishaps
  <2> QED BY <2>1, <2>2
<1> HIDE DEF D
<1> QED BY <1>1, <1>2, <1>3, Invariance, TypeCorrect, PTL DEF Spec

=============================================================================
