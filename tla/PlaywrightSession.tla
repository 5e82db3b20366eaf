------------------------- MODULE PlaywrightSession -------------------------
(***************************************************************************)
(* PlaywrightSession (src/rpcproxy/handlers/playwright_handler.py): a      *)
(* browser that the first command launches, the map of open pages, and     *)
(* close().  Start-up, close() and every access to the map hold _lock, an  *)
(* asyncio.Lock (a queue whose head holds it); navigating, evaluating,     *)
(* fetching and closing one page do not.  Commands come from pipelines,    *)
(* which outlive close().                                                  *)
(*                                                                         *)
(* Drivers, browsers and pages are named by their number in the order of   *)
(* creation; a page id is drawn until it is not in the map, so that the    *)
(* page stands for its id.  Scripts, URLs, HTTP and the checks on          *)
(* arguments are left out.  External: Playwright, every call of which may  *)
(* raise; closing ends the object whether it raises or not.  A browser may *)
(* die at any time; a page does not close by itself.                       *)
(***************************************************************************)
EXTENDS Naturals, Sequences, FiniteSets

CONSTANTS
    Commands,       \* executions of handle_command
    Closer,         \* the execution of close()
    MaxObjects      \* bound: drivers, browsers and pages created, each

VARIABLES
    queue,      \* tasks in _lock: the holder and then the waiters
    pc,         \* where each task is
    playwright, \* _playwright: 0 or a driver
    browser,    \* _browser: 0 or a browser
    context,    \* _context: 0 or the browser it belongs to
    pages,      \* _pages
    page,       \* the page each command works on (0: none)
    made,       \* drivers, browsers and pages created
    drivers,    \* drivers that run
    browsers,   \* browsers that run
    live,       \* pages that are open
    home,       \* the browser of each page
    aborts      \* launches that failed after the driver had started

startVars == <<playwright, browser, context, drivers, browsers, aborts>>
pageVars  == <<pages, page, live, home>>
vars      == <<queue, pc, startVars, pageVars, made>>

Tasks == Commands \cup {Closer}

ASSUME CommandsAssumption == Closer \notin Commands

Init ==
    /\ queue = <<>> /\ pc = [t \in Tasks |-> "idle"]
    /\ playwright = 0 /\ browser = 0 /\ context = 0
    /\ pages = {} /\ page = [c \in Commands |-> 0]
    /\ made = [driver |-> 0, browser |-> 0, page |-> 0]
    /\ drivers = {} /\ browsers = {} /\ live = {} /\ home = <<>>
    /\ aborts = 0

Holds(t) == queue # <<>> /\ t = Head(queue)

Goto(t, where) == pc' = [pc EXCEPT ![t] = where]

(* Ask for the lock, at the place where.                                   *)
Acquire(t, from, where) ==
    /\ pc[t] = from
    /\ Goto(t, where)
    /\ queue' = Append(queue, t)
    /\ UNCHANGED <<startVars, pageVars, made>>

Leave(t, where) == queue' = Tail(queue) /\ Goto(t, where)

-----------------------------------------------------------------------------
(***************************************************************************)
(* ensure_started, with the lock                                           *)
(***************************************************************************)
AlreadyStarted(c) ==
    /\ Holds(c) /\ pc[c] = "start" /\ browser # 0
    /\ Leave(c, "command")
    /\ UNCHANGED <<startVars, pageVars, made>>

StartPlaywright(c) ==
    /\ Holds(c) /\ pc[c] = "start" /\ browser = 0 /\ made.driver < MaxObjects
    /\ made' = [made EXCEPT !.driver = @ + 1]
    /\ playwright' = made.driver + 1
    /\ drivers' = drivers \cup {made.driver + 1}
    /\ Goto(c, "launch")
    /\ UNCHANGED <<queue, browser, context, browsers, aborts, pageVars>>

Launch(c) ==
    /\ Holds(c) /\ pc[c] = "launch" /\ made.browser < MaxObjects
    /\ made' = [made EXCEPT !.browser = @ + 1]
    /\ browser' = made.browser + 1
    /\ browsers' = browsers \cup {made.browser + 1}
    /\ Goto(c, "context")
    /\ UNCHANGED <<queue, playwright, context, drivers, aborts, pageVars>>

NewContext(c) ==
    /\ Holds(c) /\ pc[c] = "context" /\ browser \in browsers
    /\ context' = browser
    /\ Leave(c, "command")
    /\ UNCHANGED <<playwright, browser, drivers, browsers, aborts, pageVars, made>>

(* Mutant of StartFails: the browser is forgotten so that the next command *)
(* starts anew.                                                            *)
StartFailsForgetting(c) ==
    /\ Holds(c)
    /\ pc[c] \in {"launch", "context"} \/ (pc[c] = "start" /\ browser = 0)
    /\ aborts' = IF pc[c] = "launch" THEN aborts + 1 ELSE aborts
    /\ browser' = 0
    /\ Leave(c, "failed")
    /\ UNCHANGED <<playwright, context, drivers, browsers, pageVars, made>>

(* One of the three calls raises.  What was started stays started.         *)
StartFails(c) ==
    /\ Holds(c)
    /\ pc[c] \in {"launch", "context"} \/ (pc[c] = "start" /\ browser = 0)
    /\ aborts' = IF pc[c] = "launch" THEN aborts + 1 ELSE aborts
    /\ Leave(c, "failed")
    /\ UNCHANGED <<playwright, browser, context, drivers, browsers, pageVars, made>>

-----------------------------------------------------------------------------
(***************************************************************************)
(* open_page                                                               *)
(***************************************************************************)

(* The assertion on _context, in open_page and in request.                 *)
NoContext(c) ==
    /\ pc[c] = "command" /\ context = 0
    /\ Goto(c, "failed")
    /\ UNCHANGED <<queue, startVars, pageVars, made>>

OpenPage(c) == context # 0 /\ Acquire(c, "command", "new_page")

NewPage(c) ==
    /\ Holds(c) /\ pc[c] = "new_page" /\ context \in browsers /\ made.page < MaxObjects
    /\ made' = [made EXCEPT !.page = @ + 1]
    /\ page' = [page EXCEPT ![c] = made.page + 1]
    /\ pages' = pages \cup {made.page + 1}
    /\ live' = live \cup {made.page + 1}
    /\ home' = Append(home, context)
    /\ Leave(c, "goto")
    /\ UNCHANGED startVars

(* new_page raises, also because close() has taken the context away.       *)
NewPageFails(c) ==
    /\ Holds(c) /\ pc[c] = "new_page"
    /\ Leave(c, "failed")
    /\ UNCHANGED <<startVars, pageVars, made>>

PageOpened(c) ==
    /\ pc[c] = "goto" /\ page[c] \in live
    /\ Goto(c, "returned")
    /\ UNCHANGED <<queue, startVars, pageVars, made>>

(* goto raises: out of the map, under the lock, and then closed.           *)
GotoFails(c) == Acquire(c, "goto", "forget")

Forget(c) ==
    /\ Holds(c) /\ pc[c] = "forget"
    /\ pages' = pages \ {page[c]}
    /\ Leave(c, "discard")
    /\ UNCHANGED <<startVars, page, live, home, made>>

(* Mutant of Discard: the page is not closed.                              *)
DiscardOpen(c) ==
    /\ pc[c] = "discard"
    /\ Goto(c, "failed")
    /\ UNCHANGED <<queue, startVars, pageVars, made>>

Discard(c) ==
    /\ pc[c] = "discard"
    /\ live' = live \ {page[c]}
    /\ Goto(c, "failed")
    /\ UNCHANGED <<queue, startVars, pages, page, home, made>>

-----------------------------------------------------------------------------
(***************************************************************************)
(* request, execute_js and close_page                                      *)
(***************************************************************************)
Request(c) ==
    /\ pc[c] = "command" /\ context # 0
    /\ \E how \in {"returned", "failed"} : Goto(c, how)
    /\ UNCHANGED <<queue, startVars, pageVars, made>>

ExecuteJs(c) == Acquire(c, "command", "find")

FindPage(c, p) ==
    /\ Holds(c) /\ pc[c] = "find" /\ p \in pages
    /\ page' = [page EXCEPT ![c] = p]
    /\ Leave(c, "evaluate")
    /\ UNCHANGED <<startVars, pages, live, home, made>>

(* evaluate answers, or raises: the page may have been closed meanwhile.   *)
Evaluate(c) ==
    /\ pc[c] = "evaluate"
    /\ Goto(c, "failed") \/ (page[c] \in live /\ Goto(c, "returned"))
    /\ UNCHANGED <<queue, startVars, pageVars, made>>

ClosePage(c) == Acquire(c, "command", "take")

TakePage(c, p) ==
    /\ Holds(c) /\ pc[c] = "take" /\ p \in pages
    /\ pages' = pages \ {p}
    /\ page' = [page EXCEPT ![c] = p]
    /\ Leave(c, "close_page")
    /\ UNCHANGED <<startVars, live, home, made>>

(* The page id is in no map.                                               *)
UnknownPage(c) ==
    /\ Holds(c) /\ pc[c] \in {"find", "take"}
    /\ Leave(c, "failed")
    /\ UNCHANGED <<startVars, pageVars, made>>

PageClosed(c) ==
    /\ pc[c] = "close_page"
    /\ live' = live \ {page[c]}
    /\ \E how \in {"returned", "failed"} : Goto(c, how)
    /\ UNCHANGED <<queue, startVars, pages, page, home, made>>

Command(c) ==
    \/ Acquire(c, "idle", "start")
    \/ AlreadyStarted(c) \/ StartPlaywright(c) \/ Launch(c) \/ NewContext(c) \/ StartFails(c)
    \/ NoContext(c) \/ OpenPage(c) \/ NewPage(c) \/ NewPageFails(c)
    \/ PageOpened(c) \/ GotoFails(c) \/ Forget(c) \/ Discard(c)
    \/ Request(c) \/ ExecuteJs(c) \/ ClosePage(c) \/ UnknownPage(c)
    \/ \E p \in pages : FindPage(c, p) \/ TakePage(c, p)
    \/ Evaluate(c) \/ PageClosed(c)

-----------------------------------------------------------------------------
(***************************************************************************)
(* close()                                                                 *)
(***************************************************************************)
CloseBegin == Acquire(Closer, "idle", "pages")

CloseOnePage(p) ==
    /\ Holds(Closer) /\ pc[Closer] = "pages" /\ p \in pages \cap live
    /\ live' = live \ {p}
    /\ UNCHANGED <<queue, pc, startVars, pages, page, home, made>>

(* The map is cleared, then the context is closed, with all its pages.     *)
CloseContext ==
    /\ Holds(Closer) /\ pc[Closer] = "pages" /\ pages \cap live = {}
    /\ pages' = {}
    /\ context' = 0
    /\ live' = {p \in live : home[p] # context}
    /\ Goto(Closer, "browser")
    /\ UNCHANGED <<queue, playwright, browser, drivers, browsers, aborts, page, home, made>>

CloseBrowser ==
    /\ Holds(Closer) /\ pc[Closer] = "browser"
    /\ browser' = 0
    /\ browsers' = browsers \ {browser}
    /\ live' = {p \in live : home[p] # browser}
    /\ Goto(Closer, "driver")
    /\ UNCHANGED <<queue, playwright, context, drivers, aborts, pages, page, home, made>>

(* Mutant of StopPlaywright: the driver is forgotten, not stopped.         *)
StopPlaywrightForgetting ==
    /\ Holds(Closer) /\ pc[Closer] = "driver"
    /\ playwright' = 0
    /\ Leave(Closer, "returned")
    /\ UNCHANGED <<browser, context, drivers, browsers, aborts, pageVars, made>>

StopPlaywright ==
    /\ Holds(Closer) /\ pc[Closer] = "driver"
    /\ playwright' = 0
    /\ drivers' = drivers \ {playwright}
    /\ Leave(Closer, "returned")
    /\ UNCHANGED <<browser, context, browsers, aborts, pageVars, made>>

Close ==
    \/ CloseBegin \/ CloseContext \/ CloseBrowser \/ StopPlaywright
    \/ \E p \in pages : CloseOnePage(p)

(* The browser crashes or is closed by hand: the session does not notice.  *)
BrowserDies ==
    /\ browser \in browsers
    /\ browsers' = browsers \ {browser}
    /\ live' = {p \in live : home[p] # browser}
    /\ UNCHANGED <<queue, pc, playwright, browser, context, drivers, aborts, pages, page,
                   home, made>>

Next == Close \/ BrowserDies \/ \E c \in Commands : Command(c)

Spec == Init /\ [][Next]_vars

-----------------------------------------------------------------------------
(***************************************************************************)
(* Properties                                                              *)
(***************************************************************************)

(* Every browser that runs is the session's: concurrent first commands     *)
(* launch one browser, and no failure of a start or of close() loses it.   *)
BrowserOwned == browsers \subseteq {browser}

(* A driver is lost only by a launch that failed: at most one for each.    *)
DriversAccounted == Cardinality(drivers \ {playwright}) <= aborts

(* The map and the open pages agree.  No page is left open that nobody can *)
(* close: it is in the map, or the command that took it out, or could not  *)
(* navigate, is about to close it.  And as long as the browser lives,      *)
(* whoever gets a page from the map gets one that is open: it is taken out *)
(* before it is closed, and nobody reads the map while close() empties it. *)
PagesTracked ==
    /\ \A p \in live :
          \/ p \in pages
          \/ \E c \in Commands : page[c] = p /\ pc[c] \in {"discard", "close_page"}
    /\ Holds(Closer) \/ \A p \in pages : home[p] \in browsers => p \in live

=============================================================================
