-------------------------- MODULE PlaywrightProofs --------------------------
(***************************************************************************)
(* Proofs about PlaywrightSession for every number of commands, drivers,   *)
(* browsers and pages, and every failure: the session owns what runs.      *)
(***************************************************************************)
EXTENDS PlaywrightSession, TLAPS, SequenceTheorems, FiniteSetTheorems

Places == {"idle", "start", "launch", "context", "command", "new_page", "goto", "forget",
           "discard", "find", "evaluate", "take", "close_page", "pages", "browser", "driver",
           "returned", "failed"}

Counts == [driver : Nat, browser : Nat, page : Nat]

Types ==
    /\ queue \in Seq(Tasks) /\ pc \in [Tasks -> Places]
    /\ made \in Counts
    /\ page \in [Commands -> Nat] /\ \A c \in Commands : page[c] <= made.page
    /\ pages \subseteq 1 .. made.page
    /\ home \in Seq(Nat) /\ Len(home) = made.page
    /\ \A p \in 1 .. made.page : home[p] <= made.browser
    /\ browser \in Nat /\ context \in Nat /\ context <= made.browser
    /\ browsers \subseteq 1 .. made.browser
    /\ drivers \subseteq 1 .. made.driver /\ aborts \in Nat

(* The places a task reaches only with the lock, in the middle of starting *)
(* or closing: whoever is there holds the lock.                            *)
Inner == {"launch", "context", "browser", "driver"}

Lock == \A t \in Tasks : pc[t] \in Inner => Holds(t)

(* A browser is launched only where none is left.                          *)
LaunchesOne == \A c \in Commands : pc[c] = "launch" => browser = 0

(* Nobody is between starting a driver and launching with it, and close()  *)
(* is not between the browser and its driver.                              *)
Between == pc[Closer] = "driver" \/ \E c \in Commands : pc[c] = "launch"

(* Without a browser every driver that runs was lost to a failed launch.   *)
DriversLost ==
    /\ DriversAccounted
    /\ browser = 0 /\ ~Between => Cardinality(drivers) <= aborts

(* Whoever closes a page has taken it out of the map, and close() empties  *)
(* the map before it goes on.                                              *)
TakenFirst ==
    /\ \A c \in Commands : pc[c] \in {"discard", "close_page"} => page[c] \notin pages
    /\ pc[Closer] \in {"browser", "driver"} => pages = {}

Inv == Types /\ Lock /\ LaunchesOne /\ BrowserOwned /\ DriversLost /\ TakenFirst /\ PagesTracked

-----------------------------------------------------------------------------
(***************************************************************************)
(* The lock, and the record of what was made                               *)
(***************************************************************************)
(* The lock's queue without its head.                                      *)
LEMMA HeadAndTail ==
    ASSUME queue \in Seq(Tasks), queue # <<>>
    PROVE  Head(queue) \in Tasks /\ Tail(queue) \in Seq(Tasks)
    BY HeadTailProperties

(* Whoever queues for the lock does not take it from its holder.           *)
LEMMA AppendKeepsHead ==
    ASSUME queue \in Seq(Tasks), NEW t \in Tasks
    PROVE  /\ Append(queue, t) \in Seq(Tasks) /\ Append(queue, t) # <<>>
           /\ queue # <<>> => Head(Append(queue, t)) = Head(queue)
    BY AppendProperties, HeadTailProperties, LenProperties, EmptySeq

(* How a task may move: in place, into the queue, or out of it as its      *)
(* head.                                                                   *)
Moves(t, w) ==
    /\ pc' = [pc EXCEPT ![t] = w]
    /\ \/ queue' = queue /\ (w \in Inner => Holds(t))
       \/ queue' = Append(queue, t) /\ w \notin Inner /\ pc[t] \notin Inner
       \/ Holds(t) /\ queue' = Tail(queue) /\ w \notin Inner

(* A move of a task through the queue keeps the lock's order and leaves    *)
(* the other tasks where they are.                                         *)
LEMMA MoveKeepsLock ==
    ASSUME Types, Lock, NEW t \in Tasks, NEW w \in Places, Moves(t, w)
    PROVE  /\ queue' \in Seq(Tasks) /\ pc' \in [Tasks -> Places] /\ Lock'
           /\ pc'[t] = w /\ \A u \in Tasks : u # t => pc'[u] = pc[u]
           /\ \A u \in Tasks : Holds(u) /\ (u # t \/ queue' \in {queue, Append(queue, t)}) => Holds(u)'
<1>1. /\ pc' \in [Tasks -> Places] /\ pc'[t] = w
      /\ \A u \in Tasks : u # t => pc'[u] = pc[u]
    BY DEF Types, Moves
<1>2. CASE queue' = queue /\ (w \in Inner => Holds(t))
    BY <1>1, <1>2 DEF Types, Lock, Holds
<1>3. CASE queue' = Append(queue, t) /\ w \notin Inner /\ pc[t] \notin Inner
  <2>1. /\ queue' \in Seq(Tasks) /\ queue' # <<>>
        /\ queue # <<>> => Head(queue') = Head(queue)
      BY <1>3, AppendKeepsHead DEF Types
  <2>2. \A u \in Tasks : Holds(u) => Holds(u)'
      BY <2>1 DEF Holds
  <2> QED
      BY <1>1, <1>3, <2>1, <2>2 DEF Lock
<1>4. CASE Holds(t) /\ queue' = Tail(queue) /\ w \notin Inner
  <2>1. queue' \in Seq(Tasks)
      BY <1>4, HeadAndTail DEF Types, Holds
  <2>2. \A u \in Tasks : Holds(u) => u = t
      BY <1>4 DEF Holds
  <2>3. queue' \in {queue, Append(queue, t)} => Holds(t)'
      BY <1>4, AppendKeepsHead DEF Types, Holds
  <2> QED
      BY <1>1, <1>4, <2>1, <2>2, <2>3 DEF Lock
<1> QED
    BY <1>2, <1>3, <1>4 DEF Moves

(* Only one task holds the lock, and the closer is no command.             *)
LEMMA HolderAlone ==
    ASSUME Lock, NEW t \in Tasks, Holds(t)
    PROVE  \A u \in Tasks : u # t => pc[u] \notin Inner
    BY DEF Lock, Holds

(* close() is none of the commands.                                        *)
LEMMA TaskKinds ==
    Closer \in Tasks /\ Commands \subseteq Tasks /\ \A c \in Commands : c # Closer
    BY CommandsAssumption DEF Tasks

(* How the counts of what was made grow.                                   *)
LEMMA OneMore ==
    ASSUME made \in Counts
    PROVE  /\ [made EXCEPT !.driver = @ + 1]
                  = [driver |-> made.driver + 1, browser |-> made.browser, page |-> made.page]
           /\ [made EXCEPT !.browser = @ + 1]
                  = [driver |-> made.driver, browser |-> made.browser + 1, page |-> made.page]
           /\ [made EXCEPT !.page = @ + 1]
                  = [driver |-> made.driver, browser |-> made.browser, page |-> made.page + 1]
<1>1. made = [driver |-> made.driver, browser |-> made.browser, page |-> made.page]
    BY DEF Counts
<1> QED
    BY <1>1

(* The drivers that run are finitely many, with or without one of them.    *)
LEMMA DriverCount ==
    ASSUME Types, NEW d
    PROVE  /\ IsFiniteSet(drivers) /\ Cardinality(drivers) \in Nat
           /\ Cardinality(drivers \ {d}) \in Nat
           /\ Cardinality(drivers \ {d}) <= Cardinality(drivers)
           /\ Cardinality(drivers) <= Cardinality(drivers \ {d}) + 1
<1>1. made.driver \in Nat
    BY DEF Types, Counts
<1>2. IsFiniteSet(1 .. made.driver)
    BY <1>1, FS_Interval
<1>3. IsFiniteSet(drivers)
    BY <1>2, FS_Subset DEF Types
<1>4. Cardinality(drivers) \in Nat
    BY <1>3, FS_CardinalityType
<1>5. /\ IsFiniteSet(drivers \ {d})
      /\ Cardinality(drivers \ {d}) =
            IF d \in drivers THEN Cardinality(drivers) - 1 ELSE Cardinality(drivers)
    BY <1>3, FS_RemoveElement
<1>6. Cardinality(drivers \ {d}) \in Nat
    BY <1>5, FS_CardinalityType
<1> QED
    BY <1>3, <1>4, <1>5, <1>6

-----------------------------------------------------------------------------
(***************************************************************************)
(* The invariant, step by step                                             *)
(***************************************************************************)

(* A task that only asks for the lock, gives it up or goes on.             *)
LEMMA PlainMoveKeeps ==
    ASSUME Inv, NEW t \in Tasks, NEW w \in Places \ (Inner \cup {"discard", "close_page"}),
           Moves(t, w), pc[t] \notin Inner \cup {"discard", "close_page"},
           t = Closer => queue' = Append(queue, t),
           UNCHANGED <<startVars, pageVars, made>>
    PROVE  Inv'
<1> USE DEF Inv, startVars, pageVars
<1>1. /\ queue' \in Seq(Tasks) /\ pc' \in [Tasks -> Places] /\ Lock'
      /\ pc'[t] = w /\ \A u \in Tasks : u # t => pc'[u] = pc[u]
      /\ \A u \in Tasks : Holds(u) /\ (u # t \/ queue' \in {queue, Append(queue, t)}) => Holds(u)'
    BY MoveKeepsLock
<1>2. \A u \in Tasks : \A x \in Inner \cup {"discard", "close_page"} : pc'[u] = x <=> pc[u] = x
    BY <1>1
<1>3. Types'
    BY <1>1 DEF Types
<1>4. LaunchesOne' /\ BrowserOwned'
    BY <1>2, TaskKinds DEF LaunchesOne, BrowserOwned, Inner
<1>5. DriversLost'
    BY <1>2, TaskKinds DEF DriversLost, DriversAccounted, Between, Inner
<1>6. TakenFirst'
    BY <1>2, TaskKinds DEF TakenFirst, Inner
<1>7. PagesTracked'
  <2>1. \A p \in live :
          \/ p \in pages
          \/ \E c \in Commands : page[c] = p /\ pc'[c] \in {"discard", "close_page"}
      BY <1>2, TaskKinds DEF PagesTracked
  <2>2. Holds(Closer) => Holds(Closer)' 
      BY <1>1, TaskKinds
  <2> QED
      BY <2>1, <2>2 DEF PagesTracked
<1> QED
    BY <1>1, <1>3, <1>4, <1>5, <1>6, <1>7

(* The steps of a command that make, take and close nothing.               *)
LEMMA PlainStepsKeep ==
    ASSUME Inv, NEW c \in Commands,
           \/ Acquire(c, "idle", "start")
           \/ AlreadyStarted(c) \/ NoContext(c) \/ OpenPage(c) \/ NewPageFails(c)
           \/ PageOpened(c) \/ GotoFails(c) \/ Request(c) \/ ExecuteJs(c) \/ ClosePage(c)
           \/ UnknownPage(c) \/ Evaluate(c)
    PROVE  Inv'
<1> DEFINE Ws == {"start", "command", "failed", "new_page", "returned", "forget", "find", "take"}
<1>1. PICK w \in Ws :
          /\ pc' = [pc EXCEPT ![c] = w]
          /\ queue' = queue \/ queue' = Append(queue, c) \/ (Holds(c) /\ queue' = Tail(queue))
  <2>1. CASE \/ Acquire(c, "idle", "start") \/ OpenPage(c) \/ GotoFails(c) \/ ExecuteJs(c)
             \/ ClosePage(c)
      BY <2>1 DEF Acquire, OpenPage, GotoFails, ExecuteJs, ClosePage, Goto
  <2>2. CASE AlreadyStarted(c) \/ NewPageFails(c) \/ UnknownPage(c)
      BY <2>2 DEF AlreadyStarted, NewPageFails, UnknownPage, Leave, Goto
  <2>3. CASE NoContext(c) \/ PageOpened(c) \/ Request(c) \/ Evaluate(c)
      BY <2>3 DEF NoContext, PageOpened, Request, Evaluate, Goto
  <2> QED
      BY <2>1, <2>2, <2>3
<1>2. /\ pc[c] \notin Inner \cup {"discard", "close_page"}
      /\ UNCHANGED <<startVars, pageVars, made>>
    BY DEF Acquire, AlreadyStarted, NoContext, OpenPage, NewPageFails, PageOpened, GotoFails,
           Request, ExecuteJs, ClosePage, UnknownPage, Evaluate, Inner
<1>3. w \in Places \ (Inner \cup {"discard", "close_page"})
    BY DEF Inner, Places
<1>4. Moves(c, w)
    BY <1>1, <1>2, <1>3 DEF Moves
<1> QED
    BY <1>2, <1>3, <1>4, TaskKinds, PlainMoveKeeps

(* Starting: the holder of the lock is alone between driver, browser and   *)
(* context.                                                                *)
LEMMA StartKeeps ==
    ASSUME Inv, NEW c \in Commands,
           StartPlaywright(c) \/ Launch(c) \/ NewContext(c) \/ StartFails(c)
    PROVE  Inv'
<1> USE DEF Inv
<1>0. c \in Tasks /\ Closer \in Tasks /\ c # Closer /\ Holds(c) /\ ~Holds(Closer)
      /\ pc[Closer] \notin Inner
      /\ \A d \in Commands : d # c => pc[d] \notin Inner
    BY TaskKinds, HolderAlone
       DEF StartPlaywright, Launch, NewContext, StartFails, Holds
<1>1. PICK w \in {"launch", "context", "command", "failed"} :
          Moves(c, w) /\ UNCHANGED pageVars
    BY <1>0 DEF StartPlaywright, Launch, NewContext, StartFails, Goto, Leave, Moves, Inner
<1>2. /\ queue' \in Seq(Tasks) /\ pc' \in [Tasks -> Places] /\ Lock'
      /\ pc'[c] = w /\ \A u \in Tasks : u # c => pc'[u] = pc[u]
  <2>1. w \in Places
      BY DEF Places
  <2>2. Types /\ Lock /\ c \in Tasks /\ Moves(c, w)
      BY <1>0, <1>1
  <2>3. /\ queue' \in Seq(Tasks) /\ pc' \in [Tasks -> Places] /\ Lock'
        /\ pc'[c] = w /\ \A u \in Tasks : u # c => pc'[u] = pc[u]
        /\ \A u \in Tasks :
              Holds(u) /\ (u # c \/ queue' \in {queue, Append(queue, c)}) => Holds(u)'
      BY <2>1, <2>2, MoveKeepsLock, Zenon
  <2> QED
      BY <2>3
<1>3. \A d \in Commands : d # c => d \in Tasks /\ pc'[d] = pc[d]
    BY <1>2, TaskKinds
<1>4. pc'[Closer] = pc[Closer]
    BY <1>0, <1>2
<1>5. pc[c] \in {"start", "launch", "context"}
    BY DEF StartPlaywright, Launch, NewContext, StartFails
<1>p. pages' = pages /\ page' = page /\ live' = live /\ home' = home
    BY <1>1 DEF pageVars
<1>w. \A d \in Commands : pc'[d] \in {"discard", "close_page"} <=> pc[d] \in {"discard", "close_page"}
    BY <1>2, <1>3, <1>5
<1>6. TakenFirst'
    BY <1>w, <1>p, <1>4 DEF TakenFirst
<1>7. \A p \in live' :
          \/ p \in pages'
          \/ \E d \in Commands : page'[d] = p /\ pc'[d] \in {"discard", "close_page"}
    BY <1>w, <1>p DEF PagesTracked
<1>8. \A p \in pages : home[p] \in browsers => p \in live
    BY <1>0 DEF PagesTracked
<1>9. CASE StartPlaywright(c)
  <2>1. /\ playwright' = made.driver + 1 /\ drivers' = drivers \cup {made.driver + 1}
        /\ pc' = [pc EXCEPT ![c] = "launch"] /\ pc[c] = "start" /\ browser = 0
        /\ UNCHANGED <<browser, context, browsers, aborts, pageVars>>
        /\ made' = [driver |-> made.driver + 1, browser |-> made.browser, page |-> made.page]
    <3>1. made' = [made EXCEPT !.driver = @ + 1]
        BY <1>9, Zenon DEF StartPlaywright
    <3> QED
        BY <1>9, <3>1, OneMore DEF StartPlaywright, Goto, Types
  <2>2. made \in Counts /\ made.driver \in Nat /\ made' \in Counts
        /\ made'.driver = made.driver + 1 /\ made'.browser = made.browser /\ made'.page = made.page
      BY <2>1 DEF Types, Counts
  <2>3. Types'
    <3>1. drivers' \subseteq 1 .. made'.driver
        BY <2>1, <2>2 DEF Types
    <3> QED
        BY <1>2, <2>1, <2>2, <3>1 DEF Types, pageVars
  <2>4. pc'[c] = "launch"
      BY <1>0, <2>1 DEF Types
  <2>5. DriversLost'
    <3>1. drivers' \ {playwright'} = drivers
        BY <2>1, <2>2 DEF Types
    <3>2. ~Between
        BY <1>0, <2>1 DEF Between, Inner
    <3>3. DriversAccounted'
        BY <2>1, <3>1, <3>2 DEF DriversLost, DriversAccounted
    <3>4. Between'
        BY <2>4 DEF Between
    <3> QED
        BY <3>3, <3>4 DEF DriversLost
  <2>6. LaunchesOne' /\ BrowserOwned' /\ PagesTracked'
      BY <1>7, <1>8, <2>1 DEF LaunchesOne, BrowserOwned, PagesTracked, pageVars
  <2> QED
      BY <1>2, <1>6, <2>3, <2>5, <2>6
<1>10. CASE Launch(c)
  <2>1. /\ browser' = made.browser + 1 /\ browsers' = browsers \cup {made.browser + 1}
        /\ pc' = [pc EXCEPT ![c] = "context"] /\ pc[c] = "launch"
        /\ UNCHANGED <<playwright, context, drivers, aborts, pageVars>>
        /\ made' = [driver |-> made.driver, browser |-> made.browser + 1, page |-> made.page]
    <3>1. made' = [made EXCEPT !.browser = @ + 1]
        BY <1>10, Zenon DEF Launch
    <3> QED
        BY <1>10, <3>1, OneMore DEF Launch, Goto, Types
  <2>2. made \in Counts /\ made.browser \in Nat /\ made' \in Counts /\ made.page \in Nat
        /\ made'.driver = made.driver /\ made'.browser = made.browser + 1 /\ made'.page = made.page
      BY <2>1 DEF Types, Counts
  <2>3. browsers = {} /\ browser = 0
      BY <2>1, <2>2 DEF LaunchesOne, BrowserOwned, Types
  <2>4. \A p \in 1 .. made.page : home[p] \in Nat /\ home[p] <= made.browser
      BY <2>2, ElementOfSeq DEF Types
  <2>5. Types'
    <3>1. /\ made' \in Counts /\ browser' \in Nat /\ context' <= made'.browser
          /\ browsers' \subseteq 1 .. made'.browser /\ drivers' \subseteq 1 .. made'.driver
          /\ aborts' \in Nat /\ context' \in Nat
        BY <2>1, <2>2, <2>3 DEF Types
    <3>2. /\ page' \in [Commands -> Nat] /\ \A d \in Commands : page'[d] <= made'.page
          /\ pages' \subseteq 1 .. made'.page
          /\ home' \in Seq(Nat) /\ Len(home') = made'.page
        BY <1>p, <2>2 DEF Types
    <3>3. \A p \in 1 .. made'.page : home'[p] <= made'.browser
        BY <1>p, <2>2, <2>4
    <3> QED
        BY <1>2, <3>1, <3>2, <3>3 DEF Types
  <2>6. pc'[c] = "context" /\ browser' # 0
      BY <1>0, <2>1, <2>2 DEF Types
  <2>7. LaunchesOne' /\ BrowserOwned'
      BY <1>0, <1>3, <2>1, <2>3, <2>6 DEF LaunchesOne, BrowserOwned, Inner
  <2>8. DriversLost'
      BY <2>1, <2>6 DEF DriversLost, DriversAccounted
  <2>9. PagesTracked'
    <3>1. \A p \in pages : home[p] \notin browsers'
        BY <2>1, <2>2, <2>3, <2>4 DEF Types
    <3> QED
        BY <1>7, <2>1, <3>1 DEF PagesTracked, pageVars
  <2> QED
      BY <1>2, <1>6, <2>5, <2>7, <2>8, <2>9
<1>11. CASE NewContext(c)
  <2>1. /\ context' = browser /\ browser \in browsers
        /\ pc' = [pc EXCEPT ![c] = "command"] /\ pc[c] = "context"
        /\ UNCHANGED <<playwright, browser, drivers, browsers, aborts, pageVars, made>>
      BY <1>11 DEF NewContext, Leave, Goto
  <2>2. Types'
      BY <1>2, <2>1 DEF Types, pageVars, Counts
  <2>3. pc'[c] = "command" /\ browser # 0
      BY <1>0, <2>1 DEF Types
  <2>4. LaunchesOne' /\ BrowserOwned' /\ PagesTracked'
      BY <1>3, <1>7, <1>8, <2>1, <2>3 DEF LaunchesOne, BrowserOwned, PagesTracked, pageVars
  <2>5. DriversLost'
      BY <2>1, <2>3 DEF DriversLost, DriversAccounted
  <2> QED
      BY <1>2, <1>6, <2>2, <2>4, <2>5
<1>12. CASE StartFails(c)
  <2>1. /\ aborts' = IF pc[c] = "launch" THEN aborts + 1 ELSE aborts
        /\ pc' = [pc EXCEPT ![c] = "failed"]
        /\ UNCHANGED <<playwright, browser, context, drivers, browsers, pageVars, made>>
      BY <1>12 DEF StartFails, Leave, Goto
  <2>2. pc'[c] = "failed" /\ aborts \in Nat /\ aborts' \in Nat /\ aborts <= aborts'
      BY <1>0, <2>1 DEF Types
  <2>3. Types'
      BY <1>2, <2>1, <2>2 DEF Types, pageVars
  <2>4. LaunchesOne' /\ BrowserOwned' /\ PagesTracked'
      BY <1>3, <1>7, <1>8, <2>1, <2>2 DEF LaunchesOne, BrowserOwned, PagesTracked, pageVars
  <2>5. DriversLost'
    <3>1. Cardinality(drivers) \in Nat /\ Cardinality(drivers \ {playwright}) \in Nat
          /\ Cardinality(drivers) <= Cardinality(drivers \ {playwright}) + 1
        BY DriverCount
    <3>2. DriversAccounted'
        BY <2>1, <2>2, <3>1 DEF DriversLost, DriversAccounted
    <3>3. CASE pc[c] = "launch"
        BY <2>1, <2>2, <3>1, <3>2, <3>3 DEF DriversLost, DriversAccounted
    <3>4. CASE pc[c] # "launch"
      <4>1. ~Between
          BY <1>0, <3>4 DEF Between, Inner
      <4> QED
          BY <2>1, <3>2, <3>4, <4>1 DEF DriversLost
    <3> QED
        BY <3>3, <3>4
  <2> QED
      BY <1>2, <1>6, <2>3, <2>4, <2>5
<1> QED
    BY <1>9, <1>10, <1>11, <1>12

(* A command that leaves driver, browser and context alone, outside the    *)
(* lock's inner places, keeps what is said of them.                        *)
LEMMA StartUntouched ==
    ASSUME Inv, NEW c \in Commands, NEW w \in Places \ Inner, Moves(c, w), pc[c] \notin Inner,
           UNCHANGED startVars
    PROVE  /\ queue' \in Seq(Tasks) /\ pc' \in [Tasks -> Places] /\ Lock'
           /\ LaunchesOne' /\ BrowserOwned' /\ DriversLost'
           /\ c \in Tasks /\ pc'[c] = w /\ \A d \in Commands : d # c => pc'[d] = pc[d]
           /\ Closer \in Tasks /\ c # Closer /\ pc'[Closer] = pc[Closer]
<1> USE DEF Inv
<1>1. c \in Tasks /\ w \in Places /\ Closer \in Tasks /\ c # Closer
    BY TaskKinds
<1>2. /\ queue' \in Seq(Tasks) /\ pc' \in [Tasks -> Places] /\ Lock'
      /\ pc'[c] = w /\ \A u \in Tasks : u # c => pc'[u] = pc[u]
      /\ \A u \in Tasks :
            Holds(u) /\ (u # c \/ queue' \in {queue, Append(queue, c)}) => Holds(u)'
    BY <1>1, MoveKeepsLock, Zenon
<1>3. /\ \A d \in Commands : d # c => pc'[d] = pc[d]
      /\ pc'[Closer] = pc[Closer]
    BY <1>1, <1>2, TaskKinds
<1>4. \A u \in Tasks : \A x \in Inner : pc'[u] = x <=> pc[u] = x
    BY <1>2
<1>5. LaunchesOne' /\ BrowserOwned'
    BY <1>4, TaskKinds DEF LaunchesOne, BrowserOwned, Inner, startVars
<1>6. DriversLost'
    BY <1>4, TaskKinds DEF DriversLost, DriversAccounted, Between, Inner, startVars
<1> QED
    BY <1>1, <1>2, <1>3, <1>5, <1>6

(* Who holds the lock keeps close() out of its inner part.                 *)
LEMMA CommandHolds ==
    ASSUME Inv, NEW c \in Commands, Holds(c)
    PROVE  /\ ~Holds(Closer) /\ pc[Closer] \notin {"browser", "driver"}
           /\ \A p \in pages : home[p] \in browsers => p \in live
<1>1. ~Holds(Closer)
    BY TaskKinds DEF Holds
<1>2. pc[Closer] \notin Inner
    BY <1>1, TaskKinds DEF Inv, Lock
<1> QED
    BY <1>1, <1>2 DEF Inv, PagesTracked, Inner

(* A new page has a number of its own, and is in the map before the lock   *)
(* is released.                                                            *)
LEMMA NewPageKeeps ==
    ASSUME Inv, NEW c \in Commands, NewPage(c)
    PROVE  Inv'
<1> USE DEF Inv
<1>1. /\ Holds(c) /\ pc[c] = "new_page" /\ pc' = [pc EXCEPT ![c] = "goto"] /\ queue' = Tail(queue)
      /\ page' = [page EXCEPT ![c] = made.page + 1]
      /\ pages' = pages \cup {made.page + 1} /\ live' = live \cup {made.page + 1}
      /\ home' = Append(home, context) /\ UNCHANGED startVars
    BY DEF NewPage, Leave, Goto
<1>2. made' = [driver |-> made.driver, browser |-> made.browser, page |-> made.page + 1]
  <2>1. made' = [made EXCEPT !.page = @ + 1]
      BY Zenon DEF NewPage
  <2> QED
      BY <2>1, OneMore DEF Types
<1>3. made \in Counts /\ made.page \in Nat /\ made' \in Counts
      /\ made'.driver = made.driver /\ made'.browser = made.browser /\ made'.page = made.page + 1
    BY <1>2 DEF Types, Counts
<1>4. Moves(c, "goto") /\ "goto" \in Places \ Inner /\ pc[c] \notin Inner
    BY <1>1 DEF Moves, Places, Inner
<1>5. /\ queue' \in Seq(Tasks) /\ pc' \in [Tasks -> Places] /\ Lock'
      /\ LaunchesOne' /\ BrowserOwned' /\ DriversLost'
      /\ c \in Tasks /\ pc'[c] = "goto" /\ \A d \in Commands : d # c => pc'[d] = pc[d]
      /\ Closer \in Tasks /\ c # Closer /\ pc'[Closer] = pc[Closer]
    BY <1>1, <1>4, StartUntouched
<1>6. /\ ~Holds(Closer) /\ pc[Closer] \notin {"browser", "driver"}
      /\ \A p \in pages : home[p] \in browsers => p \in live
    BY <1>1, CommandHolds
<1>7. /\ home' \in Seq(Nat) /\ Len(home') = made.page + 1
      /\ \A p \in 1 .. made.page : home'[p] = home[p]
      /\ home'[made.page + 1] = context
    BY <1>1, <1>3, AppendProperties DEF Types
<1>8. /\ page' \in [Commands -> Nat] /\ page'[c] = made.page + 1
      /\ \A d \in Commands : d # c => page'[d] = page[d] /\ page[d] \in Nat /\ page[d] <= made.page
    BY <1>1, <1>3 DEF Types
<1>9. Types'
  <2>1. /\ \A d \in Commands : page'[d] <= made'.page
        /\ pages' \subseteq 1 .. made'.page
    <3>1. \A d \in Commands : page'[d] <= made'.page
        BY <1>3, <1>8
    <3>2. pages \subseteq 1 .. made'.page /\ made.page + 1 \in 1 .. made'.page
        BY <1>3 DEF Types
    <3> QED
        BY <1>1, <3>1, <3>2
  <2>2. \A p \in 1 .. made'.page : home'[p] <= made'.browser
    <3>1. \A p \in 1 .. made.page : home'[p] <= made'.browser
        BY <1>3, <1>7 DEF Types
    <3>2. home'[made.page + 1] <= made'.browser
        BY <1>3, <1>7 DEF Types
    <3>3. \A p \in 1 .. made'.page : p \in 1 .. made.page \/ p = made.page + 1
        BY <1>3
    <3> QED
        BY <3>1, <3>2, <3>3
  <2>3. /\ browser' \in Nat /\ context' \in Nat /\ context' <= made'.browser
        /\ browsers' \subseteq 1 .. made'.browser
        /\ drivers' \subseteq 1 .. made'.driver /\ aborts' \in Nat
      BY <1>1, <1>3 DEF Types, startVars
  <2> QED
      BY <1>3, <1>5, <1>7, <1>8, <2>1, <2>2, <2>3 DEF Types
<1>10. TakenFirst'
    BY <1>1, <1>3, <1>5, <1>6, <1>8 DEF TakenFirst
<1>11. PagesTracked'
  <2>1. \A p \in live' :
          \/ p \in pages'
          \/ \E d \in Commands : page'[d] = p /\ pc'[d] \in {"discard", "close_page"}
    <3>1. SUFFICES ASSUME NEW p \in live, p \notin pages
                   PROVE  \E d \in Commands : page'[d] = p /\ pc'[d] \in {"discard", "close_page"}
        BY <1>1
    <3>2. PICK d \in Commands : page[d] = p /\ pc[d] \in {"discard", "close_page"}
        BY <3>1 DEF PagesTracked
    <3> QED
        BY <1>1, <1>5, <1>8, <3>2
  <2>2. \A p \in pages' : home'[p] \in browsers' => p \in live'
      BY <1>1, <1>6, <1>7 DEF Types, startVars
  <2> QED
      BY <2>1, <2>2 DEF PagesTracked
<1> QED
    BY <1>5, <1>9, <1>10, <1>11

(* A page leaves the map under the lock, in the hands of the command that  *)
(* will close it.                                                          *)
LEMMA TakingKeeps ==
    ASSUME Inv, NEW c \in Commands,
           Forget(c) \/ \E p \in pages : FindPage(c, p) \/ TakePage(c, p)
    PROVE  Inv'
<1> USE DEF Inv
<1>1. PICK w \in {"discard", "evaluate", "close_page"}, p \in Nat :
          /\ Holds(c) /\ pc[c] \in {"forget", "find", "take"}
          /\ pc' = [pc EXCEPT ![c] = w] /\ queue' = Tail(queue)
          /\ page' = [page EXCEPT ![c] = p] /\ p <= made.page
          /\ pages' = IF w = "evaluate" THEN pages ELSE pages \ {p}
          /\ UNCHANGED <<startVars, live, home, made>>
  <2>1. CASE Forget(c)
    <3>1. page' = [page EXCEPT ![c] = page[c]] /\ page[c] \in Nat /\ page[c] <= made.page
        BY <2>1 DEF Forget, Types
    <3> QED
        BY <2>1, <3>1 DEF Forget, Leave, Goto
  <2>2. CASE \E p \in pages : FindPage(c, p)
    <3>1. PICK p \in pages : FindPage(c, p)
        BY <2>2
    <3>2. p \in Nat /\ p <= made.page
        BY DEF Types, Counts
    <3> QED
        BY <3>1, <3>2 DEF FindPage, Leave, Goto
  <2>3. CASE \E p \in pages : TakePage(c, p)
    <3>1. PICK p \in pages : TakePage(c, p)
        BY <2>3
    <3>2. p \in Nat /\ p <= made.page
        BY DEF Types, Counts
    <3> QED
        BY <3>1, <3>2 DEF TakePage, Leave, Goto
  <2> QED
      BY <2>1, <2>2, <2>3
<1>2. Moves(c, w) /\ w \in Places \ Inner /\ pc[c] \notin Inner
    BY <1>1 DEF Moves, Places, Inner
<1>3. /\ queue' \in Seq(Tasks) /\ pc' \in [Tasks -> Places] /\ Lock'
      /\ LaunchesOne' /\ BrowserOwned' /\ DriversLost'
      /\ c \in Tasks /\ pc'[c] = w /\ \A d \in Commands : d # c => pc'[d] = pc[d]
      /\ Closer \in Tasks /\ c # Closer /\ pc'[Closer] = pc[Closer]
    BY <1>1, <1>2, StartUntouched
<1>4. /\ ~Holds(Closer) /\ pc[Closer] \notin {"browser", "driver"}
      /\ \A q \in pages : home[q] \in browsers => q \in live
    BY <1>1, CommandHolds
<1>5. /\ page' \in [Commands -> Nat] /\ page'[c] = p
      /\ \A d \in Commands : d # c => page'[d] = page[d]
    BY <1>1 DEF Types
<1>6. Types'
  <2>1. /\ \A d \in Commands : page'[d] <= made'.page
        /\ pages' \subseteq 1 .. made'.page
      BY <1>1, <1>5 DEF Types
  <2> QED
      BY <1>1, <1>3, <1>5, <2>1 DEF Types, startVars
<1>7. TakenFirst'
    BY <1>1, <1>3, <1>4, <1>5 DEF TakenFirst
<1>8. PagesTracked'
  <2>1. \A q \in live' :
          \/ q \in pages'
          \/ \E d \in Commands : page'[d] = q /\ pc'[d] \in {"discard", "close_page"}
    <3>1. SUFFICES ASSUME NEW q \in live, q \notin pages'
                   PROVE  \E d \in Commands : page'[d] = q /\ pc'[d] \in {"discard", "close_page"}
        BY <1>1
    <3>2. CASE q \in pages
        BY <1>1, <1>3, <1>5, <3>1, <3>2
    <3>3. CASE q \notin pages
      <4>1. PICK d \in Commands : page[d] = q /\ pc[d] \in {"discard", "close_page"}
          BY <3>3 DEF PagesTracked
      <4> QED
          BY <1>1, <1>3, <1>5, <4>1
    <3> QED
        BY <3>2, <3>3
  <2>2. \A q \in pages' : home'[q] \in browsers' => q \in live'
      BY <1>1, <1>4 DEF startVars
  <2> QED
      BY <2>1, <2>2 DEF PagesTracked
<1> QED
    BY <1>3, <1>6, <1>7, <1>8

(* A command closes, without the lock, the page that it took.              *)
LEMMA ClosingPageKeeps ==
    ASSUME Inv, NEW c \in Commands, Discard(c) \/ PageClosed(c)
    PROVE  Inv'
<1> USE DEF Inv
<1>1. PICK w \in {"returned", "failed"} :
          /\ pc[c] \in {"discard", "close_page"} /\ pc' = [pc EXCEPT ![c] = w]
          /\ live' = live \ {page[c]} /\ UNCHANGED <<queue, startVars, pages, page, home, made>>
    BY DEF Discard, PageClosed, Goto
<1>2. Moves(c, w) /\ w \in Places \ Inner /\ pc[c] \notin Inner
    BY <1>1 DEF Moves, Places, Inner
<1>3. /\ queue' \in Seq(Tasks) /\ pc' \in [Tasks -> Places] /\ Lock'
      /\ LaunchesOne' /\ BrowserOwned' /\ DriversLost'
      /\ c \in Tasks /\ pc'[c] = w /\ \A d \in Commands : d # c => pc'[d] = pc[d]
      /\ Closer \in Tasks /\ c # Closer /\ pc'[Closer] = pc[Closer]
    BY <1>1, <1>2, StartUntouched
<1>4. Types'
    BY <1>1, <1>3 DEF Types, startVars
<1>5. TakenFirst'
    BY <1>1, <1>3 DEF TakenFirst
<1>6. PagesTracked'
  <2>1. \A p \in live' :
          \/ p \in pages'
          \/ \E d \in Commands : page'[d] = p /\ pc'[d] \in {"discard", "close_page"}
    <3>1. SUFFICES ASSUME NEW p \in live, p # page[c], p \notin pages
                   PROVE  \E d \in Commands : page[d] = p /\ pc'[d] \in {"discard", "close_page"}
        BY <1>1
    <3>2. PICK d \in Commands : page[d] = p /\ pc[d] \in {"discard", "close_page"}
        BY <3>1 DEF PagesTracked
    <3> QED
        BY <1>3, <3>1, <3>2
  <2>2. Holds(Closer)' \/ \A p \in pages' : home'[p] \in browsers' => p \in live'
      BY <1>1 DEF PagesTracked, TakenFirst, Holds, startVars
  <2> QED
      BY <2>1, <2>2 DEF PagesTracked
<1> QED
    BY <1>3, <1>4, <1>5, <1>6

-----------------------------------------------------------------------------
(***************************************************************************)
(* close(), and a browser that dies                                        *)
(***************************************************************************)

(* Closing pages one by one happens to pages of the map, with the lock.    *)
LEMMA CloseOnePageKeeps ==
    ASSUME Inv, NEW p \in pages, CloseOnePage(p)
    PROVE  Inv'
<1> USE DEF Inv
<1>1. /\ Holds(Closer) /\ live' = live \ {p}
      /\ UNCHANGED <<queue, pc, startVars, pages, page, home, made>>
    BY DEF CloseOnePage
<1>2. Types' /\ Lock' /\ LaunchesOne' /\ BrowserOwned' /\ TakenFirst' /\ Holds(Closer)'
    BY <1>1 DEF Types, Lock, LaunchesOne, BrowserOwned, TakenFirst, Holds, startVars
<1>3. DriversLost'
    BY <1>1 DEF DriversLost, DriversAccounted, Between, startVars
<1>4. PagesTracked'
    BY <1>1, <1>2 DEF PagesTracked
<1> QED
    BY <1>2, <1>3, <1>4

(* The closer goes on with the lock: what every such step keeps.           *)
LEMMA CloserMoves ==
    ASSUME Inv, Holds(Closer), NEW w \in {"browser", "driver", "returned"},
           pc' = [pc EXCEPT ![Closer] = w],
           queue' = IF w = "returned" THEN Tail(queue) ELSE queue
    PROVE  /\ queue' \in Seq(Tasks) /\ pc' \in [Tasks -> Places] /\ Lock'
           /\ pc'[Closer] = w
           /\ \A c \in Commands : pc'[c] = pc[c] /\ pc[c] # "launch"
           /\ w # "returned" => Holds(Closer)'
<1>1. Closer \in Tasks /\ w \in Places /\ Moves(Closer, w)
    BY TaskKinds DEF Moves, Places, Inner
<1>2. Types /\ Lock
    BY DEF Inv
<1>3. /\ queue' \in Seq(Tasks) /\ pc' \in [Tasks -> Places] /\ Lock'
      /\ pc'[Closer] = w /\ \A u \in Tasks : u # Closer => pc'[u] = pc[u]
      /\ \A u \in Tasks :
            Holds(u) /\ (u # Closer \/ queue' \in {queue, Append(queue, Closer)}) => Holds(u)'
    BY <1>1, <1>2, MoveKeepsLock, Zenon
<1>4. \A u \in Tasks : u # Closer => pc[u] \notin Inner
    BY <1>1, <1>2, HolderAlone
<1> QED
    BY <1>1, <1>3, <1>4, TaskKinds DEF Inner

(* close() closes the context, and with it its pages.                      *)
LEMMA CloseContextKeeps ==
    ASSUME Inv, CloseContext
    PROVE  Inv'
<1> USE DEF Inv
<1>1. /\ Holds(Closer) /\ pc[Closer] = "pages" /\ pages \cap live = {}
      /\ pages' = {} /\ context' = 0 /\ live' = {p \in live : home[p] # context}
      /\ pc' = [pc EXCEPT ![Closer] = "browser"] /\ queue' = queue
      /\ UNCHANGED <<playwright, browser, drivers, browsers, aborts, page, home, made>>
    BY DEF CloseContext, Goto
<1>2. /\ queue' \in Seq(Tasks) /\ pc' \in [Tasks -> Places] /\ Lock'
      /\ pc'[Closer] = "browser"
      /\ \A c \in Commands : pc'[c] = pc[c] /\ pc[c] # "launch"
      /\ Holds(Closer)'
    BY <1>1, CloserMoves
<1>3. Types'
    BY <1>1, <1>2 DEF Types, Counts
<1>4. LaunchesOne' /\ BrowserOwned' /\ TakenFirst'
    BY <1>1, <1>2 DEF LaunchesOne, BrowserOwned, TakenFirst
<1>5. DriversLost'
    BY <1>1, <1>2 DEF DriversLost, DriversAccounted, Between
<1>6. PagesTracked'
    BY <1>1, <1>2 DEF PagesTracked
<1> QED
    BY <1>2, <1>3, <1>4, <1>5, <1>6

(* No browser is left, and the driver is next.                             *)
LEMMA CloseBrowserKeeps ==
    ASSUME Inv, CloseBrowser
    PROVE  Inv'
<1> USE DEF Inv
<1>1. /\ Holds(Closer) /\ pc[Closer] = "browser" /\ browser' = 0
      /\ browsers' = browsers \ {browser} /\ live' = {p \in live : home[p] # browser}
      /\ pc' = [pc EXCEPT ![Closer] = "driver"] /\ queue' = queue
      /\ UNCHANGED <<playwright, context, drivers, aborts, pages, page, home, made>>
    BY DEF CloseBrowser, Goto
<1>2. /\ queue' \in Seq(Tasks) /\ pc' \in [Tasks -> Places] /\ Lock'
      /\ pc'[Closer] = "driver"
      /\ \A c \in Commands : pc'[c] = pc[c] /\ pc[c] # "launch"
      /\ Holds(Closer)'
    BY <1>1, CloserMoves
<1>3. browsers' = {}
    BY <1>1 DEF BrowserOwned
<1>4. Types'
    BY <1>1, <1>2, <1>3 DEF Types
<1>5. LaunchesOne' /\ BrowserOwned' /\ TakenFirst'
    BY <1>1, <1>2, <1>3 DEF LaunchesOne, BrowserOwned, TakenFirst
<1>6. DriversLost'
    BY <1>1, <1>2 DEF DriversLost, DriversAccounted, Between
<1>7. PagesTracked'
    BY <1>1, <1>2 DEF PagesTracked
<1> QED
    BY <1>2, <1>4, <1>5, <1>6, <1>7

(* The driver stops: only those of failed launches are left.               *)
LEMMA StopPlaywrightKeeps ==
    ASSUME Inv, StopPlaywright
    PROVE  Inv'
<1> USE DEF Inv
<1>1. /\ Holds(Closer) /\ pc[Closer] = "driver" /\ playwright' = 0
      /\ drivers' = drivers \ {playwright}
      /\ pc' = [pc EXCEPT ![Closer] = "returned"] /\ queue' = Tail(queue)
      /\ UNCHANGED <<browser, context, browsers, aborts, pageVars, made>>
    BY DEF StopPlaywright, Leave, Goto
<1>2. /\ queue' \in Seq(Tasks) /\ pc' \in [Tasks -> Places] /\ Lock'
      /\ pc'[Closer] = "returned"
      /\ \A c \in Commands : pc'[c] = pc[c] /\ pc[c] # "launch"
    BY <1>1, CloserMoves
<1>3. pages = {} /\ pages' = {} /\ page' = page /\ live' = live /\ home' = home
    BY <1>1 DEF TakenFirst, pageVars
<1>4. Types'
    BY <1>1, <1>2, <1>3 DEF Types
<1>5. LaunchesOne' /\ BrowserOwned' /\ TakenFirst'
    BY <1>1, <1>2, <1>3 DEF LaunchesOne, BrowserOwned, TakenFirst
<1>6. DriversLost'
  <2>1. Cardinality(drivers') <= aborts'
      BY <1>1 DEF DriversLost, DriversAccounted
  <2>2. drivers' \ {playwright'} = drivers'
      BY <1>1 DEF Types, Counts
  <2> QED
      BY <2>1, <2>2 DEF DriversLost, DriversAccounted
<1>7. PagesTracked'
    BY <1>1, <1>2, <1>3 DEF PagesTracked
<1> QED
    BY <1>2, <1>4, <1>5, <1>6, <1>7

(* The browser's pages die with it, so that what the map says of the pages *)
(* of a running browser still holds.                                       *)
LEMMA BrowserDiesKeeps ==
    ASSUME Inv, BrowserDies
    PROVE  Inv'
<1> USE DEF Inv
<1>1. /\ browsers' = browsers \ {browser} /\ live' = {p \in live : home[p] # browser}
      /\ UNCHANGED <<queue, pc, playwright, browser, context, drivers, aborts, pages, page,
                     home, made>>
    BY DEF BrowserDies
<1>2. Types' /\ Lock' /\ LaunchesOne' /\ BrowserOwned' /\ TakenFirst'
    BY <1>1 DEF Types, Lock, LaunchesOne, BrowserOwned, TakenFirst, Holds
<1>3. DriversLost'
    BY <1>1 DEF DriversLost, DriversAccounted, Between
<1>4. PagesTracked'
    BY <1>1 DEF PagesTracked, Holds
<1> QED
    BY <1>2, <1>3, <1>4

(* close() queues for the lock.                                            *)
LEMMA CloseBeginKeeps ==
    ASSUME Inv, CloseBegin
    PROVE  Inv'
<1>1. Closer \in Tasks /\ "pages" \in Places \ (Inner \cup {"discard", "close_page"})
    BY TaskKinds DEF Places, Inner
<1>2. /\ pc[Closer] \notin Inner \cup {"discard", "close_page"} /\ Moves(Closer, "pages")
      /\ queue' = Append(queue, Closer) /\ UNCHANGED <<startVars, pageVars, made>>
    BY <1>1 DEF CloseBegin, Acquire, Goto, Moves, Inner
<1> QED
    BY <1>1, <1>2, PlainMoveKeeps

-----------------------------------------------------------------------------
(***************************************************************************)
(* The theorems                                                            *)
(***************************************************************************)
LEMMA InitInv == Init => Inv
<1> SUFFICES ASSUME Init PROVE Inv
    OBVIOUS
<1>1. Types
    BY EmptySeq DEF Init, Types, Counts, Places
<1>2. Lock /\ LaunchesOne /\ BrowserOwned /\ TakenFirst /\ PagesTracked
    BY TaskKinds DEF Init, Lock, LaunchesOne, BrowserOwned, TakenFirst, PagesTracked, Inner
<1>3. DriversLost
  <2>1. drivers \ {playwright} = {} /\ drivers = {} /\ aborts = 0
      BY DEF Init
  <2>2. Cardinality({}) = 0
      BY FS_EmptySet
  <2> QED
      BY <2>1, <2>2 DEF DriversLost, DriversAccounted
<1> QED
    BY <1>1, <1>2, <1>3 DEF Inv

(* Every step keeps the invariant.                                         *)
LEMMA StepInv == Inv /\ [Next]_vars => Inv'
<1> SUFFICES ASSUME Inv, [Next]_vars PROVE Inv'
    OBVIOUS
<1>1. CASE UNCHANGED vars
    BY <1>1 DEF vars, startVars, pageVars, Inv, Types, Lock, LaunchesOne, BrowserOwned,
                DriversLost, DriversAccounted, Between, TakenFirst, PagesTracked, Holds
<1>2. CASE Close
    BY <1>2, CloseBeginKeeps, CloseContextKeeps, CloseBrowserKeeps, StopPlaywrightKeeps,
       CloseOnePageKeeps DEF Close
<1>3. CASE BrowserDies
    BY <1>3, BrowserDiesKeeps
<1>4. ASSUME NEW c \in Commands, Command(c) PROVE Inv'
    BY <1>4, PlainStepsKeep, StartKeeps, NewPageKeeps, TakingKeeps, ClosingPageKeeps
       DEF Command
<1> QED
    BY <1>1, <1>2, <1>3, <1>4 DEF Next

(* The invariant holds in every reachable state.                           *)
LEMMA AlwaysInv == Spec => []Inv
    BY InitInv, StepInv, PTL DEF Spec

(* ensure_started() and close(): every browser that runs is the session's, *)
(* whoever starts and fails at once.                                       *)
THEOREM OneBrowser == Spec => []BrowserOwned
    BY AlwaysInv, PTL DEF Inv

(* ensure_started(): a driver is lost only where the launch after it       *)
(* raised.                                                                 *)
THEOREM DriversAreAccounted == Spec => []DriversAccounted
<1>1. Inv => DriversAccounted
    BY DEF Inv, DriversLost
<1> QED
    BY <1>1, AlwaysInv, PTL

(* The map of pages and the open pages agree: no page is lost, and what    *)
(* execute_js and close_page find is open as long as the browser runs.     *)
THEOREM PagesAreTracked == Spec => []PagesTracked
    BY AlwaysInv, PTL DEF Inv

=============================================================================
