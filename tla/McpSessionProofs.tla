--------------------------- MODULE McpSessionProofs ---------------------------
(***************************************************************************)
(* Proofs about McpSession: that a call acts only where it was approved,   *)
(* that a reference names one page, and what the runtimes of a host keep.  *)
(*                                                                         *)
(* The argument is one inductive invariant, Sound.  Approval is carried    *)
(* from the consent of a row to a reservation, from there to the browser   *)
(* it starts, to the runtime kept for it, and to the call that uses this   *)
(* runtime; a page belongs to the browser its tab was opened in, for ever. *)
(* A launch finds no live process of its container in the map, and there   *)
(* is none until it has started its own: what it replaces there, and the   *)
(* runtime it may leave, are those of exited browsers.                     *)
(* The contexts rest on one call running at a time.                        *)
(***************************************************************************)
EXTENDS McpSession, SequenceTheorems, TLAPS

\* Browser b was launched by this host for container c, with automation, under a
\* granted consent.
Approved(b, c) ==
  /\ b \in DOMAIN browser
  /\ browser[b].container = c
  /\ browser[b].automated /\ browser[b].approved

\* What a container was not created with, MCP does not give it: it takes consent away,
\* and only a human grants it.
ConsentsGranted == \A c \in Containers : row[c].consent => granted[c]

RuntimesApproved ==
  \A c \in Containers : automation[c] # None => Approved(automation[c], c)
ProcessesKnown ==
  \A c \in Containers : process[c] # None => process[c] \in DOMAIN browser
Maps == RuntimesApproved /\ ProcessesKnown /\ LiveRuntimeIsOwned

OneCall == \A m, n \in Callers : call[m] # Idle /\ call[n] # Idle => m = n
LaunchesApproved ==
  \A m \in Callers : In(m, "launch") /\ call[m].automated => call[m].approved
LaunchesAlone ==
  \A m \in Callers : In(m, "launch") => ~Alive(process[call[m].container])
CallsInHand ==
  \A m \in Callers :
    /\ call[m].op \in {"open", "page"} =>
         /\ Approved(call[m].runtime, call[m].container)
         /\ call[m].runtime \in Browsers /\ call[m].target \in Targets
         /\ target[call[m].target].browser = call[m].runtime
    /\ In(m, "page") => call[m].target \in Known(call[m].runtime)
Calls == OneCall /\ LaunchesApproved /\ LaunchesAlone /\ CallsInHand

PagesInBrowser ==
  \A b \in Browsers : \A p \in pages[b] : target[p.target].browser = b
Pages == PagesInBrowser /\ RefNamesOnePage /\ ContextsAreReferenced

\* What TypeOK says of calls.
CallsTyped ==
  /\ call \in [Callers -> Call \cup {Idle}]
  /\ \A m \in Callers :
       /\ call[m].op \in {"open", "page"} => call[m].target # None
       /\ call[m].op = "registered" => call[m].runtime \in DOMAIN browser

Sound == TypeOK /\ ConsentsGranted /\ Maps /\ Calls /\ Pages

-----------------------------------------------------------------------------
(* What steps leave alone *)

\* Browsers end and are watched, and new ones are started; nothing else about one
\* changes.
BrowsersKept ==
  \A b \in DOMAIN browser :
    /\ b \in DOMAIN browser'
    /\ browser'[b].container = browser[b].container
    /\ browser'[b].automated = browser[b].automated
    /\ browser'[b].approved = browser[b].approved
    /\ browser'[b].alive => browser[b].alive

\* Processes are left or dropped.
ProcessesLeft == \A c \in Containers : process'[c] \in {process[c], None}

\* A tab stays in its browser.
TabsKept ==
  \A t \in Targets : target[t].browser \in Browsers => target'[t].browser = target[t].browser

LEMMA Constants ==
  /\ Idle.op = "none"
  /\ \A op \in {"launch", "registered", "tool", "open", "page"} : \A c \in Containers :
       /\ Started(op, c) \in Call /\ Started(op, c).op = op
       /\ Started(op, c).container = c /\ Started(op, c) # Idle
<1>1. Idle.op = "none"
  BY DEF Idle
<1>2. ASSUME NEW op \in {"launch", "registered", "tool", "open", "page"}, NEW c \in Containers
      PROVE /\ Started(op, c) \in Call /\ Started(op, c).op = op
            /\ Started(op, c).container = c /\ Started(op, c) # Idle
  <2>1. /\ Started(op, c) \in Call /\ Started(op, c).op = op
        /\ Started(op, c).container = c
    BY DEF Started, Call, BrowserOrNone
  <2> QED
    BY <1>1, <2>1
<1> QED
  BY <1>1, <1>2

LEMMA BrowserTypes ==
  ASSUME TypeOK
  PROVE /\ Len(browser) \in Nat /\ DOMAIN browser = 1 .. Len(browser)
        /\ DOMAIN browser \subseteq Browsers
        /\ \A b \in DOMAIN browser : browser[b] \in Browser
BY LenProperties, BoundsAssumption DEF TypeOK, Browsers

\* A row gets another state and PID.
LEMMA RowSet ==
  ASSUME TypeOK, NEW c \in Containers, NEW state \in {"stopped", "launching", "running"},
         NEW pid \in BrowserOrNone,
         row' = [row EXCEPT ![c].state = state, ![c].pid = pid]
  PROVE /\ row' \in [Containers -> Row]
        /\ \A d \in Containers : row'[d].consent = row[d].consent
<1> DEFINE q == [row[c] EXCEPT !.state = state, !.pid = pid]
<1>1. row[c] \in Row
  BY DEF TypeOK
<1>2. q \in Row /\ q.consent = row[c].consent
  BY <1>1 DEF Row
<1>3. row' = [row EXCEPT ![c] = q]
  BY DEF TypeOK
<1> HIDE DEF q
<1>4. row \in [Containers -> Row]
  BY DEF TypeOK
<1>5. row' \in [Containers -> Row]
  BY <1>2, <1>3, <1>4
<1>6. \A d \in Containers : row'[d] = IF d = c THEN q ELSE row[d]
  BY <1>3, <1>4
<1> QED
  BY <1>2, <1>5, <1>6

\* The end of a browser, its kill and its watcher.
LEMMA BrowserChanged ==
  ASSUME TypeOK, NEW b \in DOMAIN browser, NEW x \in Browser,
         browser' = [browser EXCEPT ![b] = x],
         x.container = browser[b].container, x.automated = browser[b].automated,
         x.approved = browser[b].approved, x.alive => browser[b].alive
  PROVE /\ browser' \in Seq(Browser) /\ Len(browser') <= MaxBrowsers
        /\ BrowsersKept /\ browser'[b] = x
<1>1. browser \in Seq(Browser) /\ b \in 1 .. Len(browser)
  BY BrowserTypes DEF TypeOK
<1>2. /\ browser' \in Seq(Browser) /\ Len(browser') = Len(browser)
      /\ \A j \in 1 .. Len(browser) : browser'[j] = IF j = b THEN x ELSE browser[j]
  BY <1>1, ExceptSeq
<1>3. DOMAIN browser' = DOMAIN browser
  BY <1>1, <1>2, BrowserTypes, LenProperties
<1> QED
  BY <1>1, <1>2, <1>3, BrowserTypes DEF BrowsersKept, TypeOK

\* Browsers are as they were.
LEMMA BrowsersSame ==
  ASSUME browser' = browser
  PROVE BrowsersKept
BY DEF BrowsersKept

LEMMA BrowserAdded ==
  ASSUME TypeOK, NEW c \in Containers, NEW b, NEW automated \in BOOLEAN,
         NEW approved \in BOOLEAN, NewBrowser(c, b, automated, approved)
  PROVE /\ browser' \in Seq(Browser) /\ Len(browser') <= MaxBrowsers
        /\ BrowsersKept
        /\ b \in Browsers /\ b \in DOMAIN browser' /\ browser'[b].container = c
        /\ automated /\ approved => Approved(b, c)'
<1> DEFINE x == [container |-> c, automated |-> automated, approved |-> approved,
                 alive |-> TRUE, watched |-> FALSE]
<1>1. /\ x \in Browser /\ x.container = c
      /\ x.automated = automated /\ x.approved = approved
  BY DEF Browser
<1>2. b = Len(browser) + 1 /\ b \in Browsers /\ browser' = Append(browser, x)
  BY DEF NewBrowser
<1> HIDE DEF x
<1>3. /\ browser' \in Seq(Browser) /\ Len(browser') = Len(browser) + 1
      /\ \A i \in 1 .. Len(browser) : browser'[i] = browser[i]
      /\ browser'[b] = x
  BY <1>1, <1>2, AppendProperties DEF TypeOK
<1>4. DOMAIN browser' = 1 .. Len(browser) + 1
  BY <1>3, LenProperties
<1>5. b \in DOMAIN browser' /\ Len(browser') <= MaxBrowsers /\ BrowsersKept
  BY <1>2, <1>3, <1>4, BrowserTypes, BoundsAssumption DEF BrowsersKept, Browsers
<1>6. automated /\ approved => Approved(b, c)'
  BY <1>1, <1>3, <1>5 DEF Approved
<1> QED
  BY <1>1, <1>2, <1>3, <1>5, <1>6

LEMMA ApprovedKept ==
  ASSUME BrowsersKept, NEW b, NEW c, Approved(b, c)
  PROVE Approved(b, c)'
BY DEF BrowsersKept, Approved

\* Runtimes are left or dropped, and a process with its runtime or its browser.
LEMMA MapsKept ==
  ASSUME Maps, BrowsersKept,
         \A c \in Containers :
           /\ automation'[c] \in {automation[c], None}
           /\ process'[c] \in {process[c], None}
           /\ \/ process'[c] = process[c] \/ automation'[c] = None
              \/ ~browser'[process[c]].alive
  PROVE Maps'
<1>1. RuntimesApproved'
  BY ApprovedKept DEF Maps, RuntimesApproved
<1>2. ProcessesKnown'
  BY DEF Maps, ProcessesKnown, BrowsersKept
<1>3. LiveRuntimeIsOwned'
  BY DEF Maps, LiveRuntimeIsOwned, RuntimesApproved, Approved, BrowsersKept
<1> QED
  BY <1>1, <1>2, <1>3 DEF Maps

\* Calls go on as they were, or have returned.
LEMMA CallsKept ==
  ASSUME Calls, Maps, TypeOK, BrowsersKept, ProcessesLeft, TabsKept,
         \A m \in Callers :
           call'[m] = Idle \/ (call'[m] = call[m] /\ pages' = pages)
  PROVE Calls'
<1>1. OneCall'
  BY DEF Calls, OneCall
<1>2. LaunchesApproved'
  BY Constants DEF Calls, LaunchesApproved, In
<1>3. LaunchesAlone'
  <2>1. SUFFICES ASSUME NEW m \in Callers, call'[m].op = "launch"
                 PROVE ~Alive(process[call[m].container])'
    BY DEF LaunchesAlone, In
  <2>2. call'[m] = call[m] /\ ~Alive(process[call[m].container])
    BY <2>1, Constants DEF Calls, LaunchesAlone, In
  <2>3. PICK c \in Containers : c = call[m].container
    BY <2>1, <2>2, Constants DEF TypeOK, Call
  <2>4. process[c] # None => process[c] \in DOMAIN browser
    BY DEF Maps, ProcessesKnown
  <2> QED
    BY <2>2, <2>3, <2>4 DEF BrowsersKept, ProcessesLeft, Alive
<1>4. CallsInHand'
  <2>1. SUFFICES ASSUME NEW m \in Callers, call'[m].op \in {"open", "page"}
                 PROVE /\ Approved(call[m].runtime, call[m].container)'
                       /\ call'[m].runtime \in Browsers /\ call'[m].target \in Targets
                       /\ target'[call'[m].target].browser = call'[m].runtime
                       /\ call'[m].op = "page" => call'[m].target \in Known(call[m].runtime)'
    BY DEF CallsInHand, In
  <2>2. call'[m] = call[m] /\ pages' = pages
    BY <2>1, Constants
  <2>3. /\ Approved(call[m].runtime, call[m].container)
        /\ call[m].runtime \in Browsers /\ call[m].target \in Targets
        /\ target[call[m].target].browser = call[m].runtime
        /\ call[m].op = "page" => call[m].target \in Known(call[m].runtime)
    BY <2>1, <2>2 DEF Calls, CallsInHand, In
  <2>4. Approved(call[m].runtime, call[m].container)'
    BY <2>2, <2>3, ApprovedKept
  <2> QED
    BY <2>2, <2>3, <2>4 DEF TabsKept, Known
<1> QED
  BY <1>1, <1>2, <1>3, <1>4 DEF Calls

LEMMA PagesKept ==
  ASSUME Pages, TabsKept, TypeOK, UNCHANGED <<pages, contexts, issued>>
  PROVE Pages'
<1>1. PagesInBrowser'
  BY DEF Pages, PagesInBrowser, TabsKept, TypeOK, Page
<1>2. RefNamesOnePage' /\ ContextsAreReferenced'
  BY DEF Pages, RefNamesOnePage, ContextsAreReferenced, Known
<1> QED
  BY <1>1, <1>2 DEF Pages

\* What changes here are rows, browsers, tabs and the maps.
LEMMA AroundKept ==
  ASSUME Sound, TypeOK', ConsentsGranted',
         UNCHANGED <<pages, contexts, issued, call>>, BrowsersKept, TabsKept,
         \A c \in Containers :
           /\ automation'[c] \in {automation[c], None}
           /\ process'[c] \in {process[c], None}
           /\ process'[c] = process[c] \/ automation'[c] = None
  PROVE Sound'
BY MapsKept, CallsKept, PagesKept DEF Sound, ProcessesLeft

\* A call returns, or is refused.
LEMMA Returned ==
  ASSUME TypeOK, BrowsersKept, NEW m \in Callers, Return(m)
  PROVE /\ CallsTyped'
        /\ call'[m] = Idle /\ \A n \in Callers \ {m} : call'[n] = call[n]
BY Constants DEF TypeOK, Return, CallsTyped, BrowsersKept

\* Calls stay as they are while browsers end or are added.
LEMMA CallsLeft ==
  ASSUME TypeOK, BrowsersKept, call' = call
  PROVE CallsTyped'
BY DEF TypeOK, CallsTyped, BrowsersKept

\* The call of m begins, or goes on, and becomes x; no other runs.
LEMMA CallSet ==
  ASSUME TypeOK, NEW m \in Callers, NEW x \in Call, call' = [call EXCEPT ![m] = x],
         \A n \in Callers \ {m} : call[n] = Idle,
         x.op = "launch" => ~Alive(process[x.container])' /\ (x.automated => x.approved),
         x.op = "registered" => x.runtime \in DOMAIN browser',
         x.op \in {"open", "page"} =>
           /\ Approved(x.runtime, x.container)'
           /\ x.runtime \in Browsers /\ x.target \in Targets
           /\ target'[x.target].browser = x.runtime,
         x.op = "page" => x.target \in Known(x.runtime)'
  PROVE Calls' /\ CallsTyped'
<1>1. call'[m] = x /\ \A n \in Callers \ {m} : call'[n] = Idle
  BY DEF TypeOK
<1>2. OneCall'
  BY <1>1 DEF OneCall
<1>3. LaunchesApproved' /\ LaunchesAlone'
  <2>1. ASSUME NEW n \in Callers, call'[n].op = "launch"
        PROVE ~Alive(process[call[n].container])' /\ (call'[n].automated => call'[n].approved)
    <3>1. n = m /\ call'[n] = x
      BY <1>1, <2>1, Constants
    <3> QED
      BY <2>1, <3>1 DEF Alive
  <2> QED
    BY <2>1 DEF LaunchesApproved, LaunchesAlone, In
<1>4. CallsInHand'
  <2>1. SUFFICES ASSUME NEW n \in Callers, call'[n].op \in {"open", "page"}
                 PROVE /\ Approved(call[n].runtime, call[n].container)'
                       /\ call'[n].runtime \in Browsers /\ call'[n].target \in Targets
                       /\ target'[call'[n].target].browser = call'[n].runtime
                       /\ call'[n].op = "page" => call'[n].target \in Known(call[n].runtime)'
    BY DEF CallsInHand, In
  <2>2. n = m /\ call'[n] = x
    BY <1>1, <2>1, Constants
  <2> QED
    BY <2>1, <2>2 DEF Approved, Known
<1>5. CallsTyped'
  BY <1>1, Constants, NoneAssumption DEF CallsTyped, TypeOK
<1> QED
  BY <1>2, <1>3, <1>4, <1>5 DEF Calls

-----------------------------------------------------------------------------
(* Around the adapter, and the calls of one step *)

LEMMA InitSound ==
  ASSUME Init
  PROVE Sound
<1>1. TypeOK
  BY Constants, EmptySeq, BoundsAssumption
  DEF Init, TypeOK, Row, AbsentRow, BrowserOrNone, Tab, Browser
<1>2. ConsentsGranted
  BY DEF Init, ConsentsGranted, AbsentRow
<1>3. Maps
  BY DEF Init, Maps, RuntimesApproved, ProcessesKnown, LiveRuntimeIsOwned
<1>4. Calls
  BY Constants DEF Init, Calls, OneCall, LaunchesApproved, LaunchesAlone, CallsInHand, In
<1>5. Pages
  BY DEF Init, Pages, PagesInBrowser, RefNamesOnePage, ContextsAreReferenced, Known
<1> QED
  BY <1>1, <1>2, <1>3, <1>4, <1>5 DEF Sound

LEMMA NewSound ==
  ASSUME Sound, NEW c \in Containers, (\E m \in Callers : Create(m, c)) \/ NewContainer(c)
  PROVE Sound'
<1> USE DEF Sound
<1>1. NewContainer(c)
  BY DEF Create
<1>2. PICK consent \in BOOLEAN :
        /\ row' = [row EXCEPT ![c] = [consent |-> consent, state |-> "stopped",
                                     pid |-> None]]
        /\ granted' = [granted EXCEPT ![c] = consent]
  BY <1>1 DEF NewContainer
<1>3. UNCHANGED <<browser, process, automation, pages, contexts, target, issued, call>>
  BY <1>1 DEF NewContainer
<1>4. row' \in [Containers -> Row] /\ granted' \in [Containers -> BOOLEAN]
  BY <1>2 DEF TypeOK, Row, BrowserOrNone
<1>5. TypeOK'
  BY <1>3, <1>4 DEF TypeOK
<1>6. ConsentsGranted'
  BY <1>2 DEF TypeOK, ConsentsGranted
<1>7. BrowsersKept /\ TabsKept
  BY <1>3, BrowsersSame DEF TabsKept
<1> QED
  BY <1>3, <1>5, <1>6, <1>7, AroundKept

LEMMA ConsentSound ==
  ASSUME Sound, NEW c \in Containers, (\E m \in Callers : Update(m, c)) \/ Edit(c)
  PROVE Sound'
<1> USE DEF Sound
<1>1. /\ UNCHANGED <<browser, process, automation, pages, contexts, target, issued, call>>
      /\ \E consent \in BOOLEAN :
           /\ row' = [row EXCEPT ![c].consent = consent]
           /\ \/ granted' = [granted EXCEPT ![c] = consent]
              \/ /\ granted' = [granted EXCEPT ![c] = @ /\ consent]
                 /\ consent => row[c].consent
  BY DEF Update, Updatable, Edit
<1>2. PICK consent \in BOOLEAN :
        /\ row' = [row EXCEPT ![c].consent = consent]
        /\ \/ granted' = [granted EXCEPT ![c] = consent]
           \/ /\ granted' = [granted EXCEPT ![c] = @ /\ consent]
              /\ consent => row[c].consent
  BY <1>1
<1>3. row' \in [Containers -> Row] /\ granted' \in [Containers -> BOOLEAN]
  BY ZenonT(60), <1>2 DEF TypeOK, Row
<1>4. TypeOK'
  BY <1>1, <1>3 DEF TypeOK
<1>5. ConsentsGranted'
  BY <1>2 DEF TypeOK, Row, ConsentsGranted
<1>6. BrowsersKept /\ TabsKept
  BY <1>1, BrowsersSame DEF TabsKept
<1> QED
  BY <1>1, <1>4, <1>5, <1>6, AroundKept

LEMMA CloseSound ==
  ASSUME Sound, NEW m \in Callers, NEW c \in Containers, Close(m, c)
  PROVE Sound'
<1> USE DEF Sound
<1> DEFINE b == process[c]
           x == [browser[b] EXCEPT !.alive = FALSE]
<1>1. b \in DOMAIN browser
  BY DEF Close, Maps, ProcessesKnown
<1>2. browser[b] \in Browser
  BY <1>1, BrowserTypes
<1>3. /\ x \in Browser /\ x.container = browser[b].container
      /\ x.automated = browser[b].automated /\ x.approved = browser[b].approved
      /\ x.alive => browser[b].alive
  BY <1>2 DEF Browser
<1>4. /\ browser' = [browser EXCEPT ![b] = x]
      /\ automation' = [automation EXCEPT ![c] = None]
      /\ UNCHANGED <<row, granted, process, pages, contexts, target, issued, call>>
  BY DEF Close
<1> HIDE DEF b, x
<1>5. /\ browser' \in Seq(Browser) /\ Len(browser') <= MaxBrowsers
      /\ BrowsersKept
  BY <1>1, <1>3, <1>4, BrowserChanged
<1>6. TypeOK'
  BY <1>4, <1>5, CallsLeft DEF TypeOK, CallsTyped, BrowserOrNone
<1>7. ConsentsGranted' /\ TabsKept
  BY <1>4 DEF ConsentsGranted, TabsKept
<1> QED
  BY <1>4, <1>5, <1>6, <1>7, AroundKept DEF TypeOK

LEMMA ExitSound ==
  ASSUME Sound, NEW b \in DOMAIN browser, Exit(b) \/ Watch(b)
  PROVE Sound'
<1> USE DEF Sound
<1> DEFINE c == browser[b].container
<1>1. browser[b] \in Browser /\ c \in Containers
  BY BrowserTypes DEF Browser
<1>2. PICK x \in {[browser[b] EXCEPT !.alive = FALSE], [browser[b] EXCEPT !.watched = TRUE]} :
        browser' = [browser EXCEPT ![b] = x]
  BY DEF Exit, Watch
<1>3. /\ x \in Browser /\ x.container = browser[b].container
      /\ x.automated = browser[b].automated /\ x.approved = browser[b].approved
      /\ x.alive => browser[b].alive
  BY <1>1, <1>2 DEF Browser
<1>4. /\ browser' \in Seq(Browser) /\ Len(browser') <= MaxBrowsers
      /\ BrowsersKept
  BY <1>2, <1>3, BrowserChanged
<1>5. /\ UNCHANGED <<granted, pages, contexts, target, issued, call>>
      /\ row' \in {row, [row EXCEPT ![c].state = "stopped", ![c].pid = None]}
      /\ \/ UNCHANGED <<process, automation>>
         \/ /\ process' = [process EXCEPT ![c] = None]
            /\ automation' = [automation EXCEPT ![c] = None]
  BY DEF Exit, Watch, Drop
<1>6. row' \in [Containers -> Row] /\ ConsentsGranted'
  <2>1. CASE row' = row
    BY <1>5, <2>1 DEF TypeOK, ConsentsGranted
  <2>2. CASE row' = [row EXCEPT ![c].state = "stopped", ![c].pid = None]
    BY <1>1, <1>5, <2>2, RowSet DEF BrowserOrNone, ConsentsGranted
  <2> QED
    BY <1>5, <2>1, <2>2
<1>7. TypeOK'
  <2>1. CallsTyped'
    BY <1>4, <1>5, CallsLeft
  <2>2. process' \in [Containers -> BrowserOrNone] /\ automation' \in [Containers -> BrowserOrNone]
    BY <1>5 DEF TypeOK, BrowserOrNone
  <2> QED
    BY <1>4, <1>5, <1>6, <2>1, <2>2 DEF TypeOK, CallsTyped
<1>8. TabsKept
  BY <1>5 DEF TabsKept
<1> QED
  BY <1>1, <1>4, <1>5, <1>6, <1>7, <1>8, AroundKept DEF TypeOK

LEMMA HumanSound ==
  ASSUME Sound, NEW c \in Containers, LaunchByHuman(c)
  PROVE Sound'
<1> USE DEF Sound
<1>1. PICK b \in Browsers : NewBrowser(c, b, FALSE, FALSE) /\ Runs(c, b)
  BY DEF LaunchByHuman
<1>2. UNCHANGED <<granted, process, automation, pages, contexts, target, issued, call>>
  BY DEF LaunchByHuman
<1>3. /\ browser' \in Seq(Browser) /\ Len(browser') <= MaxBrowsers
      /\ BrowsersKept
  BY <1>1, BrowserAdded
<1>4. row' \in [Containers -> Row] /\ ConsentsGranted'
  <2>1. row' = [row EXCEPT ![c].state = "running", ![c].pid = b]
    BY <1>1 DEF Runs
  <2>2. /\ row' \in [Containers -> Row]
        /\ \A d \in Containers : row'[d].consent = row[d].consent
    BY <2>1, RowSet DEF BrowserOrNone
  <2> QED
    BY <1>2, <2>2 DEF ConsentsGranted
<1>5. TypeOK'
  BY <1>2, <1>3, <1>4, CallsLeft DEF TypeOK, CallsTyped
<1>6. TabsKept
  BY <1>2 DEF TabsKept
<1> QED
  BY <1>2, <1>3, <1>4, <1>5, <1>6, AroundKept

LEMMA TabSound ==
  ASSUME Sound, NEW t \in Targets, CloseTab(t) \/ \E b \in DOMAIN browser : OpenTab(b, t)
  PROVE Sound'
<1> USE DEF Sound
<1>1. UNCHANGED <<row, granted, browser, process, automation, pages, contexts, issued, call>>
  BY DEF CloseTab, OpenTab
<1>2. target' \in [Targets -> Tab] /\ TabsKept
  <2>1. CASE CloseTab(t)
    BY <2>1 DEF CloseTab, TypeOK, Tab, TabsKept
  <2>2. CASE \E b \in DOMAIN browser : OpenTab(b, t)
    BY <2>2, BrowserTypes, NoneAssumption
    DEF OpenTab, TypeOK, Tab, BrowserOrNone, TabsKept, Browsers
  <2> QED
    BY <2>1, <2>2
<1>3. TypeOK'
  BY <1>1, <1>2 DEF TypeOK
<1>4. ConsentsGranted' /\ BrowsersKept
  BY <1>1, BrowsersSame DEF ConsentsGranted
<1> QED
  BY <1>1, <1>2, <1>3, <1>4, AroundKept

-----------------------------------------------------------------------------
(* Launches *)

LEMMA ReserveSound ==
  ASSUME Sound, NEW m \in Callers, NEW c \in Containers, Reserve(m, c)
  PROVE Sound'
<1> USE DEF Sound
<1>1. UNCHANGED <<granted, browser, process, automation, pages, contexts, target, issued>>
  BY DEF Reserve
<1>2. PICK automated \in BOOLEAN :
        /\ Consented(c, automated)
        /\ row' = [row EXCEPT ![c].state = "launching", ![c].pid = None]
        /\ call' = [call EXCEPT ![m] =
             [Started("launch", c) EXCEPT
                !.automated = automated, !.approved = automated /\ granted[c]]]
  BY DEF Reserve
<1> DEFINE approved == automated /\ granted[c]
           x == [Started("launch", c) EXCEPT !.automated = automated, !.approved = approved]
<1>3. x \in Call /\ x.op = "launch" /\ x.container = c /\ (x.automated => x.approved)
  <2> DEFINE s == Started("launch", c)
  <2>1. s \in Call /\ s.op = "launch" /\ s.container = c
    BY Constants
  <2>2. approved \in BOOLEAN /\ (automated => approved)
    BY <1>2 DEF TypeOK, Consented, ConsentsGranted
  <2>3. x = [s EXCEPT !.automated = automated, !.approved = approved]
    OBVIOUS
  <2> HIDE DEF s, x, approved
  <2>4. /\ x.op = s.op /\ x.automated = automated /\ x.approved = approved /\ x \in Call
        /\ x.container = s.container
    BY <2>1, <2>2, <2>3 DEF Call
  <2> QED
    BY <2>1, <2>2, <2>4
<1>5. call' = [call EXCEPT ![m] = x] /\ \A n \in Callers : call[n] = Idle
  BY <1>2 DEF Reserve, MayCall, Serialized
<1> HIDE DEF x
<1>4. ~Alive(process[c])'
  BY <1>1 DEF Reserve, Alive
<1>6. Calls' /\ CallsTyped'
  BY <1>3, <1>4, <1>5, CallSet
<1>7. /\ row' \in [Containers -> Row]
      /\ \A d \in Containers : row'[d].consent = row[d].consent
  <2>1. row' = [row EXCEPT ![c].state = "launching", ![c].pid = None]
    BY <1>2
  <2> QED
    BY <2>1, RowSet DEF BrowserOrNone
<1>8. TypeOK'
  BY <1>1, <1>6, <1>7 DEF TypeOK, CallsTyped
<1>9. ConsentsGranted' /\ BrowsersKept /\ TabsKept
  BY <1>1, <1>7, BrowsersSame DEF ConsentsGranted, TabsKept
<1> QED
  BY <1>1, <1>6, <1>8, <1>9, MapsKept, PagesKept

\* The call of m is a launch of c, and the only call.
LEMMA LaunchCall ==
  ASSUME TypeOK, OneCall, NEW m \in Callers, call[m].op \in {"launch", "registered"}
  PROVE /\ call[m] \in Call
        /\ \E c \in Containers, automated, approved \in BOOLEAN :
             call[m].container = c /\ call[m].automated = automated
               /\ call[m].approved = approved
        /\ \A n \in Callers \ {m} : call[n] = Idle
<1>1. call[m] # Idle
  BY Constants
<1>2. call[m] \in Call
  BY <1>1 DEF TypeOK
<1> QED
  BY <1>1, <1>2 DEF OneCall, Call

\* A runtime that a launch without automation leaves has no live process.
LEMMA RegisterSound ==
  ASSUME Sound, NEW m \in Callers, Register(m)
  PROVE Sound'
<1> USE DEF Sound
<1>1. UNCHANGED <<row, granted, pages, contexts, target, issued>> /\ In(m, "launch")
  BY DEF Register
<1>2. call[m] \in Call /\ \A n \in Callers \ {m} : call[n] = Idle
  BY <1>1, LaunchCall DEF Calls, In
<1>3. PICK c \in Containers, automated \in BOOLEAN, approved \in BOOLEAN :
        /\ call[m].container = c /\ call[m].automated = automated
        /\ call[m].approved = approved
  BY <1>2 DEF Call
<1>4. (automated => approved) /\ ~Alive(process[c])
  BY <1>1, <1>3 DEF Calls, LaunchesApproved, LaunchesAlone
<1>5. PICK b \in Browsers :
        /\ NewBrowser(c, b, automated, approved)
        /\ process' = [process EXCEPT ![c] = b]
        /\ automation' = [automation EXCEPT ![c] = IF automated THEN b ELSE @]
        /\ call' = [call EXCEPT ![m].op = "registered", ![m].runtime = b]
  BY <1>3 DEF Register
<1>6. /\ browser' \in Seq(Browser) /\ Len(browser') <= MaxBrowsers
      /\ BrowsersKept /\ b \in DOMAIN browser' /\ browser'[b].container = c
      /\ automated => Approved(b, c)'
  BY <1>4, <1>5, BrowserAdded
<1>7. Maps'
  <2>1. \A d \in Containers :
          /\ process'[d] = IF d = c THEN b ELSE process[d]
          /\ automation'[d] = IF d = c /\ automated THEN b ELSE automation[d]
    BY <1>5 DEF TypeOK
  <2>2. RuntimesApproved'
    <3>1. SUFFICES ASSUME NEW d \in Containers, automation'[d] # None
                   PROVE Approved(automation[d], d)'
      BY DEF RuntimesApproved
    <3>2. CASE d = c /\ automated
      BY <1>6, <2>1, <3>2 DEF Approved
    <3>3. CASE ~(d = c /\ automated)
      <4>1. Approved(automation[d], d) /\ automation'[d] = automation[d]
        BY <2>1, <3>1, <3>3 DEF Maps, RuntimesApproved
      <4> QED
        BY <1>6, <4>1 DEF Approved, BrowsersKept
    <3> QED
      BY <3>2, <3>3
  <2>3. ProcessesKnown'
    BY <1>6, <2>1 DEF Maps, ProcessesKnown, BrowsersKept
  <2>4. LiveRuntimeIsOwned'
    <3>1. SUFFICES ASSUME NEW d \in Containers, automation'[d] # None
                   PROVE /\ browser'[automation'[d]].container = d
                         /\ browser'[automation'[d]].alive => process'[d] = automation'[d]
      BY DEF LiveRuntimeIsOwned
    <3>2. CASE d = c /\ automated
      BY <1>6, <2>1, <3>2
    <3>3. CASE ~(d = c /\ automated)
      <4>1. /\ automation'[d] = automation[d] /\ automation[d] \in DOMAIN browser
            /\ browser[automation[d]].container = d
            /\ browser[automation[d]].alive => process[d] = automation[d]
        BY <2>1, <3>1, <3>3 DEF Maps, RuntimesApproved, Approved, LiveRuntimeIsOwned
      <4>2. d = c => ~browser[automation[d]].alive
        BY <1>4, <3>1, <4>1 DEF Alive
      <4> QED
        BY <1>6, <2>1, <4>1, <4>2 DEF BrowsersKept
    <3> QED
      BY <3>2, <3>3
  <2> QED
    BY <2>2, <2>3, <2>4 DEF Maps
<1>8. PICK x \in Call :
        /\ call' = [call EXCEPT ![m] = x]
        /\ x.op = "registered" /\ x.runtime = b
  <2> DEFINE y == [call[m] EXCEPT !.op = "registered", !.runtime = b]
  <2>1. y \in Call /\ y.op = "registered" /\ y.runtime = b
    BY <1>2 DEF Call, BrowserOrNone
  <2>2. call' = [call EXCEPT ![m] = y]
    BY <1>2, <1>5 DEF TypeOK
  <2> HIDE DEF y
  <2> QED
    BY <2>1, <2>2
<1>9. Calls' /\ CallsTyped'
  BY <1>2, <1>6, <1>8, CallSet
<1>10. TypeOK'
  <2>1. process' \in [Containers -> BrowserOrNone] /\ automation' \in [Containers -> BrowserOrNone]
    BY <1>5 DEF TypeOK, BrowserOrNone
  <2> QED
    BY <1>1, <1>6, <1>9, <2>1 DEF TypeOK, CallsTyped
<1>11. ConsentsGranted' /\ TabsKept
  BY <1>1 DEF ConsentsGranted, TabsKept
<1> QED
  BY <1>1, <1>7, <1>9, <1>10, <1>11, PagesKept

LEMMA CommitSound ==
  ASSUME Sound, NEW m \in Callers, CommitLaunch(m)
  PROVE Sound'
<1> USE DEF Sound
<1>1. /\ UNCHANGED <<granted, browser, process, automation, pages, contexts, target, issued>>
      /\ Return(m) /\ In(m, "registered")
      /\ Runs(call[m].container, call[m].runtime)
  BY DEF CommitLaunch
<1>2. PICK c \in Containers, b \in BrowserOrNone :
        c = call[m].container /\ b = call[m].runtime
  BY <1>1, LaunchCall DEF Calls, In, Call
<1>3. /\ row' \in [Containers -> Row]
      /\ \A d \in Containers : row'[d].consent = row[d].consent
  <2>1. row' = [row EXCEPT ![c].state = "running", ![c].pid = b]
    BY <1>1, <1>2 DEF Runs
  <2> QED
    BY <2>1, RowSet
<1>4. /\ CallsTyped'
      /\ call'[m] = Idle /\ \A n \in Callers \ {m} : call'[n] = call[n]
  BY <1>1, BrowsersSame, Returned
<1>5. TypeOK'
  BY <1>1, <1>3, <1>4 DEF TypeOK, CallsTyped
<1>6. ConsentsGranted' /\ BrowsersKept /\ TabsKept
  BY <1>1, <1>3, BrowsersSame DEF ConsentsGranted, TabsKept
<1> QED
  BY <1>1, <1>4, <1>5, <1>6, MapsKept, CallsKept, PagesKept DEF ProcessesLeft

\* The runtime that is left, if any, is not of the browser that ends here.
LEMMA LoseSound ==
  ASSUME Sound, NEW m \in Callers, LoseLaunch(m)
  PROVE Sound'
<1> USE DEF Sound
<1>1. /\ UNCHANGED <<granted, pages, contexts, target, issued>>
      /\ Return(m) /\ In(m, "registered")
  BY DEF LoseLaunch
<1>2. PICK c \in Containers, b \in DOMAIN browser :
        c = call[m].container /\ b = call[m].runtime
  BY <1>1, LaunchCall DEF Calls, In, TypeOK
<1>3. /\ row' = row \/ Runs(c, b)
      /\ browser' = [browser EXCEPT ![b].alive = FALSE, ![b].watched = TRUE]
      /\ process' = [process EXCEPT ![c] = IF @ = b THEN None ELSE @]
      /\ automation' = [automation EXCEPT ![c] = IF @ = b THEN None ELSE @]
  BY <1>2 DEF LoseLaunch
<1>4. b \in BrowserOrNone /\ browser[b] \in Browser
  BY <1>2, BrowserTypes DEF BrowserOrNone
<1>5. /\ row' \in [Containers -> Row]
      /\ \A d \in Containers : row'[d].consent = row[d].consent
  <2>1. CASE row' = row
    BY <2>1 DEF TypeOK
  <2>2. CASE row' = [row EXCEPT ![c].state = "running", ![c].pid = b]
    BY <1>4, <2>2, RowSet
  <2> QED
    BY <1>3, <2>1, <2>2 DEF Runs
<1> DEFINE x == [browser[b] EXCEPT !.alive = FALSE, !.watched = TRUE]
<1>6. /\ x \in Browser /\ x.container = browser[b].container
      /\ x.automated = browser[b].automated /\ x.approved = browser[b].approved
      /\ ~x.alive
  BY <1>4 DEF Browser
<1>7. browser' = [browser EXCEPT ![b] = x]
  BY <1>3, <1>4 DEF TypeOK
<1> HIDE DEF x
<1>8. /\ browser' \in Seq(Browser) /\ Len(browser') <= MaxBrowsers
      /\ BrowsersKept /\ ~browser'[b].alive
  BY <1>6, <1>7, BrowserChanged
<1>9. \A d \in Containers :
        /\ automation'[d] \in {automation[d], None}
        /\ process'[d] \in {process[d], None}
        /\ \/ process'[d] = process[d] \/ automation'[d] = None
           \/ ~browser'[process[d]].alive
  BY <1>3, <1>8 DEF TypeOK
<1>10. /\ CallsTyped'
       /\ call'[m] = Idle /\ \A n \in Callers \ {m} : call'[n] = call[n]
  BY <1>1, <1>8, Returned
<1>11. TypeOK'
  <2>1. process' \in [Containers -> BrowserOrNone] /\ automation' \in [Containers -> BrowserOrNone]
    BY <1>3 DEF TypeOK, BrowserOrNone
  <2> QED
    BY <1>1, <1>5, <1>8, <1>10, <2>1 DEF TypeOK, CallsTyped
<1>12. ConsentsGranted' /\ TabsKept
  BY <1>1, <1>5 DEF ConsentsGranted, TabsKept
<1> QED
  BY <1>1, <1>8, <1>9, <1>10, <1>11, <1>12, MapsKept, CallsKept, PagesKept
  DEF ProcessesLeft

LEMMA FailSound ==
  ASSUME Sound, NEW m \in Callers, FailLaunch(m)
  PROVE Sound'
<1> USE DEF Sound
<1>1. /\ UNCHANGED <<granted, browser, process, automation, pages, contexts, target, issued>>
      /\ Return(m) /\ In(m, "launch")
      /\ row' = [row EXCEPT ![call[m].container].state = "stopped"]
  BY DEF FailLaunch
<1>2. call[m].container \in Containers
  BY <1>1, Constants DEF TypeOK, In, Call
<1>3. /\ row' \in [Containers -> Row]
      /\ \A d \in Containers : row'[d].consent = row[d].consent
  BY ZenonT(60), <1>1, <1>2 DEF TypeOK, Row
<1>4. /\ CallsTyped'
      /\ call'[m] = Idle /\ \A n \in Callers \ {m} : call'[n] = call[n]
  BY <1>1, BrowsersSame, Returned
<1>5. TypeOK'
  BY <1>1, <1>3, <1>4 DEF TypeOK, CallsTyped
<1>6. ConsentsGranted' /\ BrowsersKept /\ TabsKept
  BY <1>1, <1>3, BrowsersSame DEF ConsentsGranted, TabsKept
<1> QED
  BY <1>1, <1>4, <1>5, <1>6, MapsKept, CallsKept, PagesKept DEF ProcessesLeft

-----------------------------------------------------------------------------
(* Tools *)

LEMMA CheckSound ==
  ASSUME Sound, NEW m \in Callers, NEW c \in Containers, CheckRow(m, c)
  PROVE Sound'
<1> USE DEF Sound
<1>1. /\ UNCHANGED <<row, granted, browser, process, automation, pages, contexts,
                     target, issued>>
      /\ call' = [call EXCEPT ![m] = Started("tool", c)]
      /\ \A n \in Callers : call[n] = Idle
  BY DEF CheckRow, MayCall, Serialized
<1>2. Started("tool", c) \in Call /\ Started("tool", c).op = "tool"
  BY Constants
<1>3. Calls' /\ CallsTyped'
  BY <1>1, <1>2, CallSet
<1>4. TypeOK'
  BY <1>1, <1>3 DEF TypeOK, CallsTyped
<1>5. ConsentsGranted' /\ BrowsersKept /\ TabsKept
  BY <1>1, BrowsersSame DEF ConsentsGranted, TabsKept
<1> QED
  BY <1>1, <1>3, <1>4, <1>5, MapsKept, PagesKept

LEMMA RefuseSound ==
  ASSUME Sound, NEW m \in Callers, RefuseTool(m)
  PROVE Sound'
<1> USE DEF Sound
<1>1. /\ UNCHANGED <<row, granted, browser, process, automation, pages, contexts,
                     target, issued>>
      /\ Return(m)
  BY DEF RefuseTool
<1>2. /\ CallsTyped'
      /\ call'[m] = Idle /\ \A n \in Callers \ {m} : call'[n] = call[n]
  BY <1>1, BrowsersSame, Returned
<1>3. TypeOK'
  BY <1>1, <1>2 DEF TypeOK, CallsTyped
<1>4. ConsentsGranted' /\ BrowsersKept /\ TabsKept
  BY <1>1, BrowsersSame DEF ConsentsGranted, TabsKept
<1> QED
  BY <1>1, <1>2, <1>3, <1>4, MapsKept, CallsKept, PagesKept DEF ProcessesLeft

\* The tool of m goes on with target t of runtime b.
LEMMA ProceedSet ==
  ASSUME Sound, NEW m \in Callers, NEW b \in Browsers, NEW t \in Targets,
         NEW op \in {"open", "page"}, HasRuntime(m, b), Proceed(m, op, b, t),
         BrowsersKept, target'[t].browser = b,
         op = "page" => t \in Known(b)'
  PROVE Calls' /\ CallsTyped'
<1> USE DEF Sound
<1>1. call[m] \in Call
  BY Constants DEF HasRuntime, In, TypeOK
<1>2. PICK c \in Containers : c = call[m].container
  BY <1>1 DEF Call
<1>3. Approved(b, c)'
  <2>1. Approved(b, c)
    BY <1>2, NoneAssumption DEF HasRuntime, Maps, RuntimesApproved, Browsers
  <2> QED
    BY <2>1, ApprovedKept
<1>4. PICK x \in Call :
        /\ call' = [call EXCEPT ![m] = x]
        /\ x.op = op /\ x.runtime = b /\ x.target = t /\ x.container = c
  <2> DEFINE y == [call[m] EXCEPT !.op = op, !.runtime = b, !.target = t]
  <2>1. y \in Call /\ y.op = op /\ y.runtime = b /\ y.target = t /\ y.container = c
    BY <1>1, <1>2 DEF Call, BrowserOrNone
  <2>2. call' = [call EXCEPT ![m] = y]
    BY <1>1 DEF Proceed, TypeOK
  <2> HIDE DEF y
  <2> QED
    BY <2>1, <2>2
<1>5. \A n \in Callers \ {m} : call[n] = Idle
  BY Constants DEF HasRuntime, In, Calls, OneCall
<1>6. x.op \in {"open", "page"} =>
        /\ Approved(x.runtime, x.container)'
        /\ x.runtime \in Browsers /\ x.target \in Targets
        /\ target'[x.target].browser = x.runtime
  BY <1>3, <1>4
<1>7. x.op = "page" => x.target \in Known(x.runtime)'
  BY <1>4
<1> QED
  BY <1>4, <1>5, <1>6, <1>7, CallSet

LEMMA CreateSound ==
  ASSUME Sound, NEW m \in Callers, NEW b \in Browsers, CreateTarget(m, b)
  PROVE Sound'
<1> USE DEF Sound
<1>1. /\ UNCHANGED <<row, granted, browser, process, automation, pages, contexts, issued>>
      /\ HasRuntime(m, b)
  BY DEF CreateTarget
<1>2. PICK t \in Targets :
        /\ target[t].browser = None
        /\ target' = [target EXCEPT ![t] = [browser |-> b, live |-> TRUE]]
        /\ Proceed(m, "open", b, t)
  BY DEF CreateTarget
<1>3. /\ target' \in [Targets -> Tab] /\ TabsKept /\ target'[t].browser = b
  BY <1>2, NoneAssumption DEF TypeOK, Tab, BrowserOrNone, TabsKept, Browsers
<1>4. ConsentsGranted' /\ BrowsersKept
  BY <1>1, BrowsersSame DEF ConsentsGranted
<1>5. Calls' /\ CallsTyped'
  BY <1>1, <1>2, <1>3, <1>4, ProceedSet
<1>6. TypeOK'
  BY <1>1, <1>3, <1>5 DEF TypeOK, CallsTyped
<1> QED
  BY <1>1, <1>3, <1>4, <1>5, <1>6, MapsKept, PagesKept

LEMMA FindSound ==
  ASSUME Sound, NEW m \in Callers, NEW b \in Browsers, FindTarget(m, b)
  PROVE Sound'
<1> USE DEF Sound
<1>1. /\ UNCHANGED <<row, granted, browser, process, automation, pages, contexts,
                     target, issued>>
      /\ HasRuntime(m, b)
  BY DEF FindTarget
<1>2. PICK q \in issued : \E t \in PageTargets(b, q.ref) : Proceed(m, "page", b, t)
  BY DEF FindTarget
<1>3. PICK p \in pages[b] : Proceed(m, "page", b, p.target)
  BY <1>2 DEF PageTargets
<1>4. PICK t \in Targets :
        /\ Proceed(m, "page", b, t)
        /\ t \in Known(b)' /\ target'[t].browser = b
  <2>1. p.target \in Targets /\ target[p.target].browser = b
    BY DEF TypeOK, Page, Pages, PagesInBrowser
  <2>2. p.target \in Known(b)'
    BY <1>1 DEF Known
  <2> QED
    BY <1>1, <1>3, <2>1, <2>2
<1>5. ConsentsGranted' /\ BrowsersKept /\ TabsKept
  BY <1>1, BrowsersSame DEF ConsentsGranted, TabsKept
<1>6. Calls' /\ CallsTyped'
  BY <1>1, <1>4, <1>5, ProceedSet
<1>7. TypeOK'
  BY <1>1, <1>6 DEF TypeOK, CallsTyped
<1> QED
  BY <1>1, <1>5, <1>6, <1>7, MapsKept, PagesKept

\* Runtime b keeps the references of keep and gives new ones to tabs of ts.
LEMMA PagesNamed ==
  ASSUME TypeOK, Pages, NEW b \in Browsers, NEW ts \in SUBSET Targets,
         \A t \in ts : target[t].browser = b,
         NEW keep \in SUBSET pages[b], NEW new \in NewPages(b, ts),
         pages' = [pages EXCEPT ![b] = keep \cup new],
         issued' = issued \cup new, target' = target,
         NEW left \in SUBSET contexts[b], contexts' = [contexts EXCEPT ![b] = left],
         \A x \in left : \E p \in keep : p.target = x.target
  PROVE /\ pages' \in [Browsers -> SUBSET Page] /\ issued' \subseteq Page
        /\ contexts' \in [Browsers -> SUBSET PageContext]
        /\ Pages'
<1>1. /\ \A p \in new : /\ p.ref \notin {q.ref : q \in issued} /\ p.target \in ts
                        /\ p.target \notin Known(b) /\ p \in Page
      /\ \A p, q \in new : p.ref = q.ref \/ p.target = q.target => p = q
  <2>1. new \in SUBSET [ref : FreshRefs(b, issued), target : ts \ Known(b)]
    BY DEF NewPages
  <2>2. ASSUME NEW p \in new
        PROVE /\ p.ref \notin {q.ref : q \in issued} /\ p.target \in ts
              /\ p.target \notin Known(b) /\ p \in Page
    BY <2>1 DEF FreshRefs, Page
  <2>3. \A p, q \in new : p.ref = q.ref \/ p.target = q.target => p = q
    BY DEF NewPages
  <2> QED
    BY <2>2, <2>3
<1>2. /\ pages'[b] = keep \cup new
      /\ \A d \in Browsers \ {b} : pages'[d] = pages[d]
      /\ contexts'[b] = left
      /\ \A d \in Browsers \ {b} : contexts'[d] = contexts[d]
  BY DEF TypeOK
<1>3. pages' \in [Browsers -> SUBSET Page] /\ contexts' \in [Browsers -> SUBSET PageContext]
  <2>1. keep \cup new \subseteq Page
    BY <1>1 DEF TypeOK
  <2>2. left \subseteq PageContext
    BY DEF TypeOK
  <2> QED
    BY <2>1, <2>2 DEF TypeOK
<1>4. issued' \subseteq Page
  BY <1>1 DEF TypeOK
<1>5. \A d \in Browsers : \A p \in pages'[d] :
        \/ p \in pages[d]
        \/ d = b /\ p \in new
  BY <1>2
<1>6. \A d \in Browsers : \A p \in pages[d] : p \in issued /\ target[p.target].browser = d
  BY DEF Pages, PagesInBrowser, RefNamesOnePage
<1>7. PagesInBrowser'
  <2>1. \A p \in new : target[p.target].browser = b
    BY <1>1
  <2> QED
    BY <1>5, <1>6, <2>1 DEF PagesInBrowser
<1>8. RefNamesOnePage'
  <2>1. SUFFICES ASSUME NEW b1 \in Browsers, NEW b2 \in Browsers,
                        NEW p1 \in pages'[b1], NEW p2 \in pages'[b2],
                        p1.ref = p2.ref \/ p1.target = p2.target
                 PROVE b1 = b2 /\ p1 = p2
    <3>1. \A p, q \in issued' : p.ref = q.ref => p = q
      BY <1>1 DEF Pages, RefNamesOnePage
    <3>2. \A d \in Browsers : pages'[d] \subseteq issued'
      BY <1>5, <1>6
    <3> QED
      BY <3>1, <3>2 DEF RefNamesOnePage
  <2>2. CASE p1 \in pages[b1] /\ p2 \in pages[b2]
    BY <2>1, <2>2 DEF Pages, RefNamesOnePage
  <2>3. CASE b1 = b /\ p1 \in new /\ b2 = b /\ p2 \in new
    BY <1>1, <2>1, <2>3
  <2>4. ASSUME NEW p \in new, NEW d \in Browsers, NEW q \in pages[d]
        PROVE p.ref # q.ref /\ p.target # q.target
    <3>1. p.ref # q.ref
      BY <1>1, <1>6
    <3>2. CASE d = b
      BY <1>1, <3>1, <3>2 DEF Known
    <3>3. CASE d # b
      BY <1>1, <1>6, <3>1, <3>3
    <3> QED
      BY <3>2, <3>3
  <2> QED
    BY <1>5, <2>1, <2>2, <2>3, <2>4
<1>9. ContextsAreReferenced'
  <2>1. ASSUME NEW d \in Browsers
        PROVE /\ \A x \in contexts'[d] : \E p \in pages'[d] : p.target = x.target
              /\ \A x, y \in contexts'[d] : x.target = y.target => x = y
    <3>1. /\ \A x \in contexts[d] : \E p \in pages[d] : p.target = x.target
          /\ \A x, y \in contexts[d] : x.target = y.target => x = y
      BY DEF Pages, ContextsAreReferenced, Known
    <3>2. CASE d = b
      BY <1>2, <3>1, <3>2
    <3>3. CASE d # b
      BY <1>2, <3>1, <3>3
    <3> QED
      BY <3>2, <3>3
  <2> QED
    BY <2>1 DEF ContextsAreReferenced, Known
<1> QED
  BY <1>3, <1>4, <1>7, <1>8, <1>9 DEF Pages

\* No call but that of m is going on.
LEMMA AloneSound ==
  ASSUME Sound, NEW m \in Callers, call[m] # Idle, Return(m)
  PROVE \A n \in Callers : call'[n] = Idle
BY DEF Sound, TypeOK, Return, Calls, OneCall

LEMMA ListSound ==
  ASSUME Sound, NEW m \in Callers, NEW b \in Browsers, ListPages(m, b)
  PROVE Sound'
<1> USE DEF Sound
<1>1. /\ UNCHANGED <<row, granted, browser, process, automation, target>>
      /\ HasRuntime(m, b) /\ Return(m)
  BY DEF ListPages
<1> DEFINE ts == LiveTabs(b)
           keep == {p \in pages[b] : p.target \in ts}
           left == {x \in contexts[b] : x.target \in ts}
<1>2. PICK new \in NewPages(b, ts) :
        /\ pages' = [pages EXCEPT ![b] = keep \cup new]
        /\ issued' = issued \cup new
  BY DEF ListPages
<1>3. contexts' = [contexts EXCEPT ![b] = left]
  BY DEF ListPages
<1>4. ts \in SUBSET Targets /\ \A t \in ts : target[t].browser = b
  BY DEF LiveTabs
<1>5. \A x \in left : \E p \in keep : p.target = x.target
  <2>1. \A x \in contexts[b] : \E p \in pages[b] : p.target = x.target
    BY DEF Pages, ContextsAreReferenced, Known
  <2> HIDE DEF ts
  <2> QED
    BY <2>1
<1>6. keep \in SUBSET pages[b] /\ left \in SUBSET contexts[b]
  OBVIOUS
<1> HIDE DEF ts, keep, left
<1>7. /\ pages' \in [Browsers -> SUBSET Page] /\ issued' \subseteq Page
      /\ contexts' \in [Browsers -> SUBSET PageContext]
      /\ Pages'
  BY ZenonT(60), <1>1, <1>2, <1>3, <1>4, <1>5, <1>6, PagesNamed
<1>8. CallsTyped'
  BY <1>1, BrowsersSame, Returned
<1>9. \A n \in Callers : call'[n] = Idle
  BY <1>1, Constants, AloneSound DEF HasRuntime, In
<1>10. TypeOK'
  BY <1>1, <1>7, <1>8 DEF TypeOK, CallsTyped
<1>11. ConsentsGranted' /\ BrowsersKept /\ TabsKept
  BY <1>1, BrowsersSame DEF ConsentsGranted, TabsKept
<1> QED
  BY <1>1, <1>7, <1>9, <1>10, <1>11, MapsKept, CallsKept DEF ProcessesLeft

LEMMA NameSound ==
  ASSUME Sound, NEW m \in Callers, NameTarget(m)
  PROVE Sound'
<1> USE DEF Sound
<1>1. /\ UNCHANGED <<row, granted, browser, process, automation, contexts, target>>
      /\ In(m, "open") /\ Return(m)
  BY DEF NameTarget
<1>2. PICK b \in Browsers, t \in Targets :
        b = call[m].runtime /\ t = call[m].target /\ target[t].browser = b
  BY <1>1 DEF Calls, CallsInHand, In
<1>3. PICK new \in NewPages(b, {t}) :
        /\ pages' = [pages EXCEPT ![b] = pages[b] \cup new]
        /\ issued' = issued \cup new
  BY <1>2 DEF NameTarget
<1>4. contexts' = [contexts EXCEPT ![b] = contexts[b]]
  BY <1>1 DEF TypeOK
<1>5. \A x \in contexts[b] : \E p \in pages[b] : p.target = x.target
  BY DEF Pages, ContextsAreReferenced, Known
<1>6. /\ pages' \in [Browsers -> SUBSET Page] /\ issued' \subseteq Page
      /\ contexts' \in [Browsers -> SUBSET PageContext]
      /\ Pages'
  <2>1. PICK keep \in SUBSET pages[b] : keep = pages[b]
    OBVIOUS
  <2>2. PICK left \in SUBSET contexts[b] : left = contexts[b]
    OBVIOUS
  <2>3. PICK ts \in SUBSET Targets : ts = {t}
    OBVIOUS
  <2>4. new \in NewPages(b, ts)
    BY <1>3, <2>3
  <2>5. \A u \in ts : target[u].browser = b
    BY <1>2, <2>3
  <2>6. /\ pages' = [pages EXCEPT ![b] = keep \cup new]
        /\ issued' = issued \cup new /\ target' = target
        /\ contexts' = [contexts EXCEPT ![b] = left]
    BY <1>1, <1>3, <1>4, <2>1, <2>2
  <2>7. \A x \in left : \E p \in keep : p.target = x.target
    BY <1>5, <2>1, <2>2
  <2> HIDE DEF Sound
  <2>8. TypeOK /\ Pages
    BY DEF Sound
  <2> QED
    BY ZenonT(60), <2>4, <2>5, <2>6, <2>7, <2>8, PagesNamed
<1>7. CallsTyped'
  BY <1>1, BrowsersSame, Returned
<1>8. \A n \in Callers : call'[n] = Idle
  BY <1>1, Constants, AloneSound DEF In
<1>9. TypeOK'
  BY <1>1, <1>6, <1>7 DEF TypeOK, CallsTyped
<1>10. ConsentsGranted' /\ BrowsersKept /\ TabsKept
  BY <1>1, BrowsersSame DEF ConsentsGranted, TabsKept
<1> QED
  BY <1>1, <1>6, <1>8, <1>9, <1>10, MapsKept, CallsKept DEF ProcessesLeft

LEMMA ActSound ==
  ASSUME Sound, NEW m \in Callers, ActOnPage(m)
  PROVE Sound'
<1> USE DEF Sound
<1>1. /\ UNCHANGED <<row, granted, browser, process, automation, pages, target, issued>>
      /\ In(m, "page") /\ Return(m)
  BY DEF ActOnPage
<1>2. PICK b \in Browsers, t \in Targets :
        b = call[m].runtime /\ t = call[m].target /\ t \in Known(b)
  BY <1>1 DEF Calls, CallsInHand, In
<1>3. contexts' = contexts
        \/ \E attached \in BOOLEAN :
             /\ \A x \in contexts[b] : x.target # t
             /\ contexts' = [contexts EXCEPT ![b] =
                  @ \cup {[target |-> t, attached |-> attached]}]
  <2>1. Attach(b, t)
    BY <1>2 DEF ActOnPage
  <2>2. (Alive(b) /\ target[t].live) \in BOOLEAN
    OBVIOUS
  <2> QED
    BY <2>1, <2>2 DEF Attach
<1>4. contexts' \in [Browsers -> SUBSET PageContext] /\ ContextsAreReferenced'
  <2>1. CASE contexts' = contexts
    BY <1>1, <2>1 DEF TypeOK, Pages, ContextsAreReferenced, Known
  <2>2. ASSUME NEW attached \in BOOLEAN, \A x \in contexts[b] : x.target # t,
               contexts' = [contexts EXCEPT ![b] =
                 @ \cup {[target |-> t, attached |-> attached]}]
        PROVE contexts' \in [Browsers -> SUBSET PageContext] /\ ContextsAreReferenced'
    <3> DEFINE y == [target |-> t, attached |-> attached]
    <3>1. y \in PageContext /\ y.target = t
      BY DEF PageContext
    <3>2. contexts' = [contexts EXCEPT ![b] = contexts[b] \cup {y}]
      BY <2>2
    <3> HIDE DEF y
    <3>3. contexts' \in [Browsers -> SUBSET PageContext]
      BY <3>1, <3>2 DEF TypeOK
    <3>4. ASSUME NEW d \in Browsers
          PROVE /\ \A x \in contexts'[d] : \E p \in pages[d] : p.target = x.target
                /\ \A x, z \in contexts'[d] : x.target = z.target => x = z
      <4>1. /\ \A x \in contexts[d] : \E p \in pages[d] : p.target = x.target
            /\ \A x, z \in contexts[d] : x.target = z.target => x = z
        BY DEF Pages, ContextsAreReferenced, Known
      <4>2. CASE d = b
        <5>1. contexts'[d] = contexts[d] \cup {y}
          BY <3>2, <4>2 DEF TypeOK
        <5>2. \E p \in pages[d] : p.target = y.target
          BY <1>2, <3>1, <4>2 DEF Known
        <5> QED
          BY <2>2, <3>1, <4>1, <4>2, <5>1, <5>2
      <4>3. CASE d # b
        BY <3>2, <4>1, <4>3 DEF TypeOK
      <4> QED
        BY <4>2, <4>3
    <3> QED
      BY <1>1, <3>3, <3>4 DEF ContextsAreReferenced, Known
  <2> QED
    BY <1>3, <2>1, <2>2
<1>5. Pages'
  BY <1>1, <1>4 DEF Pages, PagesInBrowser, RefNamesOnePage
<1>6. CallsTyped'
  BY <1>1, BrowsersSame, Returned
<1>7. \A n \in Callers : call'[n] = Idle
  BY <1>1, Constants, AloneSound DEF In
<1>8. TypeOK'
  BY <1>1, <1>4, <1>6 DEF TypeOK, CallsTyped
<1>9. ConsentsGranted' /\ BrowsersKept /\ TabsKept
  BY <1>1, BrowsersSame DEF ConsentsGranted, TabsKept
<1> QED
  BY <1>1, <1>5, <1>7, <1>8, <1>9, MapsKept, CallsKept DEF ProcessesLeft

-----------------------------------------------------------------------------
(* The theorems *)

LEMMA StepSound ==
  ASSUME Sound, [Next]_vars
  PROVE Sound'
<1>1. CASE UNCHANGED vars
  <2>1. TypeOK' = TypeOK
    BY <1>1 DEF vars, TypeOK
  <2>2. ConsentsGranted' = ConsentsGranted
    BY <1>1 DEF vars, ConsentsGranted
  <2>3. Maps' = Maps
    BY <1>1 DEF vars, Maps, RuntimesApproved, ProcessesKnown, LiveRuntimeIsOwned, Approved
  <2>4. Calls' = Calls
    BY <1>1
    DEF vars, Calls, OneCall, LaunchesApproved, LaunchesAlone, CallsInHand, In, Alive,
        Known, Approved
  <2>5. Pages' = Pages
    BY <1>1 DEF vars, Pages, PagesInBrowser, RefNamesOnePage, ContextsAreReferenced, Known
  <2> QED
    BY <2>1, <2>2, <2>3, <2>4, <2>5 DEF Sound
<1>2. CASE Next
  <2>1. CASE \E m \in Callers, c \in Containers :
               Create(m, c) \/ Update(m, c) \/ Reserve(m, c) \/ Close(m, c)
                 \/ CheckRow(m, c)
    BY <2>1, NewSound, ConsentSound, ReserveSound, CloseSound, CheckSound
  <2>2. CASE \E m \in Callers, b \in Browsers :
               ListPages(m, b) \/ CreateTarget(m, b) \/ FindTarget(m, b)
    BY <2>2, ListSound, CreateSound, FindSound
  <2>3. CASE \E m \in Callers :
               Register(m) \/ CommitLaunch(m) \/ LoseLaunch(m) \/ FailLaunch(m)
                 \/ RefuseTool(m) \/ NameTarget(m) \/ ActOnPage(m)
    BY <2>3, RegisterSound, CommitSound, LoseSound, FailSound, RefuseSound, NameSound, ActSound
  <2>4. CASE \E c \in Containers : NewContainer(c) \/ Edit(c) \/ LaunchByHuman(c)
    BY <2>4, NewSound, ConsentSound, HumanSound
  <2>5. CASE \E b \in DOMAIN browser : Exit(b) \/ Watch(b)
    BY <2>5, ExitSound
  <2>6. CASE \E t \in Targets : CloseTab(t) \/ \E b \in DOMAIN browser : OpenTab(b, t)
    BY <2>6, TabSound
  <2> QED
    BY <1>2, <2>1, <2>2, <2>3, <2>4, <2>5, <2>6 DEF Next
<1> QED
  BY <1>1, <1>2

LEMMA AlwaysSound == Spec => []Sound
<1> QED
  BY InitSound, StepSound, PTL DEF Spec

\* Rows, browsers, maps, references and calls keep their types: a tool never goes on
\* with a reference its runtime does not know.
THEOREM SessionTypes == Spec => []TypeOK
<1>1. Sound => TypeOK
  BY DEF Sound
<1> QED
  BY <1>1, AlwaysSound, PTL

\* However many clients, containers, browsers and tabs there are, a call that has
\* reached a page has reached one of the container it names, in a browser the host
\* launched with automation under a granted consent: a human's, or the one the
\* container was created with, if by MCP, and not taken back since.
THEOREM CallsActWhereApproved == Spec => []ActsWhereApproved
<1>1. Sound => ActsWhereApproved
  BY DEF Sound, Calls, CallsInHand, Approved, ActsWhereApproved
<1> QED
  BY <1>1, AlwaysSound, PTL

\* A page reference that was ever drawn names one page of one browser, or nothing
\* any more: never another page, of this runtime or any other.
THEOREM ReferencesAreUnique == Spec => []RefNamesOnePage
<1>1. Sound => RefNamesOnePage
  BY DEF Sound, Pages
<1> QED
  BY <1>1, AlwaysSound, PTL

\* Contexts go with the references of their pages: because the adapter lets one call
\* through at a time, no list removes a page between targetForPage and pageContext.
THEOREM ContextsKeepTheirPages == Spec => []ContextsAreReferenced
<1>1. Sound => ContextsAreReferenced
  BY DEF Sound, Pages
<1> QED
  BY <1>1, AlwaysSound, PTL

\* The runtime of a live browser is never kept without its process, whichever
\* watcher is late and whatever commit fails; that of an exited browser may be.
THEOREM LiveRuntimesAreOwned == Spec => []LiveRuntimeIsOwned
<1>1. Sound => LiveRuntimeIsOwned
  BY DEF Sound, Maps
<1> QED
  BY <1>1, AlwaysSound, PTL
=============================================================================
