------------------------------ MODULE McpSession ------------------------------
(***************************************************************************)
(* The MCP server: its adapter, which lets one call at a time through to a *)
(* host, and what those calls do to containers, to the browsers this host  *)
(* launched and to the pages it controls in them.                          *)
(*                                                                         *)
(* Around it everything goes on: the human creates, edits and launches     *)
(* containers with the extension's own host, opens and closes tabs and     *)
(* browsers, and the watchers of this host notice.  A transaction is one   *)
(* step, and the only one that fails here is the commit of a launch, which *)
(* leaves its mark on the maps.  Other failures, lost reservations, the    *)
(* reconciliation of rows and the deletion of containers are the subject   *)
(* of module ContainerLifecycle: a call that has read its row looks at no  *)
(* row again.                                                              *)
(*                                                                         *)
(* A browser is named by the launch that started it, which stands for its  *)
(* process, its PID in the row and its automationRuntime, if it has one.   *)
(***************************************************************************)
EXTENDS Naturals, Sequences

CONSTANTS
  Callers,       \* MCP clients, or calls of one client at the same time
  Containers,    \* container rows
  Targets,       \* CDP target identifiers, never reused
  Refs,          \* page references, drawn at random and never reused
  None,          \* no browser, no target, no reference
  MaxBrowsers    \* bound on launches

ASSUME BoundsAssumption == MaxBrowsers \in Nat
ASSUME NoneAssumption == None \notin 1..MaxBrowsers /\ None \notin Targets

VARIABLES
  row,           \* the container rows
  granted,       \* whether the saved consent is a human's, or as old as the
                 \* container itself (not in the code)
  browser,       \* every browser launched so far
  process,       \* Host.processes: the browser this host owns
  automation,    \* Host.automations: the browser whose runtime is kept
  pages,         \* automationRuntime.pages: reference -> target
  contexts,      \* automationRuntime.contexts, and whether attaching failed
  target,        \* the tabs: which browser each is in
  issued,        \* references drawn so far, with their targets
  call           \* the call each caller is in

vars == <<row, granted, browser, process, automation, pages, contexts, target,
          issued, call>>

-----------------------------------------------------------------------------
(* Types *)

Browsers == 1..MaxBrowsers
BrowserOrNone == Browsers \cup {None}

\* A caller may expect any name, so that the comparison with expectedName keeps
\* no caller from any row: names are left out.  So are containers of a custom
\* browser type, which MCP neither launches nor operates.
Row == [consent : BOOLEAN,
        state : {"absent", "stopped", "launching", "running"}, pid : BrowserOrNone]

AbsentRow == [consent |-> FALSE, state |-> "absent", pid |-> None]

\* automated: this host launched it with automation.  approved: and the consent
\* was granted when that launch was reserved.
Browser == [container : Containers, automated : BOOLEAN, approved : BOOLEAN,
            alive : BOOLEAN, watched : BOOLEAN]

Page == [ref : Refs, target : Targets]
PageContext == [target : Targets, attached : BOOLEAN]

Tab == [browser : BrowserOrNone, live : BOOLEAN]

\* "launch" after its reservation and "registered" with the browser it started,
\* "tool" after the row was checked, "open" and "page" with the target they found.
Call == [op : {"launch", "registered", "tool", "open", "page"}, container : Containers,
         automated : BOOLEAN, approved : BOOLEAN,
         runtime : BrowserOrNone, target : Targets \cup {None}]
Idle == [op |-> "none"]

TypeOK ==
  /\ row \in [Containers -> Row]
  /\ granted \in [Containers -> BOOLEAN]
  /\ browser \in Seq(Browser) /\ Len(browser) <= MaxBrowsers
  /\ process \in [Containers -> BrowserOrNone]
  /\ automation \in [Containers -> BrowserOrNone]
  /\ pages \in [Browsers -> SUBSET Page]
  /\ contexts \in [Browsers -> SUBSET PageContext]
  /\ target \in [Targets -> Tab]
  /\ issued \subseteq Page
  /\ call \in [Callers -> Call \cup {Idle}]
  /\ \A m \in Callers :
       /\ call[m].op \in {"open", "page"} => call[m].target # None
       /\ call[m].op = "registered" => call[m].runtime \in DOMAIN browser

Init ==
  /\ row = [c \in Containers |-> AbsentRow]
  /\ granted = [c \in Containers |-> FALSE]
  /\ browser = <<>>
  /\ process = [c \in Containers |-> None]
  /\ automation = [c \in Containers |-> None]
  /\ pages = [b \in Browsers |-> {}]
  /\ contexts = [b \in Browsers |-> {}]
  /\ target = [t \in Targets |-> [browser |-> None, live |-> FALSE]]
  /\ issued = {}
  /\ call = [m \in Callers |-> Idle]

-----------------------------------------------------------------------------
(* The adapter *)

\* Calls run side by side.
SideBySide == TRUE

\* Adapter.mu: a call starts when no other runs, and holds it to its end.
Serialized == \A m \in Callers : call[m] = Idle

\* A call may start.  Its first step is taken with it, and a call this step
\* refuses changes nothing.
MayCall(m) == Serialized /\ call[m] = Idle

Started(op, c) ==
  [op |-> op, container |-> c, automated |-> FALSE, approved |-> FALSE,
   runtime |-> None, target |-> None]

In(m, op) == call[m].op = op

Return(m) == call' = [call EXCEPT ![m] = Idle]

Alive(b) == b # None /\ browser[b].alive
InUse(c) == \E b \in DOMAIN browser : browser[b].container = c /\ browser[b].alive

Present(c) == row[c].state # "absent"

-----------------------------------------------------------------------------
(* create_container and create_temporary_container, of which MCP has both:    *)
(* automation may be part of what is created.                                 *)

NewContainer(c) ==
  /\ ~Present(c)
  /\ \E consent \in BOOLEAN :
       /\ row' = [row EXCEPT ![c] = [consent |-> consent, state |-> "stopped",
                                    pid |-> None]]
       /\ granted' = [granted EXCEPT ![c] = consent]
  /\ UNCHANGED <<browser, process, automation, pages, contexts, target, issued,
                 call>>

Create(m, c) == MayCall(m) /\ NewContainer(c)

-----------------------------------------------------------------------------
(* UpdateForMCP: updateWithPolicy, one transaction *)

\* restrictAutomationEnable.
Updatable(c, consent) == consent => row[c].consent

Update(m, c) ==
  /\ MayCall(m)
  /\ Present(c)
  /\ \E consent \in BOOLEAN :
       /\ Updatable(c, consent)
       /\ row' = [row EXCEPT ![c].consent = consent]
       /\ granted' = [granted EXCEPT ![c] = @ /\ consent]
  /\ UNCHANGED <<browser, process, automation, pages, contexts, target, issued,
                 call>>

-----------------------------------------------------------------------------
(* LaunchForMCP: launchWithPolicy *)

\* The session override decides alone.
ConsentedByOverride(c, automated) == TRUE

\* restrictAutomationEnable, for this session's automation.
Consented(c, automated) == automated => row[c].consent

\* A launch is in progress.  A reservation that a launch has left behind expires.
Launching(c) ==
  \E m \in Callers : call[m].op \in {"launch", "registered"} /\ call[m].container = c

\* reserveLaunchWithEnvironment: consent, state and profile.
\* automated is the override or, without one, the saved setting.
Reserve(m, c) ==
  /\ MayCall(m)
  /\ Present(c)
  /\ \E automated \in BOOLEAN :
       /\ ~Alive(process[c])
       /\ Consented(c, automated)
       /\ ~Launching(c)
       /\ ~InUse(c)
       /\ row' = [row EXCEPT ![c].state = "launching", ![c].pid = None]
       /\ call' = [call EXCEPT ![m] =
            [Started("launch", c) EXCEPT
               !.automated = automated, !.approved = automated /\ granted[c]]]
  /\ UNCHANGED <<granted, browser, process, automation, pages, contexts, target,
                 issued>>

\* A new browser b for container c.
NewBrowser(c, b, automated, approved) ==
  /\ b = Len(browser) + 1
  /\ b \in Browsers
  /\ browser' = Append(browser,
       [container |-> c, automated |-> automated, approved |-> approved,
        alive |-> TRUE, watched |-> FALSE])

Runs(c, b) == row' = [row EXCEPT ![c].state = "running", ![c].pid = b]

\* Start, waitForAutomationEndpoint and the two maps.  A launch without
\* automation leaves Host.automations as it is.
Register(m) ==
  LET c == call[m].container IN
  /\ In(m, "launch")
  /\ \E b \in Browsers :
       /\ NewBrowser(c, b, call[m].automated, call[m].approved)
       /\ process' = [process EXCEPT ![c] = b]
       /\ automation' = [automation EXCEPT ![c] = IF call[m].automated THEN b ELSE @]
       /\ call' = [call EXCEPT ![m].op = "registered", ![m].runtime = b]
  /\ UNCHANGED <<row, granted, pages, contexts, target, issued>>

\* The second transaction; the watcher starts.
CommitLaunch(m) ==
  /\ In(m, "registered")
  /\ Runs(call[m].container, call[m].runtime)
  /\ Return(m)
  /\ UNCHANGED <<granted, browser, process, automation, pages, contexts, target,
                 issued>>

\* The launch leaves the process map, and that is all.
LoseLaunchUnregisters(m) ==
  LET c == call[m].container
      b == call[m].runtime
  IN /\ In(m, "registered")
     /\ process' = [process EXCEPT ![c] = IF @ = b THEN None ELSE @]
     /\ Return(m)
     /\ UNCHANGED <<row, granted, browser, automation, pages, contexts, target, issued>>

\* The second transaction fails, though after a directory-sync error the row is
\* running all the same: what the maps have of this launch, and its browser, are
\* dropped, and there is no watcher.  A launch without automation has a nil
\* runtime and leaves the one it found.
LoseLaunch(m) ==
  LET c == call[m].container
      b == call[m].runtime
  IN /\ In(m, "registered")
     /\ row' = row \/ Runs(c, b)
     /\ browser' = [browser EXCEPT ![b].alive = FALSE, ![b].watched = TRUE]
     /\ process' = [process EXCEPT ![c] = IF @ = b THEN None ELSE @]
     /\ automation' = [automation EXCEPT ![c] = IF @ = b THEN None ELSE @]
     /\ Return(m)
     /\ UNCHANGED <<granted, pages, contexts, target, issued>>

\* The browser or its endpoint fails: releaseReservation.
FailLaunch(m) ==
  /\ In(m, "launch")
  /\ row' = [row EXCEPT ![call[m].container].state = "stopped"]
  /\ Return(m)
  /\ UNCHANGED <<granted, browser, process, automation, pages, contexts, target,
                 issued>>

-----------------------------------------------------------------------------
(* ExecuteWithIdentity("close_container") *)

\* Host.close: what this host owns is terminated, and clearAutomation.  The list
\* that is read before, to compare the name, is another transaction: by now the
\* container may have another name.
Close(m, c) ==
  /\ MayCall(m)
  /\ Present(c)
  /\ process[c] # None
  /\ browser' = [browser EXCEPT ![process[c]].alive = FALSE]
  /\ automation' = [automation EXCEPT ![c] = None]
  /\ UNCHANGED <<row, granted, process, pages, contexts, target, issued, call>>

-----------------------------------------------------------------------------
(* The browser tools.  "page" stands for navigate, snapshot, click, type,     *)
(* press key and screenshot, "list" for browser_status as well, and           *)
(* get_cdp_endpoint ends where they take the runtime.                         *)

\* automationForMCP, first: the row, from a Load without the lock.
CheckRow(m, c) ==
  /\ MayCall(m)
  /\ row[c].state = "running"
  /\ call' = [call EXCEPT ![m] = Started("tool", c)]
  /\ UNCHANGED <<row, granted, browser, process, automation, pages, contexts,
                 target, issued>>

\* automationForMCP, then: the process of this host, and the runtime b.
HasRuntime(m, b) ==
  LET c == call[m].container IN
  /\ In(m, "tool")
  /\ Alive(process[c])
  /\ automation[c] = b

\* No process, no runtime, or its browser does not answer.
RefuseTool(m) ==
  /\ In(m, "tool")
  /\ Return(m)
  /\ UNCHANGED <<row, granted, browser, process, automation, pages, contexts,
                 target, issued>>

LiveTabs(b) == {t \in Targets : target[t].browser = b /\ target[t].live}
Known(b) == {p.target : p \in pages[b]}

\* References are numbered in each runtime.
NumberedRefs(b, used) == {r \in Refs : \A p \in pages[b] : p.ref # r}

\* security.NewID.
FreshRefs(b, used) == Refs \ {p.ref : p \in used}

\* pageRefLocked, for every target of ts that has no reference yet.
NewPages(b, ts) ==
  {new \in SUBSET [ref : FreshRefs(b, issued), target : ts \ Known(b)] :
     /\ {p.target : p \in new} = ts \ Known(b)
     /\ \A p, q \in new : p.ref = q.ref \/ p.target = q.target => p = q}

\* listPages: what is there gets a reference, what is gone loses it and its
\* context.
ListPages(m, b) ==
  /\ HasRuntime(m, b)
  /\ Alive(b)
  /\ \E new \in NewPages(b, LiveTabs(b)) :
       /\ pages' = [pages EXCEPT ![b] = {p \in @ : p.target \in LiveTabs(b)} \cup new]
       /\ issued' = issued \cup new
  /\ contexts' = [contexts EXCEPT ![b] = {x \in @ : x.target \in LiveTabs(b)}]
  /\ Return(m)
  /\ UNCHANGED <<row, granted, browser, process, automation, target>>

\* The call goes on with target t of runtime b.
Proceed(m, op, b, t) ==
  call' = [call EXCEPT ![m].op = op, ![m].runtime = b, ![m].target = t]

\* openPage, first: CreateTarget.
CreateTarget(m, b) ==
  /\ HasRuntime(m, b)
  /\ Alive(b)
  /\ \E t \in Targets :
       /\ target[t].browser = None
       /\ target' = [target EXCEPT ![t] = [browser |-> b, live |-> TRUE]]
       /\ Proceed(m, "open", b, t)
  /\ UNCHANGED <<row, granted, browser, process, automation, pages, contexts,
                 issued>>

\* openPage, then: a reference for it, whatever became of it meanwhile.
NameTarget(m) ==
  LET b == call[m].runtime IN
  /\ In(m, "open")
  /\ \E new \in NewPages(b, {call[m].target}) :
       /\ pages' = [pages EXCEPT ![b] = @ \cup new]
       /\ issued' = issued \cup new
  /\ Return(m)
  /\ UNCHANGED <<row, granted, browser, process, automation, contexts, target>>

\* What Go's map gives for a reference, taken for a target without a look at ok.
PageTargetsUnchecked(b, ref) ==
  LET found == {p \in pages[b] : p.ref = ref}
  IN IF found = {} THEN {None} ELSE {p.target : p \in found}

\* What runtime b knows as ref; nothing when it is not one of its pages.
PageTargets(b, ref) == {p.target : p \in {q \in pages[b] : q.ref = ref}}

\* targetForPage.  The caller may hold any reference that was ever issued, for
\* another container or no longer valid.
FindTarget(m, b) ==
  /\ HasRuntime(m, b)
  /\ \E p \in issued : \E t \in PageTargets(b, p.ref) : Proceed(m, "page", b, t)
  /\ UNCHANGED <<row, granted, browser, process, automation, pages, contexts,
                 target, issued>>

\* pageContext.  The context of a target is made once; a failure to attach is
\* remembered with it, and the page stays out of reach.
Attach(b, t) ==
  IF \E x \in contexts[b] : x.target = t
  THEN UNCHANGED contexts
  ELSE \E attached \in {FALSE, Alive(b) /\ target[t].live} :
         contexts' = [contexts EXCEPT ![b] =
           @ \cup {[target |-> t, attached |-> attached]}]

\* navigate, snapshot, click, typeText, pressKey or screenshot.
ActOnPage(m) ==
  /\ In(m, "page")
  /\ Attach(call[m].runtime, call[m].target)
  /\ Return(m)
  /\ UNCHANGED <<row, granted, browser, process, automation, pages, target,
                 issued>>

-----------------------------------------------------------------------------
(* Around the adapter *)

\* The human's update_container, in the extension's host.
Edit(c) ==
  /\ Present(c)
  /\ \E consent \in BOOLEAN :
       /\ row' = [row EXCEPT ![c].consent = consent]
       /\ granted' = [granted EXCEPT ![c] = consent]
  /\ UNCHANGED <<browser, process, automation, pages, contexts, target, issued,
                 call>>

\* The human's launch_container, in the extension's host, which keeps what it owns
\* and the runtime, if any, to itself.
LaunchByHuman(c) ==
  /\ Present(c)
  /\ ~Launching(c)
  /\ ~InUse(c)
  /\ \E b \in Browsers : NewBrowser(c, b, FALSE, FALSE) /\ Runs(c, b)
  /\ UNCHANGED <<granted, process, automation, pages, contexts, target, issued,
                 call>>

\* A browser ends: its window is closed, or it crashes.
Exit(b) ==
  /\ Alive(b)
  /\ browser' = [browser EXCEPT ![b].alive = FALSE]
  /\ UNCHANGED <<row, granted, process, automation, pages, contexts, target,
                 issued, call>>

\* The process and its runtime leave the maps.
Drop(c) ==
  /\ process' = [process EXCEPT ![c] = None]
  /\ automation' = [automation EXCEPT ![c] = None]

\* Host.watch: the maps, when they still speak of this process, and the row.
\* They never speak of one that the extension's host watches.
Watch(b) ==
  LET c == browser[b].container IN
  /\ ~browser[b].alive /\ ~browser[b].watched
  /\ \A m \in Callers : ~(In(m, "registered") /\ call[m].runtime = b)
  /\ browser' = [browser EXCEPT ![b].watched = TRUE]
  /\ IF process[c] = b
     THEN Drop(c)
     ELSE UNCHANGED <<process, automation>>
  /\ row' = IF row[c].state = "running" /\ row[c].pid = b
            THEN [row EXCEPT ![c].state = "stopped", ![c].pid = None] ELSE row
  /\ UNCHANGED <<granted, pages, contexts, target, issued, call>>

\* A tab of browser b is opened by a page or the human, or closed.
OpenTab(b, t) ==
  /\ Alive(b)
  /\ target[t].browser = None
  /\ target' = [target EXCEPT ![t] = [browser |-> b, live |-> TRUE]]
  /\ UNCHANGED <<row, granted, browser, process, automation, pages, contexts,
                 issued, call>>

CloseTab(t) ==
  /\ target[t].live
  /\ target' = [target EXCEPT ![t].live = FALSE]
  /\ UNCHANGED <<row, granted, browser, process, automation, pages, contexts,
                 issued, call>>

-----------------------------------------------------------------------------
(* The specification *)

Next ==
  \/ \E m \in Callers :
       \/ \E c \in Containers :
            \/ Create(m, c) \/ Update(m, c) \/ Reserve(m, c)
            \/ Close(m, c) \/ CheckRow(m, c)
       \/ \E b \in Browsers :
            ListPages(m, b) \/ CreateTarget(m, b) \/ FindTarget(m, b)
       \/ Register(m) \/ CommitLaunch(m) \/ LoseLaunch(m) \/ FailLaunch(m)
       \/ RefuseTool(m)
       \/ NameTarget(m) \/ ActOnPage(m)
  \/ \E c \in Containers : NewContainer(c) \/ Edit(c) \/ LaunchByHuman(c)
  \/ \E b \in DOMAIN browser :
       Exit(b) \/ Watch(b) \/ \E t \in Targets : OpenTab(b, t)
  \/ \E t \in Targets : CloseTab(t)

Spec == Init /\ [][Next]_vars

-----------------------------------------------------------------------------
(* Properties *)

\* A call that has reached a page is on a page of the container it names: in a
\* browser that this host launched for that container, with automation, under a
\* granted consent: one that a human saved, or that the container was created
\* with, new and empty, and that was not taken back since.  MCP creates such
\* containers (docs/MCP.md:245), but whatever it updates and launches, and
\* whatever reference the caller holds, it does not get into an existing one.
ActsWhereApproved ==
  \A m \in Callers :
    call[m].op \in {"open", "page"} =>
      LET b == target[call[m].target].browser IN
      /\ b = call[m].runtime
      /\ browser[b].container = call[m].container
      /\ browser[b].automated /\ browser[b].approved

\* A page reference stands for one page of one browser, for ever: what was drawn
\* once names that page or nothing, no two runtimes, and no two pages of one,
\* share a reference, and no page has two.  "A page ID from one container is
\* never accepted by another" (docs/MCP.md:39), nor one of a page that is gone.
RefNamesOnePage ==
  /\ \A p, q \in issued : p.ref = q.ref => p = q
  /\ \A b \in Browsers : pages[b] \subseteq issued
  /\ \A b1, b2 \in Browsers : \A p1 \in pages[b1], p2 \in pages[b2] :
       p1.ref = p2.ref \/ p1.target = p2.target => b1 = b2 /\ p1 = p2

\* A runtime keeps the context of a page, and its connection, only while it
\* knows the page by a reference, and one context for each page: targetForPage
\* gives the lock back before pageContext takes it again, and listPages would
\* find its way in between.
ContextsAreReferenced ==
  \A b \in Browsers :
    /\ {x.target : x \in contexts[b]} \subseteq Known(b)
    /\ \A x, y \in contexts[b] : x.target = y.target => x = y

\* The host never keeps the DevTools runtime of a live browser that it has no
\* process of: close_container reaches that browser, and its exit drops the
\* runtime.  What a late watcher, a launch that replaces the process or the abort
\* of one whose commit failed leaves behind is the runtime of an exited browser.
LiveRuntimeIsOwned ==
  \A c \in Containers :
    LET b == automation[c] IN
    b # None => browser[b].container = c /\ (browser[b].alive => process[c] = b)
=============================================================================
