------------------------- MODULE ContainerLifecycle -------------------------
(***************************************************************************)
(* The life of ScopeNest containers as several native hosts see it.        *)
(*                                                                         *)
(* Every browser profile that has the extension, and every MCP client,     *)
(* starts a host process of its own.  The hosts share one metadata store   *)
(* (containers.json, every transaction under containers.lock), the profile *)
(* directories, and the profile-lock markers Chromium keeps in them; each  *)
(* host keeps, in memory only, the processes and automation runtimes it    *)
(* started.  A host runs one request at a time, its startup cleanup in a   *)
(* goroutine, and one watcher goroutine per browser it launched.           *)
(*                                                                         *)
(* An action is one store transaction, one critical section of Host.mu, or *)
(* one operation on a file or a process; every other thread, host and      *)
(* browser may run between two of them.                                    *)
(***************************************************************************)
EXTENDS Naturals, FiniteSets

CONSTANTS
  Hosts,          \* native-host processes
  Containers,     \* container identifiers that NewID may draw
  Launches,       \* launch attempts: one token, and at most one process, each
  None,           \* the empty token, PID 0, the nil map entry
  PromptMarkers,  \* TRUE: Chromium marks its profile the moment it starts
  AutomationInputs, \* values of automationEnabled in requests
  KillOnExit,     \* TRUE: browsers die with their host (Windows Job Objects)
  FaultKinds,     \* the kinds of fault explored
  MaxFaults       \* bound on the number of faults in a behaviour

AllFaultKinds ==
  {"lock", "write", "sync", "launcher", "remove", "crash", "exit", "stall"}

ASSUME NoneAssumption == None \notin Launches \cup Containers \cup Hosts
ASSUME SwitchAssumption == PromptMarkers \in BOOLEAN /\ KillOnExit \in BOOLEAN
ASSUME InputAssumption == AutomationInputs \subseteq BOOLEAN
ASSUME FaultAssumption == FaultKinds \subseteq AllFaultKinds /\ MaxFaults \in Nat

VARIABLES
  row,          \* the container rows of containers.json
  fresh,        \* identifiers that have not been drawn yet
  profile,      \* does containers/<id> exist?
  marker,       \* the launch whose browser left Singleton* in the profile
  launch,       \* host, container and effective automation of each attempt
  browser,      \* the process each attempt started
  up,           \* is the host process running?
  processes,    \* Host.processes
  automations,  \* Host.automations
  request,      \* the request a host is handling, between two of its steps
  watch,        \* the watcher goroutine of each attempt
  sweep,        \* the cleanup loops of a host
  faults        \* how many faults have happened

storeVars == <<row, fresh>>
diskVars  == <<profile, marker>>
hostVars  == <<up, processes, automations, request, watch, sweep>>
vars == <<row, fresh, profile, marker, launch, browser, up, processes,
          automations, request, watch, sweep, faults>>

-----------------------------------------------------------------------------
(* Types *)

LaunchOrNone == Launches \cup {None}

\* Whether a reservation is older than launchReservationTTL is kept instead
\* of its age.  Container.Running is not: loadUnlocked derives it from state.
Row == [state : {"absent", "stopped", "launching", "running"},
        pid : LaunchOrNone, token : LaunchOrNone, stale : BOOLEAN,
        temporary : BOOLEAN, automation : BOOLEAN, pending : BOOLEAN]

AbsentRow == [state |-> "absent", pid |-> None, token |-> None, stale |-> FALSE,
              temporary |-> FALSE, automation |-> FALSE, pending |-> FALSE]

Attempt == [host : Hosts \cup {None}, container : Containers \cup {None},
            automation : BOOLEAN]

NoAttempt == [host |-> None, container |-> None, automation |-> FALSE]

LaunchSteps == {"reserved", "prepared", "started", "registered", "aborting",
                "releasing"}

CreateSteps == {"creating", "undoing"}

Request == [op : LaunchSteps \cup CreateSteps \cup {"idle", "closing", "clearing"},
            launch : LaunchOrNone, container : Containers \cup {None}]

IdleRequest == [op |-> "idle", launch |-> None, container |-> None]

\* cleanup() runs in the startup goroutine and in cleanup_temporary_containers.
Loops == {"startup", "request"}
Sweep == [step : {"off", "reconcile", "load", "delete"}, todo : SUBSET Containers]
NoSweep == [step |-> "off", todo |-> {}]

TypeOK ==
  /\ row \in [Containers -> Row]
  /\ fresh \subseteq Containers
  /\ profile \in [Containers -> BOOLEAN]
  /\ marker \in [Containers -> LaunchOrNone]
  /\ launch \in [Launches -> Attempt]
  /\ browser \in [Launches -> {"none", "alive", "exited"}]
  /\ up \in [Hosts -> BOOLEAN]
  /\ processes \in [Hosts -> [Containers -> LaunchOrNone]]
  /\ automations \in [Hosts -> [Containers -> LaunchOrNone]]
  /\ request \in [Hosts -> Request]
  /\ watch \in [Launches -> {"none", "waiting", "stopping", "deleting", "done"}]
  /\ sweep \in [Hosts -> [Loops -> Sweep]]
  /\ faults \in 0 .. MaxFaults

-----------------------------------------------------------------------------
(* Store transactions *)

\* "ok"; or the write fails before its rename ("write": what the callback did
\* to the disk stays, the rows do not change); or the directory sync after the
\* rename fails ("sync": the rows change and the caller is told they did not);
\* or containers.lock or the file cannot be had at all ("lock").
May(kind) == kind \in FaultKinds /\ faults < MaxFaults
Outcomes == {"ok"} \cup {kind \in {"lock", "write", "sync"} : May(kind)}
Spend(outcome) == faults' = IF outcome = "ok" THEN faults ELSE faults + 1
Fault(kind) == May(kind) /\ faults' = faults + 1

Ran(outcome) == outcome /= "lock"
Committed(outcome) == outcome \notin {"lock", "write"}
Write(c, r, outcome) ==
  row' = IF Committed(outcome) THEN [row EXCEPT ![c] = r] ELSE row

Present(c) == row[c].state /= "absent"

\* Mutation: an error of Lstat is taken for "not in use".
ProfileNeverInUse(c) == FALSE
ProfileInUse(c) == marker[c] /= None
ownsMatchingProcess(h, c) == row[c].pid /= None /\ processes[h][c] = row[c].pid
ownsLiveProcess(h, c) ==
  processes[h][c] /= None /\ browser[processes[h][c]] = "alive"

\* Mutation: the state is cleared instead of set.
setBlank(r) == [r EXCEPT !.state = "", !.pid = None, !.token = None]
setStopped(r) == [r EXCEPT !.state = "stopped", !.pid = None, !.token = None,
                           !.stale = FALSE]

Holds(c, l) == row[c].state = "launching" /\ row[c].token = l

RemoveProfile(c) ==
  /\ profile' = [profile EXCEPT ![c] = FALSE]
  /\ marker' = [marker EXCEPT ![c] = None]

-----------------------------------------------------------------------------
(* Host processes and their requests *)

Init ==
  /\ row = [c \in Containers |-> AbsentRow]
  /\ fresh = Containers
  /\ profile = [c \in Containers |-> FALSE]
  /\ marker = [c \in Containers |-> None]
  /\ launch = [l \in Launches |-> NoAttempt]
  /\ browser = [l \in Launches |-> "none"]
  /\ up = [h \in Hosts |-> FALSE]
  /\ processes = [h \in Hosts |-> [c \in Containers |-> None]]
  /\ automations = [h \in Hosts |-> [c \in Containers |-> None]]
  /\ request = [h \in Hosts |-> IdleRequest]
  /\ watch = [l \in Launches |-> "none"]
  /\ sweep = [h \in Hosts |-> [k \in Loops |-> NoSweep]]
  /\ faults = 0

Idle(h) ==
  /\ up[h]
  /\ request[h] = IdleRequest
  /\ sweep[h]["request"] = NoSweep

Step(h, op) == request' = [request EXCEPT ![h].op = op]
Respond(h) == request' = [request EXCEPT ![h] = IdleRequest]
Handling(h, op) == up[h] /\ request[h].op = op

\* main: a new process.  Its startup cleanup is scheduled after the first
\* response; a ping is such a response and changes nothing else.
HostStart(h) ==
  /\ ~up[h]
  /\ up' = [up EXCEPT ![h] = TRUE]
  /\ sweep' = [sweep EXCEPT ![h]["startup"].step = "reconcile"]
  /\ UNCHANGED <<storeVars, diskVars, launch, browser, processes, automations,
                 request, watch, faults>>

\* The pipe is closed or the process is killed: the maps and the goroutines are
\* gone.  On Windows closing the last Job handle kills the browsers as well,
\* with or without their lock markers.
HostExit(h) ==
  LET mine == {l \in Launches : launch[l].host = h}
      killed == {l \in mine : KillOnExit /\ browser[l] = "alive"}
  IN /\ up[h]
     /\ Fault("exit")
     /\ up' = [up EXCEPT ![h] = FALSE]
     /\ processes' = [processes EXCEPT ![h] = [c \in Containers |-> None]]
     /\ automations' = [automations EXCEPT ![h] = [c \in Containers |-> None]]
     /\ Respond(h)
     /\ sweep' = [sweep EXCEPT ![h] = [k \in Loops |-> NoSweep]]
     /\ watch' = [l \in Launches |->
                    IF l \in mine /\ watch[l] /= "none" THEN "done" ELSE watch[l]]
     /\ browser' = [l \in Launches |-> IF l \in killed THEN "exited" ELSE browser[l]]
     /\ \E left \in SUBSET killed :
          marker' = [c \in Containers |->
                       IF marker[c] \in killed \ left THEN None ELSE marker[c]]
     /\ UNCHANGED <<storeVars, profile, launch>>

-----------------------------------------------------------------------------
(* create_container and create_temporary_container *)

CreateProfile(h, c) ==
  /\ Idle(h)
  /\ c \in fresh
  /\ fresh' = fresh \ {c}
  /\ profile' = [profile EXCEPT ![c] = TRUE]
  /\ request' = [request EXCEPT ![h] = [IdleRequest EXCEPT !.op = "creating",
                                                           !.container = c]]
  /\ UNCHANGED <<row, marker, launch, browser, up, processes, automations, watch,
                 sweep, faults>>

CreateRow(h, temporary, automation, outcome) ==
  LET c == request[h].container
  IN /\ Handling(h, "creating")
     /\ outcome \in Outcomes
     /\ Spend(outcome)
     /\ Write(c, [AbsentRow EXCEPT !.state = "stopped", !.temporary = temporary,
                                   !.automation = automation], outcome)
     /\ IF outcome = "ok" THEN Respond(h) ELSE Step(h, "undoing")
     /\ UNCHANGED <<fresh, diskVars, launch, browser, up, processes, automations,
                    watch, sweep>>

\* Mutation: the directory of a rejected container is not removed.
CreateRejectedKeepsProfile(h) ==
  /\ Handling(h, "creating")
  /\ Respond(h)
  /\ UNCHANGED <<storeVars, diskVars, launch, browser, up, processes, automations,
                 watch, sweep, faults>>

\* A reference of the input is missing or disabled.
CreateRejected(h) ==
  /\ Handling(h, "creating")
  /\ Step(h, "undoing")
  /\ UNCHANGED <<storeVars, diskVars, launch, browser, up, processes, automations,
                 watch, sweep, faults>>

\* The directory of a container that was not created is removed, outside the
\* transaction and whatever the row says; the error of the removal is ignored.
UndoCreate(h) ==
  /\ Handling(h, "undoing")
  /\ \/ RemoveProfile(request[h].container) /\ UNCHANGED faults
     \/ Fault("remove") /\ UNCHANGED diskVars
  /\ Respond(h)
  /\ UNCHANGED <<storeVars, launch, browser, up, processes, automations, watch,
                 sweep>>

\* update_container, in any state of the container.
Update(h, c, automation) ==
  /\ Idle(h)
  /\ Present(c)
  /\ row' = [row EXCEPT ![c].automation = automation]
  /\ UNCHANGED <<fresh, diskVars, launch, browser, hostVars, faults>>

-----------------------------------------------------------------------------
(* launch_container *)

\* Mutation: a reservation leaves the pending flag.
setLaunchingPending(r, l) ==
  [r EXCEPT !.state = "launching", !.pid = None, !.token = l, !.stale = FALSE]
setLaunching(r, l) ==
  [r EXCEPT !.state = "launching", !.pid = None, !.token = l, !.stale = FALSE,
            !.pending = FALSE]

\* reserveLaunchWithEnvironment, when it grants the reservation: a launching
\* row only once it is stale, a running row only once nothing shows its browser
\* any more.  "sync" leaves a reservation whose token nobody holds.
Reserve(h, c, l, automation, outcome) ==
  /\ Idle(h)
  /\ launch[l] = NoAttempt
  /\ ~ownsLiveProcess(h, c)
  /\ Present(c)
  /\ row[c].state = "launching" => row[c].stale
  /\ ~ProfileInUse(c)
  /\ outcome \in Outcomes \cap {"ok", "sync"}
  /\ Spend(outcome)
  /\ Write(c, setLaunching(row[c], l), outcome)
  /\ launch' = [launch EXCEPT ![l] = [host |-> h, container |-> c,
                                      automation |-> automation]]
  /\ request' = IF outcome = "ok"
                THEN [request EXCEPT ![h] = [IdleRequest EXCEPT !.op = "reserved",
                                                                !.launch = l]]
                ELSE request
  /\ UNCHANGED <<fresh, diskVars, browser, up, processes, automations, watch, sweep>>

\* EnsureProfile, and the removal of an old DevToolsActivePort.
PrepareProfile(h) ==
  /\ Handling(h, "reserved")
  /\ profile' = [profile EXCEPT ![launch[request[h].launch].container] = TRUE]
  /\ Step(h, "prepared")
  /\ UNCHANGED <<storeVars, marker, launch, browser, up, processes, automations,
                 watch, sweep, faults>>

\* EnsureProfile, the executable, the proxy listener, the arguments or the
\* start of the process fails.
PrepareFails(h) ==
  /\ Handling(h, "reserved") \/ Handling(h, "prepared")
  /\ Fault("launcher")
  /\ Step(h, "releasing")
  /\ UNCHANGED <<storeVars, diskVars, launch, browser, up, processes, automations,
                 watch, sweep>>

\* A Chromium that finds its profile taken by a live one hands its window over
\* and exits; a marker nobody stands behind is replaced.
Taken(c) == marker[c] /= None /\ browser[marker[c]] = "alive"

\* launcher.Start.
StartBrowser(h) ==
  LET l == request[h].launch
      c == launch[l].container
  IN /\ Handling(h, "prepared")
     /\ profile' = [profile EXCEPT ![c] = TRUE]
     /\ browser' = [browser EXCEPT ![l] = IF PromptMarkers /\ Taken(c)
                                          THEN "exited" ELSE "alive"]
     /\ marker' = IF PromptMarkers /\ ~Taken(c)
                  THEN [marker EXCEPT ![c] = l] ELSE marker
     /\ Step(h, "started")
     /\ UNCHANGED <<storeVars, launch, up, processes, automations, watch, sweep,
                    faults>>

\* The DevTools endpoint has answered, if automation was asked for, and the
\* process enters the maps.  A launch without automation leaves the automation
\* map as it is.
RegisterProcess(h) ==
  LET l == request[h].launch
      c == launch[l].container
  IN /\ Handling(h, "started")
     /\ launch[l].automation => browser[l] = "alive"
     /\ processes' = [processes EXCEPT ![h][c] = l]
     /\ automations' = IF launch[l].automation
                       THEN [automations EXCEPT ![h][c] = l] ELSE automations
     /\ Step(h, "registered")
     /\ UNCHANGED <<storeVars, diskVars, launch, browser, up, watch, sweep, faults>>

\* Terminate, or the user, ends a browser.  One that does not end cleanly leaves
\* its marker behind.
Kill(l, leftover) ==
  LET c == launch[l].container
      marked == browser[l] = "alive" /\ marker[c] = l
  IN /\ browser' = [browser EXCEPT ![l] = "exited"]
     /\ \/ leftover /\ marked /\ Fault("crash") /\ UNCHANGED marker
        \/ ~leftover /\ UNCHANGED faults
             /\ marker' = IF marked THEN [marker EXCEPT ![c] = None] ELSE marker

\* The endpoint does not become ready in time, or its browser has exited.
AutomationFails(h, leftover) ==
  LET l == request[h].launch
  IN /\ Handling(h, "started")
     /\ launch[l].automation
     /\ Kill(l, leftover)
     /\ Step(h, "releasing")
     /\ UNCHANGED <<storeVars, profile, launch, up, processes, automations, watch,
                    sweep>>

setRunning(r, l) == [r EXCEPT !.state = "running", !.pid = l, !.token = None,
                              !.stale = FALSE, !.pending = FALSE]

\* Mutation: no watcher is started.
CommitUnwatched(h) ==
  LET l == request[h].launch
      c == launch[l].container
  IN /\ Handling(h, "registered")
     /\ Holds(c, l)
     /\ row' = [row EXCEPT ![c] = setRunning(@, l)]
     /\ Respond(h)
     /\ UNCHANGED <<fresh, diskVars, launch, browser, up, processes, automations,
                    watch, sweep, faults>>

CommitLaunch(h) ==
  LET l == request[h].launch
      c == launch[l].container
  IN /\ Handling(h, "registered")
     /\ Holds(c, l)
     /\ row' = [row EXCEPT ![c] = setRunning(@, l)]
     /\ watch' = [watch EXCEPT ![l] = "waiting"]
     /\ Respond(h)
     /\ UNCHANGED <<fresh, diskVars, launch, browser, up, processes, automations,
                    sweep, faults>>

\* The reservation was lost, or the store reports an error (after "sync" the row
\* says running all the same): the maps forget the launch and it is aborted.
LoseLaunch(h, outcome) ==
  LET l == request[h].launch
      c == launch[l].container
  IN /\ Handling(h, "registered")
     /\ outcome \in Outcomes
     /\ outcome = "ok" <=> ~Holds(c, l)
     /\ Spend(outcome)
     /\ row' = IF Holds(c, l) /\ Committed(outcome)
               THEN [row EXCEPT ![c] = setRunning(@, l)]
               ELSE row
     /\ processes' = IF processes[h][c] = l
                     THEN [processes EXCEPT ![h][c] = None] ELSE processes
     /\ automations' = IF automations[h][c] = l
                       THEN [automations EXCEPT ![h][c] = None] ELSE automations
     /\ Step(h, "aborting")
     /\ UNCHANGED <<fresh, diskVars, launch, browser, up, watch, sweep>>

\* Mutation: the request fails without ending the browser it started.
AbandonLaunch(h, leftover) ==
  /\ Handling(h, "aborting")
  /\ ~leftover
  /\ Respond(h)
  /\ UNCHANGED <<storeVars, diskVars, launch, browser, up, processes, automations,
                 watch, sweep, faults>>

\* The browser of an aborted launch is terminated; its reservation is not
\* released.
AbortLaunch(h, leftover) ==
  /\ Handling(h, "aborting")
  /\ Kill(request[h].launch, leftover)
  /\ Respond(h)
  /\ UNCHANGED <<storeVars, profile, launch, up, processes, automations, watch,
                 sweep>>

\* releaseLaunchReservation; its error is ignored.
Release(h, outcome) ==
  LET l == request[h].launch
      c == launch[l].container
  IN /\ Handling(h, "releasing")
     /\ outcome \in Outcomes
     /\ Spend(outcome)
     /\ IF Holds(c, l) THEN Write(c, setStopped(row[c]), outcome) ELSE UNCHANGED row
     /\ Respond(h)
     /\ UNCHANGED <<fresh, diskVars, launch, browser, up, processes, automations,
                    watch, sweep>>

\* More than launchReservationTTL of wall-clock time has passed.  That a launch
\* still in progress takes so long is a fault: the machine slept, or the clock
\* was set.
InProgress(l) == \E h \in Hosts : up[h] /\ request[h].launch = l

ReservationAges(c) ==
  /\ row[c].state = "launching"
  /\ ~row[c].stale
  /\ IF InProgress(row[c].token) THEN Fault("stall") ELSE UNCHANGED faults
  /\ row' = [row EXCEPT ![c].stale = TRUE]
  /\ UNCHANGED <<fresh, diskVars, launch, browser, hostVars>>

-----------------------------------------------------------------------------
(* close_container and delete_container *)

\* The process is taken from the map and the row is looked up, then ...
CloseBegin(h, c) ==
  /\ Idle(h)
  /\ processes[h][c] /= None
  /\ Present(c)
  /\ request' = [request EXCEPT ![h] = [IdleRequest EXCEPT !.op = "closing",
                                                    !.launch = processes[h][c]]]
  /\ UNCHANGED <<storeVars, diskVars, launch, browser, up, processes, automations,
                 watch, sweep, faults>>

\* ... the process is terminated, whatever the row has become, and then ...
CloseTerminate(h, leftover) ==
  /\ Handling(h, "closing")
  /\ Kill(request[h].launch, leftover)
  /\ Step(h, "clearing")
  /\ UNCHANGED <<storeVars, profile, launch, up, processes, automations, watch,
                 sweep>>

CloseFails(h) ==
  /\ Handling(h, "closing")
  /\ Fault("launcher")
  /\ Respond(h)
  /\ UNCHANGED <<storeVars, diskVars, launch, browser, up, processes, automations,
                 watch, sweep>>

\* ... clearAutomation forgets whatever runtime the container has by then.
CloseClear(h) ==
  /\ Handling(h, "clearing")
  /\ automations' = [automations EXCEPT
                       ![h][launch[request[h].launch].container] = None]
  /\ Respond(h)
  /\ UNCHANGED <<storeVars, diskVars, launch, browser, up, processes, watch, sweep,
                 faults>>

\* The directory goes first, in the transaction; the rows are written after.
\* When the directory cannot be removed nothing changes.
Delete(h, c, outcome) ==
  /\ Idle(h)
  /\ row[c].state \in {"stopped", "running"}
  /\ ~(row[c].state = "running" /\ ownsMatchingProcess(h, c))
  /\ ~ProfileInUse(c)
  /\ outcome \in Outcomes
  /\ Ran(outcome)
  /\ Spend(outcome)
  /\ RemoveProfile(c)
  /\ Write(c, AbsentRow, outcome)
  /\ UNCHANGED <<fresh, launch, browser, hostVars>>

-----------------------------------------------------------------------------
(* Temporary containers, reconciliation and cleanup *)

\* deleteTemporary.  "remove": the directory cannot be removed.  A container
\* that is gone, or not stopped any more, is left alone.
RemovalOutcomes == Outcomes \cup {kind \in {"remove"} : May(kind)}

\* Mutation: the transaction trusts the caller that the container is stopped.
deleteTemporaryUnchecked(c, outcome) ==
  LET held == ProfileInUse(c) \/ outcome = "remove"
  IN /\ outcome \in RemovalOutcomes
     /\ Spend(outcome)
     /\ \/ ~held /\ RemoveProfile(c) /\ Write(c, AbsentRow, outcome)
        \/ (held \/ ~Present(c)) /\ UNCHANGED <<row, diskVars>>

\* Mutation: the transaction does not look for markers.
deleteTemporaryBlind(c, outcome) ==
  /\ outcome \in RemovalOutcomes
  /\ Spend(outcome)
  /\ IF row[c].state = "stopped" /\ Ran(outcome)
     THEN RemoveProfile(c) /\ Write(c, AbsentRow, outcome)
     ELSE UNCHANGED <<row, diskVars>>

deleteTemporary(c, outcome) ==
  LET looked == row[c].state = "stopped" /\ Ran(outcome)
      held == ProfileInUse(c) \/ outcome = "remove"
  IN /\ outcome \in RemovalOutcomes
     /\ Spend(outcome)
     /\ \/ ~looked /\ UNCHANGED <<row, diskVars>>
        \/ looked /\ held /\ UNCHANGED diskVars
             /\ Write(c, [row[c] EXCEPT !.pending = TRUE], outcome)
        \/ looked /\ ~held /\ RemoveProfile(c)
             /\ Write(c, AbsentRow, outcome)

\* Mutation: reservations are recovered whatever their age.
reconcileAnyAge(h, c) ==
  IF /\ ~ProfileInUse(c)
     /\ row[c].state \in {"launching", "running"}
     /\ ~ownsMatchingProcess(h, c)
  THEN setStopped(row[c]) ELSE row[c]

reconcileRow(h, c) ==
  IF \/ row[c].state = "launching" /\ row[c].stale /\ ~ProfileInUse(c)
     \/ row[c].state = "running" /\ ~ownsMatchingProcess(h, c) /\ ~ProfileInUse(c)
  THEN setStopped(row[c]) ELSE row[c]

reconcile(h) == row' = [c \in Containers |-> reconcileRow(h, c)]

\* get_status, list_containers and get_running_containers.
List(h) ==
  /\ Idle(h)
  /\ reconcile(h)
  /\ UNCHANGED <<fresh, diskVars, launch, browser, hostVars, faults>>

\* cleanup_temporary_containers.
RequestCleanup(h) ==
  /\ Idle(h)
  /\ sweep' = [sweep EXCEPT ![h]["request"].step = "reconcile"]
  /\ UNCHANGED <<storeVars, diskVars, launch, browser, up, processes, automations,
                 request, watch, faults>>

SweepReconcile(h, k) ==
  /\ up[h]
  /\ sweep[h][k].step = "reconcile"
  /\ reconcile(h)
  /\ sweep' = [sweep EXCEPT ![h][k].step = "load"]
  /\ UNCHANGED <<fresh, diskVars, launch, browser, up, processes, automations,
                 request, watch, faults>>

\* An error of reconcile or Load, or of the certificate recovery that runs
\* before the startup cleanup, ends the loop.
SweepFails(h, k) ==
  /\ up[h]
  /\ sweep[h][k].step \in {"reconcile", "load"}
  /\ Fault("lock")
  /\ sweep' = [sweep EXCEPT ![h][k] = NoSweep]
  /\ UNCHANGED <<storeVars, diskVars, launch, browser, up, processes, automations,
                 request, watch>>

SweepLoad(h, k) ==
  LET stopped == {c \in Containers : row[c].temporary /\ row[c].state = "stopped"}
  IN /\ up[h]
     /\ sweep[h][k].step = "load"
     /\ sweep' = [sweep EXCEPT ![h][k] =
                    IF stopped = {} THEN NoSweep
                    ELSE [step |-> "delete", todo |-> stopped]]
     /\ UNCHANGED <<storeVars, diskVars, launch, browser, up, processes,
                    automations, request, watch, faults>>

SweepDelete(h, k, c, outcome) ==
  LET rest == sweep[h][k].todo \ {c}
  IN /\ up[h]
     /\ sweep[h][k].step = "delete"
     /\ c \in sweep[h][k].todo
     /\ deleteTemporary(c, outcome)
     /\ sweep' = [sweep EXCEPT ![h][k] =
                    IF rest = {} THEN NoSweep ELSE [@ EXCEPT !.todo = rest]]
     /\ UNCHANGED <<fresh, launch, browser, up, processes, automations, request,
                    watch>>

-----------------------------------------------------------------------------
(* The watcher goroutine of a launch *)

Watching(l, step) == watch[l] = step /\ up[launch[l].host]

\* Wait has returned.  The watcher goes on only if the map still holds its own
\* process; it then drops whatever automation runtime the container has.
WatchReturns(l) ==
  LET h == launch[l].host
      c == launch[l].container
  IN /\ Watching(l, "waiting")
     /\ browser[l] = "exited"
     /\ IF processes[h][c] = l
        THEN /\ processes' = [processes EXCEPT ![h][c] = None]
             /\ automations' = [automations EXCEPT ![h][c] = None]
             /\ watch' = [watch EXCEPT ![l] = "stopping"]
        ELSE /\ watch' = [watch EXCEPT ![l] = "done"]
             /\ UNCHANGED <<processes, automations>>
     /\ UNCHANGED <<storeVars, diskVars, launch, browser, up, request, sweep, faults>>

\* Mutation: the watcher does not compare the PID.
anyRunning(c, l) == row[c].state = "running"
recordedAs(c, l) == row[c].state = "running" /\ row[c].pid = l

\* Mutation: a row another host has stopped is none of the watcher's business.
notStopped(c) == FALSE
alreadyStopped(c) == row[c].state = "stopped"

\* The callback notes whether the container is temporary; that note survives a
\* write that fails after it.
WatchUpdate(l, outcome) ==
  LET c == launch[l].container
      mine == recordedAs(c, l)
      temporary == /\ Ran(outcome)
                   /\ mine \/ alreadyStopped(c)
                   /\ row[c].temporary
  IN /\ Watching(l, "stopping")
     /\ outcome \in Outcomes
     /\ Spend(outcome)
     /\ IF mine THEN Write(c, setStopped(row[c]), outcome) ELSE UNCHANGED row
     /\ watch' = [watch EXCEPT ![l] = IF temporary THEN "deleting" ELSE "done"]
     /\ UNCHANGED <<fresh, diskVars, launch, browser, up, processes, automations,
                    request, sweep>>

WatchDelete(l, outcome) ==
  /\ Watching(l, "deleting")
  /\ deleteTemporary(launch[l].container, outcome)
  /\ watch' = [watch EXCEPT ![l] = "done"]
  /\ UNCHANGED <<fresh, launch, browser, up, processes, automations, request, sweep>>

-----------------------------------------------------------------------------
(* Browsers *)

\* Chromium takes its profile: the Singleton* markers appear.
BrowserOpens(l) ==
  LET c == launch[l].container
  IN /\ browser[l] = "alive"
     /\ profile[c]
     /\ ~Taken(c)
     /\ marker' = [marker EXCEPT ![c] = l]
     /\ UNCHANGED <<storeVars, profile, launch, browser, hostVars, faults>>

\* The user closes the window, or (leftover) the browser crashes and its
\* markers stay.
BrowserExits(l, leftover) ==
  /\ browser[l] = "alive"
  /\ Kill(l, leftover)
  /\ UNCHANGED <<storeVars, profile, launch, hostVars>>

-----------------------------------------------------------------------------
(* The specification *)

LaunchStep(h) ==
  \/ PrepareProfile(h) \/ PrepareFails(h) \/ StartBrowser(h) \/ RegisterProcess(h)
  \/ CommitLaunch(h)
  \/ \E leftover \in BOOLEAN : AutomationFails(h, leftover) \/ AbortLaunch(h, leftover)
  \/ \E outcome \in Outcomes : LoseLaunch(h, outcome) \/ Release(h, outcome)

CreateStep(h) ==
  \/ CreateRejected(h) \/ UndoCreate(h)
  \/ \E temporary \in BOOLEAN, automation \in AutomationInputs, outcome \in Outcomes :
       CreateRow(h, temporary, automation, outcome)

CloseStep(h) ==
  \/ CloseFails(h) \/ CloseClear(h)
  \/ \E leftover \in BOOLEAN : CloseTerminate(h, leftover)

SweepStep(h, k) ==
  \/ SweepReconcile(h, k) \/ SweepLoad(h, k) \/ SweepFails(h, k)
  \/ \E c \in Containers, outcome \in RemovalOutcomes : SweepDelete(h, k, c, outcome)

NewRequest(h) ==
  \/ List(h) \/ RequestCleanup(h)
  \/ \E c \in Containers :
       \/ CreateProfile(h, c) \/ CloseBegin(h, c)
       \/ \E automation \in AutomationInputs : Update(h, c, automation)
       \/ \E outcome \in Outcomes : Delete(h, c, outcome)
       \/ \E l \in Launches, automation \in AutomationInputs, outcome \in Outcomes :
            Reserve(h, c, l, automation, outcome)

WatchStep(l) ==
  \/ WatchReturns(l)
  \/ \E outcome \in Outcomes : WatchUpdate(l, outcome)
  \/ \E outcome \in RemovalOutcomes : WatchDelete(l, outcome)

BrowserStep(l) ==
  BrowserOpens(l) \/ \E leftover \in BOOLEAN : BrowserExits(l, leftover)

Next ==
  \/ \E h \in Hosts : \/ HostStart(h) \/ HostExit(h) \/ NewRequest(h)
                      \/ CreateStep(h) \/ LaunchStep(h) \/ CloseStep(h)
                      \/ \E k \in Loops : SweepStep(h, k)
  \/ \E l \in Launches : WatchStep(l) \/ BrowserStep(l)
  \/ \E c \in Containers : ReservationAges(c)

Spec == Init /\ [][Next]_vars

\* Every thread of a live host keeps running: the request loop, the goroutines
\* and the bounded calls they make.  Nothing is assumed of users and browsers.
Fairness ==
  /\ \A h \in Hosts : /\ WF_vars(LaunchStep(h))
                      /\ WF_vars(CreateStep(h))
                      /\ WF_vars(CloseStep(h))
                      /\ \A k \in Loops : WF_vars(SweepStep(h, k))
  /\ \A l \in Launches : WF_vars(WatchStep(l))

FairSpec == Spec /\ Fairness

-----------------------------------------------------------------------------
(* Safety *)

\* A browser whose host is still there is never out of that host's reach: it is
\* in the hands of the launch that is starting or aborting it, or it is in
\* Host.processes, where close_container finds it, and has its watcher.  A
\* failed commit, a lost reservation or a second launch must not orphan it.
NoUntrackedBrowser ==
  \A l \in Launches :
    LET h == launch[l].host
        c == launch[l].container
    IN browser[l] = "alive" /\ up[h] =>
         \/ request[h].launch = l
         \/ processes[h][c] = l /\ watch[l] = "waiting"

\* "Cleanup pending" is only ever said of a temporary container that is stopped:
\* a launch of it, its commit or a late cleanup of another thread never leaves
\* the flag on a container that is in use.
PendingMeansStopped ==
  \A c \in Containers :
    row[c].pending => row[c].temporary /\ row[c].state = "stopped"

\* A host is between EnsureProfile and the end of the create request.
Creating(c) ==
  \E h \in Hosts : request[h].op \in CreateSteps /\ request[h].container = c

Unclaimed(c) == profile[c] /\ ~Present(c) /\ ~Creating(c)

\* Its host goes away in the middle of a create, or the removal that undoes the
\* create fails, which the code ignores.
CreateCutShort(c) ==
  \E h \in Hosts :
    /\ request[h].container = c
    /\ \/ request[h].op \in CreateSteps /\ up[h] /\ ~up'[h]
       \/ request[h].op = "undoing" /\ faults' > faults

\* No profile directory is left without a container: the row and the directory
\* are written and removed by separate steps, each of which may fail, yet a
\* directory only loses its last claim in a create that its host does not
\* survive or whose undoing fails.  No other failure, whichever step it strikes,
\* and no loss of a host anywhere else leaves one behind.
NoLeakedProfile ==
  [][\A c \in Containers :
       Unclaimed(c)' => Unclaimed(c) \/ CreateCutShort(c)]_vars

\* A reservation that has not expired is only ended by the launch that holds its
\* token: it runs that launch, or that launch gives it back.  Other hosts, the
\* cleanup, the watchers of earlier launches and deletion leave it alone.
ReservationIsExclusive ==
  [][\A c \in Containers, l \in Launches :
       Holds(c, l) /\ ~row[c].stale =>
         \/ Holds(c, l)'
         \/ row'[c].state = "running" /\ row'[c].pid = l
         \/ /\ row'[c].state = "stopped"
            /\ \E h \in Hosts : request[h].launch = l /\ request[h].op = "releasing"
    ]_vars

\* While the recorded browser lives, its container stays running with its PID:
\* no reconciliation, watcher, launch or deletion, by whichever host, ends it.
RunningWhileBrowserLives ==
  [][\A c \in Containers, l \in Launches :
       row[c].state = "running" /\ row[c].pid = l /\ browser[l] = "alive" =>
         row'[c].state = "running" /\ row'[c].pid = l]_vars

\* A profile directory is only removed when no browser is using it.
ProfileRemovedUnused ==
  [][\A c \in Containers, l \in Launches :
       profile[c] /\ launch[l].container = c /\ browser[l] = "alive" =>
         profile'[c]]_vars

\* SECURITY.md: ScopeNest refuses duplicate launches while a recorded process is
\* alive; whichever host recorded it.
NoDuplicateLaunch ==
  [][\A c \in Containers, l \in Launches :
       row[c].state = "running" /\ row[c].pid = l /\ browser[l] = "alive" =>
         row'[c].state /= "launching"]_vars

\* docs/native-protocol.md: the DevTools endpoint is cleared when its owned
\* process exits.  What automationForMCP hands out for a running container is
\* the runtime of the process that is running, never that of an earlier one.
EndpointClearedOnExit ==
  \A h \in Hosts, c \in Containers :
    /\ row[c].state = "running"
    /\ ownsLiveProcess(h, c)
    /\ automations[h][c] /= None
    => automations[h][c] = processes[h][c]

\* README.md: temporary contexts are removed after their browser process tree
\* exits.  Unless the user deletes it, a temporary container is not removed
\* before it was ever launched.
TemporaryKeptUntilExit ==
  [][\A c \in Containers :
       (\A l \in Launches : launch[l].container /= c) /\ Present(c) =>
         \/ row'[c].state /= "absent"
         \/ \E h \in Hosts, outcome \in Outcomes : Delete(h, c, outcome)]_vars

-----------------------------------------------------------------------------
(* Liveness, as long as the host that launched the browser is there *)

RecordedExit(c, l) ==
  /\ row[c].state = "running"
  /\ row[c].pid = l
  /\ browser[l] = "exited"
  /\ watch[l] /= "done"

HostGone(l) == launch[l].host \in Hosts /\ ~up[launch[l].host]

\* When a browser ends, its container does not stay running for ever.
ExitIsRecorded ==
  \A c \in Containers, l \in Launches :
    RecordedExit(c, l) ~> row[c].pid /= l \/ HostGone(l)

\* When the browser of a temporary container ends, the container is removed, or
\* marked pending, unless it is launched again first.  Another host that
\* reconciles the row between the exit and the watcher must not save it.
TemporaryIsRemoved ==
  \A c \in Containers, l \in Launches :
    RecordedExit(c, l) /\ row[c].temporary ~>
      \/ ~Present(c)
      \/ row[c].pending
      \/ row[c].state = "launching"
      \/ HostGone(l)

-----------------------------------------------------------------------------
(* The hosts implement the contract of LifecycleContract *)

Contract == INSTANCE LifecycleContract WITH
  status <- [c \in Containers |->
               [state  |-> row[c].state,
                launch |-> IF row[c].state = "launching"
                           THEN row[c].token ELSE row[c].pid]],
  used <- {l \in Launches : launch[l] /= NoAttempt}

\* However requests, watchers, cleanups and failures of several hosts
\* interleave, the rows of containers.json change as the contract allows.
ImplementsContract == Contract!Spec
=============================================================================
