---------------------- MODULE ContainerLifecycleProofs ----------------------
(* Theorems about ContainerLifecycle, for any hosts, containers, launches,  *)
(* faults and bound on faults.                                              *)
EXTENDS ContainerLifecycle, TLAPS

-----------------------------------------------------------------------------
(* Rows and transactions *)

LEMMA RowTypes ==
  ASSUME NEW r \in Row, NEW l \in LaunchOrNone
  PROVE  /\ AbsentRow \in Row
         /\ setStopped(r) \in Row
         /\ setRunning(r, l) \in Row
         /\ setLaunching(r, l) \in Row
  BY DEF Row, AbsentRow, LaunchOrNone, setStopped, setRunning, setLaunching

LEMMA WriteType ==
  ASSUME TypeOK, NEW c, NEW r, NEW outcome,
         c \in Containers => r \in Row,
         Write(c, r, outcome)
  PROVE  row' \in [Containers -> Row]
  BY DEF TypeOK, Write

LEMMA SpendType ==
  ASSUME TypeOK, NEW outcome \in RemovalOutcomes, Spend(outcome)
  PROVE  faults' \in 0 .. MaxFaults
  BY FaultAssumption DEF TypeOK, Spend, RemovalOutcomes, Outcomes, May

LEMMA FaultType ==
  ASSUME TypeOK, NEW kind, Fault(kind)
  PROVE  faults' \in 0 .. MaxFaults
  BY FaultAssumption DEF TypeOK, Fault, May

LEMMA OutcomesAreRemovalOutcomes ==
  Outcomes \subseteq RemovalOutcomes
  BY DEF RemovalOutcomes

LEMMA RemoveProfileType ==
  ASSUME TypeOK, NEW c, RemoveProfile(c)
  PROVE  profile' \in [Containers -> BOOLEAN] /\ marker' \in [Containers -> LaunchOrNone]
  BY DEF TypeOK, RemoveProfile, LaunchOrNone

LEMMA KillType ==
  ASSUME TypeOK, NEW l, NEW leftover \in BOOLEAN, Kill(l, leftover)
  PROVE  /\ browser' \in [Launches -> {"none", "alive", "exited"}]
         /\ marker' \in [Containers -> LaunchOrNone]
         /\ faults' \in 0 .. MaxFaults
<1>1. browser' \in [Launches -> {"none", "alive", "exited"}]
  BY DEF TypeOK, Kill
<1>2. marker' \in [Containers -> LaunchOrNone]
  BY DEF TypeOK, Kill, LaunchOrNone
<1>3. faults' \in 0 .. MaxFaults
  BY FaultType DEF TypeOK, Kill
<1> QED BY <1>1, <1>2, <1>3

LEMMA DeleteTemporaryType ==
  ASSUME TypeOK, NEW c, NEW outcome, deleteTemporary(c, outcome)
  PROVE  /\ row' \in [Containers -> Row]
         /\ profile' \in [Containers -> BOOLEAN]
         /\ marker' \in [Containers -> LaunchOrNone]
         /\ faults' \in 0 .. MaxFaults
<1>1. faults' \in 0 .. MaxFaults
  BY SpendType DEF deleteTemporary
<1>2. CASE UNCHANGED <<row, diskVars>>
  BY <1>1, <1>2 DEF TypeOK, diskVars
<1>3. CASE UNCHANGED diskVars /\ Write(c, [row[c] EXCEPT !.pending = TRUE], outcome)
  <2>1. ASSUME c \in Containers
        PROVE  row[c] \in Row
    BY <2>1 DEF TypeOK
  <2>2. ASSUME c \in Containers
        PROVE  [row[c] EXCEPT !.pending = TRUE] \in Row
    BY <2>1, <2>2 DEF Row
  <2> QED BY <1>1, <1>3, <2>2, WriteType DEF TypeOK, diskVars
<1>4. CASE RemoveProfile(c) /\ Write(c, AbsentRow, outcome)
  <2>1. AbsentRow \in Row
    BY DEF AbsentRow, Row, LaunchOrNone
  <2> QED BY <1>1, <1>4, <2>1, WriteType, RemoveProfileType
<1> QED BY <1>2, <1>3, <1>4 DEF deleteTemporary

LEMMA ReconcileType ==
  ASSUME TypeOK, NEW h \in Hosts, reconcile(h)
  PROVE  row' \in [Containers -> Row]
<1>1. ASSUME NEW c \in Containers
      PROVE  reconcileRow(h, c) \in Row
  BY RowTypes DEF TypeOK, reconcileRow, LaunchOrNone
<1> QED BY <1>1 DEF reconcile

LEMMA MapType ==
  ASSUME NEW f \in [Hosts -> [Containers -> LaunchOrNone]], NEW h, NEW c,
         NEW l \in LaunchOrNone
  PROVE  [f EXCEPT ![h][c] = l] \in [Hosts -> [Containers -> LaunchOrNone]]
<1>1. CASE h \in Hosts
  BY <1>1
<1>2. CASE h \notin Hosts
  BY <1>2
<1> QED BY <1>1, <1>2

LEMMA SweepType ==
  ASSUME TypeOK, NEW h \in Hosts, NEW k \in Loops, NEW s \in Sweep,
         sweep' = [sweep EXCEPT ![h][k] = s]
  PROVE  sweep' \in [Hosts -> [Loops -> Sweep]]
  BY DEF TypeOK

LEMMA SweepStepType ==
  ASSUME TypeOK, NEW h \in Hosts, NEW k \in Loops,
         NEW s \in {"off", "reconcile", "load", "delete"},
         sweep' = [sweep EXCEPT ![h][k].step = s]
  PROVE  sweep' \in [Hosts -> [Loops -> Sweep]]
<1>1. sweep[h] \in [Loops -> Sweep] /\ sweep[h][k] \in Sweep
  BY DEF TypeOK
<1>2. [sweep[h][k] EXCEPT !.step = s] \in Sweep
  BY <1>1 DEF Sweep
<1>3. [sweep[h] EXCEPT ![k] = [sweep[h][k] EXCEPT !.step = s]] \in [Loops -> Sweep]
  BY <1>1, <1>2
<1> QED BY <1>3 DEF TypeOK

LEMMA RequestType ==
  ASSUME TypeOK, NEW h \in Hosts, NEW l \in LaunchOrNone,
         NEW c \in Containers \cup {None},
         NEW op \in LaunchSteps \cup CreateSteps \cup {"idle", "closing", "clearing"}
  PROVE  /\ IdleRequest \in Request
         /\ [IdleRequest EXCEPT !.op = op, !.launch = l] \in Request
         /\ [IdleRequest EXCEPT !.op = op, !.container = c] \in Request
         /\ [request[h] EXCEPT !.op = op] \in Request
<1>1. request[h] \in Request
  BY DEF TypeOK
<1> QED BY <1>1 DEF IdleRequest, Request, LaunchOrNone

LEMMA StepType ==
  ASSUME TypeOK, NEW h \in Hosts,
         NEW op \in LaunchSteps \cup CreateSteps \cup {"closing", "clearing"},
         Step(h, op) \/ Respond(h)
  PROVE  request' \in [Hosts -> Request]
<1>1. /\ [request[h] EXCEPT !.op = op] \in Request
      /\ IdleRequest \in Request
  BY RequestType DEF LaunchOrNone
<1> QED BY <1>1 DEF TypeOK, Step, Respond

-----------------------------------------------------------------------------
(* The type invariant *)

\* The steps of a host, its requests and its cleanup keep the types.
LEMMA HostTypes ==
  ASSUME TypeOK, NEW h \in Hosts,
         HostStart(h) \/ HostExit(h) \/ NewRequest(h) \/ CreateStep(h)
  PROVE  TypeOK'
<1> USE DEF storeVars, diskVars, hostVars
<1>1. CASE HostStart(h)
  <2>1. sweep' \in [Hosts -> [Loops -> Sweep]]
    BY <1>1, SweepStepType DEF HostStart, Loops
  <2> QED BY <1>1, <2>1 DEF HostStart, TypeOK
<1>2. CASE HostExit(h)
  <2>1. faults' \in 0 .. MaxFaults
    BY <1>2, FaultType DEF HostExit
  <2>2. marker' \in [Containers -> LaunchOrNone]
    BY <1>2 DEF HostExit, TypeOK, LaunchOrNone
  <2>3. request' \in [Hosts -> Request]
    BY <1>2 DEF HostExit, Respond, TypeOK, IdleRequest, Request, LaunchOrNone
  <2>4. sweep' \in [Hosts -> [Loops -> Sweep]]
    BY <1>2 DEF HostExit, TypeOK, NoSweep, Sweep
  <2>5. /\ watch' \in [Launches -> {"none", "waiting", "stopping", "deleting", "done"}]
        /\ browser' \in [Launches -> {"none", "alive", "exited"}]
    BY <1>2 DEF HostExit, TypeOK
  <2>6. /\ up' \in [Hosts -> BOOLEAN]
        /\ processes' \in [Hosts -> [Containers -> LaunchOrNone]]
        /\ automations' \in [Hosts -> [Containers -> LaunchOrNone]]
    BY <1>2 DEF HostExit, TypeOK, LaunchOrNone
  <2> QED BY <1>2, <2>1, <2>2, <2>3, <2>4, <2>5, <2>6 DEF HostExit, TypeOK
<1>3. CASE NewRequest(h)
  <2>1. CASE List(h)
    BY <2>1, ReconcileType DEF List, TypeOK
  <2>2. CASE RequestCleanup(h)
    <3>1. sweep' \in [Hosts -> [Loops -> Sweep]]
      BY <2>2, SweepStepType DEF RequestCleanup, Loops
    <3> QED BY <2>2, <3>1 DEF RequestCleanup, TypeOK
  <2>3. ASSUME NEW c \in Containers, CreateProfile(h, c)
        PROVE  TypeOK'
    <3>1. request' \in [Hosts -> Request]
      BY <2>3, RequestType DEF CreateProfile, TypeOK, LaunchOrNone, CreateSteps
    <3> QED BY <2>3, <3>1 DEF CreateProfile, TypeOK
  <2>4. ASSUME NEW c \in Containers, CloseBegin(h, c)
        PROVE  TypeOK'
    <3>1. processes[h][c] \in LaunchOrNone
      BY DEF TypeOK
    <3>2. request' \in [Hosts -> Request]
      BY <2>4, <3>1, RequestType DEF CloseBegin, TypeOK
    <3> QED BY <2>4, <3>2 DEF CloseBegin, TypeOK
  <2>5. ASSUME NEW c \in Containers, NEW automation \in AutomationInputs,
               Update(h, c, automation)
        PROVE  TypeOK'
    <3>1. row[c] \in Row /\ automation \in BOOLEAN
      BY InputAssumption DEF TypeOK
    <3>2. [row[c] EXCEPT !.automation = automation] \in Row
      BY <3>1 DEF Row
    <3>3. row' = [row EXCEPT ![c] = [row[c] EXCEPT !.automation = automation]]
      BY <2>5 DEF Update
    <3>4. row' \in [Containers -> Row]
      BY <3>2, <3>3 DEF TypeOK
    <3> QED BY <2>5, <3>4 DEF Update, TypeOK
  <2>6. ASSUME NEW c \in Containers, NEW outcome \in Outcomes, Delete(h, c, outcome)
        PROVE  TypeOK'
    <3>1. row' \in [Containers -> Row]
      <4>1. AbsentRow \in Row
        BY DEF AbsentRow, Row, LaunchOrNone
      <4> QED BY <2>6, <4>1, WriteType DEF Delete
    <3>2. faults' \in 0 .. MaxFaults
      BY <2>6, SpendType, OutcomesAreRemovalOutcomes DEF Delete
    <3> QED BY <2>6, <3>1, <3>2, RemoveProfileType DEF Delete, TypeOK
  <2>7. ASSUME NEW c \in Containers, NEW l \in Launches,
               NEW automation \in AutomationInputs, NEW outcome \in Outcomes,
               Reserve(h, c, l, automation, outcome)
        PROVE  TypeOK'
    <3>1. row' \in [Containers -> Row]
      <4>1. row[c] \in Row /\ l \in LaunchOrNone
        BY DEF TypeOK, LaunchOrNone
      <4> QED BY <2>7, <4>1, RowTypes, WriteType DEF Reserve
    <3>2. faults' \in 0 .. MaxFaults
      BY <2>7, SpendType, OutcomesAreRemovalOutcomes DEF Reserve
    <3>3. launch' \in [Launches -> Attempt]
      BY <2>7, InputAssumption DEF Reserve, TypeOK, Attempt
    <3>4. request' \in [Hosts -> Request]
      BY <2>7 DEF Reserve, TypeOK, IdleRequest, Request, LaunchOrNone, LaunchSteps
    <3> QED BY <2>7, <3>1, <3>2, <3>3, <3>4 DEF Reserve, TypeOK
  <2> QED BY <1>3, <2>1, <2>2, <2>3, <2>4, <2>5, <2>6, <2>7 DEF NewRequest
<1>4. CASE CreateStep(h)
  <2>1. CASE CreateRejected(h)
    <3>1. request' \in [Hosts -> Request]
      BY <2>1, StepType DEF CreateRejected, CreateSteps
    <3> QED BY <2>1, <3>1 DEF CreateRejected, TypeOK
  <2>2. ASSUME NEW temporary \in BOOLEAN, NEW automation \in AutomationInputs,
               NEW outcome \in Outcomes, CreateRow(h, temporary, automation, outcome)
        PROVE  TypeOK'
    <3>1. row' \in [Containers -> Row]
      <4>1. [AbsentRow EXCEPT !.state = "stopped", !.temporary = temporary,
                              !.automation = automation] \in Row
        BY InputAssumption DEF AbsentRow, Row, LaunchOrNone
      <4> QED BY <2>2, <4>1, WriteType DEF CreateRow
    <3>2. faults' \in 0 .. MaxFaults
      BY <2>2, SpendType, OutcomesAreRemovalOutcomes DEF CreateRow
    <3>3. request' \in [Hosts -> Request]
      BY <2>2, StepType DEF CreateRow, CreateSteps
    <3> QED BY <2>2, <3>1, <3>2, <3>3 DEF CreateRow, TypeOK
  <2>3. CASE UndoCreate(h)
    <3>1. profile' \in [Containers -> BOOLEAN] /\ marker' \in [Containers -> LaunchOrNone]
      BY <2>3, RemoveProfileType DEF UndoCreate, TypeOK
    <3>2. faults' \in 0 .. MaxFaults
      BY <2>3, FaultType DEF UndoCreate, TypeOK
    <3>3. request' \in [Hosts -> Request]
      BY <2>3, StepType DEF UndoCreate, CreateSteps
    <3> QED BY <2>3, <3>1, <3>2, <3>3 DEF UndoCreate, TypeOK
  <2> QED BY <1>4, <2>1, <2>2, <2>3 DEF CreateStep
<1> QED BY <1>1, <1>2, <1>3, <1>4

\* The steps of a launch keep the types.
LEMMA LaunchTypes ==
  ASSUME TypeOK, NEW h \in Hosts, LaunchStep(h)
  PROVE  TypeOK'
<1> USE DEF storeVars, diskVars, hostVars
<1> DEFINE l == request[h].launch
           c == launch[l].container
<1>0. l \in LaunchOrNone
  BY DEF TypeOK, Request
<1>1. CASE PrepareProfile(h)
  BY <1>1, StepType DEF PrepareProfile, TypeOK, LaunchSteps
<1>2. CASE PrepareFails(h)
  BY <1>2, StepType, FaultType DEF PrepareFails, TypeOK, LaunchSteps
<1>3. CASE StartBrowser(h)
  <2>1. request' \in [Hosts -> Request]
    BY <1>3, StepType DEF StartBrowser, LaunchSteps
  <2>2. /\ profile' \in [Containers -> BOOLEAN]
        /\ browser' \in [Launches -> {"none", "alive", "exited"}]
        /\ marker' \in [Containers -> LaunchOrNone]
    BY <1>3, <1>0 DEF StartBrowser, TypeOK
  <2> QED BY <1>3, <2>1, <2>2 DEF StartBrowser, TypeOK
<1>4. CASE RegisterProcess(h)
  <2>1. request' \in [Hosts -> Request]
    BY <1>4, StepType DEF RegisterProcess, LaunchSteps
  <2>2. /\ processes' \in [Hosts -> [Containers -> LaunchOrNone]]
        /\ automations' \in [Hosts -> [Containers -> LaunchOrNone]]
    BY <1>4, <1>0 DEF RegisterProcess, TypeOK
  <2> QED BY <1>4, <2>1, <2>2 DEF RegisterProcess, TypeOK
<1>5. CASE CommitLaunch(h)
  <2>1. request' \in [Hosts -> Request]
    BY <1>5, StepType DEF CommitLaunch, LaunchSteps
  <2>2. row' \in [Containers -> Row]
    <3>1. ASSUME c \in Containers
          PROVE  setRunning(row[c], l) \in Row
      BY <3>1, <1>0, RowTypes DEF TypeOK
    <3> QED BY <1>5, <3>1 DEF CommitLaunch, TypeOK
  <2> QED BY <1>5, <2>1, <2>2 DEF CommitLaunch, TypeOK
<1>6. ASSUME NEW outcome \in Outcomes, LoseLaunch(h, outcome)
      PROVE  TypeOK'
  <2>1. request' \in [Hosts -> Request]
    BY <1>6, StepType DEF LoseLaunch, LaunchSteps
  <2>2. row' \in [Containers -> Row]
    <3>1. ASSUME c \in Containers
          PROVE  setRunning(row[c], l) \in Row
      BY <3>1, <1>0, RowTypes DEF TypeOK
    <3> QED BY <1>6, <3>1 DEF LoseLaunch, TypeOK
  <2>3. faults' \in 0 .. MaxFaults
    BY <1>6, SpendType, OutcomesAreRemovalOutcomes DEF LoseLaunch
  <2>4. /\ processes' \in [Hosts -> [Containers -> LaunchOrNone]]
        /\ automations' \in [Hosts -> [Containers -> LaunchOrNone]]
    BY <1>6 DEF LoseLaunch, TypeOK, LaunchOrNone
  <2> QED BY <1>6, <2>1, <2>2, <2>3, <2>4 DEF LoseLaunch, TypeOK
<1>7. ASSUME NEW leftover \in BOOLEAN, AutomationFails(h, leftover)
      PROVE  TypeOK'
  BY <1>7, StepType, KillType DEF AutomationFails, TypeOK, LaunchSteps
<1>8. ASSUME NEW leftover \in BOOLEAN, AbortLaunch(h, leftover)
      PROVE  TypeOK'
  BY <1>8, StepType, KillType DEF AbortLaunch, TypeOK, LaunchSteps
<1>9. ASSUME NEW outcome \in Outcomes, Release(h, outcome)
      PROVE  TypeOK'
  <2>1. request' \in [Hosts -> Request]
    BY <1>9, StepType DEF Release, LaunchSteps
  <2>2. row' \in [Containers -> Row]
    <3>1. ASSUME c \in Containers
          PROVE  setStopped(row[c]) \in Row
      BY <3>1, <1>0, RowTypes DEF TypeOK
    <3> QED BY <1>9, <3>1, WriteType DEF Release, TypeOK
  <2>3. faults' \in 0 .. MaxFaults
    BY <1>9, SpendType, OutcomesAreRemovalOutcomes DEF Release
  <2> QED BY <1>9, <2>1, <2>2, <2>3 DEF Release, TypeOK
<1> QED BY <1>1, <1>2, <1>3, <1>4, <1>5, <1>6, <1>7, <1>8, <1>9 DEF LaunchStep

\* Closing, cleaning up, watching, and what browsers and clocks do.
LEMMA OtherTypes ==
  ASSUME TypeOK,
         \/ \E h \in Hosts : CloseStep(h) \/ \E k \in Loops : SweepStep(h, k)
         \/ \E l \in Launches : WatchStep(l) \/ BrowserStep(l)
         \/ \E c \in Containers : ReservationAges(c)
  PROVE  TypeOK'
<1> USE DEF storeVars, diskVars, hostVars
<1>1. ASSUME NEW h \in Hosts, CloseStep(h)
      PROVE  TypeOK'
  <2>1. CASE CloseFails(h)
    BY <2>1, StepType, FaultType DEF CloseFails, TypeOK
  <2>2. CASE CloseClear(h)
    <3>1. automations' \in [Hosts -> [Containers -> LaunchOrNone]]
      BY <2>2 DEF CloseClear, TypeOK, LaunchOrNone
    <3> QED BY <2>2, <3>1, StepType DEF CloseClear, TypeOK
  <2>3. ASSUME NEW leftover \in BOOLEAN, CloseTerminate(h, leftover)
        PROVE  TypeOK'
    BY <2>3, StepType, KillType DEF CloseTerminate, TypeOK
  <2> QED BY <1>1, <2>1, <2>2, <2>3 DEF CloseStep
<1>2. ASSUME NEW h \in Hosts, NEW k \in Loops, SweepStep(h, k)
      PROVE  TypeOK'
  <2>0. NoSweep \in Sweep
    BY DEF NoSweep, Sweep
  <2>1. CASE SweepReconcile(h, k)
    <3>1. sweep' \in [Hosts -> [Loops -> Sweep]]
      BY <2>1, SweepStepType DEF SweepReconcile
    <3> QED BY <2>1, <3>1, ReconcileType DEF SweepReconcile, TypeOK
  <2>2. CASE SweepLoad(h, k)
    <3>1. sweep' \in [Hosts -> [Loops -> Sweep]]
      BY <2>2, <2>0, SweepType DEF SweepLoad, Sweep
    <3> QED BY <2>2, <3>1 DEF SweepLoad, TypeOK
  <2>3. CASE SweepFails(h, k)
    <3>1. sweep' \in [Hosts -> [Loops -> Sweep]]
      BY <2>3, <2>0, SweepType DEF SweepFails
    <3> QED BY <2>3, <3>1, FaultType DEF SweepFails, TypeOK
  <2>4. ASSUME NEW c \in Containers, NEW outcome \in RemovalOutcomes,
               SweepDelete(h, k, c, outcome)
        PROVE  TypeOK'
    <3> DEFINE rest == sweep[h][k].todo \ {c}
               next == IF rest = {} THEN NoSweep
                       ELSE [sweep[h][k] EXCEPT !.todo = rest]
    <3>1. sweep[h][k] \in Sweep
      BY DEF TypeOK
    <3>2. next \in Sweep
      BY <3>1, <2>0 DEF Sweep
    <3>3. sweep' = [sweep EXCEPT ![h][k] = next]
      BY <2>4 DEF SweepDelete
    <3>4. sweep' \in [Hosts -> [Loops -> Sweep]]
      BY <3>2, <3>3, SweepType
    <3> QED BY <2>4, <3>4, DeleteTemporaryType DEF SweepDelete, TypeOK
  <2> QED BY <1>2, <2>1, <2>2, <2>3, <2>4 DEF SweepStep
<1>3. ASSUME NEW l \in Launches, WatchStep(l)
      PROVE  TypeOK'
  <2>1. CASE WatchReturns(l)
    <3> DEFINE h == launch[l].host
               c == launch[l].container
    <3>1. /\ [processes EXCEPT ![h][c] = None] \in [Hosts -> [Containers -> LaunchOrNone]]
          /\ [automations EXCEPT ![h][c] = None] \in [Hosts -> [Containers -> LaunchOrNone]]
      <4>1. None \in LaunchOrNone
        BY DEF LaunchOrNone
      <4>2. /\ processes \in [Hosts -> [Containers -> LaunchOrNone]]
            /\ automations \in [Hosts -> [Containers -> LaunchOrNone]]
        BY DEF TypeOK
      <4> QED BY <4>1, <4>2, MapType
    <3>2. /\ processes' \in [Hosts -> [Containers -> LaunchOrNone]]
          /\ automations' \in [Hosts -> [Containers -> LaunchOrNone]]
      BY <2>1, <3>1 DEF WatchReturns, TypeOK
    <3>3. watch' \in [Launches -> {"none", "waiting", "stopping", "deleting", "done"}]
      BY <2>1 DEF WatchReturns, TypeOK
    <3> QED BY <2>1, <3>2, <3>3 DEF WatchReturns, TypeOK
  <2>2. ASSUME NEW outcome \in Outcomes, WatchUpdate(l, outcome)
        PROVE  TypeOK'
    <3>1. row' \in [Containers -> Row]
      <4> DEFINE c == launch[l].container
      <4>1. ASSUME c \in Containers
            PROVE  setStopped(row[c]) \in Row
        BY <4>1, RowTypes DEF TypeOK, LaunchOrNone
      <4> QED BY <2>2, <4>1, WriteType DEF WatchUpdate, TypeOK
    <3>2. faults' \in 0 .. MaxFaults
      BY <2>2, SpendType, OutcomesAreRemovalOutcomes DEF WatchUpdate
    <3>3. watch' \in [Launches -> {"none", "waiting", "stopping", "deleting", "done"}]
      BY <2>2 DEF WatchUpdate, TypeOK
    <3> QED BY <2>2, <3>1, <3>2, <3>3 DEF WatchUpdate, TypeOK
  <2>3. ASSUME NEW outcome \in RemovalOutcomes, WatchDelete(l, outcome)
        PROVE  TypeOK'
    BY <2>3, DeleteTemporaryType DEF WatchDelete, TypeOK
  <2> QED BY <1>3, <2>1, <2>2, <2>3 DEF WatchStep
<1>4. ASSUME NEW l \in Launches, BrowserStep(l)
      PROVE  TypeOK'
  <2>1. CASE BrowserOpens(l)
    BY <2>1 DEF BrowserOpens, TypeOK, LaunchOrNone
  <2>2. ASSUME NEW leftover \in BOOLEAN, BrowserExits(l, leftover)
        PROVE  TypeOK'
    BY <2>2, KillType DEF BrowserExits, TypeOK
  <2> QED BY <1>4, <2>1, <2>2 DEF BrowserStep
<1>5. ASSUME NEW c \in Containers, ReservationAges(c)
      PROVE  TypeOK'
  <2>1. [row[c] EXCEPT !.stale = TRUE] \in Row
    <3>1. row[c] \in Row
      BY DEF TypeOK
    <3> QED BY <3>1 DEF Row
  <2>2. row' \in [Containers -> Row]
    BY <1>5, <2>1 DEF ReservationAges, TypeOK
  <2>3. faults' \in 0 .. MaxFaults
    BY <1>5, FaultType DEF ReservationAges, TypeOK
  <2> QED BY <1>5, <2>2, <2>3 DEF ReservationAges, TypeOK
<1> QED BY <1>1, <1>2, <1>3, <1>4, <1>5

LEMMA InitType ==
  Init => TypeOK
BY FaultAssumption
   DEF Init, TypeOK, AbsentRow, Row, LaunchOrNone, NoAttempt, Attempt,
       IdleRequest, Request, NoSweep, Sweep

LEMMA NextType ==
  TypeOK /\ [Next]_vars => TypeOK'
<1> SUFFICES ASSUME TypeOK, [Next]_vars
             PROVE  TypeOK'
  OBVIOUS
<1>1. CASE UNCHANGED vars
  BY <1>1 DEF vars, TypeOK
<1>2. CASE Next
  BY <1>2, HostTypes, LaunchTypes, OtherTypes DEF Next
<1> QED BY <1>1, <1>2

\* The variables of ContainerLifecycle always have their types.
THEOREM TypeCorrect == Spec => []TypeOK
BY InitType, NextType, PTL DEF Spec

-----------------------------------------------------------------------------
(* An inductive invariant: identifiers are drawn once, and a request that    *)
(* goes on with a launch has one.                                            *)

\* The identifier of a create request is its own: no other request creates it,
\* and it has no row before the transaction that writes it.
DrawnOnce ==
  /\ \A c \in fresh : row[c] = AbsentRow
  /\ \A h \in Hosts :
       request[h].op \in CreateSteps =>
         /\ request[h].container \in Containers \ fresh
         /\ request[h].op = "creating" => row[request[h].container] = AbsentRow
         /\ \A g \in Hosts :
              /\ request[g].op \in CreateSteps
              /\ request[g].container = request[h].container
              => g = h

\* The step of a launch is taken by the host that reserved it, on a container.
LaunchInHand ==
  \A h \in Hosts :
    request[h].op \in LaunchSteps =>
      /\ request[h].launch \in Launches
      /\ launch[request[h].launch].host = h
      /\ launch[request[h].launch].container \in Containers

\* A cleanup or a watcher is about to delete this container.
ToDelete(c) ==
  \/ \E h \in Hosts, k \in Loops : sweep[h][k].step = "delete" /\ c \in sweep[h][k].todo
  \/ \E l \in Launches : watch[l] = "deleting" /\ launch[l].container = c

\* What one step does to the row of one container.
RowStep(c) ==
  \/ row'[c] = row[c]
  \/ /\ row[c] = AbsentRow
     /\ row'[c].state = "stopped" /\ row'[c].pending = FALSE
     /\ \E h \in Hosts : request[h].op = "creating" /\ request[h].container = c
                         /\ request'[h].op \in {"idle", "undoing"}
  \/ /\ Present(c) /\ ~ProfileInUse(c)
     /\ row[c].state = "launching" => row[c].stale
     /\ \E l \in Launches : launch'[l].container = c /\ row'[c] = setLaunching(row[c], l)
  \/ \E l \in Launches :
       /\ Holds(c, l) /\ row'[c] = setRunning(row[c], l)
       /\ \E h \in Hosts : /\ request[h].op = "registered" /\ request[h].launch = l
                           /\ request'[h].op \in {"idle", "aborting"}
  \/ /\ Present(c) /\ row'[c] = setStopped(row[c])
     /\ row[c].state = "launching" =>
          \/ row[c].stale
          \/ \E h \in Hosts : /\ request[h].op = "releasing"
                              /\ Holds(c, request[h].launch)
                              /\ request'[h].op = "idle"
     /\ row[c].state = "running" =>
          \/ ~ProfileInUse(c)
          \/ \E l \in Launches : recordedAs(c, l) /\ watch[l] = "stopping"
  \/ /\ row[c].state \in {"stopped", "running"} /\ ~ProfileInUse(c)
     /\ row'[c] = AbsentRow /\ profile'[c] = FALSE
  \/ row[c].state = "stopped" /\ ToDelete(c) /\ row'[c] = [row[c] EXCEPT !.pending = TRUE]
  \/ Present(c) /\ \E a \in BOOLEAN : row'[c] = [row[c] EXCEPT !.automation = a]
  \/ /\ row[c].state = "launching" /\ row'[c] = [row[c] EXCEPT !.stale = TRUE]
     /\ InProgress(row[c].token) => May("stall")

LEMMA WriteStep ==
  ASSUME TypeOK, NEW c, NEW d \in Containers, NEW r, NEW outcome,
         Write(d, r, outcome)
  PROVE  row'[c] = row[c] \/ (c = d /\ row'[c] = r)
  BY DEF TypeOK, Write

LEMMA DeleteTemporaryRow ==
  ASSUME TypeOK, NEW c \in Containers, NEW d, NEW outcome, deleteTemporary(d, outcome)
  PROVE  \/ row'[c] = row[c]
         \/ /\ c = d /\ row[c].state = "stopped"
            /\ \/ row'[c] = [row[c] EXCEPT !.pending = TRUE]
               \/ row'[c] = AbsentRow /\ ~ProfileInUse(c) /\ profile'[c] = FALSE
<1>1. CASE d \in Containers
  <2>1. RemoveProfile(d) => profile'[d] = FALSE
    BY <1>1 DEF RemoveProfile, TypeOK
  <2> QED BY <1>1, <2>1, WriteStep DEF deleteTemporary
<1>2. CASE d \notin Containers
  BY <1>2 DEF deleteTemporary, Write, TypeOK
<1> QED BY <1>1, <1>2

\* Every step changes a row in one of these nine ways.
LEMMA RowSteps ==
  ASSUME TypeOK, DrawnOnce, LaunchInHand, Next, NEW c \in Containers
  PROVE  RowStep(c)
<1> USE DEF storeVars, diskVars, hostVars
<1>1. ASSUME NEW h \in Hosts, HostStart(h) \/ HostExit(h)
      PROVE  RowStep(c)
  BY <1>1 DEF HostStart, HostExit, RowStep
<1>2. ASSUME NEW h \in Hosts, NewRequest(h)
      PROVE  RowStep(c)
  <2>1. CASE List(h)
    BY <2>1 DEF List, reconcile, reconcileRow, RowStep, Present
  <2>2. CASE RequestCleanup(h)
    BY <2>2 DEF RequestCleanup, RowStep
  <2>3. ASSUME NEW d \in Containers, CreateProfile(h, d) \/ CloseBegin(h, d)
        PROVE  RowStep(c)
    BY <2>3 DEF CreateProfile, CloseBegin, RowStep
  <2>4. ASSUME NEW d \in Containers, NEW a \in AutomationInputs, Update(h, d, a)
        PROVE  RowStep(c)
    <3>1. row' = [row EXCEPT ![d] = [row[d] EXCEPT !.automation = a]]
      BY <2>4 DEF Update
    <3>2. row'[c] = row[c] \/ (c = d /\ row'[c] = [row[c] EXCEPT !.automation = a])
      BY <3>1 DEF TypeOK
    <3>3. Present(d) /\ a \in BOOLEAN
      BY <2>4, InputAssumption DEF Update
    <3> QED BY <3>2, <3>3 DEF RowStep
  <2>5. ASSUME NEW d \in Containers, NEW outcome \in Outcomes, Delete(h, d, outcome)
        PROVE  RowStep(c)
    <3>1. profile'[d] = FALSE
      BY <2>5 DEF Delete, RemoveProfile, TypeOK
    <3> QED BY <2>5, <3>1, WriteStep DEF Delete, RowStep
  <2>6. ASSUME NEW d \in Containers, NEW l \in Launches,
               NEW a \in AutomationInputs, NEW outcome \in Outcomes,
               Reserve(h, d, l, a, outcome)
        PROVE  RowStep(c)
    <3>1. launch'[l].container = d
      BY <2>6 DEF Reserve, TypeOK
    <3> QED BY <2>6, <3>1, WriteStep DEF Reserve, RowStep
  <2> QED BY <1>2, <2>1, <2>2, <2>3, <2>4, <2>5, <2>6 DEF NewRequest
<1>3. ASSUME NEW h \in Hosts, CreateStep(h)
      PROVE  RowStep(c)
  <2>1. CASE CreateRejected(h) \/ UndoCreate(h)
    BY <2>1 DEF CreateRejected, UndoCreate, RowStep
  <2>2. ASSUME NEW t \in BOOLEAN, NEW a \in AutomationInputs,
               NEW outcome \in Outcomes, CreateRow(h, t, a, outcome)
        PROVE  RowStep(c)
    <3> DEFINE d == request[h].container
               r == [AbsentRow EXCEPT !.state = "stopped", !.temporary = t,
                                      !.automation = a]
    <3>1. d \in Containers /\ row[d] = AbsentRow
      BY <2>2 DEF CreateRow, Handling, DrawnOnce, CreateSteps
    <3>2. row'[c] = row[c] \/ (c = d /\ row'[c] = r)
      BY <2>2, <3>1, WriteStep DEF CreateRow
    <3>3. r.state = "stopped" /\ r.pending = FALSE
      BY DEF AbsentRow
    <3>4. request[h].op = "creating" /\ request'[h].op \in {"idle", "undoing"}
      BY <2>2 DEF CreateRow, Handling, Respond, Step, TypeOK, IdleRequest, Request
    <3> HIDE DEF r
    <3> QED BY <3>1, <3>2, <3>3, <3>4 DEF RowStep
  <2> QED BY <1>3, <2>1, <2>2 DEF CreateStep
<1>4. ASSUME NEW h \in Hosts, LaunchStep(h)
      PROVE  RowStep(c)
  <2> DEFINE l == request[h].launch
             d == launch[l].container
  <2>1. CASE PrepareProfile(h) \/ PrepareFails(h) \/ StartBrowser(h)
               \/ RegisterProcess(h)
    BY <2>1 DEF PrepareProfile, PrepareFails, StartBrowser, RegisterProcess, RowStep
  <2>2. ASSUME NEW leftover \in BOOLEAN,
               AutomationFails(h, leftover) \/ AbortLaunch(h, leftover)
        PROVE  RowStep(c)
    BY <2>2 DEF AutomationFails, AbortLaunch, RowStep
  <2>3. CASE CommitLaunch(h)
    <3>1. l \in Launches /\ d \in Containers
      BY <2>3 DEF CommitLaunch, Handling, LaunchInHand, LaunchSteps
    <3>2. Holds(d, l) /\ row' = [row EXCEPT ![d] = setRunning(row[d], l)]
      BY <2>3 DEF CommitLaunch
    <3>3. row'[c] = row[c] \/ (c = d /\ row'[c] = setRunning(row[c], l))
      BY <3>1, <3>2 DEF TypeOK
    <3>4. request[h].op = "registered" /\ request'[h].op = "idle"
      BY <2>3 DEF CommitLaunch, Handling, Respond, TypeOK, IdleRequest
    <3> QED BY <3>1, <3>2, <3>3, <3>4 DEF RowStep
  <2>4. ASSUME NEW outcome \in Outcomes, LoseLaunch(h, outcome)
        PROVE  RowStep(c)
    <3>1. l \in Launches /\ d \in Containers
      BY <2>4 DEF LoseLaunch, Handling, LaunchInHand, LaunchSteps
    <3>2. row' = row \/ (Holds(d, l) /\ row' = [row EXCEPT ![d] = setRunning(row[d], l)])
      BY <2>4 DEF LoseLaunch
    <3>3. \/ row'[c] = row[c]
          \/ c = d /\ Holds(d, l) /\ row'[c] = setRunning(row[c], l)
      BY <3>1, <3>2 DEF TypeOK
    <3>4. request[h].op = "registered" /\ request'[h].op = "aborting"
      BY <2>4 DEF LoseLaunch, Handling, Step, TypeOK, Request
    <3> QED BY <3>1, <3>3, <3>4 DEF RowStep
  <2>5. ASSUME NEW outcome \in Outcomes, Release(h, outcome)
        PROVE  RowStep(c)
    <3>1. d \in Containers
      BY <2>5 DEF Release, Handling, LaunchInHand, LaunchSteps
    <3>2. row' = row \/ (Holds(d, l) /\ Write(d, setStopped(row[d]), outcome))
      BY <2>5 DEF Release
    <3>3. row'[c] = row[c] \/ (c = d /\ Holds(d, l) /\ row'[c] = setStopped(row[c]))
      BY <3>1, <3>2, WriteStep
    <3>4. request[h].op = "releasing" /\ request'[h].op = "idle"
      BY <2>5 DEF Release, Handling, Respond, TypeOK, IdleRequest
    <3>5. Holds(d, l) => Present(d) /\ row[d].state /= "running"
      BY DEF Holds, Present
    <3> HIDE DEF d, l
    <3>6. l = request[h].launch
      BY DEF l
    <3> QED BY <3>3, <3>4, <3>5, <3>6 DEF RowStep
  <2> QED BY <1>4, <2>1, <2>2, <2>3, <2>4, <2>5 DEF LaunchStep
<1>5. ASSUME NEW h \in Hosts, CloseStep(h)
      PROVE  RowStep(c)
  BY <1>5 DEF CloseStep, CloseFails, CloseClear, CloseTerminate, RowStep
<1>6. ASSUME NEW h \in Hosts, NEW k \in Loops, SweepStep(h, k)
      PROVE  RowStep(c)
  <2>1. CASE SweepReconcile(h, k)
    BY <2>1 DEF SweepReconcile, reconcile, reconcileRow, RowStep, Present
  <2>2. CASE SweepLoad(h, k) \/ SweepFails(h, k)
    BY <2>2 DEF SweepLoad, SweepFails, RowStep
  <2>3. ASSUME NEW d \in Containers, NEW outcome \in RemovalOutcomes,
               SweepDelete(h, k, d, outcome)
        PROVE  RowStep(c)
    <3>1. ToDelete(d)
      BY <2>3 DEF SweepDelete, ToDelete
    <3>2. deleteTemporary(d, outcome)
      BY <2>3 DEF SweepDelete
    <3> QED BY <3>1, <3>2, DeleteTemporaryRow DEF RowStep
  <2> QED BY <1>6, <2>1, <2>2, <2>3 DEF SweepStep
<1>7. ASSUME NEW l \in Launches, WatchStep(l)
      PROVE  RowStep(c)
  <2>1. CASE WatchReturns(l)
    BY <2>1 DEF WatchReturns, RowStep
  <2>2. ASSUME NEW outcome \in Outcomes, WatchUpdate(l, outcome)
        PROVE  RowStep(c)
    <3> DEFINE d == launch[l].container
    <3>1. CASE d \in Containers
      <4>1. \/ row'[c] = row[c]
            \/ /\ c = d /\ recordedAs(c, l) /\ watch[l] = "stopping"
               /\ row'[c] = setStopped(row[c])
        BY <2>2, <3>1, WriteStep DEF WatchUpdate, Watching
      <4> QED BY <4>1 DEF RowStep, recordedAs, Present
    <3>2. CASE d \notin Containers
      BY <2>2, <3>2 DEF WatchUpdate, Write, TypeOK, RowStep
    <3> QED BY <3>1, <3>2
  <2>3. ASSUME NEW outcome \in RemovalOutcomes, WatchDelete(l, outcome)
        PROVE  RowStep(c)
    <3>1. ToDelete(launch[l].container)
      BY <2>3 DEF WatchDelete, Watching, ToDelete
    <3>2. deleteTemporary(launch[l].container, outcome)
      BY <2>3 DEF WatchDelete
    <3> QED BY <3>1, <3>2, DeleteTemporaryRow DEF RowStep
  <2> QED BY <1>7, <2>1, <2>2, <2>3 DEF WatchStep
<1>8. ASSUME NEW l \in Launches, BrowserStep(l)
      PROVE  RowStep(c)
  BY <1>8 DEF BrowserStep, BrowserOpens, BrowserExits, RowStep
<1>9. ASSUME NEW d \in Containers, ReservationAges(d)
      PROVE  RowStep(c)
  <2>1. row' = [row EXCEPT ![d] = [row[d] EXCEPT !.stale = TRUE]]
    BY <1>9 DEF ReservationAges
  <2>2. row'[c] = row[c] \/ (c = d /\ row'[c] = [row[c] EXCEPT !.stale = TRUE])
    BY <2>1 DEF TypeOK
  <2>3. InProgress(row[d].token) => May("stall")
    BY <1>9 DEF ReservationAges, Fault
  <2> QED BY <1>9, <2>2, <2>3 DEF ReservationAges, RowStep
<1> QED BY <1>1, <1>2, <1>3, <1>4, <1>5, <1>6, <1>7, <1>8, <1>9 DEF Next

\* What one step does to the request of one host.
RequestStep(h) ==
  \/ request'[h] = request[h]
  \/ request'[h].op \in {"idle", "closing", "clearing"}
  \/ /\ request'[h].op = "creating"
     /\ request'[h].container \in fresh
     /\ fresh' = fresh \ {request'[h].container}
     /\ row' = row
     /\ \A g \in Hosts : g /= h => request'[g] = request[g]
  \/ /\ request'[h].op = "reserved"
     /\ request'[h].launch \in Launches
     /\ launch'[request'[h].launch].host = h
     /\ \E c \in Containers :
          /\ launch'[request'[h].launch].container = c
          /\ row'[c].state = "launching" /\ row'[c].token = request'[h].launch
          /\ row'[c].stale = FALSE
  \/ /\ request[h].op = "creating" /\ request'[h].op = "undoing"
     /\ request'[h].container = request[h].container
  \/ /\ request[h].op \in LaunchSteps \ {"aborting"}
     /\ request'[h].op \in LaunchSteps
     /\ request'[h].launch = request[h].launch

LEMMA StepRequest ==
  ASSUME TypeOK, NEW h \in Hosts, NEW g \in Hosts, NEW op,
         Step(g, op) \/ Respond(g)
  PROVE  \/ request'[h] = request[h]
         \/ /\ h = g
            /\ \/ request'[h] = IdleRequest
               \/ /\ request'[h].op = op /\ request'[h].launch = request[h].launch
                  /\ request'[h].container = request[h].container
  BY DEF TypeOK, Step, Respond, Request

\* A create request ends, or it failed and goes on to its undoing.
CreateMove(h) ==
  \/ request[h].op \in CreateSteps /\ Respond(h)
  \/ request[h].op = "creating" /\ Step(h, "undoing")

LEMMA CreateMoves ==
  ASSUME NEW h \in Hosts, CreateStep(h)
  PROVE  up[h] /\ CreateMove(h)
<1>1. CASE CreateRejected(h) \/ UndoCreate(h)
  BY <1>1 DEF CreateRejected, UndoCreate, Handling, CreateMove, CreateSteps
<1>2. ASSUME NEW t \in BOOLEAN, NEW a \in AutomationInputs,
             NEW outcome \in Outcomes, CreateRow(h, t, a, outcome)
      PROVE  up[h] /\ CreateMove(h)
  BY <1>2 DEF CreateRow, Handling, CreateMove, CreateSteps
<1> QED BY <1>1, <1>2 DEF CreateStep

\* Every step changes the request of a host in one of these six ways.
LEMMA RequestSteps ==
  ASSUME TypeOK, Next, NEW h \in Hosts
  PROVE  RequestStep(h)
<1> USE DEF storeVars, diskVars, hostVars
<1>1. ASSUME NEW g \in Hosts, HostStart(g) \/ HostExit(g)
      PROVE  RequestStep(h)
  <2>1. ASSUME HostExit(g)
        PROVE  Respond(g)
    BY <2>1 DEF HostExit
  <2>2. CASE HostStart(g)
    BY <2>2 DEF HostStart, RequestStep
  <2>3. ASSUME HostExit(g)
        PROVE  request'[h] = request[h] \/ request'[h] = IdleRequest
    BY <2>1, <2>3 DEF Respond, TypeOK
  <2>4. CASE HostExit(g)
    <3>1. request'[h] = request[h] \/ request'[h].op = "idle"
      BY <2>3, <2>4 DEF IdleRequest
    <3> QED BY <3>1 DEF RequestStep
  <2> QED BY <1>1, <2>2, <2>4
<1>2. ASSUME NEW g \in Hosts, NewRequest(g)
      PROVE  RequestStep(h)
  <2>1. CASE List(g) \/ RequestCleanup(g)
    BY <2>1 DEF List, RequestCleanup, RequestStep
  <2>2. ASSUME NEW d \in Containers, CreateProfile(g, d)
        PROVE  RequestStep(h)
    <3>1. request' = [request EXCEPT ![g] = [IdleRequest EXCEPT !.op = "creating",
                                                                !.container = d]]
      BY <2>2 DEF CreateProfile
    <3>2. CASE h /= g
      BY <3>1, <3>2 DEF TypeOK, RequestStep
    <3>3. CASE h = g
      <4>1. /\ request'[h].op = "creating" /\ request'[h].container = d
            /\ \A f \in Hosts : f /= h => request'[f] = request[f]
        BY <3>1, <3>3 DEF TypeOK, IdleRequest
      <4> QED BY <2>2, <4>1 DEF CreateProfile, RequestStep
    <3> QED BY <3>2, <3>3
  <2>3. ASSUME NEW d \in Containers, CloseBegin(g, d)
        PROVE  RequestStep(h)
    BY <2>3 DEF CloseBegin, RequestStep, IdleRequest, TypeOK
  <2>4. ASSUME NEW d \in Containers, NEW a \in AutomationInputs, Update(g, d, a)
        PROVE  RequestStep(h)
    BY <2>4 DEF Update, RequestStep
  <2>5. ASSUME NEW d \in Containers, NEW outcome \in Outcomes, Delete(g, d, outcome)
        PROVE  RequestStep(h)
    BY <2>5 DEF Delete, RequestStep
  <2>6. ASSUME NEW d \in Containers, NEW l \in Launches,
               NEW a \in AutomationInputs, NEW outcome \in Outcomes,
               Reserve(g, d, l, a, outcome)
        PROVE  RequestStep(h)
    <3>1. launch'[l].host = g /\ launch'[l].container = d
      BY <2>6 DEF Reserve, TypeOK
    <3>2. \/ request'[h] = request[h]
          \/ h = g /\ request'[h].op = "reserved" /\ request'[h].launch = l
      BY <2>6 DEF Reserve, TypeOK, IdleRequest
    <3>3. row'[d].state = "launching" /\ row'[d].token = l /\ row'[d].stale = FALSE
      <4>1. row' = [row EXCEPT ![d] = setLaunching(row[d], l)] /\ row[d] \in Row
        BY <2>6 DEF Reserve, Write, Committed, TypeOK
      <4>2. row'[d] = setLaunching(row[d], l)
        BY <4>1 DEF TypeOK
      <4>3. \A r \in Row : /\ setLaunching(r, l).state = "launching"
                           /\ setLaunching(r, l).token = l
                           /\ setLaunching(r, l).stale = FALSE
        BY DEF setLaunching, Row
      <4> QED BY <4>1, <4>2, <4>3
    <3> QED BY <3>1, <3>2, <3>3 DEF RequestStep
  <2> QED BY <1>2, <2>1, <2>2, <2>3, <2>4, <2>5, <2>6 DEF NewRequest
<1>3. ASSUME NEW g \in Hosts, CreateStep(g)
      PROVE  RequestStep(h)
  <2>1. CreateMove(g)
    BY <1>3, CreateMoves
  <2> QED BY <2>1, StepRequest DEF CreateMove, RequestStep, IdleRequest
<1>4. ASSUME NEW g \in Hosts, LaunchStep(g)
      PROVE  RequestStep(h)
  <2>1. CASE PrepareProfile(g)
    BY <2>1, StepRequest DEF PrepareProfile, Handling, RequestStep, LaunchSteps, IdleRequest
  <2>2. CASE PrepareFails(g)
    BY <2>2, StepRequest DEF PrepareFails, Handling, RequestStep, LaunchSteps, IdleRequest
  <2>3. CASE StartBrowser(g)
    BY <2>3, StepRequest DEF StartBrowser, Handling, RequestStep, LaunchSteps, IdleRequest
  <2>4. CASE RegisterProcess(g)
    BY <2>4, StepRequest DEF RegisterProcess, Handling, RequestStep, LaunchSteps, IdleRequest
  <2>5. CASE CommitLaunch(g)
    BY <2>5 DEF CommitLaunch, Respond, RequestStep, IdleRequest, TypeOK
  <2>6. ASSUME NEW outcome \in Outcomes, LoseLaunch(g, outcome)
        PROVE  RequestStep(h)
    <3>1. Step(g, "aborting") /\ request[g].op = "registered"
      BY <2>6 DEF LoseLaunch, Handling
    <3>2. \/ request'[h] = request[h]
          \/ request'[h] = IdleRequest
          \/ /\ request[h].op = "registered" /\ request'[h].op = "aborting"
             /\ request'[h].launch = request[h].launch
      BY <3>1, StepRequest
    <3> QED BY <3>2 DEF RequestStep, LaunchSteps, IdleRequest
  <2>7. ASSUME NEW leftover \in BOOLEAN, AutomationFails(g, leftover)
        PROVE  RequestStep(h)
    BY <2>7, StepRequest DEF AutomationFails, Handling, RequestStep, LaunchSteps, IdleRequest
  <2>8. ASSUME NEW leftover \in BOOLEAN, AbortLaunch(g, leftover)
        PROVE  RequestStep(h)
    BY <2>8 DEF AbortLaunch, Respond, RequestStep, IdleRequest, TypeOK
  <2>9. ASSUME NEW outcome \in Outcomes, Release(g, outcome)
        PROVE  RequestStep(h)
    BY <2>9 DEF Release, Respond, RequestStep, IdleRequest, TypeOK
  <2> QED BY <1>4, <2>1, <2>2, <2>3, <2>4, <2>5, <2>6, <2>7, <2>8, <2>9 DEF LaunchStep
<1>5. ASSUME NEW g \in Hosts, CloseStep(g)
      PROVE  RequestStep(h)
  <2>1. CASE CloseFails(g) \/ CloseClear(g)
    <3>1. Respond(g)
      BY <2>1 DEF CloseFails, CloseClear
    <3> QED BY <3>1, StepRequest DEF RequestStep, IdleRequest
  <2>2. ASSUME NEW leftover \in BOOLEAN, CloseTerminate(g, leftover)
        PROVE  RequestStep(h)
    BY <2>2, StepRequest DEF CloseTerminate, RequestStep, IdleRequest
  <2> QED BY <1>5, <2>1, <2>2 DEF CloseStep
<1>6. ASSUME NEW g \in Hosts, NEW k \in Loops, SweepStep(g, k)
      PROVE  RequestStep(h)
  BY <1>6 DEF SweepStep, SweepReconcile, SweepLoad, SweepFails, SweepDelete, RequestStep
<1>7. ASSUME NEW l \in Launches, WatchStep(l) \/ BrowserStep(l)
      PROVE  RequestStep(h)
  BY <1>7 DEF WatchStep, WatchReturns, WatchUpdate, WatchDelete, BrowserStep,
              BrowserOpens, BrowserExits, RequestStep
<1>8. ASSUME NEW d \in Containers, ReservationAges(d)
      PROVE  RequestStep(h)
  BY <1>8 DEF ReservationAges, RequestStep
<1> QED BY <1>1, <1>2, <1>3, <1>4, <1>5, <1>6, <1>7, <1>8 DEF Next

\* Identifiers are only ever drawn, and an attempt once reserved keeps its host,
\* container and automation.
LEMMA LaunchAndFreshSteps ==
  ASSUME TypeOK, Next
  PROVE  /\ fresh' \subseteq fresh
         /\ \A l \in Launches : launch[l].host \in Hosts => launch'[l] = launch[l]
         /\ \A l \in Launches :
              \/ launch'[l] = launch[l]
              \/ /\ launch'[l].host \in Hosts
                 /\ launch'[l].container \in Containers /\ Present(launch'[l].container)
<1> USE DEF storeVars, diskVars, hostVars
<1>1. ASSUME NEW h \in Hosts, NEW c \in Containers, NEW l \in Launches,
             NEW a \in AutomationInputs, NEW outcome \in Outcomes,
             Reserve(h, c, l, a, outcome)
      PROVE  /\ fresh' = fresh
             /\ \A m \in Launches :
                  /\ launch[m].host \in Hosts => launch'[m] = launch[m]
                  /\ \/ launch'[m] = launch[m]
                     \/ launch'[m].host \in Hosts /\ launch'[m].container = c /\ Present(c)
  <2>1. /\ fresh' = fresh
        /\ launch[l] = NoAttempt /\ Present(c)
        /\ launch' = [launch EXCEPT ![l] = [host |-> h, container |-> c,
                                            automation |-> a]]
    BY <1>1 DEF Reserve
  <2> QED BY <2>1, NoneAssumption DEF TypeOK, NoAttempt
<1>2. ASSUME NEW h \in Hosts, NewRequest(h)
      PROVE  /\ fresh' \subseteq fresh
             /\ \A l \in Launches :
                  /\ launch[l].host \in Hosts => launch'[l] = launch[l]
                  /\ \/ launch'[l] = launch[l]
                     \/ /\ launch'[l].host \in Hosts
                        /\ launch'[l].container \in Containers
                        /\ Present(launch'[l].container)
  BY <1>1, <1>2 DEF NewRequest, List, RequestCleanup, CreateProfile, CloseBegin,
                    Update, Delete
<1>3. ASSUME NEW h \in Hosts, HostStart(h) \/ HostExit(h) \/ CreateStep(h)
                                \/ LaunchStep(h) \/ CloseStep(h)
      PROVE  fresh' = fresh /\ launch' = launch
  <2>1. CASE LaunchStep(h)
    BY <2>1 DEF LaunchStep, PrepareProfile, PrepareFails, StartBrowser,
                RegisterProcess, CommitLaunch, LoseLaunch, AutomationFails,
                AbortLaunch, Release
  <2>2. CASE CreateStep(h) \/ CloseStep(h)
    BY <2>2 DEF CreateStep, CreateRow, CreateRejected, UndoCreate, CloseStep, CloseFails,
                CloseClear, CloseTerminate
  <2>3. CASE HostStart(h) \/ HostExit(h)
    BY <2>3 DEF HostStart, HostExit
  <2> QED BY <1>3, <2>1, <2>2, <2>3
<1>4. ASSUME NEW h \in Hosts, NEW k \in Loops, SweepStep(h, k)
      PROVE  fresh' = fresh /\ launch' = launch
  BY <1>4 DEF SweepStep, SweepReconcile, SweepLoad, SweepFails, SweepDelete
<1>5. ASSUME NEW l \in Launches, WatchStep(l) \/ BrowserStep(l)
      PROVE  fresh' = fresh /\ launch' = launch
  BY <1>5 DEF WatchStep, WatchReturns, WatchUpdate, WatchDelete, BrowserStep,
              BrowserOpens, BrowserExits
<1>6. ASSUME NEW c \in Containers, ReservationAges(c)
      PROVE  fresh' = fresh /\ launch' = launch
  BY <1>6 DEF ReservationAges
<1> QED BY <1>2, <1>3, <1>4, <1>5, <1>6 DEF Next

LEMMA DrawnOnceKept ==
  ASSUME TypeOK, DrawnOnce, LaunchInHand, Next
  PROVE  DrawnOnce'
<1> USE RowSteps, RequestSteps, LaunchAndFreshSteps
<1>1. ASSUME NEW c \in Containers, row[c] = AbsentRow
      PROVE  \/ row'[c] = AbsentRow
             \/ \E h \in Hosts : /\ request[h].op = "creating"
                                 /\ request[h].container = c
                                 /\ request'[h].op \in {"idle", "undoing"}
  <2>1. row[c].state = "absent"
    BY <1>1 DEF AbsentRow
  <2>2. RowStep(c)
    OBVIOUS
  <2> QED BY ONLY <1>1, <2>1, <2>2 DEF RowStep, Present, Holds
<1>2. ASSUME NEW c \in fresh'
      PROVE  row'[c] = AbsentRow
  <2>1. c \in fresh /\ c \in Containers /\ row[c] = AbsentRow
    BY <1>2 DEF TypeOK, DrawnOnce
  <2> QED BY <1>1, <2>1 DEF DrawnOnce, CreateSteps
<1>3. ASSUME NEW h \in Hosts, request'[h].op \in CreateSteps
      PROVE  /\ request'[h].container \in Containers \ fresh'
             /\ request'[h].op = "creating" => row'[request'[h].container] = AbsentRow
             /\ \A g \in Hosts :
                  /\ request'[g].op \in CreateSteps
                  /\ request'[g].container = request'[h].container
                  => g = h
  <2> DEFINE c == request'[h].container
  <2>1. CASE request[h].op \in CreateSteps /\ request'[h].container = request[h].container
                /\ (request'[h] = request[h] \/ request'[h].op = "undoing")
    <3>1. /\ c \in Containers /\ c \notin fresh /\ c \notin fresh'
          /\ \A g \in Hosts : /\ request[g].op \in CreateSteps
                              /\ request[g].container = c
                              => g = h
      BY <1>3, <2>1 DEF DrawnOnce
    <3>2. ASSUME request'[h].op = "creating"
          PROVE  row'[c] = AbsentRow
      <4>1. row[c] = AbsentRow /\ request'[h] = request[h]
        BY <2>1, <3>2 DEF DrawnOnce, CreateSteps
      <4> QED BY <1>1, <3>1, <3>2, <4>1 DEF CreateSteps
    <3>3. ASSUME NEW g \in Hosts, request'[g].op \in CreateSteps,
                 request'[g].container = c
          PROVE  g = h
      <4>1. /\ request[g].op \in CreateSteps
            /\ request'[g].container = request[g].container
        BY <3>1, <3>3 DEF RequestStep, LaunchSteps, CreateSteps
      <4> QED BY <3>1, <3>3, <4>1
    <3> QED BY <3>1, <3>2, <3>3
  <2>2. CASE /\ c \in fresh /\ fresh' = fresh \ {c} /\ row' = row
             /\ \A g \in Hosts : g /= h => request'[g] = request[g]
    BY <2>2 DEF DrawnOnce, TypeOK
  <2>3. RequestStep(h)
    OBVIOUS
  <2> QED BY <1>3, <2>1, <2>2, <2>3 DEF RequestStep, LaunchSteps, CreateSteps
<1> QED BY <1>2, <1>3 DEF DrawnOnce

LEMMA LaunchInHandKept ==
  ASSUME TypeOK, LaunchInHand, Next
  PROVE  LaunchInHand'
<1> SUFFICES ASSUME NEW h \in Hosts, request'[h].op \in LaunchSteps
             PROVE  /\ request'[h].launch \in Launches
                    /\ launch'[request'[h].launch].host = h
                    /\ launch'[request'[h].launch].container \in Containers
  BY DEF LaunchInHand
<1>1. CASE request[h].op \in LaunchSteps /\ request'[h].launch = request[h].launch
  BY <1>1, LaunchAndFreshSteps DEF LaunchInHand
<1> QED BY <1>1, RequestSteps DEF RequestStep, LaunchSteps

\* What the launch steps and the create steps of every host rest on.
Requests == TypeOK /\ DrawnOnce /\ LaunchInHand

\* Identifiers are drawn once, and a host goes on only with its own launch.
THEOREM RequestsCorrect == Spec => []Requests
<1>1. Init => Requests
  <2>1. Init => DrawnOnce /\ LaunchInHand
    BY DEF Init, DrawnOnce, LaunchInHand, LaunchSteps, CreateSteps, IdleRequest
  <2> QED BY <2>1, InitType DEF Requests
<1>2. Requests /\ [Next]_vars => Requests'
  <2>1. CASE Next
    BY <2>1, NextType, DrawnOnceKept, LaunchInHandKept DEF Requests
  <2>2. CASE UNCHANGED vars
    BY <2>2 DEF Requests, TypeOK, DrawnOnce, LaunchInHand, vars
  <2> QED BY <2>1, <2>2
<1> QED BY <1>1, <1>2, PTL DEF Spec

-----------------------------------------------------------------------------
(* The hosts implement LifecycleContract *)

\* The status the contract sees, and the attempts that have had a reservation.
StatusOf(r) == [state  |-> r.state,
                launch |-> IF r.state = "launching" THEN r.token ELSE r.pid]
Statuses == [c \in Containers |-> StatusOf(row[c])]
Reserved == {l \in Launches : launch[l] /= NoAttempt}

\* The contract's steps in terms of Statuses and Reserved.
LEMMA ContractSteps ==
  /\ Contract!Init <=>
       Statuses = [c \in Containers |-> Contract!Absent] /\ Reserved = {}
  /\ Contract!Next <=>
       \/ \E c \in Containers :
            \/ /\ Statuses[c] = Contract!Absent
               /\ Statuses' = [Statuses EXCEPT ![c] = Contract!Stopped]
               /\ Reserved' = Reserved
            \/ /\ Statuses[c].state \in {"stopped", "running"}
               /\ Statuses' = [Statuses EXCEPT ![c] = Contract!Absent]
               /\ Reserved' = Reserved
            \/ \E l \in Launches :
                 \/ /\ Statuses[c] /= Contract!Absent
                    /\ l \notin Reserved
                    /\ Statuses' = [Statuses EXCEPT ![c] = Contract!Launching(l)]
                    /\ Reserved' = Reserved \cup {l}
                 \/ /\ Statuses[c] = Contract!Launching(l)
                    /\ Statuses' = [Statuses EXCEPT ![c] = Contract!Running(l)]
                    /\ Reserved' = Reserved
       \/ \E S \in SUBSET Containers :
            /\ \A c \in S : Statuses[c] /= Contract!Absent
            /\ Statuses' = [c \in Containers |-> IF c \in S THEN Contract!Stopped
                                                 ELSE Statuses[c]]
            /\ Reserved' = Reserved
BY Zenon DEF Contract!Init, Contract!Next, Contract!Create, Contract!Remove,
             Contract!Reserve, Contract!Commit, Contract!Stop, Statuses, StatusOf,
             Reserved

LEMMA StatusValues ==
  ASSUME NEW r \in Row, NEW l \in LaunchOrNone
  PROVE  /\ StatusOf(AbsentRow) = Contract!Absent
         /\ StatusOf(setStopped(r)) = Contract!Stopped
         /\ StatusOf(setLaunching(r, l)) = Contract!Launching(l)
         /\ StatusOf(setRunning(r, l)) = Contract!Running(l)
         /\ r.state /= "absent" => StatusOf(r) /= Contract!Absent
         /\ \A b \in BOOLEAN : StatusOf([r EXCEPT !.automation = b]) = StatusOf(r)
         /\ StatusOf([r EXCEPT !.pending = TRUE]) = StatusOf(r)
         /\ StatusOf([r EXCEPT !.stale = TRUE]) = StatusOf(r)
BY DEF StatusOf, Row, AbsentRow, setStopped, setLaunching, setRunning,
       Contract!Absent, Contract!Stopped, Contract!Launching, Contract!Running

LEMMA StatusWritten ==
  ASSUME TypeOK, NEW c \in Containers, NEW r, row' = [row EXCEPT ![c] = r]
  PROVE  /\ Statuses' = [Statuses EXCEPT ![c] = StatusOf(r)]
         /\ StatusOf(r) = Statuses[c] => Statuses' = Statuses
<1>1. Statuses' = [d \in Containers |-> IF d = c THEN StatusOf(r) ELSE StatusOf(row[d])]
  <2>1. \A d \in Containers : row'[d] = IF d = c THEN r ELSE row[d]
    BY DEF TypeOK
  <2>2. Statuses' = [d \in Containers |-> StatusOf(row'[d])]
    BY DEF Statuses
  <2> HIDE DEF StatusOf
  <2> QED BY <2>1, <2>2
<1> QED BY <1>1 DEF Statuses

LEMMA ReservedKept ==
  ASSUME launch' = launch
  PROVE  Reserved' = Reserved
BY DEF Reserved

\* A transaction that creates or removes a container, stops it or recovers it is
\* a step of the contract; one that changes no status is none.
LEMMA WriteIsContractStep ==
  ASSUME TypeOK, launch' = launch, NEW c \in Containers, NEW r, NEW outcome,
         Write(c, r, outcome),
         \/ row[c] = AbsentRow /\ StatusOf(r) = Contract!Stopped
         \/ row[c].state \in {"stopped", "running"} /\ r = AbsentRow
         \/ Present(c) /\ StatusOf(r) = Contract!Stopped
         \/ StatusOf(r) = StatusOf(row[c])
  PROVE  Contract!Next \/ UNCHANGED <<Statuses, Reserved>>
<1>0. Reserved' = Reserved /\ row[c] \in Row /\ Statuses[c] = StatusOf(row[c])
  BY ReservedKept DEF TypeOK, Statuses
<1>1. CASE row' = row
  BY <1>0, <1>1 DEF Statuses
<1>2. CASE row' = [row EXCEPT ![c] = r]
  <2>1. Statuses' = [Statuses EXCEPT ![c] = StatusOf(r)]
    BY <1>2, StatusWritten
  <2>2. CASE row[c] = AbsentRow /\ StatusOf(r) = Contract!Stopped
    <3>1. Statuses[c] = Contract!Absent
      BY <1>0, <2>2, StatusValues DEF LaunchOrNone
    <3> QED BY <1>0, <2>1, <2>2, <3>1, ContractSteps
  <2>3. CASE row[c].state \in {"stopped", "running"} /\ r = AbsentRow
    <3>1. StatusOf(r) = Contract!Absent /\ Statuses[c].state = row[c].state
      BY <1>0, <2>3, StatusValues DEF LaunchOrNone, StatusOf
    <3> QED BY <1>0, <2>1, <2>3, <3>1, ContractSteps
  <2>4. CASE Present(c) /\ StatusOf(r) = Contract!Stopped
    <3>1. \A d \in {c} : Statuses[d] /= Contract!Absent
      BY <1>0, <2>4, StatusValues DEF Present, LaunchOrNone
    <3>2. Statuses' = [d \in Containers |-> IF d \in {c} THEN Contract!Stopped
                                            ELSE Statuses[d]]
      BY <2>1, <2>4 DEF Statuses
    <3>3. {c} \in SUBSET Containers
      OBVIOUS
    <3> QED BY <1>0, <3>1, <3>2, <3>3, ContractSteps
  <2>5. CASE StatusOf(r) = StatusOf(row[c])
    BY <1>0, <1>2, <2>5, StatusWritten
  <2> QED BY <2>2, <2>3, <2>4, <2>5
<1> QED BY <1>1, <1>2 DEF Write

LEMMA ReconcileIsContractStep ==
  ASSUME TypeOK, launch' = launch, NEW h \in Hosts, reconcile(h)
  PROVE  Contract!Next
<1> DEFINE S == {c \in Containers : reconcileRow(h, c) /= row[c]}
<1>1. \A c \in Containers : row'[c] = reconcileRow(h, c)
  BY DEF reconcile
<1>2. ASSUME NEW c \in S
      PROVE  Statuses[c] /= Contract!Absent /\ StatusOf(row'[c]) = Contract!Stopped
  <2>1. row'[c] = setStopped(row[c]) /\ row[c].state /= "absent" /\ row[c] \in Row
    BY <1>1, <1>2 DEF reconcileRow, TypeOK
  <2> QED BY <2>1, StatusValues DEF Statuses, LaunchOrNone
<1>3. Statuses' = [c \in Containers |-> IF c \in S THEN Contract!Stopped
                                        ELSE Statuses[c]]
  <2>1. Statuses' = [c \in Containers |-> StatusOf(row'[c])]
    BY DEF Statuses
  <2>2. \A c \in Containers : StatusOf(row'[c]) = IF c \in S THEN Contract!Stopped
                                                  ELSE Statuses[c]
    BY <1>1, <1>2 DEF Statuses
  <2> HIDE DEF S
  <2> QED BY <2>1, <2>2
<1>4. Reserved' = Reserved
  BY ReservedKept
<1>5. S \in SUBSET Containers
  OBVIOUS
<1> HIDE DEF S
<1> QED BY <1>2, <1>3, <1>4, <1>5, ContractSteps

LEMMA ReserveIsContractStep ==
  ASSUME TypeOK, NEW h \in Hosts, NEW c \in Containers, NEW l \in Launches,
         NEW a \in AutomationInputs, NEW outcome \in Outcomes,
         Reserve(h, c, l, a, outcome)
  PROVE  Contract!Next
<1>1. row' = [row EXCEPT ![c] = setLaunching(row[c], l)]
  BY DEF Reserve, Write, Committed
<1>2. Statuses' = [Statuses EXCEPT ![c] = Contract!Launching(l)]
  <2>1. row[c] \in Row /\ l \in LaunchOrNone
    BY DEF TypeOK, LaunchOrNone
  <2>2. StatusOf(setLaunching(row[c], l)) = Contract!Launching(l)
    BY <2>1, StatusValues
  <2> QED BY <1>1, <2>2, StatusWritten
<1>3. Statuses[c] /= Contract!Absent
  BY StatusValues DEF Reserve, Present, TypeOK, Statuses, LaunchOrNone
<1>4. l \notin Reserved /\ Reserved' = Reserved \cup {l}
  <2>1. /\ launch[l] = NoAttempt
        /\ launch' = [launch EXCEPT ![l] = [host |-> h, container |-> c,
                                            automation |-> a]]
    BY DEF Reserve
  <2> QED BY <2>1, NoneAssumption DEF Reserved, TypeOK, NoAttempt
<1> QED BY <1>2, <1>3, <1>4, ContractSteps

LEMMA CommitIsContractStep ==
  ASSUME TypeOK, launch' = launch, NEW c \in Containers, NEW l \in Launches,
         Holds(c, l), row' = [row EXCEPT ![c] = setRunning(row[c], l)]
  PROVE  Contract!Next
<1>1. row[c] \in Row /\ l \in LaunchOrNone
  BY DEF TypeOK, LaunchOrNone
<1>2. Statuses[c] = Contract!Launching(l)
  BY DEF Holds, Statuses, StatusOf, Contract!Launching
<1>3. Statuses' = [Statuses EXCEPT ![c] = Contract!Running(l)]
  <2>1. StatusOf(setRunning(row[c], l)) = Contract!Running(l)
    BY <1>1, StatusValues
  <2> QED BY <2>1, StatusWritten
<1> QED BY <1>2, <1>3, ReservedKept, ContractSteps

LEMMA DeleteTemporaryIsContractStep ==
  ASSUME TypeOK, launch' = launch, NEW c \in Containers, NEW outcome,
         deleteTemporary(c, outcome)
  PROVE  Contract!Next \/ UNCHANGED <<Statuses, Reserved>>
<1>1. CASE row' = row
  BY <1>1, ReservedKept DEF Statuses
<1>2. CASE Write(c, [row[c] EXCEPT !.pending = TRUE], outcome)
  <2>1. StatusOf([row[c] EXCEPT !.pending = TRUE]) = StatusOf(row[c])
    BY StatusValues DEF TypeOK, LaunchOrNone
  <2> QED BY <1>2, <2>1, WriteIsContractStep
<1>3. CASE row[c].state = "stopped" /\ Write(c, AbsentRow, outcome)
  BY <1>3, WriteIsContractStep
<1> QED BY <1>1, <1>2, <1>3 DEF deleteTemporary

\* Every step of the hosts, browsers and clocks is a step of the contract or
\* leaves what it sees as it is.
LEMMA NextIsContractStep ==
  ASSUME Requests, Next
  PROVE  Contract!Next \/ UNCHANGED <<Statuses, Reserved>>
<1> USE DEF storeVars, diskVars, hostVars
<1> DEFINE Maps == Contract!Next \/ UNCHANGED <<Statuses, Reserved>>
<1>0. TypeOK /\ DrawnOnce /\ LaunchInHand
  BY DEF Requests
<1>1. ASSUME row' = row, launch' = launch
      PROVE  Maps
  BY <1>1, ReservedKept DEF Statuses
<1> HIDE DEF Maps
<1>2. ASSUME NEW h \in Hosts, HostStart(h) \/ HostExit(h)
      PROVE  Maps
  BY <1>1, <1>2 DEF HostStart, HostExit
<1>3. ASSUME NEW h \in Hosts, NewRequest(h)
      PROVE  Maps
  <2>1. CASE List(h)
    BY <1>0, <2>1, ReconcileIsContractStep DEF List, Maps
  <2>2. CASE RequestCleanup(h)
    BY <1>1, <2>2 DEF RequestCleanup
  <2>3. ASSUME NEW c \in Containers, CreateProfile(h, c) \/ CloseBegin(h, c)
        PROVE  Maps
    BY <1>1, <2>3 DEF CreateProfile, CloseBegin
  <2>4. ASSUME NEW c \in Containers, NEW a \in AutomationInputs, Update(h, c, a)
        PROVE  Maps
    <3> DEFINE r == [row[c] EXCEPT !.automation = a]
    <3>1. /\ launch' = launch
          /\ row' = [row EXCEPT ![c] = r]
      BY <2>4 DEF Update
    <3>2. StatusOf(r) = StatusOf(row[c])
      BY <1>0, InputAssumption, StatusValues DEF TypeOK, LaunchOrNone
    <3>3. Statuses[c] = StatusOf(row[c])
      BY DEF Statuses
    <3> HIDE DEF r
    <3> QED BY <1>0, <3>1, <3>2, <3>3, StatusWritten, ReservedKept DEF Maps
  <2>5. ASSUME NEW c \in Containers, NEW outcome \in Outcomes, Delete(h, c, outcome)
        PROVE  Maps
    BY <1>0, <2>5, WriteIsContractStep DEF Delete, Maps
  <2>6. ASSUME NEW c \in Containers, NEW l \in Launches,
               NEW a \in AutomationInputs, NEW outcome \in Outcomes,
               Reserve(h, c, l, a, outcome)
        PROVE  Maps
    BY <1>0, <2>6, ReserveIsContractStep DEF Maps
  <2> QED BY <1>3, <2>1, <2>2, <2>3, <2>4, <2>5, <2>6 DEF NewRequest
<1>4. ASSUME NEW h \in Hosts, CreateStep(h)
      PROVE  Maps
  <2>1. CASE CreateRejected(h) \/ UndoCreate(h)
    BY <1>1, <2>1 DEF CreateRejected, UndoCreate
  <2>2. ASSUME NEW t \in BOOLEAN, NEW a \in AutomationInputs,
               NEW outcome \in Outcomes, CreateRow(h, t, a, outcome)
        PROVE  Maps
    <3> DEFINE c == request[h].container
               r == [AbsentRow EXCEPT !.state = "stopped", !.temporary = t,
                                      !.automation = a]
    <3>1. c \in Containers /\ row[c] = AbsentRow
      BY <1>0, <2>2 DEF CreateRow, Handling, DrawnOnce, CreateSteps
    <3>2. StatusOf(r) = Contract!Stopped
      BY DEF AbsentRow, StatusOf, Contract!Stopped
    <3>3. Write(c, r, outcome) /\ launch' = launch
      BY <2>2 DEF CreateRow
    <3> HIDE DEF c, r
    <3> QED BY <1>0, <3>1, <3>2, <3>3, WriteIsContractStep DEF Maps
  <2> QED BY <1>4, <2>1, <2>2 DEF CreateStep
<1>5. ASSUME NEW h \in Hosts, LaunchStep(h)
      PROVE  Maps
  <2> DEFINE l == request[h].launch
             c == launch[l].container
  <2>0. request[h].op \in LaunchSteps => l \in Launches /\ c \in Containers
    BY <1>0 DEF LaunchInHand
  <2>1. CASE PrepareProfile(h) \/ PrepareFails(h) \/ StartBrowser(h)
               \/ RegisterProcess(h)
    BY <1>1, <2>1 DEF PrepareProfile, PrepareFails, StartBrowser, RegisterProcess
  <2>2. ASSUME NEW leftover \in BOOLEAN,
               AutomationFails(h, leftover) \/ AbortLaunch(h, leftover)
        PROVE  Maps
    BY <1>1, <2>2 DEF AutomationFails, AbortLaunch
  <2>3. CASE CommitLaunch(h)
    <3>1. /\ Holds(c, l) /\ row' = [row EXCEPT ![c] = setRunning(row[c], l)]
          /\ launch' = launch
      BY <2>3 DEF CommitLaunch
    <3>2. l \in Launches /\ c \in Containers
      BY <2>0, <2>3 DEF CommitLaunch, Handling, LaunchSteps
    <3> QED BY <1>0, <3>1, <3>2, CommitIsContractStep DEF Maps
  <2>4. ASSUME NEW outcome \in Outcomes, LoseLaunch(h, outcome)
        PROVE  Maps
    <3>1. /\ \/ row' = row
             \/ Holds(c, l) /\ row' = [row EXCEPT ![c] = setRunning(row[c], l)]
          /\ launch' = launch
      BY <2>4 DEF LoseLaunch
    <3>2. l \in Launches /\ c \in Containers
      BY <2>0, <2>4 DEF LoseLaunch, Handling, LaunchSteps
    <3> QED BY <1>0, <1>1, <3>1, <3>2, CommitIsContractStep DEF Maps
  <2>5. ASSUME NEW outcome \in Outcomes, Release(h, outcome)
        PROVE  Maps
    <3>1. /\ \/ row' = row
             \/ Holds(c, l) /\ Write(c, setStopped(row[c]), outcome)
          /\ launch' = launch
      BY <2>5 DEF Release
    <3>2. c \in Containers
      BY <2>0, <2>5 DEF Release, Handling, LaunchSteps
    <3>3. StatusOf(setStopped(row[c])) = Contract!Stopped
      BY <1>0, <3>2, StatusValues DEF TypeOK, LaunchOrNone
    <3>4. Holds(c, l) => Present(c)
      BY DEF Holds, Present
    <3> QED BY <1>0, <1>1, <3>1, <3>2, <3>3, <3>4, WriteIsContractStep DEF Maps
  <2> QED BY <1>5, <2>1, <2>2, <2>3, <2>4, <2>5 DEF LaunchStep
<1>6. ASSUME NEW h \in Hosts, CloseStep(h)
      PROVE  Maps
  BY <1>1, <1>6 DEF CloseStep, CloseFails, CloseClear, CloseTerminate
<1>7. ASSUME NEW h \in Hosts, NEW k \in Loops, SweepStep(h, k)
      PROVE  Maps
  <2>1. CASE SweepReconcile(h, k)
    BY <1>0, <2>1, ReconcileIsContractStep DEF SweepReconcile, Maps
  <2>2. CASE SweepLoad(h, k) \/ SweepFails(h, k)
    BY <1>1, <2>2 DEF SweepLoad, SweepFails
  <2>3. ASSUME NEW c \in Containers, NEW outcome \in RemovalOutcomes,
               SweepDelete(h, k, c, outcome)
        PROVE  Maps
    BY <1>0, <2>3, DeleteTemporaryIsContractStep DEF SweepDelete, Maps
  <2> QED BY <1>7, <2>1, <2>2, <2>3 DEF SweepStep
<1>8. ASSUME NEW l \in Launches, WatchStep(l)
      PROVE  Maps
  <2> DEFINE c == launch[l].container
  <2>1. CASE WatchReturns(l)
    BY <1>1, <2>1 DEF WatchReturns
  <2>2. ASSUME NEW outcome \in Outcomes, WatchUpdate(l, outcome)
        PROVE  Maps
    <3>1. /\ row' = row \/ (recordedAs(c, l) /\ Write(c, setStopped(row[c]), outcome))
          /\ launch' = launch
      BY <2>2 DEF WatchUpdate
    <3>2. CASE c \in Containers
      <4>1. StatusOf(setStopped(row[c])) = Contract!Stopped
        BY <1>0, <3>2, StatusValues DEF TypeOK, LaunchOrNone
      <4>2. recordedAs(c, l) => Present(c)
        BY DEF recordedAs, Present
      <4> QED BY <1>0, <1>1, <3>1, <3>2, <4>1, <4>2, WriteIsContractStep DEF Maps
    <3>3. CASE c \notin Containers
      BY <1>0, <1>1, <3>1, <3>3 DEF Write, TypeOK
    <3> QED BY <3>2, <3>3
  <2>3. ASSUME NEW outcome \in RemovalOutcomes, WatchDelete(l, outcome)
        PROVE  Maps
    <3>1. deleteTemporary(c, outcome) /\ launch' = launch
      BY <2>3 DEF WatchDelete
    <3>2. CASE c \in Containers
      BY <1>0, <3>1, <3>2, DeleteTemporaryIsContractStep DEF Maps
    <3>3. CASE c \notin Containers
      BY <1>0, <1>1, <3>1, <3>3 DEF deleteTemporary, Write, TypeOK
    <3> QED BY <3>2, <3>3
  <2> QED BY <1>8, <2>1, <2>2, <2>3 DEF WatchStep
<1>9. ASSUME NEW l \in Launches, BrowserStep(l)
      PROVE  Maps
  BY <1>1, <1>9 DEF BrowserStep, BrowserOpens, BrowserExits
<1>10. ASSUME NEW c \in Containers, ReservationAges(c)
       PROVE  Maps
  <2>1. /\ row' = [row EXCEPT ![c] = [row[c] EXCEPT !.stale = TRUE]]
        /\ launch' = launch
    BY <1>10 DEF ReservationAges
  <2>2. StatusOf([row[c] EXCEPT !.stale = TRUE]) = StatusOf(row[c])
    BY <1>0, StatusValues DEF TypeOK, LaunchOrNone
  <2>3. Statuses[c] = StatusOf(row[c])
    BY DEF Statuses
  <2> QED BY <1>0, <2>1, <2>2, <2>3, StatusWritten, ReservedKept DEF Maps
<1>11. Maps
  BY <1>2, <1>3, <1>4, <1>5, <1>6, <1>7, <1>8, <1>9, <1>10 DEF Next
<1> QED BY <1>11 DEF Maps

\* However requests, watchers, cleanups, faults and crashes of any number of
\* hosts interleave, containers.json changes only as LifecycleContract allows:
\* one reservation per launch attempt, a commit only by the attempt that holds
\* the reservation, no removal of a container that is being launched.
THEOREM ContractImplemented == Spec => ImplementsContract
<1>1. Init => Contract!Init
  <2>1. Init => Statuses = [c \in Containers |-> Contract!Absent]
    BY StatusValues DEF Init, Statuses, StatusOf, AbsentRow, Contract!Absent
  <2>2. Init => Reserved = {}
    BY DEF Init, Reserved
  <2> QED BY <2>1, <2>2, ContractSteps
<1>2. Requests /\ [Next]_vars => Contract!Next \/ UNCHANGED <<Statuses, Reserved>>
  <2>1. CASE UNCHANGED vars
    BY <2>1 DEF vars, Statuses, Reserved
  <2> QED BY <2>1, NextIsContractStep
<1>3. ASSUME Contract!Next \/ UNCHANGED <<Statuses, Reserved>>
      PROVE  [Contract!Next]_<<[c \in Containers |->
                                  [state  |-> row[c].state,
                                   launch |-> IF row[c].state = "launching"
                                              THEN row[c].token ELSE row[c].pid]],
                               {l \in Launches : launch[l] /= NoAttempt}>>
  BY <1>3 DEF Statuses, StatusOf, Reserved
<1> QED BY <1>1, <1>2, <1>3, RequestsCorrect, PTL
        DEF Spec, ImplementsContract, Contract!Spec

-----------------------------------------------------------------------------
(* Only stopped temporary containers are pending *)

\* This container is temporary, or gone for good: nobody can draw its identifier
\* again, and nobody is creating it.
Doomed(c) ==
  /\ c \in Containers \ fresh
  /\ row[c].temporary \/ row[c] = AbsentRow
  /\ \A h \in Hosts : ~(request[h].op = "creating" /\ request[h].container = c)

\* A cleanup that looked at the rows in an earlier transaction may be late; what
\* it deletes is still nothing but a temporary container.
DeletesDoomed == \A c \in Containers : ToDelete(c) => Doomed(c)

\* A watcher belongs to an attempt that was reserved.
WatchedReserved ==
  \A l \in Launches : watch[l] /= "none" => launch[l].host \in Hosts

LEMMA DoomedStable ==
  ASSUME Requests, Next, NEW c \in Containers, Doomed(c)
  PROVE  Doomed(c)'
<1>1. TypeOK /\ DrawnOnce /\ LaunchInHand
  BY DEF Requests
<1>2. c \in Containers \ fresh'
  BY <1>1, LaunchAndFreshSteps DEF Doomed
<1>3. row'[c].temporary \/ row'[c] = AbsentRow
  <2>1. RowStep(c) /\ row[c] \in Row
    BY <1>1, RowSteps DEF TypeOK
  <2>2. ~ \E h \in Hosts : request[h].op = "creating" /\ request[h].container = c
    BY DEF Doomed
  <2>3. CASE row[c] = AbsentRow
    <3>1. row[c].state = "absent"
      BY <2>3 DEF AbsentRow
    <3> QED BY <2>1, <2>2, <2>3, <3>1 DEF RowStep, Present, Holds
  <2>4. CASE row[c].temporary
    BY <2>1, <2>2, <2>4
       DEF RowStep, Row, setLaunching, setRunning, setStopped
  <2> QED BY <2>3, <2>4 DEF Doomed
<1>4. ASSUME NEW h \in Hosts, request'[h].op = "creating", request'[h].container = c
      PROVE  FALSE
  <2>1. RequestStep(h)
    BY <1>1, RequestSteps
  <2> QED BY <1>4, <2>1 DEF RequestStep, Doomed, LaunchSteps
<1> QED BY <1>2, <1>3, <1>4 DEF Doomed

\* What one step adds to the containers of a cleanup.
LEMMA TodoSteps ==
  ASSUME TypeOK, Next, NEW h \in Hosts, NEW k \in Loops, NEW c \in Containers,
         sweep'[h][k].step = "delete", c \in sweep'[h][k].todo
  PROVE  \/ sweep[h][k].step = "delete" /\ c \in sweep[h][k].todo
         \/ row[c].temporary /\ Present(c)
<1> USE DEF storeVars, diskVars, hostVars
<1> DEFINE Goal == \/ sweep[h][k].step = "delete" /\ c \in sweep[h][k].todo
                   \/ row[c].temporary /\ Present(c)
<1>0. ASSUME sweep' = sweep
      PROVE  Goal
  BY <1>0
<1>1. ASSUME NEW g \in Hosts, NEW j \in Loops, NEW s,
             sweep' = [sweep EXCEPT ![g][j] = s],
             s.step = "delete" => \A d \in s.todo :
               \/ sweep[g][j].step = "delete" /\ d \in sweep[g][j].todo
               \/ row[d].temporary /\ Present(d)
      PROVE  Goal
  <2>1. sweep'[h][k] = IF h = g /\ k = j THEN s ELSE sweep[h][k]
    BY <1>1 DEF TypeOK
  <2> QED BY <1>1, <2>1
<1>2. ASSUME NEW g \in Hosts, NEW j \in Loops, NEW s, s /= "delete",
             sweep' = [sweep EXCEPT ![g][j].step = s]
      PROVE  Goal
  <2>1. sweep'[h][k].step = "delete" => sweep'[h][k] = sweep[h][k]
    <3>1. CASE h = g /\ k = j
      <4>1. sweep'[h][k] = [sweep[h][k] EXCEPT !.step = s]
        BY <1>2, <3>1 DEF TypeOK
      <4>2. sweep[h][k] \in Sweep
        BY DEF TypeOK
      <4> QED BY <1>2, <4>1, <4>2 DEF Sweep
    <3>2. CASE ~(h = g /\ k = j)
      BY <1>2, <3>2 DEF TypeOK
    <3> QED BY <3>1, <3>2
  <2> QED BY <2>1
<1> HIDE DEF Goal
<1>3. ASSUME NEW g \in Hosts, HostStart(g)
      PROVE  Goal
  BY <1>2, <1>3 DEF HostStart, Loops
<1>4. ASSUME NEW g \in Hosts, HostExit(g)
      PROVE  Goal
  <2>1. sweep'[h][k] = sweep[h][k] \/ sweep'[h][k] = NoSweep
    BY <1>4 DEF HostExit, TypeOK
  <2> QED BY <2>1 DEF NoSweep, Goal
<1>5. ASSUME NEW g \in Hosts, NewRequest(g)
      PROVE  Goal
  <2>1. CASE RequestCleanup(g)
    BY <1>2, <2>1 DEF RequestCleanup, Loops
  <2>2. CASE sweep' = sweep
    BY <1>0, <2>2
  <2> QED BY ZenonT(60), <1>5, <2>1, <2>2 DEF NewRequest, List, CreateProfile, CloseBegin,
                                  Update, Delete, Reserve
<1>6. ASSUME NEW g \in Hosts, CreateStep(g) \/ LaunchStep(g) \/ CloseStep(g)
      PROVE  Goal
  <2>1. CASE LaunchStep(g)
    BY <1>0, <2>1 DEF LaunchStep, PrepareProfile, PrepareFails, StartBrowser,
                      RegisterProcess, CommitLaunch, LoseLaunch, AutomationFails,
                      AbortLaunch, Release
  <2>2. CASE CreateStep(g) \/ CloseStep(g)
    BY <1>0, <2>2 DEF CreateStep, CreateRow, CreateRejected, UndoCreate, CloseStep, CloseFails,
                      CloseClear, CloseTerminate
  <2> QED BY <1>6, <2>1, <2>2
<1>7. ASSUME NEW g \in Hosts, NEW j \in Loops, SweepStep(g, j)
      PROVE  Goal
  <2>1. CASE SweepReconcile(g, j)
    BY <1>2, <2>1 DEF SweepReconcile
  <2>2. CASE SweepFails(g, j)
    BY <1>1, <2>2 DEF SweepFails, NoSweep
  <2>3. CASE SweepLoad(g, j)
    <3> DEFINE stopped == {d \in Containers : row[d].temporary /\ row[d].state = "stopped"}
               s == IF stopped = {} THEN NoSweep
                    ELSE [step |-> "delete", todo |-> stopped]
    <3>1. sweep' = [sweep EXCEPT ![g][j] = s]
      BY <2>3 DEF SweepLoad
    <3>2. s.step = "delete" => s.todo = stopped
      BY DEF NoSweep
    <3>3. \A d \in stopped : row[d].temporary /\ Present(d)
      BY DEF Present
    <3> HIDE DEF s, stopped
    <3> QED BY <1>1, <3>1, <3>2, <3>3
  <2>4. ASSUME NEW d \in Containers, NEW outcome \in RemovalOutcomes,
               SweepDelete(g, j, d, outcome)
        PROVE  Goal
    <3> DEFINE rest == sweep[g][j].todo \ {d}
               s == IF rest = {} THEN NoSweep ELSE [sweep[g][j] EXCEPT !.todo = rest]
    <3>1. sweep' = [sweep EXCEPT ![g][j] = s] /\ sweep[g][j].step = "delete"
      BY <2>4 DEF SweepDelete
    <3>2. sweep[g][j] \in Sweep
      BY DEF TypeOK
    <3>3. s.step = "delete" => s.todo \subseteq sweep[g][j].todo
      BY <3>2 DEF NoSweep, Sweep
    <3> HIDE DEF s
    <3> QED BY <1>1, <3>1, <3>3
  <2> QED BY <1>7, <2>1, <2>2, <2>3, <2>4 DEF SweepStep
<1>8. ASSUME NEW l \in Launches, WatchStep(l) \/ BrowserStep(l)
      PROVE  Goal
  BY <1>0, <1>8 DEF WatchStep, WatchReturns, WatchUpdate, WatchDelete, BrowserStep,
                    BrowserOpens, BrowserExits
<1>9. ASSUME NEW d \in Containers, ReservationAges(d)
      PROVE  Goal
  BY <1>0, <1>9 DEF ReservationAges
<1>10. Goal
  BY <1>3, <1>4, <1>5, <1>6, <1>7, <1>8, <1>9 DEF Next
<1> QED BY <1>10 DEF Goal

\* What one step does to the watchers.
LEMMA WatchSteps ==
  ASSUME Requests, Next, NEW l \in Launches
  PROVE  /\ watch'[l] /= "none" => watch[l] /= "none" \/ launch[l].host \in Hosts
         /\ watch'[l] = "deleting" =>
              \/ watch[l] = "deleting"
              \/ \A c \in Containers : launch[l].container = c =>
                   row[c].temporary /\ Present(c)
<1> USE DEF storeVars, diskVars, hostVars
<1> DEFINE Goal ==
      /\ watch'[l] /= "none" => watch[l] /= "none" \/ launch[l].host \in Hosts
      /\ watch'[l] = "deleting" =>
           \/ watch[l] = "deleting"
           \/ \A c \in Containers : launch[l].container = c =>
                row[c].temporary /\ Present(c)
<1>0. TypeOK /\ LaunchInHand
  BY DEF Requests
<1>1. ASSUME watch' = watch
      PROVE  Goal
  BY <1>1
<1>2. ASSUME NEW h \in Hosts, HostStart(h) \/ NewRequest(h) \/ CreateStep(h)
                                \/ CloseStep(h)
      PROVE  watch' = watch
  <2>1. CASE HostStart(h) \/ NewRequest(h)
    BY ZenonT(60), <2>1 DEF HostStart, NewRequest, List, RequestCleanup, CreateProfile,
                CloseBegin, Update, Delete, Reserve
  <2>2. CASE CreateStep(h) \/ CloseStep(h)
    BY <2>2 DEF CreateStep, CreateRow, CreateRejected, UndoCreate, CloseStep, CloseFails,
                CloseClear, CloseTerminate
  <2> QED BY <1>2, <2>1, <2>2
<1>3. ASSUME NEW h \in Hosts, HostExit(h)
      PROVE  Goal
  BY <1>0, <1>3 DEF HostExit, TypeOK
<1>4. ASSUME NEW h \in Hosts, LaunchStep(h)
      PROVE  Goal
  <2>1. CASE CommitLaunch(h)
    <3> DEFINE m == request[h].launch
    <3>1. watch' = [watch EXCEPT ![m] = "waiting"]
      BY <2>1 DEF CommitLaunch
    <3>2. launch[m].host = h
      BY <1>0, <2>1 DEF CommitLaunch, Handling, LaunchInHand, LaunchSteps
    <3>3. watch'[l] = watch[l] \/ (l = m /\ watch'[l] = "waiting")
      BY <1>0, <3>1 DEF TypeOK
    <3> QED BY <3>2, <3>3
  <2>2. CASE watch' = watch
    BY <1>1, <2>2
  <2> QED BY <1>4, <2>1, <2>2 DEF LaunchStep, PrepareProfile, PrepareFails,
        StartBrowser, RegisterProcess, LoseLaunch, AutomationFails, AbortLaunch,
        Release
<1>5. ASSUME NEW h \in Hosts, NEW k \in Loops, SweepStep(h, k)
      PROVE  watch' = watch
  BY <1>5 DEF SweepStep, SweepReconcile, SweepLoad, SweepFails, SweepDelete
<1>6. ASSUME NEW m \in Launches, WatchStep(m)
      PROVE  Goal
  <2>1. CASE WatchReturns(m)
    <3>1. watch'[l] = watch[l] \/ (l = m /\ watch'[l] \in {"stopping", "done"})
      BY <1>0, <2>1 DEF WatchReturns, TypeOK
    <3>2. watch[m] = "waiting"
      BY <2>1 DEF WatchReturns, Watching
    <3> QED BY <3>1, <3>2
  <2>2. ASSUME NEW outcome \in Outcomes, WatchUpdate(m, outcome)
        PROVE  Goal
    <3> DEFINE d == launch[m].container
    <3>1. \/ watch'[l] = watch[l]
          \/ l = m /\ watch'[l] = "done"
          \/ /\ l = m /\ row[d].temporary
             /\ recordedAs(d, m) \/ alreadyStopped(d)
      BY <1>0, <2>2 DEF WatchUpdate, TypeOK
    <3>2. watch[m] = "stopping"
      BY <2>2 DEF WatchUpdate, Watching
    <3> QED BY <3>1, <3>2 DEF recordedAs, alreadyStopped, Present
  <2>3. ASSUME NEW outcome \in RemovalOutcomes, WatchDelete(m, outcome)
        PROVE  Goal
    <3>1. watch'[l] = watch[l] \/ (l = m /\ watch'[l] = "done")
      BY <1>0, <2>3 DEF WatchDelete, TypeOK
    <3>2. watch[m] = "deleting"
      BY <2>3 DEF WatchDelete, Watching
    <3> QED BY <3>1, <3>2
  <2> HIDE DEF Goal
  <2> QED BY <1>6, <2>1, <2>2, <2>3 DEF WatchStep
<1>7. ASSUME NEW m \in Launches, BrowserStep(m)
      PROVE  watch' = watch
  BY <1>7 DEF BrowserStep, BrowserOpens, BrowserExits
<1>8. ASSUME NEW c \in Containers, ReservationAges(c)
      PROVE  watch' = watch
  BY <1>8 DEF ReservationAges
<1> HIDE DEF Goal
<1>9. Goal
  BY <1>1, <1>2, <1>3, <1>4, <1>5, <1>6, <1>7, <1>8 DEF Next
<1> QED BY <1>9 DEF Goal

LEMMA DeletesDoomedKept ==
  ASSUME Requests, WatchedReserved, DeletesDoomed, Next
  PROVE  WatchedReserved' /\ DeletesDoomed'
<1>1. TypeOK /\ DrawnOnce /\ LaunchInHand
  BY DEF Requests
<1>2. WatchedReserved'
  BY <1>1, WatchSteps, LaunchAndFreshSteps DEF WatchedReserved
<1>3. ASSUME NEW c \in Containers, row[c].temporary, Present(c)
      PROVE  Doomed(c)
  <2>1. row[c] /= AbsentRow
    BY <1>3 DEF Present, AbsentRow
  <2> QED BY <1>1, <1>3, <2>1 DEF Doomed, DrawnOnce, CreateSteps
<1>4. ASSUME NEW c \in Containers, ToDelete(c)'
      PROVE  Doomed(c)
  <2>1. CASE \E h \in Hosts, k \in Loops :
               sweep'[h][k].step = "delete" /\ c \in sweep'[h][k].todo
    <3>1. ToDelete(c) \/ (row[c].temporary /\ Present(c))
      BY <1>1, <2>1, TodoSteps DEF ToDelete
    <3> QED BY <1>3, <3>1 DEF DeletesDoomed
  <2>2. ASSUME NEW l \in Launches, watch'[l] = "deleting", launch'[l].container = c
        PROVE  Doomed(c)
    <3>1. watch[l] /= "none" \/ launch[l].host \in Hosts
      BY <2>2, WatchSteps
    <3>2. launch'[l] = launch[l]
      BY <1>1, <3>1, LaunchAndFreshSteps DEF WatchedReserved
    <3>3. ToDelete(c) \/ (row[c].temporary /\ Present(c))
      BY <2>2, <3>2, WatchSteps DEF ToDelete
    <3> QED BY <1>3, <3>3 DEF DeletesDoomed
  <2> QED BY <1>4, <2>1, <2>2 DEF ToDelete
<1>5. DeletesDoomed'
  BY <1>4, DoomedStable DEF DeletesDoomed
<1> QED BY <1>2, <1>5

LEMMA PendingMeansStoppedKept ==
  ASSUME Requests, DeletesDoomed, PendingMeansStopped, Next
  PROVE  PendingMeansStopped'
<1> SUFFICES ASSUME NEW c \in Containers, row'[c].pending
             PROVE  row'[c].temporary /\ row'[c].state = "stopped"
  BY DEF PendingMeansStopped
<1>1. RowStep(c) /\ row[c] \in Row
  BY RowSteps DEF Requests, TypeOK
<1>2. row[c].pending => row[c].temporary /\ row[c].state = "stopped"
  BY DEF PendingMeansStopped
<1>3. ToDelete(c) /\ row[c].state = "stopped" => row[c].temporary
  BY DEF DeletesDoomed, Doomed, AbsentRow
<1>4. AbsentRow.pending = FALSE
  BY DEF AbsentRow
<1>5. /\ \A l \in Launches : /\ setLaunching(row[c], l).pending = FALSE
                             /\ setRunning(row[c], l).pending = FALSE
      /\ setStopped(row[c]).state = "stopped"
      /\ setStopped(row[c]).temporary = row[c].temporary
      /\ setStopped(row[c]).pending = row[c].pending
  BY <1>1 DEF Row, setLaunching, setRunning, setStopped
<1>6. LET r == [row[c] EXCEPT !.pending = TRUE]
      IN r.temporary = row[c].temporary /\ r.state = row[c].state
  BY <1>1 DEF Row
<1>7. \A a \in BOOLEAN : LET r == [row[c] EXCEPT !.automation = a]
                         IN /\ r.temporary = row[c].temporary
                            /\ r.state = row[c].state
                            /\ r.pending = row[c].pending
  BY <1>1 DEF Row
<1>8. [row[c] EXCEPT !.stale = TRUE].pending = row[c].pending
  BY <1>1 DEF Row
<1> QED BY <1>1, <1>2, <1>3, <1>4, <1>5, <1>6, <1>7, <1>8 DEF RowStep

\* "Cleanup pending" is only ever said of a stopped temporary container, however
\* many cleanups, watchers and launches of however many hosts run at once.
THEOREM PendingCorrect == Spec => []PendingMeansStopped
<1>1. Init => WatchedReserved /\ DeletesDoomed /\ PendingMeansStopped
  BY DEF Init, WatchedReserved, DeletesDoomed, ToDelete, PendingMeansStopped,
         AbsentRow, NoSweep
<1>2. ASSUME Requests, WatchedReserved, DeletesDoomed, PendingMeansStopped,
             [Next]_vars
      PROVE  WatchedReserved' /\ DeletesDoomed' /\ PendingMeansStopped'
  <2>1. CASE Next
    BY <1>2, <2>1, DeletesDoomedKept, PendingMeansStoppedKept
  <2>2. CASE UNCHANGED vars
    BY <1>2, <2>2 DEF vars, WatchedReserved, DeletesDoomed, ToDelete, Doomed,
                      PendingMeansStopped
  <2> QED BY <1>2, <2>1, <2>2
<1> QED BY <1>1, <1>2, RequestsCorrect, PTL DEF Spec

-----------------------------------------------------------------------------
(* A reservation belongs to the launch that made it *)

\* A reservation that has not expired is only ended by the launch that holds its
\* token, whatever the other hosts, their cleanups and watchers do.
THEOREM ReservationCorrect == Spec => ReservationIsExclusive
<1> DEFINE Kept ==
      \A c \in Containers, l \in Launches :
        Holds(c, l) /\ ~row[c].stale =>
          \/ Holds(c, l)'
          \/ row'[c].state = "running" /\ row'[c].pid = l
          \/ /\ row'[c].state = "stopped"
             /\ \E h \in Hosts : request[h].launch = l /\ request[h].op = "releasing"
<1>1. ASSUME Requests, Next
      PROVE  Kept
  <2> SUFFICES ASSUME NEW c \in Containers, NEW l \in Launches,
                      Holds(c, l), ~row[c].stale
               PROVE  \/ Holds(c, l)'
                      \/ row'[c].state = "running" /\ row'[c].pid = l
                      \/ /\ row'[c].state = "stopped"
                         /\ \E h \in Hosts : /\ request[h].launch = l
                                             /\ request[h].op = "releasing"
    OBVIOUS
  <2>1. RowStep(c) /\ row[c] \in Row
    BY <1>1, RowSteps DEF Requests, TypeOK
  <2>2. row[c].state = "launching" /\ row[c].token = l /\ row[c] /= AbsentRow
    BY DEF Holds, AbsentRow
  <2>3. \A m \in Launches : /\ setRunning(row[c], m).state = "running"
                            /\ setRunning(row[c], m).pid = m
    BY <2>1 DEF Row, setRunning
  <2>4. setStopped(row[c]).state = "stopped"
    BY <2>1 DEF Row, setStopped
  <2>5. \A a \in BOOLEAN : LET r == [row[c] EXCEPT !.automation = a]
                           IN r.state = row[c].state /\ r.token = row[c].token
    BY <2>1 DEF Row
  <2>6. LET r == [row[c] EXCEPT !.stale = TRUE]
        IN r.state = row[c].state /\ r.token = row[c].token
    BY <2>1 DEF Row
  <2> QED BY ZenonT(60), <2>1, <2>2, <2>3, <2>4, <2>5, <2>6 DEF RowStep, Holds
<1>2. Requests /\ [Next]_vars => [Kept]_vars
  BY <1>1
<1> QED BY <1>2, RequestsCorrect, PTL DEF Spec, ReservationIsExclusive
=============================================================================
