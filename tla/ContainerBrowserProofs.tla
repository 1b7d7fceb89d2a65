----------------------- MODULE ContainerBrowserProofs -----------------------
(* Theorems about the browsers of ContainerLifecycle: who has them in reach, *)
(* what the rows and the profile directories say of them, and which          *)
(* directories stay behind.  They hold for any hosts, containers, launches   *)
(* and bound on faults; the faults and the behaviour of Chromium that each   *)
(* one assumes are its hypotheses.                                           *)
EXTENDS ContainerLifecycleProofs

-----------------------------------------------------------------------------
(* The inductive invariant *)

\* No host ends without its browsers: on Windows the Job Object kills them, or
\* hosts do not end at all.
BrowsersEndWithHost == KillOnExit \/ "exit" \notin FaultKinds

\* An identifier that has been drawn and that nobody is creating any more.
Settled(c) == c \in Containers \ fresh /\ ~Creating(c)

\* A launch attempt is on a settled container.
AttemptsSettled ==
  \A l \in Launches :
    launch[l].host \in Hosts =>
      \E c \in Containers : launch[l].container = c /\ Settled(c)

\* An attempt that was not reserved has neither a browser nor a watcher.
UnreservedIdle ==
  \A l \in Launches :
    launch[l].host \notin Hosts =>
      launch[l] = NoAttempt /\ browser[l] = "none" /\ watch[l] = "none"

\* What a host knows of the attempt it has in hand, step by step.
Hand(h) ==
  LET op == request[h].op
      l == request[h].launch
      c == launch[l].container
  IN /\ ~up[h] => request[h] = IdleRequest
     /\ op \in LaunchSteps => watch[l] = "none"
     /\ op \in {"reserved", "prepared"} => browser[l] = "none"
     /\ op \in {"started", "registered", "aborting"} => browser[l] /= "none"
     /\ op \in {"closing", "clearing"} => l \in Launches /\ browser[l] /= "none"
     /\ op = "releasing" => browser[l] /= "alive"
     /\ op \in {"reserved", "prepared", "started"} => ~ownsLiveProcess(h, c)
     /\ op = "registered" => processes[h][c] = l

InHand == \A h \in Hosts : Hand(h)

\* The map and the late watchers only know attempts that had a browser.
MapsStarted ==
  /\ \A h \in Hosts, c \in Containers :
       processes[h][c] /= None => browser[processes[h][c]] /= "none"
  /\ \A l \in Launches : watch[l] \in {"stopping", "deleting"} => browser[l] = "exited"

\* A live browser is in the hands of the launch that is starting or aborting it,
\* or in the map of its host and watched.
Tracked ==
  \A l \in Launches :
    LET h == launch[l].host
    IN browser[l] = "alive" =>
         /\ up[h]
         /\ \/ /\ request[h].op \in {"started", "registered", "aborting"}
               /\ request[h].launch = l
            \/ processes[h][launch[l].container] = l /\ watch[l] = "waiting"

Reach ==
  /\ UnreservedIdle
  /\ InHand
  /\ MapsStarted
  /\ BrowsersEndWithHost => Tracked

\* A host whose request, launch and browser a step leaves alone keeps them in hand,
\* when the step gives it no live process.
LEMMA HandKept ==
  ASSUME NEW g \in Hosts, Hand(g), request'[g] = request[g], up'[g] = up[g],
         request[g].op \in LaunchSteps =>
           /\ launch[request[g].launch].container \in Containers
           /\ launch'[request[g].launch] = launch[request[g].launch]
           /\ watch'[request[g].launch] = watch[request[g].launch],
         request[g].op \in LaunchSteps \cup {"closing", "clearing"} =>
           browser'[request[g].launch] = browser[request[g].launch],
         \A d \in Containers : ~ownsLiveProcess(g, d) => ~ownsLiveProcess(g, d)',
         request[g].op = "registered" =>
           processes'[g][launch[request[g].launch].container]
             = processes[g][launch[request[g].launch].container]
  PROVE  Hand(g)'
<1> DEFINE op == request[g].op
           l == request[g].launch
<1>1. /\ ~up'[g] => request'[g] = IdleRequest
      /\ op \in LaunchSteps => watch'[l] = "none"
      /\ op \in {"reserved", "prepared"} => browser'[l] = "none"
  BY DEF Hand, LaunchSteps
<1>2. /\ op \in {"started", "registered", "aborting"} => browser'[l] /= "none"
      /\ op \in {"closing", "clearing"} => l \in Launches /\ browser'[l] /= "none"
      /\ op = "releasing" => browser'[l] /= "alive"
  BY DEF Hand, LaunchSteps
<1>3. op \in {"reserved", "prepared", "started"} =>
        ~ownsLiveProcess(g, launch[l].container)'
  BY DEF Hand, LaunchSteps
<1>4. op = "registered" => processes'[g][launch'[l].container] = l
  BY DEF Hand, LaunchSteps
<1> QED BY <1>1, <1>2, <1>3, <1>4 DEF Hand

-----------------------------------------------------------------------------
(* Steps that start no browser and leave the map of processes alone *)

\* The request of a host in such a step.
RequestMove(h) ==
  LET op == request[h].op
      l == request[h].launch
  IN \/ request'[h] = request[h]
     \/ /\ request'[h] = IdleRequest
        /\ op \in {"started", "registered", "aborting"} => browser'[l] /= "alive"
     \/ up[h] /\ op \in {"idle", "creating"} /\ request'[h].op \in CreateSteps
     \/ /\ up[h] /\ op = "idle" /\ request'[h].op = "closing"
        /\ \E c \in Containers : request'[h].launch = processes[h][c]
        /\ request'[h].launch /= None
     \/ /\ request'[h].launch = l
        /\ \/ op = "reserved" /\ request'[h].op = "prepared"
           \/ op \in {"reserved", "prepared"} /\ request'[h].op = "releasing"
           \/ op = "started" /\ request'[h].op = "releasing" /\ browser'[l] /= "alive"
           \/ op = "closing" /\ request'[h].op = "clearing"

Moves ==
  /\ launch' = launch
  /\ processes' = processes
  /\ \A h \in Hosts : up[h] => up'[h]
  /\ \A h \in Hosts : RequestMove(h)
  /\ \A l \in Launches :
       /\ \/ watch'[l] = watch[l]
          \/ watch[l] = "stopping" /\ watch'[l] \in {"deleting", "done"}
          \/ watch[l] = "deleting" /\ watch'[l] = "done"
       /\ \/ browser'[l] = browser[l]
          \/ browser[l] /= "none" /\ browser'[l] = "exited"

LEMMA MovesKeepReach ==
  ASSUME Requests, Requests', Reach, Moves
  PROVE  Reach'
<1>0. /\ TypeOK /\ LaunchInHand /\ TypeOK' /\ LaunchInHand'
      /\ UnreservedIdle /\ InHand /\ MapsStarted
  BY DEF Requests, Reach
<1>1. launch' = launch /\ processes' = processes
  BY DEF Moves
<1>2. ASSUME NEW l \in Launches
      PROVE  /\ browser'[l] = "none" <=> browser[l] = "none"
             /\ browser'[l] = "alive" => browser[l] = "alive"
             /\ browser[l] = "exited" => browser'[l] = "exited"
             /\ watch'[l] = "none" <=> watch[l] = "none"
             /\ watch[l] = "waiting" => watch'[l] = "waiting"
             /\ watch'[l] \in {"stopping", "deleting"} => watch[l] \in {"stopping", "deleting"}
  BY DEF Moves
<1>3. UnreservedIdle'
  BY <1>0, <1>1, <1>2 DEF UnreservedIdle
<1>4. MapsStarted'
  <2>1. \A h \in Hosts, c \in Containers : processes[h][c] \in LaunchOrNone
    BY <1>0 DEF TypeOK
  <2> QED BY <1>0, <1>1, <1>2, <2>1 DEF MapsStarted, LaunchOrNone
<1>5. InHand'
  <2> SUFFICES ASSUME NEW h \in Hosts
               PROVE  Hand(h)'
    BY DEF InHand
  <2> DEFINE op == request[h].op
             l == request[h].launch
  <2>1. RequestMove(h) /\ (up[h] => up'[h])
    BY DEF Moves
  <2>2. /\ ~up[h] => request[h] = IdleRequest
        /\ op \in LaunchSteps => l \in Launches /\ watch[l] = "none"
        /\ op \in {"reserved", "prepared"} => browser[l] = "none"
        /\ op \in {"started", "registered", "aborting"} => browser[l] /= "none"
        /\ op \in {"closing", "clearing"} => l \in Launches /\ browser[l] /= "none"
        /\ op = "releasing" => browser[l] /= "alive"
        /\ op \in {"reserved", "prepared", "started"}
             => ~ownsLiveProcess(h, launch[l].container)
        /\ op = "registered" => processes[h][launch[l].container] = l
    BY <1>0 DEF InHand, Hand, LaunchInHand
  <2>3. ASSUME NEW c \in Containers, ~ownsLiveProcess(h, c)
        PROVE  processes'[h][c] = None \/ browser'[processes'[h][c]] /= "alive"
    <3>1. processes[h][c] \in LaunchOrNone
      BY <1>0 DEF TypeOK
    <3> QED BY <1>1, <1>2, <2>3, <3>1 DEF ownsLiveProcess, LaunchOrNone
  <2>4. op \in LaunchSteps => launch[l].container \in Containers
    BY <1>0 DEF LaunchInHand
  <2>5. ASSUME NEW c \in Containers, processes[h][c] /= None
        PROVE  processes[h][c] \in Launches /\ browser[processes[h][c]] /= "none"
    BY <1>0, <2>5 DEF TypeOK, LaunchOrNone, MapsStarted
  <2>6. CASE request'[h] = request[h]
    <3>1. /\ ~up'[h] => request'[h] = IdleRequest
          /\ op \in LaunchSteps => watch'[l] = "none"
      BY <1>2, <2>1, <2>2, <2>6
    <3>2. /\ op \in {"reserved", "prepared"} => browser'[l] = "none"
          /\ op \in {"started", "registered", "aborting"} => browser'[l] /= "none"
          /\ op \in {"closing", "clearing"} => l \in Launches /\ browser'[l] /= "none"
          /\ op = "releasing" => browser'[l] /= "alive"
      BY <1>2, <2>2 DEF LaunchSteps
    <3>3. op \in {"reserved", "prepared", "started"} =>
            ~ownsLiveProcess(h, launch[l].container)'
      BY <1>1, <2>2, <2>3, <2>4, <2>6 DEF ownsLiveProcess, LaunchSteps
    <3>4. op = "registered" => processes'[h][launch'[l].container] = l
      BY <1>1, <2>2
    <3> QED BY <2>6, <3>1, <3>2, <3>3, <3>4 DEF Hand
  <2>7. CASE request'[h] = IdleRequest
    BY <2>7 DEF Hand, IdleRequest, LaunchSteps
  <2>8. CASE up[h] /\ op \in {"idle", "creating"} /\ request'[h].op \in CreateSteps
    BY <2>1, <2>8 DEF Hand, LaunchSteps, CreateSteps, ownsLiveProcess
  <2>9. CASE /\ up[h] /\ op = "idle" /\ request'[h].op = "closing"
             /\ \E c \in Containers : request'[h].launch = processes[h][c]
             /\ request'[h].launch /= None
    BY <1>2, <2>1, <2>5, <2>9 DEF Hand, LaunchSteps, ownsLiveProcess
  <2>10. CASE request'[h].launch = l /\ op = "reserved" /\ request'[h].op = "prepared"
    <3>1. request'[h].launch = l /\ request'[h].op = "prepared" /\ up'[h]
      BY <2>1, <2>2, <2>10 DEF IdleRequest
    <3>2. watch'[l] = "none" /\ browser'[l] = "none"
      BY <1>2, <2>2, <2>10 DEF LaunchSteps
    <3>3. ~ownsLiveProcess(h, launch[l].container)'
      BY <1>1, <2>2, <2>3, <2>4, <2>10, <3>1 DEF ownsLiveProcess, LaunchSteps
    <3> QED BY <3>1, <3>2, <3>3 DEF Hand, LaunchSteps
  <2>11. CASE /\ request'[h].launch = l /\ request'[h].op = "releasing"
              /\ op \in {"reserved", "prepared"}
    BY <1>1, <1>2, <2>1, <2>2, <2>11 DEF Hand, LaunchSteps, ownsLiveProcess, IdleRequest
  <2>12. CASE /\ request'[h].launch = l /\ request'[h].op = "releasing"
              /\ op = "started" /\ browser'[l] /= "alive"
    BY <1>1, <1>2, <2>1, <2>2, <2>12 DEF Hand, LaunchSteps, ownsLiveProcess, IdleRequest
  <2>13. CASE request'[h].launch = l /\ op = "closing" /\ request'[h].op = "clearing"
    BY <1>1, <1>2, <2>1, <2>2, <2>13 DEF Hand, LaunchSteps, ownsLiveProcess, IdleRequest
  <2> QED BY <2>1, <2>6, <2>7, <2>8, <2>9, <2>10, <2>11, <2>12, <2>13 DEF RequestMove
<1>6. ASSUME Tracked
      PROVE  Tracked'
  <2> SUFFICES ASSUME NEW l \in Launches, browser'[l] = "alive"
               PROVE  LET h == launch[l].host
                      IN /\ up'[h]
                         /\ \/ /\ request'[h].op \in {"started", "registered", "aborting"}
                               /\ request'[h].launch = l
                            \/ /\ processes[h][launch[l].container] = l
                               /\ watch'[l] = "waiting"
    BY <1>1 DEF Tracked
  <2> DEFINE h == launch[l].host
  <2>1. browser[l] = "alive" /\ h \in Hosts
    BY <1>0, <1>2 DEF UnreservedIdle
  <2>2. up[h] /\ up'[h] /\ RequestMove(h)
    BY <1>6, <2>1 DEF Tracked, Moves
  <2>3. CASE processes[h][launch[l].container] = l /\ watch[l] = "waiting"
    BY <1>2, <2>2, <2>3
  <2>4. CASE /\ request[h].op \in {"started", "registered", "aborting"}
             /\ request[h].launch = l
    BY <2>2, <2>4 DEF RequestMove
  <2> QED BY <1>6, <2>1, <2>3, <2>4 DEF Tracked
<1> QED BY <1>3, <1>4, <1>5, <1>6 DEF Reach

-----------------------------------------------------------------------------
(* Steps that reserve, start, register, commit or lose a launch *)

LEMMA ReserveKeepsReach ==
  ASSUME Requests, Reach, NEW h \in Hosts, NEW c \in Containers, NEW l \in Launches,
         NEW a \in AutomationInputs, NEW outcome \in Outcomes,
         Reserve(h, c, l, a, outcome)
  PROVE  Reach'
<1> DEFINE attempt == [host |-> h, container |-> c, automation |-> a]
<1>0. /\ TypeOK /\ LaunchInHand
      /\ UnreservedIdle /\ InHand /\ MapsStarted
  BY DEF Requests, Reach
<1>1. /\ UNCHANGED <<browser, up, processes, watch>>
      /\ launch[l] = NoAttempt
      /\ launch' = [launch EXCEPT ![l] = attempt]
      /\ up[h] /\ request[h] = IdleRequest /\ ~ownsLiveProcess(h, c)
      /\ \/ request' = request
         \/ request' = [request EXCEPT ![h] = [IdleRequest EXCEPT !.op = "reserved",
                                                                  !.launch = l]]
  BY DEF Reserve, Idle
<1>2. browser[l] = "none" /\ watch[l] = "none" /\ launch[l].host \notin Hosts
  BY <1>0, <1>1, NoneAssumption DEF UnreservedIdle, NoAttempt
<1>3. /\ launch'[l].host = h /\ launch'[l].container = c
      /\ \A m \in Launches : m /= l => launch'[m] = launch[m]
  BY <1>0, <1>1 DEF TypeOK
<1>4. UnreservedIdle'
  BY <1>0, <1>1, <1>3 DEF UnreservedIdle
<1>5. MapsStarted'
  BY <1>0, <1>1 DEF MapsStarted
<1>6. ASSUME NEW g \in Hosts
      PROVE  Hand(g)'
  <2>1. CASE request'[g] = request[g]
    <3>1. request[g].op \in LaunchSteps =>
            launch'[request[g].launch] = launch[request[g].launch]
      BY <1>0, <1>2, <1>3 DEF LaunchInHand
    <3>2. Hand(g)
      BY <1>0 DEF InHand
    <3>3. request[g].op \in LaunchSteps => launch[request[g].launch].container \in Containers
      BY <1>0 DEF LaunchInHand
    <3> QED BY <1>1, <2>1, <3>1, <3>2, <3>3, HandKept DEF ownsLiveProcess
  <2>2. CASE /\ g = h
             /\ request'[g] = [IdleRequest EXCEPT !.op = "reserved", !.launch = l]
    <3>1. request'[g].op = "reserved" /\ request'[g].launch = l
      BY <2>2 DEF IdleRequest
    <3> QED BY <1>1, <1>2, <1>3, <2>2, <3>1 DEF Hand, ownsLiveProcess, LaunchSteps
  <2> QED BY <1>0, <1>1, <2>1, <2>2 DEF TypeOK
<1>7. ASSUME Tracked
      PROVE  Tracked'
  <2> SUFFICES ASSUME NEW m \in Launches, browser'[m] = "alive"
               PROVE  LET g == launch'[m].host
                      IN /\ up'[g]
                         /\ \/ /\ request'[g].op \in {"started", "registered", "aborting"}
                               /\ request'[g].launch = m
                            \/ /\ processes'[g][launch'[m].container] = m
                               /\ watch'[m] = "waiting"
    BY DEF Tracked
  <2>1. browser[m] = "alive" /\ m /= l /\ launch'[m] = launch[m] /\ launch[m].host \in Hosts
    BY <1>0, <1>1, <1>2, <1>3 DEF UnreservedIdle
  <2>2. request[launch[m].host].op \in {"started", "registered", "aborting"} =>
          request'[launch[m].host] = request[launch[m].host]
    BY <1>0, <1>1, <2>1 DEF TypeOK, IdleRequest
  <2> QED BY <1>1, <1>7, <2>1, <2>2 DEF Tracked
<1> QED BY <1>4, <1>5, <1>6, <1>7 DEF Reach, InHand

\* The host that has this attempt in hand is the one that reserved it.
LEMMA OtherHands ==
  ASSUME LaunchInHand, NEW h \in Hosts, NEW g \in Hosts, g /= h,
         request[h].op \in LaunchSteps, request[g].op \in LaunchSteps
  PROVE  request[g].launch /= request[h].launch
BY DEF LaunchInHand

LEMMA StartKeepsReach ==
  ASSUME Requests, Reach, NEW h \in Hosts, StartBrowser(h)
  PROVE  Reach'
<1> DEFINE l == request[h].launch
<1>0. /\ TypeOK /\ LaunchInHand
      /\ UnreservedIdle /\ InHand /\ MapsStarted
  BY DEF Requests, Reach
<1>1. /\ UNCHANGED <<launch, up, processes, watch>>
      /\ up[h] /\ request[h].op = "prepared"
      /\ Step(h, "started")
      /\ \E b \in {"exited", "alive"} : browser' = [browser EXCEPT ![l] = b]
  BY DEF StartBrowser, Handling
<1>2. /\ l \in Launches /\ launch[l].host = h /\ launch[l].container \in Containers
      /\ browser[l] = "none" /\ watch[l] = "none"
      /\ ~ownsLiveProcess(h, launch[l].container)
  BY <1>0, <1>1 DEF LaunchInHand, InHand, Hand, LaunchSteps
<1>3. /\ browser'[l] \in {"exited", "alive"}
      /\ \A m \in Launches : m /= l => browser'[m] = browser[m]
  BY <1>0, <1>1, <1>2 DEF TypeOK
<1>4. /\ request'[h].op = "started" /\ request'[h].launch = l
      /\ \A g \in Hosts : g /= h => request'[g] = request[g]
  BY <1>0, <1>1 DEF Step, TypeOK, Request
<1>5. UnreservedIdle'
  BY <1>0, <1>1, <1>2, <1>3 DEF UnreservedIdle
<1>6. ASSUME NEW g \in Hosts, NEW c \in Containers, processes[g][c] /= None
      PROVE  processes[g][c] \in Launches /\ browser'[processes[g][c]] = browser[processes[g][c]]
  BY <1>0, <1>2, <1>3, <1>6 DEF TypeOK, LaunchOrNone, MapsStarted
<1>7. MapsStarted'
  BY <1>0, <1>1, <1>2, <1>3, <1>6 DEF MapsStarted
<1> HIDE DEF l
<1>8. ASSUME NEW g \in Hosts
      PROVE  Hand(g)'
  <2>1. CASE g = h
    <3>1. watch'[l] = "none" /\ browser'[l] /= "none" /\ up'[h]
      BY <1>1, <1>2, <1>3
    <3>2. ~ownsLiveProcess(h, launch[request[h].launch].container)'
      BY <1>1, <1>2, <1>4, <1>6 DEF ownsLiveProcess
    <3> QED BY <1>4, <2>1, <3>1, <3>2 DEF Hand, LaunchSteps
  <2>2. CASE g /= h
    <3>1. /\ Hand(g) /\ request'[g] = request[g]
          /\ request[g].op \in LaunchSteps =>
               request[g].launch \in Launches /\ launch[request[g].launch].container \in Containers
      BY <1>0, <1>4, <2>2 DEF InHand, LaunchInHand
    <3>2. request[g].op \in LaunchSteps \cup {"closing", "clearing"} =>
            request[g].launch \in Launches /\ request[g].launch /= l
      BY <1>0, <1>1, <1>2, <2>2, <3>1, OtherHands DEF l, Hand, LaunchSteps
    <3>3. \A d \in Containers : ~ownsLiveProcess(g, d) => ~ownsLiveProcess(g, d)'
      BY <1>1, <1>6 DEF ownsLiveProcess
    <3>4. request[g].op \in LaunchSteps \cup {"closing", "clearing"} =>
            browser'[request[g].launch] = browser[request[g].launch]
      BY <1>3, <3>1, <3>2
    <3> QED BY <1>1, <3>1, <3>3, <3>4, HandKept
  <2> QED BY <2>1, <2>2
<1>9. ASSUME Tracked
      PROVE  Tracked'
  <2> SUFFICES ASSUME NEW m \in Launches, browser'[m] = "alive"
               PROVE  LET g == launch'[m].host
                      IN /\ up'[g]
                         /\ \/ /\ request'[g].op \in {"started", "registered", "aborting"}
                               /\ request'[g].launch = m
                            \/ /\ processes'[g][launch'[m].container] = m
                               /\ watch'[m] = "waiting"
    BY DEF Tracked
  <2>1. CASE m = l
    BY <1>1, <1>2, <1>4, <2>1
  <2>2. CASE m /= l
    <3>1. browser[m] = "alive" /\ launch[m].host \in Hosts
      BY <1>0, <1>3, <2>2 DEF UnreservedIdle
    <3> QED BY <1>1, <1>4, <1>9, <3>1 DEF Tracked
  <2> QED BY <2>1, <2>2
<1> QED BY <1>5, <1>7, <1>8, <1>9 DEF Reach, InHand

LEMMA RegisterKeepsReach ==
  ASSUME Requests, Reach, NEW h \in Hosts, RegisterProcess(h)
  PROVE  Reach'
<1> DEFINE l == request[h].launch
           c == launch[l].container
<1>0. /\ TypeOK /\ LaunchInHand
      /\ UnreservedIdle /\ InHand /\ MapsStarted
  BY DEF Requests, Reach
<1>1. /\ UNCHANGED <<launch, browser, up, watch>>
      /\ up[h] /\ request[h].op = "started"
      /\ Step(h, "registered")
      /\ processes' = [processes EXCEPT ![h][c] = l]
  BY DEF RegisterProcess, Handling, diskVars
<1>2. /\ l \in Launches /\ launch[l].host = h /\ c \in Containers
      /\ browser[l] /= "none" /\ watch[l] = "none" /\ ~ownsLiveProcess(h, c)
  BY <1>0, <1>1 DEF LaunchInHand, InHand, Hand, LaunchSteps
<1>3. \A g \in Hosts, d \in Containers :
        processes'[g][d] = IF g = h /\ d = c THEN l ELSE processes[g][d]
  BY <1>0, <1>1, <1>2 DEF TypeOK
<1>4. /\ request'[h].op = "registered" /\ request'[h].launch = l
      /\ \A g \in Hosts : g /= h => request'[g] = request[g]
  BY <1>0, <1>1 DEF Step, TypeOK, Request
<1> HIDE DEF l, c
<1>5. UnreservedIdle'
  BY <1>0, <1>1 DEF UnreservedIdle
<1>6. MapsStarted'
  BY <1>0, <1>1, <1>2, <1>3 DEF MapsStarted
<1>7. ASSUME NEW g \in Hosts
      PROVE  Hand(g)'
  <2>1. CASE g = h
    BY <1>1, <1>2, <1>3, <1>4, <2>1 DEF Hand, LaunchSteps, c
  <2>2. CASE g /= h
    <3>1. /\ Hand(g) /\ request'[g] = request[g]
          /\ request[g].op \in LaunchSteps => launch[request[g].launch].container \in Containers
      BY <1>0, <1>4, <2>2 DEF InHand, LaunchInHand
    <3>2. \A d \in Containers : processes'[g][d] = processes[g][d]
      BY <1>3, <2>2
    <3>3. \A d \in Containers : ~ownsLiveProcess(g, d) => ~ownsLiveProcess(g, d)'
      BY <1>1, <3>2 DEF ownsLiveProcess
    <3> QED BY <1>1, <3>1, <3>2, <3>3, HandKept DEF LaunchSteps
  <2> QED BY <2>1, <2>2
<1>8. ASSUME Tracked
      PROVE  Tracked'
  <2> SUFFICES ASSUME NEW m \in Launches, browser[m] = "alive"
               PROVE  LET g == launch[m].host
                      IN /\ up[g]
                         /\ \/ /\ request'[g].op \in {"started", "registered", "aborting"}
                               /\ request'[g].launch = m
                            \/ /\ processes'[g][launch[m].container] = m
                               /\ watch[m] = "waiting"
    BY <1>1 DEF Tracked
  <2>1. CASE m = l
    BY <1>1, <1>2, <1>4, <2>1
  <2>2. CASE m /= l
    <3>1. launch[m].host \in Hosts /\ up[launch[m].host]
      BY <1>0, <1>8 DEF UnreservedIdle, Tracked
    <3>2. launch[m] \in Attempt
      BY <1>0 DEF TypeOK
    <3>3. CASE launch[m].host /= h
      <4>1. processes'[launch[m].host] = processes[launch[m].host]
        BY <1>0, <1>1, <3>1, <3>3 DEF TypeOK
      <4> QED BY <1>4, <1>8, <3>1, <3>3, <4>1 DEF Tracked
    <3>4. CASE launch[m].host = h
      <4>1. processes[h][launch[m].container] = m /\ watch[m] = "waiting" /\ up[h]
        BY <1>1, <1>8, <2>2, <3>4 DEF Tracked, l
      <4>2. launch[m].container /= c
        BY <1>2, <4>1, NoneAssumption DEF ownsLiveProcess
      <4>3. processes'[h][launch[m].container] = processes[h][launch[m].container]
        BY <1>0, <1>1, <4>2 DEF TypeOK
      <4> QED BY <3>4, <4>1, <4>3
    <3> QED BY <3>3, <3>4
  <2> QED BY <2>1, <2>2
<1> QED BY <1>5, <1>6, <1>7, <1>8 DEF Reach, InHand

LEMMA CommitKeepsReach ==
  ASSUME Requests, Reach, NEW h \in Hosts, CommitLaunch(h)
  PROVE  Reach'
<1> DEFINE l == request[h].launch
           c == launch[l].container
<1>0. /\ TypeOK /\ LaunchInHand
      /\ UnreservedIdle /\ InHand /\ MapsStarted
  BY DEF Requests, Reach
<1>1. /\ UNCHANGED <<launch, browser, up, processes>>
      /\ up[h] /\ request[h].op = "registered"
      /\ Respond(h)
      /\ watch' = [watch EXCEPT ![l] = "waiting"]
  BY DEF CommitLaunch, Handling, diskVars
<1>2. /\ l \in Launches /\ launch[l].host = h /\ c \in Containers
      /\ browser[l] /= "none" /\ watch[l] = "none" /\ processes[h][c] = l
  BY <1>0, <1>1 DEF LaunchInHand, InHand, Hand, LaunchSteps
<1>3. \A m \in Launches : watch'[m] = IF m = l THEN "waiting" ELSE watch[m]
  BY <1>0, <1>1, <1>2 DEF TypeOK
<1>4. /\ request'[h] = IdleRequest
      /\ \A g \in Hosts : g /= h => request'[g] = request[g]
  BY <1>0, <1>1 DEF Respond, TypeOK
<1>5. UnreservedIdle'
  BY <1>0, <1>1, <1>2, <1>3 DEF UnreservedIdle
<1>6. MapsStarted'
  BY <1>0, <1>1, <1>3 DEF MapsStarted
<1> HIDE DEF l, c
<1>7. ASSUME NEW g \in Hosts
      PROVE  Hand(g)'
  <2>1. CASE g = h
    BY <1>4, <2>1 DEF Hand, IdleRequest, LaunchSteps
  <2>2. CASE g /= h
    <3>1. Hand(g) /\ request'[g] = request[g]
      BY <1>0, <1>4, <2>2 DEF InHand
    <3>2. request[g].op \in LaunchSteps =>
            request[g].launch \in Launches /\ request[g].launch /= l
      BY <1>0, <1>1, <2>2, OtherHands DEF LaunchInHand, l, LaunchSteps
    <3> QED BY <1>1, <1>3, <3>1, <3>2 DEF Hand, ownsLiveProcess, LaunchSteps
  <2> QED BY <2>1, <2>2
<1>8. ASSUME Tracked
      PROVE  Tracked'
  <2> SUFFICES ASSUME NEW m \in Launches, browser[m] = "alive"
               PROVE  LET g == launch[m].host
                      IN /\ up[g]
                         /\ \/ /\ request'[g].op \in {"started", "registered", "aborting"}
                               /\ request'[g].launch = m
                            \/ /\ processes[g][launch[m].container] = m
                               /\ watch'[m] = "waiting"
    BY <1>1 DEF Tracked
  <2>1. CASE m = l
    BY <1>1, <1>2, <1>3, <2>1 DEF c
  <2>2. CASE m /= l
    <3>1. launch[m].host \in Hosts
      BY <1>0 DEF UnreservedIdle
    <3> QED BY <1>3, <1>4, <1>8, <2>2, <3>1 DEF Tracked, l
  <2> QED BY <2>1, <2>2
<1> QED BY <1>5, <1>6, <1>7, <1>8 DEF Reach, InHand

\* The map no longer holds the launch that is about to be aborted.
LEMMA LoseKeepsReach ==
  ASSUME Requests, Reach, NEW h \in Hosts, NEW outcome \in Outcomes,
         LoseLaunch(h, outcome)
  PROVE  Reach'
<1> DEFINE l == request[h].launch
           c == launch[l].container
<1>0. /\ TypeOK /\ LaunchInHand
      /\ UnreservedIdle /\ InHand /\ MapsStarted
  BY DEF Requests, Reach
<1>1. /\ UNCHANGED <<launch, browser, up, watch>>
      /\ up[h] /\ request[h].op = "registered"
      /\ Step(h, "aborting")
      /\ processes' = IF processes[h][c] = l
                      THEN [processes EXCEPT ![h][c] = None] ELSE processes
  BY DEF LoseLaunch, Handling, diskVars
<1>2. /\ l \in Launches /\ launch[l].host = h /\ c \in Containers
      /\ browser[l] /= "none" /\ watch[l] = "none"
  BY <1>0, <1>1 DEF LaunchInHand, InHand, Hand, LaunchSteps
<1>3. \A g \in Hosts, d \in Containers :
        /\ processes'[g][d] \in {processes[g][d], None}
        /\ g /= h => processes'[g] = processes[g]
        /\ processes[g][d] /= l => processes'[g][d] = processes[g][d]
  BY <1>0, <1>1, <1>2 DEF TypeOK
<1>4. /\ request'[h].op = "aborting" /\ request'[h].launch = l
      /\ \A g \in Hosts : g /= h => request'[g] = request[g]
  BY <1>0, <1>1 DEF Step, TypeOK, Request
<1> HIDE DEF l, c
<1>5. UnreservedIdle'
  BY <1>0, <1>1 DEF UnreservedIdle
<1>6. MapsStarted'
  BY <1>0, <1>1, <1>3 DEF MapsStarted
<1>7. ASSUME NEW g \in Hosts
      PROVE  Hand(g)'
  <2>1. CASE g = h
    BY <1>1, <1>2, <1>4, <2>1 DEF Hand, LaunchSteps
  <2>2. CASE g /= h
    <3>1. /\ Hand(g) /\ request'[g] = request[g] /\ processes'[g] = processes[g]
          /\ request[g].op \in LaunchSteps => launch[request[g].launch].container \in Containers
      BY <1>0, <1>2, <1>3, <1>4, <2>2 DEF InHand, LaunchInHand
    <3> QED BY <1>1, <3>1 DEF Hand, ownsLiveProcess, LaunchSteps
  <2> QED BY <2>1, <2>2
<1>8. ASSUME Tracked
      PROVE  Tracked'
  <2> SUFFICES ASSUME NEW m \in Launches, browser[m] = "alive"
               PROVE  LET g == launch[m].host
                      IN /\ up[g]
                         /\ \/ /\ request'[g].op \in {"started", "registered", "aborting"}
                               /\ request'[g].launch = m
                            \/ /\ processes'[g][launch[m].container] = m
                               /\ watch[m] = "waiting"
    BY <1>1 DEF Tracked
  <2>1. CASE m = l
    BY <1>1, <1>2, <1>4, <2>1
  <2>2. CASE m /= l
    <3>1. launch[m].host \in Hosts /\ launch[m] \in Attempt
      BY <1>0 DEF UnreservedIdle, TypeOK
    <3>2. processes[launch[m].host][launch[m].container] = m =>
            processes'[launch[m].host][launch[m].container] = m
      BY <1>0, <1>1, <2>2, <3>1 DEF TypeOK, l
    <3> QED BY <1>1, <1>4, <1>8, <2>2, <3>1, <3>2 DEF Tracked, l
  <2> QED BY <2>1, <2>2
<1> QED BY <1>5, <1>6, <1>7, <1>8 DEF Reach, InHand

-----------------------------------------------------------------------------
(* The watcher that takes its process from the map, and the end of a host *)

LEMMA WatchReturnsKeepsReach ==
  ASSUME Requests, Reach, NEW l \in Launches, WatchReturns(l)
  PROVE  Reach'
<1> DEFINE h == launch[l].host
           c == launch[l].container
<1>0. /\ TypeOK /\ LaunchInHand
      /\ UnreservedIdle /\ InHand /\ MapsStarted
  BY DEF Requests, Reach
<1>1. /\ UNCHANGED <<launch, browser, up, request>>
      /\ watch[l] = "waiting" /\ browser[l] = "exited"
      /\ processes' = IF processes[h][c] = l
                      THEN [processes EXCEPT ![h][c] = None] ELSE processes
      /\ \E w \in {"stopping", "done"} : watch' = [watch EXCEPT ![l] = w]
  BY DEF WatchReturns, Watching
<1>2. \A m \in Launches : /\ m /= l => watch'[m] = watch[m]
                          /\ watch'[l] \in {"stopping", "done"}
  BY <1>0, <1>1 DEF TypeOK
<1>3. \A g \in Hosts, d \in Containers :
        /\ processes'[g][d] \in {processes[g][d], None}
        /\ processes[g][d] /= l => processes'[g][d] = processes[g][d]
  BY <1>0, <1>1 DEF TypeOK
<1>4. UnreservedIdle'
  BY <1>0, <1>1, <1>2 DEF UnreservedIdle
<1>5. MapsStarted'
  BY <1>0, <1>1, <1>2, <1>3 DEF MapsStarted
<1>6. ASSUME NEW g \in Hosts
      PROVE  Hand(g)'
  <2>1. /\ Hand(g)
        /\ request[g].op \in LaunchSteps =>
             /\ launch[request[g].launch].container \in Containers
             /\ request[g].launch \in Launches
    BY <1>0 DEF InHand, LaunchInHand
  <2>2. request[g].op \in LaunchSteps => request[g].launch /= l
    BY <1>1, <2>1 DEF Hand
  <2>3. \A d \in Containers : ~ownsLiveProcess(g, d) => ~ownsLiveProcess(g, d)'
    BY <1>1, <1>3 DEF ownsLiveProcess
  <2>4. request[g].op \in LaunchSteps => watch'[request[g].launch] = "none"
    BY <1>2, <2>1, <2>2 DEF Hand
  <2>5. request[g].op = "registered" =>
          processes'[g][launch[request[g].launch].container] = request[g].launch
    BY <1>3, <2>1, <2>2 DEF Hand, LaunchSteps
  <2>6. request[g].op \in {"reserved", "prepared", "started"} =>
          ~ownsLiveProcess(g, launch[request[g].launch].container)'
    BY <1>1, <2>1, <2>3 DEF Hand, LaunchSteps
  <2> QED BY <1>1, <2>1, <2>4, <2>5, <2>6 DEF Hand
<1>7. ASSUME Tracked
      PROVE  Tracked'
  <2> SUFFICES ASSUME NEW m \in Launches, browser[m] = "alive"
               PROVE  LET g == launch[m].host
                      IN /\ up[g]
                         /\ \/ /\ request[g].op \in {"started", "registered", "aborting"}
                               /\ request[g].launch = m
                            \/ /\ processes'[g][launch[m].container] = m
                               /\ watch'[m] = "waiting"
    BY <1>1 DEF Tracked
  <2>1. m /= l /\ watch'[m] = watch[m]
    BY <1>1, <1>2
  <2>2. processes[launch[m].host][launch[m].container] = m =>
          processes'[launch[m].host][launch[m].container] = m
    <3>1. launch[m].host \in Hosts
      BY <1>0 DEF UnreservedIdle
    <3> QED BY <1>0, <1>1, <2>1, <3>1 DEF TypeOK
  <2> QED BY <1>7, <2>1, <2>2 DEF Tracked
<1> QED BY <1>4, <1>5, <1>6, <1>7 DEF Reach, InHand

LEMMA HostExitKeepsReach ==
  ASSUME Requests, Reach, NEW h \in Hosts, HostExit(h)
  PROVE  Reach'
<1>0. /\ TypeOK /\ LaunchInHand
      /\ UnreservedIdle /\ InHand /\ MapsStarted
  BY DEF Requests, Reach
<1>1. /\ launch' = launch
      /\ up' = [up EXCEPT ![h] = FALSE]
      /\ processes' = [processes EXCEPT ![h] = [c \in Containers |-> None]]
      /\ Respond(h)
      /\ "exit" \in FaultKinds
  BY DEF HostExit, Fault, May
<1>2. ASSUME NEW m \in Launches
      PROVE  /\ watch'[m] = IF launch[m].host = h /\ watch[m] /= "none"
                            THEN "done" ELSE watch[m]
             /\ browser'[m] = IF launch[m].host = h /\ KillOnExit /\ browser[m] = "alive"
                              THEN "exited" ELSE browser[m]
  BY <1>0 DEF HostExit, TypeOK
<1>3. /\ request'[h] = IdleRequest /\ up'[h] = FALSE
      /\ \A g \in Hosts : g /= h =>
           request'[g] = request[g] /\ up'[g] = up[g] /\ processes'[g] = processes[g]
      /\ \A c \in Containers : processes'[h][c] = None
  BY <1>0, <1>1 DEF Respond, TypeOK
<1>4. UnreservedIdle'
  BY <1>0, <1>1, <1>2 DEF UnreservedIdle
<1>5. \A g \in Hosts, c \in Containers :
        processes[g][c] /= None => processes[g][c] \in Launches
  BY <1>0 DEF TypeOK, LaunchOrNone
<1>6. MapsStarted'
  <2>1. ASSUME NEW g \in Hosts, NEW c \in Containers, processes'[g][c] /= None
        PROVE  browser'[processes'[g][c]] /= "none"
    <3>1. g /= h /\ processes'[g][c] = processes[g][c]
      BY <1>3, <2>1
    <3> QED BY <1>0, <1>2, <1>5, <2>1, <3>1 DEF MapsStarted
  <2>2. ASSUME NEW m \in Launches, watch'[m] \in {"stopping", "deleting"}
        PROVE  browser'[m] = "exited"
    BY <1>0, <1>2, <2>2 DEF MapsStarted
  <2> QED BY <2>1, <2>2 DEF MapsStarted
<1>7. ASSUME NEW g \in Hosts
      PROVE  Hand(g)'
  <2>1. CASE g = h
    BY <1>3, <2>1 DEF Hand, IdleRequest, LaunchSteps
  <2>2. CASE g /= h
    <3>1. /\ Hand(g) /\ request'[g] = request[g] /\ up'[g] = up[g]
          /\ processes'[g] = processes[g]
          /\ request[g].op \in LaunchSteps =>
               /\ launch[request[g].launch].container \in Containers
               /\ request[g].launch \in Launches
      BY <1>0, <1>3, <2>2 DEF InHand, LaunchInHand
    <3>2. \A c \in Containers : ~ownsLiveProcess(g, c) =>
            processes'[g][c] = None \/ browser'[processes'[g][c]] /= "alive"
      BY <1>2, <1>5, <3>1 DEF ownsLiveProcess
    <3> QED BY ZenonT(60), <1>1, <1>2, <3>1, <3>2 DEF Hand, ownsLiveProcess, LaunchSteps
  <2> QED BY <2>1, <2>2
<1>8. ASSUME BrowsersEndWithHost, Tracked
      PROVE  Tracked'
  <2> SUFFICES ASSUME NEW m \in Launches, browser'[m] = "alive"
               PROVE  LET g == launch'[m].host
                      IN /\ up'[g]
                         /\ \/ /\ request'[g].op \in {"started", "registered", "aborting"}
                               /\ request'[g].launch = m
                            \/ /\ processes'[g][launch'[m].container] = m
                               /\ watch'[m] = "waiting"
    BY DEF Tracked
  <2>1. /\ browser[m] = "alive" /\ launch[m].host \in Hosts /\ launch[m].host /= h
        /\ watch'[m] = watch[m]
    BY <1>0, <1>1, <1>2, <1>8 DEF UnreservedIdle, BrowsersEndWithHost
  <2> QED BY <1>1, <1>3, <1>8, <2>1 DEF Tracked
<1> QED BY <1>4, <1>6, <1>7, <1>8 DEF Reach, InHand

-----------------------------------------------------------------------------
(* Every other step is one of Moves *)

\* A step that ends a browser touches no other one.
LEMMA KillMoves ==
  ASSUME TypeOK, NEW l \in Launches, NEW leftover, Kill(l, leftover),
         browser[l] /= "none"
  PROVE  /\ \A m \in Launches : \/ browser'[m] = browser[m]
                                \/ browser[m] /= "none" /\ browser'[m] = "exited"
         /\ browser'[l] = "exited"
BY DEF TypeOK, Kill

LEMMA QuietMoves ==
  ASSUME UNCHANGED <<launch, browser, processes, request, watch>>,
         \A h \in Hosts : up[h] => up'[h]
  PROVE  Moves
BY DEF Moves, RequestMove

LEMMA HostMoves ==
  ASSUME Requests, Reach, NEW h \in Hosts,
         \/ HostStart(h) \/ CreateStep(h) \/ CloseStep(h)
         \/ \E k \in Loops : SweepStep(h, k)
  PROVE  Moves
<1> USE DEF storeVars, diskVars, hostVars
<1>0. TypeOK /\ LaunchInHand /\ InHand
  BY DEF Requests, Reach
<1>1. CASE HostStart(h)
  <2>1. \A g \in Hosts : up[g] => up'[g]
    BY <1>0, <1>1 DEF HostStart, TypeOK
  <2> QED BY <1>1, <2>1, QuietMoves DEF HostStart
<1>2. CASE CreateStep(h)
  <2>1. /\ UNCHANGED <<launch, browser, up, processes, watch>>
        /\ up[h] /\ CreateMove(h)
    BY <1>2, CreateMoves DEF CreateStep, CreateRow, CreateRejected, UndoCreate
  <2>2. ASSUME NEW g \in Hosts
        PROVE  RequestMove(g)
    <3>1. CASE request[h].op \in CreateSteps /\ Respond(h)
      BY <1>0, <3>1 DEF RequestMove, CreateSteps, Respond, TypeOK
    <3>2. CASE request[h].op = "creating" /\ Step(h, "undoing")
      BY <1>0, <2>1, <3>2 DEF RequestMove, CreateSteps, Step, TypeOK, Request
    <3> QED BY <2>1, <3>1, <3>2 DEF CreateMove
  <2> QED BY <2>1, <2>2 DEF Moves
<1>3. CASE CloseStep(h)
  <2>1. CASE CloseFails(h) \/ CloseClear(h)
    <3>1. /\ UNCHANGED <<launch, browser, up, processes, watch>>
          /\ Respond(h) /\ request[h].op \in {"closing", "clearing"}
      BY <2>1 DEF CloseFails, CloseClear, Handling
    <3>2. ASSUME NEW g \in Hosts
          PROVE  RequestMove(g)
      BY <1>0, <3>1 DEF RequestMove, Respond, TypeOK
    <3> QED BY <3>1, <3>2 DEF Moves
  <2>2. ASSUME NEW leftover \in BOOLEAN, CloseTerminate(h, leftover)
        PROVE  Moves
    <3>1. /\ UNCHANGED <<launch, up, processes, watch>>
          /\ Step(h, "clearing") /\ request[h].op = "closing"
          /\ Kill(request[h].launch, leftover)
      BY <2>2 DEF CloseTerminate, Handling
    <3>2. request[h].launch \in Launches /\ browser[request[h].launch] /= "none"
      BY <1>0, <3>1 DEF InHand, Hand
    <3>3. ASSUME NEW g \in Hosts
          PROVE  RequestMove(g)
      <4>1. request'[g] = request[g] \/
              (g = h /\ request'[g].op = "clearing" /\ request'[g].launch = request[g].launch)
        BY <1>0, <3>1 DEF Step, TypeOK, Request
      <4> QED BY <3>1, <4>1 DEF RequestMove
    <3> QED BY <1>0, <3>1, <3>2, <3>3, KillMoves DEF Moves
  <2> QED BY <1>3, <2>1, <2>2 DEF CloseStep
<1>4. ASSUME NEW k \in Loops, SweepStep(h, k)
      PROVE  Moves
  BY <1>4, QuietMoves DEF SweepStep, SweepReconcile, SweepLoad, SweepFails, SweepDelete
<1> QED BY <1>1, <1>2, <1>3, <1>4

LEMMA NewRequestMoves ==
  ASSUME Requests, NEW h \in Hosts, NewRequest(h)
  PROVE  \/ Moves
         \/ \E c \in Containers, l \in Launches, a \in AutomationInputs,
               outcome \in Outcomes : Reserve(h, c, l, a, outcome)
<1> USE DEF storeVars, diskVars, hostVars
<1>0. TypeOK
  BY DEF Requests
<1>1. CASE List(h) \/ RequestCleanup(h)
  BY <1>1, QuietMoves DEF List, RequestCleanup
<1>2. ASSUME NEW c \in Containers, CreateProfile(h, c)
      PROVE  Moves
  <2>1. /\ UNCHANGED <<launch, browser, up, processes, watch>>
        /\ up[h] /\ request[h].op = "idle"
        /\ \A g \in Hosts : g /= h => request'[g] = request[g]
        /\ request'[h].op \in CreateSteps
    BY <1>0, <1>2 DEF CreateProfile, Idle, IdleRequest, CreateSteps, TypeOK
  <2> QED BY <2>1 DEF Moves, RequestMove
<1>3. ASSUME NEW c \in Containers, CloseBegin(h, c)
      PROVE  Moves
  <2>1. /\ UNCHANGED <<launch, browser, up, processes, watch>>
        /\ up[h] /\ request[h].op = "idle" /\ processes[h][c] /= None
        /\ \A g \in Hosts : g /= h => request'[g] = request[g]
        /\ request'[h].op = "closing" /\ request'[h].launch = processes[h][c]
    BY <1>0, <1>3 DEF CloseBegin, Idle, IdleRequest, TypeOK
  <2> QED BY <2>1 DEF Moves, RequestMove
<1>4. ASSUME NEW c \in Containers, NEW a \in AutomationInputs, Update(h, c, a)
      PROVE  Moves
  BY <1>4, QuietMoves DEF Update
<1>5. ASSUME NEW c \in Containers, NEW outcome \in Outcomes, Delete(h, c, outcome)
      PROVE  Moves
  BY <1>5, QuietMoves DEF Delete
<1> QED BY <1>1, <1>2, <1>3, <1>4, <1>5 DEF NewRequest

LEMMA LaunchMoves ==
  ASSUME Requests, Reach, NEW h \in Hosts, LaunchStep(h)
  PROVE  \/ Moves \/ StartBrowser(h) \/ RegisterProcess(h) \/ CommitLaunch(h)
         \/ \E outcome \in Outcomes : LoseLaunch(h, outcome)
<1> USE DEF storeVars, diskVars
<1> DEFINE l == request[h].launch
<1>0. TypeOK /\ LaunchInHand /\ InHand
  BY DEF Requests, Reach
<1>1. ASSUME PrepareProfile(h) \/ PrepareFails(h)
      PROVE  Moves
  <2>1. /\ UNCHANGED <<launch, browser, up, processes, watch>>
        /\ \/ request[h].op = "reserved" /\ Step(h, "prepared")
           \/ request[h].op \in {"reserved", "prepared"} /\ Step(h, "releasing")
    BY <1>1 DEF PrepareProfile, PrepareFails, Handling
  <2>2. ASSUME NEW g \in Hosts
        PROVE  RequestMove(g)
    <3>1. CASE g = h
      BY <1>0, <2>1, <3>1 DEF RequestMove, Step, TypeOK, Request
    <3>2. CASE g /= h
      BY <1>0, <2>1, <3>2 DEF RequestMove, Step, TypeOK
    <3> QED BY <3>1, <3>2
  <2> QED BY <2>1, <2>2 DEF Moves
<1>2. ASSUME NEW outcome \in Outcomes, Release(h, outcome)
      PROVE  Moves
  <2>1. /\ UNCHANGED <<launch, browser, up, processes, watch>>
        /\ request[h].op = "releasing" /\ Respond(h)
    BY <1>2 DEF Release, Handling
  <2>2. ASSUME NEW g \in Hosts
        PROVE  RequestMove(g)
    BY <1>0, <2>1 DEF RequestMove, Respond, TypeOK
  <2> QED BY <2>1, <2>2 DEF Moves
<1>3. ASSUME NEW leftover \in BOOLEAN,
             AutomationFails(h, leftover) \/ AbortLaunch(h, leftover)
      PROVE  Moves
  <2>1. /\ UNCHANGED <<launch, up, processes, watch>>
        /\ Kill(l, leftover)
        /\ \/ request[h].op = "started" /\ Step(h, "releasing")
           \/ request[h].op = "aborting" /\ Respond(h)
    BY <1>3 DEF AutomationFails, AbortLaunch, Handling
  <2>2. l \in Launches /\ browser[l] /= "none"
    BY <1>0, <2>1 DEF InHand, Hand, LaunchInHand, LaunchSteps
  <2>3. /\ \A m \in Launches : \/ browser'[m] = browser[m]
                               \/ browser[m] /= "none" /\ browser'[m] = "exited"
        /\ browser'[l] = "exited"
    BY <1>0, <2>1, <2>2, KillMoves
  <2>4. ASSUME NEW g \in Hosts
        PROVE  RequestMove(g)
    <3>1. CASE g = h
      BY <1>0, <2>1, <2>3, <3>1 DEF RequestMove, Step, Respond, TypeOK, Request
    <3>2. CASE g /= h
      BY <1>0, <2>1, <3>2 DEF RequestMove, Step, Respond, TypeOK
    <3> QED BY <3>1, <3>2
  <2> QED BY <2>1, <2>3, <2>4 DEF Moves
<1> QED BY <1>1, <1>2, <1>3 DEF LaunchStep

LEMMA WatchMoves ==
  ASSUME Requests, NEW l \in Launches, WatchStep(l) \/ BrowserStep(l)
  PROVE  Moves \/ WatchReturns(l)
<1> USE DEF storeVars, diskVars, hostVars
<1>0. TypeOK
  BY DEF Requests
<1>1. ASSUME NEW outcome \in Outcomes, WatchUpdate(l, outcome)
      PROVE  Moves
  BY <1>0, <1>1 DEF WatchUpdate, Watching, Moves, RequestMove, TypeOK
<1>2. ASSUME NEW outcome \in RemovalOutcomes, WatchDelete(l, outcome)
      PROVE  Moves
  BY <1>0, <1>2 DEF WatchDelete, Watching, Moves, RequestMove, TypeOK
<1>3. CASE BrowserOpens(l)
  BY <1>3, QuietMoves DEF BrowserOpens
<1>4. ASSUME NEW leftover \in BOOLEAN, BrowserExits(l, leftover)
      PROVE  Moves
  BY <1>0, <1>4, KillMoves DEF BrowserExits, Moves, RequestMove
<1> QED BY <1>1, <1>2, <1>3, <1>4 DEF WatchStep, BrowserStep

LEMMA ReachKept ==
  ASSUME Requests, Reach, Next
  PROVE  Reach'
<1>1. TypeOK /\ DrawnOnce /\ LaunchInHand
  BY DEF Requests
<1>2. Requests'
  BY <1>1, NextType, DrawnOnceKept, LaunchInHandKept DEF Requests
<1>3. ASSUME NEW h \in Hosts,
             \/ HostStart(h) \/ CreateStep(h) \/ CloseStep(h)
             \/ \E k \in Loops : SweepStep(h, k)
      PROVE  Reach'
  BY <1>2, <1>3, HostMoves, MovesKeepReach
<1>4. ASSUME NEW h \in Hosts, HostExit(h)
      PROVE  Reach'
  BY <1>4, HostExitKeepsReach
<1>5. ASSUME NEW h \in Hosts, NewRequest(h)
      PROVE  Reach'
  BY <1>2, <1>5, NewRequestMoves, MovesKeepReach, ReserveKeepsReach
<1>6. ASSUME NEW h \in Hosts, LaunchStep(h)
      PROVE  Reach'
  BY <1>2, <1>6, LaunchMoves, MovesKeepReach, StartKeepsReach, RegisterKeepsReach,
     CommitKeepsReach, LoseKeepsReach
<1>7. ASSUME NEW l \in Launches, WatchStep(l) \/ BrowserStep(l)
      PROVE  Reach'
  BY <1>2, <1>7, WatchMoves, MovesKeepReach, WatchReturnsKeepsReach
<1>8. ASSUME NEW c \in Containers, ReservationAges(c)
      PROVE  Reach'
  <2>1. Moves
    BY <1>8, QuietMoves DEF ReservationAges, hostVars
  <2> QED BY <1>2, <2>1, MovesKeepReach
<1> QED BY <1>3, <1>4, <1>5, <1>6, <1>7, <1>8 DEF Next

\* Each host knows the attempt it has in hand and what its map holds, whatever
\* the other hosts do: the inductive invariant about who has a browser in reach.
THEOREM ReachCorrect == Spec => [](Requests /\ Reach)
<1>1. Init => Reach
  BY DEF Init, Reach, UnreservedIdle, InHand, Hand, MapsStarted, Tracked, NoAttempt,
         IdleRequest, LaunchSteps
<1>2. Requests /\ Reach /\ [Next]_vars => Reach'
  <2> SUFFICES ASSUME Requests, Reach, [Next]_vars
               PROVE  Reach'
    OBVIOUS
  <2>1. CASE Next
    BY <2>1, ReachKept
  <2>2. CASE UNCHANGED vars
    <3>1. UnreservedIdle'
      BY <2>2 DEF vars, Reach, UnreservedIdle
    <3>2. ASSUME NEW h \in Hosts
          PROVE  Hand(h)'
      <4>1. Hand(h)
        BY DEF Reach, InHand
      <4> QED BY <2>2, <4>1 DEF vars, Hand, ownsLiveProcess
    <3>3. MapsStarted'
      BY <2>2 DEF vars, Reach, MapsStarted
    <3>4. Tracked => Tracked'
      BY <2>2 DEF vars, Tracked
    <3> QED BY <3>1, <3>2, <3>3, <3>4 DEF Reach, InHand
  <2> QED BY <2>1, <2>2
<1> QED BY <1>1, <1>2, RequestsCorrect, PTL DEF Spec

\* A browser whose host is still there is in the hands of the launch that is
\* starting or aborting it, or close_container finds it in Host.processes and it
\* is watched: no failed commit, lost reservation or second launch orphans it.
\* On Windows, or as long as no host ends; elsewhere browsers outlive their host.
THEOREM BrowsersTracked == BrowsersEndWithHost => (Spec => []NoUntrackedBrowser)
<1> SUFFICES ASSUME BrowsersEndWithHost
             PROVE  Spec => []NoUntrackedBrowser
  OBVIOUS
<1>1. Requests /\ Reach => NoUntrackedBrowser
  BY DEF Reach, Tracked, NoUntrackedBrowser
<1> QED BY <1>1, ReachCorrect, PTL

-----------------------------------------------------------------------------
(* What one step does to the directory of a container and to its marker *)

MarkerStep(c) ==
  \/ marker'[c] = marker[c]
  \/ Creating(c)
  \/ ~ProfileInUse(c)
  \/ browser[marker[c]] /= "alive" \/ browser'[marker[c]] /= "alive"

ProfileStep(c) ==
  \/ profile'[c] = profile[c]
  \/ profile'[c] = FALSE /\ (Creating(c) \/ ~ProfileInUse(c))
  \/ profile'[c] /\ Creating(c)'
  \/ /\ profile'[c] /\ row' = row
     /\ \E h \in Hosts : /\ request[h].op \in {"reserved", "prepared"}
                         /\ launch[request[h].launch].container = c

LEMMA RemoveProfileStep ==
  ASSUME TypeOK, NEW c \in Containers, NEW d, RemoveProfile(d),
         c = d => Creating(c) \/ ~ProfileInUse(c)
  PROVE  MarkerStep(c) /\ ProfileStep(c)
<1>1. CASE c = d
  BY <1>1 DEF RemoveProfile, TypeOK, MarkerStep, ProfileStep
<1>2. CASE c /= d
  BY <1>2 DEF RemoveProfile, TypeOK, MarkerStep, ProfileStep
<1> QED BY <1>1, <1>2

LEMMA KillMarker ==
  ASSUME TypeOK, NEW c \in Containers, NEW l \in Launches, NEW leftover,
         Kill(l, leftover), profile' = profile
  PROVE  MarkerStep(c) /\ ProfileStep(c)
<1>1. browser'[l] = "exited"
  BY DEF TypeOK, Kill
<1>2. marker'[c] = marker[c] \/ marker[c] = l
  BY DEF TypeOK, Kill
<1> QED BY <1>1, <1>2 DEF MarkerStep, ProfileStep

LEMMA DiskSteps ==
  ASSUME Requests, Reach, Next, NEW c \in Containers
  PROVE  MarkerStep(c) /\ ProfileStep(c)
<1> USE DEF storeVars, diskVars, hostVars
<1> DEFINE Goal == MarkerStep(c) /\ ProfileStep(c)
<1>0. TypeOK /\ LaunchInHand /\ InHand
  BY DEF Requests, Reach
<1>1. ASSUME UNCHANGED diskVars
      PROVE  Goal
  BY <1>1 DEF MarkerStep, ProfileStep
<1>2. ASSUME NEW d, NEW outcome, deleteTemporary(d, outcome)
      PROVE  Goal
  BY <1>0, <1>1, <1>2, RemoveProfileStep DEF deleteTemporary
<1>3. ASSUME NEW h \in Hosts, HostStart(h)
      PROVE  Goal
  BY <1>1, <1>3 DEF HostStart
<1>4. ASSUME NEW h \in Hosts, HostExit(h)
      PROVE  Goal
  <2>1. profile' = profile
    BY <1>4 DEF HostExit
  <2>2. marker'[c] = marker[c] \/ browser'[marker[c]] = "exited"
    BY <1>4 DEF HostExit
  <2> QED BY <2>1, <2>2 DEF MarkerStep, ProfileStep
<1>5. ASSUME NEW h \in Hosts, NewRequest(h)
      PROVE  Goal
  <2>1. ASSUME NEW d \in Containers, CreateProfile(h, d)
        PROVE  Goal
    <3>1. marker' = marker /\ profile' = [profile EXCEPT ![d] = TRUE]
      BY <2>1 DEF CreateProfile
    <3>2. request'[h].op = "creating" /\ request'[h].container = d
      BY <1>0, <2>1 DEF CreateProfile, IdleRequest, TypeOK
    <3>3. profile'[c] = profile[c] \/ (c = d /\ profile'[c])
      BY <1>0, <3>1 DEF TypeOK
    <3> QED BY <3>1, <3>2, <3>3 DEF MarkerStep, ProfileStep, Creating, CreateSteps
  <2>2. ASSUME NEW d \in Containers, NEW outcome \in Outcomes, Delete(h, d, outcome)
        PROVE  Goal
    BY <1>0, <2>2, RemoveProfileStep DEF Delete
  <2>3. CASE UNCHANGED diskVars
    BY <1>1, <2>3
  <2> HIDE DEF Goal
  <2> QED BY ZenonT(60), <1>5, <2>1, <2>2, <2>3 DEF NewRequest, List, RequestCleanup, CloseBegin,
                                        Update, Reserve
<1>6. ASSUME NEW h \in Hosts, CreateStep(h)
      PROVE  Goal
  <2>1. UNCHANGED diskVars \/ RemoveProfile(request[h].container)
    BY <1>6 DEF CreateStep, CreateRow, CreateRejected, UndoCreate
  <2>2. request[h].op \in CreateSteps
    BY <1>6, CreateMoves DEF CreateMove, CreateSteps
  <2> QED BY <1>0, <1>1, <2>1, <2>2, RemoveProfileStep DEF Creating
<1>7. ASSUME NEW h \in Hosts, LaunchStep(h)
      PROVE  Goal
  <2> DEFINE l == request[h].launch
  <2>1. CASE PrepareProfile(h) \/ StartBrowser(h)
    <3>1. /\ row' = row /\ request[h].op \in {"reserved", "prepared"}
          /\ profile' = [profile EXCEPT ![launch[l].container] = TRUE]
          /\ \/ marker' = marker
             \/ /\ ~Taken(launch[l].container)
                /\ marker' = [marker EXCEPT ![launch[l].container] = l]
      BY <2>1 DEF PrepareProfile, StartBrowser, Handling
    <3>2. profile'[c] = profile[c] \/ (c = launch[l].container /\ profile'[c])
      BY <1>0, <3>1 DEF TypeOK
    <3>3. marker'[c] = marker[c] \/ (c = launch[l].container /\ ~Taken(c))
      BY <1>0, <3>1 DEF TypeOK
    <3> QED BY <3>1, <3>2, <3>3 DEF MarkerStep, ProfileStep, Taken, ProfileInUse
  <2>2. ASSUME NEW leftover \in BOOLEAN,
               AutomationFails(h, leftover) \/ AbortLaunch(h, leftover)
        PROVE  Goal
    <3>1. Kill(l, leftover) /\ profile' = profile /\ request[h].op \in LaunchSteps
      BY <2>2 DEF AutomationFails, AbortLaunch, Handling, LaunchSteps
    <3> QED BY <1>0, <3>1, KillMarker DEF LaunchInHand
  <2>3. CASE UNCHANGED diskVars
    BY <1>1, <2>3
  <2> HIDE DEF Goal
  <2> QED BY <1>7, <2>1, <2>2, <2>3 DEF LaunchStep, PrepareFails, RegisterProcess,
                                        CommitLaunch, LoseLaunch, Release
<1>8. ASSUME NEW h \in Hosts, CloseStep(h)
      PROVE  Goal
  <2>1. ASSUME NEW leftover \in BOOLEAN, CloseTerminate(h, leftover)
        PROVE  Goal
    <3>1. /\ Kill(request[h].launch, leftover) /\ profile' = profile
          /\ request[h].op = "closing"
      BY <2>1 DEF CloseTerminate, Handling
    <3> QED BY <1>0, <3>1, KillMarker DEF InHand, Hand
  <2> HIDE DEF Goal
  <2> QED BY <1>1, <1>8, <2>1 DEF CloseStep, CloseFails, CloseClear
<1>9. ASSUME NEW h \in Hosts, NEW k \in Loops, SweepStep(h, k)
      PROVE  Goal
  <2> HIDE DEF Goal
  <2> QED BY <1>1, <1>2, <1>9 DEF SweepStep, SweepReconcile, SweepLoad, SweepFails,
                                  SweepDelete
<1>10. ASSUME NEW l \in Launches, WatchStep(l)
       PROVE  Goal
  <2> HIDE DEF Goal
  <2> QED BY <1>1, <1>2, <1>10 DEF WatchStep, WatchReturns, WatchUpdate, WatchDelete
<1>11. ASSUME NEW l \in Launches, BrowserStep(l)
       PROVE  Goal
  <2>1. CASE BrowserOpens(l)
    <3>1. marker'[c] = marker[c] \/ ~Taken(c)
      BY <1>0, <2>1 DEF BrowserOpens, TypeOK
    <3>2. profile' = profile
      BY <2>1 DEF BrowserOpens
    <3> QED BY <3>1, <3>2 DEF MarkerStep, ProfileStep, Taken, ProfileInUse
  <2>2. ASSUME NEW leftover \in BOOLEAN, BrowserExits(l, leftover)
        PROVE  Goal
    BY <1>0, <2>2, KillMarker DEF BrowserExits
  <2> QED BY <1>11, <2>1, <2>2 DEF BrowserStep
<1>12. ASSUME NEW d \in Containers, ReservationAges(d)
       PROVE  Goal
  BY <1>1, <1>12 DEF ReservationAges
<1> HIDE DEF Goal
<1>13. Goal
  BY <1>3, <1>4, <1>5, <1>6, <1>7, <1>8, <1>9, <1>10, <1>11, <1>12 DEF Next
<1> QED BY <1>13 DEF Goal

LEMMA BrowserStarts ==
  ASSUME Requests, Reach, Next, NEW l \in Launches, browser'[l] = "alive"
  PROVE  \/ browser[l] = "alive"
         \/ \E h \in Hosts : StartBrowser(h) /\ request[h].launch = l
<1>0. TypeOK /\ LaunchInHand
  BY DEF Requests
<1>1. ASSUME Moves
      PROVE  browser[l] = "alive"
  BY <1>1 DEF Moves
<1>2. ASSUME NEW h \in Hosts, HostStart(h) \/ CreateStep(h) \/ CloseStep(h)
                                \/ \E k \in Loops : SweepStep(h, k)
      PROVE  browser[l] = "alive"
  BY <1>1, <1>2, HostMoves
<1>3. ASSUME NEW h \in Hosts, HostExit(h)
      PROVE  browser[l] = "alive"
  BY <1>3 DEF HostExit
<1>4. ASSUME NEW h \in Hosts, NewRequest(h)
      PROVE  browser[l] = "alive"
  BY <1>1, <1>4, NewRequestMoves DEF Reserve
<1>5. ASSUME NEW h \in Hosts, LaunchStep(h)
      PROVE  browser[l] = "alive" \/ (StartBrowser(h) /\ request[h].launch = l)
  <2>1. StartBrowser(h) => browser[l] = "alive" \/ request[h].launch = l
    BY <1>0 DEF StartBrowser, TypeOK
  <2>2. RegisterProcess(h) => browser' = browser
    BY DEF RegisterProcess
  <2>3. CommitLaunch(h) => browser' = browser
    BY DEF CommitLaunch
  <2>4. (\E outcome \in Outcomes : LoseLaunch(h, outcome)) => browser' = browser
    BY DEF LoseLaunch
  <2> QED BY <1>1, <1>5, <2>1, <2>2, <2>3, <2>4, LaunchMoves
<1>6. ASSUME NEW m \in Launches, WatchStep(m) \/ BrowserStep(m)
      PROVE  browser[l] = "alive"
  BY <1>1, <1>6, WatchMoves DEF WatchReturns
<1>7. ASSUME NEW c \in Containers, ReservationAges(c)
      PROVE  browser[l] = "alive"
  BY <1>7 DEF ReservationAges
<1> QED BY <1>2, <1>3, <1>4, <1>5, <1>6, <1>7 DEF Next

-----------------------------------------------------------------------------
(* A live browser has marked its profile, and the rows name its launch *)

\* A create that failed wrote no row.  Only a directory-sync error after the
\* rename makes it otherwise: the container is there, another host may launch it,
\* and the undoing of the create removes the directory under its browser.
FailedCreatesUnwritten ==
  \A h \in Hosts : request[h].op = "undoing" => ~Present(request[h].container)

\* The request of a host that is creating goes on by itself, or dies with its host.
LEMMA CreatingMoves ==
  ASSUME Requests, Next, NEW h \in Hosts, request[h].op \in CreateSteps
  PROVE  request'[h] = request[h] \/ HostExit(h) \/ CreateStep(h)
<1> USE DEF storeVars, diskVars, hostVars
<1> DEFINE Goal == request'[h] = request[h] \/ HostExit(h) \/ CreateStep(h)
<1>0. TypeOK
  BY DEF Requests
<1>1. CASE request' = request
  BY <1>1
<1>2. ASSUME NEW g \in Hosts, g /= h, \E r : request' = [request EXCEPT ![g] = r]
      PROVE  Goal
  BY <1>0, <1>2 DEF TypeOK
<1>3. ASSUME NEW g \in Hosts, HostStart(g) \/ HostExit(g)
      PROVE  Goal
  <2>1. CASE HostStart(g)
    BY <2>1 DEF HostStart
  <2>2. CASE HostExit(g) /\ g = h
    BY <2>2
  <2>3. CASE HostExit(g) /\ g /= h
    BY <1>0, <2>3 DEF HostExit, Respond, TypeOK
  <2> QED BY <1>3, <2>1, <2>2, <2>3
<1>4. ASSUME NEW g \in Hosts, NewRequest(g)
      PROVE  Goal
  <2>1. CASE request' = request
    BY <1>1, <2>1
  <2>2. CASE Idle(g) /\ \E r : request' = [request EXCEPT ![g] = r]
    BY <1>2, <2>2 DEF Idle, IdleRequest, CreateSteps
  <2> HIDE DEF Goal
  <2>3. ASSUME NEW d \in Containers, CreateProfile(g, d) \/ CloseBegin(g, d)
        PROVE  Goal
    BY <2>2, <2>3 DEF CreateProfile, CloseBegin
  <2>4. ASSUME NEW d \in Containers, NEW l \in Launches, NEW a \in AutomationInputs,
               NEW outcome \in Outcomes, Reserve(g, d, l, a, outcome)
        PROVE  Goal
    <3>1. request' = request \/ \E r : request' = [request EXCEPT ![g] = r]
      BY <2>4 DEF Reserve
    <3> QED BY <2>1, <2>2, <2>4, <3>1 DEF Reserve
  <2> QED BY <1>4, <2>1, <2>3, <2>4 DEF NewRequest, List, RequestCleanup, Update, Delete
<1>5. ASSUME NEW g \in Hosts, CreateStep(g)
      PROVE  Goal
  <2>1. \E r : request' = [request EXCEPT ![g] = r]
    BY <1>5, CreateMoves DEF CreateMove, Respond, Step
  <2> QED BY <1>2, <1>5, <2>1
<1>6. ASSUME NEW g \in Hosts, LaunchStep(g)
      PROVE  Goal
  <2>1. /\ request[g].op \in LaunchSteps
        /\ Respond(g) \/ \E op : Step(g, op)
    BY <1>6 DEF LaunchStep, PrepareProfile, PrepareFails, StartBrowser, RegisterProcess,
                CommitLaunch, LoseLaunch, AutomationFails, AbortLaunch, Release,
                Handling, LaunchSteps
  <2> QED BY <1>0, <2>1 DEF Respond, Step, TypeOK, LaunchSteps, CreateSteps
<1>7. ASSUME NEW g \in Hosts, CloseStep(g)
      PROVE  Goal
  <2>1. /\ request[g].op \in {"closing", "clearing"}
        /\ Respond(g) \/ \E op : Step(g, op)
    BY <1>7 DEF CloseStep, CloseFails, CloseClear, CloseTerminate, Handling
  <2> QED BY <1>0, <2>1 DEF Respond, Step, TypeOK, CreateSteps
<1>8. ASSUME NEW g \in Hosts, NEW k \in Loops, SweepStep(g, k)
      PROVE  Goal
  BY <1>1, <1>8 DEF SweepStep, SweepReconcile, SweepLoad, SweepFails, SweepDelete
<1>9. ASSUME NEW l \in Launches, WatchStep(l) \/ BrowserStep(l)
      PROVE  Goal
  BY <1>1, <1>9 DEF WatchStep, WatchReturns, WatchUpdate, WatchDelete, BrowserStep,
                    BrowserOpens, BrowserExits
<1>10. ASSUME NEW d \in Containers, ReservationAges(d)
       PROVE  Goal
  BY <1>1, <1>10 DEF ReservationAges
<1> HIDE DEF Goal
<1>11. Goal
  BY <1>3, <1>4, <1>5, <1>6, <1>7, <1>8, <1>9, <1>10 DEF Next
<1> QED BY <1>11 DEF Goal

\* A create whose transaction fails leaves no row, unless the error is that of
\* the directory sync.
LEMMA FailedCreatesUnwrittenKept ==
  ASSUME "sync" \notin FaultKinds, Requests, FailedCreatesUnwritten, Next
  PROVE  FailedCreatesUnwritten'
<1>0. TypeOK /\ DrawnOnce /\ LaunchInHand
  BY DEF Requests
<1> SUFFICES ASSUME NEW h \in Hosts, request'[h].op = "undoing"
             PROVE  row'[request'[h].container].state = "absent"
  BY DEF FailedCreatesUnwritten, Present
<1> DEFINE c == request[h].container
<1>1. ASSUME request[h].op \in CreateSteps
      PROVE  /\ c \in Containers
             /\ \A g \in Hosts : request[g].op = "creating" /\ request[g].container = c
                                  => g = h
  BY <1>0, <1>1 DEF DrawnOnce, CreateSteps
<1>2. CASE request'[h] = request[h]
  <2>1. c \in Containers /\ ~Present(c) /\ row[c] \in Row
    BY <1>0, <1>1, <1>2 DEF FailedCreatesUnwritten, CreateSteps, TypeOK
  <2>2. ~ \E g \in Hosts : request[g].op = "creating" /\ request[g].container = c
    BY <1>1, <1>2 DEF CreateSteps
  <2>3. RowStep(c)
    BY <1>0, <2>1, RowSteps
  <2> HIDE DEF c
  <2>4. row'[c].state = "absent"
    BY <2>1, <2>2, <2>3 DEF RowStep, Present, Holds, Row
  <2> QED BY <1>2, <2>4 DEF Present, c
<1>3. CASE CreateStep(h) /\ request[h].op = "creating" /\ request'[h].container = c
  <2>1. row[c] = AbsentRow
    BY <1>0, <1>3 DEF DrawnOnce, CreateSteps
  <2>2. ASSUME NEW t \in BOOLEAN, NEW a \in AutomationInputs, NEW outcome \in Outcomes,
               CreateRow(h, t, a, outcome)
        PROVE  row' = row
    <3>1. outcome /= "ok"
      BY <1>0, <2>2 DEF CreateRow, Respond, IdleRequest, TypeOK
    <3>2. outcome /= "sync"
      BY DEF Outcomes, May
    <3> QED BY <2>2, <3>1, <3>2 DEF CreateRow, Write, Committed, Outcomes
  <2>3. row' = row
    BY <1>3, <2>2 DEF CreateStep, CreateRejected, UndoCreate, storeVars
  <2> QED BY <1>3, <2>1, <2>3 DEF Present, AbsentRow
<1>4. CASE request[h].op \in CreateSteps /\ request'[h] /= request[h]
  <2>1. ~HostExit(h)
    BY <1>0 DEF HostExit, Respond, IdleRequest, TypeOK
  <2>2. CreateStep(h)
    BY <1>4, <2>1, CreatingMoves
  <2>3. request[h].op = "creating" /\ Step(h, "undoing")
    BY <1>0, <2>2, CreateMoves DEF CreateMove, Respond, IdleRequest, TypeOK
  <2>4. request'[h].container = c
    BY <1>0, <2>3 DEF Step, TypeOK, Request
  <2> QED BY <1>3, <2>2, <2>3, <2>4
<1> QED BY <1>0, <1>2, <1>4, RequestSteps DEF RequestStep, LaunchSteps, CreateSteps

\* As long as no directory sync fails, a create that failed wrote no row: what
\* the theorems about the browsers of a container assume of every state.
THEOREM FailedCreatesLeaveNoRow ==
  "sync" \notin FaultKinds => (Spec => []FailedCreatesUnwritten)
<1> SUFFICES ASSUME "sync" \notin FaultKinds
             PROVE  Spec => []FailedCreatesUnwritten
  OBVIOUS
<1>1. Init => FailedCreatesUnwritten
  BY DEF Init, FailedCreatesUnwritten, IdleRequest
<1>2. Requests /\ FailedCreatesUnwritten /\ [Next]_vars => FailedCreatesUnwritten'
  <2>1. CASE Next
    BY <2>1, FailedCreatesUnwrittenKept
  <2>2. CASE UNCHANGED vars
    BY <2>2 DEF vars, FailedCreatesUnwritten, Present
  <2> QED BY <2>1, <2>2
<1> QED BY <1>1, <1>2, RequestsCorrect, PTL DEF Spec

\* As long as Chromium marks its profile the moment it starts.
Marked ==
  \A l \in Launches : browser[l] = "alive" => marker[launch[l].container] = l

\* The token of a reservation and the PID of a running row are those of launches
\* of this container.
Recorded ==
  \A c \in Containers :
    /\ row[c].state = "launching" =>
         row[c].token \in Launches /\ launch[row[c].token].container = c
    /\ row[c].state = "running" =>
         row[c].pid \in Launches /\ launch[row[c].pid].container = c

Marks ==
  /\ AttemptsSettled
  /\ Recorded
  /\ PromptMarkers => Marked

LEMMA AttemptsSettledKept ==
  ASSUME Requests, FailedCreatesUnwritten, AttemptsSettled, Next
  PROVE  AttemptsSettled'
<1>0. TypeOK /\ DrawnOnce /\ LaunchInHand
  BY DEF Requests
<1>1. ASSUME NEW c \in Containers, Settled(c)
      PROVE  Settled(c)'
  <2>1. c \in Containers \ fresh'
    BY <1>0, <1>1, LaunchAndFreshSteps DEF Settled
  <2>2. ASSUME NEW h \in Hosts, request'[h].op \in CreateSteps, request'[h].container = c
        PROVE  FALSE
    <3>1. RequestStep(h)
      BY <1>0, RequestSteps
    <3> QED BY <1>1, <2>2, <3>1
            DEF RequestStep, Settled, Creating, LaunchSteps, CreateSteps
  <2> QED BY <2>1, <2>2 DEF Settled, Creating
<1>2. ASSUME NEW c \in Containers, Present(c)
      PROVE  Settled(c)
  BY <1>0, <1>2 DEF Present, Settled, Creating, CreateSteps, DrawnOnce, AbsentRow,
                    FailedCreatesUnwritten
<1> SUFFICES ASSUME NEW l \in Launches, launch'[l].host \in Hosts
             PROVE  \E c \in Containers : launch'[l].container = c /\ Settled(c)'
  BY DEF AttemptsSettled
<1>3. PICK c \in Containers : launch'[l].container = c /\ Settled(c)
  <2>1. CASE launch'[l] = launch[l]
    BY <2>1 DEF AttemptsSettled, Settled
  <2>2. CASE launch'[l].container \in Containers /\ Present(launch'[l].container)
    BY <1>2, <2>2
  <2> QED BY <1>0, <2>1, <2>2, LaunchAndFreshSteps
<1>4. Settled(c)'
  BY <1>1, <1>3
<1> QED BY <1>3, <1>4

\* The container of a live browser, and of any attempt that was reserved.
LEMMA AliveAttempt ==
  ASSUME Requests, Reach, AttemptsSettled, Next, NEW l \in Launches,
         browser[l] = "alive"
  PROVE  /\ launch[l].host \in Hosts /\ launch'[l] = launch[l]
         /\ launch[l].container \in Containers /\ ~Creating(launch[l].container)
<1>1. launch[l].host \in Hosts
  BY DEF Reach, UnreservedIdle
<1>2. launch'[l] = launch[l]
  BY <1>1, LaunchAndFreshSteps DEF Requests
<1> QED BY <1>1, <1>2 DEF AttemptsSettled, Settled

LEMMA MarkedKept ==
  ASSUME PromptMarkers, Requests, Reach, AttemptsSettled, Marked, Next
  PROVE  Marked'
<1> SUFFICES ASSUME NEW l \in Launches, browser'[l] = "alive"
             PROVE  marker'[launch'[l].container] = l
  BY DEF Marked
<1>1. CASE browser[l] = "alive"
  <2>1. PICK c \in Containers : c = launch[l].container
    BY <1>1, AliveAttempt
  <2>2. launch'[l] = launch[l] /\ ~Creating(c) /\ marker[c] = l
    BY <1>1, <2>1, AliveAttempt DEF Marked
  <2>3. MarkerStep(c)
    BY DiskSteps
  <2>4. ProfileInUse(c)
    BY <2>2, NoneAssumption DEF ProfileInUse
  <2> QED BY <1>1, <2>1, <2>2, <2>3, <2>4 DEF MarkerStep
<1>2. ASSUME NEW h \in Hosts, StartBrowser(h), request[h].launch = l,
             browser[l] /= "alive"
      PROVE  marker'[launch'[l].container] = l
  <2>1. PICK c \in Containers : c = launch[l].container
    BY <1>2 DEF Requests, LaunchInHand, LaunchSteps, StartBrowser, Handling
  <2>2. /\ launch' = launch
        /\ browser' = [browser EXCEPT ![l] = IF Taken(c) THEN "exited" ELSE "alive"]
        /\ ~Taken(c) => marker' = [marker EXCEPT ![c] = l]
    BY <1>2, <2>1 DEF StartBrowser
  <2>3. ~Taken(c)
    BY <2>2 DEF Requests, TypeOK
  <2> QED BY <2>1, <2>2, <2>3 DEF Requests, TypeOK
<1> QED BY <1>1, <1>2, BrowserStarts

LEMMA RecordedKept ==
  ASSUME Requests, Reach, AttemptsSettled, Recorded, Next
  PROVE  Recorded'
<1>0. TypeOK /\ DrawnOnce /\ LaunchInHand
  BY DEF Requests
<1>1. ASSUME NEW l \in Launches, launch[l].container \in Containers
      PROVE  launch'[l] = launch[l]
  <2>1. launch[l].host \in Hosts
    BY <1>1, NoneAssumption DEF Reach, UnreservedIdle, NoAttempt
  <2> QED BY <1>0, <2>1, LaunchAndFreshSteps
<1> SUFFICES ASSUME NEW c \in Containers
             PROVE  /\ row'[c].state = "launching" =>
                         /\ row'[c].token \in Launches
                         /\ launch'[row'[c].token].container = c
                    /\ row'[c].state = "running" =>
                         /\ row'[c].pid \in Launches
                         /\ launch'[row'[c].pid].container = c
  BY DEF Recorded
<1>2. RowStep(c) /\ row[c] \in Row
  BY <1>0, RowSteps DEF TypeOK
<1>3. /\ row[c].state = "launching" =>
           row[c].token \in Launches /\ launch'[row[c].token].container = c
      /\ row[c].state = "running" =>
           row[c].pid \in Launches /\ launch'[row[c].pid].container = c
  BY <1>1 DEF Recorded
<1>4. \A l \in Launches :
        /\ setLaunching(row[c], l).state = "launching" /\ setLaunching(row[c], l).token = l
        /\ setRunning(row[c], l).state = "running" /\ setRunning(row[c], l).pid = l
  BY <1>2 DEF Row, setLaunching, setRunning
<1>5. setStopped(row[c]).state = "stopped" /\ AbsentRow.state = "absent"
  BY <1>2 DEF Row, setStopped, AbsentRow
<1>6. \A a \in BOOLEAN : LET r == [row[c] EXCEPT !.automation = a]
                         IN r.state = row[c].state /\ r.token = row[c].token /\ r.pid = row[c].pid
  BY <1>2 DEF Row
<1>7. LET r == [row[c] EXCEPT !.stale = TRUE]
      IN r.state = row[c].state /\ r.token = row[c].token /\ r.pid = row[c].pid
  BY <1>2 DEF Row
<1>8. LET r == [row[c] EXCEPT !.pending = TRUE] IN r.state = row[c].state
  BY <1>2 DEF Row
<1>9. CASE \E l \in Launches : launch'[l].container = c /\ row'[c] = setLaunching(row[c], l)
  BY <1>4, <1>9
<1>10. CASE \E l \in Launches : Holds(c, l) /\ row'[c] = setRunning(row[c], l)
  BY <1>3, <1>4, <1>10 DEF Holds
<1>11. CASE \/ row'[c].state = "stopped" \/ row'[c] = setStopped(row[c])
            \/ row'[c] = AbsentRow
            \/ row[c].state = "stopped" /\ row'[c] = [row[c] EXCEPT !.pending = TRUE]
  BY <1>5, <1>8, <1>11
<1>12. CASE \/ row'[c] = row[c] \/ row'[c] = [row[c] EXCEPT !.stale = TRUE]
            \/ \E a \in BOOLEAN : row'[c] = [row[c] EXCEPT !.automation = a]
  BY <1>3, <1>6, <1>7, <1>12
<1> QED BY <1>2, <1>9, <1>10, <1>11, <1>12 DEF RowStep

LEMMA MarksKept ==
  ASSUME Requests, Reach, FailedCreatesUnwritten, Marks, Next
  PROVE  Marks'
BY AttemptsSettledKept, RecordedKept, MarkedKept DEF Marks

\* An attempt is on a container that nobody is creating any more, the rows name
\* launches of their own container, and prompt markers name the live browser, as
\* long as no failed create leaves its row.
THEOREM MarksCorrect ==
  Spec /\ []FailedCreatesUnwritten => [](Requests /\ Reach /\ Marks)
<1>1. Init => Marks
  BY NoneAssumption DEF Init, Marks, AttemptsSettled, Recorded, Marked, NoAttempt, AbsentRow
<1>2. Requests /\ Reach /\ FailedCreatesUnwritten /\ Marks /\ [Next]_vars => Marks'
  <2>1. CASE Next
    BY <2>1, MarksKept
  <2>2. CASE UNCHANGED vars
    BY <2>2 DEF vars, Marks, AttemptsSettled, Settled, Creating, Recorded, Marked
  <2> QED BY <2>1, <2>2
<1> QED BY <1>1, <1>2, ReachCorrect, PTL DEF Spec

\* While the recorded browser lives, its container stays running with its PID:
\* no reconciliation, watcher, launch or deletion, by whichever host, ends it.
\* This rests on Chromium's markers: they have to be prompt, and no failed create
\* may leave its row, since its undoing removes the directory with the markers.
\* Hosts may go, and every other step may fail.
THEOREM RunningKept ==
  PromptMarkers => (Spec /\ []FailedCreatesUnwritten => RunningWhileBrowserLives)
<1> SUFFICES ASSUME PromptMarkers
             PROVE  Spec /\ []FailedCreatesUnwritten => RunningWhileBrowserLives
  OBVIOUS
<1> DEFINE Kept ==
      \A c \in Containers, l \in Launches :
        row[c].state = "running" /\ row[c].pid = l /\ browser[l] = "alive" =>
          row'[c].state = "running" /\ row'[c].pid = l
<1>1. ASSUME Requests, Reach, Marks, Next
      PROVE  Kept
  <2> SUFFICES ASSUME NEW c \in Containers, NEW l \in Launches,
                      row[c].state = "running", row[c].pid = l, browser[l] = "alive"
               PROVE  row'[c].state = "running" /\ row'[c].pid = l
    OBVIOUS
  <2>1. RowStep(c) /\ row[c] \in Row
    BY <1>1, RowSteps DEF Requests, TypeOK
  <2>2. ProfileInUse(c)
    <3>1. launch[l].container = c
      BY <1>1 DEF Marks, Recorded
    <3> QED BY <1>1, <3>1, NoneAssumption DEF Marks, Marked, ProfileInUse
  <2>3. ~(\E m \in Launches : recordedAs(c, m) /\ watch[m] = "stopping")
    BY <1>1 DEF Reach, MapsStarted, recordedAs
  <2>4. row[c] /= AbsentRow /\ ~(\E m \in Launches : Holds(c, m))
    BY DEF AbsentRow, Holds
  <2>5. \A a \in BOOLEAN : LET r == [row[c] EXCEPT !.automation = a]
                           IN r.state = row[c].state /\ r.pid = row[c].pid
    BY <2>1 DEF Row
  <2> QED BY <2>1, <2>2, <2>3, <2>4, <2>5 DEF RowStep
<1>2. Requests /\ Reach /\ Marks /\ [Next]_vars => [Kept]_vars
  BY <1>1
<1> QED BY <1>2, MarksCorrect, PTL DEF Spec, RunningWhileBrowserLives

\* SECURITY.md: ScopeNest refuses duplicate launches while a recorded process is
\* alive.  It does as long as markers are prompt and no failed create leaves its
\* row.
THEOREM DuplicatesRefused ==
  PromptMarkers => (Spec /\ []FailedCreatesUnwritten => NoDuplicateLaunch)
<1> DEFINE Alive(c, l) ==
             row[c].state = "running" /\ row[c].pid = l /\ browser[l] = "alive"
           Kept == \A c \in Containers, l \in Launches :
                     Alive(c, l) => row'[c].state = "running" /\ row'[c].pid = l
           Refused == \A c \in Containers, l \in Launches :
                        Alive(c, l) => row'[c].state /= "launching"
<1>1. [Kept]_vars => [Refused]_vars
  OBVIOUS
<1> QED BY <1>1, RunningKept, PTL DEF RunningWhileBrowserLives, NoDuplicateLaunch

\* A profile directory is only removed when no browser is using it, by whichever
\* request, cleanup or watcher of whichever host, as long as markers are prompt
\* and no failed create leaves its row.
THEOREM ProfileKept ==
  PromptMarkers => (Spec /\ []FailedCreatesUnwritten => ProfileRemovedUnused)
<1> SUFFICES ASSUME PromptMarkers
             PROVE  Spec /\ []FailedCreatesUnwritten => ProfileRemovedUnused
  OBVIOUS
<1> DEFINE Kept ==
      \A c \in Containers, l \in Launches :
        profile[c] /\ launch[l].container = c /\ browser[l] = "alive" => profile'[c]
<1>1. ASSUME Requests, Reach, Marks, Next
      PROVE  Kept
  <2> SUFFICES ASSUME NEW c \in Containers, NEW l \in Launches,
                      profile[c], launch[l].container = c, browser[l] = "alive"
               PROVE  profile'[c]
    OBVIOUS
  <2>1. ~Creating(c) /\ ProfileInUse(c)
    BY <1>1, AliveAttempt, NoneAssumption DEF Marks, Marked, ProfileInUse
  <2>2. ProfileStep(c)
    BY <1>1, DiskSteps
  <2> QED BY <2>1, <2>2 DEF ProfileStep
<1>2. Requests /\ Reach /\ Marks /\ [Next]_vars => [Kept]_vars
  BY <1>1
<1> QED BY <1>2, MarksCorrect, PTL DEF Spec, ProfileRemovedUnused

-----------------------------------------------------------------------------
(* No directory without its container *)

\* As long as no launch outlasts its reservation, it holds the reservation until
\* it is committed, lost by a fault of the store, or given back.
ReservationsHeld ==
  \A h \in Hosts :
    request[h].op \in LaunchSteps \ {"aborting"} =>
      \E c \in Containers : /\ launch[request[h].launch].container = c
                            /\ Holds(c, request[h].launch) /\ row[c].stale = FALSE

LEMMA ReservationsHeldKept ==
  ASSUME "stall" \notin FaultKinds, Requests, Reach, ReservationsHeld, Next
  PROVE  ReservationsHeld'
<1>0. TypeOK /\ DrawnOnce /\ LaunchInHand
  BY DEF Requests
<1> SUFFICES ASSUME NEW h \in Hosts, request'[h].op \in LaunchSteps \ {"aborting"}
             PROVE  \E c \in Containers :
                      /\ launch'[request'[h].launch].container = c
                      /\ row'[c].state = "launching" /\ row'[c].token = request'[h].launch
                      /\ row'[c].stale = FALSE
  BY DEF ReservationsHeld, Holds
<1> DEFINE l == request[h].launch
<1>1. CASE request[h].op \in LaunchSteps \ {"aborting"} /\ request'[h].launch = l
  <2>1. PICK c \in Containers :
          launch[l].container = c /\ Holds(c, l) /\ row[c].stale = FALSE
    BY <1>1 DEF ReservationsHeld
  <2>2. l \in Launches /\ launch[l].host = h /\ launch'[l] = launch[l]
    BY <1>0, <1>1, LaunchAndFreshSteps DEF LaunchInHand
  <2>3. RowStep(c) /\ row[c] \in Row
    BY <1>0, RowSteps DEF TypeOK
  <2>4. ASSUME NEW g \in Hosts, request[g].op \in LaunchSteps, Holds(c, request[g].launch)
        PROVE  request'[g].op \notin {"idle", "aborting"}
    <3>1. request[g].launch = l
      BY <2>1, <2>4 DEF Holds
    <3>2. g = h
      BY <1>0, <2>2, <2>4, <3>1 DEF LaunchInHand
    <3> QED BY <3>2 DEF LaunchSteps
  <2>5. ~(InProgress(row[c].token) => May("stall"))
    <3>1. up[h]
      BY <1>1 DEF Reach, InHand, Hand, IdleRequest, LaunchSteps
    <3>2. row[c].token = l
      BY <2>1 DEF Holds
    <3> QED BY <3>1, <3>2 DEF InProgress, May
  <2>6. row[c].state = "launching" /\ row[c] /= AbsentRow
    BY <2>1 DEF Holds, AbsentRow
  <2>7. \A a \in BOOLEAN : LET r == [row[c] EXCEPT !.automation = a]
                           IN /\ r.state = row[c].state /\ r.token = row[c].token
                              /\ r.stale = row[c].stale
    BY <2>3 DEF Row
  <2> HIDE DEF l
  <2>8. row'[c].state = "launching" /\ row'[c].token = l /\ row'[c].stale = FALSE
    <3>1. CASE row'[c] = row[c] \/ \E a \in BOOLEAN : row'[c] = [row[c] EXCEPT !.automation = a]
      BY <2>1, <2>7, <3>1 DEF Holds
    <3>2. ASSUME NEW m \in Launches, NEW g \in Hosts, Holds(c, m), request[g].op = "registered",
                 request[g].launch = m, request'[g].op \in {"idle", "aborting"}
          PROVE  FALSE
      BY <2>4, <3>2 DEF LaunchSteps
    <3>3. ASSUME NEW g \in Hosts, request[g].op = "releasing", Holds(c, request[g].launch),
                 request'[g].op = "idle"
          PROVE  FALSE
      BY <2>4, <3>3 DEF LaunchSteps
    <3> QED BY <2>1, <2>3, <2>5, <2>6, <3>1, <3>2, <3>3 DEF RowStep
  <2> QED BY <1>1, <2>1, <2>2, <2>8
<1>2. CASE request'[h] = request[h]
  BY <1>1, <1>2
<1> QED BY <1>0, <1>1, <1>2, RequestSteps DEF RequestStep, LaunchSteps

\* A create request goes on, ends with a row or without a directory, or is cut
\* short.
LEMMA CreatingEnds ==
  ASSUME Requests, Next, NEW c \in Containers, Creating(c)
  PROVE  Creating(c)' \/ Present(c)' \/ ~profile'[c] \/ CreateCutShort(c)
<1>0. TypeOK
  BY DEF Requests
<1>1. PICK h \in Hosts : request[h].op \in CreateSteps /\ request[h].container = c
  BY DEF Creating
<1>2. CASE request'[h] = request[h]
  BY <1>1, <1>2 DEF Creating
<1>3. CASE HostExit(h)
  BY <1>0, <1>1, <1>3 DEF HostExit, CreateCutShort, TypeOK
<1>4. CASE CreateRejected(h)
  <2>1. request'[h].op = "undoing" /\ request'[h].container = c
    BY <1>0, <1>1, <1>4 DEF CreateRejected, Step, TypeOK, Request
  <2> QED BY <2>1 DEF Creating, CreateSteps
<1>5. ASSUME NEW t \in BOOLEAN, NEW a \in AutomationInputs, NEW outcome \in Outcomes,
             CreateRow(h, t, a, outcome)
      PROVE  Creating(c)' \/ Present(c)'
  <2> DEFINE r == [AbsentRow EXCEPT !.state = "stopped", !.temporary = t,
                                    !.automation = a]
  <2>1. CASE outcome = "ok"
    <3>1. row' = [row EXCEPT ![c] = r]
      BY <1>1, <1>5, <2>1 DEF CreateRow, Write, Committed
    <3>2. row'[c] = r
      BY <1>0, <3>1 DEF TypeOK
    <3> QED BY <3>2 DEF AbsentRow, Present
  <2>2. CASE outcome /= "ok"
    <3>1. Step(h, "undoing")
      BY <1>5, <2>2 DEF CreateRow
    <3>2. request'[h].op = "undoing" /\ request'[h].container = c
      BY <1>0, <1>1, <3>1 DEF Step, TypeOK, Request
    <3> QED BY <3>2 DEF Creating, CreateSteps
  <2> QED BY <2>1, <2>2
<1>6. CASE UndoCreate(h)
  <2>1. CASE RemoveProfile(c)
    BY <1>0, <2>1 DEF RemoveProfile, TypeOK
  <2>2. CASE Fault("remove")
    <3>1. faults' > faults
      BY <1>0, <2>2 DEF Fault, TypeOK
    <3> QED BY <1>1, <1>6, <3>1 DEF UndoCreate, Handling, CreateCutShort
  <2> QED BY <1>1, <1>6, <2>1, <2>2 DEF UndoCreate
<1>7. CASE CreateStep(h)
  BY <1>4, <1>5, <1>6, <1>7 DEF CreateStep
<1> QED BY <1>1, <1>2, <1>3, <1>7, CreatingMoves

\* A container that is there stays, or goes with its directory.
LEMMA PresentEnds ==
  ASSUME Requests, Next, NEW c \in Containers, Present(c)
  PROVE  Present(c)' \/ ~profile'[c]
<1>1. RowStep(c) /\ row[c] \in Row
  BY RowSteps DEF Requests, TypeOK
<1>2. \A l \in Launches : /\ setLaunching(row[c], l).state /= "absent"
                          /\ setRunning(row[c], l).state /= "absent"
  BY <1>1 DEF Row, setLaunching, setRunning
<1>3. setStopped(row[c]).state /= "absent"
  BY <1>1 DEF Row, setStopped
<1>4. \A a \in BOOLEAN : [row[c] EXCEPT !.automation = a].state = row[c].state
  BY <1>1 DEF Row
<1>5. /\ [row[c] EXCEPT !.stale = TRUE].state = row[c].state
      /\ [row[c] EXCEPT !.pending = TRUE].state = row[c].state
  BY <1>1 DEF Row
<1>6. row'[c].state /= "absent" \/ ~profile'[c]
  BY <1>1, <1>2, <1>3, <1>4, <1>5 DEF RowStep, Present
<1> QED BY <1>6 DEF Present

\* One step leaves a directory without a claim only when it cuts a create short.
LEMMA ProfileClaimed ==
  ASSUME Requests, Reach, ReservationsHeld, Next, NEW c \in Containers, Unclaimed(c)'
  PROVE  Unclaimed(c) \/ CreateCutShort(c)
<1>1. profile'[c] /\ ~Present(c)' /\ ~Creating(c)'
  BY DEF Unclaimed
<1>2. ~Present(c) /\ (Creating(c) => CreateCutShort(c))
  BY <1>1, PresentEnds, CreatingEnds
<1>3. CASE row' = row /\ \E h \in Hosts : /\ request[h].op \in {"reserved", "prepared"}
                                          /\ launch[request[h].launch].container = c
  BY <1>2, <1>3 DEF ReservationsHeld, LaunchSteps, Holds, Present
<1>4. CASE profile'[c] = profile[c]
  BY <1>1, <1>2, <1>4 DEF Unclaimed
<1> QED BY <1>1, <1>3, <1>4, DiskSteps DEF ProfileStep

\* No profile directory loses its last claim, though the directory and the row
\* are written and removed by separate steps, each of which may fail: the lock,
\* the write, the directory sync, the removal or the launcher, or the host or a
\* browser goes.  The two exceptions are those of the property, a create that its
\* host does not survive or whose undoing fails.  No launch may outlast its
\* reservation: the container can be deleted under it.
THEOREM ProfilesRemoved == "stall" \notin FaultKinds => (Spec => NoLeakedProfile)
<1> SUFFICES ASSUME "stall" \notin FaultKinds
             PROVE  Spec => NoLeakedProfile
  OBVIOUS
<1> DEFINE Claimed == \A c \in Containers :
                        Unclaimed(c)' => Unclaimed(c) \/ CreateCutShort(c)
<1>1. Init => ReservationsHeld
  BY DEF Init, ReservationsHeld, IdleRequest, LaunchSteps
<1>2. Requests /\ Reach /\ ReservationsHeld /\ [Next]_vars => ReservationsHeld'
  <2>1. CASE Next
    BY <2>1, ReservationsHeldKept
  <2>2. CASE UNCHANGED vars
    BY <2>2 DEF vars, ReservationsHeld, Holds
  <2> QED BY <2>1, <2>2
<1>3. Requests /\ Reach /\ ReservationsHeld /\ [Next]_vars => [Claimed]_vars
  BY ProfileClaimed
<1> QED BY <1>1, <1>2, <1>3, ReachCorrect, PTL DEF Spec, NoLeakedProfile
=============================================================================
