------------------------------ MODULE NativePort ------------------------------
(***************************************************************************)
(* How the extension talks to the native host: the page (refreshApp and    *)
(* the commands of its user), the background worker with its native port,  *)
(* its map of pending requests and their timers, and the message loop of   *)
(* the host process behind each port.                                      *)
(*                                                                         *)
(* Chrome starts one host process per port, carries messages both ways in  *)
(* order, and tells the worker with one event when a port is gone; what    *)
(* was on its way then is lost.  The call between page and worker is       *)
(* collapsed into the step that makes it.  The metadata is a number that   *)
(* grows with every change, so that a list says how recent it is.          *)
(*                                                                         *)
(* A refresh asks for two things here: "required" stands for get_status    *)
(* and list_containers, "optional" for the three lists whose failure is    *)
(* caught.                                                                 *)
(***************************************************************************)
EXTENDS Naturals, Sequences

CONSTANTS
  MaxPorts,    \* bound on the ports connectNative returns; then it throws
  MaxRefreshes,  \* bound on the calls of refreshApp
  Commands,    \* the commands of the user
  None,        \* no port; the identifier "unknown"; an error instead of data
  MaxVersion   \* bound on the changes of the metadata

ASSUME BoundsAssumption ==
  MaxPorts \in Nat /\ MaxRefreshes \in Nat /\ MaxVersion \in Nat

VARIABLES
  nativePort,  \* the worker's port
  pending,     \* the worker's map of pending requests, each with the port it
               \* was posted on (which the code does not record)
  port,        \* what became of each port
  toHost,      \* requests on their way to each host
  toWorker,    \* responses on their way back
  host,        \* each port's host process
  version,     \* of the metadata
  promise,     \* what the page knows of each request
  data,        \* what a resolved promise holds
  refreshes,   \* the refreshes that wait for their answers; the lower is older
  owed,        \* a command succeeded: its handler goes on with refreshApp
  view         \* what the page shows

worker == <<nativePort, pending, port>>
wire == <<toHost, toWorker>>
process == <<host, version>>
page == <<promise, data, refreshes, owed, view>>
vars == <<worker, wire, process, page>>

-----------------------------------------------------------------------------
(* Types *)

Ports == 1..MaxPorts
Refreshes == 1..MaxRefreshes
Version == 0..MaxVersion
Request == (Refreshes \X {"required", "optional"}) \cup (Commands \X {"command"})

\* None is told from what it stands in for.
ASSUME NoneAssumption == None \notin Ports \cup Request \cup Version

Response == [id : Request \cup {None}, data : Version \cup {None}]

\* A list that could not be read is shown empty: version 0.
View == [status : {"loading", "connected", "disconnected"},
         containers : Version, lists : Version]

TypeOK ==
  /\ nativePort \in Ports \cup {None}
  /\ pending \in [Request -> Ports \cup {None}]
  /\ port \in [Ports -> {"unused", "open", "gone"}]
  /\ toHost \in [Ports -> Seq(Request)]
  /\ toWorker \in [Ports -> Seq(Response)]
  /\ host \in [Ports -> {"absent", "reading", "exited"}]
  /\ version \in Version
  /\ promise \in [Request -> {"idle", "pending", "resolved", "rejected", "done"}]
  /\ data \in [Request -> Version \cup {None}]
  /\ refreshes \subseteq Refreshes
  /\ owed \in BOOLEAN
  /\ view \in View

Init ==
  /\ nativePort = None
  /\ pending = [r \in Request |-> None]
  /\ port = [p \in Ports |-> "unused"]
  /\ toHost = [p \in Ports |-> <<>>]
  /\ toWorker = [p \in Ports |-> <<>>]
  /\ host = [p \in Ports |-> "absent"]
  /\ version = 0
  /\ promise = [r \in Request |-> "idle"]
  /\ data = [r \in Request |-> None]
  /\ refreshes = {}
  /\ owed = TRUE                             \* init ends with refreshApp
  /\ view = [status |-> "loading", containers |-> 0, lists |-> 0]

-----------------------------------------------------------------------------
(* The worker.  What an event settles in the page runs before the next event: *)
(* both queues, from the worker to the page and in the page, are in order.    *)

Pending == {r \in Request : pending[r] # None}

\* Promise.all of refresh f is settled.
Ready(f) ==
  \/ promise[<<f, "required">>] = "rejected"
  \/ /\ promise[<<f, "required">>] = "resolved"
     /\ promise[<<f, "optional">>] \in {"resolved", "rejected"}

PageIsIdle ==
  /\ \A f \in refreshes : ~Ready(f)
  /\ \A c \in Commands : promise[<<c, "command">>] \in {"idle", "pending", "done"}

\* connect: the port there is, or a new one; None when connectNative throws.
Connect ==
  LET unused == {p \in Ports : port[p] = "unused"} IN
  IF nativePort # None THEN nativePort
  ELSE IF unused # {} THEN (CHOOSE p \in unused : TRUE) ELSE None

\* nativeRequest for each of rs, in order.  A message on a port whose host is
\* gone is lost; requests whose postMessage throws are rejected and leave the
\* port alone.
Post(rs, thrown) ==
  LET p == Connect
      posted == {rs[i] : i \in DOMAIN rs}
      fails == thrown \/ p = None
  IN
    /\ nativePort' = p
    /\ pending' = [r \in Request |->
         IF r \in posted /\ ~fails THEN p ELSE pending[r]]
    /\ promise' = [r \in Request |->
         IF r \notin posted THEN promise[r]
         ELSE IF fails THEN "rejected" ELSE "pending"]
    /\ IF p = None
       THEN UNCHANGED <<port, host, toHost>>
       ELSE /\ port' = [port EXCEPT ![p] = "open"]
            /\ host' = [host EXCEPT ![p] = IF @ = "absent" THEN "reading" ELSE @]
            /\ toHost' = [toHost EXCEPT ![p] =
                 IF fails \/ host[p] = "exited" THEN @ ELSE @ \o rs]

\* The requests of rs leave the map, and the promises the page still waits for
\* become outcome.
Settle(rs, outcome) ==
  /\ pending' = [r \in Request |-> IF r \in rs THEN None ELSE pending[r]]
  /\ promise' = [r \in Request |->
       IF r \in rs /\ promise[r] = "pending" THEN outcome ELSE promise[r]]

\* The pending requests are left to their timers.
LeavePending == UNCHANGED <<pending, promise>>

\* The map is cleared and its promises are forgotten.
RejectPendingSilently ==
  /\ pending' = [r \in Request |-> None]
  /\ UNCHANGED promise

\* rejectPending, called when a port is gone: whatever is pending.
RejectPending == Settle(Pending, "rejected")

\* onMessage: an answer to what is no longer pending is ignored.
OnMessage(p) ==
  /\ PageIsIdle
  /\ port[p] = "open"
  /\ toWorker[p] # <<>>
  /\ LET answer == Head(toWorker[p]) IN
     /\ toWorker' = [toWorker EXCEPT ![p] = Tail(@)]
     /\ IF answer.id \notin Pending
        THEN UNCHANGED <<pending, promise, data>>
        ELSE /\ Settle({answer.id},
                       IF answer.data = None THEN "rejected" ELSE "resolved")
             /\ data' = [data EXCEPT ![answer.id] = answer.data]
  /\ UNCHANGED <<nativePort, port, toHost, process, refreshes, owed, view>>

\* onDisconnect: the next request opens a new port, the pending ones are
\* rejected, and the page is told.  Answers not delivered yet are lost.
OnDisconnect(p) ==
  /\ PageIsIdle
  /\ port[p] = "open"
  /\ host[p] = "exited"
  /\ port' = [port EXCEPT ![p] = "gone"]
  /\ toWorker' = [toWorker EXCEPT ![p] = <<>>]
  /\ nativePort' = IF nativePort = p THEN None ELSE nativePort
  /\ RejectPending
  /\ view' = [view EXCEPT !.status = "disconnected"]
  /\ UNCHANGED <<toHost, process, data, refreshes, owed>>

\* The timer of a request: only the worker gives up, the host does not.
TimeOut(r) ==
  /\ r \in Pending
  /\ Settle({r}, "rejected")
  /\ UNCHANGED <<nativePort, port, wire, process, data, refreshes, owed, view>>

-----------------------------------------------------------------------------
(* The host of port p: runMessageLoop *)

Idle(p) == host[p] = "reading" /\ toHost[p] # <<>>

\* What handling r may do to the metadata: a command changes it, or fails.
Outcome(r) ==
  IF r[2] # "command" THEN {[version |-> version, data |-> version]}
  ELSE {[version |-> version, data |-> None]} \cup
       {[version |-> version + 1, data |-> version + 1] : v \in {version} \ {MaxVersion}}

\* Responses are written by a goroutine each, and overtake each other.
SendOvertaking(p, response) ==
  toWorker' = [toWorker EXCEPT ![p] = <<response>> \o @]

\* WriteMessage.
Send(p, response) ==
  toWorker' = [toWorker EXCEPT ![p] = Append(@, response)]

\* Handle, then WriteMessage; the first response starts the startup cleanup
\* (module ContainerLifecycle; an OtherChange here).
Answer(p) ==
  /\ Idle(p)
  /\ LET r == Head(toHost[p]) IN
     \E outcome \in Outcome(r) :
       /\ version' = outcome.version
       /\ Send(p, [id |-> r, data |-> outcome.data])
  /\ toHost' = [toHost EXCEPT ![p] = Tail(@)]
  /\ UNCHANGED <<worker, host, page>>

\* A response above MaxMessageSize is not written: the loop returns, and the
\* request was handled.  A process that dies after handling looks the same.
AnswerLost(p) ==
  /\ Idle(p)
  /\ \E outcome \in Outcome(Head(toHost[p])) : version' = outcome.version
  /\ host' = [host EXCEPT ![p] = "exited"]
  /\ toHost' = [toHost EXCEPT ![p] = <<>>]
  /\ UNCHANGED <<worker, toWorker, page>>

\* DecodeRequest fails: an error response, and the loop goes on.
Refuse(p) ==
  /\ Idle(p)
  /\ Send(p, [id |-> Head(toHost[p]), data |-> None])
  /\ toHost' = [toHost EXCEPT ![p] = Tail(@)]
  /\ UNCHANGED <<worker, process, page>>

\* ReadMessage fails, on a message above MaxMessageSize: an error response to
\* the request "unknown", and the process ends.
ReadFails(p) ==
  /\ Idle(p)
  /\ Send(p, [id |-> None, data |-> None])
  /\ toHost' = [toHost EXCEPT ![p] = <<>>]
  /\ host' = [host EXCEPT ![p] = "exited"]
  /\ UNCHANGED <<worker, version, page>>

\* The process ends with no one asking: it was never installed, or it crashed.
HostDies(p) ==
  /\ host[p] = "reading"
  /\ host' = [host EXCEPT ![p] = "exited"]
  /\ toHost' = [toHost EXCEPT ![p] = <<>>]
  /\ UNCHANGED <<worker, toWorker, version, page>>

-----------------------------------------------------------------------------
(* The page *)

\* A command of the user, from any dialog or button.
StartCommand(c) ==
  LET r == <<c, "command">> IN
  /\ promise[r] = "idle"
  /\ \E thrown \in BOOLEAN : Post(<<r>>, thrown)
  /\ UNCHANGED <<toWorker, version, data, refreshes, owed, view>>

\* Its handler goes on: refreshApp after a success, a toast after an error.
EndCommand(c) ==
  LET r == <<c, "command">> IN
  /\ promise[r] \in {"resolved", "rejected"}
  /\ owed' = (owed \/ promise[r] = "resolved")
  /\ promise' = [promise EXCEPT ![r] = "done"]
  /\ data' = [data EXCEPT ![r] = None]
  /\ UNCHANGED <<worker, wire, process, refreshes, view>>

\* The Retry button.
RetryShown == view.status = "disconnected"

\* refreshApp up to Promise.all: on start, after a command, by Retry.
StartRefresh(f) ==
  /\ promise[<<f, "required">>] = "idle"
  /\ \A e \in Refreshes : e < f => promise[<<e, "required">>] # "idle"
  /\ owed \/ RetryShown
  /\ refreshes' = refreshes \cup {f}
  /\ owed' = FALSE
  /\ view' = [view EXCEPT !.status = "loading"]
  /\ Post(<<<<f, "required">>, <<f, "optional">>>>, FALSE)
  /\ UNCHANGED <<toWorker, version, data>>

\* The oldest of the refreshes that can go on goes on first: the promises of an
\* older one were settled first.
Turn(f) ==
  /\ f \in refreshes
  /\ Ready(f)
  /\ \A e \in refreshes : e < f => ~Ready(e)

\* The page drops the promises of refresh f.
Forget(f) ==
  LET asked == {f} \X {"required", "optional"} IN
  /\ refreshes' = refreshes \ {f}
  /\ promise' = [r \in Request |-> IF r \in asked THEN "done" ELSE promise[r]]
  /\ data' = [r \in Request |-> IF r \in asked THEN None ELSE data[r]]

\* What a failed list leaves in its place is taken for a list.
ListsUnchecked(f) == data[<<f, "optional">>]

\* The optional lists, or the empty ones of .catch(() => []).
Lists(f) ==
  IF promise[<<f, "optional">>] = "resolved" THEN data[<<f, "optional">>] ELSE 0

\* refreshApp after Promise.all: what failed among the optional is empty.
EndRefresh(f) ==
  /\ Turn(f)
  /\ promise[<<f, "required">>] = "resolved"
  /\ view' = [status |-> "connected",
              containers |-> data[<<f, "required">>], lists |-> Lists(f)]
  /\ Forget(f)
  /\ UNCHANGED <<worker, wire, process, owed>>

\* refreshApp, the catch: as soon as a required answer fails.  The lists stay.
FailRefresh(f) ==
  /\ Turn(f)
  /\ promise[<<f, "required">>] = "rejected"
  /\ view' = [view EXCEPT !.status = "disconnected"]
  /\ Forget(f)
  /\ UNCHANGED <<worker, wire, process, owed>>

\* Another host of the same data directory, a watcher or the startup cleanup
\* changes the metadata.
OtherChange ==
  /\ version < MaxVersion
  /\ version' = version + 1
  /\ UNCHANGED <<worker, wire, host, page>>

-----------------------------------------------------------------------------
(* The specification *)

Next ==
  \/ \E p \in Ports :
       \/ OnMessage(p) \/ OnDisconnect(p)
       \/ Answer(p) \/ AnswerLost(p) \/ Refuse(p) \/ ReadFails(p)
       \/ HostDies(p)
  \/ \E r \in Request : TimeOut(r)
  \/ \E c \in Commands : StartCommand(c) \/ EndCommand(c)
  \/ \E f \in Refreshes : StartRefresh(f) \/ EndRefresh(f) \/ FailRefresh(f)
  \/ OtherChange

\* setTimeout fires, and a settled promise runs what awaits it, the refresh that
\* is owed included.  Nothing is assumed of the host, of Chrome's events or of
\* the user.
Fairness ==
  /\ \A r \in Request : WF_vars(TimeOut(r))
  /\ \A f \in Refreshes : /\ WF_vars(StartRefresh(f) /\ owed)
                          /\ WF_vars(EndRefresh(f))
                          /\ WF_vars(FailRefresh(f))

Spec == Init /\ [][Next]_vars
FairSpec == Spec /\ Fairness

-----------------------------------------------------------------------------
(* Properties *)

\* The worker never holds two ports: the one in nativePort is the only one
\* whose disconnect event is still to come, and every pending request was
\* posted on it.  rejectPending rejects whatever is pending without looking at
\* ports, so this is what keeps the event of an old port (background.js:29)
\* from failing the requests of a new one, and a request from waiting for a
\* port that is gone.
PendingOnTheOpenPort ==
  /\ {p \in Ports : port[p] = "open"} = {nativePort} \ {None}
  /\ \A r \in Pending : pending[r] = nativePort

\* The page never replaces a list of containers by an older one, nor the other
\* lists by older ones that are not the empty ones of a failed request:
\* refreshApp may run several times at once (after two commands, or by Retry),
\* and writes whatever it was answered.
NeverShowsOlder ==
  [][/\ view'.containers >= view.containers
     /\ view'.lists # 0 => view'.lists >= view.lists]_view

\* Every refresh ends, and the page never stays "loading", whatever becomes of
\* the host, the port and the answers: a promise of nativeRequest is settled by
\* its answer, its timer or the loss of the port.
RefreshEnds ==
  /\ \A f \in Refreshes : f \in refreshes ~> f \notin refreshes
  /\ view.status = "loading" ~> view.status # "loading"
=============================================================================
