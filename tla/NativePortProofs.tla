--------------------------- MODULE NativePortProofs ---------------------------
(***************************************************************************)
(* Proofs about the page, the worker and its native port (NativePort): the *)
(* state is of its type, requests wait on the one open port only, and the  *)
(* page never shows a list older than the one it showed.                   *)
(*                                                                         *)
(* The last is a matter of order, and its invariant follows the requests   *)
(* of the refreshes from the page to a host and back: what an older        *)
(* refresh still waits for is answered, or read, before what a newer one   *)
(* asked (FirstOut), the answers on their way are as recent as each other  *)
(* or more (Recent), and so a newer refresh is never answered while an     *)
(* older one waits (Overtaken).                                            *)
(***************************************************************************)
EXTENDS NativePort, TLAPS

-----------------------------------------------------------------------------
(* The parts of a step *)

\* connect returns the port there is, or an unused one when there is none; it
\* fails only when there is none.
LEMMA Connected ==
  ASSUME TypeOK
  PROVE  /\ Connect \in Ports \cup {None}
         /\ nativePort # None => Connect = nativePort
         /\ nativePort = None /\ Connect # None => port[Connect] = "unused"
<1>1. CASE nativePort # None
  BY <1>1 DEF Connect, TypeOK
<1>2. CASE nativePort = None /\ {p \in Ports : port[p] = "unused"} # {}
  <2>1. PICK p \in {q \in Ports : port[q] = "unused"} :
          p = CHOOSE q \in {q \in Ports : port[q] = "unused"} : TRUE
    BY <1>2
  <2>2. Connect = p
    BY <1>2, <2>1 DEF Connect
  <2> QED
    BY <1>2, <2>1, <2>2
<1>3. CASE nativePort = None /\ {p \in Ports : port[p] = "unused"} = {}
  BY <1>3 DEF Connect
<1> QED
  BY <1>1, <1>2, <1>3

\* What nativeRequest sets is of its type.
LEMMA PostType ==
  ASSUME TypeOK, NEW rs \in Seq(Request), NEW thrown \in BOOLEAN,
         Post(rs, thrown)
  PROVE  /\ nativePort' \in Ports \cup {None}
         /\ pending' \in [Request -> Ports \cup {None}]
         /\ port' \in [Ports -> {"unused", "open", "gone"}]
         /\ toHost' \in [Ports -> Seq(Request)]
         /\ host' \in [Ports -> {"absent", "reading", "exited"}]
         /\ promise' \in [Request -> {"idle", "pending", "resolved", "rejected", "done"}]
<1> DEFINE p == Connect
           posted == {rs[i] : i \in DOMAIN rs}
           fails == thrown \/ p = None
<1>1. p \in Ports \cup {None}
  BY Connected
<1>2. /\ nativePort' = p
      /\ pending' = [r \in Request |->
           IF r \in posted /\ ~fails THEN p ELSE pending[r]]
      /\ promise' = [r \in Request |->
           IF r \notin posted THEN promise[r]
           ELSE IF fails THEN "rejected" ELSE "pending"]
      /\ IF p = None
         THEN UNCHANGED <<port, host, toHost>>
         ELSE /\ port' = [port EXCEPT ![p] = "open"]
              /\ host' = [host EXCEPT ![p] = IF @ = "absent" THEN "reading" ELSE @]
              /\ toHost' = [toHost EXCEPT ![p] =
                   IF fails \/ host[p] = "exited" THEN @ ELSE @ \o rs]
  BY Zenon DEF Post
<1> HIDE DEF p, posted, fails
<1>3. /\ pending \in [Request -> Ports \cup {None}]
      /\ port \in [Ports -> {"unused", "open", "gone"}]
      /\ toHost \in [Ports -> Seq(Request)]
      /\ host \in [Ports -> {"absent", "reading", "exited"}]
      /\ promise \in [Request -> {"idle", "pending", "resolved", "rejected", "done"}]
  BY DEF TypeOK
<1>4. nativePort' \in Ports \cup {None} /\ pending' \in [Request -> Ports \cup {None}]
  BY <1>1, <1>2, <1>3
<1>5. promise' \in [Request -> {"idle", "pending", "resolved", "rejected", "done"}]
  BY <1>2, <1>3
<1>6. CASE p = None
  BY <1>2, <1>3, <1>4, <1>5, <1>6
<1>7. CASE p # None
  <2>1. p \in Ports
    BY <1>1, <1>7
  <2>2. /\ port' \in [Ports -> {"unused", "open", "gone"}]
        /\ host' \in [Ports -> {"absent", "reading", "exited"}]
    BY <1>2, <1>3, <1>7, <2>1
  <2> DEFINE s == toHost[p] \o rs
  <2>3. s \in Seq(Request)
    BY <1>3, <2>1
  <2>4. toHost' = [toHost EXCEPT ![p] = IF fails \/ host[p] = "exited" THEN @ ELSE s]
    BY <1>2, <1>7
  <2> HIDE DEF s
  <2>5. toHost' \in [Ports -> Seq(Request)]
    BY <1>3, <2>1, <2>3, <2>4
  <2> QED
    BY <1>4, <1>5, <2>2, <2>5
<1> QED
  BY <1>6, <1>7

\* What Settle sets is of its type.
LEMMA SettleType ==
  ASSUME TypeOK, NEW rs, NEW outcome \in {"resolved", "rejected"},
         Settle(rs, outcome)
  PROVE  /\ pending' \in [Request -> Ports \cup {None}]
         /\ promise' \in [Request -> {"idle", "pending", "resolved", "rejected", "done"}]
BY DEF TypeOK, Settle

\* A list read from the metadata, or after a change, is a version.
LEMMA OutcomeType ==
  ASSUME TypeOK, NEW r, NEW outcome \in Outcome(r)
  PROVE  /\ outcome.version \in Version
         /\ outcome.data \in Version \cup {None}
         /\ outcome.version \in {version, version + 1}
         /\ outcome.data # None => outcome.data = outcome.version
<1>1. version \in Version /\ MaxVersion \in Nat
  BY BoundsAssumption DEF TypeOK
<1>2. CASE outcome = [version |-> version, data |-> version]
  BY <1>1, <1>2
<1>3. CASE outcome = [version |-> version, data |-> None]
  BY <1>1, <1>3
<1>4. CASE /\ outcome = [version |-> version + 1, data |-> version + 1]
           /\ version # MaxVersion
  BY <1>1, <1>4 DEF Version
<1> QED
  BY <1>2, <1>3, <1>4 DEF Outcome

-----------------------------------------------------------------------------
(* The state is of its type *)

\* A promise is settled, in the page and in the worker, at once; a refresh that
\* gave up on a failure leaves what it still asked for to the worker.
Settled ==
  /\ \A r \in Request : promise[r] = "pending" => r \in Pending
  /\ \A r \in Pending : promise[r] \in {"pending", "done"}
  /\ \A r \in Request : promise[r] = "resolved" => data[r] \in Version

\* The requests of a refresh are made together.
Together ==
  \A f \in Refreshes :
    promise[<<f, "required">>] = "idle" <=> promise[<<f, "optional">>] = "idle"

\* What the page is shown is a version, because what it was answered is.
LEMMA TypeStep ==
  ASSUME TypeOK, Settled, [Next]_vars
  PROVE  TypeOK'
<1>1. CASE UNCHANGED vars
  BY <1>1 DEF TypeOK, vars, worker, wire, process, page
<1>2. ASSUME NEW p \in Ports, OnMessage(p)
      PROVE  TypeOK'
  <2> DEFINE answer == Head(toWorker[p])
  <2>1. answer \in Response /\ Tail(toWorker[p]) \in Seq(Response)
    BY <1>2 DEF OnMessage, TypeOK
  <2>2. toWorker' = [toWorker EXCEPT ![p] = Tail(@)]
    BY <1>2 DEF OnMessage
  <2>3. toWorker' \in [Ports -> Seq(Response)]
    BY <2>1, <2>2 DEF TypeOK
  <2>4. IF answer.id \notin Pending
        THEN UNCHANGED <<pending, promise, data>>
        ELSE /\ Settle({answer.id},
                       IF answer.data = None THEN "rejected" ELSE "resolved")
             /\ data' = [data EXCEPT ![answer.id] = answer.data]
    BY <1>2 DEF OnMessage
  <2>5. answer.data \in Version \cup {None}
    BY <2>1 DEF Response
  <2> HIDE DEF answer
  <2>6. /\ pending' \in [Request -> Ports \cup {None}]
        /\ promise' \in [Request -> {"idle", "pending", "resolved", "rejected", "done"}]
    <3>1. CASE answer.id \notin Pending
      BY <2>4, <3>1 DEF TypeOK
    <3>2. CASE answer.id \in Pending
      <4>1. Settle({answer.id},
                   IF answer.data = None THEN "rejected" ELSE "resolved")
        BY <2>4, <3>2
      <4> QED
        BY <4>1, SettleType
    <3> QED
      BY <3>1, <3>2
  <2>7. data' \in [Request -> Version \cup {None}]
    BY <2>4, <2>5 DEF TypeOK
  <2> QED
    BY <1>2, <2>3, <2>6, <2>7 DEF OnMessage, TypeOK, process
<1>3. ASSUME NEW p \in Ports, OnDisconnect(p)
      PROVE  TypeOK'
  <2>1. /\ pending' \in [Request -> Ports \cup {None}]
        /\ promise' \in [Request -> {"idle", "pending", "resolved", "rejected", "done"}]
    <3>1. Settle(Pending, "rejected")
      BY <1>3 DEF OnDisconnect, RejectPending
    <3> QED
      BY <3>1, SettleType
  <2>2. toWorker' \in [Ports -> Seq(Response)]
    <3>1. <<>> \in Seq(Response)
      OBVIOUS
    <3> QED
      BY <1>3, <3>1 DEF OnDisconnect, TypeOK
  <2>3. view' \in View
    BY <1>3 DEF OnDisconnect, TypeOK, View
  <2> QED
    BY <1>3, <2>1, <2>2, <2>3 DEF OnDisconnect, TypeOK, process
<1>4. ASSUME NEW p \in Ports, Answer(p) \/ AnswerLost(p) \/ Refuse(p)
                              \/ ReadFails(p) \/ HostDies(p)
      PROVE  TypeOK'
  <2>1. ASSUME Idle(p)
        PROVE  /\ Head(toHost[p]) \in Request
               /\ Tail(toHost[p]) \in Seq(Request)
    BY <2>1 DEF Idle, TypeOK
  <2>2. ASSUME NEW response \in Response, Send(p, response)
        PROVE  toWorker' \in [Ports -> Seq(Response)]
    <3>1. Append(toWorker[p], response) \in Seq(Response)
      BY DEF TypeOK
    <3> DEFINE s == Append(toWorker[p], response)
    <3>2. toWorker' = [toWorker EXCEPT ![p] = s]
      BY <2>2 DEF Send
    <3> HIDE DEF s
    <3> QED
      BY <3>1, <3>2 DEF TypeOK, s
  <2>3. <<>> \in Seq(Request)
    OBVIOUS
  <2>4. toHost' \in [Ports -> Seq(Request)]
    <3>1. CASE HostDies(p)
      BY <2>3, <3>1 DEF HostDies, TypeOK
    <3>2. CASE AnswerLost(p) \/ ReadFails(p)
      BY <2>3, <3>2 DEF AnswerLost, ReadFails, TypeOK
    <3>3. CASE Answer(p) \/ Refuse(p)
      <4> DEFINE s == Tail(toHost[p])
      <4>1. s \in Seq(Request)
        BY <2>1, <3>3 DEF Answer, Refuse
      <4>2. toHost' = [toHost EXCEPT ![p] = s]
        BY <3>3 DEF Answer, Refuse
      <4> HIDE DEF s
      <4> QED
        BY <4>1, <4>2 DEF TypeOK
    <3> QED
      BY <1>4, <3>1, <3>2, <3>3
  <2>5. CASE HostDies(p)
    BY <2>4, <2>5 DEF HostDies, TypeOK, worker, page
  <2>6. CASE Answer(p)
    <3>1. PICK outcome \in Outcome(Head(toHost[p])) :
            /\ version' = outcome.version
            /\ Send(p, [id |-> Head(toHost[p]), data |-> outcome.data])
      BY <2>6 DEF Answer
    <3>2. version' \in Version /\ outcome.data \in Version \cup {None}
      BY <3>1, OutcomeType
    <3>3. [id |-> Head(toHost[p]), data |-> outcome.data] \in Response
      BY <2>1, <2>6, <3>2 DEF Answer, Response
    <3>4. toWorker' \in [Ports -> Seq(Response)]
      BY <2>2, <3>1, <3>3
    <3> QED
      BY <2>4, <2>6, <3>2, <3>4 DEF Answer, TypeOK, worker, page
  <2>7. CASE AnswerLost(p)
    <3>1. version' \in Version
      BY <2>7, OutcomeType DEF AnswerLost
    <3> QED
      BY <2>4, <2>7, <3>1 DEF AnswerLost, TypeOK, worker, page
  <2>8. CASE Refuse(p)
    <3>1. [id |-> Head(toHost[p]), data |-> None] \in Response
      BY <2>1, <2>8 DEF Refuse, Response
    <3>2. toWorker' \in [Ports -> Seq(Response)]
      BY <2>2, <2>8, <3>1 DEF Refuse
    <3> QED
      BY <2>4, <2>8, <3>2 DEF Refuse, TypeOK, worker, process, page
  <2>9. CASE ReadFails(p)
    <3>1. [id |-> None, data |-> None] \in Response
      BY DEF Response
    <3>2. toWorker' \in [Ports -> Seq(Response)]
      BY <2>2, <2>9, <3>1 DEF ReadFails
    <3> QED
      BY <2>4, <2>9, <3>2 DEF ReadFails, TypeOK, worker, page
  <2> QED
    BY <1>4, <2>5, <2>6, <2>7, <2>8, <2>9
<1>5. ASSUME NEW r \in Request, TimeOut(r)
      PROVE  TypeOK'
  <2>1. /\ pending' \in [Request -> Ports \cup {None}]
        /\ promise' \in [Request -> {"idle", "pending", "resolved", "rejected", "done"}]
    <3>1. Settle({r}, "rejected")
      BY <1>5 DEF TimeOut
    <3> QED
      BY <3>1, SettleType
  <2> QED
    BY <1>5, <2>1 DEF TimeOut, TypeOK, wire, process
<1>6. ASSUME NEW c \in Commands, StartCommand(c)
      PROVE  TypeOK'
  <2>1. <<<<c, "command">>>> \in Seq(Request)
    BY DEF Request
  <2>2. PICK thrown \in BOOLEAN : Post(<<<<c, "command">>>>, thrown)
    BY <1>6 DEF StartCommand
  <2>3. /\ nativePort' \in Ports \cup {None}
        /\ pending' \in [Request -> Ports \cup {None}]
        /\ port' \in [Ports -> {"unused", "open", "gone"}]
        /\ toHost' \in [Ports -> Seq(Request)]
        /\ host' \in [Ports -> {"absent", "reading", "exited"}]
        /\ promise' \in [Request -> {"idle", "pending", "resolved", "rejected", "done"}]
    BY <2>1, <2>2, PostType
  <2> QED
    BY <1>6, <2>3 DEF StartCommand, TypeOK
<1>7. ASSUME NEW c \in Commands, EndCommand(c)
      PROVE  TypeOK'
  <2>1. /\ owed' \in BOOLEAN
        /\ promise' \in [Request -> {"idle", "pending", "resolved", "rejected", "done"}]
        /\ data' \in [Request -> Version \cup {None}]
    BY <1>7 DEF EndCommand, TypeOK
  <2> QED
    BY <1>7, <2>1 DEF EndCommand, TypeOK, worker, wire, process
<1>8. ASSUME NEW f \in Refreshes, StartRefresh(f)
      PROVE  TypeOK'
  <2>1. <<<<f, "required">>, <<f, "optional">>>> \in Seq(Request)
    BY DEF Request
  <2>2. Post(<<<<f, "required">>, <<f, "optional">>>>, FALSE)
    BY <1>8 DEF StartRefresh
  <2>3. /\ nativePort' \in Ports \cup {None}
        /\ pending' \in [Request -> Ports \cup {None}]
        /\ port' \in [Ports -> {"unused", "open", "gone"}]
        /\ toHost' \in [Ports -> Seq(Request)]
        /\ host' \in [Ports -> {"absent", "reading", "exited"}]
        /\ promise' \in [Request -> {"idle", "pending", "resolved", "rejected", "done"}]
    BY <2>1, <2>2, PostType
  <2>4. refreshes' \subseteq Refreshes /\ owed' \in BOOLEAN
    BY <1>8 DEF StartRefresh, TypeOK
  <2>5. view' \in View
    BY <1>8 DEF StartRefresh, TypeOK, View
  <2> QED
    BY <1>8, <2>3, <2>4, <2>5 DEF StartRefresh, TypeOK
<1>9. ASSUME NEW f \in Refreshes, EndRefresh(f) \/ FailRefresh(f)
      PROVE  TypeOK'
  <2>1. Forget(f)
    BY <1>9 DEF EndRefresh, FailRefresh
  <2>2. /\ refreshes' \subseteq Refreshes
        /\ promise' \in [Request -> {"idle", "pending", "resolved", "rejected", "done"}]
        /\ data' \in [Request -> Version \cup {None}]
    BY <2>1 DEF Forget, TypeOK
  <2>3. view' \in View
    <3>1. CASE FailRefresh(f)
      BY <3>1 DEF FailRefresh, TypeOK, View
    <3>2. CASE EndRefresh(f)
      <4>1. <<f, "required">> \in Request /\ <<f, "optional">> \in Request
        BY DEF Request
      <4>2. data[<<f, "required">>] \in Version
        BY <3>2, <4>1 DEF EndRefresh, Settled
      <4>3. Lists(f) \in Version
        BY <4>1, BoundsAssumption DEF Lists, Settled, Version
      <4> QED
        BY <3>2, <4>2, <4>3 DEF EndRefresh, View
    <3> QED
      BY <1>9, <3>1, <3>2
  <2> QED
    BY <1>9, <2>2, <2>3 DEF EndRefresh, FailRefresh, TypeOK, worker, wire, process
<1>10. CASE OtherChange
  <2>1. version' \in Version
    BY <1>10, BoundsAssumption DEF OtherChange, TypeOK, Version
  <2> QED
    BY <1>10, <2>1 DEF OtherChange, TypeOK, worker, wire, page
<1> QED
  BY <1>1, <1>2, <1>3, <1>4, <1>5, <1>6, <1>7, <1>8, <1>9, <1>10 DEF Next

\* A request is posted once.
LEMMA PostSettles ==
  ASSUME TypeOK, Settled, NEW rs \in Seq(Request), NEW thrown \in BOOLEAN,
         Post(rs, thrown), UNCHANGED data,
         \A i \in DOMAIN rs : promise[rs[i]] = "idle"
  PROVE  Settled'
<1> DEFINE p == Connect
           posted == {rs[i] : i \in DOMAIN rs}
           fails == thrown \/ p = None
<1>1. \A r \in posted : promise[r] = "idle"
  OBVIOUS
<1>2. ~fails => p # None
  OBVIOUS
<1>3. /\ pending' = [r \in Request |->
           IF r \in posted /\ ~fails THEN p ELSE pending[r]]
      /\ promise' = [r \in Request |->
           IF r \notin posted THEN promise[r]
           ELSE IF fails THEN "rejected" ELSE "pending"]
  BY Zenon DEF Post
<1> HIDE DEF p, posted, fails
<1>4. \A r \in Request : r \in posted => pending[r] = None
  BY <1>1 DEF Settled, Pending, TypeOK
<1>5. Pending' = {r \in Request : pending'[r] # None}
  BY DEF Pending
<1>6. \A r \in Request : promise'[r] = "pending" => pending'[r] # None
  BY <1>2, <1>3 DEF Settled, Pending
<1>7. \A r \in Request : pending'[r] # None => promise'[r] \in {"pending", "done"}
  BY <1>3, <1>4 DEF Settled, Pending
<1>8. \A r \in Request : promise'[r] = "resolved" => data'[r] \in Version
  BY <1>3 DEF Settled
<1> QED
  BY <1>5, <1>6, <1>7, <1>8 DEF Settled

\* Settled is kept by every step.
LEMMA SettledStep ==
  ASSUME TypeOK, Settled, Together, [Next]_vars
  PROVE  Settled'
<1>1. CASE UNCHANGED <<pending, promise, data>>
  BY <1>1 DEF Settled, Pending
<1>2. ASSUME NEW p \in Ports, OnMessage(p)
      PROVE  Settled'
  <2> DEFINE answer == Head(toWorker[p])
             outcome == IF answer.data = None THEN "rejected" ELSE "resolved"
  <2>1. answer \in Response
    BY <1>2 DEF OnMessage, TypeOK
  <2>2. IF answer.id \notin Pending
        THEN UNCHANGED <<pending, promise, data>>
        ELSE /\ Settle({answer.id}, outcome)
             /\ data' = [data EXCEPT ![answer.id] = answer.data]
    BY <1>2 DEF OnMessage
  <2>3. answer.data \in Version \/ outcome = "rejected"
    BY <2>1 DEF Response
  <2>4. outcome \in {"rejected", "resolved"}
    OBVIOUS
  <2> HIDE DEF answer, outcome
  <2>5. CASE answer.id \in Pending
    <3> DEFINE id == answer.id
    <3>1. id \in Request /\ promise[id] \in {"pending", "done"}
      BY <2>5 DEF Settled, Pending
    <3>2. /\ pending' = [r \in Request |-> IF r = id THEN None ELSE pending[r]]
          /\ promise' = [r \in Request |->
               IF r = id /\ promise[r] = "pending" THEN outcome ELSE promise[r]]
      BY <2>2, <2>5, Zenon DEF Settle
    <3>3. data' = [data EXCEPT ![id] = answer.data]
      BY <2>2, <2>5
    <3> HIDE DEF id
    <3>4. \A r \in Request : promise'[r] = "pending" => pending'[r] # None
      BY <2>4, <3>1, <3>2 DEF Settled, Pending
    <3>5. \A r \in Request : pending'[r] # None => promise'[r] \in {"pending", "done"}
      BY <3>1, <3>2 DEF Settled, Pending
    <3>6. \A r \in Request : promise'[r] = "resolved" => data'[r] \in Version
      BY <2>3, <3>1, <3>2, <3>3 DEF Settled, TypeOK
    <3> QED
      BY <3>4, <3>5, <3>6 DEF Settled, Pending
  <2> QED
    BY <1>1, <2>2, <2>5
<1>3. ASSUME NEW rs, Settle(rs, "rejected"), UNCHANGED data
      PROVE  Settled'
  BY <1>3 DEF Settle, Settled, Pending, TypeOK
<1>4. ASSUME NEW c \in Commands, StartCommand(c)
      PROVE  Settled'
  <2> DEFINE rs == <<<<c, "command">>>>
  <2>1. rs \in Seq(Request) /\ \A i \in DOMAIN rs : promise[rs[i]] = "idle"
    BY <1>4 DEF Request, StartCommand
  <2>2. \E thrown \in BOOLEAN : Post(rs, thrown) /\ UNCHANGED data
    BY <1>4 DEF StartCommand
  <2> HIDE DEF rs
  <2> QED
    BY <2>1, <2>2, PostSettles
<1>5. ASSUME NEW c \in Commands, EndCommand(c)
      PROVE  Settled'
  BY <1>5 DEF EndCommand, Settled, Pending, TypeOK, worker, Request
<1>6. ASSUME NEW f \in Refreshes, StartRefresh(f)
      PROVE  Settled'
  <2> DEFINE rs == <<<<f, "required">>, <<f, "optional">>>>
  <2>1. rs \in Seq(Request) /\ \A i \in DOMAIN rs : promise[rs[i]] = "idle"
    BY <1>6 DEF Request, StartRefresh, Together
  <2>2. Post(rs, FALSE) /\ UNCHANGED data
    BY <1>6 DEF StartRefresh
  <2> HIDE DEF rs
  <2> QED
    BY <2>1, <2>2, PostSettles
<1>7. ASSUME NEW f, Forget(f), UNCHANGED pending
      PROVE  Settled'
  BY <1>7 DEF Forget, Settled, Pending, TypeOK
<1>8. CASE UNCHANGED vars
  BY <1>1, <1>8 DEF vars, worker, page
<1>9. ASSUME NEW p \in Ports, OnDisconnect(p)
      PROVE  Settled'
  BY <1>3, <1>9 DEF OnDisconnect, RejectPending
<1>10. ASSUME NEW p \in Ports, Answer(p) \/ AnswerLost(p) \/ Refuse(p)
                               \/ ReadFails(p) \/ HostDies(p)
       PROVE  Settled'
  BY <1>1, <1>10 DEF Answer, AnswerLost, Refuse, ReadFails, HostDies, worker, page
<1>11. ASSUME NEW r \in Request, TimeOut(r)
       PROVE  Settled'
  BY <1>3, <1>11 DEF TimeOut
<1>12. ASSUME NEW f \in Refreshes, EndRefresh(f) \/ FailRefresh(f)
       PROVE  Settled'
  BY <1>7, <1>12 DEF EndRefresh, FailRefresh, worker
<1>13. CASE OtherChange
  BY <1>1, <1>13 DEF OtherChange, worker, page
<1> QED
  BY <1>2, <1>4, <1>5, <1>6, <1>8, <1>9, <1>10, <1>11, <1>12, <1>13 DEF Next

-----------------------------------------------------------------------------
(* What becomes of a promise, and of what is on its way to and from a host *)

\* A request r is answered on port p: the answer that arrives is the first of
\* those on their way.
AnsweredOn(p, r) ==
  /\ port[p] = "open"
  /\ toWorker[p] # <<>>
  /\ Head(toWorker[p]).id = r
  /\ data'[r] = Head(toWorker[p]).data
  /\ data'[r] # None

\* What refresh f asks for.
Asked(f) == {f} \X {"required", "optional"}

\* The request r is made.
Made(r) ==
  \/ \E c \in Commands : r = <<c, "command">> /\ StartCommand(c)
  \/ \E f \in Refreshes : r \in Asked(f) /\ StartRefresh(f)

\* The page drops its promise of the request r.
Dropped(r) ==
  \/ \E c \in Commands : r = <<c, "command">>
  \/ \E f \in Refreshes : r \in Asked(f) /\ (EndRefresh(f) \/ FailRefresh(f))

\* All that one step does to the promise of r.
PromiseMoves(r) ==
  \/ /\ promise'[r] = promise[r]
     /\ promise[r] = "resolved" => data'[r] = data[r]
  \/ promise[r] = "idle" /\ promise'[r] \in {"pending", "rejected"} /\ Made(r)
  \/ promise[r] = "pending" /\ promise'[r] = "rejected"
  \/ promise[r] # "idle" /\ promise'[r] = "done" /\ Dropped(r)
  \/ /\ promise[r] = "pending" /\ promise'[r] = "resolved"
     /\ \E p \in Ports : AnsweredOn(p, r)

LEMMA PromiseMove ==
  ASSUME TypeOK, Settled, Together, [Next]_vars, NEW r \in Request
  PROVE  PromiseMoves(r)
<1>1. CASE UNCHANGED <<promise, data>>
  BY <1>1 DEF PromiseMoves
<1>2. ASSUME NEW p \in Ports, OnMessage(p)
      PROVE  PromiseMoves(r)
  <2> DEFINE answer == Head(toWorker[p])
             outcome == IF answer.data = None THEN "rejected" ELSE "resolved"
  <2>1. answer \in Response
    BY <1>2 DEF OnMessage, TypeOK
  <2>2. IF answer.id \notin Pending
        THEN UNCHANGED <<pending, promise, data>>
        ELSE /\ Settle({answer.id}, outcome)
             /\ data' = [data EXCEPT ![answer.id] = answer.data]
    BY <1>2 DEF OnMessage
  <2>3. IF answer.data = None THEN outcome = "rejected" ELSE outcome = "resolved"
    OBVIOUS
  <2> HIDE DEF outcome
  <2>4. CASE answer.id \in Pending
    <3> HIDE DEF answer
    <3>1. CASE answer.id # r
      BY <2>2, <2>4, <3>1 DEF Settle, PromiseMoves, TypeOK, Pending
    <3>2. CASE answer.id = r
      <4>1. promise[r] \in {"pending", "done"}
        BY <2>4, <3>2 DEF Settled
      <4>2. data'[r] = answer.data
        BY <2>2, <2>4, <3>2 DEF TypeOK
      <4>3. promise'[r] = IF promise[r] = "pending" THEN outcome ELSE promise[r]
        BY <2>2, <2>4, <3>2 DEF Settle
      <4>4. ASSUME answer.data # None, promise[r] = "pending"
            PROVE  AnsweredOn(p, r)
        BY <1>2, <3>2, <4>2, <4>4 DEF AnsweredOn, OnMessage, answer
      <4> QED
        BY <2>3, <4>1, <4>3, <4>4 DEF PromiseMoves
    <3> QED
      BY <3>1, <3>2
  <2> QED
    BY <1>1, <2>2, <2>4
<1>3. ASSUME NEW rs, Settle(rs, "rejected"), UNCHANGED data
      PROVE  PromiseMoves(r)
  BY <1>3 DEF Settle, PromiseMoves
<1>4. ASSUME NEW rs \in Seq(Request), NEW thrown \in BOOLEAN, Post(rs, thrown),
             \A i \in DOMAIN rs : promise[rs[i]] = "idle" /\ Made(rs[i]),
             UNCHANGED data
      PROVE  PromiseMoves(r)
  <2> DEFINE posted == {rs[i] : i \in DOMAIN rs}
             fails == thrown \/ Connect = None
  <2>1. promise' = [q \in Request |->
          IF q \notin posted THEN promise[q]
          ELSE IF fails THEN "rejected" ELSE "pending"]
    BY <1>4, Zenon DEF Post
  <2>2. \A q \in posted : promise[q] = "idle" /\ Made(q)
    BY <1>4
  <2> HIDE DEF posted, fails
  <2> QED
    BY <1>4, <2>1, <2>2 DEF PromiseMoves
<1>5. ASSUME NEW c \in Commands, StartCommand(c)
      PROVE  PromiseMoves(r)
  <2> DEFINE rs == <<<<c, "command">>>>
  <2>1. Made(<<c, "command">>) /\ promise[<<c, "command">>] = "idle"
    BY <1>5 DEF Made, StartCommand
  <2>2. /\ rs \in Seq(Request)
        /\ \A i \in DOMAIN rs : promise[rs[i]] = "idle" /\ Made(rs[i])
    BY <2>1 DEF Request
  <2>3. \E thrown \in BOOLEAN : Post(rs, thrown) /\ UNCHANGED data
    BY <1>5 DEF StartCommand
  <2> HIDE DEF rs
  <2> QED
    BY <1>4, <2>3, <2>2
<1>6. ASSUME NEW c \in Commands, EndCommand(c)
      PROVE  PromiseMoves(r)
  <2>1. Dropped(<<c, "command">>)
    BY DEF Dropped
  <2> QED
    BY <1>6, <2>1 DEF EndCommand, PromiseMoves, TypeOK
<1>7. ASSUME NEW f \in Refreshes, StartRefresh(f)
      PROVE  PromiseMoves(r)
  <2> DEFINE rs == <<<<f, "required">>, <<f, "optional">>>>
  <2>1. \A q \in Asked(f) : promise[q] = "idle" /\ Made(q)
    <3>1. \A q \in Asked(f) : promise[q] = "idle"
      BY <1>7 DEF StartRefresh, Together, Asked
    <3>2. \A q \in Asked(f) : Made(q)
      BY <1>7 DEF Made
    <3> QED
      BY <3>1, <3>2
  <2>2. /\ rs \in Seq(Request)
        /\ \A i \in DOMAIN rs : promise[rs[i]] = "idle" /\ Made(rs[i])
    BY <2>1 DEF Request, Asked
  <2>3. Post(rs, FALSE) /\ UNCHANGED data
    BY <1>7 DEF StartRefresh
  <2> HIDE DEF rs
  <2> QED
    BY <1>4, <2>3, <2>2
<1>8. ASSUME NEW f \in Refreshes, EndRefresh(f) \/ FailRefresh(f)
      PROVE  PromiseMoves(r)
  <2>1. Forget(f) /\ promise[<<f, "required">>] # "idle"
    BY <1>8 DEF EndRefresh, FailRefresh
  <2>2. \A q \in Asked(f) : promise[q] # "idle"
    BY <2>1 DEF Together, Asked
  <2>3. \A q \in Asked(f) : Dropped(q)
    BY <1>8 DEF Dropped
  <2>4. /\ promise'[r] = IF r \in Asked(f) THEN "done" ELSE promise[r]
        /\ data'[r] = IF r \in Asked(f) THEN None ELSE data[r]
    BY <2>1 DEF Forget, Asked
  <2> QED
    BY <2>2, <2>3, <2>4 DEF PromiseMoves
<1>9. CASE UNCHANGED vars
  BY <1>1, <1>9 DEF vars, page
<1>10. ASSUME NEW p \in Ports, OnDisconnect(p)
      PROVE  PromiseMoves(r)
  BY <1>3, <1>10 DEF OnDisconnect, RejectPending
<1>11. ASSUME NEW p \in Ports, Answer(p) \/ AnswerLost(p) \/ Refuse(p)
                               \/ ReadFails(p) \/ HostDies(p)
       PROVE  PromiseMoves(r)
  BY <1>1, <1>11 DEF Answer, AnswerLost, Refuse, ReadFails, HostDies, page
<1>12. ASSUME NEW q \in Request, TimeOut(q)
       PROVE  PromiseMoves(r)
  BY <1>3, <1>12 DEF TimeOut
<1>13. CASE OtherChange
  BY <1>1, <1>13 DEF OtherChange, page
<1> QED
  BY <1>2, <1>5, <1>6, <1>7, <1>8, <1>9, <1>10, <1>11, <1>12, <1>13 DEF Next

\* refreshApp makes its requests on the port there is, or on a new one, or on
\* none; they are all posted or none is.
LEMMA RefreshPosts ==
  ASSUME TypeOK, NEW f \in Refreshes, StartRefresh(f)
  PROVE  /\ nativePort' = Connect
         /\ \A r \in Asked(f) : promise'[r] = IF Connect = None THEN "rejected" ELSE "pending"
         /\ \A r \in Request : r \notin Asked(f) => promise'[r] = promise[r]
<1> DEFINE rs == <<<<f, "required">>, <<f, "optional">>>>
           posted == {rs[i] : i \in DOMAIN rs}
           fails == FALSE \/ Connect = None
<1>1. Post(rs, FALSE)
  BY DEF StartRefresh
<1>2. /\ nativePort' = Connect
      /\ promise' = [r \in Request |->
           IF r \notin posted THEN promise[r]
           ELSE IF fails THEN "rejected" ELSE "pending"]
  BY <1>1, Zenon DEF Post
<1>3. posted = Asked(f)
  BY DEF Asked
<1>4. Asked(f) \subseteq Request
  BY DEF Asked, Request
<1> HIDE DEF rs, posted
<1> QED
  BY <1>2, <1>3, <1>4

\* The requests of a refresh are made together, and dropped together.
LEMMA TogetherStep ==
  ASSUME TypeOK, Settled, Together, [Next]_vars
  PROVE  Together'
<1> SUFFICES ASSUME NEW f \in Refreshes
             PROVE  promise'[<<f, "required">>] = "idle"
                      <=> promise'[<<f, "optional">>] = "idle"
  BY DEF Together
<1>1. Asked(f) = {<<f, "required">>, <<f, "optional">>}
  BY DEF Asked
<1>2. \A r \in Asked(f) : r \in Request
  BY DEF Asked, Request
<1>3. CASE StartRefresh(f)
  BY <1>1, <1>3, RefreshPosts
<1>4. CASE ~StartRefresh(f)
  <2>1. \A r \in Asked(f) : ~Made(r)
    BY <1>4 DEF Made, Asked
  <2>2. \A r \in Asked(f) : promise'[r] = "idle" <=> promise[r] = "idle"
    BY <1>2, <2>1, PromiseMove DEF PromiseMoves
  <2> QED
    BY <1>1, <2>2 DEF Together
<1> QED
  BY <1>3, <1>4

-----------------------------------------------------------------------------
(* The one open port *)

\* A request is posted on the port connect returns, and the others wait there.
LEMMA PostOnPort ==
  ASSUME TypeOK, PendingOnTheOpenPort, NEW rs, NEW thrown, Post(rs, thrown)
  PROVE  PendingOnTheOpenPort'
<1> DEFINE p == Connect
           posted == {rs[i] : i \in DOMAIN rs}
           fails == thrown \/ p = None
<1>1. /\ nativePort' = p
      /\ pending' = [r \in Request |->
           IF r \in posted /\ ~fails THEN p ELSE pending[r]]
      /\ IF p = None
         THEN port' = port
         ELSE port' = [port EXCEPT ![p] = "open"]
  BY Zenon DEF Post
<1>2. /\ p \in Ports \cup {None}
      /\ nativePort # None => p = nativePort
      /\ nativePort = None /\ p # None => port[p] = "unused"
  BY Connected
<1>3. None \notin Ports /\ nativePort \in Ports \cup {None}
  BY NoneAssumption DEF TypeOK
<1> HIDE DEF p, posted, fails
<1>4. {q \in Ports : port[q] = "open"} = {nativePort} \ {None}
  BY DEF PendingOnTheOpenPort
<1>5. {q \in Ports : port'[q] = "open"} = {nativePort'} \ {None}
  BY <1>1, <1>2, <1>3, <1>4 DEF TypeOK
<1>6. \A r \in Request : pending[r] # None => pending[r] = nativePort
  BY DEF PendingOnTheOpenPort, Pending
<1>7. \A r \in Request : pending'[r] # None => pending'[r] = nativePort'
  BY <1>1, <1>2, <1>6
<1> QED
  BY <1>5, <1>7 DEF PendingOnTheOpenPort, Pending

\* PendingOnTheOpenPort is kept by every step.
LEMMA PortStep ==
  ASSUME TypeOK, PendingOnTheOpenPort, [Next]_vars
  PROVE  PendingOnTheOpenPort'
<1>1. CASE UNCHANGED worker
  BY <1>1 DEF worker, PendingOnTheOpenPort, Pending
<1>2. ASSUME NEW rs, NEW outcome, Settle(rs, outcome), UNCHANGED <<nativePort, port>>
      PROVE  PendingOnTheOpenPort'
  BY <1>2 DEF Settle, PendingOnTheOpenPort, Pending
<1>3. ASSUME NEW p \in Ports, OnMessage(p)
      PROVE  PendingOnTheOpenPort'
  BY <1>1, <1>2, <1>3 DEF OnMessage, worker
<1>4. ASSUME NEW p \in Ports, OnDisconnect(p)
      PROVE  PendingOnTheOpenPort'
  <2>1. p = nativePort /\ p # None
    BY <1>4, NoneAssumption DEF OnDisconnect, PendingOnTheOpenPort
  <2>2. nativePort' = None /\ port' = [port EXCEPT ![p] = "gone"]
    BY <1>4, <2>1 DEF OnDisconnect
  <2>3. {q \in Ports : port'[q] = "open"} = {}
    BY <2>1, <2>2 DEF PendingOnTheOpenPort, TypeOK
  <2>4. \A r \in Request : pending'[r] = None
    BY <1>4 DEF OnDisconnect, RejectPending, Settle, Pending
  <2> QED
    BY <2>2, <2>3, <2>4 DEF PendingOnTheOpenPort, Pending
<1>5. ASSUME NEW p \in Ports, Answer(p) \/ AnswerLost(p) \/ Refuse(p)
                              \/ ReadFails(p) \/ HostDies(p)
      PROVE  PendingOnTheOpenPort'
  BY <1>1, <1>5 DEF Answer, AnswerLost, Refuse, ReadFails, HostDies
<1>6. ASSUME NEW r \in Request, TimeOut(r)
      PROVE  PendingOnTheOpenPort'
  BY <1>2, <1>6 DEF TimeOut
<1>7. ASSUME NEW c \in Commands, StartCommand(c) \/ EndCommand(c)
      PROVE  PendingOnTheOpenPort'
  BY <1>1, <1>7, PostOnPort DEF StartCommand, EndCommand
<1>8. ASSUME NEW f \in Refreshes, StartRefresh(f) \/ EndRefresh(f) \/ FailRefresh(f)
      PROVE  PendingOnTheOpenPort'
  BY <1>1, <1>8, PostOnPort DEF StartRefresh, EndRefresh, FailRefresh
<1>9. CASE UNCHANGED vars
  BY <1>1, <1>9 DEF vars
<1>10. CASE OtherChange
  BY <1>1, <1>10 DEF OtherChange
<1> QED
  BY <1>3, <1>4, <1>5, <1>6, <1>7, <1>8, <1>9, <1>10 DEF Next

-----------------------------------------------------------------------------

\* The state is of its type and requests and promises agree, at first and after
\* every step.
LEMMA Base ==
  Spec => [](TypeOK /\ Settled /\ Together /\ PendingOnTheOpenPort)
<1> DEFINE Inv == TypeOK /\ Settled /\ Together /\ PendingOnTheOpenPort
<1>1. Init => Inv
  <2> SUFFICES ASSUME Init
               PROVE  Inv
    OBVIOUS
  <2>1. <<>> \in Seq(Request) /\ <<>> \in Seq(Response)
    OBVIOUS
  <2>2. 0 \in Version
    BY BoundsAssumption DEF Version
  <2>3. TypeOK
    BY <2>1, <2>2 DEF Init, TypeOK, View
  <2>4. Settled /\ Together
    BY DEF Init, Settled, Together, Pending, Request
  <2>5. PendingOnTheOpenPort
    BY DEF Init, PendingOnTheOpenPort, Pending
  <2> QED
    BY <2>3, <2>4, <2>5
<1>2. Inv /\ [Next]_vars => Inv'
  BY TypeStep, SettledStep, TogetherStep, PortStep
<1> QED
  BY <1>1, <1>2, PTL DEF Spec

\* Every variable keeps to its type: what the page shows is a version of the
\* metadata, never what a failed request left in its place (app.js:31-38).
THEOREM TypeCorrect == Spec => []TypeOK
BY Base, PTL

\* The worker holds one port, the open one, and whatever is pending waits there:
\* the disconnect event of a port rejects what was posted on it, no more and no
\* less (background.js:27-33).
THEOREM PortsTracked == Spec => []PendingOnTheOpenPort
BY Base, PTL

-----------------------------------------------------------------------------
(* Where the requests of the refreshes are *)

Live == {"pending", "resolved", "rejected"}

\* A refresh waits for both of its promises, or for neither.
Waiting ==
  \A f \in Refreshes : \A r \in Asked(f) : promise[r] \in Live <=> f \in refreshes

\* What is asked of whom: a reading host has an open port and the other way
\* round, and nothing is on its way where nobody is.
Ends ==
  /\ \A p \in Ports : host[p] = "reading" => port[p] = "open"
  /\ \A p \in Ports : port[p] = "open" => host[p] # "absent"
  /\ \A p \in Ports : port[p] # "open" => toWorker[p] = <<>>
  /\ \A p \in Ports : host[p] # "reading" => toHost[p] = <<>>

LEMMA WaitingStep ==
  ASSUME TypeOK, Settled, Together, Waiting, [Next]_vars
  PROVE  Waiting'
<1> SUFFICES ASSUME NEW f \in Refreshes, NEW r \in Asked(f)
             PROVE  promise'[r] \in Live <=> f \in refreshes'
  BY DEF Waiting
<1>1. r \in Request
  BY DEF Asked, Request
<1>2. PromiseMoves(r)
  BY <1>1, PromiseMove
<1>3. CASE StartRefresh(f)
  <2>1. f \in refreshes'
    BY <1>3 DEF StartRefresh
  <2>2. promise'[r] \in Live
    BY <1>3, RefreshPosts DEF Live
  <2> QED
    BY <2>1, <2>2
<1>4. CASE EndRefresh(f) \/ FailRefresh(f)
  <2>1. Forget(f)
    BY <1>4 DEF EndRefresh, FailRefresh
  <2>2. promise'[r] = "done" /\ f \notin refreshes'
    BY <1>1, <2>1 DEF Forget, Asked
  <2> QED
    BY <2>2 DEF Live
<1>5. CASE ~StartRefresh(f) /\ ~EndRefresh(f) /\ ~FailRefresh(f)
  <2>1. f \in refreshes' <=> f \in refreshes
    <3>1. CASE refreshes' = refreshes
      BY <3>1
    <3>2. ASSUME NEW g \in Refreshes, StartRefresh(g)
          PROVE  f \in refreshes' <=> f \in refreshes
      BY <1>5, <3>2 DEF StartRefresh
    <3>3. ASSUME NEW g \in Refreshes, EndRefresh(g) \/ FailRefresh(g)
          PROVE  f \in refreshes' <=> f \in refreshes
      <4>1. g # f /\ Forget(g)
        BY <1>5, <3>3 DEF EndRefresh, FailRefresh
      <4> QED
        BY <4>1 DEF Forget
    <3>4. ASSUME NEW p \in Ports, OnMessage(p) \/ OnDisconnect(p)
          PROVE  refreshes' = refreshes
      BY <3>4 DEF OnMessage, OnDisconnect
    <3>5. ASSUME NEW p \in Ports, Answer(p) \/ AnswerLost(p) \/ Refuse(p)
                                  \/ ReadFails(p) \/ HostDies(p)
          PROVE  refreshes' = refreshes
      BY <3>5 DEF Answer, AnswerLost, Refuse, ReadFails, HostDies, page
    <3>6. ASSUME NEW q \in Request, TimeOut(q)
          PROVE  refreshes' = refreshes
      BY <3>6 DEF TimeOut
    <3>7. ASSUME NEW c \in Commands, StartCommand(c) \/ EndCommand(c)
          PROVE  refreshes' = refreshes
      BY <3>7 DEF StartCommand, EndCommand
    <3>8. CASE OtherChange \/ UNCHANGED vars
      BY <3>1, <3>8 DEF OtherChange, page, vars
    <3> QED
      BY <3>1, <3>2, <3>3, <3>4, <3>5, <3>6, <3>7, <3>8 DEF Next
  <2>2. ~Made(r) /\ ~Dropped(r)
    BY <1>5 DEF Made, Dropped, Asked
  <2>3. promise'[r] \in Live <=> promise[r] \in Live
    BY <1>2, <2>2 DEF PromiseMoves, Live
  <2> QED
    BY <2>1, <2>3 DEF Waiting
<1> QED
  BY <1>3, <1>4, <1>5

\* A message posted on a port goes to the host behind it.
LEMMA PostEnds ==
  ASSUME TypeOK, Ends, NEW rs \in Seq(Request), NEW thrown \in BOOLEAN,
         Post(rs, thrown), UNCHANGED toWorker
  PROVE  Ends'
<1> DEFINE p == Connect
           fails == thrown \/ p = None
<1>1. IF p = None
      THEN UNCHANGED <<port, host, toHost>>
      ELSE /\ port' = [port EXCEPT ![p] = "open"]
           /\ host' = [host EXCEPT ![p] = IF @ = "absent" THEN "reading" ELSE @]
           /\ toHost' = [toHost EXCEPT ![p] =
                IF fails \/ host[p] = "exited" THEN @ ELSE @ \o rs]
  BY Zenon DEF Post
<1>2. p \in Ports \cup {None}
  BY Connected
<1> HIDE DEF p, fails
<1>3. CASE p = None
  BY <1>1, <1>3 DEF Ends
<1>4. CASE p # None
  <2>1. p \in Ports
    BY <1>2, <1>4
  <2> SUFFICES ASSUME NEW q \in Ports
               PROVE  /\ host'[q] = "reading" => port'[q] = "open"
                      /\ port'[q] = "open" => host'[q] # "absent"
                      /\ port'[q] # "open" => toWorker'[q] = <<>>
                      /\ host'[q] # "reading" => toHost'[q] = <<>>
    BY DEF Ends
  <2>2. CASE q # p
    <3>1. port'[q] = port[q] /\ host'[q] = host[q] /\ toHost'[q] = toHost[q]
      BY <1>1, <1>4, <2>1, <2>2 DEF TypeOK
    <3> QED
      BY <3>1 DEF Ends
  <2>3. CASE q = p
    <3>1. /\ port'[q] = "open"
          /\ host'[q] = IF host[q] = "absent" THEN "reading" ELSE host[q]
      BY <1>1, <1>4, <2>1, <2>3 DEF TypeOK
    <3>2. toHost'[q] = IF fails \/ host[q] = "exited" THEN toHost[q] ELSE toHost[q] \o rs
      BY <1>1, <1>4, <2>1, <2>3 DEF TypeOK
    <3>3. host[q] \in {"absent", "reading", "exited"}
      BY DEF TypeOK
    <3>4. host'[q] # "reading" => toHost'[q] = <<>>
      <4>1. host'[q] # "reading" => host[q] = "exited"
        BY <3>1, <3>3
      <4> QED
        BY <3>2, <4>1 DEF Ends
    <3> QED
      BY <3>1, <3>3, <3>4
  <2> QED
    BY <2>2, <2>3
<1> QED
  BY <1>3, <1>4

LEMMA EndsStep ==
  ASSUME TypeOK, Ends, [Next]_vars
  PROVE  Ends'
<1>1. CASE UNCHANGED <<port, host, toHost, toWorker>>
  BY <1>1 DEF Ends
<1>2. ASSUME NEW p \in Ports, OnMessage(p)
      PROVE  Ends'
  <2>1. \A q \in Ports : q # p => toWorker'[q] = toWorker[q]
    BY <1>2 DEF OnMessage, TypeOK
  <2>2. UNCHANGED <<port, host, toHost>> /\ port[p] = "open"
    BY <1>2 DEF OnMessage, process
  <2> QED
    BY <2>1, <2>2 DEF Ends
<1>3. ASSUME NEW p \in Ports, OnDisconnect(p)
      PROVE  Ends'
  <2>1. /\ \A q \in Ports : q # p => toWorker'[q] = toWorker[q] /\ port'[q] = port[q]
        /\ toWorker'[p] = <<>> /\ port'[p] = "gone" /\ host[p] = "exited"
        /\ UNCHANGED <<host, toHost>>
    BY <1>3 DEF OnDisconnect, TypeOK, process
  <2> QED
    BY <2>1 DEF Ends
<1>4. ASSUME NEW p \in Ports, Answer(p) \/ Refuse(p)
      PROVE  Ends'
  <2>1. /\ \A q \in Ports : q # p => toWorker'[q] = toWorker[q] /\ toHost'[q] = toHost[q]
        /\ host[p] = "reading"
        /\ UNCHANGED <<host, port>>
    BY <1>4 DEF Answer, Refuse, Send, Idle, TypeOK, worker, process
  <2> QED
    BY <2>1 DEF Ends
<1>5. ASSUME NEW p \in Ports, AnswerLost(p) \/ ReadFails(p) \/ HostDies(p)
      PROVE  Ends'
  <2>1. /\ \A q \in Ports : /\ q # p => toWorker'[q] = toWorker[q]
                            /\ q # p => toHost'[q] = toHost[q]
                            /\ q # p => host'[q] = host[q]
        /\ host[p] = "reading" /\ host'[p] = "exited" /\ toHost'[p] = <<>>
        /\ UNCHANGED port
    BY <1>5 DEF AnswerLost, ReadFails, HostDies, Send, Idle, TypeOK, worker
  <2> QED
    BY <2>1 DEF Ends
<1>6. ASSUME NEW r \in Request, TimeOut(r)
      PROVE  Ends'
  BY <1>1, <1>6 DEF TimeOut, wire, process
<1>7. ASSUME NEW c \in Commands, StartCommand(c)
      PROVE  Ends'
  <2>1. <<<<c, "command">>>> \in Seq(Request)
    BY DEF Request
  <2>2. PICK thrown \in BOOLEAN : Post(<<<<c, "command">>>>, thrown)
    BY <1>7 DEF StartCommand
  <2> QED
    BY <1>7, <2>1, <2>2, PostEnds DEF StartCommand
<1>8. ASSUME NEW f \in Refreshes, StartRefresh(f)
      PROVE  Ends'
  <2>1. <<<<f, "required">>, <<f, "optional">>>> \in Seq(Request)
    BY DEF Request
  <2>2. Post(<<<<f, "required">>, <<f, "optional">>>>, FALSE) /\ UNCHANGED toWorker
    BY <1>8 DEF StartRefresh
  <2> QED
    BY <2>1, <2>2, PostEnds
<1>9. ASSUME NEW c \in Commands, EndCommand(c)
      PROVE  Ends'
  BY <1>1, <1>9 DEF EndCommand, worker, wire, process
<1>10. ASSUME NEW f \in Refreshes, EndRefresh(f) \/ FailRefresh(f)
       PROVE  Ends'
  BY <1>1, <1>10 DEF EndRefresh, FailRefresh, worker, wire, process
<1>11. CASE OtherChange \/ UNCHANGED vars
  BY <1>1, <1>11 DEF OtherChange, vars, worker, wire, process
<1> QED
  BY <1>2, <1>3, <1>4, <1>5, <1>6, <1>7, <1>8, <1>9, <1>10, <1>11 DEF Next

-----------------------------------------------------------------------------
(* First asked, first answered *)

\* q and r are asked by refreshes, and the one of q is older.
Precedes(q, r) ==
  \E e, f \in Refreshes : e < f /\ q \in Asked(e) /\ r \in Asked(f)

\* Among the answers w, resp. the requests h, up to the n-th, is that of q.
InAnswers(w, n, q) == \E j \in 1..n : w[j].id = q
InRequests(h, n, q) == \E j \in 1..n : h[j] = q

\* Before each of the answers w is that to every older request of P; ...
AnswersInLine(w, P) ==
  \A i \in 1..Len(w) : \A q \in P :
    Precedes(q, w[i].id) => InAnswers(w, i - 1, q)

\* ... before each of the requests h is every older one of P, unless its answer
\* is already on its way; ...
RequestsInLine(w, h, P) ==
  \A i \in 1..Len(h) : \A q \in P :
    Precedes(q, h[i]) => InAnswers(w, Len(w), q) \/ InRequests(h, i - 1, q)

\* ... and each of P is somewhere.
AllInLine(w, h, P) ==
  \A q \in P : InAnswers(w, Len(w), q) \/ InRequests(h, Len(h), q)

\* The first answer is taken, and its request no longer waits.
LEMMA LineRead ==
  ASSUME NEW w \in Seq(Response), NEW h \in Seq(Request), NEW P, NEW P2,
         w # <<>>, \A q \in P2 : q \in P /\ q # Head(w).id,
         NEW w2, w2 = Tail(w)
  PROVE  /\ AnswersInLine(w, P) => AnswersInLine(w2, P2)
         /\ RequestsInLine(w, h, P) => RequestsInLine(w2, h, P2)
         /\ AllInLine(w, h, P) => AllInLine(w2, h, P2)
<1>1. /\ Len(w) \in Nat /\ Len(w) >= 1 /\ Len(h) \in Nat
      /\ Len(w2) = Len(w) - 1
      /\ \A i \in 1..Len(w2) : w2[i] = w[i + 1]
      /\ Head(w) = w[1]
  OBVIOUS
<1>2. ASSUME NEW n \in 1..Len(w), NEW q \in P2, InAnswers(w, n, q)
      PROVE  InAnswers(w2, n - 1, q)
  <2>1. PICK j \in 1..n : w[j].id = q
    BY <1>2 DEF InAnswers
  <2>2. j # 1
    BY <1>1, <2>1
  <2>3. j - 1 \in 1..(n - 1) /\ w2[j - 1].id = q
    BY <1>1, <2>1, <2>2
  <2> QED
    BY <2>3 DEF InAnswers
<1>3. ASSUME AnswersInLine(w, P), NEW i \in 1..Len(w2), NEW q \in P2,
             Precedes(q, w2[i].id)
      PROVE  InAnswers(w2, i - 1, q)
  <2>1. i + 1 \in 1..Len(w) /\ w2[i] = w[i + 1] /\ (i + 1) - 1 = i
    BY <1>1
  <2>2. InAnswers(w, i, q)
    BY <1>3, <2>1 DEF AnswersInLine
  <2>3. i \in 1..Len(w)
    BY <1>1, <2>1
  <2> QED
    BY <1>2, <2>2, <2>3
<1>4. \A q \in P2 : InAnswers(w, Len(w), q) => InAnswers(w2, Len(w2), q)
  BY <1>1, <1>2
<1>5. RequestsInLine(w, h, P) => RequestsInLine(w2, h, P2)
  BY <1>4 DEF RequestsInLine
<1>6. AllInLine(w, h, P) => AllInLine(w2, h, P2)
  BY <1>4 DEF AllInLine
<1>7. AnswersInLine(w, P) => AnswersInLine(w2, P2)
  BY <1>3 DEF AnswersInLine
<1> QED
  BY <1>5, <1>6, <1>7

\* The first request is answered.
LEMMA LineReplied ==
  ASSUME NEW w \in Seq(Response), NEW h \in Seq(Request), NEW P,
         h # <<>>, NEW answer \in Response, answer.id = Head(h),
         NEW w2, w2 = Append(w, answer), NEW h2, h2 = Tail(h),
         RequestsInLine(w, h, P)
  PROVE  /\ AnswersInLine(w, P) => AnswersInLine(w2, P)
         /\ RequestsInLine(w2, h2, P)
         /\ AllInLine(w, h, P) => AllInLine(w2, h2, P)
<1>1. /\ Len(w) \in Nat /\ Len(h) \in Nat /\ Len(h) >= 1
      /\ Len(w2) = Len(w) + 1
      /\ \A i \in 1..Len(w) : w2[i] = w[i]
      /\ w2[Len(w) + 1] = answer
  OBVIOUS
<1>2. /\ Len(h2) = Len(h) - 1
      /\ \A i \in 1..Len(h2) : h2[i] = h[i + 1]
      /\ answer.id = h[1]
  OBVIOUS
<1>3. \A q, n : n \in 0..Len(w) /\ InAnswers(w, n, q) => InAnswers(w2, n, q)
  BY <1>1 DEF InAnswers
<1>4. \A q : InAnswers(w, Len(w), q) => InAnswers(w2, Len(w2), q)
  BY <1>1 DEF InAnswers
<1>5. InAnswers(w2, Len(w2), answer.id)
  BY <1>1 DEF InAnswers
<1>6. ASSUME NEW n \in 1..Len(h), NEW q, InRequests(h, n, q)
      PROVE  q = answer.id \/ InRequests(h2, n - 1, q)
  <2>1. PICK j \in 1..n : h[j] = q
    BY <1>6 DEF InRequests
  <2>2. CASE j = 1
    BY <1>2, <2>1, <2>2
  <2>3. CASE j # 1
    <3>1. j - 1 \in 1..(n - 1) /\ h2[j - 1] = q
      BY <1>1, <1>2, <2>1, <2>3
    <3> QED
      BY <3>1 DEF InRequests
  <2> QED
    BY <2>2, <2>3
<1>7. ASSUME AnswersInLine(w, P)
      PROVE  AnswersInLine(w2, P)
  <2> SUFFICES ASSUME NEW i \in 1..Len(w2), NEW q \in P, Precedes(q, w2[i].id)
               PROVE  InAnswers(w2, i - 1, q)
    BY DEF AnswersInLine
  <2>1. CASE i \in 1..Len(w)
    <3>1. InAnswers(w, i - 1, q)
      BY <1>1, <1>7, <2>1 DEF AnswersInLine
    <3>2. i - 1 \in 0..Len(w)
      BY <1>1, <2>1
    <3> QED
      BY <1>3, <3>1, <3>2
  <2>2. CASE i = Len(w) + 1
    <3>1. Precedes(q, h[1])
      BY <1>1, <1>2, <2>2
    <3>2. 1 \in 1..Len(h)
      BY <1>1
    <3>3. InAnswers(w, Len(w), q) \/ InRequests(h, 1 - 1, q)
      BY <3>1, <3>2 DEF RequestsInLine
    <3>4. ~InRequests(h, 1 - 1, q)
      BY DEF InRequests
    <3>5. i - 1 = Len(w) /\ Len(w) \in 0..Len(w)
      BY <1>1, <2>2
    <3> QED
      BY <1>3, <3>3, <3>4, <3>5
  <2> QED
    BY <1>1, <2>1, <2>2
<1>8. RequestsInLine(w2, h2, P)
  <2> SUFFICES ASSUME NEW i \in 1..Len(h2), NEW q \in P, Precedes(q, h2[i])
               PROVE  InAnswers(w2, Len(w2), q) \/ InRequests(h2, i - 1, q)
    BY DEF RequestsInLine
  <2>1. i + 1 \in 1..Len(h) /\ h2[i] = h[i + 1] /\ (i + 1) - 1 = i /\ i \in 1..Len(h)
    BY <1>1, <1>2
  <2>2. InAnswers(w, Len(w), q) \/ InRequests(h, i, q)
    BY <2>1 DEF RequestsInLine
  <2> QED
    BY <1>4, <1>5, <1>6, <2>1, <2>2
<1>9. ASSUME AllInLine(w, h, P), NEW q \in P
      PROVE  InAnswers(w2, Len(w2), q) \/ InRequests(h2, Len(h2), q)
  <2>1. InAnswers(w, Len(w), q) \/ InRequests(h, Len(h), q)
    BY <1>9 DEF AllInLine
  <2>2. Len(h) \in 1..Len(h)
    BY <1>1
  <2> QED
    BY <1>2, <1>4, <1>5, <1>6, <2>1, <2>2
<1> QED
  BY <1>7, <1>8, <1>9 DEF AllInLine

\* What waits and is older than nothing in line does not matter; no request is
\* made, or those that are stand before nothing in line.
LEMMA LineKept ==
  ASSUME NEW w \in Seq(Response), NEW h \in Seq(Request), NEW P, NEW P2,
         \A q \in P2 : \/ q \in P
                       \/ /\ \A i \in 1..Len(w) : ~Precedes(q, w[i].id)
                          /\ \A i \in 1..Len(h) : ~Precedes(q, h[i])
  PROVE  /\ AnswersInLine(w, P) => AnswersInLine(w, P2)
         /\ RequestsInLine(w, h, P) => RequestsInLine(w, h, P2)
BY DEF AnswersInLine, RequestsInLine

\* New requests join at the end.
LEMMA LineReceived ==
  ASSUME NEW w \in Seq(Response), NEW h \in Seq(Request), NEW rs \in Seq(Request),
         NEW P, NEW P2, NEW h2, h2 = h \o rs,
         AllInLine(w, h, P),
         \A q \in P2 : q \in P \/ \E k \in 1..Len(rs) : rs[k] = q,
         \A k \in 1..Len(rs) :
           /\ \A i \in 1..Len(w) : ~Precedes(rs[k], w[i].id)
           /\ \A i \in 1..Len(h) : ~Precedes(rs[k], h[i])
           /\ \A i \in 1..Len(rs) : ~Precedes(rs[k], rs[i])
  PROVE  /\ AnswersInLine(w, P) => AnswersInLine(w, P2)
         /\ RequestsInLine(w, h, P) => RequestsInLine(w, h2, P2)
         /\ AllInLine(w, h2, P2)
<1>1. /\ Len(w) \in Nat /\ Len(h) \in Nat /\ Len(rs) \in Nat
      /\ Len(h2) = Len(h) + Len(rs)
      /\ \A i \in 1..Len(h) : h2[i] = h[i]
      /\ \A i \in 1..Len(rs) : h2[Len(h) + i] = rs[i]
  OBVIOUS
<1>2. AnswersInLine(w, P) => AnswersInLine(w, P2)
  BY DEF AnswersInLine
<1>3. ASSUME NEW q, NEW n \in 0..Len(h), NEW m \in n..Len(h2), InRequests(h, n, q)
      PROVE  InRequests(h2, m, q)
  BY <1>1, <1>3 DEF InRequests
<1>4. ASSUME RequestsInLine(w, h, P)
      PROVE  RequestsInLine(w, h2, P2)
  <2> SUFFICES ASSUME NEW i \in 1..Len(h2), NEW q \in P2, Precedes(q, h2[i])
               PROVE  InAnswers(w, Len(w), q) \/ InRequests(h2, i - 1, q)
    BY DEF RequestsInLine
  <2>1. CASE i \in 1..Len(h)
    <3>1. q \in P
      BY <1>1, <2>1
    <3>2. InAnswers(w, Len(w), q) \/ InRequests(h, i - 1, q)
      BY <1>1, <1>4, <2>1, <3>1 DEF RequestsInLine
    <3>3. i - 1 \in 0..Len(h) /\ i - 1 \in (i - 1)..Len(h2)
      BY <1>1, <2>1
    <3> QED
      BY <1>3, <3>2, <3>3
  <2>2. CASE i \notin 1..Len(h)
    <3>1. PICK k \in 1..Len(rs) : i = Len(h) + k
      <4>1. i - Len(h) \in 1..Len(rs) /\ i = Len(h) + (i - Len(h))
        BY <1>1, <2>2
      <4> QED
        BY <4>1
    <3>2. h2[i] = rs[k]
      BY <1>1, <3>1
    <3>3. q \in P
      BY SMTT(60), <3>2
    <3>4. InAnswers(w, Len(w), q) \/ InRequests(h, Len(h), q)
      BY <3>3 DEF AllInLine
    <3>5. Len(h) \in 0..Len(h) /\ i - 1 \in Len(h)..Len(h2)
      BY <1>1, <3>1
    <3> QED
      BY <1>3, <3>4, <3>5
  <2> QED
    BY <2>1, <2>2
<1>5. ASSUME NEW q \in P2
      PROVE  InAnswers(w, Len(w), q) \/ InRequests(h2, Len(h2), q)
  <2>1. CASE q \in P
    <3>1. InAnswers(w, Len(w), q) \/ InRequests(h, Len(h), q)
      BY <2>1 DEF AllInLine
    <3>2. Len(h) \in 0..Len(h) /\ Len(h2) \in Len(h)..Len(h2)
      BY <1>1
    <3> QED
      BY <1>3, <3>1, <3>2
  <2>2. CASE q \notin P
    <3>1. PICK k \in 1..Len(rs) : rs[k] = q
      BY <2>2
    <3>2. Len(h) + k \in 1..Len(h2) /\ h2[Len(h) + k] = q
      BY <1>1, <3>1
    <3> QED
      BY <3>2 DEF InRequests
  <2> QED
    BY <2>1, <2>2
<1> QED
  BY <1>2, <1>4, <1>5 DEF AllInLine

\* An answer to no request joins at the end.
LEMMA LineAnswered ==
  ASSUME NEW w \in Seq(Response), NEW P, NEW answer \in Response,
         \A q \in P : ~Precedes(q, answer.id),
         NEW w2, w2 = Append(w, answer), AnswersInLine(w, P)
  PROVE  AnswersInLine(w2, P)
<1>1. /\ Len(w) \in Nat
      /\ Len(w2) = Len(w) + 1
      /\ \A i \in 1..Len(w) : w2[i] = w[i]
      /\ w2[Len(w) + 1] = answer
  OBVIOUS
<1> SUFFICES ASSUME NEW i \in 1..Len(w2), NEW q \in P, Precedes(q, w2[i].id)
             PROVE  InAnswers(w2, i - 1, q)
  BY DEF AnswersInLine
<1>2. i \in 1..Len(w)
  BY <1>1
<1>3. InAnswers(w, i - 1, q)
  BY <1>1, <1>2 DEF AnswersInLine
<1> QED
  BY <1>1, <1>2, <1>3 DEF InAnswers

-----------------------------------------------------------------------------
(* What one step does to what is on its way to and from the host of port p *)

Outstanding == {r \in Request : promise[r] = "pending"}

\* Nothing; a host that reads is not asked for more.
Still(p) ==
  /\ toWorker'[p] = toWorker[p] /\ toHost'[p] = toHost[p]
  /\ host'[p] = "reading" =>
       Outstanding' \subseteq Outstanding /\ (host[p] = "reading" \/ Outstanding = {})

\* The worker takes the first answer, and settles what it answers.
Taken(p) ==
  /\ port[p] = "open"
  /\ toWorker[p] # <<>>
  /\ toWorker'[p] = Tail(toWorker[p]) /\ toHost'[p] = toHost[p]
  /\ host'[p] = host[p]
  /\ \A q \in Outstanding' : q \in Outstanding /\ q # Head(toWorker[p]).id

\* The host answers the first request, with an error or with what is so now.
Replied(p) ==
  /\ host[p] = "reading" /\ host'[p] = "reading"
  /\ toHost[p] # <<>>
  /\ toHost'[p] = Tail(toHost[p])
  /\ \E answer \in Response : /\ toWorker'[p] = Append(toWorker[p], answer)
                              /\ answer.id = Head(toHost[p])
                              /\ answer.data \in {None, version'}
  /\ UNCHANGED promise

\* The host ends, with an error for no request or without.
Ended(p) ==
  /\ host[p] = "reading" /\ host'[p] = "exited"
  /\ toHost'[p] = <<>>
  /\ \/ toWorker'[p] = toWorker[p]
     \/ toWorker'[p] = Append(toWorker[p], [id |-> None, data |-> None])
  /\ UNCHANGED promise

\* The worker learns that the port is gone.
Closed(p) ==
  /\ toWorker'[p] = <<>> /\ toHost'[p] = <<>> /\ host'[p] = "exited"

\* The requests rs, none of them before another, are sent.
Received(p, rs) ==
  /\ toWorker'[p] = toWorker[p]
  /\ toHost'[p] = toHost[p] \o rs
  /\ host'[p] = "reading"
  /\ host[p] = "reading" \/ Outstanding = {}
  /\ \A k \in DOMAIN rs : rs[k] \in Request /\ promise[rs[k]] = "idle"
                                           /\ promise'[rs[k]] = "pending"
  /\ \A j, k \in DOMAIN rs : ~Precedes(rs[j], rs[k])
  /\ \A q \in Outstanding' : q \in Outstanding \/ \E k \in DOMAIN rs : rs[k] = q

QueueMoves(p) ==
  \/ Still(p) \/ Taken(p) \/ Replied(p) \/ Ended(p) \/ Closed(p)
  \/ \E rs \in Seq(Request) : Received(p, rs)

\* No request waits when there is no port.
LEMMA NoneOutstanding ==
  ASSUME TypeOK, Settled, PendingOnTheOpenPort, nativePort = None
  PROVE  Outstanding = {}
<1>1. \A r \in Outstanding : r \in Pending
  BY DEF Outstanding, Settled
<1>2. \A r \in Pending : pending[r] # None /\ pending[r] = None
  BY DEF PendingOnTheOpenPort, Pending
<1> QED
  BY <1>1, <1>2

\* nativeRequest: a host that is there is sent the requests, unless they throw.
LEMMA PostMove ==
  ASSUME TypeOK, Settled, PendingOnTheOpenPort, Ends,
         NEW rs \in Seq(Request), NEW thrown \in BOOLEAN, Post(rs, thrown),
         UNCHANGED toWorker,
         \A k \in DOMAIN rs : promise[rs[k]] = "idle",
         \A j, k \in DOMAIN rs : ~Precedes(rs[j], rs[k]),
         NEW p \in Ports
  PROVE  QueueMoves(p)
<1> DEFINE c == Connect
           posted == {rs[i] : i \in DOMAIN rs}
           fails == thrown \/ c = None
<1>1. /\ promise' = [r \in Request |->
           IF r \notin posted THEN promise[r]
           ELSE IF fails THEN "rejected" ELSE "pending"]
      /\ IF c = None
         THEN UNCHANGED <<port, host, toHost>>
         ELSE /\ port' = [port EXCEPT ![c] = "open"]
              /\ host' = [host EXCEPT ![c] = IF @ = "absent" THEN "reading" ELSE @]
              /\ toHost' = [toHost EXCEPT ![c] =
                   IF fails \/ host[c] = "exited" THEN @ ELSE @ \o rs]
  BY Zenon DEF Post
<1>2. /\ c \in Ports \cup {None}
      /\ nativePort # None => c = nativePort
      /\ nativePort = None /\ c # None => port[c] = "unused"
  BY Connected
<1>3. \A r \in posted : r \in Request /\ promise[r] = "idle" /\ \E k \in DOMAIN rs : rs[k] = r
  OBVIOUS
<1>4. \A k \in DOMAIN rs : rs[k] \in posted
  OBVIOUS
<1> HIDE DEF posted
<1>5. nativePort = None => Outstanding = {}
  BY NoneOutstanding
<1>6. \A q \in Outstanding' : q \in Outstanding \/ (q \in posted /\ ~fails)
  BY <1>1 DEF Outstanding
<1>7. CASE p # c \/ c = None
  <2>1. toWorker'[p] = toWorker[p] /\ toHost'[p] = toHost[p] /\ host'[p] = host[p]
    BY <1>1, <1>2, <1>7 DEF TypeOK
  <2>2. ASSUME host'[p] = "reading"
        PROVE  Outstanding' \subseteq Outstanding
    <3>1. p = nativePort /\ p # None
      BY <2>1, <2>2, NoneAssumption DEF Ends, PendingOnTheOpenPort
    <3>2. c = None
      BY <1>2, <1>7, <3>1
    <3> QED
      BY <1>6, <3>2
  <2> QED
    BY <2>1, <2>2 DEF QueueMoves, Still
<1>8. CASE p = c /\ c # None
  <2>1. /\ toWorker'[p] = toWorker[p]
        /\ host'[p] = IF host[p] = "absent" THEN "reading" ELSE host[p]
        /\ host[p] \in {"absent", "reading", "exited"}
    BY <1>1, <1>8 DEF TypeOK
  <2>2. toHost'[p] = IF fails \/ host[p] = "exited" THEN toHost[p] ELSE toHost[p] \o rs
    BY <1>1, <1>8 DEF TypeOK
  <2>3. ASSUME host[p] = "absent"
        PROVE  Outstanding = {}
    <3>1. nativePort # p
      BY <2>3, NoneAssumption DEF Ends, PendingOnTheOpenPort
    <3> QED
      BY <1>2, <1>5, <1>8, <3>1
  <2>4. CASE fails
    <3>1. Outstanding' \subseteq Outstanding
      BY <1>6, <2>4
    <3> QED
      BY <2>1, <2>2, <2>3, <2>4, <3>1 DEF QueueMoves, Still
  <2>5. CASE host[p] = "exited"
    BY <2>1, <2>2, <2>5 DEF QueueMoves, Still
  <2>6. CASE ~fails /\ host[p] # "exited"
    <3>1. /\ toHost'[p] = toHost[p] \o rs /\ host'[p] = "reading"
          /\ host[p] = "reading" \/ Outstanding = {}
      BY <2>1, <2>2, <2>3, <2>6
    <3>2. \A k \in DOMAIN rs : /\ rs[k] \in Request /\ promise[rs[k]] = "idle"
                               /\ promise'[rs[k]] = "pending"
      BY <1>1, <1>3, <1>4, <2>6
    <3>3. \A q \in Outstanding' : q \in Outstanding \/ \E k \in DOMAIN rs : rs[k] = q
      BY <1>3, <1>6
    <3>4. Received(p, rs)
      BY <2>1, <3>1, <3>2, <3>3, Zenon DEF Received
    <3> QED
      BY <3>4 DEF QueueMoves
  <2> QED
    BY <2>4, <2>5, <2>6
<1> QED
  BY <1>7, <1>8

\* Neither a command nor a request of the same refresh is older.
LEMMA PrecedesNot ==
  /\ \A q, r, c : ~Precedes(q, <<c, "command">>) /\ ~Precedes(<<c, "command">>, r)
  /\ \A f \in Refreshes : \A q, r \in Asked(f) : ~Precedes(q, r)
  /\ \A q : ~Precedes(q, None)
<1>1. \A q, r, c : ~Precedes(q, <<c, "command">>) /\ ~Precedes(<<c, "command">>, r)
  BY DEF Precedes, Asked
<1>2. \A f \in Refreshes : \A q, r \in Asked(f) : ~Precedes(q, r)
  BY BoundsAssumption DEF Precedes, Asked, Refreshes
<1>3. \A f \in Refreshes : None \notin Asked(f)
  BY NoneAssumption DEF Asked, Request
<1> QED
  BY <1>1, <1>2, <1>3 DEF Precedes

LEMMA QueueMove ==
  ASSUME TypeOK, Settled, Together, PendingOnTheOpenPort, Ends, [Next]_vars,
         NEW p \in Ports
  PROVE  QueueMoves(p)
<1>1. CASE UNCHANGED <<toHost, toWorker, host>> /\ Outstanding' \subseteq Outstanding
  BY <1>1, NoneOutstanding DEF QueueMoves, Still
<1>2. ASSUME NEW o \in Ports, OnMessage(o)
      PROVE  QueueMoves(p)
  <2> DEFINE answer == Head(toWorker[o])
             outcome == IF answer.data = None THEN "rejected" ELSE "resolved"
  <2>1. /\ UNCHANGED <<toHost, host>>
        /\ port[o] = "open" /\ toWorker[o] # <<>>
        /\ toWorker' = [toWorker EXCEPT ![o] = Tail(@)]
    BY <1>2 DEF OnMessage, process
  <2>2. /\ answer.id \notin Pending => UNCHANGED promise
        /\ answer.id \in Pending => Settle({answer.id}, outcome)
    BY <1>2 DEF OnMessage
  <2>3. outcome # "pending"
    OBVIOUS
  <2> HIDE DEF outcome
  <2>4. \A q \in Outstanding' : q \in Outstanding /\ q # answer.id
    <3> HIDE DEF answer
    <3>1. CASE answer.id \notin Pending
      <4>1. \A q \in Outstanding' : q \in Outstanding /\ q \in Pending
        BY <2>2, <3>1 DEF Outstanding, Settled
      <4> QED
        BY <3>1, <4>1
    <3>2. CASE answer.id \in Pending
      BY <2>2, <2>3, <3>2 DEF Settle, Outstanding
    <3> QED
      BY <3>1, <3>2
  <2>5. CASE p = o
    <3>1. toWorker'[p] = Tail(toWorker[p])
      BY <2>1, <2>5 DEF TypeOK
    <3> QED
      BY <2>1, <2>4, <2>5, <3>1 DEF QueueMoves, Taken
  <2>6. CASE p # o
    <3>1. toWorker'[p] = toWorker[p]
      BY <2>1, <2>6 DEF TypeOK
    <3>2. Still(p)
      <4>1. host[p] # "reading"
        BY <2>1, <2>6 DEF Ends, PendingOnTheOpenPort
      <4> QED
        BY <2>1, <3>1, <4>1 DEF Still
    <3> QED
      BY <3>2 DEF QueueMoves
  <2> QED
    BY <2>5, <2>6
<1>3. ASSUME NEW o \in Ports, OnDisconnect(o)
      PROVE  QueueMoves(p)
  <2>1. /\ UNCHANGED <<toHost, host>> /\ host[o] = "exited" /\ port[o] = "open"
        /\ toWorker' = [toWorker EXCEPT ![o] = <<>>]
    BY <1>3 DEF OnDisconnect, process
  <2>2. CASE p = o
    <3>1. toWorker'[p] = <<>> /\ toHost'[p] = <<>> /\ host'[p] = "exited"
      BY <2>1, <2>2 DEF TypeOK, Ends
    <3> QED
      BY <3>1 DEF QueueMoves, Closed
  <2>3. CASE p # o
    <3>1. toWorker'[p] = toWorker[p] /\ toHost'[p] = toHost[p] /\ host'[p] = host[p]
      BY <2>1, <2>3 DEF TypeOK
    <3>2. host[p] # "reading"
      BY <2>1, <2>3 DEF Ends, PendingOnTheOpenPort
    <3> QED
      BY <3>1, <3>2 DEF QueueMoves, Still
  <2> QED
    BY <2>2, <2>3
<1>4. ASSUME NEW o \in Ports, Answer(o) \/ Refuse(o)
      PROVE  QueueMoves(p)
  <2>1. /\ UNCHANGED <<host, promise>> /\ host[o] = "reading" /\ toHost[o] # <<>>
        /\ toHost' = [toHost EXCEPT ![o] = Tail(@)]
    BY <1>4 DEF Answer, Refuse, Idle, process, page
  <2>2. Head(toHost[o]) \in Request
    BY <2>1 DEF TypeOK
  <2>3. \E answer \in Response :
           /\ toWorker' = [toWorker EXCEPT ![o] = Append(@, answer)]
           /\ answer.id = Head(toHost[o])
           /\ answer.data \in {None, version'}
    <3>1. CASE Answer(o)
      <4>1. PICK outcome \in Outcome(Head(toHost[o])) :
              /\ version' = outcome.version
              /\ Send(o, [id |-> Head(toHost[o]), data |-> outcome.data])
        BY <3>1 DEF Answer
      <4>2. /\ outcome.data \in Version \cup {None}
            /\ outcome.data # None => outcome.data = outcome.version
        BY <4>1, OutcomeType
      <4> DEFINE answer == [id |-> Head(toHost[o]), data |-> outcome.data]
      <4>3. /\ answer \in Response
            /\ answer.id = Head(toHost[o]) /\ answer.data \in {None, version'}
        BY <2>2, <4>1, <4>2 DEF Response
      <4>4. toWorker' = [toWorker EXCEPT ![o] = Append(@, answer)]
        BY <4>1 DEF Send
      <4> HIDE DEF answer
      <4> QED
        BY <4>3, <4>4
    <3>2. CASE Refuse(o)
      <4> DEFINE answer == [id |-> Head(toHost[o]), data |-> None]
      <4>1. /\ answer \in Response
            /\ answer.id = Head(toHost[o]) /\ answer.data = None
        BY <2>2 DEF Response
      <4>2. toWorker' = [toWorker EXCEPT ![o] = Append(@, answer)]
        BY <3>2 DEF Refuse, Send
      <4> HIDE DEF answer
      <4> QED
        BY <4>1, <4>2
    <3> QED
      BY <1>4, <3>1, <3>2
  <2>4. CASE p = o
    <3>1. /\ toHost'[p] = Tail(toHost[p])
          /\ \E answer \in Response : /\ toWorker'[p] = Append(toWorker[p], answer)
                                      /\ answer.id = Head(toHost[p])
                                      /\ answer.data \in {None, version'}
      BY <2>1, <2>3, <2>4 DEF TypeOK
    <3> QED
      BY <2>1, <2>4, <3>1 DEF QueueMoves, Replied
  <2>5. CASE p # o
    <3>1. toWorker'[p] = toWorker[p] /\ toHost'[p] = toHost[p] /\ host'[p] = host[p]
      BY <2>1, <2>3, <2>5 DEF TypeOK
    <3>2. host[p] # "reading"
      BY <2>1, <2>5 DEF Ends, PendingOnTheOpenPort
    <3> QED
      BY <3>1, <3>2 DEF QueueMoves, Still
  <2> QED
    BY <2>4, <2>5
<1>5. ASSUME NEW o \in Ports, AnswerLost(o) \/ ReadFails(o) \/ HostDies(o)
      PROVE  QueueMoves(p)
  <2>1. /\ UNCHANGED promise /\ host[o] = "reading"
        /\ toHost' = [toHost EXCEPT ![o] = <<>>]
        /\ host' = [host EXCEPT ![o] = "exited"]
    BY <1>5 DEF AnswerLost, ReadFails, HostDies, Idle, page
  <2>2. \/ toWorker' = toWorker
        \/ toWorker' = [toWorker EXCEPT ![o] = Append(@, [id |-> None, data |-> None])]
    BY <1>5 DEF AnswerLost, ReadFails, HostDies, Send
  <2>3. CASE p = o
    <3>1. /\ toHost'[p] = <<>> /\ host'[p] = "exited"
      BY <2>1, <2>3 DEF TypeOK
    <3>2. \/ toWorker'[p] = toWorker[p]
          \/ toWorker'[p] = Append(toWorker[p], [id |-> None, data |-> None])
      BY <2>2, <2>3 DEF TypeOK
    <3> QED
      BY <2>1, <2>3, <3>1, <3>2 DEF QueueMoves, Ended
  <2>4. CASE p # o
    <3>1. toWorker'[p] = toWorker[p] /\ toHost'[p] = toHost[p] /\ host'[p] = host[p]
      BY <2>1, <2>2, <2>4 DEF TypeOK
    <3>2. host[p] # "reading"
      BY <2>1, <2>4 DEF Ends, PendingOnTheOpenPort
    <3> QED
      BY <3>1, <3>2 DEF QueueMoves, Still
  <2> QED
    BY <2>3, <2>4
<1>6. ASSUME NEW r \in Request, TimeOut(r)
      PROVE  QueueMoves(p)
  <2>1. Outstanding' \subseteq Outstanding
    BY <1>6 DEF TimeOut, Settle, Outstanding
  <2> QED
    BY <1>1, <1>6, <2>1 DEF TimeOut, wire, process
<1>7. ASSUME NEW c \in Commands, StartCommand(c)
      PROVE  QueueMoves(p)
  <2> DEFINE rs == <<<<c, "command">>>>
  <2>1. /\ rs \in Seq(Request)
        /\ \A i \in DOMAIN rs : rs[i] = <<c, "command">>
    BY DEF Request
  <2>2. PICK thrown \in BOOLEAN : Post(rs, thrown)
    BY <1>7 DEF StartCommand
  <2>3. promise[<<c, "command">>] = "idle" /\ UNCHANGED toWorker
    BY <1>7 DEF StartCommand
  <2> HIDE DEF rs
  <2>4. \A j, k \in DOMAIN rs : ~Precedes(rs[j], rs[k])
    BY <2>1, PrecedesNot
  <2> QED
    BY <2>1, <2>2, <2>3, <2>4, PostMove
<1>8. ASSUME NEW f \in Refreshes, StartRefresh(f)
      PROVE  QueueMoves(p)
  <2> DEFINE rs == <<<<f, "required">>, <<f, "optional">>>>
  <2>1. /\ rs \in Seq(Request)
        /\ \A i \in DOMAIN rs : rs[i] \in Asked(f)
    BY DEF Request, Asked
  <2>2. Post(rs, FALSE)
    BY <1>8 DEF StartRefresh
  <2>3. (\A r \in Asked(f) : promise[r] = "idle") /\ UNCHANGED toWorker
    BY <1>8 DEF StartRefresh, Together, Asked
  <2> HIDE DEF rs
  <2>4. \A j, k \in DOMAIN rs : ~Precedes(rs[j], rs[k])
    BY <2>1, PrecedesNot
  <2>5. \A k \in DOMAIN rs : promise[rs[k]] = "idle"
    BY <2>1, <2>3
  <2> QED
    BY <2>1, <2>2, <2>3, <2>4, <2>5, PostMove
<1>9. ASSUME NEW c \in Commands, EndCommand(c)
      PROVE  QueueMoves(p)
  <2>1. Outstanding' \subseteq Outstanding
    BY <1>9 DEF EndCommand, Outstanding, TypeOK
  <2> QED
    BY <1>1, <1>9, <2>1 DEF EndCommand, wire, process
<1>10. ASSUME NEW f \in Refreshes, EndRefresh(f) \/ FailRefresh(f)
       PROVE  QueueMoves(p)
  <2>1. Forget(f)
    BY <1>10 DEF EndRefresh, FailRefresh
  <2>2. Outstanding' \subseteq Outstanding
    BY <2>1 DEF Forget, Outstanding
  <2> QED
    BY <1>1, <1>10, <2>2 DEF EndRefresh, FailRefresh, wire, process
<1>11. CASE OtherChange \/ UNCHANGED vars
  BY <1>1, <1>11 DEF OtherChange, vars, wire, process, page, Outstanding
<1> QED
  BY <1>2, <1>3, <1>4, <1>5, <1>6, <1>7, <1>8, <1>9, <1>10, <1>11 DEF Next

-----------------------------------------------------------------------------
(* The order of the requests is kept from the page to the worker *)

\* Refreshes start one after the other.
OlderStarted ==
  \A q, r \in Request : Precedes(q, r) /\ promise[q] = "idle" => promise[r] = "idle"

\* What is on its way was asked.
QueuedStarted(p) ==
  /\ \A i \in 1..Len(toHost[p]) : promise[toHost[p][i]] # "idle"
  /\ \A i \in 1..Len(toWorker[p]) :
       toWorker[p][i].id \in Request => promise[toWorker[p][i].id] # "idle"

InOrder(p) ==
  /\ AnswersInLine(toWorker[p], Outstanding)
  /\ RequestsInLine(toWorker[p], toHost[p], Outstanding)
  /\ host[p] = "reading" => AllInLine(toWorker[p], toHost[p], Outstanding)

\* An older request is asked, read and answered first.
FirstOut ==
  /\ OlderStarted
  /\ \A p \in Ports : QueuedStarted(p) /\ InOrder(p)

LEMMA OlderStartedStep ==
  ASSUME TypeOK, Settled, Together, OlderStarted, [Next]_vars
  PROVE  OlderStarted'
<1> SUFFICES ASSUME NEW q \in Request, NEW r \in Request, Precedes(q, r),
                    promise'[q] = "idle"
             PROVE  promise'[r] = "idle"
  BY DEF OlderStarted, Precedes, Asked
<1>1. promise[q] = "idle"
  BY PromiseMove DEF PromiseMoves
<1>2. promise[r] = "idle"
  BY <1>1 DEF OlderStarted
<1>3. ~Made(r)
  <2>1. ASSUME NEW c, r = <<c, "command">>
        PROVE  FALSE
    BY <2>1, PrecedesNot
  <2>2. ASSUME NEW f \in Refreshes, r \in Asked(f), StartRefresh(f)
        PROVE  FALSE
    <3>1. PICK e, g \in Refreshes : e < g /\ q \in Asked(e) /\ r \in Asked(g)
      BY DEF Precedes
    <3>2. g = f
      BY <2>2, <3>1 DEF Asked
    <3>3. promise[<<e, "required">>] # "idle"
      BY <2>2, <3>1, <3>2 DEF StartRefresh
    <3> QED
      BY <1>1, <3>1, <3>3 DEF Together, Asked
  <2> QED
    BY <2>1, <2>2 DEF Made
<1> QED
  BY <1>2, <1>3, PromiseMove DEF PromiseMoves

\* A request that is made precedes nothing that is on its way.
LEMMA NewIsLast ==
  ASSUME TypeOK, OlderStarted, NEW p \in Ports, QueuedStarted(p),
         NEW q \in Request, promise[q] = "idle"
  PROVE  /\ \A i \in 1..Len(toWorker[p]) : ~Precedes(q, toWorker[p][i].id)
         /\ \A i \in 1..Len(toHost[p]) : ~Precedes(q, toHost[p][i])
<1>1. \A r : Precedes(q, r) => r \in Request
  BY DEF Precedes, Asked, Request
<1> QED
  BY <1>1 DEF OlderStarted, QueuedStarted

LEMMA QueuedStartedStep ==
  ASSUME TypeOK, Settled, Together, PendingOnTheOpenPort, Ends, [Next]_vars,
         NEW p \in Ports, QueuedStarted(p)
  PROVE  QueuedStarted(p)'
<1> DEFINE w == toWorker[p]
           h == toHost[p]
           w2 == toWorker'[p]
           h2 == toHost'[p]
           Asking(r) == r \in Request => promise'[r] # "idle"
<1>1. w \in Seq(Response) /\ h \in Seq(Request)
  BY DEF TypeOK
<1>2. \A r \in Request : promise[r] # "idle" => promise'[r] # "idle"
  BY PromiseMove DEF PromiseMoves
<1>3. /\ \A i \in 1..Len(h) : h[i] \in Request /\ Asking(h[i])
      /\ \A i \in 1..Len(w) : Asking(w[i].id)
  BY <1>1, <1>2 DEF QueuedStarted
<1>4. h2 \in Seq(Request)
  BY TypeStep DEF TypeOK
<1>5. SUFFICES /\ \A i \in 1..Len(h2) : Asking(h2[i])
               /\ \A i \in 1..Len(w2) : Asking(w2[i].id)
  BY <1>4 DEF QueuedStarted
<1>6. QueueMoves(p)
  BY QueueMove
<1>7. CASE Still(p)
  BY <1>3, <1>7 DEF Still
<1>8. CASE Taken(p)
  <2>1. w # <<>> /\ w2 = Tail(w) /\ h2 = h
    BY <1>8 DEF Taken
  <2> HIDE DEF w, w2, h, h2, Asking
  <2>2. \A i \in 1..Len(w2) : i + 1 \in 1..Len(w) /\ w2[i] = w[i + 1]
    BY <1>1, <2>1
  <2> QED
    BY <1>3, <2>1, <2>2
<1>9. CASE Replied(p)
  <2>1. PICK answer \in Response : w2 = Append(w, answer) /\ answer.id = Head(h)
    BY <1>9 DEF Replied
  <2>2. h # <<>> /\ h2 = Tail(h)
    BY <1>9 DEF Replied
  <2> HIDE DEF w, w2, h, h2, Asking
  <2>3. \A i \in 1..Len(w2) : w2[i] = IF i \in 1..Len(w) THEN w[i] ELSE answer
    BY <1>1, <2>1
  <2>4. /\ \A i \in 1..Len(h2) : i + 1 \in 1..Len(h) /\ h2[i] = h[i + 1]
        /\ 1 \in 1..Len(h) /\ answer.id = h[1]
    BY <1>1, <2>1, <2>2
  <2> QED
    BY <1>3, <2>3, <2>4
<1>10. CASE Ended(p)
  <2>1. h2 = <<>> /\ (w2 = w \/ w2 = Append(w, [id |-> None, data |-> None]))
    BY <1>10 DEF Ended
  <2>2. Asking([id |-> None, data |-> None].id)
    BY NoneAssumption
  <2> DEFINE answer == [id |-> None, data |-> None]
  <2> HIDE DEF w, w2, h, h2, Asking, answer
  <2>3. w2 = Append(w, answer) =>
          \A i \in 1..Len(w2) : w2[i] = IF i \in 1..Len(w) THEN w[i] ELSE answer
    BY <1>1
  <2>4. \A i \in 1..Len(w2) : Asking(w2[i].id)
    <3>1. CASE w2 = w
      BY <1>3, <3>1
    <3>2. CASE w2 = Append(w, answer)
      <4>1. Asking(answer.id)
        BY <2>2 DEF answer
      <4> QED
        BY <1>3, <2>3, <3>2, <4>1
    <3> QED
      BY <2>1, <3>1, <3>2 DEF answer
  <2>5. Len(h2) = 0
    BY <2>1
  <2> QED
    BY <2>4, <2>5
<1>11. CASE Closed(p)
  BY <1>11 DEF Closed
<1>12. ASSUME NEW rs \in Seq(Request), Received(p, rs)
       PROVE  /\ \A i \in 1..Len(h2) : Asking(h2[i])
              /\ \A i \in 1..Len(w2) : Asking(w2[i].id)
  <2>1. w2 = w /\ h2 = h \o rs
    BY <1>12 DEF Received
  <2>2. \A k \in 1..Len(rs) : Asking(rs[k])
    BY <1>12 DEF Received
  <2> HIDE DEF w, w2, h, h2, Asking
  <2>3. \A i \in 1..Len(h2) : \/ i \in 1..Len(h) /\ h2[i] = h[i]
                              \/ i - Len(h) \in 1..Len(rs) /\ h2[i] = rs[i - Len(h)]
    BY <1>1, <2>1
  <2> QED
    BY <1>3, <2>1, <2>2, <2>3
<1> QED
  BY <1>6, <1>7, <1>8, <1>9, <1>10, <1>11, <1>12 DEF QueueMoves

LEMMA InOrderStep ==
  ASSUME TypeOK, Settled, Together, PendingOnTheOpenPort, Ends, OlderStarted,
         [Next]_vars, NEW p \in Ports, QueuedStarted(p), InOrder(p)
  PROVE  InOrder(p)'
<1> DEFINE w == toWorker[p]
           h == toHost[p]
           w2 == toWorker'[p]
           h2 == toHost'[p]
           P == Outstanding
           P2 == Outstanding'
           reads == host'[p] = "reading"
           Goal == /\ AnswersInLine(w2, P2)
                   /\ RequestsInLine(w2, h2, P2)
                   /\ reads => AllInLine(w2, h2, P2)
<1>1. w \in Seq(Response) /\ h \in Seq(Request)
  BY DEF TypeOK
<1>2. SUFFICES Goal
  BY DEF InOrder, AnswersInLine, RequestsInLine, AllInLine
<1>3. /\ AnswersInLine(w, P)
      /\ RequestsInLine(w, h, P)
      /\ host[p] = "reading" => AllInLine(w, h, P)
  BY DEF InOrder
<1>4. P = {} => AllInLine(w, h, P)
  BY DEF AllInLine
<1>5. P2 \subseteq Request
  BY DEF Outstanding
<1>6. \A q \in P2 : q \in P \/ promise[q] = "idle"
  BY PromiseMove DEF PromiseMoves, Outstanding
<1>7. \A q \in P2 : \/ q \in P
                    \/ /\ \A i \in 1..Len(w) : ~Precedes(q, w[i].id)
                       /\ \A i \in 1..Len(h) : ~Precedes(q, h[i])
  BY <1>5, <1>6, NewIsLast
<1>8. /\ AnswersInLine(w, P2)
      /\ RequestsInLine(w, h, P2)
  <2> HIDE DEF w, h, P, P2
  <2> QED
    BY <1>1, <1>3, <1>7, LineKept
<1>9. QueueMoves(p)
  BY QueueMove
<1>10. CASE Still(p)
  <2>1. w2 = w /\ h2 = h
    BY <1>10 DEF Still
  <2>2. ASSUME reads
        PROVE  AllInLine(w, h, P2)
    <3>1. P2 \subseteq P /\ AllInLine(w, h, P)
      BY <1>3, <1>4, <1>10, <2>2 DEF Still
    <3> HIDE DEF w, h, P, P2
    <3> QED
      BY <3>1 DEF AllInLine
  <2> HIDE DEF w, h, w2, h2, P, P2, reads
  <2> QED
    BY <1>8, <2>1, <2>2
<1>11. CASE Taken(p)
  <2>1. /\ w # <<>> /\ w2 = Tail(w) /\ h2 = h
        /\ \A q \in P2 : q \in P /\ q # Head(w).id
        /\ reads => host[p] = "reading"
    BY <1>11 DEF Taken
  <2> HIDE DEF w, h, w2, h2, P, P2, reads
  <2> QED
    BY <1>1, <1>3, <2>1, LineRead
<1>12. CASE Replied(p)
  <2>1. PICK answer \in Response : w2 = Append(w, answer) /\ answer.id = Head(h)
    BY <1>12 DEF Replied
  <2>2. h # <<>> /\ h2 = Tail(h) /\ P2 = P /\ host[p] = "reading"
    BY <1>12 DEF Replied, Outstanding
  <2> HIDE DEF w, h, w2, h2, P, P2, reads
  <2>3. /\ AnswersInLine(w, P) => AnswersInLine(w2, P)
        /\ RequestsInLine(w2, h2, P)
        /\ AllInLine(w, h, P) => AllInLine(w2, h2, P)
    BY <1>1, <1>3, <2>1, <2>2, LineReplied
  <2> QED
    BY <1>3, <2>2, <2>3
<1>13. CASE Ended(p)
  <2> DEFINE answer == [id |-> None, data |-> None]
  <2>1. /\ h2 = <<>> /\ (w2 = w \/ w2 = Append(w, answer)) /\ P2 = P
        /\ ~reads
    BY <1>13 DEF Ended, Outstanding
  <2>2. answer \in Response /\ answer.id = None
    BY DEF Response
  <2> HIDE DEF w, h, w2, h2, P, P2, reads, answer
  <2>3. AnswersInLine(w2, P)
    <3>1. CASE w2 = w
      BY <1>3, <3>1
    <3>2. CASE w2 = Append(w, answer)
      <4>1. \A q \in P : ~Precedes(q, answer.id)
        BY <2>2, PrecedesNot
      <4> QED
        BY <1>1, <1>3, <2>2, <3>2, <4>1, LineAnswered
    <3> QED
      BY <2>1, <3>1, <3>2
  <2>4. RequestsInLine(w2, h2, P)
    <3>1. Len(h2) = 0
      BY <2>1
    <3> QED
      BY <3>1 DEF RequestsInLine
  <2> QED
    BY <2>1, <2>3, <2>4
<1>14. CASE Closed(p)
  <2>1. Len(w2) = 0 /\ Len(h2) = 0 /\ ~reads
    BY <1>14 DEF Closed
  <2> HIDE DEF w2, h2, P2, reads
  <2> QED
    BY <2>1 DEF AnswersInLine, RequestsInLine
<1>15. ASSUME NEW rs \in Seq(Request), Received(p, rs)
       PROVE  Goal
  <2>1. /\ w2 = w /\ h2 = h \o rs
        /\ AllInLine(w, h, P)
        /\ \A k \in 1..Len(rs) : rs[k] \in Request /\ promise[rs[k]] = "idle"
    BY <1>3, <1>4, <1>15 DEF Received
  <2>2. \A k \in 1..Len(rs) :
          /\ \A i \in 1..Len(w) : ~Precedes(rs[k], w[i].id)
          /\ \A i \in 1..Len(h) : ~Precedes(rs[k], h[i])
          /\ \A i \in 1..Len(rs) : ~Precedes(rs[k], rs[i])
    BY <1>15, <2>1, NewIsLast DEF Received
  <2>3. \A q \in P2 : q \in P \/ \E k \in 1..Len(rs) : rs[k] = q
    BY <1>15 DEF Received
  <2> HIDE DEF w, h, w2, h2, P, P2, reads
  <2>4. /\ AnswersInLine(w, P) => AnswersInLine(w, P2)
        /\ RequestsInLine(w, h, P) => RequestsInLine(w, h2, P2)
        /\ AllInLine(w, h2, P2)
    BY <1>1, <2>1, <2>2, <2>3, LineReceived
  <2> QED
    BY <1>3, <2>1, <2>4
<1> QED
  BY <1>9, <1>10, <1>11, <1>12, <1>13, <1>14, <1>15 DEF QueueMoves

-----------------------------------------------------------------------------
(* A newer refresh is not answered while an older one waits *)

\* A request of a refresh that is answered has overtaken none that still waits.
Overtaken ==
  \A q, r \in Request :
    Precedes(q, r) /\ promise[r] = "resolved" => promise[q] # "pending"

LEMMA OvertakenStep ==
  ASSUME TypeOK, Settled, Together, OlderStarted,
         \A p \in Ports : InOrder(p), Overtaken, [Next]_vars
  PROVE  Overtaken'
<1> SUFFICES ASSUME NEW q \in Request, NEW r \in Request, Precedes(q, r),
                    promise'[r] = "resolved", promise'[q] = "pending"
             PROVE  FALSE
  BY DEF Overtaken, Precedes, Asked
<1>1. PromiseMoves(q) /\ PromiseMoves(r)
  BY PromiseMove
<1>2. CASE promise[r] = "resolved"
  <2>1. promise[q] = "idle"
    BY <1>1, <1>2 DEF PromiseMoves, Overtaken
  <2> QED
    BY <1>2, <2>1 DEF OlderStarted
<1>3. CASE promise[r] # "resolved"
  <2>1. /\ promise[r] = "pending"
        /\ \E p \in Ports : AnsweredOn(p, r)
    BY <1>1, <1>3 DEF PromiseMoves
  <2>2. PICK p \in Ports : toWorker[p] # <<>> /\ Head(toWorker[p]).id = r
    BY <2>1 DEF AnsweredOn
  <2>3. q \in Outstanding
    <3>1. promise[q] # "idle"
      BY <2>1 DEF OlderStarted
    <3> QED
      BY <1>1, <3>1 DEF PromiseMoves, Outstanding
  <2>4. 1 \in 1..Len(toWorker[p]) /\ Head(toWorker[p]) = toWorker[p][1]
    BY <2>2 DEF TypeOK
  <2>5. InAnswers(toWorker[p], 1 - 1, q)
    BY <2>2, <2>3, <2>4 DEF InOrder, AnswersInLine
  <2> QED
    BY <2>5 DEF InAnswers
<1> QED
  BY <1>2, <1>3

-----------------------------------------------------------------------------
(* The answers on their way are ever more recent *)

\* None of the answers w is older than v; ...
NoneOlder(v, w) == \A i \in 1..Len(w) : w[i].data # None => v <= w[i].data

\* ... the answers w are no older than those before them, nor newer than v; ...
Rising(w, v) ==
  \A i \in 1..Len(w) : w[i].data # None =>
    /\ w[i].data <= v
    /\ \A j \in i..Len(w) : w[j].data # None => w[i].data <= w[j].data

\* ... no answer that is still to come is older than v.
Floor(v) == v <= version /\ \A p \in Ports : NoneOlder(v, toWorker[p])

AllRising == \A p \in Ports : Rising(toWorker[p], version)

LEMMA VersionGrows ==
  ASSUME TypeOK, [Next]_vars
  PROVE  version \in Nat /\ version' \in Nat /\ version <= version'
<1>1. version \in Nat
  BY BoundsAssumption DEF TypeOK, Version
<1>2. version' \in {version, version + 1}
  <2>1. ASSUME NEW p \in Ports, Answer(p) \/ AnswerLost(p)
        PROVE  version' \in {version, version + 1}
    <3>1. PICK outcome \in Outcome(Head(toHost[p])) : version' = outcome.version
      BY <2>1 DEF Answer, AnswerLost
    <3> QED
      BY <3>1, OutcomeType
  <2>2. ASSUME NEW p \in Ports, OnMessage(p) \/ OnDisconnect(p) \/ Refuse(p)
                                \/ ReadFails(p) \/ HostDies(p)
        PROVE  version' = version
    BY <2>2 DEF OnMessage, OnDisconnect, Refuse, ReadFails, HostDies, process
  <2>3. ASSUME NEW r \in Request, TimeOut(r)
        PROVE  version' = version
    BY <2>3 DEF TimeOut, process
  <2>4. ASSUME NEW c \in Commands, StartCommand(c) \/ EndCommand(c)
        PROVE  version' = version
    BY <2>4 DEF StartCommand, EndCommand, process
  <2>5. ASSUME NEW f \in Refreshes, StartRefresh(f) \/ EndRefresh(f) \/ FailRefresh(f)
        PROVE  version' = version
    BY <2>5 DEF StartRefresh, EndRefresh, FailRefresh, process
  <2>6. CASE OtherChange
    BY <2>6 DEF OtherChange
  <2>7. CASE UNCHANGED vars
    BY <2>7 DEF vars, process
  <2> QED
    BY <2>1, <2>2, <2>3, <2>4, <2>5, <2>6, <2>7 DEF Next
<1> QED
  BY <1>1, <1>2

\* What is on its way back after a step: what was, less the first or with an
\* error or a list of now at the end, or nothing.
LEMMA AnswersMove ==
  ASSUME TypeOK, Settled, Together, PendingOnTheOpenPort, Ends, [Next]_vars,
         NEW p \in Ports
  PROVE  \/ toWorker'[p] = toWorker[p]
         \/ toWorker[p] # <<>> /\ toWorker'[p] = Tail(toWorker[p])
         \/ \E answer \in Response : /\ toWorker'[p] = Append(toWorker[p], answer)
                                     /\ answer.data \in {None, version'}
         \/ toWorker'[p] = <<>>
<1>1. QueueMoves(p)
  BY QueueMove
<1>2. [id |-> None, data |-> None] \in Response
  BY DEF Response
<1> QED
  BY <1>1, <1>2 DEF QueueMoves, Still, Taken, Replied, Ended, Closed, Received

\* What one step does to the order of answers.
LEMMA RisingMove ==
  ASSUME NEW w \in Seq(Response), NEW w2, NEW v \in Nat, NEW v2 \in Nat, v <= v2,
         \/ w2 = w
         \/ w # <<>> /\ w2 = Tail(w)
         \/ \E answer \in Response : w2 = Append(w, answer) /\ answer.data \in {None, v2}
         \/ w2 = <<>>
  PROVE  /\ Rising(w, v) => Rising(w2, v2)
         /\ \A x \in Nat : x <= v /\ NoneOlder(x, w) => NoneOlder(x, w2)
<1>1. \A i \in 1..Len(w) : w[i].data # None => w[i].data \in Nat
  <2>1. \A i \in 1..Len(w) : w[i] \in Response
    OBVIOUS
  <2>2. \A a \in Response : a.data # None => a.data \in Nat
    BY BoundsAssumption DEF Response, Version
  <2> QED
    BY <2>1, <2>2
<1>2. CASE w2 = w
  <2>1. Rising(w, v) => Rising(w, v2)
    BY <1>1 DEF Rising
  <2> QED
    BY <1>2, <2>1
<1>3. CASE w # <<>> /\ w2 = Tail(w)
  <2>1. /\ Len(w) \in Nat /\ Len(w2) = Len(w) - 1
        /\ \A i \in 1..Len(w2) : i + 1 \in 1..Len(w) /\ w2[i] = w[i + 1]
    BY <1>3
  <2>2. \A x \in Nat : NoneOlder(x, w) => NoneOlder(x, w2)
    BY <2>1 DEF NoneOlder
  <2>3. ASSUME Rising(w, v), NEW i \in 1..Len(w2), w2[i].data # None
        PROVE  /\ w2[i].data <= v2
               /\ \A j \in i..Len(w2) : w2[j].data # None => w2[i].data <= w2[j].data
    <3>1. /\ w[i + 1].data <= v
          /\ \A j \in (i + 1)..Len(w) :
               w[j].data # None => w[i + 1].data <= w[j].data
      BY <2>1, <2>3 DEF Rising
    <3>2. \A j \in i..Len(w2) : j + 1 \in (i + 1)..Len(w) /\ w2[j] = w[j + 1]
      BY <2>1
    <3>3. w2[i] = w[i + 1] /\ w[i + 1].data \in Nat
      BY <1>1, <2>1, <2>3
    <3>4. w2[i].data <= v2
      BY <3>1, <3>3
    <3> QED
      BY <3>1, <3>2, <3>3, <3>4
  <2> QED
    BY <2>2, <2>3 DEF Rising
<1>4. ASSUME NEW answer \in Response, w2 = Append(w, answer), answer.data \in {None, v2}
      PROVE  /\ Rising(w, v) => Rising(w2, v2)
             /\ \A x \in Nat : x <= v /\ NoneOlder(x, w) => NoneOlder(x, w2)
  <2>1. /\ Len(w) \in Nat /\ Len(w2) = Len(w) + 1
        /\ \A i \in 1..Len(w) : w2[i] = w[i]
        /\ w2[Len(w) + 1] = answer
    BY <1>4
  <2>2. \A i \in 1..Len(w2) : i \in 1..Len(w) \/ (i = Len(w) + 1 /\ w2[i] = answer)
    BY <2>1
  <2>3. \A x \in Nat : x <= v /\ NoneOlder(x, w) => NoneOlder(x, w2)
    BY <1>4, <2>1, <2>2 DEF NoneOlder
  <2>4. ASSUME Rising(w, v), NEW i \in 1..Len(w2), w2[i].data # None
        PROVE  /\ w2[i].data <= v2
               /\ \A j \in i..Len(w2) : w2[j].data # None => w2[i].data <= w2[j].data
    <3>1. CASE i = Len(w) + 1
      <4>1. w2[i].data = v2
        BY <1>4, <2>1, <2>4, <3>1
      <4>2. \A j \in i..Len(w2) : j = i
        BY <2>1, <3>1
      <4> QED
        BY <4>1, <4>2
    <3>2. CASE i \in 1..Len(w)
      <4>1. /\ w2[i] = w[i] /\ w[i].data \in Nat
            /\ w[i].data <= v
            /\ \A j \in i..Len(w) : w[j].data # None => w[i].data <= w[j].data
        BY <1>1, <2>1, <2>4, <3>2 DEF Rising
      <4>2. w[i].data <= v2
        BY <4>1
      <4>3. ASSUME NEW j \in i..Len(w2), w2[j].data # None
            PROVE  w[i].data <= w2[j].data
        <5>1. CASE j \in i..Len(w)
          <6>1. w2[j] = w[j]
            BY <2>1, <3>2, <5>1
          <6> QED
            BY <4>1, <4>3, <5>1, <6>1
        <5>2. CASE j = Len(w) + 1
          <6>1. w2[j].data = v2
            BY <1>4, <2>1, <4>3, <5>2
          <6> QED
            BY <4>2, <6>1
        <5> QED
          BY <2>1, <3>2, <5>1, <5>2
      <4> QED
        BY <4>1, <4>2, <4>3
    <3> QED
      BY <2>2, <3>1, <3>2
  <2> QED
    BY <2>3, <2>4 DEF Rising
<1>5. CASE w2 = <<>>
  <2>1. Len(w2) = 0
    BY <1>5
  <2> QED
    BY <2>1 DEF Rising, NoneOlder
<1> QED
  BY <1>2, <1>3, <1>4, <1>5

LEMMA RisingStep ==
  ASSUME TypeOK, Settled, Together, PendingOnTheOpenPort, Ends, AllRising,
         [Next]_vars
  PROVE  AllRising'
<1>1. version \in Nat /\ version' \in Nat /\ version <= version'
  BY VersionGrows
<1> SUFFICES ASSUME NEW p \in Ports
             PROVE  Rising(toWorker'[p], version')
  BY DEF AllRising
<1>2. toWorker[p] \in Seq(Response) /\ Rising(toWorker[p], version)
  BY DEF AllRising, TypeOK
<1>3. \/ toWorker'[p] = toWorker[p]
      \/ toWorker[p] # <<>> /\ toWorker'[p] = Tail(toWorker[p])
      \/ \E answer \in Response : /\ toWorker'[p] = Append(toWorker[p], answer)
                                  /\ answer.data \in {None, version'}
      \/ toWorker'[p] = <<>>
  BY AnswersMove
<1> QED
  BY <1>1, <1>2, <1>3, RisingMove

LEMMA FloorStep ==
  ASSUME TypeOK, Settled, Together, PendingOnTheOpenPort, Ends,
         [Next]_vars, NEW v \in Nat, Floor(v)
  PROVE  v <= version' /\ \A p \in Ports : NoneOlder(v, toWorker'[p])
<1>1. version \in Nat /\ version' \in Nat /\ version <= version' /\ v <= version
  BY VersionGrows DEF Floor
<1>2. v <= version'
  BY <1>1
<1>3. ASSUME NEW p \in Ports
      PROVE  NoneOlder(v, toWorker'[p])
  <2>1. toWorker[p] \in Seq(Response) /\ NoneOlder(v, toWorker[p])
    BY DEF Floor, TypeOK
  <2>2. \/ toWorker'[p] = toWorker[p]
        \/ toWorker[p] # <<>> /\ toWorker'[p] = Tail(toWorker[p])
        \/ \E answer \in Response : /\ toWorker'[p] = Append(toWorker[p], answer)
                                    /\ answer.data \in {None, version'}
        \/ toWorker'[p] = <<>>
    BY AnswersMove
  <2> QED
    BY <1>1, <2>1, <2>2, RisingMove
<1> QED
  BY <1>2, <1>3

\* The answer that is taken is a version no later answer is older than.
LEMMA AnswerIsFloor ==
  ASSUME TypeOK, PendingOnTheOpenPort, Ends, AllRising,
         NEW p \in Ports, NEW r \in Request, AnsweredOn(p, r)
  PROVE  /\ data'[r] \in Nat
         /\ Floor(data'[r])
         /\ \A v \in Nat : Floor(v) => v <= data'[r]
<1> DEFINE w == toWorker[p]
           v == data'[r]
<1>1. /\ w \in Seq(Response) /\ w # <<>> /\ Head(w).data = v /\ v # None
      /\ port[p] = "open" /\ Rising(w, version)
  BY DEF AnsweredOn, TypeOK, AllRising
<1>2. \A q \in Ports : q # p => toWorker[q] = <<>>
  BY <1>1 DEF PendingOnTheOpenPort, Ends
<1> HIDE DEF v
<1>3. Head(w) = w[1] /\ 1 \in 1..Len(w) /\ w[1] \in Response
  <2> HIDE DEF w
  <2> QED
    BY <1>1
<1>4. w[1].data = v
  BY <1>1, <1>3
<1>5. v \in Nat
  BY <1>1, <1>3, <1>4, BoundsAssumption DEF Response, Version
<1>6. v <= version /\ NoneOlder(v, w)
  BY <1>1, <1>3, <1>4 DEF Rising, NoneOlder
<1>7. \A q \in Ports : NoneOlder(v, toWorker[q])
  <2>1. Len(<<>>) = 0
    OBVIOUS
  <2>2. NoneOlder(v, <<>>)
    BY <2>1 DEF NoneOlder
  <2> QED
    BY <1>2, <1>6, <2>2
<1>8. ASSUME NEW x \in Nat, Floor(x)
      PROVE  x <= v
  <2>1. NoneOlder(x, w)
    BY <1>8 DEF Floor
  <2> HIDE DEF w
  <2> QED
    BY <1>1, <1>3, <1>4, <2>1 DEF NoneOlder
<1>9. Floor(v)
  BY <1>6, <1>7 DEF Floor
<1> QED
  BY <1>5, <1>8, <1>9 DEF v

-----------------------------------------------------------------------------
(* The page shows ever more recent lists *)

\* What the refreshes ask for.
Asks == Refreshes \X {"required", "optional"}

\* The page holds nothing that is newer than what is still to come, ...
HeldIsFloor == \A r \in Asks : promise[r] = "resolved" => Floor(data[r])

\* ... what an older refresh holds is no newer than what a newer one holds, ...
HeldInOrder ==
  \A q, r \in Asks :
    Precedes(q, r) /\ promise[q] = "resolved" /\ promise[r] = "resolved"
      => data[q] <= data[r]

\* ... and what it shows is no newer than either.
IsShown(v) == Floor(v) /\ \A r \in Asks : promise[r] = "resolved" => v <= data[r]

Recent ==
  /\ AllRising
  /\ HeldIsFloor
  /\ HeldInOrder
  /\ IsShown(view.containers)
  /\ IsShown(view.lists)

\* What the page has just come to hold.
LEMMA HeldMove ==
  ASSUME TypeOK, Settled, Together, PendingOnTheOpenPort, Ends, AllRising,
         [Next]_vars, NEW r \in Asks, promise'[r] = "resolved"
  PROVE  \/ promise[r] = "resolved" /\ data'[r] = data[r] /\ data[r] \in Nat
         \/ /\ promise[r] = "pending"
            /\ data'[r] \in Nat /\ Floor(data'[r])
            /\ \A v \in Nat : Floor(v) => v <= data'[r]
            /\ \E p \in Ports : AnsweredOn(p, r)
<1>1. r \in Request
  BY DEF Asks, Request
<1>2. \/ promise[r] = "resolved" /\ data'[r] = data[r]
      \/ promise[r] = "pending" /\ \E p \in Ports : AnsweredOn(p, r)
  BY <1>1, PromiseMove DEF PromiseMoves
<1>3. CASE promise[r] = "resolved" /\ data'[r] = data[r]
  BY <1>1, <1>3, BoundsAssumption DEF Settled, Version
<1>4. CASE promise[r] = "pending" /\ \E p \in Ports : AnsweredOn(p, r)
  BY <1>1, <1>4, AnswerIsFloor
<1> QED
  BY <1>2, <1>3, <1>4

LEMMA HeldIsFloorStep ==
  ASSUME TypeOK, Settled, Together, PendingOnTheOpenPort, Ends, AllRising,
         HeldIsFloor, [Next]_vars
  PROVE  HeldIsFloor'
<1> SUFFICES ASSUME NEW r \in Asks, promise'[r] = "resolved"
             PROVE  Floor(data[r])'
  BY DEF HeldIsFloor, Asks
<1>1. data'[r] \in Nat /\ Floor(data'[r])
  BY HeldMove DEF HeldIsFloor
<1>2. PICK v \in Nat : v = data'[r]
  BY <1>1
<1>3. v <= version' /\ \A p \in Ports : NoneOlder(v, toWorker'[p])
  BY <1>1, <1>2, FloorStep
<1> QED
  BY <1>2, <1>3 DEF Floor, NoneOlder

LEMMA HeldInOrderStep ==
  ASSUME TypeOK, Settled, Together, PendingOnTheOpenPort, Ends, AllRising,
         HeldIsFloor, HeldInOrder, Overtaken, [Next]_vars
  PROVE  HeldInOrder'
<1> SUFFICES ASSUME NEW q \in Asks, NEW r \in Asks, Precedes(q, r),
                    promise'[q] = "resolved", promise'[r] = "resolved"
             PROVE  data'[q] <= data'[r]
  BY DEF HeldInOrder, Asks, Precedes, Asked
<1>1. q \in Request /\ r \in Request
  BY DEF Asks, Request
<1>2. CASE promise[q] = "resolved" /\ promise[r] = "resolved"
  BY <1>2, HeldMove DEF HeldInOrder
<1>3. CASE promise[q] = "resolved" /\ promise[r] # "resolved"
  <2>1. data'[q] = data[q] /\ data[q] \in Nat /\ Floor(data[q])
    BY <1>3, HeldMove DEF HeldIsFloor
  <2>2. \A v \in Nat : Floor(v) => v <= data'[r]
    BY <1>3, HeldMove
  <2> QED
    BY <2>1, <2>2
<1>4. CASE promise[q] # "resolved" /\ promise[r] = "resolved"
  <2>1. promise[q] = "pending"
    BY <1>4, HeldMove
  <2> QED
    BY <1>1, <1>4, <2>1 DEF Overtaken
<1>5. CASE promise[q] # "resolved" /\ promise[r] # "resolved"
  <2>1. data'[q] \in Nat /\ Floor(data'[q])
    BY <1>5, HeldMove
  <2>2. \A v \in Nat : Floor(v) => v <= data'[r]
    BY <1>5, HeldMove
  <2> QED
    BY <2>1, <2>2
<1> QED
  BY <1>2, <1>3, <1>4, <1>5

\* A refresh that ends shows what it holds; those that still wait hold nothing
\* older, because the older of them wait for both promises or would go first.
LEMMA EndShows ==
  ASSUME TypeOK, Settled, Together, Waiting, Overtaken, HeldIsFloor, HeldInOrder,
         NEW f \in Refreshes, EndRefresh(f),
         NEW q \in Asked(f), promise[q] = "resolved"
  PROVE  /\ data[q] \in Nat /\ Floor(data[q])
         /\ \A r \in Asks : promise'[r] = "resolved" =>
              promise[r] = "resolved" /\ data'[r] = data[r] /\ data[q] <= data[r]
<1>1. q \in Asks /\ q \in Request
  BY DEF Asked, Asks, Request
<1>2. data[q] \in Nat /\ Floor(data[q])
  BY <1>1, BoundsAssumption DEF Settled, Version, HeldIsFloor
<1>3. Forget(f) /\ Turn(f) /\ promise[<<f, "required">>] = "resolved"
  BY DEF EndRefresh
<1>4. ASSUME NEW r \in Asks, promise'[r] = "resolved"
      PROVE  promise[r] = "resolved" /\ data'[r] = data[r] /\ data[q] <= data[r]
  <2>1. r \in Request
    BY DEF Asks, Request
  <2>2. r \notin Asked(f) /\ promise[r] = "resolved" /\ data'[r] = data[r]
    BY <1>3, <1>4, <2>1 DEF Forget, Asked
  <2>3. PICK g \in Refreshes : r \in Asked(g)
    BY DEF Asks, Asked
  <2>4. g # f
    BY <2>2, <2>3
  <2>5. f \in Nat /\ g \in Nat
    BY BoundsAssumption DEF Refreshes
  <2>6. CASE f < g
    <3>1. Precedes(q, r)
      BY <2>3, <2>6 DEF Precedes
    <3> QED
      BY <1>1, <2>2, <3>1 DEF HeldInOrder
  <2>7. CASE g < f
    <3>1. g \in refreshes
      BY <2>2, <2>3 DEF Waiting, Live
    <3>2. ~Ready(g)
      BY <1>3, <2>7, <3>1 DEF Turn
    <3>3. \A o \in Asked(g) : promise[o] \in {"resolved", "rejected"}
      <4>1. ASSUME NEW o \in Asked(g)
            PROVE  promise[o] \in {"resolved", "rejected"}
        <5>1. Precedes(o, <<f, "required">>)
          BY <2>7 DEF Precedes, Asked
        <5>2. o \in Request /\ <<f, "required">> \in Request
          BY DEF Asked, Request
        <5>3. promise[o] # "pending"
          BY <1>3, <5>1, <5>2 DEF Overtaken
        <5> QED
          BY <3>1, <5>3 DEF Waiting, Live
      <4> QED
        BY <4>1
    <3> QED
      BY <3>2, <3>3 DEF Ready, Asked
  <2> QED
    BY <2>4, <2>5, <2>6, <2>7
<1> QED
  BY <1>2, <1>4

\* What is shown after the end of a refresh.
LEMMA EndIsShown ==
  ASSUME TypeOK, Settled, Together, Waiting, PendingOnTheOpenPort, Ends, Overtaken,
         Recent, [Next]_vars, NEW f \in Refreshes, EndRefresh(f)
  PROVE  /\ view'.containers >= view.containers
         /\ view'.lists # 0 => view'.lists >= view.lists
         /\ IsShown(view.containers)'
         /\ IsShown(view.lists)'
<1> DEFINE required == <<f, "required">>
           optional == <<f, "optional">>
<1>1. /\ required \in Asked(f) /\ optional \in Asked(f)
      /\ required \in Asks /\ optional \in Asks
  BY DEF Asked, Asks
<1>2. /\ promise[required] = "resolved"
      /\ view'.containers = data[required]
      /\ view'.lists = IF promise[optional] = "resolved" THEN data[optional] ELSE 0
  BY DEF EndRefresh, Lists
<1> HIDE DEF required, optional
<1>3. view.containers \in Nat /\ view.lists \in Nat
  BY BoundsAssumption DEF TypeOK, View, Version
<1>4. ASSUME NEW q \in {required, optional}, promise[q] = "resolved"
      PROVE  /\ data[q] \in Nat
             /\ view.containers <= data[q] /\ view.lists <= data[q]
             /\ data[q] <= version'
             /\ \A p \in Ports : NoneOlder(data[q], toWorker'[p])
             /\ \A r \in Asks : promise'[r] = "resolved" => data[q] <= data'[r]
  <2>1. /\ data[q] \in Nat /\ Floor(data[q])
        /\ \A r \in Asks : promise'[r] = "resolved" =>
             promise[r] = "resolved" /\ data'[r] = data[r] /\ data[q] <= data[r]
    BY <1>1, <1>4, EndShows DEF Recent
  <2>2. view.containers <= data[q] /\ view.lists <= data[q]
    BY <1>1, <1>4 DEF Recent, IsShown
  <2>3. data[q] <= version' /\ \A p \in Ports : NoneOlder(data[q], toWorker'[p])
    BY <2>1, FloorStep
  <2> QED
    BY <2>1, <2>2, <2>3
<1>5. /\ 0 <= version'
      /\ \A p \in Ports : NoneOlder(0, toWorker'[p])
      /\ \A r \in Asks : promise'[r] = "resolved" => 0 <= data'[r]
  <2>1. TypeOK' /\ Settled'
    BY TypeStep, SettledStep
  <2>2. version' \in Nat
    BY VersionGrows
  <2>3. ASSUME NEW p \in Ports, NEW i \in 1..Len(toWorker'[p])
        PROVE  toWorker'[p][i].data # None => 0 <= toWorker'[p][i].data
    <3>1. toWorker'[p] \in Seq(Response)
      BY <2>1 DEF TypeOK
    <3>2. PICK w \in Seq(Response) : w = toWorker'[p]
      BY <3>1
    <3>3. w[i] \in Response
      BY <3>2
    <3>4. \A a \in Response : a.data # None => 0 <= a.data
      BY BoundsAssumption DEF Response, Version
    <3> QED
      BY <3>2, <3>3, <3>4
  <2>4. ASSUME NEW r \in Asks, promise'[r] = "resolved"
        PROVE  0 <= data'[r]
    <3>1. r \in Request
      BY DEF Asks, Request
    <3>2. data'[r] \in Version
      BY <2>1, <2>4, <3>1 DEF Settled
    <3> QED
      BY <3>2, BoundsAssumption DEF Version
  <2> QED
    BY <2>2, <2>3, <2>4 DEF NoneOlder
<1>6. view'.containers >= view.containers /\ IsShown(view.containers)'
  <2>1. /\ data[required] \in Nat
        /\ view.containers <= data[required]
        /\ data[required] <= version'
        /\ \A p \in Ports : NoneOlder(data[required], toWorker'[p])
        /\ \A r \in Asks : promise'[r] = "resolved" => data[required] <= data'[r]
    BY <1>2, <1>4
  <2>2. view'.containers >= view.containers
    BY <1>2, <1>3, <2>1
  <2>3. PICK v \in {data[required]} : v = view'.containers
    BY <1>2
  <2>4. /\ v <= version'
        /\ \A p \in Ports : NoneOlder(v, toWorker'[p])
        /\ \A r \in Asks : promise'[r] = "resolved" => v <= data'[r]
    BY <2>1, <2>3
  <2> QED
    BY <2>2, <2>3, <2>4 DEF IsShown, Floor, NoneOlder, Asks
<1>7. /\ view'.lists # 0 => view'.lists >= view.lists
      /\ IsShown(view.lists)'
  <2>1. PICK v \in {0, data[optional]} :
           v = view'.lists /\ (v = 0 \/ (v = data[optional] /\ promise[optional] = "resolved"))
    BY <1>2
  <2>2. /\ v <= version'
        /\ \A p \in Ports : NoneOlder(v, toWorker'[p])
        /\ \A r \in Asks : promise'[r] = "resolved" => v <= data'[r]
    <3>1. CASE v = 0
      BY <1>5, <3>1
    <3>2. CASE v # 0
      BY <1>4, <2>1, <3>2
    <3> QED
      BY <3>1, <3>2
  <2>3. view'.lists # 0 => view'.lists >= view.lists
    <3>1. v # 0 => data[optional] \in Nat /\ view.lists <= data[optional]
      BY <1>4, <2>1
    <3> QED
      BY <1>3, <2>1, <3>1
  <2> QED
    BY <2>1, <2>2, <2>3 DEF IsShown, Floor, NoneOlder, Asks
<1> QED
  BY <1>6, <1>7

\* What is shown stays as it is otherwise.
LEMMA ViewMove ==
  ASSUME TypeOK, [Next]_vars
  PROVE  \/ view'.containers = view.containers /\ view'.lists = view.lists
         \/ \E f \in Refreshes : EndRefresh(f)
<1>1. ASSUME NEW status, view' = [view EXCEPT !.status = status]
      PROVE  view'.containers = view.containers /\ view'.lists = view.lists
  BY <1>1 DEF TypeOK, View
<1>2. ASSUME NEW p \in Ports, OnMessage(p) \/ OnDisconnect(p) \/ Answer(p)
                              \/ AnswerLost(p) \/ Refuse(p) \/ ReadFails(p)
                              \/ HostDies(p)
      PROVE  view'.containers = view.containers /\ view'.lists = view.lists
  BY <1>1, <1>2 DEF OnMessage, OnDisconnect, Answer, AnswerLost, Refuse,
                    ReadFails, HostDies, page
<1>3. ASSUME NEW r \in Request, TimeOut(r)
      PROVE  view'.containers = view.containers /\ view'.lists = view.lists
  BY <1>3 DEF TimeOut
<1>4. ASSUME NEW c \in Commands, StartCommand(c) \/ EndCommand(c)
      PROVE  view'.containers = view.containers /\ view'.lists = view.lists
  BY <1>4 DEF StartCommand, EndCommand
<1>5. ASSUME NEW f \in Refreshes, StartRefresh(f) \/ FailRefresh(f)
      PROVE  view'.containers = view.containers /\ view'.lists = view.lists
  BY <1>1, <1>5 DEF StartRefresh, FailRefresh
<1>6. CASE OtherChange \/ UNCHANGED vars
  BY <1>6 DEF OtherChange, vars, page
<1> QED
  BY <1>2, <1>3, <1>4, <1>5, <1>6 DEF Next

LEMMA RecentStep ==
  ASSUME TypeOK, Settled, Together, Waiting, PendingOnTheOpenPort, Ends, Overtaken,
         Recent, [Next]_vars
  PROVE  Recent'
<1>1. AllRising' /\ HeldIsFloor' /\ HeldInOrder'
  BY RisingStep, HeldIsFloorStep, HeldInOrderStep DEF Recent
<1>2. ASSUME NEW v \in Nat, IsShown(v)
      PROVE  /\ v <= version'
             /\ \A p \in Ports : NoneOlder(v, toWorker'[p])
             /\ \A r \in Asks : promise'[r] = "resolved" => v <= data'[r]
  <2>1. Floor(v)
    BY <1>2 DEF IsShown
  <2>2. v <= version' /\ \A p \in Ports : NoneOlder(v, toWorker'[p])
    BY <2>1, FloorStep
  <2>3. ASSUME NEW r \in Asks, promise'[r] = "resolved"
        PROVE  v <= data'[r]
    BY <1>2, <2>1, <2>3, HeldMove DEF IsShown, Recent
  <2> QED
    BY <2>2, <2>3
<1>3. CASE view'.containers = view.containers /\ view'.lists = view.lists
  <2>1. PICK c, l \in Nat : c = view.containers /\ l = view.lists
    BY BoundsAssumption DEF TypeOK, View, Version
  <2>2. IsShown(c) /\ IsShown(l)
    BY <2>1 DEF Recent
  <2>3. c = view'.containers /\ l = view'.lists
    BY <1>3, <2>1
  <2>4. /\ c <= version' /\ l <= version'
        /\ \A p \in Ports : NoneOlder(c, toWorker'[p]) /\ NoneOlder(l, toWorker'[p])
        /\ \A r \in Asks : promise'[r] = "resolved" => c <= data'[r] /\ l <= data'[r]
    BY <1>2, <2>2
  <2>5. IsShown(view.containers)' /\ IsShown(view.lists)'
    BY <2>3, <2>4 DEF IsShown, Floor, NoneOlder, Asks
  <2> QED
    BY <1>1, <2>5 DEF Recent
<1>4. CASE \E f \in Refreshes : EndRefresh(f)
  BY <1>1, <1>4, EndIsShown DEF Recent
<1> QED
  BY <1>3, <1>4, ViewMove

-----------------------------------------------------------------------------

\* First asked, first answered, first shown: the invariant of the order.
Order ==
  /\ TypeOK /\ Settled /\ Together /\ PendingOnTheOpenPort
  /\ Waiting /\ Ends /\ FirstOut /\ Overtaken /\ Recent

LEMMA OrderKept == Spec => []Order
<1>1. Init => Order
  <2> SUFFICES ASSUME Init
               PROVE  Order
    OBVIOUS
  <2>1. <<>> \in Seq(Request) /\ <<>> \in Seq(Response) /\ Len(<<>>) = 0
    OBVIOUS
  <2>2. 0 \in Version
    BY BoundsAssumption DEF Version
  <2>3. TypeOK
    BY <2>1, <2>2 DEF Init, TypeOK, View
  <2>4. \A f \in Refreshes : Asked(f) \subseteq Asks /\ Asked(f) \subseteq Request
    BY DEF Asked, Asks, Request
  <2>5. /\ \A r \in Request : promise[r] = "idle" /\ pending[r] = None
        /\ \A f \in Refreshes : \A r \in Asked(f) : promise[r] = "idle"
        /\ \A r \in Asks : promise[r] = "idle"
    BY <2>4 DEF Init, Asks, Request
  <2>6. Settled /\ Together /\ PendingOnTheOpenPort
    BY <2>5 DEF Init, Settled, Together, Pending, PendingOnTheOpenPort, Asked
  <2>7. Waiting /\ Ends
    BY <2>5 DEF Init, Waiting, Live, Ends
  <2>8. OlderStarted /\ Overtaken
    BY <2>5 DEF OlderStarted, Overtaken
  <2>9. \A p \in Ports : Len(toHost[p]) = 0 /\ Len(toWorker[p]) = 0
    BY <2>1 DEF Init
  <2>10. Outstanding = {}
    BY <2>5 DEF Outstanding
  <2>11. \A p \in Ports : QueuedStarted(p) /\ InOrder(p)
    BY <2>9, <2>10 DEF QueuedStarted, InOrder, AnswersInLine, RequestsInLine, AllInLine
  <2>12. view.containers = 0 /\ view.lists = 0 /\ version = 0
    BY DEF Init
  <2>13. Recent
    BY <2>5, <2>9, <2>12 DEF Recent, AllRising, Rising, HeldIsFloor, HeldInOrder,
                             IsShown, Floor, NoneOlder
  <2> QED
    BY <2>3, <2>6, <2>7, <2>8, <2>11, <2>13 DEF Order, FirstOut
<1>2. Order /\ [Next]_vars => Order'
  <2> SUFFICES ASSUME Order, [Next]_vars
               PROVE  Order'
    OBVIOUS
  <2>1. /\ TypeOK /\ Settled /\ Together /\ PendingOnTheOpenPort
        /\ Waiting /\ Ends /\ OlderStarted /\ Overtaken /\ Recent
        /\ \A p \in Ports : QueuedStarted(p) /\ InOrder(p)
    BY DEF Order, FirstOut
  <2>2. TypeOK' /\ Settled' /\ Together' /\ PendingOnTheOpenPort'
    BY <2>1, TypeStep, SettledStep, TogetherStep, PortStep
  <2>3. Waiting' /\ Ends'
    BY <2>1, WaitingStep, EndsStep
  <2>4. OlderStarted' /\ Overtaken'
    BY <2>1, OlderStartedStep, OvertakenStep
  <2>5. \A p \in Ports : QueuedStarted(p)' /\ InOrder(p)'
    BY <2>1, QueuedStartedStep, InOrderStep
  <2>6. Recent'
    BY <2>1, RecentStep
  <2> QED
    BY <2>2, <2>3, <2>4, <2>5, <2>6 DEF Order, FirstOut
<1> QED
  BY <1>1, <1>2, PTL DEF Spec

\* A request of a refresh is never answered while one of an older refresh still
\* waits: requests are posted on one port in the order of their refreshes
\* (background.js:41-55), and the host answers them one by one (main.go:44-67).
THEOREM NeverOvertaken == Spec => []Overtaken
<1>1. Order => Overtaken
  BY DEF Order
<1> QED
  BY <1>1, OrderKept, PTL

\* The page never replaces a list by an older one, other than by the empty list
\* of a failed request, however many refreshes it has under way (app.js:24-57).
THEOREM NeverOlder == Spec => NeverShowsOlder
<1> DEFINE Newer == /\ view'.containers >= view.containers
                    /\ view'.lists # 0 => view'.lists >= view.lists
<1>1. Order /\ [Next]_vars => [Newer]_view
  <2> SUFFICES ASSUME Order, [Next]_vars
               PROVE  Newer
    OBVIOUS
  <2>1. /\ TypeOK /\ Settled /\ Together /\ PendingOnTheOpenPort
        /\ Waiting /\ Ends /\ Overtaken /\ Recent
    BY DEF Order
  <2>2. CASE view'.containers = view.containers /\ view'.lists = view.lists
    BY <2>1, <2>2, BoundsAssumption DEF TypeOK, View, Version
  <2>3. CASE \E f \in Refreshes : EndRefresh(f)
    BY <2>1, <2>3, EndIsShown
  <2> QED
    BY <2>1, <2>2, <2>3, ViewMove
<1> QED
  BY <1>1, OrderKept, PTL DEF Spec, NeverShowsOlder
=============================================================================
