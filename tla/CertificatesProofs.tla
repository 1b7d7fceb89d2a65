-------------------------- MODULE CertificatesProofs --------------------------
(***************************************************************************)
(* Proofs about Certificates: its types, that a fingerprint is in the      *)
(* library once, and that an entry somebody else put into the trust store  *)
(* is left alone.                                                          *)
(*                                                                         *)
(* The argument is one inductive invariant, Sound.  Its core is            *)
(* Disclaimed: with a foreign entry in the store, no row and no request    *)
(* calls it ScopeNest's own, and the row of an operation that may still be *)
(* settled, by the host that began it or by the recovery of another,       *)
(* remembers that the entry was there before.  What the library says of    *)
(* ScopeNest's own entries, and of the bytes of its certificates, is in    *)
(* CertificateRecoveryProofs.                                              *)
(***************************************************************************)
EXTENDS Certificates, TLAPS

\* The steps of a request that works on trust.
TrustSteps == {"install", "installed", "remove", "removed", "recordTrust",
               "recordRemoval", "trustError"}

\* What is in hand at a step: no certificate of a row, a request, a tombstone or a
\* recovery is None, nor the fingerprint of a row or an import.
RowsNamed ==
  \A c \in Certificates : row[c].present => row[c].fingerprint \in Fingerprints
RequestsNamed ==
  \A h \in Hosts :
    /\ ~Handling(h, "idle") => request[h].certificate \in Certificates
    /\ Handling(h, "staged") => request[h].fingerprint \in Fingerprints
    /\ Handling(h, "tombstoned") => request[h].operation \in Operations
    /\ request[h].step \in TrustSteps =>
         request[h].operation \in Operations /\ request[h].fingerprint \in Fingerprints
TombstonesNamed ==
  /\ \A o \in Operations :
       deletion[o].state /= "none" => deletion[o].certificate \in Certificates
  /\ \A h \in Hosts : \A o \in recovery[h].todo :
       deletion[o].certificate \in Certificates
Named == RowsNamed /\ RequestsNamed /\ TombstonesNamed

\* Somebody else put the entry of fingerprint f into the trust store.
Foreign(f) == f \in Fingerprints /\ root[f] = "other"

\* A row does not claim such an entry, and while an operation of it can still be
\* settled, by its host or a recovery, it remembers that the entry was there.
Disclaims(r) ==
  /\ ~r.installed
  /\ r.state /= "removing"
  /\ r.operation /= None \/ r.state \in {"installing", "trust_error"} => r.wasTrusted
RowsDisclaim ==
  \A c \in Certificates :
    row[c].present /\ Foreign(row[c].fingerprint) => Disclaims(row[c])

\* Nor does a request, and none of them removes it.
RequestsDisclaim ==
  \A h \in Hosts :
    request[h].step \in TrustSteps /\ Foreign(request[h].fingerprint) =>
      /\ ~request[h].owned
      /\ request[h].step \notin {"remove", "removed", "recordRemoval"}

\* A request that holds the token of a row works on that row's fingerprint.
TokensAgree ==
  \A h \in Hosts :
    request[h].step \in TrustSteps /\ Holds(h) =>
      row[request[h].certificate].fingerprint = request[h].fingerprint

Disclaimed == RowsDisclaim /\ RequestsDisclaim /\ TokensAgree

Sound == TypeOK /\ Named /\ Disclaimed /\ UniqueFingerprint

-----------------------------------------------------------------------------
(* Operators and initial states *)

LEMMA Constants ==
  /\ AbsentRow \in Row /\ ~AbsentRow.present
  /\ IdleRequest \in Request /\ IdleRequest.step = "idle"
  /\ PendingRecovery \in Recovery /\ PendingRecovery.todo = {}
  /\ OverRecovery \in Recovery /\ OverRecovery.todo = {}
<1>1. AbsentRow \in Row /\ ~AbsentRow.present
  BY DEF AbsentRow, Row, OperationOrNone
<1>2. IdleRequest \in Request /\ IdleRequest.step = "idle"
  BY DEF IdleRequest, Request, OperationOrNone, CertificateOrNone
<1>3. PendingRecovery \in Recovery /\ PendingRecovery.todo = {}
  BY DEF PendingRecovery, Recovery, OperationOrNone
<1>4. OverRecovery \in Recovery /\ OverRecovery.todo = {}
  BY DEF OverRecovery, PendingRecovery, Recovery, OperationOrNone
<1> QED
  BY <1>1, <1>2, <1>3, <1>4

LEMMA InitSound ==
  ASSUME Init
  PROVE Sound
<1>1. TypeOK
  BY Constants, FaultAssumption
  DEF Init, TypeOK, Tombstone, CertificateOrNone, Place
<1>2. Named
  BY Constants DEF Init, Named, RowsNamed, RequestsNamed, TombstonesNamed, Handling,
     TrustSteps
<1>3. Disclaimed
  BY Constants DEF Init, Disclaimed, RowsDisclaim, RequestsDisclaim, TokensAgree,
     TrustSteps
<1>4. UniqueFingerprint
  BY Constants DEF Init, UniqueFingerprint
<1> QED
  BY <1>1, <1>2, <1>3, <1>4 DEF Sound

\* Outcomes and faults are spent within their bound.
LEMMA SpendTyped ==
  ASSUME TypeOK, NEW outcome \in Outcomes, Spend(outcome)
  PROVE faults' \in 0 .. MaxFaults
BY FaultAssumption DEF TypeOK, Spend, Outcomes, May

LEMMA FaultTyped ==
  ASSUME TypeOK, NEW kind, Fault(kind)
  PROVE faults' \in 0 .. MaxFaults
BY FaultAssumption DEF TypeOK, Fault, May

\* Most steps leave the trust store alone, change no row but to remove it, and let
\* no request begin or go on with a trust operation: they cannot disturb what the
\* invariant says of rows and of trust.
LEMMA QuietSteps ==
  ASSUME Sound,
         root' = root,
         \A c \in Certificates : row'[c] \in {row[c], AbsentRow},
         \A g \in Hosts : request'[g] = request[g] \/ request'[g].step \notin TrustSteps
  PROVE RowsNamed' /\ Disclaimed' /\ UniqueFingerprint'
<1> USE Constants DEF Sound, TypeOK
<1>1. RowsNamed'
  BY DEF Named, RowsNamed
<1>2. RowsDisclaim'
  BY DEF Disclaimed, RowsDisclaim, Disclaims, Foreign
<1>3. RequestsDisclaim'
  BY DEF Disclaimed, RequestsDisclaim, Foreign
<1>4. TokensAgree'
  <2>1. SUFFICES ASSUME NEW g \in Hosts, (request[g].step \in TrustSteps)', Holds(g)'
                 PROVE row'[request'[g].certificate].fingerprint = request'[g].fingerprint
    BY DEF TokensAgree
  <2>2. request'[g] = request[g] /\ request[g].step \in TrustSteps
    BY <2>1
  <2>3. request[g].certificate \in Certificates
    BY <2>2 DEF Named, RequestsNamed, Handling, TrustSteps
  <2>4. row'[request[g].certificate] = row[request[g].certificate]
    BY <2>1, <2>2, <2>3 DEF Holds
  <2> QED
    BY <2>1, <2>2, <2>4 DEF Disclaimed, TokensAgree, Holds
<1>5. UniqueFingerprint'
  BY DEF UniqueFingerprint
<1> QED
  BY <1>1, <1>2, <1>3, <1>4, <1>5 DEF Disclaimed

-----------------------------------------------------------------------------
(* Imports *)

LEMMA ImportSound ==
  ASSUME Sound, NEW h \in Hosts, ImportStep(h)
  PROVE Sound'
<1> USE DEF Sound
<1>1. CASE \E c \in Certificates, f \in Fingerprints : Import(h, c, f)
  <2>1. PICK c \in Certificates, f \in Fingerprints : Import(h, c, f)
    BY <1>1
  <2>2. TypeOK'
    BY <2>1 DEF Import, TypeOK, Request, IdleRequest, Place, OperationOrNone,
       CertificateOrNone, storeVars
  <2>3. RequestsNamed' /\ TombstonesNamed'
    BY <2>1 DEF Import, TypeOK, Named, RequestsNamed, TombstonesNamed,
       Handling, IdleRequest, TrustSteps, storeVars
  <2>4. \A g \in Hosts : request'[g] = request[g] \/ request'[g].step \notin TrustSteps
    BY <2>1 DEF TypeOK, Import, IdleRequest, TrustSteps
  <2> QED
    BY <2>1, <2>2, <2>3, <2>4, QuietSteps DEF Import, Named, storeVars
<1>2. CASE \E outcome \in Outcomes : CommitImport(h, outcome)
  <2>1. PICK outcome \in Outcomes : CommitImport(h, outcome)
    BY <1>2
  <2> DEFINE c == request[h].certificate
             f == request[h].fingerprint
             r == NewRow(f)
  <2>2. c \in Certificates /\ f \in Fingerprints
    BY <2>1 DEF CommitImport, Named, RequestsNamed, Handling
  <2>3. /\ r \in Row /\ r.present /\ r.fingerprint = f /\ r.operation = None
        /\ ~r.installed /\ r.state = "untrusted"
    BY <2>2 DEF NewRow, AbsentRow, Row, OperationOrNone
  <2>4. row' \in {row, [row EXCEPT ![c] = r]}
    BY <2>1 DEF CommitImport, WriteRow
  <2>5. request' \in {[request EXCEPT ![h].step = "rollback"],
                      [request EXCEPT ![h] = IdleRequest]}
    BY <2>1 DEF CommitImport, Step, Respond
  <2>6. UNCHANGED <<deletion, root, recovery>> /\ Handling(h, "staged")
    BY <2>1 DEF CommitImport
  <2> HIDE DEF r
  <2>7. TypeOK'
    <3>1. request' \in [Hosts -> Request]
      BY <2>5, Constants DEF TypeOK, Request
    <3>2. row' \in [Certificates -> Row]
      BY <2>3, <2>4 DEF TypeOK
    <3>3. place' \in [Certificates -> Place]
      BY <2>1 DEF TypeOK, CommitImport, Place
    <3>4. excused' \subseteq Certificates \cup Fingerprints
      BY <2>1, <2>2 DEF TypeOK, CommitImport
    <3>5. faults' \in 0 .. MaxFaults
      BY <2>1, SpendTyped DEF CommitImport
    <3> QED
      BY <2>6, <3>1, <3>2, <3>3, <3>4, <3>5 DEF TypeOK
  <2>8. \A g \in Hosts : request'[g] = request[g] \/ request'[g].step \notin TrustSteps
    BY <2>5, Constants DEF TypeOK, TrustSteps, Request
  <2>9. RowsNamed' /\ TombstonesNamed'
    BY <2>2, <2>3, <2>4, <2>6 DEF TypeOK, Named, RowsNamed, TombstonesNamed
  <2>10. RequestsNamed'
    BY SMTT(60), <2>2, <2>5, <2>6, Constants
       DEF TypeOK, Named, RequestsNamed, Handling, TrustSteps,
       Request
  <2>11. RowsDisclaim'
    BY <2>3, <2>4, <2>6 DEF TypeOK, Disclaimed, RowsDisclaim, Disclaims, Foreign
  <2>12. RequestsDisclaim'
    BY <2>6, <2>8 DEF TypeOK, Disclaimed, RequestsDisclaim, Foreign
  <2>13. TokensAgree'
    <3>1. SUFFICES ASSUME NEW g \in Hosts, (request[g].step \in TrustSteps)', Holds(g)'
                   PROVE row'[request'[g].certificate].fingerprint = request'[g].fingerprint
      BY DEF TokensAgree
    <3>2. request'[g] = request[g] /\ request[g].step \in TrustSteps
      BY <2>8, <3>1
    <3>3. request[g].certificate \in Certificates /\ request[g].operation /= None
      BY <3>2, NoneAssumption DEF Named, RequestsNamed, Handling, TrustSteps
    <3>4. row'[request[g].certificate] = row[request[g].certificate]
      BY <2>3, <2>4, <3>1, <3>2, <3>3 DEF TypeOK, Holds
    <3> QED
      BY <3>1, <3>2, <3>4 DEF Disclaimed, TokensAgree, Holds
  <2>14. UniqueFingerprint'
    BY <2>1, <2>2, <2>3, <2>4 DEF TypeOK, UniqueFingerprint, CommitImport, InLibrary
  <2> QED
    BY <2>7, <2>9, <2>10, <2>11, <2>12, <2>13, <2>14 DEF Disclaimed, Named
<1>3. CASE ImportRefused(h)
  <2>1. TypeOK'
    BY <1>3, Constants, FaultTyped DEF TypeOK, ImportRefused, Respond, storeVars, diskVars
  <2>2. RequestsNamed' /\ TombstonesNamed'
    BY <1>3, Constants DEF TypeOK, Named, RequestsNamed, TombstonesNamed, ImportRefused,
       Respond, Handling, TrustSteps, storeVars
  <2>3. \A g \in Hosts : request'[g] = request[g] \/ request'[g].step \notin TrustSteps
    BY <1>3, Constants DEF TypeOK, ImportRefused, Respond, TrustSteps
  <2> QED
    BY <1>3, <2>1, <2>2, <2>3, QuietSteps DEF ImportRefused, Named, storeVars, diskVars
<1>4. CASE RollbackImport(h)
  <2>1. TypeOK'
    BY <1>4, Constants, FaultTyped DEF TypeOK, RollbackImport, Respond, storeVars, Place
  <2>2. RequestsNamed' /\ TombstonesNamed'
    BY <1>4, Constants DEF TypeOK, Named, RequestsNamed, TombstonesNamed, RollbackImport,
       Respond, Handling, TrustSteps, storeVars
  <2>3. \A g \in Hosts : request'[g] = request[g] \/ request'[g].step \notin TrustSteps
    BY <1>4, Constants DEF TypeOK, RollbackImport, Respond, TrustSteps
  <2> QED
    BY <1>4, <2>1, <2>2, <2>3, QuietSteps DEF RollbackImport, Named, storeVars
<1> QED
  BY <1>1, <1>2, <1>3, <1>4 DEF ImportStep

-----------------------------------------------------------------------------
(* Trust operations *)

\* The first transaction of a trust operation: whatever becomes of a foreign
\* fingerprint's row r has to disclaim the entry.
LEMMA BeginTrustSound ==
  ASSUME Sound, NEW h \in Hosts, NEW c \in Certificates, NEW o \in Operations,
         NEW outcome \in Outcomes, NEW step \in {"install", "remove"}, NEW r \in Row,
         r.present, r.fingerprint = row[c].fingerprint,
         Foreign(r.fingerprint) =>
           step = "install" /\ ~r.installed /\ r.state = "installing" /\ r.wasTrusted,
         BeginTrust(h, c, o, outcome, step, r)
  PROVE Sound'
<1> USE DEF Sound
<1> DEFINE q == [r EXCEPT !.operation = o]
           v == [step |-> step, certificate |-> c, operation |-> o,
                 fingerprint |-> row[c].fingerprint, owned |-> row[c].installed]
<1>1. /\ row' = [row EXCEPT ![c] = q]
      /\ request' \in {request, [request EXCEPT ![h] = v]}
      /\ UNCHANGED <<deletion, place, root, recovery, excused>>
      /\ Handling(h, "idle") /\ row[c].present /\ ~Carried(o) /\ Spend(outcome)
  BY DEF BeginTrust, WriteRow, Committed, Outcomes, diskVars, Fresh
<1>2. /\ q \in Row /\ q.present /\ q.fingerprint = row[c].fingerprint
      /\ q.operation = o /\ q.installed = r.installed /\ q.state = r.state
      /\ q.wasTrusted = r.wasTrusted
  BY DEF Row, OperationOrNone
<1>3. row[c].fingerprint \in Fingerprints /\ row[c] \in Row
  BY <1>1 DEF Named, RowsNamed, TypeOK
<1>4. /\ v \in Request /\ v.step = step /\ v.certificate = c /\ v.operation = o
      /\ v.fingerprint = row[c].fingerprint /\ v.owned = row[c].installed
  BY <1>3 DEF Row, Request, OperationOrNone, CertificateOrNone
<1> HIDE DEF q, v
<1>5. TypeOK'
  BY <1>1, <1>2, <1>4, SpendTyped DEF TypeOK
<1>6. Named'
  <2>1. RowsNamed' /\ TombstonesNamed'
    BY <1>1, <1>2, <1>3 DEF TypeOK, Named, RowsNamed, TombstonesNamed
  <2>2. RequestsNamed'
    BY <1>1, <1>3, <1>4 DEF TypeOK, Named, RequestsNamed, Handling, TrustSteps
  <2> QED
    BY <2>1, <2>2 DEF Named
<1>7. RowsDisclaim'
  BY <1>1, <1>2 DEF TypeOK, Disclaimed, RowsDisclaim, Disclaims, Foreign
<1>8. RequestsDisclaim'
  <2>1. Foreign(row[c].fingerprint) => step = "install" /\ ~row[c].installed
    BY <1>1 DEF Disclaimed, RowsDisclaim, Disclaims
  <2> QED
    BY <1>1, <1>4, <2>1 DEF TypeOK, Disclaimed, RequestsDisclaim, Foreign
<1>9. TokensAgree'
  <2>1. SUFFICES ASSUME NEW g \in Hosts, (request[g].step \in TrustSteps)', Holds(g)'
                 PROVE row'[request'[g].certificate].fingerprint = request'[g].fingerprint
    BY DEF TokensAgree
  <2>2. CASE request'[g] = request[g]
    <3>1. request[g].certificate \in Certificates
      BY <2>1, <2>2 DEF Named, RequestsNamed, Handling, TrustSteps
    <3>2. request[g].certificate /= c \/ request[g].operation /= o
      BY <1>1 DEF Carried
    <3>3. row'[request[g].certificate] = row[request[g].certificate]
      BY <1>1, <1>2, <2>1, <2>2, <3>1, <3>2 DEF TypeOK, Holds
    <3> QED
      BY <2>1, <2>2, <3>3 DEF Disclaimed, TokensAgree, Holds
  <2>3. CASE g = h /\ request' = [request EXCEPT ![h] = v]
    BY <1>1, <1>2, <1>4, <2>3 DEF TypeOK
  <2> QED
    BY <1>1, <2>2, <2>3 DEF TypeOK
<1>10. UniqueFingerprint'
  BY <1>1, <1>2 DEF TypeOK, UniqueFingerprint
<1> QED
  BY <1>5, <1>6, <1>7, <1>8, <1>9, <1>10 DEF Disclaimed

\* A step of a trust request that leaves the rows alone.
LEMMA TrustRequestSound ==
  ASSUME Sound, NEW h \in Hosts, request[h].step \in TrustSteps, TypeOK',
         \A g \in Hosts \ {h} : request'[g] = request[g],
         request'[h].certificate = request[h].certificate,
         request'[h].operation = request[h].operation,
         request'[h].fingerprint = request[h].fingerprint,
         request'[h].step \in TrustSteps,
         UNCHANGED <<row, deletion, recovery>>,
         \A f \in Fingerprints : root'[f] = "other" => root[f] = "other",
         Foreign(request[h].fingerprint) =>
           /\ ~request'[h].owned
           /\ request'[h].step \notin {"remove", "removed", "recordRemoval"}
  PROVE Sound'
<1> USE DEF Sound
<1>1. Named'
  BY DEF Named, RowsNamed, RequestsNamed, TombstonesNamed, Handling, TrustSteps
<1>2. RowsDisclaim'
  BY DEF Disclaimed, RowsDisclaim, Foreign
<1>3. RequestsDisclaim'
  BY DEF Disclaimed, RequestsDisclaim, Foreign
<1>4. TokensAgree'
  BY DEF Disclaimed, TokensAgree, Holds
<1>5. UniqueFingerprint'
  BY DEF UniqueFingerprint
<1> QED
  BY <1>1, <1>2, <1>3, <1>4, <1>5 DEF Disclaimed

\* The second transaction: what it may write is a row r of the same certificate
\* that goes on disclaiming a foreign entry.
LEMMA SettleTrustSound ==
  ASSUME Sound, NEW h \in Hosts, NEW step \in TrustSteps, NEW r,
         NEW outcome \in Outcomes, SettleTrust(h, step, r, outcome),
         Holds(h) =>
           /\ r \in Row /\ r.present
           /\ r.fingerprint = row[request[h].certificate].fingerprint
           /\ r.operation \in {row[request[h].certificate].operation, None}
           /\ Foreign(r.fingerprint) => Disclaims(r)
  PROVE Sound'
<1> USE DEF Sound
<1> DEFINE c == request[h].certificate
<1>1. /\ c \in Certificates
      /\ request' = [request EXCEPT ![h] = IdleRequest] /\ Spend(outcome)
      /\ UNCHANGED <<deletion, place, root, recovery, excused>>
      /\ row' = row \/ (Holds(h) /\ row' = [row EXCEPT ![c] = r])
  <2>1. c \in Certificates
    BY DEF SettleTrust, Named, RequestsNamed, Handling, TrustSteps
  <2>2. /\ request' = [request EXCEPT ![h] = IdleRequest] /\ Spend(outcome)
        /\ UNCHANGED <<deletion, place, root, recovery, excused>>
    BY DEF SettleTrust, Respond, diskVars
  <2>3. row' = row \/ (Holds(h) /\ row' = [row EXCEPT ![c] = r])
    BY DEF SettleTrust, WriteRow
  <2> QED
    BY <2>1, <2>2, <2>3
<1>2. TypeOK'
  BY <1>1, Constants, SpendTyped DEF TypeOK
<1>3. \A g \in Hosts : request'[g] = request[g] \/ request'[g].step \notin TrustSteps
  BY <1>1, Constants DEF TypeOK, TrustSteps
<1>4. RequestsNamed' /\ TombstonesNamed'
  BY <1>1, <1>3, Constants DEF TypeOK, Named, RequestsNamed, TombstonesNamed, Handling
<1>5. CASE row' = row
  BY <1>1, <1>2, <1>3, <1>4, <1>5, QuietSteps DEF Named
<1>6. CASE Holds(h) /\ row' = [row EXCEPT ![c] = r]
  <2>1. row[c].present
    BY <1>6 DEF Holds
  <2>2. RowsNamed'
    BY <1>1, <1>6, <2>1 DEF TypeOK, Named, RowsNamed
  <2>3. RowsDisclaim'
    BY <1>1, <1>6 DEF TypeOK, Disclaimed, RowsDisclaim, Foreign
  <2>4. RequestsDisclaim'
    BY <1>1, <1>3 DEF Disclaimed, RequestsDisclaim, Foreign
  <2>5. TokensAgree'
    <3>1. SUFFICES ASSUME NEW g \in Hosts, (request[g].step \in TrustSteps)', Holds(g)'
                   PROVE row'[request'[g].certificate].fingerprint = request'[g].fingerprint
      BY DEF TokensAgree
    <3>2. request'[g] = request[g] /\ request[g].step \in TrustSteps
      BY <1>3, <3>1
    <3>3. request[g].certificate \in Certificates /\ request[g].operation /= None
      BY <3>2, NoneAssumption DEF Named, RequestsNamed, Handling, TrustSteps
    <3>4. row[request[g].certificate].present /\ Holds(g)
      BY <1>6, <2>1, <3>1, <3>2, <3>3 DEF TypeOK, Holds
    <3> QED
      BY <1>1, <1>6, <3>2, <3>3, <3>4 DEF TypeOK, Disclaimed, TokensAgree
  <2>6. UniqueFingerprint'
    BY <1>1, <1>6, <2>1 DEF TypeOK, UniqueFingerprint
  <2> QED
    BY <1>2, <1>4, <2>2, <2>3, <2>4, <2>5, <2>6 DEF Named, Disclaimed
<1> QED
  BY <1>1, <1>5, <1>6

LEMMA SettledRow ==
  ASSUME NEW q \in Row, NEW state \in {"untrusted", "trusted"}
  PROVE /\ Settled(q, state) \in Row
        /\ Settled(q, state).present = q.present
        /\ Settled(q, state).fingerprint = q.fingerprint
        /\ Settled(q, state).state = state
        /\ Settled(q, state).installed = q.installed
        /\ Settled(q, state).operation = None
BY DEF Settled, Row, OperationOrNone

LEMMA InstalledRow ==
  ASSUME NEW q \in Row, NEW installed \in BOOLEAN
  PROVE LET r == [q EXCEPT !.installed = installed]
        IN /\ r \in Row /\ r.present = q.present /\ r.fingerprint = q.fingerprint
           /\ r.state = q.state /\ r.installed = installed
           /\ r.operation = q.operation /\ r.wasTrusted = q.wasTrusted
BY DEF Row

LEMMA TrustSound ==
  ASSUME Sound, NEW h \in Hosts, TrustStep(h)
  PROVE Sound'
<1> USE DEF Sound
<1>1. ASSUME NEW c \in Certificates, NEW o \in Operations, NEW outcome \in Outcomes,
             BeginInstall(h, c, o, outcome)
      PROVE Sound'
  <2> DEFINE r == [row[c] EXCEPT !.state = "installing",
                                 !.wasTrusted = Verify(row[c].fingerprint)]
  <2>1. BeginTrust(h, c, o, outcome, "install", r)
    BY <1>1 DEF BeginInstall
  <2>2. row[c].present /\ row[c] \in Row
    BY <2>1 DEF BeginTrust, TypeOK
  <2>3. Verify(row[c].fingerprint) \in BOOLEAN
    BY DEF Verify
  <2>4. /\ r \in Row /\ r.present /\ r.fingerprint = row[c].fingerprint
        /\ r.state = "installing" /\ r.installed = row[c].installed
        /\ r.wasTrusted = Verify(row[c].fingerprint)
    BY <2>2, <2>3 DEF Row
  <2>5. Foreign(row[c].fingerprint) => ~row[c].installed /\ Verify(row[c].fingerprint)
    BY <2>2 DEF Disclaimed, RowsDisclaim, Disclaims, Foreign, Verify
  <2> HIDE DEF r
  <2> QED
    BY <2>1, <2>4, <2>5, BeginTrustSound
<1>2. ASSUME NEW c \in Certificates, NEW o \in Operations, NEW outcome \in Outcomes,
             BeginRemoval(h, c, o, outcome)
      PROVE Sound'
  <2> DEFINE r == [row[c] EXCEPT !.state = "removing", !.wasTrusted = TRUE]
  <2>1. BeginTrust(h, c, o, outcome, "remove", r) /\ row[c].installed
    BY <1>2 DEF BeginRemoval
  <2>2. row[c].present /\ row[c] \in Row
    BY <2>1 DEF BeginTrust, TypeOK
  <2>3. r \in Row /\ r.present /\ r.fingerprint = row[c].fingerprint
    BY <2>2 DEF Row
  <2>4. ~Foreign(row[c].fingerprint)
    BY <2>1, <2>2 DEF Disclaimed, RowsDisclaim, Disclaims
  <2> HIDE DEF r
  <2> QED
    BY <2>1, <2>3, <2>4, BeginTrustSound
<1>3. CASE InstallTrust(h)
  <2> DEFINE f == request[h].fingerprint
  <2>1. Handling(h, "install") /\ f \in Fingerprints /\ request[h] \in Request
    BY <1>3 DEF InstallTrust, Named, RequestsNamed, Handling, TrustSteps, TypeOK
  <2>2. root' \in {root, [root EXCEPT ![f] = IF @ = "absent" THEN "scopenest" ELSE @]}
    BY <1>3 DEF InstallTrust
  <2>3. \/ request' = [request EXCEPT ![h].step = "installed",
                                    ![h].owned = @ \/ ~Verify(f)]
        \/ request' = [request EXCEPT ![h].step = "trustError"]
    BY <1>3 DEF InstallTrust, Step
  <2>4. UNCHANGED <<row, deletion, place, recovery, excused>>
    BY <1>3 DEF InstallTrust, storeVars
  <2>5. faults' \in 0 .. MaxFaults
    BY <1>3, FaultTyped DEF InstallTrust, TypeOK
  <2>6. TypeOK'
    BY <2>1, <2>2, <2>3, <2>4, <2>5 DEF TypeOK, Request
  <2>7. Foreign(f) => ~request[h].owned /\ Verify(f)
    BY <2>1 DEF Disclaimed, RequestsDisclaim, Handling, TrustSteps, Foreign, Verify
  <2>8. /\ \A g \in Hosts \ {h} : request'[g] = request[g]
        /\ request'[h].certificate = request[h].certificate
        /\ request'[h].operation = request[h].operation
        /\ request'[h].fingerprint = f
        /\ request'[h].step \in {"installed", "trustError"}
        /\ request'[h].owned \in {request[h].owned, request[h].owned \/ ~Verify(f)}
    BY <2>3 DEF TypeOK, Request
  <2>9. \A e \in Fingerprints : root'[e] = "other" => root[e] = "other"
    BY <2>2 DEF TypeOK
  <2> QED
    BY <2>1, <2>4, <2>6, <2>7, <2>8, <2>9, TrustRequestSound DEF Handling, TrustSteps
<1>4. CASE RemoveTrust(h)
  <2> DEFINE f == request[h].fingerprint
  <2>1. Handling(h, "remove") /\ f \in Fingerprints /\ request[h] \in Request
    BY <1>4 DEF RemoveTrust, Named, RequestsNamed, Handling, TrustSteps, TypeOK
  <2>2. root' \in {root, [root EXCEPT ![f] = "absent"]}
    BY <1>4 DEF RemoveTrust
  <2>3. request' \in {[request EXCEPT ![h].step = "removed"],
                      [request EXCEPT ![h].step = "trustError"]}
    BY <1>4 DEF RemoveTrust, Step
  <2>4. UNCHANGED <<row, deletion, place, recovery, excused>>
    BY <1>4 DEF RemoveTrust, storeVars
  <2>5. faults' \in 0 .. MaxFaults
    BY <1>4, FaultTyped DEF RemoveTrust, TypeOK
  <2>6. TypeOK'
    BY <2>1, <2>2, <2>3, <2>4, <2>5 DEF TypeOK, Request
  <2>7. ~Foreign(f)
    BY <2>1 DEF Disclaimed, RequestsDisclaim, Handling, TrustSteps
  <2>8. /\ \A g \in Hosts \ {h} : request'[g] = request[g]
        /\ request'[h].certificate = request[h].certificate
        /\ request'[h].operation = request[h].operation
        /\ request'[h].fingerprint = f
        /\ request'[h].step \in TrustSteps
    BY <2>3 DEF TypeOK, Request, TrustSteps
  <2>9. \A e \in Fingerprints : root'[e] = "other" => root[e] = "other"
    BY <2>2 DEF TypeOK
  <2> QED
    BY <2>1, <2>4, <2>6, <2>7, <2>8, <2>9, TrustRequestSound DEF Handling, TrustSteps
<1>5. CASE VerifyTrust(h)
  <2>1. Handling(h, "installed") \/ Handling(h, "removed")
    BY <1>5 DEF VerifyTrust
  <2>2. \/ request' = [request EXCEPT ![h].step = "trustError"]
        \/ Handling(h, "installed") /\ request' = [request EXCEPT ![h].step = "recordTrust"]
        \/ Handling(h, "removed") /\ request' = [request EXCEPT ![h].step = "recordRemoval"]
    BY <1>5 DEF VerifyTrust, Step
  <2>3. UNCHANGED <<row, deletion, place, root, recovery, excused>>
    BY <1>5 DEF VerifyTrust, storeVars, diskVars
  <2>4. faults' \in 0 .. MaxFaults
    BY <1>5, FaultTyped DEF VerifyTrust, TypeOK
  <2>5. TypeOK'
    BY <2>2, <2>3, <2>4 DEF TypeOK, Request
  <2>6. Foreign(request[h].fingerprint) => ~request[h].owned /\ Handling(h, "installed")
    BY <2>1 DEF Disclaimed, RequestsDisclaim, Handling, TrustSteps
  <2>7. /\ \A g \in Hosts \ {h} : request'[g] = request[g]
        /\ request'[h].certificate = request[h].certificate
        /\ request'[h].operation = request[h].operation
        /\ request'[h].fingerprint = request[h].fingerprint
        /\ request'[h].owned = request[h].owned
        /\ request'[h].step \in TrustSteps
        /\ Handling(h, "installed") => request'[h].step \in {"trustError", "recordTrust"}
    BY <2>2 DEF TypeOK, Request, TrustSteps, Handling
  <2> QED
    BY <2>1, <2>3, <2>5, <2>6, <2>7, TrustRequestSound DEF Handling, TrustSteps
<1>6. ASSUME NEW outcome \in Outcomes,
             RecordTrust(h, outcome) \/ RecordRemoval(h, outcome)
               \/ markCertificateTrustError(h, outcome)
      PROVE Sound'
  <2> DEFINE q == row[request[h].certificate]
             recorded == [Settled(q, "trusted") EXCEPT !.installed = request[h].owned]
             removed == [Settled(q, "untrusted") EXCEPT !.installed = FALSE]
             failed == [q EXCEPT !.state = "trust_error"]
  <2>1. request[h].step \in TrustSteps
    BY <1>6 DEF RecordTrust, RecordRemoval, markCertificateTrustError, SettleTrust,
                Handling, TrustSteps
  <2>2. /\ request[h].certificate \in Certificates /\ q \in Row
        /\ request[h].operation /= None /\ request[h] \in Request
    BY <2>1, NoneAssumption DEF TypeOK, Named, RequestsNamed, Handling, TrustSteps
  <2>3. Holds(h) => /\ q.present /\ q.operation = request[h].operation
                    /\ q.fingerprint = request[h].fingerprint
    BY <2>1 DEF Holds, Disclaimed, TokensAgree
  <2>4. Holds(h) /\ Foreign(q.fingerprint) => Disclaims(q) /\ ~request[h].owned
    BY <2>1, <2>2, <2>3 DEF Disclaimed, RowsDisclaim, RequestsDisclaim
  <2>5. CASE RecordTrust(h, outcome)
    <3>1. SettleTrust(h, "recordTrust", recorded, outcome)
      BY <2>5 DEF RecordTrust
    <3>2. /\ recorded \in Row /\ recorded.present = q.present
          /\ recorded.fingerprint = q.fingerprint /\ recorded.state = "trusted"
          /\ recorded.installed = request[h].owned /\ recorded.operation = None
      BY <2>2, SettledRow, InstalledRow DEF Request
    <3> HIDE DEF recorded
    <3>3. Foreign(recorded.fingerprint) /\ Holds(h) => Disclaims(recorded)
      BY <2>4, <3>2 DEF Disclaims
    <3> QED
      BY <2>3, <3>1, <3>2, <3>3, SettleTrustSound DEF TrustSteps
  <2>6. CASE RecordRemoval(h, outcome)
    <3>1. SettleTrust(h, "recordRemoval", removed, outcome)
      BY <2>6 DEF RecordRemoval
    <3>2. /\ removed \in Row /\ removed.present = q.present
          /\ removed.fingerprint = q.fingerprint /\ removed.state = "untrusted"
          /\ removed.installed = FALSE /\ removed.operation = None
      <4> DEFINE u == Settled(q, "untrusted")
      <4>1. /\ u \in Row /\ u.present = q.present /\ u.fingerprint = q.fingerprint
            /\ u.state = "untrusted" /\ u.operation = None
        BY <2>2, SettledRow
      <4> HIDE DEF u
      <4>2. LET r == [u EXCEPT !.installed = FALSE]
            IN /\ r \in Row /\ r.present = u.present /\ r.fingerprint = u.fingerprint
               /\ r.state = u.state /\ r.installed = FALSE
               /\ r.operation = u.operation
        BY <4>1 DEF Row
      <4>3. removed = [u EXCEPT !.installed = FALSE]
        BY DEF u
      <4> HIDE DEF removed
      <4> QED
        BY <4>1, <4>2, <4>3
    <3> HIDE DEF removed
    <3>3. Disclaims(removed)
      BY <3>2 DEF Disclaims
    <3> QED
      BY <2>3, <3>1, <3>2, <3>3, SettleTrustSound DEF TrustSteps
  <2>7. CASE markCertificateTrustError(h, outcome)
    <3>1. SettleTrust(h, "trustError", failed, outcome)
      BY <2>7 DEF markCertificateTrustError
    <3>2. /\ failed \in Row /\ failed.present = q.present
          /\ failed.fingerprint = q.fingerprint /\ failed.state = "trust_error"
          /\ failed.installed = q.installed /\ failed.operation = q.operation
          /\ failed.wasTrusted = q.wasTrusted
      BY <2>2 DEF Row
    <3> HIDE DEF failed
    <3>3. Foreign(failed.fingerprint) /\ Holds(h) => Disclaims(failed)
      BY <2>2, <2>3, <2>4, <3>2 DEF Disclaims
    <3> QED
      BY <2>3, <3>1, <3>2, <3>3, SettleTrustSound DEF TrustSteps
  <2> QED
    BY <1>6, <2>5, <2>6, <2>7
<1> QED
  BY <1>1, <1>2, <1>3, <1>4, <1>5, <1>6 DEF TrustStep

-----------------------------------------------------------------------------
(* Deletions *)

\* The steps a deletion goes through after the first.
DeletionSteps == {"renamed", "missing", "restore", "erase", "untrack", "deletionError"}

\* A step of a request that is no trust operation, and ends or goes on as a
\* deletion: it may remove rows and settle tombstones.
LEMMA RequestStepSound ==
  ASSUME Sound, NEW h \in Hosts, ~Handling(h, "idle"), TypeOK',
         root' = root, recovery' = recovery,
         \A c \in Certificates : row'[c] \in {row[c], AbsentRow},
         \A o \in Operations :
           /\ deletion'[o].certificate = deletion[o].certificate
           /\ deletion'[o].state /= "none" => deletion[o].state /= "none",
         \/ Respond(h)
         \/ \E step \in DeletionSteps : Step(h, step)
  PROVE Sound'
<1> USE DEF Sound
<1>1. \A g \in Hosts : request'[g] = request[g] \/ request'[g].step \notin TrustSteps
  BY Constants DEF TypeOK, Respond, Step, DeletionSteps, TrustSteps, Request
<1>2. RequestsNamed'
  <2>1. CASE Respond(h)
    BY <2>1, Constants DEF TypeOK, Named, RequestsNamed, Respond, Handling, TrustSteps
  <2>2. ASSUME NEW step \in DeletionSteps, Step(h, step)
        PROVE RequestsNamed'
    <3>1. /\ \A g \in Hosts \ {h} : request'[g] = request[g]
          /\ request'[h].step = step /\ request'[h].certificate = request[h].certificate
      BY <2>2 DEF TypeOK, Step, Request
    <3> QED
      BY <2>2, <3>1 DEF Named, RequestsNamed, Handling, DeletionSteps, TrustSteps
  <2> QED
    BY <2>1, <2>2
<1>3. TombstonesNamed'
  BY DEF TypeOK, Named, TombstonesNamed, Recovery
<1> QED
  BY <1>1, <1>2, <1>3, QuietSteps DEF Named

\* A tombstone that is settled keeps its certificate, and one that is gone is not
\* brought back.
LEMMA DeletionWritten ==
  ASSUME TypeOK, NEW o, NEW state \in {"none", "deletion_error"}, NEW outcome,
         WriteDeletion(o, state, outcome)
  PROVE /\ deletion' \in [Operations -> Tombstone]
        /\ \A p \in Operations :
             /\ deletion'[p].certificate = deletion[p].certificate
             /\ deletion'[p].state /= "none" => deletion[p].state /= "none"
<1>1. CASE deletion' = deletion
  BY <1>1 DEF TypeOK
<1>2. CASE /\ deletion[o].state /= "none"
           /\ deletion' = [deletion EXCEPT ![o].state = state]
  BY <1>2 DEF TypeOK, Tombstone
<1> QED
  BY <1>1, <1>2 DEF WriteDeletion

LEMMA DeletionSound ==
  ASSUME Sound, NEW h \in Hosts, DeletionStep(h)
  PROVE Sound'
<1> USE DEF Sound
<1> DEFINE d == request[h].certificate
           p == request[h].operation
<1>1. ASSUME ~Handling(h, "idle")
      PROVE d \in Certificates
  BY <1>1 DEF Named, RequestsNamed
<1>2. ASSUME NEW step \in DeletionSteps, Step(h, step)
      PROVE request' \in [Hosts -> Request]
  BY SMTT(60), <1>2 DEF TypeOK, Step, DeletionSteps, Request
<1>3. ASSUME Respond(h)
      PROVE request' \in [Hosts -> Request]
  BY <1>3, Constants DEF TypeOK, Respond
<1>4. ASSUME NEW c \in Certificates, NEW o \in Operations, NEW outcome \in Outcomes,
             BeginDeletion(h, c, o, outcome)
      PROVE Sound'
  <2> DEFINE q == [IdleRequest EXCEPT !.step = "tombstoned", !.certificate = c,
                                      !.operation = o]
  <2>1. q \in Request /\ q.step = "tombstoned" /\ q.certificate = c /\ q.operation = o
    BY DEF IdleRequest, Request, OperationOrNone, CertificateOrNone
  <2>2. /\ request' \in {request, [request EXCEPT ![h] = q]}
        /\ deletion' = [deletion EXCEPT ![o] = [state |-> "deleting", certificate |-> c]]
        /\ UNCHANGED <<row, place, root, recovery, excused>> /\ Spend(outcome)
    BY <1>4 DEF BeginDeletion, diskVars
  <2> HIDE DEF q
  <2>3. TypeOK'
    BY <2>1, <2>2, SpendTyped DEF TypeOK, Tombstone, CertificateOrNone
  <2>4. \A g \in Hosts : request'[g] = request[g] \/ request'[g].step \notin TrustSteps
    BY <2>1, <2>2 DEF TypeOK, TrustSteps
  <2>5. RequestsNamed'
    BY <2>1, <2>2 DEF TypeOK, Named, RequestsNamed, Handling, TrustSteps
  <2>6. TombstonesNamed'
    BY <2>2 DEF TypeOK, Named, TombstonesNamed
  <2> QED
    BY <2>2, <2>3, <2>4, <2>5, <2>6, QuietSteps DEF Named
<1>5. CASE StageDeletion(h)
  <2>1. d \in Certificates /\ p \in Operations /\ ~Handling(h, "idle")
    BY <1>5 DEF StageDeletion, Named, RequestsNamed, Handling
  <2>2. \E step \in DeletionSteps : Step(h, step)
    BY <1>5 DEF StageDeletion, DeletionSteps
  <2>3. UNCHANGED <<row, deletion, root, recovery, excused>>
    BY <1>5 DEF StageDeletion, storeVars
  <2>4. place' \in [Certificates -> Place]
    BY <1>5, <2>1 DEF StageDeletion, TypeOK, Place
  <2>5. faults' \in 0 .. MaxFaults
    BY <1>5, FaultTyped DEF StageDeletion, TypeOK
  <2>6. TypeOK'
    BY <1>2, <2>2, <2>3, <2>4, <2>5 DEF TypeOK
  <2> QED
    BY <2>1, <2>2, <2>3, <2>6, RequestStepSound
<1>6. ASSUME NEW outcome \in Outcomes, RemoveRow(h, outcome)
      PROVE Sound'
  <2>1. d \in Certificates /\ ~Handling(h, "idle")
    BY <1>6 DEF RemoveRow, Named, RequestsNamed, Handling
  <2>2. Respond(h) \/ \E step \in DeletionSteps : Step(h, step)
    <3>1. "erase" \in DeletionSteps /\ "untrack" \in DeletionSteps
            /\ "restore" \in DeletionSteps
      BY DEF DeletionSteps
    <3>2. CASE outcome = "ok"
      BY <1>6, <3>1, <3>2 DEF RemoveRow
    <3>3. CASE outcome /= "ok" /\ Handling(h, "renamed")
      BY <1>6, <3>1, <3>3 DEF RemoveRow
    <3>4. CASE outcome /= "ok" /\ ~Handling(h, "renamed")
      BY <1>6, <3>4 DEF RemoveRow
    <3> QED
      BY <3>2, <3>3, <3>4
  <2>3. /\ row' \in {row, [row EXCEPT ![d] = AbsentRow]}
        /\ UNCHANGED <<deletion, place, root, recovery>>
        /\ excused' \in {excused, excused \cup {d}} /\ Spend(outcome)
    BY <1>6 DEF RemoveRow, WriteRow, diskVars
  <2>4. TypeOK'
    BY <1>2, <1>3, <2>1, <2>2, <2>3, Constants, SpendTyped DEF TypeOK
  <2> QED
    BY <2>1, <2>2, <2>3, <2>4, RequestStepSound DEF TypeOK
<1>7. CASE DeletionRefused(h)
  <2>1. ~Handling(h, "idle")
    BY <1>7 DEF DeletionRefused, Handling
  <2>2. Respond(h) \/ \E step \in DeletionSteps : Step(h, step)
    BY <1>7 DEF DeletionRefused, DeletionSteps
  <2>3. UNCHANGED <<row, deletion, place, root, recovery, excused>>
    BY <1>7 DEF DeletionRefused, storeVars, diskVars
  <2>4. TypeOK'
    BY <1>2, <1>3, <1>7, <2>2, <2>3, FaultTyped DEF TypeOK, DeletionRefused
  <2> QED
    BY <2>1, <2>2, <2>3, <2>4, RequestStepSound
<1>8. CASE RestoreBytes(h) \/ EraseBytes(h)
  <2>1. ~Handling(h, "idle")
    BY <1>8 DEF RestoreBytes, EraseBytes, Handling
  <2>2. \E step \in DeletionSteps : Step(h, step)
    BY <1>8 DEF RestoreBytes, EraseBytes, DeletionSteps
  <2>3. UNCHANGED <<row, deletion, root, recovery, excused>>
    BY <1>8 DEF RestoreBytes, EraseBytes, storeVars
  <2>4. place' \in [Certificates -> Place]
    BY <1>8 DEF RestoreBytes, EraseBytes, Erased, TypeOK, Place
  <2>5. faults' \in 0 .. MaxFaults
    BY <1>8, FaultTyped DEF RestoreBytes, EraseBytes, TypeOK
  <2>6. TypeOK'
    BY <1>2, <2>2, <2>3, <2>4, <2>5 DEF TypeOK
  <2> QED
    BY <2>1, <2>2, <2>3, <2>6, RequestStepSound
<1>9. ASSUME NEW outcome \in Outcomes, FinishDeletion(h, outcome)
      PROVE Sound'
  <2>1. ~Handling(h, "idle") /\ Respond(h) /\ Spend(outcome)
    BY <1>9 DEF FinishDeletion, Handling
  <2>2. UNCHANGED <<row, place, root, recovery, excused>>
    BY <1>9 DEF FinishDeletion, diskVars
  <2>3. PICK state \in {"none", "deletion_error"} : WriteDeletion(p, state, outcome)
    BY <1>9 DEF FinishDeletion
  <2>4. /\ deletion' \in [Operations -> Tombstone]
        /\ \A o \in Operations :
             /\ deletion'[o].certificate = deletion[o].certificate
             /\ deletion'[o].state /= "none" => deletion[o].state /= "none"
    BY <2>3, DeletionWritten
  <2>5. TypeOK'
    BY <1>3, <2>1, <2>2, <2>4, SpendTyped DEF TypeOK
  <2> QED
    BY <2>1, <2>2, <2>4, <2>5, RequestStepSound
<1> QED
  BY <1>4, <1>5, <1>6, <1>7, <1>8, <1>9 DEF DeletionStep

-----------------------------------------------------------------------------
(* Recovery *)

\* A step of a recovery that leaves rows and requests alone, and has only
\* tombstones to do that it had before or that it finds.
LEMMA RecoveryStepSound ==
  ASSUME Sound, TypeOK', UNCHANGED <<row, root, request>>,
         \A o \in Operations : deletion'[o].certificate = deletion[o].certificate,
         \A o \in Operations : deletion'[o].state /= "none" => deletion[o].state /= "none",
         \A g \in Hosts : \A o \in recovery'[g].todo :
           o \in recovery[g].todo \/ (o \in Operations /\ deletion[o].state /= "none")
  PROVE Sound'
<1> USE DEF Sound
<1>1. RequestsNamed'
  BY DEF Named, RequestsNamed, Handling
<1>2. TombstonesNamed'
  BY DEF TypeOK, Named, TombstonesNamed, Recovery
<1> QED
  BY <1>1, <1>2, QuietSteps DEF Named

\* What becomes of a row whose entry could be looked up.
LEMMA ReconciledRow ==
  ASSUME NEW q \in Row
  PROVE /\ reconciled(q) \in Row
        /\ reconciled(q).present = q.present
        /\ reconciled(q).fingerprint = q.fingerprint
        /\ reconciled(q).operation = None
        /\ Foreign(q.fingerprint) /\ Disclaims(q) /\ q.state \in {"installing", "trust_error"}
             => Disclaims(reconciled(q))
<1>1. CASE ~Verify(q.fingerprint)
  <2> DEFINE u == Settled(q, "untrusted")
  <2>1. u \in Row /\ u.present = q.present /\ u.fingerprint = q.fingerprint /\ u.operation = None
    BY SettledRow
  <2>2. reconciled(q) = [u EXCEPT !.installed = FALSE]
    BY <1>1 DEF reconciled
  <2>3. ~Foreign(q.fingerprint)
    BY <1>1 DEF Foreign, Verify
  <2> HIDE DEF u
  <2> QED
    BY <2>1, <2>2, <2>3 DEF Row
<1>2. CASE Verify(q.fingerprint) /\ q.state = "removing"
  <2>1. reconciled(q) = Settled(q, "trusted")
    BY <1>2 DEF reconciled
  <2> QED
    BY <1>2, <2>1, SettledRow
<1>3. CASE Verify(q.fingerprint) /\ q.state /= "removing"
  <2> DEFINE u == Settled(q, "trusted")
             owned == q.installed \/ ~q.wasTrusted
  <2>1. /\ u \in Row /\ u.present = q.present /\ u.fingerprint = q.fingerprint
        /\ u.operation = None /\ u.installed = q.installed /\ u.state = "trusted"
    BY SettledRow
  <2>2. reconciled(q) = [u EXCEPT !.installed = u.installed \/ ~q.wasTrusted]
    BY <1>3 DEF reconciled
  <2>3. reconciled(q) = [u EXCEPT !.installed = owned]
    BY <2>1, <2>2
  <2>4. owned \in BOOLEAN
    BY DEF Row
  <2> HIDE DEF u, owned
  <2>5. /\ reconciled(q) \in Row /\ reconciled(q).present = u.present
        /\ reconciled(q).fingerprint = u.fingerprint
        /\ reconciled(q).operation = u.operation /\ reconciled(q).state = u.state
        /\ reconciled(q).installed = owned
    BY <2>1, <2>3, <2>4 DEF Row
  <2>6. Disclaims(q) /\ q.state \in {"installing", "trust_error"} => ~owned
    BY DEF Disclaims, owned
  <2> QED
    BY <2>1, <2>5, <2>6 DEF Disclaims
<1> QED
  BY <1>1, <1>2, <1>3

\* Rows that keep their certificate and fingerprint, give up tokens at most, and
\* go on disclaiming foreign entries.
LEMMA RowsSettledSound ==
  ASSUME Sound, TypeOK', UNCHANGED <<root, deletion, request>>,
         \A g \in Hosts : recovery'[g].todo = recovery[g].todo,
         \A c \in Certificates :
           /\ row'[c].present = row[c].present
           /\ row'[c].fingerprint = row[c].fingerprint
           /\ row'[c].operation \in {row[c].operation, None}
           /\ Foreign(row[c].fingerprint) /\ row[c].present => Disclaims(row'[c])
  PROVE Sound'
<1> USE DEF Sound
<1>1. Named'
  BY DEF Named, RowsNamed, RequestsNamed, TombstonesNamed, Handling
<1>2. RowsDisclaim' /\ RequestsDisclaim'
  BY DEF Disclaimed, RowsDisclaim, RequestsDisclaim, Foreign
<1>3. TokensAgree'
  <2>1. SUFFICES ASSUME NEW g \in Hosts, request[g].step \in TrustSteps, Holds(g)'
                 PROVE row'[request[g].certificate].fingerprint = request[g].fingerprint
    BY DEF TokensAgree
  <2>2. request[g].certificate \in Certificates /\ request[g].operation /= None
    BY <2>1, NoneAssumption DEF Named, RequestsNamed, Handling, TrustSteps
  <2>3. Holds(g)
    BY <2>1, <2>2 DEF Holds
  <2> QED
    BY <2>1, <2>2, <2>3 DEF Disclaimed, TokensAgree
<1>4. UniqueFingerprint'
  BY DEF UniqueFingerprint
<1> QED
  BY <1>1, <1>2, <1>3, <1>4 DEF Disclaimed

LEMMA ReconcileSound ==
  ASSUME Sound, NEW h \in Hosts, NEW outcome \in Outcomes,
         NEW unknown \in SUBSET Certificates, ReconcileTrust(h, outcome, unknown)
  PROVE Sound'
<1> USE DEF Sound
<1> DEFINE open == {c \in Certificates : row[c].present
                      /\ row[c].state \in {"installing", "removing", "trust_error"}}
           unreadable(c) == [row[c] EXCEPT !.trusted = FALSE, !.state = "trust_error"]
           notLookedUp(c) == [row[c] EXCEPT !.state = "trust_error"]
<1>1. \A c \in Certificates :
        \/ row'[c] = row[c] /\ (c \notin open \/ ~Committed(outcome))
        \/ c \in open /\ row'[c] \in {unreadable(c), notLookedUp(c), reconciled(row[c])}
  BY DEF ReconcileTrust
<1>2. ASSUME NEW c \in Certificates
      PROVE /\ row'[c] \in Row
            /\ row'[c].present = row[c].present
            /\ row'[c].fingerprint = row[c].fingerprint
            /\ row'[c].operation \in {row[c].operation, None}
            /\ Foreign(row[c].fingerprint) /\ row[c].present => Disclaims(row'[c])
  <2>1. row[c] \in Row
    BY DEF TypeOK
  <2>2. Foreign(row[c].fingerprint) /\ row[c].present => Disclaims(row[c])
    BY DEF Disclaimed, RowsDisclaim
  <2>3. CASE row'[c] = row[c]
    BY <2>1, <2>2, <2>3
  <2>4. CASE c \in open /\ row'[c] \in {unreadable(c), notLookedUp(c)}
    <3>1. /\ row'[c] \in Row /\ row'[c].present = row[c].present
          /\ row'[c].fingerprint = row[c].fingerprint
          /\ row'[c].operation = row[c].operation /\ row'[c].state = "trust_error"
          /\ row'[c].installed = row[c].installed
          /\ row'[c].wasTrusted = row[c].wasTrusted
      BY ZenonT(60), <2>1, <2>4 DEF Row
    <3>2. Disclaims(row[c]) => Disclaims(row'[c])
      BY <2>4, <3>1 DEF Disclaims
    <3> QED
      BY <2>2, <3>1, <3>2
  <2>5. CASE c \in open /\ row'[c] = reconciled(row[c])
    <3>1. Disclaims(row[c]) => row[c].state \in {"installing", "trust_error"}
      BY <2>5 DEF Disclaims
    <3> QED
      BY <2>1, <2>2, <2>5, <3>1, ReconciledRow
  <2> QED
    BY <1>1, <2>3, <2>4, <2>5
<1>3. /\ UNCHANGED <<deletion, place, root, request>>
      /\ recovery' = [recovery EXCEPT ![h].step = "done"]
  BY DEF ReconcileTrust, diskVars, Proceed
<1>4. TypeOK'
  <2>1. row' \in [Certificates -> Row]
    BY <1>2 DEF ReconcileTrust
  <2>2. recovery' \in [Hosts -> Recovery]
    BY SMTT(60), <1>3 DEF TypeOK, Recovery
  <2>3. excused' \subseteq Certificates \cup Fingerprints
    <3> DEFINE carried == {d \in open : Committed(outcome) /\ Carried(row[d].operation)}
               touched == {row[c].fingerprint : c \in carried}
    <3>1. carried \subseteq open
      OBVIOUS
    <3>2. excused' = excused \cup touched
      BY DEF ReconcileTrust
    <3> HIDE DEF carried
    <3>3. touched \subseteq Fingerprints
      BY <3>1 DEF Named, RowsNamed
    <3> HIDE DEF touched
    <3> QED
      BY <3>2, <3>3 DEF TypeOK
  <2>4. faults' \in 0 .. MaxFaults
    <3>1. CASE Spend(outcome)
      BY <3>1, SpendTyped
    <3>2. CASE Fault("trust")
      BY <3>2, FaultTyped
    <3> QED
      BY <3>1, <3>2 DEF ReconcileTrust
  <2> QED
    BY <1>3, <2>1, <2>2, <2>3, <2>4 DEF TypeOK
<1>5. \A g \in Hosts : recovery'[g].todo = recovery[g].todo
  BY <1>3 DEF TypeOK, Recovery
<1> QED
  BY <1>2, <1>3, <1>4, <1>5, RowsSettledSound

\* A recovery whose record is replaced, or whose step is set.
LEMMA RecoverySet ==
  ASSUME TypeOK, NEW h \in Hosts, NEW v \in Recovery, v.todo \subseteq recovery[h].todo,
         recovery' = [recovery EXCEPT ![h] = v]
  PROVE /\ recovery' \in [Hosts -> Recovery]
        /\ \A g \in Hosts : recovery'[g].todo \subseteq recovery[g].todo
BY DEF TypeOK

LEMMA ProceedTyped ==
  ASSUME TypeOK, NEW h \in Hosts, NEW step, Proceed(h, step),
         step \in {"compareStaged", "replace", "restore", "untrack", "deletionError", "done"}
  PROVE /\ recovery' \in [Hosts -> Recovery]
        /\ \A g \in Hosts : recovery'[g].todo \subseteq recovery[g].todo
BY DEF TypeOK, Proceed, Recovery

LEMMA RecoverySound ==
  ASSUME Sound, NEW h \in Hosts, RecoveryStep(h)
  PROVE Sound'
<1> USE DEF Sound
<1> DEFINE Fewer == \A g \in Hosts : recovery'[g].todo \subseteq recovery[g].todo
           v == recovery[h]
<1>0. v \in Recovery
  BY DEF TypeOK
<1>1. ASSUME UNCHANGED <<row, deletion, root, request>>, TypeOK', Fewer
      PROVE Sound'
  BY <1>1, RecoveryStepSound
<1>2. CASE LoadTombstones(h)
  <2>1. UNCHANGED <<row, deletion, root, request, excused>>
    BY <1>2 DEF LoadTombstones, storeVars
  <2>2. place' \in [Certificates -> Place]
    BY <1>2 DEF LoadTombstones, TypeOK, Place
  <2>3. faults' \in 0 .. MaxFaults
    BY <1>2, FaultTyped DEF LoadTombstones, TypeOK
  <2>4. CASE Proceed(h, "done")
    <3>1. TypeOK' /\ Fewer
      BY <2>1, <2>2, <2>3, <2>4, ProceedTyped DEF TypeOK
    <3> QED
      BY <1>1, <2>1, <3>1
  <2>5. CASE recovery' = [recovery EXCEPT ![h] = [PendingRecovery EXCEPT
               !.step = "next", !.todo = {o \in Operations : deletion[o].state /= "none"}]]
    <3> DEFINE w == [PendingRecovery EXCEPT
               !.step = "next", !.todo = {o \in Operations : deletion[o].state /= "none"}]
    <3>1. w \in Recovery /\ w.todo = {o \in Operations : deletion[o].state /= "none"}
      BY Constants DEF PendingRecovery, Recovery, OperationOrNone
    <3>2. recovery' = [recovery EXCEPT ![h] = w]
      BY <2>5
    <3> HIDE DEF w
    <3>3. TypeOK'
      BY <2>1, <2>2, <2>3, <3>1, <3>2 DEF TypeOK
    <3>4. \A g \in Hosts : \A o \in recovery'[g].todo :
            o \in recovery[g].todo \/ (o \in Operations /\ deletion[o].state /= "none")
      BY <3>1, <3>2 DEF TypeOK
    <3> QED
      BY <2>1, <3>3, <3>4, RecoveryStepSound
  <2> QED
    BY <1>2, <2>4, <2>5 DEF LoadTombstones
<1>3. CASE ReadRow(h)
  <2>1. UNCHANGED <<row, deletion, place, root, request, faults>>
    BY <1>3 DEF ReadRow, storeVars, diskVars
  <2>2. PICK o \in v.todo :
          /\ excused' \in {excused, excused \cup {deletion[o].certificate}}
          /\ recovery' = [recovery EXCEPT ![h] = [v EXCEPT
               !.step = "source", !.operation = o, !.todo = @ \ {o},
               !.rowSeen = row[deletion[o].certificate].present]]
    BY <1>3 DEF ReadRow
  <2> DEFINE c == deletion[o].certificate
             w == [v EXCEPT !.step = "source", !.operation = o, !.todo = @ \ {o},
                            !.rowSeen = row[c].present]
  <2>3. c \in Certificates /\ o \in Operations /\ row[c].present \in BOOLEAN
    BY <1>0 DEF TypeOK, Named, TombstonesNamed, Recovery, Row
  <2>4. w \in Recovery /\ w.todo \subseteq v.todo
    <3> HIDE DEF c
    <3>1. w.todo = v.todo \ {o} /\ v.todo \ {o} \in SUBSET Operations
      BY <1>0 DEF Recovery
    <3> QED
      BY <1>0, <2>3, <3>1 DEF Recovery, OperationOrNone
  <2>5. recovery' = [recovery EXCEPT ![h] = w]
    BY <2>2
  <2> HIDE DEF w
  <2>6. TypeOK' /\ Fewer
    BY <2>1, <2>2, <2>3, <2>4, <2>5, RecoverySet DEF TypeOK
  <2> QED
    BY <1>1, <2>1, <2>6
<1>4. CASE ReadRowFails(h)
  <2>1. UNCHANGED <<row, deletion, place, root, request, excused>>
    BY <1>4 DEF ReadRowFails, storeVars, diskVars
  <2>2. PICK o \in v.todo :
          recovery' = [recovery EXCEPT ![h] = [v EXCEPT
            !.step = "recordError", !.operation = o, !.todo = @ \ {o}, !.failed = TRUE]]
    BY <1>4 DEF ReadRowFails
  <2> DEFINE w == [v EXCEPT !.step = "recordError", !.operation = o,
                            !.todo = @ \ {o}, !.failed = TRUE]
  <2>3. w \in Recovery /\ w.todo \subseteq v.todo
    <3>1. w.todo = v.todo \ {o} /\ v.todo \ {o} \in SUBSET Operations
      BY <1>0 DEF Recovery
    <3> QED
      BY <1>0, <3>1 DEF Recovery, OperationOrNone
  <2>4. recovery' = [recovery EXCEPT ![h] = w]
    BY <2>2
  <2>5. faults' \in 0 .. MaxFaults
    BY <1>4, FaultTyped DEF ReadRowFails
  <2> HIDE DEF w
  <2>6. TypeOK' /\ Fewer
    BY <2>1, <2>3, <2>4, <2>5, RecoverySet DEF TypeOK
  <2> QED
    BY <1>1, <2>1, <2>6
<1>5. CASE SeeSource(h)
  <2>1. UNCHANGED <<row, deletion, place, root, request, excused, faults>>
    BY <1>5 DEF SeeSource, storeVars, diskVars
  <2> DEFINE seen == place[deletion[v.operation].certificate] = "source"
             w == [v EXCEPT !.step = "staged", !.sourceSeen = seen]
  <2>2. w \in Recovery /\ w.todo = v.todo
    BY <1>0 DEF Recovery
  <2>3. recovery' = [recovery EXCEPT ![h] = w]
    BY <1>5 DEF SeeSource, TypeOK
  <2> HIDE DEF w
  <2>4. TypeOK' /\ Fewer
    BY <2>1, <2>2, <2>3, RecoverySet DEF TypeOK
  <2> QED
    BY <1>1, <2>1, <2>4
<1>6. CASE SeeStaged(h)
  <2>1. UNCHANGED <<row, deletion, place, root, request, excused, faults>>
    BY <1>6 DEF SeeStaged, storeVars, diskVars
  <2> DEFINE staged == place[deletion[v.operation].certificate] = v.operation
             verdict == Verdict(v.rowSeen, v.sourceSeen, staged)
             w == [v EXCEPT !.step = verdict, !.rowSeen = FALSE, !.sourceSeen = FALSE]
  <2>2. verdict \in {"restore", "compareSource", "erase", "untrack", "deletionError"}
    BY DEF Verdict
  <2>3. recovery' = [recovery EXCEPT ![h] = w]
    BY <1>6 DEF SeeStaged
  <2> HIDE DEF verdict
  <2>4. w \in Recovery /\ w.todo = v.todo
    BY <1>0, <2>2 DEF Recovery
  <2> HIDE DEF w
  <2>5. TypeOK' /\ Fewer
    BY <2>1, <2>3, <2>4, RecoverySet DEF TypeOK
  <2> QED
    BY <1>1, <2>1, <2>5
<1>7. CASE CompareDirectories(h)
  <2>1. UNCHANGED <<row, deletion, place, root, request, excused, faults>>
    BY <1>7 DEF CompareDirectories, storeVars, diskVars
  <2>2. PICK step \in {"untrack", "compareStaged", "replace", "deletionError"} :
          Proceed(h, step)
    BY <1>7 DEF CompareDirectories
  <2>3. TypeOK' /\ Fewer
    BY <2>1, <2>2, ProceedTyped DEF TypeOK
  <2> QED
    BY <1>1, <2>1, <2>3
<1>8. CASE ReplaceSource(h) \/ MoveBytes(h)
  <2>1. UNCHANGED <<row, deletion, root, request, excused>>
    BY <1>8 DEF ReplaceSource, MoveBytes, storeVars
  <2>2. PICK step \in {"restore", "untrack", "deletionError"} : Proceed(h, step)
    BY <1>8 DEF ReplaceSource, MoveBytes
  <2>3. place' \in [Certificates -> Place]
    BY <1>8 DEF ReplaceSource, MoveBytes, Erased, TypeOK, Place
  <2>4. faults' \in 0 .. MaxFaults
    BY <1>8, FaultTyped DEF ReplaceSource, MoveBytes, TypeOK
  <2>5. TypeOK' /\ Fewer
    BY <2>1, <2>2, <2>3, <2>4, ProceedTyped DEF TypeOK
  <2> QED
    BY <1>1, <2>1, <2>5
<1>9. ASSUME NEW outcome \in Outcomes, SettleTombstone(h, outcome)
      PROVE Sound'
  <2>1. UNCHANGED <<row, place, root, request, excused>> /\ Spend(outcome)
    BY <1>9 DEF SettleTombstone, diskVars
  <2>2. PICK state \in {"none", "deletion_error"} :
          WriteDeletion(v.operation, state, outcome)
    BY <1>9 DEF SettleTombstone
  <2>3. PICK w \in {[v EXCEPT !.step = "next", !.operation = None],
                    [v EXCEPT !.step = "recordError", !.failed = TRUE]} :
          recovery' = [recovery EXCEPT ![h] = w]
    BY <1>9 DEF SettleTombstone
  <2>4. w \in Recovery /\ w.todo = v.todo
    BY <1>0, <2>3 DEF Recovery, OperationOrNone
  <2>5. TypeOK' /\ Fewer
    BY <2>1, <2>2, <2>3, <2>4, DeletionWritten, RecoverySet, SpendTyped DEF TypeOK
  <2> QED
    BY <2>1, <2>2, <2>5, DeletionWritten, RecoveryStepSound
<1>10. ASSUME NEW outcome \in Outcomes, NEW unknown \in SUBSET Certificates,
              ReconcileTrust(h, outcome, unknown)
       PROVE Sound'
  BY <1>10, ReconcileSound
<1>11. CASE RecoveryFails(h)
  <2>1. UNCHANGED <<row, deletion, place, root, request, excused, faults>>
    BY <1>11 DEF RecoveryFails, storeVars, diskVars
  <2>2. recovery' = [recovery EXCEPT ![h] = OverRecovery]
    BY <1>11 DEF RecoveryFails
  <2>3. TypeOK' /\ Fewer
    BY <2>1, <2>2, Constants, RecoverySet DEF TypeOK
  <2> QED
    BY <1>1, <2>1, <2>3
<1> QED
  BY <1>2, <1>3, <1>4, <1>5, <1>6, <1>7, <1>8, <1>9, <1>10, <1>11 DEF RecoveryStep

-----------------------------------------------------------------------------
(* The invariant *)

LEMMA RestartSound ==
  ASSUME Sound, NEW h \in Hosts, HostRestart(h)
  PROVE Sound'
<1> USE DEF Sound
<1>1. /\ request' = [request EXCEPT ![h] = IdleRequest]
      /\ recovery' = [recovery EXCEPT ![h] = PendingRecovery]
      /\ UNCHANGED <<row, deletion, place, root, excused>>
  BY DEF HostRestart, Respond, storeVars, diskVars
<1>2. faults' \in 0 .. MaxFaults
  BY FaultTyped DEF HostRestart
<1>3. TypeOK'
  BY <1>1, <1>2, Constants DEF TypeOK
<1>4. RequestsNamed' /\ TombstonesNamed'
  BY <1>1, Constants DEF TypeOK, Named, RequestsNamed, TombstonesNamed, Handling, TrustSteps
<1>5. \A g \in Hosts : request'[g] = request[g] \/ request'[g].step \notin TrustSteps
  BY <1>1, Constants DEF TypeOK, TrustSteps
<1> QED
  BY <1>1, <1>3, <1>4, <1>5, QuietSteps DEF Named

LEMMA StepSound ==
  ASSUME Sound, [Next]_vars
  PROVE Sound'
<1>1. ASSUME Next
      PROVE Sound'
  BY <1>1, ImportSound, TrustSound, DeletionSound, RecoverySound, RestartSound DEF Next
<1>2. CASE UNCHANGED vars
  BY <1>2 DEF Sound, vars, storeVars, diskVars, TypeOK, Named, RowsNamed, RequestsNamed,
     TombstonesNamed, Disclaimed, RowsDisclaim, RequestsDisclaim, TokensAgree,
     UniqueFingerprint, Handling, Holds, Foreign, Disclaims
<1> QED
  BY <1>1, <1>2

LEMMA AlwaysSound == Spec => []Sound
<1> QED
  BY InitSound, StepSound, PTL DEF Spec

\* Every variable keeps its type: no step writes a certificate, a directory or an
\* operation that does not exist.
THEOREM CertificateTypes == Spec => []TypeOK
<1>1. Sound => TypeOK
  BY DEF Sound
<1> QED
  BY <1>1, AlwaysSound, PTL

\* However many hosts import however many files, a fingerprint is in the library
\* once: CommitImport looks for it in the transaction that adds the row.
THEOREM FingerprintsUnique == Spec => []UniqueFingerprint
<1>1. Sound => UniqueFingerprint
  BY DEF Sound
<1> QED
  BY <1>1, AlwaysSound, PTL

\* An entry that was in CurrentUser\Root before ScopeNest came is neither removed
\* nor taken over, whatever trust operations hosts begin, lose and recover.
THEOREM ForeignEntriesKept == Spec => ForeignTrustKept
<1>1. ASSUME Sound, [Next]_vars, NEW f \in Fingerprints, root[f] = "other"
      PROVE root'[f] = "other"
  <2>1. CASE root' = root
    BY <1>1, <2>1
  <2>2. ASSUME NEW h \in Hosts, InstallTrust(h)
        PROVE root'[f] = "other"
    BY <1>1, <2>2 DEF Sound, TypeOK, InstallTrust
  <2>3. ASSUME NEW h \in Hosts, RemoveTrust(h)
        PROVE root'[f] = "other"
    <3>1. request[h].fingerprint /= f
      BY <1>1, <2>3 DEF Sound, Disclaimed, RequestsDisclaim, Foreign, RemoveTrust,
         Handling, TrustSteps
    <3> QED
      BY <1>1, <2>3, <3>1 DEF Sound, TypeOK, RemoveTrust
  <2>4. CASE UNCHANGED vars
    BY <2>1, <2>4 DEF vars, diskVars
  <2>5. ASSUME NEW h \in Hosts, ImportStep(h)
        PROVE root' = root
    BY <2>5 DEF ImportStep, Import, CommitImport, ImportRefused, RollbackImport, diskVars
  <2>6. ASSUME NEW h \in Hosts, TrustStep(h)
        PROVE root' = root \/ InstallTrust(h) \/ RemoveTrust(h)
    BY ZenonT(60), <2>6
       DEF TrustStep, BeginInstall, BeginRemoval, BeginTrust, VerifyTrust, RecordTrust,
       RecordRemoval, markCertificateTrustError, SettleTrust, diskVars
  <2>7. ASSUME NEW h \in Hosts, DeletionStep(h)
        PROVE root' = root
    BY <2>7 DEF DeletionStep, BeginDeletion, StageDeletion, RemoveRow, DeletionRefused,
       RestoreBytes, EraseBytes, FinishDeletion, diskVars
  <2>8. ASSUME NEW h \in Hosts, RecoveryStep(h)
        PROVE root' = root
    BY <2>8 DEF RecoveryStep, LoadTombstones, ReadRow, ReadRowFails, SeeSource, SeeStaged,
       CompareDirectories, ReplaceSource, MoveBytes, SettleTombstone, ReconcileTrust,
       RecoveryFails, diskVars
  <2>9. ASSUME NEW h \in Hosts, HostRestart(h)
        PROVE root' = root
    BY <2>9 DEF HostRestart, diskVars
  <2> QED
    BY <1>1, <2>1, <2>2, <2>3, <2>4, <2>5, <2>6, <2>7, <2>8, <2>9 DEF Next
<1>2. Sound /\ [Next]_vars => \A f \in Fingerprints : root[f] = "other" => root'[f] = "other"
  BY <1>1
<1> QED
  BY <1>2, AlwaysSound, PTL DEF Spec, ForeignTrustKept
=============================================================================
