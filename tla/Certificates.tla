---------------------------- MODULE Certificates ----------------------------
(***************************************************************************)
(* The certificate library: import, trust, deletion, and their recovery.   *)
(*                                                                         *)
(* A certificate is a row of containers.json, a directory with its DER     *)
(* bytes, and perhaps an entry in the CurrentUser\Root store of Windows.   *)
(* The three change in separate steps.  A persisted operation (a token in  *)
(* the row for trust, a tombstone for deletion) tells a later host what a  *)
(* lost one was doing; every host runs that recovery once, in the startup  *)
(* goroutine, while its own requests and other hosts go on.                *)
(*                                                                         *)
(* An action is one store transaction, one call on a directory or one call *)
(* on the trust store.  The host is the Windows build: elsewhere the trust *)
(* operations are refused, and a certificate is acknowledged by hand, which*)
(* module Library has.                                                     *)
(***************************************************************************)
EXTENDS Naturals, FiniteSets

CONSTANTS
  Hosts,        \* native-host processes
  Certificates, \* certificate identifiers that NewID may draw
  Fingerprints, \* SHA-256 fingerprints, each of one normalized DER
  Operations,   \* tokens of trust operations and deletions that NewID may draw
  None,         \* no certificate, no operation, no fingerprint
  MaxStarting,  \* bound on the hosts whose startup cleanup is not over
  FaultKinds,   \* the kinds of fault explored
  MaxFaults     \* bound on the number of faults in a behaviour

AllFaultKinds == {"lock", "write", "sync", "rename", "remove", "trust",
                  "reference", "crash"}

ASSUME NoneAssumption == None \notin Certificates \cup Operations \cup Fingerprints
\* A token is told from the other places a directory may be at.
ASSUME TokenAssumption == Operations \cap {"nowhere", "import", "source"} = {}
ASSUME StartingAssumption == MaxStarting \in Nat
ASSUME FaultAssumption == FaultKinds \subseteq AllFaultKinds /\ MaxFaults \in Nat

VARIABLES
  row,       \* the certificate rows of containers.json
  deletion,  \* its tombstones, certificateDeletionOperations
  place,     \* where the directory with a certificate's bytes is
  root,      \* who put each fingerprint into CurrentUser\Root
  request,   \* the request a host is handling, between two of its steps
  recovery,  \* the certificate part of a host's startup cleanup
  excused,   \* certificates a step below names as beyond the code's promises
  faults     \* how many faults have happened

storeVars == <<row, deletion>>
diskVars  == <<place, root>>
vars == <<row, deletion, place, root, request, recovery, excused, faults>>

-----------------------------------------------------------------------------
(* Types *)

OperationOrNone == Operations \cup {None}
CertificateOrNone == Certificates \cup {None}

Row == [present : BOOLEAN, fingerprint : Fingerprints \cup {None},
        state : {"untrusted", "installing", "trusted", "removing", "trust_error"},
        trusted : BOOLEAN, installed : BOOLEAN,
        operation : OperationOrNone, wasTrusted : BOOLEAN]

AbsentRow == [present |-> FALSE, fingerprint |-> None, state |-> "untrusted",
              trusted |-> FALSE, installed |-> FALSE, operation |-> None,
              wasTrusted |-> FALSE]

\* A tombstone keeps its certificate when it is removed: a recovery works on
\* the copy it loaded.
Tombstone == [state : {"none", "deleting", "deletion_error"},
              certificate : CertificateOrNone]

\* The import's temporary directory, resources/certificates/<id>, or the
\* .delete-<id>-<operation> directory.  It only ever moves by a rename, so a
\* certificate has one place.
Place == {"nowhere", "import", "source"} \cup Operations

Request == [step : {"idle", "staged", "rollback",
                    "install", "installed", "remove", "removed", "recordTrust",
                    "recordRemoval", "trustError",
                    "tombstoned", "renamed", "missing", "restore", "erase",
                    "untrack", "deletionError"},
            certificate : CertificateOrNone, operation : OperationOrNone,
            fingerprint : Fingerprints \cup {None}, owned : BOOLEAN]

IdleRequest == [step |-> "idle", certificate |-> None, operation |-> None,
                fingerprint |-> None, owned |-> FALSE]

Recovery == [step : {"pending", "next", "source", "staged", "compareSource",
                     "compareStaged", "replace", "restore", "erase", "untrack",
                     "deletionError", "recordError", "done"},
             todo : SUBSET Operations, operation : OperationOrNone,
             rowSeen : BOOLEAN, sourceSeen : BOOLEAN, failed : BOOLEAN]

PendingRecovery == [step |-> "pending", todo |-> {}, operation |-> None,
                    rowSeen |-> FALSE, sourceSeen |-> FALSE, failed |-> FALSE]

OverRecovery == [PendingRecovery EXCEPT !.step = "done"]

TypeOK ==
  /\ row \in [Certificates -> Row]
  /\ deletion \in [Operations -> Tombstone]
  /\ place \in [Certificates -> Place]
  /\ root \in [Fingerprints -> {"absent", "scopenest", "other"}]
  /\ request \in [Hosts -> Request]
  /\ recovery \in [Hosts -> Recovery]
  /\ excused \subseteq Certificates \cup Fingerprints
  /\ faults \in 0 .. MaxFaults

-----------------------------------------------------------------------------
(* Store transactions and requests *)

\* As in ContainerLifecycle: "write" fails before the rename of containers.json,
\* "sync" after it, so that the caller is told of a failure that was none.
May(kind) == kind \in FaultKinds /\ faults < MaxFaults
Outcomes == {"ok"} \cup {kind \in {"lock", "write", "sync"} : May(kind)}
Spend(outcome) == faults' = IF outcome = "ok" THEN faults ELSE faults + 1
Fault(kind) == May(kind) /\ faults' = faults + 1
Committed(outcome) == outcome \in {"ok", "sync"}

WriteRow(c, r, outcome) ==
  row' = IF Committed(outcome) THEN [row EXCEPT ![c] = r] ELSE row
WriteDeletion(o, state, outcome) ==
  deletion' = IF Committed(outcome) /\ deletion[o].state /= "none"
              THEN [deletion EXCEPT ![o].state = state] ELSE deletion

Handling(h, step) == request[h].step = step
Step(h, step) == request' = [request EXCEPT ![h].step = step]
Respond(h) == request' = [request EXCEPT ![h] = IdleRequest]
Carried(o) == \E h \in Hosts : request[h].operation = o

\* ReadCertificateVerified and TrustStore.Verify, unless they fail.
Readable(c) == place[c] = "source"
Verify(f) == root[f] /= "absent"

trustOperationPending(c) ==
  row[c].operation /= None \/ row[c].state \in {"installing", "removing"}

\* NewID never draws an identifier twice: here, one that is still known.
Fresh(o) ==
  /\ \A c \in Certificates : row[c].operation /= o /\ place[c] /= o
  /\ deletion[o].state = "none"
  /\ ~Carried(o)
  /\ \A h \in Hosts : recovery[h].operation /= o /\ o \notin recovery[h].todo

Init ==
  /\ row = [c \in Certificates |-> AbsentRow]
  /\ deletion = [o \in Operations |-> [state |-> "none", certificate |-> None]]
  /\ place = [c \in Certificates |-> "nowhere"]
  /\ root \in [Fingerprints -> {"absent", "other"}]
  /\ request = [h \in Hosts |-> IdleRequest]
  /\ recovery \in [Hosts -> {PendingRecovery, OverRecovery}]
  /\ Cardinality({h \in Hosts : recovery[h] = PendingRecovery}) <= MaxStarting
  /\ excused = {}
  /\ faults = 0

\* The host ends, and its browser starts another, whose recovery is to come.
HostRestart(h) ==
  /\ Fault("crash")
  /\ Cardinality({g \in Hosts \ {h} : recovery[g].step /= "done"}) < MaxStarting
  /\ Respond(h)
  /\ recovery' = [recovery EXCEPT ![h] = PendingRecovery]
  /\ UNCHANGED <<storeVars, diskVars, excused>>

-----------------------------------------------------------------------------
(* import_certificate *)

Unused(c) == ~row[c].present /\ place[c] = "nowhere"
               /\ \A o \in Operations : deletion[o].certificate /= c

\* Manager.Import: the bytes are checked and written to a temporary directory.
Import(h, c, f) ==
  /\ Handling(h, "idle")
  /\ Unused(c)
  /\ \A g \in Hosts : request[g].certificate /= c
  /\ place' = [place EXCEPT ![c] = "import"]
  /\ request' = [request EXCEPT ![h] = [IdleRequest EXCEPT
                   !.step = "staged", !.certificate = c, !.fingerprint = f]]
  /\ UNCHANGED <<storeVars, root, recovery, excused, faults>>

InLibrary(f) == \E c \in Certificates : row[c].present /\ row[c].fingerprint = f

NewRow(f) == [AbsentRow EXCEPT !.present = TRUE, !.fingerprint = f]

\* Mutation: the library is not searched for the fingerprint.
CommitAnyImport(h, outcome) ==
  LET c == request[h].certificate
      f == request[h].fingerprint
  IN /\ Handling(h, "staged")
     /\ outcome = "ok"
     /\ place' = [place EXCEPT ![c] = "source"]
     /\ WriteRow(c, NewRow(f), outcome)
     /\ Respond(h)
     /\ UNCHANGED <<deletion, root, recovery, excused, faults>>

\* CommitImport: placed and recorded in one transaction.  Any error once the
\* directory is placed removes it; a temporary directory is left to the cleanup.
CommitImport(h, outcome) ==
  LET c == request[h].certificate
      f == request[h].fingerprint
      placed == outcome /= "lock"
  IN /\ Handling(h, "staged")
     /\ outcome \in Outcomes
     /\ ~InLibrary(f)
     /\ Spend(outcome)
     /\ place' = IF placed THEN [place EXCEPT ![c] = "source"] ELSE place
     /\ WriteRow(c, NewRow(f), outcome)
     /\ IF outcome \in {"write", "sync"} THEN Step(h, "rollback") ELSE Respond(h)
     /\ excused' = IF outcome = "sync" THEN excused \cup {c} ELSE excused
     /\ UNCHANGED <<deletion, root, recovery>>

\* The fingerprint is in the library, or the directory cannot be renamed.
ImportRefused(h) ==
  /\ Handling(h, "staged")
  /\ \/ InLibrary(request[h].fingerprint) /\ faults' = faults
     \/ Fault("rename")
  /\ Respond(h)
  /\ UNCHANGED <<storeVars, diskVars, recovery, excused>>

\* os.RemoveAll(finalDir).
RollbackImport(h) ==
  LET c == request[h].certificate
  IN /\ Handling(h, "rollback")
     /\ \/ place' = [place EXCEPT ![c] = "nowhere"] /\ faults' = faults
        \/ Fault("remove") /\ UNCHANGED place
     /\ Respond(h)
     /\ UNCHANGED <<storeVars, root, recovery, excused>>

-----------------------------------------------------------------------------
(* install_certificate_trust and remove_certificate_trust *)

BeginTrust(h, c, o, outcome, step, r) ==
  /\ Handling(h, "idle")
  /\ row[c].present
  /\ ~trustOperationPending(c)
  /\ Readable(c)
  /\ Fresh(o)
  /\ outcome \in Outcomes \ {"lock", "write"}
  /\ Spend(outcome)
  /\ WriteRow(c, [r EXCEPT !.operation = o], outcome)
  /\ request' = IF outcome = "ok"
                THEN [request EXCEPT ![h] =
                        [step |-> step, certificate |-> c, operation |-> o,
                         fingerprint |-> row[c].fingerprint,
                         owned |-> row[c].installed]]
                ELSE request
  /\ UNCHANGED <<deletion, diskVars, recovery, excused>>

\* Mutation: every entry counts as one ScopeNest adds.
BeginInstallBlind(h, c, o, outcome) ==
  BeginTrust(h, c, o, outcome, "install",
             [row[c] EXCEPT !.state = "installing", !.wasTrusted = FALSE])

BeginInstall(h, c, o, outcome) ==
  BeginTrust(h, c, o, outcome, "install",
             [row[c] EXCEPT !.state = "installing",
                            !.wasTrusted = Verify(row[c].fingerprint)])

\* No proxy or template refers to the certificate; with one, nothing happens.
BeginRemoval(h, c, o, outcome) ==
  /\ row[c].installed
  /\ BeginTrust(h, c, o, outcome, "remove",
                [row[c] EXCEPT !.state = "removing", !.wasTrusted = TRUE])

\* TrustStore.Install.  "trust": a call on the store fails, before or after the
\* entry is added.
InstallTrust(h) ==
  LET f == request[h].fingerprint
      added == [root EXCEPT ![f] = IF @ = "absent" THEN "scopenest" ELSE @]
  IN /\ Handling(h, "install")
     /\ \/ /\ root' = added
           /\ request' = [request EXCEPT ![h].step = "installed",
                                         ![h].owned = @ \/ ~Verify(f)]
           /\ faults' = faults
        \/ /\ Fault("trust")
           /\ root' \in {root, added}
           /\ Step(h, "trustError")
     /\ UNCHANGED <<storeVars, place, recovery, excused>>

\* TrustStore.Remove, which fails when the entry is not there.
RemoveTrust(h) ==
  LET f == request[h].fingerprint
      removed == [root EXCEPT ![f] = "absent"]
  IN /\ Handling(h, "remove")
     /\ \/ /\ Verify(f)
           /\ root' = removed
           /\ Step(h, "removed")
           /\ faults' = faults
        \/ /\ ~Verify(f)
           /\ Step(h, "trustError")
           /\ UNCHANGED <<root, faults>>
        \/ /\ Fault("trust")
           /\ root' \in {root, removed}
           /\ Step(h, "trustError")
     /\ UNCHANGED <<storeVars, place, recovery, excused>>

\* The Verify after Install, and the one after Remove.
VerifyTrust(h) ==
  LET verified == Verify(request[h].fingerprint)
  IN /\ \/ /\ Handling(h, "installed")
           /\ Step(h, IF verified THEN "recordTrust" ELSE "trustError")
           /\ faults' = faults
        \/ /\ Handling(h, "removed")
           /\ Step(h, IF verified THEN "trustError" ELSE "recordRemoval")
           /\ faults' = faults
        \/ /\ Handling(h, "installed") \/ Handling(h, "removed")
           /\ Fault("trust")
           /\ Step(h, "trustError")
     /\ UNCHANGED <<storeVars, diskVars, recovery, excused>>

\* The second transaction applies only while the row holds the token.
Holds(h) ==
  LET r == row[request[h].certificate]
  IN r.present /\ r.operation = request[h].operation

SettleTrust(h, step, r, outcome) ==
  /\ Handling(h, step)
  /\ outcome \in Outcomes
  /\ Spend(outcome)
  /\ IF Holds(h) THEN WriteRow(request[h].certificate, r, outcome) ELSE row' = row
  /\ Respond(h)
  /\ UNCHANGED <<deletion, diskVars, recovery, excused>>

\* Mutation: the state is cleared with the operation.
SettledBlank(r, state) ==
  [r EXCEPT !.state = "", !.trusted = (state = "trusted"),
            !.operation = None, !.wasTrusted = FALSE]

Settled(r, state) ==
  [r EXCEPT !.state = state, !.trusted = (state = "trusted"),
            !.operation = None, !.wasTrusted = FALSE]

RecordTrust(h, outcome) ==
  SettleTrust(h, "recordTrust",
    [Settled(row[request[h].certificate], "trusted") EXCEPT
       !.installed = request[h].owned], outcome)

\* Mutation: the trust flag is left as it was.
RecordRemovalTrusted(h, outcome) ==
  LET r == row[request[h].certificate]
  IN SettleTrust(h, "recordRemoval",
       [Settled(r, "untrusted") EXCEPT !.installed = FALSE, !.trusted = r.trusted],
       outcome)

RecordRemoval(h, outcome) ==
  SettleTrust(h, "recordRemoval",
    [Settled(row[request[h].certificate], "untrusted") EXCEPT !.installed = FALSE],
    outcome)

markCertificateTrustError(h, outcome) ==
  SettleTrust(h, "trustError",
    [row[request[h].certificate] EXCEPT !.state = "trust_error"], outcome)

-----------------------------------------------------------------------------
(* delete_certificate *)

\* Mutation: the trust operation of another host is not looked at.
DeletableWhilePending(c, o) ==
  /\ row[c].present
  /\ ~row[c].installed
  /\ \A p \in Operations \ {o} :
       deletion[p].certificate = c => deletion[p].state = "none"

\* validateCertificateDeletionInDBExcept, but for references.
Deletable(c, o) ==
  /\ row[c].present
  /\ row[c].state \notin {"installing", "removing"}
  /\ ~row[c].installed
  /\ row[c].operation = None
  /\ \A p \in Operations \ {o} :
       deletion[p].certificate = c => deletion[p].state = "none"

BeginDeletion(h, c, o, outcome) ==
  /\ Handling(h, "idle")
  /\ Deletable(c, None)
  /\ Fresh(o)
  /\ outcome \in Outcomes \ {"lock", "write"}
  /\ Spend(outcome)
  /\ deletion' = [deletion EXCEPT ![o] = [state |-> "deleting", certificate |-> c]]
  /\ request' = IF outcome = "ok"
                THEN [request EXCEPT ![h] = [IdleRequest EXCEPT
                        !.step = "tombstoned", !.certificate = c, !.operation = o]]
                ELSE request
  /\ UNCHANGED <<row, diskVars, recovery, excused>>

\* os.Rename(source, staged); a source that is not there is no error.
StageDeletion(h) ==
  LET c == request[h].certificate
      o == request[h].operation
  IN /\ Handling(h, "tombstoned")
     /\ \/ /\ place[c] = "source"
           /\ place' = [place EXCEPT ![c] = o]
           /\ Step(h, "renamed")
           /\ faults' = faults
        \/ /\ place[c] /= "source"
           /\ Step(h, "missing")
           /\ UNCHANGED <<place, faults>>
        \/ /\ Fault("rename")
           /\ Step(h, "deletionError")
           /\ UNCHANGED place
     /\ UNCHANGED <<storeVars, root, recovery, excused>>

\* Mutation: the tombstone goes in the transaction that removes the row.
RemoveRowAndTombstone(h, outcome) ==
  LET c == request[h].certificate
      o == request[h].operation
  IN /\ Handling(h, "renamed")
     /\ Deletable(c, o)
     /\ outcome = "ok"
     /\ row' = [row EXCEPT ![c] = AbsentRow]
     /\ deletion' = [deletion EXCEPT ![o].state = "none"]
     /\ Step(h, "erase")
     /\ UNCHANGED <<diskVars, recovery, excused, faults>>

\* The second transaction, when the deletion is still allowed.
RemoveRow(h, outcome) ==
  LET c == request[h].certificate
      o == request[h].operation
      renamed == Handling(h, "renamed")
  IN /\ renamed \/ Handling(h, "missing")
     /\ Deletable(c, o)
     /\ outcome \in Outcomes
     /\ Spend(outcome)
     /\ WriteRow(c, AbsentRow, outcome)
     /\ CASE outcome = "ok" -> Step(h, IF renamed THEN "erase" ELSE "untrack")
          [] outcome /= "ok" /\ renamed -> Step(h, "restore")
          [] OTHER -> Respond(h)
     /\ excused' = IF outcome = "sync" THEN excused \cup {c} ELSE excused
     /\ UNCHANGED <<deletion, diskVars, recovery>>

\* It is not: a trust operation has begun, the row is gone, or a proxy or
\* template has come to refer to the certificate ("reference").
DeletionRefused(h) ==
  LET c == request[h].certificate
      o == request[h].operation
  IN /\ \/ Handling(h, "renamed") /\ Step(h, "restore")
        \/ Handling(h, "missing") /\ Respond(h)
     /\ \/ ~Deletable(c, o) /\ faults' = faults
        \/ Fault("reference")
     /\ UNCHANGED <<storeVars, diskVars, recovery, excused>>

\* os.Rename(staged, source).
RestoreBytes(h) ==
  LET c == request[h].certificate
      o == request[h].operation
  IN /\ Handling(h, "restore")
     /\ \/ /\ place[c] = o
           /\ place' = [place EXCEPT ![c] = "source"]
           /\ Step(h, "untrack")
           /\ faults' = faults
        \/ /\ place[c] /= o
           /\ Step(h, "deletionError")
           /\ UNCHANGED <<place, faults>>
        \/ /\ Fault("rename")
           /\ Step(h, "deletionError")
           /\ UNCHANGED place
     /\ UNCHANGED <<storeVars, root, recovery, excused>>

\* os.RemoveAll(staged); what is not there is no error.
Erased(c, o) == [place EXCEPT ![c] = IF @ = o THEN "nowhere" ELSE @]

EraseBytes(h) ==
  /\ Handling(h, "erase")
  /\ \/ /\ place' = Erased(request[h].certificate, request[h].operation)
        /\ Step(h, "untrack")
        /\ faults' = faults
     \/ /\ Fault("remove")
        /\ Step(h, "deletionError")
        /\ UNCHANGED place
  /\ UNCHANGED <<storeVars, root, recovery, excused>>

\* removeCertificateDeletionOp and markCertificateDeletionError, of a request.
FinishDeletion(h, outcome) ==
  LET o == request[h].operation
  IN /\ outcome \in Outcomes
     /\ Spend(outcome)
     /\ \/ Handling(h, "untrack") /\ WriteDeletion(o, "none", outcome)
        \/ Handling(h, "deletionError")
             /\ WriteDeletion(o, "deletion_error", outcome)
     /\ Respond(h)
     /\ UNCHANGED <<row, diskVars, recovery, excused>>

-----------------------------------------------------------------------------
(* The certificate part of the startup cleanup *)

Recovering(h, step) == recovery[h].step = step
Proceed(h, step) == recovery' = [recovery EXCEPT ![h].step = step]

Abandoned ==
  {c \in Certificates : place[c] = "import"
                          /\ \A h \in Hosts : request[h].certificate /= c}

\* CleanupStaging removes temporary directories an hour old, which no import
\* that is still going on has; then the tombstones are loaded.  A failed load
\* ends the recovery.
LoadTombstones(h) ==
  /\ Recovering(h, "pending")
  /\ \E old \in SUBSET Abandoned :
       place' = [c \in Certificates |-> IF c \in old THEN "nowhere" ELSE place[c]]
  /\ \/ /\ recovery' = [recovery EXCEPT ![h] = [PendingRecovery EXCEPT
              !.step = "next", !.todo = {o \in Operations : deletion[o].state /= "none"}]]
        /\ faults' = faults
     \/ /\ Fault("lock")
        /\ Proceed(h, "done")
  /\ UNCHANGED <<storeVars, root, request, excused>>

\* reconcileCertificateDeletion loads the rows again for each tombstone, and
\* does not look at them afterwards.
ReadRow(h) ==
  /\ Recovering(h, "next")
  /\ \E o \in recovery[h].todo :
    /\ excused' = IF Carried(o) THEN excused \cup {deletion[o].certificate}
                  ELSE excused
    /\ recovery' = [recovery EXCEPT ![h] = [recovery[h] EXCEPT
         !.step = "source", !.operation = o, !.todo = @ \ {o},
         !.rowSeen = row[deletion[o].certificate].present]]
  /\ UNCHANGED <<storeVars, diskVars, request, faults>>

\* That load fails, and the tombstone is marked by another transaction.
ReadRowFails(h) ==
  /\ Recovering(h, "next")
  /\ Fault("lock")
  /\ \E o \in recovery[h].todo :
       recovery' = [recovery EXCEPT ![h] = [recovery[h] EXCEPT
         !.step = "recordError", !.operation = o, !.todo = @ \ {o},
         !.failed = TRUE]]
  /\ UNCHANGED <<storeVars, diskVars, request, excused>>

SeeSource(h) ==
  /\ Recovering(h, "source")
  /\ recovery' = [recovery EXCEPT ![h].step = "staged", ![h].sourceSeen =
       (place[deletion[recovery[h].operation].certificate] = "source")]
  /\ UNCHANGED <<storeVars, diskVars, request, excused, faults>>

\* Mutation: the row is not asked for.
VerdictOnFilesOnly(rowSeen, source, staged) ==
  IF staged THEN "erase" ELSE IF source THEN "untrack" ELSE "deletionError"

\* The switch of reconcileCertificateDeletion.  Directories seen at both paths
\* are one that was renamed in between.
Verdict(rowSeen, source, staged) ==
  CASE rowSeen /\ staged /\ ~source -> "restore"
    [] rowSeen /\ staged /\ source -> "compareSource"
    [] ~rowSeen /\ staged -> "erase"
    [] rowSeen /\ source /\ ~staged -> "untrack"
    [] OTHER -> "deletionError"

SeeStaged(h) ==
  LET v == recovery[h]
      staged == place[deletion[v.operation].certificate] = v.operation
  IN /\ Recovering(h, "staged")
     /\ recovery' = [recovery EXCEPT ![h] = [v EXCEPT
          !.step = Verdict(v.rowSeen, v.sourceSeen, staged),
          !.rowSeen = FALSE, !.sourceSeen = FALSE]]
     /\ UNCHANGED <<storeVars, diskVars, request, excused, faults>>

\* certificateDirectoryFingerprintMatches, of the one and of the other; with a
\* match at the source there is no staged directory to remove.
CompareDirectories(h) ==
  LET o == recovery[h].operation
      c == deletion[o].certificate
  IN /\ \/ /\ Recovering(h, "compareSource")
           /\ Proceed(h, IF place[c] = "source" THEN "untrack" ELSE "compareStaged")
        \/ /\ Recovering(h, "compareStaged")
           /\ Proceed(h, IF place[c] = o THEN "replace" ELSE "deletionError")
     /\ UNCHANGED <<storeVars, diskVars, request, excused, faults>>

\* os.RemoveAll(source), before the staged directory takes its place.
ReplaceSource(h) ==
  LET c == deletion[recovery[h].operation].certificate
  IN /\ Recovering(h, "replace")
     /\ \/ /\ place' = [place EXCEPT ![c] = IF @ = "source" THEN "nowhere" ELSE @]
           /\ Proceed(h, "restore")
           /\ faults' = faults
        \/ /\ Fault("remove")
           /\ Proceed(h, "deletionError")
           /\ UNCHANGED place
     /\ UNCHANGED <<storeVars, root, request, excused>>

\* os.Rename(staged, source), or os.RemoveAll(staged).
MoveBytes(h) ==
  LET o == recovery[h].operation
      c == deletion[o].certificate
  IN /\ \/ /\ Recovering(h, "restore")
           /\ place[c] = o
           /\ place' = [place EXCEPT ![c] = "source"]
           /\ Proceed(h, "untrack")
           /\ faults' = faults
        \/ /\ Recovering(h, "restore")
           /\ place[c] /= o
           /\ Proceed(h, "deletionError")
           /\ UNCHANGED <<place, faults>>
        \/ /\ Recovering(h, "erase")
           /\ place' = Erased(c, o)
           /\ Proceed(h, "untrack")
           /\ faults' = faults
        \/ /\ Recovering(h, "restore") \/ Recovering(h, "erase")
           /\ Fault(IF Recovering(h, "restore") THEN "rename" ELSE "remove")
           /\ Proceed(h, "deletionError")
           /\ UNCHANGED place
     /\ UNCHANGED <<storeVars, root, request, excused>>

\* A transaction that fails is an error of this tombstone: it is marked once
\* more, and the recovery fails when it is through with the others.
SettleTombstone(h, outcome) ==
  LET v == recovery[h]
      settled == [v EXCEPT !.step = "next", !.operation = None]
      erred == [v EXCEPT !.step = "recordError", !.failed = TRUE]
      state == IF v.step = "untrack" THEN "none" ELSE "deletion_error"
  IN /\ v.step \in {"untrack", "deletionError", "recordError"}
     /\ outcome \in Outcomes
     /\ Spend(outcome)
     /\ WriteDeletion(v.operation, state, outcome)
     /\ recovery' = [recovery EXCEPT ![h] =
          IF outcome = "ok" \/ v.step = "recordError" THEN settled ELSE erred]
     /\ UNCHANGED <<row, diskVars, request, excused>>

\* One row of reconcileTrustOperations whose bytes are there and whose entry
\* could be looked up.  A row in trust_error has a token.
reconciled(r) ==
  IF ~Verify(r.fingerprint)
  THEN [Settled(r, "untrusted") EXCEPT !.installed = FALSE]
  ELSE IF r.state = "removing" THEN Settled(r, "trusted")
  ELSE [Settled(r, "trusted") EXCEPT !.installed = @ \/ ~r.wasTrusted]

\* reconcileTrustOperations: all rows in one transaction, unless a tombstone
\* could not be settled.
ReconcileTrust(h, outcome, unknown) ==
  LET open == {c \in Certificates : row[c].present
                 /\ row[c].state \in {"installing", "removing", "trust_error"}}
      after(c) == CASE ~Readable(c) -> [row[c] EXCEPT !.trusted = FALSE,
                                                      !.state = "trust_error"]
                    [] c \in unknown -> [row[c] EXCEPT !.state = "trust_error"]
                    [] OTHER -> reconciled(row[c])
      touched == {row[c].fingerprint :
                    c \in {d \in open : Committed(outcome) /\ Carried(row[d].operation)}}
  IN /\ Recovering(h, "next") /\ recovery[h].todo = {} /\ ~recovery[h].failed
     /\ outcome \in Outcomes
     /\ unknown \subseteq open
     /\ \/ unknown = {} /\ Spend(outcome)
        \/ unknown /= {} /\ outcome = "ok" /\ Fault("trust")
     /\ row' = [c \in Certificates |->
                  IF c \in open /\ Committed(outcome) THEN after(c) ELSE row[c]]
     /\ excused' = excused \cup touched
     /\ Proceed(h, "done")
     /\ UNCHANGED <<deletion, diskVars, request>>

RecoveryFails(h) ==
  /\ Recovering(h, "next") /\ recovery[h].todo = {} /\ recovery[h].failed
  /\ recovery' = [recovery EXCEPT ![h] = OverRecovery]
  /\ UNCHANGED <<storeVars, diskVars, request, excused, faults>>

-----------------------------------------------------------------------------

ImportStep(h) ==
  \/ \E c \in Certificates, f \in Fingerprints : Import(h, c, f)
  \/ \E outcome \in Outcomes : CommitImport(h, outcome)
  \/ ImportRefused(h)
  \/ RollbackImport(h)

TrustStep(h) ==
  \/ \E c \in Certificates, o \in Operations, outcome \in Outcomes :
       BeginInstall(h, c, o, outcome) \/ BeginRemoval(h, c, o, outcome)
  \/ InstallTrust(h)
  \/ RemoveTrust(h)
  \/ VerifyTrust(h)
  \/ \E outcome \in Outcomes :
       RecordTrust(h, outcome) \/ RecordRemoval(h, outcome)
         \/ markCertificateTrustError(h, outcome)

DeletionStep(h) ==
  \/ \E c \in Certificates, o \in Operations, outcome \in Outcomes :
       BeginDeletion(h, c, o, outcome)
  \/ StageDeletion(h)
  \/ \E outcome \in Outcomes : RemoveRow(h, outcome)
  \/ DeletionRefused(h)
  \/ RestoreBytes(h)
  \/ EraseBytes(h)
  \/ \E outcome \in Outcomes : FinishDeletion(h, outcome)

RecoveryStep(h) ==
  \/ LoadTombstones(h)
  \/ ReadRow(h)
  \/ ReadRowFails(h)
  \/ SeeSource(h)
  \/ SeeStaged(h)
  \/ CompareDirectories(h)
  \/ ReplaceSource(h)
  \/ MoveBytes(h)
  \/ \E outcome \in Outcomes : SettleTombstone(h, outcome)
  \/ \E outcome \in Outcomes, unknown \in SUBSET Certificates :
       ReconcileTrust(h, outcome, unknown)
  \/ RecoveryFails(h)

Next ==
  \E h \in Hosts :
    ImportStep(h) \/ TrustStep(h) \/ DeletionStep(h) \/ RecoveryStep(h)
      \/ HostRestart(h)

Spec == Init /\ [][Next]_vars

-----------------------------------------------------------------------------
(* Properties *)

\* The bytes of a certificate in the library are never lost: they are in its
\* directory or staged by a deletion.  Excused are certificates whose import or
\* removal was committed though a directory-sync error was reported, and those
\* whose deletion a recovery takes for that of a lost host.
BytesKept ==
  \A c \in Certificates \ excused :
    row[c].present => place[c] \in {"source"} \cup Operations

\* A directory staged by a deletion has its tombstone, so that a later host
\* finds it.
StagedIsTracked ==
  \A c \in Certificates \ excused :
    place[c] \in Operations =>
      deletion[place[c]].certificate = c /\ deletion[place[c]].state /= "none"

\* Two hosts that import the same certificate do not both keep it.
UniqueFingerprint ==
  \A c, d \in Certificates :
    row[c].present /\ row[d].present /\ row[c].fingerprint = row[d].fingerprint
      => c = d

\* An entry ScopeNest put into the trust store is recorded: a row says so or has
\* the operation pending.
OwnedTrustRemembered ==
  \A f \in Fingerprints \ excused :
    root[f] = "scopenest" =>
      \E c \in Certificates :
        /\ row[c].present /\ row[c].fingerprint = f
        /\ row[c].installed \/ row[c].operation /= None

\* What the library calls trusted, with no operation pending, is in the store.
\* Excused, here and above, is what a recovery settles of a living host.
TrustedIsInstalled ==
  \A c \in Certificates :
    row[c].present /\ row[c].fingerprint \notin excused /\ row[c].trusted /\ row[c].operation = None
      => Verify(row[c].fingerprint)

\* An entry that was in the trust store before is never removed, nor taken over.
ForeignTrustKept ==
  [][\A f \in Fingerprints : root[f] = "other" => root'[f] = "other"]_vars

\* A certificate is not deleted while ScopeNest's own entry is in the store.
OwnedTrustBlocksDeletion ==
  [][\A c \in Certificates :
       row[c].present /\ ~row'[c].present
         => root[row[c].fingerprint] /= "scopenest"]_vars
=============================================================================
