---------------------- MODULE CertificateRecoveryProofs ----------------------
(***************************************************************************)
(* Proofs about Certificates: whatever hosts lose, retry and recover, the  *)
(* bytes of a certificate in the library are kept, a directory that was    *)
(* staged for deletion has its tombstone, ScopeNest's own entries in the   *)
(* trust store are remembered, and what the library calls trusted is in    *)
(* the store.  Each says so of what is not excused: a directory sync that  *)
(* fails after the rows were written, and a recovery that works on the     *)
(* operation of a living host, break the code's own promises.              *)
(*                                                                         *)
(* Both halves rest on tokens.  A deletion and a recovery that work on one *)
(* certificate meet only when the recovery finds a tombstone whose request *)
(* is still going on; those certificates are excused, and for all others   *)
(* a recovery's token is carried by no request, so that what it has read   *)
(* of the disk and the rows goes on being true of them (Bytes).  A trust   *)
(* request whose fingerprint is not excused still holds the token of its   *)
(* row, and is then alone with the entry of that fingerprint (Trust).      *)
(***************************************************************************)
EXTENDS CertificatesProofs

-----------------------------------------------------------------------------
(* What a step of a host may do *)

KeptPlaces == {"source"} \cup Operations

\* The steps a request goes on to, after the one it begins with.
LaterSteps == {"rollback", "installed", "removed", "recordTrust", "recordRemoval",
               "trustError"} \cup DeletionSteps

\* The request of h stays, ends, goes on, or begins: with an identifier nobody has,
\* or with a token nobody has on a certificate of the library.
RequestMoves(h) ==
  \/ request'[h] = request[h]
  \/ request'[h] = IdleRequest
  \/ /\ ~Handling(h, "idle") /\ request'[h].step \in LaterSteps
     /\ request'[h].certificate = request[h].certificate
     /\ request'[h].operation = request[h].operation
     /\ request'[h].step \in DeletionSteps =>
          request[h].step \in DeletionSteps \cup {"tombstoned"}
  \/ /\ request'[h].step = "staged" /\ request'[h].operation = None
     /\ \E c \in Certificates :
          /\ request'[h].certificate = c /\ Unused(c)
          /\ \A g \in Hosts : request[g].certificate /= c
  \/ /\ request'[h].step \in {"install", "remove", "tombstoned"}
     /\ \E o \in Operations : request'[h].operation = o /\ Fresh(o)
     /\ \E c \in Certificates : request'[h].certificate = c /\ row[c].present

\* A row appears where a staged import is committed.
RowMoves(h) ==
  \A c \in Certificates : row'[c].present =>
    \/ row[c].present
    \/ /\ Handling(h, "staged") /\ request'[h].step /= "staged"
       /\ c = request[h].certificate /\ place'[c] = "source"

\* A tombstone appears under a new token, for a certificate of the library, and goes
\* when a request or a recovery has come to its end.
DeletionMoves(h) ==
  \A o \in Operations :
    /\ \/ deletion'[o].certificate = deletion[o].certificate
       \/ /\ Fresh(o) /\ deletion'[o].state /= "none"
          /\ \E c \in Certificates : deletion'[o].certificate = c /\ row[c].present
    /\ deletion'[o].state = "none" =>
         \/ deletion[o].state = "none"
         \/ Handling(h, "untrack") /\ request'[h].step = "idle" /\ o = request[h].operation
         \/ Recovering(h, "untrack") /\ o = recovery[h].operation

\* The steps that may remove the bytes of c.
Removes(h, c) ==
  \/ (Handling(h, "rollback") \/ Handling(h, "erase")) /\ c = request[h].certificate
  \/ /\ Recovering(h, "erase") \/ Recovering(h, "replace")
     /\ c = deletion[recovery[h].operation].certificate

\* Bytes are staged by the deletion that is to remove them, and removed by few steps.
PlaceMoves(h) ==
  \A c \in Certificates :
    /\ place'[c] \in Operations =>
         \/ place'[c] = place[c]
         \/ /\ Handling(h, "tombstoned") /\ request'[h].step = "renamed"
            /\ c = request[h].certificate /\ place'[c] = request[h].operation
    /\ place[c] \in KeptPlaces => place'[c] \in KeptPlaces \/ Removes(h, c)

Moves(h) ==
  /\ \A g \in Hosts \ {h} : request'[g] = request[g] /\ recovery'[g] = recovery[g]
  /\ RequestMoves(h) /\ RowMoves(h) /\ DeletionMoves(h) /\ PlaceMoves(h)
  /\ excused \subseteq excused'
\* A row that is written or not, as WriteRow does.
LEMMA RowWritten ==
  ASSUME TypeOK, NEW c \in Certificates, NEW r, NEW outcome, WriteRow(c, r, outcome)
  PROVE /\ \A d \in Certificates \ {c} : row'[d] = row[d]
        /\ row'[c] = row[c] \/ (Committed(outcome) /\ row'[c] = r)
BY DEF TypeOK, WriteRow

LEMMA ImportMoves ==
  ASSUME Sound, NEW h \in Hosts, ImportStep(h)
  PROVE Moves(h)
<1> USE DEF Sound
<1> DEFINE c == request[h].certificate
<1>1. ASSUME NEW d \in Certificates, NEW f \in Fingerprints, Import(h, d, f)
      PROVE Moves(h)
  <2>1. /\ UNCHANGED <<row, deletion, recovery, excused>>
        /\ place' = [place EXCEPT ![d] = "import"] /\ Unused(d)
        /\ \A g \in Hosts : request[g].certificate /= d
    BY <1>1 DEF Import, storeVars
  <2>2. /\ \A g \in Hosts \ {h} : request'[g] = request[g]
        /\ request'[h].step = "staged" /\ request'[h].operation = None
        /\ request'[h].certificate = d
    BY <1>1 DEF Import, TypeOK, IdleRequest
  <2>3. PlaceMoves(h)
    BY <2>1, TokenAssumption DEF TypeOK, PlaceMoves, Unused, KeptPlaces
  <2> QED
    BY <2>1, <2>2, <2>3 DEF Moves, RequestMoves, RowMoves, DeletionMoves
<1>2. ASSUME NEW outcome \in Outcomes, CommitImport(h, outcome)
      PROVE Moves(h)
  <2>1. /\ Handling(h, "staged") /\ c \in Certificates
        /\ UNCHANGED <<deletion, recovery>> /\ excused \subseteq excused'
        /\ place' \in {place, [place EXCEPT ![c] = "source"]}
        /\ Committed(outcome) => place' = [place EXCEPT ![c] = "source"]
    BY <1>2 DEF CommitImport, Named, RequestsNamed, Handling, Committed
  <2>2. request' = [request EXCEPT ![h].step = "rollback"] \/ Respond(h)
    BY <1>2 DEF CommitImport, Step
  <2>3. /\ \A g \in Hosts \ {h} : request'[g] = request[g]
        /\ RequestMoves(h) /\ request'[h].step /= "staged"
    <3>1. CASE Respond(h)
      BY <3>1, Constants DEF TypeOK, Respond, RequestMoves
    <3>2. CASE request' = [request EXCEPT ![h].step = "rollback"]
      BY <2>1, <3>2 DEF TypeOK, Request, RequestMoves, Handling, LaterSteps, DeletionSteps
    <3> QED
      BY <2>2, <3>1, <3>2
  <2>4. PlaceMoves(h)
    BY <2>1, TokenAssumption DEF TypeOK, PlaceMoves, KeptPlaces
  <2>5. RowMoves(h)
    BY <1>2, <2>1, <2>3, RowWritten DEF TypeOK, RowMoves, CommitImport
  <2> QED
    BY <2>1, <2>3, <2>4, <2>5 DEF Moves, DeletionMoves
<1>3. CASE ImportRefused(h)
  <2>1. UNCHANGED <<row, deletion, place, recovery, excused>> /\ Respond(h)
    BY <1>3 DEF ImportRefused, storeVars, diskVars
  <2> QED
    BY <2>1 DEF Moves, RequestMoves, RowMoves, DeletionMoves, PlaceMoves, Respond, TypeOK
<1>4. CASE RollbackImport(h)
  <2>1. /\ UNCHANGED <<row, deletion, recovery, excused>> /\ Respond(h)
        /\ Handling(h, "rollback")
        /\ place' \in {place, [place EXCEPT ![c] = "nowhere"]}
    BY <1>4 DEF RollbackImport, storeVars
  <2>2. PlaceMoves(h)
    BY <2>1, TokenAssumption DEF TypeOK, PlaceMoves, KeptPlaces, Removes
  <2> QED
    BY <2>1, <2>2 DEF Moves, RequestMoves, RowMoves, DeletionMoves, Respond, TypeOK
<1> QED
  BY <1>1, <1>2, <1>3, <1>4 DEF ImportStep

LEMMA TrustMoves ==
  ASSUME Sound, NEW h \in Hosts, TrustStep(h)
  PROVE Moves(h)
<1> USE DEF Sound
<1>1. ASSUME NEW c \in Certificates, NEW o \in Operations, NEW outcome \in Outcomes,
             NEW step \in {"install", "remove"}, NEW r \in Row,
             BeginTrust(h, c, o, outcome, step, r)
      PROVE Moves(h)
  <2>1. /\ UNCHANGED <<deletion, place, recovery, excused>>
        /\ row[c].present /\ Fresh(o)
        /\ WriteRow(c, [r EXCEPT !.operation = o], outcome)
    BY <1>1 DEF BeginTrust, diskVars
  <2>2. /\ \A g \in Hosts \ {h} : request'[g] = request[g]
        /\ \/ request'[h] = request[h]
           \/ /\ request'[h].step = step /\ request'[h].certificate = c
              /\ request'[h].operation = o
    BY <1>1 DEF BeginTrust, TypeOK
  <2>3. RowMoves(h)
    BY <2>1, RowWritten DEF RowMoves
  <2> QED
    BY <2>1, <2>2, <2>3 DEF Moves, RequestMoves, DeletionMoves, PlaceMoves
<1>2. ASSUME NEW c \in Certificates, NEW o \in Operations, NEW outcome \in Outcomes,
             BeginInstall(h, c, o, outcome) \/ BeginRemoval(h, c, o, outcome)
      PROVE Moves(h)
  <2>1. row[c] \in Row /\ Verify(row[c].fingerprint) \in BOOLEAN
    BY DEF TypeOK, Verify
  <2> DEFINE r == [row[c] EXCEPT !.state = "installing",
                                 !.wasTrusted = Verify(row[c].fingerprint)]
             q == [row[c] EXCEPT !.state = "removing", !.wasTrusted = TRUE]
  <2>2. r \in Row /\ q \in Row
    BY <2>1 DEF Row
  <2>3. BeginTrust(h, c, o, outcome, "install", r) \/ BeginTrust(h, c, o, outcome, "remove", q)
    BY <1>2 DEF BeginInstall, BeginRemoval
  <2> HIDE DEF r, q
  <2> QED
    BY <1>1, <2>2, <2>3
<1>3. CASE InstallTrust(h) \/ RemoveTrust(h) \/ VerifyTrust(h)
  <2>1. UNCHANGED <<row, deletion, place, recovery, excused>>
    BY <1>3 DEF InstallTrust, RemoveTrust, VerifyTrust, storeVars, diskVars
  <2>2. ~Handling(h, "idle")
    BY <1>3 DEF InstallTrust, RemoveTrust, VerifyTrust, Handling
  <2>3. /\ \A g \in Hosts \ {h} : request'[g] = request[g]
        /\ request'[h].step \in LaterSteps /\ request'[h].step \notin DeletionSteps
        /\ request'[h].certificate = request[h].certificate
        /\ request'[h].operation = request[h].operation
    BY <1>3 DEF InstallTrust, RemoveTrust, VerifyTrust, Step, TypeOK, Request, LaterSteps,
       DeletionSteps
  <2> QED
    BY <2>1, <2>2, <2>3 DEF Moves, RequestMoves, RowMoves, DeletionMoves, PlaceMoves
<1>4. ASSUME NEW outcome \in Outcomes,
             RecordTrust(h, outcome) \/ RecordRemoval(h, outcome)
               \/ markCertificateTrustError(h, outcome)
      PROVE Moves(h)
  <2> DEFINE Settles(step, r) == SettleTrust(h, step, r, outcome)
  <2>1. \E step \in TrustSteps : \E r : Settles(step, r)
    BY <1>4 DEF RecordTrust, RecordRemoval, markCertificateTrustError, TrustSteps
  <2>2. PICK step \in TrustSteps : \E r : Settles(step, r)
    BY <2>1
  <2>3. PICK r : Settles(step, r)
    BY <2>2
  <2>4. /\ UNCHANGED <<deletion, place, recovery, excused>> /\ Respond(h)
        /\ request[h].certificate \in Certificates
        /\ row' = row \/ (Holds(h) /\ WriteRow(request[h].certificate, r, outcome))
    BY <2>3 DEF SettleTrust, diskVars, Named, RequestsNamed, Handling, TrustSteps
  <2>5. RowMoves(h)
    BY <2>4, RowWritten DEF RowMoves, Holds
  <2> QED
    BY <2>4, <2>5 DEF Moves, RequestMoves, DeletionMoves, PlaceMoves, Respond, TypeOK
<1> QED
  BY <1>2, <1>3, <1>4 DEF TrustStep

LEMMA DeletionStepMoves ==
  ASSUME Sound, NEW h \in Hosts, DeletionStep(h)
  PROVE Moves(h)
<1> USE DEF Sound
<1> DEFINE c == request[h].certificate
           o == request[h].operation
           Later == \E step \in DeletionSteps : Step(h, step)
\* A request that goes on, or ends.
<1>1. ASSUME Respond(h) \/ (Later /\ request[h].step \in DeletionSteps \cup {"tombstoned"})
      PROVE RequestMoves(h) /\ \A g \in Hosts \ {h} : request'[g] = request[g]
  <2>1. CASE Respond(h)
    BY <2>1 DEF TypeOK, Respond, RequestMoves
  <2>2. CASE Later /\ request[h].step \in DeletionSteps \cup {"tombstoned"}
    <3>1. PICK step \in DeletionSteps : request' = [request EXCEPT ![h].step = step]
      BY <2>2 DEF Step
    <3>2. /\ \A g \in Hosts \ {h} : request'[g] = request[g]
          /\ request'[h].step = step /\ request'[h].certificate = c
          /\ request'[h].operation = o
      BY <3>1 DEF TypeOK, Request
    <3> QED
      BY <2>2, <3>2 DEF RequestMoves, Handling, LaterSteps, DeletionSteps
  <2> QED
    BY <1>1, <2>1, <2>2
<1>2. ASSUME NEW d \in Certificates, NEW p \in Operations, NEW outcome \in Outcomes,
             BeginDeletion(h, d, p, outcome)
      PROVE Moves(h)
  <2>1. /\ UNCHANGED <<row, place, recovery, excused>> /\ Fresh(p) /\ row[d].present
        /\ deletion' = [deletion EXCEPT ![p] = [state |-> "deleting", certificate |-> d]]
    BY <1>2 DEF BeginDeletion, Deletable, diskVars
  <2>2. /\ \A g \in Hosts \ {h} : request'[g] = request[g]
        /\ \/ request'[h] = request[h]
           \/ /\ request'[h].step = "tombstoned" /\ request'[h].certificate = d
              /\ request'[h].operation = p
    BY <1>2 DEF BeginDeletion, TypeOK, IdleRequest
  <2>3. DeletionMoves(h)
    BY <2>1 DEF TypeOK, DeletionMoves
  <2> QED
    BY <2>1, <2>2, <2>3 DEF Moves, RequestMoves, RowMoves, PlaceMoves
<1>3. CASE StageDeletion(h)
  <2>1. /\ UNCHANGED <<row, deletion, recovery, excused>> /\ Handling(h, "tombstoned")
        /\ Later /\ o \in Operations
        /\ place' = place \/ (place' = [place EXCEPT ![c] = o] /\ Step(h, "renamed"))
    BY <1>3 DEF StageDeletion, storeVars, DeletionSteps, Named, RequestsNamed, Handling
  <2>2. Step(h, "renamed") => request'[h].step = "renamed"
    BY DEF Step, TypeOK, Request
  <2>3. PlaceMoves(h)
    BY <2>1, <2>2 DEF TypeOK, PlaceMoves, KeptPlaces
  <2> QED
    BY <1>1, <2>1, <2>3 DEF Moves, RowMoves, DeletionMoves, Handling
<1>4. ASSUME NEW outcome \in Outcomes, RemoveRow(h, outcome)
      PROVE Moves(h)
  <2>1. /\ UNCHANGED <<deletion, place, recovery>> /\ excused \subseteq excused'
        /\ Handling(h, "renamed") \/ Handling(h, "missing")
        /\ c \in Certificates /\ WriteRow(c, AbsentRow, outcome)
    BY <1>4 DEF RemoveRow, diskVars, Named, RequestsNamed, Handling
  <2>2. Respond(h) \/ Later
    <3>1. "erase" \in DeletionSteps /\ "untrack" \in DeletionSteps
            /\ "restore" \in DeletionSteps
      BY DEF DeletionSteps
    <3>2. CASE outcome = "ok"
      BY <1>4, <3>1, <3>2 DEF RemoveRow
    <3>3. CASE outcome /= "ok" /\ Handling(h, "renamed")
      BY <1>4, <3>1, <3>3 DEF RemoveRow
    <3>4. CASE outcome /= "ok" /\ ~Handling(h, "renamed")
      BY <1>4, <3>4 DEF RemoveRow
    <3> QED
      BY <3>2, <3>3, <3>4
  <2>3. RowMoves(h)
    BY <2>1, Constants, RowWritten DEF RowMoves
  <2> QED
    BY <1>1, <2>1, <2>2, <2>3 DEF Moves, DeletionMoves, PlaceMoves, Handling, DeletionSteps
<1>5. CASE DeletionRefused(h)
  <2>1. /\ UNCHANGED <<row, deletion, place, recovery, excused>>
        /\ request[h].step \in DeletionSteps
        /\ Respond(h) \/ Later
    BY <1>5 DEF DeletionRefused, storeVars, diskVars, Handling, DeletionSteps
  <2> QED
    BY <1>1, <2>1 DEF Moves, RowMoves, DeletionMoves, PlaceMoves
<1>6. CASE RestoreBytes(h) \/ EraseBytes(h)
  <2>1. /\ UNCHANGED <<row, deletion, recovery, excused>>
        /\ request[h].step \in DeletionSteps /\ Later
    BY <1>6 DEF RestoreBytes, EraseBytes, storeVars, Handling, DeletionSteps
  <2>2. PlaceMoves(h)
    BY <1>6, TokenAssumption DEF RestoreBytes, EraseBytes, Erased, TypeOK, PlaceMoves,
       KeptPlaces, Removes
  <2> QED
    BY <1>1, <2>1, <2>2 DEF Moves, RowMoves, DeletionMoves
<1>7. ASSUME NEW outcome \in Outcomes, FinishDeletion(h, outcome)
      PROVE Moves(h)
  <2>1. UNCHANGED <<row, place, recovery, excused>> /\ Respond(h)
    BY <1>7 DEF FinishDeletion, diskVars
  <2>2. request'[h].step = "idle"
    BY <2>1, Constants DEF Respond, TypeOK
  <2>3. \/ Handling(h, "untrack") /\ WriteDeletion(o, "none", outcome)
        \/ WriteDeletion(o, "deletion_error", outcome)
    BY <1>7 DEF FinishDeletion
  <2>4. DeletionMoves(h)
    <3>1. CASE deletion' = deletion
      BY <3>1 DEF DeletionMoves
    <3>2. CASE Handling(h, "untrack") /\ deletion' = [deletion EXCEPT ![o].state = "none"]
      BY <2>2, <3>2 DEF DeletionMoves, TypeOK, Tombstone
    <3>3. CASE deletion' = [deletion EXCEPT ![o].state = "deletion_error"]
      BY <2>2, <3>3 DEF DeletionMoves, TypeOK, Tombstone
    <3> QED
      BY <2>3, <3>1, <3>2, <3>3 DEF WriteDeletion
  <2> QED
    BY <1>1, <2>1, <2>4 DEF Moves, RowMoves, PlaceMoves
<1> QED
  BY <1>2, <1>3, <1>4, <1>5, <1>6, <1>7 DEF DeletionStep

LEMMA RecoveryMoves ==
  ASSUME Sound, NEW h \in Hosts, RecoveryStep(h)
  PROVE Moves(h)
<1> USE DEF Sound
<1> DEFINE o == recovery[h].operation
           c == deletion[o].certificate
\* A recovery leaves requests alone, and brings no row and no tombstone.
<1>1. ASSUME \A g \in Hosts \ {h} : recovery'[g] = recovery[g],
             request' = request, RowMoves(h), DeletionMoves(h), PlaceMoves(h),
             excused \subseteq excused'
      PROVE Moves(h)
  BY <1>1 DEF Moves, RequestMoves
<1>2. CASE LoadTombstones(h)
  <2>1. /\ UNCHANGED <<row, deletion, request, excused>>
        /\ \A g \in Hosts \ {h} : recovery'[g] = recovery[g]
    BY <1>2 DEF LoadTombstones, storeVars, Proceed, TypeOK
  <2>2. PICK old \in SUBSET Abandoned :
          place' = [d \in Certificates |-> IF d \in old THEN "nowhere" ELSE place[d]]
    BY <1>2 DEF LoadTombstones
  <2>3. PlaceMoves(h)
    BY <2>2, TokenAssumption DEF PlaceMoves, Abandoned, KeptPlaces
  <2> QED
    BY <1>1, <2>1, <2>3 DEF RowMoves, DeletionMoves
<1>3. CASE ReadRow(h) \/ ReadRowFails(h) \/ SeeSource(h) \/ SeeStaged(h)
             \/ CompareDirectories(h) \/ RecoveryFails(h)
  <2>1. UNCHANGED <<row, deletion, place, request>> /\ excused \subseteq excused'
    BY <1>3 DEF ReadRow, ReadRowFails, SeeSource, SeeStaged, CompareDirectories,
       RecoveryFails, storeVars, diskVars
  <2>2. \A g \in Hosts \ {h} : recovery'[g] = recovery[g]
    BY <1>3 DEF ReadRow, ReadRowFails, SeeSource, SeeStaged, CompareDirectories,
       RecoveryFails, Proceed, TypeOK
  <2> QED
    BY <1>1, <2>1, <2>2 DEF RowMoves, DeletionMoves, PlaceMoves
<1>4. CASE ReplaceSource(h)
  <2>1. /\ UNCHANGED <<row, deletion, request, excused>> /\ Recovering(h, "replace")
        /\ \A g \in Hosts \ {h} : recovery'[g] = recovery[g]
    BY <1>4 DEF ReplaceSource, storeVars, Proceed, TypeOK
  <2>2. place' \in {place, [place EXCEPT ![c] = IF @ = "source" THEN "nowhere" ELSE @]}
    BY <1>4 DEF ReplaceSource
  <2>3. PlaceMoves(h)
    BY <2>1, <2>2, TokenAssumption DEF TypeOK, PlaceMoves, KeptPlaces, Removes
  <2> QED
    BY <1>1, <2>1, <2>3 DEF RowMoves, DeletionMoves
<1>5. CASE MoveBytes(h)
  <2>1. /\ UNCHANGED <<row, deletion, request, excused>>
        /\ \A g \in Hosts \ {h} : recovery'[g] = recovery[g]
    BY <1>5 DEF MoveBytes, storeVars, Proceed, TypeOK
  <2>2. \/ place' \in {place, [place EXCEPT ![c] = "source"]}
        \/ Recovering(h, "erase") /\ place' = Erased(c, o)
    BY <1>5 DEF MoveBytes
  <2>3. PlaceMoves(h)
    BY <2>2, TokenAssumption DEF TypeOK, PlaceMoves, KeptPlaces, Removes, Erased
  <2> QED
    BY <1>1, <2>1, <2>3 DEF RowMoves, DeletionMoves
<1>6. ASSUME NEW outcome \in Outcomes, SettleTombstone(h, outcome)
      PROVE Moves(h)
  <2>1. /\ UNCHANGED <<row, place, request, excused>>
        /\ \A g \in Hosts \ {h} : recovery'[g] = recovery[g]
    BY <1>6 DEF SettleTombstone, diskVars, TypeOK
  <2>2. \/ Recovering(h, "untrack") /\ WriteDeletion(o, "none", outcome)
        \/ WriteDeletion(o, "deletion_error", outcome)
    BY <1>6 DEF SettleTombstone, Recovering
  <2>3. DeletionMoves(h)
    <3>1. CASE deletion' = deletion
      BY <3>1 DEF DeletionMoves
    <3>2. CASE Recovering(h, "untrack") /\ deletion' = [deletion EXCEPT ![o].state = "none"]
      BY <3>2 DEF DeletionMoves, TypeOK, Tombstone
    <3>3. CASE deletion' = [deletion EXCEPT ![o].state = "deletion_error"]
      BY <3>3 DEF DeletionMoves, TypeOK, Tombstone
    <3> QED
      BY <2>2, <3>1, <3>2, <3>3 DEF WriteDeletion
  <2> QED
    BY <1>1, <2>1, <2>3 DEF RowMoves, PlaceMoves
<1>7. ASSUME NEW outcome \in Outcomes, NEW unknown \in SUBSET Certificates,
             ReconcileTrust(h, outcome, unknown)
      PROVE Moves(h)
  <2>1. /\ UNCHANGED <<deletion, place, request>> /\ excused \subseteq excused'
        /\ \A g \in Hosts \ {h} : recovery'[g] = recovery[g]
    BY <1>7 DEF ReconcileTrust, diskVars, Proceed, TypeOK
  <2> DEFINE open == {d \in Certificates : row[d].present
                        /\ row[d].state \in {"installing", "removing", "trust_error"}}
  <2>2. \A d \in Certificates : d \in open \/ row'[d] = row[d]
    BY <1>7 DEF ReconcileTrust
  <2>3. RowMoves(h)
    BY <2>2 DEF RowMoves
  <2> QED
    BY <1>1, <2>1, <2>3 DEF DeletionMoves, PlaceMoves
<1> QED
  BY <1>2, <1>3, <1>4, <1>5, <1>6, <1>7 DEF RecoveryStep

LEMMA RestartMoves ==
  ASSUME Sound, NEW h \in Hosts, HostRestart(h)
  PROVE Moves(h)
<1>1. /\ request' = [request EXCEPT ![h] = IdleRequest]
      /\ recovery' = [recovery EXCEPT ![h] = PendingRecovery]
      /\ UNCHANGED <<row, deletion, place, excused>>
  BY DEF HostRestart, Respond, storeVars, diskVars
<1> QED
  BY <1>1 DEF Sound, TypeOK, Moves, RequestMoves, RowMoves, DeletionMoves, PlaceMoves

-----------------------------------------------------------------------------
(* Tokens and identifiers *)

\* A token is carried by one request.
OneCarrier ==
  \A g, h \in Hosts :
    request[g].operation /= None /\ request[g].operation = request[h].operation => g = h

\* The certificate of an import is no row yet, no other request's and no tombstone's.
StagedAlone ==
  \A h \in Hosts : Handling(h, "staged") =>
    /\ ~row[request[h].certificate].present
    /\ \A g \in Hosts \ {h} : request[g].certificate /= request[h].certificate
    /\ \A o \in Operations : deletion[o].certificate /= request[h].certificate

Carriers == OneCarrier /\ StagedAlone

LEMMA InitCarriers == Init => Carriers
BY DEF Init, Carriers, OneCarrier, StagedAlone, IdleRequest, Handling

LEMMA CarriersStep ==
  ASSUME Sound, Carriers, NEW h \in Hosts, Moves(h)
  PROVE Carriers'
<1>1. ASSUME NEW g \in Hosts
      PROVE \/ request'[g].operation \in {request[g].operation, None}
            \/ \E o \in Operations : request'[g].operation = o /\ Fresh(o)
  BY <1>1 DEF Moves, RequestMoves, IdleRequest
<1>2. OneCarrier'
  <2>1. SUFFICES ASSUME NEW f \in Hosts, NEW g \in Hosts,
                        request'[f].operation /= None,
                        request'[f].operation = request'[g].operation
                 PROVE f = g
    BY DEF OneCarrier
  <2>2. CASE request'[f].operation = request[f].operation /\ request'[g].operation = request[g].operation
    BY <2>1, <2>2 DEF Carriers, OneCarrier
  <2>3. ASSUME NEW k \in Hosts, request'[k].operation /= request[k].operation
        PROVE k = h
    BY <2>3 DEF Moves
  <2>4. CASE f = h /\ g /= h
    BY <1>1, <2>1, <2>2, <2>3, <2>4 DEF Fresh, Carried
  <2>5. CASE g = h /\ f /= h
    BY <1>1, <2>1, <2>2, <2>3, <2>5 DEF Fresh, Carried
  <2> QED
    BY <2>2, <2>3, <2>4, <2>5
<1>3. StagedAlone'
  <2>1. SUFFICES ASSUME NEW g \in Hosts, Handling(g, "staged")'
                 PROVE /\ ~row'[request'[g].certificate].present
                       /\ \A k \in Hosts \ {g} : request'[k].certificate /= request'[g].certificate
                       /\ \A o \in Operations : deletion'[o].certificate /= request'[g].certificate
    BY DEF StagedAlone
  <2> DEFINE c == request'[g].certificate
  \* A new import.
  <2>2. CASE /\ g = h /\ request'[h].step = "staged"
             /\ c \in Certificates /\ Unused(c)
             /\ \A k \in Hosts : request[k].certificate /= c
    <3> PICK d \in Certificates : d = c
      BY <2>2
    <3>1. ~row[d].present /\ \A o \in Operations : deletion[o].certificate /= d
      BY <2>2 DEF Unused
    <3>2. ~row'[d].present
      BY <2>2, <3>1 DEF Moves, RowMoves
    <3>3. \A o \in Operations : deletion'[o].certificate /= d
      BY <2>2, <3>1 DEF Moves, DeletionMoves
    <3> QED
      BY <2>2, <3>2, <3>3 DEF Moves
  \* One that goes on.
  <2>3. CASE request'[g] = request[g]
    <3> PICK d \in Certificates : d = request[g].certificate
      BY <2>1, <2>3 DEF Sound, Named, RequestsNamed, Handling
    <3>1. /\ ~row[d].present /\ \A o \in Operations : deletion[o].certificate /= d
          /\ \A k \in Hosts \ {g} : request[k].certificate /= d
      BY <2>1, <2>3 DEF Carriers, StagedAlone, Handling
    <3>2. ~row'[d].present
      BY <2>1, <2>3, <3>1 DEF Moves, RowMoves, Handling
    <3>3. \A o \in Operations : deletion'[o].certificate /= d
      BY <3>1 DEF Moves, DeletionMoves
    <3>4. \A k \in Hosts \ {g} : request'[k].certificate /= d
      <4>1. SUFFICES ASSUME NEW k \in Hosts \ {g}
                     PROVE request'[k].certificate /= d
        OBVIOUS
      <4>2. d /= None /\ request[k].certificate /= d
        BY <3>1, NoneAssumption
      <4>3. CASE k = h
        BY <3>1, <4>2, <4>3 DEF Moves, RequestMoves, IdleRequest
      <4> QED
        BY <4>2, <4>3 DEF Moves
    <3> QED
      BY <2>3, <3>2, <3>3, <3>4
  <2> QED
    <3>1. CASE g = h
      BY <2>1, <2>2, <2>3, <3>1 DEF Moves, RequestMoves, Handling, LaterSteps, DeletionSteps, IdleRequest
    <3> QED
      BY <2>3, <3>1 DEF Moves
<1> QED
  BY <1>2, <1>3 DEF Carriers

-----------------------------------------------------------------------------
(* Bytes and tombstones *)

\* Bytes are staged under a token of their certificate.
PlacesNamed ==
  \A c \in Certificates : place[c] \in Operations => deletion[place[c]].certificate = c

\* The deletion of h has a tombstone for its certificate; its directory is not staged
\* before it is renamed nor when it is done, and erased without a row only.
RequestSafe(h) ==
  LET c == request[h].certificate
      o == request[h].operation
  IN /\ request[h].step \in DeletionSteps \cup {"tombstoned"} =>
          o \in Operations /\ deletion[o].certificate = c
     /\ request[h].step \in {"tombstoned", "missing", "untrack"} => place[c] /= o
     /\ Handling(h, "tombstoned") /\ c \notin excused => deletion[o].state /= "none"
     /\ Handling(h, "erase") => ~row[c].present
     /\ Handling(h, "rollback") /\ c \notin excused => ~row[c].present

\* The steps of a recovery with a tombstone in hand.
WorkingSteps == {"source", "staged", "compareSource", "compareStaged", "replace", "restore",
                 "erase", "untrack", "deletionError"}

\* What the recovery of h knows of its tombstone stays true: unless its certificate is
\* excused, no request carries its token, so nothing is staged under it any more, and a
\* row that was not there does not come back.
RecoverySafe(h) ==
  LET v == recovery[h]
      o == v.operation
      c == deletion[o].certificate
  IN v.step \in WorkingSteps =>
       /\ o \in Operations /\ c \in Certificates
       /\ Carried(o) => c \in excused
       /\ (v.step \in {"source", "staged"} /\ v.rowSeen = FALSE) \/ v.step = "erase" =>
            ~row[c].present
       /\ c \notin excused =>
            /\ (v.step = "staged" /\ v.sourceSeen) \/ v.step = "untrack" => place[c] /= o
            /\ v.step \notin {"compareSource", "compareStaged", "replace"}

HostsSafe == \A h \in Hosts : RequestSafe(h) /\ RecoverySafe(h)
Bytes == PlacesNamed /\ HostsSafe /\ BytesKept /\ StagedIsTracked

LEMMA InitBytes == Init => Bytes
<1> SUFFICES ASSUME Init PROVE Bytes
  OBVIOUS
<1>1. PlacesNamed /\ StagedIsTracked
  BY TokenAssumption DEF Init, PlacesNamed, StagedIsTracked
<1>2. BytesKept
  BY DEF Init, BytesKept, AbsentRow
<1>3. HostsSafe
  BY DEF Init, HostsSafe, RequestSafe, RecoverySafe, Handling, IdleRequest, DeletionSteps,
     WorkingSteps, PendingRecovery, OverRecovery
<1> QED
  BY <1>1, <1>2, <1>3 DEF Bytes

\* What holds at every step, together.
Steady == Sound /\ Carriers /\ Bytes

\* A tombstone somebody works on keeps its certificate.
LEMMA TombstonesStay ==
  ASSUME Steady, NEW h \in Hosts, Moves(h), NEW o \in Operations, ~Fresh(o)
  PROVE deletion'[o].certificate = deletion[o].certificate
BY DEF Moves, DeletionMoves

LEMMA PlacesNamedStep ==
  ASSUME Steady, NEW h \in Hosts, Moves(h)
  PROVE PlacesNamed'
<1> SUFFICES ASSUME NEW c \in Certificates, place'[c] \in Operations
             PROVE deletion'[place'[c]].certificate = c
  BY DEF PlacesNamed
<1> PICK o \in Operations : o = place'[c]
  OBVIOUS
<1>1. CASE place[c] = o
  <2>1. ~Fresh(o) /\ deletion[o].certificate = c
    BY <1>1 DEF Fresh, Steady, Bytes, PlacesNamed
  <2> QED
    BY <2>1, TombstonesStay
<1>2. CASE Handling(h, "tombstoned") /\ c = request[h].certificate /\ o = request[h].operation
  <2>1. ~Fresh(o) /\ deletion[o].certificate = c
    BY <1>2 DEF Fresh, Carried, Steady, Bytes, HostsSafe, RequestSafe, Handling
  <2> QED
    BY <2>1, TombstonesStay
<1> QED
  BY <1>1, <1>2 DEF Moves, PlaceMoves

\* A directory is under a token afterwards that it was not under before: the request
\* that carries the token has staged it.
LEMMA StagedByCarrier ==
  ASSUME NEW h \in Hosts, Moves(h), NEW c \in Certificates, NEW o \in Operations,
         place'[c] = o, place[c] /= o
  PROVE /\ Handling(h, "tombstoned") /\ request'[h].step = "renamed"
        /\ c = request[h].certificate /\ o = request[h].operation
BY DEF Moves, PlaceMoves

\* A request that a step leaves alone stays safe.
LEMMA RequestStays ==
  ASSUME Steady, NEW h \in Hosts, Moves(h), NEW g \in Hosts, request'[g] = request[g]
  PROVE RequestSafe(g)'
<1> DEFINE c == request[g].certificate
           o == request[g].operation
<1>1. RequestSafe(g)
  BY DEF Steady, Bytes, HostsSafe
<1>2. request[g].step /= "idle" => c \in Certificates
  BY DEF Steady, Sound, Named, RequestsNamed, Handling
<1>3. excused \subseteq excused'
  BY DEF Moves
<1>4. request[g].step \in DeletionSteps \cup {"tombstoned"} =>
        o \in Operations /\ deletion'[o].certificate = c /\ deletion[o].certificate = c
  BY <1>1, TombstonesStay DEF RequestSafe, Fresh, Carried
<1>5. request[g].step \in {"tombstoned", "missing", "untrack"} => place'[c] /= o
  <2>1. SUFFICES ASSUME request[g].step \in {"tombstoned", "missing", "untrack"},
                        place'[c] = o
                 PROVE FALSE
    OBVIOUS
  <2>2. c \in Certificates /\ o \in Operations /\ place[c] /= o
    BY <1>1, <1>2, <2>1 DEF RequestSafe, DeletionSteps
  <2>3. o = request[h].operation /\ request'[h].step = "renamed"
    BY <2>1, <2>2, StagedByCarrier
  <2>4. g = h
    BY <2>2, <2>3, NoneAssumption DEF Steady, Carriers, OneCarrier
  <2> QED
    BY <2>1, <2>3, <2>4
<1>6. Handling(g, "tombstoned") /\ c \notin excused => deletion'[o].state /= "none"
  <2>1. SUFFICES ASSUME Handling(g, "tombstoned"), c \notin excused, deletion'[o].state = "none"
                 PROVE FALSE
    OBVIOUS
  <2>2. o \in Operations /\ deletion[o].state /= "none" /\ deletion[o].certificate = c
    BY <1>1, <1>4, <2>1 DEF RequestSafe, Handling
  <2>3. CASE Handling(h, "untrack") /\ o = request[h].operation
    BY <2>1, <2>2, <2>3, NoneAssumption DEF Steady, Carriers, OneCarrier, Handling
  <2>4. CASE Recovering(h, "untrack") /\ o = recovery[h].operation
    <3>1. Carried(o)
      BY DEF Carried
    <3> QED
      BY <2>1, <2>2, <2>4, <3>1 DEF Steady, Bytes, HostsSafe, RecoverySafe, Recovering,
         WorkingSteps
  <2> QED
    BY <2>1, <2>2, <2>3, <2>4 DEF Moves, DeletionMoves
<1>7. c \in Certificates /\ ~row[c].present /\ request[g].step \in {"erase", "rollback"} =>
        ~row'[c].present
  <2>1. SUFFICES ASSUME c \in Certificates, ~row[c].present, row'[c].present,
                        request[g].step \in {"erase", "rollback"}
                 PROVE FALSE
    OBVIOUS
  <2>2. Handling(h, "staged") /\ c = request[h].certificate
    BY <2>1 DEF Moves, RowMoves
  <2> QED
    BY <2>1, <2>2 DEF Steady, Carriers, StagedAlone, Handling
<1> QED
  BY <1>1, <1>2, <1>3, <1>4, <1>5, <1>6, <1>7 DEF RequestSafe, Handling

\* So does a recovery.
LEMMA RecoveryStays ==
  ASSUME Steady, NEW h \in Hosts, Moves(h), NEW g \in Hosts, recovery'[g] = recovery[g]
  PROVE RecoverySafe(g)'
<1> DEFINE v == recovery[g]
           o == v.operation
           c == deletion[o].certificate
<1>0. SUFFICES ASSUME v.step \in WorkingSteps
               PROVE RecoverySafe(g)'
  BY DEF RecoverySafe
<1>1. RecoverySafe(g) /\ o \in Operations /\ c \in Certificates /\ excused \subseteq excused'
  BY <1>0 DEF Steady, Bytes, HostsSafe, RecoverySafe, Moves
<1>2. ~Fresh(o) /\ deletion'[o].certificate = c
  BY <1>1, TombstonesStay DEF Fresh
<1>3. Carried(o)' => c \in excused
  <2>1. SUFFICES ASSUME NEW k \in Hosts, request'[k].operation = o
                 PROVE Carried(o)
    BY <1>0, <1>1 DEF Carried, RecoverySafe
  <2>2. CASE request'[k].operation = request[k].operation
    BY <2>1, <2>2 DEF Carried
  <2>3. CASE k = h
    BY <1>1, <1>2, <2>1, <2>2, <2>3, NoneAssumption DEF Moves, RequestMoves, IdleRequest
  <2> QED
    BY <2>2, <2>3 DEF Moves
<1>4. ~row[c].present => ~row'[c].present
  <2>1. SUFFICES ASSUME ~row[c].present, row'[c].present
                 PROVE FALSE
    OBVIOUS
  <2>2. Handling(h, "staged") /\ c = request[h].certificate
    BY <1>1, <2>1 DEF Moves, RowMoves
  <2> QED
    BY <1>1, <2>2 DEF Steady, Carriers, StagedAlone
<1>5. c \notin excused /\ place[c] /= o => place'[c] /= o
  <2>1. SUFFICES ASSUME c \notin excused, place[c] /= o, place'[c] = o
                 PROVE FALSE
    OBVIOUS
  <2>2. Carried(o)
    BY <1>1, <2>1, StagedByCarrier DEF Carried
  <2> QED
    BY <1>0, <1>1, <2>1, <2>2 DEF RecoverySafe
<1>6. (o \in Operations /\ c \in Certificates)'
  BY <1>1, <1>2
<1> HIDE DEF v
<1>7. /\ (v.step \in {"source", "staged"} /\ v.rowSeen = FALSE) \/ v.step = "erase" =>
            ~row[c].present
      /\ c \notin excused =>
            /\ (v.step = "staged" /\ v.sourceSeen) \/ v.step = "untrack" => place[c] /= o
            /\ v.step \notin {"compareSource", "compareStaged", "replace"}
  BY <1>0, <1>1 DEF RecoverySafe, v
<1> QED
  BY <1>0, <1>1, <1>2, <1>3, <1>4, <1>5, <1>7 DEF RecoverySafe, v

LEMMA BytesKeptStep ==
  ASSUME Steady, NEW h \in Hosts, Moves(h)
  PROVE BytesKept'
<1> SUFFICES ASSUME NEW c \in Certificates, c \notin excused', row'[c].present
             PROVE place'[c] \in KeptPlaces
  BY DEF BytesKept, KeptPlaces
<1>1. c \notin excused
  BY DEF Moves
<1>2. CASE ~row[c].present
  BY <1>2 DEF Moves, RowMoves, KeptPlaces
<1>3. CASE row[c].present
  <2>1. place[c] \in KeptPlaces
    BY <1>1, <1>3 DEF Steady, Bytes, BytesKept, KeptPlaces
  <2>2. RequestSafe(h) /\ RecoverySafe(h)
    BY DEF Steady, Bytes, HostsSafe
  <2>3. ~Removes(h, c)
    BY <1>1, <1>3, <2>2 DEF Removes, RequestSafe, RecoverySafe, Recovering, WorkingSteps
  <2> QED
    BY <2>1, <2>3 DEF Moves, PlaceMoves
<1> QED
  BY <1>2, <1>3

LEMMA StagedIsTrackedStep ==
  ASSUME Steady, NEW h \in Hosts, Moves(h)
  PROVE StagedIsTracked'
<1>1. PlacesNamed'
  BY PlacesNamedStep
<1>2. ASSUME NEW c \in Certificates, c \notin excused', NEW o \in Operations, place'[c] = o,
             deletion'[o].state = "none"
      PROVE FALSE
  <2>1. c \notin excused
    BY <1>2 DEF Moves
  <2>2. RequestSafe(h) /\ RecoverySafe(h) /\ PlacesNamed
    BY DEF Steady, Bytes, HostsSafe
  <2>3. CASE place[c] = o
    <3>1. deletion[o].certificate = c /\ deletion[o].state /= "none"
      BY <2>1, <2>3 DEF Steady, Bytes, StagedIsTracked
    <3>2. ~(Handling(h, "untrack") /\ o = request[h].operation)
      BY <2>2, <2>3, <3>1 DEF RequestSafe, Handling, DeletionSteps
    <3>3. ~(Recovering(h, "untrack") /\ o = recovery[h].operation)
      BY <2>1, <2>2, <2>3, <3>1 DEF RecoverySafe, Recovering, WorkingSteps
    <3> QED
      BY <1>2, <3>1, <3>2, <3>3 DEF Moves, DeletionMoves
  <2>4. CASE place[c] /= o
    <3>1. Handling(h, "tombstoned") /\ c = request[h].certificate /\ o = request[h].operation
      BY <1>2, <2>4, StagedByCarrier
    <3>2. deletion[o].certificate = c /\ deletion[o].state /= "none" /\ Carried(o)
      BY <2>1, <2>2, <3>1 DEF RequestSafe, Handling, Carried
    <3>3. ~(Recovering(h, "untrack") /\ o = recovery[h].operation)
      BY <2>1, <2>2, <3>2 DEF RecoverySafe, Recovering, WorkingSteps
    <3> QED
      BY <1>2, <3>1, <3>2, <3>3 DEF Moves, DeletionMoves, Handling
  <2> QED
    BY <2>3, <2>4
<1> QED
  BY <1>1, <1>2 DEF PlacesNamed, StagedIsTracked

\* The steps at which a request has to be safe, but for the tombstone's certificate.
LEMMA RequestSafeBy ==
  ASSUME Steady, NEW h \in Hosts, Moves(h),
         request'[h].step \notin {"tombstoned", "missing", "untrack", "erase", "rollback"}
  PROVE RequestSafe(h)'
<1>1. CASE request'[h].step \notin DeletionSteps
  BY <1>1 DEF RequestSafe, Handling
<1>2. CASE request'[h].step \in DeletionSteps /\ request'[h] /= request[h]
  <2> DEFINE o == request[h].operation
  <2>1. /\ request[h].step \in DeletionSteps \cup {"tombstoned"}
        /\ request'[h].operation = o /\ request'[h].certificate = request[h].certificate
    BY <1>2 DEF Moves, RequestMoves, IdleRequest, DeletionSteps
  <2>2. o \in Operations /\ ~Fresh(o) /\ deletion[o].certificate = request[h].certificate
    BY <2>1 DEF Steady, Bytes, HostsSafe, RequestSafe, Fresh, Carried
  <2>3. deletion'[o].certificate = request[h].certificate
    BY <2>2, TombstonesStay
  <2> QED
    BY <2>1, <2>2, <2>3 DEF RequestSafe, Handling
<1>3. CASE request'[h] = request[h]
  BY <1>3, RequestStays
<1> QED
  BY <1>1, <1>2, <1>3

\* A deletion that goes on keeps its tombstone's certificate.
LEMMA DeletionGoesOn ==
  ASSUME Steady, NEW h \in Hosts, Moves(h), NEW step \in DeletionSteps, Step(h, step),
         request[h].step \in DeletionSteps \cup {"tombstoned"}
  PROVE LET c == request[h].certificate
            o == request[h].operation
        IN /\ request'[h].step = step /\ request'[h].certificate = c
           /\ request'[h].operation = o
           /\ c \in Certificates /\ o \in Operations /\ deletion[o].certificate = c
           /\ deletion'[o].certificate = c
<1> DEFINE c == request[h].certificate
           o == request[h].operation
<1>1. c \in Certificates
  BY DEF Steady, Sound, Named, RequestsNamed, Handling, DeletionSteps
<1>2. o \in Operations /\ deletion[o].certificate = c /\ ~Fresh(o)
  BY DEF Steady, Bytes, HostsSafe, RequestSafe, Fresh, Carried
<1>3. deletion'[o].certificate = c
  BY <1>2, TombstonesStay
<1>4. request'[h].step = step /\ request'[h].certificate = c /\ request'[h].operation = o
  BY DEF Step, Steady, Sound, TypeOK, Request
<1> QED
  BY <1>1, <1>2, <1>3, <1>4

LEMMA DeletionRequestSafe ==
  ASSUME Steady, NEW h \in Hosts, Moves(h), DeletionStep(h)
  PROVE RequestSafe(h)'
<1> DEFINE c == request[h].certificate
           o == request[h].operation
<1> USE DEF Steady, Sound
<1>1. RequestSafe(h)
  BY DEF Bytes, HostsSafe
<1>2. ASSUME Respond(h)
      PROVE RequestSafe(h)'
  BY <1>2, RequestSafeBy, Constants DEF Respond, TypeOK
<1>3. ASSUME NEW step \in {"renamed", "restore", "deletionError"}, Step(h, step)
      PROVE RequestSafe(h)'
  <2>1. request'[h].step = step
    BY <1>3 DEF Step, TypeOK, Request
  <2> QED
    BY <2>1, RequestSafeBy
<1>4. ASSUME NEW d \in Certificates, NEW p \in Operations, NEW outcome \in Outcomes,
             BeginDeletion(h, d, p, outcome)
      PROVE RequestSafe(h)'
  <2>1. CASE request' = request
    BY <2>1, RequestStays
  <2>2. CASE request' /= request
    <3>1. /\ request'[h].step = "tombstoned" /\ request'[h].certificate = d
          /\ request'[h].operation = p
      BY <1>4, <2>2 DEF BeginDeletion, TypeOK, IdleRequest
    <3>2. deletion'[p] = [state |-> "deleting", certificate |-> d]
      BY <1>4 DEF BeginDeletion, TypeOK
    <3>3. place'[d] /= p
      BY <1>4 DEF BeginDeletion, diskVars, Fresh
    <3> QED
      BY <3>1, <3>2, <3>3 DEF RequestSafe, Handling
  <2> QED
    BY <2>1, <2>2
<1>5. CASE StageDeletion(h)
  <2>1. CASE Step(h, "missing")
    <3>1. Handling(h, "tombstoned") /\ place' = place
      <4>1. Step(h, "renamed") => request'[h].step = "renamed"
        BY DEF Step, TypeOK, Request
      <4>2. Step(h, "deletionError") => request'[h].step = "deletionError"
        BY DEF Step, TypeOK, Request
      <4>3. request'[h].step = "missing"
        BY <2>1 DEF Step, TypeOK, Request
      <4> QED
        BY <1>5, <4>1, <4>2, <4>3 DEF StageDeletion
    <3>2. place[c] /= o
      BY <1>1, <3>1 DEF RequestSafe, Handling
    <3>3. /\ request'[h].step = "missing" /\ request'[h].certificate = c
          /\ request'[h].operation = o
          /\ o \in Operations /\ deletion'[o].certificate = c
      BY <2>1, <3>1, DeletionGoesOn DEF Handling, DeletionSteps
    <3> QED
      BY <3>1, <3>2, <3>3 DEF RequestSafe, Handling
  <2> QED
    BY <1>3, <1>5, <2>1 DEF StageDeletion
<1>6. ASSUME NEW outcome \in Outcomes, RemoveRow(h, outcome)
      PROVE RequestSafe(h)'
  <2>1. request[h].step \in DeletionSteps /\ place' = place
    BY <1>6 DEF RemoveRow, Handling, DeletionSteps, diskVars
  <2>2. CASE outcome = "ok" /\ Handling(h, "renamed")
    <3>1. Step(h, "erase") /\ WriteRow(c, AbsentRow, outcome)
      BY <1>6, <2>2 DEF RemoveRow
    <3>2. /\ request'[h].step = "erase" /\ request'[h].certificate = c
          /\ request'[h].operation = o /\ c \in Certificates
          /\ o \in Operations /\ deletion'[o].certificate = c
      BY <2>1, <3>1, DeletionGoesOn DEF DeletionSteps
    <3>3. ~row'[c].present
      BY <2>2, <3>1, <3>2, Constants DEF WriteRow, Committed, TypeOK
    <3> QED
      BY <3>2, <3>3 DEF RequestSafe, Handling
  <2>3. CASE outcome = "ok" /\ Handling(h, "missing")
    <3>1. Step(h, "untrack")
      BY <1>6, <2>3 DEF RemoveRow, Handling
    <3>2. /\ request'[h].step = "untrack" /\ request'[h].certificate = c
          /\ request'[h].operation = o
          /\ o \in Operations /\ deletion'[o].certificate = c
      BY <2>1, <3>1, DeletionGoesOn DEF DeletionSteps
    <3>3. place'[c] /= o
      BY <1>1, <2>1, <2>3 DEF RequestSafe, Handling
    <3> QED
      BY <3>2, <3>3 DEF RequestSafe, Handling
  <2>4. CASE outcome /= "ok"
    BY <1>2, <1>3, <1>6, <2>4 DEF RemoveRow
  <2> QED
    BY <1>6, <2>2, <2>3, <2>4 DEF RemoveRow
<1>7. CASE DeletionRefused(h)
  BY <1>2, <1>3, <1>7 DEF DeletionRefused
<1>8. CASE RestoreBytes(h) \/ EraseBytes(h)
  <2>1. CASE Step(h, "untrack")
    <3>1. request[h].step \in DeletionSteps
      BY <1>8 DEF RestoreBytes, EraseBytes, Handling, DeletionSteps
    <3>2. /\ request'[h].step = "untrack" /\ request'[h].certificate = c
          /\ request'[h].operation = o /\ c \in Certificates
          /\ o \in Operations /\ deletion'[o].certificate = c
      BY <2>1, <3>1, DeletionGoesOn DEF DeletionSteps
    <3>3. ~Step(h, "deletionError")
      BY <3>2 DEF Step, TypeOK, Request
    <3>4. place'[c] /= o
      BY <1>8, <3>2, <3>3, TokenAssumption DEF RestoreBytes, EraseBytes, Erased, TypeOK
    <3> QED
      BY <3>2, <3>4 DEF RequestSafe, Handling
  <2> QED
    BY <1>3, <1>8, <2>1 DEF RestoreBytes, EraseBytes
<1>9. ASSUME NEW outcome \in Outcomes, FinishDeletion(h, outcome)
      PROVE RequestSafe(h)'
  BY <1>2, <1>9 DEF FinishDeletion
<1> QED
  BY <1>4, <1>5, <1>6, <1>7, <1>8, <1>9 DEF DeletionStep

LEMMA ImportRequestSafe ==
  ASSUME Steady, NEW h \in Hosts, Moves(h), ImportStep(h)
  PROVE RequestSafe(h)'
<1> USE DEF Steady, Sound
<1>1. ASSUME Respond(h)
      PROVE RequestSafe(h)'
  BY <1>1, RequestSafeBy, Constants DEF Respond, TypeOK
<1>2. ASSUME NEW c \in Certificates, NEW f \in Fingerprints, Import(h, c, f)
      PROVE RequestSafe(h)'
  <2>1. request'[h].step = "staged"
    BY <1>2 DEF Import, TypeOK, IdleRequest
  <2> QED
    BY <2>1, RequestSafeBy
<1>3. ASSUME NEW outcome \in Outcomes, CommitImport(h, outcome)
      PROVE RequestSafe(h)'
  <2> DEFINE c == request[h].certificate
  <2>1. CASE outcome \in {"write", "sync"}
    <3>1. /\ Handling(h, "staged") /\ Step(h, "rollback")
          /\ outcome = "write" => row' = row
          /\ outcome = "sync" => c \in excused'
      BY <1>3, <2>1 DEF CommitImport, WriteRow, Committed
    <3>2. request'[h].step = "rollback" /\ request'[h].certificate = c
      BY <3>1 DEF Step, TypeOK, Request
    <3>3. ~row[c].present
      BY <3>1 DEF Carriers, StagedAlone
    <3> QED
      BY <2>1, <3>1, <3>2, <3>3 DEF RequestSafe, Handling, DeletionSteps
  <2> QED
    BY <1>1, <1>3, <2>1 DEF CommitImport
<1> QED
  BY <1>1, <1>2, <1>3 DEF ImportStep, ImportRefused, RollbackImport

LEMMA TrustRequestSafe ==
  ASSUME Steady, NEW h \in Hosts, Moves(h), TrustStep(h)
  PROVE RequestSafe(h)'
<1> USE DEF Steady, Sound
<1>1. request'[h] = request[h] \/ request'[h].step \in TrustSteps \cup {"idle"}
  <2>1. CASE Respond(h)
    BY <2>1, Constants DEF Respond, TypeOK
  <2>2. ASSUME NEW c \in Certificates, NEW o \in Operations, NEW outcome \in Outcomes,
               BeginInstall(h, c, o, outcome) \/ BeginRemoval(h, c, o, outcome)
        PROVE request'[h] = request[h] \/ request'[h].step \in TrustSteps
    BY <2>2 DEF BeginInstall, BeginRemoval, BeginTrust, TypeOK, TrustSteps
  <2>3. CASE InstallTrust(h) \/ RemoveTrust(h) \/ VerifyTrust(h)
    BY <2>3 DEF InstallTrust, RemoveTrust, VerifyTrust, Step, TypeOK, Request, TrustSteps
  <2> QED
    BY <2>1, <2>2, <2>3 DEF TrustStep, RecordTrust, RecordRemoval,
       markCertificateTrustError, SettleTrust
<1> QED
  BY <1>1, RequestStays, RequestSafeBy DEF TrustSteps

\* Each step of a recovery leaves it where it has to be safe only in what it has just
\* seen or done.
LEMMA OwnRecoverySafe ==
  ASSUME Steady, NEW h \in Hosts, Moves(h), RecoveryStep(h)
  PROVE RecoverySafe(h)'
<1> USE DEF Steady, Sound
<1> DEFINE v == recovery[h]
           o == v.operation
           c == deletion[o].certificate
           w == recovery'[h]
<1>1. RecoverySafe(h) /\ v \in Recovery /\ w \in Recovery /\ excused \subseteq excused'
  <2>1. TypeOK'
    BY RecoverySound
  <2> QED
    BY <2>1 DEF Bytes, HostsSafe, TypeOK, Moves
<1>2. request' = request
  BY DEF RecoveryStep, LoadTombstones, ReadRow, ReadRowFails, SeeSource, SeeStaged,
     CompareDirectories, ReplaceSource, MoveBytes, SettleTombstone, ReconcileTrust,
     RecoveryFails, storeVars, diskVars
<1>3. ASSUME w.step \notin WorkingSteps
      PROVE RecoverySafe(h)'
  BY <1>3 DEF RecoverySafe
\* A step of a recovery with a tombstone in hand, which it keeps.
<1>4. ASSUME v.step \in WorkingSteps, w.operation = o, UNCHANGED <<row, deletion, excused>>,
             w.step \in {"source", "staged"} /\ w.rowSeen = FALSE =>
               v.step \in {"source", "staged"} /\ v.rowSeen = FALSE,
             w.step = "erase" => ~row[c].present,
             c \notin excused /\ ((w.step = "staged" /\ w.sourceSeen) \/ w.step = "untrack") =>
               place'[c] /= o,
             c \notin excused => w.step \notin {"compareSource", "compareStaged", "replace"}
      PROVE RecoverySafe(h)'
  BY <1>1, <1>2, <1>4 DEF RecoverySafe, Carried
<1>5. ASSUME NEW step, Proceed(h, step)
      PROVE w = [v EXCEPT !.step = step] /\ w.step = step /\ w.operation = o
              /\ w.rowSeen = v.rowSeen /\ w.sourceSeen = v.sourceSeen
  <2>1. w = [v EXCEPT !.step = step]
    BY <1>5 DEF Proceed, TypeOK
  <2> QED
    BY <1>1, <2>1 DEF Recovery
<1>6. CASE LoadTombstones(h)
  <2>1. w.step \in {"next", "done"}
    BY ZenonT(60), <1>5, <1>6 DEF LoadTombstones, TypeOK, PendingRecovery
  <2> QED
    BY <1>3, <2>1 DEF WorkingSteps
<1>7. CASE ReadRow(h)
  <2>1. UNCHANGED <<row, deletion, place>>
    BY <1>7 DEF ReadRow, storeVars, diskVars
  <2> PICK p \in v.todo :
        /\ excused' = IF Carried(p) THEN excused \cup {deletion[p].certificate} ELSE excused
        /\ w = [v EXCEPT !.step = "source", !.operation = p, !.todo = @ \ {p},
                         !.rowSeen = row[deletion[p].certificate].present]
    BY <1>7 DEF ReadRow, TypeOK
  <2> DEFINE d == deletion[p].certificate
  <2>2. d \in Certificates /\ p \in Operations
    BY <1>1 DEF Recovery, Named, TombstonesNamed
  <2>3. w.step = "source" /\ w.operation = p /\ w.rowSeen = row[d].present
    BY <1>1 DEF Recovery
  <2>4. Carried(p)' => d \in excused'
    BY <1>2 DEF Carried
  <2> QED
    BY <2>1, <2>2, <2>3, <2>4 DEF RecoverySafe
<1>8. CASE ReadRowFails(h)
  <2>1. w.step = "recordError"
    BY <1>1, <1>8 DEF ReadRowFails, TypeOK, Recovery
  <2> QED
    BY <1>3, <2>1 DEF WorkingSteps
<1>9. CASE SeeSource(h)
  <2>1. UNCHANGED <<row, deletion, place, excused>> /\ v.step = "source"
    BY <1>9 DEF SeeSource, storeVars, diskVars, Recovering
  <2>2. w = [v EXCEPT !.step = "staged", !.sourceSeen = (place[c] = "source")]
    BY <1>9 DEF SeeSource, TypeOK
  <2>3. /\ w.step = "staged" /\ w.operation = o /\ w.rowSeen = v.rowSeen
        /\ w.sourceSeen <=> place[c] = "source"
    BY <1>1, <2>2 DEF Recovery
  <2>4. v.step \in WorkingSteps /\ o \in Operations
    BY <1>1, <2>1 DEF WorkingSteps, RecoverySafe
  <2>5. w.sourceSeen => place'[c] /= o
    BY <2>1, <2>3, <2>4, TokenAssumption
  <2> QED
    BY <1>4, <2>1, <2>3, <2>4, <2>5
<1>10. CASE SeeStaged(h)
  <2> DEFINE staged == place[c] = o
             verdict == Verdict(v.rowSeen, v.sourceSeen, staged)
  <2>1. UNCHANGED <<row, deletion, place, excused>> /\ v.step = "staged"
    BY <1>10 DEF SeeStaged, storeVars, diskVars, Recovering
  <2>2. w = [v EXCEPT !.step = verdict, !.rowSeen = FALSE, !.sourceSeen = FALSE]
    BY <1>10 DEF SeeStaged, TypeOK
  <2>3. /\ verdict \in {"restore", "compareSource", "erase", "untrack", "deletionError"}
        /\ verdict = "compareSource" => staged /\ v.sourceSeen
        /\ verdict = "erase" => ~v.rowSeen
        /\ verdict = "untrack" => ~staged
    BY DEF Verdict
  <2>4. v.step \in WorkingSteps /\ v.rowSeen \in BOOLEAN
    BY <1>1, <2>1 DEF WorkingSteps, Recovery
  <2>5. w.step = verdict /\ w.operation = o
    BY <1>1, <2>2 DEF Recovery
  <2>6. verdict = "erase" => ~row[c].present
    BY <1>1, <2>1, <2>3, <2>4 DEF RecoverySafe
  <2>7. c \notin excused => verdict /= "compareSource"
    BY <1>1, <2>1, <2>3, <2>4 DEF RecoverySafe
  <2> HIDE DEF verdict
  <2> QED
    BY <1>4, <2>1, <2>3, <2>4, <2>5, <2>6, <2>7
<1>11. CASE CompareDirectories(h)
  <2>1. /\ UNCHANGED <<row, deletion, place, excused>>
        /\ v.step \in {"compareSource", "compareStaged"}
    BY <1>11 DEF CompareDirectories, storeVars, diskVars, Recovering
  <2>2. c \in excused /\ v.step \in WorkingSteps
    BY <1>1, <2>1 DEF RecoverySafe, WorkingSteps
  <2>3. PICK step \in {"untrack", "compareStaged", "replace", "deletionError"} :
          Proceed(h, step)
    BY <1>11 DEF CompareDirectories
  <2> QED
    BY <1>4, <1>5, <2>1, <2>2, <2>3
<1>12. CASE ReplaceSource(h)
  <2>1. UNCHANGED <<row, deletion, excused>> /\ v.step = "replace"
    BY <1>12 DEF ReplaceSource, storeVars, Recovering
  <2>2. c \in excused /\ v.step \in WorkingSteps
    BY <1>1, <2>1 DEF RecoverySafe, WorkingSteps
  <2>3. PICK step \in {"restore", "deletionError"} : Proceed(h, step)
    BY <1>12 DEF ReplaceSource
  <2> QED
    BY <1>4, <1>5, <2>1, <2>2, <2>3
<1>13. CASE MoveBytes(h)
  <2>1. UNCHANGED <<row, deletion, excused>> /\ v.step \in {"restore", "erase"}
    BY <1>13 DEF MoveBytes, storeVars, Recovering
  <2>2. v.step \in WorkingSteps /\ o \in Operations /\ c \in Certificates
    BY <1>1, <2>1 DEF RecoverySafe, WorkingSteps
  <2>3. \/ Proceed(h, "untrack") /\ place' \in {[place EXCEPT ![c] = "source"], Erased(c, o)}
        \/ Proceed(h, "deletionError")
    BY <1>13 DEF MoveBytes
  <2>4. Proceed(h, "untrack") /\ place' \in {[place EXCEPT ![c] = "source"], Erased(c, o)}
          => place'[c] /= o
    BY <2>2, TokenAssumption DEF Erased, TypeOK
  <2>5. CASE Proceed(h, "deletionError")
    <3>1. w.step = "deletionError" /\ w.operation = o
      BY <1>5, <2>5
    <3> QED
      BY <1>4, <2>1, <2>2, <3>1
  <2>6. CASE /\ Proceed(h, "untrack")
             /\ place' \in {[place EXCEPT ![c] = "source"], Erased(c, o)}
    <3>1. w.step = "untrack" /\ w.operation = o
      BY <1>5, <2>6
    <3> QED
      BY <1>4, <2>1, <2>2, <2>4, <2>6, <3>1
  <2> QED
    BY <2>3, <2>5, <2>6
<1>14. ASSUME NEW outcome \in Outcomes, SettleTombstone(h, outcome)
       PROVE RecoverySafe(h)'
  <2>1. PICK step \in {"next", "recordError"} : w.step = step
    BY <1>1, <1>14 DEF SettleTombstone, TypeOK, Recovery
  <2> QED
    BY <1>3, <2>1 DEF WorkingSteps
<1>15. ASSUME NEW outcome \in Outcomes, NEW unknown \in SUBSET Certificates,
              ReconcileTrust(h, outcome, unknown)
       PROVE RecoverySafe(h)'
  <2>1. w.step = "done"
    BY <1>5, <1>15 DEF ReconcileTrust
  <2> QED
    BY <1>3, <2>1 DEF WorkingSteps
<1>16. CASE RecoveryFails(h)
  <2>1. w.step = "done"
    BY <1>16 DEF RecoveryFails, TypeOK, OverRecovery, PendingRecovery
  <2> QED
    BY <1>3, <2>1 DEF WorkingSteps
<1> QED
  BY <1>6, <1>7, <1>8, <1>9, <1>10, <1>11, <1>12, <1>13, <1>14, <1>15, <1>16 DEF RecoveryStep

\* Only a recovery or a restart changes the recovery of its host.
LEMMA OthersLeaveRecovery ==
  ASSUME NEW h \in Hosts, ImportStep(h) \/ TrustStep(h) \/ DeletionStep(h)
  PROVE recovery' = recovery
<1>1. CASE ImportStep(h)
  BY <1>1 DEF ImportStep, Import, CommitImport, ImportRefused, RollbackImport
<1>2. CASE TrustStep(h)
  BY ZenonT(60), <1>2
     DEF TrustStep, BeginInstall, BeginRemoval, BeginTrust, InstallTrust, RemoveTrust,
     VerifyTrust, RecordTrust, RecordRemoval, markCertificateTrustError, SettleTrust
<1>3. CASE DeletionStep(h)
  BY <1>3 DEF DeletionStep, BeginDeletion, StageDeletion, RemoveRow, DeletionRefused,
     RestoreBytes, EraseBytes, FinishDeletion
<1> QED
  BY <1>1, <1>2, <1>3

LEMMA BytesStep ==
  ASSUME Steady, Next
  PROVE Carriers' /\ Bytes'
<1> PICK h \in Hosts : ImportStep(h) \/ TrustStep(h) \/ DeletionStep(h) \/ RecoveryStep(h)
                         \/ HostRestart(h)
  BY DEF Next
<1>1. Moves(h)
  BY ImportMoves, TrustMoves, DeletionStepMoves, RecoveryMoves, RestartMoves DEF Steady
<1>2. ASSUME NEW g \in Hosts \ {h}
      PROVE RequestSafe(g)' /\ RecoverySafe(g)'
  BY <1>1, RequestStays, RecoveryStays DEF Moves
<1>3. RequestSafe(h)' /\ RecoverySafe(h)'
  <2>1. CASE ImportStep(h)
    BY <1>1, <2>1, ImportRequestSafe, OthersLeaveRecovery, RecoveryStays
  <2>2. CASE TrustStep(h)
    BY <1>1, <2>2, TrustRequestSafe, OthersLeaveRecovery, RecoveryStays
  <2>3. CASE DeletionStep(h)
    BY <1>1, <2>3, DeletionRequestSafe, OthersLeaveRecovery, RecoveryStays
  <2>4. CASE RecoveryStep(h)
    <3>1. request' = request
      BY <2>4 DEF RecoveryStep, LoadTombstones, ReadRow, ReadRowFails, SeeSource, SeeStaged,
         CompareDirectories, ReplaceSource, MoveBytes, SettleTombstone, ReconcileTrust,
         RecoveryFails, storeVars, diskVars
    <3> QED
      BY <1>1, <2>4, <3>1, RequestStays, OwnRecoverySafe
  <2>5. CASE HostRestart(h)
    <3>1. request'[h].step = "idle" /\ recovery'[h].step = "pending"
      BY <2>5 DEF HostRestart, Respond, Steady, Sound, TypeOK, IdleRequest, PendingRecovery
    <3> QED
      BY <1>1, <3>1, RequestSafeBy DEF RecoverySafe, WorkingSteps
  <2> QED
    BY <2>1, <2>2, <2>3, <2>4, <2>5
<1>4. HostsSafe'
  BY <1>2, <1>3 DEF HostsSafe
<1> QED
  BY <1>1, <1>4, CarriersStep, PlacesNamedStep, BytesKeptStep, StagedIsTrackedStep
  DEF Steady, Bytes

LEMMA AlwaysSteady == Spec => []Steady
<1>1. Init => Steady
  BY InitSound, InitCarriers, InitBytes DEF Steady
<1>2. ASSUME Steady, [Next]_vars
      PROVE Steady'
  <2>1. Sound'
    BY <1>2, StepSound DEF Steady
  <2>2. CASE Next
    BY <1>2, <2>1, <2>2, BytesStep DEF Steady
  <2>3. CASE UNCHANGED vars
    <3>1. Carriers'
      BY <1>2, <2>3 DEF Steady, Carriers, OneCarrier, StagedAlone, Handling, vars, storeVars
    <3>2. PlacesNamed' /\ BytesKept' /\ StagedIsTracked'
      BY <1>2, <2>3 DEF Steady, Bytes, PlacesNamed, BytesKept, StagedIsTracked, vars,
         storeVars
    <3>3. HostsSafe'
      BY <1>2, <2>3 DEF Steady, Bytes, HostsSafe, RequestSafe, RecoverySafe, Handling,
         Carried, vars, storeVars
    <3> QED
      BY <2>1, <3>1, <3>2, <3>3 DEF Steady, Bytes
  <2> QED
    BY <1>2, <2>2, <2>3
<1> QED
  BY <1>1, <1>2, PTL DEF Spec

\* The bytes of a certificate that is not excused are there while its row is, at whatever
\* step hosts end and begin again: an import that fails removes them before there is a
\* row, a deletion erases them after its row is gone, and a recovery erases what it has
\* seen to have no row.  Excused is a certificate whose import or removal reported a
\* directory-sync error though it was committed (CommitImport then removes the bytes of
\* a row that is there, certstore.go:217), and one whose deletion a recovery worked on
\* while the deleting host was still at it.
THEOREM LibraryBytesKept == Spec => []BytesKept
<1>1. Steady => BytesKept
  BY DEF Steady, Bytes
<1> QED
  BY <1>1, AlwaysSteady, PTL

\* A directory that is staged for deletion has a tombstone that names it, until the host
\* that staged it or a recovery has moved or erased it, unless the certificate is excused
\* for one of the reasons given at LibraryBytesKept.
THEOREM StagedBytesTracked == Spec => []StagedIsTracked
<1>1. Steady => StagedIsTracked
  BY DEF Steady, Bytes
<1> QED
  BY <1>1, AlwaysSteady, PTL

-----------------------------------------------------------------------------
(* Trust *)

OpenStates == {"installing", "removing", "trust_error"}

\* A row has a token while it is in one of the states a recovery looks at.
PendingStates ==
  \A c \in Certificates : row[c].operation /= None <=> row[c].state \in OpenStates

\* A row, and a trust request, of fingerprint f.
Bears(c, f) == row[c].present /\ row[c].fingerprint = f
Works(h, f) == request[h].step \in TrustSteps /\ request[h].fingerprint = f

\* ScopeNest's own entry is recorded, or will be by who settles the operation.
Remembered(f) ==
  root[f] = "scopenest" =>
    \E c \in Certificates :
      Bears(c, f) /\ (row[c].installed = TRUE \/ row[c].operation /= None)

\* A row says what is in the store, or a recovery will make of it that the entry is
\* ScopeNest's own.
RowsAgree(f) ==
  \A c \in Certificates : Bears(c, f) =>
    /\ row[c].trusted = TRUE /\ row[c].operation = None => root[f] /= "absent"
    /\ row[c].operation /= None /\ root[f] = "scopenest" =>
         \/ row[c].installed = TRUE
         \/ row[c].wasTrusted = FALSE /\ row[c].state /= "removing"

\* A trust request has the token of its row, and knows what is in the store.
RequestsAgree(f) ==
  \A h \in Hosts : Works(h, f) =>
    LET r == row[request[h].certificate]
    IN /\ Holds(h)
       /\ Handling(h, "install") =>
            /\ r.state = "installing"
            /\ root[f] = "absent" => r.installed = TRUE \/ r.wasTrusted = FALSE
       /\ request[h].step \in {"install", "installed", "recordTrust"}
            /\ root[f] = "scopenest" => request[h].owned = TRUE
       /\ request[h].step \in {"removed", "recordRemoval"} => root[f] /= "scopenest"
       /\ Handling(h, "recordTrust") => root[f] /= "absent"

Accounted(f) == Remembered(f) /\ RowsAgree(f) /\ RequestsAgree(f)
Trust == PendingStates /\ \A f \in Fingerprints \ excused : Accounted(f)

LEMMA InitTrust == Init => Trust
<1> SUFFICES ASSUME Init PROVE Trust
  OBVIOUS
<1>1. PendingStates
  BY DEF Init, PendingStates, AbsentRow, OpenStates
<1>2. ASSUME NEW f \in Fingerprints
      PROVE Accounted(f)
  BY DEF Init, Accounted, Remembered, RowsAgree, RequestsAgree, Bears, Works, AbsentRow,
     IdleRequest, TrustSteps
<1> QED
  BY <1>1, <1>2 DEF Trust

\* A trust request is alone with its fingerprint: it holds the token of the one row that
\* bears it.
LEMMA WorksAlone ==
  ASSUME Steady, Trust, NEW f \in Fingerprints \ excused, NEW h \in Hosts, Works(h, f)
  PROVE LET c == request[h].certificate
        IN /\ c \in Certificates /\ Bears(c, f) /\ row[c].operation /= None
           /\ \A d \in Certificates : Bears(d, f) => d = c
           /\ \A g \in Hosts : Works(g, f) => g = h
<1> USE DEF Steady, Sound
<1>1. ASSUME NEW g \in Hosts, Works(g, f)
      PROVE LET c == request[g].certificate
            IN /\ c \in Certificates /\ Bears(c, f) /\ row[c].operation /= None
               /\ request[g].operation = row[c].operation
  <2>1. request[g].certificate \in Certificates /\ request[g].operation \in Operations
    BY <1>1 DEF Works, Named, RequestsNamed, Handling, TrustSteps
  <2>2. Holds(g)
    BY <1>1 DEF Trust, Accounted, RequestsAgree
  <2>3. row[request[g].certificate].fingerprint = f
    BY <1>1, <2>2 DEF Works, Disclaimed, TokensAgree
  <2> QED
    BY <2>1, <2>2, <2>3, NoneAssumption DEF Holds, Bears
<1>2. \A c, d \in Certificates : Bears(c, f) /\ Bears(d, f) => c = d
  BY DEF UniqueFingerprint, Bears
<1>3. ASSUME NEW g \in Hosts, Works(g, f)
      PROVE g = h
  <2>1. request[g].operation = request[h].operation /\ request[g].operation /= None
    BY <1>1, <1>2, <1>3
  <2> QED
    BY <2>1 DEF Carriers, OneCarrier
<1> QED
  BY <1>1, <1>2, <1>3

\* A fingerprint whose entry, rows and requests a step leaves alone: new rows claim
\* nothing, rows that go had nothing to remember, and no request begins.
LEMMA AccountedStays ==
  ASSUME Steady, Trust, NEW f \in Fingerprints \ excused, root'[f] = root[f],
         \A c \in Certificates :
           row'[c].present /\ row'[c].fingerprint = f =>
             row'[c] = row[c] \/ (row'[c].trusted = FALSE /\ row'[c].operation = None),
         \A c \in Certificates :
           Bears(c, f) /\ (row[c].installed = TRUE \/ row[c].operation /= None) =>
             row'[c] = row[c],
         \A g \in Hosts :
           \/ request'[g] = request[g] \/ request'[g].step \notin TrustSteps
           \/ request'[g].fingerprint /= f
  PROVE Accounted(f)'
<1>1. Accounted(f)
  BY DEF Trust
<1>2. Remembered(f)'
  BY <1>1 DEF Accounted, Remembered, Bears
<1>3. RowsAgree(f)'
  BY <1>1 DEF Accounted, RowsAgree, Bears
<1>4. RequestsAgree(f)'
  <2>1. SUFFICES ASSUME NEW g \in Hosts, Works(g, f)'
                 PROVE /\ request'[g] = request[g] /\ Works(g, f)
                       /\ row'[request[g].certificate] = row[request[g].certificate]
    BY <1>1 DEF Accounted, RequestsAgree, Holds, Handling
  <2>2. request'[g] = request[g] /\ Works(g, f)
    BY <2>1 DEF Works
  <2> QED
    BY <2>2, WorksAlone
<1> QED
  BY <1>2, <1>3, <1>4 DEF Accounted

\* A step that leaves the store alone, brings rows that claim nothing and takes rows that
\* have nothing to remember, and that begins no trust request.
LEMMA QuietTrust ==
  ASSUME Steady, Trust, root' = root, excused \subseteq excused',
         \A c \in Certificates :
           \/ row'[c] = row[c]
           \/ /\ row'[c].trusted = FALSE /\ row'[c].operation = None
              /\ row'[c].state = "untrusted"
              /\ ~row[c].present \/ (row[c].installed = FALSE /\ row[c].operation = None),
         \A g \in Hosts : request'[g] = request[g] \/ request'[g].step \notin TrustSteps
  PROVE Trust'
<1>1. PendingStates'
  BY DEF Trust, PendingStates, OpenStates
<1>2. ASSUME NEW f \in Fingerprints \ excused'
      PROVE Accounted(f)'
  BY AccountedStays DEF Bears
<1> QED
  BY <1>1, <1>2 DEF Trust

LEMMA ImportTrust ==
  ASSUME Steady, Trust, NEW h \in Hosts, ImportStep(h)
  PROVE Trust'
<1> USE DEF Steady, Sound
<1>1. ASSUME NEW c \in Certificates, NEW f \in Fingerprints, Import(h, c, f)
      PROVE Trust'
  <2>1. UNCHANGED <<row, root, excused>>
    BY <1>1 DEF Import, storeVars
  <2>2. \A g \in Hosts : request'[g] = request[g] \/ request'[g].step \notin TrustSteps
    BY <1>1 DEF Import, TypeOK, IdleRequest, TrustSteps
  <2> QED
    BY <2>1, <2>2, QuietTrust
<1>2. ASSUME NEW outcome \in Outcomes, CommitImport(h, outcome)
      PROVE Trust'
  <2> DEFINE c == request[h].certificate
             r == NewRow(request[h].fingerprint)
  <2>1. c \in Certificates /\ ~row[c].present
    BY <1>2 DEF CommitImport, Named, RequestsNamed, Handling, Carriers, StagedAlone
  <2>2. r.trusted = FALSE /\ r.operation = None /\ r.state = "untrusted"
    BY DEF NewRow, AbsentRow
  <2>3. root' = root /\ excused \subseteq excused' /\ WriteRow(c, r, outcome)
    BY <1>2 DEF CommitImport
  <2> HIDE DEF r
  <2>4. \A d \in Certificates :
          \/ row'[d] = row[d]
          \/ /\ row'[d].trusted = FALSE /\ row'[d].operation = None
             /\ row'[d].state = "untrusted" /\ ~row[d].present
    BY <2>1, <2>2, <2>3, RowWritten
  <2>5. \A g \in Hosts : request'[g] = request[g] \/ request'[g].step \notin TrustSteps
    BY <1>2, Constants DEF CommitImport, Step, Respond, TypeOK, Request, TrustSteps
  <2> QED
    BY <2>3, <2>4, <2>5, QuietTrust
<1>3. CASE ImportRefused(h) \/ RollbackImport(h)
  <2>1. UNCHANGED <<row, root, excused>> /\ Respond(h)
    BY <1>3 DEF ImportRefused, RollbackImport, storeVars, diskVars
  <2>2. \A g \in Hosts : request'[g] = request[g] \/ request'[g].step \notin TrustSteps
    BY <2>1, Constants DEF Respond, TypeOK, TrustSteps
  <2> QED
    BY <2>1, <2>2, QuietTrust
<1> QED
  BY <1>1, <1>2, <1>3 DEF ImportStep

LEMMA DeletionTrust ==
  ASSUME Steady, Trust, NEW h \in Hosts, DeletionStep(h)
  PROVE Trust'
<1> USE DEF Steady, Sound
<1>1. root' = root /\ excused \subseteq excused'
  BY DEF DeletionStep, BeginDeletion, StageDeletion, RemoveRow, DeletionRefused,
     RestoreBytes, EraseBytes, FinishDeletion, diskVars
<1>2. \A g \in Hosts : request'[g] = request[g] \/ request'[g].step \notin TrustSteps
  <2>1. CASE Respond(h)
    BY <2>1, Constants DEF Respond, TypeOK, TrustSteps
  <2>2. ASSUME NEW step \in DeletionSteps, Step(h, step)
        PROVE \A g \in Hosts : request'[g] = request[g] \/ request'[g].step \notin TrustSteps
    BY <2>2 DEF Step, TypeOK, Request, TrustSteps, DeletionSteps
  <2>3. ASSUME NEW d \in Certificates, NEW p \in Operations, NEW outcome \in Outcomes,
               BeginDeletion(h, d, p, outcome)
        PROVE \A g \in Hosts : request'[g] = request[g] \/ request'[g].step \notin TrustSteps
    BY <2>3 DEF BeginDeletion, TypeOK, IdleRequest, TrustSteps
  <2>4. {"renamed", "missing", "restore", "erase", "untrack", "deletionError"} \subseteq DeletionSteps
    BY DEF DeletionSteps
  <2>5. ASSUME NEW outcome \in Outcomes, RemoveRow(h, outcome)
        PROVE Respond(h) \/ \E step \in DeletionSteps : Step(h, step)
    <3>1. CASE outcome = "ok"
      BY <2>4, <2>5, <3>1 DEF RemoveRow
    <3>2. CASE outcome /= "ok" /\ Handling(h, "renamed")
      BY <2>4, <2>5, <3>2 DEF RemoveRow
    <3>3. CASE outcome /= "ok" /\ ~Handling(h, "renamed")
      BY <2>5, <3>3 DEF RemoveRow
    <3> QED
      BY <3>1, <3>2, <3>3
  <2>6. CASE StageDeletion(h) \/ DeletionRefused(h) \/ RestoreBytes(h) \/ EraseBytes(h)
    BY <2>1, <2>2, <2>4, <2>6 DEF StageDeletion, DeletionRefused, RestoreBytes, EraseBytes
  <2> QED
    BY <2>1, <2>2, <2>3, <2>5, <2>6 DEF DeletionStep, FinishDeletion
<1>3. \A c \in Certificates :
        \/ row'[c] = row[c]
        \/ /\ row'[c].trusted = FALSE /\ row'[c].operation = None
           /\ row'[c].state = "untrusted"
           /\ row[c].installed = FALSE /\ row[c].operation = None
  <2>1. ASSUME NEW outcome \in Outcomes, RemoveRow(h, outcome), NEW c \in Certificates
        PROVE \/ row'[c] = row[c]
              \/ row'[c] = AbsentRow /\ row[c].installed = FALSE /\ row[c].operation = None
    <3>1. /\ request[h].certificate \in Certificates
          /\ WriteRow(request[h].certificate, AbsentRow, outcome)
          /\ Deletable(request[h].certificate, request[h].operation)
      BY <2>1 DEF RemoveRow, Named, RequestsNamed, Handling
    <3> QED
      BY <2>1, <3>1, RowWritten DEF Deletable, TypeOK, Row
  <2>2. (\A outcome \in Outcomes : ~RemoveRow(h, outcome)) => row' = row
    BY DEF DeletionStep, BeginDeletion, StageDeletion, DeletionRefused, RestoreBytes,
       EraseBytes, FinishDeletion, storeVars
  <2>3. /\ AbsentRow.trusted = FALSE /\ AbsentRow.operation = None
        /\ AbsentRow.state = "untrusted"
    BY DEF AbsentRow
  <2>4. CASE \E outcome \in Outcomes : RemoveRow(h, outcome)
    BY <2>1, <2>3, <2>4
  <2> QED
    BY <2>2, <2>4
<1> QED
  BY <1>1, <1>2, <1>3, QuietTrust

\* The first transaction of a trust operation: the row that gets the token is as it was
\* but for its state and what it remembers.
LEMMA BeginTrustKept ==
  ASSUME Steady, Trust, NEW h \in Hosts, NEW c \in Certificates, NEW o \in Operations,
         NEW outcome \in Outcomes, NEW step \in {"install", "remove"}, NEW r \in Row,
         r.present, r.fingerprint = row[c].fingerprint, r.installed = row[c].installed,
         r.state \in {"installing", "removing"},
         step = "install" =>
           r.state = "installing" /\ r.wasTrusted = Verify(row[c].fingerprint),
         BeginTrust(h, c, o, outcome, step, r)
  PROVE Trust'
<1> USE DEF Steady, Sound
<1> DEFINE q == [r EXCEPT !.operation = o]
           w == [step |-> step, certificate |-> c, operation |-> o,
                 fingerprint |-> row[c].fingerprint, owned |-> row[c].installed]
<1>1. /\ row' = [row EXCEPT ![c] = q]
      /\ request' \in {request, [request EXCEPT ![h] = w]}
      /\ UNCHANGED <<root, excused>> /\ row[c].present /\ row[c].operation = None
  BY DEF BeginTrust, WriteRow, Committed, Outcomes, diskVars, trustOperationPending
<1>2. /\ q.present /\ q.fingerprint = row[c].fingerprint
      /\ q.operation = o /\ q.operation /= None /\ q.installed = row[c].installed
      /\ q.state = r.state /\ q.wasTrusted = r.wasTrusted
  BY NoneAssumption DEF Row
<1>3. /\ w.step = step /\ w.certificate = c /\ w.operation = o
      /\ w.fingerprint = row[c].fingerprint /\ w.owned = row[c].installed
  OBVIOUS
<1> HIDE DEF q, w
<1>4. /\ row'[c] = q /\ \A d \in Certificates \ {c} : row'[d] = row[d]
      /\ \A g \in Hosts : request'[g] = request[g] \/ (g = h /\ request'[g] = w)
  BY <1>1 DEF TypeOK
<1>5. PendingStates'
  BY <1>2, <1>4 DEF Trust, PendingStates, OpenStates
<1>6. ASSUME NEW f \in Fingerprints \ excused, f /= row[c].fingerprint
      PROVE Accounted(f)'
  <2>1. \A d \in Certificates : row'[d].fingerprint = f => row'[d] = row[d]
    BY <1>2, <1>4, <1>6
  <2>2. \A d \in Certificates : Bears(d, f) => row'[d] = row[d]
    BY <1>4, <1>6 DEF Bears
  <2>3. \A g \in Hosts : request'[g] = request[g] \/ request'[g].fingerprint /= f
    BY <1>3, <1>4, <1>6
  <2> QED
    BY <1>1, <1>6, <2>1, <2>2, <2>3, AccountedStays
<1>7. ASSUME NEW f \in Fingerprints \ excused, f = row[c].fingerprint
      PROVE Accounted(f)'
  <2>1. /\ Bears(c, f) /\ Accounted(f)
        /\ \A d \in Certificates : Bears(d, f) => d = c
    BY <1>1, <1>7 DEF Trust, Bears, UniqueFingerprint
  <2>2. root[f] = "scopenest" => row[c].installed = TRUE
    BY <1>1, <2>1 DEF Accounted, Remembered
  <2>3. \A g \in Hosts : ~Works(g, f)
    BY <1>1, <2>1, WorksAlone
  <2>4. \A d \in Certificates : Bears(d, f)' => d = c
    BY <1>4, <2>1 DEF Bears
  <2>5. Remembered(f)'
    BY <1>2, <1>4, <1>7 DEF Remembered, Bears
  <2>6. RowsAgree(f)'
    BY <1>1, <1>2, <1>4, <2>2, <2>4 DEF RowsAgree
  <2>7. RequestsAgree(f)'
    <3>1. SUFFICES ASSUME NEW g \in Hosts, Works(g, f)'
                   PROVE g = h /\ request'[h] = w
      <4>1. request'[h] = w => Holds(h)'
        BY <1>2, <1>3, <1>4 DEF Holds
      <4>2. root[f] = "absent" => ~Verify(row[c].fingerprint)
        BY <1>7 DEF Verify
      <4> QED
        BY <1>1, <1>2, <1>3, <1>4, <2>2, <3>1, <4>1, <4>2 DEF RequestsAgree, Handling
    <3> QED
      BY <1>4, <2>3, <3>1 DEF Works
  <2> QED
    BY <2>5, <2>6, <2>7 DEF Accounted
<1> QED
  BY <1>1, <1>5, <1>6, <1>7 DEF Trust

\* A call on the trust store, and the look at it: the entry of the request's fingerprint
\* may change.
LEMMA StoreCallKept ==
  ASSUME Steady, Trust, NEW h \in Hosts, request[h].step \in TrustSteps,
         UNCHANGED <<row, excused>>,
         \A f \in Fingerprints \ {request[h].fingerprint} : root'[f] = root[f],
         \A g \in Hosts \ {h} : request'[g] = request[g],
         request'[h].certificate = request[h].certificate,
         request'[h].operation = request[h].operation,
         request'[h].fingerprint = request[h].fingerprint,
         request'[h].step /= "install",
         LET f == request[h].fingerprint
             r == row[request[h].certificate]
         IN f \in Fingerprints /\ Accounted(f) /\ Works(h, f) =>
              /\ root'[f] = "scopenest" =>
                   \/ r.installed = TRUE
                   \/ r.wasTrusted = FALSE /\ r.state /= "removing"
              /\ request'[h].step \in {"installed", "recordTrust"} /\ root'[f] = "scopenest" =>
                   request'[h].owned = TRUE
              /\ request'[h].step \in {"removed", "recordRemoval"} => root'[f] /= "scopenest"
              /\ request'[h].step = "recordTrust" => root'[f] /= "absent"
  PROVE Trust'
<1> USE DEF Steady, Sound
<1>1. PendingStates'
  BY DEF Trust, PendingStates
<1>2. ASSUME NEW f \in Fingerprints \ excused, f /= request[h].fingerprint
      PROVE Accounted(f)'
  BY <1>2, AccountedStays
<1>3. ASSUME NEW f \in Fingerprints \ excused, f = request[h].fingerprint
      PROVE Accounted(f)'
  <2> DEFINE c == request[h].certificate
  <2>1. Works(h, f) /\ Accounted(f)
    BY <1>3 DEF Works, Trust
  <2>2. /\ c \in Certificates /\ Bears(c, f) /\ row[c].operation /= None
        /\ \A d \in Certificates : Bears(d, f) => d = c
        /\ \A g \in Hosts : Works(g, f) => g = h
    BY <2>1, WorksAlone
  <2>3. Remembered(f)'
    BY <2>2 DEF Remembered, Bears
  <2>4. RowsAgree(f)'
    BY <1>3, <2>1, <2>2 DEF RowsAgree, Bears
  <2>5. RequestsAgree(f)'
    <3>1. SUFFICES ASSUME NEW g \in Hosts, Works(g, f)'
                   PROVE g = h
      <4>1. Holds(h)'
        BY <2>1 DEF Accounted, RequestsAgree, Holds
      <4> QED
        BY <1>3, <2>1, <3>1, <4>1 DEF RequestsAgree, Handling
    <3> QED
      BY <2>2, <3>1 DEF Works
  <2> QED
    BY <2>3, <2>4, <2>5 DEF Accounted
<1> QED
  BY <1>1, <1>2, <1>3 DEF Trust

\* The second transaction: the row it may write has to account for the entry.
LEMMA SettleTrustKept ==
  ASSUME Steady, Trust, NEW h \in Hosts, NEW step \in TrustSteps, NEW r,
         NEW outcome \in Outcomes, SettleTrust(h, step, r, outcome),
         LET f == request[h].fingerprint
             c == request[h].certificate
         IN Holds(h) =>
              /\ r.fingerprint = row[c].fingerprint
              /\ r.operation /= None <=> r.state \in OpenStates
              /\ f \in Fingerprints \ excused /\ Accounted(f) /\ Bears(c, f) =>
                   /\ r.present
                   /\ root[f] = "scopenest" => r.installed = TRUE \/ r.operation /= None
                   /\ r.trusted = TRUE /\ r.operation = None => root[f] /= "absent"
                   /\ r.operation /= None /\ root[f] = "scopenest" =>
                        \/ r.installed = TRUE
                        \/ r.wasTrusted = FALSE /\ r.state /= "removing"
  PROVE Trust'
<1> USE DEF Steady, Sound
<1> DEFINE c == request[h].certificate
<1>1. /\ request[h].step \in TrustSteps /\ c \in Certificates
      /\ request' = [request EXCEPT ![h] = IdleRequest]
      /\ UNCHANGED <<root, excused>>
      /\ row' = row \/ (Holds(h) /\ row' = [row EXCEPT ![c] = r])
  <2>1. request[h].step \in TrustSteps
    BY DEF SettleTrust, Handling
  <2>2. c \in Certificates
    BY <2>1 DEF Named, RequestsNamed, Handling, TrustSteps
  <2>3. request' = [request EXCEPT ![h] = IdleRequest] /\ UNCHANGED <<root, excused>>
    BY DEF SettleTrust, Respond, diskVars
  <2>4. row' = row \/ (Holds(h) /\ row' = [row EXCEPT ![c] = r])
    BY DEF SettleTrust, WriteRow
  <2> QED
    BY <2>1, <2>2, <2>3, <2>4
<1>2. /\ \A g \in Hosts \ {h} : request'[g] = request[g]
      /\ request'[h].step \notin TrustSteps
  BY <1>1, Constants DEF TypeOK, TrustSteps
<1>3. CASE row' = row
  BY <1>1, <1>2, <1>3, QuietTrust
<1>4. CASE Holds(h) /\ row' = [row EXCEPT ![c] = r]
  <2>1. /\ row'[c] = r /\ \A d \in Certificates \ {c} : row'[d] = row[d]
    BY <1>1, <1>4 DEF TypeOK
  <2>2. PendingStates'
    BY <1>4, <2>1 DEF Trust, PendingStates
  <2>3. row[c].fingerprint = request[h].fingerprint
    BY <1>1, <1>4 DEF Disclaimed, TokensAgree
  <2>4. ASSUME NEW f \in Fingerprints \ excused, f /= row[c].fingerprint
        PROVE Accounted(f)'
    <3>1. \A d \in Certificates : row'[d].fingerprint = f => row'[d] = row[d]
      BY <1>4, <2>1, <2>4
    <3>2. \A d \in Certificates : Bears(d, f) => row'[d] = row[d]
      BY <2>1, <2>4 DEF Bears
    <3> QED
      BY <1>1, <1>2, <2>4, <3>1, <3>2, AccountedStays
  <2>5. ASSUME NEW f \in Fingerprints \ excused, f = row[c].fingerprint
        PROVE Accounted(f)'
    <3>1. Works(h, f) /\ Accounted(f)
      BY <1>1, <2>3, <2>5 DEF Works, Trust
    <3>2. /\ Bears(c, f)
          /\ \A d \in Certificates : Bears(d, f) => d = c
          /\ \A g \in Hosts : Works(g, f) => g = h
      BY <3>1, WorksAlone
    <3>3. /\ r.present /\ r.fingerprint = f
          /\ root[f] = "scopenest" => r.installed = TRUE \/ r.operation /= None
          /\ r.trusted = TRUE /\ r.operation = None => root[f] /= "absent"
          /\ r.operation /= None /\ root[f] = "scopenest" =>
               \/ r.installed = TRUE
               \/ r.wasTrusted = FALSE /\ r.state /= "removing"
      BY <1>4, <2>3, <2>5, <3>1, <3>2
    <3>4. \A d \in Certificates : Bears(d, f)' => d = c
      BY <2>1, <3>2 DEF Bears
    <3>5. \A g \in Hosts : ~Works(g, f)'
      BY <1>2, <3>2 DEF Works
    <3>6. Remembered(f)'
      BY <1>1, <2>1, <3>3 DEF Remembered, Bears
    <3>7. RowsAgree(f)'
      BY <1>1, <2>1, <3>3, <3>4 DEF RowsAgree
    <3>8. RequestsAgree(f)'
      BY <3>5 DEF RequestsAgree
    <3> QED
      BY <3>6, <3>7, <3>8 DEF Accounted
  <2> QED
    BY <1>1, <2>2, <2>4, <2>5 DEF Trust
<1> QED
  BY <1>1, <1>3, <1>4

LEMMA TrustStepTrust ==
  ASSUME Steady, Trust, NEW h \in Hosts, TrustStep(h)
  PROVE Trust'
<1> USE DEF Steady, Sound
<1> DEFINE f == request[h].fingerprint
           c == request[h].certificate
           q == row[c]
<1>1. ASSUME NEW d \in Certificates, NEW o \in Operations, NEW outcome \in Outcomes,
             BeginInstall(h, d, o, outcome)
      PROVE Trust'
  <2> DEFINE r == [row[d] EXCEPT !.state = "installing",
                                 !.wasTrusted = Verify(row[d].fingerprint)]
  <2>1. BeginTrust(h, d, o, outcome, "install", r)
    BY <1>1 DEF BeginInstall
  <2>2. row[d].present /\ row[d] \in Row /\ Verify(row[d].fingerprint) \in BOOLEAN
    BY <2>1 DEF BeginTrust, TypeOK, Verify
  <2>3. /\ r \in Row /\ r.present /\ r.fingerprint = row[d].fingerprint
        /\ r.state = "installing" /\ r.installed = row[d].installed
        /\ r.wasTrusted = Verify(row[d].fingerprint)
    BY <2>2 DEF Row
  <2> HIDE DEF r
  <2> QED
    BY <2>1, <2>3, BeginTrustKept
<1>2. ASSUME NEW d \in Certificates, NEW o \in Operations, NEW outcome \in Outcomes,
             BeginRemoval(h, d, o, outcome)
      PROVE Trust'
  <2> DEFINE r == [row[d] EXCEPT !.state = "removing", !.wasTrusted = TRUE]
  <2>1. BeginTrust(h, d, o, outcome, "remove", r)
    BY <1>2 DEF BeginRemoval
  <2>2. row[d].present /\ row[d] \in Row
    BY <2>1 DEF BeginTrust, TypeOK
  <2>3. /\ r \in Row /\ r.present /\ r.fingerprint = row[d].fingerprint
        /\ r.state = "removing" /\ r.installed = row[d].installed
    BY <2>2 DEF Row
  <2> HIDE DEF r
  <2> QED
    BY <2>1, <2>3, BeginTrustKept
\* What a trust request knows.
<1>3. ASSUME request[h].step \in TrustSteps
      PROVE /\ f \in Fingerprints /\ c \in Certificates /\ q \in Row
            /\ request[h] \in Request /\ request[h].operation /= None
            /\ root[f] \in {"absent", "scopenest", "other"}
  BY <1>3, NoneAssumption DEF TypeOK, Named, RequestsNamed, Handling, TrustSteps
<1>4. CASE InstallTrust(h)
  <2>1. Handling(h, "install") /\ request[h].step \in TrustSteps
    BY <1>4 DEF InstallTrust, Handling, TrustSteps
  <2>2. UNCHANGED <<row, excused>>
    BY <1>4 DEF InstallTrust, storeVars
  <2>3. /\ \A e \in Fingerprints \ {f} : root'[e] = root[e]
        /\ root'[f] = root[f] \/ (root[f] = "absent" /\ root'[f] = "scopenest")
    BY <1>3, <1>4, <2>1 DEF InstallTrust, TypeOK
  <2>4. \/ request' = [request EXCEPT ![h].step = "installed",
                                    ![h].owned = @ \/ ~Verify(f)]
        \/ request' = [request EXCEPT ![h].step = "trustError"]
    BY <1>4 DEF InstallTrust, Step
  <2>5. /\ \A g \in Hosts \ {h} : request'[g] = request[g]
        /\ request'[h].certificate = c /\ request'[h].operation = request[h].operation
        /\ request'[h].fingerprint = f
        /\ request'[h].step \in {"installed", "trustError"}
        /\ request'[h].step = "installed" =>
             request'[h].owned = (request[h].owned \/ ~Verify(f))
    BY <2>4 DEF TypeOK, Request
  <2>6. ASSUME Accounted(f), Works(h, f)
        PROVE /\ root'[f] = "scopenest" =>
                   \/ q.installed = TRUE
                   \/ q.wasTrusted = FALSE /\ q.state /= "removing"
              /\ root'[f] = "scopenest" => root[f] = "absent" \/ request[h].owned = TRUE
    <3>1. /\ q.state = "installing"
          /\ root[f] = "absent" => q.installed = TRUE \/ q.wasTrusted = FALSE
          /\ root[f] = "scopenest" => request[h].owned = TRUE
          /\ Holds(h)
      BY <2>1, <2>6 DEF Accounted, RequestsAgree, Handling
    <3>2. Bears(c, f) /\ q.operation /= None
      BY <1>3, <2>1, <2>6, <3>1 DEF Bears, Holds, Disclaimed, TokensAgree
    <3>3. root[f] = "scopenest" => q.installed = TRUE \/ q.wasTrusted = FALSE
      BY <1>3, <2>1, <2>6, <3>2 DEF Accounted, RowsAgree
    <3> QED
      BY <2>3, <3>1, <3>3
  <2>7. root[f] = "absent" => ~Verify(f)
    BY DEF Verify
  <2>8. ASSUME Accounted(f), Works(h, f), request'[h].step = "installed", root'[f] = "scopenest"
        PROVE request'[h].owned = TRUE
    BY <1>3, <2>1, <2>5, <2>6, <2>7, <2>8 DEF Request
  <2> QED
    BY <2>1, <2>2, <2>3, <2>5, <2>6, <2>8, StoreCallKept
<1>5. CASE RemoveTrust(h)
  <2>1. Handling(h, "remove") /\ request[h].step \in TrustSteps
    BY <1>5 DEF RemoveTrust, Handling, TrustSteps
  <2>2. UNCHANGED <<row, excused>>
    BY <1>5 DEF RemoveTrust, storeVars
  <2>3. /\ \A e \in Fingerprints \ {f} : root'[e] = root[e]
        /\ root'[f] \in {root[f], "absent"}
    BY <1>3, <1>5, <2>1 DEF RemoveTrust, TypeOK
  <2>4. \/ Step(h, "removed") /\ root'[f] = "absent"
        \/ Step(h, "trustError")
    BY <1>3, <1>5, <2>1 DEF RemoveTrust, TypeOK
  <2>5. /\ \A g \in Hosts \ {h} : request'[g] = request[g]
        /\ request'[h].certificate = c /\ request'[h].operation = request[h].operation
        /\ request'[h].fingerprint = f
        /\ request'[h].step = "trustError" \/ (request'[h].step = "removed" /\ root'[f] = "absent")
    BY <2>4 DEF Step, TypeOK, Request
  <2>6. ASSUME Accounted(f), Works(h, f), root[f] = "scopenest"
        PROVE q.installed = TRUE \/ (q.wasTrusted = FALSE /\ q.state /= "removing")
    <3>1. Holds(h)
      BY <2>6 DEF Accounted, RequestsAgree
    <3>2. Bears(c, f) /\ q.operation /= None
      BY <1>3, <2>1, <3>1 DEF Bears, Holds, Disclaimed, TokensAgree
    <3> QED
      BY <1>3, <2>1, <2>6, <3>2 DEF Accounted, RowsAgree
  <2> QED
    BY <2>1, <2>2, <2>3, <2>5, <2>6, StoreCallKept
<1>6. CASE VerifyTrust(h)
  <2>1. /\ Handling(h, "installed") \/ Handling(h, "removed")
        /\ request[h].step \in TrustSteps
    BY <1>6 DEF VerifyTrust, Handling, TrustSteps
  <2>2. UNCHANGED <<row, root, excused>>
    BY <1>6 DEF VerifyTrust, storeVars, diskVars
  <2>3. \/ Handling(h, "installed") /\ Verify(f) /\ Step(h, "recordTrust")
        \/ Handling(h, "removed") /\ Step(h, "recordRemoval")
        \/ Step(h, "trustError")
    BY <1>6 DEF VerifyTrust
  <2>4. /\ \A g \in Hosts \ {h} : request'[g] = request[g]
        /\ request'[h].certificate = c /\ request'[h].operation = request[h].operation
        /\ request'[h].fingerprint = f /\ request'[h].owned = request[h].owned
        /\ \/ Handling(h, "installed") /\ Verify(f) /\ request'[h].step = "recordTrust"
           \/ Handling(h, "removed") /\ request'[h].step = "recordRemoval"
           \/ request'[h].step = "trustError"
    BY <2>3 DEF Step, TypeOK, Request
  <2>5. ASSUME Accounted(f), Works(h, f)
        PROVE /\ root[f] = "scopenest" =>
                   q.installed = TRUE \/ (q.wasTrusted = FALSE /\ q.state /= "removing")
              /\ Handling(h, "installed") /\ root[f] = "scopenest" => request[h].owned = TRUE
              /\ Handling(h, "removed") => root[f] /= "scopenest"
    <3>1. /\ Holds(h)
          /\ Handling(h, "installed") /\ root[f] = "scopenest" => request[h].owned = TRUE
          /\ Handling(h, "removed") => root[f] /= "scopenest"
      BY <2>5 DEF Accounted, RequestsAgree, Handling
    <3>2. Bears(c, f) /\ q.operation /= None
      BY <1>3, <2>1, <3>1 DEF Bears, Holds, Disclaimed, TokensAgree
    <3> QED
      BY <1>3, <2>1, <2>5, <3>1, <3>2 DEF Accounted, RowsAgree
  <2>6. Verify(f) => root[f] /= "absent"
    BY DEF Verify
  <2> QED
    BY <2>1, <2>2, <2>4, <2>5, <2>6, StoreCallKept
<1>7. ASSUME NEW outcome \in Outcomes,
             RecordTrust(h, outcome) \/ RecordRemoval(h, outcome)
               \/ markCertificateTrustError(h, outcome)
      PROVE Trust'
  <2> DEFINE recorded == [Settled(q, "trusted") EXCEPT !.installed = request[h].owned]
             removed == [Settled(q, "untrusted") EXCEPT !.installed = FALSE]
             failed == [q EXCEPT !.state = "trust_error"]
  <2>1. request[h].step \in TrustSteps
    BY <1>7 DEF RecordTrust, RecordRemoval, markCertificateTrustError, SettleTrust,
                Handling, TrustSteps
  <2>2. Accounted(f) => RequestsAgree(f) /\ RowsAgree(f)
    BY DEF Accounted
  <2>3. Holds(h) => q.present /\ q.operation /= None
    BY <1>3, <2>1 DEF Holds
  <2>4. CASE RecordTrust(h, outcome)
    <3>1. SettleTrust(h, "recordTrust", recorded, outcome) /\ Handling(h, "recordTrust")
      BY <2>4 DEF RecordTrust, SettleTrust
    <3>2. /\ recorded.fingerprint = q.fingerprint /\ recorded.present = q.present
          /\ recorded.operation = None /\ recorded.state = "trusted"
          /\ recorded.installed = request[h].owned
      BY <1>3, <2>1, SettledRow, InstalledRow DEF Request
    <3> HIDE DEF recorded
    <3>3. Accounted(f) => /\ root[f] = "scopenest" => request[h].owned = TRUE
                          /\ root[f] /= "absent"
      BY <2>1, <2>2, <3>1 DEF RequestsAgree, Works, Handling
    <3> QED
      BY <2>3, <3>1, <3>2, <3>3, SettleTrustKept DEF TrustSteps, OpenStates
  <2>5. CASE RecordRemoval(h, outcome)
    <3>1. SettleTrust(h, "recordRemoval", removed, outcome) /\ Handling(h, "recordRemoval")
      BY <2>5 DEF RecordRemoval, SettleTrust
    <3>2. /\ removed.fingerprint = q.fingerprint /\ removed.present = q.present
          /\ removed.operation = None /\ removed.state = "untrusted"
          /\ removed.trusted = FALSE
      BY <1>3, <2>1 DEF Settled, Row
    <3> HIDE DEF removed
    <3>3. Accounted(f) => root[f] /= "scopenest"
      BY <2>1, <2>2, <3>1 DEF RequestsAgree, Works, Handling
    <3> QED
      BY <2>3, <3>1, <3>2, <3>3, SettleTrustKept DEF TrustSteps, OpenStates
  <2>6. CASE markCertificateTrustError(h, outcome)
    <3>1. SettleTrust(h, "trustError", failed, outcome)
      BY <2>6 DEF markCertificateTrustError
    <3>2. /\ failed.fingerprint = q.fingerprint /\ failed.present = q.present
          /\ failed.operation = q.operation /\ failed.state = "trust_error"
          /\ failed.installed = q.installed /\ failed.wasTrusted = q.wasTrusted
      BY <1>3, <2>1 DEF Row
    <3> HIDE DEF failed
    <3>3. Accounted(f) /\ Bears(c, f) /\ q.operation /= None /\ root[f] = "scopenest" =>
            q.installed = TRUE \/ q.wasTrusted = FALSE
      BY <1>3, <2>1, <2>2 DEF RowsAgree
    <3> QED
      BY <2>3, <3>1, <3>2, <3>3, SettleTrustKept DEF TrustSteps, OpenStates
  <2> QED
    BY <1>7, <2>4, <2>5, <2>6
<1> QED
  BY <1>1, <1>2, <1>4, <1>5, <1>6, <1>7 DEF TrustStep

\* A row whose entry could be looked up calls itself trusted when the entry is there,
\* and the entry ScopeNest's own when the row says so already or remembers none.
LEMMA ReconciledTrust ==
  ASSUME NEW q \in Row
  PROVE /\ reconciled(q).state \notin OpenStates
        /\ reconciled(q).trusted = TRUE => Verify(q.fingerprint)
        /\ /\ Verify(q.fingerprint)
           /\ q.installed = TRUE \/ (q.wasTrusted = FALSE /\ q.state /= "removing")
           => reconciled(q).installed = TRUE
<1>1. \A u \in Row : \A b \in BOOLEAN :
        LET r == [u EXCEPT !.installed = b]
        IN r.state = u.state /\ r.trusted = u.trusted /\ r.installed = b
  BY DEF Row
<1>2. ASSUME NEW state \in {"untrusted", "trusted"}
      PROVE LET u == Settled(q, state)
            IN /\ u \in Row /\ u.state = state /\ u.trusted = (state = "trusted")
               /\ u.installed = q.installed
  BY DEF Settled, Row, OperationOrNone
<1>3. CASE ~Verify(q.fingerprint)
  <2> DEFINE u == Settled(q, "untrusted")
  <2>1. u \in Row /\ u.state = "untrusted" /\ u.trusted = FALSE
    BY <1>2
  <2>2. reconciled(q) = [u EXCEPT !.installed = FALSE]
    BY <1>3 DEF reconciled
  <2> HIDE DEF u
  <2> QED
    BY <1>1, <1>3, <2>1, <2>2 DEF OpenStates
<1>4. CASE Verify(q.fingerprint) /\ q.state = "removing"
  <2>1. reconciled(q) = Settled(q, "trusted")
    BY <1>4 DEF reconciled
  <2> QED
    BY <1>2, <1>4, <2>1 DEF OpenStates
<1>5. CASE Verify(q.fingerprint) /\ q.state /= "removing"
  <2> DEFINE u == Settled(q, "trusted")
  <2>1. u \in Row /\ u.state = "trusted" /\ u.installed = q.installed
    BY <1>2
  <2>2. reconciled(q) = [u EXCEPT !.installed = u.installed \/ ~q.wasTrusted]
    BY <1>5 DEF reconciled
  <2> DEFINE b == q.installed \/ ~q.wasTrusted
  <2>3. b \in BOOLEAN /\ reconciled(q) = [u EXCEPT !.installed = b]
    BY <2>1, <2>2 DEF Row
  <2> HIDE DEF u, b
  <2>4. reconciled(q).state = "trusted" /\ reconciled(q).installed = b
    BY <1>1, <2>1, <2>3
  <2> QED
    BY <1>5, <2>4 DEF OpenStates, b
<1> QED
  BY <1>3, <1>4, <1>5

LEMMA ReconcileKept ==
  ASSUME Steady, Trust, NEW h \in Hosts, NEW outcome \in Outcomes,
         NEW unknown \in SUBSET Certificates, ReconcileTrust(h, outcome, unknown)
  PROVE Trust'
<1> USE DEF Steady, Sound
<1> DEFINE open == {c \in Certificates : row[c].present
                      /\ row[c].state \in {"installing", "removing", "trust_error"}}
           unreadable(c) == [row[c] EXCEPT !.trusted = FALSE, !.state = "trust_error"]
           notLookedUp(c) == [row[c] EXCEPT !.state = "trust_error"]
           carried == {d \in open : Committed(outcome) /\ Carried(row[d].operation)}
           touched == {row[c].fingerprint : c \in carried}
<1>1. /\ UNCHANGED <<root, request>>
      /\ excused' = excused \cup touched
  BY DEF ReconcileTrust, diskVars
<1>2. \A c \in Certificates :
        \/ row'[c] = row[c] /\ (c \notin open \/ ~Committed(outcome))
        \/ /\ c \in open /\ Committed(outcome)
           /\ row'[c] \in {unreadable(c), notLookedUp(c), reconciled(row[c])}
  BY DEF ReconcileTrust
\* A row that was open: it keeps its token as an error, or is settled by what is in the
\* store.
<1>3. ASSUME NEW c \in open,
             row'[c] \in {unreadable(c), notLookedUp(c), reconciled(row[c])}
      PROVE /\ row'[c].present = row[c].present /\ row'[c].fingerprint = row[c].fingerprint
            /\ row'[c].operation /= None <=> row'[c].state \in OpenStates
            /\ \/ /\ row'[c].operation = row[c].operation /\ row'[c].state = "trust_error"
                  /\ row'[c].installed = row[c].installed
                  /\ row'[c].wasTrusted = row[c].wasTrusted
               \/ row'[c] = reconciled(row[c]) /\ row'[c].operation = None
  <2>1. c \in Certificates /\ row[c] \in Row /\ row[c].operation /= None
    BY DEF TypeOK, Trust, PendingStates, OpenStates
  <2>2. CASE row'[c] \in {unreadable(c), notLookedUp(c)}
    BY <2>1, <2>2 DEF Row, OpenStates
  <2>3. CASE row'[c] = reconciled(row[c])
    <3>1. /\ row'[c].present = row[c].present /\ row'[c].fingerprint = row[c].fingerprint
          /\ row'[c].operation = None
      BY <2>1, <2>3, ReconciledRow
    <3>2. row'[c].state \notin OpenStates
      BY <2>1, <2>3, ReconciledTrust
    <3> QED
      BY <2>3, <3>1, <3>2
  <2> QED
    BY <1>3, <2>2, <2>3
<1> HIDE DEF unreadable, notLookedUp
<1>4. PendingStates'
  BY <1>2, <1>3 DEF Trust, PendingStates
<1>5. ASSUME NEW f \in Fingerprints \ excused'
      PROVE Accounted(f)'
  <2>1. f \in Fingerprints \ excused /\ f \notin touched
    BY <1>1
  <2>2. Accounted(f)
    BY <2>1 DEF Trust
  <2>3. CASE ~Committed(outcome)
    <3>1. \A c \in Certificates : row'[c] = row[c]
      BY <1>2, <2>3
    <3> QED
      BY <1>1, <2>1, <3>1, AccountedStays
  <2>4. CASE Committed(outcome)
    <3>1. \A c \in open : Bears(c, f) => c \notin carried
      BY <2>1 DEF Bears
    <3> HIDE DEF touched
    <3>2. ASSUME NEW g \in Hosts
          PROVE ~Works(g, f)
      <4>1. SUFFICES ASSUME Works(g, f)
                     PROVE FALSE
        OBVIOUS
      <4> DEFINE d == request[g].certificate
      <4>2. d \in Certificates /\ Bears(d, f) /\ row[d].operation /= None
        BY <2>1, <4>1, WorksAlone
      <4>3. row[d].operation = request[g].operation
        BY <2>2, <4>1 DEF Accounted, RequestsAgree, Holds
      <4>4. d \in open /\ Carried(row[d].operation)
        BY <4>2, <4>3 DEF Trust, PendingStates, OpenStates, Bears, Carried
      <4> QED
        BY <2>4, <3>1, <4>2, <4>4
    <3>3. RequestsAgree(f)'
      BY <1>1, <3>2 DEF RequestsAgree, Works
    <3>4. \A c \in Certificates : Bears(c, f)' <=> Bears(c, f)
      BY <1>2, <1>3 DEF Bears
    <3>5. ASSUME NEW c \in Certificates, Bears(c, f)
          PROVE /\ root[f] = "scopenest"
                     /\ (row[c].installed = TRUE \/ row[c].operation /= None) =>
                     row'[c].installed = TRUE \/ row'[c].operation /= None
                /\ row'[c].trusted = TRUE /\ row'[c].operation = None => root[f] /= "absent"
                /\ row'[c].operation /= None /\ root[f] = "scopenest" =>
                     \/ row'[c].installed = TRUE
                     \/ row'[c].wasTrusted = FALSE /\ row'[c].state /= "removing"
      <4>1. /\ row[c].trusted = TRUE /\ row[c].operation = None => root[f] /= "absent"
            /\ row[c].operation /= None /\ root[f] = "scopenest" =>
                 \/ row[c].installed = TRUE
                 \/ row[c].wasTrusted = FALSE /\ row[c].state /= "removing"
        BY <2>2, <3>5 DEF Accounted, RowsAgree
      <4>2. CASE row'[c] = row[c]
        BY <4>1, <4>2
      <4>3. CASE c \in open /\ row'[c] \in {unreadable(c), notLookedUp(c), reconciled(row[c])}
        <5>1. row[c].operation /= None /\ row[c] \in Row /\ row[c].fingerprint = f
          BY <3>5, <4>3 DEF Trust, PendingStates, OpenStates, TypeOK, Bears
        <5>2. CASE /\ row'[c].operation = row[c].operation /\ row'[c].state = "trust_error"
                   /\ row'[c].installed = row[c].installed
                   /\ row'[c].wasTrusted = row[c].wasTrusted
          BY <4>1, <5>1, <5>2
        <5>3. CASE row'[c] = reconciled(row[c]) /\ row'[c].operation = None
          <6>1. row'[c].trusted = TRUE => root[f] /= "absent"
            BY <5>1, <5>3, ReconciledTrust DEF Verify
          <6>2. root[f] = "scopenest" => row'[c].installed = TRUE
            <7>1. SUFFICES ASSUME root[f] = "scopenest"
                           PROVE row'[c].installed = TRUE
              OBVIOUS
            <7>2. Verify(f)
              BY <7>1 DEF Verify
            <7>3. row[c].installed = TRUE \/ (row[c].wasTrusted = FALSE /\ row[c].state /= "removing")
              BY <4>1, <5>1, <7>1
            <7> QED
              BY <5>1, <5>3, <7>2, <7>3, ReconciledTrust
          <6> QED
            BY <5>3, <6>1, <6>2
        <5> QED
          BY <1>3, <4>3, <5>2, <5>3
      <4> QED
        BY <1>2, <4>2, <4>3
    <3>6. Remembered(f)'
      <4>1. SUFFICES ASSUME root[f] = "scopenest"
                     PROVE \E c \in Certificates :
                             Bears(c, f)' /\ (row'[c].installed = TRUE \/ row'[c].operation /= None)
        BY <1>1 DEF Remembered
      <4>2. PICK c \in Certificates :
              Bears(c, f) /\ (row[c].installed = TRUE \/ row[c].operation /= None)
        BY <2>2, <4>1 DEF Accounted, Remembered
      <4> QED
        BY <3>4, <3>5, <4>1, <4>2
    <3>7. RowsAgree(f)'
      BY <1>1, <3>4, <3>5 DEF RowsAgree
    <3> QED
      BY <3>3, <3>6, <3>7 DEF Accounted
  <2> QED
    BY <2>3, <2>4
<1> QED
  BY <1>4, <1>5 DEF Trust

LEMMA RecoveryTrust ==
  ASSUME Steady, Trust, NEW h \in Hosts, RecoveryStep(h) \/ HostRestart(h)
  PROVE Trust'
<1> USE DEF Steady, Sound
<1>1. ASSUME NEW outcome \in Outcomes, NEW unknown \in SUBSET Certificates,
             ReconcileTrust(h, outcome, unknown)
      PROVE Trust'
  BY <1>1, ReconcileKept
<1>2. CASE LoadTombstones(h) \/ ReadRow(h) \/ ReadRowFails(h) \/ SeeSource(h)
             \/ SeeStaged(h) \/ CompareDirectories(h) \/ ReplaceSource(h) \/ MoveBytes(h)
             \/ (\E outcome \in Outcomes : SettleTombstone(h, outcome)) \/ RecoveryFails(h)
  <2>1. UNCHANGED <<row, root, request>> /\ excused \subseteq excused'
    BY <1>2 DEF LoadTombstones, ReadRow, ReadRowFails, SeeSource, SeeStaged,
       CompareDirectories, ReplaceSource, MoveBytes, SettleTombstone, RecoveryFails,
       storeVars, diskVars
  <2> QED
    BY <2>1, QuietTrust
<1>3. CASE HostRestart(h)
  <2>1. UNCHANGED <<row, root, excused>> /\ Respond(h)
    BY <1>3 DEF HostRestart, storeVars, diskVars
  <2>2. \A g \in Hosts : request'[g] = request[g] \/ request'[g].step \notin TrustSteps
    BY <2>1, Constants DEF Respond, TypeOK, TrustSteps
  <2> QED
    BY <2>1, <2>2, QuietTrust
<1> QED
  BY <1>1, <1>2, <1>3 DEF RecoveryStep

LEMMA AlwaysTrust == Spec => [](Sound /\ Trust)
<1>1. ASSUME Steady, Trust, [Next]_vars
      PROVE Trust'
  <2>1. CASE Next
    BY <1>1, <2>1, ImportTrust, TrustStepTrust, DeletionTrust, RecoveryTrust DEF Next
  <2>2. CASE UNCHANGED vars
    <3>1. UNCHANGED <<row, root, request, excused>>
      BY <2>2 DEF vars, storeVars, diskVars
    <3> QED
      BY <1>1, <3>1, QuietTrust
  <2> QED
    BY <1>1, <2>1, <2>2
<1>2. Steady => Sound
  BY DEF Steady
<1> QED
  BY <1>1, <1>2, InitTrust, AlwaysSteady, PTL DEF Spec

\* An entry ScopeNest put into the trust store is recorded, wherever a host is lost
\* between the store and the row: the row says so, or still has the operation from which a
\* recovery makes out whose the entry is.  Excused are the fingerprints whose operation a
\* recovery settled while its host was still at it: run early_recovery shows what becomes
\* of those.
THEOREM OwnedEntriesRemembered == Spec => []OwnedTrustRemembered
<1>1. Sound /\ Trust => OwnedTrustRemembered
  BY DEF Sound, TypeOK, Row, Trust, Accounted, Remembered, Bears, OwnedTrustRemembered
<1> QED
  BY <1>1, AlwaysTrust, PTL

\* A row that calls its certificate trusted, with no operation pending, is right: the
\* entry is in the trust store, whatever requests, failures, lost hosts and recoveries of
\* lost hosts' operations came before.  Of a fingerprint whose operation a recovery
\* settled while its host was still at it, nothing is said: there the row may be wrong.
THEOREM TrustedEntriesInstalled == Spec => []TrustedIsInstalled
<1>1. Sound /\ Trust => TrustedIsInstalled
  BY DEF Sound, TypeOK, Row, Named, RowsNamed, Trust, Accounted, RowsAgree, Bears,
     TrustedIsInstalled, Verify
<1> QED
  BY <1>1, AlwaysTrust, PTL
=============================================================================
