# TLA+ models of ScopeNest

ScopeNest keeps isolated Chromium profiles ("containers"). A browser extension
talks to a native host over native messaging, an MCP server embeds the same host,
and every host process works on one shared metadata file. This directory holds
models of that system, the TLC runs that check them and the TLAPS proofs about
them. Paths below are relative to the repository; `internal/` stands for
`native-host/internal/`.

## 1. The system

| part | state it keeps | operations | talks to |
|---|---|---|---|
| Container lifecycle, `internal/host/host.go` | rows of `containers.json` (state, PID, launch token, reservation time, flags); in memory `Host.processes` | create, update, launch (reserve, prepare, start, register, commit), close, delete, list, reconcile, cleanup; a watcher goroutine per launched browser | store, browser processes, automation |
| Metadata store, `internal/store` | `containers.json`, `containers.lock`, profile directories | `Load`, `Update` (lock, read, callback, atomic write), `Migrate`, `ProfileInUse`, `RemoveContainerDirectory` | every host, Chromium's `Singleton*` markers |
| Browser processes, `internal/browser` | process group or Job Object | `Start`, `Wait`, `Terminate`, `Running` | lifecycle |
| Automation, `internal/host/automation.go` | `Host.automations`, page references and contexts of a runtime | endpoint discovery, list, open, navigate and control pages | lifecycle, MCP |
| Proxies, templates, environment, `proxy_handlers.go`, `template_handlers.go`, `environment.go` | rows with references to each other and to certificates | create, update, delete with reference checks; resolution at launch | lifecycle, certificates |
| Certificates, `certificate_handlers.go`, `internal/certstore` | rows, files, staged directories, tombstones, the user's trust store | import, trust, untrust, acknowledge, delete in two phases, recovery at startup | store, operating system |
| Message loop, `cmd/scopenest-host` | whether the startup cleanup is scheduled | one request at a time; startup cleanup in a goroutine | extension |
| MCP server, `internal/mcpserver` | one mutex | creation, identity and consent checks in front of the host's commands | host |
| Background worker, `extension/src/background.js` | the port, the pending requests with timers | connect, request, answer, disconnect, timeout | host |
| User interface, `extension/src/ui` | the lists it shows, its connection status | `refreshApp`, commands, forms | background worker |
| Preferences, `extension/src/storage.js` | one settings object | read, merge, write | user interface |

Hosts interact through the store and the file system alone. Every browser profile
with the extension and every MCP client starts a host of its own, so several run
at once and each knows only the processes it started. Inside a host, the request
loop, the startup cleanup and the watchers interleave; they share `Host.mu` and
the store.

What is hard here:

* a host decides about a browser it did not start from a row and from lock markers
  that Chromium creates and removes on its own schedule;
* a launch is five steps with a reservation that can expire under it;
* the profile directory, the row, the process and the in-memory maps are changed by
  separate operations, each of which may fail, and the host may die between them;
* the watcher of one launch may run after the next launch has begun;
* cleanup works through a list it loaded in an earlier transaction;
* a certificate is a row, a directory and a trust-store entry, changed one after the
  other, and a starting host repairs what it takes for the leftovers of a dead one;
* four kinds of rows refer to each other, each kind with its own checks, and a launch
  acts on a snapshot of them after it has given the lock back;
* the page, the worker and the host each go on when another of them is gone, and
  several refreshes of the page overlap;
* an MCP tool takes `Host.mu` several times on its way from a container to a page,
  while tabs, browsers, watchers and the human go on.

What makes each part correct:

* lifecycle: one launch per reservation; a running row belongs to its browser as
  long as it lives; profiles are removed only when unused, and not left behind;
  no browser gets out of its host's reach; exits are recorded; temporary
  containers go;
* library of proxies, templates, certificates: no dangling reference, stored
  configurations resolve, no browser goes out directly unless it was told so;
* certificates: bytes are where the metadata says, whatever fails; trust is claimed
  for what is in the store, and entries of others are left alone;
* background worker and page: a request is settled by its own answer, its timer or
  the loss of its own port; a list is not replaced by an older one; every refresh
  ends;
* MCP: a tool acts only on a page of the container it names, in a browser that was
  launched under a consent a human saved or the container was created with; the
  runtime of a live browser has its process.

## 2. Plan

| order | module | contents | state |
|---|---|---|---|
| 1 | `ContainerLifecycle`, `LifecycleContract`, `ContainerLifecycleProofs`, `ContainerBrowserProofs` | lifecycle of containers over several hosts; what the rows promise | done |
| 2 | `Certificates`, `CertificatesProofs`, `CertificateRecoveryProofs` | import, trust, two-phase deletion, failures, lost hosts, recovery by another host | done |
| 3 | `Library`, `LibraryProofs` | references of containers, templates, proxies and certificates, `resolveEffectiveEnvironment`, what a launch makes of it | done |
| 4 | `NativePort`, `NativePortProofs` | page, background worker, message loop, loss of the port | done |
| 5 | `McpSession`, `McpSessionProofs` | adapter, consent, page references and contexts | done |
| 6 | | migration of the metadata and its backup | open, see 10 |

## 3. Containers: ContainerLifecycle

One module models all hosts, because what can go wrong lies between them.

| variable | in the code |
|---|---|
| `row` | `db.Containers`; an absent row is `AbsentRow`; instead of `LaunchReservedAt` it keeps whether the reservation is older than `launchReservationTTL` |
| `fresh` | the identifiers `security.NewID` has not drawn yet |
| `profile`, `marker` | `containers/<id>` and the `Singleton*` files in it; a marker remembers which launch left it |
| `launch` | what a launch attempt has in its local variables: host, container, effective automation |
| `browser` | the process of an attempt |
| `up`, `request`, `sweep`, `watch` | the host process, its request loop, its cleanup loops (startup and requested), the watcher goroutines |
| `processes`, `automations` | the two maps under `Host.mu` |
| `faults` | how many faults have happened, for the bound |

A launch attempt is a member of `Launches`: it stands for its token and for the PID
of its process. PIDs are not reused in the model.

An action is one store transaction, one critical section of `Host.mu`, or one
operation on a file or process. `launch_container` is `Reserve`, `PrepareProfile`,
`StartBrowser`, `RegisterProcess`, `CommitLaunch`, with `PrepareFails`,
`AutomationFails` and `Release` for the paths that give the reservation back and
`LoseLaunch` and `AbortLaunch` for a commit that fails. `create_container` is
`CreateProfile` and `CreateRow`, or `CreateRejected`, and after any error
`UndoCreate`, which removes the directory, or fails to, and answers. `close_container` is
`CloseBegin`, `CloseTerminate` (or `CloseFails`), `CloseClear`. A cleanup is
`SweepReconcile`, `SweepLoad` and one `SweepDelete` per container; a watcher is
`WatchReturns`, `WatchUpdate`, `WatchDelete`. Requests that are refused change
nothing and have no action. Names, colours, executables, URLs and references to
templates and proxies are left out; a refused reference is `CreateRejected`.

A transaction has an outcome: `ok`; `lock` (it never ran); `write` (its callback
ran, with what it did to the disk, and the rows stay); `sync` (the rename was done,
the directory sync failed, and the caller is told of an error). Those and the
faults `remove` (a directory cannot be removed), `launcher` (preparing, starting or
terminating fails), `crash` (a browser leaves its markers), `exit` (a host goes) and
`stall` (a launch takes longer than the reservation lasts; `time.Now().UTC()` is wall
clock, so a suspended machine or a clock change does it) are switched on per run by
`FaultKinds` and bounded by `MaxFaults`.

Chromium is external: it takes its profile (`BrowserOpens`), hands over to a living
owner (`Taken`), exits or crashes (`BrowserExits`). `PromptMarkers` says that its
marker is there as soon as `launcher.Start` has returned. That is an assumption about
Chromium the code makes silently. Only `launch_races` makes it, the other runs let
the marker come at any time after the start;
`late_marker` shows what it is needed for. With
`KillOnExit` browsers die with their host (Windows); without, they live on (Unix).

`LifecycleContract` is what all this amounts to for somebody who reads
`containers.json`: a launch attempt gets at most one reservation, only the attempt
that holds the reservation makes the container running, a container is not removed
while it is being launched. `ContainerLifecycle` implements it under the mapping of
`Contract`: the status of a row is its state with its token or PID, an attempt is
used once it has a host.

## 4. Certificates

The model is the Windows build; elsewhere the trust operations are refused and a
certificate is acknowledged by hand, which `Library` has.

| variable | in the code |
|---|---|
| `row` | `db.Certificates`: fingerprint, trust state, `TrustedByUser`, `InstalledByScopeNest`, the operation token and what the store held before it |
| `deletion` | the tombstones, `db.CertificateDeletionOperations` |
| `place` | where the one directory with a certificate's bytes is: the import's temporary directory, `resources/certificates/<id>`, or staged under the name of a deletion |
| `root` | `CurrentUser\Root`: whether a fingerprint is in it, and who put it there (which the store itself does not know) |
| `request` | the certificate request a host is in the middle of |
| `recovery` | how far the certificate part of a host's startup cleanup has come, with what it read on the way |
| `excused` | see below |

An action is one store transaction, one call on a directory, or one call on the trust
store. `import_certificate` is `Import`, `CommitImport`, `RollbackImport`;
`install_certificate_trust` is `BeginInstall`, `InstallTrust`, `VerifyTrust`,
`RecordTrust`, and on any failure `markCertificateTrustError`; the removal is
`BeginRemoval`, `RemoveTrust`, `VerifyTrust`, `RecordRemoval`. `delete_certificate` is
`BeginDeletion` (the tombstone), `StageDeletion` (the rename), `RemoveRow` (the second
transaction, with its own check), then `EraseBytes` or `RestoreBytes`, and
`FinishDeletion`. The recovery is `LoadTombstones`, then for each tombstone `ReadRow`,
`SeeSource`, `SeeStaged`, `CompareDirectories`, `ReplaceSource`, `MoveBytes` and
`SettleTombstone`, and at the end `ReconcileTrust`, all rows in one transaction. The
recovery reads the row and the two paths in three steps and does not look at them
again, as `reconcileCertificateDeletion` does.

Faults are those of the store, and `rename`, `remove` (a directory call fails),
`trust` (a call on the trust store fails, before or after it took effect),
`reference` (a proxy or template has come to refer to the certificate between the two
transactions of its deletion) and `crash` (a host is lost and another starts).

`excused` collects what the code makes no promise about, each member at the step that
causes it:

* a certificate whose deletion a starting host recovers while a living host is still
  carrying it out. Without this exception `BytesKept` and `StagedIsTracked` fail with
  no failure at all: the recovery may remove a source directory the living host has
  just restored, or take away its tombstone;
* a certificate whose import or removal committed while the directory sync reported
  an error: `CommitImport` then removes the bytes of a row that is there, and a
  deletion restores the bytes of a row that is gone;
* a fingerprint whose trust operation a starting host settles while a living host is
  still carrying it out. `early_recovery` is the run that shows what follows.

They are narrow: a certificate that only a dead host worked on is never excused, and
`UniqueFingerprint` and `ForeignTrustKept` make no exception.

## 5. Library

| variable | in the code |
|---|---|
| `container`, `template`, `proxy` | the references, modes and switches of the rows |
| `certificate` | how far a certificate is trusted, "pending" during a trust operation |
| `deletion` | how far the two-phase deletion of a certificate has come |
| `launch` | the snapshot a launch took of its environment, and what the browser was started with |

An action is a handler (its transaction), named after it; the certificate handlers
are reduced to the transactions that read or change references and trust.
`Resolve` is `resolveEffectiveEnvironment` with its checks in their order, as an error
code or `OK`. `reserveLaunch` takes the snapshot and `startBrowser` acts on it, with
the listener reachable or not, after any number of other handlers. Trust is installed
on Windows and acknowledged on Linux; a host of the model may do both. Failed
transactions change nothing here; the failures in the middle of a deletion are in
`Certificates`.

## 6. The extension's side: NativePort

| variable | in the code |
|---|---|
| `nativePort`, `pending` | the worker's `nativePort` and `pending`, the latter with the port a request was posted on, which the code does not record |
| `port` | what became of each port: `connectNative` hands out a new one each time, or throws |
| `toHost`, `toWorker` | messages on their way; they are in order, and lost with the port |
| `host`, `version` | the host process behind a port; the metadata, as a number that grows |
| `promise`, `data`, `refreshes`, `owed` | the page's promises, the `refreshApp` calls in progress, and the one a successful command still owes |
| `view` | status and lists the page shows |

The worker's events are `OnMessage`, `OnDisconnect` and `TimeOut`, with `connect` and
`postMessage` inside the steps that start a request; the host's are `Answer`,
`AnswerLost` (the response is too large to be written: the request was handled, and
the process ends), `Refuse` (a request that cannot be decoded gets an error),
`ReadFails` (a message too large to be read is answered without its identifier, which
the worker finds nothing pending for, and the process ends) and `HostDies`; the page's are
`StartRefresh`, `EndRefresh`, `FailRefresh`, `StartCommand` and `EndCommand`. A settled
promise runs what awaits it before the next event (`PageIsIdle`), as microtasks do.
A timeout leaves the host alone: its late answer finds nothing pending. Another
host, a watcher and the startup cleanup are `OtherChange`. Refreshes are numbered in
the order they start, so the set `refreshes` says which of two is older.

Chrome is external: it may kill the host's process or drop the port at any time and
tells the worker with one event. That it may also stop an idle worker is not
modelled.

## 7. MCP: McpSession

| variable | in the code |
|---|---|
| `row` | `AutomationEnabled`, state and PID of a container |
| `granted` | whether a human saved the consent or the container was created with it; not in the code, it is what consent is about |
| `browser` | every browser launched so far: for which container, by this host with automation or not, under which consent |
| `process`, `automation` | `Host.processes` and `Host.automations` of the MCP server's host |
| `pages`, `contexts` | the references and page contexts of each `automationRuntime` |
| `target`, `issued` | the tabs of the browsers; the references drawn so far, with the pages they were drawn for |
| `call` | the call each caller is in, with what it has in its local variables |

`Serialized` is `Adapter.mu`. A tool is taken apart where the code gives `Host.mu` or
the runtime's lock back: `CheckRow` (`automationForMCP`), `ListPages`, `CreateTarget`
and `NameTarget`, `FindTarget` (`targetForPage`) and `ActOnPage` (`pageContext` and
what follows). A launch is `Reserve`, `Register` (the browser, its endpoint, the two
maps) and `CommitLaunch`, with `FailLaunch` for what goes wrong before the maps and
`LoseLaunch` for a commit that fails: that takes the process out of the map, the
runtime only if it is this launch's own, and ends the browser. The human creates, edits
and launches with the extension's own host (`NewContainer`, `Edit`, `LaunchByHuman`),
opens and closes tabs and browsers; `Watch` is the watcher of a browser that has
exited.

MCP creates containers as well (`Create`), with automation if it likes: docs/MCP.md:245
allows that for a new, empty container, since no existing session is given away.
So `granted` starts with what a container is created with. After that only a
human's edit grants; MCP's own update (`Update`) and the override of a launch
(`Consented`) may take consent away and never add it.

Left out: names (a caller may expect any, so the comparison keeps no caller from any
row; that a name may change between the check and the act is a hazard listed without
a property), containers of custom browser types (MCP refuses them), the deletion of
containers and the tools that only read. A transaction is one step, profile locks are
prompt, and the only failure of a transaction is that of a launch's commit, which bears
on the maps; the others, and lost reservations, are in `ContainerLifecycle`.

## 8. Runs

| run | result | what it shows |
|---|---|---|
| `launch_races` | 189k states, holds | two hosts; a launch stalls or fails, a browser crashes, or a host goes. `ReservationIsExclusive`, `RunningWhileBrowserLives`, `ProfileRemovedUnused`, and the contract |
| `store_faults` | 331k states, holds | two hosts, every store, removal and launcher failure, and hosts that take their browsers with them. `TypeOK`, `NoUntrackedBrowser`, `PendingMeansStopped` |
| `store_create` | 357k states, holds | two hosts, one launch, every kind of failure and the loss of hosts, two of them in a behaviour, late markers, automation on and off. `NoLeakedProfile`: the one way to leave a directory without a container is a create that its host does not survive or whose undoing fails (`host.go:600` ignores that). Not with `stall`: a stalled launcher recreates the directory of a container that was deleted meanwhile |
| `browser_exit` | 26k states, holds | liveness: `ExitIsRecorded`, `TemporaryIsRemoved` |
| `late_marker` | violated | without `PromptMarkers`, a second host launches the container again while the recorded process lives (`NoDuplicateLaunch`; SECURITY.md:64) |
| `stale_endpoint` | violated | the automation runtime of an exited process is handed out for the next one (`EndpointClearedOnExit`; docs/native-protocol.md:66) |
| `fresh_temporary` | violated | a cleanup removes a temporary container that was never launched (`TemporaryKeptUntilExit`; README.md:81) |
| `certificates` | 796k states, holds | two hosts, one fingerprint under two identifiers, at most one recovery at a time, one failure of any kind or one lost host. `BytesKept`, `StagedIsTracked`, `UniqueFingerprint`, `OwnedTrustRemembered`, `TrustedIsInstalled`, `ForeignTrustKept` |
| `early_recovery` | violated | with no failure: the recovery of a starting host settles the trust installation of a living one, and the certificate is deleted with ScopeNest's entry in the store (`OwnedTrustBlocksDeletion`; README.md:308) |
| `library` | 713k states, holds | all handlers in all orders, launches on old snapshots. `NoBrokenReferences`, `ConfigurationsResolve`, `NeverSilentlyDirect` |
| `native_port` | 123k states, holds | two ports one after the other, two refreshes, one command. `PendingOnTheOpenPort`, `NeverShowsOlder`, and liveness, `RefreshEnds` |
| `mcp_session` | 543k states, holds | two callers, two containers that either MCP or the human creates, two browsers, two tabs. `ActsWhereApproved`, `RefNamesOnePage`, `ContextsAreReferenced`, `LiveRuntimeIsOwned` |

States are counted after symmetry.

Bounds. The lifecycle runs have one container: no operation relates two rows
except through the loops of reconcile and cleanup, whose bodies are independent per
row (the theorems hold for any number). Two hosts are the least that disagree, two
launch attempts the least where an old watcher, marker, reservation or runtime meets
a new launch. One fault per behaviour is enough for every single failure at every
point; `store_create` has two, since it takes a second one for an undoing to fail. `certificates` has one fingerprint under two identifiers, since what relates
two certificates is that they are the same one, and two operations, so that a second
trust operation or deletion meets the rest of a first. `MaxStarting` bounds the
recoveries that are not over, at the start and when a host is lost: one of them meets
everything the other host does. Two recoveries at once, and two failures in one
behaviour, are covered by the theorems of section 9 only, which hold for every bound.
`library` has two proxies, so that a container and its template
can name different ones. `native_port` has the two ports it takes for an event of
an old one to come late, and the two refreshes it takes for one to overtake the
other. `mcp_session` has two of everything a reference could be mistaken between.

Deadlock is checked except where a bound stops the system: `certificates` and
`early_recovery` (identifiers are not reused), `native_port` (no refreshes left) and
`mcp_session` (no browsers and tabs left).

Fairness. `browser_exit` (`FairSpec` of `ContainerLifecycle`) assumes weak fairness of
the launch, create, close and cleanup steps of every host and of its watchers. They
are goroutines and bounded calls: a lock wait ends after a timeout, `Terminate` has a
deadline, the wait for the automation endpoint too. Nothing is assumed of users,
browsers or hosts that have gone, so the two liveness properties speak of exits that
a living host watches. They are checked without store failures: the watcher ignores
the error of its transaction, and after one only the next request of a user repairs
the row. `native_port` (`FairSpec` of `NativePort`) assumes that `setTimeout` fires and that a settled
promise runs what awaits it, the refresh a finished command owes included. Nothing is
assumed of the host, of Chrome's events or of the user.

## 9. Proofs

All hold for any values of the constants that satisfy the named assumptions of the
modules: null values are no members of the sets they stand beside, the token of an
operation is told from the other places a directory may be at (`TokenAssumption` of
`Certificates`), bounds are natural numbers, switches are Booleans. What a theorem
assumes beyond that is its hypothesis.

| module | theorem | statement |
|---|---|---|
| `ContainerLifecycleProofs` | `TypeCorrect` | `Spec => []TypeOK` |
| | `RequestsCorrect` | `Spec => []Requests` |
| | `ContractImplemented` | `Spec => ImplementsContract` |
| | `ReservationCorrect` | `Spec => ReservationIsExclusive` |
| | `PendingCorrect` | `Spec => []PendingMeansStopped` |
| `ContainerBrowserProofs` | `ReachCorrect` | `Spec => [](Requests /\ Reach)` |
| | `FailedCreatesLeaveNoRow` | without `sync` in `FaultKinds`, `Spec => []FailedCreatesUnwritten` |
| | `MarksCorrect` | `Spec /\ []FailedCreatesUnwritten => [](Requests /\ Reach /\ Marks)` |
| | `BrowsersTracked` | `BrowsersEndWithHost => (Spec => []NoUntrackedBrowser)` |
| | `RunningKept` | `PromptMarkers => (Spec /\ []FailedCreatesUnwritten => RunningWhileBrowserLives)` |
| | `DuplicatesRefused` | `PromptMarkers => (Spec /\ []FailedCreatesUnwritten => NoDuplicateLaunch)` |
| | `ProfileKept` | `PromptMarkers => (Spec /\ []FailedCreatesUnwritten => ProfileRemovedUnused)` |
| | `ProfilesRemoved` | without `stall` in `FaultKinds`, `Spec => NoLeakedProfile` |
| `LibraryProofs` | `LibraryTypes` | `Spec => []TypeOK` |
| | `NoReferenceIsBroken` | `Spec => []NoBrokenReferences` |
| | `StoredConfigurationsResolve` | `Spec => []ConfigurationsResolve` |
| | `DirectOnlyByFallback` | `Spec => []NeverSilentlyDirect` |
| `CertificatesProofs` | `CertificateTypes` | `Spec => []TypeOK` |
| | `FingerprintsUnique` | `Spec => []UniqueFingerprint` |
| | `ForeignEntriesKept` | `Spec => ForeignTrustKept` |
| `CertificateRecoveryProofs` | `LibraryBytesKept` | `Spec => []BytesKept` |
| | `StagedBytesTracked` | `Spec => []StagedIsTracked` |
| | `OwnedEntriesRemembered` | `Spec => []OwnedTrustRemembered` |
| | `TrustedEntriesInstalled` | `Spec => []TrustedIsInstalled` |
| `NativePortProofs` | `TypeCorrect` | `Spec => []TypeOK` |
| | `PortsTracked` | `Spec => []PendingOnTheOpenPort` |
| | `NeverOvertaken` | `Spec => []Overtaken` |
| | `NeverOlder` | `Spec => NeverShowsOlder` |
| `McpSessionProofs` | `SessionTypes` | `Spec => []TypeOK` |
| | `CallsActWhereApproved` | `Spec => []ActsWhereApproved` |
| | `ReferencesAreUnique` | `Spec => []RefNamesOnePage` |
| | `ContextsKeepTheirPages` | `Spec => []ContextsAreReferenced` |
| | `LiveRuntimesAreOwned` | `Spec => []LiveRuntimeIsOwned` |

**Lifecycle.** The argument rests on three lemmas that say what one step does to one
row (`RowSteps`), to the request of one host (`RequestSteps`), and to the attempts and
identifiers (`LaunchAndFreshSteps`). With them `Requests` is inductive: an
identifier is drawn once, a create request owns it until it answers (`DrawnOnce`), and
a host goes on only with the launch it reserved (`LaunchInHand`). Without `DrawnOnce`
a create could overwrite a row that exists, and a late deletion could hit a
container that got the same identifier.

The contract follows step by step: `ContractSteps` restates its actions over
`Statuses` and `Reserved`, and every action of the hosts either leaves those two or
is one of them. `ReservationIsExclusive` is read off `RowSteps`.

`PendingMeansStopped` needs more: a cleanup or a watcher deletes a container it
chose in an earlier transaction. `DeletesDoomed` says that such a container is
`Doomed`, temporary or gone for good, which no step undoes (`DoomedStable`).

**Browsers.** `Reach` says what a host knows of the attempt it has in hand at every step
of a launch (`Hand`), and that what its map holds was started and is watched
(`Tracked`). A browser is then in the hands of its launch or in the map;
`NoUntrackedBrowser` is the same for the browsers whose host is there, and needs
`BrowsersEndWithHost` (`KillOnExit`, as on Windows, or hosts that do not end), because
on Unix a browser survives its host and no other host has it in its map.

`Marks` says what rows and profiles tell other hosts: rows name attempts on their own
container (`Recorded`), attempts are on containers nobody is still creating
(`AttemptsSettled`), and, given `PromptMarkers`, the marker of a profile names the browser that lives in it
(`Marked`). With it `ProfileInUse` answers rightly in every other host, and
`RunningKept` and `ProfileKept` follow from what one step does to a row and to a
profile. `DuplicatesRefused` is the claim of SECURITY.md:64 that `late_marker` refutes.

These three have a second hypothesis, `FailedCreatesUnwritten`: a create that is undoing
itself has left no row. It is there for a flaw of the code. `create` takes every error of
its transaction for a row that was not written; after a directory-sync error the row is
there, another host may have launched the container by the time `host.go:600` removes
its directory, and with the directory go the markers of a live browser. TLC finds that
in a few steps as soon as `launch_races` is given the failure `sync`, which it therefore
does without. `FailedCreatesLeaveNoRow` says that directory syncs are all there is to it:
where they do not fail, the hypothesis holds. Of other failures, and of the loss of hosts,
nothing is assumed.

`ProfilesRemoved` rests on `ReservationsHeld` (a launch that may still make a directory
has its container reserved). A directory has its last claim from a
row or from a create at work, and the theorem looks at each step that ends one: a row
goes after its directory, a create ends with a row or after the removal, unless its host
is lost or the removal fails, which are the exceptions of the property. Its hypothesis
excludes a launch that makes the directory of a container deleted after its reservation
expired.

**Library.** The inductive invariant is `Consistent`: types, `References` (each row's
references are to rows that are there) and `Forms` (a row has the references its mode
asks for). `NoBrokenReferences` alone is not enough for
`ConfigurationsResolve`: a container in template mode must also have a template, which
only the handlers that write containers see to. `NeverSilentlyDirect` is about the
snapshots of launches, which no handler touches: `Honest` says of each that it has the
proxy its mode asks for, and that a browser runs without it only by its fallback.

**Certificates.** The inductive invariant is `Sound`: types, `Named` (what a request, a
tombstone or a recovery works on is there), `UniqueFingerprint` and `Disclaimed`.
`ForeignTrustKept` is about one action, `RemoveTrust`, which must never meet the
entry of somebody else. A request may reach it because the row says that ScopeNest
installed the entry, and the row may say so because of a recovery, which takes an
entry it finds for ScopeNest's own unless the row remembers that it was there before.
`Disclaimed` follows that chain: with a foreign entry in the store, a row that has, or
may have, an operation still to be settled remembers it (`RowsDisclaim`), no request
takes the entry for ScopeNest's own (`RequestsDisclaim`), and a request that holds the
token of a row works on the fingerprint of that row (`TokensAgree`).

`CertificateRecoveryProofs` adds two invariants that rest on tokens. A host that deletes
and one that recovers change the same directory and rows; they meet only at a tombstone
whose request is still going on, and such certificates are excused (section 4).
`Carriers` says that no two requests carry the same token, and that an import has its
certificate to itself; `PlacesNamed` that a staged directory is where a tombstone of its
certificate says. So what a request (`RequestSafe`) or a recovery (`RecoverySafe`) has
read before it moves or erases a directory is still true when it does. Together they are
`Bytes`, from which `BytesKept` and `StagedIsTracked` follow for what is not excused.
Neither speaks of a certificate whose import or removal was committed under a reported
directory-sync error: there `CommitImport` does remove the bytes of a row that stays.
`Trust` does the same for the trust store: a trust request whose
fingerprint is not excused still holds the token of its row and is alone with the entry
of that fingerprint (`RequestsAgree`), a row without an operation agrees with the store
(`RowsAgree`), and a row with one remembers enough for a recovery (`Remembered`).
`OwnedTrustRemembered` and `TrustedIsInstalled` follow, again for what is not excused:
of a fingerprint whose operation a recovery settled while its host was still at it, they
say nothing; `early_recovery` shows what may follow.

**Extension.** `PendingOnTheOpenPort` is inductive as it stands. `TypeOK` is not: that the
page shows versions needs `Settled`, by which a promise the page takes for answered
holds one, and a request that is settled in the page is settled in the worker.

`NeverShowsOlder` is about order, and `Order` carries it from the page to the hosts and
back. `FirstOut` says that what an older refresh still waits for is before what a newer
one asked, among the answers on their way or the requests not yet read, through hosts
that answer, refuse, drop everything or are never there. So no newer refresh is answered
while an older one waits (`Overtaken`). `Recent` says that answers on their way are in
the order of the versions they carry, no older than what the page holds, and that what
it holds is ordered by refresh and no older than what it shows. A refresh that ends then
shows nothing older, and what still waits is newer: an older refresh that waited would
have both its promises settled, and would have gone first.

**MCP.** The inductive invariant is again called `Sound`. `ActsWhereApproved` speaks of
a call that has reached a page, long after the consent was looked at, so approval is
carried step by step: a row with consent was created with it or has it from a human
(`ConsentsGranted`, since MCP can only take it away), a launch with automation was
reserved under it (`LaunchesApproved`), the browser it starts remembers it, the runtime
kept for a container is that of such a browser (`RuntimesApproved`), and a call that took this
runtime holds a target of the same browser (`CallsInHand`). The last needs
`PagesInBrowser`: whatever a runtime knows by a reference is a tab of its own
browser. A reference counts as issued with its page for ever, which makes
`RefNamesOnePage` inductive. `LiveRuntimeIsOwned` needs `LaunchesAlone`: a launch was
reserved when its container had no live process in the map, and gets none before it
registers its own, so that the process it replaces and a runtime it leaves are those of
browsers that have ended. `ContextsAreReferenced` rests on the mutex of the adapter
(`OneCall`): a second call could list pages between `targetForPage` and
`pageContext` of the first.

Every invariant and every action property that a passing run checks is proved; the
runs satisfy the hypotheses of those that have one. Only model-checked are the liveness properties `ExitIsRecorded`, `TemporaryIsRemoved` and
`RefreshEnds`, which the prover cannot reach, and the violations, which are single
behaviours.

## 10. What is not modelled

* Migration from version 1 and its backup: it runs once per data directory, before any
  request, and no document says what a partial backup is worth. Listed as a hazard.
* Preferences: a read and a write of one object. Two pages that save at once lose one
  of the changes, and nothing promises otherwise.
* Input validation, browser arguments, executable discovery, the parsing of
  certificates, the schemas and sanitised outputs of MCP: pure functions of data.
* The visual identity of windows and the installation scripts: no state of the system.
* In the lifecycle: reuse of PIDs by the operating system, a partial `RemoveAll`, and
  readers of `containers.json` that do not go through the store.
* A partial `RemoveAll` of a certificate's directory, and `AuditResources`, which only
  reads.
* Chrome stopping an idle worker; the content of pages and the CDP traffic.
