------------------------------- MODULE Library -------------------------------
(***************************************************************************)
(* What containers, environment templates, proxy profiles and certificates *)
(* say of each other, and what a launch makes of it.                       *)
(*                                                                         *)
(* All four are rows of containers.json and refer to each other by         *)
(* identifier.  Every handler checks the references it knows of in its own *)
(* transaction; a certificate is deleted in two, with its directory moved  *)
(* aside in between (module Certificates has the files, the tombstones and *)
(* the failures).  A launch resolves the environment in the transaction of *)
(* its reservation and acts on that snapshot later, without the lock.      *)
(*                                                                         *)
(* Transactions are atomic here and failed ones change nothing.  An        *)
(* identifier that no row and no deletion knows may be drawn again.  Trust *)
(* is installed on Windows and acknowledged on Linux: here a host may do   *)
(* both, so that one model has the behaviours of either platform.          *)
(***************************************************************************)
EXTENDS FiniteSets

CONSTANTS
  Containers, Templates, Proxies, Certificates,  \* identifiers
  None                                           \* the empty reference

ASSUME NoneAssumption == None \notin Proxies \cup Templates

VARIABLES
  container,    \* the container rows: mode and references
  template,     \* the environment templates
  proxy,        \* the proxy profiles
  certificate,  \* the certificate rows: how far each one is trusted
  deletion,     \* how far the deletion of each certificate has come
  launch        \* what each container's launch, or browser, goes by

vars == <<container, template, proxy, certificate, deletion, launch>>

-----------------------------------------------------------------------------
(* Types *)

ProxyOrNone == Proxies \cup {None}
TemplateOrNone == Templates \cup {None}

\* networkMode; a container without a row has mode "absent".
Container == [mode : {"absent", "direct", "proxy", "template"},
              proxy : ProxyOrNone, template : TemplateOrNone]
NoContainer == [mode |-> "absent", proxy |-> None, template |-> None]

Template == [present : BOOLEAN, proxy : ProxyOrNone,
             certificates : SUBSET Certificates]
NoTemplate == [present |-> FALSE, proxy |-> None, certificates |-> {}]

\* What becomes of a launch whose listener does not answer.  A profile whose
\* health check is disabled launches like "warn", without the warning.
Behaviors == {"warn", "block", "direct"}
Proxy == [present : BOOLEAN, enabled : BOOLEAN, unavailable : Behaviors,
          certificates : SUBSET Certificates]
NoProxy == [present |-> FALSE, enabled |-> FALSE, unavailable |-> "warn",
            certificates |-> {}]

\* "owned": trusted, and installed by ScopeNest; "vouched": trusted before that,
\* or acknowledged by hand.
Trust == {"absent", "untrusted", "pending", "owned", "vouched"}

\* The snapshot of a launch: the mode asked for, whether it resolved to a proxy,
\* and that proxy's behavior; then what the browser was started with.
Launch == [step : {"none", "reserved", "running"},
           mode : {"direct", "proxy", "template"}, proxied : BOOLEAN,
           unavailable : Behaviors, network : {"proxy", "direct"},
           fallback : BOOLEAN]
NoLaunch == [step |-> "none", mode |-> "direct", proxied |-> FALSE,
             unavailable |-> "warn", network |-> "direct", fallback |-> FALSE]

TypeOK ==
  /\ container \in [Containers -> Container]
  /\ template \in [Templates -> Template]
  /\ proxy \in [Proxies -> Proxy]
  /\ certificate \in [Certificates -> Trust]
  /\ deletion \in [Certificates -> {"none", "tombstoned", "staged"}]
  /\ launch \in [Containers -> Launch]

Init ==
  /\ container = [k \in Containers |-> NoContainer]
  /\ template = [t \in Templates |-> NoTemplate]
  /\ proxy = [p \in Proxies |-> NoProxy]
  /\ certificate = [c \in Certificates |-> "absent"]
  /\ deletion = [c \in Certificates |-> "none"]
  /\ launch = [k \in Containers |-> NoLaunch]

-----------------------------------------------------------------------------
(* References and their resolution *)

Known(certificates) == \A c \in certificates : certificate[c] /= "absent"
ProxyKnown(p) == p /= None => proxy[p].present
TemplateKnown(t) == t /= None => template[t].present

\* store.BrokenReferences, as pairs of an owner and what it misses.
BrokenReferences ==
  {e \in Containers \X Proxies :
     container[e[1]].proxy = e[2] /\ ~ProxyKnown(e[2])}
    \cup {e \in Containers \X Templates :
            container[e[1]].template = e[2] /\ ~TemplateKnown(e[2])}
    \cup {e \in Proxies \X Certificates :
            e[2] \in proxy[e[1]].certificates /\ ~Known({e[2]})}
    \cup {e \in Templates \X Proxies :
            template[e[1]].proxy = e[2] /\ ~ProxyKnown(e[2])}
    \cup {e \in Templates \X Certificates :
            e[2] \in template[e[1]].certificates /\ ~Known({e[2]})}

\* The proxy a configuration names, if it is one that names any.
NamedProxy(r) ==
  CASE r.mode = "proxy" -> r.proxy
    [] r.mode = "template" /\ r.template /= None -> template[r.template].proxy
    [] OTHER -> None

Required(r) ==
  (IF r.template = None THEN {} ELSE template[r.template].certificates)
    \cup (IF NamedProxy(r) = None THEN {} ELSE proxy[NamedProxy(r)].certificates)

\* resolveEffectiveEnvironment: its error, in the order of its checks.
Resolve(r) ==
  LET p == NamedProxy(r)
  IN CASE r.template /= None /\ ~template[r.template].present
            -> "ENVIRONMENT_TEMPLATE_NOT_FOUND"
       [] r.mode = "direct" /\ (r.proxy /= None \/ r.template /= None)
            -> "INVALID_NETWORK_CONFIGURATION"
       [] r.mode = "template" /\ r.template = None
            -> "ENVIRONMENT_TEMPLATE_NOT_FOUND"
       [] r.mode = "template" /\ r.proxy /= None
            -> "INVALID_NETWORK_CONFIGURATION"
       [] r.mode = "proxy" /\ r.proxy = None -> "INVALID_NETWORK_CONFIGURATION"
       [] p /= None /\ ~proxy[p].present -> "PROXY_PROFILE_NOT_FOUND"
       [] p /= None /\ ~proxy[p].enabled -> "PROXY_PROFILE_DISABLED"
       [] ~Known(Required(r)) -> "CERTIFICATE_NOT_FOUND"
       [] OTHER -> "OK"

\* certificateReadiness of one certificate: the bytes are in their directory,
\* and it is trusted, or acknowledged where trust is not supported.
Ready(c) ==
  /\ deletion[c] /= "staged"
  /\ certificate[c] \in {"owned", "vouched"}

\* certificateReferenceError.
Referenced(c) ==
  \/ \E p \in Proxies : c \in proxy[p].certificates
  \/ \E t \in Templates : c \in template[t].certificates

-----------------------------------------------------------------------------
(* Proxy profiles *)

SetProxy(p, r) ==
  /\ Known(r.certificates)
  /\ proxy' = [proxy EXCEPT ![p] = r]
  /\ UNCHANGED <<container, template, certificate, deletion, launch>>

createProxyProfile(p, r) == ~proxy[p].present /\ SetProxy(p, r)

\* Also the way to disable a profile that is in use.
updateProxyProfile(p, r) == proxy[p].present /\ SetProxy(p, r)

deleteProxyProfile(p) ==
  /\ proxy[p].present
  /\ \A k \in Containers : container[k].proxy /= p
  /\ \A t \in Templates : template[t].proxy /= p
  /\ proxy' = [proxy EXCEPT ![p] = NoProxy]
  /\ UNCHANGED <<container, template, certificate, deletion, launch>>

-----------------------------------------------------------------------------
(* Environment templates *)

\* The proxy must exist; it need not be enabled.
SetTemplate(t, r) ==
  /\ ProxyKnown(r.proxy)
  /\ Known(r.certificates)
  /\ template' = [template EXCEPT ![t] = r]
  /\ UNCHANGED <<container, proxy, certificate, deletion, launch>>

createEnvironmentTemplate(t, r) == ~template[t].present /\ SetTemplate(t, r)

updateEnvironmentTemplate(t, r) == template[t].present /\ SetTemplate(t, r)

\* Mutation: only containers in template mode are searched.
deleteUninherited(t) ==
  /\ template[t].present
  /\ \A k \in Containers :
       container[k].mode = "template" => container[k].template /= t
  /\ template' = [template EXCEPT ![t] = NoTemplate]
  /\ UNCHANGED <<container, proxy, certificate, deletion, launch>>

deleteEnvironmentTemplate(t) ==
  /\ template[t].present
  /\ \A k \in Containers : container[k].template /= t
  /\ template' = [template EXCEPT ![t] = NoTemplate]
  /\ UNCHANGED <<container, proxy, certificate, deletion, launch>>

-----------------------------------------------------------------------------
(* Certificates *)

SetTrust(c, trust) ==
  /\ certificate' = [certificate EXCEPT ![c] = trust]
  /\ UNCHANGED <<container, template, proxy, deletion, launch>>

importCertificate(c) ==
  /\ certificate[c] = "absent"
  /\ deletion[c] = "none"
  /\ SetTrust(c, "untrusted")

\* The first transaction of a trust operation.
installCertificateTrust(c) ==
  /\ certificate[c] \in {"untrusted", "owned", "vouched"}
  /\ deletion[c] /= "staged"
  /\ SetTrust(c, "pending")

removeCertificateTrust(c) ==
  /\ certificate[c] = "owned"
  /\ deletion[c] /= "staged"
  /\ ~Referenced(c)
  /\ SetTrust(c, "pending")

\* Its second, or the recovery's.
SettleTrust(c, trust) ==
  /\ certificate[c] = "pending"
  /\ SetTrust(c, trust)

acknowledgeManualCertificateTrust(c) ==
  /\ certificate[c] = "untrusted"
  /\ SetTrust(c, "vouched")

\* validateCertificateDeletionInDBExcept, but for the tombstone.
Deletable(c) ==
  /\ certificate[c] \notin {"absent", "pending", "owned"}
  /\ ~Referenced(c)

beginCertificateDeletion(c) ==
  /\ deletion[c] = "none"
  /\ Deletable(c)
  /\ deletion' = [deletion EXCEPT ![c] = "tombstoned"]
  /\ UNCHANGED <<container, template, proxy, certificate, launch>>

stageCertificateDeletion(c) ==
  /\ deletion[c] = "tombstoned"
  /\ deletion' = [deletion EXCEPT ![c] = "staged"]
  /\ UNCHANGED <<container, template, proxy, certificate, launch>>

\* Mutation: what the first transaction validated is trusted.
removeStagedRow(c) ==
  /\ deletion[c] = "staged"
  /\ certificate' = [certificate EXCEPT ![c] = "absent"]
  /\ deletion' = [deletion EXCEPT ![c] = "none"]
  /\ UNCHANGED <<container, template, proxy, launch>>

\* The second transaction validates again.
removeCertificateRow(c) ==
  /\ deletion[c] = "staged"
  /\ Deletable(c)
  /\ certificate' = [certificate EXCEPT ![c] = "absent"]
  /\ deletion' = [deletion EXCEPT ![c] = "none"]
  /\ UNCHANGED <<container, template, proxy, launch>>

\* It is refused or fails, or the host is lost and a later one recovers.
undoCertificateDeletion(c) ==
  /\ deletion[c] /= "none"
  /\ deletion' = [deletion EXCEPT ![c] = "none"]
  /\ UNCHANGED <<container, template, proxy, certificate, launch>>

-----------------------------------------------------------------------------
(* Containers *)

SetContainer(k, r) ==
  /\ container' = [container EXCEPT ![k] = r]
  /\ UNCHANGED <<template, proxy, certificate, deletion, launch>>

\* validateContainerReferences, in the transaction that stores the row.
createContainer(k, r) ==
  /\ container[k] = NoContainer
  /\ Resolve(r) = "OK"
  /\ SetContainer(k, r)

\* In any state of the container, running and launching ones included.
updateContainer(k, r) ==
  /\ container[k] /= NoContainer
  /\ Resolve(r) = "OK"
  /\ SetContainer(k, r)

deleteContainer(k) ==
  /\ container[k] /= NoContainer
  /\ launch[k].step = "none"
  /\ SetContainer(k, NoContainer)

-----------------------------------------------------------------------------
(* Launch *)

SetLaunch(k, l) ==
  /\ launch' = [launch EXCEPT ![k] = l]
  /\ UNCHANGED <<container, template, proxy, certificate, deletion>>

\* The environment part of reserveLaunchWithEnvironment.
reserveLaunch(k) ==
  LET r == container[k]
      p == NamedProxy(r)
  IN /\ r /= NoContainer
     /\ launch[k].step = "none"
     /\ Resolve(r) = "OK"
     /\ \A c \in Required(r) : Ready(c)
     /\ SetLaunch(k, [NoLaunch EXCEPT
          !.step = "reserved", !.mode = r.mode, !.proxied = (p /= None),
          !.unavailable = IF p = None THEN "warn" ELSE proxy[p].unavailable])

\* Mutation: a warning launches directly as well.
networkWarned(l, reachable) ==
  IF l.proxied /\ (l.unavailable = "block" \/ reachable) THEN "proxy" ELSE "direct"

\* Mutation: nothing is chosen for a direct launch.
networkUnset(l, reachable) ==
  IF l.proxied /\ (l.unavailable /= "direct" \/ reachable) THEN "proxy" ELSE ""

\* proxyOpts of launchWithPolicy.
network(l, reachable) ==
  IF l.proxied /\ (l.unavailable /= "direct" \/ reachable)
  THEN "proxy" ELSE "direct"

\* checkProxyListener, whose answer counts for a proxy whose check is enabled,
\* and the start of the process, both from the snapshot.
startBrowser(k, reachable) ==
  LET l == launch[k]
  IN /\ l.step = "reserved"
     /\ l.proxied /\ l.unavailable = "block" => reachable
     /\ SetLaunch(k, [l EXCEPT !.step = "running",
          !.network = network(l, reachable),
          !.fallback = l.proxied /\ l.unavailable = "direct" /\ ~reachable])

\* "block", or any failure before the process is started.
releaseLaunch(k) ==
  /\ launch[k].step = "reserved"
  /\ SetLaunch(k, NoLaunch)

browserExits(k) ==
  /\ launch[k].step = "running"
  /\ SetLaunch(k, NoLaunch)

-----------------------------------------------------------------------------

ProxyInput == [present : {TRUE}, enabled : BOOLEAN, unavailable : Behaviors,
               certificates : SUBSET Certificates]
TemplateInput == [present : {TRUE}, proxy : ProxyOrNone,
                  certificates : SUBSET Certificates]
ContainerInput == [mode : {"direct", "proxy", "template"}, proxy : ProxyOrNone,
                   template : TemplateOrNone]

ProxyStep ==
  \E p \in Proxies :
    \/ \E r \in ProxyInput : createProxyProfile(p, r) \/ updateProxyProfile(p, r)
    \/ deleteProxyProfile(p)

TemplateStep ==
  \E t \in Templates :
    \/ \E r \in TemplateInput :
         createEnvironmentTemplate(t, r) \/ updateEnvironmentTemplate(t, r)
    \/ deleteEnvironmentTemplate(t)

CertificateStep ==
  \E c \in Certificates :
    \/ importCertificate(c)
    \/ installCertificateTrust(c)
    \/ removeCertificateTrust(c)
    \/ \E trust \in {"untrusted", "owned", "vouched"} : SettleTrust(c, trust)
    \/ acknowledgeManualCertificateTrust(c)
    \/ beginCertificateDeletion(c)
    \/ stageCertificateDeletion(c)
    \/ removeCertificateRow(c)
    \/ undoCertificateDeletion(c)

ContainerStep ==
  \E k \in Containers :
    \/ \E r \in ContainerInput : createContainer(k, r) \/ updateContainer(k, r)
    \/ deleteContainer(k)
    \/ reserveLaunch(k)
    \/ \E reachable \in BOOLEAN : startBrowser(k, reachable)
    \/ releaseLaunch(k)
    \/ browserExits(k)

Next == ProxyStep \/ TemplateStep \/ CertificateStep \/ ContainerStep

Spec == Init /\ [][Next]_vars

-----------------------------------------------------------------------------
(* Properties *)

\* No handler, and no order of them, leaves a reference to a row that is gone.
NoBrokenReferences == BrokenReferences = {}

\* The configuration of a stored container stays one that resolves, whatever
\* happens to what it refers to; only disabling its proxy may stop it.
ConfigurationsResolve ==
  \A k \in Containers :
    container[k] /= NoContainer =>
      Resolve(container[k]) \in {"OK", "PROXY_PROFILE_DISABLED"}

\* A browser goes out directly only if its container, or the template it
\* inherits from, named no proxy, or the proxy itself allows the fallback and
\* its listener did not answer.
NeverSilentlyDirect ==
  \A k \in Containers :
    LET l == launch[k]
    IN l.step = "running" /\ l.network = "direct" =>
         \/ ~l.proxied /\ l.mode /= "proxy"
         \/ l.unavailable = "direct" /\ l.fallback
=============================================================================
