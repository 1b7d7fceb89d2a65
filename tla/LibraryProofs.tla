---------------------------- MODULE LibraryProofs ----------------------------
(***************************************************************************)
(* Proofs about Library: its types, that no reference is ever broken, that *)
(* every stored configuration resolves, and that a container with a proxy  *)
(* goes out directly only where that proxy allows it.                      *)
(*                                                                         *)
(* The argument is one inductive invariant, Consistent.  A handler that    *)
(* stores a row proves the references of that row in its own transaction,  *)
(* and a handler that removes one proves that nobody holds a reference to  *)
(* it; in between, a row keeps the form resolveEffectiveEnvironment asks   *)
(* for, because only createContainer and updateContainer write it.         *)
(***************************************************************************)
EXTENDS Library, TLAPS

\* BrokenReferences, said row by row.
ContainerRefs ==
  \A k \in Containers :
    ProxyKnown(container[k].proxy) /\ TemplateKnown(container[k].template)
ProxyRefs == \A p \in Proxies : Known(proxy[p].certificates)
TemplateRefs ==
  \A t \in Templates :
    ProxyKnown(template[t].proxy) /\ Known(template[t].certificates)
References == ContainerRefs /\ ProxyRefs /\ TemplateRefs

\* What the mode of a container row says of its references.
WellFormed(r) ==
  /\ r.mode \in {"absent", "direct"} => r.proxy = None /\ r.template = None
  /\ r.mode = "template" => r.proxy = None /\ r.template /= None
  /\ r.mode = "proxy" => r.proxy /= None
Forms == \A k \in Containers : WellFormed(container[k])

Consistent == TypeOK /\ References /\ Forms

\* A snapshot whose container asked for a proxy has one, and a browser that runs
\* without it was let go by that proxy.
Honest(l) ==
  /\ l.step # "none" /\ l.mode = "proxy" => l.proxied
  /\ l.step = "running" /\ l.network = "direct" /\ l.proxied =>
       l.unavailable = "direct" /\ l.fallback
Snapshots == \A k \in Containers : Honest(launch[k])

-----------------------------------------------------------------------------
(* The operators *)

LEMMA ReferencesMeanNoneBroken ==
  ASSUME References
  PROVE NoBrokenReferences
<1>1. \A e \in BrokenReferences : FALSE
  <2>1. SUFFICES ASSUME NEW e \in BrokenReferences PROVE FALSE
    OBVIOUS
  <2>2. CASE /\ e \in Containers \X Proxies
             /\ container[e[1]].proxy = e[2] /\ ~ProxyKnown(e[2])
    BY <2>2 DEF References, ContainerRefs
  <2>3. CASE /\ e \in Containers \X Templates
             /\ container[e[1]].template = e[2] /\ ~TemplateKnown(e[2])
    BY <2>3 DEF References, ContainerRefs
  <2>4. CASE /\ e \in Proxies \X Certificates
             /\ e[2] \in proxy[e[1]].certificates /\ ~Known({e[2]})
    BY <2>4 DEF References, ProxyRefs, Known
  <2>5. CASE /\ e \in Templates \X Proxies
             /\ template[e[1]].proxy = e[2] /\ ~ProxyKnown(e[2])
    BY <2>5 DEF References, TemplateRefs
  <2>6. CASE /\ e \in Templates \X Certificates
             /\ e[2] \in template[e[1]].certificates /\ ~Known({e[2]})
    BY <2>6 DEF References, TemplateRefs, Known
  <2> QED
    BY <2>1, <2>2, <2>3, <2>4, <2>5, <2>6 DEF BrokenReferences
<1> QED
  BY <1>1 DEF NoBrokenReferences

\* What a handler learns from a configuration that resolves.
LEMMA ResolvedIsSound ==
  ASSUME NEW r \in ContainerInput, Resolve(r) = "OK"
  PROVE WellFormed(r) /\ ProxyKnown(r.proxy) /\ TemplateKnown(r.template)
<1>1. r.mode \in {"direct", "proxy", "template"}
  BY DEF ContainerInput
<1>2. TemplateKnown(r.template)
  BY DEF Resolve, TemplateKnown
<1>3. WellFormed(r)
  BY <1>1 DEF Resolve, WellFormed
<1>4. r.proxy /= None => r.mode = "proxy"
  BY <1>1, <1>3 DEF WellFormed
<1>5. r.mode = "proxy" => NamedProxy(r) = r.proxy
  BY DEF NamedProxy
<1>6. ProxyKnown(r.proxy)
  BY <1>4, <1>5 DEF Resolve, ProxyKnown
<1> QED
  BY <1>2, <1>3, <1>6

\* What is left to go wrong for a row in good order: its proxy is disabled.
LEMMA ConsistentResolves ==
  ASSUME Consistent, NEW k \in Containers, container[k] /= NoContainer
  PROVE Resolve(container[k]) \in {"OK", "PROXY_PROFILE_DISABLED"}
<1> DEFINE r == container[k]
           p == NamedProxy(r)
<1>1. r \in Container /\ WellFormed(r) /\ ProxyKnown(r.proxy) /\ TemplateKnown(r.template)
  BY DEF Consistent, TypeOK, References, ContainerRefs, Forms
<1>2. r.proxy \in ProxyOrNone /\ r.template \in TemplateOrNone
  BY <1>1 DEF Container
<1>3. r.template /= None => /\ r.template \in Templates
                           /\ ProxyKnown(template[r.template].proxy)
                           /\ Known(template[r.template].certificates)
                           /\ template[r.template].proxy \in ProxyOrNone
  BY <1>2 DEF Consistent, TypeOK, Template, References, TemplateRefs, TemplateOrNone
<1>4. p \in ProxyOrNone /\ ProxyKnown(p)
  <2>1. CASE r.mode = "proxy"
    BY <2>1, <1>1, <1>2 DEF NamedProxy
  <2>2. CASE r.mode = "template" /\ r.template /= None
    BY <2>2, <1>3 DEF NamedProxy
  <2>3. CASE r.mode /= "proxy" /\ ~(r.mode = "template" /\ r.template /= None)
    <3>1. p = None
      BY <2>3 DEF NamedProxy
    <3> QED
      BY <3>1 DEF ProxyKnown, ProxyOrNone
  <2> QED
    BY <2>1, <2>2, <2>3
<1>5. p /= None => Known(proxy[p].certificates)
  BY <1>4 DEF Consistent, References, ProxyRefs, ProxyOrNone
<1>6. Known(Required(r))
  BY <1>3, <1>5 DEF Required, Known
<1>7. r.template /= None => template[r.template].present
  BY <1>1 DEF TemplateKnown
<1>8. p /= None => proxy[p].present
  BY <1>4 DEF ProxyKnown
<1> QED
  BY <1>1, <1>6, <1>7, <1>8 DEF Resolve, WellFormed

-----------------------------------------------------------------------------
(* The steps *)

LEMMA InitConsistent ==
  ASSUME Init
  PROVE Consistent
<1>1. TypeOK
  BY DEF Init, TypeOK, Container, NoContainer, Template, NoTemplate, Proxy, NoProxy,
         Trust, Launch, NoLaunch, ProxyOrNone, TemplateOrNone, Behaviors
<1>2. References
  BY DEF Init, References, ContainerRefs, ProxyRefs, TemplateRefs, ProxyKnown,
         TemplateKnown, Known, NoContainer, NoTemplate, NoProxy
<1>3. Forms
  BY DEF Init, Forms, WellFormed, NoContainer
<1> QED
  BY <1>1, <1>2, <1>3 DEF Consistent

\* A stored profile stays present; a deleted one was nobody's.
LEMMA ProxyStepConsistent ==
  ASSUME Consistent, ProxyStep
  PROVE Consistent'
<1> USE DEF Consistent, References
<1>1. PICK p \in Proxies :
        \/ \E r \in ProxyInput : createProxyProfile(p, r) \/ updateProxyProfile(p, r)
        \/ deleteProxyProfile(p)
  BY DEF ProxyStep
<1>2. UNCHANGED <<container, template, certificate, deletion, launch>>
  BY <1>1 DEF createProxyProfile, updateProxyProfile, deleteProxyProfile, SetProxy
<1>3. CASE \E r \in ProxyInput : createProxyProfile(p, r) \/ updateProxyProfile(p, r)
  <2>1. PICK r \in ProxyInput : SetProxy(p, r)
    BY <1>3 DEF createProxyProfile, updateProxyProfile
  <2>2. r \in Proxy /\ r.present
    BY DEF ProxyInput, Proxy
  <2>3. TypeOK'
    BY <1>2, <2>1, <2>2 DEF TypeOK, SetProxy
  <2>4. \A q \in Proxies : proxy[q].present => proxy'[q].present
    BY <2>1, <2>2 DEF TypeOK, SetProxy
  <2>5. ContainerRefs'
    BY <1>2, <2>4 DEF ContainerRefs, ProxyKnown, TemplateKnown, TypeOK, Container,
                      ProxyOrNone
  <2>6. TemplateRefs'
    BY <1>2, <2>4 DEF TemplateRefs, ProxyKnown, Known, TypeOK, Template, ProxyOrNone
  <2>7. ProxyRefs'
    BY <1>2, <2>1 DEF ProxyRefs, Known, SetProxy, TypeOK
  <2> QED
    BY <1>2, <2>3, <2>5, <2>6, <2>7 DEF Forms
<1>4. CASE deleteProxyProfile(p)
  <2>1. NoProxy \in Proxy
    BY DEF NoProxy, Proxy, Behaviors
  <2>2. TypeOK'
    BY <1>2, <1>4, <2>1 DEF TypeOK, deleteProxyProfile
  <2>3. \A q \in Proxies \ {p} : proxy'[q] = proxy[q]
    BY <1>4 DEF TypeOK, deleteProxyProfile
  <2>4. ContainerRefs'
    BY <1>2, <1>4, <2>3 DEF ContainerRefs, ProxyKnown, TemplateKnown, TypeOK,
                            Container, ProxyOrNone, deleteProxyProfile
  <2>5. TemplateRefs'
    BY <1>2, <1>4, <2>3 DEF TemplateRefs, ProxyKnown, Known, TypeOK, Template,
                            ProxyOrNone, deleteProxyProfile
  <2>6. ProxyRefs'
    BY <1>2, <1>4 DEF ProxyRefs, Known, TypeOK, NoProxy, deleteProxyProfile
  <2> QED
    BY <1>2, <2>2, <2>4, <2>5, <2>6 DEF Forms
<1> QED
  BY <1>1, <1>3, <1>4

\* The same of templates, which refer to others themselves.
LEMMA TemplateStepConsistent ==
  ASSUME Consistent, TemplateStep
  PROVE Consistent'
<1> USE DEF Consistent, References
<1>1. PICK t \in Templates :
        \/ \E r \in TemplateInput :
             createEnvironmentTemplate(t, r) \/ updateEnvironmentTemplate(t, r)
        \/ deleteEnvironmentTemplate(t)
  BY DEF TemplateStep
<1>2. UNCHANGED <<container, proxy, certificate, deletion, launch>>
  BY <1>1 DEF createEnvironmentTemplate, updateEnvironmentTemplate,
              deleteEnvironmentTemplate, SetTemplate
<1>3. ProxyRefs'
  BY <1>2 DEF ProxyRefs, Known
<1>4. CASE \E r \in TemplateInput :
             createEnvironmentTemplate(t, r) \/ updateEnvironmentTemplate(t, r)
  <2>1. PICK r \in TemplateInput : SetTemplate(t, r)
    BY <1>4 DEF createEnvironmentTemplate, updateEnvironmentTemplate
  <2>2. r \in Template /\ r.present
    BY DEF TemplateInput, Template
  <2>3. TypeOK'
    BY <1>2, <2>1, <2>2 DEF TypeOK, SetTemplate
  <2>4. \A u \in Templates : template[u].present => template'[u].present
    BY <2>1, <2>2 DEF TypeOK, SetTemplate
  <2>5. ContainerRefs'
    BY <1>2, <2>4 DEF ContainerRefs, ProxyKnown, TemplateKnown, TypeOK, Container,
                      TemplateOrNone
  <2>6. TemplateRefs'
    BY <1>2, <2>1 DEF TemplateRefs, ProxyKnown, Known, SetTemplate, TypeOK
  <2> QED
    BY <1>2, <1>3, <2>3, <2>5, <2>6 DEF Forms
<1>5. CASE deleteEnvironmentTemplate(t)
  <2>1. NoTemplate \in Template
    BY DEF NoTemplate, Template, ProxyOrNone
  <2>2. TypeOK'
    BY <1>2, <1>5, <2>1 DEF TypeOK, deleteEnvironmentTemplate
  <2>3. \A u \in Templates \ {t} : template'[u] = template[u]
    BY <1>5 DEF TypeOK, deleteEnvironmentTemplate
  <2>4. ContainerRefs'
    BY <1>2, <1>5, <2>3 DEF ContainerRefs, ProxyKnown, TemplateKnown, TypeOK,
                            Container, TemplateOrNone, deleteEnvironmentTemplate
  <2>5. TemplateRefs'
    BY <1>2, <1>5 DEF TemplateRefs, ProxyKnown, Known, TypeOK, NoTemplate,
                      deleteEnvironmentTemplate
  <2> QED
    BY <1>2, <1>3, <2>2, <2>4, <2>5 DEF Forms
<1> QED
  BY <1>1, <1>4, <1>5

\* The only certificate that goes is one nobody refers to.
LEMMA CertificateStepConsistent ==
  ASSUME Consistent, CertificateStep
  PROVE Consistent'
<1> USE DEF Consistent, References
<1>1. PICK c \in Certificates :
        \/ importCertificate(c)
        \/ installCertificateTrust(c)
        \/ removeCertificateTrust(c)
        \/ \E trust \in {"untrusted", "owned", "vouched"} : SettleTrust(c, trust)
        \/ acknowledgeManualCertificateTrust(c)
        \/ beginCertificateDeletion(c)
        \/ stageCertificateDeletion(c)
        \/ removeCertificateRow(c)
        \/ undoCertificateDeletion(c)
  BY DEF CertificateStep
<1> USE DEF importCertificate, installCertificateTrust, removeCertificateTrust,
            SettleTrust, acknowledgeManualCertificateTrust, beginCertificateDeletion,
            stageCertificateDeletion, removeCertificateRow, undoCertificateDeletion,
            SetTrust
<1>2. UNCHANGED <<container, template, proxy, launch>>
  BY <1>1
<1>3. /\ certificate' \in [Certificates -> Trust]
      /\ deletion' \in [Certificates -> {"none", "tombstoned", "staged"}]
  BY <1>1 DEF TypeOK, Trust
<1>4. TypeOK'
  BY <1>2, <1>3 DEF TypeOK
<1>5. \A d \in Certificates :
        certificate[d] /= "absent" =>
          certificate'[d] /= "absent" \/ ~Referenced(d)
  <2>1. CASE removeCertificateRow(c)
    BY <2>1 DEF TypeOK, Deletable
  <2>2. CASE ~removeCertificateRow(c)
    BY <1>1, <2>2 DEF TypeOK
  <2> QED
    BY <2>1, <2>2
<1>6. ProxyRefs'
  BY <1>2, <1>5 DEF ProxyRefs, Known, Referenced, TypeOK, Proxy
<1>7. TemplateRefs'
  BY <1>2, <1>5 DEF TemplateRefs, Known, ProxyKnown, Referenced, TypeOK, Template
<1>8. ContainerRefs'
  BY <1>2 DEF ContainerRefs, ProxyKnown, TemplateKnown
<1> QED
  BY <1>2, <1>4, <1>6, <1>7, <1>8 DEF Forms

\* A row is written only as a configuration that resolves, or removed.
LEMMA ContainerStepConsistent ==
  ASSUME Consistent, ContainerStep
  PROVE Consistent'
<1> USE DEF Consistent, References
<1>1. PICK k \in Containers :
        \/ \E r \in ContainerInput : createContainer(k, r) \/ updateContainer(k, r)
        \/ deleteContainer(k)
        \/ reserveLaunch(k)
        \/ \E reachable \in BOOLEAN : startBrowser(k, reachable)
        \/ releaseLaunch(k)
        \/ browserExits(k)
  BY DEF ContainerStep
<1>2. ASSUME NEW r \in Container, WellFormed(r), ProxyKnown(r.proxy),
             TemplateKnown(r.template), SetContainer(k, r)
      PROVE Consistent'
  <2>1. TypeOK'
    BY <1>2 DEF SetContainer, TypeOK
  <2>2. ContainerRefs'
    BY <1>2 DEF SetContainer, ContainerRefs, ProxyKnown, TemplateKnown, TypeOK
  <2>3. ProxyRefs' /\ TemplateRefs'
    BY <1>2 DEF SetContainer, ProxyRefs, TemplateRefs, ProxyKnown, Known
  <2>4. Forms'
    BY <1>2 DEF SetContainer, Forms, TypeOK
  <2> QED
    BY <2>1, <2>2, <2>3, <2>4
<1>3. ASSUME NEW l \in Launch, SetLaunch(k, l)
      PROVE Consistent'
  <2>1. TypeOK'
    BY <1>3 DEF SetLaunch, TypeOK
  <2>2. ContainerRefs' /\ ProxyRefs' /\ TemplateRefs' /\ Forms'
    BY <1>3 DEF SetLaunch, ContainerRefs, ProxyRefs, TemplateRefs, ProxyKnown,
                TemplateKnown, Known, Forms
  <2> QED
    BY <2>1, <2>2
<1>4. CASE \E r \in ContainerInput : createContainer(k, r) \/ updateContainer(k, r)
  <2>1. PICK r \in ContainerInput : Resolve(r) = "OK" /\ SetContainer(k, r)
    BY <1>4 DEF createContainer, updateContainer
  <2>2. r \in Container
    BY DEF ContainerInput, Container
  <2> QED
    BY <1>2, <2>1, <2>2, ResolvedIsSound
<1>5. CASE deleteContainer(k)
  <2>1. /\ NoContainer \in Container /\ WellFormed(NoContainer)
        /\ ProxyKnown(NoContainer.proxy) /\ TemplateKnown(NoContainer.template)
    BY DEF NoContainer, Container, WellFormed, ProxyKnown, TemplateKnown,
           ProxyOrNone, TemplateOrNone
  <2> QED
    BY <1>2, <1>5, <2>1 DEF deleteContainer
<1>6. NoLaunch \in Launch
  BY DEF NoLaunch, Launch, Behaviors
<1>7. CASE reserveLaunch(k)
  <2> DEFINE r == container[k]
             p == NamedProxy(r)
             l == [NoLaunch EXCEPT
                     !.step = "reserved", !.mode = r.mode, !.proxied = (p /= None),
                     !.unavailable = IF p = None THEN "warn" ELSE proxy[p].unavailable]
  <2>1. r \in Container /\ WellFormed(r) /\ r /= NoContainer
    BY <1>7 DEF reserveLaunch, TypeOK, Forms
  <2>2. r.mode \in {"direct", "proxy", "template"}
    <3>1. CASE r.mode = "absent"
      BY <2>1, <3>1 DEF WellFormed, Container, NoContainer
    <3> QED
      BY <2>1, <3>1 DEF Container
  <2>3. p \in ProxyOrNone
    BY <2>1 DEF NamedProxy, Container, TypeOK, Template, TemplateOrNone, ProxyOrNone
  <2>4. p /= None => proxy[p].unavailable \in Behaviors
    BY <2>3 DEF TypeOK, Proxy, ProxyOrNone
  <2>5. l \in Launch
    <3> HIDE DEF p
    <3> QED
      BY <2>2, <2>4 DEF NoLaunch, Launch, Behaviors
  <2>6. SetLaunch(k, l)
    BY <1>7 DEF reserveLaunch
  <2> QED
    BY <1>3, <2>5, <2>6
<1>8. CASE \E reachable \in BOOLEAN : startBrowser(k, reachable)
  <2>1. PICK reachable \in BOOLEAN : startBrowser(k, reachable)
    BY <1>8
  <2> DEFINE l == [launch[k] EXCEPT
                     !.step = "running",
                     !.network = network(launch[k], reachable),
                     !.fallback = launch[k].proxied /\ launch[k].unavailable = "direct"
                                    /\ ~reachable]
  <2>2. network(launch[k], reachable) \in {"proxy", "direct"}
    BY DEF network
  <2>3. launch[k] \in Launch
    BY DEF TypeOK
  <2>4. l \in Launch
    BY <2>2, <2>3 DEF Launch
  <2>5. SetLaunch(k, l)
    BY <2>1 DEF startBrowser
  <2> QED
    BY <1>3, <2>4, <2>5
<1>9. CASE releaseLaunch(k) \/ browserExits(k)
  BY <1>3, <1>6, <1>9 DEF releaseLaunch, browserExits
<1> QED
  BY <1>1, <1>4, <1>5, <1>7, <1>8, <1>9

LEMMA StepConsistent ==
  ASSUME Consistent, [Next]_vars
  PROVE Consistent'
<1>1. CASE UNCHANGED vars
  BY <1>1 DEF vars, Consistent, TypeOK, References, ContainerRefs, ProxyRefs,
              TemplateRefs, Forms, ProxyKnown, TemplateKnown, Known
<1> QED
  BY <1>1, ProxyStepConsistent, TemplateStepConsistent, CertificateStepConsistent,
     ContainerStepConsistent DEF Next

LEMMA AlwaysConsistent == Spec => []Consistent
<1> QED
  BY InitConsistent, StepConsistent, PTL DEF Spec

\* Only the launch of one container is written at a time: reserved from a
\* configuration that resolves, started by what network makes of the snapshot.
LEMMA StepKeepsSnapshots ==
  ASSUME Consistent, Snapshots, [Next]_vars
  PROVE Snapshots'
<1>1. ASSUME NEW k \in Containers, NEW l, SetLaunch(k, l), Honest(l)
      PROVE Snapshots'
  BY <1>1 DEF SetLaunch, Snapshots, Consistent, TypeOK
<1>2. CASE UNCHANGED launch
  BY <1>2 DEF Snapshots
<1>3. Honest(NoLaunch)
  BY DEF NoLaunch, Honest
<1>4. ASSUME NEW k \in Containers, reserveLaunch(k)
      PROVE Snapshots'
  <2> DEFINE r == container[k]
             p == NamedProxy(r)
             l == [NoLaunch EXCEPT
                     !.step = "reserved", !.mode = r.mode, !.proxied = (p /= None),
                     !.unavailable = IF p = None THEN "warn" ELSE proxy[p].unavailable]
  <2>1. r.mode = "proxy" => p /= None
    BY DEF Consistent, Forms, WellFormed, NamedProxy
  <2>2. Honest(l)
    <3> HIDE DEF p, r
    <3> QED
      BY <2>1 DEF NoLaunch, Honest
  <2>3. SetLaunch(k, l)
    BY <1>4 DEF reserveLaunch
  <2> QED
    BY <1>1, <2>2, <2>3
<1>5. ASSUME NEW k \in Containers, NEW reachable \in BOOLEAN, startBrowser(k, reachable)
      PROVE Snapshots'
  <2> DEFINE l == [launch[k] EXCEPT
                     !.step = "running",
                     !.network = network(launch[k], reachable),
                     !.fallback = launch[k].proxied /\ launch[k].unavailable = "direct"
                                    /\ ~reachable]
  <2>1. launch[k] \in Launch /\ Honest(launch[k]) /\ launch[k].step = "reserved"
    BY <1>5 DEF Consistent, TypeOK, Snapshots, startBrowser
  <2>2. Honest(l)
    BY <2>1 DEF Launch, Honest, network
  <2>3. SetLaunch(k, l)
    BY <1>5 DEF startBrowser
  <2> QED
    BY <1>1, <2>2, <2>3
<1>6. CASE ProxyStep \/ TemplateStep \/ CertificateStep
  BY <1>2, <1>6 DEF ProxyStep, createProxyProfile, updateProxyProfile, deleteProxyProfile,
     SetProxy, TemplateStep, createEnvironmentTemplate, updateEnvironmentTemplate,
     deleteEnvironmentTemplate, SetTemplate, CertificateStep, importCertificate,
     installCertificateTrust, removeCertificateTrust, SettleTrust,
     acknowledgeManualCertificateTrust, beginCertificateDeletion,
     stageCertificateDeletion, removeCertificateRow, undoCertificateDeletion, SetTrust
<1>7. CASE ContainerStep
  BY <1>1, <1>2, <1>3, <1>4, <1>5, <1>7 DEF ContainerStep, createContainer,
     updateContainer, deleteContainer, SetContainer, releaseLaunch, browserExits
<1> QED
  BY <1>2, <1>6, <1>7 DEF Next, vars

-----------------------------------------------------------------------------
(* The theorems *)

\* The rows and the launches keep their types: whatever a launch snapshot is taken
\* from and whatever the listener answers, a browser is started with a network.
THEOREM LibraryTypes == Spec => []TypeOK
<1>1. Consistent => TypeOK
  BY DEF Consistent
<1> QED
  BY <1>1, AlwaysConsistent, PTL

\* No order of the handlers, over any number of rows, leaves a reference to a row
\* that is gone: store.BrokenReferences has nothing to report.
THEOREM NoReferenceIsBroken == Spec => []NoBrokenReferences
<1>1. Consistent => NoBrokenReferences
  BY ReferencesMeanNoneBroken DEF Consistent
<1> QED
  BY <1>1, AlwaysConsistent, PTL

\* resolveEffectiveEnvironment has one complaint left about a stored container: that
\* its proxy was disabled.
THEOREM StoredConfigurationsResolve == Spec => []ConfigurationsResolve
<1>1. Consistent => ConfigurationsResolve
  BY ConsistentResolves DEF ConfigurationsResolve
<1> QED
  BY <1>1, AlwaysConsistent, PTL

\* Whatever changes between the reservation of a launch and its start, a browser
\* whose container asked for a proxy goes out without it only by the fallback that
\* proxy allows.
THEOREM DirectOnlyByFallback == Spec => []NeverSilentlyDirect
<1>1. Init => Snapshots
  BY DEF Init, Snapshots, Honest, NoLaunch
<1>2. Snapshots => NeverSilentlyDirect
  BY DEF Snapshots, Honest, NeverSilentlyDirect
<1> QED
  BY <1>1, <1>2, AlwaysConsistent, StepKeepsSnapshots, PTL DEF Spec
=============================================================================
