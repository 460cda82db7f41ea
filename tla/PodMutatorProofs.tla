-------------------------- MODULE PodMutatorProofs --------------------------
(***************************************************************************)
(* What the webhook promises of a pod, for any templates and identities.   *)
(*                                                                         *)
(* The argument is about the pure functions: an injected container is what *)
(* the user wrote with the gaps filled (InjectContainerOK), so that nothing *)
(* is lost, nothing an identity gives is missing, and a second injection,  *)
(* of whatever identity, finds no gap (InjectAgain).  The invariant        *)
(* PodHolds says that a stored pod is its template, or its template        *)
(* injected once; the properties follow from it and those lemmas.          *)
(***************************************************************************)
EXTENDS PodMutator, TLAPS

\* The mount that the webhook adds, and the ones that stand in for it.
WIFMount == [name |-> ProjectedVolumeName, path |-> ProjectedTokenMountPath]
HasMount(c) ==
  \E m \in c.mounts : m.name = ProjectedVolumeName \/ m.path = ProjectedTokenMountPath

\* What an injection puts where a container has no value.
Given(id, n) == IF n = "tokenFile" THEN TokenFile ELSE id[n]

(***************************************************************************)
(* The helpers of mutate.go.                                               *)
(***************************************************************************)
\* ensureEnv gives the variable a value if it has none and changes nothing else.
LEMMA EnsureEnvOK ==
  ASSUME NEW c, IsContainer(c), NEW n \in EnvNames, NEW v, NEW e, e = ensureEnv(c, n, v)
  PROVE  /\ IsContainer(e) /\ e.name = c.name /\ e.mounts = c.mounts
         /\ e.env[n] = IF c.env[n] # None THEN c.env[n] ELSE v
         /\ \A k \in EnvNames \ {n} : e.env[k] = c.env[k]
<1> DEFINE w == [c.env EXCEPT ![n] = v]
<1>1. c.env = [k \in EnvNames |-> c.env[k]]
  BY DEF IsContainer
<1>2. CASE c.env[n] # None
  BY <1>2 DEF ensureEnv
<1>3. CASE c.env[n] = None
  <2>1. w = [k \in EnvNames |-> IF k = n THEN v ELSE c.env[k]]
    BY <1>1
  <2>2. e = [name |-> c.name, env |-> w, mounts |-> c.mounts]
    BY <1>3 DEF ensureEnv, IsContainer
  <2>3. e.name = c.name /\ e.env = w /\ e.mounts = c.mounts
    BY <2>2
  <2>4. w = [k \in EnvNames |-> w[k]]
    BY <2>1
  <2>5. IsContainer(e)
    BY <2>2, <2>3, <2>4 DEF IsContainer
  <2> QED BY <1>3, <2>1, <2>3, <2>5
<1> QED BY <1>2, <1>3

\* ensureVolumeMount leaves a container that mounts the token alone, and adds
\* the mount to any other.
LEMMA EnsureVolumeMountOK ==
  ASSUME NEW c, IsContainer(c), NEW e, e = ensureVolumeMount(c)
  PROVE  /\ IsContainer(e) /\ e.name = c.name /\ e.env = c.env
         /\ HasMount(c) => e = c
         /\ ~HasMount(c) => e.mounts = c.mounts \cup {WIFMount}
         /\ HasMount(e)
<1>1. CASE HasMount(c)
  BY <1>1 DEF ensureVolumeMount, HasMount
<1>2. CASE ~HasMount(c)
  <2>1. e = [c EXCEPT !.mounts = c.mounts \cup {WIFMount}]
    BY <1>2 DEF ensureVolumeMount, HasMount, WIFMount
  <2>2. e = [name |-> c.name, env |-> c.env, mounts |-> c.mounts \cup {WIFMount}]
    BY <2>1 DEF IsContainer
  <2>3. e.name = c.name /\ e.env = c.env /\ e.mounts = c.mounts \cup {WIFMount}
    BY <2>2
  <2>4. IsContainer(e)
    BY <2>2, <2>3 DEF IsContainer
  <2>5. WIFMount \in e.mounts /\ WIFMount.name = ProjectedVolumeName
    BY <2>3 DEF WIFMount
  <2>6. HasMount(e)
    BY <2>5 DEF HasMount
  <2> QED BY <1>2, <2>3, <2>4, <2>6
<1> QED BY <1>1, <1>2

\* An injected container is the container with the gaps filled.
LEMMA InjectContainerOK ==
  ASSUME NEW c, IsContainer(c), NEW id, NEW d, d = injectContainer(c, id)
  PROVE  /\ IsContainer(d) /\ d.name = c.name
         /\ \A n \in EnvNames : d.env[n] = IF c.env[n] # None THEN c.env[n] ELSE Given(id, n)
         /\ HasMount(c) => d.mounts = c.mounts
         /\ ~HasMount(c) => d.mounts = c.mounts \cup {WIFMount}
         /\ HasMount(d)
<1> DEFINE c1 == ensureEnv(c, "organisation", id.organisation)
           c2 == ensureEnv(c1, "account", id.account)
           c3 == ensureEnv(c2, "project", id.project)
           c4 == ensureEnv(c3, "tokenFile", TokenFile)
<1>0. /\ {"organisation", "account", "project", "tokenFile"} = EnvNames
      /\ d = ensureVolumeMount(c4)
  BY DEF EnvNames, injectContainer
<1> HIDE DEF c1, c2, c3, c4
<1>1. /\ IsContainer(c1) /\ c1.name = c.name /\ c1.mounts = c.mounts
      /\ c1.env["organisation"] = IF c.env["organisation"] # None THEN c.env["organisation"]
                                  ELSE id.organisation
      /\ \A k \in EnvNames \ {"organisation"} : c1.env[k] = c.env[k]
  BY <1>0, EnsureEnvOK DEF c1
<1>2. /\ IsContainer(c2) /\ c2.name = c1.name /\ c2.mounts = c1.mounts
      /\ c2.env["account"] = IF c1.env["account"] # None THEN c1.env["account"] ELSE id.account
      /\ \A k \in EnvNames \ {"account"} : c2.env[k] = c1.env[k]
  BY <1>0, <1>1, EnsureEnvOK DEF c2
<1>3. /\ IsContainer(c3) /\ c3.name = c2.name /\ c3.mounts = c2.mounts
      /\ c3.env["project"] = IF c2.env["project"] # None THEN c2.env["project"] ELSE id.project
      /\ \A k \in EnvNames \ {"project"} : c3.env[k] = c2.env[k]
  BY <1>0, <1>2, EnsureEnvOK DEF c3
<1>4. /\ IsContainer(c4) /\ c4.name = c3.name /\ c4.mounts = c3.mounts
      /\ c4.env["tokenFile"] = IF c3.env["tokenFile"] # None THEN c3.env["tokenFile"] ELSE TokenFile
      /\ \A k \in EnvNames \ {"tokenFile"} : c4.env[k] = c3.env[k]
  BY <1>0, <1>3, EnsureEnvOK DEF c4
<1>5. /\ IsContainer(d) /\ d.name = c4.name /\ d.env = c4.env
      /\ HasMount(c4) => d = c4
      /\ ~HasMount(c4) => d.mounts = c4.mounts \cup {WIFMount}
      /\ HasMount(d)
  BY <1>0, <1>4, EnsureVolumeMountOK
<1>6. HasMount(c4) <=> HasMount(c)
  BY <1>1, <1>2, <1>3, <1>4 DEF HasMount
<1>7. \A n \in EnvNames : d.env[n] = IF c.env[n] # None THEN c.env[n] ELSE Given(id, n)
  <2>1. d.env["organisation"] = c1.env["organisation"]
    BY <1>0, <1>2, <1>3, <1>4, <1>5
  <2>2. d.env["account"] = c2.env["account"] /\ c1.env["account"] = c.env["account"]
    BY <1>0, <1>1, <1>3, <1>4, <1>5
  <2>3. d.env["project"] = c3.env["project"] /\ c2.env["project"] = c.env["project"]
    BY <1>0, <1>1, <1>2, <1>4, <1>5
  <2>4. d.env["tokenFile"] = c4.env["tokenFile"] /\ c3.env["tokenFile"] = c.env["tokenFile"]
    BY <1>0, <1>1, <1>2, <1>3, <1>5
  <2> QED BY <1>0, <1>1, <1>2, <1>3, <1>4, <2>1, <2>2, <2>3, <2>4 DEF Given
<1> QED BY <1>1, <1>2, <1>3, <1>4, <1>5, <1>6, <1>7

\* A container without a gap is left as it is, whatever the identity: a second
\* injection does nothing (MutatePod is called for every update of a pod).
LEMMA InjectAgain ==
  ASSUME NEW c, \A n \in EnvNames : c.env[n] # None, HasMount(c), NEW id
  PROVE  injectContainer(c, id) = c
<1>1. ASSUME NEW n \in EnvNames, NEW v PROVE ensureEnv(c, n, v) = c
  BY DEF ensureEnv
<1>2. ensureVolumeMount(c) = c
  BY DEF ensureVolumeMount, HasMount
<1> QED BY <1>1, <1>2 DEF injectContainer, EnvNames

(***************************************************************************)
(* MutatePod.                                                              *)
(***************************************************************************)
\* The pod's token volume: there afterwards, and added only if there was none
\* of that name and none that projects a token for the audience.
HasTokenVolume(vs) ==
  \E v \in vs : v.name = ProjectedVolumeName \/ volumeHasThalassaToken(v, Audience)
WIFVolume == [name |-> ProjectedVolumeName, token |-> Audience]

LEMMA EnsureVolumeOK ==
  ASSUME NEW vs, NEW ws, ws = ensureProjectedTokenVolume(vs, Audience)
  PROVE  /\ HasTokenVolume(vs) => ws = vs
         /\ ~HasTokenVolume(vs) => ws = vs \cup {WIFVolume}
         /\ vs \subseteq ws
         /\ HasTokenVolume(ws)
<1>1. CASE HasTokenVolume(vs)
  BY <1>1 DEF ensureProjectedTokenVolume, HasTokenVolume
<1>2. CASE ~HasTokenVolume(vs)
  <2>1. ws = vs \cup {WIFVolume}
    BY <1>2 DEF ensureProjectedTokenVolume, HasTokenVolume, WIFVolume
  <2>2. WIFVolume \in ws /\ WIFVolume.name = ProjectedVolumeName
    BY <2>1 DEF WIFVolume
  <2> QED BY <1>2, <2>1, <2>2 DEF HasTokenVolume
<1> QED BY <1>1, <1>2

\* Every container, the init containers too, is injected.
LEMMA MutatePodOK ==
  ASSUME NEW t, NEW id, Complete(id), NEW s, s = MutatePod(t, id, Audience)
  PROVE  /\ s.volumes = ensureProjectedTokenVolume(t.volumes, Audience)
         /\ s.initContainers = {injectContainer(c, id) : c \in t.initContainers}
         /\ s.containers = {injectContainer(c, id) : c \in t.containers}
         /\ All(s) = {injectContainer(c, id) : c \in All(t)}
         /\ s = [volumes |-> s.volumes, initContainers |-> s.initContainers,
                 containers |-> s.containers]
<1>1. /\ s.volumes = ensureProjectedTokenVolume(t.volumes, Audience)
      /\ s.initContainers = {injectContainer(c, id) : c \in t.initContainers}
      /\ s.containers = {injectContainer(c, id) : c \in t.containers}
      /\ s = [volumes |-> s.volumes, initContainers |-> s.initContainers,
              containers |-> s.containers]
  BY DEF MutatePod
<1> QED BY <1>1 DEF All

\* A pod that was injected, with a project, is left alone by any later identity.
LEMMA MutateAgain ==
  ASSUME NEW s, s = [volumes |-> s.volumes, initContainers |-> s.initContainers,
                     containers |-> s.containers],
         HasTokenVolume(s.volumes),
         \A c \in All(s) : HasMount(c) /\ \A n \in EnvNames : c.env[n] # None,
         NEW id
  PROVE  MutatePod(s, id, Audience) = s
<1>1. \A c \in All(s) : injectContainer(c, id) = c
  BY InjectAgain
<1>2. /\ {injectContainer(c, id) : c \in s.initContainers} = s.initContainers
      /\ {injectContainer(c, id) : c \in s.containers} = s.containers
  BY <1>1 DEF All
<1>3. ensureProjectedTokenVolume(s.volumes, Audience) = s.volumes
  BY EnsureVolumeOK
<1> QED BY <1>2, <1>3 DEF MutatePod

\* An injected template has its token volume, and every container a mount and
\* the variables that cannot be left out.
LEMMA InjectedOK ==
  ASSUME NEW t \in Templates, NEW id, Complete(id), NEW s, s = MutatePod(t, id, Audience)
  PROVE  /\ HasTokenVolume(s.volumes)
         /\ \A c \in All(s) :
              /\ HasMount(c)
              /\ \A n \in {"organisation", "account", "tokenFile"} : c.env[n] # None
<1>1. HasTokenVolume(s.volumes)
  BY MutatePodOK, EnsureVolumeOK
<1>2. ASSUME NEW c \in All(s)
      PROVE  /\ HasMount(c)
             /\ \A n \in {"organisation", "account", "tokenFile"} : c.env[n] # None
  <2>1. PICK b \in All(t) : c = injectContainer(b, id)
    BY <1>2, MutatePodOK
  <2>2. IsContainer(b)
    BY <2>1, PodMutatorAssumption DEF All
  <2>3. /\ HasMount(c)
        /\ \A n \in EnvNames : c.env[n] = IF b.env[n] # None THEN b.env[n] ELSE Given(id, n)
    BY <2>1, <2>2, InjectContainerOK
  <2>4. \A n \in {"organisation", "account", "tokenFile"} : n \in EnvNames /\ Given(id, n) # None
    BY PodMutatorAssumption DEF EnvNames, Given, Complete
  <2> QED BY <2>3, <2>4
<1> QED BY <1>1, <1>2

(***************************************************************************)
(* The invariant.                                                          *)
(***************************************************************************)
\* A stored pod is its template, or its template injected once.
StoredPod(p) ==
  /\ p = [there |-> p.there, optedIn |-> p.optedIn, spec |-> p.spec, template |-> p.template,
          injected |-> p.injected]
  /\ p.there = TRUE /\ p.optedIn \in BOOLEAN /\ p.template \in Templates
  /\ p.injected = (p.spec # p.template)
  /\ \/ p.spec = p.template
     \/ \E id \in Identities : Complete(id) /\ p.spec = MutatePod(p.template, id, Audience)

PodHolds ==
  /\ ann \in Identities \cup {Gone} /\ annCache \in Identities \cup {Gone}
  /\ up \in BOOLEAN /\ verdict \in Verdicts
  /\ pod = NoPod \/ StoredPod(pod)
  /\ verdict = "immutable" =>
       /\ pod # NoPod
       /\ pod.injected => \E c \in All(pod.spec) : c.env["project"] = None

LEMMA StoredIsThere == ASSUME NEW p, StoredPod(p) PROVE p # NoPod
<1>1. p.there = TRUE
  BY DEF StoredPod
<1> QED BY <1>1 DEF NoPod

\* What Handle answers: the spec as it is, or injected with a complete identity.
LEMMA HandleOK ==
  ASSUME annCache \in Identities \cup {Gone}, NEW s, NEW l \in BOOLEAN, NEW sel \in BOOLEAN,
         NEW o \in Outcomes(s, l, sel)
  PROVE  /\ o.verdict \in {"admitted", "denied", "unreachable"}
         /\ \/ o.spec = s
            \/ /\ annCache \in Identities /\ Complete(annCache)
               /\ o.spec = MutatePod(s, annCache, Audience)
<1>1. \/ /\ o.verdict \in {"admitted", "denied", "unreachable"} /\ o.spec = s
      \/ o.verdict = "admitted" /\ o.spec = Handle(s, l)
  BY DEF Outcomes
<1>2. ASSUME o.spec = Handle(s, l), o.spec # s
      PROVE  /\ annCache \in Identities /\ Complete(annCache)
             /\ o.spec = MutatePod(s, annCache, Audience)
  BY <1>2 DEF Handle, MutatePod
<1> QED BY <1>1, <1>2

LEMMA CreateOK ==
  ASSUME PodHolds, NEW t \in Templates, NEW l \in BOOLEAN, CreatePod(t, l)
  PROVE  /\ verdict' \in Verdicts /\ verdict' # "immutable"
         /\ pod' = NoPod \/ StoredPod(pod')
<1>1. PICK o \in Outcomes(t, l, l) :
        LET v == IF o.verdict = "admitted" /\ ~Valid(o.spec) THEN "invalid" ELSE o.verdict IN
        /\ verdict' = v
        /\ pod' = IF v # "admitted" THEN pod
                  ELSE [there |-> TRUE, optedIn |-> l, spec |-> o.spec, template |-> t,
                        injected |-> o.spec # t]
  BY DEF CreatePod
<1>2. /\ o.verdict \in {"admitted", "denied", "unreachable"}
      /\ \/ o.spec = t
         \/ /\ annCache \in Identities /\ Complete(annCache)
            /\ o.spec = MutatePod(t, annCache, Audience)
  BY <1>1, HandleOK DEF PodHolds
<1>3. verdict' \in Verdicts /\ verdict' # "immutable"
  BY <1>1, <1>2 DEF Verdicts
<1>4. \/ pod' = NoPod
      \/ pod' = [there |-> TRUE, optedIn |-> l, spec |-> o.spec, template |-> t,
                 injected |-> o.spec # t]
  BY <1>1 DEF CreatePod
<1>5. ASSUME NEW p, p = [there |-> TRUE, optedIn |-> l, spec |-> o.spec, template |-> t,
                         injected |-> o.spec # t]
      PROVE  StoredPod(p)
  <2>1. p.optedIn = l /\ p.spec = o.spec /\ p.template = t /\ p.injected = (o.spec # t)
    BY <1>5
  <2>2. p.there = TRUE
    BY <1>5
  <2>3. p = [there |-> p.there, optedIn |-> p.optedIn, spec |-> p.spec, template |-> p.template,
             injected |-> p.injected]
    BY <1>5, <2>2
  <2> QED BY <1>2, <2>1, <2>2, <2>3 DEF StoredPod
<1> QED BY <1>3, <1>4, <1>5

\* An update of the label changes nothing else of a stored pod.
LEMMA Relabelled ==
  ASSUME NEW p, StoredPod(p), NEW l, NEW q, q = [p EXCEPT !.optedIn = l]
  PROVE  q = [there |-> p.there, optedIn |-> l, spec |-> p.spec, template |-> p.template,
              injected |-> p.injected]
<1>1. p = [there |-> p.there, optedIn |-> p.optedIn, spec |-> p.spec, template |-> p.template,
           injected |-> p.injected]
  BY DEF StoredPod
<1> QED BY <1>1

\* An update changes at most the label; it is refused as immutable only if
\* injecting the stored pod once more would change it.
LEMMA UpdateOK ==
  ASSUME PodHolds, NEW l \in BOOLEAN, UpdatePod(l)
  PROVE  /\ verdict' \in Verdicts
         /\ pod # NoPod /\ StoredPod(pod')
         /\ pod'.spec = pod.spec /\ pod'.injected = pod.injected
         /\ verdict' = "immutable" => MutatePod(pod.spec, annCache, Audience) # pod.spec
<1>1. PICK o \in Outcomes(pod.spec, l, l \/ pod.optedIn) :
        LET v == IF o.verdict = "admitted" /\ o.spec # pod.spec THEN "immutable" ELSE o.verdict IN
        /\ verdict' = v
        /\ pod' = IF v = "admitted" THEN [pod EXCEPT !.optedIn = l] ELSE pod
  BY DEF UpdatePod
<1>2. pod # NoPod /\ StoredPod(pod)
  BY DEF UpdatePod, PodHolds
<1>3. /\ o.verdict \in {"admitted", "denied", "unreachable"}
      /\ o.spec = pod.spec \/ o.spec = MutatePod(pod.spec, annCache, Audience)
  <2>1. (l \/ pod.optedIn) \in BOOLEAN
    OBVIOUS
  <2> QED BY <1>1, <2>1, HandleOK DEF PodHolds
<1>4. /\ verdict' \in Verdicts
      /\ verdict' = "immutable" => MutatePod(pod.spec, annCache, Audience) # pod.spec
  BY <1>1, <1>3 DEF Verdicts
<1>5. pod' = pod \/ pod' = [pod EXCEPT !.optedIn = l]
  BY <1>1
<1>6. ASSUME NEW p, p = [pod EXCEPT !.optedIn = l]
      PROVE  StoredPod(p) /\ p.spec = pod.spec /\ p.injected = pod.injected
  <2>1. p = [there |-> pod.there, optedIn |-> l, spec |-> pod.spec, template |-> pod.template,
             injected |-> pod.injected]
    BY <1>2, <1>6, Relabelled
  <2>2. /\ p.there = pod.there /\ p.optedIn = l /\ p.spec = pod.spec
        /\ p.template = pod.template /\ p.injected = pod.injected
    BY <2>1
  <2> QED BY <1>2, <2>1, <2>2 DEF StoredPod
<1> QED BY <1>2, <1>4, <1>5, <1>6

LEMMA PodHoldsInit == PInit => PodHolds
  BY PodMutatorAssumption DEF PInit, PodHolds, Verdicts

LEMMA PodHoldsNext == PodHolds /\ [PNext]_pvars => PodHolds'
<1> SUFFICES ASSUME PodHolds, [PNext]_pvars PROVE PodHolds'
  OBVIOUS
<1>1. ASSUME NEW t \in Templates, NEW l \in BOOLEAN, CreatePod(t, l) PROVE PodHolds'
  BY <1>1, CreateOK DEF PodHolds, CreatePod
<1>2. ASSUME NEW l \in BOOLEAN, UpdatePod(l) PROVE PodHolds'
  <2>1. /\ verdict' \in Verdicts
        /\ pod # NoPod /\ StoredPod(pod')
        /\ pod'.spec = pod.spec /\ pod'.injected = pod.injected
        /\ verdict' = "immutable" => MutatePod(pod.spec, annCache, Audience) # pod.spec
    BY <1>2, UpdateOK
  <2>2. ASSUME verdict' = "immutable", pod.injected
        PROVE  \E c \in All(pod.spec) : c.env["project"] = None
    <3>1. StoredPod(pod)
      BY <2>1 DEF PodHolds
    <3>2. PICK id \in Identities :
            Complete(id) /\ pod.spec = MutatePod(pod.template, id, Audience)
      BY <2>2, <3>1 DEF StoredPod
    <3>3. pod.template \in Templates
      BY <3>1 DEF StoredPod
    <3>4. /\ pod.spec = [volumes |-> pod.spec.volumes, initContainers |-> pod.spec.initContainers,
                         containers |-> pod.spec.containers]
          /\ HasTokenVolume(pod.spec.volumes)
          /\ \A c \in All(pod.spec) :
               /\ HasMount(c)
               /\ \A n \in {"organisation", "account", "tokenFile"} : c.env[n] # None
      BY <3>2, <3>3, MutatePodOK, InjectedOK
    <3>5. SUFFICES ASSUME \A c \in All(pod.spec) : c.env["project"] # None PROVE FALSE
      OBVIOUS
    <3>6. MutatePod(pod.spec, annCache, Audience) = pod.spec
      BY <3>4, <3>5, MutateAgain DEF EnvNames
    <3> QED BY <2>1, <2>2, <3>6
  <2>3. pod' # NoPod
    BY <2>1, StoredIsThere
  <2> QED BY <1>2, <2>1, <2>2, <2>3 DEF PodHolds, UpdatePod
<1>3. CASE DeletePod
  BY <1>3 DEF DeletePod, PodHolds, Verdicts
<1>4. CASE WriteAnnotations
  BY <1>4, PodMutatorAssumption DEF WriteAnnotations, PodHolds
<1>5. CASE SyncAnnotations \/ WebhookReachable \/ UNCHANGED pvars
  BY <1>5 DEF SyncAnnotations, WebhookReachable, pvars, PodHolds
<1> QED BY <1>1, <1>2, <1>3, <1>4, <1>5 DEF PNext

LEMMA PodInvariant == PSpec => []PodHolds
  BY PodHoldsInit, PodHoldsNext, PTL DEF PSpec

(***************************************************************************)
(* What follows from it.                                                   *)
(***************************************************************************)
\* Every variable of every container has a value that the template, the
\* annotations or the webhook gave it.
LEMMA ValuesOK ==
  ASSUME PodHolds, pod # NoPod, NEW c \in All(pod.spec)
  PROVE  c.env \in [EnvNames -> EnvValues]
<1> USE DEF EnvNames
<1>1. StoredPod(pod)
  BY DEF PodHolds
<1>2. \A b \in All(pod.template) :
        /\ IsContainer(b)
        /\ \A n \in EnvNames : b.env[n] \in EnvValues
  <2>1. pod.template \in Templates
    BY <1>1 DEF StoredPod
  <2>2. \A b \in All(pod.template) : IsContainer(b)
    BY <2>1, PodMutatorAssumption DEF All
  <2> QED BY <2>1, <2>2 DEF EnvValues
<1>3. IsContainer(c) /\ \A n \in EnvNames : c.env[n] \in EnvValues
  <2>1. CASE pod.spec = pod.template
    BY <1>2, <2>1
  <2>2. CASE pod.spec # pod.template
    <3>1. PICK id \in Identities :
            Complete(id) /\ pod.spec = MutatePod(pod.template, id, Audience)
      BY <1>1, <2>2 DEF StoredPod
    <3>2. PICK b \in All(pod.template) : c = injectContainer(b, id)
      BY <3>1, MutatePodOK
    <3>3. /\ IsContainer(c)
          /\ \A n \in EnvNames : c.env[n] = IF b.env[n] # None THEN b.env[n] ELSE Given(id, n)
      BY <1>2, <3>2, InjectContainerOK
    <3>4. \A n \in EnvNames : Given(id, n) \in EnvValues
      <4>1. id["organisation"] \in EnvValues /\ id["account"] \in EnvValues
            /\ id["project"] \in EnvValues /\ TokenFile \in EnvValues
        BY <3>1 DEF EnvValues
      <4> QED BY <4>1 DEF Given
    <3> QED BY <1>2, <3>2, <3>3, <3>4
  <2> QED BY <2>1, <2>2
<1>4. c.env = [n \in EnvNames |-> c.env[n]]
  BY <1>3 DEF IsContainer
<1> QED BY <1>3, <1>4

\* PTypeOK for any templates and identities: whatever the webhook is asked, and
\* whatever the annotations say meanwhile, every variable of a stored pod has a
\* value that the template, the annotations or wif.DefaultSubjectTokenFile gave it.
THEOREM PodTypeCorrect == PSpec => []PTypeOK
<1>1. PodHolds => PTypeOK
  <2> SUFFICES ASSUME PodHolds PROVE PTypeOK
    OBVIOUS
  <2>1. pod # NoPod => \A c \in All(pod.spec) : c.env \in [EnvNames -> EnvValues]
    BY ValuesOK
  <2>2. pod # NoPod =>
          pod.optedIn \in BOOLEAN /\ pod.injected \in BOOLEAN /\ pod.template \in Templates
    BY DEF PodHolds, StoredPod
  <2> QED BY <2>1, <2>2 DEF PodHolds, PTypeOK
<1> QED BY <1>1, PodInvariant, PTL

\* TemplateKept for any templates: no injection loses or changes a variable, a
\* mount or a volume that the user wrote.
THEOREM PodTemplateKept == PSpec => []TemplateKept
<1>1. PodHolds => TemplateKept
  <2> SUFFICES ASSUME PodHolds, pod # NoPod
               PROVE  /\ pod.template.volumes \subseteq pod.spec.volumes
                      /\ \A t \in All(pod.template) : \E c \in All(pod.spec) :
                           /\ c.name = t.name /\ t.mounts \subseteq c.mounts
                           /\ \A n \in EnvNames : t.env[n] # None => c.env[n] = t.env[n]
    BY DEF TemplateKept
  <2>1. StoredPod(pod)
    BY DEF PodHolds
  <2>2. CASE pod.spec = pod.template
    BY <2>2
  <2>3. CASE pod.spec # pod.template
    <3>1. PICK id \in Identities :
            Complete(id) /\ pod.spec = MutatePod(pod.template, id, Audience)
      BY <2>1, <2>3 DEF StoredPod
    <3>2. pod.template.volumes \subseteq pod.spec.volumes
      BY <3>1, MutatePodOK, EnsureVolumeOK
    <3>3. ASSUME NEW t \in All(pod.template)
          PROVE  \E c \in All(pod.spec) :
                   /\ c.name = t.name /\ t.mounts \subseteq c.mounts
                   /\ \A n \in EnvNames : t.env[n] # None => c.env[n] = t.env[n]
      <4>1. IsContainer(t)
        BY <2>1, PodMutatorAssumption DEF StoredPod, All
      <4>2. injectContainer(t, id) \in All(pod.spec)
        BY <3>1, MutatePodOK
      <4> QED BY <4>1, <4>2, InjectContainerOK
    <3> QED BY <3>2, <3>3
  <2> QED BY <2>2, <2>3
<1> QED BY <1>1, PodInvariant, PTL

\* InjectedWhole for any templates and identities: MutatePod skips no container.
THEOREM PodInjectedWhole == PSpec => []InjectedWhole
<1>1. PodHolds => InjectedWhole
  <2> SUFFICES ASSUME PodHolds, pod # NoPod, pod.injected, NEW c \in All(pod.spec)
               PROVE  /\ \A n \in {"organisation", "account", "tokenFile"} : c.env[n] # None
                      /\ HasMount(c)
    BY DEF InjectedWhole, HasMount
  <2>1. StoredPod(pod)
    BY DEF PodHolds
  <2>2. PICK id \in Identities :
          Complete(id) /\ pod.spec = MutatePod(pod.template, id, Audience)
    BY <2>1 DEF StoredPod
  <2>3. pod.template \in Templates
    BY <2>1 DEF StoredPod
  <2> QED BY <2>2, <2>3, InjectedOK
<1> QED BY <1>1, PodInvariant, PTL

\* InjectedPodsUpdatable for any identities: MutatePod is idempotent on what it
\* injected, also under another identity, so that the only updates it can make
\* the API server refuse are of pods injected without a project.
THEOREM PodsStayUpdatable == PSpec => []InjectedPodsUpdatable
<1>1. PodHolds => InjectedPodsUpdatable
  BY DEF PodHolds, InjectedPodsUpdatable
<1> QED BY <1>1, PodInvariant, PTL

(***************************************************************************)
(* Valid as submitted, refused as injected.                                *)
(***************************************************************************)
\* The volumes of an injected pod have different names.
LEMMA VolumesValid ==
  ASSUME NEW vs, NEW ws, ws = ensureProjectedTokenVolume(vs, Audience),
         \A v, w \in vs : v.name = w.name => v = w
  PROVE  \A v, w \in ws : v.name = w.name => v = w
<1>1. CASE HasTokenVolume(vs)
  BY <1>1, EnsureVolumeOK
<1>2. CASE ~HasTokenVolume(vs)
  <2>1. ws = vs \cup {WIFVolume} /\ WIFVolume.name = ProjectedVolumeName
    BY <1>2, EnsureVolumeOK DEF WIFVolume
  <2>2. \A v \in vs : v.name # ProjectedVolumeName
    BY <1>2 DEF HasTokenVolume
  <2> QED BY <2>1, <2>2
<1> QED BY <1>1, <1>2

\* Valid's rules for the mounts of a container.
MountsOK(c, vs) ==
  /\ \A m \in c.mounts : \E v \in vs : v.name = m.name
  /\ \A m, n \in c.mounts : m.path = n.path => m = n

\* The mounts of an injected container are valid if the volume thalassa-wif is
\* there, or if no mount of it was added.
LEMMA MountsValid ==
  ASSUME NEW b, IsContainer(b), NEW id, NEW c, c = injectContainer(b, id),
         NEW vs, NEW ws, vs \subseteq ws, MountsOK(b, vs),
         HasMount(b) \/ \E v \in ws : v.name = ProjectedVolumeName
  PROVE  MountsOK(c, ws)
<1> USE DEF MountsOK
<1>1. CASE HasMount(b)
  <2>1. c.mounts = b.mounts
    BY <1>1, InjectContainerOK
  <2> QED BY <2>1
<1>2. CASE ~HasMount(b)
  <2>1. c.mounts = b.mounts \cup {WIFMount}
    BY <1>2, InjectContainerOK
  <2>2. WIFMount.name = ProjectedVolumeName /\ WIFMount.path = ProjectedTokenMountPath
    BY DEF WIFMount
  <2>3. \A m \in b.mounts : m.path # ProjectedTokenMountPath
    BY <1>2 DEF HasMount
  <2>4. \A m \in c.mounts : \E v \in ws : v.name = m.name
    BY <1>2, <2>1, <2>2
  <2>5. \A m, n \in c.mounts : m.path = n.path => m = n
    BY <2>1, <2>2, <2>3
  <2> QED BY <2>4, <2>5
<1> QED BY <1>1, <1>2

\* A valid template that injection makes invalid has an equivalent volume of
\* another name, and a container that does not mount it at the token's path.
LEMMA InvalidOnlyUnmounted ==
  ASSUME NEW t \in Templates, Valid(t), NEW id, Complete(id),
         NEW s, s = MutatePod(t, id, Audience), ~Valid(s)
  PROVE  /\ \E v \in t.volumes : volumeHasThalassaToken(v, Audience)
         /\ \A v \in t.volumes : v.name # ProjectedVolumeName
         /\ \E c \in All(t) : ~HasMount(c)
<1>1. /\ s.volumes = ensureProjectedTokenVolume(t.volumes, Audience)
      /\ All(s) = {injectContainer(c, id) : c \in All(t)}
  BY MutatePodOK
<1>2. \A v, w \in s.volumes : v.name = w.name => v = w
  BY <1>1, VolumesValid DEF Valid
<1>3. ASSUME \/ \E v \in s.volumes : v.name = ProjectedVolumeName
             \/ \A c \in All(t) : HasMount(c)
      PROVE  FALSE
  <2>1. t.volumes \subseteq s.volumes
    BY <1>1, EnsureVolumeOK
  <2>2. ASSUME NEW c \in All(s) PROVE MountsOK(c, s.volumes)
    <3>1. PICK b \in All(t) : c = injectContainer(b, id)
      BY <1>1
    <3>2. IsContainer(b)
      BY <3>1, PodMutatorAssumption DEF All
    <3>3. MountsOK(b, t.volumes)
      BY <3>1 DEF Valid, MountsOK
    <3>4. HasMount(b) \/ \E v \in s.volumes : v.name = ProjectedVolumeName
      BY <1>3, <3>1
    <3> QED BY <2>1, <3>1, <3>2, <3>3, <3>4, MountsValid
  <2> QED BY <1>2, <2>2 DEF Valid, MountsOK
<1>4. ~\E v \in s.volumes : v.name = ProjectedVolumeName
  BY <1>3
<1>5. HasTokenVolume(t.volumes)
  <2>1. ~HasTokenVolume(t.volumes) => WIFVolume \in s.volumes
    BY <1>1, EnsureVolumeOK
  <2> QED BY <1>4, <2>1 DEF WIFVolume
<1>6. s.volumes = t.volumes
  BY <1>1, <1>5, EnsureVolumeOK
<1> QED BY <1>3, <1>4, <1>5, <1>6 DEF HasTokenVolume

\* OnlyUnmountedRefused for any templates and identities: of the pods that are
\* valid as submitted, the webhook makes the API server refuse only those with
\* an equivalent token volume that some container does not mount.
THEOREM PodsRefused == PSpec => OnlyUnmountedRefused
<1> DEFINE Refused(t) ==
             CreatePod(t, TRUE) /\ verdict' = "invalid" /\ Valid(t) =>
               /\ \E v \in t.volumes : volumeHasThalassaToken(v, Audience)
               /\ \A v \in t.volumes : v.name # ProjectedVolumeName
               /\ \E c \in All(t) : \A m \in c.mounts :
                    m.name # ProjectedVolumeName /\ m.path # ProjectedTokenMountPath
<1>1. PodHolds => \A t \in Templates : Refused(t)
  <2> SUFFICES ASSUME PodHolds, NEW t \in Templates,
                      CreatePod(t, TRUE), verdict' = "invalid", Valid(t)
               PROVE  /\ \E v \in t.volumes : volumeHasThalassaToken(v, Audience)
                      /\ \A v \in t.volumes : v.name # ProjectedVolumeName
                      /\ \E c \in All(t) : ~HasMount(c)
    BY DEF HasMount
  <2>1. PICK o \in Outcomes(t, TRUE, TRUE) :
          verdict' = IF o.verdict = "admitted" /\ ~Valid(o.spec) THEN "invalid" ELSE o.verdict
    BY DEF CreatePod
  <2>2. /\ o.verdict \in {"admitted", "denied", "unreachable"}
        /\ \/ o.spec = t
           \/ Complete(annCache) /\ o.spec = MutatePod(t, annCache, Audience)
    BY <2>1, HandleOK DEF PodHolds
  <2>3. ~Valid(o.spec)
    BY <2>1, <2>2
  <2>4. Complete(annCache) /\ o.spec = MutatePod(t, annCache, Audience)
    BY <2>2, <2>3
  <2> QED BY <2>3, <2>4, InvalidOnlyUnmounted
<1>2. PodHolds => [\A t \in Templates : Refused(t)]_pvars
  BY <1>1
<1> QED BY <1>2, PodInvariant, PTL DEF OnlyUnmountedRefused
=============================================================================
