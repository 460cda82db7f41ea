----------------------------- MODULE PodMutator -----------------------------
(***************************************************************************)
(* The pod mutator webhook (internal/webhook/podmutator): Handle and       *)
(* MutatePod, called by the API server for opted-in pods when they are     *)
(* created and when they are updated (chart: webhook-mutating.yaml), while *)
(* the controllers write and clear the identity annotations it reads       *)
(* through a cache.                                                        *)
(*                                                                         *)
(* One pod and its ServiceAccount.  Environment variables are the four the *)
(* webhook knows; a volume is a name with the audience of the token it     *)
(* projects at path "token"; a mount is a volume name and a path.          *)
(***************************************************************************)
EXTENDS Naturals, FiniteSets

CONSTANTS
  None,           \* no value
  TokenFile,      \* wif.DefaultSubjectTokenFile
  Audience,       \* the audience of injected tokens
  Identities,     \* what the annotations may say: organisation, account and project
  Templates,      \* pod specs that users submit
  FailurePolicy   \* of the webhook registration

EnvNames == {"organisation", "account", "project", "tokenFile"}
ProjectedVolumeName == "thalassa-wif"
ProjectedTokenMountPath == "/var/run/secrets/thalassa"

NoIdentity == [organisation |-> None, account |-> None, project |-> None]

\* A container is a name, the value of each variable, and mounts.
IsContainer(c) ==
  c = [name |-> c.name, env |-> [n \in EnvNames |-> c.env[n]], mounts |-> c.mounts]

ASSUME PodMutatorAssumption ==
  /\ \A i \in Identities : DOMAIN i = {"organisation", "account", "project"}
  /\ NoIdentity \in Identities
  /\ Audience # None /\ TokenFile # None
  /\ FailurePolicy \in {"Ignore", "Fail"}
  /\ \A t \in Templates :
       /\ DOMAIN t = {"containers", "initContainers", "volumes"}
       /\ \A c \in t.containers \cup t.initContainers : IsContainer(c)

VARIABLES
  ann,        \* identity annotations of the ServiceAccount, "gone" when it is absent
  annCache,   \* the webhook's copy
  up,         \* the API server reaches the webhook
  pod,        \* the stored pod
  verdict     \* what became of the latest request

pvars == <<ann, annCache, up, pod, verdict>>

Gone == [organisation |-> None, account |-> None, project |-> "gone"]
NoPod == [there |-> FALSE]
Verdicts == {"none", "admitted", "denied", "unreachable", "invalid", "immutable"}

(***************************************************************************)
(* Pure parts of the code.                                                 *)
(***************************************************************************)
Complete(id) == id.organisation # None /\ id.account # None

ensureEnv_overwrite(c, n, v) == [c EXCEPT !.env[n] = v]
ensureEnv(c, n, v) == IF c.env[n] # None THEN c ELSE [c EXCEPT !.env[n] = v]

ensureVolumeMount_byName(c) ==
  IF \E m \in c.mounts : m.name = ProjectedVolumeName THEN c
  ELSE [c EXCEPT !.mounts = @ \cup {[name |-> ProjectedVolumeName, path |-> ProjectedTokenMountPath]}]
ensureVolumeMount(c) ==
  IF \E m \in c.mounts : m.name = ProjectedVolumeName \/ m.path = ProjectedTokenMountPath
  THEN c
  ELSE [c EXCEPT !.mounts = @ \cup {[name |-> ProjectedVolumeName, path |-> ProjectedTokenMountPath]}]

injectContainer_emptyProject(c, id) ==
  LET withOrg == ensureEnv(c, "organisation", id.organisation)
      withAccount == ensureEnv(withOrg, "account", id.account)
      withProject == ensureEnv(withAccount, "project", IF id.project = None THEN "" ELSE id.project)
  IN ensureVolumeMount(ensureEnv(withProject, "tokenFile", TokenFile))
\* Without a project its variable is left out (the value None).
injectContainer(c, id) ==
  LET withOrg == ensureEnv(c, "organisation", id.organisation)
      withAccount == ensureEnv(withOrg, "account", id.account)
      withProject == ensureEnv(withAccount, "project", id.project)
  IN ensureVolumeMount(ensureEnv(withProject, "tokenFile", TokenFile))

volumeHasThalassaToken(v, audience) == v.token = audience

ensureProjectedTokenVolume(volumes, audience) ==
  IF \E v \in volumes : v.name = ProjectedVolumeName \/ volumeHasThalassaToken(v, audience)
  THEN volumes
  ELSE volumes \cup {[name |-> ProjectedVolumeName, token |-> audience]}

MutatePod_noInit(s, id, audience) ==
  IF ~Complete(id) THEN s
  ELSE [s EXCEPT !.volumes = ensureProjectedTokenVolume(@, audience),
                 !.containers = {injectContainer(c, id) : c \in @}]
MutatePod(s, id, audience) ==
  IF ~Complete(id) THEN s
  ELSE [volumes |-> ensureProjectedTokenVolume(s.volumes, audience),
        initContainers |-> {injectContainer(c, id) : c \in s.initContainers},
        containers |-> {injectContainer(c, id) : c \in s.containers}]

(***************************************************************************)
(* The API server's own rules (external).                                  *)
(***************************************************************************)
All(s) == s.containers \cup s.initContainers
Valid(s) ==
  /\ \A v, w \in s.volumes : v.name = w.name => v = w
  /\ \A c \in All(s) :
       /\ \A m \in c.mounts : \E v \in s.volumes : v.name = m.name
       /\ \A m, n \in c.mounts : m.path = n.path => m = n

(***************************************************************************)
(* Requests.                                                               *)
(***************************************************************************)
PInit ==
  /\ ann \in {Gone, NoIdentity} /\ annCache = ann
  /\ up \in BOOLEAN
  /\ pod = NoPod /\ verdict = "none"

\* Handle: the spec it answers with.  Without the label, without a
\* ServiceAccount or without a complete identity it allows the pod as it is.
Handle(s, optedIn) ==
  IF optedIn /\ annCache # Gone THEN MutatePod(s, annCache, Audience) ELSE s

\* The API server calls for pods that carry the label before or after the
\* request (objectSelector); if it cannot, the failure policy decides.  A read
\* of the ServiceAccount that fails otherwise than by not finding it is
\* answered with an error, which denies the request under either policy.
Outcomes(s, optedIn, selected) ==
  IF ~selected THEN {[verdict |-> "admitted", spec |-> s]}
  ELSE IF ~up THEN {[verdict |-> IF FailurePolicy = "Ignore" THEN "admitted" ELSE "unreachable",
                     spec |-> s]}
  ELSE {[verdict |-> "admitted", spec |-> Handle(s, optedIn)]}
       \cup (IF optedIn THEN {[verdict |-> "denied", spec |-> s]} ELSE {})

CreatePod(t, optedIn) ==
  /\ pod = NoPod
  /\ \E o \in Outcomes(t, optedIn, optedIn) :
       LET v == IF o.verdict = "admitted" /\ ~Valid(o.spec) THEN "invalid" ELSE o.verdict IN
       /\ verdict' = v
       /\ pod' = IF v # "admitted" THEN pod
                 ELSE [there |-> TRUE, optedIn |-> optedIn, spec |-> o.spec, template |-> t,
                       injected |-> o.spec # t]
  /\ UNCHANGED <<ann, annCache, up>>

\* An update of metadata (the label included).  Environment, volumes and
\* mounts of a pod that exists are immutable.
UpdatePod(optedIn) ==
  /\ pod # NoPod
  /\ \E o \in Outcomes(pod.spec, optedIn, optedIn \/ pod.optedIn) :
       LET v == IF o.verdict = "admitted" /\ o.spec # pod.spec THEN "immutable" ELSE o.verdict IN
       /\ verdict' = v
       /\ pod' = IF v = "admitted" THEN [pod EXCEPT !.optedIn = optedIn] ELSE pod
  /\ UNCHANGED <<ann, annCache, up>>

DeletePod ==
  /\ pod # NoPod /\ pod' = NoPod /\ verdict' = "none"
  /\ UNCHANGED <<ann, annCache, up>>

\* annotateServiceAccountIdentity, clearServiceAccountIdentityAnnotations and the
\* annotation controller's patchStatus each write in one update; users create
\* and delete the ServiceAccount.
WriteAnnotations ==
  /\ \/ ann # Gone /\ ann' \in (Identities \cup {Gone}) \ {ann}
     \/ ann = Gone /\ ann' = NoIdentity
  /\ UNCHANGED <<annCache, up, pod, verdict>>

SyncAnnotations ==
  /\ annCache # ann /\ annCache' = ann
  /\ UNCHANGED <<ann, up, pod, verdict>>

WebhookReachable == up' = ~up /\ UNCHANGED <<ann, annCache, pod, verdict>>

PNext ==
  \/ \E t \in Templates, l \in BOOLEAN : CreatePod(t, l)
  \/ \E l \in BOOLEAN : UpdatePod(l)
  \/ DeletePod \/ WriteAnnotations \/ SyncAnnotations \/ WebhookReachable

PSpec == PInit /\ [][PNext]_pvars

(***************************************************************************)
(* Properties.                                                             *)
(***************************************************************************)
EnvValues ==
  {None, TokenFile} \cup {i[f] : i \in Identities, f \in {"organisation", "account", "project"}}
  \cup UNION {{c.env[n] : c \in All(t), n \in EnvNames} : t \in Templates}

\* Type correctness; a variable has a value that the annotations or the
\* template gave it, never an empty one.
PTypeOK ==
  /\ ann \in Identities \cup {Gone} /\ annCache \in Identities \cup {Gone}
  /\ up \in BOOLEAN /\ verdict \in Verdicts
  /\ pod = NoPod \/
       /\ pod.optedIn \in BOOLEAN /\ pod.injected \in BOOLEAN /\ pod.template \in Templates
       /\ \A c \in All(pod.spec) : c.env \in [EnvNames -> EnvValues]

\* What users put into a pod is in the pod: every variable, mount and volume of
\* the template, unchanged (ensureEnv, ensureVolumeMount and
\* ensureProjectedTokenVolume only add).
TemplateKept ==
  pod # NoPod =>
    /\ pod.template.volumes \subseteq pod.spec.volumes
    /\ \A t \in All(pod.template) : \E c \in All(pod.spec) :
         /\ c.name = t.name /\ t.mounts \subseteq c.mounts
         /\ \A n \in EnvNames : t.env[n] # None => c.env[n] = t.env[n]

\* The webhook also sees every later update of a pod, when pods may no longer
\* change.  An update of a pod that it injected is not refused because of what
\* has become of the annotations since (they may have been cleared, or name
\* another account), unless a project has been added to them.
InjectedPodsUpdatable ==
  verdict = "immutable" /\ pod.injected =>
    \E c \in All(pod.spec) : c.env["project"] = None

\* An injected pod is injected whole: every container, the init containers
\* too, has organisation, account and token file, and mounts something where
\* the token file is or the volume of that name.
InjectedWhole ==
  pod # NoPod /\ pod.injected =>
    \A c \in All(pod.spec) :
      /\ \A n \in {"organisation", "account", "tokenFile"} : c.env[n] # None
      /\ \E m \in c.mounts : m.name = ProjectedVolumeName \/ m.path = ProjectedTokenMountPath

\* A pod that is valid as submitted stays valid, but for one case: it has an
\* equivalent token volume under another name, so that no volume is added, and a
\* container that mounts neither that path nor the volume thalassa-wif, so that
\* a mount of the missing volume is (mutate.go:44 has "a projected token volume
\* when needed").
OnlyUnmountedRefused ==
  [][\A t \in Templates : CreatePod(t, TRUE) /\ verdict' = "invalid" /\ Valid(t) =>
       /\ \E v \in t.volumes : volumeHasThalassaToken(v, Audience)
       /\ \A v \in t.volumes : v.name # ProjectedVolumeName
       /\ \E c \in All(t) : \A m \in c.mounts :
            m.name # ProjectedVolumeName /\ m.path # ProjectedTokenMountPath]_pvars
=============================================================================
