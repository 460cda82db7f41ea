# A TLA+ model of the Thalassa workload identity controller

The controller gives Kubernetes ServiceAccounts an identity in the Thalassa
cloud: a Thalassa service account (SA), a federated identity (FI) that trusts
the ServiceAccount's tokens, and grants (policy and role bindings). This
directory holds TLA+ models of it, TLC configurations that check them on small
instances, and TLAPS proofs that hold for all instances.

## The system

| Part | Source | State | Operations | What is hard |
| --- | --- | --- | --- | --- |
| WIF engine | `internal/wif/ensure.go` | none of its own; the cloud's SAs, FIs, grants | `EnsureWorkloadIdentity`, `DeleteWorkloadIdentity` | 5 to 15 API calls without a transaction; each may fail before or after taking effect; list-before-create is the only defence against duplicates |
| Keys, labels, scopes | `internal/wif/subject.go` | none | `ResourceKey`, `OwnershipLabels`, `LabelsMatch`, `ParseScopeList` | ownership is decided by labels alone; lists that mean the same must not look different |
| Allowlist | `internal/config/allowlist.go` | none | `RefAllowed` | names move between check and use |
| Binding controller | `internal/controller/binding_reconcile.go`, `workloadidentitybinding_controller.go` | finalizer and status of each binding, annotations of ServiceAccounts, ConfigMaps, work queue, informer caches | `Reconcile`, `reconcileBinding`, `patchStatus` | stale reads, conflicts, crashes between writes, deletion racing creation |
| ServiceAccount controller | `internal/controller/serviceaccount_controller.go` | finalizer and status annotations of ServiceAccounts | `Reconcile` | shares ServiceAccounts and cloud with the binding controller; its own writes queue it again; opting out races opting in |
| Pod mutator | `internal/webhook/podmutator` | none; annotations through a cache | `Handle`, `MutatePod` | called again for every update of a pod, when pods are immutable; pods that already mount a token |
| Process: configuration, client, wiring | `internal/config`, `internal/thalassa`, `cmd` | flags, configuration, lease | start-up, leader election | one lease for processes of different Deployments; defaults that depend on each other |

Both controllers run in one process (one leader), one reconcile at a time
each. They call the engine, which calls the cloud; they read Kubernetes objects
through an informer cache and write to the API server, which refuses updates
made from an old copy. Users edit bindings and ServiceAccounts, the platform
changes providers, and administrators rename policies and grant things of their
own, all at any moment.

What makes each part correct:

- engine: no duplicate SA, FI or grant; an FI always has its SA; a successful
  ensure or delete did what it says; nothing of anybody else is deleted;
- allowlist: nothing outside it is ever granted;
- binding controller: Ready means provisioned; no identity without a binding
  that will remove it; deletion ends; a satisfiable binding becomes Ready;
- annotation controller: nothing in the cloud without the finalizer; Ready is
  true when written; nothing that users wrote is undone; cleanup ends;
- both together: each changes only its part of a ServiceAccount; what either has
  made has a finalizer, also while the other cleans up under the same key;
- pod mutator: what users wrote stays; a pod is injected whole or not at all;
  an injected pod can still be updated;
- process: one runs the controllers; nobody keeps the lease without running
  them; what runs has a usable configuration.

## Modules

| Module | Models |
| --- | --- |
| `WorkloadIdentity` | the engine, and the cloud it runs against; one action per API call |
| `IdentityStore` | what the engine promises: keys with an account, federated or not, and granted targets, changed by atomic operations |
| `IdentityRefinement` | the mapping under which `WorkloadIdentity` implements `IdentityStore` |
| `ServiceAccounts` | Kubernetes ServiceAccounts in the API server and in the informer cache, and what users do to them |
| `BindingController` | the binding controller on top of these; one action per Kubernetes read-modify-write |
| `AnnotationController` | the ServiceAccount annotation controller, likewise |
| `Controllers` | both in one manager: one cache, two workers, the same ServiceAccounts |
| `PodMutator` | the webhook, between users who submit pods and the API server |
| `Manager` | processes: flags, validation, start-up, leader election, webhook on every replica |
| `Scopes` | scope lists: parsing, comparison, the writes they cause |
| `MC*` | their instances for TLC |
| `WorkloadIdentityProofs`, `IdentityRefinementProofs`, `ServiceAccountsProofs`, `BindingControllerProofs`, `AnnotationControllerProofs`, `ControllersProofs`, `PodMutatorProofs` | theorems about the module of that name |
| `ConfigurationProofs` | theorems about `Manager` and `Scopes`, both of which read lists that users write |

`BindingController` and `AnnotationController` extend `ServiceAccounts`, which
extends `WorkloadIdentity`; `Controllers` extends both.

### WorkloadIdentity

`sas`, `fis`, `grants` are the cloud; `idps` the providers labelled with the
cluster; `named` what slugs and names denote; `pc`, `job`, `reg` each worker's
position, arguments and local variables. `Begin` starts a call, the actions
named after the API calls perform it, `Collect` hands the result over.

- A write is `Reply`: it takes effect, and may still be reported as an error. A
  call may also fail without effect (`CallFails`). `Crash` forgets all calls.
- Lists come in any order, so "the first match" is any match.
- `DeleteResolve` drops errors as `ensure.go:202` and `:210` do.
- `lenient` tells the binding controller's delete, which treats a missing
  provider as nothing to do, from the ServiceAccount controller's, which fails.
- `calm` ends faults and the activity of others; nothing forces it.

The cloud is external. It is modelled from the `IAMClient` interface and from
the fake used in `ensure_test.go`: fresh identities, no uniqueness of names or
labels, no cascades, and deleting what is gone succeeds. A request takes
effect, if at all, before its caller sees the outcome: an effect delayed past a
timeout is not modelled, and would defeat list-before-create.

Data is abstracted: a key is the pair (ServiceAccount, issuer), the hash in
`ResourceKey` being taken as collision-free; scopes, audiences and display name
are one value (`attrs`; `Scopes` has their detail); an identity is never also a name, and policies and
roles referred to by identity exist. Case folding and trimming are left out. A
binding cannot be applied with the reference `*` (`workloadidentitybinding_types.go:27`),
so there `Wildcard` stands for one with spaces around it.

### IdentityStore and IdentityRefinement

`account` and `federated` are the keys that have an account and a federated
identity, `granted` the managed grants of a key's account. The promise is about
order: `Grant` needs a federated account, `Revoke` and `RemoveAccount` one that
is no longer federated, `CreateAccount` a key without one. The mapping reads
these off `sas`, `fis` and `grants`; lists, updates of federated identities,
grants of administrators, lost replies and crashes are stuttering steps.

### ServiceAccounts

`sa` is the API server's copy and `saCache` the manager's; `stale` holds the
ServiceAccounts whose cached copy is not the latest version, which stands for
resource versions: an update is refused when made from such a copy. An update
that changes nothing makes no new version; `patchStatus` adds a time stamp in
seconds, so it may make one although nothing else changes (`WriteStamped`).

### BindingController

`stored` is the API server's copy of each binding and `cache` the controller's;
ServiceAccounts are those of `ServiceAccounts`; `cm` the identity ConfigMaps;
`queue` the work queue and `rec` the reconcile underway, with the copy it works
from (`rec.obj`), the observation it will report and whether it will be
retried. It extends `WorkloadIdentity` and drives its worker `wib`:
`BeginDelete` and `GetServiceAccount` begin a call, `DeleteReturned` and
`EnsureReturned` take the result, `CloudStep` is an API call in between.

- An update of a binding succeeds only from a current copy (`Current`). Its
  resource versions are abstracted to equality of the copies; writing over an equal object has
  the same effect as re-reading it first.
- `patchStatus` re-reads the cache and records that copy's generation.
- `WatchEvent` brings the cache up to date and queues the binding. ServiceAccount
  events queue nothing. `Resync` stands for the informer's periodic resync, and
  for events caused by `lastReconcileTime` alone.
- `Restart` loses queue, caches and calls and lists everything again.
- Deleting a binding with a finalizer marks it and counts as a new generation.
- `skipped` is a history variable: cleanups that found no usable provider.

Left out: namespaces that are not watched (bindings there are never touched),
the project identity (a constant of a deployment), grants by administrators
(covered in `WorkloadIdentity`), the transition time and the text of the Ready
condition.

### AnnotationController and Controllers

`srec` is the reconcile underway: the copy made at the start, from which the
finalizer is updated (`fresh` while it is the latest version), the result of the
ensure, the status to report and whether to retry. `patchAnnotations` is
`patchStatus`, on a copy of its own; its error is dropped except for Ready
(`MarkReady`). `Watched` is the event filter. The two branches of `Reconcile`
for deletion and for opting out do the same and are one path.

In `Controllers` a step of one controller leaves the other's reconcile alone,
except that a write to a ServiceAccount makes the other's copy an old one
(`Overtake`); both share the cache, and restart together. `doubled` is a history
variable: the keys under which there has been more than one account or federated
identity.

### PodMutator

One pod, its ServiceAccount's identity annotations and the webhook's copy of
them. `Outcomes` says what the API server may get: it calls the webhook for
pods that have the label before or after the request (the chart's
`objectSelector`, operations CREATE and UPDATE), admits a pod unchanged when
the webhook is unreachable and the policy is Ignore, and is answered with an
error when the ServiceAccount cannot be read. `Valid` and the immutability of
pods are the API server's rules (external). Environment, mounts and volumes are
kept as far as `MutatePod` looks at them.

### Manager

`Launch` computes the configuration from flags and validates it; `SetupFails`
is any `os.Exit(1)` after that, a failing `NewClient` among them. `StartManager`
goes to `standby` when the process takes part in the election and to `active`
otherwise. The lease is not released when a process stops and expires only when
its holder no longer renews it; this and `AcquireLease` stand for client-go's
leader election. `NormalizeURL` takes one slash away. `MountCerts` is the kubelet,
which mounts the secret with the webhook's certificate or takes it away; without
it the manager does not start to serve. The readiness check `webhookCertReady`
changes no state and is left out.

## Runs

All run with `tlc -config <cfg> <module>`. Deadlock is checked for `pods`,
`manager` and `scopes`; the others may stop: identities and user operations are
bounded, and with nothing asked for there is nothing to do.

| Run | Instance | Shows |
| --- | --- | --- |
| `calls` | one worker, one ServiceAccount; policies of which one is allowed, by identity and by a name that moves between them; a role; a wildcard; two attribute values; two providers of which one has no issuer; 5 identities | `TypeOK`, `UniqueIdentity`, `UniqueGrant`, `FederatedIdentityBacked`, `EnsureComplete`, `DeleteComplete`, `AllowlistRespected`, `RemovesOnlyOwn` |
| `two_workers` | two workers with a ServiceAccount each, 5 identities, symmetric | `UniqueIdentity`, `FederatedIdentityBacked`, `RemovesOnlyOwn`, `ImplementsIdentityStore` under interleaving |
| `binding` | one binding with an identity ConfigMap, also edited to a wildcard, which is refused; three user operations | `BTypeOK`, `ReadyIsBacked`, `NoOrphan` |
| `progress` | one binding spoiled (scopes that do not parse) and corrected, two user operations | `EventuallyProvisioned`, `DeletionCompletes` |
| `annotation` | one ServiceAccount that opts in and out, is deleted and made again; one provider that comes and goes; two user operations | `STypeOK`, `FinalizerGuardsCloud`, `ReadyWhenWritten`, `NoLostUpdate`; with faults that end, `EventuallyProvisionedSA`, `ReadyRecurs`, `CleanupCompletes` |
| `both_controllers` | a ServiceAccount with a binding and with annotations, both of which provision it and ask for deletion; two user operations, of which the second deletes either; no API faults | `SomebodyWillRemove`, `WritersKeepToTheirPart` |
| `pods` | a plain pod, one with a variable of the user's, one prepared by the user, one with an equivalent volume, one of whose two containers mounts it; five contents of the annotations | `PTypeOK`, `TemplateKept`, `InjectedPodsUpdatable`, `InjectedWhole`, `OnlyUnmountedRefused` |
| `manager` | a process with controllers (or wrong flags), one with controllers and perhaps the mutator, one with the mutator and perhaps controllers | `OneManagerActive`, `RunningIsUsable`, `ControllersGetToRun` |
| `scopes` | lists of up to three parts: three scopes, a blank, the wildcard, an unknown one | `CarriesMeaning`, `WritesOnlyChanges` |
| `swallowed_resolve_error`, `moved_binding`, `two_paths` | | the code disagrees with a comment: see below |

Bounds. `MaxId` bounds the identities the cloud hands out, in the actions that
create something. An ensure with a role uses four, one without three, and an
interrupted one fewer: 5 leaves room for a complete ensure and for what is
created again by a retry, by a name that moved or after a delete, or for one
worker's complete ensure beside most of the other's. The theorems about the
engine have no such bound. In `binding`, `progress` and `annotation` it never
holds anything back: identities are created again only after a user has deleted
something or opted out, or after a reconcile that changed nothing. `MaxOps` = 3
lets a binding be created, edited and deleted, or created, deleted and created
again, with a ServiceAccount appearing or disappearing in between; liveness is
checked with `MaxOps` = 2, which lets a ServiceAccount opt in and out, or be
deleted after it opted in. `calls`, `two_workers`, `binding` and `two_paths` do
not explore states in which the faults have stopped: `calm` only takes steps
away, so they add nothing to a safety property. Conversely `both_controllers`
starts calm: the question is the order of reads and writes of the two
controllers around a deletion (`AroundDeletion`). The first operation makes the
binding; before the second one the controllers take turns and see what was
written last, and from then on they interleave freely with stale copies and
refused updates. The cloud hands out what one complete ensure needs (`MaxId` = 3).
Failed API calls, crashes, opting out and keys that are already used twice are
not explored there: each controller's own run has the first three, and the
theorems about both have none of these restrictions, except that
`SomebodyWillRemove` itself leaves out keys used twice. Three processes are
enough for a
holder, one that waits and one without controllers; three parts for a repetition
beside another scope, in both orders.

Fairness (`Fairness`): the reconcile goroutine goes on; the work queue is first
come first served, so a queued binding is eventually taken (strong fairness of
`Reconcile(b)`); watches deliver; informers resync; Kubernetes collects
garbage. `Stabilise` is not fair: the liveness properties speak of behaviours
in which the faults do stop. `FairAnnSpec` is the same for the annotation
controller. `ReadyRecurs` also assumes that the cache catches up during one call
after another: every reconcile writes Pending first, and a Ready made from a
copy that does not show it is refused; a call takes longer than a watch event,
but nothing in the code makes it so. `FairMSpec`: a lease that is not renewed
expires, and a process that waits keeps trying; processes need not start.

## What the code does that its comments do not say

Shown by a run that finds the counterexample:

- `swallowed_resolve_error`: `ensure.go:177` promises that a delete removes the
  bindings; an error of resolve is dropped and the account deleted around them.
- `moved_binding`: `workloadidentitybinding_types.go:61` promises that
  `deleteResources` deletes the managed resources; those of a former
  `serviceAccountName` stay.
- `two_paths`: `subject.go:30` calls the key a stable id; a ServiceAccount with
  both a binding and annotations can get two accounts with one key.

Met while modelling, and why the properties are stated as they are:

- `NoOrphan` and `FinalizerGuardsCloud` suppose one issuer: the delete looks
  under the key made with the provider's present issuer, so what was made under
  a former one stays. `ReadyIsBacked` is proved for bindings that name different
  ServiceAccounts (`Unshared`), and its instance has one: deleting a second
  binding of the same ServiceAccount takes the identity away from the first,
  which says Ready until its next reconcile. `NoOrphan` does not need that.
- An edited `policyRef` leaves the grant of the former one, although
  `ensure.go:39` speaks of a desired state: no property claims otherwise.
- `patchStatus` records as `observedGeneration` that of the copy read when the
  status is written, not the generation last processed
  (`workloadidentitybinding_types.go:107`); `EventuallyProvisioned`
  therefore asks, beside the status, for what the current spec wants.
- `SomebodyWillRemove` excludes keys that have been used for two (`doubled`):
  deletes take the first match, and the second account outlives both finalizers.
  `two_paths` shows how a key comes to be used for two.
- The binding controller takes the identities off a ServiceAccount when a binding
  is deleted, also those that the annotation controller wrote
  (`binding_reconcile.go:290`), and leaves its status Ready. Until that
  controller's next reconcile the ServiceAccount says Ready without identities;
  `WritersKeepToTheirPart` names this as one of the two ways they go.
- The annotation controller never writes `organisation-id`, which `README.md:177`
  and `:181` put on every Ready ServiceAccount; the pod mutator injects nothing
  without it (`mutate.go:19`). No property claims otherwise.
- `OnlyUnmountedRefused` names the one way in which the mutator makes a valid
  pod invalid: with an equivalent volume under another name, a container that
  does not mount that one gets a mount of a volume that is not there
  (`mutate.go:117`).
- `README.md:173` has the trusted audiences decide the injected audience; the
  default of `--webhook-audience` is not empty and wins (`main.go:112`).
  `RunningIsUsable` claims a trusted injected audience only where the flag is
  left empty.

## Proofs

`tlapm <module>Proofs.tla` checks each proof module. Nothing is assumed but the
`ASSUME`s on the parameters (their types, which TLC evaluates in every run) and,
where a theorem states them, hypotheses on the parameters: `Exclusive` (no two
workers are given the same ServiceAccount), `Workers = {w}` (one controller runs
alone) and `Unshared` (a binding names a ServiceAccount of its own), each
explained where it is used. `Exclusive` is needed: `two_paths` shows what happens
without it.

The properties are not inductive. That a created FI is the only one of its key
depends on what the worker saw earlier and on nobody having changed it since.
The invariant `IInv == Typed /\ Safe` says so position by position:

- `CallOK`: which arguments and locals a worker has at each position (`Typed`
  adds the types);
- `Knows`: what it may rely on about the cloud there. Before `createSA`, no SA
  has its key; from `listFI` on, its SA exists; before `createGrant`, no managed
  grant of the target; in `dDeleteGrant`, the list of grants to delete is exactly
  what is left to delete; after a delete, nothing has the key;
- `FreshIds`, `UniqueIds`: identities are handed out once;
- and the safety properties `UniqueIdentity`, `UniqueGrant` and
  `FederatedIdentityBacked` themselves.

`StepTyped` shows that a step keeps `Typed`, without `Exclusive`. One lemma per
write (`CreateServiceAccountSafe`, ...) shows that it keeps `Safe`: what the
writer then knows is true, and what the others know stays true because their
keys differ (`KeysDiffer`). `ReadSafe` does the same for the reads.

Theorems: `TypeCorrect`, `OnlyAllowedGranted` (both without `Exclusive`),
`NoDuplicateIdentity`, `NoDuplicateGrant`, `AlwaysBacked`, `EnsureDelivers`,
`DeleteDelivers`, `DeletesOnlyOwn`; and for a controller that runs alone
`ControllerNoDuplicateIdentity`, `ControllerDeletesOnlyOwn` and
`AnnotationsKeepIdentities`.

The controllers' modules are written with the engine's own actions, so that each
of their behaviours is one of `WorkloadIdentity`. The lemmas
`ControllerImplementsCalls`, `AnnotationsImplementCalls` and
`ManagerImplementsCalls` say so. They claim nothing about the code: they are how
the engine's theorems are carried over.

`EngineImplementsStore`: under `Exclusive`, `WorkloadIdentity` implements
`IdentityStore`. `IInv` gives every write the abstract guard it needs: the
writer of an account knows that its key has none, `createGrant` that its FI is
there, the delete past `dDeleteFI` that it is gone. The mapped `granted` follows
from `GrantedNow` by one lemma per write.

Of both controllers in one manager: `ManagerGrantsOnlyAllowed` without
conditions, and `ManagerNoDuplicateIdentity` and `ManagerImplementsStore` under
`Exclusive`.

### What one step may do to the cloud

The controllers' theorems rest on three facts about any step of any worker,
proved once in `WorkloadIdentityProofs`: it creates only for the key it ensures
(`StepAdds`), it removes only for the key it deletes (`StepRemoves`, `Kept`),
and it touches no other worker (`StepLocal`). `CallInv` adds what a call that
has resolved its provider may rely on. `EnsureResult` and `DeleteResult` say
what the caller knows when it is handed the outcome.

### The annotation controller

`SHeld` is about Kubernetes alone: types, `Coherent` (a cached copy that is not
stale is the stored object), and `Held` (the copy that `Reconcile` works from,
as long as nobody has overtaken it, is both). `NoLostUpdate` follows: `Effects`
lists what a write may change, and a write from an old copy is refused.

`SGuard` relates Kubernetes and cloud: a call is underway just when the
reconcile awaits one, about its account (`CallLink`); a cached copy with the
finalizer that takes part is not ahead of the stored one (`CacheTrails`), so
that what is ensured is guarded (`Guarding`); before the finalizer goes nothing
is left (`Cleaned`); before Ready is written what it says is there
(`Delivered`). With these, `FinalizerGuardsCloud` is inductive. The stale cache
is why `CacheTrails` is needed: a reconcile that finds the finalizer in an old
copy does not add it again.

### The binding controller

`BHeld` is the typing part. `BGuard` is the counterpart of `SGuard` for
bindings, which users edit and delete and create again under the same name:
`CopiesBehind` orders copies by uid and generation, so that a copy that differs
from the stored binding never becomes equal to it again, and an update from it
is refused; `FinalizerCopy` says that the copy from which the finalizer is
removed, while current, is also the cached one, so that no older cached copy can
start an ensure afterwards (`FinTrails`, `Provisioning`). `BCleaned` is
`Cleaned`, but for accounts whose cleanup was skipped. From these,
`BindingsLeaveNoOrphan`.

`BReady` adds that a cached copy that is being deleted means that the stored one
does not count as Ready (`DelTrails`), so that a delete never takes away what a
Ready binding names (`RemovingNotReady`), and that the outcome of the call stays
true until the status is written (`ObservedBacked`): `BackedKept` shows that the
cloud keeps it through every step except a delete for the same ServiceAccount.
That is where `Unshared` is used, in `BindingsReadyAreBacked`.

`Workers = {wib}` (or `{wsa}`) in these theorems says that the controller is the
only caller of the engine, as in its own module; nothing else would step the
other workers.

### Both controllers

`ManagerHolds` shows that `TypeOK`, `BHeld` and `SHeld` hold together when both
controllers write the same ServiceAccounts through one cache; a write of one
makes the other's copy an old one, which keeps `Held` true. `MControl` is the part
of `BGuard` and `SGuard` that does not say what the cloud holds (`BControl`,
`SControl`): copies, finalizers and calls underway. Either side keeps its own part
and the other's (`BindingSideControl`, `AnnotationSideControl`), since workers do
not touch each other's calls and writes of the binding controller leave the
finalizer of a ServiceAccount.

`ManagerWritersKeep` (`WritersKeepToTheirPart`) follows from the effects of either
side and from `FinalizerCopy`, which gives that annotations are cleared only for a
binding that was seen deleted. It sets no condition on which ServiceAccounts the
two are given. It does not say that they undo nothing of each other: the
identities have two writers, and the theorem says what either may make of them.

`ManagerSomebodyWillRemove` (`SomebodyWillRemove`): alone, each controller has
removed everything under the key before its finalizer goes (`Cleaned`,
`BCleaned`). With two that is false: the other may make something behind a delete
that has already listed. A delete has *passed* (`Passed`) what is under its key
and will no longer be removed by it. `PassedStep`: as long as the key identifies
one of each kind, a delete's own steps pass nothing that it had not passed
before, so only the other controller's ensure makes it pass something. The
invariant `AllCared` says of each key with something in the cloud: one of the
finalizers is there; where the binding controller's delete has passed it, the
ServiceAccount has its finalizer and the annotation controller's delete has not
passed it; and the other way round. It is kept because a controller that creates
has its own finalizer in place (`EnsuringGuards`, `Guarding`) and is not
deleting; and because a finalizer goes only after a delete of its own, which has
then passed whatever is left (`ReturnedPassed`). Neither `Exclusive` nor any
bound is assumed.

### Webhook

`InjectContainerOK` says what `injectContainer` returns: the container with its
gaps filled. `InjectAgain` and `MutateAgain` are idempotence, under whatever
identity. The invariant `PodHolds` says that a stored pod is its template, or its
template injected once with an identity that was complete, and why an update was
refused. The five properties of `pods` follow, for any templates and identities;
`PodsRefused` assumes only that the template was valid.

### Processes and scopes

The loops of `splitCSV` and `ParseScopeList` are recursive functions, and what
they return for a list of any length is proved by induction. The induction
theorems of the library take a predicate as a parameter, which the provers
cannot instantiate; `LoopInduction` therefore takes the set of the rounds after
which the predicate holds, and `LoopExists` takes the body of a loop as a
function. Both come from the well-foundedness of `<` on the naturals (`WFMin`).

`OneManager` and `RunningUsable`: the invariant `LeaseInv` says that a
configuration comes from the flags of its process and is valid, and that a
process that is active and elects holds the lease. `SplitCSVOK` gives that no
trusted audience is blank.

`ScopesCarryMeaning` and `ScopesWrittenOnce`: `ScopesHold` says that the
federated identity has known scopes without repetitions (`Distinct`), and after
a reconcile those that the list means. Of such lists `scopesEqual`, which
counts, compares just the sets (`ScopesEqualOK`).

### Only model-checked

Every safety invariant, every action property without fairness and both
refinements that a passing run checks are stated by a theorem. Liveness (`EventuallyProvisioned`,
`DeletionCompletes`, `EventuallyProvisionedSA`, `ReadyRecurs`,
`CleanupCompletes`, `ControllersGetToRun`) needs fairness and ENABLED, which the
provers do not handle, and stays with TLC.

## Not modelled, and the plan

- Generated code, CRDs and charts have no behaviour of their own; of the chart
  only the webhook's registration is used. RBAC is not modelled.
- The HTTP client, metrics, health endpoints and logging are pure I/O.
- The hash in `ResourceKey` and the truncation of display names: keys are taken
  as collision-free, and nothing is looked up by display name.
- An API effect that happens after its caller has given up, see above.
- Users who delete identity ConfigMaps.

Left to do: `FinalizerGuardsCloud`, `NoOrphan` and `ReadyIsBacked` for both
controllers in one manager, where no ServiceAccount has both a binding and
annotations: `SGuard` and `BGuard` side by side, with `MControl` and with `Kept`
for the steps of the other worker. The safety half of `CleanupCompletes` and
`DeletionCompletes` (what a delete has done is not undone before the finalizer
goes) is `Cleaned` and `BCleaned` already.
