-------------------------- MODULE WorkloadIdentity --------------------------
(***************************************************************************)
(* Package internal/wif: EnsureWorkloadIdentity and DeleteWorkloadIdentity *)
(* running against the Thalassa IAM API.  Each API call is one step, so    *)
(* calls of different workers interleave between any two of them, a call   *)
(* may fail before or after it took effect, and the process may crash      *)
(* between any two.                                                        *)
(*                                                                         *)
(* The IAM service is external.  It is modelled from the IAMClient         *)
(* interface (ensure.go:18-37) and the fake the repository tests with      *)
(* (ensure_test.go:26-181): unique identities, no uniqueness of labels or  *)
(* names, no cascading deletes, and a delete of what is gone succeeds.     *)
(* A request takes effect, if at all, before its caller sees the outcome.  *)
(*                                                                         *)
(* Abstractions of data: ResourceKey's hash (subject.go:32-41) is taken as *)
(* injective, so a key is the pair (Kubernetes SA, issuer) and stands for  *)
(* all five OwnershipLabels; scopes, audiences and display names are one   *)
(* value, attrs; an allowlist entry or a ref is a target's identity or a   *)
(* name (slug or display name).                                            *)
(***************************************************************************)
EXTENDS Naturals, FiniteSets

CONSTANTS
  Workers,      \* reconcile workers: one per controller (MaxConcurrentReconciles = 1)
  K8sSAs,       \* Kubernetes ServiceAccounts (namespace/name)
  IdPs,         \* identity providers that may carry this cluster's label
  Issuers,      \* normalised issuers
  IssuerOf,     \* the issuer of each provider, NoIssuer when it is empty
  NoIssuer,
  Targets,      \* identities of IAM policies and organisation roles
  KindOf,       \* which of the two a target is
  Names,        \* slugs and names by which a target may be referred to
  Attrs,        \* scopes, audiences and name of a federated identity
  Allowlist,    \* --allowed-policies / --allowed-roles; empty allows all
  JobsOf,       \* the calls a worker may make
  None,         \* no reference / no provider
  Wildcard,     \* the reference "*"
  MaxId         \* bound: the identities the cloud hands out

Kinds == {"policy", "role"}
Refs == Targets \cup Names
Keys == K8sSAs \X Issuers
NoId == 0                  \* identities the cloud hands out start at 1

JobType == [op : {"ensure", "delete"}, sa : K8sSAs,
            ref : [Kinds -> Refs \cup {None, Wildcard}],
            attrs : Attrs, lenient : BOOLEAN]

ASSUME ConstantsAssumption ==
  /\ IssuerOf \in [IdPs -> Issuers \cup {NoIssuer}]
  /\ NoIssuer \notin Issuers
  /\ None \notin IdPs \cup Refs
  /\ Wildcard \notin Refs \cup {None}
  /\ Targets \cap Names = {}
  /\ KindOf \in [Targets -> Kinds]
  /\ Allowlist \in [Kinds -> SUBSET Refs]
  /\ JobsOf \in [Workers -> SUBSET JobType]
  /\ MaxId \in Nat

VARIABLES
  sas,      \* Thalassa service accounts
  fis,      \* federated identities
  grants,   \* policy bindings and role bindings
  nextId,   \* the next identity the cloud hands out
  idps,     \* providers labelled with this cluster's identity
  named,    \* what each slug or name currently denotes
  calm,     \* no more faults, crashes or administrator activity
  pc, job, reg   \* each worker's program counter, call and local variables

cloud == <<sas, fis, grants, nextId>>
world == <<idps, named, calm>>
local == <<pc, job, reg>>
vars == <<sas, fis, grants, nextId, idps, named, calm, pc, job, reg>>

EnsureCalls == {"listSA", "createSA", "listFI", "createFI", "updateFI",
                "resolve", "listGrant", "createGrant"}
DeleteCalls == {"dListFI", "dDeleteFI", "dListSA", "dResolve", "dListGrant",
                "dDeleteGrant", "dDeleteSA"}
Returned == {"ok", "notReady", "failed"}
Labels == {"idle", "provider"} \cup EnsureCalls \cup DeleteCalls \cup Returned

RegType == [idp : IdPs \cup {None}, said : Nat, fid : Nat,
            kind : Kinds \cup {"start", "done"},
            got : [Kinds -> Targets \cup {None}], todo : SUBSET Nat]
NoReg == [idp |-> None, said |-> NoId, fid |-> NoId, kind |-> "start",
          got |-> [k \in Kinds |-> None], todo |-> {}]
NoJob == [op |-> "none"]

(***************************************************************************)
(* Pure parts of the code.                                                 *)
(***************************************************************************)
Key(w) == <<job[w].sa, IssuerOf[reg[w].idp]>>

\* The lists the code walks come back in no particular order; the first match is any match.
findByLabelsSA_anyLabel(k) == sas
findByLabelsSA_none(k) == {}
findByLabelsSA(k) == {s \in sas : s.key = k}

findByLabelsFI_none(k) == {}
findByLabelsFI(k) == {f \in fis : f.key = k}

BindingsForSA_none(t, s) == {}
BindingsForSA(t, s) == {g \in grants : g.target = t /\ g.sa = s}

ManagedBindingsForSA_all(t, s) == BindingsForSA(t, s)
ManagedBindingsForSA(t, s) == {g \in BindingsForSA(t, s) : g.managed}

\* fiNeedsUpdate compares neither the service account nor the provider.
fiNeedsUpdate_never(f, a) == FALSE
fiNeedsUpdate(f, a) == f.attrs # a

\* Identity first, then slug or name, among the policies or among the roles;
\* None when nothing matches.
Resolve_raw(k, r) == r
Resolve(k, r) == LET t == IF r \in Names THEN named[r] ELSE r IN
                 IF t \in Targets /\ KindOf[t] = k THEN t ELSE None

\* Candidates are the reference, the resolved identity and its slug and name.
RefAllowed_always(k, r, t) == TRUE
RefAllowed(k, r, t) ==
  \/ Allowlist[k] = {}
  \/ Allowlist[k] \cap ({r, t} \cup {n \in Names : named[n] = t}) # {}

validateEnsureInput(j) ==
  /\ \E k \in Kinds : j.ref[k] # None
  /\ \A k \in Kinds : j.ref[k] # Wildcard

\* The policy is handled before the role, and a reference left out is skipped.
NextKind(j, k) == IF k = "start" /\ j.ref["policy"] # None THEN "policy"
                  ELSE IF k # "role" /\ j.ref["role"] # None THEN "role"
                  ELSE "done"
LabelFor_keepSA(j, k) == IF k = "done" THEN "ok"
                         ELSE IF j.op = "ensure" THEN "resolve" ELSE "dResolve"
LabelFor(j, k) ==
  IF j.op = "ensure" THEN (IF k = "done" THEN "ok" ELSE "resolve")
                     ELSE (IF k = "done" THEN "dDeleteSA" ELSE "dResolve")

(***************************************************************************)
(* Steps of a worker.                                                      *)
(***************************************************************************)
Init ==
  /\ sas = {} /\ fis = {} /\ grants = {} /\ nextId = NoId + 1
  /\ idps \in SUBSET IdPs
  /\ named \in [Names -> Targets \cup {None}]
  /\ calm = FALSE
  /\ pc = [w \in Workers |-> "idle"]
  /\ job = [w \in Workers |-> NoJob]
  /\ reg = [w \in Workers |-> NoReg]

At(w, l) == pc[w] = l

\* Worker w goes on to l, its local variables being r.
Go(w, l, r) == /\ pc' = [pc EXCEPT ![w] = l]
               /\ reg' = [reg EXCEPT ![w] = r]

\* Only the error is returned.
Fail(w) == Go(w, "failed", NoReg)

\* A write whose effect is in the cloud may still be reported as an error.
Reply(w, l, r) == Go(w, l, r) \/ (~calm /\ Fail(w))

\* With reference r.kind dealt with, the call goes on to its next one; after a write, Reply.
GoAfterRef(w, r) == LET k == NextKind(job[w], r.kind) IN
                    Go(w, LabelFor(job[w], k), [r EXCEPT !.kind = k])
ReplyAfterRef(w, r) == LET k == NextKind(job[w], r.kind) IN
                       Reply(w, LabelFor(job[w], k), [r EXCEPT !.kind = k])

Begin(w, j) ==
  /\ At(w, "idle") /\ j \in JobsOf[w]
  /\ job' = [job EXCEPT ![w] = j]
  /\ Go(w, IF j.op = "ensure" /\ ~validateEnsureInput(j) THEN "failed" ELSE "provider", NoReg)
  /\ UNCHANGED <<cloud, world>>

\* The caller has taken the result.
Collect(w) ==
  /\ pc[w] \in Returned
  /\ job' = [job EXCEPT ![w] = NoJob]
  /\ Go(w, "idle", NoReg)
  /\ UNCHANGED <<cloud, world>>

FindProviderByClusterID(w) ==
  /\ At(w, "provider")
  /\ \E p \in idps :
       /\ idps = {p} /\ IssuerOf[p] # NoIssuer
       /\ Go(w, IF job[w].op = "ensure" THEN "listSA" ELSE "dListFI",
                [reg[w] EXCEPT !.idp = p])
  /\ UNCHANGED <<cloud, world, job>>

\* No provider: an ensure waits; the binding controller's delete (lenient)
\* skips the cloud, the ServiceAccount controller's delete is an error.
ProviderMissing_strict(w) ==
  /\ At(w, "provider") /\ idps = {}
  /\ Go(w, IF job[w].op = "ensure" THEN "notReady" ELSE "failed", NoReg)
  /\ UNCHANGED <<cloud, world, job>>
ProviderMissing(w) ==
  /\ At(w, "provider") /\ idps = {}
  /\ Go(w, IF job[w].op = "ensure" THEN "notReady"
           ELSE IF job[w].lenient THEN "ok" ELSE "failed", NoReg)
  /\ UNCHANGED <<cloud, world, job>>

ProviderWithoutIssuer(w) ==
  /\ At(w, "provider")
  /\ \E p \in idps : idps = {p} /\ IssuerOf[p] = NoIssuer
  /\ Go(w, IF job[w].op = "delete" /\ job[w].lenient THEN "ok" ELSE "failed", NoReg)
  /\ UNCHANGED <<cloud, world, job>>

ProviderAmbiguous(w) ==
  /\ At(w, "provider")
  /\ \E p, q \in idps : p # q
  /\ Fail(w)
  /\ UNCHANGED <<cloud, world, job>>

ListServiceAccounts(w) ==
  /\ At(w, "listSA")
  /\ \/ findByLabelsSA(Key(w)) = {} /\ Go(w, "createSA", reg[w])
     \/ \E s \in findByLabelsSA(Key(w)) : Go(w, "listFI", [reg[w] EXCEPT !.said = s.id])
  /\ UNCHANGED <<cloud, world, job>>

CreateServiceAccount(w) ==
  /\ At(w, "createSA") /\ nextId <= MaxId
  /\ sas' = sas \cup {[id |-> nextId, key |-> Key(w)]}
  /\ nextId' = nextId + 1
  /\ Reply(w, "listFI", [reg[w] EXCEPT !.said = nextId])
  /\ UNCHANGED <<fis, grants, world, job>>

ListFederatedIdentities(w) ==
  /\ At(w, "listFI")
  /\ \/ findByLabelsFI(Key(w)) = {} /\ Go(w, "createFI", reg[w])
     \/ \E f \in findByLabelsFI(Key(w)) :
          LET r == [reg[w] EXCEPT !.fid = f.id] IN
          IF fiNeedsUpdate(f, job[w].attrs) THEN Go(w, "updateFI", r) ELSE GoAfterRef(w, r)
  /\ UNCHANGED <<cloud, world, job>>

CreateFederatedIdentity(w) ==
  /\ At(w, "createFI") /\ nextId <= MaxId
  /\ fis' = fis \cup {[id |-> nextId, key |-> Key(w), sa |-> reg[w].said,
                       prov |-> reg[w].idp, attrs |-> job[w].attrs]}
  /\ nextId' = nextId + 1
  /\ ReplyAfterRef(w, [reg[w] EXCEPT !.fid = nextId])
  /\ UNCHANGED <<sas, grants, world, job>>

\* Updating what another worker has deleted is an error.
UpdateFederatedIdentity(w) ==
  /\ At(w, "updateFI")
  /\ \/ \E f \in fis :
          /\ f.id = reg[w].fid
          /\ fis' = (fis \ {f}) \cup {[f EXCEPT !.attrs = job[w].attrs]}
          /\ ReplyAfterRef(w, reg[w])
     \/ /\ \A f \in fis : f.id # reg[w].fid
        /\ Fail(w) /\ UNCHANGED fis
  /\ UNCHANGED <<sas, grants, nextId, world, job>>

\* resolveIamPolicy or resolveOrganisationRole, then CheckRefAllowlist.
ResolveRef(w) ==
  /\ At(w, "resolve")
  /\ LET k == reg[w].kind
         r == job[w].ref[k]
         t == Resolve(k, r) IN
     IF t # None /\ RefAllowed(k, r, t)
     THEN Go(w, "listGrant", [reg[w] EXCEPT !.got[k] = t])
     ELSE Fail(w)
  /\ UNCHANGED <<cloud, world, job>>

\* hasPolicyBindingForSA, hasRoleBindingForSA
ListBindings(w) ==
  /\ At(w, "listGrant")
  /\ IF BindingsForSA(reg[w].got[reg[w].kind], reg[w].said) = {}
     THEN Go(w, "createGrant", reg[w])
     ELSE GoAfterRef(w, reg[w])
  /\ UNCHANGED <<cloud, world, job>>

\* CreateIamPolicyBinding, CreateRoleBinding
CreateBinding(w) ==
  /\ At(w, "createGrant") /\ nextId <= MaxId
  /\ grants' = grants \cup {[id |-> nextId, target |-> reg[w].got[reg[w].kind],
                             sa |-> reg[w].said, managed |-> TRUE]}
  /\ nextId' = nextId + 1
  /\ ReplyAfterRef(w, reg[w])
  /\ UNCHANGED <<sas, fis, world, job>>

DeleteListFI(w) ==
  /\ At(w, "dListFI")
  /\ \/ findByLabelsFI(Key(w)) = {} /\ Go(w, "dListSA", reg[w])
     \/ \E f \in findByLabelsFI(Key(w)) : Go(w, "dDeleteFI", [reg[w] EXCEPT !.fid = f.id])
  /\ UNCHANGED <<cloud, world, job>>

DeleteFederatedIdentity_dropError(w) ==
  /\ At(w, "dDeleteFI")
  /\ fis' \in {fis, {f \in fis : f.id # reg[w].fid}}
  /\ Go(w, "dListSA", reg[w])
  /\ UNCHANGED <<sas, grants, nextId, world, job>>
DeleteFederatedIdentity(w) ==
  /\ At(w, "dDeleteFI")
  /\ fis' = {f \in fis : f.id # reg[w].fid}
  /\ Reply(w, "dListSA", reg[w])
  /\ UNCHANGED <<sas, grants, nextId, world, job>>

\* Without a service account there is nothing left to delete.
DeleteListSA(w) ==
  /\ At(w, "dListSA")
  /\ \/ findByLabelsSA(Key(w)) = {} /\ Go(w, "ok", reg[w])
     \/ \E s \in findByLabelsSA(Key(w)) : GoAfterRef(w, [reg[w] EXCEPT !.said = s.id])
  /\ UNCHANGED <<cloud, world, job>>

\* An error of resolve is dropped: the bindings of that reference are skipped.
DeleteResolve(w) ==
  /\ At(w, "dResolve")
  /\ LET k == reg[w].kind
         t == Resolve(k, job[w].ref[k]) IN
     \/ t # None /\ Go(w, "dListGrant", [reg[w] EXCEPT !.got[k] = t])
     \/ (t = None \/ ~calm) /\ GoAfterRef(w, reg[w])
  /\ UNCHANGED <<cloud, world, job>>

DeleteListBindings(w) ==
  /\ At(w, "dListGrant")
  /\ LET owned == ManagedBindingsForSA(reg[w].got[reg[w].kind], reg[w].said) IN
     IF owned = {} THEN GoAfterRef(w, reg[w])
     ELSE Go(w, "dDeleteGrant", [reg[w] EXCEPT !.todo = {g.id : g \in owned}])
  /\ UNCHANGED <<cloud, world, job>>

\* One turn of the loop; the last one goes on to the next reference.
DeleteBinding(w) ==
  /\ At(w, "dDeleteGrant")
  /\ \E i \in reg[w].todo :
       LET r == [reg[w] EXCEPT !.todo = @ \ {i}] IN
       /\ grants' = {g \in grants : g.id # i}
       /\ IF r.todo = {} THEN ReplyAfterRef(w, r) ELSE Reply(w, "dDeleteGrant", r)
  /\ UNCHANGED <<sas, fis, nextId, world, job>>

DeleteServiceAccount(w) ==
  /\ At(w, "dDeleteSA")
  /\ sas' = {s \in sas : s.id # reg[w].said}
  /\ Reply(w, "ok", reg[w])
  /\ UNCHANGED <<fis, grants, nextId, world, job>>

\* An API call fails without effect.
CallFails(w) ==
  /\ ~calm
  /\ pc[w] \in ({"provider"} \cup EnsureCalls \cup DeleteCalls) \ {"dResolve"}
  /\ Fail(w)
  /\ UNCHANGED <<cloud, world, job>>

Step(w) ==
  \/ FindProviderByClusterID(w) \/ ProviderMissing(w)
  \/ ProviderWithoutIssuer(w) \/ ProviderAmbiguous(w)
  \/ ListServiceAccounts(w) \/ CreateServiceAccount(w)
  \/ ListFederatedIdentities(w) \/ CreateFederatedIdentity(w)
  \/ UpdateFederatedIdentity(w)
  \/ ResolveRef(w) \/ ListBindings(w) \/ CreateBinding(w)
  \/ DeleteListFI(w) \/ DeleteFederatedIdentity(w) \/ DeleteListSA(w)
  \/ DeleteResolve(w) \/ DeleteListBindings(w) \/ DeleteBinding(w)
  \/ DeleteServiceAccount(w)
  \/ CallFails(w)

(***************************************************************************)
(* The rest of the world.                                                  *)
(***************************************************************************)
\* The controller process dies (or loses its lease) with its calls underway.
Crash ==
  /\ ~calm
  /\ pc' = [w \in Workers |-> "idle"]
  /\ job' = [w \in Workers |-> NoJob]
  /\ reg' = [w \in Workers |-> NoReg]
  /\ UNCHANGED <<cloud, world>>

\* Providers are labelled and unlabelled by the platform, never by this code.
ChangeIdPs ==
  /\ ~calm
  /\ idps' \in SUBSET IdPs /\ idps' # idps
  /\ UNCHANGED <<cloud, named, calm, local>>

\* A policy or role is renamed, created or removed.
Rename(n, t) ==
  /\ ~calm
  /\ named' = [named EXCEPT ![n] = t]
  /\ UNCHANGED <<cloud, idps, calm, local>>

\* An administrator grants something to a service account of the controller.
AdminGrant(t, s) ==
  /\ ~calm /\ nextId <= MaxId
  /\ \A g \in BindingsForSA(t, s.id) : g.managed
  /\ grants' = grants \cup {[id |-> nextId, target |-> t, sa |-> s.id, managed |-> FALSE]}
  /\ nextId' = nextId + 1
  /\ UNCHANGED <<sas, fis, world, local>>

Stabilise == ~calm /\ calm' = TRUE /\ UNCHANGED <<cloud, idps, named, local>>

Next ==
  \/ \E w \in Workers : \/ \E j \in JobsOf[w] : Begin(w, j)
                        \/ Step(w) \/ Collect(w)
  \/ Crash
  \/ ChangeIdPs
  \/ \E n \in Names, t \in Targets \cup {None} : Rename(n, t)
  \/ \E t \in Targets, s \in sas : AdminGrant(t, s)
  \/ Stabilise

Spec == Init /\ [][Next]_vars

(***************************************************************************)
(* Properties.                                                             *)
(***************************************************************************)
TypeOK ==
  /\ sas \subseteq [id : Nat, key : Keys]
  /\ fis \subseteq [id : Nat, key : Keys, sa : Nat, prov : IdPs, attrs : Attrs]
  /\ grants \subseteq [id : Nat, target : Targets, sa : Nat, managed : BOOLEAN]
  /\ nextId \in Nat \ {NoId}
  /\ idps \subseteq IdPs
  /\ named \in [Names -> Targets \cup {None}]
  /\ calm \in BOOLEAN
  /\ pc \in [Workers -> Labels]
  /\ job \in [Workers -> JobType \cup {NoJob}]
  /\ reg \in [Workers -> RegType]

\* No two workers are ever given calls about the same Kubernetes
\* ServiceAccount: bindings and annotations are not used for the same one.
Exclusive ==
  \A v, w \in Workers : v # w =>
    \A i \in JobsOf[v], j \in JobsOf[w] : i.sa # j.sa

\* However often calls are repeated, fail half-way, lose their reply or die
\* with the process, list-before-create (ensureServiceAccount,
\* ensureFederatedIdentity) never leaves two service accounts or two federated
\* identities for one key.  DeleteWorkloadIdentity relies on it: it removes
\* only the first match.
UniqueIdentity ==
  /\ \A s, t \in sas : s.key = t.key => s = t
  /\ \A f, g \in fis : f.key = g.key => f = g

\* ensurePolicyBinding / ensureRoleBinding never grant the same target to the
\* same service account twice, across retries, crashes and lost replies.
UniqueGrant ==
  \A g, h \in grants :
    g.managed /\ h.managed /\ g.target = h.target /\ g.sa = h.sa => g = h

\* A federated identity never outlives the service account it federates, and
\* never points at the account of another key: the order of deletion in
\* DeleteWorkloadIdentity (FI first, SA last) holds under every interruption,
\* although ensureFederatedIdentity never corrects the account of an existing FI.
FederatedIdentityBacked ==
  \A f \in fis : \E s \in sas : s.id = f.sa /\ s.key = f.key

\* When EnsureWorkloadIdentity returns without error its result is true of the
\* cloud: the account and the federated identity it names exist, belong
\* together and carry the wanted scopes, and every reference is granted.
EnsureComplete ==
  \A w \in Workers : At(w, "ok") /\ job[w].op = "ensure" =>
    /\ \E s \in sas : s.id = reg[w].said /\ s.key = Key(w)
    /\ \E f \in fis : /\ f.id = reg[w].fid /\ f.key = Key(w)
                      /\ f.sa = reg[w].said /\ f.attrs = job[w].attrs
    /\ \A k \in Kinds : job[w].ref[k] # None =>
         BindingsForSA(reg[w].got[k], reg[w].said) # {}

\* When DeleteWorkloadIdentity returns without error and the provider was
\* found, nothing under the key is left, nor any managed grant of a reference
\* that could be resolved.
DeleteComplete ==
  \A w \in Workers : At(w, "ok") /\ job[w].op = "delete" /\ reg[w].idp # None =>
    /\ findByLabelsSA(Key(w)) = {} /\ findByLabelsFI(Key(w)) = {}
    /\ \A k \in Kinds : reg[w].got[k] # None =>
         \A g \in grants : g.managed => ~(g.target = reg[w].got[k] /\ g.sa = reg[w].said)

\* With allowlists of identities, no managed grant is ever for a target that is
\* not allowed, whatever names denote between CheckRefAllowlist and the grant.
\* (An allowlisted name allows whatever it denotes at that moment.)
AllowlistRespected ==
  (\A k \in Kinds : Allowlist[k] \subseteq Targets) =>
    \A g \in grants : g.managed =>
      LET allowed == Allowlist[KindOf[g.target]] IN allowed = {} \/ g.target \in allowed

\* What disappears from the cloud was the subject of a delete call for the very
\* Kubernetes ServiceAccount that owned it; grants made by others
\* (without the managed-by label) are never removed, and an ensure removes nothing.
RemovesOnlyOwn ==
  [][LET Deleting(k) == \E w \in Workers :
           job[w].op = "delete" /\ pc[w] \in DeleteCalls /\ Key(w) = k IN
     /\ \A s \in sas \ sas' : Deleting(s.key)
     /\ \A f \in fis : Deleting(f.key) \/ \E g \in fis' : g.id = f.id /\ g.sa = f.sa
     /\ \A g \in grants \ grants' :
          g.managed /\ \E s \in sas : s.id = g.sa /\ Deleting(s.key)]_vars

\* ensure.go:177 "DeleteWorkloadIdentity removes controller-owned FI, bindings,
\* and SA when present."  For references by identity, which always resolve.
DeleteRemovesBindings ==
  \A w \in Workers : At(w, "ok") /\ job[w].op = "delete" /\ reg[w].idp # None =>
    \A k \in Kinds : job[w].ref[k] \in Targets /\ KindOf[job[w].ref[k]] = k =>
      \A g \in grants : g.managed => ~(g.target = job[w].ref[k] /\ g.sa = reg[w].said)
=============================================================================
