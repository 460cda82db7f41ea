-------------------------- MODULE BindingController --------------------------
(***************************************************************************)
(* The WorkloadIdentityBinding controller: Reconcile, reconcileBinding and *)
(* patchStatus (internal/controller), driving the calls of                 *)
(* WorkloadIdentity against a Kubernetes API server it reads through a     *)
(* cache that lags behind.                                                 *)
(*                                                                         *)
(* Every Get reads the informer cache; every Update carries the resource   *)
(* version of the copy it was made from and is refused when the stored     *)
(* object has moved on.  Versions of bindings are abstracted: a copy is    *)
(* current when it equals the stored object.  ConfigMaps are read without  *)
(* lag: a stale copy of one shows as a write that fails.                   *)
(*                                                                         *)
(* Only bindings in watched namespaces are modelled (the others are        *)
(* filtered out on workloadidentitybinding_controller.go:45 and :106).     *)
(***************************************************************************)
EXTENDS ServiceAccounts

CONSTANTS
  wib,          \* the controller's worker
  Bindings,     \* names of WorkloadIdentityBindings
  SpecsOf       \* what a user may write in each binding

SpecType == [sa : K8sSAs, ref : [Kinds -> Refs \cup {None, Wildcard}], attrs : Attrs,
             deleteResources : BOOLEAN, identityConfigMap : BOOLEAN]

ASSUME ControllerAssumption ==
  /\ wib \in Workers
  /\ SpecsOf \in [Bindings -> SUBSET SpecType]

VARIABLES
  stored,    \* bindings in the API server
  cache,     \* the controller's copy of them
  cm,        \* identity ConfigMaps, one name per ServiceAccount
  queue,     \* bindings to reconcile
  rec,       \* the reconcile underway
  skipped    \* history: ServiceAccounts whose cleanup found no usable provider

kube == <<stored, cache, accounts, cm>>
control == <<queue, rec>>
kvars == <<stored, cache, sa, saCache, stale, cm, queue, rec, ops, skipped>>
allVars == <<vars, kvars>>

Observed == [phase : Phases, said : Nat, fid : Nat, policy : Targets \cup {None}]
StatusType == [phase : Phases, said : Nat, fid : Nat, policy : Targets \cup {None}, gen : Nat]
BindingType == [uid : Nat, gen : Nat, spec : SpecType, fin : BOOLEAN, del : BOOLEAN,
                st : StatusType]
Gone == [uid |-> 0]
NewStatus == [phase |-> "", said |-> NoId, fid |-> NoId, policy |-> None, gen |-> 0]

ConfigMapType == [owner : Bindings, uid : Nat, said : Nat]
NoCM == [uid |-> 0]

RecLabels == {"idle", "clear", "delete", "deleting", "removeFin", "addFin", "getSA",
              "ensuring", "configMap", "annotate", "patch"}
Obs(ph) == [phase |-> ph, said |-> NoId, fid |-> NoId, policy |-> None]
NoRec == [pc |-> "idle", b |-> None, obj |-> Gone, obs |-> Obs(""), again |-> FALSE]

validateDesired(d) == validateEnsureInput([ref |-> d.ref])

EnsureJob(o) == [op |-> "ensure", sa |-> o.spec.sa, ref |-> o.spec.ref,
                 attrs |-> o.spec.attrs, lenient |-> TRUE]

\* The policy recorded in the status is preferred to the one in the spec.
DeleteJob(o) ==
  [op |-> "delete", sa |-> o.spec.sa,
   ref |-> IF o.st.policy = None THEN o.spec.ref
           ELSE [o.spec.ref EXCEPT !["policy"] = o.st.policy],
   attrs |-> o.spec.attrs, lenient |-> TRUE]

(***************************************************************************)
(* The reconcile loop.                                                     *)
(***************************************************************************)
BInit ==
  /\ Init
  /\ stored = [b \in Bindings |-> Gone] /\ cache = stored
  /\ AccountsInit
  /\ cm = [s \in K8sSAs |-> NoCM]
  /\ queue = {} /\ rec = NoRec /\ skipped = {}

Goto(l) == rec' = [rec EXCEPT !.pc = l] /\ UNCHANGED queue

\* reconcileBinding returns an observation; again stands for an error or a requeue.
Report(o, again) ==
  rec' = [rec EXCEPT !.pc = "patch", !.obs = o, !.again = again] /\ UNCHANGED queue

Finish(again) == rec' = NoRec /\ queue' = IF again THEN queue \cup {rec.b} ELSE queue

\* The copy that an update was made from is current.
Current == rec.obj = stored[rec.b]

Reconcile(b) ==
  /\ rec.pc = "idle" /\ b \in queue
  /\ queue' = queue \ {b}
  /\ LET o == cache[b]
         Start(l) == rec' = [NoRec EXCEPT !.pc = l, !.b = b, !.obj = o] IN
     \/ /\ \/ o = Gone
           \/ o # Gone /\ o.del /\ ~o.fin
        /\ UNCHANGED rec
     \/ o # Gone /\ o.del /\ o.fin /\ Start("clear")
     \/ o # Gone /\ ~o.del /\ ~o.fin /\ Start("addFin")
     \/ /\ o # Gone /\ ~o.del /\ o.fin /\ ~validateDesired(o.spec)
        /\ rec' = [NoRec EXCEPT !.pc = "patch", !.b = b, !.obj = o, !.obs = Obs("Error")]
     \/ o # Gone /\ ~o.del /\ o.fin /\ validateDesired(o.spec) /\ Start("getSA")
  /\ UNCHANGED <<vars, kube, ops, skipped>>

\* clearServiceAccountIdentityAnnotations
WithoutIdentity_finalizerToo(c) ==
  [c EXCEPT !.said = NoId, !.fid = NoId, !.policy = None, !.org = FALSE, !.fin = FALSE]
WithoutIdentity(c) == [c EXCEPT !.said = NoId, !.fid = NoId, !.policy = None, !.org = FALSE]
ClearAnnotations ==
  /\ rec.pc = "clear"
  /\ LET s == rec.obj.spec.sa
         c == saCache[s]
         after == IF rec.obj.spec.deleteResources THEN "delete" ELSE "removeFin" IN
     \/ c = WithoutIdentity(c) /\ Goto(after) /\ UNCHANGED accounts
     \/ /\ c # WithoutIdentity(c) /\ s \notin stale
        /\ Write(s, WithoutIdentity(c))
        /\ Goto(after) \/ (~calm /\ Report(Obs("Error"), TRUE))
     \/ /\ c # WithoutIdentity(c) /\ (s \in stale \/ ~calm)
        /\ Report(Obs("Error"), TRUE) /\ UNCHANGED accounts
  /\ UNCHANGED <<vars, stored, cache, cm, ops, skipped>>

\* deleteCloudResources
BeginDelete ==
  /\ rec.pc = "delete"
  /\ Begin(wib, DeleteJob(rec.obj)) /\ Goto("deleting")
  /\ UNCHANGED <<kube, ops, skipped>>

DeleteReturned_dropError ==
  /\ rec.pc = "deleting" /\ Collect(wib) /\ Goto("removeFin")
  /\ UNCHANGED <<kube, ops, skipped>>
DeleteReturned ==
  /\ rec.pc = "deleting" /\ Collect(wib)
  /\ \/ /\ pc[wib] = "ok" /\ Goto("removeFin")
        /\ skipped' = IF reg[wib].idp = None THEN skipped \cup {rec.obj.spec.sa} ELSE skipped
     \/ pc[wib] = "failed" /\ Report(Obs("Error"), TRUE) /\ UNCHANGED skipped
  /\ UNCHANGED <<kube, ops>>

\* A binding being deleted is gone with its last finalizer.
RemoveFinalizer ==
  /\ rec.pc = "removeFin"
  /\ \/ /\ Current /\ stored' = [stored EXCEPT ![rec.b] = Gone]
        /\ Finish(FALSE) \/ (~calm /\ Finish(TRUE))
     \/ (~Current \/ ~calm) /\ Finish(TRUE) /\ UNCHANGED stored
  /\ UNCHANGED <<vars, cache, accounts, cm, ops, skipped>>

AddFinalizer ==
  /\ rec.pc = "addFin"
  /\ \/ /\ Current /\ stored' = [stored EXCEPT ![rec.b].fin = TRUE]
        /\ Report(Obs("Pending"), TRUE) \/ (~calm /\ Finish(TRUE))
     \/ (~Current \/ ~calm) /\ Finish(TRUE) /\ UNCHANGED stored
  /\ UNCHANGED <<vars, cache, accounts, cm, ops, skipped>>

\* A missing ServiceAccount and invalid scopes are reported without a retry.
GetServiceAccount ==
  /\ rec.pc = "getSA"
  /\ IF saCache[rec.obj.spec.sa].there /\ rec.obj.spec.attrs \notin BadAttrs
     THEN Begin(wib, EnsureJob(rec.obj)) /\ Goto("ensuring")
     ELSE Report(Obs("Error"), FALSE) /\ UNCHANGED vars
  /\ UNCHANGED <<kube, ops, skipped>>

EnsureReturned_ignoreError ==
  /\ rec.pc = "ensuring" /\ Collect(wib)
  /\ Report([phase |-> "Ready", said |-> reg[wib].said, fid |-> reg[wib].fid,
             policy |-> reg[wib].got["policy"]], FALSE)
  /\ UNCHANGED <<kube, ops, skipped>>
EnsureReturned ==
  /\ rec.pc = "ensuring" /\ Collect(wib)
  /\ \/ /\ pc[wib] = "ok"
        /\ rec' = [rec EXCEPT
             !.pc = IF rec.obj.spec.identityConfigMap THEN "configMap" ELSE "annotate",
             !.obs = [phase |-> "Ready", said |-> reg[wib].said, fid |-> reg[wib].fid,
                      policy |-> reg[wib].got["policy"]]]
        /\ UNCHANGED queue
     \/ pc[wib] = "notReady" /\ Report(Obs("Pending"), TRUE)
     \/ pc[wib] = "failed" /\ Report(Obs("Error"), TRUE)
  /\ UNCHANGED <<kube, ops, skipped>>

\* A ConfigMap controlled by another binding (by name) is left alone.
syncIdentityConfigMap ==
  /\ rec.pc = "configMap"
  /\ LET s == rec.obj.spec.sa
         foreign == cm[s] # NoCM /\ cm[s].owner # rec.b IN
     \/ /\ ~foreign
        /\ cm' = [cm EXCEPT ![s] = [owner |-> rec.b, uid |-> rec.obj.uid, said |-> rec.obs.said]]
        /\ Goto("annotate") \/ (~calm /\ Report(Obs("Error"), TRUE))
     \/ (foreign \/ ~calm) /\ Report(Obs("Error"), TRUE) /\ UNCHANGED cm
  /\ UNCHANGED <<vars, stored, cache, accounts, ops, skipped>>

annotateServiceAccountIdentity_blind ==
  /\ rec.pc = "annotate"
  /\ LET s == rec.obj.spec.sa
         c == saCache[s] IN
     \/ /\ c.there
        /\ Write(s, [c EXCEPT !.said = rec.obs.said, !.org = TRUE])
        /\ Report(rec.obs, FALSE) \/ (~calm /\ Report(Obs("Error"), TRUE))
     \/ (~c.there \/ ~calm) /\ Report(Obs("Error"), TRUE) /\ UNCHANGED accounts
  /\ UNCHANGED <<vars, stored, cache, cm, ops, skipped>>
annotateServiceAccountIdentity ==
  /\ rec.pc = "annotate"
  /\ LET s == rec.obj.spec.sa
         c == saCache[s] IN
     \/ /\ c.there /\ s \notin stale
        /\ Write(s, [c EXCEPT !.said = rec.obs.said, !.org = TRUE])
        /\ Report(rec.obs, FALSE) \/ (~calm /\ Report(Obs("Error"), TRUE))
     \/ (~c.there \/ s \in stale \/ ~calm) /\ Report(Obs("Error"), TRUE) /\ UNCHANGED accounts
  /\ UNCHANGED <<vars, stored, cache, cm, ops, skipped>>

\* The status of the latest copy, with the identities only when there are any;
\* the generation is the latest copy's, not the one reconciled.
NewStatusOf_obsOnly(c, o) == o
NewStatusOf_keepGeneration(c, o) ==
  [phase |-> o.phase, said |-> o.said, fid |-> o.fid, policy |-> o.policy, gen |-> c.st.gen]
NewStatusOf(c, o) ==
  IF o.said = NoId THEN [c.st EXCEPT !.phase = o.phase, !.gen = c.gen]
  ELSE [phase |-> o.phase, said |-> o.said, fid |-> o.fid, policy |-> o.policy, gen |-> c.gen]

patchStatus ==
  /\ rec.pc = "patch"
  /\ LET c == cache[rec.b] IN
     \/ /\ c # Gone /\ c = stored[rec.b]
        /\ stored' = [stored EXCEPT ![rec.b].st = NewStatusOf(c, rec.obs)]
        /\ Finish(rec.again) \/ (~calm /\ Finish(TRUE))
     \/ (c = Gone \/ c # stored[rec.b] \/ ~calm) /\ Finish(TRUE) /\ UNCHANGED stored
  /\ UNCHANGED <<vars, cache, accounts, cm, ops, skipped>>

\* The API calls of the ensure or delete underway.
CloudStep == Step(wib) /\ UNCHANGED kvars

(***************************************************************************)
(* The API server, its watches, and users.                                 *)
(***************************************************************************)
\* A watch event (SetupWithManager, For): the cache catches up and the binding is queued.
WatchEvent(b) ==
  /\ cache[b] # stored[b]
  /\ cache' = [cache EXCEPT ![b] = stored[b]]
  /\ queue' = queue \cup {b}
  /\ UNCHANGED <<vars, stored, accounts, cm, rec, ops, skipped>>

\* The informer's periodic resync; also the event of a status write that
\* changed nothing but lastReconcileTime.
Resync(b) ==
  /\ cache[b] # Gone /\ b \notin queue
  /\ queue' = queue \cup {b}
  /\ UNCHANGED <<vars, kube, rec, ops, skipped>>

\* ServiceAccounts are cached, and their events queue nothing.
SyncServiceAccount(s) ==
  /\ Refresh(s)
  /\ UNCHANGED <<vars, stored, cache, cm, control, ops, skipped>>

\* Kubernetes deletes a ConfigMap whose owner is gone.
CollectGarbage(s) ==
  /\ cm[s] # NoCM /\ stored[cm[s].owner].uid # cm[s].uid
  /\ cm' = [cm EXCEPT ![s] = NoCM]
  /\ UNCHANGED <<vars, stored, cache, accounts, control, ops, skipped>>

\* The process dies, and starts (or another leader does) with fresh caches.
Restart ==
  /\ Crash
  /\ rec' = NoRec /\ cache' = stored /\ RefreshAll
  /\ queue' = {b \in Bindings : stored[b] # Gone}
  /\ UNCHANGED <<stored, cm, ops, skipped>>

UserStep == UserOp /\ UNCHANGED <<vars, cache, accounts, cm, control, skipped>>

UserCreate(b, d) ==
  /\ stored[b] = Gone /\ UserStep
  /\ stored' = [stored EXCEPT ![b] = [uid |-> ops + 1, gen |-> 1, spec |-> d, fin |-> FALSE,
                                      del |-> FALSE, st |-> NewStatus]]

UserEdit(b, d) ==
  /\ stored[b] # Gone /\ stored[b].spec # d /\ UserStep
  /\ stored' = [stored EXCEPT ![b].spec = d, ![b].gen = @ + 1]

\* A finalizer turns a deletion into a mark, which counts as a new generation.
UserDelete(b) ==
  /\ stored[b] # Gone /\ ~stored[b].del /\ UserStep
  /\ LET o == stored[b] IN
     stored' = [stored EXCEPT ![b] = IF o.fin THEN [o EXCEPT !.del = TRUE, !.gen = o.gen + 1] ELSE Gone]

\* A ServiceAccount is created, or deleted with its annotations.
UserTogglesSA(s) ==
  /\ CreateSA(s) \/ DeleteSA(s)
  /\ UNCHANGED <<vars, stored, cache, cm, control, skipped>>

World == /\ \/ ChangeIdPs \/ Stabilise
            \/ \E n \in Names, t \in Targets \cup {None} : Rename(n, t)
         /\ UNCHANGED kvars

ControllerStep ==
  \/ ClearAnnotations \/ BeginDelete \/ DeleteReturned \/ RemoveFinalizer
  \/ AddFinalizer \/ GetServiceAccount \/ EnsureReturned
  \/ syncIdentityConfigMap \/ annotateServiceAccountIdentity \/ patchStatus
  \/ CloudStep

BNext ==
  \/ ControllerStep
  \/ \E b \in Bindings : \/ Reconcile(b) \/ WatchEvent(b) \/ Resync(b)
                         \/ UserDelete(b)
                         \/ \E d \in SpecsOf[b] : UserCreate(b, d) \/ UserEdit(b, d)
  \/ \E s \in K8sSAs : SyncServiceAccount(s) \/ CollectGarbage(s) \/ UserTogglesSA(s)
  \/ Restart
  \/ World

BSpec == BInit /\ [][BNext]_allVars

\* The goroutine keeps going, the work queue is first come first served,
\* watches deliver, and the informer resyncs.  Nothing forces the world to
\* become calm; the liveness properties say what follows when it does.
Fairness ==
  /\ WF_allVars(ControllerStep)
  /\ \A b \in Bindings : /\ SF_allVars(Reconcile(b))
                         /\ WF_allVars(WatchEvent(b)) /\ WF_allVars(Resync(b))
  /\ \A s \in K8sSAs : WF_allVars(SyncServiceAccount(s)) /\ WF_allVars(CollectGarbage(s))

FairSpec == BSpec /\ Fairness

(***************************************************************************)
(* Properties.                                                             *)
(***************************************************************************)
BTypeOK ==
  /\ stored \in [Bindings -> BindingType \cup {Gone}]
  /\ cache \in [Bindings -> BindingType \cup {Gone}]
  /\ AccountsTypeOK
  /\ cm \in [K8sSAs -> ConfigMapType \cup {NoCM}]
  /\ queue \subseteq Bindings
  /\ rec \in [pc : RecLabels, b : Bindings \cup {None}, obj : BindingType \cup {Gone},
              obs : Observed, again : BOOLEAN]
  /\ skipped \subseteq K8sSAs

\* ConditionReady (types.go:8): while a binding that nobody is deleting says
\* Ready, the account and the federated identity in its status exist and belong
\* together, and the policy in its status is granted.
ReadyIsBacked ==
  \A b \in Bindings :
    LET o == stored[b] IN
    o # Gone /\ ~o.del /\ o.st.phase = "Ready" =>
      /\ \E s \in sas : s.id = o.st.said
      /\ \E f \in fis : f.id = o.st.fid /\ f.sa = o.st.said
      /\ o.st.policy # None => BindingsForSA(o.st.policy, o.st.said) # {}

\* The finalizer protocol: nothing is created for a binding before its finalizer
\* is stored, and the finalizer stays until the cleanup of the current spec has
\* succeeded.  So an account in the cloud always has a binding that will remove
\* it, also where bindings share a ServiceAccount, provided that the issuer
\* stays and that specs ask for it and keep their ServiceAccount (and unless a
\* cleanup found no provider and was skipped).
NoOrphan ==
  (/\ \A i, j \in Issuers : i = j
   /\ \A b \in Bindings : \A d, e \in SpecsOf[b] : d.deleteResources /\ d.sa = e.sa)
  => \A x \in sas \cup fis :
       \/ x.key[1] \in skipped
       \/ \E b \in Bindings : stored[b] # Gone /\ stored[b].fin /\ stored[b].spec.sa = x.key[1]

\* Everything a binding asks for can be had.
Wanted(b) ==
  LET o == stored[b] IN
  /\ o # Gone /\ ~o.del
  /\ validateDesired(o.spec) /\ o.spec.attrs \notin BadAttrs /\ sa[o.spec.sa].there
  /\ \E p \in idps : idps = {p} /\ IssuerOf[p] # NoIssuer
  /\ \A k \in Kinds : o.spec.ref[k] # None =>
       LET t == Resolve(k, o.spec.ref[k]) IN t # None /\ RefAllowed(k, o.spec.ref[k], t)

\* Binding b says Ready for its current generation, and what the current
\* generation asks for is in the cloud and on the ServiceAccount.
Provisioned(b) ==
  LET o == stored[b] IN
  /\ o.st.phase = "Ready" /\ o.st.gen = o.gen
  /\ sa[o.spec.sa].said = o.st.said
  /\ \E s \in sas : s.id = o.st.said /\ s.key[1] = o.spec.sa
  /\ \E f \in fis : f.id = o.st.fid /\ f.sa = o.st.said /\ f.attrs = o.spec.attrs
  /\ \A k \in Kinds : o.spec.ref[k] # None =>
       BindingsForSA(Resolve(k, o.spec.ref[k]), o.st.said) # {}

\* Whatever failed, crashed, conflicted or was edited before: once the faults
\* stop, a binding that can be provisioned ends up provisioned and stays so.
EventuallyProvisioned ==
  \A b \in Bindings : <>[](calm /\ Wanted(b)) => <>[](stored[b] # Gone /\ Provisioned(b))

\* Once the faults stop, a binding being deleted goes away, unless the cluster
\* has several providers (ProviderAmbiguous blocks the delete).
DeletionCompletes ==
  \A b \in Bindings :
    (calm /\ stored[b] # Gone /\ stored[b].del /\ Cardinality(idps) <= 1) ~> (stored[b] = Gone)

\* types.go:61 "DeleteResources deletes managed Thalassa resources when this
\* binding is deleted."  With bindings that all ask for it, and a provider that
\* was always there, nothing managed is left once there are no bindings.
DeleteResourcesLeavesNothing ==
  (/\ \A b \in Bindings : stored[b] = Gone /\ \A d \in SpecsOf[b] : d.deleteResources
   /\ rec = NoRec /\ skipped = {})
  => sas = {} /\ fis = {} /\ \A g \in grants : ~g.managed
=============================================================================
