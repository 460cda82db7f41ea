------------------------ MODULE AnnotationController ------------------------
(***************************************************************************)
(* The ServiceAccount annotation controller (serviceaccount_controller.go, *)
(* --enable-serviceaccount-annotations): ServiceAccounts opt in with       *)
(* annotations, carry the finalizer themselves, and get the outcome back   *)
(* as annotations.                                                         *)
(*                                                                         *)
(* Reconcile makes one copy of the object at the start, from which the     *)
(* finalizer is updated; patchStatus makes its own copy.                   *)
(***************************************************************************)
EXTENDS ServiceAccounts

CONSTANT wsa    \* the controller's worker

ASSUME AnnotationAssumption == wsa \in Workers

VARIABLES
  squeue,    \* ServiceAccounts to reconcile
  srec       \* the reconcile underway

scontrol == <<squeue, srec>>
svars == <<sa, saCache, stale, ops, squeue, srec>>
annVars == <<vars, svars>>

SRecLabels == {"idle", "delete", "deleting", "removeFin", "addFin", "pending", "ensuring",
               "ready", "report"}
ResultType == [said : Nat, fid : Nat, policy : Targets \cup {None}]
NoResult == [said |-> NoId, fid |-> NoId, policy |-> None]
\* obj is the copy made at the start, fresh while it is the latest version.
NoSRec == [pc |-> "idle", s |-> None, obj |-> NoSA, fresh |-> FALSE, res |-> NoResult,
           status |-> "", again |-> FALSE]

EnsureJobSA(s, o) == [op |-> "ensure", sa |-> s, ref |-> o.want.ref, attrs |-> o.want.attrs,
                      lenient |-> FALSE]

\* The resolved policy in the annotations is preferred to the one asked for.
DeleteJobSA(s, o) ==
  [op |-> "delete", sa |-> s,
   ref |-> IF o.policy = None THEN o.want.ref ELSE [o.want.ref EXCEPT !["policy"] = o.policy],
   attrs |-> o.want.attrs, lenient |-> FALSE]

\* The event filter.
Watched_statusOnly(o) == o.there /\ o.status # ""
Watched_enabledOnly(o) == o.there /\ o.want.enabled
Watched(o) == o.there /\ (o.want.enabled \/ o.fin \/ o.status # "")

AnnInit ==
  /\ Init /\ AccountsInit
  /\ squeue = {s \in K8sSAs : Watched(sa[s])} /\ srec = NoSRec

(***************************************************************************)
(* The reconcile loop.                                                     *)
(***************************************************************************)
GotoSA(l) == srec' = [srec EXCEPT !.pc = l] /\ UNCHANGED squeue
ReportSA(st) == srec' = [srec EXCEPT !.pc = "report", !.status = st, !.again = TRUE]
                /\ UNCHANGED squeue
FinishSA(again) == srec' = NoSRec /\ squeue' = IF again THEN squeue \cup {srec.s} ELSE squeue

ReconcileSA(s) ==
  /\ srec.pc = "idle" /\ s \in squeue
  /\ squeue' = squeue \ {s}
  /\ LET o == saCache[s]
         out == o.del \/ ~o.want.enabled
         Start(l) == srec' = [NoSRec EXCEPT !.pc = l, !.s = s, !.obj = o, !.fresh = s \notin stale] IN
     \/ ~o.there /\ UNCHANGED srec
     \/ o.there /\ out /\ ~o.fin /\ UNCHANGED srec
     \/ o.there /\ out /\ o.fin
        /\ Start(IF o.want.deleteResources THEN "delete" ELSE "removeFin")
     \/ o.there /\ ~out /\ ~o.fin /\ Start("addFin")
     \/ /\ o.there /\ ~out /\ o.fin
        /\ ~validateEnsureInput(o.want) \/ o.want.attrs \in BadAttrs
        /\ srec' = [NoSRec EXCEPT !.pc = "report", !.s = s, !.obj = o, !.status = "Error"]
     \/ /\ o.there /\ ~out /\ o.fin
        /\ validateEnsureInput(o.want) /\ o.want.attrs \notin BadAttrs
        /\ Start("pending")
  /\ UNCHANGED <<vars, accounts, ops>>

\* deleteCloudResources
BeginDeleteSA ==
  /\ srec.pc = "delete"
  /\ Begin(wsa, DeleteJobSA(srec.s, srec.obj)) /\ GotoSA("deleting")
  /\ UNCHANGED <<accounts, ops>>

DeleteReturnedSA_dropError ==
  /\ srec.pc = "deleting" /\ Collect(wsa) /\ GotoSA("removeFin")
  /\ UNCHANGED <<accounts, ops>>
DeleteReturnedSA ==
  /\ srec.pc = "deleting" /\ Collect(wsa)
  /\ \/ pc[wsa] = "ok" /\ GotoSA("removeFin")
     \/ pc[wsa] = "failed" /\ ReportSA("Error")
  /\ UNCHANGED <<accounts, ops>>

\* A ServiceAccount being deleted is gone with its last finalizer; one that
\* opted out keeps its status and identities.
RemoveFinalizerSA ==
  /\ srec.pc = "removeFin"
  /\ \/ /\ srec.fresh
        /\ Write(srec.s, IF srec.obj.del THEN NoSA ELSE [srec.obj EXCEPT !.fin = FALSE])
        /\ FinishSA(FALSE) \/ (~calm /\ FinishSA(TRUE))
     \/ (~srec.fresh \/ ~calm) /\ FinishSA(TRUE) /\ UNCHANGED accounts
  /\ UNCHANGED <<vars, ops>>

AddFinalizerSA ==
  /\ srec.pc = "addFin"
  /\ FinishSA(TRUE)
  /\ \/ srec.fresh /\ Write(srec.s, [srec.obj EXCEPT !.fin = TRUE])
     \/ (~srec.fresh \/ ~calm) /\ UNCHANGED accounts
  /\ UNCHANGED <<vars, ops>>

\* What patchStatus writes on its copy c.
Patched_swapped(c, st, r) == [c EXCEPT !.status = st, !.said = r.said, !.fid = r.fid, !.policy = st]
Patched_statusOnly(c, st, r) == [c EXCEPT !.status = st]
Patched(c, st, r) ==
  IF r = NoResult THEN [c EXCEPT !.status = st]
  ELSE [c EXCEPT !.status = st, !.said = r.said, !.fid = r.fid, !.policy = r.policy]

\* patchStatus returns no error (ok) or one.
patchAnnotations_blind(st, r, ok) ==
  LET s == srec.s IN
  \/ ok /\ WriteStamped(s, Patched(saCache[s], st, r))
  \/ ~ok /\ (~saCache[s].there \/ ~calm) /\ UNCHANGED accounts
patchAnnotations(st, r, ok) ==
  LET s == srec.s
      c == saCache[s] IN
  \/ /\ c.there /\ s \notin stale /\ (ok \/ ~calm)
     /\ WriteStamped(s, Patched(c, st, r))
  \/ /\ ~ok /\ (~c.there \/ s \in stale \/ ~calm)
     /\ UNCHANGED accounts

\* Pending is written before the call, whatever becomes of the write.
MarkPending ==
  /\ srec.pc = "pending"
  /\ \E ok \in BOOLEAN : patchAnnotations("Pending", NoResult, ok)
  /\ Begin(wsa, EnsureJobSA(srec.s, srec.obj)) /\ GotoSA("ensuring")
  /\ UNCHANGED ops

EnsureReturnedSA_ignoreError ==
  /\ srec.pc = "ensuring" /\ Collect(wsa)
  /\ srec' = [srec EXCEPT !.pc = "ready", !.res = [said |-> reg[wsa].said, fid |-> reg[wsa].fid,
                                                   policy |-> reg[wsa].got["policy"]]]
  /\ UNCHANGED <<accounts, ops, squeue>>
EnsureReturnedSA ==
  /\ srec.pc = "ensuring" /\ Collect(wsa)
  /\ \/ /\ pc[wsa] = "ok"
        /\ srec' = [srec EXCEPT !.pc = "ready",
             !.res = [said |-> reg[wsa].said, fid |-> reg[wsa].fid, policy |-> reg[wsa].got["policy"]]]
        /\ UNCHANGED squeue
     \/ pc[wsa] = "notReady" /\ ReportSA("Pending")
     \/ pc[wsa] = "failed" /\ ReportSA("Error")
  /\ UNCHANGED <<accounts, ops>>

\* The error of this write is returned.
MarkReady ==
  /\ srec.pc = "ready"
  /\ \E ok \in BOOLEAN : patchAnnotations("Ready", srec.res, ok) /\ FinishSA(~ok)
  /\ UNCHANGED <<vars, ops>>

\* The error of this write is dropped.
PatchReport ==
  /\ srec.pc = "report"
  /\ \E ok \in BOOLEAN : patchAnnotations(srec.status, NoResult, ok)
  /\ FinishSA(srec.again)
  /\ UNCHANGED <<vars, ops>>

\* The API calls of the ensure or delete underway.
CloudStepSA == Step(wsa) /\ UNCHANGED svars

AnnotationStep ==
  \/ BeginDeleteSA \/ DeleteReturnedSA \/ RemoveFinalizerSA \/ AddFinalizerSA
  \/ MarkPending \/ EnsureReturnedSA \/ MarkReady \/ PatchReport \/ CloudStepSA

(***************************************************************************)
(* Watches, restarts and users.                                            *)
(***************************************************************************)
\* A deletion is filtered on the last copy.
WatchSA(s) ==
  /\ Refresh(s)
  /\ squeue' = IF Watched(IF sa[s].there THEN sa[s] ELSE saCache[s]) THEN squeue \cup {s} ELSE squeue
  /\ UNCHANGED <<vars, ops, srec>>

ResyncSA(s) ==
  /\ Watched(saCache[s]) /\ s \notin squeue
  /\ squeue' = squeue \cup {s}
  /\ UNCHANGED <<vars, accounts, ops, srec>>

RestartSA ==
  /\ Crash /\ RefreshAll
  /\ srec' = NoSRec /\ squeue' = {s \in K8sSAs : Watched(sa[s])}
  /\ UNCHANGED ops

\* Somebody else's write makes the copy of the reconcile underway an old one.
Overtake(s) == srec' = IF srec.s = s THEN [srec EXCEPT !.fresh = FALSE] ELSE srec

UserSA(s) ==
  /\ CreateSA(s) \/ AnnotateSA(s) \/ DeleteSA(s)
  /\ Overtake(s) /\ UNCHANGED <<vars, squeue>>

WorldSA == /\ \/ ChangeIdPs \/ Stabilise
              \/ \E n \in Names, t \in Targets \cup {None} : Rename(n, t)
           /\ UNCHANGED svars

AnnNext ==
  \/ AnnotationStep
  \/ \E s \in K8sSAs : ReconcileSA(s) \/ WatchSA(s) \/ ResyncSA(s) \/ UserSA(s)
  \/ RestartSA
  \/ WorldSA

AnnSpec == AnnInit /\ [][AnnNext]_annVars

\* The goroutine keeps going, the work queue is first come first served,
\* watches deliver, and the informer resyncs.
FairAnnSpec ==
  /\ AnnSpec
  /\ WF_annVars(AnnotationStep)
  /\ \A s \in K8sSAs : SF_annVars(ReconcileSA(s)) /\ WF_annVars(WatchSA(s)) /\ WF_annVars(ResyncSA(s))

(***************************************************************************)
(* Properties.                                                             *)
(***************************************************************************)
STypeOK ==
  /\ AccountsTypeOK
  /\ squeue \subseteq K8sSAs
  /\ srec \in [pc : SRecLabels, s : K8sSAs \cup {None}, obj : ServiceAccountType, fresh : BOOLEAN,
               res : ResultType, status : Phases, again : BOOLEAN]

\* The account, the federated identity and the policy named on o are in the
\* cloud and belong together.
BackedSA(s, o) ==
  /\ \E x \in sas : x.id = o.said /\ x.key[1] = s
  /\ \E f \in fis : f.id = o.fid /\ f.sa = o.said
  /\ o.policy # None => BindingsForSA(o.policy, o.said) # {}

\* The finalizer protocol of Reconcile: nothing is made in the cloud for a
\* ServiceAccount before the finalizer is on it, and the finalizer stays until
\* the cleanup has succeeded, through opting in and out, deletion, conflicts and
\* restarts; unlike the binding controller's, a cleanup without a provider is
\* no success.  (Annotations that ask for deletion, one issuer.)
FinalizerGuardsCloud ==
  (/\ \A s \in K8sSAs : \A w \in WantsOf[s] : w.deleteResources
   /\ \A i, j \in Issuers : i = j)
  => \A x \in sas \cup fis : sa[x.key[1]].there /\ sa[x.key[1]].fin

\* patchStatus works on a copy of its own, made after the calls: what it marks
\* Ready is in the cloud at that moment, under the identities it writes.
ReadyWhenWritten ==
  [][\A s \in K8sSAs :
       sa'[s] # sa[s] /\ sa'[s].status = "Ready" /\ sa[s].status # "Ready" => BackedSA(s, sa'[s])]_annVars

\* Annotations that users edited, ServiceAccounts that they deleted and marks of
\* deletion are never undone by a controller that has not seen it: an update
\* made from an old copy is refused.
NoLostUpdate ==
  [][\A s \in K8sSAs : ops' = ops /\ sa'[s].there =>
       sa[s].there /\ sa'[s].want = sa[s].want /\ sa'[s].del = sa[s].del]_annVars

ProviderUsable == \E i \in idps : idps = {i} /\ IssuerOf[i] # NoIssuer

\* Everything that ServiceAccount s asks for can be had.
WantedSA(s) ==
  LET w == sa[s].want IN
  /\ sa[s].there /\ ~sa[s].del /\ w.enabled
  /\ validateEnsureInput(w) /\ w.attrs \notin BadAttrs
  /\ ProviderUsable
  /\ \A k \in Kinds : w.ref[k] # None =>
       LET t == Resolve(k, w.ref[k]) IN t # None /\ RefAllowed(k, w.ref[k], t)

\* It is in the cloud.
ProvisionedSA(s) ==
  \E x \in sas, f \in fis :
    /\ x.key[1] = s /\ f.sa = x.id /\ f.attrs = sa[s].want.attrs
    /\ \A k \in Kinds : sa[s].want.ref[k] # None =>
         BindingsForSA(Resolve(k, sa[s].want.ref[k]), x.id) # {}

\* Whatever failed before: once the faults stop, a ServiceAccount that can be
\* provisioned is provisioned for good, and its status is not Error.
EventuallyProvisionedSA ==
  \A s \in K8sSAs :
    <>[](calm /\ WantedSA(s)) => <>[](sa[s].fin /\ ProvisionedSA(s) /\ sa[s].status # "Error")

\* Every reconcile writes Pending and then Ready, and its own writes queue the
\* next one, so that the status never settles.  It is Ready again and again,
\* with identities that are there, provided the cache catches up during one
\* call after another (a Ready written from an old copy is refused).
ReadyRecurs ==
  \A s \in K8sSAs :
    (/\ <>[](calm /\ WantedSA(s))
     /\ []<>(srec.pc = "ensuring" /\ srec.s = s /\ s \notin stale))
    => []<>(sa[s].status = "Ready" /\ BackedSA(s, sa[s]))

\* Once the faults stop, a ServiceAccount that is deleted or opts out gets rid
\* of its finalizer, if there is a provider to clean up at.
CleanupCompletes ==
  \A s \in K8sSAs :
    (calm /\ sa[s].fin /\ (sa[s].del \/ ~sa[s].want.enabled) /\ ProviderUsable)
    ~> (~sa[s].fin \/ (sa[s].want.enabled /\ ~sa[s].del))
=============================================================================
