---------------------- MODULE AnnotationControllerProofs ----------------------
(***************************************************************************)
(* Theorems about AnnotationController, for every set of ServiceAccounts,  *)
(* annotations and calls: what Reconcile holds in its copy of the object,  *)
(* what it writes, and that the finalizer guards what is in the cloud.     *)
(***************************************************************************)
EXTENDS AnnotationController, ServiceAccountsProofs, WorkloadIdentityProofs

-----------------------------------------------------------------------------
(* The calls it makes. *)

\* A step of the annotation controller is a step of its worker, or leaves the
\* cloud and the call underway alone.
LEMMA AnnotationStepRefines ==
  ASSUME AnnotationStep
  PROVE  [Next]_vars
<1>1. wsa \in Workers
  BY AnnotationAssumption
<1>2. ASSUME NEW j, Begin(wsa, j) PROVE Next
  <2>1. j \in JobsOf[wsa]
    BY <1>2 DEF Begin
  <2> QED BY <1>1, <1>2, <2>1 DEF Next
<1>3. CASE BeginDeleteSA \/ MarkPending
  BY <1>2, <1>3 DEF BeginDeleteSA, MarkPending
<1>4. CASE DeleteReturnedSA \/ EnsureReturnedSA
  BY <1>1, <1>4 DEF DeleteReturnedSA, EnsureReturnedSA, Next
<1>5. CASE CloudStepSA
  BY <1>1, <1>5 DEF CloudStepSA, Next
<1>6. CASE RemoveFinalizerSA \/ AddFinalizerSA \/ MarkReady \/ PatchReport
  BY <1>6 DEF RemoveFinalizerSA, AddFinalizerSA, MarkReady, PatchReport
<1> QED BY <1>3, <1>4, <1>5, <1>6 DEF AnnotationStep

\* Starting a reconcile, watches and users do not touch the cloud or a call.
LEMMA AccountStepRefines ==
  ASSUME NEW s, ReconcileSA(s) \/ WatchSA(s) \/ ResyncSA(s) \/ UserSA(s)
  PROVE  UNCHANGED vars
  BY DEF ReconcileSA, WatchSA, ResyncSA, UserSA

\* Reconcile begins every EnsureWorkloadIdentity and DeleteWorkloadIdentity it
\* is allowed to, awaits it, and touches the cloud in no other way.
LEMMA AnnotationsImplementCalls == AnnSpec => Spec
<1>1. AnnInit => Init
  BY DEF AnnInit
<1>2. [AnnNext]_annVars => [Next]_vars
  <2>1. CASE UNCHANGED annVars
    BY <2>1 DEF annVars
  <2>2. CASE RestartSA
    BY <2>2 DEF RestartSA, Next
  <2>3. CASE WorldSA
    BY <2>3 DEF WorldSA, Next
  <2> QED BY <2>1, <2>2, <2>3, AnnotationStepRefines, AccountStepRefines DEF AnnNext
<1> QED BY <1>1, <1>2, PTL DEF AnnSpec, Spec

\* Running alone, the annotation controller never makes a second account or
\* federated identity for a ServiceAccount, and never deletes another's.
THEOREM AnnotationsKeepIdentities ==
  ASSUME Workers = {wsa} PROVE AnnSpec => []UniqueIdentity /\ RemovesOnlyOwn
<1>1. Exclusive
  BY DEF Exclusive
<1> QED BY <1>1, AnnotationsImplementCalls, NoDuplicateIdentity, DeletesOnlyOwn, PTL

-----------------------------------------------------------------------------
(* The reconcile underway. *)

SRecType == [pc : SRecLabels, s : K8sSAs \cup {None}, obj : ServiceAccountType, fresh : BOOLEAN,
             res : ResultType, status : Phases, again : BOOLEAN]
Leaving == {"delete", "deleting", "removeFin"}
OnCopy == Leaving \cup {"addFin"}
Out(o) == o.del \/ ~o.want.enabled

\* Reconcile has an account that was there and was annotated by a user; it goes
\* for the finalizer only if the copy had opted out or was being deleted; and a
\* copy that nobody has overtaken is the stored object and the cached one.
Held ==
  srec.pc # "idle" =>
    /\ srec.s \in K8sSAs /\ srec.obj.there /\ srec.obj.want \in WantsOf[srec.s]
    /\ srec.pc \in Leaving => Out(srec.obj)
    /\ srec.pc \in OnCopy /\ srec.fresh => srec.s \notin stale /\ srec.obj = sa[srec.s]
ReportsOnly == srec.pc = "report" => srec.status \in {"Error", "Pending"}

SHeld == STypeOK /\ Coherent /\ WantsKnown /\ Held /\ ReportsOnly

\* What a step of the controller may do to the account it reconciles, o before
\* and n after: nothing, the end of it, or a change of one of its own fields.
Effect(o, n) ==
  \/ n = o
  \/ srec.pc = "removeFin" /\ srec.s \notin stale /\ Out(o) /\ n = NoSA
  \/ /\ o.there /\ n.there /\ n.want = o.want /\ n.del = o.del /\ n.org = o.org
     /\ Identities(n) # Identities(o) => srec.pc = "ready" /\ Identities(n) = srec.res
     /\ \/ srec.pc = "removeFin" /\ srec.s \notin stale /\ Out(o) /\ n.status = o.status
        \/ srec.pc = "addFin" /\ n.fin /\ n.status = o.status
        \/ srec.pc = "pending" /\ n.fin = o.fin /\ n.status = "Pending"
        \/ srec.pc = "report" /\ n.fin = o.fin /\ n.status = srec.status
        \/ srec.pc = "ready" /\ n.fin = o.fin /\ n = Patched(o, "Ready", srec.res)
Effects == /\ saCache' = saCache /\ ops' = ops
           /\ \A s \in K8sSAs : IF srec.pc # "idle" /\ s = srec.s THEN Effect(sa[s], sa'[s])
                                ELSE sa'[s] = sa[s]

LEMMA NoSRecType == NoSRec \in SRecType /\ NoSRec.pc = "idle"
  BY NoSAType DEF NoSRec, SRecType, SRecLabels, NoResult, ResultType, NoId, Phases

LEMMA PatchedType ==
  ASSUME NEW c \in ServiceAccountType, NEW st \in Phases, NEW r \in ResultType
  PROVE  /\ Patched(c, st, r) \in ServiceAccountType
         /\ Patched(c, st, r).there = c.there /\ Patched(c, st, r).want = c.want
         /\ Patched(c, st, r).fin = c.fin /\ Patched(c, st, r).del = c.del
         /\ Patched(c, st, r).org = c.org /\ Patched(c, st, r).status = st
         /\ Identities(Patched(c, st, r)) = IF r = NoResult THEN Identities(c) ELSE r
         /\ r # NoResult => /\ Patched(c, st, r).said = r.said /\ Patched(c, st, r).fid = r.fid
                            /\ Patched(c, st, r).policy = r.policy
<1>1. CASE r = NoResult
  BY <1>1 DEF Patched, ServiceAccountType, Identities
<1>2. CASE r # NoResult
  BY <1>2 DEF Patched, ServiceAccountType, ResultType, Identities
<1> QED BY <1>1, <1>2

\* A write that is not refused starts from the stored object.
LEMMA PatchOK ==
  ASSUME AccountsOK, WantsKnown, NEW s \in K8sSAs, s = srec.s, NEW st \in Phases, NEW r \in ResultType,
         NEW ok, patchAnnotations(st, r, ok)
  PROVE  /\ Coherent' /\ WantsKnown' /\ saCache' = saCache /\ stale' \subseteq K8sSAs
         /\ sa' \in [K8sSAs -> ServiceAccountType]
         /\ \A t \in K8sSAs : t # s => sa'[t] = sa[t]
         /\ sa'[s] = sa[s] \/ (sa[s].there /\ sa'[s] = Patched(sa[s], st, r))
<1>1. CASE UNCHANGED accounts
  BY <1>1 DEF accounts, AccountsOK, AccountsTypeOK, Coherent, WantsKnown
<1>2. CASE saCache[s].there /\ s \notin stale /\ WriteStamped(s, Patched(saCache[s], st, r))
  <2>1. saCache[s] = sa[s] /\ sa[s] \in ServiceAccountType
    BY <1>2 DEF AccountsOK, AccountsTypeOK, Coherent
  <2>2. Patched(sa[s], st, r) \in ServiceAccountType /\ Patched(sa[s], st, r).want = sa[s].want
    BY <2>1, PatchedType
  <2>3. WriteStamped(s, Patched(sa[s], st, r))
    BY <1>2, <2>1
  <2>4. /\ Coherent' /\ saCache' = saCache /\ stale' \subseteq K8sSAs
        /\ sa' \in [K8sSAs -> ServiceAccountType]
        /\ \A t \in K8sSAs : t # s => sa'[t] = sa[t]
        /\ sa'[s] = Patched(sa[s], st, r)
    BY <2>2, <2>3, WriteOK
  <2> QED BY <1>2, <2>1, <2>2, <2>4 DEF WantsKnown
<1> QED BY <1>1, <1>2 DEF patchAnnotations

\* The steps that touch nothing but the reconcile underway.
LEMMA ControlOK ==
  ASSUME SHeld, UNCHANGED <<accounts, ops>>, squeue' \subseteq K8sSAs, srec' \in SRecType,
         Held', ReportsOnly'
  PROVE  SHeld' /\ Effects
  BY DEF SHeld, STypeOK, AccountsTypeOK, Coherent, WantsKnown, SRecType, accounts, Effects, Effect

\* Reconcile starts with the copy in the cache.
LEMMA ReconcileOK ==
  ASSUME SHeld, NEW s \in K8sSAs, ReconcileSA(s)
  PROVE  SHeld' /\ Effects
<1>1. /\ UNCHANGED <<accounts, ops>> /\ squeue' \subseteq K8sSAs /\ srec.pc = "idle"
      /\ srec \in SRecType
  BY DEF ReconcileSA, SHeld, STypeOK, SRecType
<1>2. saCache[s] \in ServiceAccountType /\ (s \notin stale => saCache[s] = sa[s])
  BY DEF SHeld, STypeOK, AccountsTypeOK, Coherent
<1>3. CASE UNCHANGED srec
  BY <1>1, <1>3, ControlOK DEF Held, ReportsOnly
<1>4. ASSUME saCache[s].there,
             NEW l \in SRecLabels \ {"idle"}, l # "report", l \in Leaving => Out(saCache[s]),
             srec' = [NoSRec EXCEPT !.pc = l, !.s = s, !.obj = saCache[s], !.fresh = s \notin stale]
      PROVE  SHeld' /\ Effects
  <2>1. /\ srec' \in SRecType /\ srec'.pc = l /\ srec'.s = s /\ srec'.obj = saCache[s]
        /\ srec'.fresh <=> s \notin stale
    BY <1>2, <1>4, NoSRecType DEF SRecType
  <2>2. saCache[s].want \in WantsOf[s]
    BY <1>4 DEF SHeld, WantsKnown
  <2>3. Held' /\ ReportsOnly'
    BY <1>1, <1>2, <1>4, <2>1, <2>2 DEF Held, ReportsOnly, accounts
  <2> QED BY <1>1, <2>1, <2>3, ControlOK
<1>5. CASE /\ saCache[s].there
           /\ srec' = [NoSRec EXCEPT !.pc = "report", !.s = s, !.obj = saCache[s], !.status = "Error"]
  <2>1. /\ srec' \in SRecType /\ srec'.pc = "report" /\ srec'.s = s /\ srec'.obj = saCache[s]
        /\ srec'.status = "Error"
    BY <1>2, <1>5, NoSRecType DEF SRecType, SRecLabels, Phases
  <2>2. saCache[s].want \in WantsOf[s]
    BY <1>5 DEF SHeld, WantsKnown
  <2>3. Held' /\ ReportsOnly'
    BY <1>1, <1>5, <2>1, <2>2 DEF Held, ReportsOnly, Leaving, OnCopy
  <2> QED BY <1>1, <2>1, <2>3, ControlOK
<1> QED BY <1>3, <1>4, <1>5 DEF ReconcileSA, Leaving, SRecLabels, Out

\* The controller goes on with the account it has.
LEMMA GotoOK ==
  ASSUME SHeld, srec.pc # "idle", UNCHANGED <<accounts, ops, squeue>>, srec' \in SRecType,
         srec'.s = srec.s, srec'.obj = srec.obj, srec'.fresh = srec.fresh,
         srec'.pc \in OnCopy => srec.pc \in OnCopy,
         srec'.pc \in Leaving => srec.pc \in Leaving,
         srec'.pc = "report" => srec'.status \in {"Error", "Pending"}
  PROVE  SHeld' /\ Effects
<1>1. Held' /\ ReportsOnly'
  BY DEF SHeld, Held, ReportsOnly, accounts
<1>2. squeue' \subseteq K8sSAs
  BY DEF SHeld, STypeOK
<1> QED BY <1>1, <1>2, ControlOK

\* The controller is done with the account, which may have been written.
LEMMA FinishOK ==
  ASSUME SHeld, srec.pc # "idle", NEW again, FinishSA(again), ops' = ops,
         Coherent', WantsKnown', saCache' = saCache, stale' \subseteq K8sSAs,
         sa' \in [K8sSAs -> ServiceAccountType],
         \A t \in K8sSAs : t # srec.s => sa'[t] = sa[t],
         Effect(sa[srec.s], sa'[srec.s])
  PROVE  SHeld' /\ Effects
<1>1. /\ srec' = NoSRec /\ squeue' \subseteq K8sSAs
      /\ saCache' \in [K8sSAs -> ServiceAccountType] /\ ops' \in 0 .. MaxOps
  BY DEF FinishSA, SHeld, STypeOK, AccountsTypeOK, Held
<1>2. srec' \in SRecType /\ Held' /\ ReportsOnly'
  BY <1>1, NoSRecType DEF Held, ReportsOnly
<1> QED BY <1>1, <1>2 DEF SHeld, STypeOK, AccountsTypeOK, SRecType, Effects

LEMMA PatchThenFinishOK ==
  ASSUME SHeld, srec.pc \in {"ready", "report"}, NEW again, NEW ok, FinishSA(again), ops' = ops,
         \/ srec.pc = "ready" /\ patchAnnotations("Ready", srec.res, ok)
         \/ srec.pc = "report" /\ patchAnnotations(srec.status, NoResult, ok)
  PROVE  SHeld' /\ Effects
<1>1. /\ AccountsOK /\ WantsKnown /\ srec.s \in K8sSAs /\ sa[srec.s] \in ServiceAccountType
      /\ srec.res \in ResultType /\ NoResult \in ResultType /\ srec.status \in Phases
      /\ "Ready" \in Phases
  BY DEF SHeld, AccountsOK, STypeOK, AccountsTypeOK, Held, NoResult, ResultType, NoId, Phases
<1>2. PICK st \in Phases, r \in ResultType :
        /\ patchAnnotations(st, r, ok)
        /\ \/ srec.pc = "ready" /\ st = "Ready" /\ r = srec.res
           \/ srec.pc = "report" /\ st = srec.status /\ r = NoResult
  BY <1>1
<1>3. /\ Coherent' /\ WantsKnown' /\ saCache' = saCache /\ stale' \subseteq K8sSAs
      /\ sa' \in [K8sSAs -> ServiceAccountType]
      /\ \A t \in K8sSAs : t # srec.s => sa'[t] = sa[t]
      /\ \/ sa'[srec.s] = sa[srec.s]
         \/ sa[srec.s].there /\ sa'[srec.s] = Patched(sa[srec.s], st, r)
  BY <1>1, <1>2, PatchOK
<1>4. Effect(sa[srec.s], sa'[srec.s])
  <2>1. ASSUME NEW n, n = Patched(sa[srec.s], st, r), sa[srec.s].there PROVE Effect(sa[srec.s], n)
    <3>1. /\ n.there /\ n.want = sa[srec.s].want /\ n.del = sa[srec.s].del
          /\ n.org = sa[srec.s].org /\ n.fin = sa[srec.s].fin /\ n.status = st
          /\ Identities(n) = IF r = NoResult THEN Identities(sa[srec.s]) ELSE r
      <4>1. /\ Patched(sa[srec.s], st, r).there = sa[srec.s].there
            /\ Patched(sa[srec.s], st, r).want = sa[srec.s].want
            /\ Patched(sa[srec.s], st, r).del = sa[srec.s].del
            /\ Patched(sa[srec.s], st, r).org = sa[srec.s].org
            /\ Patched(sa[srec.s], st, r).fin = sa[srec.s].fin
            /\ Patched(sa[srec.s], st, r).status = st
            /\ Identities(Patched(sa[srec.s], st, r)) =
                 IF r = NoResult THEN Identities(sa[srec.s]) ELSE r
        BY <1>1, <1>2, PatchedType
      <4> QED BY <2>1, <4>1
    <3> QED BY <1>2, <2>1, <3>1 DEF Effect
  <2> QED BY <1>3, <2>1 DEF Effect
<1> QED BY <1>3, <1>4, FinishOK

LEMMA MarkPendingOK ==
  ASSUME SHeld, MarkPending
  PROVE  SHeld' /\ Effects
<1>1. /\ AccountsOK /\ WantsKnown /\ srec.s \in K8sSAs /\ sa[srec.s] \in ServiceAccountType
      /\ srec \in SRecType /\ "Pending" \in Phases /\ NoResult \in ResultType
  BY DEF SHeld, AccountsOK, STypeOK, AccountsTypeOK, Held, MarkPending, SRecType, NoResult,
         ResultType, NoId, Phases
<1>2. PICK ok \in BOOLEAN : patchAnnotations("Pending", NoResult, ok)
  BY DEF MarkPending
<1>3. /\ Coherent' /\ WantsKnown' /\ saCache' = saCache /\ stale' \subseteq K8sSAs
      /\ sa' \in [K8sSAs -> ServiceAccountType]
      /\ \A t \in K8sSAs : t # srec.s => sa'[t] = sa[t]
      /\ \/ sa'[srec.s] = sa[srec.s]
         \/ sa[srec.s].there /\ sa'[srec.s] = Patched(sa[srec.s], "Pending", NoResult)
  BY <1>1, <1>2, PatchOK
<1>4. Effect(sa[srec.s], sa'[srec.s])
  BY <1>1, <1>3, PatchedType DEF Effect, MarkPending
<1>5. /\ srec.pc = "pending" /\ srec' = [srec EXCEPT !.pc = "ensuring"]
      /\ squeue' = squeue /\ ops' = ops
  BY DEF MarkPending, GotoSA
<1>6. /\ srec' \in SRecType /\ srec'.pc = "ensuring" /\ srec'.s = srec.s /\ srec'.obj = srec.obj
  BY <1>1, <1>5 DEF SRecType, SRecLabels
<1>7. Held' /\ ReportsOnly'
  BY <1>5, <1>6 DEF SHeld, Held, ReportsOnly, Leaving, OnCopy
<1>8. STypeOK'
  BY <1>3, <1>5, <1>6 DEF SHeld, STypeOK, AccountsTypeOK, SRecType
<1> QED BY <1>3, <1>4, <1>5, <1>7, <1>8 DEF SHeld, Effects

\* The finalizer is written from the copy, if nobody has overtaken it.
LEMMA FinalizerWriteOK ==
  ASSUME SHeld, srec.pc \in {"removeFin", "addFin"}, NEW again, FinishSA(again), ops' = ops,
         \/ UNCHANGED accounts
         \/ srec.fresh /\ srec.pc = "addFin" /\ Write(srec.s, [srec.obj EXCEPT !.fin = TRUE])
         \/ /\ srec.fresh /\ srec.pc = "removeFin"
            /\ Write(srec.s, IF srec.obj.del THEN NoSA ELSE [srec.obj EXCEPT !.fin = FALSE])
  PROVE  SHeld' /\ Effects
<1>1. /\ AccountsOK /\ srec.s \in K8sSAs /\ sa[srec.s] \in ServiceAccountType
      /\ srec.obj \in ServiceAccountType /\ srec.obj.there /\ srec.obj.want \in WantsOf[srec.s]
      /\ srec.fresh => srec.s \notin stale /\ srec.obj = sa[srec.s]
      /\ srec.pc = "removeFin" => Out(srec.obj)
  BY DEF SHeld, AccountsOK, STypeOK, AccountsTypeOK, Held, OnCopy, Leaving
<1>2. CASE UNCHANGED accounts
  BY <1>2, FinishOK DEF accounts, SHeld, STypeOK, AccountsTypeOK, Coherent, WantsKnown, Effect
<1>3. ASSUME NEW o \in ServiceAccountType, Write(srec.s, o), o.there => o.want \in WantsOf[srec.s],
             Effect(sa[srec.s], o)
      PROVE  SHeld' /\ Effects
  <2>1. /\ Coherent' /\ saCache' = saCache /\ stale' \subseteq K8sSAs
        /\ sa' \in [K8sSAs -> ServiceAccountType] /\ sa'[srec.s] = o
        /\ \A t \in K8sSAs : t # srec.s => sa'[t] = sa[t]
    BY <1>1, <1>3, WriteOK
  <2>2. WantsKnown'
    BY <1>3, <2>1 DEF SHeld, WantsKnown
  <2> QED BY <1>3, <2>1, <2>2, FinishOK
<1>4. \A fin \in BOOLEAN :
        LET o == [srec.obj EXCEPT !.fin = fin] IN
        /\ o \in ServiceAccountType /\ o.there /\ o.want = srec.obj.want /\ o.del = srec.obj.del
        /\ o.org = srec.obj.org /\ o.status = srec.obj.status /\ o.fin = fin
        /\ Identities(o) = Identities(srec.obj)
  BY <1>1 DEF ServiceAccountType, Identities
<1>5. CASE srec.fresh /\ srec.pc = "addFin" /\ Write(srec.s, [srec.obj EXCEPT !.fin = TRUE])
  <2> DEFINE o == [srec.obj EXCEPT !.fin = TRUE]
  <2>1. o \in ServiceAccountType /\ o.want \in WantsOf[srec.s] /\ Effect(sa[srec.s], o)
    BY <1>1, <1>4, <1>5 DEF Effect
  <2> HIDE DEF o
  <2>2. Write(srec.s, o)
    BY <1>5 DEF o
  <2> QED BY <1>3, <2>1, <2>2
<1>6. CASE srec.fresh /\ srec.pc = "removeFin" /\ srec.obj.del /\ Write(srec.s, NoSA)
  BY <1>1, <1>3, <1>6, NoSAType DEF Effect
<1>7. CASE /\ srec.fresh /\ srec.pc = "removeFin"
           /\ Write(srec.s, [srec.obj EXCEPT !.fin = FALSE])
  <2> DEFINE o == [srec.obj EXCEPT !.fin = FALSE]
  <2>1. o \in ServiceAccountType /\ o.want \in WantsOf[srec.s] /\ Effect(sa[srec.s], o)
    BY <1>1, <1>4, <1>7 DEF Effect
  <2> HIDE DEF o
  <2>2. Write(srec.s, o)
    BY <1>7 DEF o
  <2> QED BY <1>3, <2>1, <2>2
<1> QED BY <1>2, <1>5, <1>6, <1>7

LEMMA AnnotationStepOK ==
  ASSUME TypeOK, SHeld, AnnotationStep
  PROVE  SHeld' /\ Effects
<1>1. srec \in SRecType
  BY DEF SHeld, STypeOK, SRecType
<1>2. ASSUME srec.pc # "idle", NEW l \in SRecLabels \ {"report"}, GotoSA(l), UNCHANGED <<accounts, ops>>,
             l \in OnCopy => srec.pc \in OnCopy, l \in Leaving => srec.pc \in Leaving
      PROVE  SHeld' /\ Effects
  <2>1. /\ srec' \in SRecType /\ srec'.pc = l /\ srec'.s = srec.s /\ srec'.obj = srec.obj
        /\ srec'.fresh = srec.fresh /\ squeue' = squeue
    BY <1>1, <1>2 DEF GotoSA, SRecType
  <2> QED BY <1>2, <2>1, GotoOK
<1>3. ASSUME srec.pc # "idle", NEW st \in {"Error", "Pending"}, ReportSA(st), UNCHANGED <<accounts, ops>>
      PROVE  SHeld' /\ Effects
  <2>1. /\ srec' \in SRecType /\ srec'.pc = "report" /\ srec'.s = srec.s /\ srec'.obj = srec.obj
        /\ srec'.fresh = srec.fresh /\ srec'.status = st /\ squeue' = squeue
    BY <1>1, <1>3 DEF ReportSA, SRecType, SRecLabels, Phases
  <2> QED BY <1>3, <2>1, GotoOK DEF OnCopy, Leaving
<1>4. CASE BeginDeleteSA
  BY <1>2, <1>4 DEF BeginDeleteSA, OnCopy, Leaving, SRecLabels
<1>5. CASE DeleteReturnedSA
  BY <1>2, <1>3, <1>5 DEF DeleteReturnedSA, OnCopy, Leaving, SRecLabels
<1>6. CASE EnsureReturnedSA
  <2>1. ASSUME srec' = [srec EXCEPT !.pc = "ready", !.res = [said |-> reg[wsa].said,
                          fid |-> reg[wsa].fid, policy |-> reg[wsa].got["policy"]]],
               squeue' = squeue
        PROVE  SHeld' /\ Effects
    <3>1. [said |-> reg[wsa].said, fid |-> reg[wsa].fid, policy |-> reg[wsa].got["policy"]] \in ResultType
      BY AnnotationAssumption DEF TypeOK, RegType, ResultType, Kinds
    <3>2. /\ srec' \in SRecType /\ srec'.pc = "ready" /\ srec'.s = srec.s /\ srec'.obj = srec.obj
          /\ srec'.fresh = srec.fresh
      BY <1>1, <2>1, <3>1 DEF SRecType, SRecLabels
    <3> QED BY <1>6, <2>1, <3>2, GotoOK DEF EnsureReturnedSA, OnCopy, Leaving
  <2> QED BY <1>3, <1>6, <2>1 DEF EnsureReturnedSA
<1>7. CASE RemoveFinalizerSA \/ AddFinalizerSA
  BY <1>7, FinalizerWriteOK DEF RemoveFinalizerSA, AddFinalizerSA
<1>8. CASE MarkPending
  BY <1>8, MarkPendingOK
<1>9. CASE MarkReady
  BY <1>9, PatchThenFinishOK DEF MarkReady
<1>10. CASE PatchReport
  BY <1>10, PatchThenFinishOK DEF PatchReport
<1>11. CASE CloudStepSA
  BY <1>11 DEF CloudStepSA, svars, SHeld, STypeOK, AccountsTypeOK, Coherent, WantsKnown, Held,
               ReportsOnly, Effects, Effect
<1> QED BY <1>4, <1>5, <1>6, <1>7, <1>8, <1>9, <1>10, <1>11 DEF AnnotationStep

LEMMA UserStepOK ==
  ASSUME SHeld, NEW s \in K8sSAs, UserSA(s)
  PROVE  SHeld'
<1>1. AccountsOK /\ WantsKnown
  BY DEF SHeld, STypeOK, AccountsOK
<1>2. /\ AccountsOK' /\ WantsKnown' /\ stale' \subseteq stale \cup {s}
      /\ \A t \in K8sSAs : t # s => sa'[t] = sa[t]
  BY <1>1, UserOK DEF UserSA
<1>3. /\ srec \in SRecType /\ squeue' \subseteq K8sSAs
      /\ srec' = IF srec.s = s THEN [srec EXCEPT !.fresh = FALSE] ELSE srec
  BY DEF SHeld, STypeOK, SRecType, UserSA, Overtake
<1>4. /\ srec' \in SRecType /\ srec'.pc = srec.pc /\ srec'.s = srec.s /\ srec'.obj = srec.obj
      /\ srec'.status = srec.status /\ (srec'.fresh => srec.fresh /\ srec.s # s)
  BY <1>3 DEF SRecType
<1>5. Held' /\ ReportsOnly'
  BY <1>2, <1>4 DEF SHeld, Held, ReportsOnly
<1> QED BY <1>2, <1>3, <1>4, <1>5 DEF SHeld, STypeOK, AccountsOK, SRecType

\* Watch events, resyncs and restarts bring copies up to date.
LEMMA CacheStepOK ==
  ASSUME SHeld, (\E s \in K8sSAs : WatchSA(s) \/ ResyncSA(s)) \/ RestartSA
  PROVE  SHeld' /\ sa' = sa /\ \A s \in K8sSAs : saCache'[s] \in {sa[s], saCache[s]}
<1>1. /\ UNCHANGED ops /\ squeue' \subseteq K8sSAs
      /\ UNCHANGED accounts \/ (\E s \in K8sSAs : Refresh(s)) \/ RefreshAll
      /\ srec' = srec \/ srec' = NoSRec
  BY DEF SHeld, STypeOK, WatchSA, ResyncSA, RestartSA
<1>2. AccountsOK /\ WantsKnown /\ srec \in SRecType
  BY DEF SHeld, STypeOK, AccountsOK, SRecType
<1>3. /\ Coherent' /\ sa' = sa /\ stale' \subseteq stale
      /\ saCache' \in [K8sSAs -> ServiceAccountType]
      /\ \A s \in K8sSAs : saCache'[s] \in {sa[s], saCache[s]}
  BY <1>1, <1>2, RefreshOK DEF accounts, AccountsOK, AccountsTypeOK, Coherent
<1>4. WantsKnown'
  BY <1>2, <1>3 DEF WantsKnown
<1>5. srec' \in SRecType /\ Held' /\ ReportsOnly'
  BY <1>1, <1>2, <1>3, NoSRecType DEF SHeld, Held, ReportsOnly
<1> QED BY <1>1, <1>2, <1>3, <1>4, <1>5 DEF SHeld, STypeOK, AccountsOK, AccountsTypeOK, SRecType

LEMMA SHeldInit == AccountsInit /\ squeue \subseteq K8sSAs /\ srec = NoSRec => SHeld
  BY AccountsInitOK, NoSRecType
     DEF SHeld, STypeOK, AccountsOK, AccountsTypeOK, SRecType, Held, ReportsOnly

LEMMA SHeldNext ==
  ASSUME TypeOK, SHeld, [AnnNext]_annVars
  PROVE  SHeld'
<1>1. CASE UNCHANGED svars
  BY <1>1 DEF svars, SHeld, STypeOK, AccountsTypeOK, Coherent, WantsKnown, Held, ReportsOnly
<1>2. CASE AnnotationStep
  BY <1>2, AnnotationStepOK
<1>3. ASSUME NEW s \in K8sSAs, ReconcileSA(s) \/ WatchSA(s) \/ ResyncSA(s) \/ UserSA(s)
      PROVE  SHeld'
  BY <1>3, ReconcileOK, UserStepOK, CacheStepOK
<1>4. CASE RestartSA
  BY <1>4, CacheStepOK
<1> QED BY <1>1, <1>2, <1>3, <1>4 DEF AnnNext, WorldSA, annVars
LEMMA AnnotationHolds == AnnSpec => [](TypeOK /\ SHeld)
<1>1. AnnInit => SHeld
  BY SHeldInit DEF AnnInit
<1>2. AnnSpec => []TypeOK
  BY AnnotationsImplementCalls, TypeCorrect, PTL
<1>3. TypeOK /\ SHeld /\ [AnnNext]_annVars => SHeld'
  BY SHeldNext
<1> QED BY <1>1, <1>2, <1>3, PTL DEF AnnSpec

\* The store, its cache and the reconcile underway keep their types.
THEOREM AnnotationTypeCorrect == AnnSpec => []STypeOK
<1>1. SHeld => STypeOK
  BY DEF SHeld
<1> QED BY <1>1, AnnotationHolds, PTL

\* The copies that Reconcile and patchStatus write back never undo what users
\* wrote: one that is the latest version says what the stored object says, and
\* any other is refused.
THEOREM AnnotationsLoseNoUpdate == AnnSpec => NoLostUpdate
<1> DEFINE UserKept(s) == sa[s].there /\ sa'[s].want = sa[s].want /\ sa'[s].del = sa[s].del
           Keeps == \A s \in K8sSAs : ops' = ops /\ sa'[s].there => UserKept(s)
<1>1. ASSUME TypeOK, SHeld, [AnnNext]_annVars PROVE Keeps
  <2>1. CASE sa' = sa
    BY <2>1
  <2>2. CASE Effects
    BY <2>2, NoSAType, PatchedType DEF Effects, Effect
  <2>3. ASSUME NEW s \in K8sSAs, UserSA(s) PROVE Keeps
    <3>1. ops' = ops + 1 /\ ops \in Nat
      BY <1>1, <2>3 DEF UserSA, CreateSA, AnnotateSA, DeleteSA, UserOp, SHeld, STypeOK, AccountsTypeOK
    <3> QED BY <3>1
  <2>4. AnnotationStep => Effects
    BY <1>1, AnnotationStepOK
  <2>5. \A s \in K8sSAs : ReconcileSA(s) => Effects
    BY <1>1, ReconcileOK
  <2>6. ASSUME (\E s \in K8sSAs : WatchSA(s) \/ ResyncSA(s)) \/ RestartSA PROVE sa' = sa
    BY <1>1, <2>6, CacheStepOK
  <2>7. WorldSA \/ UNCHANGED annVars => sa' = sa
    BY DEF WorldSA, svars, annVars
  <2> QED BY <1>1, <2>1, <2>2, <2>3, <2>4, <2>5, <2>6, <2>7 DEF AnnNext
<1>2. TypeOK /\ SHeld /\ [AnnNext]_annVars => [Keeps]_annVars
  BY <1>1
<1> QED BY <1>2, AnnotationHolds, PTL DEF AnnSpec, NoLostUpdate

-----------------------------------------------------------------------------
(* The finalizer and the cloud.  The controller is the only caller.          *)

ToBeCleaned == /\ \A s \in K8sSAs : \A w \in WantsOf[s] : w.deleteResources
               /\ \A i, j \in Issuers : i = j
Guarded(s) == sa[s].there /\ sa[s].fin

\* A call is underway just when Reconcile awaits one, and it is about the
\* account reconciled.
CallLink ==
  /\ srec.pc \notin {"deleting", "ensuring"} => pc[wsa] = "idle"
  /\ srec.pc = "deleting" =>
       job[wsa].op = "delete" /\ job[wsa].sa = srec.s /\ ~job[wsa].lenient
  /\ srec.pc = "ensuring" => job[wsa].op = "ensure" /\ job[wsa].sa = srec.s

\* A copy that says that the account takes part is not ahead of the finalizer.
CacheTrails ==
  \A s \in K8sSAs : saCache[s].there /\ saCache[s].fin /\ ~Out(saCache[s]) => Guarded(s)
Guarding == srec.pc \in {"pending", "ensuring"} => Guarded(srec.s)

\* Before the finalizer goes there is nothing left that it guards.
Cleaned ==
  ToBeCleaned /\ srec.pc = "removeFin" => \A x \in sas \cup fis : x.key[1] # srec.s

\* Before Ready is written, what it says is in the cloud.
Delivered == srec.pc = "ready" => BackedSA(srec.s, srec.res) /\ srec.res.said # NoId

\* The copies and the call underway, whoever else makes calls; and the cloud.
SControl == CallLink /\ CacheTrails /\ Guarding
SGuard == SControl /\ Cleaned /\ Delivered /\ FinalizerGuardsCloud

\* The finalizer goes in this very step, from an account that had opted out.
Going(s) == srec.pc = "removeFin" /\ s = srec.s /\ srec.s \notin stale /\ Out(sa[s])

\* Writing the account reconciled keeps the finalizers, but for the one that goes.
LEMMA EffectsKeep ==
  ASSUME SHeld, SControl, Effects
  PROVE  /\ \A s \in K8sSAs : Guarded(s) => Guarded(s)' \/ Going(s)
         /\ CacheTrails'
         /\ srec.pc \in {"pending", "ensuring"} => sa'[srec.s].there /\ sa'[srec.s].fin
<1>1. \A s \in K8sSAs : Guarded(s) => Guarded(s)' \/ Going(s)
  <2> SUFFICES ASSUME NEW s \in K8sSAs, Guarded(s) PROVE Guarded(s)' \/ Going(s)
    OBVIOUS
  <2>1. sa'[s] = sa[s] \/ (srec.pc # "idle" /\ s = srec.s /\ Effect(sa[s], sa'[s]))
    BY DEF Effects
  <2> QED BY <2>1 DEF Guarded, Effect, Going
<1>2. \A s \in K8sSAs : Going(s) => Out(saCache[s])
  BY DEF SHeld, Coherent, Going
<1>3. CacheTrails'
  BY <1>1, <1>2 DEF SControl, CacheTrails, Effects, Out
<1>4. ASSUME srec.pc \in {"pending", "ensuring"}
      PROVE  sa'[srec.s].there /\ sa'[srec.s].fin
  <2>1. srec.s \in K8sSAs /\ Guarded(srec.s) /\ ~Going(srec.s)
    BY <1>4 DEF SHeld, Held, SControl, Guarding, Going
  <2>2. PICK s \in K8sSAs : s = srec.s
    BY <2>1
  <2>3. Guarded(s)'
    BY <1>1, <2>1, <2>2
  <2> QED BY <2>2, <2>3 DEF Guarded
<1> QED BY <1>1, <1>3, <1>4

\* Reconcile begins one call at a time and takes its result, and ensures only
\* with the finalizer on the account.
LEMMA AnnotationStepControl ==
  ASSUME TypeOK, SHeld, SControl, AnnotationStep
  PROVE  SControl'
<1>1. srec \in SRecType /\ wsa \in Workers
  BY AnnotationAssumption DEF SHeld, STypeOK, SRecType
<1>2. /\ CacheTrails'
      /\ srec.pc \in {"pending", "ensuring"} => sa'[srec.s].there /\ sa'[srec.s].fin
  BY AnnotationStepOK, EffectsKeep
<1>3. ASSUME NEW j, Begin(wsa, j) PROVE job'[wsa] = j
  BY <1>1, <1>3 DEF Begin, TypeOK
<1>4. CASE BeginDeleteSA
  <2>1. /\ srec'.pc = "deleting" /\ srec'.s = srec.s
        /\ job'[wsa] = DeleteJobSA(srec.s, srec.obj)
    BY <1>1, <1>3, <1>4 DEF BeginDeleteSA, GotoSA, SRecType
  <2> QED BY <1>2, <2>1 DEF SControl, CallLink, Guarding, DeleteJobSA
<1>5. CASE MarkPending
  <2>1. /\ srec.pc = "pending" /\ srec'.pc = "ensuring" /\ srec'.s = srec.s
        /\ job'[wsa] = EnsureJobSA(srec.s, srec.obj)
    BY <1>1, <1>3, <1>5 DEF MarkPending, GotoSA, SRecType
  <2> QED BY <1>2, <2>1 DEF SControl, CallLink, Guarding, Guarded, EnsureJobSA
<1>6. CASE DeleteReturnedSA \/ EnsureReturnedSA
  <2>1. pc'[wsa] = "idle"
    BY <1>1, <1>6 DEF DeleteReturnedSA, EnsureReturnedSA, Collect, Go, TypeOK
  <2>2. srec'.pc \in {"removeFin", "ready", "report"}
    BY <1>1, <1>6 DEF DeleteReturnedSA, EnsureReturnedSA, GotoSA, ReportSA, SRecType
  <2> QED BY <1>2, <2>1, <2>2 DEF SControl, CallLink, Guarding
<1>7. CASE RemoveFinalizerSA \/ AddFinalizerSA \/ MarkReady \/ PatchReport
  <2>1. UNCHANGED vars /\ srec' = NoSRec /\ srec.pc \notin {"deleting", "ensuring"}
    BY <1>7 DEF RemoveFinalizerSA, AddFinalizerSA, MarkReady, PatchReport, FinishSA
  <2> QED BY <1>2, <2>1, NoSRecType DEF SControl, CallLink, Guarding, vars
<1>8. CASE CloudStepSA
  <2>1. job' = job /\ pc[wsa] # "idle" /\ UNCHANGED svars
    BY <1>1, <1>8, StepLocal DEF CloudStepSA, Underway, InCall, EnsureCalls, DeleteCalls
  <2> QED BY <1>2, <2>1 DEF SControl, CallLink, Guarding, Guarded, svars
<1> QED BY <1>4, <1>5, <1>6, <1>7, <1>8 DEF AnnotationStep

\* Writing the account reconciled keeps what the finalizer guards guarded.
LEMMA EffectsGuard ==
  ASSUME TypeOK, SHeld, SGuard, Effects, UNCHANGED <<sas, fis>>
  PROVE  FinalizerGuardsCloud'
<1> SUFFICES ASSUME ToBeCleaned, NEW x \in sas \cup fis PROVE Guarded(x.key[1])'
  BY DEF FinalizerGuardsCloud, ToBeCleaned, Guarded
<1>1. Guarded(x.key[1])
  BY DEF SGuard, FinalizerGuardsCloud, ToBeCleaned, Guarded
<1>2. ~Going(x.key[1])
  BY DEF SGuard, Cleaned, Going
<1>3. x.key[1] \in K8sSAs
  BY DEF TypeOK, Keys
<1> QED BY <1>1, <1>2, <1>3, EffectsKeep DEF SGuard

LEMMA CallStepGuard ==
  ASSUME IInv, SHeld, SGuard, CloudStepSA
  PROVE  Cleaned' /\ Delivered' /\ FinalizerGuardsCloud'
<1>1. TypeOK /\ Typed /\ wsa \in Workers /\ Step(wsa) /\ UNCHANGED svars
  BY AnnotationAssumption DEF IInv, Typed, CloudStepSA
<1>2. srec.pc \in {"deleting", "ensuring"}
  BY <1>1, StepLocal DEF Underway, InCall, EnsureCalls, DeleteCalls, SGuard, SControl, CallLink
<1>3. FinalizerGuardsCloud'
  <2> SUFFICES ASSUME ToBeCleaned, NEW x \in sas' \cup fis'
               PROVE  sa'[x.key[1]].there /\ sa'[x.key[1]].fin
    BY DEF FinalizerGuardsCloud, ToBeCleaned
  <2>1. sa' = sa
    BY <1>1 DEF svars
  <2>2. CASE \E y \in sas \cup fis : y.key = x.key
    BY <2>1, <2>2 DEF SGuard, FinalizerGuardsCloud, ToBeCleaned
  <2>3. CASE job[wsa].op = "ensure" /\ x.key = Key(wsa)
    <3>1. x.key[1] = srec.s /\ srec.pc = "ensuring"
      BY <1>2, <2>3 DEF SGuard, SControl, CallLink, Key
    <3> QED BY <2>1, <3>1 DEF SGuard, SControl, Guarding, Guarded
  <2> QED BY <1>1, <2>2, <2>3, StepAdds
<1> QED BY <1>1, <1>2, <1>3 DEF Cleaned, Delivered, svars

\* Where users ask for deletion, only a delete that returned leads to the finalizer.
LEMMA RemovesAfterDeleteSA ==
  ASSUME SHeld, AnnotationStep, ~CloudStepSA, srec'.pc = "removeFin"
  PROVE  DeleteReturnedSA /\ pc[wsa] = "ok" /\ srec'.s = srec.s
<1>1. srec \in SRecType
  BY DEF SHeld, STypeOK, SRecType
<1>2. ~(\/ BeginDeleteSA \/ RemoveFinalizerSA \/ AddFinalizerSA \/ MarkPending \/ EnsureReturnedSA
        \/ MarkReady \/ PatchReport)
  BY <1>1, NoSRecType DEF BeginDeleteSA, RemoveFinalizerSA, AddFinalizerSA, MarkPending,
     EnsureReturnedSA, MarkReady, PatchReport, GotoSA, ReportSA, FinishSA, SRecType
<1>3. DeleteReturnedSA
  BY <1>2 DEF AnnotationStep
<1> QED BY <1>1, <1>3 DEF DeleteReturnedSA, GotoSA, ReportSA, SRecType

LEMMA AnnotationStepGuard ==
  ASSUME IInv, CallInv, SHeld, SGuard, AnnotationStep
  PROVE  SGuard'
<1>1. /\ TypeOK /\ wsa \in Workers /\ srec \in SRecType
  BY AnnotationAssumption DEF IInv, Typed, SHeld, STypeOK, SRecType
<1>2. SControl'
  BY <1>1, AnnotationStepControl DEF SGuard
<1>3. CASE CloudStepSA
  BY <1>2, <1>3, CallStepGuard DEF SGuard
<1>4. CASE ~CloudStepSA
  <2>1. UNCHANGED <<sas, fis, grants>>
    BY <1>4 DEF AnnotationStep, BeginDeleteSA, DeleteReturnedSA, RemoveFinalizerSA, AddFinalizerSA,
           MarkPending, EnsureReturnedSA, MarkReady, PatchReport, Begin, Collect, cloud, vars
  <2>2. FinalizerGuardsCloud'
    BY <1>1, <2>1, AnnotationStepOK, EffectsGuard
  <2>3. Cleaned'
    <3> SUFFICES ASSUME ToBeCleaned, srec'.pc = "removeFin"
                 PROVE  \A x \in sas \cup fis : x.key[1] # srec'.s
      BY <2>1 DEF Cleaned, ToBeCleaned
    <3>1. DeleteReturnedSA /\ pc[wsa] = "ok" /\ srec'.s = srec.s
      BY <1>4, RemovesAfterDeleteSA
    <3>2. /\ job[wsa].op = "delete" /\ job[wsa].sa = srec.s /\ ~job[wsa].lenient
          /\ HadProvider(job[wsa], reg[wsa])
      BY <1>1, <3>1 DEF DeleteReturnedSA, SGuard, SControl, CallLink, CallInv
    <3>3. None \notin IdPs
      BY ConstantsAssumption
    <3> QED BY <1>1, <3>1, <3>2, <3>3, DeleteResult DEF ToBeCleaned, HadProvider
  <2>4. Delivered'
    <3> SUFFICES ASSUME srec'.pc = "ready"
                 PROVE  BackedSA(srec'.s, srec'.res) /\ srec'.res.said # NoId
      BY <2>1 DEF Delivered, BackedSA, BindingsForSA
    <3>1. ~(\/ BeginDeleteSA \/ RemoveFinalizerSA \/ AddFinalizerSA \/ MarkPending
            \/ DeleteReturnedSA \/ MarkReady \/ PatchReport)
      BY <1>1, NoSRecType DEF BeginDeleteSA, RemoveFinalizerSA, AddFinalizerSA, MarkPending,
         DeleteReturnedSA, MarkReady, PatchReport, GotoSA, ReportSA, FinishSA, SRecType
    <3>2. EnsureReturnedSA
      BY <1>4, <3>1 DEF AnnotationStep
    <3> DEFINE r == [said |-> reg[wsa].said, fid |-> reg[wsa].fid, policy |-> reg[wsa].got["policy"]]
    <3>3. srec'.s = srec.s /\ srec'.res = r /\ pc[wsa] = "ok"
      BY <1>1, <3>2 DEF EnsureReturnedSA, ReportSA, SRecType
    <3>4. job[wsa].op = "ensure" /\ job[wsa].sa = srec.s
      BY <3>2 DEF EnsureReturnedSA, SGuard, SControl, CallLink
    <3>5. BackedSA(srec.s, r) /\ r.said # NoId
      BY <1>1, <3>3, <3>4, EnsureResult DEF BackedSA, Kinds
    <3> QED BY <3>3, <3>5
  <2> QED BY <1>2, <2>2, <2>3, <2>4 DEF SGuard
<1> QED BY <1>3, <1>4

\* Reconcile goes for an ensure only when the finalizer is on the account, and
\* for the finalizer without a call only when nobody wants anything deleted.
LEMMA ReconcileControl ==
  ASSUME SHeld, SControl, NEW s \in K8sSAs, ReconcileSA(s)
  PROVE  /\ SControl' /\ UNCHANGED <<vars, sa>>
         /\ \/ srec' = srec /\ srec.pc = "idle"
            \/ /\ srec'.pc \in {"delete", "removeFin", "addFin", "pending", "report"}
               /\ srec'.pc = "removeFin" => ~ToBeCleaned
<1>1. /\ UNCHANGED <<vars, accounts, ops>> /\ srec.pc = "idle" /\ pc[wsa] = "idle"
  BY DEF ReconcileSA, SControl, CallLink
<1>2. CacheTrails' /\ UNCHANGED <<vars, sa>>
  BY <1>1 DEF SControl, CacheTrails, Guarded, accounts
<1>3. CASE UNCHANGED srec
  BY <1>1, <1>2, <1>3 DEF SControl, CallLink, Guarding, vars
<1>4. ASSUME NEW l \in {"delete", "removeFin", "addFin", "pending", "report"},
             srec'.pc = l, srec'.s = s,
             l = "pending" => Guarded(s), l = "removeFin" => ~ToBeCleaned
      PROVE  /\ SControl' /\ srec'.pc \in {"delete", "removeFin", "addFin", "pending", "report"}
             /\ srec'.pc = "removeFin" => ~ToBeCleaned
  BY <1>1, <1>2, <1>4 DEF SControl, CallLink, Guarding, Guarded, vars
<1>5. ASSUME NEW l \in {"delete", "removeFin", "addFin", "pending"},
             srec' = [NoSRec EXCEPT !.pc = l, !.s = s, !.obj = saCache[s], !.fresh = s \notin stale]
      PROVE  srec'.pc = l /\ srec'.s = s
  BY <1>5 DEF NoSRec
<1>6. ASSUME srec' = [NoSRec EXCEPT !.pc = "report", !.s = s, !.obj = saCache[s], !.status = "Error"]
      PROVE  srec'.pc = "report" /\ srec'.s = s
  BY <1>6 DEF NoSRec
<1>7. saCache[s].there /\ saCache[s].fin /\ ~Out(saCache[s]) => Guarded(s)
  BY DEF SControl, CacheTrails
<1>8. saCache[s].there /\ ~saCache[s].want.deleteResources => ~ToBeCleaned
  BY DEF SHeld, WantsKnown, ToBeCleaned
<1>9. \/ UNCHANGED srec
      \/ \E l \in {"delete", "removeFin", "addFin", "pending", "report"} :
           /\ srec'.pc = l /\ srec'.s = s
           /\ l = "pending" => Guarded(s)
           /\ l = "removeFin" => ~ToBeCleaned
  BY <1>5, <1>6, <1>7, <1>8 DEF ReconcileSA, Out
<1> QED BY <1>1, <1>2, <1>3, <1>4, <1>9

LEMMA ReconcileGuard ==
  ASSUME SHeld, SGuard, NEW s \in K8sSAs, ReconcileSA(s)
  PROVE  SGuard'
<1>1. Cleaned' /\ Delivered' /\ FinalizerGuardsCloud'
  BY ReconcileControl DEF SGuard, Cleaned, Delivered, FinalizerGuardsCloud, ToBeCleaned, vars
<1> QED BY <1>1, ReconcileControl DEF SGuard

\* A user's deletion of a guarded account only marks it.
LEMMA UserControl ==
  ASSUME SHeld, SControl, NEW s \in K8sSAs, UserSA(s)
  PROVE  /\ SControl' /\ UNCHANGED vars
         /\ \A t \in K8sSAs : Guarded(t) => Guarded(t)'
         /\ srec'.pc = srec.pc /\ srec'.s = srec.s /\ srec'.res = srec.res
<1>1. AccountsOK /\ WantsKnown /\ srec \in SRecType
  BY DEF SHeld, STypeOK, AccountsOK, SRecType
<1>2. /\ UNCHANGED vars /\ saCache' = saCache
      /\ \A t \in K8sSAs : t # s => sa'[t] = sa[t]
      /\ Guarded(s) => Guarded(s)'
  BY <1>1, UserOK DEF UserSA, Guarded
<1>3. srec'.pc = srec.pc /\ srec'.s = srec.s /\ srec'.res = srec.res
  BY <1>1 DEF UserSA, Overtake, SRecType
<1>4. \A t \in K8sSAs : Guarded(t) => Guarded(t)'
  BY <1>2 DEF Guarded
<1>5. CacheTrails'
  BY <1>2, <1>4 DEF SControl, CacheTrails
<1>6. Guarding'
  BY <1>3, <1>4 DEF SHeld, Held, SControl, Guarding, Guarded
<1>7. CallLink'
  BY <1>2, <1>3 DEF SControl, CallLink, vars
<1> QED BY <1>2, <1>3, <1>4, <1>5, <1>6, <1>7 DEF SControl

LEMMA UserGuard ==
  ASSUME TypeOK, SHeld, SGuard, NEW s \in K8sSAs, UserSA(s)
  PROVE  SGuard'
<1>1. /\ SControl' /\ UNCHANGED vars
      /\ \A t \in K8sSAs : Guarded(t) => Guarded(t)'
      /\ srec'.pc = srec.pc /\ srec'.s = srec.s /\ srec'.res = srec.res
  BY UserControl DEF SGuard
<1>2. FinalizerGuardsCloud'
  <2>1. \A x \in sas \cup fis : x.key[1] \in K8sSAs
    BY DEF TypeOK, Keys
  <2> QED BY <1>1, <2>1 DEF SGuard, FinalizerGuardsCloud, Guarded, vars
<1> QED BY <1>1, <1>2 DEF SGuard, Cleaned, Delivered, BackedSA, BindingsForSA, ToBeCleaned, vars

\* Watches and resyncs leave what is stored alone, as another worker does.
LEMMA ElsewhereControl ==
  ASSUME SControl, sa' = sa, \A s \in K8sSAs : saCache'[s] \in {sa[s], saCache[s]},
         srec' = srec, pc'[wsa] = pc[wsa], job'[wsa] = job[wsa]
  PROVE  SControl'
  BY DEF SControl, CallLink, CacheTrails, Guarding, Guarded

LEMMA CacheGuard ==
  ASSUME TypeOK, SHeld, SGuard, (\E s \in K8sSAs : WatchSA(s) \/ ResyncSA(s)) \/ RestartSA
  PROVE  SGuard'
<1>1. sa' = sa /\ \A s \in K8sSAs : saCache'[s] \in {sa[s], saCache[s]}
  BY CacheStepOK
<1>2. UNCHANGED <<sas, fis, grants>>
  BY DEF WatchSA, ResyncSA, RestartSA, Crash, cloud, vars
<1>3. FinalizerGuardsCloud'
  BY <1>1, <1>2 DEF SGuard, FinalizerGuardsCloud
<1>4. CASE UNCHANGED <<vars, srec>>
  <2>1. SControl'
    BY <1>1, <1>4, ElsewhereControl DEF SGuard, vars
  <2> QED BY <1>3, <1>4, <2>1 DEF SGuard, Cleaned, Delivered, BackedSA, BindingsForSA, ToBeCleaned, vars
<1>5. CASE RestartSA
  BY <1>1, <1>3, <1>5, AnnotationAssumption
     DEF SGuard, SControl, CallLink, CacheTrails, Guarding, Guarded, Cleaned, Delivered, RestartSA, Crash, NoSRec
<1> QED BY <1>4, <1>5 DEF WatchSA, ResyncSA

LEMMA SControlInit ==
  ASSUME AccountsInit, srec = NoSRec, pc[wsa] = "idle"
  PROVE  SControl
  BY AccountsInitOK, NoSRecType DEF AccountsInit, SControl, CallLink, CacheTrails, Guarding

LEMMA SGuardInit == AnnInit => SGuard
<1> SUFFICES ASSUME AnnInit PROVE SGuard
  OBVIOUS
<1>1. AccountsInit /\ srec = NoSRec /\ pc[wsa] = "idle" /\ sas = {} /\ fis = {}
  BY AnnotationAssumption DEF AnnInit, Init
<1> QED BY <1>1, SControlInit, NoSRecType DEF SGuard, Cleaned, Delivered, FinalizerGuardsCloud

LEMMA SGuardNext ==
  ASSUME IInv, CallInv, SHeld, SGuard, [AnnNext]_annVars
  PROVE  SGuard'
<1>1. TypeOK
  BY DEF IInv, Typed
<1>2. CASE UNCHANGED svars /\ UNCHANGED <<cloud, local>>
  BY <1>2 DEF SGuard, SControl, CallLink, CacheTrails, Guarding, Guarded, Cleaned, Delivered, BackedSA,
              BindingsForSA, ToBeCleaned, FinalizerGuardsCloud, svars, cloud, local
<1>3. WorldSA \/ UNCHANGED annVars => UNCHANGED svars /\ UNCHANGED <<cloud, local>>
  BY DEF WorldSA, ChangeIdPs, Stabilise, Rename, annVars, vars, cloud, local
<1> QED BY <1>1, <1>2, <1>3, AnnotationStepGuard, ReconcileGuard, UserGuard, CacheGuard DEF AnnNext

LEMMA AnnotationGuards ==
  ASSUME Workers = {wsa} PROVE AnnSpec => [](SHeld /\ SGuard)
<1>1. Exclusive
  BY DEF Exclusive
<1>2. AnnSpec => [](IInv /\ CallInv /\ SHeld)
  BY <1>1, AnnotationsImplementCalls, Inductive, CallInvariant, AnnotationHolds, PTL
<1>3. AnnInit => SGuard
  BY SGuardInit
<1>4. IInv /\ CallInv /\ SHeld /\ SGuard /\ [AnnNext]_annVars => SGuard'
  BY SGuardNext
<1> QED BY <1>2, <1>3, <1>4, PTL DEF AnnSpec

\* Nothing is in the cloud for a ServiceAccount that does not carry the
\* finalizer: no order of opting in and out, deletion, stale copies, lost
\* replies and restarts lets the finalizer go before the cleanup has succeeded.
THEOREM AnnotationFinalizerGuards ==
  ASSUME Workers = {wsa} PROVE AnnSpec => []FinalizerGuardsCloud
<1>1. SGuard => FinalizerGuardsCloud
  BY DEF SGuard
<1> QED BY <1>1, AnnotationGuards, PTL

\* What patchStatus marks Ready is in the cloud at that moment, under the
\* identities it writes.
THEOREM AnnotationsReadyWhenWritten ==
  ASSUME Workers = {wsa} PROVE AnnSpec => ReadyWhenWritten
<1> DEFINE Marked(s) == sa'[s] # sa[s] /\ sa'[s].status = "Ready" /\ sa[s].status # "Ready"
           Backs == \A s \in K8sSAs : Marked(s) => BackedSA(s, sa'[s])
<1>1. ASSUME SHeld, SGuard, Effects PROVE Backs
  <2> SUFFICES ASSUME NEW s \in K8sSAs, Marked(s) PROVE BackedSA(s, sa'[s])
    OBVIOUS
  <2>1. srec.pc # "idle" /\ s = srec.s /\ Effect(sa[s], sa'[s])
    BY <1>1 DEF Effects
  <2>2. srec.pc = "ready" /\ sa'[s] = Patched(sa[s], "Ready", srec.res)
    BY <1>1, <2>1, NoSAType DEF Effect, SHeld, ReportsOnly
  <2>3. BackedSA(s, srec.res) /\ srec.res # NoResult
    BY <1>1, <2>1, <2>2 DEF SGuard, Delivered, NoResult
  <2>4. /\ sa'[s].said = srec.res.said /\ sa'[s].fid = srec.res.fid
        /\ sa'[s].policy = srec.res.policy
    <3>1. sa[s] \in ServiceAccountType /\ srec.res \in ResultType /\ "Ready" \in Phases
      BY <1>1 DEF SHeld, STypeOK, AccountsTypeOK, Phases
    <3> QED BY <2>2, <2>3, <3>1, PatchedType
  <2> QED BY <2>3, <2>4 DEF BackedSA
<1>2. ASSUME TypeOK, SHeld, SGuard, [AnnNext]_annVars PROVE Backs
  <2>1. CASE sa' = sa
    BY <2>1
  <2>2. ASSUME NEW s \in K8sSAs, UserSA(s) PROVE Backs
    <3>1. AccountsOK /\ WantsKnown
      BY <1>2 DEF SHeld, STypeOK, AccountsOK
    <3>2. /\ \A t \in K8sSAs : t # s => sa'[t] = sa[t]
          /\ sa'[s].status \in {"", sa[s].status}
      BY <2>2, <3>1, UserOK, NoSAType DEF UserSA
    <3> QED BY <3>2
  <2>3. AnnotationStep \/ (\E s \in K8sSAs : ReconcileSA(s)) => Effects
    BY <1>2, AnnotationStepOK, ReconcileOK
  <2>4. (\E s \in K8sSAs : WatchSA(s) \/ ResyncSA(s)) \/ RestartSA => sa' = sa
    BY <1>2, CacheStepOK
  <2>5. WorldSA \/ UNCHANGED annVars => sa' = sa
    BY DEF WorldSA, svars, annVars
  <2> QED BY <1>1, <1>2, <2>1, <2>2, <2>3, <2>4, <2>5 DEF AnnNext
<1>3. TypeOK /\ SHeld /\ SGuard /\ [AnnNext]_annVars => [Backs]_annVars
  BY <1>2
<1> QED BY <1>3, AnnotationHolds, AnnotationGuards, PTL DEF AnnSpec, ReadyWhenWritten

=============================================================================
