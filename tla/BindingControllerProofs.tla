---------------------- MODULE BindingControllerProofs ----------------------
(***************************************************************************)
(* The binding controller implements WorkloadIdentity, and so inherits     *)
(* what is proved there, for every set of bindings, specs and accounts;    *)
(* and its own finalizer and status keep what they promise.                *)
(***************************************************************************)
EXTENDS BindingController, ServiceAccountsProofs, WorkloadIdentityProofs

-----------------------------------------------------------------------------
(* The calls it makes. *)

\* A step of the reconcile loop is a step of the call underway or none.
LEMMA ControllerStepRefines ==
  ASSUME ControllerStep
  PROVE  Next \/ UNCHANGED vars
<1>1. wib \in Workers
  BY ControllerAssumption
<1>2. ASSUME NEW j, Begin(wib, j) PROVE Next
  <2>1. j \in JobsOf[wib]
    BY <1>2 DEF Begin
  <2> QED BY <1>1, <1>2, <2>1 DEF Next
<1>3. CASE BeginDelete
  BY <1>2, <1>3 DEF BeginDelete
<1>4. CASE GetServiceAccount
  BY <1>2, <1>4 DEF GetServiceAccount
<1>5. CASE DeleteReturned \/ EnsureReturned
  BY <1>1, <1>5 DEF DeleteReturned, EnsureReturned, Next
<1>6. CASE CloudStep
  BY <1>1, <1>6 DEF CloudStep, Next
<1>7. CASE \/ ClearAnnotations \/ RemoveFinalizer \/ AddFinalizer
           \/ syncIdentityConfigMap \/ annotateServiceAccountIdentity \/ patchStatus
  BY <1>7 DEF ClearAnnotations, RemoveFinalizer, AddFinalizer, syncIdentityConfigMap,
              annotateServiceAccountIdentity, patchStatus
<1> QED BY <1>3, <1>4, <1>5, <1>6, <1>7 DEF ControllerStep

\* Users, watches and the API server do not touch the cloud or a call underway.
LEMMA KubeStepRefines ==
  ASSUME \/ \E b \in Bindings : \/ Reconcile(b) \/ WatchEvent(b) \/ Resync(b) \/ UserDelete(b)
                                \/ \E d \in SpecsOf[b] : UserCreate(b, d) \/ UserEdit(b, d)
         \/ \E s \in K8sSAs : SyncServiceAccount(s) \/ CollectGarbage(s) \/ UserTogglesSA(s)
  PROVE  UNCHANGED vars
  BY DEF Reconcile, WatchEvent, Resync, UserDelete, UserCreate, UserEdit, UserStep,
         SyncServiceAccount, CollectGarbage, UserTogglesSA

\* reconcileBinding begins every EnsureWorkloadIdentity and DeleteWorkloadIdentity
\* it is allowed to, awaits it, and touches the cloud in no other way.
LEMMA ControllerImplementsCalls == BSpec => Spec
<1>1. BInit => Init
  BY DEF BInit
<1>2. [BNext]_allVars => [Next]_vars
  <2>1. CASE UNCHANGED allVars
    BY <2>1 DEF allVars
  <2>2. CASE Restart
    BY <2>2 DEF Restart, Next
  <2>3. CASE World
    BY <2>3 DEF World, Next
  <2> QED BY <2>1, <2>2, <2>3, ControllerStepRefines, KubeStepRefines DEF BNext
<1> QED BY <1>1, <1>2, PTL DEF BSpec, Spec

\* One worker shares no ServiceAccount with another.
LEMMA OneWorkerExclusive ==
  ASSUME Workers = {wib}
  PROVE  Exclusive
  BY DEF Exclusive

\* Running alone, the controller never makes a second account or federated
\* identity for a ServiceAccount, through conflicts, retries, restarts and
\* any sequence of edits by users.
THEOREM ControllerNoDuplicateIdentity ==
  ASSUME Workers = {wib} PROVE BSpec => []UniqueIdentity
  BY OneWorkerExclusive, ControllerImplementsCalls, NoDuplicateIdentity, PTL

\* Running alone, the controller never deletes what it was not deleting for.
THEOREM ControllerDeletesOnlyOwn ==
  ASSUME Workers = {wib} PROVE BSpec => RemovesOnlyOwn
  BY OneWorkerExclusive, ControllerImplementsCalls, DeletesOnlyOwn, PTL

-----------------------------------------------------------------------------
(* The reconcile underway. *)

RecType == [pc : RecLabels, b : Bindings \cup {None}, obj : BindingType \cup {Gone},
            obs : Observed, again : BOOLEAN]

\* Every copy of a binding has a spec that a user wrote in it.
KnownCopy(b, o) == o # Gone => o \in BindingType /\ o.spec \in SpecsOf[b]
CopiesKnown == /\ \A b \in Bindings : KnownCopy(b, stored[b]) /\ KnownCopy(b, cache[b])
               /\ rec.pc # "idle" => rec.b \in Bindings /\ rec.obj # Gone /\ KnownCopy(rec.b, rec.obj)

BHeld == BTypeOK /\ Coherent /\ WantsKnown /\ CopiesKnown

\* Its account is put in, or the identities go.
IdentityChange(i, j) ==
  \/ rec.pc = "annotate" /\ j = [i EXCEPT !.said = rec.obs.said]
  \/ rec.pc = "clear" /\ j = [said |-> NoId, fid |-> NoId, policy |-> None]

\* What a step of the controller may do to a ServiceAccount.
BEffects ==
  /\ saCache' = saCache /\ ops' = ops
  /\ \A s \in K8sSAs :
       \/ sa'[s] = sa[s]
       \/ /\ rec.pc \in {"clear", "annotate"} /\ s = rec.obj.spec.sa
          /\ sa'[s].there = sa[s].there /\ sa'[s].want = sa[s].want /\ sa'[s].fin = sa[s].fin
          /\ sa'[s].del = sa[s].del /\ sa'[s].status = sa[s].status
          /\ IdentityChange(Identities(sa[s]), Identities(sa'[s]))

LEMMA NoRecType == NoRec \in RecType /\ NoRec.pc = "idle"
  BY DEF NoRec, RecType, RecLabels, Obs, Observed, NoId, Phases

LEMMA ObsType ==
  ASSUME NEW st \in Phases
  PROVE  Obs(st) \in Observed /\ Obs(st).phase = st
  BY DEF Obs, Observed, NoId

\* The steps that write no ServiceAccount.
LEMMA BControlOK ==
  ASSUME BHeld, UNCHANGED <<accounts, ops>>,
         stored' \in [Bindings -> BindingType \cup {Gone}], \A b \in Bindings : KnownCopy(b, stored'[b]),
         UNCHANGED cache, cm' \in [K8sSAs -> ConfigMapType \cup {NoCM}],
         queue' \subseteq Bindings, skipped' \subseteq K8sSAs, rec' \in RecType,
         rec'.pc # "idle" => rec'.b \in Bindings /\ rec'.obj # Gone /\ KnownCopy(rec'.b, rec'.obj)
  PROVE  BHeld' /\ BEffects
  BY DEF BHeld, BTypeOK, AccountsTypeOK, Coherent, WantsKnown, CopiesKnown, KnownCopy, RecType, accounts,
         BEffects

\* The ways in which a reconcile goes on.
Continues == \/ \E l \in RecLabels : Goto(l)
             \/ \E o \in Observed, again \in BOOLEAN : Report(o, again)
             \/ \E again \in BOOLEAN : Finish(again)

LEMMA ContinuesOK ==
  ASSUME BHeld, rec.pc # "idle", Continues
  PROVE  /\ queue' \subseteq Bindings /\ rec' \in RecType
         /\ rec'.pc # "idle" => rec'.b \in Bindings /\ rec'.obj # Gone /\ KnownCopy(rec'.b, rec'.obj)
<1>1. /\ rec \in RecType /\ queue \subseteq Bindings
      /\ rec.b \in Bindings /\ rec.obj # Gone /\ KnownCopy(rec.b, rec.obj)
  BY DEF BHeld, BTypeOK, RecType, CopiesKnown
<1>2. ASSUME NEW l \in RecLabels, Goto(l)
      PROVE  queue' = queue /\ rec' \in RecType /\ rec'.b = rec.b /\ rec'.obj = rec.obj
  BY <1>1, <1>2 DEF Goto, RecType
<1>3. ASSUME NEW o \in Observed, NEW again \in BOOLEAN, Report(o, again)
      PROVE  queue' = queue /\ rec' \in RecType /\ rec'.b = rec.b /\ rec'.obj = rec.obj
  BY <1>1, <1>3 DEF Report, RecType, RecLabels
<1>4. ASSUME NEW again, Finish(again)
      PROVE  queue' \subseteq Bindings /\ rec' = NoRec
  BY <1>1, <1>4 DEF Finish
<1> QED BY <1>1, <1>2, <1>3, <1>4, NoRecType DEF Continues

LEMMA BReconcileOK ==
  ASSUME BHeld, NEW b \in Bindings, Reconcile(b)
  PROVE  BHeld' /\ sa' = sa
<1>1. /\ UNCHANGED <<kube, ops, skipped>> /\ queue' \subseteq Bindings /\ rec \in RecType
      /\ cache[b] \in BindingType \cup {Gone} /\ KnownCopy(b, cache[b])
  BY DEF Reconcile, BHeld, BTypeOK, RecType, CopiesKnown
<1>2. rec' = rec \/ /\ cache[b] # Gone
                    /\ \/ \E l \in RecLabels : rec' = [NoRec EXCEPT !.pc = l, !.b = b, !.obj = cache[b]]
                       \/ rec' = [NoRec EXCEPT !.pc = "patch", !.b = b, !.obj = cache[b],
                                               !.obs = Obs("Error")]
  BY DEF Reconcile, RecLabels
<1>3. Obs("Error") \in Observed
  BY ObsType DEF Phases
<1>4. \/ rec' = rec
      \/ rec' \in RecType /\ rec'.b = b /\ rec'.obj = cache[b] /\ cache[b] # Gone
  <2>1. ASSUME NEW l \in RecLabels, NEW o \in Observed, cache[b] # Gone,
               rec' = [NoRec EXCEPT !.pc = l, !.b = b, !.obj = cache[b], !.obs = o]
        PROVE  rec' \in RecType /\ rec'.b = b /\ rec'.obj = cache[b]
    BY <1>1, <2>1, NoRecType DEF RecType
  <2>2. NoRec.obs \in Observed /\ "patch" \in RecLabels
    BY NoRecType DEF RecType, RecLabels
  <2>3. \A l : [NoRec EXCEPT !.pc = l, !.b = b, !.obj = cache[b]]
                = [NoRec EXCEPT !.pc = l, !.b = b, !.obj = cache[b], !.obs = NoRec.obs]
    BY DEF NoRec
  <2>4. ASSUME NEW l \in RecLabels, cache[b] # Gone,
               rec' = [NoRec EXCEPT !.pc = l, !.b = b, !.obj = cache[b]]
        PROVE  rec' \in RecType /\ rec'.b = b /\ rec'.obj = cache[b]
    BY <2>1, <2>2, <2>3, <2>4
  <2>5. ASSUME cache[b] # Gone,
               rec' = [NoRec EXCEPT !.pc = "patch", !.b = b, !.obj = cache[b], !.obs = Obs("Error")]
        PROVE  rec' \in RecType /\ rec'.b = b /\ rec'.obj = cache[b]
    BY <1>3, <2>1, <2>2, <2>5
  <2> QED BY <1>2, <2>4, <2>5
<1>5. /\ rec' \in RecType
      /\ rec'.pc # "idle" => rec'.b \in Bindings /\ rec'.obj # Gone /\ KnownCopy(rec'.b, rec'.obj)
  BY <1>1, <1>4 DEF BHeld, CopiesKnown
<1> QED BY <1>1, <1>5, BControlOK DEF BHeld, BTypeOK, CopiesKnown, kube, accounts

\* A write of the identity annotations starts from the stored ServiceAccount.
LEMMA IdentityWriteOK ==
  ASSUME BHeld, NEW s \in K8sSAs, rec.pc \in {"clear", "annotate"}, s = rec.obj.spec.sa, s \notin stale,
         NEW o \in ServiceAccountType, Write(s, o),
         o.there = saCache[s].there, o.want = saCache[s].want, o.fin = saCache[s].fin,
         o.del = saCache[s].del, o.status = saCache[s].status,
         IdentityChange(Identities(saCache[s]), Identities(o)),
         Continues, UNCHANGED <<stored, cache, cm, ops, skipped>>
  PROVE  BHeld' /\ BEffects
<1>1. AccountsOK /\ WantsKnown /\ saCache[s] = sa[s]
  BY DEF BHeld, BTypeOK, AccountsOK, Coherent
<1>2. /\ Coherent' /\ saCache' = saCache /\ stale' \subseteq K8sSAs
      /\ sa' \in [K8sSAs -> ServiceAccountType] /\ saCache' \in [K8sSAs -> ServiceAccountType]
      /\ sa'[s] = o /\ \A t \in K8sSAs : t # s => sa'[t] = sa[t]
  BY <1>1, WriteOK
<1>3. WantsKnown' /\ AccountsTypeOK'
  BY <1>1, <1>2 DEF WantsKnown, AccountsOK, AccountsTypeOK
<1>4. BEffects
  BY <1>1, <1>2 DEF BEffects
<1> QED BY <1>2, <1>3, <1>4, ContinuesOK DEF BHeld, BTypeOK, CopiesKnown, KnownCopy, RecType

LEMMA IdentityFieldsType ==
  ASSUME NEW c \in ServiceAccountType, NEW i \in Nat,
         NEW o \in {WithoutIdentity(c), [c EXCEPT !.said = i, !.org = TRUE]}
  PROVE  /\ o \in ServiceAccountType /\ o.there = c.there /\ o.want = c.want
         /\ o.fin = c.fin /\ o.del = c.del /\ o.status = c.status
<1>1. CASE o = WithoutIdentity(c)
  BY <1>1 DEF WithoutIdentity, ServiceAccountType, NoId
<1>2. CASE o = [c EXCEPT !.said = i, !.org = TRUE]
  BY <1>2 DEF ServiceAccountType
<1> QED BY <1>1, <1>2

LEMMA BindingStepOK ==
  ASSUME TypeOK, BHeld, ControllerStep
  PROVE  BHeld' /\ BEffects
<1>1. /\ rec \in RecType /\ AccountsOK /\ wib \in Workers
      /\ \A b \in Bindings : stored[b] \in BindingType \cup {Gone} /\ KnownCopy(b, stored[b])
                         /\ cache[b] \in BindingType \cup {Gone} /\ KnownCopy(b, cache[b])
      /\ \A s \in K8sSAs : saCache[s] \in ServiceAccountType
  BY ControllerAssumption DEF BHeld, BTypeOK, RecType, AccountsOK, AccountsTypeOK, CopiesKnown
<1>2. rec.pc # "idle" => /\ rec.b \in Bindings /\ rec.obj \in BindingType
                         /\ rec.obj.spec \in SpecsOf[rec.b] /\ rec.obj.spec.sa \in K8sSAs
  BY DEF BHeld, CopiesKnown, KnownCopy, BindingType, SpecType
<1>3. Obs("Error") \in Observed /\ Obs("Pending") \in Observed
  BY ObsType DEF Phases
<1>4. ASSUME rec.pc # "idle", Continues, UNCHANGED <<kube, ops>>, skipped' \subseteq K8sSAs
      PROVE  BHeld' /\ BEffects
  BY <1>1, <1>4, ContinuesOK, BControlOK DEF kube, BHeld, BTypeOK
<1>5. ASSUME rec.pc # "idle", NEW o \in BindingType \cup {Gone}, KnownCopy(rec.b, o),
             stored' = [stored EXCEPT ![rec.b] = o], Continues,
             UNCHANGED <<cache, accounts, cm, ops, skipped>>
      PROVE  BHeld' /\ BEffects
  <2>1. /\ stored' \in [Bindings -> BindingType \cup {Gone}]
        /\ \A b \in Bindings : KnownCopy(b, stored'[b])
    BY <1>1, <1>5 DEF BHeld, BTypeOK
  <2> QED BY <1>1, <1>5, <2>1, ContinuesOK, BControlOK DEF BHeld, BTypeOK
<1>6. ASSUME NEW l \in RecLabels, Goto(l) PROVE Continues
  BY <1>6 DEF Continues
<1>7. ASSUME NEW o \in Observed, NEW again \in BOOLEAN, Report(o, again) PROVE Continues
  BY <1>7 DEF Continues
<1>8. ASSUME NEW again \in BOOLEAN, Finish(again) PROVE Continues
  BY <1>8 DEF Continues
<1>9. CASE ClearAnnotations
  <2> DEFINE s == rec.obj.spec.sa
             c == saCache[s]
  <2>1. Continues /\ rec.pc = "clear" /\ UNCHANGED <<stored, cache, cm, ops, skipped>>
    BY <1>3, <1>6, <1>7, <1>9 DEF ClearAnnotations, RecLabels
  <2>2. CASE UNCHANGED accounts
    BY <1>1, <1>4, <2>1, <2>2 DEF kube, BHeld, BTypeOK
  <2>3. CASE s \notin stale /\ Write(s, WithoutIdentity(c))
    <3>1. /\ WithoutIdentity(c) \in ServiceAccountType
          /\ WithoutIdentity(c).there = c.there /\ WithoutIdentity(c).want = c.want
          /\ WithoutIdentity(c).fin = c.fin /\ WithoutIdentity(c).del = c.del
          /\ WithoutIdentity(c).status = c.status
          /\ IdentityChange(Identities(c), Identities(WithoutIdentity(c)))
      <4>1. c \in ServiceAccountType /\ NoId \in Nat
        BY <1>1, <1>2, <2>1 DEF NoId
      <4>2. Identities(WithoutIdentity(c)) = [said |-> NoId, fid |-> NoId, policy |-> None]
        BY <4>1 DEF Identities, WithoutIdentity, ServiceAccountType
      <4> QED BY <2>1, <4>1, <4>2, IdentityFieldsType DEF IdentityChange
    <3> QED BY <1>2, <2>1, <2>3, <3>1, IdentityWriteOK
  <2> QED BY <1>9, <2>2, <2>3 DEF ClearAnnotations
<1>10. CASE annotateServiceAccountIdentity
  <2> DEFINE s == rec.obj.spec.sa
             c == saCache[s]
             o == [c EXCEPT !.said = rec.obs.said, !.org = TRUE]
  <2>1. Continues /\ rec.pc = "annotate" /\ UNCHANGED <<stored, cache, cm, ops, skipped>>
    BY <1>1, <1>3, <1>7, <1>10 DEF annotateServiceAccountIdentity, RecType
  <2>2. CASE UNCHANGED accounts
    BY <1>1, <1>4, <2>1, <2>2 DEF kube, BHeld, BTypeOK
  <2>3. CASE s \notin stale /\ Write(s, o)
    <3>1. /\ o \in ServiceAccountType /\ o.there = c.there /\ o.want = c.want
          /\ o.fin = c.fin /\ o.del = c.del /\ o.status = c.status
          /\ IdentityChange(Identities(c), Identities(o))
      <4>1. c \in ServiceAccountType /\ rec.obs.said \in Nat
        BY <1>1, <1>2, <2>1 DEF RecType, Observed
      <4>2. Identities(o) = [Identities(c) EXCEPT !.said = rec.obs.said]
        BY <4>1 DEF Identities, ServiceAccountType
      <4> QED BY <2>1, <4>1, <4>2, IdentityFieldsType DEF IdentityChange
    <3> QED BY <1>2, <2>1, <2>3, <3>1, IdentityWriteOK
  <2> QED BY <1>10, <2>2, <2>3 DEF annotateServiceAccountIdentity
<1>11. CASE BeginDelete
  BY <1>1, <1>4, <1>6, <1>11 DEF BeginDelete, RecLabels, BHeld, BTypeOK
<1>12. CASE DeleteReturned
  BY <1>2, <1>3, <1>4, <1>6, <1>7, <1>12 DEF DeleteReturned, RecLabels, BHeld, BTypeOK
<1>13. CASE RemoveFinalizer
  <2>1. Continues /\ rec.pc = "removeFin" /\ UNCHANGED <<cache, accounts, cm, ops, skipped>>
    BY <1>8, <1>13 DEF RemoveFinalizer
  <2>2. CASE UNCHANGED stored
    BY <1>1, <1>4, <2>1, <2>2 DEF kube, BHeld, BTypeOK
  <2>3. CASE stored' = [stored EXCEPT ![rec.b] = Gone]
    BY <1>5, <2>1, <2>3 DEF KnownCopy
  <2> QED BY <1>13, <2>2, <2>3 DEF RemoveFinalizer
<1>14. CASE AddFinalizer
  <2>1. Continues /\ rec.pc = "addFin" /\ UNCHANGED <<cache, accounts, cm, ops, skipped>>
    BY <1>3, <1>7, <1>8, <1>14 DEF AddFinalizer
  <2>2. CASE UNCHANGED stored
    BY <1>1, <1>4, <2>1, <2>2 DEF kube, BHeld, BTypeOK
  <2>3. CASE Current /\ stored' = [stored EXCEPT ![rec.b].fin = TRUE]
    <3> DEFINE o == [rec.obj EXCEPT !.fin = TRUE]
    <3>1. o \in BindingType /\ o.spec = rec.obj.spec
      BY <1>2, <2>1 DEF BindingType
    <3>2. stored' = [stored EXCEPT ![rec.b] = o]
      BY <2>3 DEF Current
    <3> QED BY <1>2, <1>5, <2>1, <3>1, <3>2 DEF KnownCopy
  <2> QED BY <1>14, <2>2, <2>3 DEF AddFinalizer
<1>15. CASE GetServiceAccount
  BY <1>1, <1>3, <1>4, <1>6, <1>7, <1>15 DEF GetServiceAccount, RecLabels, BHeld, BTypeOK
<1>16. CASE EnsureReturned
  <2>1. ASSUME NEW l \in {"configMap", "annotate"},
               rec' = [rec EXCEPT !.pc = l,
                 !.obs = [phase |-> "Ready", said |-> reg[wib].said, fid |-> reg[wib].fid,
                          policy |-> reg[wib].got["policy"]]],
               queue' = queue
        PROVE  BHeld' /\ BEffects
    <3>1. [phase |-> "Ready", said |-> reg[wib].said, fid |-> reg[wib].fid,
           policy |-> reg[wib].got["policy"]] \in Observed
      BY <1>1 DEF TypeOK, RegType, Observed, Kinds, Phases
    <3>2. rec' \in RecType /\ rec'.b = rec.b /\ rec'.obj = rec.obj
      BY <1>1, <2>1, <3>1 DEF RecType, RecLabels
    <3>3. rec.pc # "idle" /\ UNCHANGED <<kube, ops, skipped>>
      BY <1>16 DEF EnsureReturned
    <3> QED BY <1>1, <1>2, <2>1, <3>2, <3>3, BControlOK DEF kube, BHeld, BTypeOK, CopiesKnown
  <2> QED BY <1>1, <1>3, <1>4, <1>7, <1>16, <2>1 DEF EnsureReturned, BHeld, BTypeOK
<1>17. CASE syncIdentityConfigMap
  <2>1. Continues /\ rec.pc = "configMap" /\ UNCHANGED <<stored, cache, accounts, ops, skipped>>
    BY <1>3, <1>6, <1>7, <1>17 DEF syncIdentityConfigMap, RecLabels
  <2>2. cm' \in [K8sSAs -> ConfigMapType \cup {NoCM}]
    <3>1. [owner |-> rec.b, uid |-> rec.obj.uid, said |-> rec.obs.said] \in ConfigMapType
      BY <1>1, <1>2, <2>1 DEF ConfigMapType, RecType, Observed, BindingType
    <3> QED BY <1>17, <3>1 DEF syncIdentityConfigMap, BHeld, BTypeOK
  <2> QED BY <1>1, <2>1, <2>2, ContinuesOK, BControlOK DEF BHeld, BTypeOK, CopiesKnown
<1>18. CASE patchStatus
  <2>1. Continues /\ rec.pc = "patch" /\ UNCHANGED <<cache, accounts, cm, ops, skipped>>
    BY <1>1, <1>8, <1>18 DEF patchStatus, RecType
  <2>2. CASE UNCHANGED stored
    BY <1>1, <1>4, <2>1, <2>2 DEF kube, BHeld, BTypeOK
  <2>3. CASE /\ cache[rec.b] # Gone /\ cache[rec.b] = stored[rec.b]
             /\ stored' = [stored EXCEPT ![rec.b].st = NewStatusOf(cache[rec.b], rec.obs)]
    <3> DEFINE c == cache[rec.b]
               o == [c EXCEPT !.st = NewStatusOf(c, rec.obs)]
    <3>1. c \in BindingType /\ c.spec \in SpecsOf[rec.b]
      BY <1>1, <1>2, <2>1, <2>3 DEF KnownCopy
    <3>2. NewStatusOf(c, rec.obs) \in StatusType
      BY <1>1, <3>1 DEF NewStatusOf, StatusType, BindingType, RecType, Observed
    <3>3. o \in BindingType /\ o.spec = c.spec
      BY <3>1, <3>2 DEF BindingType
    <3>4. stored' = [stored EXCEPT ![rec.b] = o]
      BY <2>3
    <3> QED BY <1>5, <2>1, <3>1, <3>3, <3>4 DEF KnownCopy
  <2> QED BY <1>18, <2>2, <2>3 DEF patchStatus
<1>19. CASE CloudStep
  BY <1>19 DEF CloudStep, kvars, BHeld, BTypeOK, AccountsTypeOK, Coherent, WantsKnown, CopiesKnown,
               KnownCopy, BEffects
<1> QED BY <1>9, <1>10, <1>11, <1>12, <1>13, <1>14, <1>15, <1>16, <1>17, <1>18, <1>19 DEF ControllerStep

\* What users and watches do to bindings.
BindingEvent(b) ==
  \/ WatchEvent(b) \/ Resync(b) \/ UserDelete(b)
  \/ \E d \in SpecsOf[b] : UserCreate(b, d) \/ UserEdit(b, d)

LEMMA EditedType ==
  ASSUME NEW c \in BindingType, NEW d \in SpecType
  PROVE  LET e == [c EXCEPT !.spec = d, !.gen = c.gen + 1]
             m == [c EXCEPT !.del = TRUE, !.gen = c.gen + 1] IN
         /\ e \in BindingType /\ e.spec = d /\ e.uid = c.uid /\ e.gen = c.gen + 1
         /\ e.fin = c.fin /\ e.del = c.del /\ e.st = c.st
         /\ m \in BindingType /\ m.spec = c.spec /\ m.uid = c.uid /\ m.gen = c.gen + 1
         /\ m.fin = c.fin /\ m.del /\ m.st = c.st
<1>1. c.gen \in Nat /\ c.gen + 1 \in Nat
  BY DEF BindingType
<1> QED BY <1>1 DEF BindingType

LEMMA BindingEventOK ==
  ASSUME BHeld, NEW b \in Bindings, BindingEvent(b)
  PROVE  BHeld' /\ sa' = sa
<1>1. /\ stored \in [Bindings -> BindingType \cup {Gone}] /\ cache \in [Bindings -> BindingType \cup {Gone}]
      /\ \A c \in Bindings : KnownCopy(c, stored[c]) /\ KnownCopy(c, cache[c])
      /\ ops \in 0 .. MaxOps
  BY DEF BHeld, BTypeOK, AccountsTypeOK, CopiesKnown
<1>2. UNCHANGED <<accounts, cm, rec, skipped>> /\ queue' \subseteq Bindings
  BY DEF BindingEvent, WatchEvent, Resync, UserDelete, UserCreate, UserEdit, UserStep, kube, control,
         BHeld, BTypeOK
<1>3. ASSUME NEW o \in BindingType \cup {Gone}, KnownCopy(b, o), ops' \in 0 .. MaxOps,
             stored' = [stored EXCEPT ![b] = o], cache' = cache
      PROVE  BHeld' /\ sa' = sa
  <2>1. /\ stored' \in [Bindings -> BindingType \cup {Gone}]
        /\ \A c \in Bindings : KnownCopy(c, stored'[c])
    BY <1>1, <1>3
  <2> QED BY <1>1, <1>2, <1>3, <2>1
          DEF BHeld, BTypeOK, AccountsTypeOK, Coherent, WantsKnown, CopiesKnown, KnownCopy, accounts
<1>4. CASE WatchEvent(b) \/ Resync(b)
  <2>1. /\ stored' = stored /\ ops' = ops
        /\ cache' = [cache EXCEPT ![b] = stored[b]] \/ cache' = cache
    BY <1>4 DEF WatchEvent, Resync, kube
  <2>2. /\ cache' \in [Bindings -> BindingType \cup {Gone}]
        /\ \A c \in Bindings : KnownCopy(c, cache'[c])
    BY <1>1, <2>1
  <2> QED BY <1>2, <2>1, <2>2
          DEF BHeld, BTypeOK, AccountsTypeOK, Coherent, WantsKnown, CopiesKnown, KnownCopy, accounts
<1>5. ASSUME UserOp PROVE ops + 1 \in Nat /\ ops' \in 0 .. MaxOps
  BY <1>1, <1>5, ServiceAccountsAssumption DEF UserOp
<1>6. ASSUME NEW d \in SpecsOf[b], UserCreate(b, d) PROVE BHeld' /\ sa' = sa
  <2> DEFINE o == [uid |-> ops + 1, gen |-> 1, spec |-> d, fin |-> FALSE, del |-> FALSE, st |-> NewStatus]
  <2>1. d \in SpecType /\ ops + 1 \in Nat /\ ops' \in 0 .. MaxOps
    BY <1>5, <1>6, ControllerAssumption DEF UserCreate, UserStep
  <2>2. o \in BindingType /\ o.spec = d
    BY <2>1 DEF BindingType, NewStatus, StatusType, NoId, Phases
  <2>3. stored' = [stored EXCEPT ![b] = o] /\ cache' = cache
    BY <1>6 DEF UserCreate, UserStep
  <2> QED BY <1>3, <2>1, <2>2, <2>3 DEF KnownCopy
<1>7. ASSUME NEW d \in SpecsOf[b], UserEdit(b, d) PROVE BHeld' /\ sa' = sa
  <2> DEFINE o == [stored[b] EXCEPT !.spec = d, !.gen = stored[b].gen + 1]
  <2>1. d \in SpecType /\ stored[b] \in BindingType /\ ops' \in 0 .. MaxOps
    BY <1>1, <1>5, <1>7, ControllerAssumption DEF UserEdit, UserStep
  <2>2. o \in BindingType /\ o.spec = d
    BY <2>1, EditedType
  <2>3. stored' = [stored EXCEPT ![b] = o] /\ cache' = cache
    BY <1>1, <1>7, <2>1 DEF UserEdit, UserStep, BindingType
  <2> QED BY <1>3, <2>1, <2>2, <2>3 DEF KnownCopy
<1>8. CASE UserDelete(b)
  <2> DEFINE o == [stored[b] EXCEPT !.del = TRUE, !.gen = stored[b].gen + 1]
  <2>1. stored[b] \in BindingType /\ stored[b].spec \in SpecsOf[b] /\ ops' \in 0 .. MaxOps
    BY <1>1, <1>5, <1>8 DEF UserDelete, UserStep, KnownCopy
  <2>2. o \in BindingType /\ o.spec = stored[b].spec
    BY <2>1, EditedType, ControllerAssumption
  <2>3. cache' = cache /\ \/ stored' = [stored EXCEPT ![b] = o]
                          \/ stored' = [stored EXCEPT ![b] = Gone]
    BY <1>8 DEF UserDelete, UserStep
  <2> QED BY <1>3, <2>1, <2>2, <2>3 DEF KnownCopy
<1> QED BY <1>4, <1>6, <1>7, <1>8 DEF BindingEvent

LEMMA GarbageOK ==
  ASSUME BHeld, NEW s \in K8sSAs, CollectGarbage(s)
  PROVE  BHeld' /\ sa' = sa
  BY DEF CollectGarbage, BHeld, BTypeOK, AccountsTypeOK, Coherent, WantsKnown, CopiesKnown, KnownCopy,
         accounts, control

\* Only accounts change: by a watch, or by a user.
LEMMA AccountEventOK ==
  ASSUME BHeld, NEW s \in K8sSAs, SyncServiceAccount(s) \/ UserTogglesSA(s)
  PROVE  BHeld'
<1>1. AccountsOK /\ WantsKnown /\ UNCHANGED <<stored, cache, cm, control, skipped>>
  BY DEF BHeld, BTypeOK, AccountsOK, SyncServiceAccount, UserTogglesSA
<1>2. AccountsOK' /\ WantsKnown'
  <2>1. CASE SyncServiceAccount(s)
    BY <1>1, <2>1, RefreshOK DEF SyncServiceAccount, AccountsOK, AccountsTypeOK, WantsKnown
  <2>2. CASE UserTogglesSA(s)
    BY <1>1, <2>2, UserOK DEF UserTogglesSA
  <2> QED BY <2>1, <2>2
<1> QED BY <1>1, <1>2 DEF BHeld, BTypeOK, AccountsOK, CopiesKnown, KnownCopy, control

LEMMA RestartOK ==
  ASSUME BHeld, Restart
  PROVE  BHeld' /\ sa' = sa
<1>1. AccountsOK /\ WantsKnown /\ UNCHANGED <<stored, cm, ops, skipped>> /\ cache' = stored
      /\ rec' = NoRec /\ queue' \subseteq Bindings
  BY DEF BHeld, BTypeOK, AccountsOK, Restart
<1>2. /\ sa' = sa /\ saCache' \in [K8sSAs -> ServiceAccountType] /\ stale' \subseteq stale /\ Coherent'
      /\ \A s \in K8sSAs : saCache'[s] \in {sa[s], saCache[s]}
  BY <1>1, RefreshOK DEF Restart
<1>3. AccountsTypeOK' /\ WantsKnown'
  BY <1>1, <1>2 DEF AccountsOK, AccountsTypeOK, WantsKnown
<1> QED BY <1>1, <1>2, <1>3, NoRecType DEF BHeld, BTypeOK, CopiesKnown, KnownCopy, RecType

LEMMA BHeldInit == BInit => BHeld
<1> SUFFICES ASSUME BInit PROVE BHeld
  OBVIOUS
<1>1. AccountsOK /\ WantsKnown
  BY AccountsInitOK DEF BInit
<1>2. /\ stored = [b \in Bindings |-> Gone] /\ cache = stored /\ cm = [s \in K8sSAs |-> NoCM]
      /\ queue = {} /\ rec = NoRec /\ skipped = {}
  BY DEF BInit
<1>3. BTypeOK
  BY <1>1, <1>2, NoRecType DEF BTypeOK, AccountsOK, RecType
<1> QED BY <1>1, <1>2, <1>3, NoRecType DEF BHeld, AccountsOK, CopiesKnown, KnownCopy

LEMMA BHeldNext ==
  ASSUME TypeOK, BHeld, [BNext]_allVars
  PROVE  BHeld'
<1>1. CASE World \/ UNCHANGED allVars
  BY <1>1 DEF World, kvars, allVars, BHeld, BTypeOK, AccountsTypeOK, Coherent, WantsKnown, CopiesKnown,
              KnownCopy
<1> QED BY <1>1, BindingStepOK, BReconcileOK, BindingEventOK, GarbageOK, AccountEventOK, RestartOK
        DEF BNext, BindingEvent

LEMMA BindingHolds == BSpec => [](TypeOK /\ BHeld)
<1>1. BSpec => []TypeOK
  BY ControllerImplementsCalls, TypeCorrect, PTL
<1>2. BInit => BHeld
  BY BHeldInit
<1>3. TypeOK /\ BHeld /\ [BNext]_allVars => BHeld'
  BY BHeldNext
<1> QED BY <1>1, <1>2, <1>3, PTL DEF BSpec

\* Bindings, ConfigMaps, ServiceAccounts and their copies, and the reconcile
\* underway keep their types.
THEOREM BindingTypeCorrect == BSpec => []BTypeOK
<1>1. BHeld => BTypeOK
  BY DEF BHeld
<1> QED BY <1>1, BindingHolds, PTL

-----------------------------------------------------------------------------
(* The finalizer and the cloud.  The controller is the only caller.          *)

Removing == {"clear", "delete", "deleting", "removeFin"}

\* A copy is never ahead of the stored binding of the same uid; each edit and
\* each deletion by a user counts up, so that a copy that is not the stored
\* object will never be it.
NotAhead(b, o) ==
  o # Gone => /\ o.uid <= ops
              /\ stored[b] # Gone /\ stored[b].uid = o.uid => o.gen <= stored[b].gen
CopiesBehind ==
  /\ \A b \in Bindings : NotAhead(b, stored[b]) /\ NotAhead(b, cache[b])
  /\ rec.pc # "idle" => NotAhead(rec.b, rec.obj)

\* While the finalizer is at stake: the copy that is still the stored object is
\* the cached one too, and the finalizer goes only from a deleted binding.
FinalizerCopy ==
  /\ rec.pc \in Removing \cup {"addFin"} /\ rec.obj = stored[rec.b] => cache[rec.b] = rec.obj
  /\ rec.pc \in Removing => rec.obj.del /\ rec.obj.fin

\* A cached binding that is to be provisioned is not ahead of the finalizer.
HasFinalizer(b) == stored[b] # Gone /\ stored[b].fin
FinTrails ==
  \A b \in Bindings : cache[b] # Gone /\ cache[b].fin /\ ~cache[b].del => HasFinalizer(b)
Provisioning == rec.pc \in {"getSA", "ensuring"} => HasFinalizer(rec.b)

\* A call is underway just when Reconcile awaits one, about the binding's account.
BCallLink ==
  /\ rec.pc \notin {"deleting", "ensuring"} => pc[wib] = "idle"
  /\ rec.pc = "deleting" => job[wib].op = "delete" /\ job[wib].sa = rec.obj.spec.sa
  /\ rec.pc = "ensuring" => job[wib].op = "ensure" /\ job[wib].sa = rec.obj.spec.sa

\* Before the finalizer goes there is nothing left that it guards.
SpecsClean ==
  /\ \A i, j \in Issuers : i = j
  /\ \A b \in Bindings : \A d, e \in SpecsOf[b] : d.deleteResources /\ d.sa = e.sa
BCleaned ==
  SpecsClean /\ rec.pc = "removeFin" =>
    rec.obj.spec.sa \in skipped \/ \A x \in sas \cup fis : x.key[1] # rec.obj.spec.sa

\* The copies and the call underway, whoever else makes calls; and the cloud.
BControl == CopiesBehind /\ FinalizerCopy /\ FinTrails /\ Provisioning /\ BCallLink
BGuard == BControl /\ BCleaned /\ NoOrphan

LEMMA GoneIsNoBinding ==
  ASSUME NEW o \in BindingType
  PROVE  o # Gone
<1>1. "gen" \in DOMAIN o
  BY DEF BindingType
<1>2. "gen" \notin DOMAIN Gone
  BY DEF Gone
<1> QED BY <1>1, <1>2

\* What may become of a binding in one step: o before, n after.
ByController(b, o, n) ==
  \/ rec.pc = "removeFin" /\ o = rec.obj /\ n = Gone
  \/ /\ n \in BindingType /\ n.uid = o.uid /\ n.gen = o.gen /\ n.spec = o.spec /\ n.del = o.del
     /\ \/ rec.pc = "addFin" /\ n.fin /\ n.st = o.st
        \/ rec.pc = "patch" /\ n.fin = o.fin /\ o = cache[b] /\ n.st = NewStatusOf(o, rec.obs)
ByUser(b, o, n) ==
  \/ o = Gone /\ n \in BindingType /\ n.uid = ops + 1 /\ ~n.fin /\ ~n.del /\ n.st.phase = ""
  \/ /\ o # Gone /\ n \in BindingType /\ n.spec \in SpecsOf[b]
     /\ n.uid = o.uid /\ n.gen = o.gen + 1 /\ n.fin = o.fin /\ n.st = o.st
     /\ n.del = o.del \/ (n.del /\ o.fin)
  \/ o # Gone /\ ~o.fin /\ n = Gone
BindingEffects ==
  \A b \in Bindings :
    \/ stored'[b] = stored[b]
    \/ rec.pc # "idle" /\ rec.b = b /\ stored[b] # Gone /\ ops' = ops /\ ByController(b, stored[b], stored'[b])
    \/ rec' = rec /\ ops' = ops + 1 /\ ByUser(b, stored[b], stored'[b])

\* Where the reconcile loop goes, and what it leaves of the bindings.
Proceeds ==
  \/ rec' = NoRec
  \/ /\ rec'.b = rec.b /\ rec'.obj = rec.obj
     /\ rec'.pc \in Removing => rec.pc \in Removing
     /\ rec'.pc = "ensuring" => rec.pc \in {"getSA", "ensuring"}
     /\ rec'.pc \notin {"idle", "addFin", "getSA"}


LEMMA WrittenType ==
  ASSUME NEW c \in BindingType, NEW st \in StatusType
  PROVE  LET f == [c EXCEPT !.fin = TRUE]
             p == [c EXCEPT !.st = st] IN
         /\ f \in BindingType /\ f.uid = c.uid /\ f.gen = c.gen /\ f.spec = c.spec
         /\ f.del = c.del /\ f.fin /\ f.st = c.st
         /\ p \in BindingType /\ p.uid = c.uid /\ p.gen = c.gen /\ p.spec = c.spec
         /\ p.del = c.del /\ p.fin = c.fin /\ p.st = st
  BY DEF BindingType

LEMMA NewStatusType ==
  ASSUME NEW c \in BindingType, NEW o \in Observed
  PROVE  /\ NewStatusOf(c, o) \in StatusType /\ NewStatusOf(c, o).phase = o.phase
         /\ o.said # NoId => /\ NewStatusOf(c, o).said = o.said /\ NewStatusOf(c, o).fid = o.fid
                             /\ NewStatusOf(c, o).policy = o.policy
  BY DEF NewStatusOf, StatusType, BindingType, Observed

LEMMA StepProceeds ==
  ASSUME TypeOK, BHeld, BCallLink, ControllerStep
  PROVE  /\ rec.pc # "idle" /\ rec.b \in Bindings /\ Proceeds
         /\ cache' = cache /\ ops' = ops /\ BindingEffects
<1>1. rec \in RecType /\ wib \in Workers /\ stored \in [Bindings -> BindingType \cup {Gone}]
  BY ControllerAssumption DEF BHeld, BTypeOK, RecType
<1>2. rec.pc # "idle"
  <2>1. CloudStep => pc[wib] # "idle"
    BY <1>1, StepLocal DEF CloudStep, Underway, InCall, EnsureCalls, DeleteCalls
  <2> QED BY <2>1 DEF BCallLink, ControllerStep, ClearAnnotations, BeginDelete, DeleteReturned,
             RemoveFinalizer, AddFinalizer, GetServiceAccount, EnsureReturned, syncIdentityConfigMap,
             annotateServiceAccountIdentity, patchStatus
<1>3. rec.b \in Bindings /\ rec.obj # Gone
  BY <1>2 DEF BHeld, CopiesKnown
<1>4. cache' = cache /\ ops' = ops
  BY DEF ControllerStep, ClearAnnotations, BeginDelete, DeleteReturned, RemoveFinalizer, AddFinalizer,
         GetServiceAccount, EnsureReturned, syncIdentityConfigMap, annotateServiceAccountIdentity,
         patchStatus, CloudStep, kvars, kube
<1>5. BindingEffects
  <2>1. ASSUME stored' = stored PROVE BindingEffects
    BY <2>1 DEF BindingEffects
  <2>2. ASSUME NEW n, stored' = [stored EXCEPT ![rec.b] = n], stored[rec.b] # Gone,
               ByController(rec.b, stored[rec.b], n)
        PROVE  BindingEffects
    BY <1>1, <1>2, <1>3, <1>4, <2>2 DEF BindingEffects
  <2>3. CASE RemoveFinalizer
    BY <1>3, <2>1, <2>2, <2>3 DEF RemoveFinalizer, Current, ByController
  <2>4. CASE AddFinalizer
    <3> DEFINE c == stored[rec.b]
               n == [c EXCEPT !.fin = TRUE]
    <3>1. CASE /\ c = rec.obj /\ rec.pc = "addFin" /\ stored' = [stored EXCEPT ![rec.b] = n]
      <4>1. c \in BindingType /\ c.st \in StatusType
        BY <1>1, <1>3, <3>1 DEF BindingType
      <4>2. /\ n \in BindingType /\ n.uid = c.uid /\ n.gen = c.gen /\ n.spec = c.spec
            /\ n.del = c.del /\ n.fin /\ n.st = c.st
        BY <4>1, WrittenType
      <4>3. ByController(rec.b, c, n)
        BY <3>1, <4>2 DEF ByController
      <4> QED BY <1>3, <2>2, <3>1, <4>3
    <3> QED BY <2>1, <2>4, <3>1 DEF AddFinalizer, Current
  <2>5. CASE patchStatus
    <3> DEFINE c == stored[rec.b]
               n == [c EXCEPT !.st = NewStatusOf(c, rec.obs)]
    <3>1. CASE /\ cache[rec.b] = c /\ c # Gone /\ rec.pc = "patch"
               /\ stored' = [stored EXCEPT ![rec.b] = n]
      <4>1. c \in BindingType /\ rec.obs \in Observed
        BY <1>1, <1>3, <3>1 DEF RecType
      <4>2. /\ n \in BindingType /\ n.uid = c.uid /\ n.gen = c.gen /\ n.spec = c.spec
            /\ n.del = c.del /\ n.fin = c.fin /\ n.st = NewStatusOf(c, rec.obs)
        BY <4>1, WrittenType, NewStatusType
      <4>3. ByController(rec.b, c, n)
        BY <3>1, <4>2 DEF ByController
      <4> QED BY <2>2, <3>1, <4>3
    <3> QED BY <2>1, <2>5, <3>1 DEF patchStatus
  <2>6. CASE ~(RemoveFinalizer \/ AddFinalizer \/ patchStatus)
    BY <2>1, <2>6 DEF ControllerStep, ClearAnnotations, BeginDelete, DeleteReturned, GetServiceAccount,
           EnsureReturned, syncIdentityConfigMap, annotateServiceAccountIdentity, CloudStep, kvars, kube
  <2> QED BY <2>3, <2>4, <2>5, <2>6
<1>6. Proceeds
  <2>1. ASSUME NEW l \in RecLabels, Goto(l), l \in Removing => rec.pc \in Removing,
               l = "ensuring" => rec.pc \in {"getSA", "ensuring"}, l \notin {"idle", "addFin", "getSA"}
        PROVE  Proceeds
    BY <1>1, <2>1 DEF Goto, Proceeds, RecType
  <2>2. ASSUME NEW o, NEW again, Report(o, again) PROVE Proceeds
    BY <1>1, <2>2 DEF Report, Proceeds, RecType, Removing
  <2>3. ASSUME NEW again, Finish(again) PROVE Proceeds
    BY <2>3 DEF Finish, Proceeds
  <2>4. CASE ClearAnnotations \/ BeginDelete \/ DeleteReturned
    BY <2>1, <2>2, <2>4 DEF ClearAnnotations, BeginDelete, DeleteReturned, Removing, RecLabels
  <2>5. CASE RemoveFinalizer \/ AddFinalizer \/ patchStatus
    BY <2>2, <2>3, <2>5 DEF RemoveFinalizer, AddFinalizer, patchStatus
  <2>6. CASE GetServiceAccount \/ syncIdentityConfigMap \/ annotateServiceAccountIdentity
    BY <2>1, <2>2, <2>6 DEF GetServiceAccount, syncIdentityConfigMap, annotateServiceAccountIdentity,
                            Removing, RecLabels
  <2>7. CASE EnsureReturned
    <3>1. ASSUME NEW o, NEW l \in {"configMap", "annotate"}, rec' = [rec EXCEPT !.pc = l, !.obs = o]
          PROVE  Proceeds
      BY <1>1, <3>1 DEF Proceeds, RecType, Removing
    <3> QED BY <2>2, <2>7, <3>1 DEF EnsureReturned
  <2>8. CASE CloudStep
    <3>1. rec' = rec /\ pc[wib] # "idle"
      BY <1>1, <2>8, StepLocal DEF CloudStep, kvars, Underway, InCall, EnsureCalls, DeleteCalls
    <3>2. rec.pc \in {"deleting", "ensuring"}
      BY <3>1 DEF BCallLink
    <3> QED BY <3>1, <3>2 DEF Proceeds
  <2> QED BY <2>4, <2>5, <2>6, <2>7, <2>8 DEF ControllerStep
<1> QED BY <1>2, <1>3, <1>4, <1>5, <1>6

LEMMA EventProceeds ==
  ASSUME BHeld, NEW b \in Bindings, BindingEvent(b)
  PROVE  /\ rec' = rec /\ UNCHANGED vars /\ skipped' = skipped /\ BindingEffects
         /\ \A c \in Bindings : \/ cache'[c] = cache[c]
                                \/ cache'[c] = stored[c] /\ stored'[c] = stored[c]
         /\ ops' \in {ops, ops + 1} /\ (stored' # stored => ops' = ops + 1)
<1>1. /\ stored \in [Bindings -> BindingType \cup {Gone}] /\ cache \in [Bindings -> BindingType \cup {Gone}]
      /\ \A c \in Bindings : KnownCopy(c, stored[c])
      /\ ops \in Nat
  BY ServiceAccountsAssumption DEF BHeld, BTypeOK, AccountsTypeOK, CopiesKnown
<1>2. rec' = rec /\ UNCHANGED vars /\ skipped' = skipped
  BY DEF BindingEvent, WatchEvent, Resync, UserDelete, UserCreate, UserEdit, UserStep, control
<1>3. CASE WatchEvent(b) \/ Resync(b)
  <2>1. /\ stored' = stored /\ ops' = ops
        /\ cache' = [cache EXCEPT ![b] = stored[b]] \/ cache' = cache
    BY <1>3 DEF WatchEvent, Resync, kube
  <2> QED BY <1>1, <1>2, <2>1 DEF BindingEffects
<1>4. ASSUME NEW n, stored' = [stored EXCEPT ![b] = n], ByUser(b, stored[b], n), cache' = cache,
             UserOp
      PROVE  /\ BindingEffects /\ ops' = ops + 1
             /\ \A c \in Bindings : cache'[c] = cache[c]
  BY <1>1, <1>2, <1>4 DEF BindingEffects, UserOp
<1>5. ASSUME NEW d \in SpecsOf[b], UserCreate(b, d)
      PROVE  BindingEffects /\ ops' = ops + 1 /\ \A c \in Bindings : cache'[c] = cache[c]
  <2> DEFINE o == [uid |-> ops + 1, gen |-> 1, spec |-> d, fin |-> FALSE, del |-> FALSE, st |-> NewStatus]
  <2>1. d \in SpecType
    BY ControllerAssumption
  <2>2. NewStatus \in StatusType /\ NewStatus.phase = ""
    BY DEF NewStatus, StatusType, NoId, Phases
  <2>4. /\ o \in BindingType /\ o.uid = ops + 1 /\ ~o.fin /\ ~o.del /\ o.st = NewStatus
    <3>1. ops + 1 \in Nat /\ 1 \in Nat
      BY <1>1
    <3> QED BY <2>1, <2>2, <3>1 DEF BindingType
  <2>3. stored' = [stored EXCEPT ![b] = o] /\ cache' = cache /\ stored[b] = Gone /\ UserOp
    BY <1>5 DEF UserCreate, UserStep
  <2> QED BY <1>4, <2>2, <2>3, <2>4 DEF ByUser
<1>6. ASSUME NEW d \in SpecsOf[b], UserEdit(b, d)
      PROVE  BindingEffects /\ ops' = ops + 1 /\ \A c \in Bindings : cache'[c] = cache[c]
  <2> DEFINE o == [stored[b] EXCEPT !.spec = d, !.gen = stored[b].gen + 1]
  <2>1. d \in SpecType /\ stored[b] # Gone /\ stored[b] \in BindingType
    BY <1>1, <1>6, ControllerAssumption DEF UserEdit
  <2>2. /\ o \in BindingType /\ o.spec = d /\ o.uid = stored[b].uid /\ o.gen = stored[b].gen + 1
        /\ o.fin = stored[b].fin /\ o.del = stored[b].del /\ o.st = stored[b].st
    BY <2>1, EditedType
  <2>3. stored' = [stored EXCEPT ![b] = o] /\ cache' = cache /\ UserOp
    BY <1>1, <1>6, <2>1 DEF UserEdit, UserStep, BindingType
  <2> QED BY <1>4, <2>1, <2>2, <2>3 DEF ByUser
<1>7. ASSUME UserDelete(b)
      PROVE  BindingEffects /\ ops' = ops + 1 /\ \A c \in Bindings : cache'[c] = cache[c]
  <2> DEFINE o == [stored[b] EXCEPT !.del = TRUE, !.gen = stored[b].gen + 1]
  <2>1. stored[b] # Gone /\ stored[b] \in BindingType /\ stored[b].spec \in SpecsOf[b] /\ UserOp
    BY <1>1, <1>7 DEF UserDelete, UserStep, KnownCopy
  <2>2. /\ o \in BindingType /\ o.spec = stored[b].spec /\ o.uid = stored[b].uid
        /\ o.gen = stored[b].gen + 1 /\ o.fin = stored[b].fin /\ o.del /\ o.st = stored[b].st
    BY <2>1, EditedType, ControllerAssumption
  <2>3. cache' = cache /\ \/ stored' = [stored EXCEPT ![b] = o] /\ stored[b].fin
                          \/ stored' = [stored EXCEPT ![b] = Gone] /\ ~stored[b].fin
    BY <1>7 DEF UserDelete, UserStep
  <2>4. stored[b].fin => ByUser(b, stored[b], o)
    BY <2>1, <2>2 DEF ByUser
  <2>5. ~stored[b].fin => ByUser(b, stored[b], Gone)
    BY <2>1 DEF ByUser
  <2>6. CASE stored[b].fin
    BY <1>4, <2>1, <2>3, <2>4, <2>6
  <2>7. CASE ~stored[b].fin
    BY <1>4, <2>1, <2>3, <2>5, <2>7
  <2> QED BY <2>6, <2>7
<1>8. CASE UserDelete(b) \/ \E d \in SpecsOf[b] : UserCreate(b, d) \/ UserEdit(b, d)
  <2>1. BindingEffects /\ ops' = ops + 1 /\ \A c \in Bindings : cache'[c] = cache[c]
    BY <1>5, <1>6, <1>7, <1>8
  <2> QED BY <1>2, <2>1
<1> QED BY <1>3, <1>8 DEF BindingEvent

\* A copy that is behind stays behind, and only the controller's own write can
\* make the stored binding what the copy is.
LEMMA StaysBehind ==
  ASSUME BHeld, CopiesBehind, BindingEffects, ops' \in {ops, ops + 1},
         NEW b \in Bindings, NEW o \in BindingType \cup {Gone}, NotAhead(b, o)
  PROVE  /\ NotAhead(b, o)'
         /\ stored'[b] # Gone => stored'[b].uid <= ops'
         /\ stored'[b] = o /\ stored[b] # o => o = Gone \/ ops' = ops
<1>1. /\ stored[b] \in BindingType \cup {Gone} /\ ops \in Nat /\ NotAhead(b, stored[b])
      /\ rec \in RecType
  BY ServiceAccountsAssumption DEF BHeld, BTypeOK, AccountsTypeOK, CopiesBehind, RecType
<1>2. \A c \in BindingType : c # Gone /\ c.uid \in Nat /\ c.gen \in Nat
  BY GoneIsNoBinding DEF BindingType
<1>3. CASE stored'[b] = stored[b]
  BY <1>1, <1>2, <1>3 DEF NotAhead
<1>4. CASE /\ rec.pc # "idle" /\ rec.b = b /\ stored[b] # Gone /\ ops' = ops
           /\ ByController(b, stored[b], stored'[b])
  <2>1. CASE stored'[b] = Gone
    BY <1>1, <1>2, <1>4, <2>1 DEF NotAhead
  <2>2. CASE /\ stored'[b] \in BindingType /\ stored'[b].uid = stored[b].uid
             /\ stored'[b].gen = stored[b].gen
    BY <1>1, <1>2, <1>4, <2>2 DEF NotAhead
  <2> QED BY <1>4, <2>1, <2>2 DEF ByController
<1>5. CASE rec' = rec /\ ops' = ops + 1 /\ ByUser(b, stored[b], stored'[b])
  <2>1. CASE stored[b] = Gone /\ stored'[b] \in BindingType /\ stored'[b].uid = ops + 1
    BY <1>1, <1>2, <1>5, <2>1 DEF NotAhead
  <2>2. CASE /\ stored[b] # Gone /\ stored'[b] \in BindingType
             /\ stored'[b].uid = stored[b].uid /\ stored'[b].gen = stored[b].gen + 1
    BY <1>1, <1>2, <1>5, <2>2 DEF NotAhead
  <2>3. CASE stored'[b] = Gone
    <3>1. o # Gone => o.uid \in Nat /\ o.uid <= ops
      BY <1>2 DEF NotAhead
    <3>2. o # Gone => o.uid <= ops'
      BY <1>1, <1>5, <3>1
    <3> QED BY <2>3, <3>2 DEF NotAhead
  <2> QED BY <1>5, <2>1, <2>2, <2>3 DEF ByUser
<1> QED BY <1>3, <1>4, <1>5 DEF BindingEffects

\* The finalizer stays, and with clean specs the ServiceAccount too, unless
\* this very step removes it.
LEMMA FinalizerKept ==
  ASSUME BHeld, BindingEffects, NEW b \in Bindings, HasFinalizer(b),
         ~(rec.pc = "removeFin" /\ rec.b = b /\ stored[b] = rec.obj) \/ ops' # ops
  PROVE  HasFinalizer(b)' /\ (SpecsClean => stored'[b].spec.sa = stored[b].spec.sa)
<1>1. stored[b] \in BindingType /\ stored[b].spec \in SpecsOf[b]
  BY DEF BHeld, BTypeOK, CopiesKnown, KnownCopy, HasFinalizer
<1>2. \A c \in BindingType : c # Gone
  BY GoneIsNoBinding
<1>3. CASE rec.pc # "idle" /\ rec.b = b /\ ops' = ops /\ ByController(b, stored[b], stored'[b])
  BY <1>1, <1>2, <1>3 DEF ByController, HasFinalizer
<1>4. CASE ByUser(b, stored[b], stored'[b])
  BY <1>1, <1>2, <1>4 DEF ByUser, HasFinalizer, SpecsClean
<1> QED BY <1>3, <1>4 DEF BindingEffects, HasFinalizer

\* The reconcile loop keeps its copy, and the cache is as it was.
LEMMA CopiesAfterStep ==
  ASSUME TypeOK, BHeld, CopiesBehind, FinalizerCopy, FinTrails, BCallLink, ControllerStep
  PROVE  CopiesBehind' /\ FinalizerCopy' /\ FinTrails'
<1>1. /\ rec.pc # "idle" /\ rec.b \in Bindings /\ Proceeds
      /\ cache' = cache /\ ops' = ops /\ BindingEffects
  BY StepProceeds
<1>2. BHeld'
  BY BindingStepOK
<1>3. CopiesBehind'
  <2>1. \A b \in Bindings : NotAhead(b, stored[b])' /\ NotAhead(b, cache[b])'
    <3> SUFFICES ASSUME NEW b \in Bindings PROVE NotAhead(b, stored[b])' /\ NotAhead(b, cache[b])'
      OBVIOUS
    <3>1. /\ stored[b] \in BindingType \cup {Gone} /\ cache[b] \in BindingType \cup {Gone}
          /\ stored'[b] \in BindingType \cup {Gone}
      BY <1>2 DEF BHeld, BTypeOK
    <3>2. stored'[b] # Gone => stored'[b].gen \in Nat
      BY <3>1 DEF BindingType
    <3> QED BY <1>1, <3>1, <3>2, StaysBehind DEF CopiesBehind, NotAhead
  <2>2. rec'.pc # "idle" => NotAhead(rec.b, rec.obj)'
    <3>1. rec.obj \in BindingType \cup {Gone} /\ NotAhead(rec.b, rec.obj)
      BY <1>1 DEF BHeld, BTypeOK, CopiesBehind
    <3> QED BY <1>1, <3>1, StaysBehind, NoRecType DEF NotAhead, Proceeds
  <2> QED BY <2>1, <2>2 DEF CopiesBehind
<1>4. FinalizerCopy'
  <2> SUFFICES ASSUME rec'.pc \in Removing \cup {"addFin"}, rec'.b = rec.b, rec'.obj = rec.obj,
                      rec.pc \in Removing
               PROVE  /\ rec.obj = stored'[rec.b] => cache[rec.b] = rec.obj
                      /\ rec.obj.del /\ rec.obj.fin
    BY <1>1, NoRecType DEF Proceeds, FinalizerCopy, Removing
  <2>1. rec.obj = stored'[rec.b] => rec.obj = stored[rec.b]
    <3>1. rec.obj # Gone /\ ops' # ops + 1
      BY <1>1, ServiceAccountsAssumption DEF BHeld, BTypeOK, AccountsTypeOK, CopiesKnown
    <3> QED BY <1>1, <3>1 DEF BindingEffects, ByController, Removing
  <2> QED BY <2>1 DEF FinalizerCopy
<1>5. FinTrails'
  <2> SUFFICES ASSUME NEW b \in Bindings, cache[b] # Gone, cache[b].fin, ~cache[b].del
               PROVE  HasFinalizer(b)'
    BY <1>1 DEF FinTrails
  <2>1. HasFinalizer(b)
    BY DEF FinTrails
  <2>2. ~(rec.pc = "removeFin" /\ rec.b = b /\ stored[b] = rec.obj)
    BY DEF FinalizerCopy, Removing
  <2> QED BY <1>1, <2>1, <2>2, FinalizerKept
<1> QED BY <1>3, <1>4, <1>5

LEMMA CopiesAfterEvent ==
  ASSUME BHeld, CopiesBehind, FinalizerCopy, FinTrails, NEW b \in Bindings, BindingEvent(b)
  PROVE  CopiesBehind' /\ FinalizerCopy' /\ FinTrails'
<1>1. /\ rec' = rec /\ BindingEffects /\ ops' \in {ops, ops + 1}
      /\ stored' # stored => ops' # ops
      /\ \A c \in Bindings : \/ cache'[c] = cache[c]
                             \/ cache'[c] = stored[c] /\ stored'[c] = stored[c]
  <2>1. ops \in Nat
    BY ServiceAccountsAssumption DEF BHeld, BTypeOK, AccountsTypeOK
  <2> QED BY <2>1, EventProceeds
<1>2. \A c \in Bindings : NotAhead(c, stored[c])' /\ NotAhead(c, cache[c])'
  <2> SUFFICES ASSUME NEW c \in Bindings PROVE NotAhead(c, stored[c])' /\ NotAhead(c, cache[c])'
    OBVIOUS
  <2>1. /\ stored[c] \in BindingType \cup {Gone} /\ cache[c] \in BindingType \cup {Gone}
        /\ stored'[c] \in BindingType \cup {Gone}
    BY BindingEventOK DEF BHeld, BTypeOK
  <2>2. stored'[c] # Gone => stored'[c].gen \in Nat
    BY <2>1 DEF BindingType
  <2> QED BY <1>1, <2>1, <2>2, StaysBehind DEF CopiesBehind, NotAhead
<1>3. ASSUME rec.pc # "idle"
      PROVE  /\ NotAhead(rec.b, rec.obj)' /\ rec.b \in Bindings
             /\ stored'[rec.b] = rec.obj => stored[rec.b] = rec.obj
  <2>1. /\ rec.b \in Bindings /\ rec.obj \in BindingType \cup {Gone} /\ NotAhead(rec.b, rec.obj)
        /\ rec.obj # Gone
    BY <1>3 DEF BHeld, BTypeOK, CopiesBehind, CopiesKnown
  <2> QED BY <1>1, <2>1, StaysBehind DEF NotAhead
<1>4. CopiesBehind'
  BY <1>1, <1>2, <1>3 DEF CopiesBehind, NotAhead
<1>5. FinalizerCopy'
  BY <1>1, <1>3 DEF FinalizerCopy, Removing
<1>6. FinTrails'
  <2> SUFFICES ASSUME NEW c \in Bindings, cache'[c] # Gone, cache'[c].fin, ~cache'[c].del
               PROVE  HasFinalizer(c)'
    BY DEF FinTrails
  <2>1. CASE cache'[c] = stored[c] /\ stored'[c] = stored[c]
    BY <2>1 DEF HasFinalizer
  <2>2. CASE cache'[c] = cache[c] /\ stored'[c] # stored[c]
    <3>1. HasFinalizer(c)
      BY <2>2 DEF FinTrails
    <3>2. ~(rec.pc = "removeFin" /\ rec.b = c /\ stored[c] = rec.obj)
      BY <1>1, <2>2 DEF FinalizerCopy, Removing
    <3> QED BY <1>1, <3>1, <3>2, FinalizerKept
  <2>3. CASE cache'[c] = cache[c] /\ stored'[c] = stored[c]
    BY <2>3 DEF FinTrails, HasFinalizer
  <2> QED BY <1>1, <2>1, <2>2, <2>3
<1> QED BY <1>4, <1>5, <1>6

\* Where Reconcile goes from the cached binding.
LEMMA ReconcileStarts ==
  ASSUME BHeld, NEW b \in Bindings, Reconcile(b)
  PROVE  /\ UNCHANGED vars /\ UNCHANGED kube /\ ops' = ops /\ skipped' = skipped /\ rec.pc = "idle"
         /\ \/ rec' = rec
            \/ /\ rec'.b = b /\ rec'.obj = cache[b] /\ rec'.obs.phase \in {"", "Error"}
               /\ cache[b] # Gone
               /\ \/ rec'.pc = "clear" /\ cache[b].del /\ cache[b].fin
                  \/ rec'.pc \in {"addFin", "patch"} /\ ~cache[b].del
                  \/ rec'.pc = "getSA" /\ ~cache[b].del /\ cache[b].fin
<1>1. UNCHANGED vars /\ UNCHANGED kube /\ ops' = ops /\ skipped' = skipped /\ rec.pc = "idle"
  BY DEF Reconcile
<1> DEFINE o == cache[b]
           Starts(l) == /\ rec'.pc = l /\ rec'.b = b /\ rec'.obj = o
                        /\ rec'.obs.phase \in {"", "Error"}
<1>2. ASSUME NEW l, rec' = [NoRec EXCEPT !.pc = l, !.b = b, !.obj = o] PROVE Starts(l)
  BY <1>2 DEF NoRec, Obs
<1>3. ASSUME rec' = [NoRec EXCEPT !.pc = "patch", !.b = b, !.obj = o, !.obs = Obs("Error")]
      PROVE  Starts("patch")
  BY <1>3 DEF NoRec, Obs
<1>4. \/ rec' = rec
      \/ o # Gone /\ o.del /\ o.fin /\ Starts("clear")
      \/ o # Gone /\ ~o.del /\ Starts("addFin")
      \/ o # Gone /\ ~o.del /\ Starts("patch")
      \/ o # Gone /\ ~o.del /\ o.fin /\ Starts("getSA")
  BY <1>2, <1>3 DEF Reconcile
<1> QED BY <1>1, <1>4

LEMMA CopiesAfterReconcile ==
  ASSUME BHeld, CopiesBehind, FinalizerCopy, FinTrails, NEW b \in Bindings, Reconcile(b)
  PROVE  CopiesBehind' /\ FinalizerCopy' /\ FinTrails'
<1>1. stored' = stored /\ cache' = cache /\ ops' = ops
  BY ReconcileStarts DEF kube
<1>2. \/ rec' = rec
      \/ /\ rec'.b = b /\ rec'.obj = cache[b]
         /\ rec'.pc \in Removing => rec'.obj.del /\ rec'.obj.fin
  BY ReconcileStarts DEF Removing
<1>3. CopiesBehind'
  BY <1>1, <1>2 DEF CopiesBehind, NotAhead
<1>4. FinalizerCopy'
  BY <1>1, <1>2 DEF FinalizerCopy, Removing
<1> QED BY <1>1, <1>3, <1>4 DEF FinTrails, HasFinalizer

LEMMA ProvisioningKept ==
  ASSUME BHeld, Provisioning, BindingEffects, rec'.b = rec.b,
         rec'.pc \in {"getSA", "ensuring"} => rec.pc \in {"getSA", "ensuring"}
  PROVE  Provisioning'
<1> SUFFICES ASSUME rec.pc \in {"getSA", "ensuring"} PROVE stored'[rec.b] # Gone /\ stored'[rec.b].fin
  BY DEF Provisioning, HasFinalizer
<1>1. rec.b \in Bindings /\ HasFinalizer(rec.b)
  BY DEF BHeld, CopiesKnown, Provisioning
<1> QED BY <1>1, FinalizerKept DEF HasFinalizer

\* Reconcile begins one call at a time and takes its result.
LEMMA CallLinkStep ==
  ASSUME TypeOK, BHeld, BCallLink, ControllerStep
  PROVE  BCallLink'
<1>1. rec \in RecType /\ wib \in Workers
  BY ControllerAssumption DEF BHeld, BTypeOK, RecType
<1>2. CASE CloudStep
  <2>1. job' = job /\ pc[wib] # "idle" /\ rec' = rec
    BY <1>1, <1>2, StepLocal DEF CloudStep, kvars, Underway, InCall, EnsureCalls, DeleteCalls
  <2> QED BY <2>1 DEF BCallLink
<1>3. ASSUME NEW j, Begin(wib, j) PROVE job'[wib] = j
  BY <1>1, <1>3 DEF Begin, TypeOK
<1>4. CASE BeginDelete
  <2>1. rec'.pc = "deleting" /\ rec'.obj = rec.obj /\ job'[wib] = DeleteJob(rec.obj)
    BY <1>1, <1>3, <1>4 DEF BeginDelete, Goto, RecType
  <2> QED BY <2>1 DEF BCallLink, DeleteJob
<1>5. CASE GetServiceAccount /\ Begin(wib, EnsureJob(rec.obj)) /\ Goto("ensuring")
  <2>1. rec'.pc = "ensuring" /\ rec'.obj = rec.obj /\ job'[wib] = EnsureJob(rec.obj)
    BY <1>1, <1>3, <1>5 DEF GetServiceAccount, Goto, RecType
  <2> QED BY <2>1 DEF BCallLink, EnsureJob
<1>6. CASE DeleteReturned \/ EnsureReturned
  <2>1. pc'[wib] = "idle"
    BY <1>1, <1>6 DEF DeleteReturned, EnsureReturned, Collect, Go, TypeOK
  <2>2. rec'.pc \notin {"deleting", "ensuring"}
    BY <1>1, <1>6 DEF DeleteReturned, EnsureReturned, Goto, Report, RecType
  <2> QED BY <2>1, <2>2 DEF BCallLink
<1>7. ASSUME UNCHANGED vars, rec.pc \notin {"deleting", "ensuring"}, rec'.pc \notin {"deleting", "ensuring"}
      PROVE  BCallLink'
  BY <1>7 DEF vars, BCallLink
<1>8. CASE GetServiceAccount /\ Report(Obs("Error"), FALSE) /\ UNCHANGED vars
  BY <1>1, <1>7, <1>8 DEF GetServiceAccount, Report, RecType
<1>9. CASE ClearAnnotations \/ syncIdentityConfigMap \/ annotateServiceAccountIdentity
  BY <1>1, <1>7, <1>9 DEF ClearAnnotations, syncIdentityConfigMap, annotateServiceAccountIdentity,
                          Goto, Report, RecType
<1>10. CASE RemoveFinalizer \/ AddFinalizer \/ patchStatus
  BY <1>1, <1>7, <1>10, NoRecType DEF RemoveFinalizer, AddFinalizer, patchStatus, Report, Finish, RecType
<1> QED BY <1>2, <1>4, <1>5, <1>6, <1>8, <1>9, <1>10 DEF ControllerStep, GetServiceAccount

LEMMA ControlAfterStep ==
  ASSUME TypeOK, BHeld, BControl, ControllerStep
  PROVE  BControl'
<1>1. rec.b \in Bindings /\ Proceeds /\ BindingEffects
  BY StepProceeds DEF BControl
<1>2. Provisioning'
  BY <1>1, ProvisioningKept, NoRecType DEF BControl, Proceeds, Provisioning
<1> QED BY <1>2, CopiesAfterStep, CallLinkStep DEF BControl

\* Where a reconcile begins.
LEMMA ReconcileGoes ==
  ASSUME BHeld, NEW b \in Bindings, Reconcile(b)
  PROVE  UNCHANGED vars /\ (rec' = rec \/ rec'.pc \in {"clear", "addFin", "patch", "getSA"})
<1> DEFINE Start(l) == rec' = [NoRec EXCEPT !.pc = l, !.b = b, !.obj = cache[b]]
           Refuse == rec' = [NoRec EXCEPT !.pc = "patch", !.b = b, !.obj = cache[b], !.obs = Obs("Error")]
<1>1. ASSUME NEW l, Start(l) PROVE rec'.pc = l
  BY <1>1 DEF NoRec
<1>2. ASSUME Refuse PROVE rec'.pc = "patch"
  BY <1>2 DEF NoRec
<1>3. UNCHANGED vars /\ (rec' = rec \/ Start("clear") \/ Start("addFin") \/ Start("getSA") \/ Refuse)
  BY DEF Reconcile
<1> HIDE DEF Start, Refuse
<1> QED BY <1>1, <1>2, <1>3

LEMMA ControlAfterReconcile ==
  ASSUME BHeld, BControl, NEW b \in Bindings, Reconcile(b)
  PROVE  BControl'
<1>1. /\ UNCHANGED vars /\ UNCHANGED kube /\ rec.pc = "idle"
      /\ \/ rec' = rec
         \/ /\ rec'.b = b /\ rec'.pc \in {"clear", "addFin", "patch", "getSA"} /\ cache[b] # Gone
            /\ rec'.pc = "getSA" => ~cache[b].del /\ cache[b].fin
  BY ReconcileStarts
<1>2. CopiesBehind' /\ FinalizerCopy' /\ FinTrails'
  BY CopiesAfterReconcile DEF BControl
<1>3. Provisioning'
  BY <1>1 DEF BControl, FinTrails, Provisioning, HasFinalizer, kube
<1>4. BCallLink'
  BY <1>1 DEF BControl, BCallLink, vars
<1> QED BY <1>2, <1>3, <1>4 DEF BControl

LEMMA ControlAfterEvent ==
  ASSUME BHeld, BControl, NEW b \in Bindings, BindingEvent(b)
  PROVE  BControl'
<1>1. rec' = rec /\ UNCHANGED vars /\ BindingEffects
  BY EventProceeds
<1>2. CopiesBehind' /\ FinalizerCopy' /\ FinTrails'
  BY CopiesAfterEvent DEF BControl
<1>3. Provisioning'
  BY <1>1, ProvisioningKept DEF BControl
<1>4. BCallLink'
  BY <1>1 DEF BControl, BCallLink, vars
<1> QED BY <1>2, <1>3, <1>4 DEF BControl

LEMMA ControlAfterRestart ==
  ASSUME BHeld, BControl, Restart
  PROVE  BControl'
<1>1. /\ stored' = stored /\ cache' = stored /\ ops' = ops /\ rec' = NoRec /\ pc'[wib] = "idle"
  BY ControllerAssumption DEF Restart, Crash
<1>2. CopiesBehind'
  BY <1>1, NoRecType DEF BControl, CopiesBehind, NotAhead
<1> QED BY <1>1, <1>2, NoRecType
        DEF BControl, FinalizerCopy, Removing, FinTrails, HasFinalizer, Provisioning, BCallLink

\* Users may be at work elsewhere, and another worker.
LEMMA ControlElsewhere ==
  ASSUME BHeld, BControl, UNCHANGED <<stored, cache, rec>>, pc'[wib] = pc[wib], job'[wib] = job[wib],
         ops' \in {ops, ops + 1}
  PROVE  BControl'
<1>1. ops \in Nat
  BY ServiceAccountsAssumption DEF BHeld, BTypeOK, AccountsTypeOK
<1>2. \A b \in Bindings : /\ stored[b] # Gone => stored[b].uid \in Nat
                          /\ cache[b] # Gone => cache[b].uid \in Nat
  BY DEF BHeld, CopiesKnown, KnownCopy, BindingType
<1>3. rec.pc # "idle" /\ rec.obj # Gone => rec.obj.uid \in Nat
  BY DEF BHeld, CopiesKnown, KnownCopy, BindingType
<1>4. CopiesBehind'
  BY <1>1, <1>2, <1>3 DEF BControl, CopiesBehind, NotAhead
<1> QED BY <1>4 DEF BControl, FinalizerCopy, FinTrails, HasFinalizer, Provisioning, BCallLink

LEMMA BControlInit == BInit => BControl
<1> SUFFICES ASSUME BInit PROVE BControl
  OBVIOUS
<1>1. stored = [b \in Bindings |-> Gone] /\ cache = stored /\ rec = NoRec /\ pc[wib] = "idle"
  BY ControllerAssumption DEF BInit, Init
<1> QED BY <1>1, NoRecType DEF BControl, CopiesBehind, NotAhead, FinalizerCopy, Removing, FinTrails,
                               Provisioning, BCallLink

\* Before a binding goes for good, what it guards is gone.
LEMMA OrphanKept ==
  ASSUME BHeld, BCleaned, NoOrphan, BindingEffects, UNCHANGED <<sas, fis>>, skipped \subseteq skipped'
  PROVE  NoOrphan'
<1> SUFFICES ASSUME SpecsClean, NEW x \in sas \cup fis, x.key[1] \notin skipped
             PROVE  \E b \in Bindings : /\ stored'[b] # Gone /\ stored'[b].fin
                                        /\ stored'[b].spec.sa = x.key[1]
  BY DEF NoOrphan, SpecsClean
<1>1. PICK b \in Bindings : HasFinalizer(b) /\ stored[b].spec.sa = x.key[1]
  BY DEF NoOrphan, SpecsClean, HasFinalizer
<1>2. ~(rec.pc = "removeFin" /\ rec.b = b /\ stored[b] = rec.obj)
  BY <1>1 DEF BCleaned
<1> QED BY <1>1, <1>2, FinalizerKept DEF HasFinalizer

\* While an ensure is underway its ServiceAccount has a binding with the finalizer.
LEMMA EnsuringGuards ==
  ASSUME BHeld, BControl, SpecsClean, rec.pc \in {"getSA", "ensuring"}
  PROVE  \E b \in Bindings : HasFinalizer(b) /\ stored[b].spec.sa = rec.obj.spec.sa
<1>1. HasFinalizer(rec.b) /\ rec.b \in Bindings /\ rec.obj.spec \in SpecsOf[rec.b]
  BY DEF BControl, Provisioning, BHeld, CopiesKnown, KnownCopy
<1>2. stored[rec.b].spec \in SpecsOf[rec.b]
  BY <1>1 DEF BHeld, CopiesKnown, KnownCopy, HasFinalizer
<1> QED BY <1>1, <1>2 DEF SpecsClean

\* Where specs ask for deletion, only a delete that returned leads to the finalizer.
LEMMA RemovesAfterDelete ==
  ASSUME BHeld, SpecsClean, ControllerStep, ~CloudStep, rec'.pc = "removeFin"
  PROVE  DeleteReturned /\ pc[wib] = "ok"
<1>1. rec \in RecType
  BY DEF BHeld, BTypeOK, RecType
<1>2. ~ClearAnnotations
  <2> SUFFICES ASSUME ClearAnnotations PROVE FALSE
    OBVIOUS
  <2>1. rec.obj.spec.deleteResources
    BY DEF ClearAnnotations, BHeld, CopiesKnown, KnownCopy, SpecsClean
  <2>2. Goto("delete") \/ Report(Obs("Error"), TRUE)
    BY <2>1 DEF ClearAnnotations
  <2> QED BY <1>1, <2>2 DEF Goto, Report, RecType
<1>3. ~(\/ BeginDelete \/ RemoveFinalizer \/ AddFinalizer \/ GetServiceAccount \/ EnsureReturned
        \/ syncIdentityConfigMap \/ annotateServiceAccountIdentity \/ patchStatus)
  BY <1>1, NoRecType DEF BeginDelete, RemoveFinalizer, AddFinalizer, GetServiceAccount, EnsureReturned,
     syncIdentityConfigMap, annotateServiceAccountIdentity, patchStatus, Goto, Report, Finish, RecType
<1>4. DeleteReturned
  BY <1>2, <1>3 DEF ControllerStep
<1> QED BY <1>1, <1>4 DEF DeleteReturned, Report, RecType

LEMMA CloudStepGuard ==
  ASSUME IInv, BHeld, BGuard, CloudStep
  PROVE  BCleaned' /\ NoOrphan'
<1>1. TypeOK /\ Typed /\ wib \in Workers /\ Step(wib) /\ UNCHANGED kvars
  BY ControllerAssumption DEF IInv, Typed, CloudStep
<1>2. rec.pc \in {"deleting", "ensuring"}
  BY <1>1, StepLocal DEF Underway, InCall, EnsureCalls, DeleteCalls, BGuard, BControl, BCallLink
<1>3. NoOrphan'
  <2> SUFFICES ASSUME SpecsClean, NEW x \in sas' \cup fis'
               PROVE  \/ x.key[1] \in skipped
                      \/ \E b \in Bindings : HasFinalizer(b) /\ stored[b].spec.sa = x.key[1]
    BY <1>1 DEF NoOrphan, SpecsClean, HasFinalizer, kvars
  <2>1. CASE \E y \in sas \cup fis : y.key = x.key
    BY <2>1 DEF BGuard, NoOrphan, SpecsClean, HasFinalizer
  <2>2. CASE job[wib].op = "ensure" /\ x.key = Key(wib)
    <3>1. x.key[1] = rec.obj.spec.sa /\ rec.pc = "ensuring"
      BY <1>2, <2>2 DEF BGuard, BControl, BCallLink, Key
    <3> QED BY <3>1, EnsuringGuards DEF BGuard
  <2> QED BY <1>1, <2>1, <2>2, StepAdds
<1> QED BY <1>1, <1>2, <1>3 DEF BCleaned, kvars

LEMMA BindingStepGuard ==
  ASSUME IInv, CallInv, BHeld, BGuard, ControllerStep
  PROVE  BGuard'
<1>1. /\ TypeOK /\ wib \in Workers /\ rec \in RecType
  BY ControllerAssumption DEF IInv, Typed, BHeld, BTypeOK, RecType
<1>2. /\ rec.pc # "idle" /\ rec.b \in Bindings /\ Proceeds /\ BindingEffects
  BY <1>1, StepProceeds DEF BGuard, BControl
<1>3. BControl'
  BY <1>1, ControlAfterStep DEF BGuard
<1>4. CASE CloudStep
  BY <1>3, <1>4, CloudStepGuard DEF BGuard
<1>5. CASE ~CloudStep
  <2>1. UNCHANGED <<sas, fis>> /\ skipped \subseteq skipped'
    BY <1>5 DEF ControllerStep, ClearAnnotations, BeginDelete, DeleteReturned, RemoveFinalizer,
           AddFinalizer, GetServiceAccount, EnsureReturned, syncIdentityConfigMap,
           annotateServiceAccountIdentity, patchStatus, Begin, Collect, cloud, vars
  <2>2. BCleaned'
    <3> SUFFICES ASSUME SpecsClean, rec'.pc = "removeFin", rec'.obj = rec.obj
                 PROVE  \/ rec.obj.spec.sa \in skipped'
                        \/ \A x \in sas \cup fis : x.key[1] # rec.obj.spec.sa
      BY <1>2, <2>1, NoRecType DEF BCleaned, SpecsClean, Proceeds
    <3>1. DeleteReturned /\ pc[wib] = "ok"
      BY <1>1, <1>5, RemovesAfterDelete
    <3>2. job[wib].op = "delete" /\ job[wib].sa = rec.obj.spec.sa
      BY <3>1 DEF DeleteReturned, BGuard, BControl, BCallLink
    <3>3. CASE reg[wib].idp = None
      BY <1>1, <3>1, <3>3 DEF DeleteReturned, Report, RecType
    <3>4. CASE reg[wib].idp # None
      BY <1>1, <3>1, <3>2, <3>4, DeleteResult DEF SpecsClean
    <3> QED BY <3>3, <3>4
  <2> QED BY <1>2, <1>3, <2>1, <2>2, OrphanKept DEF BGuard
<1> QED BY <1>4, <1>5

LEMMA BReconcileGuard ==
  ASSUME BHeld, BGuard, NEW b \in Bindings, Reconcile(b)
  PROVE  BGuard'
<1>1. /\ UNCHANGED vars /\ UNCHANGED kube /\ skipped' = skipped /\ rec.pc = "idle"
      /\ \/ rec' = rec
         \/ rec'.pc \in {"clear", "addFin", "patch", "getSA"}
  BY ReconcileStarts
<1>2. BCleaned' /\ NoOrphan'
  BY <1>1 DEF BGuard, BCleaned, SpecsClean, NoOrphan, kube, vars
<1> QED BY <1>2, ControlAfterReconcile DEF BGuard

LEMMA EventGuard ==
  ASSUME BHeld, BGuard, NEW b \in Bindings, BindingEvent(b)
  PROVE  BGuard'
<1>1. rec' = rec /\ UNCHANGED vars /\ skipped' = skipped /\ BindingEffects
  BY EventProceeds
<1>2. NoOrphan' /\ BCleaned'
  BY <1>1, OrphanKept DEF BGuard, BCleaned, SpecsClean, vars
<1> QED BY <1>2, ControlAfterEvent DEF BGuard

LEMMA BRestartGuard ==
  ASSUME BHeld, BGuard, Restart
  PROVE  BGuard'
<1>1. stored' = stored /\ skipped' = skipped /\ rec' = NoRec /\ UNCHANGED <<sas, fis>>
  BY DEF Restart, Crash, cloud
<1>2. BCleaned' /\ NoOrphan'
  BY <1>1, NoRecType DEF BGuard, BCleaned, NoOrphan
<1> QED BY <1>2, ControlAfterRestart DEF BGuard

LEMMA BGuardInit == BInit => BGuard
<1>1. BInit => sas = {} /\ fis = {} /\ rec = NoRec
  BY DEF BInit, Init
<1> QED BY <1>1, BControlInit, NoRecType DEF BGuard, BCleaned, NoOrphan

LEMMA BGuardNext ==
  ASSUME IInv, CallInv, BHeld, BGuard, [BNext]_allVars
  PROVE  BGuard'
<1>1. CASE /\ UNCHANGED <<stored, cache, rec, skipped, sas, fis, pc, job>>
           /\ ops' \in {ops, ops + 1}
  <2>1. BControl'
    BY <1>1, ControlElsewhere DEF BGuard
  <2> QED BY <1>1, <2>1 DEF BGuard, BCleaned, SpecsClean, NoOrphan
<1>2. CASE World \/ UNCHANGED allVars
  BY <1>1, <1>2 DEF World, ChangeIdPs, Stabilise, Rename, allVars, vars, kvars, cloud, local
<1>3. ASSUME NEW s \in K8sSAs, SyncServiceAccount(s) \/ CollectGarbage(s) \/ UserTogglesSA(s)
      PROVE  BGuard'
  BY <1>1, <1>3 DEF SyncServiceAccount, CollectGarbage, UserTogglesSA, CreateSA, DeleteSA, UserOp,
                    vars, cloud, local, control
<1> QED BY <1>2, <1>3, BindingStepGuard, BReconcileGuard, EventGuard, BRestartGuard DEF BNext, BindingEvent

\* Running alone, the controller makes calls of which everything proved in
\* WorkloadIdentityProofs holds.
LEMMA CallsHold ==
  ASSUME Workers = {wib} PROVE BSpec => [](IInv /\ CallInv /\ BHeld)
  BY OneWorkerExclusive, ControllerImplementsCalls, Inductive, CallInvariant, BindingHolds, PTL

LEMMA BindingGuards ==
  ASSUME Workers = {wib} PROVE BSpec => [](BHeld /\ BGuard)
<1>1. BSpec => [](IInv /\ CallInv /\ BHeld)
  BY CallsHold
<1>2. BInit => BGuard
  BY BGuardInit
<1>3. IInv /\ CallInv /\ BHeld /\ BGuard /\ [BNext]_allVars => BGuard'
  BY BGuardNext
<1> QED BY <1>1, <1>2, <1>3, PTL DEF BSpec

\* The finalizer protocol leaves no orphan: whatever the order of edits,
\* deletions and re-creations by users, stale copies, conflicts, failed and
\* repeated calls and restarts, an account or federated identity in the cloud
\* has a binding with the finalizer, or its cleanup was skipped for want of a
\* provider.
THEOREM BindingsLeaveNoOrphan ==
  ASSUME Workers = {wib} PROVE BSpec => []NoOrphan
<1>1. BGuard => NoOrphan
  BY DEF BGuard
<1> QED BY <1>1, BindingGuards, PTL

-----------------------------------------------------------------------------
(* Ready and the cloud.                                                      *)

\* No two bindings ever name the same ServiceAccount.
Unshared ==
  \A b, c \in Bindings : b # c => \A d \in SpecsOf[b], e \in SpecsOf[c] : d.sa # e.sa

\* What o names is in the cloud, for a ServiceAccount of binding b.
BackedFor(b, o) ==
  /\ \E s \in sas : s.id = o.said /\ \E d \in SpecsOf[b] : s.key[1] = d.sa
  /\ \E f \in fis : f.id = o.fid /\ f.sa = o.said
  /\ o.policy # None => BindingsForSA(o.policy, o.said) # {}

\* Binding b does not say Ready, or is being deleted.
NotReady(b) == stored[b] = Gone \/ stored[b].del \/ stored[b].st.phase # "Ready"
DelTrails == \A b \in Bindings : cache[b] # Gone /\ cache[b].del => NotReady(b)
RemovingNotReady == rec.pc \in Removing => NotReady(rec.b)

\* The result of the call stays true until the status is written.
ObservedBacked ==
  rec.pc \in {"configMap", "annotate", "patch"} /\ rec.obs.phase = "Ready" =>
    rec.obs.said # NoId /\ BackedFor(rec.b, rec.obs)
ReadyBacked == \A b \in Bindings : ~NotReady(b) => BackedFor(b, stored[b].st)

BReady == DelTrails /\ RemovingNotReady /\ ObservedBacked /\ ReadyBacked

\* The cloud keeps what a binding's status names as long as nothing is deleted
\* for its ServiceAccounts.
LEMMA BackedKept ==
  ASSUME IInv, NEW w \in Workers, Step(w), NEW b \in Bindings, NEW o, BackedFor(b, o),
         \A k \in Keys : Deleting(w, k) => \A d \in SpecsOf[b] : d.sa # k[1]
  PROVE  BackedFor(b, o)'
<1>1. /\ Kept(w) /\ FederatedIdentityBacked
      /\ \A x, y \in sas : x.id = y.id => x = y
      /\ \A x \in sas \cup fis : x.key \in Keys
  <2>1. Kept(w)
    BY StepRemoves
  <2> QED BY <2>1 DEF IInv, Safe, UniqueIds, Typed, TypeOK
<1>2. PICK s \in sas : s.id = o.said /\ \E d \in SpecsOf[b] : s.key[1] = d.sa
  BY DEF BackedFor
<1>3. ~Deleting(w, s.key)
  BY <1>1, <1>2
<1>4. s \in sas'
  BY <1>1, <1>2, <1>3 DEF Kept
<1>5. \E f \in fis' : f.id = o.fid /\ f.sa = o.said
  <2>1. PICK f \in fis : f.id = o.fid /\ f.sa = o.said
    BY DEF BackedFor
  <2>2. f.key = s.key
    BY <1>1, <1>2, <2>1 DEF FederatedIdentityBacked
  <2> QED BY <1>1, <1>3, <2>1, <2>2 DEF Kept
<1>6. ASSUME o.policy # None PROVE \E g \in grants' : g.target = o.policy /\ g.sa = o.said
  <2>1. PICK g \in grants : g.target = o.policy /\ g.sa = o.said
    BY <1>6 DEF BackedFor, BindingsForSA
  <2>2. g \notin grants' => \E x \in sas : x.id = g.sa /\ Deleting(w, x.key)
    BY <1>1, <2>1 DEF Kept
  <2> QED BY <1>1, <1>2, <1>3, <2>1, <2>2
<1> QED BY <1>2, <1>4, <1>5, <1>6 DEF BackedFor, BindingsForSA

\* Only patchStatus makes a binding Ready, and not one that is being deleted.
LEMMA NotReadyKept ==
  ASSUME BHeld, BindingEffects, NEW b \in Bindings, NotReady(b),
         ~(rec.pc = "patch" /\ rec.b = b /\ stored[b] = cache[b] /\ stored[b] # Gone /\ ~stored[b].del)
  PROVE  NotReady(b)'
<1>1. CASE stored'[b] = stored[b]
  BY <1>1 DEF NotReady
<1>2. CASE rec.pc # "idle" /\ rec.b = b /\ stored[b] # Gone /\ ByController(b, stored[b], stored'[b])
  BY <1>2 DEF NotReady, ByController
<1>3. CASE ByUser(b, stored[b], stored'[b])
  BY <1>3 DEF NotReady, ByUser
<1> QED BY <1>1, <1>2, <1>3 DEF BindingEffects

\* The steps that leave the cloud alone: what patchStatus writes is the result
\* of a call, which is still true.
LEMMA StatusAfterEffects ==
  ASSUME BHeld, BReady, BindingEffects, UNCHANGED <<sas, fis, grants>>
  PROVE  /\ ReadyBacked'
         /\ \A b \in Bindings : \A o : BackedFor(b, o) => BackedFor(b, o)'
         /\ \A b \in Bindings : cache[b] # Gone /\ cache[b].del => NotReady(b)'
         /\ rec.pc \in Removing => \A b \in Bindings : b = rec.b => NotReady(b)'
<1>1. \A b \in Bindings : \A o : BackedFor(b, o) => BackedFor(b, o)'
  BY DEF BackedFor, BindingsForSA
<1>2. \A b \in Bindings : cache[b] # Gone /\ cache[b].del => NotReady(b)'
  BY NotReadyKept DEF BReady, DelTrails
<1>3. rec.pc \in Removing => \A b \in Bindings : b = rec.b => NotReady(b)'
  BY NotReadyKept DEF BReady, RemovingNotReady, Removing
<1>4. ReadyBacked'
  <2> SUFFICES ASSUME NEW b \in Bindings, ~NotReady(b)', NEW o, o = stored'[b].st
               PROVE  BackedFor(b, o)'
    BY DEF ReadyBacked, BackedFor, BindingsForSA
  <2> DEFINE n == stored'[b]
  <2>1. ASSUME ~NotReady(b), n.st = stored[b].st PROVE BackedFor(b, o)'
    <3>1. BackedFor(b, o)
      BY <2>1 DEF BReady, ReadyBacked
    <3> QED BY <1>1, <2>1, <3>1
  <2>2. CASE n = stored[b]
    BY <2>1, <2>2 DEF NotReady
  <2>3. CASE rec.pc # "idle" /\ rec.b = b /\ stored[b] # Gone /\ ByController(b, stored[b], n)
    <3>1. CASE rec.pc = "addFin" /\ n.st = stored[b].st /\ n.del = stored[b].del
      BY <2>1, <2>3, <3>1 DEF NotReady
    <3>2. CASE rec.pc = "patch" /\ stored[b] = cache[b] /\ n.st = NewStatusOf(stored[b], rec.obs)
      <4>1. stored[b] \in BindingType /\ rec.obs \in Observed
        BY <2>3 DEF BHeld, BTypeOK, CopiesKnown, KnownCopy
      <4>2. rec.obs.phase = "Ready"
        BY <3>2, <4>1, NewStatusType DEF NotReady
      <4>3. rec.obs.said # NoId /\ BackedFor(b, rec.obs)
        BY <2>3, <3>2, <4>2 DEF BReady, ObservedBacked
      <4>4. n.st.said = rec.obs.said /\ n.st.fid = rec.obs.fid /\ n.st.policy = rec.obs.policy
        BY <3>2, <4>1, <4>3, NewStatusType
      <4>5. BackedFor(b, o)
        BY <4>3, <4>4 DEF BackedFor
      <4> QED BY <1>1, <4>5
    <3>3. n # Gone
      BY DEF NotReady
    <3> QED BY <2>3, <3>1, <3>2, <3>3 DEF ByController
  <2>4. CASE ByUser(b, stored[b], n)
    BY <2>1, <2>4 DEF ByUser, NotReady
  <2> QED BY <2>2, <2>3, <2>4 DEF BindingEffects
<1> QED BY <1>1, <1>2, <1>3, <1>4

LEMMA StepReady ==
  ASSUME IInv, CallInv, BHeld, BGuard, BReady, ControllerStep, ~CloudStep
  PROVE  BReady'
<1>1. /\ TypeOK /\ wib \in Workers /\ rec \in RecType
  BY ControllerAssumption DEF IInv, Typed, BHeld, BTypeOK, RecType
<1>2. /\ rec.pc # "idle" /\ rec.b \in Bindings /\ Proceeds /\ cache' = cache /\ BindingEffects
  BY <1>1, StepProceeds DEF BGuard, BControl
<1>3. UNCHANGED <<sas, fis, grants>>
  BY DEF ControllerStep, ClearAnnotations, BeginDelete, DeleteReturned, RemoveFinalizer, AddFinalizer,
         GetServiceAccount, EnsureReturned, syncIdentityConfigMap, annotateServiceAccountIdentity,
         patchStatus, Begin, Collect, cloud, vars
<1>4. /\ ReadyBacked'
      /\ \A b \in Bindings : \A o : BackedFor(b, o) => BackedFor(b, o)'
      /\ \A b \in Bindings : cache[b] # Gone /\ cache[b].del => NotReady(b)'
      /\ rec.pc \in Removing => \A b \in Bindings : b = rec.b => NotReady(b)'
  BY <1>2, <1>3, StatusAfterEffects
<1>5. DelTrails' /\ RemovingNotReady'
  BY <1>2, <1>4, NoRecType DEF DelTrails, RemovingNotReady, Proceeds, Removing
<1>6. ASSUME rec'.pc \in {"configMap", "annotate", "patch"}, rec'.obs.phase = "Ready"
      PROVE  /\ rec'.obs.said # NoId /\ BackedFor(rec.b, rec'.obs)
  <2>1. ASSUME NEW ph, NEW again, Report(Obs(ph), again)
        PROVE  rec'.obs.phase = ph
    <3>1. rec'.obs = Obs(ph)
      BY <1>1, <2>1 DEF Report, RecType
    <3> QED BY <3>1 DEF Obs
  <2>2. ASSUME NEW l, Goto(l)
        PROVE  rec'.pc = l /\ rec'.obs = rec.obs
    BY <1>1, <2>2 DEF Goto, RecType
  <2>3. ASSUME NEW again, Finish(again) PROVE rec'.pc = "idle"
    BY <2>3, NoRecType DEF Finish
  <2>4. ASSUME rec.pc \in {"configMap", "annotate"}, rec'.obs = rec.obs
        PROVE  /\ rec'.obs.said # NoId /\ BackedFor(rec.b, rec'.obs)
    BY <1>6, <2>4 DEF BReady, ObservedBacked
  <2>5. CASE ClearAnnotations \/ BeginDelete \/ DeleteReturned \/ GetServiceAccount
    <3>1. \/ \E l \in {"delete", "removeFin", "deleting", "ensuring"} : Goto(l)
          \/ \E again : Report(Obs("Error"), again)
      BY <2>5 DEF ClearAnnotations, BeginDelete, DeleteReturned, GetServiceAccount
    <3> QED BY <1>6, <2>1, <2>2, <3>1
  <2>6. CASE RemoveFinalizer \/ AddFinalizer \/ patchStatus
    BY <1>6, <2>1, <2>3, <2>6 DEF RemoveFinalizer, AddFinalizer, patchStatus
  <2>7. CASE syncIdentityConfigMap
    BY <1>6, <2>1, <2>2, <2>4, <2>7 DEF syncIdentityConfigMap
  <2>8. CASE annotateServiceAccountIdentity
    <3>1. Report(rec.obs, FALSE) => rec'.obs = rec.obs
      BY <1>1 DEF Report, RecType
    <3> QED BY <1>6, <2>1, <2>4, <2>8, <3>1 DEF annotateServiceAccountIdentity
  <2>9. CASE EnsureReturned
    <3> DEFINE r == [phase |-> "Ready", said |-> reg[wib].said, fid |-> reg[wib].fid,
                     policy |-> reg[wib].got["policy"]]
    <3>1. pc[wib] = "ok" /\ rec'.obs = r
      BY <1>1, <1>6, <2>1, <2>9 DEF EnsureReturned, RecType
    <3>2. job[wib].op = "ensure" /\ job[wib].sa = rec.obj.spec.sa /\ rec.obj.spec \in SpecsOf[rec.b]
      BY <1>2, <2>9 DEF EnsureReturned, BGuard, BControl, BCallLink, BHeld, CopiesKnown, KnownCopy
    <3>3. /\ r.said # NoId
          /\ \E x \in sas : x.id = r.said /\ x.key[1] = rec.obj.spec.sa
          /\ \E f \in fis : f.id = r.fid /\ f.sa = r.said
          /\ r.policy # None => BindingsForSA(r.policy, r.said) # {}
      BY <1>1, <3>1, <3>2, EnsureResult DEF Kinds
    <3> QED BY <3>1, <3>2, <3>3 DEF BackedFor
  <2> QED BY <2>5, <2>6, <2>7, <2>8, <2>9 DEF ControllerStep
<1>7. ObservedBacked'
  BY <1>2, <1>4, <1>6, NoRecType DEF ObservedBacked, Proceeds
<1> QED BY <1>4, <1>5, <1>7 DEF BReady

\* A delete takes nothing that another binding needs, if they share no ServiceAccount.
LEMMA CloudStepReady ==
  ASSUME IInv, BHeld, BGuard, BReady, Unshared, CloudStep
  PROVE  BReady'
<1>1. wib \in Workers /\ Step(wib) /\ UNCHANGED kvars /\ TypeOK
  BY ControllerAssumption DEF CloudStep, IInv, Typed
<1>2. pc[wib] # "idle"
  BY <1>1, StepLocal DEF Underway, InCall, EnsureCalls, DeleteCalls
<1>3. rec.pc \in {"deleting", "ensuring"} /\ rec.b \in Bindings /\ rec.obj.spec \in SpecsOf[rec.b]
  BY <1>2 DEF BGuard, BControl, BCallLink, BHeld, CopiesKnown, KnownCopy
<1>4. ReadyBacked'
  <2> SUFFICES ASSUME NEW b \in Bindings, ~NotReady(b), NEW o, o = stored[b].st
               PROVE  BackedFor(b, o)'
    BY <1>1 DEF ReadyBacked, NotReady, BackedFor, BindingsForSA, kvars
  <2>1. BackedFor(b, o)
    BY DEF BReady, ReadyBacked
  <2>2. ASSUME NEW k \in Keys, Deleting(wib, k), NEW d \in SpecsOf[b] PROVE d.sa # k[1]
    <3>1. rec.pc = "deleting" /\ k[1] = rec.obj.spec.sa
      BY <1>3, <2>2 DEF Deleting, Key, BGuard, BControl, BCallLink
    <3>2. b # rec.b
      BY <3>1 DEF BReady, RemovingNotReady, Removing
    <3> QED BY <1>3, <3>1, <3>2 DEF Unshared
  <2> QED BY <1>1, <2>1, <2>2, BackedKept
<1> QED BY <1>1, <1>3, <1>4 DEF BReady, DelTrails, RemovingNotReady, NotReady, ObservedBacked, kvars

LEMMA ReconcileReady ==
  ASSUME BHeld, BReady, NEW b \in Bindings, Reconcile(b)
  PROVE  BReady'
<1>1. /\ stored' = stored /\ cache' = cache /\ UNCHANGED <<sas, fis, grants>>
      /\ \/ rec' = rec
         \/ /\ rec'.b = b /\ rec'.obs.phase # "Ready" /\ cache[b] # Gone
            /\ rec'.pc \in Removing => cache[b].del
  BY ReconcileStarts DEF kube, vars, Removing
<1>2. DelTrails' /\ ReadyBacked' /\ RemovingNotReady'
  BY <1>1 DEF BReady, DelTrails, ReadyBacked, RemovingNotReady, NotReady, BackedFor, BindingsForSA
<1>3. ObservedBacked'
  BY <1>1 DEF BReady, ObservedBacked, BackedFor, BindingsForSA
<1> QED BY <1>2, <1>3 DEF BReady

LEMMA EventReady ==
  ASSUME BHeld, BReady, NEW b \in Bindings, BindingEvent(b)
  PROVE  BReady'
<1>1. /\ rec' = rec /\ UNCHANGED <<sas, fis, grants>> /\ BindingEffects
      /\ \A c \in Bindings : \/ cache'[c] = cache[c]
                             \/ cache'[c] = stored[c] /\ stored'[c] = stored[c]
  BY EventProceeds DEF vars
<1>2. /\ ReadyBacked'
      /\ \A c \in Bindings : \A o : BackedFor(c, o) => BackedFor(c, o)'
      /\ \A c \in Bindings : cache[c] # Gone /\ cache[c].del => NotReady(c)'
      /\ rec.pc \in Removing => \A c \in Bindings : c = rec.b => NotReady(c)'
  BY <1>1, StatusAfterEffects
<1>3. DelTrails'
  BY <1>1, <1>2 DEF DelTrails, NotReady
<1>4. RemovingNotReady'
  BY <1>1, <1>2 DEF RemovingNotReady, Removing, BHeld, CopiesKnown
<1>5. ObservedBacked'
  BY <1>1, <1>2 DEF BReady, ObservedBacked, BHeld, CopiesKnown
<1> QED BY <1>2, <1>3, <1>4, <1>5 DEF BReady

LEMMA BReadyInit == BInit => BReady
<1> SUFFICES ASSUME BInit PROVE BReady
  OBVIOUS
<1>1. stored = [b \in Bindings |-> Gone] /\ cache = stored /\ rec = NoRec
  BY DEF BInit
<1> QED BY <1>1, NoRecType DEF BReady, DelTrails, RemovingNotReady, Removing, ObservedBacked,
                               ReadyBacked, NotReady

LEMMA BReadyNext ==
  ASSUME IInv, CallInv, BHeld, BGuard, BReady, Unshared, [BNext]_allVars
  PROVE  BReady'
<1>1. CASE UNCHANGED <<stored, cache, rec, sas, fis, grants>>
  BY <1>1 DEF BReady, DelTrails, RemovingNotReady, NotReady, ObservedBacked, ReadyBacked, BackedFor,
              BindingsForSA
<1>2. CASE World \/ UNCHANGED allVars
  BY <1>1, <1>2 DEF World, ChangeIdPs, Stabilise, Rename, allVars, vars, kvars, cloud
<1>3. ASSUME NEW s \in K8sSAs, SyncServiceAccount(s) \/ CollectGarbage(s) \/ UserTogglesSA(s)
      PROVE  BReady'
  BY <1>1, <1>3 DEF SyncServiceAccount, CollectGarbage, UserTogglesSA, vars, control
<1>4. CASE Restart
  <2>1. /\ stored' = stored /\ cache' = stored /\ rec' = NoRec /\ UNCHANGED <<sas, fis, grants>>
    BY <1>4 DEF Restart, Crash, cloud
  <2> QED BY <2>1, NoRecType DEF BReady, DelTrails, RemovingNotReady, Removing, NotReady,
             ObservedBacked, ReadyBacked, BackedFor, BindingsForSA
<1> QED BY <1>2, <1>3, <1>4, StepReady, CloudStepReady, ReconcileReady, EventReady DEF BNext, BindingEvent

\* Ready means what it says: while a binding that nobody deletes says Ready,
\* the account, the federated identity and the grant in its status are in the
\* cloud, through edits, conflicts, failed or repeated calls and restarts.  Two
\* bindings that name one ServiceAccount break it: the delete of one takes what
\* the other has reported.
THEOREM BindingsReadyAreBacked ==
  ASSUME Workers = {wib}, Unshared PROVE BSpec => []ReadyIsBacked
<1>1. BSpec => [](IInv /\ CallInv /\ BHeld /\ BGuard)
  BY CallsHold, BindingGuards, PTL
<1>2. BInit => BReady
  BY BReadyInit
<1>3. IInv /\ CallInv /\ BHeld /\ BGuard /\ BReady /\ [BNext]_allVars => BReady'
  BY BReadyNext
<1>4. BReady => ReadyIsBacked
  BY DEF BReady, ReadyBacked, NotReady, BackedFor, ReadyIsBacked
<1> QED BY <1>1, <1>2, <1>3, <1>4, PTL DEF BSpec
=============================================================================
