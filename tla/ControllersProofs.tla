-------------------------- MODULE ControllersProofs --------------------------
(***************************************************************************)
(* Theorems about the manager that runs both controllers: what is proved   *)
(* of every behaviour of WorkloadIdentity is carried over to it; each      *)
(* writer of a ServiceAccount keeps to its part; and the two finalizer     *)
(* protocols side by side leave nothing without a finalizer.               *)
(***************************************************************************)
EXTENDS Controllers, BindingControllerProofs, AnnotationControllerProofs, IdentityRefinementProofs

\* Both controllers in one process make the calls of WorkloadIdentity, each
\* worker one at a time.
LEMMA ManagerImplementsCalls == MSpec => Spec
<1>1. MInit => Init
  BY DEF MInit, BInit
<1>2. [MNext]_managerVars => [Next]_vars
  <2>1. CASE UNCHANGED managerVars
    BY <2>1 DEF managerVars
  <2>2. CASE BindingSide
    BY <2>2, ControllerStepRefines, KubeStepRefines DEF BindingSide
  <2>3. CASE AnnotationSide
    BY <2>3, AnnotationStepRefines, AccountStepRefines DEF AnnotationSide
  <2>4. CASE RestartManager
    BY <2>4 DEF RestartManager, Restart, Next
  <2>5. CASE WorldOutside
    BY <2>5 DEF WorldOutside, World, Next
  <2> QED BY <2>1, <2>2, <2>3, <2>4, <2>5 DEF MNext
<1> QED BY <1>1, <1>2, PTL DEF MSpec, Spec

\* With both controllers at work, also on the same ServiceAccounts, only
\* allowed targets are ever granted.
THEOREM ManagerGrantsOnlyAllowed == MSpec => []AllowlistRespected
  BY ManagerImplementsCalls, OnlyAllowedGranted, PTL

\* Where a ServiceAccount has either a binding or annotations, both controllers
\* together never make a second account or federated identity for a key.
THEOREM ManagerNoDuplicateIdentity ==
  ASSUME Exclusive PROVE MSpec => []UniqueIdentity
  BY ManagerImplementsCalls, NoDuplicateIdentity, PTL

\* Seen from IAM, both controllers together are the atomic operations of
\* IdentityStore, where a ServiceAccount has either a binding or annotations.
THEOREM ManagerImplementsStore ==
  ASSUME Exclusive PROVE MSpec => ImplementsIdentityStore
  BY ManagerImplementsCalls, EngineImplementsStore, PTL

-----------------------------------------------------------------------------
(* Two writers of one ServiceAccount.                                        *)

MHeld == TypeOK /\ BHeld /\ SHeld

\* The binding controller's write makes a new version just when it changes something.
LEMMA BindingWrites ==
  ASSUME BHeld, ControllerStep
  PROVE  \/ stale' = stale
         \/ sa' # sa /\ stale' \subseteq stale \cup {rec.obj.spec.sa}
<1>1. CASE UNCHANGED accounts
  BY <1>1 DEF accounts
<1>2. ASSUME NEW o, Write(rec.obj.spec.sa, o), rec.obj.spec.sa \in K8sSAs
      PROVE  \/ stale' = stale
             \/ sa' # sa /\ stale' \subseteq stale \cup {rec.obj.spec.sa}
  BY <1>2 DEF Write, BHeld, BTypeOK, AccountsTypeOK
<1>3. rec.pc # "idle" => rec.obj.spec.sa \in K8sSAs
  BY DEF BHeld, CopiesKnown, KnownCopy, BindingType, SpecType
<1>4. CASE ClearAnnotations \/ annotateServiceAccountIdentity
  BY <1>1, <1>2, <1>3, <1>4 DEF ClearAnnotations, annotateServiceAccountIdentity
<1>5. CASE ~(ClearAnnotations \/ annotateServiceAccountIdentity)
  BY <1>1, <1>5 DEF ControllerStep, BeginDelete, DeleteReturned, RemoveFinalizer, AddFinalizer,
     GetServiceAccount, EnsureReturned, syncIdentityConfigMap, patchStatus, CloudStep, kvars, kube, accounts
<1> QED BY <1>4, <1>5

LEMMA BindingSideOK ==
  ASSUME MHeld, BindingSide
  PROVE  BHeld' /\ SHeld' /\ ops' \in Nat /\ (sa' # sa => BEffects)
<1>1. TypeOK /\ BHeld /\ SHeld
  BY DEF MHeld
<1>2. /\ BHeld'
      /\ \/ sa' = sa /\ stale' = stale
         \/ BEffects /\ \/ sa' = sa /\ stale' = stale
                        \/ sa' # sa /\ stale' \subseteq stale \cup {rec.obj.spec.sa}
  <2>1. CASE ControllerStep
    <3>1. BHeld' /\ BEffects
      BY <1>1, <2>1, BindingStepOK
    <3>2. sa' = sa => stale' = stale
      BY <1>1, <2>1, BindingWrites
    <3>3. stale' = stale \/ stale' \subseteq stale \cup {rec.obj.spec.sa}
      BY <1>1, <2>1, BindingWrites
    <3> QED BY <3>1, <3>2, <3>3
  <2>2. ASSUME NEW b \in Bindings, Reconcile(b) PROVE BHeld' /\ sa' = sa /\ stale' = stale
    BY <1>1, <2>2, BReconcileOK DEF Reconcile, kube, accounts
  <2>3. ASSUME NEW b \in Bindings, BindingEvent(b) PROVE BHeld' /\ sa' = sa /\ stale' = stale
    <3>1. stale' = stale
      BY <2>3 DEF BindingEvent, WatchEvent, Resync, UserDelete, UserCreate, UserEdit, UserStep, kube,
                  accounts
    <3> QED BY <1>1, <2>3, <3>1, BindingEventOK
  <2>4. ASSUME NEW s \in K8sSAs, CollectGarbage(s) PROVE BHeld' /\ sa' = sa /\ stale' = stale
    BY <1>1, <2>4, GarbageOK DEF CollectGarbage, accounts
  <2> QED BY <2>1, <2>2, <2>3, <2>4 DEF BindingSide, BindingEvent
<1>3. /\ srec \in SRecType /\ squeue' = squeue
      /\ srec' = IF sa' = sa THEN srec
                 ELSE IF srec.s = rec.obj.spec.sa THEN [srec EXCEPT !.fresh = FALSE] ELSE srec
  BY <1>1 DEF BindingSide, Overtake, SHeld, STypeOK, SRecType
<1>4. /\ srec' \in SRecType /\ srec'.pc = srec.pc /\ srec'.s = srec.s /\ srec'.obj = srec.obj
      /\ srec'.status = srec.status
      /\ srec'.fresh => srec.fresh /\ (sa' = sa \/ srec.s # rec.obj.spec.sa)
  BY <1>3 DEF SRecType
<1>5. \A s \in K8sSAs : s # rec.obj.spec.sa => sa'[s] = sa[s]
  BY <1>2 DEF BEffects
<1>6. Held' /\ ReportsOnly'
  BY <1>1, <1>2, <1>4, <1>5 DEF SHeld, Held, ReportsOnly
<1>7. SHeld'
  BY <1>1, <1>2, <1>3, <1>4, <1>6 DEF BHeld, BTypeOK, SHeld, STypeOK, SRecType
<1>8. ops' \in Nat
  BY <1>2, ServiceAccountsAssumption DEF BHeld, BTypeOK, AccountsTypeOK
<1> QED BY <1>2, <1>7, <1>8

LEMMA AnnotationSideOK ==
  ASSUME MHeld, AnnotationSide
  PROVE  BHeld' /\ SHeld'
<1>1. SHeld'
  BY AnnotationStepOK, ReconcileOK, CacheStepOK, UserStepOK DEF MHeld, AnnotationSide
<1> QED BY <1>1 DEF MHeld, AnnotationSide, bcontrol, SHeld, STypeOK, BHeld, BTypeOK, CopiesKnown, KnownCopy

LEMMA ManagerHolds == MSpec => []MHeld
<1>1. MSpec => []TypeOK
  BY ManagerImplementsCalls, TypeCorrect, PTL
<1>2. MInit => BHeld /\ SHeld
  <2>1. MInit => BInit
    BY DEF MInit
  <2>2. MInit => AccountsInit /\ squeue \subseteq K8sSAs /\ srec = NoSRec
    BY DEF MInit, BInit
  <2> QED BY <2>1, <2>2, BHeldInit, SHeldInit
<1>3. TypeOK /\ BHeld /\ SHeld /\ [MNext]_managerVars => BHeld' /\ SHeld'
  <2> SUFFICES ASSUME TypeOK, BHeld, SHeld, [MNext]_managerVars PROVE BHeld' /\ SHeld'
    OBVIOUS
  <2>1. MHeld
    BY DEF MHeld
  <2>2. CASE RestartManager
    <3>1. BHeld' /\ srec' = NoSRec /\ squeue' \subseteq K8sSAs
      BY <2>2, RestartOK DEF RestartManager
    <3>2. Held' /\ ReportsOnly'
      BY <3>1, NoSRecType DEF Held, ReportsOnly
    <3> QED BY <3>1, <3>2, NoSRecType DEF BHeld, BTypeOK, SHeld, STypeOK, SRecType
  <2>3. CASE UNCHANGED <<kvars, scontrol>>
    <3>1. BHeld'
      BY <2>3 DEF kvars, BHeld, BTypeOK, AccountsTypeOK, Coherent, WantsKnown, CopiesKnown, KnownCopy
    <3>2. SHeld'
      BY <2>3 DEF kvars, scontrol, SHeld, STypeOK, AccountsTypeOK, Coherent, WantsKnown, Held, ReportsOnly
    <3> QED BY <3>1, <3>2
  <2>4. WorldOutside \/ UNCHANGED managerVars => UNCHANGED <<kvars, scontrol>>
    BY DEF WorldOutside, World, managerVars, scontrol
  <2> QED BY <2>1, <2>2, <2>3, <2>4, BindingSideOK, AnnotationSideOK DEF MNext
<1> QED BY <1>1, <1>2, <1>3, PTL DEF MSpec, MHeld

\* With both controllers in one process, too, everything they keep of bindings
\* and ServiceAccounts has its type.
THEOREM ManagerTypeCorrect == MSpec => [](TypeOK /\ BTypeOK /\ STypeOK)
<1>1. MHeld => TypeOK /\ BTypeOK /\ STypeOK
  BY DEF MHeld, BHeld, SHeld
<1> QED BY <1>1, ManagerHolds, PTL

-----------------------------------------------------------------------------
(* Each controller's copies and calls, while the other is at work.           *)

\* A worker's call is its own.
LEMMA OthersKept ==
  ASSUME TypeOK, NEW w \in Workers, Step(w) \/ (\E j : Begin(w, j)) \/ Collect(w)
  PROVE  \A v \in Workers : v # w => pc'[v] = pc[v] /\ job'[v] = job[v] /\ reg'[v] = reg[v]
<1>1. CASE Step(w)
  BY <1>1, StepLocal
<1>2. CASE (\E j : Begin(w, j)) \/ Collect(w)
  BY <1>2 DEF Begin, Collect, Go, TypeOK
<1> QED BY <1>1, <1>2

LEMMA SidesApart ==
  ASSUME TypeOK
  PROVE  /\ BindingSide => pc'[wsa] = pc[wsa] /\ job'[wsa] = job[wsa] /\ reg'[wsa] = reg[wsa]
         /\ AnnotationSide => pc'[wib] = pc[wib] /\ job'[wib] = job[wib] /\ reg'[wib] = reg[wib]
<1>1. wib \in Workers /\ wsa \in Workers /\ wib # wsa
  BY ControllerAssumption, AnnotationAssumption, TwoWorkersAssumption
<1>2. BindingSide => Step(wib) \/ (\E j : Begin(wib, j)) \/ Collect(wib) \/ UNCHANGED vars
  BY DEF BindingSide, ControllerStep, ClearAnnotations, BeginDelete, DeleteReturned, RemoveFinalizer,
         AddFinalizer, GetServiceAccount, EnsureReturned, syncIdentityConfigMap,
         annotateServiceAccountIdentity, patchStatus, CloudStep, Reconcile, WatchEvent, Resync,
         UserDelete, UserCreate, UserEdit, UserStep, CollectGarbage
<1>3. AnnotationSide => Step(wsa) \/ (\E j : Begin(wsa, j)) \/ Collect(wsa) \/ UNCHANGED vars
  BY DEF AnnotationSide, AnnotationStep, BeginDeleteSA, DeleteReturnedSA, RemoveFinalizerSA,
         AddFinalizerSA, MarkPending, EnsureReturnedSA, MarkReady, PatchReport, CloudStepSA,
         ReconcileSA, WatchSA, ResyncSA, UserSA
<1> QED BY <1>1, <1>2, <1>3, OthersKept DEF vars

MControl == BControl /\ SControl

LEMMA BindingSideControl ==
  ASSUME MHeld, MControl, BindingSide
  PROVE  /\ MControl'
         /\ \A s \in K8sSAs : Guarded(s)' <=> Guarded(s)
         /\ srec'.pc = srec.pc /\ srec'.s = srec.s
<1>1. TypeOK /\ BHeld /\ SHeld /\ BControl /\ SControl
  BY DEF MHeld, MControl
<1>2. BControl'
  <2>1. CASE ControllerStep
    BY <1>1, <2>1, ControlAfterStep
  <2>2. ASSUME NEW b \in Bindings, Reconcile(b) PROVE BControl'
    BY <1>1, <2>2, ControlAfterReconcile
  <2>3. ASSUME NEW b \in Bindings, BindingEvent(b) PROVE BControl'
    BY <1>1, <2>3, ControlAfterEvent
  <2>4. ASSUME NEW s \in K8sSAs, CollectGarbage(s) PROVE BControl'
    BY <1>1, <2>4, ControlElsewhere DEF CollectGarbage, control, vars
  <2> QED BY <2>1, <2>2, <2>3, <2>4 DEF BindingSide, BindingEvent
<1>3. \A s \in K8sSAs : Guarded(s)' <=> Guarded(s)
  <2>1. sa' = sa \/ BEffects
    BY BindingSideOK
  <2> QED BY <2>1 DEF BEffects, Guarded
<1>4. srec'.pc = srec.pc /\ srec'.s = srec.s
  BY <1>1 DEF BindingSide, Overtake, SHeld, STypeOK, SRecType
<1>5. saCache' = saCache
  <2>1. CASE ControllerStep
    BY <1>1, <2>1, BindingStepOK DEF BEffects
  <2>2. CASE ~ControllerStep
    BY <2>2 DEF BindingSide, Reconcile, WatchEvent, Resync, UserDelete, UserCreate, UserEdit, UserStep,
                CollectGarbage, kube, accounts
  <2> QED BY <2>1, <2>2
<1>6. CallLink'
  BY <1>1, <1>4, SidesApart DEF SControl, CallLink
<1>7. CacheTrails'
  BY <1>1, <1>3, <1>5 DEF SControl, CacheTrails
<1>8. Guarding'
  BY <1>1, <1>3, <1>4 DEF SHeld, Held, SControl, Guarding, Guarded
<1> QED BY <1>2, <1>3, <1>4, <1>6, <1>7, <1>8 DEF MControl, SControl

LEMMA AnnotationSideControl ==
  ASSUME MHeld, MControl, AnnotationSide
  PROVE  MControl'
<1>1. TypeOK /\ BHeld /\ SHeld /\ BControl /\ SControl
  BY DEF MHeld, MControl
<1>2. SControl'
  <2>1. ASSUME NEW s \in K8sSAs, WatchSA(s) \/ ResyncSA(s) PROVE SControl'
    <3>1. UNCHANGED <<vars, srec>>
      BY <2>1 DEF WatchSA, ResyncSA
    <3>2. sa' = sa /\ \A t \in K8sSAs : saCache'[t] \in {sa[t], saCache[t]}
      BY <1>1, <2>1, CacheStepOK
    <3> QED BY <1>1, <3>1, <3>2, ElsewhereControl DEF vars
  <2> QED BY <1>1, <2>1, AnnotationStepControl, ReconcileControl, UserControl DEF AnnotationSide
<1>3. ops' \in {ops, ops + 1}
  <2>1. ASSUME NEW s \in K8sSAs, UserSA(s) PROVE ops' = ops + 1
    BY <2>1 DEF UserSA, CreateSA, AnnotateSA, DeleteSA, UserOp
  <2>2. CASE AnnotationStep
    BY <1>1, <2>2, AnnotationStepOK DEF Effects
  <2>3. ASSUME NEW s \in K8sSAs, ReconcileSA(s) \/ WatchSA(s) \/ ResyncSA(s) PROVE ops' = ops
    BY <2>3 DEF ReconcileSA, WatchSA, ResyncSA
  <2> QED BY <2>1, <2>2, <2>3 DEF AnnotationSide
<1>4. UNCHANGED <<stored, cache, rec>>
  BY DEF AnnotationSide, bcontrol
<1> QED BY <1>1, <1>2, <1>3, <1>4, SidesApart, ControlElsewhere DEF MControl

LEMMA RestartControl ==
  ASSUME MHeld, MControl, RestartManager
  PROVE  MControl' /\ sa' = sa /\ srec' = NoSRec /\ rec' = NoRec
<1>1. BControl' /\ sa' = sa /\ saCache' = sa /\ srec' = NoSRec /\ rec' = NoRec /\ pc'[wsa] = "idle"
  BY ControlAfterRestart, AnnotationAssumption
     DEF MHeld, MControl, RestartManager, Restart, RefreshAll, Crash
<1> QED BY <1>1, NoSRecType DEF MControl, SControl, CallLink, CacheTrails, Guarding, Guarded

LEMMA ControlNext ==
  ASSUME MHeld, MControl, [MNext]_managerVars
  PROVE  MControl'
<1>1. CASE WorldOutside \/ UNCHANGED managerVars
  <2>1. UNCHANGED <<stored, cache, rec, ops, sa, saCache, srec, pc, job>>
    BY <1>1 DEF WorldOutside, World, managerVars, kvars, scontrol, ChangeIdPs, Stabilise, Rename, vars,
                local
  <2>2. BControl'
    BY <2>1, ControlElsewhere DEF MHeld, MControl
  <2>3. SControl'
    BY <2>1, ElsewhereControl DEF MControl
  <2> QED BY <2>2, <2>3 DEF MControl
<1> QED BY <1>1, BindingSideControl, AnnotationSideControl, RestartControl DEF MNext

LEMMA ManagerControl == MSpec => [](MHeld /\ MControl)
<1>1. MInit => MControl
  <2> SUFFICES ASSUME MInit PROVE MControl
    OBVIOUS
  <2>1. BInit /\ AccountsInit /\ srec = NoSRec /\ pc[wsa] = "idle"
    BY AnnotationAssumption DEF MInit, BInit, Init
  <2> QED BY <2>1, BControlInit, SControlInit DEF MControl
<1>2. MHeld /\ MControl /\ [MNext]_managerVars => MControl'
  BY ControlNext
<1> QED BY <1>1, <1>2, ManagerHolds, PTL DEF MSpec

\* The two controllers and users write the same ServiceAccounts, from copies made
\* at different times, and each changes only its own part: an update from a copy
\* that somebody has overtaken is refused.  The identities both controllers
\* write: the binding controller puts in its account and keeps the rest, and
\* takes all of them away, the annotation controller's too, only from the
\* ServiceAccount of a binding that it has seen deleted.
THEOREM ManagerWritersKeep == MSpec => WritersKeepToTheirPart
<1> DEFINE OwnPart(s) ==
             sa[s].there /\ sa'[s].there =>
               /\ sa'[s].want # sa[s].want => ops' # ops
               /\ sa'[s].fin # sa[s].fin => srec.pc \in {"addFin", "removeFin"} /\ srec.s = s
               /\ sa'[s].status # sa[s].status => srec.s = s
               /\ sa'[s].org # sa[s].org => rec.pc \in {"clear", "annotate"} /\ rec.obj.spec.sa = s
               /\ Identities(sa'[s]) # Identities(sa[s]) =>
                    \/ srec.pc = "ready" /\ srec.s = s /\ Identities(sa'[s]) = srec.res
                    \/ /\ rec.pc = "annotate" /\ rec.obj.spec.sa = s
                       /\ Identities(sa'[s]) = [Identities(sa[s]) EXCEPT !.said = rec.obs.said]
                    \/ /\ rec.pc = "clear" /\ rec.obj.spec.sa = s /\ rec.obj.del
                       /\ Identities(sa'[s]) = NoResult
           Keep == \A s \in K8sSAs : OwnPart(s)
<1>1. ASSUME MHeld, MControl, [MNext]_managerVars PROVE Keep
  <2>0. TypeOK /\ BHeld /\ SHeld /\ BControl /\ SControl
    BY <1>1 DEF MHeld, MControl
  <2>1. CASE sa' = sa
    BY <2>1
  <2>2. CASE BindingSide
    <3>1. sa' = sa \/ BEffects
      BY <1>1, <2>2, BindingSideOK
    <3>2. rec.pc = "clear" => rec.obj.del
      BY <2>0 DEF BControl, FinalizerCopy, Removing
    <3>3. ASSUME BEffects, NEW s \in K8sSAs PROVE OwnPart(s)
      BY <3>2, <3>3 DEF BEffects, IdentityChange, NoResult
    <3> QED BY <2>1, <3>1, <3>3
  <2>3. ASSUME Effects PROVE Keep
    <3> SUFFICES ASSUME NEW s \in K8sSAs, srec.s = s, Effect(sa[s], sa'[s]) PROVE OwnPart(s)
      BY <2>3 DEF Effects
    <3> QED BY NoSAType DEF Effect
  <2>4. ASSUME NEW s \in K8sSAs, UserSA(s) PROVE Keep
    <3>1. AccountsOK /\ WantsKnown /\ ops \in Nat
      BY <2>0, ServiceAccountsAssumption DEF SHeld, STypeOK, AccountsOK, AccountsTypeOK
    <3>2. /\ ops' = ops + 1
          /\ \A t \in K8sSAs : t # s => sa'[t] = sa[t]
          /\ \/ ~sa[s].there
             \/ sa'[s] = NoSA
             \/ /\ sa'[s].fin = sa[s].fin /\ sa'[s].status = sa[s].status /\ sa'[s].org = sa[s].org
                /\ Identities(sa'[s]) = Identities(sa[s])
      BY <2>4, <3>1, UserOK DEF UserSA
    <3>3. ops' # ops
      BY <3>1, <3>2
    <3> QED BY <3>2, <3>3, NoSAType
  <2>5. CASE AnnotationSide
    <3>1. CASE AnnotationStep \/ \E s \in K8sSAs : ReconcileSA(s)
      BY <2>0, <2>3, <3>1, AnnotationStepOK, ReconcileOK
    <3>2. CASE \E s \in K8sSAs : WatchSA(s) \/ ResyncSA(s)
      BY <2>0, <2>1, <3>2, CacheStepOK
    <3> QED BY <2>4, <2>5, <3>1, <3>2 DEF AnnotationSide
  <2>6. CASE RestartManager
    BY <1>1, <2>1, <2>6, RestartControl
  <2>7. WorldOutside \/ UNCHANGED managerVars => sa' = sa
    BY DEF WorldOutside, World, kvars, managerVars
  <2> QED BY <1>1, <2>1, <2>2, <2>5, <2>6, <2>7 DEF MNext
<1>2. MHeld /\ MControl /\ [MNext]_managerVars => [Keep]_managerVars
  BY <1>1
<1> QED BY <1>2, ManagerControl, PTL DEF MSpec, WritersKeepToTheirPart

-----------------------------------------------------------------------------
(* What the two finalizers guard together.  A delete has passed what is under *)
(* its key and will no longer be removed by it.                              *)

AfterFIs == {"dListSA", "dResolve", "dListGrant", "dDeleteGrant", "dDeleteSA"}
AfterSAs == AfterFIs \ {"dListSA"}
PassedFI(l, j, r, f) == (l = "dDeleteFI" /\ f.id # r.fid) \/ l \in AfterFIs \/ DeleteDone(l, j, r)
PassedSA(l, j, r, s) == (l \in AfterSAs /\ s.id # r.said) \/ DeleteDone(l, j, r)
Passed(w, k) ==
  /\ job[w].op = "delete" /\ Key(w) = k
  /\ \/ \E f \in fis : f.key = k /\ PassedFI(pc[w], job[w], reg[w], f)
     \/ \E s \in sas : s.key = k /\ PassedSA(pc[w], job[w], reg[w], s)

Present(k) == \E x \in sas \cup fis : x.key = k
Making(w, k) == job[w].op = "ensure" /\ Key(w) = k

\* What a step of a call finds in the cloud was there, but for what it makes.
LEMMA StepFinds ==
  ASSUME Typed, NEW w \in Workers, Step(w)
  PROVE  /\ \A s \in sas' : s \in sas \/ Making(w, s.key)
         /\ \A f \in fis' : (\E g \in fis : g.id = f.id /\ g.key = f.key) \/ Making(w, f.key)
<1>1. ASSUME pc[w] \in EnsureCalls PROVE job[w].op = "ensure"
  BY <1>1 DEF Typed, CallsOK, CallOK
<1>2. CASE CreateServiceAccount(w)
  BY <1>1, <1>2 DEF CreateServiceAccount, At, EnsureCalls, Making
<1>3. CASE CreateFederatedIdentity(w)
  BY <1>1, <1>3 DEF CreateFederatedIdentity, At, EnsureCalls, Making
<1>4. CASE UpdateFederatedIdentity(w)
  <2>1. \A f \in fis : /\ [f EXCEPT !.attrs = job[w].attrs].key = f.key
                       /\ [f EXCEPT !.attrs = job[w].attrs].id = f.id
    BY DEF Typed, TypeOK
  <2>2. sas' = sas /\ \A g \in fis' : \E f \in fis : g.id = f.id /\ g.key = f.key
    BY <1>4, <2>1 DEF UpdateFederatedIdentity
  <2> QED BY <2>2
<1>5. CASE CreateBinding(w) \/ DeleteFederatedIdentity(w) \/ DeleteServiceAccount(w)
           \/ DeleteBinding(w) \/ UNCHANGED cloud
  <2>1. sas' \subseteq sas /\ fis' \subseteq fis
    BY <1>5 DEF CreateBinding, DeleteFederatedIdentity, DeleteServiceAccount, DeleteBinding, cloud
  <2> QED BY <2>1
<1> QED BY <1>2, <1>3, <1>4, <1>5, StepWrites DEF Writes

\* Where a delete goes after the first account.
LEMMA DeleteMoves ==
  ASSUME Typed, NEW w \in Workers, job[w].op = "delete", NEW r \in RegType
  PROVE  /\ \A l : Go(w, l, r) => pc'[w] = l /\ reg'[w] = r
         /\ \A l : Reply(w, l, r) => pc'[w] = "failed" \/ (pc'[w] = l /\ reg'[w] = r)
         /\ GoAfterRef(w, r) \/ ReplyAfterRef(w, r) =>
              \/ pc'[w] = "failed"
              \/ pc'[w] \in {"dResolve", "dDeleteSA"} /\ reg'[w].said = r.said /\ reg'[w].idp = r.idp
<1>1. \A l, q : Go(w, l, q) => pc'[w] = l /\ reg'[w] = q
  BY DEF Typed, TypeOK, Go
<1>2. \A k : LabelFor(job[w], k) \in {"dResolve", "dDeleteSA"}
  BY DEF LabelFor
<1>3. \A k : [r EXCEPT !.kind = k].said = r.said /\ [r EXCEPT !.kind = k].idp = r.idp
  BY DEF RegType
<1>4. \A l, q : Reply(w, l, q) => pc'[w] = "failed" \/ (pc'[w] = l /\ reg'[w] = q)
  BY <1>1 DEF Reply, Fail
<1>5. ASSUME NEW k, Reply(w, LabelFor(job[w], k), [r EXCEPT !.kind = k])
      PROVE  \/ pc'[w] = "failed"
             \/ pc'[w] \in {"dResolve", "dDeleteSA"} /\ reg'[w].said = r.said /\ reg'[w].idp = r.idp
  <2> DEFINE q == [r EXCEPT !.kind = k]
  <2>1. q.said = r.said /\ q.idp = r.idp
    BY <1>3
  <2> HIDE DEF q
  <2>2. pc'[w] = "failed" \/ (pc'[w] = LabelFor(job[w], k) /\ reg'[w] = q)
    BY <1>4, <1>5 DEF q
  <2> QED BY <1>2, <2>1, <2>2
<1>6. GoAfterRef(w, r) \/ ReplyAfterRef(w, r) =>
        \E k : Reply(w, LabelFor(job[w], k), [r EXCEPT !.kind = k])
  BY DEF GoAfterRef, ReplyAfterRef, Reply
<1> QED BY <1>1, <1>4, <1>5, <1>6

\* A delete passes nothing that it has not overlooked before, where there is one
\* of a kind under the key; and no call makes another one's delete pass anything
\* but what it makes itself.
LEMMA PassedStep ==
  ASSUME Typed, NEW w \in Workers, Step(w), NEW k \in Keys, k \notin DoubledNow
  PROVE  /\ Present(k)' => Present(k) \/ Making(w, k)
         /\ \A v \in Workers : Passed(v, k)' => Passed(v, k) \/ (v # w /\ Making(w, k))
<1>1. /\ job' = job /\ pc[w] \in Underway /\ reg[w] \in RegType
      /\ \A v \in Workers : v # w => pc'[v] = pc[v] /\ reg'[v] = reg[v]
  BY StepLocal DEF Typed, TypeOK
<1>2. Present(k)' => Present(k) \/ Making(w, k)
  BY StepFinds DEF Present
<1>3. ASSUME NEW v \in Workers, v # w, Passed(v, k)', ~Making(w, k) PROVE Passed(v, k)
  <2>1. pc'[v] = pc[v] /\ reg'[v] = reg[v] /\ job' = job
    BY <1>1, <1>3
  <2>2. /\ \A s \in sas' : s.key = k => s \in sas
        /\ \A f \in fis' : f.key = k => \E g \in fis : g.id = f.id /\ g.key = k
    BY <1>3, StepFinds
  <2> QED BY <1>3, <2>1, <2>2 DEF Passed, Key, PassedFI, PassedSA
<1>4. ASSUME Passed(w, k)' PROVE Passed(w, k)
  <2>0. job[w].op = "delete" /\ Key(w)' = k
    BY <1>1, <1>4 DEF Passed
  <2>1. /\ \A l, r : r \in RegType /\ Go(w, l, r) => pc'[w] = l /\ reg'[w] = r
        /\ \A l, r : r \in RegType /\ Reply(w, l, r) => pc'[w] = "failed" \/ (pc'[w] = l /\ reg'[w] = r)
        /\ \A r \in RegType : GoAfterRef(w, r) \/ ReplyAfterRef(w, r) =>
              \/ pc'[w] = "failed"
              \/ pc'[w] \in {"dResolve", "dDeleteSA"} /\ reg'[w].said = r.said /\ reg'[w].idp = r.idp
    BY <2>0, DeleteMoves
  <2>2. /\ pc'[w] \in {"dDeleteFI", "ok"} \cup AfterFIs
        /\ pc'[w] = "ok" => reg'[w].idp # None
    BY <1>4 DEF Passed, PassedFI, PassedSA, AfterSAs, AfterFIs, DeleteDone
  <2>3. /\ \A f, g \in fis : f.key = k /\ g.key = k => f = g
        /\ \A s, t \in sas : s.key = k /\ t.key = k => s = t
    BY DEF DoubledNow
  <2>4. pc[w] \notin EnsureCalls
    BY <2>0 DEF Typed, CallsOK, CallOK
  <2>5. ~Fail(w) /\ NoReg \in RegType /\ NoReg.idp = None
    BY <2>1, <2>2, NoRegType DEF Fail, NoReg, AfterFIs
  <2>6. CASE DeleteListFI(w)
    <3>1. pc[w] = "dListFI" /\ fis' = fis /\ sas' = sas
      BY <2>6 DEF DeleteListFI, At, cloud
    <3>2. CASE findByLabelsFI(Key(w)) = {} /\ Go(w, "dListSA", reg[w])
      <4>1. pc'[w] = "dListSA" /\ reg'[w] = reg[w]
        BY <1>1, <2>1, <3>2
      <4>2. \A f \in fis : f.key # k
        BY <1>1, <2>0, <3>2, <4>1 DEF Key, findByLabelsFI
      <4> QED BY <1>4, <3>1, <4>1, <4>2 DEF Passed, PassedSA, AfterSAs, DeleteDone
    <3>3. ASSUME NEW f \in findByLabelsFI(Key(w)), Go(w, "dDeleteFI", [reg[w] EXCEPT !.fid = f.id])
          PROVE  FALSE
      <4>1. f \in fis /\ f.key = Key(w) /\ f.id \in Nat
        BY <3>3 DEF findByLabelsFI, Typed, TypeOK
      <4>2. /\ [reg[w] EXCEPT !.fid = f.id] \in RegType
            /\ [reg[w] EXCEPT !.fid = f.id].idp = reg[w].idp /\ [reg[w] EXCEPT !.fid = f.id].fid = f.id
        BY <1>1, <4>1 DEF RegType
      <4>3. pc'[w] = "dDeleteFI" /\ reg'[w].idp = reg[w].idp /\ reg'[w].fid = f.id
        BY <2>1, <3>3, <4>2
      <4>4. f.key = k
        BY <1>1, <2>0, <4>1, <4>3 DEF Key
      <4> QED BY <1>4, <2>3, <3>1, <4>1, <4>3, <4>4 DEF Passed, PassedFI, PassedSA, AfterFIs, AfterSAs, DeleteDone
    <3> QED BY <2>6, <3>2, <3>3 DEF DeleteListFI
  <2>7. CASE DeleteFederatedIdentity(w)
    <3>1. /\ pc[w] = "dDeleteFI" /\ fis' = {f \in fis : f.id # reg[w].fid} /\ sas' = sas
          /\ pc'[w] = "dListSA" /\ reg'[w] = reg[w]
      BY <1>1, <2>1, <2>2, <2>7 DEF DeleteFederatedIdentity, At, AfterFIs
    <3> QED BY <1>1, <1>4, <3>1 DEF Passed, PassedFI, PassedSA, AfterSAs, DeleteDone, Key
  <2>8. CASE DeleteListSA(w)
    <3>1. pc[w] = "dListSA" /\ fis' = fis /\ sas' = sas
      BY <2>8 DEF DeleteListSA, At, cloud
    <3>2. CASE findByLabelsSA(Key(w)) = {} /\ Go(w, "ok", reg[w])
      <4>1. pc'[w] = "ok" /\ reg'[w] = reg[w]
        BY <1>1, <2>1, <3>2
      <4>2. \A s \in sas : s.key # k
        BY <1>1, <2>0, <3>2, <4>1 DEF Key, findByLabelsSA
      <4> QED BY <1>1, <1>4, <3>1, <4>1, <4>2 DEF Passed, PassedFI, AfterFIs, Key
    <3>3. ASSUME NEW s \in findByLabelsSA(Key(w)), GoAfterRef(w, [reg[w] EXCEPT !.said = s.id])
          PROVE  Passed(w, k)
      <4>1. s \in sas /\ s.key = Key(w) /\ s.id \in Nat
        BY <3>3 DEF findByLabelsSA, Typed, TypeOK
      <4>2. /\ [reg[w] EXCEPT !.said = s.id] \in RegType
            /\ [reg[w] EXCEPT !.said = s.id].idp = reg[w].idp /\ [reg[w] EXCEPT !.said = s.id].said = s.id
        BY <1>1, <4>1 DEF RegType
      <4>3. pc'[w] \in {"dResolve", "dDeleteSA"} /\ reg'[w].idp = reg[w].idp /\ reg'[w].said = s.id
        BY <2>1, <2>2, <3>3, <4>2 DEF AfterFIs
      <4>4. Key(w) = k /\ s.key = k
        BY <1>1, <2>0, <4>1, <4>3 DEF Key
      <4>5. \E f \in fis : f.key = k
        BY <1>4, <2>3, <3>1, <4>1, <4>3, <4>4 DEF Passed, PassedSA, DeleteDone
      <4> QED BY <2>0, <3>1, <4>4, <4>5 DEF Passed, PassedFI, AfterFIs
    <3> QED BY <2>8, <3>2, <3>3 DEF DeleteListSA
  <2>9. CASE DeleteResolve(w) \/ DeleteListBindings(w) \/ DeleteBinding(w)
    <3>1. pc[w] \in AfterSAs /\ fis' = fis /\ sas' = sas
      BY <2>9 DEF DeleteResolve, DeleteListBindings, DeleteBinding, At, AfterSAs, AfterFIs, cloud
    <3>2. pc'[w] \in AfterSAs /\ reg'[w].said = reg[w].said /\ reg'[w].idp = reg[w].idp
      <4>1. ASSUME NEW r \in RegType, r.said = reg[w].said, r.idp = reg[w].idp,
                   \/ \E l \in AfterSAs : Go(w, l, r) \/ Reply(w, l, r)
                   \/ GoAfterRef(w, r) \/ ReplyAfterRef(w, r)
            PROVE  pc'[w] \in AfterSAs /\ reg'[w].said = reg[w].said /\ reg'[w].idp = reg[w].idp
        BY <2>1, <2>2, <4>1 DEF AfterSAs, AfterFIs
      <4>2. ASSUME NEW i
            PROVE  LET r == [reg[w] EXCEPT !.todo = @ \ {i}] IN
                   r \in RegType /\ r.said = reg[w].said /\ r.idp = reg[w].idp
        BY <1>1 DEF RegType
      <4>3. CASE DeleteBinding(w)
        BY <4>1, <4>2, <4>3 DEF DeleteBinding, AfterSAs, AfterFIs
      <4>4. CASE DeleteListBindings(w)
        <5> DEFINE owned == ManagedBindingsForSA(reg[w].got[reg[w].kind], reg[w].said)
                   r == [reg[w] EXCEPT !.todo = {g.id : g \in owned}]
        <5>1. r \in RegType /\ r.said = reg[w].said /\ r.idp = reg[w].idp
          <6>1. \A g \in owned : g.id \in Nat
            BY DEF ManagedBindingsForSA, BindingsForSA, Typed, TypeOK
          <6> HIDE DEF owned
          <6> QED BY <1>1, <6>1 DEF RegType
        <5>2. GoAfterRef(w, reg[w]) \/ Go(w, "dDeleteGrant", r)
          BY <4>4 DEF DeleteListBindings
        <5> HIDE DEF r
        <5> QED BY <1>1, <4>1, <5>1, <5>2 DEF AfterSAs, AfterFIs
      <4>5. CASE DeleteResolve(w)
        <5> DEFINE t == Resolve(reg[w].kind, job[w].ref[reg[w].kind])
                   r == [reg[w] EXCEPT !.got[reg[w].kind] = t]
        <5>1. (t # None /\ Go(w, "dListGrant", r)) \/ GoAfterRef(w, reg[w])
          BY <4>5 DEF DeleteResolve
        <5>2. r \in RegType /\ r.said = reg[w].said /\ r.idp = reg[w].idp
          <6>1. t \in Targets \cup {None}
            BY ResolveType DEF Typed
          <6> HIDE DEF t
          <6> QED BY <1>1, <6>1 DEF RegType
        <5> HIDE DEF r
        <5> QED BY <1>1, <4>1, <5>1, <5>2 DEF AfterSAs, AfterFIs
      <4> QED BY <2>9, <4>3, <4>4, <4>5
    <3> QED BY <1>1, <1>4, <3>1, <3>2 DEF Passed, PassedFI, PassedSA, AfterSAs, AfterFIs, DeleteDone, Key
  <2>10. CASE DeleteServiceAccount(w)
    <3>1. /\ pc[w] = "dDeleteSA" /\ sas' = {s \in sas : s.id # reg[w].said} /\ fis' = fis
          /\ pc'[w] = "ok" /\ reg'[w] = reg[w]
      BY <1>1, <2>1, <2>2, <2>10 DEF DeleteServiceAccount, At, AfterFIs
    <3> QED BY <1>1, <1>4, <3>1 DEF Passed, PassedFI, PassedSA, AfterSAs, AfterFIs, Key
  <2>11. ~(\/ FindProviderByClusterID(w) \/ ProviderMissing(w) \/ ProviderWithoutIssuer(w)
           \/ ProviderAmbiguous(w) \/ CallFails(w))
    <3>1. ~ProviderAmbiguous(w) /\ ~CallFails(w)
      BY <2>5 DEF ProviderAmbiguous, CallFails
    <3>2. ~ProviderMissing(w)
      BY <2>0, <2>1, <2>2, <2>5 DEF ProviderMissing, AfterFIs
    <3>3. ~ProviderWithoutIssuer(w)
      BY <2>0, <2>1, <2>2, <2>5 DEF ProviderWithoutIssuer, AfterFIs
    <3>4. ~FindProviderByClusterID(w)
      <4>1. ASSUME NEW p \in idps, Go(w, "dListFI", [reg[w] EXCEPT !.idp = p]) PROVE FALSE
        <5>1. [reg[w] EXCEPT !.idp = p] \in RegType
          BY <1>1 DEF RegType, Typed, TypeOK
        <5> QED BY <2>1, <2>2, <4>1, <5>1 DEF AfterFIs
      <4> QED BY <2>0, <4>1 DEF FindProviderByClusterID
    <3> QED BY <3>1, <3>2, <3>3, <3>4
  <2>12. ~(\/ ListServiceAccounts(w) \/ CreateServiceAccount(w) \/ ListFederatedIdentities(w)
           \/ CreateFederatedIdentity(w) \/ UpdateFederatedIdentity(w) \/ ResolveRef(w)
           \/ ListBindings(w) \/ CreateBinding(w))
    BY <2>4 DEF ListServiceAccounts, CreateServiceAccount, ListFederatedIdentities,
       CreateFederatedIdentity, UpdateFederatedIdentity, ResolveRef, ListBindings, CreateBinding, At,
       EnsureCalls
  <2> QED BY <2>6, <2>7, <2>8, <2>9, <2>10, <2>11, <2>12 DEF Step
<1> QED BY <1>2, <1>3, <1>4

\* What is under a key is being passed by the controller's delete, or was.
BPassed(k) == \/ rec.pc = "deleting" /\ Passed(wib, k)
              \/ rec.pc = "removeFin" /\ k[1] = rec.obj.spec.sa
SPassed(k) == \/ srec.pc = "deleting" /\ Passed(wsa, k)
              \/ srec.pc = "removeFin" /\ k[1] = srec.s

\* Something under k has a finalizer, the other one when a delete passes it, and
\* never do both deletes pass it.
Cared(k) ==
  Present(k) /\ k \notin doubled /\ k[1] \notin skipped =>
    /\ GuardedByBinding(k[1]) \/ Guarded(k[1])
    /\ BPassed(k) => Guarded(k[1]) /\ ~SPassed(k)
    /\ SPassed(k) => GuardedByBinding(k[1])
Asked == SpecsClean /\ ToBeCleaned
AllCared == Asked => \A k \in Keys : Cared(k)

\* The steps that leave accounts and federated identities alone.
LEMMA CaredKept ==
  ASSUME UNCHANGED <<sas, fis>>, doubled \subseteq doubled', skipped \subseteq skipped',
         NEW k, Cared(k),
         Present(k) =>
           /\ BPassed(k)' => BPassed(k) \/ k[1] \in skipped'
           /\ SPassed(k)' => SPassed(k)
           /\ GuardedByBinding(k[1]) => GuardedByBinding(k[1])' \/ (BPassed(k) /\ ~BPassed(k)')
           /\ Guarded(k[1]) => Guarded(k[1])' \/ (SPassed(k) /\ ~SPassed(k)')
  PROVE  Cared(k)'
<1> SUFFICES ASSUME Present(k), k \notin doubled', k[1] \notin skipped'
             PROVE  /\ GuardedByBinding(k[1])' \/ Guarded(k[1])'
                    /\ BPassed(k)' => Guarded(k[1])' /\ ~SPassed(k)'
                    /\ SPassed(k)' => GuardedByBinding(k[1])'
  BY DEF Cared, Present
<1> QED BY DEF Cared

\* A call makes something only for the ServiceAccount its controller guards.
LEMMA CallCared ==
  ASSUME Typed, MHeld, MControl, AllCared, DoubledNow \subseteq doubled, doubled \subseteq doubled',
         NEW w \in {wib, wsa}, Step(w), UNCHANGED <<stored, sa, rec, srec, skipped>>
  PROVE  AllCared'
<1> SUFFICES ASSUME Asked, NEW k \in Keys, k \notin doubled PROVE Cared(k)'
  BY DEF AllCared, Asked, SpecsClean, ToBeCleaned, Cared
<1>1. /\ wib \in Workers /\ wsa \in Workers /\ wib # wsa /\ k \notin DoubledNow /\ Cared(k)
      /\ TypeOK /\ BHeld /\ SHeld /\ BControl /\ SControl
  BY ControllerAssumption, AnnotationAssumption, TwoWorkersAssumption DEF AllCared, MHeld, MControl
<1>2. /\ Present(k)' => Present(k) \/ Making(w, k)
      /\ Passed(wib, k)' => Passed(wib, k) \/ (w = wsa /\ Making(w, k))
      /\ Passed(wsa, k)' => Passed(wsa, k) \/ (w = wib /\ Making(w, k))
  BY <1>1, PassedStep
<1>3. /\ GuardedByBinding(k[1])' <=> GuardedByBinding(k[1])
      /\ Guarded(k[1])' <=> Guarded(k[1])
      /\ rec' = rec /\ srec' = srec /\ skipped' = skipped
  BY DEF GuardedByBinding, Guarded
<1>4. CASE ~Making(w, k)
  BY <1>1, <1>2, <1>3, <1>4 DEF Cared, BPassed, SPassed
<1>5. ASSUME Making(w, k) PROVE pc[w] # "idle" /\ k[1] = job[w].sa /\ job[w].op = "ensure"
  BY <1>1, <1>5, StepLocal DEF Making, Key, Underway, InCall, EnsureCalls, DeleteCalls
<1>6. CASE Making(w, k) /\ w = wib
  <2>1. rec.pc = "ensuring" /\ k[1] = rec.obj.spec.sa
    BY <1>1, <1>5, <1>6 DEF BControl, BCallLink
  <2>2. GuardedByBinding(k[1])
    BY <1>1, <2>1, EnsuringGuards DEF Asked, GuardedByBinding, HasFinalizer
  <2> QED BY <1>3, <2>1, <2>2 DEF Cared, BPassed
<1>7. CASE Making(w, k) /\ w = wsa
  <2>1. srec.pc = "ensuring" /\ k[1] = srec.s
    BY <1>1, <1>5, <1>7 DEF SControl, CallLink
  <2>2. Guarded(k[1])
    BY <1>1, <2>1 DEF SControl, Guarding
  <2> QED BY <1>3, <2>1, <2>2 DEF Cared, SPassed
<1> QED BY <1>4, <1>6, <1>7

\* With one issuer, a delete that returned has passed all that there is left.
LEMMA ReturnedPassed ==
  ASSUME Typed, CallInv, Asked, NEW w \in Workers, pc[w] = "ok", job[w].op = "delete",
         reg[w].idp # None \/ ~job[w].lenient, NEW k \in Keys, k[1] = job[w].sa, Present(k)
  PROVE  Passed(w, k)
<1>1. reg[w].idp \in IdPs /\ IssuerOf[reg[w].idp] \in Issuers /\ reg[w].idp # None
  BY ConstantsAssumption DEF CallInv, HadProvider
<1>2. k = Key(w)
  BY <1>1 DEF Asked, SpecsClean, Keys, Key
<1> QED BY <1>1, <1>2 DEF Passed, Present, PassedFI, PassedSA, DeleteDone

\* The binding controller's own steps: the finalizer goes from the binding only
\* with a delete that has passed everything under the key.
LEMMA BindingSideCared ==
  ASSUME Typed, CallInv, MHeld, MControl, AllCared, doubled \subseteq doubled', BindingSide, ~CloudStep
  PROVE  AllCared'
<1> SUFFICES ASSUME Asked, NEW k \in Keys PROVE Cared(k)'
  BY DEF AllCared, Asked, SpecsClean, ToBeCleaned
<1>1. /\ wib \in Workers /\ wsa \in Workers /\ wib # wsa /\ Cared(k) /\ k[1] \in K8sSAs
      /\ TypeOK /\ BHeld /\ SHeld /\ BControl /\ SControl /\ rec \in RecType
  BY ControllerAssumption, AnnotationAssumption, TwoWorkersAssumption
     DEF AllCared, MHeld, MControl, Keys, BHeld, BTypeOK, RecType
<1>2. UNCHANGED <<sas, fis>> /\ skipped \subseteq skipped'
  <2>1. CASE ControllerStep
    <3>1. UNCHANGED <<sas, fis>>
      BY <2>1 DEF ControllerStep, ClearAnnotations, BeginDelete, DeleteReturned, RemoveFinalizer,
         AddFinalizer, GetServiceAccount, EnsureReturned, syncIdentityConfigMap, Begin, Collect, cloud,
         annotateServiceAccountIdentity, patchStatus, vars
    <3>2. CASE DeleteReturned
      BY <3>1, <3>2 DEF DeleteReturned
    <3>3. CASE ~DeleteReturned
      BY <2>1, <3>1, <3>3 DEF ControllerStep, ClearAnnotations, BeginDelete, RemoveFinalizer,
         AddFinalizer, GetServiceAccount, EnsureReturned, syncIdentityConfigMap,
         annotateServiceAccountIdentity, patchStatus
    <3> QED BY <3>2, <3>3
  <2>2. CASE ~ControllerStep
    <3>1. ASSUME NEW b \in Bindings, Reconcile(b) PROVE UNCHANGED vars /\ skipped' = skipped
      BY <3>1 DEF Reconcile
    <3>2. ASSUME NEW b \in Bindings, BindingEvent(b) PROVE UNCHANGED vars /\ skipped' = skipped
      BY <3>2 DEF BindingEvent, WatchEvent, Resync, UserDelete, UserCreate, UserEdit, UserStep
    <3>3. ASSUME NEW s \in K8sSAs, CollectGarbage(s) PROVE UNCHANGED vars /\ skipped' = skipped
      BY <3>3 DEF CollectGarbage
    <3>4. UNCHANGED vars /\ skipped' = skipped
      BY <2>2, <3>1, <3>2, <3>3 DEF BindingSide, BindingEvent
    <3> QED BY <3>4 DEF vars
  <2> QED BY <2>1, <2>2
<1>3. (SPassed(k)' <=> SPassed(k)) /\ (Guarded(k[1])' <=> Guarded(k[1]))
  BY <1>1, <1>2, BindingSideControl, SidesApart DEF SPassed, Passed, Key
<1>4. CASE ControllerStep
  <2>1. rec.b \in Bindings /\ BindingEffects /\ Proceeds
    BY <1>1, <1>4, StepProceeds DEF BControl
  <2>2. ASSUME rec'.pc = "deleting" PROVE ~Passed(wib, k)'
    <3>1. BeginDelete
      BY <1>1, <1>4, <2>2, NoRecType DEF ControllerStep, ClearAnnotations, DeleteReturned, RemoveFinalizer,
         AddFinalizer, GetServiceAccount, EnsureReturned, syncIdentityConfigMap,
         annotateServiceAccountIdentity, patchStatus, Goto, Report, Finish, RecType
    <3>2. pc'[wib] \in {"provider", "failed"}
      BY <1>1, <3>1 DEF BeginDelete, Begin, Go, TypeOK
    <3> QED BY <3>2 DEF Passed, PassedFI, PassedSA, AfterFIs, AfterSAs, DeleteDone
  <2>3. ASSUME rec'.pc = "removeFin", k[1] = rec'.obj.spec.sa, Present(k)
        PROVE  BPassed(k) \/ k[1] \in skipped'
    <3>1. DeleteReturned /\ pc[wib] = "ok"
      BY <1>1, <1>4, <2>3, RemovesAfterDelete DEF Asked
    <3>2. /\ rec.pc = "deleting" /\ rec'.obj = rec.obj
          /\ job[wib].op = "delete" /\ job[wib].sa = rec.obj.spec.sa
          /\ reg[wib].idp = None => rec.obj.spec.sa \in skipped'
      BY <1>1, <3>1 DEF DeleteReturned, Goto, RecType, BControl, BCallLink
    <3> QED BY <1>1, <2>3, <3>1, <3>2, ReturnedPassed DEF BPassed
  <2>4. ASSUME rec.pc = "removeFin" PROVE rec'.pc = "idle"
    BY <1>4, <2>4, NoRecType DEF ControllerStep, ClearAnnotations, BeginDelete, DeleteReturned,
       RemoveFinalizer, AddFinalizer, GetServiceAccount, EnsureReturned, syncIdentityConfigMap,
       annotateServiceAccountIdentity, patchStatus, Finish
  <2>5. GuardedByBinding(k[1]) => GuardedByBinding(k[1])' \/ (BPassed(k) /\ ~BPassed(k)')
    <3> SUFFICES ASSUME NEW b \in Bindings, HasFinalizer(b), stored[b].spec.sa = k[1]
                 PROVE  GuardedByBinding(k[1])' \/ (BPassed(k) /\ ~BPassed(k)')
      BY DEF GuardedByBinding, HasFinalizer
    <3>1. CASE ~(rec.pc = "removeFin" /\ rec.b = b /\ stored[b] = rec.obj)
      BY <1>1, <2>1, <3>1, FinalizerKept DEF Asked, GuardedByBinding, HasFinalizer
    <3>2. CASE rec.pc = "removeFin" /\ rec.b = b /\ stored[b] = rec.obj
      BY <2>4, <3>2 DEF BPassed
    <3> QED BY <3>1, <3>2
  <2> QED BY <1>1, <1>2, <1>3, <2>2, <2>3, <2>5, CaredKept DEF BPassed
<1>5. CASE ~ControllerStep
  <2>1. UNCHANGED vars /\ (BPassed(k)' => BPassed(k))
    <3>1. ASSUME NEW b \in Bindings, Reconcile(b) PROVE UNCHANGED vars /\ (rec' = rec \/ ~BPassed(k)')
      <4>1. UNCHANGED vars /\ (rec' = rec \/ rec'.pc \in {"clear", "addFin", "patch", "getSA"})
        BY <1>1, <3>1, ReconcileGoes
      <4>2. rec'.pc \in {"clear", "addFin", "patch", "getSA"} => ~BPassed(k)'
        BY DEF BPassed
      <4> QED BY <4>1, <4>2
    <3>2. ASSUME NEW b \in Bindings, BindingEvent(b) PROVE UNCHANGED vars /\ rec' = rec
      BY <1>1, <3>2, EventProceeds
    <3>3. ASSUME NEW s \in K8sSAs, CollectGarbage(s) PROVE UNCHANGED vars /\ rec' = rec
      BY <3>3 DEF CollectGarbage, control
    <3>4. UNCHANGED vars /\ (rec' = rec \/ ~BPassed(k)')
      BY <1>5, <3>1, <3>2, <3>3 DEF BindingSide, BindingEvent
    <3> QED BY <3>4 DEF BPassed, Passed, PassedFI, PassedSA, Key, vars
  <2>2. GuardedByBinding(k[1]) => GuardedByBinding(k[1])'
    <3>1. ASSUME stored' = stored PROVE GuardedByBinding(k[1]) => GuardedByBinding(k[1])'
      BY <3>1 DEF GuardedByBinding
    <3>2. ASSUME NEW c \in Bindings, BindingEvent(c), ops' # ops,
                 NEW b \in Bindings, HasFinalizer(b), stored[b].spec.sa = k[1]
          PROVE  GuardedByBinding(k[1])'
      BY <1>1, <3>2, EventProceeds, FinalizerKept DEF Asked, GuardedByBinding, HasFinalizer
    <3>3. ASSUME NEW c \in Bindings, BindingEvent(c) PROVE stored' = stored \/ ops' # ops
      <4>1. ops \in Nat
        BY <1>1, ServiceAccountsAssumption DEF BHeld, BTypeOK, AccountsTypeOK
      <4>2. ops + 1 # ops
        BY <4>1
      <4> QED BY <1>1, <3>3, <4>2, EventProceeds
    <3>4. (\E c \in Bindings : BindingEvent(c)) \/ stored' = stored
      <4>1. ASSUME NEW c \in Bindings, Reconcile(c) PROVE stored' = stored
        BY <4>1 DEF Reconcile, kube
      <4>2. ASSUME NEW s \in K8sSAs, CollectGarbage(s) PROVE stored' = stored
        BY <4>2 DEF CollectGarbage
      <4> QED BY <1>5, <4>1, <4>2 DEF BindingSide, BindingEvent
    <3> QED BY <3>1, <3>2, <3>3, <3>4 DEF GuardedByBinding, HasFinalizer
  <2> QED BY <1>1, <1>2, <1>3, <2>1, <2>2, CaredKept
<1> QED BY <1>4, <1>5

\* Only a call's own step touches the cloud.
LEMMA AnnotationSideLeaves ==
  ASSUME AnnotationSide, ~CloudStepSA
  PROVE  UNCHANGED <<sas, fis>> /\ skipped \subseteq skipped' /\ stored' = stored /\ rec' = rec
<1>1. skipped \subseteq skipped' /\ stored' = stored /\ rec' = rec
  BY DEF AnnotationSide, bcontrol
<1>2. BeginDeleteSA \/ DeleteReturnedSA \/ MarkPending \/ EnsureReturnedSA => UNCHANGED cloud
  BY DEF BeginDeleteSA, DeleteReturnedSA, MarkPending, EnsureReturnedSA, Begin, Collect
<1>3. RemoveFinalizerSA \/ AddFinalizerSA \/ MarkReady \/ PatchReport => UNCHANGED vars
  BY DEF RemoveFinalizerSA, AddFinalizerSA, MarkReady, PatchReport
<1>4. \A s \in K8sSAs : ReconcileSA(s) \/ WatchSA(s) \/ ResyncSA(s) \/ UserSA(s) => UNCHANGED vars
  BY DEF ReconcileSA, WatchSA, ResyncSA, UserSA
<1>5. UNCHANGED cloud \/ UNCHANGED vars
  BY <1>2, <1>3, <1>4 DEF AnnotationSide, AnnotationStep
<1> QED BY <1>1, <1>5 DEF cloud, vars

\* The annotation controller's own steps, the same way.
LEMMA AnnotationSideCared ==
  ASSUME Typed, CallInv, MHeld, MControl, AllCared, doubled \subseteq doubled', AnnotationSide, ~CloudStepSA
  PROVE  AllCared'
<1> SUFFICES ASSUME Asked, NEW k \in Keys PROVE Cared(k)'
  BY DEF AllCared, Asked, SpecsClean, ToBeCleaned
<1>1. /\ wib \in Workers /\ wsa \in Workers /\ wib # wsa /\ Cared(k) /\ k[1] \in K8sSAs
      /\ TypeOK /\ BHeld /\ SHeld /\ BControl /\ SControl /\ srec \in SRecType
  BY ControllerAssumption, AnnotationAssumption, TwoWorkersAssumption
     DEF AllCared, MHeld, MControl, Keys, SHeld, STypeOK, SRecType
<1>2. UNCHANGED <<sas, fis>> /\ skipped \subseteq skipped' /\ stored' = stored /\ rec' = rec
  BY AnnotationSideLeaves
<1>3. (BPassed(k)' <=> BPassed(k)) /\ (GuardedByBinding(k[1])' <=> GuardedByBinding(k[1]))
  BY <1>1, <1>2, SidesApart DEF BPassed, Passed, Key, GuardedByBinding
<1>4. CASE AnnotationStep
  <2>1. ASSUME srec'.pc = "deleting" PROVE ~Passed(wsa, k)'
    <3>1. BeginDeleteSA
      BY <1>1, <1>4, <2>1, NoSRecType DEF AnnotationStep, DeleteReturnedSA, RemoveFinalizerSA,
         AddFinalizerSA, MarkPending, EnsureReturnedSA, MarkReady, PatchReport, GotoSA, ReportSA, FinishSA,
         SRecType
    <3>2. pc'[wsa] \in {"provider", "failed"}
      BY <1>1, <3>1 DEF BeginDeleteSA, Begin, Go, TypeOK
    <3> QED BY <3>2 DEF Passed, PassedFI, PassedSA, AfterFIs, AfterSAs, DeleteDone
  <2>2. ASSUME srec'.pc = "removeFin", k[1] = srec'.s, Present(k) PROVE SPassed(k)
    <3>1. DeleteReturnedSA /\ pc[wsa] = "ok" /\ srec'.s = srec.s
      BY <1>1, <1>4, <2>2, RemovesAfterDeleteSA
    <3>2. /\ srec.pc = "deleting"
          /\ job[wsa].op = "delete" /\ job[wsa].sa = srec.s /\ ~job[wsa].lenient
      BY <1>1, <3>1 DEF DeleteReturnedSA, SControl, CallLink
    <3> QED BY <1>1, <2>2, <3>1, <3>2, ReturnedPassed DEF SPassed
  <2>3. ASSUME srec.pc = "removeFin" PROVE srec'.pc = "idle"
    BY <1>4, <2>3, NoSRecType DEF AnnotationStep, BeginDeleteSA, DeleteReturnedSA, RemoveFinalizerSA,
       AddFinalizerSA, MarkPending, EnsureReturnedSA, MarkReady, PatchReport, FinishSA
  <2>4. Guarded(k[1]) => Guarded(k[1])' \/ (SPassed(k) /\ ~SPassed(k)')
    <3>1. Guarded(k[1]) => Guarded(k[1])' \/ Going(k[1])
      BY <1>1, <1>4, AnnotationStepOK, EffectsKeep
    <3> QED BY <2>3, <3>1 DEF Going, SPassed
  <2> QED BY <1>1, <1>2, <1>3, <2>1, <2>2, <2>4, CaredKept DEF SPassed
<1>5. CASE ~AnnotationStep
  <2>1. UNCHANGED vars /\ ((srec'.pc = srec.pc /\ srec'.s = srec.s) \/ ~SPassed(k)')
    <3>1. ASSUME NEW s \in K8sSAs, ReconcileSA(s)
          PROVE  UNCHANGED vars /\ (srec' = srec \/ ~SPassed(k)')
      <4>1. /\ UNCHANGED vars
            /\ \/ srec' = srec
               \/ srec'.pc \in {"delete", "addFin", "pending", "report"}
        BY <1>1, <3>1, ReconcileControl DEF Asked
      <4> QED BY <4>1 DEF SPassed
    <3>2. ASSUME NEW s \in K8sSAs, WatchSA(s) \/ ResyncSA(s) PROVE UNCHANGED vars /\ srec' = srec
      BY <3>2 DEF WatchSA, ResyncSA
    <3>3. ASSUME NEW s \in K8sSAs, UserSA(s)
          PROVE  UNCHANGED vars /\ srec'.pc = srec.pc /\ srec'.s = srec.s
      BY <1>1, <3>3, UserControl
    <3> QED BY <1>5, <3>1, <3>2, <3>3 DEF AnnotationSide
  <2>2. SPassed(k)' => SPassed(k)
    BY <2>1 DEF SPassed, Passed, PassedFI, PassedSA, Key, vars
  <2>3. Guarded(k[1]) => Guarded(k[1])'
    <3>1. ASSUME NEW s \in K8sSAs, ReconcileSA(s) PROVE sa' = sa
      BY <3>1 DEF ReconcileSA, accounts
    <3>2. ASSUME NEW s \in K8sSAs, WatchSA(s) \/ ResyncSA(s) PROVE sa' = sa
      BY <1>1, <3>2, CacheStepOK
    <3>3. ASSUME NEW s \in K8sSAs, UserSA(s) PROVE Guarded(k[1]) => Guarded(k[1])'
      BY <1>1, <3>3, UserControl
    <3> QED BY <1>5, <3>1, <3>2, <3>3 DEF AnnotationSide, Guarded
  <2> QED BY <1>1, <1>2, <1>3, <2>2, <2>3, CaredKept
<1> QED BY <1>4, <1>5

\* Every step of the manager and of the world around it.
LEMMA CaredNext ==
  ASSUME Typed, CallInv, MHeld, MControl, AllCared, DoubledNow \subseteq doubled, [MNext]_managerVars
  PROVE  AllCared'
<1>1. doubled \subseteq doubled'
  BY DEF MNext, managerVars
<1>2. CASE CloudStep /\ BindingSide
  <2>1. Step(wib) /\ UNCHANGED <<stored, sa, rec, srec, skipped>>
    BY <1>2 DEF CloudStep, kvars, BindingSide
  <2> QED BY <1>1, <2>1, CallCared
<1>3. CASE CloudStepSA /\ AnnotationSide
  <2>1. Step(wsa) /\ UNCHANGED <<stored, sa, rec, srec, skipped>>
    BY <1>3 DEF CloudStepSA, svars, AnnotationSide, bcontrol
  <2> QED BY <1>1, <2>1, CallCared
<1>4. CASE BindingSide /\ ~CloudStep
  BY <1>1, <1>4, BindingSideCared
<1>5. CASE AnnotationSide /\ ~CloudStepSA
  BY <1>1, <1>5, AnnotationSideCared
<1>6. CASE RestartManager
  <2> SUFFICES ASSUME Asked, NEW k \in Keys PROVE Cared(k)'
    BY DEF AllCared, Asked, SpecsClean, ToBeCleaned
  <2>1. UNCHANGED <<sas, fis, stored, skipped>> /\ Cared(k)
    BY <1>6 DEF RestartManager, Restart, Crash, cloud, AllCared
  <2>2. sa' = sa /\ srec'.pc = "idle" /\ rec'.pc = "idle"
    BY <1>6, RestartControl, NoRecType, NoSRecType
  <2> QED BY <1>1, <2>1, <2>2, CaredKept DEF BPassed, SPassed, GuardedByBinding, Guarded
<1>7. CASE WorldOutside \/ UNCHANGED managerVars
  <2> SUFFICES ASSUME Asked, NEW k \in Keys PROVE Cared(k)'
    BY DEF AllCared, Asked, SpecsClean, ToBeCleaned
  <2>1. UNCHANGED <<sas, fis, stored, skipped, sa, srec, rec, pc, job, reg>> /\ Cared(k)
    BY <1>7 DEF WorldOutside, World, managerVars, kvars, scontrol, ChangeIdPs, Stabilise, Rename, vars,
                local, cloud, AllCared
  <2> QED BY <1>1, <2>1, CaredKept DEF BPassed, SPassed, Passed, Key, GuardedByBinding, Guarded
<1> QED BY <1>2, <1>3, <1>4, <1>5, <1>6, <1>7 DEF MNext

\* Two controllers, two finalizers, one key: what is in the cloud always has one
\* of the finalizers.  The delete of one controller may have passed something
\* that the other one has made behind it (lists are read once per delete), and
\* its finalizer then goes with something left; the other finalizer is there.
THEOREM ManagerSomebodyWillRemove == MSpec => []SomebodyWillRemove
<1>1. MInit => AllCared /\ DoubledNow \subseteq doubled
  BY DEF MInit, BInit, Init, AllCared, Cared, Present, DoubledNow
<1>2. DoubledNow \subseteq doubled /\ [MNext]_managerVars => (DoubledNow \subseteq doubled)'
  BY DEF MNext, managerVars, vars, cloud, DoubledNow
<1>3. /\ Typed /\ CallInv /\ MHeld /\ MControl /\ AllCared /\ DoubledNow \subseteq doubled
      /\ [MNext]_managerVars
      => AllCared'
  BY CaredNext
<1>4. Typed /\ AllCared => SomebodyWillRemove
  <2> SUFFICES ASSUME Typed, AllCared, Asked, NEW x \in sas \cup fis
               PROVE  \/ x.key \in doubled \/ x.key[1] \in skipped
                      \/ GuardedByBinding(x.key[1]) \/ GuardedByAnnotations(x.key[1])
    BY DEF SomebodyWillRemove, Asked, SpecsClean, ToBeCleaned
  <2>1. x.key \in Keys /\ Present(x.key)
    BY DEF Typed, TypeOK, Present
  <2> QED BY <2>1 DEF AllCared, Cared, Guarded, GuardedByAnnotations
<1>5. MSpec => [](Typed /\ CallInv)
  BY ManagerImplementsCalls, CallInvariant, PTL
<1> QED BY <1>1, <1>2, <1>3, <1>4, <1>5, ManagerControl, PTL DEF MSpec
=============================================================================
