----------------------------- MODULE Controllers -----------------------------
(***************************************************************************)
(* The manager with both controllers (cmd/main.go, --enable-controllers    *)
(* and --enable-serviceaccount-annotations): one process, one informer     *)
(* cache, two workers that make calls about the same ServiceAccounts and   *)
(* write annotations on them.                                              *)
(***************************************************************************)
EXTENDS BindingController, AnnotationController

ASSUME TwoWorkersAssumption == wib # wsa

VARIABLE doubled   \* history: keys under which there has been more than one of a kind

bcontrol == <<stored, cache, cm, queue, rec, skipped>>
managerVars == <<vars, kvars, squeue, srec, doubled>>

\* Two accounts, or two federated identities, under one key.
DoubledNow == {k \in Keys : \/ \E x, y \in sas : x.key = k /\ y.key = k /\ x # y
                          \/ \E f, g \in fis : f.key = k /\ g.key = k /\ f # g}

MInit == /\ BInit /\ squeue = {s \in K8sSAs : Watched(sa[s])} /\ srec = NoSRec
         /\ doubled = {}

\* A step of the binding controller; where it writes a ServiceAccount, the
\* other controller's copy of that one is an old one.
BindingSide ==
  /\ \/ ControllerStep
     \/ \E b \in Bindings : \/ Reconcile(b) \/ WatchEvent(b) \/ Resync(b) \/ UserDelete(b)
                            \/ \E d \in SpecsOf[b] : UserCreate(b, d) \/ UserEdit(b, d)
     \/ \E s \in K8sSAs : CollectGarbage(s)
  /\ IF sa' = sa THEN UNCHANGED srec ELSE Overtake(rec.obj.spec.sa)
  /\ UNCHANGED squeue

AnnotationSide ==
  /\ AnnotationStep \/ \E s \in K8sSAs : ReconcileSA(s) \/ WatchSA(s) \/ ResyncSA(s) \/ UserSA(s)
  /\ UNCHANGED bcontrol

\* Both controllers live and die together.
RestartManager ==
  /\ Restart
  /\ srec' = NoSRec /\ squeue' = {s \in K8sSAs : Watched(sa[s])}

WorldOutside == World /\ UNCHANGED scontrol

MNext ==
  /\ BindingSide \/ AnnotationSide \/ RestartManager \/ WorldOutside
  /\ doubled' = doubled \cup DoubledNow'

MSpec == MInit /\ [][MNext]_managerVars

(***************************************************************************)
(* Properties.                                                             *)
(***************************************************************************)
\* Two controllers and users write one ServiceAccount, each from a copy of its
\* own age, and nobody reverts what another wrote: nobody but a user changes
\* what users asked for, only the annotation controller finalizer and status,
\* only the binding controller the organisation.  The identities have two
\* writers: the annotation controller replaces them by the result of its call,
\* the binding controller puts in its account and keeps the rest, and takes
\* them all away, whoever wrote them, when a binding is being deleted.
WritersKeepToTheirPart ==
  [][\A s \in K8sSAs : sa[s].there /\ sa'[s].there =>
       /\ sa'[s].want # sa[s].want => ops' # ops
       /\ sa'[s].fin # sa[s].fin => srec.pc \in {"addFin", "removeFin"} /\ srec.s = s
       /\ sa'[s].status # sa[s].status => srec.s = s
       /\ sa'[s].org # sa[s].org => rec.pc \in {"clear", "annotate"} /\ rec.obj.spec.sa = s
       /\ Identities(sa'[s]) # Identities(sa[s]) =>
            \/ srec.pc = "ready" /\ srec.s = s /\ Identities(sa'[s]) = srec.res
            \/ /\ rec.pc = "annotate" /\ rec.obj.spec.sa = s
               /\ Identities(sa'[s]) = [Identities(sa[s]) EXCEPT !.said = rec.obs.said]
            \/ /\ rec.pc = "clear" /\ rec.obj.spec.sa = s /\ rec.obj.del
               /\ Identities(sa'[s]) = NoResult]_managerVars

GuardedByBinding(s) == \E b \in Bindings : stored[b] # Gone /\ stored[b].fin /\ stored[b].spec.sa = s
GuardedByAnnotations(s) == sa[s].there /\ sa[s].fin

\* The two finalizer protocols side by side, also for one ServiceAccount with
\* both a binding and annotations: while one controller cleans up, the other
\* may be creating under the same key, and writes the object that carries the
\* finalizer.  What is in the cloud always has a finalizer that will have it
\* removed, on a binding or on the ServiceAccount, unless a cleanup was skipped
\* (no provider) or the key was once used for two (deletes take one of them).
\* (Bindings and annotations that ask for deletion, one issuer, bindings that
\* keep their ServiceAccount.)
SomebodyWillRemove ==
  (/\ \A i, j \in Issuers : i = j
   /\ \A b \in Bindings : \A d, e \in SpecsOf[b] : d.deleteResources /\ d.sa = e.sa
   /\ \A s \in K8sSAs : \A w \in WantsOf[s] : w.deleteResources)
  => \A x \in sas \cup fis :
       \/ x.key \in doubled \/ x.key[1] \in skipped
       \/ GuardedByBinding(x.key[1]) \/ GuardedByAnnotations(x.key[1])

\* subject.go:30 "ResourceKey is a stable id for controller-owned Thalassa
\* resources": it identifies one account and one federated identity at most.
KeyIdentifiesOne == UniqueIdentity
=============================================================================
