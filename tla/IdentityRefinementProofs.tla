---------------------- MODULE IdentityRefinementProofs ----------------------
(***************************************************************************)
(* WorkloadIdentity implements IdentityStore, for every set of workers     *)
(* that share no Kubernetes ServiceAccount.                                *)
(***************************************************************************)
EXTENDS IdentityRefinement, WorkloadIdentityProofs

\* The refinement mapping, with names.
Accounts == {s.key : s \in sas}
Federated == {f.key : f \in fis}

\* Sets of pairs are equal when they hold the same pairs.
LEMMA SamePairs ==
  ASSUME NEW A \in SUBSET (Keys \X Targets), NEW B \in SUBSET (Keys \X Targets),
         \A k \in Keys, t \in Targets : <<k, t>> \in A <=> <<k, t>> \in B
  PROVE  A = B
<1>1. ASSUME NEW x \in Keys \X Targets PROVE x \in A <=> x \in B
  <2>1. x[1] \in Keys /\ x[2] \in Targets /\ x = <<x[1], x[2]>>
    OBVIOUS
  <2> QED BY <2>1
<1> QED BY <1>1

LEMMA GrantedPairs ==
  GrantedNow \in SUBSET (Keys \X Targets) /\ GrantedNow' \in SUBSET (Keys \X Targets)
  BY DEF GrantedNow

Holds(S, G, k, t) ==
  \E s \in S : s.key = k /\ \E g \in G : g.target = t /\ g.sa = s.id /\ g.managed

LEMMA GrantedMeans ==
  ASSUME NEW k \in Keys, NEW t \in Targets
  PROVE  /\ <<k, t>> \in GrantedNow <=> Holds(sas, grants, k, t)
         /\ <<k, t>> \in GrantedNow' <=> Holds(sas', grants', k, t)
  BY DEF GrantedNow, ManagedBindingsForSA, BindingsForSA, Holds

\* Steps that leave the accounts, their federation and the managed grants alone.
LEMMA StoreStutters ==
  ASSUME sas' = sas, Federated' = Federated,
         \A g : g.managed => (g \in grants' <=> g \in grants)
  PROVE  UNCHANGED <<Accounts, Federated, GrantedNow>>
<1>1. Accounts' = Accounts
  BY DEF Accounts
<1>2. \A k \in Keys, t \in Targets : Holds(sas', grants', k, t) <=> Holds(sas, grants, k, t)
  BY DEF Holds
<1>3. GrantedNow' = GrantedNow
  BY <1>2, SamePairs, GrantedPairs, GrantedMeans
<1> QED BY <1>1, <1>3

-----------------------------------------------------------------------------
(* One lemma per API call that changes the store. *)

\* The keys of a set of resources with one more, and with one less.
LEMMA KeysOfMore ==
  ASSUME NEW S, NEW x
  PROVE  {s.key : s \in S \cup {x}} = {s.key : s \in S} \cup {x.key}
  OBVIOUS

LEMMA KeysOfLess ==
  ASSUME NEW S, NEW x \in S, NEW R, \A s \in S : s \in R <=> s # x, R \subseteq S,
         \A s \in S : s.key = x.key => s = x
  PROVE  {s.key : s \in R} = {s.key : s \in S} \ {x.key}
  OBVIOUS

\* The accounts of a key are one: who holds a grant of it is that one.
LEMMA OneAccount ==
  ASSUME IInv, NEW s \in sas
  PROVE  /\ s.key \in Keys /\ s.key \in Accounts
         /\ \A t \in Targets : Holds(sas, grants, s.key, t) <=>
              \E g \in grants : g.target = t /\ g.sa = s.id /\ g.managed
<1>1. s.key \in Keys
  BY DEF IInv, Typed, TypeOK
<1>2. \A r \in sas : r.key = s.key => r = s
  BY DEF IInv, Safe, UniqueIdentity
<1> QED BY <1>1, <1>2 DEF Accounts, Holds

LEMMA CreatesAccount ==
  ASSUME IInv, NEW w \in Workers, CreateServiceAccount(w)
  PROVE  Store!StoreNext
<1> DEFINE new == [id |-> nextId, key |-> Key(w)]
<1>1. /\ pc[w] = "createSA" /\ pc[w] \in InCall /\ sas' = sas \cup {new}
      /\ UNCHANGED <<fis, grants>>
  BY DEF CreateServiceAccount, At, InCall, EnsureCalls
<1>2. /\ CallOK(w, "createSA", job[w], reg[w]) /\ Knows("createSA", job[w], reg[w], sas, fis, grants)
      /\ Key(w) = <<job[w].sa, IssuerOf[reg[w].idp]>> /\ nextId \in Nat
      /\ \A g \in grants : g.sa \in Nat /\ g.sa < nextId
  BY <1>1, WorkerFacts DEF IInv
<1>3. Key(w) \in Keys
  <2>1. job[w].sa \in K8sSAs
    BY <1>1, JobTyped DEF IInv, JobType
  <2> QED BY <1>1, <1>2, <2>1 DEF CallOK, InCall, Keys
<1>4. Key(w) \notin Accounts
  BY <1>2 DEF Knows, Accounts
<1>5. Accounts' = Accounts \cup {Key(w)}
  BY <1>1, KeysOfMore DEF Accounts
<1>6. \A k \in Keys, t \in Targets : Holds(sas', grants', k, t) <=> Holds(sas, grants, k, t)
  BY <1>1, <1>2 DEF Holds
<1>7. GrantedNow' = GrantedNow /\ Federated' = Federated
  BY <1>1, <1>6, SamePairs, GrantedPairs, GrantedMeans DEF Federated
<1> QED BY <1>3, <1>4, <1>5, <1>7 DEF Store!StoreNext, Store!CreateAccount, Accounts, Federated

LEMMA FederatesAccount ==
  ASSUME IInv, NEW w \in Workers, CreateFederatedIdentity(w)
  PROVE  Store!StoreNext
<1> DEFINE new == [id |-> nextId, key |-> Key(w), sa |-> reg[w].said,
                   prov |-> reg[w].idp, attrs |-> job[w].attrs]
<1>1. /\ pc[w] = "createFI" /\ pc[w] \in InCall /\ fis' = fis \cup {new}
      /\ UNCHANGED <<sas, grants>>
  BY DEF CreateFederatedIdentity, At, InCall, EnsureCalls
<1>2. /\ Knows("createFI", job[w], reg[w], sas, fis, grants)
      /\ Key(w) = <<job[w].sa, IssuerOf[reg[w].idp]>>
  BY <1>1, WorkerFacts DEF IInv
<1>3. PICK s \in sas : s.key = Key(w)
  BY <1>2 DEF Knows
<1>4. Key(w) \in Keys /\ Key(w) \in Accounts
  BY <1>3, OneAccount
<1>5. Key(w) \notin Federated
  BY <1>2 DEF Knows, Federated
<1>6. Federated' = Federated \cup {Key(w)}
  <2>1. new.key = Key(w)
    OBVIOUS
  <2> QED BY <1>1, <2>1, KeysOfMore DEF Federated
<1>7. GrantedNow' = GrantedNow /\ Accounts' = Accounts
  BY <1>1 DEF Accounts, GrantedNow, ManagedBindingsForSA, BindingsForSA
<1> QED BY <1>4, <1>5, <1>6, <1>7 DEF Store!StoreNext, Store!Federate, Accounts, Federated

LEMMA GrantsTarget ==
  ASSUME IInv, NEW w \in Workers, CreateBinding(w)
  PROVE  Store!StoreNext
<1> DEFINE t == reg[w].got[reg[w].kind]
           new == [id |-> nextId, target |-> t, sa |-> reg[w].said, managed |-> TRUE]
<1>1. /\ pc[w] = "createGrant" /\ pc[w] \in InCall /\ grants' = grants \cup {new}
      /\ UNCHANGED <<sas, fis>>
  BY DEF CreateBinding, At, InCall, EnsureCalls
<1>2. /\ CallOK(w, "createGrant", job[w], reg[w])
      /\ Knows("createGrant", job[w], reg[w], sas, fis, grants)
      /\ Key(w) = <<job[w].sa, IssuerOf[reg[w].idp]>>
  BY <1>1, WorkerFacts DEF IInv
<1>3. PICK s \in sas : s.id = reg[w].said /\ s.key = Key(w)
  BY <1>2 DEF Knows, WithRef
<1>4. /\ Key(w) \in Federated /\ t \in Targets
      /\ \A g \in grants : g.managed => ~(g.target = t /\ g.sa = reg[w].said)
  BY <1>2 DEF Knows, CallOK, WithTarget, WithRef, Federated
<1>5. new.target = t /\ new.sa = s.id /\ new.managed
  BY <1>3
<1> HIDE DEF t, new
<1>6. Key(w) \in Keys /\ ~Holds(sas, grants, Key(w), t)
  BY <1>3, <1>4, OneAccount
<1>7. \A k \in Keys, u \in Targets :
        Holds(sas', grants', k, u) <=> Holds(sas, grants, k, u) \/ (k = Key(w) /\ u = t)
  <2>1. \A r \in sas : r.id = s.id => r = s
    BY <1>3 DEF IInv, Safe, UniqueIds
  <2> QED BY <1>1, <1>3, <1>5, <2>1 DEF Holds
<1>8. GrantedNow' = GrantedNow \cup {<<Key(w), t>>}
  <2>1. GrantedNow \cup {<<Key(w), t>>} \in SUBSET (Keys \X Targets)
    BY <1>4, <1>6, GrantedPairs
  <2>2. ASSUME NEW k \in Keys, NEW u \in Targets
        PROVE  <<k, u>> \in GrantedNow' <=> <<k, u>> \in GrantedNow \cup {<<Key(w), t>>}
    BY <1>7, GrantedMeans
  <2> QED BY <2>1, <2>2, SamePairs, GrantedPairs
<1>9. Federated' = Federated /\ Accounts' = Accounts
  BY <1>1 DEF Accounts, Federated
<1>10. <<Key(w), t>> \notin GrantedNow
  BY <1>4, <1>6, GrantedMeans
<1> QED BY <1>4, <1>6, <1>8, <1>9, <1>10 DEF Store!StoreNext, Store!Grant, Accounts, Federated

LEMMA UnfederatesAccount ==
  ASSUME IInv, NEW w \in Workers, DeleteFederatedIdentity(w)
  PROVE  Store!StoreNext
<1>1. /\ pc[w] = "dDeleteFI" /\ pc[w] \in InCall /\ fis' = {f \in fis : f.id # reg[w].fid}
      /\ UNCHANGED <<sas, grants>>
  BY DEF DeleteFederatedIdentity, At, InCall, DeleteCalls
<1>2. /\ Knows("dDeleteFI", job[w], reg[w], sas, fis, grants)
      /\ Key(w) = <<job[w].sa, IssuerOf[reg[w].idp]>>
  BY <1>1, WorkerFacts DEF IInv
<1>3. PICK f \in fis : f.id = reg[w].fid /\ f.key = Key(w)
  BY <1>2 DEF Knows
<1>4. f.key \in Keys /\ f.key \in Federated
  BY <1>3 DEF Federated, IInv, Typed, TypeOK
<1>5. /\ \A g \in fis : g \in fis' <=> g # f
      /\ \A g \in fis : g.key = f.key => g = f
      /\ fis' \subseteq fis
  BY <1>1, <1>3 DEF IInv, Safe, UniqueIds, UniqueIdentity
<1>6. Federated' = Federated \ {f.key}
  BY <1>5, KeysOfLess DEF Federated
<1>7. GrantedNow' = GrantedNow /\ Accounts' = Accounts
  BY <1>1 DEF Accounts, GrantedNow, ManagedBindingsForSA, BindingsForSA
<1> QED BY <1>4, <1>6, <1>7 DEF Store!StoreNext, Store!Unfederate, Accounts, Federated

\* One grant of a delete: it was the only one of its target, or is gone already.
LEMMA RevokesTarget ==
  ASSUME IInv, NEW w \in Workers, DeleteBinding(w)
  PROVE  Store!StoreNext \/ UNCHANGED <<Accounts, Federated, GrantedNow>>
<1> DEFINE t == reg[w].got[reg[w].kind]
<1>1. /\ pc[w] = "dDeleteGrant" /\ pc[w] \in InCall /\ UNCHANGED <<sas, fis>>
  BY DEF DeleteBinding, At, InCall, DeleteCalls
<1>2. PICK i \in reg[w].todo : grants' = {g \in grants : g.id # i}
  BY DEF DeleteBinding
<1>3. /\ CallOK(w, "dDeleteGrant", job[w], reg[w])
      /\ Knows("dDeleteGrant", job[w], reg[w], sas, fis, grants)
      /\ Key(w) = <<job[w].sa, IssuerOf[reg[w].idp]>>
  BY <1>1, WorkerFacts DEF IInv
<1>4. PICK s \in sas : s.id = reg[w].said /\ s.key = Key(w)
  BY <1>3 DEF Knows, WithRef
<1>5. /\ t \in Targets /\ Key(w) \notin Federated
      /\ \A g \in grants : g.managed /\ g.target = t /\ g.sa = s.id <=> g.id \in reg[w].todo
  BY <1>3, <1>4 DEF Knows, CallOK, WithTarget, WithRef, Federated, DeleteCalls
<1> HIDE DEF t
<1>6. Key(w) \in Keys /\ Key(w) \in Accounts
  BY <1>4, OneAccount
<1>7. Federated' = Federated /\ Accounts' = Accounts
  BY <1>1 DEF Accounts, Federated
<1>8. CASE \A g \in grants : g.id # i
  <2>1. grants' = grants
    BY <1>2, <1>8
  <2> QED BY <1>1, <1>7, <2>1, StoreStutters
<1>9. ASSUME NEW d \in grants, d.id = i PROVE Store!StoreNext
  <2>1. d.managed /\ d.target = t /\ d.sa = s.id
    BY <1>2, <1>5, <1>9
  <2>2. \A g \in grants : g.managed /\ g.target = t /\ g.sa = s.id => g = d
    BY <1>9, <2>1 DEF IInv, Safe, UniqueGrant
  <2>3. \A g \in grants : g \in grants' <=> g # d
    BY <1>2, <1>9 DEF IInv, Safe, UniqueIds
  <2>4. \A r \in sas : (r.id = s.id => r = s) /\ (r.key = s.key => r = s)
    BY <1>4 DEF IInv, Safe, UniqueIds, UniqueIdentity
  <2>5. ASSUME NEW k \in Keys, NEW u \in Targets
        PROVE  Holds(sas', grants', k, u) <=> Holds(sas, grants, k, u) /\ ~(k = Key(w) /\ u = t)
    <3>1. grants' \subseteq grants
      BY <1>2
    <3>2. CASE k = Key(w)
      BY <1>1, <1>4, <2>1, <2>2, <2>3, <2>4, <3>1, <3>2 DEF Holds
    <3>3. CASE k # Key(w)
      BY <1>1, <1>4, <2>1, <2>3, <2>4, <3>1, <3>3 DEF Holds
    <3> QED BY <3>2, <3>3
  <2>6. GrantedNow' = GrantedNow \ {<<Key(w), t>>}
    <3>1. GrantedNow \ {<<Key(w), t>>} \in SUBSET (Keys \X Targets)
      BY GrantedPairs
    <3>2. ASSUME NEW k \in Keys, NEW u \in Targets
          PROVE  <<k, u>> \in GrantedNow' <=> <<k, u>> \in GrantedNow \ {<<Key(w), t>>}
      BY <2>5, GrantedMeans
    <3> QED BY <3>1, <3>2, SamePairs, GrantedPairs
  <2>7. <<Key(w), t>> \in GrantedNow
    BY <1>4, <1>5, <1>6, <2>1, GrantedMeans DEF Holds
  <2> QED BY <1>5, <1>6, <1>7, <2>6, <2>7 DEF Store!StoreNext, Store!Revoke, Accounts, Federated
<1> QED BY <1>8, <1>9

LEMMA RemovesAccount ==
  ASSUME IInv, NEW w \in Workers, DeleteServiceAccount(w)
  PROVE  Store!StoreNext
<1>1. /\ pc[w] = "dDeleteSA" /\ pc[w] \in InCall /\ sas' = {s \in sas : s.id # reg[w].said}
      /\ UNCHANGED <<fis, grants>>
  BY DEF DeleteServiceAccount, At, InCall, DeleteCalls
<1>2. /\ Knows("dDeleteSA", job[w], reg[w], sas, fis, grants)
      /\ Key(w) = <<job[w].sa, IssuerOf[reg[w].idp]>>
  BY <1>1, WorkerFacts DEF IInv
<1>3. PICK s \in sas : s.id = reg[w].said /\ s.key = Key(w)
  BY <1>2 DEF Knows
<1>4. s.key \in Keys /\ s.key \in Accounts
  BY OneAccount
<1>5. s.key \notin Federated
  BY <1>2, <1>3 DEF Knows, DeleteCalls, Federated
<1>6. /\ \A r \in sas : r \in sas' <=> r # s
      /\ \A r \in sas : r.key = s.key => r = s
      /\ sas' \subseteq sas
  BY <1>1, <1>3 DEF IInv, Safe, UniqueIds, UniqueIdentity
<1>7. Accounts' = Accounts \ {s.key}
  BY <1>6, KeysOfLess DEF Accounts
<1>8. \A k \in Keys, t \in Targets :
        Holds(sas', grants', k, t) <=> Holds(sas, grants, k, t) /\ k # s.key
  BY <1>1, <1>6 DEF Holds
<1>9. GrantedNow' = {kt \in GrantedNow : kt[1] # s.key}
  <2>1. {kt \in GrantedNow : kt[1] # s.key} \in SUBSET (Keys \X Targets)
    BY GrantedPairs
  <2>2. ASSUME NEW k \in Keys, NEW t \in Targets
        PROVE  <<k, t>> \in GrantedNow' <=> <<k, t>> \in {kt \in GrantedNow : kt[1] # s.key}
    BY <1>8, GrantedMeans
  <2> QED BY <2>1, <2>2, SamePairs, GrantedPairs
<1>10. Federated' = Federated
  BY <1>1 DEF Federated
<1> QED BY <1>4, <1>5, <1>7, <1>9, <1>10 DEF Store!StoreNext, Store!RemoveAccount, Accounts, Federated

\* An update keeps the key of the federated identity.
LEMMA UpdateStutters ==
  ASSUME IInv, NEW w \in Workers, UpdateFederatedIdentity(w)
  PROVE  UNCHANGED <<Accounts, Federated, GrantedNow>>
<1>1. sas' = sas /\ grants' = grants
  BY DEF UpdateFederatedIdentity
<1>2. Federated' = Federated
  <2>1. CASE fis' = fis
    BY <2>1 DEF Federated
  <2>2. ASSUME NEW f \in fis, fis' = (fis \ {f}) \cup {[f EXCEPT !.attrs = job[w].attrs]}
        PROVE  Federated' = Federated
    <3>1. [f EXCEPT !.attrs = job[w].attrs].key = f.key
      BY DEF IInv, Typed, TypeOK
    <3>2. Federated' = {g.key : g \in fis \ {f}} \cup {f.key}
      BY <2>2, <3>1, KeysOfMore DEF Federated
    <3> QED BY <3>2 DEF Federated
  <2> QED BY <2>1, <2>2 DEF UpdateFederatedIdentity
<1> QED BY <1>1, <1>2, StoreStutters

-----------------------------------------------------------------------------
(* The refinement. *)

LEMMA NextRefines ==
  ASSUME IInv, [Next]_vars
  PROVE  Store!StoreNext \/ UNCHANGED <<Accounts, Federated, GrantedNow>>
<1>1. CASE UNCHANGED cloud
  <2>1. sas' = sas /\ fis' = fis /\ grants' = grants
    BY <1>1 DEF cloud
  <2> QED BY <2>1, StoreStutters DEF Federated
<1>2. ASSUME NEW t \in Targets, NEW s \in sas, AdminGrant(t, s)
      PROVE  UNCHANGED <<Accounts, Federated, GrantedNow>>
  <2>1. /\ sas' = sas /\ fis' = fis
        /\ grants' = grants \cup {[id |-> nextId, target |-> t, sa |-> s.id, managed |-> FALSE]}
    BY <1>2 DEF AdminGrant
  <2>2. \A g : g.managed => (g \in grants' <=> g \in grants)
    BY <2>1
  <2> QED BY <2>1, <2>2, StoreStutters DEF Federated
<1>3. ASSUME NEW w \in Workers, Step(w)
      PROVE  Store!StoreNext \/ UNCHANGED <<Accounts, Federated, GrantedNow>>
  <2>1. \/ UNCHANGED cloud \/ CreateServiceAccount(w) \/ CreateFederatedIdentity(w)
        \/ CreateBinding(w) \/ DeleteServiceAccount(w) \/ DeleteFederatedIdentity(w)
        \/ DeleteBinding(w) \/ UpdateFederatedIdentity(w)
    BY <1>3 DEF Step, FindProviderByClusterID, ProviderMissing, ProviderWithoutIssuer,
       ProviderAmbiguous, CallFails, ListServiceAccounts, ListFederatedIdentities, ResolveRef,
       ListBindings, DeleteListFI, DeleteListSA, DeleteResolve, DeleteListBindings
  <2> QED BY <1>1, <2>1, CreatesAccount, FederatesAccount, GrantsTarget, UnfederatesAccount,
             RevokesTarget, RemovesAccount, UpdateStutters
<1> QED BY <1>1, <1>2, <1>3 DEF Next, Begin, Collect, Crash, ChangeIdPs, Rename, Stabilise, vars, cloud

\* EnsureWorkloadIdentity and DeleteWorkloadIdentity, with all their API calls,
\* failures and repetitions, implement IdentityStore.
THEOREM EngineImplementsStore ==
  ASSUME Exclusive PROVE Spec => ImplementsIdentityStore
<1>1. Init => Store!StoreInit
  BY DEF Init, Store!StoreInit, GrantedNow
<1>2. IInv /\ [Next]_vars => [Store!StoreNext]_(Store!store)
  BY NextRefines DEF Store!store, Accounts, Federated
<1> QED BY <1>1, <1>2, Inductive, PTL DEF Spec, ImplementsIdentityStore, Store!StoreSpec
=============================================================================
