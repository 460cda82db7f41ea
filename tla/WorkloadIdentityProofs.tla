----------------------- MODULE WorkloadIdentityProofs -----------------------
(***************************************************************************)
(* Theorems about WorkloadIdentity, for every set of workers, Kubernetes   *)
(* ServiceAccounts, providers, targets, names and calls.                   *)
(***************************************************************************)
EXTENDS WorkloadIdentity, TLAPS

-----------------------------------------------------------------------------
(* The inductive invariant. *)

BeforeRefs == {"provider", "listSA", "createSA", "listFI", "createFI", "updateFI",
               "dListFI", "dDeleteFI", "dListSA"}
WithRef == {"resolve", "listGrant", "createGrant", "dResolve", "dListGrant", "dDeleteGrant"}
WithTarget == WithRef \ {"resolve", "dResolve"}
InCall == EnsureCalls \cup DeleteCalls
EnsureDone(l, j) == l = "ok" /\ j.op = "ensure"
DeleteDone(l, j, r) == l = "ok" /\ j.op = "delete" /\ r.idp # None

\* What a worker at label l, with call j and local variables r, has in them.
CallOK(w, l, j, r) ==
  /\ l # "idle" => j \in JobsOf[w]
  /\ l \in EnsureCalls => j.op = "ensure"
  /\ l \in DeleteCalls => j.op = "delete"
  /\ l \in InCall => r.idp \in IdPs /\ IssuerOf[r.idp] \in Issuers
  /\ l \in BeforeRefs => r.kind = "start"
  /\ l \in WithRef => r.kind \in Kinds
  /\ l \in WithTarget => r.got[r.kind] \in Targets
  /\ l \in {"resolve", "dResolve"} => r.got[r.kind] = None
  /\ r.kind = "start" => \A k \in Kinds : r.got[k] = None
  /\ r.kind = "policy" => r.got["role"] = None
  /\ l \in EnsureCalls \cup {"ok"} /\ j.op = "ensure" /\ r.kind \in {"role", "done"} =>
       \A k \in Kinds : k # r.kind /\ j.ref[k] # None => r.got[k] # None
  /\ l = "dDeleteSA" \/ EnsureDone(l, j) => r.kind = "done"
  /\ DeleteDone(l, j, r) => r.kind \in {"start", "done"}

\* What such a worker may rely on about the cloud, with service accounts S,
\* federated identities F and grants G.
Knows(l, j, r, S, F, G) ==
  LET key == <<j.sa, IssuerOf[r.idp]>>
      For(g, k) == g.target = r.got[k] /\ g.sa = r.said IN
  /\ l = "createSA" => \A s \in S : s.key # key
  /\ l \in {"listFI", "createFI", "updateFI", "dDeleteSA"} \cup WithRef \/ EnsureDone(l, j) =>
       \E s \in S : s.id = r.said /\ s.key = key
  /\ l = "createFI" => \A f \in F : f.key # key
  /\ l \in {"updateFI", "dDeleteFI"} => \E f \in F : f.id = r.fid /\ f.key = key
  /\ l \in {"resolve", "listGrant", "createGrant"} \/ EnsureDone(l, j) =>
       \E f \in F : f.id = r.fid /\ f.key = key /\ f.sa = r.said /\ f.attrs = j.attrs
  /\ l \in DeleteCalls \ {"dListFI", "dDeleteFI"} \/ DeleteDone(l, j, r) =>
       \A f \in F : f.key # key
  /\ DeleteDone(l, j, r) => \A s \in S : s.key # key /\ (r.kind = "done" => s.id # r.said)
  /\ l = "createGrant" => \A g \in G : g.managed => ~For(g, r.kind)
  /\ l = "dDeleteGrant" => \A g \in G : g.managed /\ For(g, r.kind) <=> g.id \in r.todo
  /\ l \in EnsureCalls \/ EnsureDone(l, j) =>
       \A k \in Kinds : k # r.kind /\ r.got[k] # None => \E g \in G : For(g, k)
  /\ l \in DeleteCalls \/ DeleteDone(l, j, r) =>
       \A k \in Kinds : k # r.kind /\ r.got[k] # None => \A g \in G : g.managed => ~For(g, k)

\* Identities are handed out once.
FreshIds ==
  /\ \A s \in sas : s.id < nextId
  /\ \A f \in fis : f.id < nextId
  /\ \A g \in grants : g.id < nextId /\ g.sa < nextId
  /\ \A w \in Workers : reg[w].said < nextId /\ \A i \in reg[w].todo : i < nextId
UniqueIds ==
  /\ \A s, t \in sas : s.id = t.id => s = t
  /\ \A f, g \in fis : f.id = g.id => f = g
  /\ \A g, h \in grants : g.id = h.id => g = h

CallsOK == \A w \in Workers : CallOK(w, pc[w], job[w], reg[w])
Typed == TypeOK /\ CallsOK
Known == \A w \in Workers : Knows(pc[w], job[w], reg[w], sas, fis, grants)
Safe == /\ FreshIds /\ UniqueIds /\ Known
        /\ UniqueIdentity /\ UniqueGrant /\ FederatedIdentityBacked
IInv == Typed /\ Safe

-----------------------------------------------------------------------------
(* Type correctness, together with what the local variables hold (CallsOK). *)

LEMMA NoRegType == NoReg \in RegType
  BY DEF NoReg, RegType, NoId

LEMMA NextKindType ==
  ASSUME NEW j, NEW k
  PROVE  NextKind(j, k) \in Kinds \cup {"done"}
  BY DEF NextKind, Kinds

LEMMA LabelForType ==
  ASSUME NEW j, NEW k
  PROVE  LabelFor(j, k) \in Labels
  BY DEF LabelFor, Labels, EnsureCalls, DeleteCalls, Returned

LEMMA ResolveType ==
  ASSUME TypeOK, NEW k, NEW r
  PROVE  Resolve(k, r) \in Targets \cup {None}
  BY DEF TypeOK, Resolve

\* A worker at a label of a call has been given that call.
LEMMA JobTyped ==
  ASSUME Typed, NEW w \in Workers, pc[w] # "idle"
  PROVE  job[w] \in JobsOf[w] /\ job[w] \in JobType
  BY ConstantsAssumption DEF Typed, CallsOK, CallOK

Moved == /\ pc' \in [Workers -> Labels] /\ reg' \in [Workers -> RegType]
         /\ CallsOK'

\* One worker moves and the others stay where they are.
LEMMA GoMoves ==
  ASSUME Typed, NEW w \in Workers, NEW l \in Labels, NEW r \in RegType,
         Go(w, l, r), job' = job, CallOK(w, l, job[w], r)
  PROVE  Moved
<1>1. pc' \in [Workers -> Labels] /\ reg' \in [Workers -> RegType]
  BY DEF Typed, TypeOK, Go
<1>2. pc'[w] = l /\ reg'[w] = r
  BY DEF Typed, TypeOK, Go
<1>3. ASSUME NEW v \in Workers PROVE CallOK(v, pc'[v], job'[v], reg'[v])
  <2>1. CASE v = w
    BY <1>2, <2>1
  <2>2. CASE v # w
    <3>1. pc'[v] = pc[v] /\ reg'[v] = reg[v]
      BY <2>2 DEF Typed, TypeOK, Go
    <3>2. CallOK(v, pc[v], job[v], reg[v])
      BY DEF Typed, CallsOK
    <3> QED BY <3>1, <3>2
  <2> QED BY <2>1, <2>2
<1> QED BY <1>1, <1>3 DEF Moved, CallsOK

LEMMA NoRegOK ==
  ASSUME Typed, NEW w \in Workers, pc[w] # "idle", NEW l \in Returned \cup {"provider"},
         job[w].op = "ensure" => l # "ok"
  PROVE  CallOK(w, l, job[w], NoReg)
  BY JobTyped DEF CallOK, NoReg, Returned, BeforeRefs, WithRef, WithTarget, InCall,
                  EnsureCalls, DeleteCalls, EnsureDone, DeleteDone, Kinds

LEMMA FailMoves ==
  ASSUME Typed, NEW w \in Workers, pc[w] # "idle", Fail(w), job' = job
  PROVE  Moved
<1>1. CallOK(w, "failed", job[w], NoReg)
  BY NoRegOK DEF Returned
<1> QED BY <1>1, GoMoves, NoRegType DEF Fail, Labels, Returned

LEMMA ReplyMoves ==
  ASSUME Typed, NEW w \in Workers, pc[w] # "idle", NEW l \in Labels, NEW r \in RegType,
         Reply(w, l, r), job' = job, CallOK(w, l, job[w], r)
  PROVE  Moved
  BY GoMoves, FailMoves DEF Reply

\* Going on to the next reference when reference r.kind is dealt with: an ensure has its target.
LEMMA AfterRefMoves ==
  ASSUME Typed, NEW w \in Workers, pc[w] # "idle", NEW r \in RegType, job' = job,
         GoAfterRef(w, r) \/ ReplyAfterRef(w, r),
         r.idp \in IdPs, IssuerOf[r.idp] \in Issuers,
         r.kind # "done",
         r.kind = "start" => \A k \in Kinds : r.got[k] = None,
         r.kind = "policy" => r.got["role"] = None,
         job[w].op = "ensure" /\ r.kind \in Kinds => r.got[r.kind] # None,
         job[w].op = "ensure" /\ r.kind = "role" /\ job[w].ref["policy"] # None
           => r.got["policy"] # None
  PROVE  Moved
<1> DEFINE k == NextKind(job[w], r.kind)
           l == LabelFor(job[w], k)
           r1 == [r EXCEPT !.kind = k]
<1>1. l \in Labels
  BY LabelForType
<1>2. k \in Kinds \cup {"done"}
  BY NextKindType
<1>3. r1 \in RegType /\ r1.kind = k /\ r1.got = r.got /\ r1.idp = r.idp
  <2> HIDE DEF k
  <2> QED BY <1>2 DEF RegType
<1>4. job[w] \in JobsOf[w] /\ job[w].op \in {"ensure", "delete"}
  BY JobTyped DEF JobType
<1>5. CallOK(w, l, job[w], r1)
  <2>1. k = "policy" => r.kind = "start" /\ job[w].ref["policy"] # None
    BY DEF NextKind, RegType, Kinds
  <2>2. k = "role" => /\ r.kind \in {"start", "policy"} /\ job[w].ref["role"] # None
                      /\ r.kind = "start" => job[w].ref["policy"] = None
    BY DEF NextKind, RegType, Kinds
  <2>3. k = "done" => /\ r.kind \in {"start", "policy"} => job[w].ref["role"] = None
                      /\ r.kind = "start" => job[w].ref["policy"] = None
    BY DEF NextKind, RegType, Kinds
  <2>4. /\ job[w].op = "ensure" => l = (IF k = "done" THEN "ok" ELSE "resolve")
        /\ job[w].op = "delete" => l = (IF k = "done" THEN "dDeleteSA" ELSE "dResolve")
    BY DEF LabelFor
  <2>5. r.kind \in {"start", "policy", "role"}
    BY DEF RegType, Kinds
  <2> HIDE DEF k, l, r1
  <2> QED
    BY <1>2, <1>3, <1>4, <2>1, <2>2, <2>3, <2>4, <2>5, ConstantsAssumption
    DEF CallOK, BeforeRefs, WithRef, WithTarget, InCall,
        EnsureCalls, DeleteCalls, EnsureDone, DeleteDone, Kinds
<1>6. Go(w, l, r1) \/ Reply(w, l, r1)
  BY DEF GoAfterRef, ReplyAfterRef
<1> HIDE DEF k, l, r1
<1> QED BY <1>1, <1>3, <1>5, <1>6, GoMoves, ReplyMoves

\* The facts CallsOK gives a worker in the middle of a call.
LEMMA InCallFacts ==
  ASSUME Typed, NEW w \in Workers, pc[w] \in InCall
  PROVE  /\ pc[w] # "idle" /\ job[w] \in JobsOf[w] /\ job[w] \in JobType
         /\ reg[w] \in RegType /\ Key(w) \in Keys
         /\ reg[w].idp \in IdPs /\ IssuerOf[reg[w].idp] \in Issuers
         /\ CallOK(w, pc[w], job[w], reg[w])
<1>1. pc[w] # "idle"
  BY DEF InCall, EnsureCalls, DeleteCalls
<1>2. CallOK(w, pc[w], job[w], reg[w]) /\ reg[w] \in RegType
  BY DEF Typed, TypeOK, CallsOK
<1>3. reg[w].idp \in IdPs /\ IssuerOf[reg[w].idp] \in Issuers
  BY <1>2 DEF CallOK
<1>4. job[w].sa \in K8sSAs
  BY <1>1, JobTyped DEF JobType
<1> QED BY <1>1, <1>2, <1>3, <1>4, JobTyped DEF Key, Keys

\* A step of a worker keeps the types and what its local variables hold.
LEMMA StepTyped ==
  ASSUME Typed, NEW w \in Workers, Step(w)
  PROVE  Typed'
<1> USE DEF At
<1>a. /\ sas \subseteq [id : Nat, key : Keys]
      /\ fis \subseteq [id : Nat, key : Keys, sa : Nat, prov : IdPs, attrs : Attrs]
      /\ grants \subseteq [id : Nat, target : Targets, sa : Nat, managed : BOOLEAN]
      /\ nextId \in Nat /\ nextId # 0
      /\ idps \subseteq IdPs /\ named \in [Names -> Targets \cup {None}] /\ calm \in BOOLEAN
      /\ job \in [Workers -> JobType \cup {NoJob}] /\ reg[w] \in RegType
  BY DEF Typed, TypeOK, NoId
<1>b. job' = job /\ UNCHANGED <<idps, named, calm>>
  BY DEF Step, FindProviderByClusterID, ProviderMissing, ProviderWithoutIssuer, ProviderAmbiguous,
     ListServiceAccounts, CreateServiceAccount, ListFederatedIdentities, CreateFederatedIdentity,
     UpdateFederatedIdentity, ResolveRef, ListBindings, CreateBinding, DeleteListFI,
     DeleteFederatedIdentity, DeleteListSA, DeleteResolve, DeleteListBindings, DeleteBinding,
     DeleteServiceAccount, CallFails, world
<1>c. SUFFICES /\ Moved
               /\ sas' \subseteq [id : Nat, key : Keys]
               /\ fis' \subseteq [id : Nat, key : Keys, sa : Nat, prov : IdPs, attrs : Attrs]
               /\ grants' \subseteq [id : Nat, target : Targets, sa : Nat, managed : BOOLEAN]
               /\ nextId' \in Nat /\ nextId' # 0
  BY <1>a, <1>b DEF Typed, TypeOK, Moved, NoId
<1>d. ASSUME pc[w] \in InCall
      PROVE  /\ job[w] \in JobsOf[w] /\ job[w] \in JobType
             /\ reg[w] \in RegType /\ Key(w) \in Keys
             /\ reg[w].idp \in IdPs /\ IssuerOf[reg[w].idp] \in Issuers
             /\ CallOK(w, pc[w], job[w], reg[w])
  BY <1>d, InCallFacts
<1>1. CASE FindProviderByClusterID(w)
  <2>1. PICK p \in idps : /\ idps = {p} /\ IssuerOf[p] # NoIssuer
                          /\ Go(w, IF job[w].op = "ensure" THEN "listSA" ELSE "dListFI",
                                   [reg[w] EXCEPT !.idp = p])
    BY <1>1 DEF FindProviderByClusterID
  <2> DEFINE l == IF job[w].op = "ensure" THEN "listSA" ELSE "dListFI"
             r == [reg[w] EXCEPT !.idp = p]
  <2>2. job[w] \in JobsOf[w] /\ job[w].op \in {"ensure", "delete"}
    BY <1>1, JobTyped DEF FindProviderByClusterID, JobType
  <2>3. CallOK(w, "provider", job[w], reg[w])
    BY <1>1 DEF FindProviderByClusterID, Typed, CallsOK
  <2>4. r \in RegType /\ l \in Labels
    BY <1>a DEF RegType, Labels, EnsureCalls, DeleteCalls
  <2>5. IssuerOf[p] \in Issuers /\ p \in IdPs
    BY <1>a, <2>1, ConstantsAssumption
  <2>6. r.idp = p /\ r.kind = "start" /\ \A k \in Kinds : r.got[k] = None
    BY <1>a, <2>3 DEF CallOK, BeforeRefs, RegType
  <2>7. CallOK(w, l, job[w], r)
    <3> HIDE DEF r
    <3> QED BY <2>2, <2>5, <2>6 DEF CallOK, BeforeRefs, WithRef, WithTarget, InCall, EnsureCalls, DeleteCalls, EnsureDone, DeleteDone
  <2> QED BY <1>1, <2>1, <2>4, <2>7, <1>a, <1>b, GoMoves DEF FindProviderByClusterID, cloud
<1>2. CASE ProviderMissing(w) \/ ProviderWithoutIssuer(w)
  <2>1. PICK l \in Returned : Go(w, l, NoReg) /\ (job[w].op = "ensure" => l # "ok")
    BY <1>2 DEF ProviderMissing, ProviderWithoutIssuer, Returned
  <2>2. pc[w] # "idle" /\ UNCHANGED cloud
    BY <1>2 DEF ProviderMissing, ProviderWithoutIssuer
  <2>3. CallOK(w, l, job[w], NoReg) /\ l \in Labels
    BY <2>1, <2>2, NoRegOK DEF Labels
  <2> QED BY <1>a, <1>b, <2>1, <2>2, <2>3, NoRegType, GoMoves DEF cloud
<1>3. CASE ProviderAmbiguous(w) \/ CallFails(w)
  <2>1. pc[w] # "idle" /\ Fail(w) /\ UNCHANGED cloud
    BY <1>3 DEF ProviderAmbiguous, CallFails, EnsureCalls, DeleteCalls
  <2> QED BY <1>a, <1>b, <2>1, FailMoves DEF cloud
<1>4. CASE ListServiceAccounts(w)
  <2>1. pc[w] = "listSA" /\ pc[w] \in InCall /\ UNCHANGED cloud
    BY <1>4 DEF ListServiceAccounts, InCall, EnsureCalls
  <2>2. ASSUME NEW l \in {"createSA", "listFI"}, NEW i \in Nat,
               LET r == [reg[w] EXCEPT !.said = i] IN Go(w, l, r)
        PROVE  Moved
    <3> DEFINE r == [reg[w] EXCEPT !.said = i]
    <3>1. r \in RegType /\ r.idp = reg[w].idp /\ r.kind = reg[w].kind /\ r.got = reg[w].got
      BY <1>d, <2>1 DEF RegType
    <3>2. l \in Labels
      BY DEF Labels, EnsureCalls
    <3>3. CallOK(w, l, job[w], r)
      <4> HIDE DEF r
      <4> QED BY <1>d, <2>1, <3>1 DEF CallOK, BeforeRefs, WithRef, WithTarget, InCall, EnsureCalls, DeleteCalls, EnsureDone, DeleteDone
    <3> QED BY <1>b, <2>2, <3>1, <3>2, <3>3, GoMoves
  <2>3. CASE findByLabelsSA(Key(w)) = {} /\ Go(w, "createSA", reg[w])
    <3>1. reg[w] = [reg[w] EXCEPT !.said = reg[w].said] /\ reg[w].said \in Nat
      BY <1>a DEF RegType
    <3> QED BY <1>a, <2>1, <2>2, <2>3, <3>1 DEF cloud
  <2>4. CASE \E s \in findByLabelsSA(Key(w)) : Go(w, "listFI", [reg[w] EXCEPT !.said = s.id])
    BY <1>a, <2>1, <2>2, <2>4 DEF cloud, findByLabelsSA
  <2> QED BY <1>4, <2>3, <2>4 DEF ListServiceAccounts
<1>5. CASE CreateServiceAccount(w)
  <2> DEFINE r == [reg[w] EXCEPT !.said = nextId]
  <2>1. pc[w] = "createSA" /\ pc[w] \in InCall /\ pc[w] # "idle" /\ Reply(w, "listFI", r)
    BY <1>5 DEF CreateServiceAccount, InCall, EnsureCalls
  <2>2. r \in RegType /\ r.idp = reg[w].idp /\ r.kind = reg[w].kind /\ r.got = reg[w].got
    BY <1>a DEF RegType
  <2>3. CallOK(w, "listFI", job[w], r)
    <3> HIDE DEF r
    <3> QED BY <1>d, <2>1, <2>2 DEF CallOK, BeforeRefs, WithRef, WithTarget, InCall, EnsureCalls, DeleteCalls, EnsureDone, DeleteDone
  <2>4. Moved
    <3> HIDE DEF r
    <3> QED BY <1>b, <2>1, <2>2, <2>3, ReplyMoves DEF Labels, EnsureCalls
  <2>5. sas' \subseteq [id : Nat, key : Keys] /\ nextId' \in Nat /\ nextId' # 0
    BY <1>5, <1>a, <1>d, <2>1 DEF CreateServiceAccount
  <2> QED BY <1>5, <1>a, <2>4, <2>5 DEF CreateServiceAccount
<1>6. CASE ListFederatedIdentities(w)
  <2>1. pc[w] = "listFI" /\ pc[w] \in InCall /\ pc[w] # "idle" /\ UNCHANGED cloud
    BY <1>6 DEF ListFederatedIdentities, InCall, EnsureCalls
  <2>2. CallOK(w, "createFI", job[w], reg[w])
    BY <1>d, <2>1 DEF CallOK, BeforeRefs, WithRef, WithTarget, InCall, EnsureCalls, DeleteCalls, EnsureDone, DeleteDone
  <2>3. CASE findByLabelsFI(Key(w)) = {} /\ Go(w, "createFI", reg[w])
    BY <1>a, <1>b, <2>1, <2>2, <2>3, GoMoves DEF cloud, Labels, EnsureCalls
  <2>4. ASSUME NEW f \in findByLabelsFI(Key(w)),
               LET r == [reg[w] EXCEPT !.fid = f.id] IN
                 IF fiNeedsUpdate(f, job[w].attrs) THEN Go(w, "updateFI", r) ELSE GoAfterRef(w, r)
        PROVE  Moved
    <3> DEFINE r == [reg[w] EXCEPT !.fid = f.id]
    <3>1. r \in RegType /\ r.idp = reg[w].idp /\ r.kind = reg[w].kind /\ r.got = reg[w].got
      BY <1>a DEF RegType, findByLabelsFI
    <3>2. Go(w, "updateFI", r) \/ GoAfterRef(w, r)
      BY <2>4
    <3> HIDE DEF r
    <3>3. CallOK(w, "updateFI", job[w], r)
      BY <1>d, <2>1, <3>1 DEF CallOK, BeforeRefs, WithRef, WithTarget, InCall, EnsureCalls, DeleteCalls, EnsureDone, DeleteDone
    <3>4. CASE Go(w, "updateFI", r)
      BY <1>b, <3>1, <3>3, <3>4, GoMoves DEF Labels, EnsureCalls
    <3>5. CASE GoAfterRef(w, r)
      <4>1. r.kind = "start" /\ \A k \in Kinds : r.got[k] = None
        BY <1>d, <2>1, <3>1 DEF CallOK, BeforeRefs
      <4> QED BY <1>b, <1>d, <2>1, <3>1, <3>5, <4>1, AfterRefMoves DEF Kinds
    <3> QED BY <3>2, <3>4, <3>5
  <2> QED BY <1>6, <1>a, <2>1, <2>3, <2>4 DEF ListFederatedIdentities, cloud
<1>7. CASE CreateFederatedIdentity(w)
  <2> DEFINE r == [reg[w] EXCEPT !.fid = nextId]
  <2>1. pc[w] = "createFI" /\ pc[w] \in InCall /\ pc[w] # "idle" /\ ReplyAfterRef(w, r)
    BY <1>7 DEF CreateFederatedIdentity, InCall, EnsureCalls
  <2>2. r \in RegType /\ r.idp = reg[w].idp /\ r.kind = reg[w].kind /\ r.got = reg[w].got
    BY <1>a DEF RegType
  <2>3. Moved
    <3> HIDE DEF r
    <3>1. r.kind = "start" /\ \A k \in Kinds : r.got[k] = None
      BY <1>d, <2>1, <2>2 DEF CallOK, BeforeRefs
    <3> QED BY <1>b, <1>d, <2>1, <2>2, <3>1, AfterRefMoves DEF Kinds
  <2>4. fis' \subseteq [id : Nat, key : Keys, sa : Nat, prov : IdPs, attrs : Attrs]
    <3>1. reg[w].said \in Nat /\ job[w].attrs \in Attrs
      BY <1>d, <2>1 DEF RegType, JobType
    <3> QED BY <1>7, <1>a, <1>d, <2>1, <3>1 DEF CreateFederatedIdentity
  <2> QED BY <1>7, <1>a, <2>3, <2>4 DEF CreateFederatedIdentity
<1>8. CASE UpdateFederatedIdentity(w)
  <2>1. pc[w] = "updateFI" /\ pc[w] \in InCall /\ pc[w] # "idle"
    BY <1>8 DEF UpdateFederatedIdentity, InCall, EnsureCalls
  <2>2. CASE \E f \in fis : /\ f.id = reg[w].fid
                            /\ fis' = (fis \ {f}) \cup {[f EXCEPT !.attrs = job[w].attrs]}
                            /\ ReplyAfterRef(w, reg[w])
    <3>1. reg[w].kind = "start" /\ \A k \in Kinds : reg[w].got[k] = None
      BY <1>d, <2>1 DEF CallOK, BeforeRefs
    <3>2. Moved
      BY <1>b, <1>d, <2>1, <2>2, <3>1, AfterRefMoves DEF Kinds
    <3>3. fis' \subseteq [id : Nat, key : Keys, sa : Nat, prov : IdPs, attrs : Attrs]
      BY <1>a, <1>d, <2>1, <2>2 DEF JobType
    <3> QED BY <1>8, <1>a, <3>2, <3>3 DEF UpdateFederatedIdentity
  <2>3. CASE Fail(w) /\ UNCHANGED fis
    BY <1>8, <1>a, <1>b, <2>1, <2>3, FailMoves DEF UpdateFederatedIdentity
  <2> QED BY <1>8, <2>2, <2>3 DEF UpdateFederatedIdentity
<1>9. CASE ResolveRef(w)
  <2> DEFINE k == reg[w].kind
             t == Resolve(k, job[w].ref[k])
             r == [reg[w] EXCEPT !.got[k] = t]
  <2>1. pc[w] = "resolve" /\ pc[w] \in InCall /\ pc[w] # "idle" /\ UNCHANGED cloud
    BY <1>9 DEF ResolveRef, InCall, EnsureCalls
  <2>2. k \in Kinds
    BY <1>d, <2>1 DEF CallOK, WithRef
  <2>3. Fail(w) \/ (t # None /\ Go(w, "listGrant", r))
    BY <1>9 DEF ResolveRef
  <2>4. ASSUME t # None, Go(w, "listGrant", r) PROVE Moved
    <3>1. t \in Targets
      BY <2>4, ResolveType DEF Typed
    <3> HIDE DEF t
    <3>2. r \in RegType /\ r.idp = reg[w].idp /\ r.kind = k /\ r.got = [reg[w].got EXCEPT ![k] = t]
      BY <1>d, <2>1, <2>2, <3>1 DEF RegType
    <3>3. r.got[k] = t /\ \A m \in Kinds : m # k => r.got[m] = reg[w].got[m]
      BY <1>d, <2>1, <2>2, <3>2 DEF RegType
    <3>4. CallOK(w, "listGrant", job[w], r)
      <4> HIDE DEF r
      <4> QED BY <1>d, <2>1, <2>2, <2>4, <3>1, <3>2, <3>3 DEF CallOK, Kinds, BeforeRefs, WithRef, WithTarget, InCall, EnsureCalls, DeleteCalls, EnsureDone, DeleteDone
    <3> QED BY <1>b, <2>4, <3>2, <3>4, GoMoves DEF Labels, EnsureCalls
  <2> QED BY <1>a, <1>b, <2>1, <2>3, <2>4, FailMoves DEF cloud
<1>10. CASE ListBindings(w)
  <2>1. pc[w] = "listGrant" /\ pc[w] \in InCall /\ pc[w] # "idle" /\ UNCHANGED cloud
    BY <1>10 DEF ListBindings, InCall, EnsureCalls
  <2>2. CASE Go(w, "createGrant", reg[w])
    <3>1. CallOK(w, "createGrant", job[w], reg[w])
      BY <1>d, <2>1 DEF CallOK, BeforeRefs, WithRef, WithTarget, InCall, EnsureCalls, DeleteCalls, EnsureDone, DeleteDone
    <3> QED BY <1>a, <1>b, <2>1, <2>2, <3>1, GoMoves DEF cloud, Labels, EnsureCalls
  <2>3. CASE GoAfterRef(w, reg[w])
    <3>1. /\ reg[w].kind \in Kinds /\ reg[w].got[reg[w].kind] # None
          /\ reg[w].kind = "policy" => reg[w].got["role"] = None
          /\ reg[w].kind = "role" /\ job[w].ref["policy"] # None => reg[w].got["policy"] # None
      BY <1>d, <2>1, ConstantsAssumption DEF CallOK, Kinds, Refs, BeforeRefs, WithRef, WithTarget, InCall, EnsureCalls, DeleteCalls, EnsureDone, DeleteDone
    <3> QED BY <1>a, <1>b, <1>d, <2>1, <2>3, <3>1, AfterRefMoves DEF cloud, Kinds
  <2> QED BY <1>10, <2>2, <2>3 DEF ListBindings
<1>11. CASE CreateBinding(w)
  <2>1. /\ pc[w] = "createGrant" /\ pc[w] \in InCall /\ pc[w] # "idle"
        /\ ReplyAfterRef(w, reg[w])
    BY <1>11 DEF CreateBinding, InCall, EnsureCalls
  <2>2. /\ reg[w].kind \in Kinds /\ reg[w].got[reg[w].kind] \in Targets
        /\ reg[w].got[reg[w].kind] # None
        /\ reg[w].kind = "policy" => reg[w].got["role"] = None
        /\ reg[w].kind = "role" /\ job[w].ref["policy"] # None => reg[w].got["policy"] # None
    BY <1>d, <2>1, ConstantsAssumption DEF CallOK, Kinds, Refs, BeforeRefs, WithRef, WithTarget, InCall, EnsureCalls, DeleteCalls, EnsureDone, DeleteDone
  <2>3. Moved
    BY <1>b, <1>d, <2>1, <2>2, AfterRefMoves DEF Kinds
  <2>4. grants' \subseteq [id : Nat, target : Targets, sa : Nat, managed : BOOLEAN]
    <3>1. reg[w].said \in Nat
      BY <1>a DEF RegType
    <3>2. nextId \in Nat
      BY <1>a
    <3> DEFINE g == [id |-> nextId, target |-> reg[w].got[reg[w].kind], sa |-> reg[w].said,
                     managed |-> TRUE]
    <3>3. g \in [id : Nat, target : Targets, sa : Nat, managed : BOOLEAN]
      BY <2>2, <3>1, <3>2, Zenon
    <3>4. grants' = grants \cup {g}
      BY <1>11 DEF CreateBinding
    <3> HIDE DEF g
    <3> QED BY <1>a, <3>3, <3>4
  <2> QED BY <1>11, <1>a, <2>3, <2>4 DEF CreateBinding
<1>12. CASE DeleteListFI(w)
  <2>1. pc[w] = "dListFI" /\ pc[w] \in InCall /\ UNCHANGED cloud
    BY <1>12 DEF DeleteListFI, InCall, DeleteCalls
  <2>2. CASE Go(w, "dListSA", reg[w])
    <3>1. CallOK(w, "dListSA", job[w], reg[w])
      BY <1>d, <2>1 DEF CallOK, BeforeRefs, WithRef, WithTarget, InCall, EnsureCalls, DeleteCalls, EnsureDone, DeleteDone
    <3> QED BY <1>a, <1>b, <2>1, <2>2, <3>1, GoMoves DEF cloud, Labels, DeleteCalls
  <2>3. ASSUME NEW f \in findByLabelsFI(Key(w)), Go(w, "dDeleteFI", [reg[w] EXCEPT !.fid = f.id])
        PROVE  Moved
    <3> DEFINE r == [reg[w] EXCEPT !.fid = f.id]
    <3>1. r \in RegType /\ r.idp = reg[w].idp /\ r.kind = reg[w].kind /\ r.got = reg[w].got
      BY <1>a DEF RegType, findByLabelsFI
    <3>2. CallOK(w, "dDeleteFI", job[w], r)
      <4> HIDE DEF r
      <4> QED BY <1>d, <2>1, <3>1 DEF CallOK, BeforeRefs, WithRef, WithTarget, InCall, EnsureCalls, DeleteCalls, EnsureDone, DeleteDone
    <3> QED BY <1>b, <2>3, <3>1, <3>2, GoMoves DEF Labels, DeleteCalls
  <2> QED BY <1>12, <1>a, <2>1, <2>2, <2>3 DEF DeleteListFI, cloud
<1>13. CASE DeleteFederatedIdentity(w)
  <2>1. /\ pc[w] = "dDeleteFI" /\ pc[w] \in InCall /\ pc[w] # "idle"
        /\ Reply(w, "dListSA", reg[w])
    BY <1>13 DEF DeleteFederatedIdentity, InCall, DeleteCalls
  <2>2. CallOK(w, "dListSA", job[w], reg[w])
    BY <1>d, <2>1 DEF CallOK, BeforeRefs, WithRef, WithTarget, InCall, EnsureCalls, DeleteCalls, EnsureDone, DeleteDone
  <2>3. Moved
    BY <1>a, <1>b, <2>1, <2>2, ReplyMoves DEF Labels, DeleteCalls
  <2> QED BY <1>13, <1>a, <2>3 DEF DeleteFederatedIdentity
<1>14. CASE DeleteListSA(w)
  <2>1. pc[w] = "dListSA" /\ pc[w] \in InCall /\ pc[w] # "idle" /\ UNCHANGED cloud
    BY <1>14 DEF DeleteListSA, InCall, DeleteCalls
  <2>2. job[w].op = "delete" /\ reg[w].kind = "start" /\ \A k \in Kinds : reg[w].got[k] = None
    BY <1>d, <2>1 DEF CallOK, DeleteCalls, BeforeRefs
  <2>3. CASE Go(w, "ok", reg[w])
    <3>1. CallOK(w, "ok", job[w], reg[w])
      BY <1>d, <2>1, <2>2 DEF CallOK, BeforeRefs, WithRef, WithTarget, InCall, EnsureCalls, DeleteCalls, EnsureDone, DeleteDone
    <3> QED BY <1>a, <1>b, <2>1, <2>3, <3>1, GoMoves DEF cloud, Labels, Returned
  <2>4. ASSUME NEW s \in findByLabelsSA(Key(w)), GoAfterRef(w, [reg[w] EXCEPT !.said = s.id])
        PROVE  Moved
    <3> DEFINE r == [reg[w] EXCEPT !.said = s.id]
    <3>1. r \in RegType /\ r.idp = reg[w].idp /\ r.kind = reg[w].kind /\ r.got = reg[w].got
      BY <1>a DEF RegType, findByLabelsSA
    <3>2. GoAfterRef(w, r)
      BY <2>4
    <3> HIDE DEF r
    <3> QED BY <1>b, <1>d, <2>1, <2>2, <3>1, <3>2, AfterRefMoves DEF Kinds
  <2> QED BY <1>14, <1>a, <2>1, <2>3, <2>4 DEF DeleteListSA, cloud
<1>15. CASE DeleteResolve(w)
  <2> DEFINE k == reg[w].kind
             t == Resolve(k, job[w].ref[k])
             r == [reg[w] EXCEPT !.got[k] = t]
  <2>1. pc[w] = "dResolve" /\ pc[w] \in InCall /\ pc[w] # "idle" /\ UNCHANGED cloud
    BY <1>15 DEF DeleteResolve, InCall, DeleteCalls
  <2>2. k \in Kinds /\ job[w].op = "delete" /\ (k = "policy" => reg[w].got["role"] = None)
    BY <1>d, <2>1 DEF CallOK, WithRef, DeleteCalls
  <2>3. GoAfterRef(w, reg[w]) \/ (t # None /\ Go(w, "dListGrant", r))
    BY <1>15 DEF DeleteResolve
  <2>4. ASSUME t # None, Go(w, "dListGrant", r) PROVE Moved
    <3>1. t \in Targets
      BY <2>4, ResolveType DEF Typed
    <3> HIDE DEF t
    <3>2. r \in RegType /\ r.idp = reg[w].idp /\ r.kind = k /\ r.got = [reg[w].got EXCEPT ![k] = t]
      BY <1>d, <2>1, <2>2, <3>1 DEF RegType
    <3>3. r.got[k] = t /\ \A m \in Kinds : m # k => r.got[m] = reg[w].got[m]
      BY <1>d, <2>1, <2>2, <3>2 DEF RegType
    <3>4. CallOK(w, "dListGrant", job[w], r)
      <4> HIDE DEF r
      <4> QED BY <1>d, <2>1, <2>2, <2>4, <3>1, <3>2, <3>3 DEF CallOK, Kinds, BeforeRefs, WithRef, WithTarget, InCall, EnsureCalls, DeleteCalls, EnsureDone, DeleteDone
    <3> QED BY <1>b, <2>4, <3>2, <3>4, GoMoves DEF Labels, DeleteCalls
  <2>5. CASE GoAfterRef(w, reg[w])
    BY <1>a, <1>b, <1>d, <2>1, <2>2, <2>5, AfterRefMoves DEF cloud, Kinds
  <2> QED BY <1>a, <2>1, <2>3, <2>4, <2>5 DEF cloud
<1>16. CASE DeleteListBindings(w)
  <2> DEFINE owned == ManagedBindingsForSA(reg[w].got[reg[w].kind], reg[w].said)
             r == [reg[w] EXCEPT !.todo = {g.id : g \in owned}]
  <2>1. pc[w] = "dListGrant" /\ pc[w] \in InCall /\ pc[w] # "idle" /\ UNCHANGED cloud
    BY <1>16 DEF DeleteListBindings, InCall, DeleteCalls
  <2>2. /\ reg[w].kind \in Kinds /\ job[w].op = "delete"
        /\ reg[w].kind = "policy" => reg[w].got["role"] = None
    BY <1>d, <2>1 DEF CallOK, WithRef, DeleteCalls
  <2>3. CASE GoAfterRef(w, reg[w])
    BY <1>a, <1>b, <1>d, <2>1, <2>2, <2>3, AfterRefMoves DEF cloud, Kinds
  <2>4. CASE Go(w, "dDeleteGrant", r)
    <3>1. {g.id : g \in owned} \subseteq Nat
      BY <1>a DEF ManagedBindingsForSA, BindingsForSA
    <3> HIDE DEF owned
    <3>2. r \in RegType /\ r.idp = reg[w].idp /\ r.kind = reg[w].kind /\ r.got = reg[w].got
      BY <1>a, <3>1 DEF RegType
    <3>3. CallOK(w, "dDeleteGrant", job[w], r)
      <4> HIDE DEF r
      <4> QED BY <1>d, <2>1, <2>2, <3>2 DEF CallOK, Kinds, BeforeRefs, WithRef, WithTarget, InCall, EnsureCalls, DeleteCalls, EnsureDone, DeleteDone
    <3> QED BY <1>a, <1>b, <2>1, <2>4, <3>2, <3>3, GoMoves DEF cloud, Labels, DeleteCalls
  <2> QED BY <1>16, <2>3, <2>4 DEF DeleteListBindings
<1>17. CASE DeleteBinding(w)
  <2>1. pc[w] = "dDeleteGrant" /\ pc[w] \in InCall /\ pc[w] # "idle"
    BY <1>17 DEF DeleteBinding, InCall, DeleteCalls
  <2>2. PICK i \in reg[w].todo :
          LET r == [reg[w] EXCEPT !.todo = @ \ {i}] IN
          /\ grants' = {g \in grants : g.id # i}
          /\ IF r.todo = {} THEN ReplyAfterRef(w, r) ELSE Reply(w, "dDeleteGrant", r)
    BY <1>17 DEF DeleteBinding
  <2> DEFINE r == [reg[w] EXCEPT !.todo = @ \ {i}]
  <2>3. ReplyAfterRef(w, r) \/ Reply(w, "dDeleteGrant", r)
    BY <2>2
  <2>4. r \in RegType /\ r.idp = reg[w].idp /\ r.kind = reg[w].kind /\ r.got = reg[w].got
    BY <1>a DEF RegType
  <2>5. /\ reg[w].kind \in Kinds /\ job[w].op = "delete"
        /\ reg[w].kind = "policy" => reg[w].got["role"] = None
    BY <1>d, <2>1 DEF CallOK, WithRef, DeleteCalls
  <2> HIDE DEF r
  <2>6. CallOK(w, "dDeleteGrant", job[w], r)
    BY <1>d, <2>1, <2>4, <2>5 DEF CallOK, BeforeRefs, WithRef, WithTarget, InCall, EnsureCalls, DeleteCalls, EnsureDone, DeleteDone
  <2>7. CASE ReplyAfterRef(w, r)
    BY <1>17, <1>a, <1>b, <1>d, <2>1, <2>2, <2>4, <2>5, <2>7, AfterRefMoves DEF Kinds, DeleteBinding
  <2>8. CASE Reply(w, "dDeleteGrant", r)
    BY <1>17, <1>a, <1>b, <2>1, <2>2, <2>4, <2>6, <2>8, ReplyMoves
    DEF Labels, DeleteCalls, DeleteBinding
  <2> QED BY <2>3, <2>7, <2>8
<1>18. CASE DeleteServiceAccount(w)
  <2>1. pc[w] = "dDeleteSA" /\ pc[w] \in InCall /\ pc[w] # "idle" /\ Reply(w, "ok", reg[w])
    BY <1>18 DEF DeleteServiceAccount, InCall, DeleteCalls
  <2>2. CallOK(w, "ok", job[w], reg[w])
    BY <1>d, <2>1 DEF CallOK, BeforeRefs, WithRef, WithTarget, InCall, EnsureCalls, DeleteCalls, EnsureDone, DeleteDone
  <2>3. Moved
    BY <1>a, <1>b, <2>1, <2>2, ReplyMoves DEF Labels, Returned
  <2> QED BY <1>18, <1>a, <2>3 DEF DeleteServiceAccount
<1> QED
  BY <1>1, <1>2, <1>3, <1>4, <1>5, <1>6, <1>7, <1>8, <1>9, <1>10, <1>11, <1>12, <1>13, <1>14,
     <1>15, <1>16, <1>17, <1>18 DEF Step

\* A call begins, its result is taken, the process dies, or the world changes.
LEMMA OtherTyped ==
  ASSUME Typed,
         \/ \E w \in Workers : (\E j \in JobsOf[w] : Begin(w, j)) \/ Collect(w)
         \/ Crash \/ ChangeIdPs \/ Stabilise
         \/ \E n \in Names, t \in Targets \cup {None} : Rename(n, t)
         \/ \E t \in Targets, s \in sas : AdminGrant(t, s)
         \/ UNCHANGED vars
  PROVE  Typed'
<1>1. ASSUME NEW w \in Workers, NEW j \in JobsOf[w], Begin(w, j) PROVE Typed'
  <2>1. j \in JobType
    BY ConstantsAssumption
  <2>2. PICK l \in {"provider", "failed"} : Go(w, l, NoReg)
    BY <1>1 DEF Begin
  <2>3. CallOK(w, l, j, NoReg)
    BY DEF CallOK, NoReg, Kinds, BeforeRefs, WithRef, WithTarget, InCall, EnsureCalls, DeleteCalls, EnsureDone, DeleteDone
  <2>4. TypeOK'
    BY <1>1, <2>1, <2>2, NoRegType DEF Begin, Go, Typed, TypeOK, cloud, world, Labels, Returned
  <2>5. CallsOK'
    BY <1>1, <2>2, <2>3 DEF Begin, Go, Typed, TypeOK, CallsOK
  <2> QED BY <2>4, <2>5 DEF Typed
<1>2. ASSUME NEW w \in Workers, Collect(w) PROVE Typed'
  <2>1. CallOK(w, "idle", NoJob, NoReg)
    BY DEF CallOK, NoReg, Kinds, BeforeRefs, WithRef, WithTarget, InCall, EnsureCalls, DeleteCalls, EnsureDone, DeleteDone
  <2>2. TypeOK'
    BY <1>2, NoRegType DEF Collect, Go, Typed, TypeOK, cloud, world, Labels
  <2>3. CallsOK'
    BY <1>2, <2>1 DEF Collect, Go, Typed, TypeOK, CallsOK
  <2> QED BY <2>2, <2>3 DEF Typed
<1>3. CASE Crash
  <2>1. \A w : CallOK(w, "idle", NoJob, NoReg)
    BY DEF CallOK, NoReg, Kinds, BeforeRefs, WithRef, WithTarget, InCall, EnsureCalls, DeleteCalls, EnsureDone, DeleteDone
  <2>2. TypeOK' /\ CallsOK'
    <3>1. TypeOK'
      BY <1>3, NoRegType DEF Crash, Typed, TypeOK, cloud, world, Labels
    <3>2. CallsOK'
      BY <1>3, <2>1 DEF Crash, CallsOK
    <3> QED BY <3>1, <3>2
  <2> QED BY <2>2 DEF Typed
<1>4. ASSUME UNCHANGED local, TypeOK' PROVE Typed'
  BY <1>4 DEF Typed, CallsOK, local
<1>5. CASE ChangeIdPs \/ Stabilise \/ UNCHANGED vars
  BY <1>4, <1>5 DEF ChangeIdPs, Stabilise, vars, cloud, local, Typed, TypeOK
<1>6. ASSUME NEW n \in Names, NEW t \in Targets \cup {None}, Rename(n, t) PROVE Typed'
  BY <1>4, <1>6 DEF Rename, cloud, local, Typed, TypeOK
<1>7. ASSUME NEW t \in Targets, NEW s \in sas, AdminGrant(t, s) PROVE Typed'
  <2>1. s.id \in Nat /\ nextId \in Nat /\ nextId # 0
    BY DEF Typed, TypeOK, NoId
  <2> DEFINE g == [id |-> nextId, target |-> t, sa |-> s.id, managed |-> FALSE]
  <2>2. g \in [id : Nat, target : Targets, sa : Nat, managed : BOOLEAN]
    BY <2>1, Zenon
  <2>3. grants' = grants \cup {g} /\ nextId' = nextId + 1 /\ UNCHANGED <<sas, fis, world, local>>
    BY <1>7 DEF AdminGrant
  <2> HIDE DEF g
  <2> QED BY <1>4, <2>1, <2>2, <2>3 DEF world, local, Typed, TypeOK, NoId
<1> QED BY <1>1, <1>2, <1>3, <1>5, <1>6, <1>7

LEMMA InitTyped == Init => Typed
<1>1. \A w : CallOK(w, "idle", NoJob, NoReg)
  BY DEF CallOK, NoReg, Kinds, BeforeRefs, WithRef, WithTarget, InCall, EnsureCalls, DeleteCalls, EnsureDone, DeleteDone
<1>2. ASSUME Init PROVE TypeOK
  <2>1. calm \in BOOLEAN
    BY <1>2 DEF Init
  <2>2. pc \in [Workers -> Labels] /\ job \in [Workers -> JobType \cup {NoJob}]
    BY <1>2 DEF Init, Labels
  <2>3. reg \in [Workers -> RegType]
    BY <1>2, NoRegType DEF Init
  <2> QED BY <1>2, <2>1, <2>2, <2>3 DEF Init, TypeOK, NoId
<1>3. ASSUME Init PROVE CallsOK
  BY <1>1, <1>3 DEF Init, CallsOK
<1> QED BY <1>2, <1>3 DEF Typed

\* The state keeps its type: no call, however it is interleaved with others or
\* cut short, puts a value of another kind in the cloud or uses a local
\* variable (provider, account, target) before it has been given a value.
THEOREM TypeCorrect == Spec => []TypeOK
<1>1. Typed /\ [Next]_vars => Typed'
  BY StepTyped, OtherTyped DEF Next
<1>2. Typed => TypeOK
  BY DEF Typed
<1> QED BY InitTyped, <1>1, <1>2, PTL DEF Spec

-----------------------------------------------------------------------------
(* Safety: what a worker relies on about the cloud stays true while the    *)
(* others work, when no two work for the same Kubernetes ServiceAccount.   *)

\* With nothing in its local variables a worker relies on nothing.
LEMMA KnowsNothing ==
  ASSUME NEW l \in {"idle", "provider", "ok", "notReady", "failed"}, NEW j,
         l = "ok" => j.op = "delete", NEW S, NEW F, NEW G
  PROVE  Knows(l, j, NoReg, S, F, G)
  BY DEF Knows, NoReg, WithRef, EnsureCalls, DeleteCalls, EnsureDone, DeleteDone

\* Going on to the next reference when everything up to r.kind is dealt with.
LEMMA AfterRefKnows ==
  ASSUME NEW j \in JobType, NEW r \in RegType, NEW S, NEW F, NEW G,
         \E s \in S : s.id = r.said /\ s.key = <<j.sa, IssuerOf[r.idp]>>,
         j.op = "ensure" => \E f \in F : /\ f.id = r.fid /\ f.key = <<j.sa, IssuerOf[r.idp]>>
                                         /\ f.sa = r.said /\ f.attrs = j.attrs,
         j.op = "delete" => \A f \in F : f.key # <<j.sa, IssuerOf[r.idp]>>,
         j.op = "ensure" => \A m \in Kinds : r.got[m] # None =>
           \E g \in G : g.target = r.got[m] /\ g.sa = r.said,
         j.op = "delete" => \A m \in Kinds : r.got[m] # None =>
           \A g \in G : g.managed => ~(g.target = r.got[m] /\ g.sa = r.said)
  PROVE  LET k == NextKind(j, r.kind) IN
         Knows(LabelFor(j, k), j, [r EXCEPT !.kind = k], S, F, G)
<1> DEFINE k == NextKind(j, r.kind)
           l == LabelFor(j, k)
           r1 == [r EXCEPT !.kind = k]
<1>1. /\ r1.said = r.said /\ r1.fid = r.fid /\ r1.got = r.got /\ r1.idp = r.idp /\ r1.kind = k
  BY NextKindType DEF RegType
<1>2. j.op \in {"ensure", "delete"}
  BY DEF JobType
<1>3. /\ j.op = "ensure" => l \in {"ok", "resolve"}
      /\ j.op = "delete" => l \in {"dDeleteSA", "dResolve"}
  BY DEF LabelFor
<1> SUFFICES Knows(l, j, r1, S, F, G)
  OBVIOUS
<1> HIDE DEF k, l, r1
<1>4. CASE j.op = "ensure"
  BY <1>1, <1>3, <1>4 DEF Knows, WithRef, EnsureCalls, DeleteCalls, EnsureDone, DeleteDone
<1>5. CASE j.op = "delete"
  BY <1>1, <1>3, <1>5 DEF Knows, WithRef, EnsureCalls, DeleteCalls, EnsureDone, DeleteDone
<1> QED BY <1>2, <1>4, <1>5

\* Workers on different Kubernetes ServiceAccounts have different keys.
LEMMA KeysDiffer ==
  ASSUME Exclusive, Typed, NEW v \in Workers, NEW w \in Workers, v # w,
         pc[v] # "idle", pc[w] # "idle"
  PROVE  job[v].sa # job[w].sa /\ Key(v) # Key(w)
  BY JobTyped DEF Exclusive, Key

\* One worker moves without touching the cloud.
LEMMA GoSafe ==
  ASSUME Typed, Safe, NEW w \in Workers, NEW l, NEW r, Go(w, l, r), job' = job,
         UNCHANGED cloud, Knows(l, job[w], r, sas, fis, grants),
         r.said < nextId, \A i \in r.todo : i < nextId
  PROVE  Safe'
<1>1. UNCHANGED <<sas, fis, grants, nextId>>
  BY DEF cloud
<1>2. \A v \in Workers : /\ v = w => pc'[v] = l /\ reg'[v] = r
                         /\ v # w => pc'[v] = pc[v] /\ reg'[v] = reg[v]
  BY DEF Go, Typed, TypeOK
<1>3. FreshIds'
  BY <1>1, <1>2 DEF Safe, FreshIds
<1>4. Known'
  BY <1>1, <1>2 DEF Safe, Known
<1> QED
  BY <1>1, <1>3, <1>4 DEF Safe, UniqueIds, UniqueIdentity, UniqueGrant, FederatedIdentityBacked

LEMMA FailSafe ==
  ASSUME Typed, Safe, NEW w \in Workers, Fail(w), job' = job, UNCHANGED cloud
  PROVE  Safe'
<1>1. NoReg.said < nextId /\ \A i \in NoReg.todo : i < nextId
  BY DEF NoReg, NoId, Typed, TypeOK
<1>2. Knows("failed", job[w], NoReg, sas, fis, grants)
  BY KnowsNothing
<1> QED BY <1>1, <1>2, GoSafe DEF Fail

\* One worker moves after a write: the others must still be right about the cloud.
LEMMA ReplyKnown ==
  ASSUME Typed, Safe, NEW w \in Workers, NEW l, NEW r, Reply(w, l, r), job' = job,
         Knows(l, job[w], r, sas', fis', grants'),
         \A v \in Workers : v # w => Knows(pc[v], job[v], reg[v], sas', fis', grants'),
         nextId' \in Nat, nextId <= nextId',
         r.said < nextId', \A i \in r.todo : i < nextId'
  PROVE  /\ Known'
         /\ \A v \in Workers : reg'[v].said < nextId' /\ \A i \in reg'[v].todo : i < nextId'
<1>1. /\ NoReg.said < nextId' /\ \A i \in NoReg.todo : i < nextId'
      /\ Knows("failed", job[w], NoReg, sas', fis', grants')
  <2>1. Knows("failed", job[w], NoReg, sas', fis', grants')
    BY KnowsNothing
  <2>2. nextId \in Nat /\ nextId # 0
    BY DEF Typed, TypeOK, NoId
  <2>3. NoReg.said = 0 /\ NoReg.todo = {}
    BY DEF NoReg, NoId
  <2> QED BY <2>1, <2>2, <2>3
<1>2. PICK l1, r1 : /\ Go(w, l1, r1) /\ Knows(l1, job[w], r1, sas', fis', grants')
                    /\ r1.said < nextId' /\ \A i \in r1.todo : i < nextId'
  BY <1>1 DEF Reply, Fail
<1>3. \A v \in Workers : /\ v = w => pc'[v] = l1 /\ reg'[v] = r1
                         /\ v # w => pc'[v] = pc[v] /\ reg'[v] = reg[v]
  BY <1>2 DEF Go, Typed, TypeOK
<1>4. Known'
  BY <1>2, <1>3 DEF Known
<1>5. ASSUME NEW v \in Workers, v # w
      PROVE  reg[v].said < nextId' /\ \A i \in reg[v].todo : i < nextId'
  <2>1. reg[v].said \in Nat /\ reg[v].todo \subseteq Nat /\ nextId \in Nat
    BY DEF Typed, TypeOK, RegType
  <2>2. reg[v].said < nextId /\ \A i \in reg[v].todo : i < nextId
    BY DEF Safe, FreshIds
  <2> QED BY <2>1, <2>2
<1> QED BY <1>2, <1>3, <1>4, <1>5

LEMMA CreateServiceAccountSafe ==
  ASSUME Exclusive, Typed, Safe, NEW w \in Workers, CreateServiceAccount(w)
  PROVE  Safe'
<1> DEFINE new == [id |-> nextId, key |-> Key(w)]
           r == [reg[w] EXCEPT !.said = nextId]
<1>1. /\ pc[w] = "createSA" /\ pc[w] \in InCall /\ sas' = sas \cup {new} /\ nextId' = nextId + 1
      /\ Reply(w, "listFI", r) /\ UNCHANGED <<fis, grants, job>>
  BY DEF CreateServiceAccount, At, InCall, EnsureCalls
<1>2. /\ reg[w] \in RegType /\ CallOK(w, pc[w], job[w], reg[w])
      /\ pc[w] # "idle" /\ nextId \in Nat
      /\ \A s \in sas : s.id \in Nat /\ s.id < nextId /\ s.key # Key(w)
  <2>1. \A s \in sas : s.key # Key(w)
    BY <1>1 DEF Safe, Known, Knows, Key
  <2> QED BY <1>1, <2>1, InCallFacts DEF Typed, TypeOK, Safe, FreshIds
<1>3. /\ r.said = nextId /\ r.todo = reg[w].todo /\ r.kind = "start" /\ r.idp = reg[w].idp
      /\ \A k \in Kinds : r.got[k] = None
  BY <1>1, <1>2 DEF RegType, CallOK, BeforeRefs
<1>4. Knows("listFI", job[w], r, sas', fis', grants')
  <2>1. new \in sas' /\ new.id = r.said /\ new.key = <<job[w].sa, IssuerOf[r.idp]>>
    BY <1>1, <1>3 DEF Key
  <2> HIDE DEF r, new
  <2> QED BY <1>3, <2>1 DEF Knows, WithRef, EnsureCalls, DeleteCalls, EnsureDone, DeleteDone
<1>5. ASSUME NEW v \in Workers, v # w
      PROVE  Knows(pc[v], job[v], reg[v], sas', fis', grants')
  <2>1. Knows(pc[v], job[v], reg[v], sas, fis, grants) /\ reg[v].said < nextId
        /\ reg[v].said \in Nat
    BY DEF Safe, Known, FreshIds, Typed, TypeOK, RegType
  <2>2. pc[v] # "idle" => new.key # <<job[v].sa, IssuerOf[reg[v].idp]>>
    BY <1>2, <1>5, KeysDiffer DEF Key
  <2>3. new.id # reg[v].said
    BY <1>2, <2>1
  <2> HIDE DEF new
  <2> QED BY <1>1, <2>1, <2>2, <2>3 DEF Knows, WithRef, EnsureCalls, DeleteCalls, EnsureDone, DeleteDone
<1>6. r.said < nextId' /\ (\A i \in r.todo : i < nextId') /\ nextId' \in Nat /\ nextId <= nextId'
  <2>1. reg[w].todo \subseteq Nat /\ \A i \in reg[w].todo : i < nextId
    BY <1>2 DEF RegType, Safe, FreshIds
  <2> QED BY <1>1, <1>2, <1>3, <2>1
<1>7. Known' /\ \A v \in Workers : reg'[v].said < nextId' /\ \A i \in reg'[v].todo : i < nextId'
  <2> HIDE DEF r
  <2> QED BY <1>1, <1>4, <1>5, <1>6, ReplyKnown
<1>8. FreshIds'
  <2>1. /\ \A s \in sas' : s.id < nextId' /\ \A f \in fis' : f.id < nextId'
        /\ \A g \in grants' : g.id < nextId' /\ g.sa < nextId'
    BY <1>1, <1>2 DEF Safe, FreshIds, Typed, TypeOK
  <2> QED BY <1>1, <1>2, <1>7, <2>1 DEF FreshIds, Safe, Typed, TypeOK
<1>9. UniqueIds' /\ UniqueIdentity' /\ UniqueGrant'
  BY <1>1, <1>2 DEF Safe, UniqueIds, UniqueIdentity, UniqueGrant
<1>10. FederatedIdentityBacked'
  BY <1>1 DEF Safe, FederatedIdentityBacked
<1> QED BY <1>7, <1>8, <1>9, <1>10 DEF Safe

\* The same for a write that goes on to the next reference, or to the end.
LEMMA AfterRefReplyKnown ==
  ASSUME Typed, Safe, NEW w \in Workers, pc[w] # "idle", NEW r \in RegType,
         ReplyAfterRef(w, r), job' = job,
         \E s \in sas' : s.id = r.said /\ s.key = <<job[w].sa, IssuerOf[r.idp]>>,
         job[w].op = "ensure" =>
           \E f \in fis' : /\ f.id = r.fid /\ f.key = <<job[w].sa, IssuerOf[r.idp]>>
                           /\ f.sa = r.said /\ f.attrs = job[w].attrs,
         job[w].op = "delete" => \A f \in fis' : f.key # <<job[w].sa, IssuerOf[r.idp]>>,
         job[w].op = "ensure" => \A m \in Kinds : r.got[m] # None =>
           \E g \in grants' : g.target = r.got[m] /\ g.sa = r.said,
         job[w].op = "delete" => \A m \in Kinds : r.got[m] # None =>
           \A g \in grants' : g.managed => ~(g.target = r.got[m] /\ g.sa = r.said),
         \A v \in Workers : v # w => Knows(pc[v], job[v], reg[v], sas', fis', grants'),
         nextId' \in Nat, nextId <= nextId',
         r.said < nextId', \A i \in r.todo : i < nextId'
  PROVE  /\ Known'
         /\ \A v \in Workers : reg'[v].said < nextId' /\ \A i \in reg'[v].todo : i < nextId'
<1> DEFINE k == NextKind(job[w], r.kind)
           l == LabelFor(job[w], k)
           r1 == [r EXCEPT !.kind = k]
<1>1. Reply(w, l, r1)
  BY DEF GoAfterRef, ReplyAfterRef
<1>2. job[w] \in JobType
  BY JobTyped
<1>3. Knows(l, job[w], r1, sas', fis', grants')
  BY <1>2, AfterRefKnows
<1>4. r1.said = r.said /\ r1.todo = r.todo
  BY DEF RegType
<1> HIDE DEF k, l, r1
<1> QED BY <1>1, <1>3, <1>4, ReplyKnown

\* What a worker in the middle of a call has and relies on, in one place.
LEMMA WorkerFacts ==
  ASSUME Typed, Safe, NEW w \in Workers, pc[w] \in InCall
  PROVE  /\ CallOK(w, pc[w], job[w], reg[w]) /\ reg[w] \in RegType /\ pc[w] # "idle"
         /\ Key(w) = <<job[w].sa, IssuerOf[reg[w].idp]>>
         /\ Knows(pc[w], job[w], reg[w], sas, fis, grants)
         /\ nextId \in Nat /\ reg[w].said \in Nat /\ reg[w].said < nextId
         /\ \A i \in reg[w].todo : i \in Nat /\ i < nextId
         /\ \A s \in sas : s.id \in Nat /\ s.id < nextId
         /\ \A f \in fis : f.id \in Nat /\ f.id < nextId
         /\ \A g \in grants : g.id \in Nat /\ g.id < nextId /\ g.sa \in Nat /\ g.sa < nextId
<1>1. /\ CallOK(w, pc[w], job[w], reg[w]) /\ reg[w] \in RegType /\ pc[w] # "idle"
      /\ Key(w) = <<job[w].sa, IssuerOf[reg[w].idp]>>
  BY InCallFacts DEF Key
<1>2. Knows(pc[w], job[w], reg[w], sas, fis, grants)
  BY DEF Safe, Known
<1>3. /\ nextId \in Nat /\ reg[w].said \in Nat /\ reg[w].said < nextId
      /\ \A i \in reg[w].todo : i \in Nat /\ i < nextId
  BY <1>1 DEF Safe, FreshIds, Typed, TypeOK, RegType
<1>4. /\ \A s \in sas : s.id \in Nat /\ s.id < nextId
      /\ \A f \in fis : f.id \in Nat /\ f.id < nextId
      /\ \A g \in grants : g.id \in Nat /\ g.id < nextId /\ g.sa \in Nat /\ g.sa < nextId
  BY DEF Safe, FreshIds, Typed, TypeOK
<1> QED BY <1>1, <1>2, <1>3, <1>4

LEMMA CreateFederatedIdentitySafe ==
  ASSUME Exclusive, Typed, Safe, NEW w \in Workers, CreateFederatedIdentity(w)
  PROVE  Safe'
<1> DEFINE new == [id |-> nextId, key |-> Key(w), sa |-> reg[w].said,
                   prov |-> reg[w].idp, attrs |-> job[w].attrs]
           r == [reg[w] EXCEPT !.fid = nextId]
<1>1. /\ pc[w] = "createFI" /\ pc[w] \in InCall /\ fis' = fis \cup {new} /\ nextId' = nextId + 1
      /\ ReplyAfterRef(w, r) /\ UNCHANGED <<sas, grants, job>>
  BY DEF CreateFederatedIdentity, At, InCall, EnsureCalls
<1>2. /\ pc[w] # "idle" /\ job[w].op = "ensure"
      /\ \A f \in fis : f.key # Key(w)
      /\ \E s \in sas : s.id = reg[w].said /\ s.key = Key(w)
  <2>1. /\ CallOK(w, "createFI", job[w], reg[w]) /\ pc[w] # "idle"
        /\ Knows("createFI", job[w], reg[w], sas, fis, grants)
        /\ Key(w) = <<job[w].sa, IssuerOf[reg[w].idp]>>
    BY <1>1, WorkerFacts
  <2>2. job[w].op = "ensure"
    BY <2>1 DEF CallOK, EnsureCalls
  <2> QED BY <2>1, <2>2 DEF Knows
<1>3. /\ r \in RegType /\ r.fid = nextId /\ r.said = reg[w].said /\ r.todo = reg[w].todo
      /\ r.idp = reg[w].idp /\ \A k \in Kinds : r.got[k] = None
  BY <1>1, WorkerFacts DEF RegType, CallOK, BeforeRefs
<1>4. /\ new \in fis' /\ new.id = nextId /\ new.key = <<job[w].sa, IssuerOf[r.idp]>>
      /\ new.key = Key(w) /\ new.sa = r.said /\ new.attrs = job[w].attrs
  BY <1>1, <1>3 DEF Key
<1> HIDE DEF r, new
<1>5. ASSUME NEW v \in Workers, v # w
      PROVE  Knows(pc[v], job[v], reg[v], sas', fis', grants')
  <2>1. Knows(pc[v], job[v], reg[v], sas, fis, grants)
    BY DEF Safe, Known
  <2>2. pc[v] # "idle" => new.key # <<job[v].sa, IssuerOf[reg[v].idp]>>
    BY <1>2, <1>4, <1>5, KeysDiffer DEF Key
  <2> QED BY <1>1, <2>1, <2>2 DEF Knows, WithRef, EnsureCalls, DeleteCalls, EnsureDone, DeleteDone
<1>6. Known' /\ \A v \in Workers : reg'[v].said < nextId' /\ \A i \in reg'[v].todo : i < nextId'
  <2>1. /\ nextId' \in Nat /\ nextId <= nextId' /\ r.said < nextId'
        /\ \A i \in r.todo : i < nextId'
    BY <1>1, <1>3, WorkerFacts
  <2>2. \E s \in sas' : s.id = r.said /\ s.key = <<job[w].sa, IssuerOf[r.idp]>>
    BY <1>1, <1>2, <1>3 DEF Key
  <2> QED BY <1>1, <1>2, <1>3, <1>4, <1>5, <2>1, <2>2, AfterRefReplyKnown
<1>7. FreshIds'
  BY <1>1, <1>4, <1>6, WorkerFacts DEF FreshIds
<1>8. UniqueIds' /\ UniqueIdentity' /\ UniqueGrant'
  BY <1>1, <1>2, <1>4, WorkerFacts DEF Safe, UniqueIds, UniqueIdentity, UniqueGrant
<1>9. FederatedIdentityBacked'
  BY <1>1, <1>2, <1>3, <1>4 DEF Safe, FederatedIdentityBacked
<1> QED BY <1>6, <1>7, <1>8, <1>9 DEF Safe

LEMMA UpdateFederatedIdentitySafe ==
  ASSUME Exclusive, Typed, Safe, NEW w \in Workers, UpdateFederatedIdentity(w)
  PROVE  Safe'
<1>1. /\ pc[w] = "updateFI" /\ pc[w] \in InCall /\ pc[w] # "idle"
      /\ UNCHANGED <<sas, grants, nextId, job>>
  BY DEF UpdateFederatedIdentity, At, InCall, EnsureCalls
<1>2. CASE Fail(w) /\ UNCHANGED fis
  BY <1>1, <1>2, FailSafe DEF cloud
<1>3. ASSUME NEW f \in fis, f.id = reg[w].fid, ReplyAfterRef(w, reg[w]),
             fis' = (fis \ {f}) \cup {[f EXCEPT !.attrs = job[w].attrs]}
      PROVE  Safe'
  <2> DEFINE new == [f EXCEPT !.attrs = job[w].attrs]
  <2>1. /\ job[w].op = "ensure" /\ reg[w] \in RegType
        /\ \A k \in Kinds : reg[w].got[k] = None
        /\ \E s \in sas : s.id = reg[w].said /\ s.key = Key(w)
        /\ f.key = Key(w)
    <3>1. \E h \in fis : h.id = reg[w].fid /\ h.key = Key(w)
      BY <1>1, WorkerFacts DEF Knows
    <3>2. f.key = Key(w)
      BY <1>3, <3>1 DEF Safe, UniqueIds
    <3> QED BY <1>1, <3>2, WorkerFacts DEF CallOK, EnsureCalls, BeforeRefs, Knows
  <2>2. f.sa = reg[w].said
    BY <2>1 DEF Safe, FederatedIdentityBacked, UniqueIdentity
  <2>3. new.id = f.id /\ new.key = f.key /\ new.sa = f.sa /\ new.attrs = job[w].attrs
    BY DEF Typed, TypeOK
  <2>4. fis' = (fis \ {f}) \cup {new}
    BY <1>3
  <2> HIDE DEF new
  <2>5. ASSUME NEW v \in Workers, v # w
        PROVE  Knows(pc[v], job[v], reg[v], sas', fis', grants')
    <3>1. Knows(pc[v], job[v], reg[v], sas, fis, grants)
      BY DEF Safe, Known
    <3>2. pc[v] # "idle" => f.key # <<job[v].sa, IssuerOf[reg[v].idp]>>
      BY <1>1, <2>1, <2>5, KeysDiffer DEF Key
    <3> QED BY <1>1, <2>3, <2>4, <3>1, <3>2 DEF Knows, WithRef, EnsureCalls, DeleteCalls, EnsureDone, DeleteDone
  <2>6. Known' /\ \A v \in Workers : reg'[v].said < nextId' /\ \A i \in reg'[v].todo : i < nextId'
    <3>1. /\ nextId' \in Nat /\ nextId <= nextId' /\ reg[w].said < nextId'
          /\ \A i \in reg[w].todo : i < nextId'
      BY <1>1, WorkerFacts
    <3>2. /\ \E s \in sas' : s.id = reg[w].said /\ s.key = <<job[w].sa, IssuerOf[reg[w].idp]>>
          /\ \E h \in fis' : /\ h.id = reg[w].fid /\ h.key = <<job[w].sa, IssuerOf[reg[w].idp]>>
                             /\ h.sa = reg[w].said /\ h.attrs = job[w].attrs
      BY <1>1, <1>3, <2>1, <2>2, <2>3, <2>4 DEF Key
    <3> QED BY <1>1, <1>3, <2>1, <2>5, <3>1, <3>2, AfterRefReplyKnown
  <2>7. FreshIds'
    BY <1>1, <2>3, <2>4, <2>6, WorkerFacts DEF FreshIds
  <2>8. UniqueIds' /\ UniqueIdentity' /\ UniqueGrant' /\ FederatedIdentityBacked'
    BY <1>1, <2>3, <2>4
    DEF Safe, UniqueIds, UniqueIdentity, UniqueGrant, FederatedIdentityBacked
  <2> QED BY <2>6, <2>7, <2>8 DEF Safe
<1> QED BY <1>2, <1>3 DEF UpdateFederatedIdentity

LEMMA CreateBindingSafe ==
  ASSUME Exclusive, Typed, Safe, NEW w \in Workers, CreateBinding(w)
  PROVE  Safe'
<1> DEFINE new == [id |-> nextId, target |-> reg[w].got[reg[w].kind],
                   sa |-> reg[w].said, managed |-> TRUE]
<1>1. /\ pc[w] = "createGrant" /\ pc[w] \in InCall /\ grants' = grants \cup {new}
      /\ nextId' = nextId + 1
      /\ ReplyAfterRef(w, reg[w]) /\ UNCHANGED <<sas, fis, job>>
  BY DEF CreateBinding, At, InCall, EnsureCalls
<1>2. /\ pc[w] # "idle" /\ job[w].op = "ensure" /\ reg[w] \in RegType /\ reg[w].kind \in Kinds
      /\ \E s \in sas : s.id = reg[w].said /\ s.key = Key(w)
      /\ \E f \in fis : /\ f.id = reg[w].fid /\ f.key = Key(w)
                        /\ f.sa = reg[w].said /\ f.attrs = job[w].attrs
      /\ \A g \in grants : g.managed => ~(g.target = reg[w].got[reg[w].kind] /\ g.sa = reg[w].said)
      /\ \A k \in Kinds : k # reg[w].kind /\ reg[w].got[k] # None =>
           \E g \in grants : g.target = reg[w].got[k] /\ g.sa = reg[w].said
  <2>1. /\ CallOK(w, "createGrant", job[w], reg[w]) /\ pc[w] # "idle" /\ reg[w] \in RegType
        /\ Knows("createGrant", job[w], reg[w], sas, fis, grants)
        /\ Key(w) = <<job[w].sa, IssuerOf[reg[w].idp]>>
    BY <1>1, WorkerFacts
  <2>2. job[w].op = "ensure" /\ reg[w].kind \in Kinds
    BY <2>1 DEF CallOK, EnsureCalls, WithRef
  <2> QED BY <2>1, <2>2 DEF Knows, EnsureCalls, WithRef
<1>3. /\ new \in grants' /\ new.id = nextId /\ new.target = reg[w].got[reg[w].kind]
      /\ new.sa = reg[w].said /\ new.managed
  BY <1>1
<1> HIDE DEF new
<1>4. ASSUME NEW v \in Workers, v # w
      PROVE  Knows(pc[v], job[v], reg[v], sas', fis', grants')
  <2>1. /\ Knows(pc[v], job[v], reg[v], sas, fis, grants) /\ reg[v] \in RegType
        /\ CallOK(v, pc[v], job[v], reg[v])
    BY DEF Safe, Known, Typed, TypeOK, CallsOK
  <2>2. pc[v] # "idle" => Key(w) # <<job[v].sa, IssuerOf[reg[v].idp]>>
    BY <1>2, <1>4, KeysDiffer DEF Key
  <2>3. \A s \in sas : s.id = reg[v].said /\ s.key = <<job[v].sa, IssuerOf[reg[v].idp]>>
                       => pc[v] = "idle" \/ reg[v].said # new.sa
    <3>1. PICK t \in sas : t.id = new.sa /\ t.key = Key(w)
      BY <1>2, <1>3
    <3>2. \A s \in sas : s.id = t.id => s = t
      BY DEF Safe, UniqueIds
    <3> QED BY <2>2, <3>1, <3>2
  <2>4. nextId \notin reg[v].todo
    BY <1>1, WorkerFacts, <2>1 DEF Safe, FreshIds, RegType
  <2>5. DeleteDone(pc[v], job[v], reg[v]) /\ reg[v].kind = "done" => reg[v].said # new.sa
    BY <1>2, <1>3, <2>1 DEF Knows
  <2>6. \A k \in Kinds : reg[v].kind = "start" => reg[v].got[k] = None
    BY <2>1 DEF CallOK
  <2> QED BY <1>1, <1>3, <2>1, <2>3, <2>4, <2>5, <2>6
          DEF Knows, CallOK, BeforeRefs, WithRef, EnsureCalls, DeleteCalls, EnsureDone, DeleteDone
<1>5. Known' /\ \A v \in Workers : reg'[v].said < nextId' /\ \A i \in reg'[v].todo : i < nextId'
  <2>1. /\ nextId' \in Nat /\ nextId <= nextId' /\ reg[w].said < nextId'
        /\ \A i \in reg[w].todo : i < nextId'
    BY <1>1, WorkerFacts
  <2>2. \A m \in Kinds : reg[w].got[m] # None =>
          \E g \in grants' : g.target = reg[w].got[m] /\ g.sa = reg[w].said
    BY <1>1, <1>2, <1>3
  <2> QED BY <1>1, <1>2, <1>4, <2>1, <2>2, AfterRefReplyKnown DEF Key
<1>6. FreshIds'
  BY <1>1, <1>3, <1>5, WorkerFacts DEF FreshIds
<1>7. UniqueIds' /\ UniqueIdentity' /\ UniqueGrant' /\ FederatedIdentityBacked'
  BY <1>1, <1>2, <1>3, WorkerFacts
  DEF Safe, UniqueIds, UniqueIdentity, UniqueGrant, FederatedIdentityBacked
<1> QED BY <1>5, <1>6, <1>7 DEF Safe

LEMMA DeleteFederatedIdentitySafe ==
  ASSUME Exclusive, Typed, Safe, NEW w \in Workers, DeleteFederatedIdentity(w)
  PROVE  Safe'
<1>1. /\ pc[w] = "dDeleteFI" /\ pc[w] \in InCall /\ fis' = {f \in fis : f.id # reg[w].fid}
      /\ Reply(w, "dListSA", reg[w]) /\ UNCHANGED <<sas, grants, nextId, job>>
  BY DEF DeleteFederatedIdentity, At, InCall, DeleteCalls
<1>2. /\ CallOK(w, "dDeleteFI", job[w], reg[w]) /\ pc[w] # "idle"
      /\ Knows("dDeleteFI", job[w], reg[w], sas, fis, grants)
      /\ Key(w) = <<job[w].sa, IssuerOf[reg[w].idp]>>
  BY <1>1, WorkerFacts
<1>3. PICK h \in fis : h.id = reg[w].fid /\ h.key = Key(w)
  BY <1>2 DEF Knows
<1>4. \A f \in fis : f.id = reg[w].fid <=> f.key = Key(w)
  BY <1>3 DEF Safe, UniqueIds, UniqueIdentity
<1>5. Knows("dListSA", job[w], reg[w], sas', fis', grants')
  <2>1. \A k \in Kinds : reg[w].got[k] = None
    BY <1>2 DEF CallOK, BeforeRefs
  <2> QED BY <1>1, <1>2, <1>4, <2>1 DEF Knows, WithRef, EnsureCalls, DeleteCalls, EnsureDone, DeleteDone
<1>6. ASSUME NEW v \in Workers, v # w
      PROVE  Knows(pc[v], job[v], reg[v], sas', fis', grants')
  <2>1. Knows(pc[v], job[v], reg[v], sas, fis, grants)
    BY DEF Safe, Known
  <2>2. pc[v] # "idle" => Key(w) # <<job[v].sa, IssuerOf[reg[v].idp]>>
    BY <1>2, <1>6, KeysDiffer DEF Key
  <2> QED BY <1>1, <1>4, <2>1, <2>2 DEF Knows, WithRef, EnsureCalls, DeleteCalls, EnsureDone, DeleteDone
<1>7. Known' /\ \A v \in Workers : reg'[v].said < nextId' /\ \A i \in reg'[v].todo : i < nextId'
  <2>1. /\ nextId' \in Nat /\ nextId <= nextId' /\ reg[w].said < nextId'
        /\ \A i \in reg[w].todo : i < nextId'
    BY <1>1, WorkerFacts
  <2> QED BY <1>1, <1>5, <1>6, <2>1, ReplyKnown
<1>8. FreshIds'
  BY <1>1, <1>7, WorkerFacts DEF FreshIds
<1>9. UniqueIds' /\ UniqueIdentity' /\ UniqueGrant' /\ FederatedIdentityBacked'
  BY <1>1 DEF Safe, UniqueIds, UniqueIdentity, UniqueGrant, FederatedIdentityBacked
<1> QED BY <1>7, <1>8, <1>9 DEF Safe

LEMMA DeleteServiceAccountSafe ==
  ASSUME Exclusive, Typed, Safe, NEW w \in Workers, DeleteServiceAccount(w)
  PROVE  Safe'
<1>1. /\ pc[w] = "dDeleteSA" /\ pc[w] \in InCall /\ sas' = {s \in sas : s.id # reg[w].said}
      /\ Reply(w, "ok", reg[w]) /\ UNCHANGED <<fis, grants, nextId, job>>
  BY DEF DeleteServiceAccount, At, InCall, DeleteCalls
<1>2. /\ CallOK(w, "dDeleteSA", job[w], reg[w]) /\ pc[w] # "idle"
      /\ Knows("dDeleteSA", job[w], reg[w], sas, fis, grants)
      /\ Key(w) = <<job[w].sa, IssuerOf[reg[w].idp]>>
  BY <1>1, WorkerFacts
<1>3. PICK t \in sas : t.id = reg[w].said /\ t.key = Key(w)
  BY <1>2 DEF Knows
<1>4. \A s \in sas : s.id = reg[w].said <=> s.key = Key(w)
  BY <1>3 DEF Safe, UniqueIds, UniqueIdentity
<1>5. \A f \in fis : f.key # Key(w)
  BY <1>2 DEF Knows, DeleteCalls
<1>6. Knows("ok", job[w], reg[w], sas', fis', grants')
  <2>1. reg[w].kind = "done" /\ job[w].op = "delete"
    BY <1>2 DEF CallOK, DeleteCalls
  <2> QED BY <1>1, <1>2, <1>4, <1>5, <2>1 DEF Knows, WithRef, EnsureCalls, DeleteCalls, EnsureDone, DeleteDone
<1>7. ASSUME NEW v \in Workers, v # w
      PROVE  Knows(pc[v], job[v], reg[v], sas', fis', grants')
  <2>1. Knows(pc[v], job[v], reg[v], sas, fis, grants)
    BY DEF Safe, Known
  <2>2. pc[v] # "idle" => Key(w) # <<job[v].sa, IssuerOf[reg[v].idp]>>
    BY <1>2, <1>7, KeysDiffer DEF Key
  <2> QED BY <1>1, <1>4, <2>1, <2>2 DEF Knows, WithRef, EnsureCalls, DeleteCalls, EnsureDone, DeleteDone
<1>8. Known' /\ \A v \in Workers : reg'[v].said < nextId' /\ \A i \in reg'[v].todo : i < nextId'
  <2>1. /\ nextId' \in Nat /\ nextId <= nextId' /\ reg[w].said < nextId'
        /\ \A i \in reg[w].todo : i < nextId'
    BY <1>1, WorkerFacts
  <2> QED BY <1>1, <1>6, <1>7, <2>1, ReplyKnown
<1>9. FreshIds'
  BY <1>1, <1>8, WorkerFacts DEF FreshIds
<1>10. UniqueIds' /\ UniqueIdentity' /\ UniqueGrant'
  BY <1>1 DEF Safe, UniqueIds, UniqueIdentity, UniqueGrant
<1>11. FederatedIdentityBacked'
  BY <1>1, <1>4, <1>5 DEF Safe, FederatedIdentityBacked
<1> QED BY <1>8, <1>9, <1>10, <1>11 DEF Safe

LEMMA DeleteBindingSafe ==
  ASSUME Exclusive, Typed, Safe, NEW w \in Workers, DeleteBinding(w)
  PROVE  Safe'
<1>1. /\ pc[w] = "dDeleteGrant" /\ pc[w] \in InCall /\ UNCHANGED <<sas, fis, nextId, job>>
  BY DEF DeleteBinding, At, InCall, DeleteCalls
<1>2. PICK i \in reg[w].todo :
        LET r == [reg[w] EXCEPT !.todo = @ \ {i}] IN
        /\ grants' = {g \in grants : g.id # i}
        /\ IF r.todo = {} THEN ReplyAfterRef(w, r) ELSE Reply(w, "dDeleteGrant", r)
  BY DEF DeleteBinding
<1> DEFINE r == [reg[w] EXCEPT !.todo = @ \ {i}]
           For(g, k) == g.target = reg[w].got[k] /\ g.sa = reg[w].said
<1>3. /\ CallOK(w, "dDeleteGrant", job[w], reg[w]) /\ pc[w] # "idle" /\ reg[w] \in RegType
      /\ Knows("dDeleteGrant", job[w], reg[w], sas, fis, grants)
      /\ Key(w) = <<job[w].sa, IssuerOf[reg[w].idp]>>
  BY <1>1, WorkerFacts
<1>4. /\ r \in RegType /\ r.todo = reg[w].todo \ {i} /\ r.idp = reg[w].idp /\ r.said = reg[w].said
      /\ r.kind = reg[w].kind /\ r.got = reg[w].got
  BY <1>3 DEF RegType
<1>5. /\ grants' = {g \in grants : g.id # i}
      /\ r.todo = {} => ReplyAfterRef(w, r)
      /\ r.todo # {} => Reply(w, "dDeleteGrant", r)
  BY <1>2
<1> HIDE DEF r
<1>6. job[w].op = "delete" /\ reg[w].kind \in Kinds
  BY <1>3 DEF CallOK, DeleteCalls, WithRef
<1>7. /\ \A g \in grants : (g.managed /\ For(g, reg[w].kind)) <=> g.id \in reg[w].todo
      /\ \A f \in fis : f.key # Key(w)
      /\ \E s \in sas : s.id = reg[w].said /\ s.key = Key(w)
      /\ \A k \in Kinds : k # reg[w].kind /\ reg[w].got[k] # None =>
           \A g \in grants : g.managed => ~For(g, k)
  BY <1>3 DEF Knows, DeleteCalls, WithRef
<1>8. ASSUME NEW v \in Workers, v # w
      PROVE  Knows(pc[v], job[v], reg[v], sas', fis', grants')
  <2>1. /\ Knows(pc[v], job[v], reg[v], sas, fis, grants) /\ CallOK(v, pc[v], job[v], reg[v])
    BY DEF Safe, Known, Typed, CallsOK
  <2>2. pc[v] # "idle" => Key(w) # <<job[v].sa, IssuerOf[reg[v].idp]>>
    BY <1>3, <1>8, KeysDiffer DEF Key
  <2>3. \A s \in sas : s.id = reg[v].said /\ s.key = <<job[v].sa, IssuerOf[reg[v].idp]>>
                       => pc[v] = "idle" \/ reg[v].said # reg[w].said
    <3>1. PICK t \in sas : t.id = reg[w].said /\ t.key = Key(w)
      BY <1>7
    <3>2. \A s \in sas : s.id = t.id => s = t
      BY DEF Safe, UniqueIds
    <3> QED BY <2>2, <3>1, <3>2
  <2>4. \A g \in grants : g.sa # reg[w].said => g \in grants'
    BY <1>2, <1>5, <1>7
  <2>5. \A k \in Kinds : reg[v].kind = "start" => reg[v].got[k] = None
    BY <2>1 DEF CallOK
  <2>6. pc[v] \in EnsureCalls =>
          pc[v] \in BeforeRefs \/ \E s \in sas : /\ s.id = reg[v].said
                                                 /\ s.key = <<job[v].sa, IssuerOf[reg[v].idp]>>
    BY <2>1 DEF Knows, BeforeRefs, WithRef, EnsureCalls, DeleteCalls, EnsureDone, DeleteDone
  <2>7. EnsureDone(pc[v], job[v]) =>
          \E s \in sas : s.id = reg[v].said /\ s.key = <<job[v].sa, IssuerOf[reg[v].idp]>>
    BY <2>1 DEF Knows
  <2>8. pc[v] \in EnsureCalls \/ EnsureDone(pc[v], job[v]) =>
          \A k \in Kinds : k # reg[v].kind /\ reg[v].got[k] # None =>
            \E g \in grants' : g.target = reg[v].got[k] /\ g.sa = reg[v].said
    <3>1. pc[v] \in BeforeRefs => reg[v].kind = "start"
      BY <2>1 DEF CallOK
    <3>2. pc[v] \in EnsureCalls \/ EnsureDone(pc[v], job[v]) =>
            \A k \in Kinds : k # reg[v].kind /\ reg[v].got[k] # None =>
              \E g \in grants : g.target = reg[v].got[k] /\ g.sa = reg[v].said
      BY <2>1 DEF Knows
    <3>3. pc[v] \in EnsureCalls \/ EnsureDone(pc[v], job[v]) => pc[v] # "idle"
      BY DEF EnsureCalls, EnsureDone
    <3> QED BY <2>3, <2>4, <2>5, <2>6, <2>7, <3>1, <3>2, <3>3
  <2>9. grants' \subseteq grants
    BY <1>5
  <2> QED BY <1>1, <2>1, <2>8, <2>9 DEF Knows, WithRef, EnsureCalls, DeleteCalls, EnsureDone, DeleteDone
<1>9. /\ nextId' \in Nat /\ nextId <= nextId' /\ r.said < nextId'
      /\ \A j \in r.todo : j < nextId'
  BY <1>1, <1>4, WorkerFacts
<1>10. Known' /\ \A v \in Workers : reg'[v].said < nextId' /\ \A j \in reg'[v].todo : j < nextId'
  <2>1. CASE r.todo = {}
    <3>1. \A m \in Kinds : r.got[m] # None =>
            \A g \in grants' : g.managed => ~(g.target = r.got[m] /\ g.sa = r.said)
      BY <1>4, <1>5, <1>7, <2>1
    <3>2. /\ \E s \in sas' : s.id = r.said /\ s.key = <<job[w].sa, IssuerOf[r.idp]>>
          /\ \A f \in fis' : f.key # <<job[w].sa, IssuerOf[r.idp]>>
      BY <1>1, <1>3, <1>4, <1>7
    <3> QED BY <1>1, <1>3, <1>4, <1>5, <1>6, <1>8, <1>9, <2>1, <3>1, <3>2, AfterRefReplyKnown
  <2>2. CASE r.todo # {}
    <3>1. Knows("dDeleteGrant", job[w], r, sas', fis', grants')
      <4>1. /\ \A g \in grants' : /\ g.managed /\ g.target = r.got[r.kind] /\ g.sa = r.said
                                  <=> g.id \in r.todo
            /\ \A f \in fis' : f.key # <<job[w].sa, IssuerOf[r.idp]>>
            /\ \E s \in sas' : s.id = r.said /\ s.key = <<job[w].sa, IssuerOf[r.idp]>>
            /\ \A k \in Kinds : k # r.kind /\ r.got[k] # None =>
                 \A g \in grants' : g.managed => ~(g.target = r.got[k] /\ g.sa = r.said)
        BY <1>1, <1>3, <1>4, <1>5, <1>7
      <4> QED BY <4>1 DEF Knows, WithRef, EnsureCalls, DeleteCalls, EnsureDone, DeleteDone
    <3> QED BY <1>1, <1>5, <1>8, <1>9, <2>2, <3>1, ReplyKnown
  <2> QED BY <2>1, <2>2
<1>11. FreshIds'
  BY <1>1, <1>5, <1>10, WorkerFacts DEF FreshIds
<1>12. UniqueIds' /\ UniqueIdentity' /\ UniqueGrant' /\ FederatedIdentityBacked'
  BY <1>1, <1>5 DEF Safe, UniqueIds, UniqueIdentity, UniqueGrant, FederatedIdentityBacked
<1> QED BY <1>10, <1>11, <1>12 DEF Safe

LEMMA AdminGrantSafe ==
  ASSUME Typed, Safe, NEW t \in Targets, NEW s \in sas, AdminGrant(t, s)
  PROVE  Safe'
<1> DEFINE new == [id |-> nextId, target |-> t, sa |-> s.id, managed |-> FALSE]
<1>1. /\ grants' = grants \cup {new} /\ nextId' = nextId + 1
      /\ UNCHANGED <<sas, fis, pc, job, reg>>
  BY DEF AdminGrant, local
<1>2. /\ nextId \in Nat /\ s.id \in Nat /\ s.id < nextId
      /\ \A x \in sas : x.id \in Nat /\ x.id < nextId
      /\ \A f \in fis : f.id \in Nat /\ f.id < nextId
      /\ \A g \in grants : g.id \in Nat /\ g.id < nextId /\ g.sa \in Nat /\ g.sa < nextId
      /\ \A v \in Workers : /\ reg[v].said \in Nat /\ reg[v].said < nextId
                            /\ \A i \in reg[v].todo : i \in Nat /\ i < nextId
  BY DEF Typed, TypeOK, RegType, Safe, FreshIds
<1>3. new.id = nextId /\ new.sa = s.id /\ ~new.managed
  OBVIOUS
<1> HIDE DEF new
<1>4. ASSUME NEW v \in Workers PROVE Knows(pc[v], job[v], reg[v], sas', fis', grants')
  <2>1. Knows(pc[v], job[v], reg[v], sas, fis, grants)
    BY DEF Safe, Known
  <2>2. new.id \notin reg[v].todo
    BY <1>2, <1>3
  <2> QED BY <1>1, <1>3, <2>1, <2>2 DEF Knows, WithRef, EnsureCalls, DeleteCalls, EnsureDone, DeleteDone
<1>5. FreshIds' /\ Known'
  <2>1. Known'
    BY <1>1, <1>4 DEF Known
  <2>2. /\ \A x \in sas' : x.id < nextId'
        /\ \A f \in fis' : f.id < nextId'
        /\ \A g \in grants' : g.id < nextId' /\ g.sa < nextId'
    BY <1>1, <1>2, <1>3
  <2>3. \A v \in Workers : reg'[v].said < nextId' /\ \A i \in reg'[v].todo : i < nextId'
    BY <1>1, <1>2
  <2> QED BY <2>1, <2>2, <2>3 DEF FreshIds
<1>6. UniqueIds' /\ UniqueIdentity' /\ UniqueGrant' /\ FederatedIdentityBacked'
  BY <1>1, <1>2, <1>3
  DEF Safe, UniqueIds, UniqueIdentity, UniqueGrant, FederatedIdentityBacked
<1> QED BY <1>5, <1>6 DEF Safe

LEMMA AfterRefGoSafe ==
  ASSUME Typed, Safe, NEW w \in Workers, pc[w] # "idle", NEW r \in RegType,
         GoAfterRef(w, r), job' = job, UNCHANGED cloud,
         \E s \in sas : s.id = r.said /\ s.key = <<job[w].sa, IssuerOf[r.idp]>>,
         job[w].op = "ensure" =>
           \E f \in fis : /\ f.id = r.fid /\ f.key = <<job[w].sa, IssuerOf[r.idp]>>
                          /\ f.sa = r.said /\ f.attrs = job[w].attrs,
         job[w].op = "delete" => \A f \in fis : f.key # <<job[w].sa, IssuerOf[r.idp]>>,
         job[w].op = "ensure" => \A m \in Kinds : r.got[m] # None =>
           \E g \in grants : g.target = r.got[m] /\ g.sa = r.said,
         job[w].op = "delete" => \A m \in Kinds : r.got[m] # None =>
           \A g \in grants : g.managed => ~(g.target = r.got[m] /\ g.sa = r.said),
         r.said < nextId, \A i \in r.todo : i < nextId
  PROVE  Safe'
<1> DEFINE k == NextKind(job[w], r.kind)
           l == LabelFor(job[w], k)
           r1 == [r EXCEPT !.kind = k]
<1>1. Go(w, l, r1)
  BY DEF GoAfterRef, ReplyAfterRef
<1>2. job[w] \in JobType
  BY JobTyped
<1>3. Knows(l, job[w], r1, sas, fis, grants)
  BY <1>2, AfterRefKnows
<1>4. r1.said = r.said /\ r1.todo = r.todo
  BY DEF RegType
<1> HIDE DEF k, l, r1
<1> QED BY <1>1, <1>3, <1>4, GoSafe

\* The steps that only read the cloud.
LEMMA ReadSafe ==
  ASSUME Typed, Safe, NEW w \in Workers,
         \/ FindProviderByClusterID(w) \/ ProviderMissing(w)
         \/ ProviderWithoutIssuer(w) \/ ProviderAmbiguous(w) \/ CallFails(w)
         \/ ListServiceAccounts(w) \/ ListFederatedIdentities(w)
         \/ ResolveRef(w) \/ ListBindings(w) \/ DeleteListFI(w) \/ DeleteListSA(w)
         \/ DeleteResolve(w) \/ DeleteListBindings(w)
  PROVE  Safe'
<1> USE DEF At
<1>a. job' = job /\ UNCHANGED cloud
  BY DEF FindProviderByClusterID, ProviderMissing, ProviderWithoutIssuer, ProviderAmbiguous,
     CallFails, ListServiceAccounts, ListFederatedIdentities, ResolveRef, ListBindings,
     DeleteListFI, DeleteListSA, DeleteResolve, DeleteListBindings
<1>b. /\ reg[w] \in RegType /\ reg[w].said < nextId /\ (\A i \in reg[w].todo : i < nextId)
      /\ CallOK(w, pc[w], job[w], reg[w]) /\ Knows(pc[w], job[w], reg[w], sas, fis, grants)
      /\ Key(w) = <<job[w].sa, IssuerOf[reg[w].idp]>>
      /\ \A s \in sas : s.id \in Nat /\ s.id < nextId
      /\ \A f \in fis : f.id \in Nat
  BY DEF Typed, TypeOK, CallsOK, Safe, Known, FreshIds, Key
<1>1. CASE FindProviderByClusterID(w)
  <2>1. pc[w] = "provider"
    BY <1>1 DEF FindProviderByClusterID
  <2>2. PICK p \in idps, l \in {"listSA", "dListFI"} : Go(w, l, [reg[w] EXCEPT !.idp = p])
    BY <1>1 DEF FindProviderByClusterID
  <2> DEFINE r == [reg[w] EXCEPT !.idp = p]
  <2>3. /\ r.said = reg[w].said /\ r.todo = reg[w].todo /\ \A k \in Kinds : r.got[k] = None
    BY <1>b, <2>1 DEF RegType, CallOK, BeforeRefs
  <2>4. Go(w, l, r)
    BY <2>2
  <2> HIDE DEF r
  <2>5. Knows(l, job[w], r, sas, fis, grants)
    BY <2>3 DEF Knows, WithRef, EnsureCalls, DeleteCalls, EnsureDone, DeleteDone
  <2> QED BY <1>a, <1>b, <2>3, <2>4, <2>5, GoSafe
<1>2. CASE ProviderMissing(w) \/ ProviderWithoutIssuer(w)
  <2>1. job[w].op \in {"ensure", "delete"}
    BY <1>2, JobTyped DEF ProviderMissing, ProviderWithoutIssuer, JobType
  <2>2. PICK l \in Returned : Go(w, l, NoReg) /\ (l = "ok" => job[w].op = "delete")
    BY <1>2, <2>1 DEF ProviderMissing, ProviderWithoutIssuer, Returned
  <2>3. Knows(l, job[w], NoReg, sas, fis, grants)
    BY <2>2, KnowsNothing DEF Returned
  <2>4. NoReg.said < nextId /\ \A i \in NoReg.todo : i < nextId
    BY DEF NoReg, NoId, Typed, TypeOK
  <2> QED BY <1>a, <2>2, <2>3, <2>4, GoSafe
<1>3. CASE ProviderAmbiguous(w) \/ CallFails(w)
  BY <1>3, <1>a, FailSafe DEF ProviderAmbiguous, CallFails
<1>4. CASE ListServiceAccounts(w)
  <2>1. pc[w] = "listSA"
    BY <1>4 DEF ListServiceAccounts
  <2>2. \A k \in Kinds : reg[w].got[k] = None
    BY <1>b, <2>1 DEF CallOK, BeforeRefs
  <2>3. CASE findByLabelsSA(Key(w)) = {} /\ Go(w, "createSA", reg[w])
    <3>1. Knows("createSA", job[w], reg[w], sas, fis, grants)
      BY <1>b, <2>2, <2>3 DEF Knows, findByLabelsSA, WithRef, EnsureCalls, DeleteCalls, EnsureDone, DeleteDone
    <3> QED BY <1>a, <1>b, <2>3, <3>1, GoSafe
  <2>4. ASSUME NEW s \in findByLabelsSA(Key(w)), Go(w, "listFI", [reg[w] EXCEPT !.said = s.id])
        PROVE  Safe'
    <3> DEFINE r == [reg[w] EXCEPT !.said = s.id]
    <3>1. /\ s \in sas /\ s.key = Key(w) /\ r.said = s.id /\ r.todo = reg[w].todo
          /\ r.idp = reg[w].idp /\ \A k \in Kinds : r.got[k] = None
      BY <1>b, <2>2 DEF RegType, findByLabelsSA
    <3>2. Go(w, "listFI", r)
      BY <2>4
    <3> HIDE DEF r
    <3>3. Knows("listFI", job[w], r, sas, fis, grants)
      BY <1>b, <3>1 DEF Knows, WithRef, EnsureCalls, DeleteCalls, EnsureDone, DeleteDone
    <3> QED BY <1>a, <1>b, <3>1, <3>2, <3>3, GoSafe
  <2> QED BY <1>4, <2>3, <2>4 DEF ListServiceAccounts
<1>5. CASE ListFederatedIdentities(w)
  <2>1. pc[w] = "listFI" /\ pc[w] # "idle"
    BY <1>5 DEF ListFederatedIdentities
  <2>2. job[w].op = "ensure" /\ \A k \in Kinds : reg[w].got[k] = None
    BY <1>b, <2>1 DEF CallOK, BeforeRefs, EnsureCalls
  <2>3. PICK s \in sas : s.id = reg[w].said /\ s.key = Key(w)
    BY <1>b, <2>1 DEF Knows
  <2>4. CASE findByLabelsFI(Key(w)) = {} /\ Go(w, "createFI", reg[w])
    <3>1. Knows("createFI", job[w], reg[w], sas, fis, grants)
      BY <1>b, <2>2, <2>3, <2>4 DEF Knows, findByLabelsFI, WithRef, EnsureCalls, DeleteCalls, EnsureDone, DeleteDone
    <3> QED BY <1>a, <1>b, <2>4, <3>1, GoSafe
  <2>5. ASSUME NEW f \in findByLabelsFI(Key(w)),
               LET r == [reg[w] EXCEPT !.fid = f.id] IN
                 IF fiNeedsUpdate(f, job[w].attrs) THEN Go(w, "updateFI", r) ELSE GoAfterRef(w, r)
        PROVE  Safe'
    <3> DEFINE r == [reg[w] EXCEPT !.fid = f.id]
    <3>1. f \in fis /\ f.key = Key(w)
      BY DEF findByLabelsFI
    <3>2. /\ r \in RegType /\ r.fid = f.id /\ r.said = reg[w].said /\ r.todo = reg[w].todo
          /\ r.idp = reg[w].idp /\ \A k \in Kinds : r.got[k] = None
      BY <1>b, <2>2, <3>1 DEF RegType
    <3>3. f.sa = reg[w].said
      BY <2>3, <3>1 DEF Safe, FederatedIdentityBacked, UniqueIdentity
    <3>4. /\ fiNeedsUpdate(f, job[w].attrs) => Go(w, "updateFI", r)
          /\ ~fiNeedsUpdate(f, job[w].attrs) => GoAfterRef(w, r)
      BY <2>5
    <3> HIDE DEF r
    <3>5. Knows("updateFI", job[w], r, sas, fis, grants)
      BY <1>b, <2>3, <3>1, <3>2 DEF Knows, WithRef, EnsureCalls, DeleteCalls, EnsureDone, DeleteDone
    <3>6. CASE fiNeedsUpdate(f, job[w].attrs)
      BY <1>a, <1>b, <3>2, <3>4, <3>5, <3>6, GoSafe
    <3>7. CASE ~fiNeedsUpdate(f, job[w].attrs)
      <4>1. f.attrs = job[w].attrs
        BY <3>7 DEF fiNeedsUpdate
      <4> QED BY <1>a, <1>b, <2>1, <2>2, <2>3, <3>1, <3>2, <3>3, <3>4, <3>7, <4>1, AfterRefGoSafe
    <3> QED BY <3>6, <3>7
  <2> QED BY <1>5, <2>4, <2>5 DEF ListFederatedIdentities
<1>6. CASE ResolveRef(w)
  <2> DEFINE k == reg[w].kind
             t == Resolve(k, job[w].ref[k])
             r == [reg[w] EXCEPT !.got[k] = t]
  <2>1. pc[w] = "resolve" /\ (Fail(w) \/ Go(w, "listGrant", r))
    BY <1>6 DEF ResolveRef
  <2>2. k \in Kinds
    BY <1>b, <2>1 DEF CallOK, WithRef
  <2>3. /\ r.said = reg[w].said /\ r.todo = reg[w].todo /\ r.idp = reg[w].idp /\ r.kind = k
        /\ r.fid = reg[w].fid /\ \A m \in Kinds : m # k => r.got[m] = reg[w].got[m]
    BY <1>b, <2>2 DEF RegType
  <2> HIDE DEF r
  <2>4. Knows("listGrant", job[w], r, sas, fis, grants)
    BY <1>b, <2>1, <2>2, <2>3 DEF Knows, WithRef, EnsureCalls, DeleteCalls, EnsureDone, DeleteDone
  <2> QED BY <1>a, <1>b, <2>1, <2>3, <2>4, GoSafe, FailSafe
<1>7. CASE ListBindings(w)
  <2>1. pc[w] = "listGrant" /\ pc[w] # "idle"
    BY <1>7 DEF ListBindings
  <2>2. job[w].op = "ensure" /\ reg[w].kind \in Kinds
    BY <1>b, <2>1 DEF CallOK, EnsureCalls, WithRef
  <2>3. CASE /\ BindingsForSA(reg[w].got[reg[w].kind], reg[w].said) = {}
             /\ Go(w, "createGrant", reg[w])
    <3>1. Knows("createGrant", job[w], reg[w], sas, fis, grants)
      BY <1>b, <2>1, <2>3 DEF Knows, BindingsForSA, WithRef, EnsureCalls, DeleteCalls, EnsureDone, DeleteDone
    <3> QED BY <1>a, <1>b, <2>3, <3>1, GoSafe
  <2>4. CASE /\ BindingsForSA(reg[w].got[reg[w].kind], reg[w].said) # {}
             /\ GoAfterRef(w, reg[w])
    <3>1. \A m \in Kinds : reg[w].got[m] # None =>
            \E g \in grants : g.target = reg[w].got[m] /\ g.sa = reg[w].said
      BY <1>b, <2>1, <2>4 DEF Knows, BindingsForSA, EnsureCalls
    <3>2. /\ \E s \in sas : s.id = reg[w].said /\ s.key = <<job[w].sa, IssuerOf[reg[w].idp]>>
          /\ \E f \in fis : /\ f.id = reg[w].fid /\ f.key = <<job[w].sa, IssuerOf[reg[w].idp]>>
                            /\ f.sa = reg[w].said /\ f.attrs = job[w].attrs
      BY <1>b, <2>1 DEF Knows, WithRef
    <3> QED BY <1>a, <1>b, <2>1, <2>2, <2>4, <3>1, <3>2, AfterRefGoSafe
  <2> QED BY <1>7, <2>3, <2>4 DEF ListBindings
<1>8. CASE DeleteListFI(w)
  <2>1. pc[w] = "dListFI"
    BY <1>8 DEF DeleteListFI
  <2>2. \A k \in Kinds : reg[w].got[k] = None
    BY <1>b, <2>1 DEF CallOK, BeforeRefs
  <2>3. CASE findByLabelsFI(Key(w)) = {} /\ Go(w, "dListSA", reg[w])
    <3>1. Knows("dListSA", job[w], reg[w], sas, fis, grants)
      BY <1>b, <2>2, <2>3 DEF Knows, findByLabelsFI, WithRef, EnsureCalls, DeleteCalls, EnsureDone, DeleteDone
    <3> QED BY <1>a, <1>b, <2>3, <3>1, GoSafe
  <2>4. ASSUME NEW f \in findByLabelsFI(Key(w)), Go(w, "dDeleteFI", [reg[w] EXCEPT !.fid = f.id])
        PROVE  Safe'
    <3> DEFINE r == [reg[w] EXCEPT !.fid = f.id]
    <3>1. /\ f \in fis /\ f.key = Key(w) /\ r.fid = f.id /\ r.said = reg[w].said
          /\ r.todo = reg[w].todo /\ r.idp = reg[w].idp /\ \A k \in Kinds : r.got[k] = None
      BY <1>b, <2>2 DEF RegType, findByLabelsFI
    <3>2. Go(w, "dDeleteFI", r)
      BY <2>4
    <3> HIDE DEF r
    <3>3. Knows("dDeleteFI", job[w], r, sas, fis, grants)
      BY <1>b, <3>1 DEF Knows, WithRef, EnsureCalls, DeleteCalls, EnsureDone, DeleteDone
    <3> QED BY <1>a, <1>b, <3>1, <3>2, <3>3, GoSafe
  <2> QED BY <1>8, <2>3, <2>4 DEF DeleteListFI
<1>9. CASE DeleteListSA(w)
  <2>1. pc[w] = "dListSA" /\ pc[w] # "idle"
    BY <1>9 DEF DeleteListSA
  <2>2. job[w].op = "delete" /\ reg[w].kind = "start" /\ \A k \in Kinds : reg[w].got[k] = None
    BY <1>b, <2>1 DEF CallOK, BeforeRefs, DeleteCalls
  <2>3. \A f \in fis : f.key # Key(w)
    BY <1>b, <2>1 DEF Knows, DeleteCalls
  <2>4. CASE findByLabelsSA(Key(w)) = {} /\ Go(w, "ok", reg[w])
    <3>1. Knows("ok", job[w], reg[w], sas, fis, grants)
      BY <1>b, <2>2, <2>3, <2>4 DEF Knows, findByLabelsSA, WithRef, EnsureCalls, DeleteCalls, EnsureDone, DeleteDone
    <3> QED BY <1>a, <1>b, <2>4, <3>1, GoSafe
  <2>5. ASSUME NEW s \in findByLabelsSA(Key(w)), GoAfterRef(w, [reg[w] EXCEPT !.said = s.id])
        PROVE  Safe'
    <3> DEFINE r == [reg[w] EXCEPT !.said = s.id]
    <3>1. /\ s \in sas /\ s.key = Key(w) /\ r \in RegType /\ r.said = s.id
          /\ r.todo = reg[w].todo /\ r.idp = reg[w].idp /\ \A k \in Kinds : r.got[k] = None
      BY <1>b, <2>2 DEF RegType, findByLabelsSA
    <3>2. GoAfterRef(w, r)
      BY <2>5
    <3> HIDE DEF r
    <3> QED BY <1>a, <1>b, <2>1, <2>2, <2>3, <3>1, <3>2, AfterRefGoSafe
  <2> QED BY <1>9, <2>4, <2>5 DEF DeleteListSA
<1>10. CASE DeleteResolve(w)
  <2> DEFINE k == reg[w].kind
             t == Resolve(k, job[w].ref[k])
             r == [reg[w] EXCEPT !.got[k] = t]
  <2>1. pc[w] = "dResolve" /\ pc[w] # "idle" /\ (GoAfterRef(w, reg[w]) \/ Go(w, "dListGrant", r))
    BY <1>10 DEF DeleteResolve
  <2>2. k \in Kinds /\ job[w].op = "delete" /\ reg[w].got[k] = None
    BY <1>b, <2>1 DEF CallOK, WithRef, DeleteCalls
  <2>3. CASE Go(w, "dListGrant", r)
    <3>1. /\ r.said = reg[w].said /\ r.todo = reg[w].todo /\ r.idp = reg[w].idp /\ r.kind = k
          /\ r.fid = reg[w].fid /\ \A m \in Kinds : m # k => r.got[m] = reg[w].got[m]
      BY <1>b, <2>2 DEF RegType
    <3> HIDE DEF r
    <3>2. Knows("dListGrant", job[w], r, sas, fis, grants)
      BY <1>b, <2>1, <2>2, <3>1 DEF Knows, WithRef, EnsureCalls, DeleteCalls, EnsureDone, DeleteDone
    <3> QED BY <1>a, <1>b, <2>3, <3>1, <3>2, GoSafe
  <2>4. CASE GoAfterRef(w, reg[w])
    <3>1. /\ \E s \in sas : s.id = reg[w].said /\ s.key = <<job[w].sa, IssuerOf[reg[w].idp]>>
          /\ \A f \in fis : f.key # <<job[w].sa, IssuerOf[reg[w].idp]>>
          /\ \A m \in Kinds : reg[w].got[m] # None =>
               \A g \in grants : g.managed => ~(g.target = reg[w].got[m] /\ g.sa = reg[w].said)
      BY <1>b, <2>1, <2>2 DEF Knows, WithRef, DeleteCalls
    <3> QED BY <1>a, <1>b, <2>1, <2>2, <2>4, <3>1, AfterRefGoSafe
  <2> QED BY <2>1, <2>3, <2>4
<1>11. CASE DeleteListBindings(w)
  <2> DEFINE owned == ManagedBindingsForSA(reg[w].got[reg[w].kind], reg[w].said)
             r == [reg[w] EXCEPT !.todo = {g.id : g \in owned}]
  <2>1. pc[w] = "dListGrant" /\ pc[w] # "idle"
    BY <1>11 DEF DeleteListBindings
  <2>2. reg[w].kind \in Kinds /\ job[w].op = "delete"
    BY <1>b, <2>1 DEF CallOK, WithRef, DeleteCalls
  <2>3. /\ \E s \in sas : s.id = reg[w].said /\ s.key = <<job[w].sa, IssuerOf[reg[w].idp]>>
        /\ \A f \in fis : f.key # <<job[w].sa, IssuerOf[reg[w].idp]>>
        /\ \A m \in Kinds : m # reg[w].kind /\ reg[w].got[m] # None =>
             \A g \in grants : g.managed => ~(g.target = reg[w].got[m] /\ g.sa = reg[w].said)
    BY <1>b, <2>1, <2>2 DEF Knows, WithRef, DeleteCalls
  <2>4. \A g \in grants : g \in owned <=> g.managed /\ g.target = reg[w].got[reg[w].kind]
                                          /\ g.sa = reg[w].said
    BY DEF ManagedBindingsForSA, BindingsForSA
  <2>5. owned \subseteq grants
    BY DEF ManagedBindingsForSA, BindingsForSA
  <2>6. (owned = {} /\ GoAfterRef(w, reg[w])) \/ Go(w, "dDeleteGrant", r)
    BY <1>11 DEF DeleteListBindings
  <2> HIDE DEF owned
  <2>7. CASE owned = {} /\ GoAfterRef(w, reg[w])
    <3>1. \A m \in Kinds : reg[w].got[m] # None =>
            \A g \in grants : g.managed => ~(g.target = reg[w].got[m] /\ g.sa = reg[w].said)
      BY <2>3, <2>4, <2>7
    <3> QED BY <1>a, <1>b, <2>1, <2>2, <2>3, <2>7, <3>1, AfterRefGoSafe
  <2>8. CASE Go(w, "dDeleteGrant", r)
    <3>1. /\ r.said = reg[w].said /\ r.idp = reg[w].idp /\ r.kind = reg[w].kind
          /\ r.got = reg[w].got /\ r.todo = {g.id : g \in owned}
      BY <1>b DEF RegType
    <3> HIDE DEF r
    <3>2. \A g \in grants : g \in owned <=> g.id \in r.todo
      BY <2>5, <3>1 DEF Safe, UniqueIds
    <3>3. Knows("dDeleteGrant", job[w], r, sas, fis, grants)
      BY <2>2, <2>3, <2>4, <3>1, <3>2 DEF Knows, WithRef, EnsureCalls, DeleteCalls, EnsureDone, DeleteDone
    <3>4. \A i \in r.todo : i < nextId
      BY <2>5, <3>1 DEF Safe, FreshIds
    <3> QED BY <1>a, <1>b, <2>8, <3>1, <3>3, <3>4, GoSafe
  <2> QED BY <2>6, <2>7, <2>8
<1> QED
  BY <1>1, <1>2, <1>3, <1>4, <1>5, <1>6, <1>7, <1>8, <1>9, <1>10, <1>11

LEMMA StepSafe ==
  ASSUME Exclusive, Typed, Safe, NEW w \in Workers, Step(w)
  PROVE  Safe'
  BY ReadSafe, CreateServiceAccountSafe, CreateFederatedIdentitySafe, UpdateFederatedIdentitySafe,
     CreateBindingSafe, DeleteFederatedIdentitySafe, DeleteBindingSafe, DeleteServiceAccountSafe
  DEF Step

\* The steps that change neither the cloud nor, but to reset it, a worker.
LEMMA OtherSafe ==
  ASSUME Typed, Safe,
         \/ \E w \in Workers : (\E j \in JobsOf[w] : Begin(w, j)) \/ Collect(w)
         \/ Crash \/ ChangeIdPs \/ Stabilise
         \/ \E n \in Names, t \in Targets \cup {None} : Rename(n, t)
         \/ \E t \in Targets, s \in sas : AdminGrant(t, s)
         \/ UNCHANGED vars
  PROVE  Safe'
<1>1. NoReg.said = 0 /\ NoReg.todo = {} /\ nextId \in Nat /\ nextId # 0
  BY DEF NoReg, NoId, Typed, TypeOK
<1>2. ASSUME UNCHANGED cloud, Known',
             \A v \in Workers : reg'[v] = reg[v] \/ reg'[v] = NoReg
      PROVE  Safe'
  <2>1. UNCHANGED <<sas, fis, grants, nextId>>
    BY <1>2 DEF cloud
  <2>2. FreshIds'
    BY <1>1, <1>2, <2>1 DEF Safe, FreshIds
  <2> QED
    BY <1>2, <2>1, <2>2 DEF Safe, UniqueIds, UniqueIdentity, UniqueGrant, FederatedIdentityBacked
<1>3. ASSUME NEW w \in Workers, NEW l \in {"idle", "provider", "failed"}, NEW j,
             Go(w, l, NoReg), job' = [job EXCEPT ![w] = j], UNCHANGED cloud
      PROVE  Safe'
  <2>1. \A v \in Workers :
          /\ v = w => pc'[v] = l /\ reg'[v] = NoReg /\ job'[v] = j
          /\ v # w => pc'[v] = pc[v] /\ reg'[v] = reg[v] /\ job'[v] = job[v]
    BY <1>3 DEF Go, Typed, TypeOK
  <2>2. Knows(l, j, NoReg, sas, fis, grants)
    BY KnowsNothing
  <2>3. Known'
    BY <1>3, <2>1, <2>2 DEF Safe, Known, cloud
  <2> QED BY <1>2, <1>3, <2>1, <2>3
<1>4. ASSUME NEW w \in Workers, NEW j \in JobsOf[w], Begin(w, j) PROVE Safe'
  BY <1>3, <1>4 DEF Begin
<1>5. ASSUME NEW w \in Workers, Collect(w) PROVE Safe'
  BY <1>3, <1>5 DEF Collect
<1>6. CASE Crash
  <2>1. Knows("idle", NoJob, NoReg, sas, fis, grants)
    BY KnowsNothing
  <2>2. Known'
    BY <1>6, <2>1 DEF Crash, Known, cloud
  <2> QED BY <1>2, <1>6, <2>2 DEF Crash
<1>7. ASSUME UNCHANGED <<cloud, local>> PROVE Safe'
  BY <1>2, <1>7 DEF Safe, Known, cloud, local
<1>8. CASE ChangeIdPs \/ Stabilise \/ UNCHANGED vars
  BY <1>7, <1>8 DEF ChangeIdPs, Stabilise, vars, cloud, local
<1>9. ASSUME NEW n \in Names, NEW t \in Targets \cup {None}, Rename(n, t) PROVE Safe'
  BY <1>7, <1>9 DEF Rename
<1> QED BY <1>4, <1>5, <1>6, <1>8, <1>9, AdminGrantSafe

LEMMA InitInv == Init => IInv
<1> SUFFICES ASSUME Init PROVE Typed /\ Safe
  BY DEF IInv
<1>1. Typed
  BY InitTyped
<1>2. \A w \in Workers : pc[w] = "idle" /\ job[w] = NoJob /\ reg[w] = NoReg
  BY DEF Init
<1>3. Known
  BY <1>2, KnowsNothing DEF Known
<1>4. FreshIds
  BY <1>2 DEF Init, FreshIds, NoReg, NoId
<1> QED
  BY <1>1, <1>3, <1>4
  DEF Init, Safe, UniqueIds, UniqueIdentity, UniqueGrant, FederatedIdentityBacked

LEMMA NextInv ==
  ASSUME Exclusive
  PROVE  IInv /\ [Next]_vars => IInv'
  BY StepTyped, OtherTyped, StepSafe, OtherSafe DEF IInv, Next

LEMMA Inductive ==
  ASSUME Exclusive
  PROVE  Spec => []IInv
  BY InitInv, NextInv, PTL DEF Spec

-----------------------------------------------------------------------------
(* The safety properties, for controllers that do not share a              *)
(* ServiceAccount.                                                         *)

\* EnsureWorkloadIdentity never makes a second account or federated identity
\* for a key, whatever fails, is retried or crashes.
THEOREM NoDuplicateIdentity ==
  ASSUME Exclusive PROVE Spec => []UniqueIdentity
<1>1. IInv => UniqueIdentity
  BY DEF IInv, Safe
<1> QED BY <1>1, Inductive, PTL

\* ensurePolicyBinding and ensureRoleBinding never grant a target to an account twice.
THEOREM NoDuplicateGrant ==
  ASSUME Exclusive PROVE Spec => []UniqueGrant
<1>1. IInv => UniqueGrant
  BY DEF IInv, Safe
<1> QED BY <1>1, Inductive, PTL

\* A federated identity always has the account it federates.
THEOREM AlwaysBacked ==
  ASSUME Exclusive PROVE Spec => []FederatedIdentityBacked
<1>1. IInv => FederatedIdentityBacked
  BY DEF IInv, Safe
<1> QED BY <1>1, Inductive, PTL

\* A result of EnsureWorkloadIdentity is true of the cloud when it is returned.
THEOREM EnsureDelivers ==
  ASSUME Exclusive PROVE Spec => []EnsureComplete
<1>1. ASSUME IInv, NEW w \in Workers, At(w, "ok"), job[w].op = "ensure"
      PROVE  /\ \E s \in sas : s.id = reg[w].said /\ s.key = Key(w)
             /\ \E f \in fis : /\ f.id = reg[w].fid /\ f.key = Key(w)
                               /\ f.sa = reg[w].said /\ f.attrs = job[w].attrs
             /\ \A k \in Kinds : job[w].ref[k] # None =>
                  BindingsForSA(reg[w].got[k], reg[w].said) # {}
  <2>1. /\ CallOK(w, "ok", job[w], reg[w])
        /\ Knows("ok", job[w], reg[w], sas, fis, grants) /\ EnsureDone("ok", job[w])
    BY <1>1 DEF IInv, Typed, CallsOK, Safe, Known, At, EnsureDone
  <2>2. reg[w].kind = "done" /\ \A k \in Kinds : job[w].ref[k] # None => reg[w].got[k] # None
    <3>1. reg[w].kind = "done"
      BY <2>1 DEF CallOK
    <3> QED BY <1>1, <2>1, <3>1 DEF CallOK, Kinds
  <2>3. \A k \in Kinds : reg[w].got[k] # None =>
          \E g \in grants : g.target = reg[w].got[k] /\ g.sa = reg[w].said
    BY <2>1, <2>2 DEF Knows, Kinds
  <2>4. /\ \E s \in sas : s.id = reg[w].said /\ s.key = Key(w)
        /\ \E f \in fis : /\ f.id = reg[w].fid /\ f.key = Key(w)
                          /\ f.sa = reg[w].said /\ f.attrs = job[w].attrs
    BY <2>1 DEF Knows, Key
  <2> QED BY <2>2, <2>3, <2>4 DEF BindingsForSA
<1>2. IInv => EnsureComplete
  BY <1>1 DEF EnsureComplete
<1> QED BY <1>2, Inductive, PTL

\* After DeleteWorkloadIdentity nothing is left of what it could name.
THEOREM DeleteDelivers ==
  ASSUME Exclusive PROVE Spec => []DeleteComplete
<1>1. ASSUME IInv, NEW w \in Workers, At(w, "ok"), job[w].op = "delete", reg[w].idp # None
      PROVE  /\ findByLabelsSA(Key(w)) = {} /\ findByLabelsFI(Key(w)) = {}
             /\ \A k \in Kinds : reg[w].got[k] # None =>
                  \A g \in grants : g.managed => ~(g.target = reg[w].got[k] /\ g.sa = reg[w].said)
  <2>1. /\ CallOK(w, "ok", job[w], reg[w])
        /\ Knows("ok", job[w], reg[w], sas, fis, grants) /\ DeleteDone("ok", job[w], reg[w])
    BY <1>1 DEF IInv, Typed, CallsOK, Safe, Known, At, DeleteDone
  <2>2. reg[w].kind \notin Kinds
    BY <2>1 DEF CallOK, Kinds
  <2>3. \A k \in Kinds : reg[w].got[k] # None =>
          \A g \in grants : g.managed => ~(g.target = reg[w].got[k] /\ g.sa = reg[w].said)
    BY <2>1, <2>2 DEF Knows
  <2>4. findByLabelsSA(Key(w)) = {} /\ findByLabelsFI(Key(w)) = {}
    BY <2>1 DEF Knows, Key, findByLabelsSA, findByLabelsFI
  <2> QED BY <2>3, <2>4
<1>2. IInv => DeleteComplete
  BY <1>1 DEF DeleteComplete
<1> QED BY <1>2, Inductive, PTL

-----------------------------------------------------------------------------
(* What one step of a call may do to the cloud: the facts that callers of    *)
(* EnsureWorkloadIdentity and DeleteWorkloadIdentity rely on.                *)

\* The labels at which a worker has a call underway.
Underway == {"provider"} \cup InCall

\* Only the worker's own position and locals change, and only while it is in a call.
LEMMA StepLocal ==
  ASSUME TypeOK, NEW w \in Workers, Step(w)
  PROVE  /\ pc[w] \in Underway /\ job' = job /\ UNCHANGED <<idps, named, calm>>
         /\ \A v \in Workers : v # w => pc'[v] = pc[v] /\ reg'[v] = reg[v]
<1>1. pc[w] \in Underway
  BY DEF Step, FindProviderByClusterID, ProviderMissing, ProviderWithoutIssuer, ProviderAmbiguous,
     ListServiceAccounts, CreateServiceAccount, ListFederatedIdentities, CreateFederatedIdentity,
     UpdateFederatedIdentity, ResolveRef, ListBindings, CreateBinding, DeleteListFI,
     DeleteFederatedIdentity, DeleteListSA, DeleteResolve, DeleteListBindings, DeleteBinding,
     DeleteServiceAccount, CallFails, At, Underway, InCall, EnsureCalls, DeleteCalls
<1>2. job' = job /\ UNCHANGED <<idps, named, calm>>
  BY DEF Step, FindProviderByClusterID, ProviderMissing, ProviderWithoutIssuer, ProviderAmbiguous,
     ListServiceAccounts, CreateServiceAccount, ListFederatedIdentities, CreateFederatedIdentity,
     UpdateFederatedIdentity, ResolveRef, ListBindings, CreateBinding, DeleteListFI,
     DeleteFederatedIdentity, DeleteListSA, DeleteResolve, DeleteListBindings, DeleteBinding,
     DeleteServiceAccount, CallFails, world
<1>3. \E l, r : Go(w, l, r)
  BY DEF Step, FindProviderByClusterID, ProviderMissing, ProviderWithoutIssuer, ProviderAmbiguous,
     ListServiceAccounts, CreateServiceAccount, ListFederatedIdentities, CreateFederatedIdentity,
     UpdateFederatedIdentity, ResolveRef, ListBindings, CreateBinding, DeleteListFI,
     DeleteFederatedIdentity, DeleteListSA, DeleteResolve, DeleteListBindings, DeleteBinding,
     DeleteServiceAccount, CallFails, Fail, Reply, GoAfterRef, ReplyAfterRef
<1>4. \A v \in Workers : v # w => pc'[v] = pc[v] /\ reg'[v] = reg[v]
  BY <1>3 DEF Go, TypeOK
<1> QED BY <1>1, <1>2, <1>4

\* The steps that change the cloud.
Writes(w) ==
  \/ CreateServiceAccount(w) \/ CreateFederatedIdentity(w) \/ UpdateFederatedIdentity(w)
  \/ CreateBinding(w) \/ DeleteFederatedIdentity(w) \/ DeleteServiceAccount(w) \/ DeleteBinding(w)

LEMMA StepWrites ==
  ASSUME NEW w \in Workers, Step(w)
  PROVE  UNCHANGED cloud \/ Writes(w)
  BY DEF Step, Writes, FindProviderByClusterID, ProviderMissing, ProviderWithoutIssuer,
     ProviderAmbiguous, CallFails, ListServiceAccounts, ListFederatedIdentities, ResolveRef,
     ListBindings, DeleteListFI, DeleteListSA, DeleteResolve, DeleteListBindings

\* What appears in the cloud is made by an ensure, under its own key and with
\* the identity the cloud hands out next.
LEMMA StepAdds ==
  ASSUME Typed, NEW w \in Workers, Step(w)
  PROVE  /\ \A s \in sas' : s \in sas \/ s.id = nextId
         /\ \A x \in sas' \cup fis' :
              \/ \E y \in sas \cup fis : y.key = x.key
              \/ job[w].op = "ensure" /\ x.key = Key(w)
<1> DEFINE Q == /\ \A s \in sas' : s \in sas \/ s.id = nextId
                /\ \A x \in sas' \cup fis' :
                     \/ \E y \in sas \cup fis : y.key = x.key
                     \/ job[w].op = "ensure" /\ x.key = Key(w)
<1>1. ASSUME sas' \subseteq sas, fis' \subseteq fis PROVE Q
  BY <1>1
<1>2. ASSUME pc[w] \in EnsureCalls PROVE job[w].op = "ensure"
  BY <1>2 DEF Typed, CallsOK, CallOK
<1>3. CASE CreateServiceAccount(w)
  BY <1>2, <1>3 DEF CreateServiceAccount, At, EnsureCalls
<1>4. CASE CreateFederatedIdentity(w)
  BY <1>2, <1>4 DEF CreateFederatedIdentity, At, EnsureCalls
<1>5. CASE UpdateFederatedIdentity(w)
  <2>1. \A f \in fis : [f EXCEPT !.attrs = job[w].attrs].key = f.key
    BY DEF Typed, TypeOK
  <2>2. sas' = sas /\ \A g \in fis' : \E f \in fis : g.key = f.key
    BY <1>5, <2>1 DEF UpdateFederatedIdentity
  <2> QED BY <2>2
<1>6. CASE CreateBinding(w) \/ DeleteFederatedIdentity(w) \/ DeleteServiceAccount(w)
           \/ DeleteBinding(w) \/ UNCHANGED cloud
  <2>1. sas' \subseteq sas /\ fis' \subseteq fis
    BY <1>6 DEF CreateBinding, DeleteFederatedIdentity, DeleteServiceAccount, DeleteBinding, cloud
  <2> QED BY <1>1, <2>1
<1> QED BY <1>3, <1>4, <1>5, <1>6, StepWrites DEF Writes

\* Worker w is deleting, for key k.
Deleting(w, k) == job[w].op = "delete" /\ pc[w] \in DeleteCalls /\ Key(w) = k
\* Nothing disappears but what w is deleting for, and managed grants of its account.
Kept(w) ==
  /\ \A s \in sas \ sas' : Deleting(w, s.key)
  /\ \A f \in fis : Deleting(w, f.key) \/ \E g \in fis' : g.id = f.id /\ g.sa = f.sa
  /\ \A g \in grants \ grants' : g.managed /\ \E s \in sas : s.id = g.sa /\ Deleting(w, s.key)

LEMMA StepRemoves ==
  ASSUME IInv, NEW w \in Workers, Step(w)
  PROVE  Kept(w)
<1>1. ASSUME sas \subseteq sas', fis \subseteq fis', grants \subseteq grants' PROVE Kept(w)
  BY <1>1 DEF Kept
<1>2. ASSUME pc[w] \in DeleteCalls
      PROVE  /\ Deleting(w, Key(w)) /\ Knows(pc[w], job[w], reg[w], sas, fis, grants)
             /\ Key(w) = <<job[w].sa, IssuerOf[reg[w].idp]>>
  <2>1. CallOK(w, pc[w], job[w], reg[w]) /\ Knows(pc[w], job[w], reg[w], sas, fis, grants)
    BY DEF IInv, Typed, CallsOK, Safe, Known
  <2>2. job[w].op = "delete"
    BY <1>2, <2>1 DEF CallOK
  <2> QED BY <1>2, <2>1, <2>2 DEF Key, Deleting
<1>3. CASE DeleteServiceAccount(w)
  <2>1. /\ pc[w] = "dDeleteSA" /\ sas' = {s \in sas : s.id # reg[w].said}
        /\ fis' = fis /\ grants' = grants
    BY <1>3 DEF DeleteServiceAccount, At
  <2>2. PICK s \in sas : s.id = reg[w].said /\ s.key = Key(w)
    BY <1>2, <2>1 DEF Knows, DeleteCalls
  <2>3. \A x \in sas \ sas' : x = s
    BY <2>1, <2>2 DEF IInv, Safe, UniqueIds
  <2>4. Deleting(w, s.key)
    BY <1>2, <2>1, <2>2 DEF DeleteCalls
  <2> QED BY <2>1, <2>3, <2>4 DEF Kept
<1>4. CASE DeleteFederatedIdentity(w)
  <2>1. /\ pc[w] = "dDeleteFI" /\ fis' = {f \in fis : f.id # reg[w].fid}
        /\ sas' = sas /\ grants' = grants
    BY <1>4 DEF DeleteFederatedIdentity, At
  <2>2. PICK f \in fis : f.id = reg[w].fid /\ f.key = Key(w)
    BY <1>2, <2>1 DEF Knows, DeleteCalls
  <2>3. \A g \in fis : g = f \/ g \in fis'
    BY <2>1, <2>2 DEF IInv, Safe, UniqueIds
  <2>4. Deleting(w, f.key)
    BY <1>2, <2>1, <2>2 DEF DeleteCalls
  <2> QED BY <2>1, <2>3, <2>4 DEF Kept
<1>5. CASE DeleteBinding(w)
  <2>1. /\ pc[w] = "dDeleteGrant" /\ sas' = sas /\ fis' = fis
        /\ \E i \in reg[w].todo : grants' = {g \in grants : g.id # i}
    BY <1>5 DEF DeleteBinding, At
  <2>2. PICK s \in sas : s.id = reg[w].said /\ s.key = Key(w)
    BY <1>2, <2>1 DEF Knows, WithRef, DeleteCalls
  <2>3. \A g \in grants \ grants' : g.managed /\ g.sa = reg[w].said
    BY <1>2, <2>1 DEF Knows, DeleteCalls
  <2>4. Deleting(w, s.key)
    BY <1>2, <2>1, <2>2 DEF DeleteCalls
  <2> QED BY <2>1, <2>2, <2>3, <2>4 DEF Kept
<1>6. CASE UpdateFederatedIdentity(w)
  <2>1. sas' = sas /\ grants' = grants
    BY <1>6 DEF UpdateFederatedIdentity
  <2>2. CASE fis' = fis
    BY <1>1, <2>1, <2>2
  <2>3. ASSUME NEW f \in fis, fis' = (fis \ {f}) \cup {[f EXCEPT !.attrs = job[w].attrs]}
        PROVE  Kept(w)
    <3>1. /\ [f EXCEPT !.attrs = job[w].attrs].id = f.id
          /\ [f EXCEPT !.attrs = job[w].attrs].sa = f.sa
      BY DEF IInv, Typed, TypeOK
    <3>2. \A x \in fis : \E g \in fis' : g.id = x.id /\ g.sa = x.sa
      BY <2>3, <3>1
    <3> QED BY <2>1, <3>2 DEF Kept
  <2> QED BY <1>6, <2>2, <2>3 DEF UpdateFederatedIdentity
<1>7. CASE CreateServiceAccount(w) \/ CreateFederatedIdentity(w) \/ CreateBinding(w) \/ UNCHANGED cloud
  BY <1>1, <1>7 DEF CreateServiceAccount, CreateFederatedIdentity, CreateBinding, cloud
<1> QED BY <1>3, <1>4, <1>5, <1>6, <1>7, StepWrites DEF Writes

\* Whatever disappears from the cloud was owned by the Kubernetes ServiceAccount
\* some worker was deleting for; grants of administrators never disappear.
THEOREM DeletesOnlyOwn ==
  ASSUME Exclusive PROVE Spec => RemovesOnlyOwn
<1> DEFINE For(k) == \E w \in Workers :
             job[w].op = "delete" /\ pc[w] \in DeleteCalls /\ Key(w) = k
           Own == /\ \A s \in sas \ sas' : For(s.key)
                  /\ \A f \in fis : For(f.key) \/ \E g \in fis' : g.id = f.id /\ g.sa = f.sa
                  /\ \A g \in grants \ grants' :
                       g.managed /\ \E s \in sas : s.id = g.sa /\ For(s.key)
<1>1. ASSUME sas \subseteq sas', fis \subseteq fis', grants \subseteq grants' PROVE Own
  BY <1>1
<1>2. ASSUME IInv, NEW w \in Workers, Step(w) PROVE Own
  BY <1>2, StepRemoves DEF Kept, Deleting
<1> HIDE DEF Own
<1>3. ASSUME IInv, [Next]_vars PROVE Own \/ UNCHANGED vars
  <2>1. ASSUME NEW t \in Targets, NEW s \in sas, AdminGrant(t, s) PROVE Own
    BY <1>1, <2>1 DEF AdminGrant
  <2>2. CASE UNCHANGED cloud
    BY <1>1, <2>2 DEF cloud
  <2> QED BY <1>2, <1>3, <2>1, <2>2 DEF Next, Begin, Collect, Crash, ChangeIdPs, Rename, Stabilise
<1>4. IInv /\ [Next]_vars => [Own]_vars
  BY <1>3
<1> QED BY <1>4, Inductive, PTL DEF Spec, RemovesOnlyOwn, Own, For

\* Identities start at 1, and a delete that returns without error has found a
\* provider with an issuer, unless it is one that may do without (lenient).
HadProvider(j, r) == \/ r.idp = None /\ j.lenient
                     \/ r.idp \in IdPs /\ IssuerOf[r.idp] \in Issuers
CallInv ==
  /\ \A s \in sas : s.id # NoId
  /\ \A w \in Workers : pc[w] = "ok" /\ job[w].op = "delete" => HadProvider(job[w], reg[w])

LEMMA StepHasProvider ==
  ASSUME Typed, NEW w \in Workers, Step(w), pc'[w] = "ok", job[w].op = "delete"
  PROVE  HadProvider(job[w], reg'[w])
<1>1. pc \in [Workers -> Labels] /\ reg \in [Workers -> RegType]
  BY DEF Typed, TypeOK
<1>2. \A l, r : Go(w, l, r) => pc'[w] = l /\ reg'[w] = r
  BY <1>1 DEF Go
<1>3. ~Fail(w)
  BY <1>2 DEF Fail
<1>4. CASE pc[w] = "provider"
  <2>1. job[w].op # "ensure" /\ NoReg.idp = None
    BY DEF NoReg
  <2>2. ProviderMissing(w) \/ ProviderWithoutIssuer(w)
    <3>1. \A r : ~Go(w, "dListFI", r)
      BY <1>2
    <3>2. ~FindProviderByClusterID(w)
      BY <2>1, <3>1 DEF FindProviderByClusterID
    <3> QED BY <1>3, <1>4, <3>2
    DEF Step, ProviderAmbiguous, ListServiceAccounts, CreateServiceAccount,
        ListFederatedIdentities, CreateFederatedIdentity, UpdateFederatedIdentity, ResolveRef,
        ListBindings, CreateBinding, DeleteListFI, DeleteFederatedIdentity, DeleteListSA,
        DeleteResolve, DeleteListBindings, DeleteBinding, DeleteServiceAccount, CallFails, At
  <2> QED BY <1>2, <2>1, <2>2 DEF ProviderMissing, ProviderWithoutIssuer, HadProvider
<1>5. CASE pc[w] \in InCall
  <2> SUFFICES reg'[w].idp = reg[w].idp
    BY <1>5, InCallFacts DEF HadProvider
  <2>1. job[w].op # "ensure" /\ pc[w] \in DeleteCalls
    BY <1>5, InCallFacts, ConstantsAssumption DEF InCall, CallOK
  <2>2. ASSUME NEW r \in RegType, NEW l, NEW k, Go(w, l, r) \/ Go(w, l, [r EXCEPT !.kind = k])
        PROVE  reg'[w].idp = r.idp
    BY <1>2, <2>2 DEF RegType
  <2>3. ASSUME NEW r \in RegType, GoAfterRef(w, r) \/ ReplyAfterRef(w, r) PROVE reg'[w].idp = r.idp
    BY <1>3, <2>2, <2>3 DEF GoAfterRef, ReplyAfterRef, Reply
  <2>4. reg[w] \in RegType
    BY <1>1
  <2>5. \A i : [reg[w] EXCEPT !.todo = @ \ {i}] \in RegType /\ [reg[w] EXCEPT !.todo = @ \ {i}].idp = reg[w].idp
    BY <2>4 DEF RegType
  <2>6. \A s \in sas : [reg[w] EXCEPT !.said = s.id] \in RegType /\ [reg[w] EXCEPT !.said = s.id].idp = reg[w].idp
    BY <2>4 DEF RegType, Typed, TypeOK
  <2>7. \/ DeleteServiceAccount(w) \/ DeleteBinding(w) \/ DeleteListBindings(w)
        \/ DeleteResolve(w) \/ DeleteListSA(w)
    <3>0. \A r : ~Go(w, "dListSA", r) /\ ~Go(w, "dDeleteFI", r)
      BY <1>2
    <3>1. ~DeleteListFI(w)
      BY <3>0 DEF DeleteListFI
    <3>2. ~DeleteFederatedIdentity(w)
      BY <3>0, <1>3 DEF DeleteFederatedIdentity, Reply
    <3>3. ~CallFails(w)
      BY <1>3 DEF CallFails
    <3> QED BY <2>1, <3>1, <3>2, <3>3
    DEF Step, FindProviderByClusterID, ProviderMissing, ProviderWithoutIssuer, ProviderAmbiguous,
        ListServiceAccounts, CreateServiceAccount, ListFederatedIdentities, CreateFederatedIdentity,
        UpdateFederatedIdentity, ResolveRef, ListBindings, CreateBinding, At, DeleteCalls
  <2>8. CASE DeleteServiceAccount(w)
    BY <1>2, <1>3, <2>1, <2>8 DEF DeleteServiceAccount, Reply
  <2>9. CASE DeleteBinding(w)
    BY <1>2, <1>3, <2>1, <2>3, <2>5, <2>9 DEF DeleteBinding, Reply
  <2>10. CASE DeleteListBindings(w) \/ DeleteResolve(w)
    BY <1>2, <2>1, <2>3, <2>4, <2>10 DEF DeleteListBindings, DeleteResolve
  <2>11. CASE DeleteListSA(w)
    BY <1>2, <2>1, <2>3, <2>6, <2>11 DEF DeleteListSA, findByLabelsSA
  <2> QED BY <2>7, <2>8, <2>9, <2>10, <2>11
<1> QED BY <1>4, <1>5, StepLocal DEF Underway, Typed

LEMMA CallInvariant == Spec => [](Typed /\ CallInv)
<1>1. Init => Typed /\ CallInv
  BY InitTyped DEF Init, CallInv
<1>2. Typed /\ CallInv /\ [Next]_vars => Typed' /\ CallInv'
  <2> SUFFICES ASSUME Typed, CallInv, [Next]_vars PROVE CallInv'
    BY StepTyped, OtherTyped DEF Next
  <2>a. pc \in [Workers -> Labels] /\ reg \in [Workers -> RegType] /\ nextId # NoId
    BY DEF Typed, TypeOK
  <2>1. ASSUME NEW w \in Workers, Step(w) PROVE CallInv'
    <3>1. \A s \in sas' : s.id # NoId
      BY <2>a, <2>1, StepAdds DEF CallInv
    <3>2. job' = job /\ \A v \in Workers : v # w => pc'[v] = pc[v] /\ reg'[v] = reg[v]
      BY <2>1, StepLocal DEF Typed
    <3> QED BY <2>1, <3>1, <3>2, StepHasProvider DEF CallInv
  <2>2. ASSUME NEW w \in Workers, (\E j \in JobsOf[w] : Begin(w, j)) \/ Collect(w) PROVE CallInv'
    <3>1. /\ sas' = sas /\ \E l \in {"provider", "failed", "idle"} : Go(w, l, NoReg)
          /\ \A v \in Workers : v # w => job'[v] = job[v]
      BY <2>2 DEF Begin, Collect, cloud, Typed, TypeOK
    <3> QED BY <2>a, <3>1 DEF Go, CallInv
  <2>3. CASE Crash
    BY <2>3 DEF Crash, CallInv, cloud
  <2>4. CASE UNCHANGED <<sas, pc, job, reg>>
    BY <2>4 DEF CallInv
  <2> QED BY <2>1, <2>2, <2>3, <2>4
      DEF Next, ChangeIdPs, Rename, AdminGrant, Stabilise, cloud, local, vars
<1> QED BY <1>1, <1>2, PTL DEF Spec

\* What the caller of an EnsureWorkloadIdentity that returned no error gets is
\* in the cloud, for the ServiceAccount it asked about.
LEMMA EnsureResult ==
  ASSUME IInv, CallInv, NEW w \in Workers, pc[w] = "ok", job[w].op = "ensure"
  PROVE  /\ reg[w].said # NoId
         /\ \E x \in sas : x.id = reg[w].said /\ x.key[1] = job[w].sa
         /\ \E f \in fis : f.id = reg[w].fid /\ f.sa = reg[w].said
         /\ \A k \in Kinds : reg[w].got[k] # None => BindingsForSA(reg[w].got[k], reg[w].said) # {}
<1>1. /\ CallOK(w, "ok", job[w], reg[w]) /\ EnsureDone("ok", job[w])
      /\ Knows("ok", job[w], reg[w], sas, fis, grants)
  BY DEF IInv, Typed, CallsOK, Safe, Known, EnsureDone
<1>2. reg[w].kind = "done"
  BY <1>1 DEF CallOK
<1>3. \A k \in Kinds : reg[w].got[k] # None =>
        \E g \in grants : g.target = reg[w].got[k] /\ g.sa = reg[w].said
  BY <1>1, <1>2 DEF Knows, Kinds
<1>4. /\ \E x \in sas : x.id = reg[w].said /\ x.key = <<job[w].sa, IssuerOf[reg[w].idp]>>
      /\ \E f \in fis : f.id = reg[w].fid /\ f.sa = reg[w].said
  BY <1>1 DEF Knows
<1> QED BY <1>3, <1>4 DEF CallInv, BindingsForSA

\* After a DeleteWorkloadIdentity that found its provider nothing is left of the
\* ServiceAccount, if there is one issuer.
LEMMA DeleteResult ==
  ASSUME IInv, CallInv, NEW w \in Workers, pc[w] = "ok", job[w].op = "delete", reg[w].idp # None,
         \A i, j \in Issuers : i = j
  PROVE  \A x \in sas \cup fis : x.key[1] # job[w].sa
<1>1. /\ Knows("ok", job[w], reg[w], sas, fis, grants) /\ DeleteDone("ok", job[w], reg[w])
      /\ CallOK(w, "ok", job[w], reg[w])
  BY DEF IInv, Typed, CallsOK, Safe, Known, DeleteDone
<1>2. \A x \in sas \cup fis : x.key # <<job[w].sa, IssuerOf[reg[w].idp]>>
  BY <1>1 DEF Knows
<1>3. IssuerOf[reg[w].idp] \in Issuers
  BY DEF CallInv, HadProvider
<1>4. \A x \in sas \cup fis : x.key \in K8sSAs \X Issuers
  BY DEF IInv, Typed, TypeOK, Keys
<1> QED BY <1>2, <1>3, <1>4

-----------------------------------------------------------------------------
(* The allowlist.  Here workers may share a ServiceAccount. *)

\* A target is allowed when the allowlist of its kind is empty or names it.
Allowed(t) == Allowlist[KindOf[t]] = {} \/ t \in Allowlist[KindOf[t]]

\* A worker that goes on to grant a target has had it allowed.
Checked == \A w \in Workers : pc[w] \in {"listGrant", "createGrant"} =>
             Allowed(reg[w].got[reg[w].kind])
GrantsAllowed == \A g \in grants : g.managed => Allowed(g.target)

\* Names may be given to other targets between CheckRefAllowlist and the grant;
\* what is granted is the identity that was checked.
THEOREM OnlyAllowedGranted == Spec => []AllowlistRespected
<1> DEFINE ByIdentity == \A k \in Kinds : Allowlist[k] \subseteq Targets
           Inv == Typed /\ (ByIdentity => Checked /\ GrantsAllowed)
<1>1. Init => Inv
  BY InitTyped DEF Init, Checked, GrantsAllowed
<1>2. Inv /\ [Next]_vars => Inv'
  <2> SUFFICES ASSUME Typed, ByIdentity, Checked, GrantsAllowed, [Next]_vars
               PROVE  Checked' /\ GrantsAllowed'
    BY StepTyped, OtherTyped DEF Next
  <2>a. /\ pc \in [Workers -> Labels] /\ reg \in [Workers -> RegType]
    BY DEF Typed, TypeOK
  <2>b. ASSUME NEW w \in Workers, NEW l, NEW r, Go(w, l, r),
               l \in {"listGrant", "createGrant"} => Allowed(r.got[r.kind])
        PROVE  Checked'
    <3>1. \A v \in Workers : /\ v = w => pc'[v] = l /\ reg'[v] = r
                             /\ v # w => pc'[v] = pc[v] /\ reg'[v] = reg[v]
      BY <2>a, <2>b DEF Go
    <3> QED BY <2>b, <3>1 DEF Checked
  <2>c. ASSUME NEW w \in Workers, NEW r, GoAfterRef(w, r) \/ ReplyAfterRef(w, r) PROVE Checked'
    <3>1. \A j, k : LabelFor(j, k) \notin {"listGrant", "createGrant"}
      BY DEF LabelFor
    <3> QED BY <2>b, <2>c, <3>1 DEF GoAfterRef, ReplyAfterRef, Reply, Fail
  <2>d. ASSUME NEW w \in Workers, Fail(w) PROVE Checked'
    BY <2>b, <2>d DEF Fail
  <2>1. ASSUME NEW w \in Workers, Step(w) PROVE Checked' /\ GrantsAllowed'
    <3>1. CASE CreateBinding(w)
      <4>1. pc[w] = "createGrant" /\ Allowed(reg[w].got[reg[w].kind])
        BY <3>1 DEF CreateBinding, At, Checked
      <4> QED BY <2>c, <3>1, <4>1 DEF CreateBinding, GrantsAllowed
    <3>2. CASE ResolveRef(w)
      <4> DEFINE k == reg[w].kind
                 t == Resolve(k, job[w].ref[k])
                 r == [reg[w] EXCEPT !.got[k] = t]
      <4>1. /\ pc[w] = "resolve" /\ grants' = grants
            /\ \/ Fail(w)
               \/ t # None /\ RefAllowed(k, job[w].ref[k], t) /\ Go(w, "listGrant", r)
        BY <3>2 DEF ResolveRef, At, cloud
      <4>2. k \in Kinds
        BY <4>1, InCallFacts DEF InCall, EnsureCalls, CallOK, WithRef
      <4>3. r.got[r.kind] = t
        BY <2>a, <4>2 DEF RegType
      <4>4. t # None => t \in Targets /\ KindOf[t] = k
        BY DEF Resolve
      <4>5. t # None /\ RefAllowed(k, job[w].ref[k], t) => Allowed(t)
        <5>1. SUFFICES ASSUME t # None, Allowlist[k] # {}, RefAllowed(k, job[w].ref[k], t)
                       PROVE  t \in Allowlist[k]
          BY <4>4 DEF Allowed
        <5>2. Allowlist[k] \subseteq Targets /\ Targets \cap Names = {}
          BY <4>2, ConstantsAssumption
        <5>3. job[w].ref[k] \in Targets => t = job[w].ref[k]
          BY <5>1, <5>2 DEF Resolve
        <5> HIDE DEF t
        <5> QED BY <5>1, <5>2, <5>3 DEF RefAllowed
      <4> HIDE DEF r, t
      <4> QED BY <2>b, <2>d, <4>1, <4>3, <4>5 DEF GrantsAllowed
    <3>3. CASE ListBindings(w)
      <4>1. pc[w] = "listGrant" /\ Allowed(reg[w].got[reg[w].kind]) /\ grants' = grants
        BY <3>3 DEF ListBindings, At, Checked, cloud
      <4> QED BY <2>b, <2>c, <3>3, <4>1 DEF ListBindings, GrantsAllowed
    <3>4. CASE DeleteBinding(w)
      BY <2>b, <2>c, <3>4 DEF DeleteBinding, GrantsAllowed, Reply, Fail
    <3>5. CASE FindProviderByClusterID(w) \/ ProviderMissing(w) \/ ProviderWithoutIssuer(w)
               \/ ProviderAmbiguous(w) \/ CallFails(w)
      <4>1. grants' = grants /\ \E l \in {"listSA", "dListFI", "ok", "notReady", "failed"} : \E r : Go(w, l, r)
        BY <3>5 DEF FindProviderByClusterID, ProviderMissing, ProviderWithoutIssuer,
           ProviderAmbiguous, CallFails, Fail, cloud
      <4> QED BY <2>b, <4>1 DEF GrantsAllowed
    <3>6. CASE ListServiceAccounts(w) \/ CreateServiceAccount(w) \/ ListFederatedIdentities(w)
               \/ CreateFederatedIdentity(w) \/ UpdateFederatedIdentity(w)
      <4>1. grants' = grants
        BY <3>6 DEF ListServiceAccounts, CreateServiceAccount, ListFederatedIdentities,
           CreateFederatedIdentity, UpdateFederatedIdentity, cloud
      <4>2. \/ \E l \in {"createSA", "listFI", "createFI", "updateFI", "failed"} : \E r : Go(w, l, r)
            \/ \E r : GoAfterRef(w, r) \/ ReplyAfterRef(w, r)
        BY <3>6 DEF ListServiceAccounts, CreateServiceAccount, ListFederatedIdentities,
           CreateFederatedIdentity, UpdateFederatedIdentity, Reply, Fail
      <4> QED BY <2>b, <2>c, <4>1, <4>2 DEF GrantsAllowed
    <3>7. CASE DeleteListFI(w) \/ DeleteFederatedIdentity(w) \/ DeleteListSA(w)
               \/ DeleteResolve(w) \/ DeleteListBindings(w) \/ DeleteServiceAccount(w)
      <4>1. grants' = grants
        BY <3>7 DEF DeleteListFI, DeleteFederatedIdentity, DeleteListSA, DeleteResolve,
           DeleteListBindings, DeleteServiceAccount, cloud
      <4>2. \/ \E l \in {"dListSA", "dDeleteFI", "ok", "dListGrant", "dDeleteGrant", "failed"} : \E r : Go(w, l, r)
            \/ \E r : GoAfterRef(w, r)
        BY <3>7 DEF DeleteListFI, DeleteFederatedIdentity, DeleteListSA, DeleteResolve,
           DeleteListBindings, DeleteServiceAccount, Reply, Fail
      <4> QED BY <2>b, <2>c, <4>1, <4>2 DEF GrantsAllowed
    <3> QED BY <2>1, <3>1, <3>2, <3>3, <3>4, <3>5, <3>6, <3>7 DEF Step
  <2>2. ASSUME NEW w \in Workers, (\E j \in JobsOf[w] : Begin(w, j)) \/ Collect(w)
        PROVE  Checked' /\ GrantsAllowed'
    <3>1. grants' = grants /\ \E l \in {"provider", "failed", "idle"} : Go(w, l, NoReg)
      BY <2>2 DEF Begin, Collect, cloud
    <3> QED BY <2>b, <3>1 DEF GrantsAllowed
  <2>3. CASE Crash
    BY <2>3 DEF Crash, Checked, GrantsAllowed, cloud
  <2>4. ASSUME UNCHANGED local, \A g \in grants' \ grants : ~g.managed
        PROVE  Checked' /\ GrantsAllowed'
    BY <2>4 DEF Checked, GrantsAllowed, local
  <2>5. CASE ChangeIdPs \/ Stabilise \/ UNCHANGED vars
    BY <2>4, <2>5 DEF ChangeIdPs, Stabilise, vars, cloud, local
  <2>6. ASSUME NEW n \in Names, NEW t \in Targets \cup {None}, Rename(n, t)
        PROVE  Checked' /\ GrantsAllowed'
    BY <2>4, <2>6 DEF Rename, cloud
  <2>7. ASSUME NEW t \in Targets, NEW s \in sas, AdminGrant(t, s)
        PROVE  Checked' /\ GrantsAllowed'
    BY <2>4, <2>7 DEF AdminGrant
  <2> QED BY <2>1, <2>2, <2>3, <2>5, <2>6, <2>7 DEF Next
<1>3. Inv => AllowlistRespected
  BY DEF GrantsAllowed, Allowed, AllowlistRespected
<1> HIDE DEF Inv
<1> QED BY <1>1, <1>2, <1>3, PTL DEF Spec

=============================================================================
