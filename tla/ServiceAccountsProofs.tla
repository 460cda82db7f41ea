------------------------- MODULE ServiceAccountsProofs -------------------------
(***************************************************************************)
(* What the proofs about both controllers use of ServiceAccounts: writes,  *)
(* watch events and users keep the accounts typed, and a copy that is not  *)
(* stale is the stored account.                                            *)
(***************************************************************************)
EXTENDS ServiceAccounts, TLAPS

Coherent == \A s \in K8sSAs : s \notin stale => saCache[s] = sa[s]
AccountsOK == AccountsTypeOK /\ Coherent

\* There are only annotations that users write.
WantsKnown == \A s \in K8sSAs : /\ sa[s].there => sa[s].want \in WantsOf[s]
                                /\ saCache[s].there => saCache[s].want \in WantsOf[s]

LEMMA NoSAType ==
  /\ NoSA \in ServiceAccountType /\ ~NoSA.there /\ ~NoSA.fin /\ ~NoSA.del
  /\ NoSA.status = "" /\ NoSA.said = NoId /\ NoSA.fid = NoId
  BY DEF NoSA, ServiceAccountType, Phases, NoId

LEMMA NewSAType ==
  ASSUME NEW s \in K8sSAs, NEW w \in WantsOf[s]
  PROVE  /\ NewSA(w) \in ServiceAccountType /\ NewSA(w).there /\ NewSA(w).want = w
         /\ ~NewSA(w).fin /\ ~NewSA(w).del /\ NewSA(w).status = ""
<1>1. w \in AnnotationsType \cup {Unannotated}
  BY ServiceAccountsAssumption
<1> QED BY <1>1 DEF NewSA, NoSA, ServiceAccountType, Phases, NoId

LEMMA AccountsInitOK ==
  ASSUME AccountsInit
  PROVE  AccountsOK /\ WantsKnown /\ \A s \in K8sSAs : ~sa[s].fin /\ sa[s].status = ""
<1>1. \A s \in K8sSAs : /\ sa[s] \in ServiceAccountType /\ ~sa[s].fin /\ sa[s].status = ""
                        /\ sa[s].there => sa[s].want \in WantsOf[s]
  <2> SUFFICES ASSUME NEW s \in K8sSAs
               PROVE  /\ sa[s] \in ServiceAccountType /\ ~sa[s].fin /\ sa[s].status = ""
                      /\ sa[s].there => sa[s].want \in WantsOf[s]
    OBVIOUS
  <2>1. sa[s] = NoSA \/ \E w \in WantsOf[s] : sa[s] = NewSA(w)
    BY DEF AccountsInit, Found
  <2> QED BY <2>1, NoSAType, NewSAType
<1>2. /\ sa \in [K8sSAs -> ServiceAccountType] /\ saCache = sa /\ stale = {} /\ ops = 0
  BY <1>1 DEF AccountsInit
<1>3. 0 \in 0 .. MaxOps
  BY ServiceAccountsAssumption
<1>4. AccountsTypeOK
  BY <1>2, <1>3 DEF AccountsTypeOK
<1> QED BY <1>1, <1>2, <1>4 DEF AccountsOK, Coherent, WantsKnown

\* What a write leaves of the accounts: the written one has its new value, in
\* the store and, once the copy is fresh again, in the cache.
LEMMA WriteOK ==
  ASSUME AccountsOK, NEW s \in K8sSAs, NEW o \in ServiceAccountType,
         Write(s, o) \/ WriteStamped(s, o)
  PROVE  /\ Coherent' /\ saCache' = saCache /\ stale' \subseteq K8sSAs
         /\ sa' \in [K8sSAs -> ServiceAccountType] /\ saCache' \in [K8sSAs -> ServiceAccountType]
         /\ sa'[s] = o /\ \A t \in K8sSAs : t # s => sa'[t] = sa[t]
         /\ stale \subseteq stale' /\ stale' \subseteq stale \cup {s}
<1>1. /\ sa' = [sa EXCEPT ![s] = o] /\ saCache' = saCache
      /\ stale' = stale \cup {s} \/ (o = sa[s] /\ stale' = stale)
  BY DEF Write, WriteStamped
<1>2. /\ sa \in [K8sSAs -> ServiceAccountType] /\ saCache \in [K8sSAs -> ServiceAccountType]
      /\ stale \subseteq K8sSAs
  BY DEF AccountsOK, AccountsTypeOK
<1> QED BY <1>1, <1>2 DEF AccountsOK, Coherent

LEMMA RefreshOK ==
  ASSUME AccountsOK, \/ \E s \in K8sSAs : Refresh(s)
                     \/ RefreshAll
  PROVE  /\ Coherent' /\ sa' = sa /\ stale' \subseteq stale
         /\ saCache' \in [K8sSAs -> ServiceAccountType]
         /\ \A s \in K8sSAs : saCache'[s] \in {sa[s], saCache[s]}
  BY DEF Refresh, RefreshAll, AccountsOK, AccountsTypeOK, Coherent

\* A user's operation: only the account in question changes, and it keeps its
\* finalizer, status and identities unless it is new or goes.
LEMMA UserOK ==
  ASSUME AccountsOK, WantsKnown, NEW s \in K8sSAs, CreateSA(s) \/ AnnotateSA(s) \/ DeleteSA(s)
  PROVE  /\ AccountsOK' /\ WantsKnown' /\ saCache' = saCache /\ ops' = ops + 1
         /\ stale' \subseteq stale \cup {s}
         /\ \A t \in K8sSAs : t # s => sa'[t] = sa[t]
         /\ \/ ~sa[s].there /\ ~sa'[s].fin /\ sa'[s].status = ""
            \/ ~sa[s].fin /\ sa'[s] = NoSA
            \/ /\ sa[s].there /\ sa'[s].there /\ sa'[s].fin = sa[s].fin
               /\ sa'[s].status = sa[s].status /\ sa'[s].org = sa[s].org
               /\ Identities(sa'[s]) = Identities(sa[s])
<1>1. /\ sa \in [K8sSAs -> ServiceAccountType] /\ sa[s] \in ServiceAccountType
      /\ ops' \in 0 .. MaxOps /\ ops' = ops + 1
  BY ServiceAccountsAssumption DEF AccountsOK, AccountsTypeOK, CreateSA, AnnotateSA, DeleteSA, UserOp
<1>2. ASSUME NEW o \in ServiceAccountType, Write(s, o), o.there => o.want \in WantsOf[s]
      PROVE  /\ AccountsOK' /\ WantsKnown' /\ saCache' = saCache /\ stale' \subseteq stale \cup {s}
             /\ sa'[s] = o /\ \A t \in K8sSAs : t # s => sa'[t] = sa[t]
  BY <1>1, <1>2, WriteOK DEF AccountsOK, AccountsTypeOK, WantsKnown
<1>3. CASE CreateSA(s)
  <2>1. PICK w \in WantsOf[s] : Write(s, NewSA(w)) /\ ~sa[s].there
    BY <1>3 DEF CreateSA
  <2>2. /\ NewSA(w) \in ServiceAccountType /\ NewSA(w).there /\ NewSA(w).want = w
        /\ ~NewSA(w).fin /\ NewSA(w).status = ""
    BY NewSAType
  <2>3. /\ AccountsOK' /\ WantsKnown' /\ saCache' = saCache /\ sa'[s] = NewSA(w)
        /\ stale' \subseteq stale \cup {s}
        /\ \A t \in K8sSAs : t # s => sa'[t] = sa[t]
    BY <1>2, <2>1, <2>2
  <2> QED BY <1>1, <2>1, <2>2, <2>3
<1>4. CASE AnnotateSA(s)
  <2>1. PICK w \in WantsOf[s] : Write(s, [sa[s] EXCEPT !.want = w]) /\ sa[s].there
    BY <1>4 DEF AnnotateSA
  <2> DEFINE o == [sa[s] EXCEPT !.want = w]
  <2>2. w \in AnnotationsType \cup {Unannotated}
    BY ServiceAccountsAssumption
  <2>3. /\ o \in ServiceAccountType /\ o.there /\ o.want = w
        /\ o.fin = sa[s].fin /\ o.status = sa[s].status /\ o.org = sa[s].org
        /\ Identities(o) = Identities(sa[s])
    BY <1>1, <2>1, <2>2 DEF ServiceAccountType, Identities
  <2> QED BY <1>1, <1>2, <2>1, <2>3
<1>5. CASE DeleteSA(s) /\ sa[s].fin
  <2> DEFINE o == [sa[s] EXCEPT !.del = TRUE]
  <2>1. Write(s, o) /\ sa[s].there
    BY <1>5 DEF DeleteSA
  <2>2. /\ o \in ServiceAccountType /\ o.there /\ o.want = sa[s].want
        /\ o.fin = sa[s].fin /\ o.status = sa[s].status /\ o.org = sa[s].org
        /\ Identities(o) = Identities(sa[s])
    BY <1>1, <2>1 DEF ServiceAccountType, Identities
  <2> QED BY <1>1, <1>2, <2>1, <2>2 DEF WantsKnown
<1>6. CASE DeleteSA(s) /\ ~sa[s].fin
  <2>1. Write(s, NoSA)
    BY <1>6 DEF DeleteSA
  <2> QED BY <1>1, <1>2, <1>6, <2>1, NoSAType
<1> QED BY <1>3, <1>4, <1>5, <1>6
=============================================================================
