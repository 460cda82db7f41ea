--------------------------- MODULE ServiceAccounts ---------------------------
(***************************************************************************)
(* Kubernetes ServiceAccounts as both controllers see them: in the API     *)
(* server, and in the informer cache of the manager that every Get reads.  *)
(*                                                                         *)
(* An Update carries the resource version of the copy it was made from and *)
(* is refused when the stored object has moved on.  Versions are abstract: *)
(* stale holds the accounts whose cached copy is not the latest version.   *)
(* Annotations are reduced to the ones that the code reads again: last     *)
(* error, last reconcile and provider id are written and never read.       *)
(***************************************************************************)
EXTENDS WorkloadIdentity

CONSTANTS
  BadAttrs,     \* attributes whose scopes do not parse
  WantsOf,      \* the annotations users may put on each ServiceAccount
  MaxOps        \* bound: creations, edits and deletions by users

AnnotationsType == [enabled : BOOLEAN, ref : [Kinds -> Refs \cup {None, Wildcard}],
                    attrs : Attrs, deleteResources : BOOLEAN]
Unannotated == [enabled |-> FALSE, deleteResources |-> FALSE]

ASSUME ServiceAccountsAssumption ==
  /\ BadAttrs \subseteq Attrs
  /\ WantsOf \in [K8sSAs -> SUBSET (AnnotationsType \cup {Unannotated})]
  /\ MaxOps \in Nat

VARIABLES
  sa,        \* ServiceAccounts in the API server
  saCache,   \* the manager's copy of them
  stale,     \* those whose copy is not the latest version
  ops        \* what users have done so far

accounts == <<sa, saCache, stale>>

Phases == {"", "Pending", "Ready", "Error"}

\* What users want, the finalizer and the deletion mark, and what the
\* controllers have written: status, identities, and organisation-id.
ServiceAccountType ==
  [there : BOOLEAN, want : AnnotationsType \cup {Unannotated}, fin : BOOLEAN, del : BOOLEAN,
   status : Phases, said : Nat, fid : Nat, policy : Targets \cup {None}, org : BOOLEAN]
NoSA == [there |-> FALSE, want |-> Unannotated, fin |-> FALSE, del |-> FALSE,
         status |-> "", said |-> NoId, fid |-> NoId, policy |-> None, org |-> FALSE]
Identities(o) == [said |-> o.said, fid |-> o.fid, policy |-> o.policy]
NewSA(w) == [NoSA EXCEPT !.there = TRUE, !.want = w]

\* What a manager may find when it is first started.
Found(s) == {NoSA} \cup {NewSA(w) : w \in WantsOf[s]}
AccountsInit ==
  /\ sa \in [K8sSAs -> UNION {Found(s) : s \in K8sSAs}]
  /\ \A s \in K8sSAs : sa[s] \in Found(s)
  /\ saCache = sa /\ stale = {} /\ ops = 0

\* An update that changes nothing makes no new version.
Write(s, o) ==
  /\ sa' = [sa EXCEPT ![s] = o]
  /\ stale' = IF o = sa[s] THEN stale ELSE stale \cup {s}
  /\ UNCHANGED saCache

\* A time stamp in seconds goes with this one, so that it may change nothing else.
WriteStamped(s, o) ==
  /\ sa' = [sa EXCEPT ![s] = o]
  /\ \/ stale' = stale \cup {s}
     \/ o = sa[s] /\ stale' = stale
  /\ UNCHANGED saCache

\* A watch event brings the cache up to date.
Refresh(s) ==
  /\ s \in stale
  /\ saCache' = [saCache EXCEPT ![s] = sa[s]] /\ stale' = stale \ {s}
  /\ UNCHANGED sa

\* A process that starts lists everything.
RefreshAll == saCache' = sa /\ stale' = {} /\ UNCHANGED sa

UserOp == ops < MaxOps /\ ops' = ops + 1

CreateSA(s) == UserOp /\ ~sa[s].there /\ \E w \in WantsOf[s] : Write(s, NewSA(w))

AnnotateSA(s) ==
  /\ UserOp /\ sa[s].there
  /\ \E w \in WantsOf[s] \ {sa[s].want} : Write(s, [sa[s] EXCEPT !.want = w])

\* A finalizer turns a deletion into a mark.
DeleteSA(s) ==
  /\ UserOp /\ sa[s].there /\ ~sa[s].del
  /\ Write(s, IF sa[s].fin THEN [sa[s] EXCEPT !.del = TRUE] ELSE NoSA)

AccountsTypeOK ==
  /\ sa \in [K8sSAs -> ServiceAccountType] /\ saCache \in [K8sSAs -> ServiceAccountType]
  /\ stale \subseteq K8sSAs /\ ops \in 0 .. MaxOps
=============================================================================
