---------------------------- MODULE MCControllers ----------------------------
(* Instances of Controllers for TLC: one ServiceAccount, a binding for it and annotations on it. *)
EXTENDS Controllers, TLC

CONSTANTS b1, a, p, iss, pol, x

MCIssuerOf == [i \in IdPs |-> iss]
MCKindOf == [t \in Targets |-> "policy"]
MCAllowlist == [k \in Kinds |-> {}]
MCJobsOf == [w \in Workers |-> JobType]

Refer(policy) == [k \in Kinds |-> IF k = "policy" THEN policy ELSE None]
MCSpecsOf == b1 :> {[sa |-> a, ref |-> Refer(pol), attrs |-> x, deleteResources |-> TRUE,
                     identityConfigMap |-> FALSE]}
SamePolicy == a :> {[enabled |-> TRUE, ref |-> Refer(pol), attrs |-> x, deleteResources |-> TRUE]}

NotYetCalm == ~calm

\* The question is how the two interleave around a deletion: the first operation
\* makes a binding for the ServiceAccount, which has opted in; until the second
\* one deletes either, the two work in turn and from current copies.  Faults end
\* before anything has happened.
AroundDeletion ==
  /\ calm \/ (ops = 0 /\ nextId = NoId + 1 /\ rec = NoRec /\ srec = NoSRec)
  /\ idps = {p} /\ doubled = {}
  /\ ops = 0 => sa[a].there
  /\ ops = 1 => stored[b1] # Gone
  /\ \/ ops > 1
     \/ /\ rec = NoRec \/ srec = NoSRec
        /\ stale = {} \/ rec = NoRec
        /\ cache = stored \/ queue = {}
=============================================================================
