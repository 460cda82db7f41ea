------------------------- MODULE MCWorkloadIdentity -------------------------
(* Instances of WorkloadIdentity for TLC. *)
EXTENDS IdentityRefinement, TLC

CONSTANTS w1, w2, a, b, p, q, iss, pol, pol2, role, nm, x, y

Job(o, s, policy, rol, at, len) ==
  [op |-> o, sa |-> s, ref |-> [k \in Kinds |-> IF k = "policy" THEN policy ELSE rol],
   attrs |-> at, lenient |-> len]

\* Two providers carry the label at one time or another; the second has no issuer.
MCIssuerOf == p :> iss @@ q :> NoIssuer
MCKindOf == [t \in Targets |-> IF t = role THEN "role" ELSE "policy"]
MCAllowlist == [k \in Kinds |-> {}]

\* While calm nothing happens that could not happen before: safety needs no calm states.
NotYetCalm == ~calm

\* One worker: an account with a policy by name and a role, whose wanted
\* scopes change, deletes by identity and by name, and an invalid reference.
OneWorkerJobs == w1 :> {
  Job("ensure", a, nm, role, x, TRUE), Job("ensure", a, pol, None, y, TRUE),
  Job("ensure", a, Wildcard, role, x, TRUE),
  Job("delete", a, nm, role, x, TRUE), Job("delete", a, pol, None, x, FALSE)}

\* Two workers with a Kubernetes ServiceAccount each.
OneIssuer == p :> iss
TwoWorkerJobs ==
  w1 :> {Job("ensure", a, pol, None, x, TRUE), Job("delete", a, pol, None, x, TRUE)} @@
  w2 :> {Job("ensure", b, pol, None, x, TRUE), Job("delete", b, pol, None, x, TRUE)}
\* The two workers, each with its ServiceAccount, are interchangeable.
Swap == {w1 :> w2 @@ w2 :> w1 @@ a :> b @@ b :> a}

\* Policy pol is allowed and pol2 is not; the name nm denotes one at a time.
AllowPol == [k \in Kinds |-> IF k = "policy" THEN {pol} ELSE {}]

\* One worker that refers to everything by identity.
IdentityJobs == w1 :> {Job("ensure", a, pol, role, x, TRUE), Job("delete", a, pol, role, x, TRUE)}
=============================================================================
