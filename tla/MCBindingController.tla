------------------------ MODULE MCBindingController ------------------------
(* Instances of BindingController for TLC. *)
EXTENDS BindingController, TLC

CONSTANTS b1, a, b, p, q, iss, pol, pol2, role, nm, x, y

MCIssuerOf == [i \in IdPs |-> IF i = q THEN NoIssuer ELSE iss]
MCKindOf == [t \in Targets |-> IF t = role THEN "role" ELSE "policy"]
MCAllowlist == [k \in Kinds |-> {}]
\* The controller may be led to any call its bindings ask for.
MCJobsOf == wib :> JobType

Binding(s, policy, rol, at, conf) ==
  [sa |-> s, ref |-> [k \in Kinds |-> IF k = "policy" THEN policy ELSE rol],
   attrs |-> at, deleteResources |-> TRUE, identityConfigMap |-> conf]

\* Only bindings: nobody annotates a ServiceAccount.
NoWants == [s \in K8sSAs |-> {Unannotated}]

\* While calm nothing happens that could not happen before: safety needs no calm states.
NotYetCalm == ~calm

\* One binding with an edit that is refused: a wildcard.
RefusedEdit == b1 :> {Binding(a, pol, None, x, TRUE), Binding(a, Wildcard, None, x, FALSE)}
\* One binding that is spoiled and corrected: scopes that do not parse (y).
CorrectedBinding == b1 :> {Binding(a, pol, None, x, FALSE), Binding(a, pol, None, y, FALSE)}
\* A binding that is moved from one ServiceAccount to another.
MovedBinding == b1 :> {Binding(a, pol, None, x, FALSE), Binding(b, pol, None, x, FALSE)}
=============================================================================
