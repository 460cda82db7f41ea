----------------------- MODULE MCAnnotationController -----------------------
(* Instances of AnnotationController for TLC. *)
EXTENDS AnnotationController, TLC

CONSTANTS a, p, q, iss, pol, x

MCIssuerOf == [i \in IdPs |-> IF i = q THEN NoIssuer ELSE iss]
MCKindOf == [t \in Targets |-> "policy"]
MCAllowlist == [k \in Kinds |-> {}]
MCJobsOf == wsa :> JobType

Want(on, policy, at) ==
  [enabled |-> on, ref |-> [k \in Kinds |-> IF k = "policy" THEN policy ELSE None],
   attrs |-> at, deleteResources |-> TRUE]

\* Opted in and opted out.
Switched == [s \in K8sSAs |-> {Want(TRUE, pol, x), Want(FALSE, pol, x)}]
=============================================================================
