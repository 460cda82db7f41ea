---------------------------- MODULE MCPodMutator ----------------------------
(* Instances of PodMutator for TLC. *)
EXTENDS PodMutator, TLC

CONSTANTS org, a1, a2, proj, own

Id(o, s, j) == [organisation |-> o, account |-> s, project |-> j]
\* The annotation controller writes no organisation; a project is optional.
MCIdentities == {NoIdentity, Id(None, a1, None), Id(org, a1, None), Id(org, a2, None), Id(org, a2, proj)}

Env(o) == [n \in EnvNames |-> IF n = "organisation" THEN o ELSE None]
Mount(n, p) == [name |-> n, path |-> p]
Container(n, e, ms) == [name |-> n, env |-> e, mounts |-> ms]
Spec(cs, is, vs) == [containers |-> cs, initContainers |-> is, volumes |-> vs]
AtToken(n) == {Mount(n, ProjectedTokenMountPath)}

Plain == Spec({Container("app", Env(None), {})}, {Container("init", Env(None), {})}, {})
\* A variable and a volume of the user's own.
Custom == Spec({Container("app", Env(own), {Mount("data", "/data")})}, {},
               {[name |-> "data", token |-> None]})
\* The volume is there under the webhook's name, or an equivalent one under another.
Prepared == Spec({Container("app", Env(None), AtToken(ProjectedVolumeName))}, {},
                 {[name |-> ProjectedVolumeName, token |-> Audience]})
Equivalent == Spec({Container("app", Env(None), AtToken("custom-token"))}, {},
                   {[name |-> "custom-token", token |-> Audience]})
\* A second container does not mount the equivalent one.
Sidecar == Spec({Container("app", Env(None), AtToken("custom-token")), Container("side", Env(None), {})},
                {}, {[name |-> "custom-token", token |-> Audience]})

MCTemplates == {Plain, Custom, Prepared, Equivalent, Sidecar}
=============================================================================
