------------------------- MODULE IdentityRefinement -------------------------
(***************************************************************************)
(* WorkloadIdentity implements IdentityStore: the calls of all workers,    *)
(* with their lists, retries, lost replies and crashes, change the cloud   *)
(* as if by the atomic operations of IdentityStore.  Updates of federated  *)
(* identities and grants of administrators are stuttering steps.           *)
(***************************************************************************)
EXTENDS WorkloadIdentity

\* The managed grants of the account that key k has now.
GrantedNow == {kt \in Keys \X Targets :
                 \E s \in sas : s.key = kt[1] /\ \E g \in ManagedBindingsForSA(kt[2], s.id) : TRUE}

Store == INSTANCE IdentityStore WITH
           account <- {s.key : s \in sas},
           federated <- {f.key : f \in fis},
           granted <- GrantedNow

\* For workers that share no Kubernetes ServiceAccount, EnsureWorkloadIdentity
\* and DeleteWorkloadIdentity implement IdentityStore: a key's tokens become
\* exchangeable before its grants are made, and grants and account go away
\* only when they no longer are, however calls interleave, fail and repeat.
ImplementsIdentityStore == Store!StoreSpec
=============================================================================
