---------------------------- MODULE IdentityStore ----------------------------
(***************************************************************************)
(* What the WIF engine promises, as IAM sees it: for every key at most one *)
(* account, federated or not, with the targets that the controller granted *)
(* to it.  An account is federated before anything is granted to it, and   *)
(* nothing is revoked or removed while tokens can still be exchanged.      *)
(***************************************************************************)
CONSTANTS Keys, Targets

VARIABLES
  account,     \* keys that have a service account
  federated,   \* keys whose tokens can be exchanged
  granted      \* pairs of a key and a target granted to its account

store == <<account, federated, granted>>

StoreInit == account = {} /\ federated = {} /\ granted = {}

\* ensureServiceAccount, ensureFederatedIdentity, then the bindings.
CreateAccount(k) ==
  /\ k \notin account /\ account' = account \cup {k}
  /\ UNCHANGED <<federated, granted>>

Federate(k) ==
  /\ k \in account \ federated /\ federated' = federated \cup {k}
  /\ UNCHANGED <<account, granted>>

Grant(k, t) ==
  /\ k \in federated /\ <<k, t>> \notin granted
  /\ granted' = granted \cup {<<k, t>>}
  /\ UNCHANGED <<account, federated>>

\* DeleteWorkloadIdentity: the federated identity first, the account last.
Unfederate(k) ==
  /\ k \in federated /\ federated' = federated \ {k}
  /\ UNCHANGED <<account, granted>>

Revoke(k, t) ==
  /\ k \in account \ federated /\ <<k, t>> \in granted
  /\ granted' = granted \ {<<k, t>>}
  /\ UNCHANGED <<account, federated>>

\* A grant that was left behind is of no account any more.
RemoveAccount(k) ==
  /\ k \in account \ federated /\ account' = account \ {k}
  /\ granted' = {kt \in granted : kt[1] # k}
  /\ UNCHANGED federated

StoreNext ==
  \E k \in Keys : \/ CreateAccount(k) \/ Federate(k) \/ Unfederate(k) \/ RemoveAccount(k)
                  \/ \E t \in Targets : Grant(k, t) \/ Revoke(k, t)

StoreSpec == StoreInit /\ [][StoreNext]_store
=============================================================================
