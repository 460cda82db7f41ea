-------------------------------- MODULE Scopes --------------------------------
(***************************************************************************)
(* Scopes of a federated identity (ParseScopes, ParseScopeList and         *)
(* knownScope in internal/wif/subject.go, scopesEqual in ensure.go): users *)
(* write a list of parts in a binding or, separated by commas, in an       *)
(* annotation; a reconcile parses it and writes the federated identity     *)
(* when its scopes differ.  A part is what is left of it once trimmed.     *)
(***************************************************************************)
EXTENDS Naturals, Sequences, FiniteSets, Functions

CONSTANTS
  Known,      \* the scopes of knownScope
  OpenID,     \* AccessCredentialsScopeOpenID
  Empty,      \* a blank part
  Wildcard,   \* "*"
  Unknown,    \* anything else
  MaxParts,   \* bound: parts of a list
  NoFI        \* there is no federated identity

Parts == Known \cup {Empty, Wildcard, Unknown}

ASSUME ScopesAssumption ==
  /\ OpenID \in Known /\ {Empty, Wildcard, Unknown} \cap Known = {} /\ MaxParts \in Nat
  /\ Cardinality({Empty, Wildcard, Unknown}) = 3

VARIABLES
  parts,     \* what the user asks for
  allowed,   \* AllowedScopes of the federated identity, or NoFI
  outcome    \* "none" since the last edit, "ok" or "error"

svars == <<parts, allowed, outcome>>

(***************************************************************************)
(* Parsing: duplicates and blanks are dropped, and nothing left is openid. *)
(***************************************************************************)
ParseScopeList(list) ==
  LET out[n \in 0 .. Len(list)] ==
        IF n = 0 THEN <<>>
        ELSE IF list[n] = Empty \/ list[n] \in Range(out[n - 1]) THEN out[n - 1]
        ELSE Append(out[n - 1], list[n])
  IN IF out[Len(list)] = <<>> THEN <<OpenID>> ELSE out[Len(list)]

Rejected_wildcardOnly(list) == Wildcard \in Range(list)
Rejected(list) == \E p \in Range(list) : p \notin Known \cup {Empty}

\* Lists are sorted before they are compared.
Count(s, list) == Cardinality({i \in DOMAIN list : list[i] = s})
scopesEqual_unsorted(a, b) == a = b
scopesEqual(a, b) == \A s \in Range(a) \cup Range(b) : Count(s, a) = Count(s, b)

(***************************************************************************)
(* Edits, reconciles, and an API that keeps no order.                      *)
(***************************************************************************)
Lists == UNION {[1 .. n -> Parts] : n \in 0 .. MaxParts}

SInit == parts \in Lists /\ allowed = NoFI /\ outcome = "none"

Edit(list) == parts' = list /\ outcome' = "none" /\ UNCHANGED allowed

Refuse == Rejected(parts) /\ outcome' = "error" /\ UNCHANGED <<parts, allowed>>

Keep ==
  /\ ~Rejected(parts) /\ allowed # NoFI /\ scopesEqual(allowed, ParseScopeList(parts))
  /\ outcome' = "ok" /\ UNCHANGED <<parts, allowed>>

WriteScopes ==
  /\ ~Rejected(parts) /\ (allowed # NoFI => ~scopesEqual(allowed, ParseScopeList(parts)))
  /\ allowed' = ParseScopeList(parts) /\ outcome' = "ok" /\ UNCHANGED parts

\* Reading it back may give the scopes in any order.
Reorder ==
  /\ allowed # NoFI
  /\ \E i, j \in DOMAIN allowed :
       allowed' = [allowed EXCEPT ![i] = allowed[j], ![j] = allowed[i]]
  /\ UNCHANGED <<parts, outcome>>

SNext == Refuse \/ Keep \/ WriteScopes \/ Reorder \/ \E list \in Lists : Edit(list)

SSpec == SInit /\ [][SNext]_svars

(***************************************************************************)
(* Properties.                                                             *)
(***************************************************************************)
\* What a list means, whatever its order, blanks and repetitions.
Meaning(list) ==
  LET named == Range(list) \ {Empty} IN IF named = {} THEN {OpenID} ELSE named

\* After a reconcile the federated identity carries exactly the scopes that the
\* user's list means (ParseScopeList), also when earlier lists, rejected ones
\* among them, came before; a list with a wildcard or an unknown scope widens
\* nothing.
CarriesMeaning ==
  /\ outcome = "ok" => Range(allowed) = Meaning(parts)
  /\ allowed # NoFI => Range(allowed) \subseteq Known

\* fiNeedsUpdate asks for a write only when there is something to change: neither
\* repeating or reordering a list nor the order in which the API returns scopes
\* makes the controller write the same scopes again (scopesEqual).
WritesOnlyChanges ==
  [][WriteScopes /\ allowed # NoFI => Range(allowed') # Range(allowed)]_svars
=============================================================================
