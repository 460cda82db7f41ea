------------------------- MODULE ConfigurationProofs -------------------------
(***************************************************************************)
(* What users configure: the flags of a process and the scopes of a        *)
(* federated identity.  Both are read by a loop over a list that somebody  *)
(* wrote, of any length, so the first section is about such loops; then    *)
(* come the processes, of which at most one runs the controllers, with a   *)
(* configuration that it can use, and the scopes, which are written as     *)
(* they were meant, and not more often than they change.                   *)
(***************************************************************************)
EXTENDS Manager, Scopes, FiniteSetTheorems, SequenceTheorems, WellFoundedInduction, TLAPS

(***************************************************************************)
(* Loops over lists.  Induction is stated for the set of the numbers of    *)
(* which something holds.                                                  *)
(***************************************************************************)
LEMMA LeastElement ==
  ASSUME NEW T, T \subseteq Nat, T # {}
  PROVE  \E x \in T : \A y \in T : x <= y
<1> DEFINE Less == {ss \in Nat \X Nat : ss[1] < ss[2]}
<1>1. IsWellFoundedOn(Less, Nat)
  BY NatLessThanWellFounded DEF OpToRel
<1>2. PICK x \in T : \A y \in T : <<y, x>> \notin Less
  <2> HIDE DEF Less
  <2> QED BY <1>1, WFMin
<1>3. \A y \in T : ~(y < x)
  BY <1>2
<1> QED BY <1>2, <1>3

\* What holds before the loop and is kept by each of its N rounds holds after each.
LEMMA LoopInduction ==
  ASSUME NEW N \in Nat, NEW P, 0 \in P, \A n \in 1 .. N : n - 1 \in P => n \in P
  PROVE  \A n \in 0 .. N : n \in P
<1> DEFINE T == (0 .. N) \ P
<1> SUFFICES ASSUME T # {} PROVE FALSE
  OBVIOUS
<1>1. PICK x \in T : \A y \in T : x <= y
  <2>1. T \subseteq Nat /\ T # {}
    OBVIOUS
  <2> HIDE DEF T
  <2> QED BY <2>1, LeastElement
<1>2. x \in 1 .. N /\ x - 1 \in 0 .. N /\ x - 1 \notin T
  BY <1>1
<1> QED BY <1>2

\* What the N rounds of a loop do to a value of S, and the values of the loop
\* that starts with base.
RoundsOf(N, S) == [1 .. N -> [S -> S]]
Runs(f, N, S, base, round) ==
  f \in [0 .. N -> S] /\ f[0] = base /\ \A n \in 1 .. N : f[n] = round[n][f[n - 1]]

LEMMA LoopExists ==
  ASSUME NEW N \in Nat, NEW S, NEW base \in S, NEW round \in RoundsOf(N, S)
  PROVE  \E f : Runs(f, N, S, base, round)
<1> DEFINE P == {m \in 0 .. N : \E f : Runs(f, m, S, base, round)}
<1>1. 0 \in P
  <2> DEFINE g == [n \in 0 .. 0 |-> base]
  <2>1. Runs(g, 0, S, base, round)
    BY DEF Runs
  <2>2. 0 \in 0 .. N
    OBVIOUS
  <2> HIDE DEF g
  <2> QED BY <2>1, <2>2
<1>2. ASSUME NEW m \in 1 .. N, m - 1 \in P PROVE m \in P
  <2>1. PICK f : Runs(f, m - 1, S, base, round)
    BY <1>2
  <2> DEFINE g == [n \in 0 .. m |-> IF n = m THEN round[m][f[m - 1]] ELSE f[n]]
  <2>2. f[m - 1] \in S /\ round[m][f[m - 1]] \in S
    BY <2>1 DEF Runs, RoundsOf
  <2>3. g \in [0 .. m -> S]
    BY <2>1, <2>2 DEF Runs
  <2>4. \A n \in 0 .. (m - 1) : g[n] = f[n]
    OBVIOUS
  <2>5. g[0] = base /\ \A n \in 1 .. (m - 1) : g[n] = round[n][g[n - 1]]
    BY <2>1, <2>4 DEF Runs
  <2>6. g[m] = round[m][g[m - 1]]
    BY <2>4
  <2>7. Runs(g, m, S, base, round)
    <3> HIDE DEF g
    <3> QED BY <2>3, <2>5, <2>6 DEF Runs
  <2> HIDE DEF g
  <2> QED BY <2>7
<1>3. N \in P
  <2> HIDE DEF P
  <2>1. \A n \in 0 .. N : n \in P
    BY <1>1, <1>2, LoopInduction
  <2> QED BY <2>1
<1> QED BY <1>3

\* splitCSV returns a list of what is not blank.
LEMMA SplitCSVOK ==
  ASSUME NEW raw \in Seq(URLs)
  PROVE  splitCSV(raw) \in Seq(URLs \ {Blank})
<1> DEFINE N == Len(raw)
           S == Seq(URLs \ {Blank})
           Step(f, n) == IF raw[n] = Blank THEN f[n - 1] ELSE Append(f[n - 1], raw[n])
           Rounds(f) == [n \in 0 .. N |-> IF n = 0 THEN <<>> ELSE Step(f, n)]
           out == CHOOSE f : f = Rounds(f)
           round == [n \in 1 .. N |-> [s \in S |-> IF raw[n] = Blank THEN s ELSE Append(s, raw[n])]]
<1>1. splitCSV(raw) = out[N]
  BY DEF splitCSV
<1>2. N \in Nat /\ \A n \in 1 .. N : raw[n] \in URLs
  OBVIOUS
<1>3. round \in RoundsOf(N, S)
  BY <1>2 DEF RoundsOf
<1>4. <<>> \in S
  OBVIOUS
<1>5. PICK f : Runs(f, N, S, <<>>, round)
  <2> HIDE DEF N, S, round
  <2> QED BY <1>2, <1>3, <1>4, LoopExists
<1>6. \A n \in 1 .. N : f[n] = Step(f, n)
  <2>1. \A n \in 1 .. N : n - 1 \in 0 .. N
    BY <1>2
  <2>2. \A n \in 1 .. N : f[n - 1] \in S /\ f[n] = round[n][f[n - 1]]
    <3> HIDE DEF N, S, round
    <3> QED BY <1>5, <2>1 DEF Runs
  <2> HIDE DEF N, S
  <2> QED BY <2>2
<1>7. f = Rounds(f)
  <2>1. \A n \in 0 .. N : n # 0 => n \in 1 .. N
    BY <1>2
  <2> HIDE DEF Step, N, S
  <2> QED BY <1>5, <1>6, <2>1 DEF Runs
<1>8. out = Rounds(out)
  <2> HIDE DEF Rounds
  <2> QED BY <1>7
<1>9. out[0] = <<>> /\ \A n \in 1 .. N : out[n] = Step(out, n)
  <2>1. 0 \in 0 .. N /\ \A n \in 1 .. N : n \in 0 .. N /\ n # 0
    BY <1>2
  <2> HIDE DEF out, Step, N
  <2> QED BY <1>8, <2>1
<1> DEFINE P == {n \in 0 .. N : out[n] \in S}
<1>10. 0 \in P
  <2>1. 0 \in 0 .. N
    BY <1>2
  <2> HIDE DEF N, S, out
  <2> QED BY <1>4, <1>9, <2>1
<1>11. ASSUME NEW n \in 1 .. N, n - 1 \in P PROVE n \in P
  <2> HIDE DEF out
  <2>1. out[n - 1] \in S /\ raw[n] \in URLs
    BY <1>2, <1>11
  <2>2. CASE raw[n] = Blank
    BY <1>2, <1>9, <2>1, <2>2
  <2>3. CASE raw[n] # Blank
    <3>1. out[n] = Append(out[n - 1], raw[n])
      BY <1>9, <2>3
    <3>2. raw[n] \in URLs \ {Blank}
      BY <2>1, <2>3
    <3>3. Append(out[n - 1], raw[n]) \in S
      BY <2>1, <3>2, AppendProperties
    <3>4. n \in 0 .. N
      BY <1>2
    <3> HIDE DEF S, N
    <3> QED BY <3>1, <3>3, <3>4
  <2> QED BY <2>2, <2>3
<1>12. \A n \in 0 .. N : n \in P
  <2> HIDE DEF P, N
  <2> QED BY <1>2, <1>10, <1>11, LoopInduction
<1>13. out[N] \in S
  <2> HIDE DEF out, S
  <2> QED BY <1>2, <1>12
<1> HIDE DEF out
<1> QED BY <1>1, <1>13

(***************************************************************************)
(* Processes.  The invariant ties three pieces of state together: a        *)
(* process runs with a configuration that comes from its flags and is      *)
(* valid, and one that is active and takes part in the election holds the  *)
(* lease.                                                                  *)
(***************************************************************************)
Shape ==
  /\ phase \in [Processes -> Phases]
  /\ cfg = [p \in Processes |-> cfg[p]]
Configured ==
  \A p \in Processes : phase[p] # "down" =>
    \E f \in FlagsOf[p] : cfg[p] = Config(f) /\ Validate(cfg[p])
HoldsLease ==
  \A p \in Processes : phase[p] = "active" /\ cfg[p].elects => lease = p
LeaseInv == Shape /\ Configured /\ HoldsLease

\* The flags that the configuration keeps, and when it elects.
LEMMA ConfigFields ==
  ASSUME NEW f
  PROVE  /\ Config(f).controllers = f.controllers
         /\ Config(f).elects = (f.leaderElect /\ ~(f.mutator /\ ~f.controllers))
BY DEF Config, Elects

LEMMA LeaseInitially == MInit => LeaseInv
BY DEF MInit, LeaseInv, Shape, Configured, HoldsLease, Phases, NoCfg

\* A process goes down: it no longer counts, and nothing else changes.
LEMMA LeaseExits ==
  ASSUME LeaseInv, NEW p \in Processes, Exits(p), UNCHANGED lease
  PROVE  LeaseInv'
BY DEF LeaseInv, Shape, Configured, HoldsLease, Exits, Goes, Phases, NoCfg

LEMMA LeaseStep == LeaseInv /\ [MNext]_mvars => LeaseInv'
<1> SUFFICES ASSUME LeaseInv, [MNext]_mvars PROVE LeaseInv'
  OBVIOUS
<1> USE ManagerAssumption DEF LeaseInv, Shape, Configured, HoldsLease
<1>1. CASE LeaseExpires
  BY <1>1 DEF LeaseExpires
<1>2. ASSUME NEW p \in Processes, Process(p) PROVE LeaseInv'
  <2>1. ASSUME NEW f \in FlagsOf[p], Launch(p, f) PROVE LeaseInv'
    BY <2>1 DEF Launch, Goes, Phases
  <2>2. CASE SetupFails(p)
    BY <2>2, LeaseExits DEF SetupFails
  <2>3. CASE StartManager(p)
    BY <2>3 DEF StartManager, Goes, Phases
  <2>4. CASE AcquireLease(p)
    BY <2>4 DEF AcquireLease, Goes, Phases
  <2>5. CASE Stop(p)
    BY <2>5, LeaseExits DEF Stop
  <2>6. CASE MountCerts(p)
    BY <2>6 DEF MountCerts
  <2> QED
    BY <1>2, <2>1, <2>2, <2>3, <2>4, <2>5, <2>6 DEF Process
<1>3. CASE UNCHANGED mvars
  BY <1>3 DEF mvars
<1> QED
  BY <1>1, <1>2, <1>3 DEF MNext

LEMMA LeaseInvariant == MSpec => []LeaseInv
  BY LeaseInitially, LeaseStep, PTL DEF MSpec

\* Whoever runs the controllers was started with them, so takes part in the
\* election, so holds the lease, of which there is one.
LEMMA LeaseHolderIsOne == LeaseInv => OneManagerActive
<1> SUFFICES ASSUME LeaseInv,
                    \A p \in Processes : \A f \in FlagsOf[p] : f.controllers => f.leaderElect,
                    NEW p \in Processes, NEW q \in Processes,
                    RunsControllers(p), RunsControllers(q)
             PROVE  p = q
  BY DEF OneManagerActive
<1>1. ASSUME NEW r \in Processes, RunsControllers(r) PROVE lease = r
  <2>1. PICK f \in FlagsOf[r] : cfg[r] = Config(f)
    BY <1>1 DEF LeaseInv, Configured, RunsControllers
  <2>2. f.controllers /\ f.leaderElect
    BY <1>1, <2>1, ConfigFields DEF RunsControllers
  <2>3. cfg[r].elects
    BY <2>1, <2>2, ConfigFields
  <2> QED
    BY <1>1, <2>3 DEF LeaseInv, HoldsLease, RunsControllers
<1> QED
  BY <1>1

\* Leader election with one lease for all Deployments, taken part in by every
\* process with controllers (main.go, EnableLeaderElection), leaves at most one
\* process running them, through crashes, restarts and changed flags.
THEOREM OneManager == MSpec => []OneManagerActive
  BY LeaseInvariant, LeaseHolderIsOne, PTL

\* NormalizeURL keeps the host of a URL.
LEMMA NormalizeURLOK ==
  ASSUME NEW u \in URLs
  PROVE  NormalizeURL(u) \in URLs /\ NormalizeURL(u).host = u.host
BY DEF NormalizeURL, URLs

\* The fields of a configuration that RunningIsUsable is about.
LEMMA ConfigLists ==
  ASSUME NEW f, f.url \in URLs, f.trustedAudiences \in Seq(URLs), NEW c, c = Config(f)
  PROVE  /\ c.url = NormalizeURL(f.url)
         /\ c.audience = ResolveWebhookAudience(f.webhookAudience, c.trusted, c.url)
         /\ \/ c.trusted = <<c.url>>
            \/ c.trusted \in Seq(URLs \ {Blank})
<1>1. /\ c.url = NormalizeURL(f.url)
      /\ c.audience = ResolveWebhookAudience(f.webhookAudience, c.trusted, c.url)
      /\ \/ c.trusted = <<c.url>>
         \/ c.trusted = splitCSV(f.trustedAudiences)
  BY DEF Config
<1> QED BY <1>1, SplitCSVOK

\* What Validate accepts is usable.
LEMMA ValidIsUsable ==
  ASSUME NEW f, f.url \in URLs, f.trustedAudiences \in Seq(URLs),
         NEW c, c = Config(f), Validate(c)
  PROVE  /\ c.controllers => /\ ParseRequestURI(NormalizeURL(c.url)) /\ c.identities
                             /\ Len(c.trusted) > 0
                             /\ \A i \in 1 .. Len(c.trusted) : c.trusted[i] # Blank
         /\ c.mutator => ParseRequestURI(c.audience)
         /\ c.controllers =>
              \/ \E i \in 1 .. Len(c.trusted) : c.trusted[i] = c.audience
              \/ f.webhookAudience # Blank
<1>1. /\ c.url = NormalizeURL(f.url)
      /\ c.audience = ResolveWebhookAudience(f.webhookAudience, c.trusted, c.url)
      /\ \/ c.trusted = <<c.url>>
         \/ c.trusted \in Seq(URLs \ {Blank})
  BY ConfigLists
<1>2. c.mutator => ParseRequestURI(c.audience)
  BY DEF Validate, ValidateWebhook
<1>3. ASSUME c.controllers
      PROVE  /\ ParseRequestURI(NormalizeURL(c.url)) /\ c.identities
             /\ Len(c.trusted) > 0
             /\ \A i \in 1 .. Len(c.trusted) : c.trusted[i] # Blank
             /\ \/ \E i \in 1 .. Len(c.trusted) : c.trusted[i] = c.audience
                \/ f.webhookAudience # Blank
  <2>1. c.url # Blank /\ ParseRequestURI(c.url) /\ c.identities /\ c.trusted # <<>>
    BY <1>3 DEF Validate, ValidateController
  <2>2. ParseRequestURI(NormalizeURL(c.url))
    BY <1>1, <2>1, NormalizeURLOK DEF ParseRequestURI
  <2>3. Len(c.trusted) > 0 /\ \A i \in 1 .. Len(c.trusted) : c.trusted[i] # Blank
    BY <1>1, <2>1
  <2>4. f.webhookAudience = Blank => c.audience = c.trusted[1]
    BY <1>1, <2>1 DEF ResolveWebhookAudience
  <2>5. 1 \in 1 .. Len(c.trusted)
    BY <1>1, <2>3
  <2> QED BY <2>1, <2>2, <2>3, <2>4, <2>5
<1> QED BY <1>2, <1>3

\* RunningIsUsable for any flags: what splitCSV, NormalizeURL and
\* ResolveWebhookAudience make of them is what Validate has checked.
THEOREM RunningUsable == MSpec => []RunningIsUsable
<1>1. LeaseInv => RunningIsUsable
  <2> SUFFICES ASSUME LeaseInv, NEW p \in Processes, phase[p] # "down"
               PROVE  \E f \in FlagsOf[p] :
                        /\ cfg[p] = Config(f)
                        /\ cfg[p].controllers =>
                             /\ ParseRequestURI(NormalizeURL(cfg[p].url)) /\ cfg[p].identities
                             /\ Len(cfg[p].trusted) > 0
                             /\ \A i \in 1 .. Len(cfg[p].trusted) : cfg[p].trusted[i] # Blank
                        /\ cfg[p].mutator => ParseRequestURI(cfg[p].audience)
                        /\ cfg[p].controllers =>
                             \/ \E i \in 1 .. Len(cfg[p].trusted) : cfg[p].trusted[i] = cfg[p].audience
                             \/ f.webhookAudience # Blank
    BY DEF RunningIsUsable, RunsControllers, Serves
  <2>1. PICK f \in FlagsOf[p] : cfg[p] = Config(f) /\ Validate(cfg[p])
    BY DEF LeaseInv, Configured
  <2>2. f.url \in URLs /\ f.trustedAudiences \in Seq(URLs)
    BY <2>1, ManagerAssumption
  <2> QED BY <2>1, <2>2, ValidIsUsable
<1> QED BY <1>1, LeaseInvariant, PTL

(***************************************************************************)
(* Scopes.                                                                 *)
(***************************************************************************)
\* No element twice.
Distinct(list) == \A i, j \in 1 .. Len(list) : list[i] = list[j] => i = j

\* The parts of a list up to the n-th that are not blank.
Written(list, n) == {list[i] : i \in 1 .. n} \ {Empty}

LEMMA AppendOK ==
  ASSUME NEW S, NEW s \in Seq(S), NEW e \in S
  PROVE  /\ Append(s, e) \in Seq(S)
         /\ Range(Append(s, e)) = Range(s) \cup {e}
         /\ Distinct(s) /\ e \notin Range(s) => Distinct(Append(s, e))
<1> DEFINE a == Append(s, e)
<1>1. /\ a \in Seq(S) /\ Len(a) = Len(s) + 1 /\ Len(s) \in Nat
      /\ \A i \in 1 .. Len(s) : a[i] = s[i]
      /\ a[Len(s) + 1] = e
  BY AppendProperties
<1>2. DOMAIN a = 1 .. (Len(s) + 1) /\ DOMAIN s = 1 .. Len(s)
  BY <1>1
<1> HIDE DEF a
<1>3. 1 .. (Len(s) + 1) = (1 .. Len(s)) \cup {Len(s) + 1}
  BY <1>1
<1>4. Range(a) = Range(s) \cup {e}
  BY <1>1, <1>2, <1>3 DEF Range
<1>5. ASSUME Distinct(s), e \notin Range(s) PROVE Distinct(a)
  <2>1. \A i \in 1 .. Len(s) : s[i] # e
    BY <1>2, <1>5 DEF Range
  <2> QED BY <1>1, <1>3, <1>5, <2>1 DEF Distinct
<1> QED BY <1>1, <1>4, <1>5 DEF a

\* The loop of ParseScopeList: after n rounds, the parts so far without blanks,
\* each of them once.
LEMMA ScopeLoop ==
  ASSUME NEW list \in Seq(Parts), NEW N, N = Len(list), NEW out,
         out[0] = <<>>,
         \A n \in 1 .. N : out[n] = IF list[n] = Empty \/ list[n] \in Range(out[n - 1])
                                    THEN out[n - 1] ELSE Append(out[n - 1], list[n])
  PROVE  /\ out[N] \in Seq(Parts) /\ Distinct(out[N])
         /\ Range(out[N]) = Written(list, N)
<1> DEFINE Good(n) == /\ out[n] \in Seq(Parts) /\ Distinct(out[n])
                      /\ Range(out[n]) = Written(list, n)
           P == {n \in 0 .. N : Good(n)}
<1>1. N \in Nat /\ \A n \in 1 .. N : list[n] \in Parts
  OBVIOUS
<1>2. 0 \in P
  <2>1. <<>> \in Seq(Parts) /\ Distinct(<<>>) /\ Range(<<>>) = {}
    BY DEF Distinct, Range
  <2>2. Written(list, 0) = {}
    BY DEF Written
  <2>3. Good(0)
    BY <2>1, <2>2, Zenon
  <2> HIDE DEF Good
  <2> QED BY <1>1, <2>3
<1>3. ASSUME NEW n \in 1 .. N, n - 1 \in P PROVE n \in P
  <2>1. Good(n - 1) /\ n \in 0 .. N
    BY <1>1, <1>3
  <2>2. Written(list, n) = Written(list, n - 1) \cup ({list[n]} \ {Empty})
    <3>1. 1 .. n = (1 .. (n - 1)) \cup {n}
      BY <1>1
    <3> QED BY <3>1 DEF Written
  <2>3. CASE list[n] = Empty \/ list[n] \in Range(out[n - 1])
    <3>1. out[n] = out[n - 1]
      BY <2>3
    <3>2. Written(list, n) = Written(list, n - 1)
      BY <2>1, <2>2, <2>3
    <3> QED BY <2>1, <3>1, <3>2
  <2>4. CASE list[n] # Empty /\ list[n] \notin Range(out[n - 1])
    <3>1. out[n] = Append(out[n - 1], list[n])
      BY <2>4
    <3>2. list[n] \in Parts
      BY <1>1
    <3>3. /\ out[n] \in Seq(Parts) /\ Distinct(out[n])
          /\ Range(out[n]) = Range(out[n - 1]) \cup {list[n]}
      BY <2>1, <2>4, <3>1, <3>2, AppendOK
    <3> QED BY <2>1, <2>2, <2>4, <3>3
  <2> QED BY <2>3, <2>4
<1>4. \A n \in 0 .. N : n \in P
  <2> HIDE DEF P
  <2> QED BY <1>1, <1>2, <1>3, LoopInduction
<1> QED BY <1>1, <1>4

\* ParseScopeList returns each scope that the list means, once.
LEMMA ParseScopeListOK ==
  ASSUME NEW list \in Seq(Parts), ~Rejected(list)
  PROVE  /\ ParseScopeList(list) \in Seq(Known) /\ Distinct(ParseScopeList(list))
         /\ Range(ParseScopeList(list)) = Meaning(list)
<1> DEFINE N == Len(list)
           S == Seq(Parts)
           Skips(l, n) == list[n] = Empty \/ list[n] \in Range(l)
           Step(f, n) == IF Skips(f[n - 1], n) THEN f[n - 1] ELSE Append(f[n - 1], list[n])
           Rounds(f) == [n \in 0 .. N |-> IF n = 0 THEN <<>> ELSE Step(f, n)]
           out == CHOOSE f : f = Rounds(f)
           round == [n \in 1 .. N |->
                      [l \in S |-> IF Skips(l, n) THEN l ELSE Append(l, list[n])]]
<1>1. ParseScopeList(list) = IF out[N] = <<>> THEN <<OpenID>> ELSE out[N]
  BY DEF ParseScopeList
<1>2. N \in Nat /\ \A n \in 1 .. N : list[n] \in Parts
  OBVIOUS
<1>3. round \in RoundsOf(N, S)
  <2>1. ASSUME NEW n \in 1 .. N, NEW l \in S PROVE Append(l, list[n]) \in S
    BY <1>2, AppendProperties
  <2> HIDE DEF Skips, S, N
  <2> QED BY <2>1 DEF RoundsOf
<1>4. <<>> \in S
  OBVIOUS
<1>5. PICK f : Runs(f, N, S, <<>>, round)
  <2> HIDE DEF N, S, round
  <2> QED BY <1>2, <1>3, <1>4, LoopExists
<1>6. \A n \in 1 .. N : f[n] = Step(f, n)
  <2>1. \A n \in 1 .. N : n - 1 \in 0 .. N
    BY <1>2
  <2>2. \A n \in 1 .. N : f[n - 1] \in S /\ f[n] = round[n][f[n - 1]]
    <3> HIDE DEF N, S, round
    <3> QED BY <1>5, <2>1 DEF Runs
  <2> HIDE DEF N, S, Skips
  <2> QED BY <2>2
<1>7. f = Rounds(f)
  <2>1. \A n \in 0 .. N : n # 0 => n \in 1 .. N
    BY <1>2
  <2> HIDE DEF Step, N, S
  <2> QED BY <1>5, <1>6, <2>1 DEF Runs
<1>8. out = Rounds(out)
  <2> HIDE DEF Rounds
  <2> QED BY <1>7
<1>9. out[0] = <<>> /\ \A n \in 1 .. N : out[n] = Step(out, n)
  <2>1. 0 \in 0 .. N /\ \A n \in 1 .. N : n \in 0 .. N /\ n # 0
    BY <1>2
  <2> HIDE DEF out, Step, N
  <2> QED BY <1>8, <2>1
<1>10. /\ out[N] \in Seq(Parts) /\ Distinct(out[N])
       /\ Range(out[N]) = Written(list, N)
  <2> HIDE DEF out
  <2> QED BY <1>9, ScopeLoop
<1> HIDE DEF out
<1>11. Written(list, N) = Range(list) \ {Empty}
  BY DEF Written, Range
<1>12. Range(list) \ {Empty} \subseteq Known
  BY DEF Rejected
<1>13. CASE out[N] = <<>>
  <2>1. Range(out[N]) = {}
    BY <1>13 DEF Range
  <2>2. ParseScopeList(list) = <<OpenID>> /\ Meaning(list) = {OpenID}
    BY <1>1, <1>10, <1>11, <1>13, <2>1 DEF Meaning
  <2>3. <<OpenID>> \in Seq(Known) /\ Distinct(<<OpenID>>) /\ Range(<<OpenID>>) = {OpenID}
    BY ScopesAssumption DEF Distinct, Range
  <2> QED BY <2>2, <2>3
<1>14. CASE out[N] # <<>>
  <2> DEFINE o == out[N]
  <2>1. o \in Seq(Parts) /\ o # <<>> /\ Range(o) = Range(list) \ {Empty}
    BY <1>10, <1>11, <1>14
  <2> HIDE DEF o
  <2>2. DOMAIN o = 1 .. Len(o) /\ Len(o) \in Nat /\ Len(o) # 0
    BY <2>1
  <2>3. o[1] \in Range(o) /\ \A i \in 1 .. Len(o) : o[i] \in Known
    <3>1. \A i \in 1 .. Len(o) : o[i] \in Range(o)
      BY <2>2 DEF Range
    <3>2. Range(o) \subseteq Known
      BY <1>12, <2>1
    <3> QED BY <2>2, <3>1, <3>2
  <2>4. o \in Seq(Known)
    BY <2>1, <2>3
  <2>5. Meaning(list) = Range(o)
    BY <2>1, <2>3 DEF Meaning
  <2>6. ParseScopeList(list) = o
    BY <1>1, <1>14 DEF o
  <2>7. Distinct(o)
    BY <1>10 DEF o
  <2> QED BY <2>4, <2>5, <2>6, <2>7
<1> QED BY <1>13, <1>14

\* Of lists without repetitions, scopesEqual compares the sets.
LEMMA ScopesEqualOK ==
  ASSUME NEW a \in Seq(Known), Distinct(a), NEW b \in Seq(Known), Distinct(b)
  PROVE  scopesEqual(a, b) <=> Range(a) = Range(b)
<1>1. ASSUME NEW l \in Seq(Known), Distinct(l), NEW s
      PROVE  Count(s, l) = IF s \in Range(l) THEN 1 ELSE 0
  <2> DEFINE I == {i \in DOMAIN l : l[i] = s}
  <2>1. CASE s \notin Range(l)
    <3>1. I = {}
      BY <2>1 DEF Range
    <3> QED BY <2>1, <3>1, FS_EmptySet DEF Count
  <2>2. CASE s \in Range(l)
    <3>1. PICK i \in DOMAIN l : l[i] = s
      BY <2>2 DEF Range
    <3>2. I = {i}
      BY <1>1, <3>1 DEF Distinct
    <3> QED BY <2>2, <3>2, FS_Singleton DEF Count
  <2> QED BY <2>1, <2>2
<1>2. \A s : /\ Count(s, a) = IF s \in Range(a) THEN 1 ELSE 0
             /\ Count(s, b) = IF s \in Range(b) THEN 1 ELSE 0
  BY <1>1
<1>3. \A s : Count(s, a) = Count(s, b) <=> (s \in Range(a) <=> s \in Range(b))
  BY <1>2
<1>4. scopesEqual(a, b) <=>
        \A s \in Range(a) \cup Range(b) : s \in Range(a) <=> s \in Range(b)
  BY <1>3 DEF scopesEqual
<1> QED BY <1>4

\* Swapping two elements of a list keeps what is in it, and that it is there once.
Swapped(a, i, j) == [a EXCEPT ![i] = a[j], ![j] = a[i]]

LEMMA SwapOK ==
  ASSUME NEW S, NEW a \in Seq(S), NEW i \in DOMAIN a, NEW j \in DOMAIN a,
         NEW b, b = Swapped(a, i, j)
  PROVE  b \in Seq(S) /\ Range(b) = Range(a) /\ (Distinct(a) => Distinct(b))
<1>1. /\ DOMAIN a = 1 .. Len(a) /\ Len(a) \in Nat /\ \A k \in 1 .. Len(a) : a[k] \in S
  OBVIOUS
<1>2. /\ DOMAIN b = 1 .. Len(a)
      /\ b = [k \in 1 .. Len(a) |-> b[k]]
      /\ \A k \in 1 .. Len(a) : b[k] = IF k = j THEN a[i] ELSE IF k = i THEN a[j] ELSE a[k]
  BY <1>1 DEF Swapped
<1>3. b \in Seq(S) /\ Len(b) = Len(a)
  <2>1. b \in [1 .. Len(a) -> S]
    BY <1>1, <1>2
  <2> QED BY <1>1, <2>1, LenProperties, SeqDef
<1>4. Range(b) = Range(a)
  BY <1>1, <1>2 DEF Range
<1>5. Distinct(a) => Distinct(b)
  BY <1>1, <1>2, <1>3 DEF Distinct
<1> QED BY <1>3, <1>4, <1>5

\* What the federated identity has is a list of known scopes without
\* repetitions, and after a reconcile the meaning of the user's list.
ScopesHold ==
  /\ parts \in Seq(Parts)
  /\ allowed # NoFI => allowed \in Seq(Known) /\ Distinct(allowed)
  /\ outcome = "ok" => Range(allowed) = Meaning(parts)

LEMMA ListsAreSequences == Lists \subseteq Seq(Parts)
BY ScopesAssumption, SeqDef DEF Lists

LEMMA ScopesHoldInit == SInit => ScopesHold
BY ListsAreSequences DEF SInit, ScopesHold

LEMMA ScopesHoldNext == ScopesHold /\ [SNext]_svars => ScopesHold'
<1> SUFFICES ASSUME ScopesHold, [SNext]_svars PROVE ScopesHold'
  OBVIOUS
<1>1. CASE Refuse
  BY <1>1 DEF Refuse, ScopesHold
<1>2. CASE Keep
  <2>1. /\ ParseScopeList(parts) \in Seq(Known) /\ Distinct(ParseScopeList(parts))
        /\ Range(ParseScopeList(parts)) = Meaning(parts)
    BY <1>2, ParseScopeListOK DEF Keep, ScopesHold
  <2>2. Range(allowed) = Meaning(parts)
    BY <1>2, <2>1, ScopesEqualOK DEF Keep, ScopesHold
  <2> QED BY <1>2, <2>2 DEF Keep, ScopesHold
<1>3. CASE WriteScopes
  BY <1>3, ParseScopeListOK DEF WriteScopes, ScopesHold
<1>4. CASE Reorder
  <2>1. PICK i, j \in DOMAIN allowed : allowed' = Swapped(allowed, i, j)
    BY <1>4 DEF Reorder, Swapped
  <2>2. allowed \in Seq(Known) /\ Distinct(allowed)
    BY <1>4 DEF Reorder, ScopesHold
  <2>3. /\ allowed' \in Seq(Known) /\ Range(allowed') = Range(allowed)
        /\ Distinct(allowed')
    BY <2>1, <2>2, SwapOK
  <2> QED BY <1>4, <2>3 DEF Reorder, ScopesHold
<1>5. ASSUME NEW list \in Lists, Edit(list) PROVE ScopesHold'
  BY <1>5, ListsAreSequences DEF Edit, ScopesHold
<1>6. CASE UNCHANGED svars
  BY <1>6 DEF svars, ScopesHold
<1> QED BY <1>1, <1>2, <1>3, <1>4, <1>5, <1>6 DEF SNext

LEMMA ScopesInvariant == SSpec => []ScopesHold
  BY ScopesHoldInit, ScopesHoldNext, PTL DEF SSpec

\* CarriesMeaning for lists of any length and any set of known scopes: what
\* ParseScopeList writes, and what fiNeedsUpdate leaves alone, is what the list
\* means.
THEOREM ScopesCarryMeaning == SSpec => []CarriesMeaning
<1>1. ScopesHold => CarriesMeaning
  <2> SUFFICES ASSUME ScopesHold, allowed # NoFI PROVE Range(allowed) \subseteq Known
    BY DEF ScopesHold, CarriesMeaning
  <2>1. allowed \in Seq(Known)
    BY DEF ScopesHold
  <2> QED BY <2>1 DEF Range
<1> QED BY <1>1, ScopesInvariant, PTL

\* WritesOnlyChanges for lists of any length: scopesEqual tells apart only
\* lists with different scopes, so a write changes them.
THEOREM ScopesWrittenOnce == SSpec => WritesOnlyChanges
<1> DEFINE Changes == WriteScopes /\ allowed # NoFI => Range(allowed') # Range(allowed)
<1>1. ScopesHold => Changes
  <2> SUFFICES ASSUME ScopesHold, WriteScopes, allowed # NoFI
               PROVE  Range(allowed') # Range(allowed)
    OBVIOUS
  <2>1. allowed' \in Seq(Known) /\ Distinct(allowed')
    BY ParseScopeListOK DEF WriteScopes, ScopesHold
  <2>2. allowed \in Seq(Known) /\ Distinct(allowed) /\ ~scopesEqual(allowed, allowed')
    BY DEF WriteScopes, ScopesHold
  <2> QED BY <2>1, <2>2, ScopesEqualOK
<1>2. ScopesHold => [Changes]_svars
  BY <1>1
<1> QED BY <1>2, ScopesInvariant, PTL DEF WritesOnlyChanges
=============================================================================
