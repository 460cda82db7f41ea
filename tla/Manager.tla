------------------------------- MODULE Manager -------------------------------
(***************************************************************************)
(* The process (cmd/main.go, internal/config, internal/thalassa): from     *)
(* flags to a validated configuration, and the manager that runs the       *)
(* controllers, behind leader election, and the pod mutator, which serves  *)
(* on every replica.  Several processes, of one or of different            *)
(* Deployments, share one lease (LeaderElectionID).                        *)
(*                                                                         *)
(* Blank stands for what is empty once trimmed.  A URL is a host with      *)
(* trailing slashes; an audience is a URL.                                 *)
(***************************************************************************)
EXTENDS Naturals, Sequences, FiniteSets

CONSTANTS
  Processes,     \* replicas, old and new
  FlagsOf,       \* the command lines each may be started with
  Hosts,         \* hosts that make a well-formed URL
  DefaultHost,   \* config.DefaultThalassaURL, DefaultWebhookAudience
  Nobody         \* no holder of the lease

Url(h, n) == [host |-> h, slashes |-> n]
Blank == Url("", 0)
Default == Url(DefaultHost, 0)
URLs == [host : STRING, slashes : Nat]

ASSUME ManagerAssumption ==
  /\ DefaultHost \in Hosts /\ "" \notin Hosts
  /\ Nobody \notin Processes
  /\ \A p \in Processes : \A f \in FlagsOf[p] :
       /\ f.controllers \in BOOLEAN /\ f.mutator \in BOOLEAN /\ f.leaderElect \in BOOLEAN
       /\ f.url \in URLs /\ f.trustedAudiences \in Seq(URLs)

VARIABLES
  phase,    \* of each process
  cfg,      \* the configuration it runs with
  lease,    \* the process that holds the lease
  certs     \* processes that have tls.crt and tls.key mounted

mvars == <<phase, cfg, lease, certs>>

NoCfg == [controllers |-> FALSE, mutator |-> FALSE]
Phases == {"down", "starting", "standby", "active"}

(***************************************************************************)
(* Configuration.                                                          *)
(***************************************************************************)
NormalizeURL(u) == IF u.slashes = 0 THEN u ELSE [u EXCEPT !.slashes = @ - 1]
ParseRequestURI(u) == u.host \in Hosts

\* Blank parts are dropped.
splitCSV(raw) ==
  LET out[n \in 0 .. Len(raw)] ==
        IF n = 0 THEN <<>>
        ELSE IF raw[n] = Blank THEN out[n - 1] ELSE Append(out[n - 1], raw[n])
  IN out[Len(raw)]

ResolveWebhookAudience(given, trusted, url) ==
  IF given # Blank THEN given
  ELSE IF trusted # <<>> THEN Head(trusted)
  ELSE IF url # Blank THEN url
  ELSE Default

\* EnableLeaderElection: webhook-only processes take no part in the election.
Elects_noMutator(f) == f.leaderElect /\ ~f.mutator
Elects_always(f) == f.leaderElect
Elects(f) == f.leaderElect /\ ~(f.mutator /\ ~f.controllers)

Config(f) ==
  LET url == NormalizeURL(f.url)
      listed == splitCSV(f.trustedAudiences)
      trusted == IF f.controllers /\ listed = <<>> THEN <<url>> ELSE listed IN
  [controllers |-> f.controllers, mutator |-> f.mutator, elects |-> Elects(f),
   url |-> url, trusted |-> trusted,
   audience |-> ResolveWebhookAudience(f.webhookAudience, trusted, url),
   identities |-> f.identities, requeue |-> f.requeue, certDir |-> f.certDir, port |-> f.port]

\* identities: organisation, cluster identity, service account and token file are all given.
ValidateController_urlUnchecked(c) ==
  c.url # Blank /\ c.identities /\ c.trusted # <<>> /\ c.requeue > 0
ValidateController(c) ==
  /\ c.url # Blank /\ ParseRequestURI(c.url)
  /\ c.identities /\ c.trusted # <<>> /\ c.requeue > 0

ValidateWebhook(c) ==
  c.certDir /\ c.port > 0 /\ c.audience # Blank /\ ParseRequestURI(c.audience)

Validate(c) ==
  /\ c.controllers \/ c.mutator
  /\ c.controllers => ValidateController(c)
  /\ c.mutator => ValidateWebhook(c)

(***************************************************************************)
(* The life of a process.                                                  *)
(***************************************************************************)
MInit ==
  /\ phase = [p \in Processes |-> "down"] /\ cfg = [p \in Processes |-> NoCfg]
  /\ lease = Nobody /\ certs = {}

Goes(p, l) == phase' = [phase EXCEPT ![p] = l]
Exits(p) == Goes(p, "down") /\ cfg' = [cfg EXCEPT ![p] = NoCfg]

\* Flags that do not validate end the process.
Launch(p, f) ==
  /\ phase[p] = "down"
  /\ LET c == Config(f) IN
     IF Validate(c) THEN Goes(p, "starting") /\ cfg' = [cfg EXCEPT ![p] = c]
     ELSE UNCHANGED <<phase, cfg>>
  /\ UNCHANGED <<lease, certs>>

\* The Thalassa client, the manager or a controller cannot be set up, or the
\* webhook server finds no certificate: exit code 1.
SetupFails(p) ==
  /\ phase[p] = "starting" /\ Exits(p)
  /\ UNCHANGED <<lease, certs>>

\* mgr.Start: the webhook serves; the controllers wait for the lease.
StartManager(p) ==
  /\ phase[p] = "starting" /\ (cfg[p].mutator => p \in certs)
  /\ Goes(p, IF cfg[p].elects THEN "standby" ELSE "active")
  /\ UNCHANGED <<cfg, lease, certs>>

AcquireLease(p) ==
  /\ phase[p] = "standby" /\ lease = Nobody
  /\ lease' = p /\ Goes(p, "active")
  /\ UNCHANGED <<cfg, certs>>

\* Stopped, crashed, or the lease could not be renewed: mgr.Start returns.  The
\* lease is not released.
Stop(p) ==
  /\ phase[p] \in {"standby", "active"} /\ Exits(p)
  /\ UNCHANGED <<lease, certs>>

\* A holder stops renewing only when it is gone (its renew deadline is shorter
\* than the duration of the lease).
LeaseExpires ==
  /\ lease # Nobody /\ ~(phase[lease] = "active" /\ cfg[lease].elects)
  /\ lease' = Nobody
  /\ UNCHANGED <<phase, cfg, certs>>

\* The secret with the certificate is mounted, or taken away.
MountCerts(p) ==
  /\ certs' = IF p \in certs THEN certs \ {p} ELSE certs \cup {p}
  /\ UNCHANGED <<phase, cfg, lease>>

Process(p) ==
  \/ \E f \in FlagsOf[p] : Launch(p, f)
  \/ SetupFails(p) \/ StartManager(p) \/ AcquireLease(p) \/ Stop(p) \/ MountCerts(p)

MNext == LeaseExpires \/ \E p \in Processes : Process(p)

MSpec == MInit /\ [][MNext]_mvars

\* The lease expires, and who waits for it keeps trying.
FairMSpec ==
  MSpec /\ WF_mvars(LeaseExpires) /\ \A p \in Processes : WF_mvars(AcquireLease(p))

RunsControllers(p) == phase[p] = "active" /\ cfg[p].controllers
\* The mutator serves on every replica, leader or not.
Serves(p) == phase[p] \in {"standby", "active"} /\ cfg[p].mutator

(***************************************************************************)
(* Properties.                                                             *)
(***************************************************************************)
\* With leader election left on for the controllers, at most one process runs
\* them at a time, also while other Deployments or newer flags are rolled out,
\* and whether or not the same processes serve admission.  The controllers'
\* models rest on it: there is one worker of each kind.
OneManagerActive ==
  (\A p \in Processes : \A f \in FlagsOf[p] : f.controllers => f.leaderElect)
  => \A p, q \in Processes : RunsControllers(p) /\ RunsControllers(q) => p = q

\* The lease is one for all Deployments, so a process without controllers must
\* never hold it: while a process waits for it, somebody comes to run the
\* controllers.
ControllersGetToRun ==
  \A p \in Processes :
    phase[p] = "standby" ~> (phase[p] # "standby" \/ \E q \in Processes : RunsControllers(q))

\* Validate fails closed, after all defaults have been filled in: a process that
\* calls the Thalassa API has a URL to call and an audience to put on federated
\* identities, and one that serves injects tokens for a well-formed audience,
\* one that its own federated identities trust unless the flag (whose default is
\* not blank) says otherwise.
RunningIsUsable ==
  \A p \in Processes :
    /\ RunsControllers(p) => /\ ParseRequestURI(NormalizeURL(cfg[p].url)) /\ cfg[p].identities
                             /\ Len(cfg[p].trusted) > 0
                             /\ \A i \in 1 .. Len(cfg[p].trusted) : cfg[p].trusted[i] # Blank
    /\ Serves(p) => ParseRequestURI(cfg[p].audience)
    /\ RunsControllers(p) /\ Serves(p) =>
         \/ \E i \in 1 .. Len(cfg[p].trusted) : cfg[p].trusted[i] = cfg[p].audience
         \/ \E f \in FlagsOf[p] : cfg[p] = Config(f) /\ f.webhookAudience # Blank
=============================================================================
