------------------------------ MODULE MCManager ------------------------------
(* Instances of Manager for TLC. *)
EXTENDS Manager, TLC

CONSTANTS p1, p2, p3

Flags(ctl, mut, elect, url, trusted, audience) ==
  [controllers |-> ctl, mutator |-> mut, leaderElect |-> elect, url |-> url,
   trustedAudiences |-> trusted, webhookAudience |-> audience,
   identities |-> TRUE, requeue |-> 30, certDir |-> TRUE, port |-> 9443]

Custom == Url("custom", 0)
Bad == Url("bad", 1)

ControllerFlags == Flags(TRUE, FALSE, TRUE, Default, <<>>, Default)
BothFlags == Flags(TRUE, TRUE, TRUE, Url("custom", 1), <<Blank>>, Blank)
WebhookFlags == Flags(FALSE, TRUE, TRUE, Blank, <<>>, Blank)
\* What a process must not start with.
WrongFlags == {
  Flags(FALSE, FALSE, TRUE, Default, <<>>, Default), Flags(TRUE, FALSE, TRUE, Bad, <<>>, Default),
  Flags(TRUE, FALSE, TRUE, Url("", 1), <<Default>>, Default), Flags(FALSE, TRUE, TRUE, Default, <<>>, Bad),
  [ControllerFlags EXCEPT !.identities = FALSE], [ControllerFlags EXCEPT !.requeue = 0],
  [WebhookFlags EXCEPT !.port = 0], [WebhookFlags EXCEPT !.certDir = FALSE]}

\* Controllers only, a combined process that is rolled out next to it, and the webhook.
MCFlagsOf == p1 :> {ControllerFlags} \cup WrongFlags @@
             p2 :> {ControllerFlags, BothFlags} @@
             p3 :> {WebhookFlags, BothFlags}
=============================================================================
