---------------------------- MODULE MCFailoverHa ----------------------------
(* Two deployments in one run: two centers on one store (the constants of the   *)
(* configuration), and one center with two standbys that may hang, a threshold  *)
(* of two polls and DNS steering.                                               *)
EXTENDS MCFailover

VARIABLE deployment

Three == INSTANCE Failover WITH
  Centers <- {c1}, Servers <- {1, 2, 3}, Intents <- TwoStandbys,
  FailureThreshold <- 2, MayHang <- TRUE, DnsPolicy <- TRUE

MCInit ==
  \/ deployment = "ha" /\ Init
  \/ deployment = "three" /\ Three!Init

MCNext ==
  \/ deployment = "ha" /\ Next /\ UNCHANGED deployment
  \/ deployment = "three" /\ Three!Next /\ UNCHANGED deployment

\* The fairness of Failover, for the deployment whose liveness is checked.
MCFairness ==
  /\ \A c \in Centers : /\ WF_vars(deployment = "ha" /\ CenterStep(c))
                        /\ WF_vars(deployment = "ha" /\ Elect(c))
                        /\ WF_vars(deployment = "ha" /\ StartCenter(c))
  /\ WF_vars(deployment = "ha" /\ Expire)

MCSpec == MCInit /\ [][MCNext]_<<vars, deployment>> /\ MCFairness

\* Overlapping runs of two centers, each believing it leads, still settle: at most
\* one reachable server is left acting as primary while auto_failover is armed, and
\* an active primary that stays unreachable while the standby stays reachable does
\* not stay the recorded one.  One center never takes the role from the recorded
\* active primary: only a restart of that server does.  In both deployments the
\* recorded primary and every service record name a server that was designated primary
\* or acknowledged a promote.
HaSettles ==
  /\ [](IF deployment = "ha" THEN RolesSound ELSE Three!RolesSound)
  /\ <>[](deployment = "ha" => OnePrimary)
  /\ []<>(deployment = "ha" => ~ActiveLost)
  /\ [][deployment = "three" => Three!KeepsActive]_vars
=============================================================================
