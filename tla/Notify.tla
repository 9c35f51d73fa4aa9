------------------------------- MODULE Notify -------------------------------
(* Alerts, their life on the alert screen, and the dispatchers of the nodes that *)
(* share the store: each polls the undelivered alerts, leases one at a time,     *)
(* sends it to the targets it matches, and marks it or gives it back.            *)
EXTENDS Naturals, FiniteSets, FiniteSetsExt

CONSTANTS
  Nodes,        \* the processes that run a dispatcher
  Alerts,       \* alerts, numbered in the order they are raised
  Severity,     \* the rank of each alert, 1 .. 3
  Targets,      \* names of notification targets
  Floor,        \* the min_severity of each target
  MaxEdits,     \* bound on edits of the targets
  MaxFaults     \* bound on failing deliveries, failing rows and crashes

VARIABLES
  alert,        \* the alert rows
  target,       \* the target rows: "absent", "on" or "off"
  node,         \* the pass of each dispatcher
  sent,         \* how often a target accepted an alert
  steady,       \* per alert: matching targets that were on when it was raised and
                \* were left alone since
  again,        \* alerts that had to be sent again
  edits, faults

vars == <<alert, target, node, sent, steady, again, edits, faults>>

Idle == [at |-> "idle", list |-> {}, known |-> {}, todo |-> {}, ok |-> TRUE]
NoAlert == [state |-> "none", notified |-> FALSE, claim |-> "none"]

\* rank and matches: enabled, and severe enough for the target.
Matches(t, a) == Severity[a] >= Floor[t]

\* raise_alert: a domain found something wrong.
Raise(a) ==
  /\ alert[a].state = "none"
  /\ \A b \in Alerts : b < a => alert[b].state # "none"
  /\ alert' = [alert EXCEPT ![a] = [NoAlert EXCEPT !.state = "open"]]
  /\ steady' = [steady EXCEPT ![a] = {t \in Targets : target[t] = "on" /\ Matches(t, a)}]
  /\ UNCHANGED <<target, node, sent, again, edits, faults>>

\* acknowledge_alert: only an open alert changes.
Acknowledge(a) ==
  /\ alert[a].state = "open"
  /\ alert' = [alert EXCEPT ![a].state = "acknowledged"]
  /\ UNCHANGED <<target, node, sent, steady, again, edits, faults>>

\* resolve_alert: any alert that is not resolved.
Resolve(a) ==
  /\ alert[a].state \in {"open", "acknowledged"}
  /\ alert' = [alert EXCEPT ![a].state = "resolved"]
  /\ UNCHANGED <<target, node, sent, steady, again, edits, faults>>

Edit(t, s) ==
  /\ edits < MaxEdits
  /\ edits' = edits + 1
  /\ target' = [target EXCEPT ![t] = s]
  /\ steady' = [a \in Alerts |-> steady[a] \ {t}]
  /\ UNCHANGED <<alert, node, sent, again, faults>>

\* create_notification_target: names are unique.
CreateTarget(t) == target[t] = "absent" /\ \E s \in {"on", "off"} : Edit(t, s)

\* set_notification_target_enabled.
EnableTarget(t) == target[t] # "absent" /\ \E s \in {"on", "off"} : s # target[t] /\ Edit(t, s)

DeleteTarget(t) == target[t] # "absent" /\ Edit(t, "absent")

----------------------------------------------------------------------------
(* dispatch_pending.                                                          *)

\* list_undelivered_alerts (nothing raises a suppressed alert).
Undelivered ==
  {a \in Alerts : alert[a].state = "open" /\ ~alert[a].notified}

ListAlerts(n) ==
  /\ node[n].at = "idle"
  /\ Undelivered # {}
  /\ node' = [node EXCEPT ![n] = [Idle EXCEPT !.at = "targets", !.list = Undelivered]]
  /\ UNCHANGED <<alert, target, sent, steady, again, edits, faults>>

\* list_notification_targets: one reading for the whole pass.
ListTargets(n) ==
  /\ node[n].at = "targets"
  /\ node' = [node EXCEPT ![n].at = "claim", ![n].known = {t \in Targets : target[t] = "on"}]
  /\ UNCHANGED <<alert, target, sent, steady, again, edits, faults>>

\* claim_alert_for_notify: not delivered, and nobody's, or too long somebody's.
Claimable(a) == ~alert[a].notified /\ alert[a].claim # "fresh"

\* The next alert of the list: lease it, or leave it to whoever holds it. (A lease
\* query that fails leaves it, too.)
Claim(n) ==
  /\ node[n].at = "claim" /\ node[n].list # {}
  /\ LET a == Min(node[n].list) IN
     \/ /\ Claimable(a)
        /\ alert' = [alert EXCEPT ![a].claim = "fresh"]
        /\ again' = IF alert[a].claim = "stale" THEN again \cup {a} ELSE again
        /\ node' = [node EXCEPT ![n].at = "deliver", ![n].ok = TRUE,
                                ![n].todo = {t \in node[n].known : Matches(t, a)}]
        /\ UNCHANGED faults
     \/ /\ \/ ~Claimable(a) /\ UNCHANGED faults
           \/ faults < MaxFaults /\ faults' = faults + 1
        /\ node' = [node EXCEPT ![n].list = @ \ {a}]
        /\ UNCHANGED <<alert, again>>
  /\ UNCHANGED <<target, sent, steady, edits>>

\* deliver: the webhook's or the mail server's answer.
Deliver(n) ==
  /\ node[n].at = "deliver"
  /\ \E t \in node[n].todo, ok \in BOOLEAN :
       /\ ok \/ faults < MaxFaults
       /\ faults' = IF ok THEN faults ELSE faults + 1
       /\ node' = [node EXCEPT ![n].todo = @ \ {t}, ![n].ok = @ /\ ok]
       /\ sent' = [sent EXCEPT ![Min(node[n].list)][t] = IF ok /\ @ < 2 THEN @ + 1 ELSE @]
  /\ UNCHANGED <<alert, target, steady, again, edits>>

\* Mutant: a refusal does not keep the alert from being marked.
AcceptedAny(n) == TRUE

\* all_ok.
Accepted(n) == node[n].ok

\* mark_alert_notified after a delivery to all, revert_alert_notified (of an open
\* alert) after any failure; either may fail, and the lease runs out instead.
Settle(n) ==
  /\ node[n].at = "deliver" /\ node[n].todo = {}
  /\ LET a == Min(node[n].list) IN
     /\ \/ /\ IF Accepted(n) THEN alert' = [alert EXCEPT ![a].notified = TRUE]
              ELSE alert' = [alert EXCEPT ![a].claim = IF alert[a].state = "open" THEN "none" ELSE @]
           /\ UNCHANGED faults
        \/ faults < MaxFaults /\ faults' = faults + 1 /\ UNCHANGED alert
     /\ again' = IF Accepted(n) THEN again ELSE again \cup {a}
     /\ node' = [node EXCEPT ![n].at = "claim", ![n].list = @ \ {a}]
  /\ UNCHANGED <<target, sent, steady, edits>>

\* The pass is over, until the next tick of POLL_INTERVAL.
EndPass(n) ==
  /\ node[n].at = "claim" /\ node[n].list = {}
  /\ node' = [node EXCEPT ![n] = Idle]
  /\ UNCHANGED <<alert, target, sent, steady, again, edits, faults>>

\* NOTIFY_LEASE_SECS pass, whether the holder is still at it or not.
Age(a) ==
  /\ alert[a].claim = "fresh" /\ ~alert[a].notified
  /\ alert' = [alert EXCEPT ![a].claim = "stale"]
  /\ UNCHANGED <<target, node, sent, steady, again, edits, faults>>

Crash(n) ==
  /\ node[n].at # "idle"
  /\ faults < MaxFaults
  /\ faults' = faults + 1
  /\ node' = [node EXCEPT ![n] = Idle]
  /\ UNCHANGED <<alert, target, sent, steady, again, edits>>

Dispatch(n) == ListAlerts(n) \/ ListTargets(n) \/ Claim(n) \/ Deliver(n) \/ Settle(n) \/ EndPass(n)

Init ==
  /\ alert = [a \in Alerts |-> NoAlert]
  /\ target \in [Targets -> {"absent", "on"}]
  /\ node = [n \in Nodes |-> Idle]
  /\ sent = [a \in Alerts |-> [t \in Targets |-> 0]]
  /\ steady = [a \in Alerts |-> {}]
  /\ again = {} /\ edits = 0 /\ faults = 0

Next ==
  \/ \E a \in Alerts : Raise(a) \/ Acknowledge(a) \/ Resolve(a) \/ Age(a)
  \/ \E t \in Targets : CreateTarget(t) \/ EnableTarget(t) \/ DeleteTarget(t)
  \/ \E n \in Nodes : Dispatch(n) \/ Crash(n)

Fairness ==
  /\ \A n \in Nodes : WF_vars(Dispatch(n))
  /\ \A a \in Alerts : WF_vars(Age(a))

Spec == Init /\ [][Next]_vars /\ Fairness

----------------------------------------------------------------------------
TypeOK ==
  /\ \A n \in Nodes : node[n].at = "deliver" => node[n].list # {} /\ node[n].todo \subseteq node[n].known
  /\ again \subseteq Alerts

\* An alert that counts as delivered was accepted by every matching target that stood
\* there, enabled, since the alert was raised.
NotifiedTold ==
  \A a \in Alerts : alert[a].notified => \A t \in steady[a] : sent[a][t] > 0

\* No target gets an alert twice, unless another target refused it, or the lease ran out
\* before the alert was marked.
SentOnce == \A a \in Alerts, t \in Targets : sent[a][t] > 1 => a \in again

\* An open alert does not stay undelivered.
Delivered == \A a \in Alerts : []<>(a \notin Undelivered)
=============================================================================
