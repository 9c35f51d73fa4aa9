-------------------------------- MODULE Watch --------------------------------
(* Monitoring: the hosts, rules, groups and maintenance windows of the console,  *)
(* and the collector, which reads them once a pass, probes every host and        *)
(* raises the alerts that are not open yet.                                      *)
EXTENDS Naturals, FiniteSets

CONSTANTS
  Hosts,        \* names of hosts
  Rules,        \* ids of rules
  Windows,      \* ids of maintenance windows
  MaxEdits,     \* bound on the edits of the console
  MaxChanges,   \* bound on what happens to hosts and alerts
  MaxFaults     \* bound on failing reads

VARIABLES
  hosts,        \* the host rows
  rules,        \* the target of each rule: a host, "all", or "off" (disabled or absent)
  group,        \* the members of the host group
  windows,      \* the target of each running window: a host, "group", "nobody", or "off"
  del,          \* delete_watch_host under way: what is left of it, or NoDelete
  up,           \* the hosts that answer probes
  bad,          \* the hosts whose last metric is past the threshold
  open,         \* open alerts: how many for each host and rule
  pass,         \* the collector's pass
  under,        \* <<h, w>>: window w covered h ever since the pass began
  loud,         \* was a host alerted that a window covered all the while?
  blind,        \* did a read fail?
  edits, changes, faults

console == <<hosts, rules, group, windows, del, edits>>
vars == <<hosts, rules, group, windows, del, up, bad, open, pass, under, loud, blind,
          edits, changes, faults>>

Reach == "reachability"
NoDelete == [host |-> "none", at |-> "none", members |-> {}]
NoPass == [at |-> "idle", hosts |-> {}, windows |-> [w \in Windows |-> "off"], quiet |-> {},
           rules |-> [r \in Rules |-> "off"], open |-> {}, todo |-> {}]

\* hosts_under_maintenance, of given windows and members.
Covered(ws, members) ==
  {h \in Hosts : \E w \in Windows : ws[w] = h \/ (ws[w] = "group" /\ h \in members)}
Covers(w, h) == windows[w] = h \/ (windows[w] = "group" /\ h \in group)
Still == {p \in under : Covers(p[2], p[1])'}

----------------------------------------------------------------------------
(* The console.                                                               *)

Edit ==
  /\ edits < MaxEdits
  /\ edits' = edits + 1
  /\ under' = Still
  /\ UNCHANGED <<up, bad, open, pass, loud, blind, changes, faults>>

\* save_watch_host of a new name (the others are edits of data).
SaveHost(h) ==
  /\ h \notin hosts
  /\ hosts' = hosts \cup {h}
  /\ UNCHANGED <<rules, group, windows, del>>
  /\ Edit

\* save_watch_rule, set_watch_rule_enabled, delete_watch_rule: the target is not looked up.
SaveRule(r) ==
  /\ \E t \in Hosts \cup {"all", "off"} : rules' = [rules EXCEPT ![r] = t]
  /\ UNCHANGED <<hosts, group, windows, del>>
  /\ Edit

\* save_watch_group writes the members of the form.
SaveGroup ==
  /\ \E m \in SUBSET Hosts : group' = m
  /\ UNCHANGED <<hosts, rules, windows, del>>
  /\ Edit

\* delete_watch_group: its windows aim at nobody.
DeleteGroup ==
  /\ windows' = [w \in Windows |-> IF windows[w] = "group" THEN "nobody" ELSE windows[w]]
  /\ group' = {}
  /\ UNCHANGED <<hosts, rules, del>>
  /\ Edit

\* create_watch_maintenance, delete_watch_maintenance, and the beginning and end of one.
SetWindow(w) ==
  /\ \E t \in Hosts \cup {"group", "off"} : windows' = [windows EXCEPT ![w] = t]
  /\ UNCHANGED <<hosts, rules, group, del>>
  /\ Edit

\* delete_watch_host begins by reading the groups.
DeleteHost(h) ==
  /\ del = NoDelete
  /\ h \in hosts
  /\ del' = [host |-> h, at |-> IF h \in group THEN "group" ELSE "rules",
             members |-> IF h \in group THEN group ELSE {}]
  /\ UNCHANGED <<hosts, rules, group, windows>>
  /\ Edit

\* Its next query: out of the group as it was read, out of the rules (which then watch every
\* host), out of the windows (which then cover nobody), and the row.
DeleteStep ==
  /\ LET h == del.host IN
     \/ /\ del.at = "group"
        /\ group' = del.members \ {h}
        /\ del' = [del EXCEPT !.at = "rules", !.members = {}]
        /\ UNCHANGED <<hosts, rules, windows>>
     \/ /\ del.at = "rules"
        /\ rules' = [r \in Rules |-> IF rules[r] = h THEN "all" ELSE rules[r]]
        /\ del' = [del EXCEPT !.at = "windows"]
        /\ UNCHANGED <<hosts, group, windows>>
     \/ /\ del.at = "windows"
        /\ windows' = [w \in Windows |-> IF windows[w] = h THEN "nobody" ELSE windows[w]]
        /\ del' = [del EXCEPT !.at = "row"]
        /\ UNCHANGED <<hosts, rules, group>>
     \/ /\ del.at = "row"
        /\ hosts' = hosts \ {h}
        /\ del' = NoDelete
        /\ UNCHANGED <<rules, group, windows>>
  /\ under' = Still
  /\ UNCHANGED <<up, bad, open, pass, loud, blind, edits, changes, faults>>

\* A host goes down or comes back, or an agent records a metric.
World ==
  /\ changes < MaxChanges
  /\ changes' = changes + 1
  /\ \E h \in Hosts :
       \/ up' = (IF h \in up THEN up \ {h} ELSE up \cup {h}) /\ UNCHANGED bad
       \/ bad' = (IF h \in bad THEN bad \ {h} ELSE bad \cup {h}) /\ UNCHANGED up
  /\ UNCHANGED <<hosts, rules, group, windows, del, open, pass, under, loud, blind, edits, faults>>

\* acknowledge_alert and resolve_alert: the alert is not open any more.
Close(p) ==
  /\ changes < MaxChanges
  /\ open[p] > 0
  /\ changes' = changes + 1
  /\ open' = [open EXCEPT ![p] = @ - 1]
  /\ UNCHANGED <<hosts, rules, group, windows, del, up, bad, pass, under, loud, blind, edits, faults>>

----------------------------------------------------------------------------
(* collect_once: five reads, each of which counts as empty when it fails.     *)

\* One read: its result, or nothing.
Read(full, none) ==
  /\ \/ pass' = full /\ UNCHANGED <<blind, faults>>
     \/ /\ faults < MaxFaults /\ faults' = faults + 1
        /\ pass' = none /\ blind' = TRUE
  /\ UNCHANGED <<hosts, rules, group, windows, del, up, bad, open, loud, edits, changes>>

ReadHosts ==
  /\ pass.at = "idle"
  /\ Read([NoPass EXCEPT !.at = "windows", !.hosts = hosts], [NoPass EXCEPT !.at = "windows"])
  /\ under' = {p \in Hosts \X Windows : Covers(p[2], p[1])}

ReadWindows ==
  /\ pass.at = "windows"
  /\ Read([pass EXCEPT !.at = "groups", !.windows = windows], [pass EXCEPT !.at = "rules"])
  /\ UNCHANGED under

ReadGroups ==
  /\ pass.at = "groups"
  /\ Read([pass EXCEPT !.at = "rules", !.quiet = Covered(pass.windows, group)],
          [pass EXCEPT !.at = "rules"])
  /\ UNCHANGED under

ReadRules ==
  /\ pass.at = "rules"
  /\ Read([pass EXCEPT !.at = "open", !.rules = rules], [pass EXCEPT !.at = "open"])
  /\ UNCHANGED under

\* Mutant: what is open already is not looked at.
OpenNone == {}

\* list_alerts: the open alerts of this moment, against raising one twice.
OpenNow == {p \in DOMAIN open : open[p] > 0}

ReadOpen ==
  /\ pass.at = "open"
  /\ Read([pass EXCEPT !.at = "probe", !.open = OpenNow, !.todo = pass.hosts],
          [pass EXCEPT !.at = "probe", !.todo = pass.hosts])
  /\ UNCHANGED under

\* A pass without a host has nothing to do.
Done(p) == IF p.todo = {} THEN NoPass ELSE p

\* raise_alert, unless the host is quiet or its alert was open.
Report(h, r, wrong) ==
  LET new == wrong /\ h \notin pass.quiet /\ <<h, r>> \notin pass.open IN
  /\ open' = IF new THEN [open EXCEPT ![<<h, r>>] = @ + 1] ELSE open
  /\ loud' = (loud \/ (new /\ \E w \in Windows : <<h, w>> \in under))

\* One host: probe, metrics, status, and the alert if it does not answer.
Probe ==
  /\ pass.at = "probe"
  /\ IF pass.todo = {}
     THEN /\ pass' = Done([pass EXCEPT !.at = "evaluate",
                             !.todo = {<<h, r>> \in pass.hosts \X Rules : pass.rules[r] \in {h, "all"}}])
          /\ UNCHANGED <<open, loud>>
     ELSE \E h \in pass.todo :
            /\ pass' = [pass EXCEPT !.todo = @ \ {h}]
            /\ Report(h, Reach, h \notin up)
  /\ UNCHANGED <<hosts, rules, group, windows, del, up, bad, under, blind, edits, changes, faults>>

\* evaluate_rules, one host of one rule: its latest metric against the thresholds.
Evaluate ==
  /\ pass.at = "evaluate"
  /\ \E p \in pass.todo :
       /\ pass' = Done([pass EXCEPT !.todo = @ \ {p}])
       /\ Report(p[1], p[2], p[1] \in bad)
  /\ UNCHANGED <<hosts, rules, group, windows, del, up, bad, under, blind, edits, changes, faults>>

Collect ==
  \/ ReadHosts \/ ReadWindows \/ ReadGroups \/ ReadRules \/ ReadOpen
  \/ Probe \/ Evaluate

Init ==
  /\ hosts = Hosts /\ rules = [r \in Rules |-> "all"]
  /\ group \in {{h} : h \in Hosts}
  /\ windows = [w \in Windows |-> "off"]
  /\ del = NoDelete
  /\ up = Hosts /\ bad = {}
  /\ open = [p \in Hosts \X (Rules \cup {Reach}) |-> 0]
  /\ pass = NoPass
  /\ under = {} /\ loud = FALSE /\ blind = FALSE
  /\ edits = 0 /\ changes = 0 /\ faults = 0

Next ==
  \/ \E h \in Hosts : SaveHost(h) \/ DeleteHost(h)
  \/ \E r \in Rules : SaveRule(r)
  \/ \E w \in Windows : SetWindow(w)
  \/ \E p \in DOMAIN open : Close(p)
  \/ SaveGroup \/ DeleteGroup \/ DeleteStep
  \/ World
  \/ Collect

Spec == Init /\ [][Next]_vars /\ WF_vars(Collect) /\ WF_vars(DeleteStep)

----------------------------------------------------------------------------
TypeOK == hosts \subseteq Hosts /\ pass.hosts \subseteq Hosts /\ \A p \in DOMAIN open : open[p] \in 0 .. 3

\* An alert is raised once while it stays open, unless a read failed.
OpenOnce == \A p \in DOMAIN open : open[p] > 1 => blind

\* A host that one window covered all through the pass is not alerted, unless a read
\* failed.
QuietKept == loud => blind

\* A host that is down, and was not put under maintenance, does not stay without an
\* open alert.
Silent(h) == h \in hosts /\ h \notin up /\ h \notin Covered(windows, group) /\ open[<<h, Reach>>] = 0
DownAlerted == \A h \in Hosts : []<>~Silent(h)
=============================================================================
