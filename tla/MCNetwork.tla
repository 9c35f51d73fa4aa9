----------------------------- MODULE MCNetwork ------------------------------
(* Network services, checked in one run, one part at a time: a DHCP server of its  *)
(* own whose datagrams overlap (the constants of the configuration), two servers   *)
(* that split the pool, the second pulling the leases of the first, a              *)
(* DNS zone and its secondary (with a serial that wraps too), the handlers of the  *)
(* DNS server, the monitoring of hosts and the notification of alerts.             *)
EXTENDS DhcpLeases

\* The reservation an administrator may make on the single server.
OneReservation == {<<1, 2>>}

VARIABLES
  focus,     \* the part that runs
  v1, v2, v3, v4, v5, v6, v7, v8, v9, v10, v11, v12, v13, v14, v15   \* its variables, in the order of its module

shared == <<v1, v2, v3, v4, v5, v6, v7, v8, v9, v10, v11, v12, v13, v14, v15>>

first6 == <<v1, v2, v3, v4, v5, v6>>

first8 == <<v1, v2, v3, v4, v5, v6, v7, v8>>

first10 == <<v1, v2, v3, v4, v5, v6, v7, v8, v9, v10>>

first13 == <<v1, v2, v3, v4, v5, v6, v7, v8, v9, v10, v11, v12, v13>>

Split == INSTANCE DhcpLeases WITH
  Clients <- {1, 2}, PoolSize <- 2, FeedLimit <- 1, Nodes <- 2, Tasks <- {1},
  Reservable <- {}, MaxClock <- 2, MaxElapsed <- 1, MaxCrashes <- 0, rows <- v1,
  reserved <- v2, task <- v3, pull <- v4, cursor <- v5, clock <- v6, horizon <- v7,
  claim <- v8, excused <- v9, crashes <- v10

Zone == INSTANCE DnsZone WITH
  Recs <- {"r", "s"}, Writers <- {1}, SerialWidth <- 16, First <- 2, Dynamic <- TRUE,
  MaxChanges <- 2, MaxFaults <- 1, recs <- v1, serial <- v2, journal <- v3, wr <- v4,
  seen <- v5, notified <- v6, copy <- v7, held <- v8, state <- v9, tr <- v10,
  torn <- v11, changes <- v12, faults <- v13

Wrap == INSTANCE DnsZone WITH
  Recs <- {"r", "s"}, Writers <- {1}, SerialWidth <- 16, First <- 14, Dynamic <- TRUE,
  MaxChanges <- 3, MaxFaults <- 0, recs <- v1, serial <- v2, journal <- v3, wr <- v4,
  seen <- v5, notified <- v6, copy <- v7, held <- v8, state <- v9, tr <- v10,
  torn <- v11, changes <- v12, faults <- v13

Serve == INSTANCE DnsServe WITH
  Tasks <- {"1", "2"}, Slots <- 2, Zones <- {"y", "z"}, Changes <- {"c"},
  Foreign <- {"f", "g"}, Entries <- 1, rows <- v1, cache <- v2, lock <- v3,
  task <- v4, acked <- v5, fwd <- v6

Notices == INSTANCE Notify WITH
  Nodes <- {1, 2}, Alerts <- {1}, Severity <- <<3>>, Targets <- {"w", "e"},
  Floor <- [t \in {"w", "e"} |-> IF t = "w" THEN 1 ELSE 3], MaxEdits <- 1,
  MaxFaults <- 1, alert <- v1, target <- v2, node <- v3, sent <- v4, steady <- v5,
  again <- v6, edits <- v7, faults <- v8

Monitor == INSTANCE Watch WITH
  Hosts <- {"x"}, Rules <- {"r"}, Windows <- {"w"}, MaxEdits <- 2, MaxChanges <- 2,
  MaxFaults <- 1, hosts <- v1, rules <- v2, group <- v3, windows <- v4, del <- v5,
  up <- v6, bad <- v7, open <- v8, pass <- v9, under <- v10, loud <- v11,
  blind <- v12, edits <- v13, changes <- v14, faults <- v15

\* Variables that the part in focus does not have are 0.
Rest14 == v14 = 0 /\ v15 = 0
Rest11 == v11 = 0 /\ v12 = 0 /\ v13 = 0 /\ Rest14
Rest9 == v9 = 0 /\ v10 = 0 /\ Rest11
Rest7 == v7 = 0 /\ v8 = 0 /\ Rest9
Rest1 == v1 = 0 /\ v2 = 0 /\ v3 = 0 /\ v4 = 0 /\ v5 = 0 /\ v6 = 0 /\ Rest7
from7 == <<v7, v8, v9, v10, v11, v12, v13, v14, v15>>
from9 == <<v9, v10, v11, v12, v13, v14, v15>>
from11 == <<v11, v12, v13, v14, v15>>
from14 == <<v14, v15>>

MCInit ==
  \/ focus = "one" /\ Init /\ Rest1
  \/ focus = "split" /\ Split!Init /\ Init /\ Rest11
  \/ focus = "zone" /\ Zone!Init /\ Init /\ Rest14
  \/ focus = "wrap" /\ Wrap!Init /\ Init /\ Rest14
  \/ focus = "serve" /\ Serve!Init /\ Init /\ Rest7
  \/ focus = "notify" /\ Notices!Init /\ Init /\ Rest9
  \/ focus = "watch" /\ Monitor!Init /\ Init

MCNext ==
  \/ focus = "one" /\ Next /\ UNCHANGED <<focus, shared>>
  \/ focus = "split" /\ Split!Next /\ UNCHANGED <<focus, vars, from11>>
  \/ focus = "zone" /\ Zone!Next /\ UNCHANGED <<focus, vars, from14>>
  \/ focus = "wrap" /\ Wrap!Next /\ UNCHANGED <<focus, vars, from14>>
  \/ focus = "serve" /\ Serve!Next /\ UNCHANGED <<focus, vars, from7>>
  \/ focus = "notify" /\ Notices!Next /\ UNCHANGED <<focus, vars, from9>>
  \/ focus = "watch" /\ Monitor!Next /\ UNCHANGED <<focus, vars>>

\* Each part's own fairness, while it runs.
MCFairness ==
  /\ \A s \in Servers : WF_vars(focus = "one" /\ Sweep(s))
  /\ \A s \in Split!Servers : WF_first10(focus = "split" /\ Split!Sweep(s))
  /\ WF_first13(focus = "zone" /\ (Zone!BumpRead(1) \/ Zone!BumpWrite(1) \/ Zone!AppendJournal(1)))
  /\ WF_first13(focus = "zone" /\ Zone!Refresh)
  /\ WF_first13(focus = "zone" /\ Zone!Transfers)
  /\ WF_first13(focus = "wrap" /\ (Wrap!BumpRead(1) \/ Wrap!BumpWrite(1) \/ Wrap!AppendJournal(1)))
  /\ WF_first13(focus = "wrap" /\ Wrap!Refresh)
  /\ WF_first13(focus = "wrap" /\ Wrap!Transfers)
  /\ \A t \in {"1", "2"} : SF_first6(focus = "serve" /\ Serve!Step(t))
  /\ \A n \in {1, 2} : WF_first8(focus = "notify" /\ Notices!Dispatch(n))
  /\ WF_first8(focus = "notify" /\ Notices!Age(1))
  /\ WF_shared(focus = "watch" /\ Monitor!Collect)
  /\ WF_shared(focus = "watch" /\ Monitor!DeleteStep)

MCSpec == MCInit /\ [][MCNext]_<<focus, vars, shared>> /\ MCFairness

\* A lease that has run out stops holding its address, on the single server and on
\* each of the two that split the pool: expire_stale_leases gets it, also when the
\* feed or a slow task writes it back after a sweep. And the servers that split the
\* pool never acknowledge one address to two clients, but for the ways Exclusive excepts.
Freed ==
  /\ [](focus = "split" => Split!LeasesExclusive)
  /\ \A s \in Servers : []<>(focus = "one" => Swept(s))
  /\ \A s \in Split!Servers : []<>(focus = "split" => Split!Swept(s))

\* The secondary misses no record that the serials it went through announced, also
\* where the serial wraps; and once the primary rests, it comes to hold its serial and
\* stays there.
ZoneFollows ==
  /\ [](focus = "zone" => Zone!TypeOK /\ Zone!NothingMissing)
  /\ [](focus = "wrap" => Wrap!TypeOK /\ Wrap!NothingMissing)
  /\ <>[](focus = "zone" => Zone!CaughtUp)
  /\ <>[](focus = "wrap" => Wrap!CaughtUp)

\* A dynamic update that was answered with NOERROR is in every answer given from a
\* snapshot loaded later, and no stale snapshot outlives it; the cache of forwarded
\* answers never outgrows MAX_ENTRIES; and every handler comes to its end and gives its
\* slot back: the lock is always released, also when the load under it fails.
UpdateSeen ==
  /\ [](focus = "serve" => Serve!TypeOK /\ Serve!UpdateSeen /\ Serve!CacheBounded)
  /\ \A t \in {"1", "2"} : []<>(focus = "serve" => Serve!Free(t))

\* An alert reaches its targets: one that counts as delivered was accepted by every
\* matching target that stood there since it was raised, no target gets it twice but
\* after a refusal or a lease that ran out, and an open alert does not stay undelivered,
\* though dispatchers of two nodes race, fail and crash.
AlertsReach ==
  /\ [](focus = "notify" => Notices!TypeOK /\ Notices!NotifiedTold /\ Notices!SentOnce)
  /\ []<>(focus = "notify" => 1 \notin Notices!Undelivered)

\* The collector is neither deaf nor noisy: while its reads succeed an alert is raised
\* once while it stays open, and never for a host one window covered all through the
\* pass; and a host that stays down outside maintenance gets its alert, whatever is
\* edited during the passes.
DownAlerted ==
  /\ [](focus = "watch" => Monitor!TypeOK /\ Monitor!OpenOnce /\ Monitor!QuietKept)
  /\ []<>(focus = "watch" => ~Monitor!Silent("x"))
=============================================================================
