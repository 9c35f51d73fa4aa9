----------------------------- MODULE MCServices -----------------------------
(* Parts whose progress is checked together in one run, one part at a time: the *)
(* reverse proxy (as configured, and with rules that change), the feed of its    *)
(* configuration, the ACME manager, the mail store's pull loop, the mail queue,  *)
(* the LDAP content synchronisation and the live directory of a domain           *)
(* controller.                                                                   *)
EXTENDS ProxyAccess, MailRepl

CONSTANT Parts    \* the parts that are run

OneHost == [v \in {"v"} |-> "host"]

\* Denials the Web UI can save: one for everything and one for the host, which it names
\* by its hostname.
Denials == {[scope |-> "global", ref |-> "-", action |-> "deny", priority |-> 1],
            [scope |-> "vhost", ref |-> "host", action |-> "deny", priority |-> 2]}
TwoUpstreams == <<[name |-> "x", weight |-> 0], [name |-> "y", weight |-> 2]>>

VARIABLES
  focus,     \* the part that runs
  v1, v2, v3, v4, v5, v6, v7, v8, v9, v10, v11, v12   \* its variables, in the order of its module, where that is instantiated below

shared == <<v1, v2, v3, v4, v5, v6, v7, v8, v9, v10, v11, v12>>

first8 == <<v1, v2, v3, v4, v5, v6, v7, v8>>

first9 == <<v1, v2, v3, v4, v5, v6, v7, v8, v9>>

first11 == <<v1, v2, v3, v4, v5, v6, v7, v8, v9, v10, v11>>

Turned == INSTANCE MailRepl WITH
  Msgs <- {1, 2}, FlagSets <- {"new", "seen"}, NoFlags <- "new", FEED_LIMIT <- 1,
  ALERT_AFTER_FAILURES <- 2, STUCK_AFTER_CYCLES <- 2, MaxWriters <- 1,
  Imported <- {1, 2}, MayImport <- FALSE, MayHang <- FALSE, MaxClock <- 2,
  MaxFlagChanges <- 1, MaxFlips <- 2, MaxPrimaryCrashes <- 0,
  MaxSecondaryCrashes <- 1, MaxOutages <- 1, clock <- v1, log <- v2, used <- v3,
  writing <- v4, mail <- v5, cursor <- v6, pulling <- v7, pass <- v8, fails <- v9,
  stuck <- v10, link <- v11, spent <- v12

Queue == INSTANCE MailQueue WITH
  Mails <- {1, 2}, Senders <- <<"null", "local">>, Batch <- 1, MaxAttempts <- 3,
  MaxFaults <- 3, queue <- v1, worker <- v2, up <- v3, forwarded <- v4, bounced <- v5,
  tries <- v6, faults <- v7, hurt <- v8

Access == INSTANCE ProxyAccess WITH
  Vhosts <- {"v"}, HostOf <- OneHost, Rules <- Denials, Upstreams <- TwoUpstreams,
  Strategy <- "weighted", Requests <- {1}, MaxEdits <- 3, MaxFaults <- 1,
  vhosts <- v1, rules <- v2, blocked <- v3, cfg <- v4, ready <- v5, load <- v6,
  req <- v7, inflight <- v8, counter <- v9, born <- v10, edits <- v11, faults <- v12

Acme == INSTANCE AcmeCerts WITH
  Domains <- {"d", "e"}, Validity <- 3, RenewBefore <- 1, MaxEdits <- 2,
  MaxFaults <- 2, wanted <- v1, cert <- v2, account <- v3, mgr <- v4,
  challenges <- v5, sni <- v6, edits <- v7, faults <- v8

Proxies == INSTANCE ProxyRepl WITH
  Rows <- {<<"vhost", 1>>, <<"vhost", 2>>, <<"acl", 1>>},
  Tables <- <<"vhost", "acl">>, MaxClock <- 4, MaxFaults <- 2, rows <- v1,
  clock <- v2, feed <- v3, copy <- v4, serial <- v5, pull <- v6, missed <- v7,
  faults <- v8

Sync == INSTANCE LdapSync WITH
  Entries <- {"d", "e"}, Writers <- {1, 2}, MaxClock <- 3, MaxFaults <- 2,
  clock <- v1, live <- v2, tombs <- v3, write <- v4, pass <- v5, copy <- v6,
  cookie <- v7, faults <- v8, excused <- v9

Directory == INSTANCE LiveDirectory WITH
  Users <- {"u"}, Machines <- {"m"}, Keys <- {"k1", "k2"}, MaxChanges <- 2,
  MaxFaults <- 1, db <- v1, saving <- v2, boot <- v3, dynamic <- v4, revoked <- v5,
  runtime <- v6, handles <- v7, refresh <- v8, unseen <- v9, changes <- v10,
  faults <- v11

\* Variables that the part in focus does not have are 0.
Rest12 == v12 = 0
Rest10 == v10 = 0 /\ v11 = 0 /\ Rest12
Rest9 == v9 = 0 /\ Rest10
Rest1 == v1 = 0 /\ v2 = 0 /\ v3 = 0 /\ v4 = 0 /\ v5 = 0 /\ v6 = 0 /\ v7 = 0 /\ v8 = 0 /\ Rest9
from9 == <<v9, v10, v11, v12>>
from10 == <<v10, v11, v12>>
from12 == <<v12>>

\* The parts whose modules are extended keep their own variables, which stay as they
\* begin while another part is in focus.
own == <<vars, mailVars>>
OwnInit == Init /\ MailInit

Starts ==
  \/ focus \in {"proxy", "store"} /\ Rest1
  \/ focus = "turns" /\ Turned!MailInit
  \/ focus = "queue" /\ Queue!Init /\ Rest9
  \/ focus = "access" /\ Access!Init
  \/ focus = "acme" /\ Acme!Init /\ Rest9
  \/ focus = "proxies" /\ Proxies!Init /\ Rest9
  \/ focus = "sync" /\ Sync!Init /\ Rest10
  \/ focus = "directory" /\ Directory!Init /\ Rest12

MCInit == focus \in Parts /\ OwnInit /\ Starts

MCNext ==
  \/ focus = "proxy" /\ Next /\ UNCHANGED <<focus, shared, mailVars>>
  \/ focus = "store" /\ MailNext /\ UNCHANGED <<focus, shared, vars>>
  \/ focus = "turns" /\ Turned!MailNext /\ UNCHANGED <<focus, own>>
  \/ focus = "queue" /\ Queue!Next /\ UNCHANGED <<focus, own, from9>>
  \/ focus = "access" /\ Access!Next /\ UNCHANGED <<focus, own>>
  \/ focus = "acme" /\ Acme!Next /\ UNCHANGED <<focus, own, from9>>
  \/ focus = "proxies" /\ Proxies!Next /\ UNCHANGED <<focus, own, from9>>
  \/ focus = "sync" /\ Sync!Next /\ UNCHANGED <<focus, own, from10>>
  \/ focus = "directory" /\ Directory!Next /\ UNCHANGED <<focus, own, from12>>

\* Each part's own fairness, while it runs.
MCFairness ==
  /\ WF_mailVars(focus = "store" /\ PassStep)
  /\ WF_mailVars(focus = "store" /\ \E w \in writing : CommitWrite(w))
  /\ WF_first8(focus = "queue" /\ Queue!Handle)
  /\ \A m \in {1, 2} : WF_first8(focus = "queue" /\ Queue!Due(m))
  /\ WF_shared(focus = "access" /\ Access!Refresh)
  /\ WF_shared(focus = "access" /\ Access!RefreshEnds)
  /\ WF_first8(focus = "acme" /\ Acme!Poll)
  /\ WF_first8(focus = "acme" /\ Acme!Account)
  /\ WF_first8(focus = "acme" /\ \E d \in {"d", "e"} : Acme!Authorize(d))
  /\ WF_first8(focus = "acme" /\ Acme!Issue)
  /\ WF_first8(focus = "acme" /\ Acme!Store)
  /\ WF_first8(focus = "acme" /\ Acme!Reload)
  /\ WF_first8(focus = "proxies" /\ Proxies!Ask)
  /\ WF_first8(focus = "proxies" /\ Proxies!Gather)
  /\ WF_first8(focus = "proxies" /\ Proxies!Arrives)
  /\ WF_first8(focus = "proxies" /\ Proxies!Replace)
  /\ WF_first8(focus = "proxies" /\ Proxies!SetSerial)
  /\ WF_first9(focus = "sync" /\ Sync!Pull)
  /\ \A w \in {1, 2} : WF_first9(focus = "sync" /\ (Sync!WriteRow(w) \/ Sync!WriteTomb(w)))
  /\ WF_first11(focus = "directory" /\ \E s \in v2 : Directory!Persist(s))
  /\ \A r \in {"tick", "agent"} : WF_first11(focus = "directory" /\ Directory!Refreshing(r))

MCSpec == MCInit /\ [][MCNext]_<<focus, own, shared>> /\ MCFairness

\* The replica catches up: when the primary is quiet, reachable and the secondary
\* is polling, the secondary ends up with the same messages and flags, through page
\* limits, restarts, outages and items of one stream overtaking another's. And a
\* secondary that is alive but not replicating is made visible (ReplAlerter): an outage
\* that lasts is alerted, and both alerts are cleared once all is quiet again. One that is
\* promoted and demoted in between keeps honest cursors.
Converges ==
  /\ <>[](focus = "store" /\ Calm => mail = Mirror)
  /\ []<>(focus = "store" => ~Unalerted)
  /\ <>[](focus = "store" /\ Calm => ~fails.alerted /\ ~stuck.alerted)
  /\ [](focus = "turns" => Turned!StoreFollows)

\* Every parked message leaves the queue, whether the primary ever answers or not; it
\* leaves only forwarded or bounced, or lost to a fault; and a sender told that the mail
\* was given up was told the truth, but for a fault between the forward and the row.
Drains ==
  /\ [](focus = "queue" => Queue!TypeOK /\ Queue!NeverDropped /\ Queue!BounceIsTrue)
  /\ \A m \in {1, 2} : []<>(focus = "queue" => ~Queue!Parked(m))

\* No request passes a virtual host that a denial preceded, though the lists are read
\* one by one while they change, and a blocked client is refused soon, however the edits
\* and failing loads fall.
BlockArrives ==
  /\ [](focus = "access" => Access!TypeOK /\ Access!DenyPrecedes)
  /\ []<>(focus = "access" => Access!BlockKnown)

\* A configured domain is served with a certificate in the end, also when it is added
\* while an order for the old settings is under way, and no response to a challenge
\* outlives its order, however the order ends.
DomainServed ==
  /\ [](focus = "acme" => Acme!TypeOK /\ Acme!ResponsesCleared)
  /\ \A d \in {"d", "e"} : []<>(focus = "acme" => Acme!ServedNow(d))

\* Saved rows reach the secondary proxy and stay there, through lost answers,
\* transactions that roll back and restarts, as long as no row was deleted and no
\* write fell between the reads of a feed.
SavesConverge ==
  /\ [](focus = "proxies" => Proxies!TypeOK)
  /\ <>[](focus = "proxies" => Proxies!SavedAlike)

\* What lies at or before the consumer's cookie, the consumer holds, but for changes
\* one of the known gaps swallowed, and it catches up with every other change.
CopyFollows ==
  /\ [](focus = "sync" => Sync!TypeOK /\ Sync!CookieKeepsWord)
  /\ <>[](focus = "sync" => Sync!Followed)

\* Whatever SAMR, LDAP, kpasswd, the web and replication did, the KDC ends up with the
\* rows: the current key of an enabled account, none for a disabled or deleted one.
KdcFollows ==
  /\ [](focus = "directory" => Directory!TypeOK)
  /\ <>[](focus = "directory" => \A u \in {"u", "m"} : Directory!Agrees(u))
=============================================================================
