------------------------------ MODULE Failover ------------------------------
(* Automatic failover of one cluster by the control plane (magnetite-center). *)
(*                                                                            *)
(* Center instances share a store that holds the leader lease, the cluster    *)
(* row and one row per managed server.  The instance that believes it leads   *)
(* polls every server, snapshots the cluster, evaluates the policy, sends     *)
(* promote / demote commands and persists the outcome, one await at a time.   *)
(* An operator promotes and demotes by hand through the API meanwhile.        *)
(*                                                                            *)
(*   magnetite-center/src/leader.rs    run                                    *)
(*   magnetite-center/src/poll.rs      run, poll_once, run_failover, steer_dns*)
(*   magnetite-center/src/failover.rs  evaluate                               *)
(*   magnetite-center/src/store.rs     the rows and the lease                 *)
(*   magnetite-center/src/api.rs       forward_role_change, policy, intent    *)
(*   magnetite-server/src/role.rs, mgmt.rs    what a managed server does      *)
EXTENDS Integers, FiniteSets, FiniteSetsExt

CONSTANTS
  Centers,        \* center instances on the shared store
  Servers,        \* sids of the cluster's servers, a set of numbers
  Intents,        \* Intents[s]: the operator's designation when the cluster starts
  Spare,          \* servers that are running but not registered yet
  Static,         \* servers whose domains are configured as primary, no pull loop
  FailureThreshold,
  MayHang,        \* may a server accept a request and never answer it?
  DnsPolicy,      \* are the cluster's dns_zone, dns_name and dns_targets set?
  Operations,     \* kinds of operator calls this instance allows
  MaxOperations,  \* bound: operator calls
  MaxFaults,      \* bound: crashes, cuts, lost answers, late lease renewals
  None

RoleIntent == {"primary", "standby", "unset"}

ASSUME FailoverAssumption ==
  /\ Servers \subseteq Nat /\ IsFiniteSet(Servers)
  /\ Static \subseteq Servers /\ Spare \subseteq Servers
  /\ Intents \in [Servers -> RoleIntent]
  /\ FailureThreshold \in Nat
  /\ DnsPolicy \in BOOLEAN /\ MayHang \in BOOLEAN
  /\ MaxOperations \in Nat /\ MaxFaults \in Nat
  /\ None \notin Servers \cup Centers

Operator == "operator"
Actors == Centers \cup {Operator}       \* who may run steer_dns

VARIABLES
  net,       \* net[s]: "up", "cut" (running, unreachable), "hung" or "down"
  pulling,   \* pulling[s]: the RoleController flags, flipped as a whole node
  dns,       \* dns[s]: the server the service record on s points at
  rec,       \* rec[s]: the managed_server row
  cluster,   \* the cluster row: auto_failover, active_primary
  lease,     \* the leader_lease row: holder, live (expires_at is ahead)
  isLeader,  \* isLeader[c]: the flag leader::run publishes to poll::run
  run,       \* run[c]: where the poll loop of c stands, with its local state
  steer,     \* steer[a]: a running steer_dns of actor a: to, left
  op,        \* the operator's manual promote under way: at, sid
  entitled,  \* history: servers designated primary, or that acknowledged a promote
  faults, operations

serverVars == <<net, pulling, dns>>
storeVars == <<rec, cluster, lease>>
centerVars == <<isLeader, run, steer>>
bounds == <<faults, operations>>
vars == <<net, pulling, dns, rec, cluster, lease, isLeader, run, steer, op,
          entitled, faults, operations>>

\* mgmt.rs domain_role: the managed flag wins, else the static configuration.
ActsPrimary(s) == s \in Static \/ ~pulling[s]

\* The managed_server row.  A deleted sid never comes back: sids are random.
ServerRecord == [row : {"absent", "live", "deleted"}, intent : RoleIntent, ok : BOOLEAN,
                 failures : 0..FailureThreshold + 1, fenced : BOOLEAN, acts : BOOLEAN]

\* register_server: unset intent, never polled.
NewRecord == [row |-> "live", intent |-> "unset", ok |-> FALSE, failures |-> 0,
              fenced |-> FALSE, acts |-> FALSE]

Opt(S) == S \cup {None}

Idle == [at |-> "idle"]

Dead == [at |-> "dead"]

NoSteer == [to |-> None, left |-> {}]

NoOp == [at |-> "idle", sid |-> None]

\* What is left of one run of the poll loop: the servers to poll; the commands of
\* the decision still to send; whether the promote went through; the rows to write.
Polling == [at : {"poll"}, left : SUBSET Servers]
Acting == [at : {"act", "persist", "steer", "fence"}, promote : Opt(Servers),
           demote : SUBSET Servers, promoteOk : BOOLEAN, active : Opt(Servers),
           fence : SUBSET Servers, unfence : SUBSET Servers]
RunState == {Idle, Dead} \cup Polling \cup Acting

\* Type correctness.
TypeOK ==
  /\ net \in [Servers -> {"up", "cut", "hung", "down"}]
  /\ pulling \in [Servers -> BOOLEAN]
  /\ dns \in [Servers -> Opt(Servers)]
  /\ rec \in [Servers -> ServerRecord]
  /\ cluster \in [auto : BOOLEAN, active : Opt(Servers)]
  /\ lease \in [holder : Opt(Centers), live : BOOLEAN]
  /\ isLeader \in [Centers -> BOOLEAN]
  /\ run \in [Centers -> RunState]
  /\ steer \in [Actors -> [to : Opt(Servers), left : SUBSET Servers]]
  /\ op \in [at : {"idle", "record", "steer"}, sid : Opt(Servers)]
  /\ entitled \subseteq Servers
  /\ faults \in 0..MaxFaults /\ operations \in 0..MaxOperations

\* register_server and set_intent have run, auto_failover is armed, nothing has
\* been polled; the designated primaries act as primary, the others pull.
Init ==
  /\ net = [s \in Servers |-> "up"]
  /\ pulling = [s \in Servers |-> s \in Static \/ Intents[s] # "primary"]
  /\ dns = [s \in Servers |-> None]
  /\ rec = [s \in Servers |->
       IF s \in Spare THEN [NewRecord EXCEPT !.row = "absent"]
                      ELSE [NewRecord EXCEPT !.intent = Intents[s]]]
  /\ cluster = [auto |-> TRUE, active |-> None]
  /\ lease = [holder |-> None, live |-> FALSE]
  /\ isLeader = [c \in Centers |-> FALSE]
  /\ run = [c \in Centers |-> Idle]
  /\ steer = [a \in Actors |-> NoSteer]
  /\ op = NoOp
  /\ entitled = {s \in Servers \ Spare : Intents[s] = "primary"}
  /\ faults = 0 /\ operations = 0

Registered == {s \in Servers : rec[s].row = "live"}

Fault == faults < MaxFaults /\ faults' = faults + 1

----------------------------------------------------------------------------
(* leader::run and the lease.                                                 *)

Alive(c) == run[c].at # "dead"

\* try_acquire_leadership, a compare-and-set on the row, and the flag swap.
Elect(c) ==
  /\ Alive(c)
  /\ LET mine == lease.holder = c \/ ~lease.live
     IN /\ lease' = IF mine THEN [holder |-> c, live |-> TRUE] ELSE lease
        /\ isLeader' = [isLeader EXCEPT ![c] = mine]
  /\ UNCHANGED <<serverVars, rec, cluster, run, steer, op, entitled, bounds>>

\* A store error: step down.
ElectError(c) ==
  /\ Alive(c)
  /\ Fault
  /\ isLeader' = [isLeader EXCEPT ![c] = FALSE]
  /\ UNCHANGED <<serverVars, storeVars, run, steer, op, entitled, operations>>

\* expires_at passes, because the holder died ...
Expire ==
  /\ lease.live /\ ~Alive(lease.holder)
  /\ lease' = [lease EXCEPT !.live = FALSE]
  /\ UNCHANGED <<serverVars, rec, cluster, centerVars, op, entitled, bounds>>

\* ... or because its renewal comes too late: it still believes it leads.
ExpireLate ==
  /\ lease.live /\ Alive(lease.holder)
  /\ Fault
  /\ lease' = [lease EXCEPT !.live = FALSE]
  /\ UNCHANGED <<serverVars, rec, cluster, centerVars, op, entitled, operations>>

\* A center stops, cleanly (release_leadership) or not; what it was doing is lost.
StopCenter(c) ==
  /\ Alive(c)
  /\ Fault
  /\ run' = [run EXCEPT ![c] = Dead]
  /\ isLeader' = [isLeader EXCEPT ![c] = FALSE]
  /\ steer' = [steer EXCEPT ![c] = NoSteer]
  /\ \/ UNCHANGED lease
     \/ lease.holder = c /\ lease' = [holder |-> None, live |-> FALSE]
  /\ UNCHANGED <<serverVars, rec, cluster, op, entitled, operations>>

StartCenter(c) ==
  /\ ~Alive(c)
  /\ run' = [run EXCEPT ![c] = Idle]
  /\ UNCHANGED <<serverVars, storeVars, isLeader, steer, op, entitled, bounds>>

----------------------------------------------------------------------------
(* poll::run, poll_once.                                                      *)

\* A tick: leadership is looked at once, here.  When the servers cannot be listed,
\* nothing is polled and the old rows are evaluated.
Tick(c) ==
  /\ run[c] = Idle
  /\ isLeader[c]
  /\ \/ /\ UNCHANGED faults
        /\ run' = [run EXCEPT ![c] = [at |-> "poll", left |-> Registered]]
     \/ /\ Fault
        /\ run' = [run EXCEPT ![c] = [at |-> "poll", left |-> {}]]
  /\ UNCHANGED <<serverVars, storeVars, isLeader, steer, op, entitled, operations>>

Least(x, y) == IF x <= y THEN x ELSE y

\* Mutant: a server that does not answer keeps its last good health.
Polled_Sticky(s, answered) ==
  IF answered /\ s \in Registered
  THEN [rec[s] EXCEPT !.ok = TRUE, !.failures = 0, !.acts = ActsPrimary(s)]
  ELSE rec[s]

\* record_health: a success resets the failure count and stores the role, a failure
\* counts and forgets the role.  The count is compared with the threshold only.
Polled(s, answered) ==
  CASE s \notin Registered -> rec[s]
    [] s \in Registered /\ answered ->
         [rec[s] EXCEPT !.ok = TRUE, !.failures = 0, !.acts = ActsPrimary(s)]
    [] OTHER ->
         [rec[s] EXCEPT !.ok = FALSE, !.acts = FALSE,
                        !.failures = Least(@ + 1, FailureThreshold + 1)]

\* fetch_feed has no timeout: the poll of a hung server waits.  A fault loses the
\* answer, or the row's update.
PollServer(c, s) ==
  /\ run[c].at = "poll"
  /\ net[s] # "hung"
  /\ s \in run[c].left
  /\ run' = [run EXCEPT ![c].left = @ \ {s}]
  /\ \/ net[s] = "up" /\ UNCHANGED faults /\ rec' = [rec EXCEPT ![s] = Polled(s, TRUE)]
     \/ net[s] # "up" /\ UNCHANGED faults /\ rec' = [rec EXCEPT ![s] = Polled(s, FALSE)]
     \/ net[s] = "up" /\ Fault /\ rec' = [rec EXCEPT ![s] = Polled(s, FALSE)]
     \/ Fault /\ UNCHANGED rec
  /\ UNCHANGED <<serverVars, cluster, lease, isLeader, steer, op, entitled, operations>>

----------------------------------------------------------------------------
(* failover.rs evaluate, on the rows as cluster_views reads them.             *)

Healthy == {s \in Registered : rec[s].ok}

\* The recorded active primary, or at bootstrap the healthy designated one(s).
EffectiveActive ==
  IF cluster.active # None THEN {cluster.active}
  ELSE LET designated == {s \in Healthy : rec[s].intent = "primary"}
       IN IF designated = {} THEN {None} ELSE designated

ActiveDown(a) ==
  /\ a \in Registered \ Healthy
  /\ rec[a].failures >= Max({FailureThreshold, 1})

Candidates == {s \in Healthy : rec[s].intent = "standby" /\ ~rec[s].fenced}

\* Mutant: the active primary is not excepted.
Strays_All(now) == {s \in Healthy : rec[s].acts}

\* Mutant: no split-brain guard, only fence-on-return.
Strays_FencedOnly(now) == {s \in Healthy \ {now} : rec[s].acts /\ rec[s].fenced}

\* Fence-on-return and the split-brain guard demote the same way: every healthy
\* server that acts as primary and is not the active one.
Strays(now) == {s \in Healthy \ {now} : rec[s].acts}

\* Mutant: the old primary is fenced whether or not there was a failover.
Decision_FenceAlways(a) ==
  LET failover == ActiveDown(a) /\ Candidates # {}
      now == IF failover THEN Min(Candidates) ELSE a
  IN [at |-> "act",
      promote |-> IF failover THEN now ELSE None,
      demote |-> Strays(now),
      promoteOk |-> TRUE,
      active |-> IF failover \/ cluster.active = None THEN now ELSE None,
      fence |-> {a},
      unfence |-> {s \in Healthy \ {now} : rec[s].fenced}]

\* The decision when a is the effective active primary: fail over when it is down
\* and a candidate exists, to the first candidate by sid.
Decision(a) ==
  LET failover == ActiveDown(a) /\ Candidates # {}
      now == IF failover THEN Min(Candidates) ELSE a
  IN [at |-> "act",
      promote |-> IF failover THEN now ELSE None,
      demote |-> Strays(now),
      promoteOk |-> TRUE,
      active |-> IF failover \/ cluster.active = None THEN now ELSE None,
      fence |-> IF failover THEN {a} ELSE {},
      unfence |-> {s \in Healthy \ {now} : rec[s].fenced}]

IsEmpty(d) ==
  /\ d.promote = None /\ d.demote = {} /\ d.active = None
  /\ d.fence = {} /\ d.unfence = {}

Decisions ==
  IF cluster.auto THEN {Decision(a) : a \in EffectiveActive} ELSE {}

\* run_failover up to the first command; without the views it gives up.
Evaluate(c) ==
  /\ run[c] = [at |-> "poll", left |-> {}]
  /\ \/ \E d \in Decisions :
          run' = [run EXCEPT ![c] = IF IsEmpty(d) THEN Idle ELSE d] /\ UNCHANGED faults
     \/ ~cluster.auto /\ run' = [run EXCEPT ![c] = Idle] /\ UNCHANGED faults
     \/ Fault /\ run' = [run EXCEPT ![c] = Idle]
  /\ UNCHANGED <<serverVars, storeVars, isLeader, steer, op, entitled, operations>>

----------------------------------------------------------------------------
(* mgmt.rs change_role: flip every managed domain of the node; a statically   *)
(* configured domain is not managed, and the answer is still 200.             *)

Flip(s, pull) == pulling' = [pulling EXCEPT ![s] = s \in Static \/ pull]

\* POST /mgmt/<cmd> to s, then ok or an error: the call or only its answer lost.
\* A hung server never answers.
Post(s, pull, ok) ==
  \/ /\ ok /\ net[s] = "up" /\ s \in Registered
     /\ Flip(s, pull)
     /\ entitled' = IF pull THEN entitled ELSE entitled \cup {s}
     /\ UNCHANGED faults
  \/ /\ ~ok /\ (net[s] \in {"cut", "down"} \/ s \notin Registered)
     /\ UNCHANGED <<pulling, entitled, faults>>
  \/ /\ ~ok /\ net[s] = "up" /\ Fault
     /\ Flip(s, pull) \/ UNCHANGED pulling
     /\ UNCHANGED entitled

(* run_failover: the commands in order, promote first.                        *)

\* Mutant: a failed promote no longer holds back the state change.
PromoteOk_Always(ok) == TRUE

PromoteOk(ok) == ok

SendPromote(c) ==
  /\ run[c].at = "act"
  /\ run[c].promote # None
  /\ \E ok \in BOOLEAN :
       /\ Post(run[c].promote, FALSE, ok)
       /\ run' = [run EXCEPT ![c].promote = None, ![c].promoteOk = PromoteOk(ok)]
  /\ UNCHANGED <<net, dns, storeVars, isLeader, steer, op, operations>>

\* A failed demote is only logged.
SendDemote(c, s) ==
  /\ run[c].at = "act"
  /\ run[c].promote = None
  /\ s \in run[c].demote
  /\ \E ok \in BOOLEAN : Post(s, TRUE, ok)
  /\ run' = [run EXCEPT ![c].demote = @ \ {s}]
  /\ UNCHANGED <<net, dns, storeVars, isLeader, steer, op, operations>>

Acted(c) ==
  /\ run[c].at = "act"
  /\ run[c].promote = None /\ run[c].demote = {}
  /\ run' = [run EXCEPT ![c] = IF @.promoteOk THEN [@ EXCEPT !.at = "persist"] ELSE Idle]
  /\ UNCHANGED <<serverVars, storeVars, isLeader, steer, op, entitled, bounds>>

\* set_active_primary; a store error is logged and the rest goes on.
PersistActive(c) ==
  /\ run[c].at = "persist"
  /\ \/ /\ UNCHANGED faults
        /\ cluster' = IF run[c].active = None THEN cluster
                      ELSE [cluster EXCEPT !.active = run[c].active]
     \/ /\ run[c].active # None
        /\ Fault
        /\ UNCHANGED cluster
  /\ run' = [run EXCEPT ![c].at = IF run[c].active = None THEN "fence" ELSE "steer"]
  /\ UNCHANGED <<serverVars, rec, lease, isLeader, steer, op, entitled, operations>>

(* steer_dns: read the recorded active primary, then tell every node.         *)

ReadSteer(a) ==
  \/ /\ steer' = [steer EXCEPT ![a] =
                    IF DnsPolicy /\ cluster.active # None
                    THEN [to |-> cluster.active, left |-> Registered]
                    ELSE NoSteer]
     /\ UNCHANGED faults
  \/ DnsPolicy /\ Fault /\ UNCHANGED steer

BeginSteer(c) ==
  /\ run[c].at = "steer"
  /\ ReadSteer(c)
  /\ run' = [run EXCEPT ![c].at = "fence"]
  /\ UNCHANGED <<serverVars, storeVars, isLeader, op, entitled, operations>>

\* POST /mgmt/dns to one node, best effort.
SteerNode(a, s) ==
  /\ s \in steer[a].left
  /\ steer' = [steer EXCEPT ![a] = IF steer[a].left = {s} THEN NoSteer
                  ELSE [to |-> steer[a].to, left |-> steer[a].left \ {s}]]
  /\ \/ net[s] = "up" /\ dns' = [dns EXCEPT ![s] = steer[a].to] /\ UNCHANGED faults
     \/ net[s] \in {"cut", "down"} /\ UNCHANGED <<dns, faults>>
     \/ net[s] = "up" /\ Fault /\ UNCHANGED dns
  /\ UNCHANGED <<net, pulling, storeVars, isLeader, run, op, entitled, operations>>

\* The rows to write next: the failed primary, then those that came back.
FenceRows(r) == IF r.fence # {} THEN r.fence ELSE r.unfence

\* What is left of a run once the row of s is written; the last one ends it.
AfterFence(r, s) ==
  IF r.fence \cup r.unfence = {s} THEN Idle
  ELSE [r EXCEPT !.fence = @ \ {s},
                 !.unfence = IF r.fence = {} THEN @ \ {s} ELSE @]

\* set_fenced, row by row; an error is ignored.
PersistFence(c) ==
  /\ run[c].at = "fence"
  /\ steer[c].left = {}
  /\ \/ /\ FenceRows(run[c]) = {}
        /\ run' = [run EXCEPT ![c] = Idle]
        /\ UNCHANGED <<rec, faults>>
     \/ \E s \in FenceRows(run[c]) :
          /\ run' = [run EXCEPT ![c] = AfterFence(run[c], s)]
          /\ \/ /\ rec' = [rec EXCEPT ![s].fenced = (run[c].fence # {})]
                /\ UNCHANGED faults
             \/ Fault /\ UNCHANGED rec
  /\ UNCHANGED <<serverVars, cluster, lease, isLeader, steer, op, entitled, operations>>

----------------------------------------------------------------------------
(* The operator's calls (api.rs).                                             *)

Operation(kind) ==
  /\ kind \in Operations
  /\ operations < MaxOperations /\ operations' = operations + 1

\* A whole-node promote: the command now, the row and the steering later.
ManualPromote(s) ==
  /\ Operation("promote")
  /\ op = NoOp /\ steer[Operator] = NoSteer
  /\ s \in Registered
  /\ \E ok \in BOOLEAN :
       /\ Post(s, FALSE, ok)
       /\ op' = IF ok THEN [at |-> "record", sid |-> s] ELSE NoOp
  /\ UNCHANGED <<net, dns, storeVars, centerVars>>

\* set_active_primary, its error ignored.
RecordPromote ==
  /\ op.at = "record"
  /\ \/ cluster' = [cluster EXCEPT !.active = op.sid] /\ UNCHANGED faults
     \/ Fault /\ UNCHANGED cluster
  /\ op' = [op EXCEPT !.at = "steer"]
  /\ UNCHANGED <<serverVars, rec, lease, centerVars, entitled, operations>>

OperatorSteer ==
  /\ op.at = "steer"
  /\ ReadSteer(Operator)
  /\ op' = NoOp
  /\ UNCHANGED <<serverVars, storeVars, isLeader, run, entitled, operations>>

ManualDemote(s) ==
  /\ Operation("demote")
  /\ s \in Registered
  /\ \E ok \in BOOLEAN : Post(s, TRUE, ok)
  /\ UNCHANGED <<net, dns, storeVars, centerVars, op>>

SetPolicy ==
  /\ Operation("policy")
  /\ cluster' = [cluster EXCEPT !.auto = ~@]
  /\ UNCHANGED <<serverVars, rec, lease, centerVars, op, entitled, faults>>

SetIntent(s, intent) ==
  /\ Operation("intent")
  /\ s \in Registered
  /\ rec' = [rec EXCEPT ![s].intent = intent]
  /\ entitled' = IF intent = "primary" THEN entitled \cup {s} ELSE entitled
  /\ UNCHANGED <<serverVars, cluster, lease, centerVars, op, faults>>

\* register_server, for a box that is already running.
RegisterServer(s) ==
  /\ Operation("register")
  /\ rec[s].row = "absent"
  /\ rec' = [rec EXCEPT ![s] = NewRecord]
  /\ UNCHANGED <<serverVars, cluster, lease, centerVars, op, entitled, faults>>

\* delete_server: the row goes, the cluster row is left alone.
DeleteServer(s) ==
  /\ Operation("delete")
  /\ s \in Registered
  /\ rec' = [rec EXCEPT ![s].row = "deleted"]
  /\ UNCHANGED <<serverVars, cluster, lease, centerVars, op, entitled, faults>>

----------------------------------------------------------------------------
(* The managed servers: a restart forgets the promotion (the pull flag is     *)
(* registered TRUE again); a cut server keeps running on its own.             *)

CrashServer(s) ==
  /\ net[s] # "down"
  /\ Fault
  /\ net' = [net EXCEPT ![s] = "down"]
  /\ pulling' = [pulling EXCEPT ![s] = TRUE]
  /\ UNCHANGED <<dns, storeVars, centerVars, op, entitled, operations>>

CutServer(s) ==
  /\ net[s] = "up"
  /\ Fault
  /\ net' = [net EXCEPT ![s] = "cut"]
  /\ UNCHANGED <<pulling, dns, storeVars, centerVars, op, entitled, operations>>

HangServer(s) ==
  /\ MayHang
  /\ net[s] = "up"
  /\ Fault
  /\ net' = [net EXCEPT ![s] = "hung"]
  /\ UNCHANGED <<pulling, dns, storeVars, centerVars, op, entitled, operations>>

ReturnServer(s) ==
  /\ net[s] # "up"
  /\ net' = [net EXCEPT ![s] = "up"]
  /\ UNCHANGED <<pulling, dns, storeVars, centerVars, op, entitled, bounds>>

----------------------------------------------------------------------------

CenterStep(c) ==
  \/ Tick(c) \/ Evaluate(c) \/ SendPromote(c) \/ Acted(c)
  \/ PersistActive(c) \/ BeginSteer(c) \/ PersistFence(c)
  \/ \E s \in Servers : PollServer(c, s) \/ SendDemote(c, s)

OperatorStep ==
  \/ RecordPromote \/ OperatorSteer \/ SetPolicy
  \/ \E s \in Servers : \/ ManualPromote(s) \/ ManualDemote(s)
                        \/ RegisterServer(s) \/ DeleteServer(s)
  \/ \E s \in Servers, i \in RoleIntent : SetIntent(s, i)

Next ==
  \/ \E c \in Centers : \/ CenterStep(c) \/ Elect(c) \/ ElectError(c)
                        \/ StopCenter(c) \/ StartCenter(c)
  \/ Expire \/ ExpireLate
  \/ OperatorStep
  \/ \E a \in Actors, s \in Servers : SteerNode(a, s)
  \/ \E s \in Servers : \/ CrashServer(s) \/ CutServer(s) \/ HangServer(s)
                        \/ ReturnServer(s)

(* Fairness: the center's tasks run (tickers and awaits), a dead center is    *)
(* restarted, a lease nobody renews expires.  Nothing is assumed of servers.  *)
Fairness ==
  /\ \A c \in Centers : /\ WF_vars(CenterStep(c)) /\ WF_vars(Elect(c))
                        /\ WF_vars(StartCenter(c))
  /\ WF_vars(Expire)
  /\ WF_vars(RecordPromote) /\ WF_vars(OperatorSteer)
  /\ \A a \in Actors : WF_vars(\E s \in Servers : SteerNode(a, s))

Spec == Init /\ [][Next]_vars /\ Fairness

----------------------------------------------------------------------------
(* Properties.                                                                *)

\* The servers the center can reach that act as primary.
Reachable(s) == s \in Registered /\ net[s] = "up"
Primaries == {s \in Servers : Reachable(s) /\ ActsPrimary(s)}

\* At most one reachable server acts as primary.
OnePrimary == cluster.auto => Cardinality(Primaries) <= 1

\* The recorded primary cannot be reached and a standby can.
ActiveLost ==
  /\ cluster.auto
  /\ cluster.active \in Registered
  /\ net[cluster.active] # "up"
  /\ \E s \in Registered : rec[s].intent = "standby" /\ net[s] = "up"

\* fetch_feed and post_action set no timeout: a server that accepts a connection and
\* never answers stops the round of the center, and with it every failover.
Hung == \E s \in Servers : net[s] = "hung"

\* "A cluster never keeps two primaries": when the faults and the operator's calls
\* are over, no server hangs and auto_failover is armed, at most one reachable server
\* is left acting as primary, whatever was lost, duplicated or half done on the way.
EventuallyOnePrimary == <>[](OnePrimary \/ Hung)

\* Auto-promote: an active primary that stays unreachable while some standby stays
\* reachable does not stay the recorded one, unless a server hangs.
FailsOver == []<>(~ActiveLost \/ Hung)

\* run_failover: "a failed promote holds back the state change so we don't record a
\* standby as active when it never actually took over", nor steer clients to it: the
\* recorded primary and every service record name a server that was designated
\* primary or acknowledged a promote.
ActiveEntitled ==
  /\ cluster.active # None => cluster.active \in entitled
  /\ \A s \in Servers : dns[s] # None => dns[s] \in entitled

\* A step that leaves the recorded active primary its role, unless that restarts.
KeepsActive ==
  \A s \in Servers :
    s = cluster.active /\ ~pulling[s] /\ pulling'[s] => net'[s] = "down"

\* While the operator has called nothing and one center runs, the center's commands
\* never take the role from the recorded active primary; only its restart does.  Two
\* centers can: the commands of a decision outlive the rows it was taken on.
ActiveNotDemoted ==
  [][operations' = 0 /\ (\A c, d \in Centers : c = d) => KeepsActive]_vars

\* "After a failover the standby stays primary until an operator moves it back":
\* the recorded active primary does not stay reachable without acting as primary.
ActiveServes ==
  ~<>[](/\ cluster.auto
        /\ cluster.active \in Registered
        /\ net[cluster.active] = "up"
        /\ ~ActsPrimary(cluster.active))

\* The state the center acts on is sound: its records are well formed and name only
\* servers entitled to be primary.
RolesSound == TypeOK /\ ActiveEntitled

\* Failover ends well: a lost active primary is replaced, and at most one reachable
\* server is left acting as primary, as long as no server hangs.
Settles == EventuallyOnePrimary /\ FailsOver
=============================================================================
