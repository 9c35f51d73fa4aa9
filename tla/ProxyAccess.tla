---------------------------- MODULE ProxyAccess ----------------------------
(* The reverse proxy's request path: the configuration it caches, whom it lets *)
(* through to which virtual host, the upstream it chooses, and the counts of   *)
(* requests in flight that the choice rests on. One client address; a rule     *)
(* stands for one whose CIDR contains it.                                      *)
EXTENDS Integers, Sequences, FiniteSets, SequencesExt

CONSTANTS
  Vhosts,       \* rows of the vhost table, by id
  HostOf,       \* HostOf[v]: the hostname of v
  Rules,        \* ACL rules: [scope, ref, action, priority]
  Upstreams,    \* the upstreams of every vhost, in order: [name, weight]
  Strategy,     \* lb_strategy of every vhost
  Requests,     \* requests at one time
  MaxEdits,     \* bound: changes in the Web UI
  MaxFaults     \* bound: loads that fail

VARIABLES
  vhosts, rules, blocked,  \* the tables (vhosts: the enabled ones)
  cfg,          \* the cached snapshot
  ready,        \* config_ready
  load,         \* where refresh_proxy_config is
  req,          \* req[r]: where request r is
  inflight,     \* the counts, by upstream
  counter,      \* the round-robin counter
  born,         \* born[v]: "no" until first enabled; then "shut" if the rules denied it, else "open"
  edits, faults

vars == <<vhosts, rules, blocked, cfg, ready, load, req, inflight, counter, born, edits, faults>>
tables == <<vhosts, rules, blocked, born, edits>>

Names == {Upstreams[i].name : i \in 1..Len(Upstreams)}
Empty == [vhosts |-> {}, blocked |-> FALSE, rules |-> {}]
Idle == [at |-> "idle"]
Go(r, s) == req' = [req EXCEPT ![r] = s]

----------------------------------------------------------------------------
(* router *)

\* acl_decision: rules in scope by priority, the first decides; allow by default.
AclDecision(rs, v) ==
  LET scoped == {x \in rs : x.scope = "global" \/ x.ref = v}
      first == {x \in scoped : \A y \in scoped : x.priority <= y.priority}
  IN IF first = {} THEN {"allow"} ELSE {x.action : x \in first}

WeightOf(i) == IF Upstreams[i].weight = 0 THEN 1 ELSE Upstreams[i].weight
Before(i) == FoldLeft(+, 0, [j \in 1..(i - 1) |-> WeightOf(j)])
Total == Before(Len(Upstreams) + 1)
Turns == Len(Upstreams) * Total     \* the counter is kept modulo this

\* The walk over the weights.
Weighted(n) ==
  {i \in 1..Len(Upstreams) : n % Total >= Before(i) /\ n % Total < Before(i) + WeightOf(i)}

\* select_upstream; the counts are those read under the lock before.
Select(n, counts) ==
  LET few == {i \in 1..Len(Upstreams) : \A j \in 1..Len(Upstreams) :
                counts[Upstreams[i].name] <= counts[Upstreams[j].name]}
      at == CASE Upstreams = <<>> -> {}
              [] Strategy = "round_robin" -> {(n % Len(Upstreams)) + 1}
              [] Strategy = "ip_hash" -> {1}
              [] Strategy = "least_conn" -> {CHOOSE i \in few : \A j \in few : i <= j}
              [] Strategy = "weighted" -> Weighted(n)
  IN {Upstreams[i].name : i \in at}

----------------------------------------------------------------------------
(* The Web UI *)

Opened == [v \in Vhosts |-> IF born[v] = "shut" THEN "open" ELSE born[v]]
Edit == edits < MaxEdits /\ edits' = edits + 1
Served == <<cfg, ready, load, req, inflight, counter, faults>>

\* save_vhost, set_vhost_enabled.
SaveVhost(v) ==
  /\ Edit
  /\ vhosts' = vhosts \cup {v}
  /\ born' = [born EXCEPT ![v] = IF @ # "no" THEN @
                                ELSE IF AclDecision(rules, v) = {"deny"} THEN "shut" ELSE "open"]
  /\ UNCHANGED <<rules, blocked, Served>>

\* delete_vhost: refused while a rule names its hostname; set_vhost_enabled(FALSE).
DropVhost(v) ==
  /\ v \in vhosts
  /\ \A x \in rules : x.ref # HostOf[v]
  /\ Edit
  /\ vhosts' = vhosts \ {v}
  /\ UNCHANGED <<rules, blocked, born, Served>>

\* save_acl_rule, set_acl_enabled.
SaveRule(x) ==
  /\ x \notin rules
  /\ Edit
  /\ rules' = rules \cup {x}
  /\ born' = IF x.action = "allow" THEN Opened ELSE born
  /\ UNCHANGED <<vhosts, blocked, Served>>

\* delete_acl_rule, set_acl_enabled(FALSE).
DropRule(x) ==
  /\ x \in rules
  /\ Edit
  /\ rules' = rules \ {x}
  /\ born' = Opened
  /\ UNCHANGED <<vhosts, blocked, Served>>

\* save_ip_block, delete_ip_block, set_ip_block_enabled.
Block(b) ==
  /\ blocked # b
  /\ Edit
  /\ blocked' = b
  /\ UNCHANGED <<vhosts, rules, born, Served>>

----------------------------------------------------------------------------
(* refresh_proxy_config *)

\* Faulty variant: the rules are read first.
ReadRulesFirst(l) ==
  CASE l.at = "idle" -> [at |-> "1", got |-> [Empty EXCEPT !.rules = rules]]
    [] l.at = "1" -> [at |-> "2", got |-> [l.got EXCEPT !.blocked = blocked]]
    [] l.at = "2" -> [at |-> "all", got |-> [l.got EXCEPT !.vhosts = vhosts]]

\* The three lists, one after another.
ReadList(l) ==
  CASE l.at = "idle" -> [at |-> "1", got |-> [Empty EXCEPT !.vhosts = vhosts]]
    [] l.at = "1" -> [at |-> "2", got |-> [l.got EXCEPT !.blocked = blocked]]
    [] l.at = "2" -> [at |-> "all", got |-> [l.got EXCEPT !.rules = rules]]

Refresh ==
  /\ load.at # "all"
  /\ load' = ReadList(load)
  /\ UNCHANGED <<tables, cfg, ready, req, inflight, counter, faults>>

\* Faulty variant: the blocks of the first load are kept.
RefreshEndsOld ==
  /\ load.at = "all"
  /\ cfg' = [load.got EXCEPT !.blocked = IF ready THEN cfg.blocked ELSE @]
  /\ ready' = TRUE
  /\ load' = Idle
  /\ UNCHANGED <<tables, req, inflight, counter, faults>>

RefreshEnds ==
  /\ load.at = "all"
  /\ cfg' = load.got
  /\ ready' = TRUE
  /\ load' = Idle
  /\ UNCHANGED <<tables, req, inflight, counter, faults>>

\* A list cannot be read: the last snapshot stays.
RefreshFails ==
  /\ load # Idle
  /\ faults < MaxFaults
  /\ faults' = faults + 1
  /\ load' = Idle
  /\ UNCHANGED <<tables, cfg, ready, req, inflight, counter>>

----------------------------------------------------------------------------
(* Requests *)

\* warm_config: the cache when it is ready, else the three lists, one by one.
Arrive(r) ==
  /\ req[r] = Idle
  /\ IF ready THEN Go(r, [at |-> "decide", got |-> cfg]) ELSE Go(r, ReadList(Idle))
  /\ UNCHANGED <<tables, cfg, ready, load, inflight, counter, faults>>

Warm(r) ==
  /\ req[r].at \in {"1", "2", "all"}
  /\ IF req[r].at = "all"
       THEN Go(r, [at |-> "decide", got |-> req[r].got])
       ELSE Go(r, ReadList(req[r]))
  /\ UNCHANGED <<tables, cfg, ready, load, inflight, counter, faults>>

\* A list cannot be read: the cache as it is.
WarmFails(r) ==
  /\ req[r].at \in {"1", "2"}
  /\ faults < MaxFaults
  /\ faults' = faults + 1
  /\ Go(r, [at |-> "decide", got |-> cfg])
  /\ UNCHANGED <<tables, cfg, ready, load, inflight, counter>>

\* handle and handle_tcp up to the choice: blocked, no such vhost, denied, or on to
\* an upstream chosen by the counts as they are now.
Decide(r, v) ==
  /\ req[r].at = "decide"
  /\ \/ /\ \/ req[r].got.blocked
           \/ v \notin req[r].got.vhosts
           \/ "deny" \in AclDecision(req[r].got.rules, v)
        /\ Go(r, Idle)
        /\ UNCHANGED counter
     \/ /\ ~req[r].got.blocked
        /\ v \in req[r].got.vhosts
        /\ "allow" \in AclDecision(req[r].got.rules, v)
        /\ counter' = (counter + 1) % Turns
        /\ \/ Select(counter, inflight) = {} /\ Go(r, Idle)
           \/ \E u \in Select(counter, inflight) : Go(r, [at |-> "chosen", v |-> v, u |-> u, by |-> req[r].got.rules])
  /\ UNCHANGED <<tables, cfg, ready, load, inflight, faults>>

\* InflightGuard::acquire.
Acquire(r) ==
  /\ req[r].at = "chosen"
  /\ inflight' = [inflight EXCEPT ![req[r].u] = @ + 1]
  /\ Go(r, [at |-> "upstream", v |-> req[r].v, u |-> req[r].u])
  /\ UNCHANGED <<tables, cfg, ready, load, counter, faults>>

\* Faulty variant: an upstream that does not answer keeps its count.
ReleaseLost(n) == n

\* InflightGuard::drop.
Release(n) == IF n = 0 THEN 0 ELSE n - 1

\* The upstream answers or fails, the tunnel of a stream ends, the client gives up:
\* the handler returns or is dropped, and its guard with it.
Done(r) ==
  /\ req[r].at = "upstream"
  /\ inflight' = [inflight EXCEPT ![req[r].u] = Release(@)]
  /\ Go(r, Idle)
  /\ UNCHANGED <<tables, cfg, ready, load, counter, faults>>

\* proxy_upgrade: the handler returns with 101 while the two sides are spliced on.
Upgrade(r) ==
  /\ req[r].at = "upstream"
  /\ inflight' = [inflight EXCEPT ![req[r].u] = Release(@)]
  /\ Go(r, [at |-> "tunnel", v |-> req[r].v, u |-> req[r].u])
  /\ UNCHANGED <<tables, cfg, ready, load, counter, faults>>

TunnelEnds(r) ==
  /\ req[r].at = "tunnel"
  /\ Go(r, Idle)
  /\ UNCHANGED <<tables, cfg, ready, load, inflight, counter, faults>>

----------------------------------------------------------------------------

Init ==
  /\ vhosts = {} /\ rules = {} /\ blocked = FALSE
  /\ cfg = Empty /\ ready = FALSE /\ load = Idle
  /\ req = [r \in Requests |-> Idle]
  /\ inflight = [u \in Names |-> 0]
  /\ counter = 0 /\ born = [v \in Vhosts |-> "no"] /\ edits = 0 /\ faults = 0

Next ==
  \/ \E v \in Vhosts : SaveVhost(v) \/ DropVhost(v)
  \/ \E x \in Rules : SaveRule(x) \/ DropRule(x)
  \/ \E b \in BOOLEAN : Block(b)
  \/ Refresh \/ RefreshEnds \/ RefreshFails
  \/ \E r \in Requests : \/ Arrive(r) \/ Warm(r) \/ WarmFails(r)
                         \/ \E v \in Vhosts : Decide(r, v)
                         \/ Acquire(r) \/ Done(r) \/ Upgrade(r) \/ TunnelEnds(r)

\* The refresh task never stops.
Fairness == WF_vars(Refresh) /\ WF_vars(RefreshEnds)

Spec == Init /\ [][Next]_vars /\ Fairness

----------------------------------------------------------------------------
(* Properties *)

TypeOK ==
  /\ vhosts \subseteq Vhosts /\ rules \subseteq Rules /\ blocked \in BOOLEAN
  /\ cfg.vhosts \subseteq Vhosts /\ cfg.rules \subseteq Rules /\ cfg.blocked \in BOOLEAN
  /\ load.at \in {"idle", "1", "2", "all"}
  /\ \A r \in Requests : req[r].at \in {"idle", "1", "2", "all", "decide", "chosen", "upstream", "tunnel"}
  /\ inflight \in [Names -> 0..Cardinality(Requests)]
  /\ counter \in 0..(Turns - 1)

\* The counts that least_conn goes by are exact: each is the number of requests
\* whose guard is alive, through failures, aborted clients and upgrades, so that no
\* upstream is starved by a count that leaks or drops below zero.
InflightExact ==
  \A u \in Names : inflight[u] = Cardinality({r \in Requests : req[r].at = "upstream" /\ req[r].u = u})

\* A vhost that the rules denied to the client when it was first enabled is never
\* reached by it before a rule is removed or an allowing one saved: the three lists
\* are read one by one, but the list that has the vhost before the list that has
\* the rule, both for the cache and in the direct load of the first seconds.
DenyPrecedes ==
  \A r \in Requests : req[r].at \in {"chosen", "upstream", "tunnel"} => born[req[r].v] # "shut"

\* A rule for one virtual host binds: a client it denies does not reach the host
\* (the Web UI and delete_vhost name the host by its hostname; acl_decision
\* compares that with the id of the row).
ScopedDenyBinds ==
  \A r \in Requests : req[r].at = "chosen" =>
    ~\E x \in req[r].by : x.scope = "vhost" /\ x.action = "deny" /\ x.ref = HostOf[req[r].v]

\* The block is in the cache.
BlockKnown == blocked => cfg.blocked
=============================================================================
