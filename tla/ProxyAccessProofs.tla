------------------------- MODULE ProxyAccessProofs -------------------------
(* Proofs about ProxyAccess, for any virtual hosts, rules, upstreams, strategy *)
(* and number of requests.                                                     *)
(*                                                                             *)
(* DenyPrecedes is about requests; what makes it so is the order of the reads. *)
(* The inductive invariant says of every snapshot, in the cache and in the     *)
(* hands of a load or of a request, that its virtual hosts were known when it  *)
(* was begun and that, once its rules are read, they deny what is still shut.  *)
EXTENDS ProxyAccess, FiniteSetTheorems, TLAPS

Configured ==
  /\ IsFiniteSet(Requests)
  /\ \A x \in Rules : x.priority \in Int /\ x.action \in {"allow", "deny"}

Snapshot == [vhosts : SUBSET Vhosts, blocked : BOOLEAN, rules : SUBSET Rules]

\* A snapshot whose rules are not read yet, and a whole one.
Half(g) == g \in Snapshot /\ \A v \in g.vhosts : born[v] # "no"
Whole(g) == Half(g) /\ \A v \in g.vhosts : born[v] = "shut" => AclDecision(g.rules, v) = {"deny"}

TablesSound ==
  /\ vhosts \subseteq Vhosts /\ rules \subseteq Rules /\ blocked \in BOOLEAN
  /\ born \in [Vhosts -> {"no", "shut", "open"}]
  /\ \A v \in vhosts : born[v] # "no"
  /\ \A v \in Vhosts : born[v] = "shut" => AclDecision(rules, v) = {"deny"}

LoadSound(l) ==
  \/ l = Idle
  \/ l.at \in {"1", "2"} /\ Half(l.got)
  \/ l.at = "all" /\ Whole(l.got)

RequestSound(q) ==
  \/ LoadSound(q)
  \/ q.at = "decide" /\ Whole(q.got)
  \/ q.at \in {"chosen", "upstream", "tunnel"} /\ q.v \in Vhosts /\ born[q.v] = "open"

SnapshotsSound ==
  /\ Whole(cfg)
  /\ LoadSound(load)
  /\ DOMAIN req = Requests /\ \A r \in Requests : RequestSound(req[r])

IInv == TablesSound /\ SnapshotsSound

----------------------------------------------------------------------------
(* The access decision.                                                        *)

\* One more denial does not open what the rules deny.
LEMMA AddDeny ==
  ASSUME Configured, NEW rs \in SUBSET Rules, NEW x \in Rules, x.action # "allow", NEW v,
         AclDecision(rs, v) = {"deny"}
  PROVE  AclDecision(rs \cup {x}, v) = {"deny"}
<1> DEFINE scoped == {y \in rs : y.scope = "global" \/ y.ref = v}
           first == {y \in scoped : \A z \in scoped : y.priority <= z.priority}
           scoped1 == {y \in rs \cup {x} : y.scope = "global" \/ y.ref = v}
           first1 == {y \in scoped1 : \A z \in scoped1 : y.priority <= z.priority}
<1>1. first # {} /\ \A y \in first : y.action = "deny"
  <2>1. AclDecision(rs, v) = IF first = {} THEN {"allow"} ELSE {y.action : y \in first}
    BY DEF AclDecision
  <2>2. "allow" # "deny"
    OBVIOUS
  <2> HIDE DEF first
  <2>3. first # {}
    BY <2>1, <2>2
  <2> QED BY <2>1, <2>3
<1>2. PICK f \in first : TRUE
  BY <1>1
<1>3. x.action = "deny" /\ x.priority \in Int /\ \A y \in rs : y.priority \in Int
  BY DEF Configured
<1>4. \A y \in first1 : y.action = "deny"
  BY <1>1, <1>3
<1>5. first1 # {}
  <2>1. CASE x \in scoped1 /\ x.priority < f.priority
    <3>1. \A z \in scoped : f.priority <= z.priority
      BY <1>2
    <3>2. \A z \in scoped1 : x.priority <= z.priority
      <4> SUFFICES ASSUME NEW z \in scoped1, z # x PROVE x.priority <= z.priority
        BY <1>3
      <4>1. z \in scoped /\ f.priority <= z.priority /\ z.priority \in Int /\ f.priority \in Int
        BY <1>2, <1>3, <3>1
      <4> QED BY <1>3, <2>1, <4>1
    <3> QED BY <2>1, <3>2
  <2>2. CASE ~(x \in scoped1 /\ x.priority < f.priority)
    <3>1. f.priority \in Int /\ f \in scoped1
      BY <1>2, <1>3
    <3>2. \A z \in scoped1 : f.priority <= z.priority
      <4> SUFFICES ASSUME NEW z \in scoped1 PROVE f.priority <= z.priority
        OBVIOUS
      <4>1. CASE z = x
        BY <1>3, <2>2, <3>1, <4>1
      <4>2. CASE z \in scoped
        BY <1>2, <4>2
      <4> QED BY <4>1, <4>2
    <3> QED BY <3>1, <3>2
  <2> QED BY <2>1, <2>2
<1>6. AclDecision(rs \cup {x}, v) = IF first1 = {} THEN {"allow"} ELSE {y.action : y \in first1}
  BY DEF AclDecision
<1> HIDE DEF first1
<1> QED BY <1>4, <1>5, <1>6

----------------------------------------------------------------------------
(* Edits in the Web UI.                                                        *)

\* What an edit may do to a virtual host: give birth to it, or open it.
LEMMA BornMoves ==
  ASSUME SnapshotsSound, born \in [Vhosts -> {"no", "shut", "open"}],
         \A v \in Vhosts : born'[v] = born[v] \/ born[v] = "no" \/ born'[v] = "open",
         cfg' = cfg, load' = load, req' = req
  PROVE  SnapshotsSound'
<1>1. \A g : Half(g) => Half(g)'
  BY DEF Half, Snapshot
<1>2. \A g : Whole(g) => Whole(g)'
  BY <1>1 DEF Whole, Half, Snapshot, AclDecision
<1>3. \A l : LoadSound(l) => LoadSound(l)'
  BY <1>1, <1>2 DEF LoadSound, Idle
<1>4. \A q : RequestSound(q) => RequestSound(q)'
  BY <1>2, <1>3 DEF RequestSound
<1>5. Whole(cfg)'
  BY <1>2 DEF SnapshotsSound, Whole, Half
<1>6. LoadSound(load)'
  BY <1>3 DEF SnapshotsSound, LoadSound, Whole, Half
<1>7. \A r \in Requests : RequestSound(req[r])'
  BY <1>4, ZenonT(60) DEF SnapshotsSound, RequestSound, LoadSound, Whole, Half
<1> QED BY <1>5, <1>6, <1>7 DEF SnapshotsSound

LEMMA SaveVhostSound ==
  ASSUME IInv, NEW v \in Vhosts, SaveVhost(v)
  PROVE  IInv'
<1>1. PICK b : b = IF born[v] # "no" THEN born[v]
                   ELSE IF AclDecision(rules, v) = {"deny"} THEN "shut" ELSE "open"
  OBVIOUS
<1>2. /\ vhosts' = vhosts \cup {v} /\ born' = [born EXCEPT ![v] = b]
      /\ rules' = rules /\ blocked' = blocked /\ cfg' = cfg /\ load' = load /\ req' = req
  BY <1>1 DEF SaveVhost, Served
<1>3. TablesSound /\ SnapshotsSound /\ born \in [Vhosts -> {"no", "shut", "open"}]
  BY DEF IInv, TablesSound
<1>4. /\ b \in {"shut", "open"} /\ (born[v] # "no" => b = born[v])
      /\ b = "shut" => AclDecision(rules, v) = {"deny"}
  BY <1>1, <1>3 DEF TablesSound
<1>5. /\ born' \in [Vhosts -> {"no", "shut", "open"}] /\ born'[v] = b
      /\ \A w \in Vhosts : w # v => born'[w] = born[w]
  BY <1>2, <1>3, <1>4
<1>6. SnapshotsSound'
  BY <1>2, <1>3, <1>4, <1>5, BornMoves
<1>7. TablesSound'
  <2>1. \A w \in vhosts' : born'[w] # "no"
    BY <1>2, <1>3, <1>4, <1>5 DEF TablesSound
  <2>2. \A w \in Vhosts : born'[w] = "shut" => AclDecision(rules, w)' = {"deny"}
    BY <1>2, <1>3, <1>4, <1>5 DEF TablesSound, AclDecision
  <2> QED BY <1>2, <1>3, <1>5, <2>1, <2>2 DEF TablesSound, AclDecision
<1> QED BY <1>6, <1>7 DEF IInv

LEMMA EditSound ==
  ASSUME Configured, IInv,
         \/ \E v \in Vhosts : DropVhost(v)
         \/ \E x \in Rules : SaveRule(x) \/ DropRule(x)
         \/ \E b \in BOOLEAN : Block(b)
  PROVE  IInv'
<1>1. /\ cfg' = cfg /\ load' = load /\ req' = req
  BY DEF DropVhost, SaveRule, DropRule, Block, Served
<1>2. TablesSound /\ SnapshotsSound /\ born \in [Vhosts -> {"no", "shut", "open"}]
  BY DEF IInv, TablesSound
<1>3. Opened \in [Vhosts -> {"no", "open"}] /\ \A v \in Vhosts : Opened[v] = born[v] \/ Opened[v] = "open"
  BY <1>2 DEF Opened
<1>4. \A v \in Vhosts : Opened[v] = "no" => born[v] = "no"
  BY <1>2 DEF Opened
<1>5. born' = born \/ born' = Opened
  BY DEF DropVhost, SaveRule, DropRule, Block
<1>6. /\ born' \in [Vhosts -> {"no", "shut", "open"}]
      /\ \A v \in Vhosts : born'[v] = born[v] \/ born'[v] = "open"
      /\ \A v \in Vhosts : born'[v] = "no" => born[v] = "no"
      /\ \A v \in Vhosts : born'[v] = "shut" => born[v] = "shut"
  BY <1>2, <1>3, <1>4, <1>5
<1>7. SnapshotsSound'
  BY <1>1, <1>2, <1>6, BornMoves
<1>8. vhosts' \subseteq vhosts /\ rules' \subseteq Rules /\ blocked' \in BOOLEAN
  BY <1>2 DEF DropVhost, SaveRule, DropRule, Block, TablesSound
<1>9. ASSUME NEW v \in Vhosts, born'[v] = "shut"
      PROVE  AclDecision(rules', v) = {"deny"}
  <2>1. AclDecision(rules, v) = {"deny"}
    BY <1>2, <1>6, <1>9 DEF TablesSound
  <2>2. CASE rules' = rules
    BY <2>1, <2>2
  <2>3. ASSUME NEW x \in Rules, SaveRule(x)
        PROVE  AclDecision(rules', v) = {"deny"}
    <3>1. x.action # "allow"
      <4>1. CASE born' = Opened
        BY <1>3, <1>9, <4>1
      <4>2. CASE x.action = "allow"
        BY <2>3, <4>1, <4>2 DEF SaveRule
      <4> QED BY <4>2
    <3>2. rules' = rules \cup {x} /\ rules \in SUBSET Rules
      BY <1>2, <2>3 DEF SaveRule, TablesSound
    <3> QED BY <2>1, <3>1, <3>2, AddDeny
  <2>4. ASSUME NEW x \in Rules, DropRule(x)
        PROVE  FALSE
    BY <1>3, <1>9, <2>4 DEF DropRule
  <2>5. (\E x \in Rules : SaveRule(x) \/ DropRule(x)) \/ rules' = rules
    BY DEF DropVhost, Block
  <2> QED BY <2>2, <2>3, <2>4, <2>5
<1>10. TablesSound'
  <2>1. \A v \in vhosts' : born'[v] # "no"
    BY <1>2, <1>6, <1>8 DEF TablesSound
  <2>2. \A v \in Vhosts : born'[v] = "shut" => AclDecision(rules, v)' = {"deny"}
    BY <1>9 DEF AclDecision
  <2> QED BY <1>2, <1>6, <1>8, <2>1, <2>2 DEF TablesSound
<1> QED BY <1>7, <1>10 DEF IInv

----------------------------------------------------------------------------
(* Loads and requests.                                                         *)

\* The next list is read.
LEMMA ReadSound ==
  ASSUME TablesSound, NEW l, LoadSound(l), l.at # "all"
  PROVE  LoadSound(ReadList(l)) /\ ReadList(l).at \in {"1", "2", "all"}
<1>1. l.at \in {"idle", "1", "2"}
  BY DEF LoadSound, Idle
<1>2. Empty \in Snapshot /\ Empty.vhosts = {}
  BY DEF Empty, Snapshot
<1>3. CASE l.at = "idle"
  <2>1. PICK g : g = [Empty EXCEPT !.vhosts = vhosts]
    OBVIOUS
  <2>2. ReadList(l) = [at |-> "1", got |-> g]
    BY <1>3, <2>1 DEF ReadList
  <2>3. g \in Snapshot /\ g.vhosts = vhosts
    BY <1>2, <2>1 DEF Snapshot, TablesSound
  <2>4. Half(g)
    BY <2>3 DEF Half, TablesSound
  <2> QED BY <2>2, <2>4 DEF LoadSound
<1>4. CASE l.at = "1"
  <2>1. PICK g : g = [l.got EXCEPT !.blocked = blocked]
    OBVIOUS
  <2>2. ReadList(l) = [at |-> "2", got |-> g]
    BY <1>4, <2>1 DEF ReadList
  <2>3. Half(l.got)
    BY <1>4 DEF LoadSound, Idle
  <2>4. g \in Snapshot /\ g.vhosts = l.got.vhosts
    BY <2>1, <2>3 DEF Half, Snapshot, TablesSound
  <2>5. Half(g)
    BY <2>3, <2>4 DEF Half
  <2> QED BY <2>2, <2>5 DEF LoadSound
<1>5. CASE l.at = "2"
  <2>1. PICK g : g = [l.got EXCEPT !.rules = rules]
    OBVIOUS
  <2>2. ReadList(l) = [at |-> "all", got |-> g]
    BY <1>5, <2>1 DEF ReadList
  <2>3. Half(l.got)
    BY <1>5 DEF LoadSound, Idle
  <2>4. g \in Snapshot /\ g.vhosts = l.got.vhosts /\ g.rules = rules
    BY <2>1, <2>3 DEF Half, Snapshot, TablesSound
  <2>5. Whole(g)
    BY <2>3, <2>4 DEF Half, Whole, TablesSound, Snapshot
  <2> QED BY <2>2, <2>5 DEF LoadSound
<1> QED BY <1>1, <1>3, <1>4, <1>5

\* A step that leaves the tables alone.
LEMMA TablesStay ==
  ASSUME IInv, UNCHANGED tables, Whole(cfg'), LoadSound(load'), DOMAIN req' = Requests,
         \A r \in Requests : RequestSound(req'[r])
  PROVE  IInv'
<1>1. vhosts' = vhosts /\ rules' = rules /\ blocked' = blocked /\ born' = born
  BY DEF tables
<1>2. TablesSound'
  BY <1>1 DEF IInv, TablesSound, AclDecision
<1>3. Whole(cfg)'
  BY <1>1 DEF Whole, Half
<1>4. LoadSound(load)'
  BY <1>1 DEF LoadSound, Whole, Half
<1>5. \A r \in Requests : RequestSound(req[r])'
  BY <1>1 DEF RequestSound, LoadSound, Whole, Half
<1> QED BY <1>2, <1>3, <1>4, <1>5 DEF IInv, SnapshotsSound

LEMMA RefreshSound ==
  ASSUME IInv, Refresh \/ RefreshEnds \/ RefreshFails
  PROVE  IInv'
<1>1. UNCHANGED tables /\ req' = req
  BY DEF Refresh, RefreshEnds, RefreshFails
<1>2. TablesSound /\ SnapshotsSound
  BY DEF IInv
<1>3. Whole(cfg) /\ LoadSound(load) /\ DOMAIN req' = Requests /\ \A r \in Requests : RequestSound(req'[r])
  BY <1>1, <1>2 DEF SnapshotsSound
<1>4. CASE Refresh
  <2>1. LoadSound(load') /\ cfg' = cfg
    BY <1>2, <1>3, <1>4, ReadSound DEF Refresh
  <2> QED BY <1>1, <1>3, <2>1, TablesStay
<1>5. CASE RefreshEnds
  <2>1. cfg' = load.got /\ load' = Idle /\ load.at = "all"
    BY <1>5 DEF RefreshEnds
  <2>2. Whole(load.got) /\ LoadSound(load')
    BY <1>3, <2>1 DEF LoadSound, Idle
  <2>3. Whole(cfg')
    BY <2>1, <2>2
  <2> QED BY <1>1, <1>3, <2>2, <2>3, TablesStay
<1>6. CASE RefreshFails
  <2>1. cfg' = cfg /\ load' = Idle
    BY <1>6 DEF RefreshFails
  <2>2. LoadSound(load')
    BY <2>1 DEF LoadSound
  <2> QED BY <1>1, <1>3, <2>1, <2>2, TablesStay
<1> QED BY <1>4, <1>5, <1>6

\* One request goes on.
LEMMA RequestMoves ==
  ASSUME IInv, UNCHANGED tables, cfg' = cfg, load' = load, NEW r \in Requests,
         NEW q, req' = [req EXCEPT ![r] = q], RequestSound(q)
  PROVE  IInv'
<1>1. /\ Whole(cfg) /\ LoadSound(load)
      /\ DOMAIN req = Requests /\ \A x \in Requests : RequestSound(req[x])
  BY DEF IInv, SnapshotsSound
<1>2. DOMAIN req' = Requests /\ \A x \in Requests : req'[x] = q \/ req'[x] = req[x]
  BY <1>1
<1>3. \A x \in Requests : RequestSound(req'[x])
  BY <1>1, <1>2
<1>4. Whole(cfg') /\ LoadSound(load')
  BY <1>1
<1> QED BY <1>2, <1>3, <1>4, TablesStay

LEMMA RequestSteps ==
  ASSUME Configured, IInv, NEW r \in Requests,
         \/ Arrive(r) \/ Warm(r) \/ WarmFails(r)
         \/ \E v \in Vhosts : Decide(r, v)
         \/ Acquire(r) \/ Done(r) \/ Upgrade(r) \/ TunnelEnds(r)
  PROVE  IInv'
<1>1. UNCHANGED tables /\ cfg' = cfg /\ load' = load
  BY DEF Arrive, Warm, WarmFails, Decide, Acquire, Done, Upgrade, TunnelEnds
<1>2. TablesSound /\ Whole(cfg) /\ DOMAIN req = Requests /\ RequestSound(req[r])
  BY DEF IInv, SnapshotsSound
<1>3. LoadSound(Idle) /\ RequestSound(Idle)
  BY DEF LoadSound, RequestSound
<1>4. \A g : Whole(g) => RequestSound([at |-> "decide", got |-> g])
  BY DEF RequestSound
<1>5. \A q : q.at \in {"chosen", "upstream", "tunnel"} /\ RequestSound(q)
              => q.v \in Vhosts /\ born[q.v] = "open"
  BY DEF RequestSound, LoadSound, Idle
<1>6. CASE Arrive(r)
  <2>1. RequestSound(ReadList(Idle))
    <3>1. Idle.at # "all"
      BY DEF Idle
    <3> QED BY <1>2, <1>3, <3>1, ReadSound DEF RequestSound
  <2>2. \/ req' = [req EXCEPT ![r] = [at |-> "decide", got |-> cfg]]
        \/ req' = [req EXCEPT ![r] = ReadList(Idle)]
    BY <1>6 DEF Arrive, Go
  <2> QED BY <1>1, <1>2, <1>4, <2>1, <2>2, RequestMoves
<1>7. CASE Warm(r)
  <2>1. req[r].at \in {"1", "2", "all"} /\ LoadSound(req[r])
    BY <1>2, <1>7 DEF Warm, RequestSound
  <2>2. CASE req[r].at = "all"
    <3>1. Whole(req[r].got) /\ req' = [req EXCEPT ![r] = [at |-> "decide", got |-> req[r].got]]
      BY <1>7, <2>1, <2>2 DEF Warm, Go, LoadSound, Idle
    <3> QED BY <1>1, <1>4, <3>1, RequestMoves
  <2>3. CASE req[r].at # "all"
    <3>1. req' = [req EXCEPT ![r] = ReadList(req[r])] /\ RequestSound(ReadList(req[r]))
      BY <1>2, <1>7, <2>1, <2>3, ReadSound DEF Warm, Go, RequestSound
    <3> QED BY <1>1, <3>1, RequestMoves
  <2> QED BY <2>2, <2>3
<1>8. CASE WarmFails(r)
  BY <1>1, <1>2, <1>4, <1>8, RequestMoves DEF WarmFails, Go
<1>9. ASSUME NEW v \in Vhosts, Decide(r, v)
      PROVE  IInv'
  <2>1. Whole(req[r].got)
    BY <1>2, <1>9 DEF Decide, RequestSound, LoadSound, Idle
  <2>2. CASE req' = [req EXCEPT ![r] = Idle]
    BY <1>1, <1>3, <2>2, RequestMoves
  <2>3. ASSUME NEW u, v \in req[r].got.vhosts, "allow" \in AclDecision(req[r].got.rules, v),
               req' = [req EXCEPT ![r] = [at |-> "chosen", v |-> v, u |-> u, by |-> req[r].got.rules]]
        PROVE  IInv'
    <3>1. born[v] \in {"no", "shut", "open"}
      BY <1>2 DEF TablesSound
    <3>2. born[v] = "open"
      BY <2>1, <2>3, <3>1 DEF Whole, Half
    <3>3. RequestSound([at |-> "chosen", v |-> v, u |-> u, by |-> req[r].got.rules])
      BY <3>2 DEF RequestSound
    <3> QED BY <1>1, <2>3, <3>3, RequestMoves
  <2> QED BY <1>9, <2>2, <2>3 DEF Decide, Go
<1>10. CASE Acquire(r)
  <2>1. /\ req' = [req EXCEPT ![r] = [at |-> "upstream", v |-> req[r].v, u |-> req[r].u]]
        /\ req[r].at = "chosen"
    BY <1>10 DEF Acquire, Go
  <2>2. RequestSound([at |-> "upstream", v |-> req[r].v, u |-> req[r].u])
    BY <1>2, <1>5, <2>1 DEF RequestSound
  <2> QED BY <1>1, <2>1, <2>2, RequestMoves
<1>11. CASE Done(r) \/ TunnelEnds(r)
  BY <1>1, <1>3, <1>11, RequestMoves DEF Done, TunnelEnds, Go
<1>12. CASE Upgrade(r)
  <2>1. /\ req' = [req EXCEPT ![r] = [at |-> "tunnel", v |-> req[r].v, u |-> req[r].u]]
        /\ req[r].at = "upstream"
    BY <1>12 DEF Upgrade, Go
  <2>2. RequestSound([at |-> "tunnel", v |-> req[r].v, u |-> req[r].u])
    BY <1>2, <1>5, <2>1 DEF RequestSound
  <2> QED BY <1>1, <2>1, <2>2, RequestMoves
<1> QED BY <1>6, <1>7, <1>8, <1>9, <1>10, <1>11, <1>12

LEMMA StepSound ==
  ASSUME Configured, IInv, [Next]_vars
  PROVE  IInv'
<1>1. CASE UNCHANGED vars
  <2>1. UNCHANGED tables /\ cfg' = cfg /\ load' = load /\ req' = req
    BY <1>1 DEF vars, tables
  <2>2. /\ Whole(cfg') /\ LoadSound(load') /\ DOMAIN req' = Requests
        /\ \A r \in Requests : RequestSound(req'[r])
    BY <2>1 DEF IInv, SnapshotsSound
  <2> QED BY <2>1, <2>2, TablesStay
<1>2. ASSUME NEW v \in Vhosts, SaveVhost(v) \/ DropVhost(v) PROVE IInv'
  BY <1>2, SaveVhostSound, EditSound
<1>3. ASSUME NEW x \in Rules, SaveRule(x) \/ DropRule(x) PROVE IInv'
  BY <1>3, EditSound
<1>4. ASSUME NEW b \in BOOLEAN, Block(b) PROVE IInv'
  BY <1>4, EditSound
<1>5. CASE Refresh \/ RefreshEnds \/ RefreshFails
  BY <1>5, RefreshSound
<1>6. ASSUME NEW r \in Requests,
             \/ Arrive(r) \/ Warm(r) \/ WarmFails(r)
             \/ \E v \in Vhosts : Decide(r, v)
             \/ Acquire(r) \/ Done(r) \/ Upgrade(r) \/ TunnelEnds(r)
      PROVE  IInv'
  BY <1>6, RequestSteps
<1> QED BY <1>1, <1>2, <1>3, <1>4, <1>5, <1>6 DEF Next

\* A virtual host that the rules denied to the client when it was first enabled is not
\* reached before a rule is dropped or an allowing one saved, though the lists are
\* read one by one while they change (refresh_proxy_config, warm_config, acl_decision).
THEOREM DenialsPrecede == ASSUME Configured PROVE Spec => []DenyPrecedes
<1>1. Init => IInv
  <2> SUFFICES ASSUME Init PROVE IInv
    OBVIOUS
  <2>1. TablesSound
    BY DEF Init, TablesSound
  <2>2. Whole(cfg)
    BY DEF Init, Whole, Half, Empty, Snapshot
  <2>3. LoadSound(load) /\ DOMAIN req = Requests /\ \A r \in Requests : RequestSound(req[r])
    BY DEF Init, LoadSound, RequestSound
  <2> QED BY <2>1, <2>2, <2>3 DEF IInv, SnapshotsSound
<1>2. IInv /\ [Next]_vars => IInv'
  BY StepSound
<1>3. IInv => DenyPrecedes
  BY DEF IInv, SnapshotsSound, RequestSound, LoadSound, Idle, DenyPrecedes
<1> QED BY <1>1, <1>2, <1>3, PTL DEF Spec

----------------------------------------------------------------------------
(* The counts of requests in flight.                                           *)

\* The requests whose guard is alive, in one state of the requests.
Guards(q, u) == {r \in Requests : q[r].at = "upstream" /\ q[r].u = u}

CInv ==
  /\ DOMAIN inflight = Names /\ DOMAIN req = Requests
  /\ \A u \in Names : inflight[u] = Cardinality(Guards(req, u))

\* A step by which no guard is taken or dropped.
LEMMA GuardsStay ==
  ASSUME CInv, inflight' = inflight, DOMAIN req' = Requests,
         \A r \in Requests : \/ req'[r] = req[r]
                             \/ req[r].at # "upstream" /\ req'[r].at # "upstream"
  PROVE  CInv'
<1>1. \A u \in Names : Guards(req', u) = Guards(req, u)
  BY DEF Guards
<1>2. \A u \in Names : inflight'[u] = Cardinality(Guards(req', u))
  BY <1>1 DEF CInv
<1>3. Names' = Names /\ \A u : Guards(req, u)' = Guards(req', u)
  BY DEF Names, Guards
<1> QED BY <1>2, <1>3 DEF CInv

\* A guard is taken.
LEMMA GuardTaken ==
  ASSUME Configured, CInv, NEW r \in Requests, Acquire(r)
  PROVE  CInv'
<1>1. PICK w, q : w = req[r].u /\ q = [at |-> "upstream", v |-> req[r].v, u |-> req[r].u]
  OBVIOUS
<1>2. /\ req[r].at = "chosen" /\ req' = [req EXCEPT ![r] = q]
      /\ inflight' = [inflight EXCEPT ![w] = inflight[w] + 1]
  BY <1>1 DEF Acquire, Go
<1>3. /\ req'[r] = q /\ \A x \in Requests : x # r => req'[x] = req[x]
      /\ DOMAIN req' = Requests /\ DOMAIN inflight' = Names
  BY <1>2 DEF CInv
<1>4. q.at = "upstream" /\ q.u = w
  BY <1>1
<1>5. ASSUME NEW u \in Names PROVE inflight'[u] = Cardinality(Guards(req', u))
  <2>1. inflight[u] = Cardinality(Guards(req, u))
    BY DEF CInv
  <2>2. CASE u # w
    <3>1. Guards(req', u) = Guards(req, u)
      BY <1>2, <1>3, <1>4, <2>2 DEF Guards
    <3>2. inflight'[u] = inflight[u]
      BY <1>2, <2>2 DEF CInv
    <3> QED BY <2>1, <3>1, <3>2
  <2>3. CASE u = w
    <3>1. Guards(req', u) = Guards(req, u) \cup {r} /\ r \notin Guards(req, u)
      BY <1>2, <1>3, <1>4, <2>3 DEF Guards
    <3>2. IsFiniteSet(Guards(req, u))
      BY FS_Subset DEF Guards, Configured
    <3>3. Cardinality(Guards(req, u) \cup {r}) = Cardinality(Guards(req, u)) + 1
      BY <3>1, <3>2, FS_AddElement
    <3>4. inflight'[u] = inflight[u] + 1
      BY <1>2, <2>3 DEF CInv
    <3> QED BY <2>1, <3>1, <3>3, <3>4
  <2> QED BY <2>2, <2>3
<1>6. Names' = Names /\ \A u : Guards(req, u)' = Guards(req', u)
  BY DEF Names, Guards
<1> QED BY <1>3, <1>5, <1>6 DEF CInv

\* A guard is dropped.
LEMMA GuardDropped ==
  ASSUME Configured, CInv, NEW r \in Requests, Done(r) \/ Upgrade(r)
  PROVE  CInv'
<1>1. PICK w : w = req[r].u
  OBVIOUS
<1>2. PICK q : req' = [req EXCEPT ![r] = q] /\ q.at # "upstream"
  <2>1. PICK i, t : i = Idle /\ t = [at |-> "tunnel", v |-> req[r].v, u |-> req[r].u]
    OBVIOUS
  <2>2. i.at # "upstream" /\ t.at # "upstream"
    BY <2>1 DEF Idle
  <2>3. req' = [req EXCEPT ![r] = i] \/ req' = [req EXCEPT ![r] = t]
    BY <2>1 DEF Done, Upgrade, Go
  <2> QED BY <2>2, <2>3
<1>3. req[r].at = "upstream" /\ inflight' = [inflight EXCEPT ![w] = Release(inflight[w])]
  BY <1>1 DEF Done, Upgrade
<1>4. /\ req'[r] = q /\ \A x \in Requests : x # r => req'[x] = req[x]
      /\ DOMAIN req' = Requests /\ DOMAIN inflight' = Names
  BY <1>2, <1>3 DEF CInv
<1>5. ASSUME NEW u \in Names PROVE inflight'[u] = Cardinality(Guards(req', u))
  <2>1. inflight[u] = Cardinality(Guards(req, u))
    BY DEF CInv
  <2>2. CASE u # w
    <3>1. Guards(req', u) = Guards(req, u)
      BY <1>1, <1>2, <1>3, <1>4, <2>2 DEF Guards
    <3>2. inflight'[u] = inflight[u]
      BY <1>3, <2>2 DEF CInv
    <3> QED BY <2>1, <3>1, <3>2
  <2>3. CASE u = w
    <3>1. Guards(req', u) = Guards(req, u) \ {r} /\ r \in Guards(req, u)
      BY <1>1, <1>2, <1>3, <1>4, <2>3 DEF Guards
    <3>2. IsFiniteSet(Guards(req, u))
      BY FS_Subset DEF Guards, Configured
    <3>3. /\ Cardinality(Guards(req, u) \ {r}) = Cardinality(Guards(req, u)) - 1
          /\ Cardinality(Guards(req, u)) \in Nat
      BY <3>1, <3>2, FS_RemoveElement, FS_CardinalityType
    <3>4. Cardinality(Guards(req, u)) # 0
      BY <3>1, <3>2, FS_EmptySet
    <3>5. inflight'[u] = Release(inflight[u])
      BY <1>3, <2>3 DEF CInv
    <3> QED BY <2>1, <3>1, <3>3, <3>4, <3>5 DEF Release
  <2> QED BY <2>2, <2>3
<1>6. Names' = Names /\ \A u : Guards(req, u)' = Guards(req', u)
  BY DEF Names, Guards
<1> QED BY <1>4, <1>5, <1>6 DEF CInv

\* Reading a list is not taking a guard.
LEMMA ReadingTakesNone ==
  ASSUME NEW l, l.at \in {"idle", "1", "2"}
  PROVE  ReadList(l).at # "upstream"
BY DEF ReadList

\* One request moves, and neither had a guard nor has one now.
LEMMA UnguardedMove ==
  ASSUME CInv, inflight' = inflight, NEW r \in Requests, NEW q,
         req[r].at # "upstream", q.at # "upstream", req' = [req EXCEPT ![r] = q]
  PROVE  CInv'
<1>1. DOMAIN req' = Requests /\ req'[r] = q /\ \A x \in Requests : x # r => req'[x] = req[x]
  BY DEF CInv
<1> QED BY <1>1, GuardsStay

LEMMA CountStep ==
  ASSUME Configured, CInv, [Next]_vars
  PROVE  CInv'
<1>1. ASSUME inflight' = inflight, req' = req PROVE CInv'
  <2>1. DOMAIN req' = Requests /\ \A r \in Requests : req'[r] = req[r]
    BY <1>1 DEF CInv
  <2> QED BY <1>1, <2>1, GuardsStay
<1>2. CASE UNCHANGED vars
  BY <1>1, <1>2 DEF vars
<1>3. ASSUME NEW v \in Vhosts, SaveVhost(v) \/ DropVhost(v) PROVE CInv'
  BY <1>1, <1>3 DEF SaveVhost, DropVhost, Served
<1>4. ASSUME NEW x \in Rules, SaveRule(x) \/ DropRule(x) PROVE CInv'
  BY <1>1, <1>4 DEF SaveRule, DropRule, Served
<1>5. ASSUME NEW b \in BOOLEAN, Block(b) PROVE CInv'
  BY <1>1, <1>5 DEF Block, Served
<1>6. CASE Refresh \/ RefreshEnds \/ RefreshFails
  BY <1>1, <1>6 DEF Refresh, RefreshEnds, RefreshFails
<1>7. ASSUME NEW r \in Requests, Arrive(r) PROVE CInv'
  <2>1. Idle.at = "idle" /\ req[r].at # "upstream" /\ inflight' = inflight
    BY <1>7 DEF Arrive, Idle
  <2>2. PICK d, l : d = [at |-> "decide", got |-> cfg] /\ l = ReadList(Idle)
    OBVIOUS
  <2>3. d.at # "upstream" /\ l.at # "upstream"
    BY <2>1, <2>2, ReadingTakesNone
  <2>4. req' = [req EXCEPT ![r] = d] \/ req' = [req EXCEPT ![r] = l]
    BY <1>7, <2>2 DEF Arrive, Go
  <2> QED BY <2>1, <2>3, <2>4, UnguardedMove
<1>8. ASSUME NEW r \in Requests, Warm(r) PROVE CInv'
  <2>1. req[r].at \in {"1", "2", "all"} /\ inflight' = inflight
    BY <1>8 DEF Warm
  <2>2. CASE req[r].at = "all"
    <3>1. PICK d : d = [at |-> "decide", got |-> req[r].got]
      OBVIOUS
    <3>2. d.at # "upstream" /\ req' = [req EXCEPT ![r] = d]
      BY <1>8, <2>2, <3>1 DEF Warm, Go
    <3> QED BY <2>1, <3>2, UnguardedMove
  <2>3. CASE req[r].at # "all"
    <3>1. PICK l : l = ReadList(req[r])
      OBVIOUS
    <3>2. l.at # "upstream"
      BY <2>1, <2>3, <3>1, ReadingTakesNone
    <3>3. req' = [req EXCEPT ![r] = l]
      BY <1>8, <2>3, <3>1 DEF Warm, Go
    <3> QED BY <2>1, <3>2, <3>3, UnguardedMove
  <2> QED BY <2>2, <2>3
<1>9. ASSUME NEW r \in Requests, WarmFails(r) PROVE CInv'
  <2>1. PICK d : d = [at |-> "decide", got |-> cfg]
    OBVIOUS
  <2>2. /\ d.at # "upstream" /\ req[r].at # "upstream" /\ inflight' = inflight
        /\ req' = [req EXCEPT ![r] = d]
    BY <1>9, <2>1 DEF WarmFails, Go
  <2> QED BY <2>2, UnguardedMove
<1>10. ASSUME NEW r \in Requests, NEW v \in Vhosts, Decide(r, v) PROVE CInv'
  <2>1. req[r].at # "upstream" /\ inflight' = inflight
    BY <1>10 DEF Decide
  <2>2. CASE req' = [req EXCEPT ![r] = Idle]
    <3>1. Idle.at # "upstream"
      BY DEF Idle
    <3> QED BY <2>1, <2>2, <3>1, UnguardedMove
  <2>3. ASSUME NEW u, req' = [req EXCEPT ![r] = [at |-> "chosen", v |-> v, u |-> u, by |-> req[r].got.rules]]
        PROVE  CInv'
    <3>1. PICK c : c = [at |-> "chosen", v |-> v, u |-> u, by |-> req[r].got.rules]
      OBVIOUS
    <3>2. c.at # "upstream" /\ req' = [req EXCEPT ![r] = c]
      BY <2>3, <3>1
    <3> QED BY <2>1, <3>2, UnguardedMove
  <2> QED BY <1>10, <2>2, <2>3 DEF Decide, Go
<1>11. ASSUME NEW r \in Requests, TunnelEnds(r) PROVE CInv'
  <2>1. /\ Idle.at # "upstream" /\ req[r].at # "upstream" /\ inflight' = inflight
        /\ req' = [req EXCEPT ![r] = Idle]
    BY <1>11 DEF TunnelEnds, Go, Idle
  <2> QED BY <2>1, UnguardedMove
<1>12. ASSUME NEW r \in Requests, Acquire(r) \/ Done(r) \/ Upgrade(r) PROVE CInv'
  BY <1>12, GuardTaken, GuardDropped
<1> QED BY <1>2, <1>3, <1>4, <1>5, <1>6, <1>7, <1>8, <1>9, <1>10, <1>11, <1>12 DEF Next

\* The counts that least_conn goes by are exact in every reachable state, for any number
\* of requests and upstreams: what InflightGuard::acquire adds, its drop takes away,
\* however the handler ends, and the saturating subtraction never hides a lost count.
THEOREM CountsExact == ASSUME Configured PROVE Spec => []InflightExact
<1>1. Init => CInv
  <2> SUFFICES ASSUME Init PROVE CInv
    OBVIOUS
  <2>1. DOMAIN inflight = Names /\ DOMAIN req = Requests
    BY DEF Init
  <2>2. ASSUME NEW u \in Names PROVE inflight[u] = Cardinality(Guards(req, u))
    <3>1. Guards(req, u) = {} /\ inflight[u] = 0
      BY DEF Init, Guards, Idle
    <3> QED BY <3>1, FS_EmptySet
  <2> QED BY <2>1, <2>2 DEF CInv
<1>2. CInv /\ [Next]_vars => CInv'
  BY CountStep
<1>3. CInv => InflightExact
  BY DEF CInv, InflightExact, Guards
<1> QED BY <1>1, <1>2, <1>3, PTL DEF Spec
=============================================================================
