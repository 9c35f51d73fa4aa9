--------------------------- MODULE FailoverProofs ---------------------------
(* Proofs about Failover, for any centers, servers, thresholds and bounds.     *)
(*                                                                             *)
(* RolesSound is not inductive: what the center records was decided several    *)
(* awaits earlier.  The strengthening follows the decision: every place a      *)
(* server's name waits in (a designation, a run's pending active primary, a    *)
(* steering under way, an operator's promote) holds a server that is entitled, *)
(* unless the promote that will entitle it is still to be sent.                *)
EXTENDS Failover, TLAPS, WellFoundedInduction

Entitled(x) == x # None => x \in entitled

\* A run's pending active primary is the server it is about to promote, or entitled.
RunEntitled(r) ==
  r \in Acting =>
    /\ r.at = "act" /\ r.promote # None => r.active = r.promote
    /\ r.at = "act" /\ r.promote = None /\ r.promoteOk => Entitled(r.active)
    /\ r.at # "act" => Entitled(r.active)

EntitledInv ==
  /\ ActiveEntitled
  /\ \A s \in Servers : rec[s].intent = "primary" => s \in entitled
  /\ \A c \in Centers : RunEntitled(run[c])
  /\ \A a \in Actors : Entitled(steer[a].to)
  /\ Entitled(op.sid)

IInv == TypeOK /\ EntitledInv

----------------------------------------------------------------------------
(* The operators the model is built from.                                      *)

\* The smallest of a nonempty set of numbers is one of them: evaluate picks the first
\* candidate by sid.
LEMMA MinIn ==
  ASSUME NEW S, S \subseteq Nat, S # {}
  PROVE  Min(S) \in S
<1> DEFINE R == {p \in Nat \X Nat : p[1] < p[2]}
<1>1. IsWellFoundedOn(R, Nat)
  BY NatLessThanWellFounded DEF OpToRel
<1>2. \E x \in S : \A y \in S : ~ (<<y, x>> \in R)
  <2> HIDE DEF R
  <2> QED BY <1>1, WFMin
<1>3. PICK x \in S : \A y \in S : ~ (<<y, x>> \in R)
  BY <1>2
<1>4. \A y \in S : x =< y
  <2> SUFFICES ASSUME NEW y \in S PROVE x =< y
    OBVIOUS
  <2>1. x \in Nat /\ y \in Nat /\ ~ (<<y, x>> \in R)
    BY <1>3
  <2> QED BY <2>1
<1> QED BY <1>4 DEF Min

\* A run in one of the phases of a decision has the decision's fields.
LEMMA Phases ==
  ASSUME NEW r \in RunState
  PROVE  /\ r.at = "poll" => r \in Polling
         /\ r.at \in {"act", "persist", "steer", "fence"} => r \in Acting
BY DEF RunState, Polling, Acting, Idle, Dead

\* Replacing the state of one run keeps the others.
LEMMA RunStep ==
  ASSUME TypeOK, NEW c \in Centers, NEW r \in RunState,
         run' = [run EXCEPT ![c] = r]
  PROVE  /\ run' \in [Centers -> RunState]
         /\ run'[c] = r
         /\ \A d \in Centers : d # c => run'[d] = run[d]
BY DEF TypeOK

\* A command flips one node, and entitles it when it acknowledges a promote.
LEMMA PostTypes ==
  ASSUME TypeOK, NEW s \in Servers, NEW pull \in BOOLEAN, NEW ok \in BOOLEAN,
         Post(s, pull, ok)
  PROVE  /\ pulling' \in [Servers -> BOOLEAN]
         /\ entitled \subseteq entitled' /\ entitled' \subseteq Servers
         /\ faults' \in 0..MaxFaults
         /\ ok /\ ~pull => s \in entitled'
<1>1. (s \in Static \/ pull) \in BOOLEAN
  OBVIOUS
<1>2. Flip(s, pull) => pulling' \in [Servers -> BOOLEAN]
  BY <1>1 DEF Flip, TypeOK
<1>3. pulling' \in [Servers -> BOOLEAN]
  BY <1>2 DEF Post, TypeOK
<1>4. faults' \in 0..MaxFaults
  BY FailoverAssumption DEF Post, TypeOK, Fault
<1> QED BY <1>3, <1>4 DEF Post, TypeOK

\* A fault counts and stays within the bound.
LEMMA FaultTypes ==
  ASSUME TypeOK, Fault
  PROVE  faults' \in 0..MaxFaults
BY FailoverAssumption DEF TypeOK, Fault

LEMMA OperationTypes ==
  ASSUME TypeOK, NEW k, Operation(k)
  PROVE  operations' \in 0..MaxOperations
BY FailoverAssumption DEF TypeOK, Operation

\* What record_health writes keeps the designation.
LEMMA PolledTypes ==
  ASSUME TypeOK, NEW s \in Servers, NEW answered \in BOOLEAN
  PROVE  Polled(s, answered) \in ServerRecord /\ Polled(s, answered).intent = rec[s].intent
<1>1. rec[s] \in ServerRecord
  BY DEF TypeOK
<1>2. ActsPrimary(s) \in BOOLEAN
  BY DEF TypeOK, ActsPrimary
<1>3. Least(rec[s].failures + 1, FailureThreshold + 1) \in 0..FailureThreshold + 1
  BY <1>1, FailoverAssumption DEF ServerRecord, Least
<1>4. 0 \in 0..FailureThreshold + 1
  BY FailoverAssumption
<1> DEFINE a == ActsPrimary(s)
           f == Least(rec[s].failures + 1, FailureThreshold + 1)
           good == [rec[s] EXCEPT !.ok = TRUE, !.failures = 0, !.acts = a]
           bad == [rec[s] EXCEPT !.ok = FALSE, !.acts = FALSE, !.failures = f]
<1>5. a \in BOOLEAN /\ f \in 0..FailureThreshold + 1
  BY <1>2, <1>3
<1>6. Polled(s, answered) \in {rec[s], good, bad}
  BY DEF Polled
<1> HIDE DEF a, f
<1>7. good \in ServerRecord /\ good.intent = rec[s].intent
  BY <1>1, <1>4, <1>5 DEF ServerRecord
<1>8. bad \in ServerRecord /\ bad.intent = rec[s].intent
  BY <1>1, <1>5 DEF ServerRecord
<1> QED BY <1>1, <1>6, <1>7, <1>8

----------------------------------------------------------------------------
(* The decision.                                                               *)

\* What evaluate decides is well formed; the active primary it wants recorded is the
\* standby it promotes, or one that is entitled already.
LEMMA DecisionSound ==
  ASSUME IInv, NEW d \in Decisions
  PROVE  d \in Acting /\ d.at = "act" /\ RunEntitled(d)
<1>1. PICK a \in EffectiveActive : d = Decision(a)
  BY DEF Decisions
<1>2. a \in Opt(Servers) /\ Entitled(a)
  BY FailoverAssumption DEF IInv, TypeOK, EntitledInv, ActiveEntitled, Entitled, EffectiveActive,
     Healthy, Registered, Opt
<1> DEFINE failover == ActiveDown(a) /\ Candidates # {}
           now == IF failover THEN Min(Candidates) ELSE a
<1>3. failover => a \in Servers /\ now \in Servers /\ now # None
  <2> SUFFICES ASSUME failover PROVE a \in Servers /\ now \in Servers /\ now # None
    OBVIOUS
  <2>1. Candidates \subseteq Servers
    BY DEF Candidates, Healthy, Registered
  <2>2. Min(Candidates) \in Candidates
    BY <2>1, MinIn, FailoverAssumption
  <2>3. a \in Servers
    BY DEF ActiveDown, Registered
  <2> QED BY <2>1, <2>2, <2>3, FailoverAssumption
<1>4. now \in Opt(Servers)
  BY <1>2, <1>3 DEF Opt
<1>5. Strays(now) \subseteq Servers
  BY DEF Strays, Healthy, Registered
<1> DEFINE promote == IF failover THEN now ELSE None
           active == IF failover \/ cluster.active = None THEN now ELSE None
           fence == IF failover THEN {a} ELSE {}
           unfence == {s \in Healthy \ {now} : rec[s].fenced}
<1>6. d = [at |-> "act", promote |-> promote, demote |-> Strays(now), promoteOk |-> TRUE,
           active |-> active, fence |-> fence, unfence |-> unfence]
  BY <1>1 DEF Decision
<1>7. promote \in Opt(Servers) /\ active \in Opt(Servers)
  BY <1>4 DEF Opt
<1>8. fence \subseteq Servers /\ unfence \subseteq Servers
  BY <1>3 DEF Healthy, Registered
<1>9. promote # None => active = promote
  OBVIOUS
<1>10. promote = None => Entitled(active)
  BY <1>2, <1>3 DEF Entitled
<1> HIDE DEF failover, now, promote, active, fence, unfence
<1>11. d \in Acting /\ d.at = "act"
  BY <1>5, <1>6, <1>7, <1>8 DEF Acting
<1>12. d.promote = promote /\ d.active = active
  BY <1>6
<1> QED BY <1>9, <1>10, <1>11, <1>12 DEF RunEntitled

----------------------------------------------------------------------------
(* The steps of a center.                                                      *)

\* What a center's step changes besides its own run, and what it has to show of it.
LEMMA RunChanges ==
  ASSUME IInv, NEW c \in Centers, NEW r \in RunState,
         run' = [run EXCEPT ![c] = r],
         entitled \subseteq entitled', RunEntitled(r)'
  PROVE  /\ run' \in [Centers -> RunState]
         /\ \A d \in Centers : RunEntitled(run[d])'
<1>1. /\ run' \in [Centers -> RunState]
      /\ run'[c] = r
      /\ \A d \in Centers : d # c => run'[d] = run[d]
  BY RunStep DEF IInv
<1>2. ASSUME NEW d \in Centers PROVE RunEntitled(run[d])'
  <2>1. CASE d = c
    BY <1>1, <2>1 DEF RunEntitled, Entitled
  <2>2. CASE d # c
    BY <1>1, <2>2 DEF RunEntitled, Entitled, IInv, EntitledInv
  <2> QED BY <2>1, <2>2
<1> QED BY <1>1, <1>2

\* A run outside a decision's phases carries no name.
LEMMA Nameless ==
  ASSUME NEW r, r \in {Idle, Dead} \cup Polling
  PROVE  r \in RunState /\ r \notin Acting
BY DEF RunState, Polling, Acting, Idle, Dead

LEMMA TickKeeps ==
  ASSUME IInv, NEW c \in Centers, Tick(c)
  PROVE  IInv'
<1> DEFINE r == run'[c]
<1>1. PICK left \in SUBSET Servers : run' = [run EXCEPT ![c] = [at |-> "poll", left |-> left]]
  BY DEF Tick, Registered
<1> DEFINE p == [at |-> "poll", left |-> left]
<1>2. p \in RunState /\ p \notin Acting
  BY Nameless DEF Polling
<1> HIDE DEF p
<1>3. run' \in [Centers -> RunState] /\ \A d \in Centers : RunEntitled(run[d])'
  BY <1>1, <1>2, RunChanges DEF p, Tick, RunEntitled
<1>4. faults' \in 0..MaxFaults
  BY FaultTypes DEF Tick, IInv, TypeOK
<1> QED BY <1>3, <1>4 DEF Tick, IInv, TypeOK, EntitledInv, ActiveEntitled, Entitled,
  serverVars, storeVars

LEMMA EvaluateKeeps ==
  ASSUME IInv, NEW c \in Centers, Evaluate(c)
  PROVE  IInv'
<1>1. PICK r : /\ run' = [run EXCEPT ![c] = r]
               /\ r = Idle \/ r \in Decisions
  BY DEF Evaluate
<1>2. r \in RunState /\ RunEntitled(r)
  BY <1>1, DecisionSound, Nameless DEF RunEntitled, RunState
<1>3. RunEntitled(r)'
  BY <1>2 DEF Evaluate, RunEntitled, Entitled
<1>4. run' \in [Centers -> RunState] /\ \A d \in Centers : RunEntitled(run[d])'
  BY <1>1, <1>2, <1>3, RunChanges DEF Evaluate
<1>5. faults' \in 0..MaxFaults
  BY FaultTypes DEF Evaluate, IInv, TypeOK
<1> QED BY <1>4, <1>5 DEF Evaluate, IInv, TypeOK, EntitledInv, ActiveEntitled, Entitled,
  serverVars, storeVars

LEMMA SendPromoteKeeps ==
  ASSUME IInv, NEW c \in Centers, SendPromote(c)
  PROVE  IInv'
<1>1. PICK ok \in BOOLEAN :
        /\ Post(run[c].promote, FALSE, ok)
        /\ run' = [run EXCEPT ![c].promote = None, ![c].promoteOk = PromoteOk(ok)]
  BY DEF SendPromote
<1>2. run[c] \in Acting /\ run[c].at = "act" /\ run[c].promote # None
  BY Phases DEF SendPromote, IInv, TypeOK
<1>3. run[c].promote \in Servers
  BY <1>2 DEF Acting, Opt
<1>4. /\ pulling' \in [Servers -> BOOLEAN]
      /\ entitled \subseteq entitled' /\ entitled' \subseteq Servers
      /\ faults' \in 0..MaxFaults
      /\ ok => run[c].promote \in entitled'
  BY <1>1, <1>3, PostTypes DEF IInv
<1>5. run[c].active = run[c].promote
  BY <1>2 DEF IInv, EntitledInv, RunEntitled
<1> PICK r : r = [run[c] EXCEPT !.promote = None, !.promoteOk = ok]
  OBVIOUS
<1>6. run' = [run EXCEPT ![c] = r]
  BY <1>1 DEF PromoteOk, IInv, TypeOK
<1>7. r \in Acting /\ r.at = "act" /\ r.promote = None /\ r.promoteOk = ok
      /\ r.active = run[c].active
  BY <1>2 DEF Acting, Opt
<1>8. RunEntitled(r)' /\ r \in RunState
  BY <1>4, <1>5, <1>7 DEF RunEntitled, Entitled, RunState
<1>9. run' \in [Centers -> RunState] /\ \A d \in Centers : RunEntitled(run[d])'
  BY <1>4, <1>6, <1>8, RunChanges
<1> QED BY <1>4, <1>9 DEF SendPromote, IInv, TypeOK, EntitledInv, ActiveEntitled, Entitled,
  storeVars

LEMMA SendDemoteKeeps ==
  ASSUME IInv, NEW c \in Centers, NEW s \in Servers, SendDemote(c, s)
  PROVE  IInv'
<1>1. PICK ok \in BOOLEAN : Post(s, TRUE, ok)
  BY DEF SendDemote
<1>2. run[c] \in Acting
  BY Phases DEF SendDemote, IInv, TypeOK
<1>3. /\ pulling' \in [Servers -> BOOLEAN]
      /\ entitled \subseteq entitled' /\ entitled' \subseteq Servers
      /\ faults' \in 0..MaxFaults
  BY <1>1, PostTypes DEF IInv
<1> PICK r : r = [run[c] EXCEPT !.demote = @ \ {s}]
  OBVIOUS
<1>4. run' = [run EXCEPT ![c] = r]
  BY DEF SendDemote, IInv, TypeOK
<1>5. r \in Acting /\ r.at = run[c].at /\ r.promoteOk = run[c].promoteOk
      /\ r.active = run[c].active /\ r.promote = run[c].promote
  BY <1>2 DEF Acting
<1>6. RunEntitled(r)' /\ r \in RunState
  BY <1>2, <1>3, <1>5 DEF RunEntitled, Entitled, RunState, IInv, EntitledInv
<1>7. run' \in [Centers -> RunState] /\ \A d \in Centers : RunEntitled(run[d])'
  BY <1>3, <1>4, <1>6, RunChanges
<1> QED BY <1>3, <1>7 DEF SendDemote, IInv, TypeOK, EntitledInv, ActiveEntitled, Entitled,
  storeVars

LEMMA ActedKeeps ==
  ASSUME IInv, NEW c \in Centers, Acted(c)
  PROVE  IInv'
<1>1. run[c] \in Acting /\ run[c].at = "act" /\ run[c].promote = None
  BY Phases DEF Acted, IInv, TypeOK
<1> PICK r : r = IF run[c].promoteOk THEN [run[c] EXCEPT !.at = "persist"] ELSE Idle
  OBVIOUS
<1>2. run' = [run EXCEPT ![c] = r]
  BY DEF Acted, IInv, TypeOK
<1>3. RunEntitled(r)' /\ r \in RunState
  <2>1. CASE run[c].promoteOk
    <3>1. r \in Acting /\ r.at = "persist" /\ r.active = run[c].active
      BY <1>1, <2>1 DEF Acting
    <3> QED BY <1>1, <2>1, <3>1 DEF RunEntitled, Entitled, RunState, IInv, EntitledInv, Acted
  <2>2. CASE ~run[c].promoteOk
    BY <2>2, Nameless DEF RunEntitled
  <2> QED BY <2>1, <2>2
<1>4. run' \in [Centers -> RunState] /\ \A d \in Centers : RunEntitled(run[d])'
  BY <1>2, <1>3, RunChanges DEF Acted
<1> QED BY <1>4 DEF Acted, IInv, TypeOK, EntitledInv, ActiveEntitled, Entitled,
  serverVars, storeVars, bounds

\* A phase that hands on keeps the decision.
LEMMA PhaseMoves ==
  ASSUME IInv, NEW c \in Centers, NEW phase \in {"steer", "fence"},
         run[c].at \in {"persist", "steer"},
         run' = [run EXCEPT ![c].at = phase], entitled' = entitled
  PROVE  /\ run' \in [Centers -> RunState]
         /\ \A d \in Centers : RunEntitled(run[d])'
         /\ Entitled(run[c].active) /\ run[c].active \in Opt(Servers)
<1>1. run[c] \in Acting /\ run[c].at # "act"
  BY Phases DEF IInv, TypeOK
<1>2. Entitled(run[c].active) /\ run[c].active \in Opt(Servers)
  BY <1>1 DEF IInv, EntitledInv, RunEntitled, Acting
<1> PICK r : r = [run[c] EXCEPT !.at = phase]
  OBVIOUS
<1>3. run' = [run EXCEPT ![c] = r]
  BY DEF IInv, TypeOK
<1>4. r \in Acting /\ r.at # "act" /\ r.active = run[c].active
  BY <1>1 DEF Acting
<1>5. RunEntitled(r)' /\ r \in RunState
  BY <1>2, <1>4 DEF RunEntitled, Entitled, RunState
<1> QED BY <1>2, <1>3, <1>5, RunChanges

LEMMA PersistActiveKeeps ==
  ASSUME IInv, NEW c \in Centers, PersistActive(c)
  PROVE  IInv'
<1>1. /\ run' \in [Centers -> RunState]
      /\ \A d \in Centers : RunEntitled(run[d])'
      /\ Entitled(run[c].active) /\ run[c].active \in Opt(Servers)
  BY PhaseMoves DEF PersistActive
<1>2. cluster' \in [auto : BOOLEAN, active : Opt(Servers)] /\ Entitled(cluster'.active)
  BY <1>1 DEF PersistActive, IInv, TypeOK, EntitledInv, ActiveEntitled, Entitled
<1>3. faults' \in 0..MaxFaults
  BY FaultTypes DEF PersistActive, IInv, TypeOK
<1> QED BY <1>1, <1>2, <1>3 DEF PersistActive, IInv, TypeOK, EntitledInv, ActiveEntitled,
  Entitled, serverVars

\* Steering reads the recorded active primary, which is entitled.
LEMMA ReadSteerTypes ==
  ASSUME IInv, NEW a \in Actors, ReadSteer(a), entitled' = entitled
  PROVE  /\ steer' \in [Actors -> [to : Opt(Servers), left : SUBSET Servers]]
         /\ \A b \in Actors : Entitled(steer'[b].to)
         /\ faults' \in 0..MaxFaults
<1>1. faults' \in 0..MaxFaults
  BY FaultTypes DEF ReadSteer, IInv, TypeOK
<1>2. CASE UNCHANGED steer
  BY <1>1, <1>2 DEF IInv, TypeOK, EntitledInv, Entitled
<1>3. ASSUME NEW v \in [to : Opt(Servers), left : SUBSET Servers], Entitled(v.to),
             steer' = [steer EXCEPT ![a] = v]
      PROVE  /\ steer' \in [Actors -> [to : Opt(Servers), left : SUBSET Servers]]
             /\ \A b \in Actors : Entitled(steer'[b].to)
  BY <1>3 DEF IInv, TypeOK, EntitledInv, Entitled
<1>4. NoSteer \in [to : Opt(Servers), left : SUBSET Servers] /\ Entitled(NoSteer.to)
  BY DEF NoSteer, Opt, Entitled
<1> DEFINE v == [to |-> cluster.active, left |-> Registered]
<1>5. v \in [to : Opt(Servers), left : SUBSET Servers] /\ Entitled(v.to)
  BY DEF IInv, TypeOK, EntitledInv, ActiveEntitled, Entitled, Registered
<1> QED BY <1>1, <1>2, <1>3, <1>4, <1>5 DEF ReadSteer

LEMMA BeginSteerKeeps ==
  ASSUME IInv, NEW c \in Centers, BeginSteer(c)
  PROVE  IInv'
<1>1. /\ run' \in [Centers -> RunState]
      /\ \A d \in Centers : RunEntitled(run[d])'
  BY PhaseMoves DEF BeginSteer
<1>2. /\ steer' \in [Actors -> [to : Opt(Servers), left : SUBSET Servers]]
      /\ \A b \in Actors : Entitled(steer'[b].to)
      /\ faults' \in 0..MaxFaults
  BY ReadSteerTypes DEF BeginSteer, Actors
<1> QED BY <1>1, <1>2 DEF BeginSteer, IInv, TypeOK, EntitledInv, ActiveEntitled, Entitled,
  serverVars, storeVars

\* Writing a fencing row keeps the decision.
LEMMA AfterFenceTypes ==
  ASSUME NEW r \in Acting, NEW s \in FenceRows(r)
  PROVE  /\ s \in Servers
         /\ \/ AfterFence(r, s) = Idle
            \/ /\ AfterFence(r, s) \in Acting
               /\ AfterFence(r, s).at = r.at /\ AfterFence(r, s).active = r.active
<1>1. r.fence \subseteq Servers /\ r.unfence \subseteq Servers
  BY DEF Acting
<1> DEFINE F == r.fence \ {s}
           U == IF r.fence = {} THEN r.unfence \ {s} ELSE r.unfence
           q == [r EXCEPT !.fence = F, !.unfence = U]
<1>2. AfterFence(r, s) \in {Idle, q}
  BY DEF AfterFence
<1>3. F \subseteq Servers /\ U \subseteq Servers
  BY <1>1
<1> HIDE DEF F, U
<1>4. q \in Acting /\ q.at = r.at /\ q.active = r.active
  BY <1>3 DEF Acting
<1> QED BY <1>1, <1>2, <1>4 DEF FenceRows

LEMMA PersistFenceKeeps ==
  ASSUME IInv, NEW c \in Centers, PersistFence(c)
  PROVE  IInv'
<1>1. run[c] \in Acting /\ run[c].at = "fence" /\ Entitled(run[c].active)
  BY Phases DEF PersistFence, IInv, TypeOK, EntitledInv, RunEntitled
<1>2. faults' \in 0..MaxFaults
  BY FaultTypes DEF PersistFence, IInv, TypeOK
<1>3. /\ rec' \in [Servers -> ServerRecord]
      /\ \A s \in Servers : rec'[s].intent = rec[s].intent
  <2>1. CASE UNCHANGED rec
    BY <2>1 DEF IInv, TypeOK
  <2>2. ASSUME NEW s \in Servers, NEW b \in BOOLEAN, rec' = [rec EXCEPT ![s].fenced = b]
        PROVE  /\ rec' \in [Servers -> ServerRecord]
               /\ \A t \in Servers : rec'[t].intent = rec[t].intent
    BY <2>2 DEF IInv, TypeOK, ServerRecord
  <2> QED BY <1>1, <2>1, <2>2, AfterFenceTypes DEF PersistFence
<1>4. PICK r : /\ run' = [run EXCEPT ![c] = r]
               /\ \/ r = Idle
                  \/ r \in Acting /\ r.at = "fence" /\ r.active = run[c].active
  BY <1>1, AfterFenceTypes DEF PersistFence
<1>5. RunEntitled(r)' /\ r \in RunState
  BY <1>1, <1>4, Nameless DEF RunEntitled, Entitled, RunState, PersistFence
<1>6. run' \in [Centers -> RunState] /\ \A d \in Centers : RunEntitled(run[d])'
  BY <1>4, <1>5, RunChanges DEF PersistFence
<1> QED BY <1>2, <1>3, <1>6 DEF PersistFence, IInv, TypeOK, EntitledInv, ActiveEntitled,
  Entitled, serverVars

LEMMA PollServerKeeps ==
  ASSUME IInv, NEW c \in Centers, NEW s \in Servers, PollServer(c, s)
  PROVE  IInv'
<1>1. run[c] \in Polling
  BY Phases DEF PollServer, IInv, TypeOK
<1> PICK r : r = [run[c] EXCEPT !.left = @ \ {s}]
  OBVIOUS
<1>2. run' = [run EXCEPT ![c] = r]
  BY DEF PollServer, IInv, TypeOK
<1>3. r \in RunState /\ RunEntitled(r)'
  <2>1. r \in Polling
    BY <1>1 DEF Polling
  <2> QED BY <2>1, Nameless DEF RunEntitled
<1>4. run' \in [Centers -> RunState] /\ \A d \in Centers : RunEntitled(run[d])'
  BY <1>2, <1>3, RunChanges DEF PollServer
<1>5. faults' \in 0..MaxFaults
  BY FaultTypes DEF PollServer, IInv, TypeOK
<1>6. /\ rec' \in [Servers -> ServerRecord]
      /\ \A t \in Servers : rec'[t].intent = rec[t].intent
  <2>1. CASE UNCHANGED rec
    BY <2>1 DEF IInv, TypeOK
  <2>2. ASSUME NEW v \in ServerRecord, v.intent = rec[s].intent, rec' = [rec EXCEPT ![s] = v]
        PROVE  /\ rec' \in [Servers -> ServerRecord]
               /\ \A t \in Servers : rec'[t].intent = rec[t].intent
    BY <2>2 DEF IInv, TypeOK
  <2>3. \A b \in BOOLEAN : Polled(s, b) \in ServerRecord /\ Polled(s, b).intent = rec[s].intent
    BY PolledTypes DEF IInv
  <2> QED BY <2>1, <2>2, <2>3 DEF PollServer
<1> QED BY <1>4, <1>5, <1>6 DEF PollServer, IInv, TypeOK, EntitledInv, ActiveEntitled,
  Entitled, serverVars

----------------------------------------------------------------------------
(* The lease, the centers' lives, steering, the operator and the servers.      *)

LEMMA LeaseKeeps ==
  ASSUME IInv, \/ Expire \/ ExpireLate \/ \E c \in Centers : Elect(c) \/ ElectError(c)
  PROVE  IInv'
<1>1. entitled' = entitled /\ rec' = rec /\ cluster' = cluster /\ run' = run
      /\ steer' = steer /\ op' = op /\ dns' = dns /\ net' = net /\ pulling' = pulling
      /\ operations' = operations
  BY DEF Expire, ExpireLate, Elect, ElectError, serverVars, storeVars, centerVars, bounds
<1>2. faults' \in 0..MaxFaults
  BY FaultTypes DEF Expire, ExpireLate, Elect, ElectError, bounds, IInv, TypeOK
<1>3. lease' \in [holder : Opt(Centers), live : BOOLEAN]
  <2>1. lease' = lease => lease' \in [holder : Opt(Centers), live : BOOLEAN]
    BY DEF IInv, TypeOK
  <2>2. lease' = [lease EXCEPT !.live = FALSE] => lease' \in [holder : Opt(Centers), live : BOOLEAN]
    BY DEF IInv, TypeOK
  <2>3. ASSUME NEW c \in Centers
        PROVE  [holder |-> c, live |-> TRUE] \in [holder : Opt(Centers), live : BOOLEAN]
    BY DEF Opt
  <2>4. ASSUME NEW c \in Centers, Elect(c)
        PROVE  lease' = lease \/ lease' = [holder |-> c, live |-> TRUE]
    BY <2>4 DEF Elect
  <2> QED BY <2>1, <2>2, <2>3, <2>4 DEF Expire, ExpireLate, ElectError, storeVars
<1>4. isLeader' \in [Centers -> BOOLEAN]
  <2>1. CASE UNCHANGED isLeader
    BY <2>1 DEF IInv, TypeOK
  <2>2. ASSUME NEW c \in Centers, Elect(c) PROVE isLeader' \in [Centers -> BOOLEAN]
    <3> DEFINE mine == lease.holder = c \/ ~lease.live
    <3>1. mine \in BOOLEAN
      OBVIOUS
    <3>2. isLeader' = [isLeader EXCEPT ![c] = mine]
      BY <2>2 DEF Elect
    <3> HIDE DEF mine
    <3> QED BY <3>1, <3>2 DEF IInv, TypeOK
  <2> QED BY <2>1, <2>2 DEF Expire, ExpireLate, ElectError, centerVars, IInv, TypeOK
<1> QED BY <1>1, <1>2, <1>3, <1>4 DEF IInv, TypeOK, EntitledInv, ActiveEntitled, Entitled,
  RunEntitled

\* A steering that ends carries no name.
LEMMA SteerEnds ==
  ASSUME IInv, NEW a \in Actors, steer' = [steer EXCEPT ![a] = NoSteer], entitled' = entitled
  PROVE  /\ steer' \in [Actors -> [to : Opt(Servers), left : SUBSET Servers]]
         /\ \A b \in Actors : Entitled(steer'[b].to)
<1>1. NoSteer \in [to : Opt(Servers), left : SUBSET Servers] /\ NoSteer.to = None
  BY DEF NoSteer, Opt
<1> QED BY <1>1 DEF IInv, TypeOK, EntitledInv, Entitled

LEMMA LifeKeeps ==
  ASSUME IInv, NEW c \in Centers, StopCenter(c) \/ StartCenter(c)
  PROVE  IInv'
<1>1. PICK r : run' = [run EXCEPT ![c] = r] /\ r \in {Idle, Dead}
  BY DEF StopCenter, StartCenter
<1>2. r \in RunState /\ RunEntitled(r)'
  BY <1>1, Nameless DEF RunEntitled
<1>3. run' \in [Centers -> RunState] /\ \A d \in Centers : RunEntitled(run[d])'
  BY <1>1, <1>2, RunChanges DEF StopCenter, StartCenter
<1>4. faults' \in 0..MaxFaults
  BY FaultTypes DEF StopCenter, StartCenter, bounds, IInv, TypeOK
<1>5. lease' \in [holder : Opt(Centers), live : BOOLEAN]
  <2>1. lease' = lease => lease' \in [holder : Opt(Centers), live : BOOLEAN]
    BY DEF IInv, TypeOK
  <2>2. [holder |-> None, live |-> FALSE] \in [holder : Opt(Centers), live : BOOLEAN]
    BY DEF Opt
  <2> QED BY <2>1, <2>2 DEF StopCenter, StartCenter, storeVars
<1>6. /\ steer' \in [Actors -> [to : Opt(Servers), left : SUBSET Servers]]
      /\ \A b \in Actors : Entitled(steer'[b].to)
  <2>1. CASE UNCHANGED steer
    BY <2>1 DEF StopCenter, StartCenter, IInv, TypeOK, EntitledInv, Entitled
  <2>2. CASE steer' = [steer EXCEPT ![c] = NoSteer]
    BY <2>2, SteerEnds DEF Actors, StopCenter, StartCenter
  <2> QED BY <2>1, <2>2 DEF StopCenter, StartCenter
<1> QED BY <1>3, <1>4, <1>5, <1>6 DEF StopCenter, StartCenter, IInv, TypeOK, EntitledInv,
  ActiveEntitled, Entitled, serverVars, storeVars, bounds

LEMMA SteerNodeKeeps ==
  ASSUME IInv, NEW a \in Actors, NEW s \in Servers, SteerNode(a, s)
  PROVE  IInv'
<1>1. faults' \in 0..MaxFaults
  BY FaultTypes DEF SteerNode, IInv, TypeOK
<1>2. /\ dns' \in [Servers -> Opt(Servers)]
      /\ \A t \in Servers : dns'[t] # None => dns'[t] \in entitled
  BY DEF SteerNode, IInv, TypeOK, EntitledInv, ActiveEntitled, Entitled
<1>3. /\ steer' \in [Actors -> [to : Opt(Servers), left : SUBSET Servers]]
      /\ \A b \in Actors : Entitled(steer'[b].to)
  <2>1. CASE steer' = [steer EXCEPT ![a] = NoSteer]
    BY <2>1, SteerEnds DEF SteerNode
  <2>2. CASE steer' = [steer EXCEPT ![a] = [to |-> steer[a].to, left |-> steer[a].left \ {s}]]
    BY <2>2 DEF IInv, TypeOK, EntitledInv, Entitled, SteerNode
  <2>3. CASE steer[a].left = {s}
    BY <2>1, <2>3 DEF SteerNode
  <2>4. CASE steer[a].left # {s}
    BY <2>2, <2>4 DEF SteerNode
  <2> QED BY <2>3, <2>4
<1> QED BY <1>1, <1>2, <1>3 DEF SteerNode, IInv, TypeOK, EntitledInv, ActiveEntitled,
  Entitled, RunEntitled, storeVars

\* What the servers do by themselves changes neither rows nor names.
LEMMA ServersKeep ==
  ASSUME IInv, NEW s \in Servers,
         CrashServer(s) \/ CutServer(s) \/ HangServer(s) \/ ReturnServer(s)
  PROVE  IInv'
<1>1. faults' \in 0..MaxFaults
  BY FaultTypes DEF CrashServer, CutServer, HangServer, ReturnServer, bounds, IInv, TypeOK
<1>2. net' \in [Servers -> {"up", "cut", "hung", "down"}]
  BY DEF CrashServer, CutServer, HangServer, ReturnServer, IInv, TypeOK
<1>3. pulling' \in [Servers -> BOOLEAN]
  BY DEF CrashServer, CutServer, HangServer, ReturnServer, IInv, TypeOK
<1> QED BY <1>1, <1>2, <1>3 DEF CrashServer, CutServer, HangServer, ReturnServer, bounds,
  storeVars, centerVars, IInv, TypeOK, EntitledInv, ActiveEntitled, Entitled, RunEntitled

LEMMA ManualPromoteKeeps ==
  ASSUME IInv, NEW s \in Servers, ManualPromote(s)
  PROVE  IInv'
<1>1. PICK ok \in BOOLEAN : /\ Post(s, FALSE, ok)
                            /\ op' = IF ok THEN [at |-> "record", sid |-> s] ELSE NoOp
  BY DEF ManualPromote
<1>2. /\ pulling' \in [Servers -> BOOLEAN]
      /\ entitled \subseteq entitled' /\ entitled' \subseteq Servers
      /\ faults' \in 0..MaxFaults
      /\ ok => s \in entitled'
  BY <1>1, PostTypes DEF IInv
<1>3. op' \in [at : {"idle", "record", "steer"}, sid : Opt(Servers)]
      /\ (op'.sid # None => op'.sid \in entitled')
  BY <1>1, <1>2 DEF NoOp, Opt
<1>4. operations' \in 0..MaxOperations
  BY OperationTypes DEF ManualPromote, IInv
<1> QED BY <1>2, <1>3, <1>4 DEF ManualPromote, IInv, TypeOK, EntitledInv, ActiveEntitled,
  Entitled, RunEntitled, storeVars, centerVars

LEMMA ManualDemoteKeeps ==
  ASSUME IInv, NEW s \in Servers, ManualDemote(s)
  PROVE  IInv'
<1>1. PICK ok \in BOOLEAN : Post(s, TRUE, ok)
  BY DEF ManualDemote
<1>2. /\ pulling' \in [Servers -> BOOLEAN]
      /\ entitled \subseteq entitled' /\ entitled' \subseteq Servers
      /\ faults' \in 0..MaxFaults
  BY <1>1, PostTypes DEF IInv
<1>3. operations' \in 0..MaxOperations
  BY OperationTypes DEF ManualDemote, IInv
<1> QED BY <1>2, <1>3 DEF ManualDemote, IInv, TypeOK, EntitledInv, ActiveEntitled,
  Entitled, RunEntitled, storeVars, centerVars

LEMMA OperatorRunKeeps ==
  ASSUME IInv, RecordPromote \/ OperatorSteer \/ SetPolicy
  PROVE  IInv'
<1>1. CASE RecordPromote
  <2>1. faults' \in 0..MaxFaults
    BY <1>1, FaultTypes DEF RecordPromote, IInv, TypeOK
  <2>2. cluster' \in [auto : BOOLEAN, active : Opt(Servers)] /\ Entitled(cluster'.active)
    BY <1>1 DEF RecordPromote, IInv, TypeOK, EntitledInv, ActiveEntitled, Entitled
  <2>3. op' \in [at : {"idle", "record", "steer"}, sid : Opt(Servers)] /\ op'.sid = op.sid
    BY <1>1 DEF RecordPromote, IInv, TypeOK
  <2> QED BY <1>1, <2>1, <2>2, <2>3 DEF RecordPromote, IInv, TypeOK, EntitledInv,
    ActiveEntitled, Entitled, RunEntitled, serverVars, centerVars
<1>2. CASE OperatorSteer
  <2>1. /\ steer' \in [Actors -> [to : Opt(Servers), left : SUBSET Servers]]
        /\ \A b \in Actors : Entitled(steer'[b].to)
        /\ faults' \in 0..MaxFaults
    BY <1>2, ReadSteerTypes DEF OperatorSteer, Actors
  <2>2. op' \in [at : {"idle", "record", "steer"}, sid : Opt(Servers)] /\ op'.sid = None
    BY <1>2 DEF OperatorSteer, NoOp, Opt
  <2> QED BY <1>2, <2>1, <2>2 DEF OperatorSteer, IInv, TypeOK, EntitledInv,
    ActiveEntitled, Entitled, RunEntitled, serverVars, storeVars
<1>3. CASE SetPolicy
  <2>1. cluster' \in [auto : BOOLEAN, active : Opt(Servers)] /\ cluster'.active = cluster.active
    BY <1>3 DEF SetPolicy, IInv, TypeOK
  <2>2. operations' \in 0..MaxOperations
    BY <1>3, OperationTypes DEF SetPolicy, IInv
  <2> QED BY <1>3, <2>1, <2>2 DEF SetPolicy, IInv, TypeOK, EntitledInv,
    ActiveEntitled, Entitled, RunEntitled, serverVars, centerVars
<1> QED BY <1>1, <1>2, <1>3

LEMMA OperatorRowsKeep ==
  ASSUME IInv, NEW s \in Servers,
         \/ RegisterServer(s) \/ DeleteServer(s)
         \/ \E i \in RoleIntent : SetIntent(s, i)
  PROVE  IInv'
<1>1. entitled \subseteq entitled' /\ entitled' \subseteq Servers
  BY DEF RegisterServer, DeleteServer, SetIntent, IInv, TypeOK
<1>2. operations' \in 0..MaxOperations
  BY OperationTypes DEF RegisterServer, DeleteServer, SetIntent, IInv
<1>3. PICK v \in ServerRecord : /\ rec' = [rec EXCEPT ![s] = v]
                                /\ v.intent = "primary" => s \in entitled'
  <2>0. rec \in [Servers -> ServerRecord] /\ rec[s] \in ServerRecord
    BY DEF IInv, TypeOK
  <2>1. CASE RegisterServer(s)
    <3>1. NewRecord \in ServerRecord /\ NewRecord.intent = "unset"
      BY FailoverAssumption DEF NewRecord, ServerRecord, RoleIntent
    <3> QED BY <2>1, <3>1 DEF RegisterServer
  <2>2. CASE DeleteServer(s)
    <3> DEFINE v == [rec[s] EXCEPT !.row = "deleted"]
    <3>1. v \in ServerRecord /\ v.intent = rec[s].intent
      BY <2>0 DEF ServerRecord
    <3>2. rec' = [rec EXCEPT ![s] = v]
      BY <2>0, <2>2 DEF DeleteServer
    <3> QED BY <2>2, <3>1, <3>2 DEF DeleteServer, IInv, EntitledInv
  <2>3. ASSUME NEW i \in RoleIntent, SetIntent(s, i)
        PROVE  \E v \in ServerRecord : /\ rec' = [rec EXCEPT ![s] = v]
                                       /\ v.intent = "primary" => s \in entitled'
    <3> DEFINE v == [rec[s] EXCEPT !.intent = i]
    <3>1. v \in ServerRecord /\ v.intent = i
      BY <2>0 DEF ServerRecord
    <3>2. rec' = [rec EXCEPT ![s] = v]
      BY <2>0, <2>3 DEF SetIntent
    <3> QED BY <2>3, <3>1, <3>2 DEF SetIntent
  <2> QED BY <2>1, <2>2, <2>3
<1>4. /\ rec' \in [Servers -> ServerRecord]
      /\ \A t \in Servers : rec'[t].intent = "primary" => t \in entitled'
  <2>1. rec \in [Servers -> ServerRecord]
        /\ \A t \in Servers : rec[t].intent = "primary" => t \in entitled
    BY DEF IInv, TypeOK, EntitledInv
  <2> QED BY <1>1, <1>3, <2>1
<1> QED BY <1>1, <1>2, <1>4 DEF RegisterServer, DeleteServer, SetIntent, IInv, TypeOK,
  EntitledInv, ActiveEntitled, Entitled, RunEntitled, serverVars, centerVars

----------------------------------------------------------------------------
(* Together.                                                                   *)

LEMMA InitSound == Init => IInv
<1> SUFFICES ASSUME Init PROVE IInv
  OBVIOUS
<1>1. /\ net \in [Servers -> {"up", "cut", "hung", "down"}]
      /\ dns \in [Servers -> Opt(Servers)]
      /\ cluster \in [auto : BOOLEAN, active : Opt(Servers)]
      /\ lease \in [holder : Opt(Centers), live : BOOLEAN]
      /\ isLeader \in [Centers -> BOOLEAN]
      /\ run \in [Centers -> RunState]
      /\ entitled \subseteq Servers
      /\ faults \in 0..MaxFaults /\ operations \in 0..MaxOperations
  BY FailoverAssumption DEF Init, Opt, RunState
<1>2. pulling \in [Servers -> BOOLEAN]
  <2>1. \A s \in Servers : (s \in Static \/ Intents[s] # "primary") \in BOOLEAN
    OBVIOUS
  <2> QED BY <2>1 DEF Init
<1>3. \A s \in Servers :
        LET v == IF s \in Spare THEN [NewRecord EXCEPT !.row = "absent"]
                                ELSE [NewRecord EXCEPT !.intent = Intents[s]]
        IN v \in ServerRecord /\ (v.intent = "primary" => s \in entitled)
  <2> SUFFICES ASSUME NEW s \in Servers
               PROVE LET v == IF s \in Spare THEN [NewRecord EXCEPT !.row = "absent"]
                                ELSE [NewRecord EXCEPT !.intent = Intents[s]]
                     IN v \in ServerRecord /\ (v.intent = "primary" => s \in entitled)
    OBVIOUS
  <2>1. NewRecord \in ServerRecord /\ NewRecord.intent = "unset"
    BY FailoverAssumption DEF NewRecord, ServerRecord, RoleIntent
  <2>2. Intents[s] \in RoleIntent
    BY FailoverAssumption
  <2>3. [NewRecord EXCEPT !.row = "absent"] \in ServerRecord
        /\ [NewRecord EXCEPT !.row = "absent"].intent = "unset"
    BY <2>1 DEF ServerRecord
  <2>4. [NewRecord EXCEPT !.intent = Intents[s]] \in ServerRecord
        /\ [NewRecord EXCEPT !.intent = Intents[s]].intent = Intents[s]
    BY <2>1, <2>2 DEF ServerRecord
  <2> QED BY <2>3, <2>4 DEF Init
<1>4. /\ rec \in [Servers -> ServerRecord]
      /\ \A s \in Servers : rec[s].intent = "primary" => s \in entitled
  BY <1>3 DEF Init
<1>5. /\ steer \in [Actors -> [to : Opt(Servers), left : SUBSET Servers]]
      /\ \A a \in Actors : Entitled(steer[a].to)
  BY DEF Init, NoSteer, Opt, Entitled
<1>6. op \in [at : {"idle", "record", "steer"}, sid : Opt(Servers)] /\ Entitled(op.sid)
  BY DEF Init, NoOp, Opt, Entitled
<1>7. \A c \in Centers : RunEntitled(run[c])
  BY Nameless DEF Init, RunEntitled
<1>8. ActiveEntitled
  BY DEF Init, ActiveEntitled
<1> QED BY <1>1, <1>2, <1>4, <1>5, <1>6, <1>7, <1>8 DEF IInv, TypeOK, EntitledInv

LEMMA StepSound == IInv /\ [Next]_vars => IInv'
<1> SUFFICES ASSUME IInv, [Next]_vars PROVE IInv'
  OBVIOUS
<1>1. ASSUME NEW c \in Centers, CenterStep(c) PROVE IInv'
  BY <1>1, TickKeeps, EvaluateKeeps, SendPromoteKeeps, ActedKeeps, PersistActiveKeeps,
     BeginSteerKeeps, PersistFenceKeeps, PollServerKeeps, SendDemoteKeeps DEF CenterStep
<1>2. ASSUME OperatorStep PROVE IInv'
  BY <1>2, ManualPromoteKeeps, ManualDemoteKeeps, OperatorRunKeeps, OperatorRowsKeep
     DEF OperatorStep
<1>3. CASE UNCHANGED vars
  BY <1>3 DEF vars, IInv, TypeOK, EntitledInv, ActiveEntitled, Entitled, RunEntitled
<1> QED BY <1>1, <1>2, <1>3, LeaseKeeps, LifeKeeps, SteerNodeKeeps, ServersKeep DEF Next

\* run_failover's promise, for any number of centers and servers, any interleaving of
\* their polls, decisions, commands and writes with an operator's calls, crashes, cuts,
\* hangs, lost answers and lost leases: the center's records are well formed, and the
\* recorded primary and every service record name a server that was designated primary
\* or acknowledged a promote.
THEOREM RolesAlwaysSound == Spec => []RolesSound
<1>1. IInv => RolesSound
  BY DEF IInv, EntitledInv, RolesSound
<1> QED BY InitSound, StepSound, <1>1, PTL DEF Spec

----------------------------------------------------------------------------
(* The active primary keeps its role.                                          *)

OneCenter == \A c, d \in Centers : c = d

\* Until the operator calls, no promote of his is under way, the center is not about
\* to demote the recorded active primary, and a static server never stops pulling.
Unasked ==
  /\ op = NoOp
  /\ \A c \in Centers : run[c] \in Acting /\ run[c].at = "act" => cluster.active \notin run[c].demote
  /\ \A s \in Static : pulling[s]

KeepInv == operations = 0 /\ OneCenter => Unasked

\* evaluate never lists the recorded active primary for a demote: it is the one
\* excepted, or it is down.
LEMMA DecisionSparesActive ==
  ASSUME IInv, NEW d \in Decisions
  PROVE  cluster.active \notin d.demote
<1>1. PICK a \in EffectiveActive : d = Decision(a)
  BY DEF Decisions
<1> DEFINE failover == ActiveDown(a) /\ Candidates # {}
           now == IF failover THEN Min(Candidates) ELSE a
<1>2. d.demote = Strays(now)
  BY <1>1 DEF Decision
<1>3. CASE cluster.active = None
  BY <1>2, <1>3, FailoverAssumption DEF Strays, Healthy, Registered
<1>4. CASE cluster.active # None
  <2>1. a = cluster.active
    BY <1>4 DEF EffectiveActive
  <2>2. CASE failover
    BY <1>2, <2>1, <2>2 DEF ActiveDown, Strays
  <2>3. CASE ~failover
    BY <1>2, <2>1, <2>3 DEF Strays
  <2> QED BY <2>2, <2>3
<1> QED BY <1>3, <1>4

\* A command that is not a demote of s leaves s its role, and static servers pull.
LEMMA PostRoles ==
  ASSUME IInv, \A s \in Static : pulling[s],
         NEW s \in Servers, NEW pull \in BOOLEAN, NEW ok \in BOOLEAN, Post(s, pull, ok)
  PROVE  /\ \A t \in Static : pulling'[t]
         /\ \A t \in Servers : pulling'[t] /\ ~pulling[t] => pull /\ t = s
<1>1. pulling \in [Servers -> BOOLEAN] /\ Static \subseteq Servers
  BY FailoverAssumption DEF IInv, TypeOK
<1>2. CASE UNCHANGED pulling
  BY <1>1, <1>2
<1>3. CASE Flip(s, pull)
  <2>1. pulling' = [pulling EXCEPT ![s] = s \in Static \/ pull]
    BY <1>3 DEF Flip
  <2>2. pulling'[s] = (s \in Static \/ pull) /\ \A t \in Servers \ {s} : pulling'[t] = pulling[t]
    BY <1>1, <2>1
  <2> QED BY <1>1, <2>2
<1> QED BY <1>2, <1>3 DEF Post

\* A step of the center keeps Unasked, and takes the role from no active primary.
LEMMA CenterSpares ==
  ASSUME IInv, IInv', OneCenter, Unasked, NEW c \in Centers, CenterStep(c)
  PROVE  Unasked' /\ KeepsActive
<1>0. op = NoOp /\ \A d \in Centers : d = c
  BY DEF Unasked, OneCenter
<1>1. ASSUME pulling' = pulling, op' = op,
             run'[c] \in Acting /\ run'[c].at = "act" => cluster'.active \notin run'[c].demote
      PROVE  Unasked' /\ KeepsActive
  BY <1>0, <1>1, FailoverAssumption DEF Unasked, KeepsActive
<1>2. ASSUME run'[c] \notin Acting \/ run'[c].at # "act", pulling' = pulling, op' = op
      PROVE  Unasked' /\ KeepsActive
  BY <1>1, <1>2
<1>3. CASE Tick(c)
  <2>1. run'[c].at = "poll"
    BY <1>3 DEF Tick, IInv, TypeOK
  <2> QED BY <1>2, <1>3, <2>1 DEF Tick, serverVars
<1>4. CASE Evaluate(c)
  <2>1. run'[c] = Idle \/ run'[c] \in Decisions
    BY <1>4 DEF Evaluate, IInv, TypeOK
  <2>2. cluster' = cluster /\ pulling' = pulling /\ op' = op
    BY <1>4 DEF Evaluate, serverVars, storeVars
  <2>3. Idle \notin Acting
    BY Nameless
  <2> QED BY <1>1, <2>1, <2>2, <2>3, DecisionSparesActive
<1>5. CASE Acted(c)
  <2>1. run'[c] = Idle \/ run'[c] = [run[c] EXCEPT !.at = "persist"]
    BY <1>5 DEF Acted, IInv, TypeOK
  <2>2. run[c] \in Acting
    BY <1>5, Phases DEF Acted, IInv, TypeOK
  <2>3. run'[c].at # "act"
    BY <2>1, <2>2 DEF Idle, Acting
  <2> QED BY <1>2, <1>5, <2>3 DEF Acted, serverVars
<1>6. CASE PersistActive(c) \/ BeginSteer(c) \/ PersistFence(c)
  <2>1. run[c] \in Acting /\ run[c].at # "act"
    BY <1>6, Phases DEF PersistActive, BeginSteer, PersistFence, IInv, TypeOK
  <2>2. run'[c].at # "act"
    <3>1. CASE PersistActive(c) \/ BeginSteer(c)
      BY <2>1, <3>1 DEF PersistActive, BeginSteer, IInv, TypeOK, Acting
    <3>2. CASE PersistFence(c)
      <4>1. run'[c] = Idle \/ \E s \in FenceRows(run[c]) : run'[c] = AfterFence(run[c], s)
        BY <3>2 DEF PersistFence, IInv, TypeOK
      <4> QED BY <2>1, <4>1, AfterFenceTypes DEF Idle
    <3> QED BY <1>6, <3>1, <3>2
  <2> QED BY <1>2, <1>6, <2>2 DEF PersistActive, BeginSteer, PersistFence, serverVars
<1>7. ASSUME NEW s \in Servers, PollServer(c, s) PROVE Unasked' /\ KeepsActive
  <2>1. run'[c].at = "poll"
    <3>1. run[c] \in Polling
      BY <1>7, Phases DEF PollServer, IInv, TypeOK
    <3> QED BY <1>7, <3>1 DEF PollServer, IInv, TypeOK, Polling
  <2> QED BY <1>2, <1>7, <2>1 DEF PollServer, serverVars
<1>8. CASE SendPromote(c)
  <2>1. PICK ok \in BOOLEAN :
          /\ Post(run[c].promote, FALSE, ok)
          /\ run' = [run EXCEPT ![c].promote = None, ![c].promoteOk = PromoteOk(ok)]
    BY <1>8 DEF SendPromote
  <2>2. run[c] \in Acting /\ run[c].at = "act" /\ run[c].promote \in Servers
    <3>1. run[c] \in Acting
      BY <1>8, Phases DEF SendPromote, IInv, TypeOK
    <3> QED BY <1>8, <3>1 DEF SendPromote, Acting, Opt
  <2>3. run'[c].demote = run[c].demote
    BY <2>1, <2>2 DEF IInv, TypeOK, Acting
  <2>4. /\ \A t \in Static : pulling'[t]
        /\ \A t \in Servers : ~(pulling'[t] /\ ~pulling[t])
    BY <2>1, <2>2, PostRoles DEF Unasked
  <2> QED BY <1>0, <1>8, <2>2, <2>3, <2>4 DEF SendPromote, Unasked, KeepsActive, storeVars
<1>9. ASSUME NEW s \in Servers, SendDemote(c, s) PROVE Unasked' /\ KeepsActive
  <2>1. PICK ok \in BOOLEAN : Post(s, TRUE, ok)
    BY <1>9 DEF SendDemote
  <2>2. run[c] \in Acting /\ run[c].at = "act" /\ s \in run[c].demote
    BY <1>9, Phases DEF SendDemote, IInv, TypeOK
  <2>3. run'[c].demote = run[c].demote \ {s}
    BY <1>9, <2>2 DEF SendDemote, IInv, TypeOK, Acting
  <2>4. cluster.active \notin run[c].demote
    BY <2>2 DEF Unasked
  <2>5. /\ \A t \in Static : pulling'[t]
        /\ \A t \in Servers : pulling'[t] /\ ~pulling[t] => t = s
    BY <2>1, PostRoles DEF Unasked
  <2> QED BY <1>0, <1>9, <2>2, <2>3, <2>4, <2>5 DEF SendDemote, Unasked, KeepsActive, storeVars
<1> QED BY <1>3, <1>4, <1>5, <1>6, <1>7, <1>8, <1>9 DEF CenterStep

LEMMA OthersSpare ==
  ASSUME IInv, IInv', OneCenter, Unasked, operations' = 0, operations = 0, [Next]_vars
  PROVE  Unasked' /\ KeepsActive
<1>0. \A k : ~Operation(k)
  BY DEF Operation
<1>1. ASSUME pulling' = pulling, op' = op, cluster' = cluster, run' = run
      PROVE  Unasked' /\ KeepsActive
  BY <1>1, FailoverAssumption DEF Unasked, KeepsActive
<1>2. ASSUME NEW c \in Centers, StopCenter(c) \/ StartCenter(c)
      PROVE  Unasked' /\ KeepsActive
  <2>1. run'[c] \in {Idle, Dead} /\ \A d \in Centers : d # c => run'[d] = run[d]
    BY <1>2 DEF StopCenter, StartCenter, IInv, TypeOK
  <2>2. run'[c] \notin Acting
    BY <2>1, Nameless
  <2> QED BY <1>2, <2>1, <2>2, FailoverAssumption DEF StopCenter, StartCenter, Unasked, KeepsActive,
    serverVars, storeVars
<1>3. ASSUME NEW s \in Servers, CrashServer(s) PROVE Unasked' /\ KeepsActive
  <2>1. \A t \in Servers : t # s => pulling'[t] = pulling[t]
    BY <1>3 DEF CrashServer, IInv, TypeOK
  <2>2. pulling'[s] /\ net'[s] = "down"
    BY <1>3 DEF CrashServer, IInv, TypeOK
  <2> QED BY <1>3, <2>1, <2>2, FailoverAssumption DEF CrashServer, Unasked, KeepsActive,
    storeVars, centerVars
<1>4. ASSUME OperatorStep PROVE FALSE
  <2>1. op.at = "idle"
    BY DEF Unasked, NoOp
  <2> QED BY <1>0, <1>4, <2>1 DEF OperatorStep, RecordPromote, OperatorSteer, SetPolicy,
    ManualPromote, ManualDemote, RegisterServer, DeleteServer, SetIntent
<1>5. ASSUME NEW c \in Centers, Elect(c) \/ ElectError(c) PROVE Unasked' /\ KeepsActive
  BY <1>1, <1>5 DEF Elect, ElectError, serverVars, storeVars, centerVars
<1>6. CASE Expire \/ ExpireLate
  BY <1>1, <1>6 DEF Expire, ExpireLate, serverVars, centerVars
<1>7. ASSUME NEW a \in Actors, NEW s \in Servers, SteerNode(a, s) PROVE Unasked' /\ KeepsActive
  BY <1>1, <1>7 DEF SteerNode, storeVars
<1>8. ASSUME NEW s \in Servers, CutServer(s) \/ HangServer(s) \/ ReturnServer(s)
      PROVE Unasked' /\ KeepsActive
  BY <1>1, <1>8 DEF CutServer, HangServer, ReturnServer, storeVars, centerVars
<1>9. CASE UNCHANGED vars
  BY <1>1, <1>9 DEF vars
<1> QED BY <1>2, <1>3, <1>4, <1>5, <1>6, <1>7, <1>8, <1>9, CenterSpares DEF Next

\* The operator's calls are counted, up to the bound.
LEMMA OperationsGrow ==
  ASSUME IInv, [Next]_vars, operations' = 0
  PROVE  operations = 0
<1>1. operations \in Nat
  BY FailoverAssumption DEF IInv, TypeOK
<1>2. operations' \in {operations, operations + 1}
  BY ZenonT(60) DEF Next, vars, CenterStep, OperatorStep, Tick, Evaluate, SendPromote, Acted, PersistActive,
     BeginSteer, PersistFence, PollServer, SendDemote, Elect, ElectError, StopCenter, StartCenter,
     Expire, ExpireLate, SteerNode, CrashServer, CutServer, HangServer, ReturnServer, Operation,
     RecordPromote, OperatorSteer, SetPolicy, ManualPromote, ManualDemote, RegisterServer,
     DeleteServer, SetIntent, bounds
<1> QED BY <1>1, <1>2

\* While the operator has called nothing and one center runs, no command of the center,
\* however late, takes the role from the recorded active primary: only that server's
\* restart does.
THEOREM ActiveKeepsRole == Spec => ActiveNotDemoted
<1> DEFINE Spared == operations' = 0 /\ (\A c, d \in Centers : c = d) => KeepsActive
<1>1. Init => KeepInv
  <2> SUFFICES ASSUME Init PROVE Unasked
    BY DEF KeepInv
  <2>1. \A c \in Centers : run[c] \notin Acting
    BY Nameless DEF Init
  <2> QED BY <2>1, FailoverAssumption DEF Init, Unasked
<1>2. IInv /\ IInv' /\ KeepInv /\ [Next]_vars => KeepInv' /\ [Spared]_vars
  <2> SUFFICES ASSUME IInv, IInv', KeepInv, [Next]_vars PROVE KeepInv' /\ [Spared]_vars
    OBVIOUS
  <2>1. CASE operations' = 0 /\ OneCenter
    <3>1. operations = 0 /\ Unasked
      BY <2>1, OperationsGrow DEF KeepInv
    <3>2. Unasked' /\ KeepsActive
      BY <2>1, <3>1, OthersSpare
    <3> QED BY <3>2 DEF KeepInv
  <2>2. CASE ~(operations' = 0 /\ OneCenter)
    BY <2>2 DEF KeepInv, OneCenter
  <2> QED BY <2>1, <2>2
<1> QED BY InitSound, StepSound, <1>1, <1>2, PTL DEF Spec, ActiveNotDemoted
=============================================================================
