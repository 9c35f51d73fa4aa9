------------------------------ MODULE RidPool ------------------------------
(* RID allocation of the AD domain controller.                                *)
(*                                                                            *)
(* A store keeps one durable counter, rid_pool:main.  DC front-ends reserve   *)
(* blocks from it, hand out single RIDs (SAMR account creation) and pools     *)
(* (the DRSUAPI RID master) from memory, and refill in the background.  The   *)
(* Web and LDAP provisioning paths reserve one RID at a time.                 *)
(*                                                                            *)
(*   magnetite-db/src/ad.rs         reserve_rid_block                         *)
(*   magnetite-addc/src/lib.rs      DbRidAllocator, spawn_rid_allocator       *)
(*   magnetite-rpc/src/samr.rs      create_user                               *)
(*   magnetite-rpc/src/drsuapi.rs   rid_alloc_reply                           *)
EXTENDS Integers, Sequences, Bags, BagsExt, SequencesExt

CONSTANTS
  Stores,              \* independent databases (Tier C has one per node)
  Fronts,              \* DC front-end processes
  StoreOf,             \* StoreOf[f]: the database front-end f shares (Tier B)
  Base,                \* Base[f]: rid_pool_base / rid_pool_seed at f's start
  RID_POOL_FIRST,      \* the floor, also SAMR's FIRST_CREATED_RID
  RID_BLOCK, RID_WATERMARK,
  RID_POOL_BLOCK, RID_POOL_WATERMARK, RID_POOL_SIZE,
  CreateMayFail,       \* may the CREATE of the counter fail on its own?
  MaxCounter,          \* bound: no reservation from a counter above this
  MaxRefill,           \* bound: length of the refill channel
  MaxFallback,         \* bound: fallback RIDs one front-end hands out
  MaxCrashes           \* bound: front-end restarts in total

ASSUME RidPoolAssumption ==
  /\ StoreOf \in [Fronts -> Stores]
  /\ RID_POOL_FIRST \in Nat
  /\ Base \in [Fronts -> Nat]
  /\ RID_BLOCK \in Nat \ {0} /\ RID_POOL_BLOCK \in Nat \ {0}
  /\ RID_WATERMARK \in Nat /\ RID_POOL_WATERMARK \in Nat
  /\ RID_POOL_SIZE \in Nat \ {0}
  /\ CreateMayFail \in BOOLEAN
  /\ MaxCounter \in Nat /\ MaxRefill \in Nat
  /\ MaxFallback \in Nat /\ MaxCrashes \in Nat

Kinds == {"single", "pool"}
Regions == Fronts \X Kinds

BlockSize(k) == IF k = "single" THEN RID_BLOCK ELSE RID_POOL_BLOCK
Watermark(k) == IF k = "single" THEN RID_WATERMARK ELSE RID_POOL_WATERMARK

VARIABLES
  counter,  \* counter[s]: rid_pool:main.next, durable; -1 while it is absent
  phase,    \* phase[f]: "down", "boot" (one of two reservations made) or "up"
  ranges,   \* ranges[<<f, k>>]: the reserved, unspent <<next, end>>, a deque
  refill,   \* refill[f]: the channel of RefillKind requests
  nextRid,  \* nextRid[f]: SamrState.next_rid, the in-memory fallback counter
  issued,   \* history: the bag of grants [store, lo, hi, via], RIDs lo..hi-1
  crashes   \* history: restarts so far

vars == <<counter, phase, ranges, refill, nextRid, issued, crashes>>

Grants == [store : Stores, lo : Nat, hi : Nat,
           via : {"single", "pool", "direct", "fallback"}]

\* Type correctness.
TypeOK ==
  /\ counter \in [Stores -> Nat \cup {-1}]
  /\ phase \in [Fronts -> {"down", "boot", "up"}]
  /\ ranges \in [Regions -> Seq(Nat \X Nat)]
  /\ refill \in [Fronts -> Seq(Kinds)]
  /\ nextRid \in [Fronts -> Nat]
  /\ issued \in [DOMAIN issued -> Nat] /\ DOMAIN issued \subseteq Grants
  /\ crashes \in Nat

Init ==
  /\ counter = [s \in Stores |-> -1]
  /\ phase = [f \in Fronts |-> "down"]
  /\ ranges = [p \in Regions |-> <<>>]
  /\ refill = [f \in Fronts |-> <<>>]
  /\ nextRid = [f \in Fronts |-> RID_POOL_FIRST]
  /\ issued = EmptyBag
  /\ crashes = 0

----------------------------------------------------------------------------
(* reserve_rid_block(first, block) on store s.  The CREATE only takes effect  *)
(* on an absent record and its error is ignored; the UPDATE adds block and    *)
(* returns the value before.                                                  *)

\* Mutant: the counter starts over from the seed, as an in-memory one would.
Seeded_Reset(s, first) == first

\* Mutant: the CREATE is forgotten, so the first block is based on no record.
Seeded_NoCreate(s, first) == counter[s]

Seeded(s, first) == IF counter[s] = -1 THEN first ELSE counter[s]

\* Mutant: the UPDATE adds one RID too few.
ReserveOk_OffByOne(s, first, block, base) ==
  /\ Seeded(s, first) <= MaxCounter
  /\ base = Seeded(s, first)
  /\ counter' = [counter EXCEPT ![s] = base + block - 1]

\* The outcomes that yield a block based at base.
ReserveOk(s, first, block, base) ==
  \/ /\ Seeded(s, first) <= MaxCounter
     /\ base = Seeded(s, first)
     /\ counter' = [counter EXCEPT ![s] = base + block]
  \/ /\ CreateMayFail                     \* no record: UPDATE matches nothing,
     /\ counter[s] = -1                   \* and unwrap_or(first) answers
     /\ base = first
     /\ UNCHANGED counter

\* A store error: the CREATE may still have happened.
ReserveErr(s, first) ==
  \/ UNCHANGED counter
  \/ counter' = [counter EXCEPT ![s] = Seeded(s, first)]

\* Reserve a block of kind k for f, or log the error and go on without it.
ReserveFor(f, k) ==
  \/ \E base \in {Base[f], Seeded(StoreOf[f], Base[f])} :
       /\ ReserveOk(StoreOf[f], Base[f], BlockSize(k), base)
       /\ ranges' = [ranges EXCEPT
            ![<<f, k>>] = Append(@, <<base, base + BlockSize(k)>>)]
  \/ ReserveErr(StoreOf[f], Base[f]) /\ UNCHANGED ranges

(* spawn_rid_allocator: a single block, then a pool block, then the refiller. *)
BootSingle(f) ==
  /\ phase[f] = "down"
  /\ phase' = [phase EXCEPT ![f] = "boot"]
  /\ ReserveFor(f, "single")
  /\ UNCHANGED <<refill, nextRid, issued, crashes>>

BootPool(f) ==
  /\ phase[f] = "boot"
  /\ phase' = [phase EXCEPT ![f] = "up"]
  /\ ReserveFor(f, "pool")
  /\ UNCHANGED <<refill, nextRid, issued, crashes>>

(* The background refiller: one request at a time.                            *)
Refill(f) ==
  /\ phase[f] = "up"
  /\ refill[f] # <<>>
  /\ refill' = [refill EXCEPT ![f] = Tail(@)]
  /\ ReserveFor(f, Head(refill[f]))
  /\ UNCHANGED <<phase, nextRid, issued, crashes>>

----------------------------------------------------------------------------
(* allocate / allocate_pool: drop the front ranges that cannot hold size      *)
(* RIDs, ask for a refill at the watermark, then spend from the front.        *)

Width(r) == r[2] - r[1]

\* The deques the pop loop can leave: q without its front ranges up to the first
\* that holds size RIDs (there is exactly one).
Dropped(q, size) ==
  LET Stops(n) == /\ \A i \in 1..n : Width(q[i]) < size
                  /\ n < Len(q) => Width(q[n + 1]) >= size
  IN {SubSeq(q, n + 1, Len(q)) : n \in {m \in 0..Len(q) : Stops(m)}}

Remaining(q) == FoldSeq(LAMBDA r, sum : Width(r) + sum, 0, q)

Low(q, k) == Remaining(q) <= Watermark(k)

\* One request at the watermark; when nothing is left, a second one.
RefillsAsked(q, k) ==
  (IF Low(q, k) THEN <<k>> ELSE <<>>) \o (IF q = <<>> THEN <<k>> ELSE <<>>)

\* Mutant: a grant advances the range by one RID, whatever its size.
Spend_One(q, size) == [q EXCEPT ![1] = <<q[1][1] + 1, q[1][2]>>]

Spend(q, size) == [q EXCEPT ![1] = <<q[1][1] + size, q[1][2]>>]

Grant(s, lo, size, via) ==
  issued' = BagAdd(issued,
              [store |-> s, lo |-> lo, hi |-> lo + size, via |-> via])

\* The part of allocate / allocate_pool that is common to success and failure.
AskRefill(f, k, q) ==
  /\ phase[f] = "up"
  /\ Len(refill[f]) <= MaxRefill
  /\ refill' = [refill EXCEPT ![f] = @ \o RefillsAsked(q, k)]

\* SAMR create_user: a RID from the allocator ...
CreateUser(f) ==
  \E q \in Dropped(ranges[<<f, "single">>], 1) :
  /\ AskRefill(f, "single", q)
  /\ q # <<>>
  /\ Grant(StoreOf[f], q[1][1], 1, "single")
  /\ ranges' = [ranges EXCEPT ![<<f, "single">>] = Spend(q, 1)]
  /\ UNCHANGED <<counter, phase, nextRid, crashes>>

\* ... or, when the allocator has none, from the in-memory counter.
CreateUserFallback(f) ==
  \E q \in Dropped(ranges[<<f, "single">>], 1) :
  /\ AskRefill(f, "single", q)
  /\ q = <<>>
  /\ nextRid[f] < RID_POOL_FIRST + MaxFallback
  /\ Grant(StoreOf[f], nextRid[f], 1, "fallback")
  /\ nextRid' = [nextRid EXCEPT ![f] = @ + 1]
  /\ ranges' = [ranges EXCEPT ![<<f, "single">>] = q]
  /\ UNCHANGED <<counter, phase, crashes>>

\* rid_alloc_reply: a pool for a peer DC ...
GrantPool(f) ==
  \E q \in Dropped(ranges[<<f, "pool">>], RID_POOL_SIZE) :
  /\ AskRefill(f, "pool", q)
  /\ q # <<>>
  /\ Grant(StoreOf[f], q[1][1], RID_POOL_SIZE, "pool")
  /\ ranges' = [ranges EXCEPT ![<<f, "pool">>] = Spend(q, RID_POOL_SIZE)]
  /\ UNCHANGED <<counter, phase, nextRid, crashes>>

\* ... or EXOP_ERR_DIR_ERROR, and the peer retries.
RefusePool(f) ==
  \E q \in Dropped(ranges[<<f, "pool">>], RID_POOL_SIZE) :
  /\ AskRefill(f, "pool", q)
  /\ q = <<>>
  /\ ranges' = [ranges EXCEPT ![<<f, "pool">>] = q]
  /\ UNCHANGED <<counter, phase, nextRid, issued, crashes>>

(* provision_ad_principal, provision_ad_group, register_user, register_group: *)
(* one RID straight from the store; a store error creates nothing.            *)
ProvisionDirect(s) ==
  /\ \E base \in {RID_POOL_FIRST, Seeded(s, RID_POOL_FIRST)} :
       /\ ReserveOk(s, RID_POOL_FIRST, 1, base)
       /\ Grant(s, base, 1, "direct")
  /\ UNCHANGED <<phase, ranges, refill, nextRid, crashes>>

(* A front-end stops or crashes: all it held in memory is gone.               *)
Crash(f) ==
  /\ phase[f] # "down"
  /\ crashes < MaxCrashes
  /\ crashes' = crashes + 1
  /\ phase' = [phase EXCEPT ![f] = "down"]
  /\ ranges' = [p \in Regions |-> IF p[1] = f THEN <<>> ELSE ranges[p]]
  /\ refill' = [refill EXCEPT ![f] = <<>>]
  /\ nextRid' = [nextRid EXCEPT ![f] = RID_POOL_FIRST]
  /\ UNCHANGED <<counter, issued>>

FrontStep(f) ==
  \/ BootSingle(f) \/ BootPool(f) \/ Refill(f)
  \/ CreateUser(f) \/ CreateUserFallback(f)
  \/ GrantPool(f) \/ RefusePool(f)
  \/ Crash(f)

Next ==
  \/ \E f \in Fronts : FrontStep(f)
  \/ \E s \in Stores : ProvisionDirect(s)

Spec == Init /\ [][Next]_vars

----------------------------------------------------------------------------
(* Properties.                                                                *)

Apart(g, h) == g.hi <= h.lo \/ h.hi <= g.lo

Disjoint(G) ==
  /\ \A g \in G : issued[g] = 1
  /\ \A g, h \in G : g # h /\ g.store = h.store => Apart(g, h)

Durable == {g \in DOMAIN issued : g.via # "fallback"}

\* Front-ends that share a store never hand out the same RID: whatever the
\* interleaving of reservations, refills, restarts and direct provisioning, no
\* two grants that came from reserve_rid_block overlap.  (SAMR's in-memory
\* fallback, which bypasses the counter, is judged by GrantsUnique.)
DurableGrantsDisjoint == Disjoint(Durable)

\* Every RID a store ever granted durably, and every RID a live front-end still
\* holds, lies below the durable counter: a restart or another front-end, which
\* start from the counter, can never meet it again.
HeldBelowCounter ==
  /\ \A g \in Durable : g.hi <= counter[g.store]
  /\ \A p \in Regions : \A i \in DOMAIN ranges[p] :
       ranges[p][i][2] <= counter[StoreOf[p[1]]]

\* What is held is owned once: the unspent ranges of all front-ends of a store,
\* and the RIDs already granted from it, are pairwise disjoint.
HeldDisjoint ==
  /\ \A p, q \in Regions : \A i \in DOMAIN ranges[p], j \in DOMAIN ranges[q] :
       StoreOf[p[1]] = StoreOf[q[1]] /\ (p # q \/ i # j) =>
         \/ ranges[p][i][2] <= ranges[q][j][1]
         \/ ranges[q][j][2] <= ranges[p][i][1]
  /\ \A p \in Regions : \A i \in DOMAIN ranges[p] : \A g \in Durable :
       g.store = StoreOf[p[1]] =>
         \/ g.hi <= ranges[p][i][1]
         \/ ranges[p][i][2] <= g.lo

\* The blocks in memory are sound: what a front-end still holds lies below the counter,
\* is nobody else's and was never granted.
HeldApart == TypeOK /\ HeldBelowCounter /\ HeldDisjoint

\* The refinement: forget the counter, the blocks and the channels, and keep how
\* often each grant that came from reserve_rid_block was given.
Issuer == INSTANCE RidIssuer WITH given <- [g \in Durable |-> issued[g]]

\* Blocks reserved from the durable counter and spent from memory implement an issuer
\* of fresh RIDs: no step of a front-end, a refill, a restart or a direct provisioning
\* gives durable RIDs away a second time or takes a grant back.
IssuesFresh == Issuer!Spec

\* What samr.rs says of the RIDs a domain controller hands out: no two grants
\* on one store overlap, whichever path served them.
GrantsUnique == Disjoint(DOMAIN issued)
=============================================================================
