--------------------------- MODULE RidPoolProofs ---------------------------
(* Proofs about RidPool, for any number of stores and front-ends, any block   *)
(* sizes, any bases and any bound.                                            *)
EXTENDS RidPool, TLAPS

\* The inductive invariant: the grants stay disjoint only because what front-ends
\* still hold is disjoint too, and because the counter lies above both.
IInv ==
  /\ TypeOK
  /\ HeldBelowCounter
  /\ HeldDisjoint
  /\ DurableGrantsDisjoint

USE RidPoolAssumption

----------------------------------------------------------------------------
(* Lemmas about the helpers.                                                  *)

\* What the pop loop of allocate leaves: a suffix of the deque, whose head, if
\* there is one, holds size RIDs.
LEMMA DroppedSuffix ==
  ASSUME NEW q \in Seq(Nat \X Nat), NEW size \in Nat, NEW d \in Dropped(q, size)
  PROVE  /\ d \in Seq(Nat \X Nat)
         /\ \E o \in 0..Len(q) : /\ Len(d) = Len(q) - o
                                 /\ \A i \in 1..Len(d) : d[i] = q[i + o]
         /\ d # <<>> => /\ 1 \in 1..Len(d)
                        /\ d[1][2] >= d[1][1] + size
<1>1. PICK o \in 0..Len(q) :
        /\ d = SubSeq(q, o + 1, Len(q))
        /\ o < Len(q) => Width(q[o + 1]) >= size
  BY DEF Dropped
<1>2. /\ d \in Seq(Nat \X Nat)
      /\ Len(d) = Len(q) - o
      /\ \A i \in 1..Len(d) : d[i] = q[i + o]
  BY <1>1, SMTT(60)
<1>3. ASSUME d # <<>>
      PROVE  1 \in 1..Len(d) /\ d[1][2] >= d[1][1] + size
  <2>1. o < Len(q) /\ 1 \in 1..Len(d)
    <3>1. Len(q) \in Nat /\ Len(d) \in Nat /\ Len(d) # 0
      BY <1>2, <1>3, SMTT(60)
    <3> QED BY <1>2, <3>1, SMTT(60)
  <2>2. d[1] = q[o + 1] /\ q[o + 1] \in Nat \X Nat
    BY <1>2, <2>1, SMTT(60)
  <2> QED BY <1>1, <2>1, <2>2, SMTT(60) DEF Width
<1> QED BY <1>2, <1>3

\* reserve_rid_block returns a natural and leaves a counter.
LEMMA ReserveOkType ==
  ASSUME NEW s \in Stores, NEW first \in Nat, NEW block \in Nat, NEW base,
         base \in {first, Seeded(s, first)},
         counter \in [Stores -> Nat \cup {-1}],
         ReserveOk(s, first, block, base)
  PROVE  base \in Nat /\ counter' \in [Stores -> Nat \cup {-1}]
<1>1. base \in Nat
  BY DEF Seeded
<1>2. CASE counter' = [counter EXCEPT ![s] = base + block]
  BY <1>1, <1>2
<1>3. CASE UNCHANGED counter
  BY <1>1, <1>3
<1> QED BY <1>2, <1>3, Zenon DEF ReserveOk

\* So does a reservation for a region, whose deque stays a deque of ranges.
LEMMA ReserveForType ==
  ASSUME TypeOK, NEW f \in Fronts, NEW k \in Kinds, ReserveFor(f, k)
  PROVE  /\ counter' \in [Stores -> Nat \cup {-1}]
         /\ ranges' \in [Regions -> Seq(Nat \X Nat)]
<1>1. BlockSize(k) \in Nat /\ StoreOf[f] \in Stores /\ Base[f] \in Nat
  BY DEF BlockSize
<1>2. /\ counter \in [Stores -> Nat \cup {-1}]
      /\ ranges \in [Regions -> Seq(Nat \X Nat)]
      /\ <<f, k>> \in Regions
  BY DEF TypeOK, Regions
<1>3. CASE ReserveErr(StoreOf[f], Base[f]) /\ UNCHANGED ranges
  BY <1>1, <1>2, <1>3 DEF ReserveErr, Seeded
<1>4. ASSUME NEW base \in {Base[f], Seeded(StoreOf[f], Base[f])},
             ReserveOk(StoreOf[f], Base[f], BlockSize(k), base),
             ranges' = [ranges EXCEPT ![<<f, k>>] =
                          Append(@, <<base, base + BlockSize(k)>>)]
      PROVE  /\ counter' \in [Stores -> Nat \cup {-1}]
             /\ ranges' \in [Regions -> Seq(Nat \X Nat)]
  <2>1. base \in Nat /\ counter' \in [Stores -> Nat \cup {-1}]
    BY <1>1, <1>2, <1>4, ReserveOkType
  <2>2. Append(ranges[<<f, k>>], <<base, base + BlockSize(k)>>) \in Seq(Nat \X Nat)
    BY <1>1, <1>2, <2>1
  <2> QED BY <1>2, <1>4, <2>1, <2>2
<1> QED BY <1>3, <1>4 DEF ReserveFor

\* A grant is logged as a grant.
LEMMA GrantType ==
  ASSUME TypeOK, NEW s \in Stores, NEW lo \in Nat, NEW size \in Nat,
         NEW via \in {"single", "pool", "direct", "fallback"},
         Grant(s, lo, size, via)
  PROVE  issued' \in [DOMAIN issued' -> Nat] /\ DOMAIN issued' \subseteq Grants
<1> DEFINE g == [store |-> s, lo |-> lo, hi |-> lo + size, via |-> via]
<1>1. g \in Grants
  BY DEF Grants
<1> HIDE DEF g
<1>2. issued' = BagAdd(issued, g)
  BY DEF Grant, g
<1>3. issued \in [DOMAIN issued -> Nat] /\ DOMAIN issued \subseteq Grants
  BY DEF TypeOK
<1> QED BY <1>1, <1>2, <1>3 DEF BagAdd

\* Spending from the front of a deque leaves a deque.
LEMMA SpendType ==
  ASSUME NEW q \in Seq(Nat \X Nat), NEW size \in Nat, q # <<>>
  PROVE  /\ Spend(q, size) \in Seq(Nat \X Nat) /\ q[1][1] \in Nat
         /\ Len(Spend(q, size)) = Len(q)
         /\ Spend(q, size)[1] = <<q[1][1] + size, q[1][2]>>
         /\ \A i \in 2..Len(q) : Spend(q, size)[i] = q[i]
<1>1. 1 \in 1..Len(q) /\ q[1] \in Nat \X Nat
  OBVIOUS
<1> QED BY <1>1 DEF Spend

\* A refill request is a kind.
LEMMA AskRefillType ==
  ASSUME TypeOK, NEW f \in Fronts, NEW k \in Kinds, NEW q, AskRefill(f, k, q)
  PROVE  refill' \in [Fronts -> Seq(Kinds)]
<1>1. RefillsAsked(q, k) \in Seq(Kinds)
  BY DEF RefillsAsked
<1> QED BY <1>1 DEF AskRefill, TypeOK

\* Type correctness is inductive.
LEMMA TypeStep == TypeOK /\ [Next]_vars => TypeOK'
<1> SUFFICES ASSUME TypeOK, [Next]_vars PROVE TypeOK'
  OBVIOUS
<1>1. "single" \in Kinds /\ "pool" \in Kinds /\ 1 \in Nat /\ RID_POOL_SIZE \in Nat
  BY DEF Kinds
<1>2. \A f \in Fronts, k \in Kinds :
        /\ <<f, k>> \in Regions /\ ranges[<<f, k>>] \in Seq(Nat \X Nat)
        /\ StoreOf[f] \in Stores
  BY DEF TypeOK, Regions
<1>3. CASE UNCHANGED vars
  BY <1>3 DEF vars, TypeOK
<1>4. ASSUME NEW f \in Fronts, BootSingle(f) PROVE TypeOK'
  BY <1>1, <1>4, ReserveForType DEF BootSingle, TypeOK
<1>5. ASSUME NEW f \in Fronts, BootPool(f) PROVE TypeOK'
  BY <1>1, <1>5, ReserveForType DEF BootPool, TypeOK
<1>6. ASSUME NEW f \in Fronts, Refill(f) PROVE TypeOK'
  <2>1. Head(refill[f]) \in Kinds /\ refill' \in [Fronts -> Seq(Kinds)]
    BY <1>6 DEF Refill, TypeOK
  <2> QED BY <1>6, <2>1, ReserveForType DEF Refill, TypeOK
<1>7. ASSUME NEW f \in Fronts, CreateUser(f) PROVE TypeOK'
  <2>1. PICK q \in Dropped(ranges[<<f, "single">>], 1) :
          /\ AskRefill(f, "single", q)
          /\ q # <<>>
          /\ Grant(StoreOf[f], q[1][1], 1, "single")
          /\ ranges' = [ranges EXCEPT ![<<f, "single">>] = Spend(q, 1)]
          /\ UNCHANGED <<counter, phase, nextRid, crashes>>
    BY <1>7 DEF CreateUser
  <2>2. q \in Seq(Nat \X Nat)
    BY <1>1, <1>2, DroppedSuffix
  <2>3. issued' \in [DOMAIN issued' -> Nat] /\ DOMAIN issued' \subseteq Grants
    BY <1>1, <1>2, <2>1, <2>2, GrantType, SpendType
  <2>4. refill' \in [Fronts -> Seq(Kinds)]
    BY <1>1, <2>1, AskRefillType
  <2>5. ranges' \in [Regions -> Seq(Nat \X Nat)]
    BY <1>1, <1>2, <2>1, <2>2, SpendType DEF TypeOK
  <2> QED BY <2>1, <2>3, <2>4, <2>5 DEF TypeOK
<1>8. ASSUME NEW f \in Fronts, CreateUserFallback(f) PROVE TypeOK'
  <2>1. PICK q \in Dropped(ranges[<<f, "single">>], 1) :
          /\ AskRefill(f, "single", q)
          /\ Grant(StoreOf[f], nextRid[f], 1, "fallback")
          /\ nextRid' = [nextRid EXCEPT ![f] = @ + 1]
          /\ ranges' = [ranges EXCEPT ![<<f, "single">>] = q]
          /\ UNCHANGED <<counter, phase, crashes>>
    BY <1>8 DEF CreateUserFallback
  <2>2. q \in Seq(Nat \X Nat)
    BY <1>1, <1>2, DroppedSuffix
  <2>3. nextRid[f] \in Nat /\ nextRid' \in [Fronts -> Nat]
    BY <2>1, SMTT(60) DEF TypeOK
  <2>4. issued' \in [DOMAIN issued' -> Nat] /\ DOMAIN issued' \subseteq Grants
    BY <1>1, <1>2, <2>1, <2>3, GrantType
  <2>5. refill' \in [Fronts -> Seq(Kinds)]
    BY <1>1, <2>1, AskRefillType
  <2>6. ranges' \in [Regions -> Seq(Nat \X Nat)]
    BY <1>1, <1>2, <2>1, <2>2 DEF TypeOK
  <2> QED BY <2>1, <2>3, <2>4, <2>5, <2>6 DEF TypeOK
<1>9. ASSUME NEW f \in Fronts, GrantPool(f) PROVE TypeOK'
  <2>1. PICK q \in Dropped(ranges[<<f, "pool">>], RID_POOL_SIZE) :
          /\ AskRefill(f, "pool", q)
          /\ q # <<>>
          /\ Grant(StoreOf[f], q[1][1], RID_POOL_SIZE, "pool")
          /\ ranges' = [ranges EXCEPT ![<<f, "pool">>] = Spend(q, RID_POOL_SIZE)]
          /\ UNCHANGED <<counter, phase, nextRid, crashes>>
    BY <1>9 DEF GrantPool
  <2>2. q \in Seq(Nat \X Nat)
    BY <1>1, <1>2, DroppedSuffix
  <2>3. issued' \in [DOMAIN issued' -> Nat] /\ DOMAIN issued' \subseteq Grants
    BY <1>1, <1>2, <2>1, <2>2, GrantType, SpendType
  <2>4. refill' \in [Fronts -> Seq(Kinds)]
    BY <1>1, <2>1, AskRefillType
  <2>5. ranges' \in [Regions -> Seq(Nat \X Nat)]
    BY <1>1, <1>2, <2>1, <2>2, SpendType DEF TypeOK
  <2> QED BY <2>1, <2>3, <2>4, <2>5 DEF TypeOK
<1>10. ASSUME NEW f \in Fronts, RefusePool(f) PROVE TypeOK'
  <2>1. PICK q \in Dropped(ranges[<<f, "pool">>], RID_POOL_SIZE) :
          /\ AskRefill(f, "pool", q)
          /\ ranges' = [ranges EXCEPT ![<<f, "pool">>] = q]
          /\ UNCHANGED <<counter, phase, nextRid, issued, crashes>>
    BY <1>10 DEF RefusePool
  <2>2. q \in Seq(Nat \X Nat)
    BY <1>1, <1>2, DroppedSuffix
  <2>3. refill' \in [Fronts -> Seq(Kinds)]
    BY <1>1, <2>1, AskRefillType
  <2>4. ranges' \in [Regions -> Seq(Nat \X Nat)]
    BY <1>1, <1>2, <2>1, <2>2 DEF TypeOK
  <2> QED BY <2>1, <2>3, <2>4 DEF TypeOK
<1>11. ASSUME NEW f \in Fronts, Crash(f) PROVE TypeOK'
  <2>1. ranges' \in [Regions -> Seq(Nat \X Nat)]
    BY <1>1, <1>2, <1>11 DEF Crash, TypeOK
  <2>2. /\ crashes' \in Nat /\ nextRid' \in [Fronts -> Nat]
        /\ refill' \in [Fronts -> Seq(Kinds)]
        /\ phase' \in [Fronts -> {"down", "boot", "up"}]
    BY <1>11, SMTT(60) DEF Crash, TypeOK
  <2> QED BY <1>11, <2>1, <2>2 DEF Crash, TypeOK
<1>12. ASSUME NEW s \in Stores, ProvisionDirect(s) PROVE TypeOK'
  <2>1. PICK base \in {RID_POOL_FIRST, Seeded(s, RID_POOL_FIRST)} :
          /\ ReserveOk(s, RID_POOL_FIRST, 1, base)
          /\ Grant(s, base, 1, "direct")
    BY <1>12 DEF ProvisionDirect
  <2>2. base \in Nat /\ counter' \in [Stores -> Nat \cup {-1}]
    <3>1. RID_POOL_FIRST \in Nat /\ counter \in [Stores -> Nat \cup {-1}]
      BY DEF TypeOK
    <3> QED BY <1>1, <2>1, <3>1, ReserveOkType
  <2>3. issued' \in [DOMAIN issued' -> Nat] /\ DOMAIN issued' \subseteq Grants
    BY <1>1, <2>1, <2>2, GrantType
  <2> QED BY <1>12, <2>2, <2>3 DEF ProvisionDirect, TypeOK
<1> QED BY <1>3, <1>4, <1>5, <1>6, <1>7, <1>8, <1>9, <1>10, <1>11, <1>12
        DEF Next, FrontStep

----------------------------------------------------------------------------
(* How the three kinds of steps treat what is held and what was granted.      *)

\* Typing facts the lemmas below need, in the form they need them.
LEMMA HeldTypes ==
  ASSUME TypeOK
  PROVE  /\ \A s \in Stores : counter[s] \in Int
         /\ \A p \in Regions : StoreOf[p[1]] \in Stores
         /\ \A p \in Regions : \A i \in DOMAIN ranges[p] :
              ranges[p][i][1] \in Nat /\ ranges[p][i][2] \in Nat
         /\ \A g \in DOMAIN issued :
              /\ g.store \in Stores /\ g.lo \in Nat /\ g.hi \in Nat
<1>1. \A s \in Stores : counter[s] \in Int
  BY DEF TypeOK
<1>2. \A p \in Regions : StoreOf[p[1]] \in Stores
  BY DEF Regions
<1>3. ASSUME NEW p \in Regions, NEW i \in DOMAIN ranges[p]
      PROVE  ranges[p][i][1] \in Nat /\ ranges[p][i][2] \in Nat
  <2>1. ranges[p] \in Seq(Nat \X Nat)
    BY DEF TypeOK
  <2>2. ranges[p][i] \in Nat \X Nat
    BY <1>3, <2>1
  <2> QED BY <2>2
<1>4. \A g \in DOMAIN issued : g.store \in Stores /\ g.lo \in Nat /\ g.hi \in Nat
  BY DEF TypeOK, Grants
<1> QED BY <1>1, <1>2, <1>3, <1>4

\* A block reserved at or above the counter and appended to region p
\* (spawn_rid_allocator, the refiller).
LEMMA ReserveKeeps ==
  ASSUME IInv, TypeOK', NEW p \in Regions, NEW base \in Nat, NEW size \in Nat,
         base >= counter[StoreOf[p[1]]],
         counter' = [counter EXCEPT ![StoreOf[p[1]]] = base + size],
         ranges' = [ranges EXCEPT ![p] = Append(@, <<base, base + size>>)],
         UNCHANGED issued
  PROVE  IInv'
<1>1. /\ \A s \in Stores : counter[s] <= counter'[s]
      /\ counter'[StoreOf[p[1]]] = base + size
      /\ \A s \in Stores : counter'[s] \in Int
  <2>1. counter \in [Stores -> Nat \cup {-1}] /\ StoreOf[p[1]] \in Stores
    BY HeldTypes DEF IInv, TypeOK
  <2> QED BY <2>1
<1>2. ASSUME NEW r \in Regions, NEW i \in DOMAIN ranges'[r]
      PROVE  \/ /\ r = p /\ i = Len(ranges[p]) + 1
                /\ ranges'[r][i] = <<base, base + size>>
             \/ /\ i \in DOMAIN ranges[r]
                /\ ranges'[r][i] = ranges[r][i]
  <2>1. ranges \in [Regions -> Seq(Nat \X Nat)]
    BY DEF IInv, TypeOK
  <2>2. CASE r # p
    BY <1>2, <2>1, <2>2
  <2>3. CASE r = p
    <3>1. ranges'[p] = Append(ranges[p], <<base, base + size>>) /\ ranges[p] \in Seq(Nat \X Nat)
      BY <2>1
    <3> QED BY <1>2, <2>3, <3>1
  <2> QED BY <2>2, <2>3
<1>3. \A r \in Regions : \A i \in DOMAIN ranges[r] :
        /\ ranges[r][i][1] \in Nat /\ ranges[r][i][2] \in Nat
        /\ ranges[r][i][2] <= counter[StoreOf[r[1]]]
  BY HeldTypes DEF IInv, HeldBelowCounter
<1>4. \A g \in Durable :
        /\ g.store \in Stores /\ g.lo \in Nat /\ g.hi \in Nat
        /\ g.hi <= counter[g.store]
  BY HeldTypes DEF IInv, HeldBelowCounter, Durable
<1>5. Durable' = Durable
  BY DEF Durable
<1>6. HeldBelowCounter'
  <2>1. ASSUME NEW g \in Durable PROVE g.hi <= counter'[g.store]
    BY <1>1, <1>4, HeldTypes DEF IInv
  <2>2. ASSUME NEW r \in Regions, NEW i \in DOMAIN ranges'[r]
        PROVE  ranges'[r][i][2] <= counter'[StoreOf[r[1]]]
    <3>1. CASE r = p /\ ranges'[r][i] = <<base, base + size>>
      BY <1>1, <3>1
    <3>2. CASE i \in DOMAIN ranges[r] /\ ranges'[r][i] = ranges[r][i]
      <4>1. counter'[StoreOf[r[1]]] \in Int
        BY <1>1, HeldTypes DEF IInv
      <4> QED BY <1>1, <1>3, <3>2, <4>1, HeldTypes DEF IInv
    <3> QED BY <1>2, <3>1, <3>2
  <2> QED BY <1>5, <2>1, <2>2 DEF HeldBelowCounter
<1>7. HeldDisjoint'
  <2>1. ASSUME NEW r \in Regions, NEW q \in Regions,
               NEW i \in DOMAIN ranges'[r], NEW j \in DOMAIN ranges'[q],
               StoreOf[r[1]] = StoreOf[q[1]], r # q \/ i # j
        PROVE  \/ ranges'[r][i][2] <= ranges'[q][j][1]
               \/ ranges'[q][j][2] <= ranges'[r][i][1]
    <3>1. CASE /\ i \in DOMAIN ranges[r] /\ ranges'[r][i] = ranges[r][i]
               /\ j \in DOMAIN ranges[q] /\ ranges'[q][j] = ranges[q][j]
      BY <2>1, <3>1 DEF HeldDisjoint, IInv
    <3>2. CASE /\ r = p /\ ranges'[r][i] = <<base, base + size>>
               /\ j \in DOMAIN ranges[q] /\ ranges'[q][j] = ranges[q][j]
      <4>1. ranges[q][j][2] <= counter[StoreOf[p[1]]] /\ ranges[q][j][2] \in Nat
        BY <1>3, <2>1, <3>2
      <4> QED BY <3>2, <4>1, HeldTypes, SMTT(60) DEF IInv
    <3>3. CASE /\ q = p /\ ranges'[q][j] = <<base, base + size>>
               /\ i \in DOMAIN ranges[r] /\ ranges'[r][i] = ranges[r][i]
      <4>1. ranges[r][i][2] <= counter[StoreOf[p[1]]] /\ ranges[r][i][2] \in Nat
        BY <1>3, <2>1, <3>3
      <4> QED BY <3>3, <4>1, HeldTypes DEF IInv
    <3> QED BY <1>2, <2>1, <3>1, <3>2, <3>3
  <2>2. ASSUME NEW r \in Regions, NEW i \in DOMAIN ranges'[r],
               NEW g \in Durable, g.store = StoreOf[r[1]]
        PROVE  g.hi <= ranges'[r][i][1] \/ ranges'[r][i][2] <= g.lo
    <3>1. CASE i \in DOMAIN ranges[r] /\ ranges'[r][i] = ranges[r][i]
      BY <2>2, <3>1 DEF HeldDisjoint, IInv
    <3>2. CASE r = p /\ ranges'[r][i] = <<base, base + size>>
      BY <1>4, <2>2, <3>2, HeldTypes DEF IInv
    <3> QED BY <1>2, <3>1, <3>2
  <2> QED BY <1>5, <2>1, <2>2 DEF HeldDisjoint
<1>8. DurableGrantsDisjoint'
  BY <1>5 DEF IInv, DurableGrantsDisjoint, Disjoint, Apart
<1> QED BY <1>6, <1>7, <1>8 DEF IInv

\* A step that only gives RIDs up: region p keeps a suffix of its deque, whose
\* ranges may have lost RIDs at their low end (allocate, allocate_pool, and a
\* front-end that stops).
LEMMA ShrinkKeeps ==
  ASSUME IInv, TypeOK', UNCHANGED counter,
         \A p \in Regions : \E o \in Nat : \A i \in DOMAIN ranges'[p] :
            /\ i + o \in DOMAIN ranges[p]
            /\ ranges'[p][i][2] = ranges[p][i + o][2]
            /\ ranges'[p][i][1] >= ranges[p][i + o][1]
  PROVE  /\ \A p \in Regions : \A i \in DOMAIN ranges'[p] :
              ranges'[p][i][2] <= counter'[StoreOf[p[1]]]
         /\ \A p, q \in Regions : \A i \in DOMAIN ranges'[p], j \in DOMAIN ranges'[q] :
              StoreOf[p[1]] = StoreOf[q[1]] /\ (p # q \/ i # j) =>
                \/ ranges'[p][i][2] <= ranges'[q][j][1]
                \/ ranges'[q][j][2] <= ranges'[p][i][1]
         /\ \A p \in Regions : \A i \in DOMAIN ranges'[p] : \A g \in Durable :
              g.store = StoreOf[p[1]] =>
                g.hi <= ranges'[p][i][1] \/ ranges'[p][i][2] <= g.lo
<1>1. \A p \in Regions : \A i \in DOMAIN ranges[p] :
        ranges[p][i][1] \in Nat /\ ranges[p][i][2] \in Nat
  BY HeldTypes DEF IInv
<1>2. \A p \in Regions : \A i \in DOMAIN ranges'[p] :
        i \in Int /\ ranges'[p][i][1] \in Nat /\ ranges'[p][i][2] \in Nat
  <2>1. ASSUME NEW p \in Regions, NEW i \in DOMAIN ranges'[p]
        PROVE  i \in Int /\ ranges'[p][i][1] \in Nat /\ ranges'[p][i][2] \in Nat
    <3>1. ranges'[p] \in Seq(Nat \X Nat)
      BY DEF TypeOK
    <3>2. i \in Int /\ ranges'[p][i] \in Nat \X Nat
      BY <2>1, <3>1
    <3> QED BY <3>2
  <2> QED BY <2>1
<1>3. ASSUME NEW p \in Regions, NEW i \in DOMAIN ranges'[p]
      PROVE  ranges'[p][i][2] <= counter'[StoreOf[p[1]]]
  BY <1>3 DEF IInv, HeldBelowCounter
<1>4. ASSUME NEW p \in Regions, NEW q \in Regions,
             NEW i \in DOMAIN ranges'[p], NEW j \in DOMAIN ranges'[q],
             StoreOf[p[1]] = StoreOf[q[1]], p # q \/ i # j
      PROVE  \/ ranges'[p][i][2] <= ranges'[q][j][1]
             \/ ranges'[q][j][2] <= ranges'[p][i][1]
  <2>1. PICK o \in Nat : \A m \in DOMAIN ranges'[p] :
            /\ m + o \in DOMAIN ranges[p]
            /\ ranges'[p][m][2] = ranges[p][m + o][2]
            /\ ranges'[p][m][1] >= ranges[p][m + o][1]
    OBVIOUS
  <2>2. PICK o2 \in Nat : /\ \A m \in DOMAIN ranges'[q] :
                               /\ m + o2 \in DOMAIN ranges[q]
                               /\ ranges'[q][m][2] = ranges[q][m + o2][2]
                               /\ ranges'[q][m][1] >= ranges[q][m + o2][1]
                          /\ p = q => o2 = o
    BY <2>1
  <2>3. i + o \in DOMAIN ranges[p] /\ j + o2 \in DOMAIN ranges[q]
    BY <2>1, <2>2
  <2>4. p # q \/ i + o # j + o2
    BY <1>2, <1>4, <2>2
  <2>5. \/ ranges[p][i + o][2] <= ranges[q][j + o2][1]
        \/ ranges[q][j + o2][2] <= ranges[p][i + o][1]
    BY <1>4, <2>3, <2>4 DEF IInv, HeldDisjoint
  <2>6. /\ ranges'[p][i][2] = ranges[p][i + o][2]
        /\ ranges'[p][i][1] >= ranges[p][i + o][1]
        /\ ranges'[q][j][2] = ranges[q][j + o2][2]
        /\ ranges'[q][j][1] >= ranges[q][j + o2][1]
    BY <2>1, <2>2
  <2>7. /\ ranges'[p][i][1] \in Nat /\ ranges'[p][i][2] \in Nat
        /\ ranges'[q][j][1] \in Nat /\ ranges'[q][j][2] \in Nat
        /\ ranges[p][i + o][1] \in Nat /\ ranges[q][j + o2][1] \in Nat
    BY <1>1, <1>2, <2>3
  <2> QED BY <2>5, <2>6, <2>7
<1>5. ASSUME NEW p \in Regions, NEW i \in DOMAIN ranges'[p],
             NEW g \in Durable, g.store = StoreOf[p[1]]
      PROVE  g.hi <= ranges'[p][i][1] \/ ranges'[p][i][2] <= g.lo
  <2>1. PICK o \in Nat : /\ i + o \in DOMAIN ranges[p]
                         /\ ranges'[p][i][2] = ranges[p][i + o][2]
                         /\ ranges'[p][i][1] >= ranges[p][i + o][1]
    BY <1>5
  <2>2. g.hi <= ranges[p][i + o][1] \/ ranges[p][i + o][2] <= g.lo
    BY <1>5, <2>1 DEF IInv, HeldDisjoint
  <2>3. g.hi \in Nat /\ g.lo \in Nat /\ ranges[p][i + o][1] \in Nat /\ ranges'[p][i][1] \in Nat
    BY <1>1, <1>2, <2>1, HeldTypes DEF IInv, Durable
  <2> QED BY <2>1, <2>2, <2>3
<1> QED BY <1>3, <1>4, <1>5

\* A new durable grant g that meets no earlier one of its store.
LEMMA GrantKeeps ==
  ASSUME IInv, NEW g \in Grants, g.via # "fallback", g.lo < g.hi,
         issued' = BagAdd(issued, g),
         \A h \in Durable : h.store = g.store => Apart(g, h)
  PROVE  Durable' = Durable \cup {g} /\ DurableGrantsDisjoint'
<1>1. g \notin DOMAIN issued
  <2>1. ASSUME g \in DOMAIN issued PROVE FALSE
    <3>1. g \in Durable
      BY <2>1 DEF Durable
    <3>2. Apart(g, g) /\ g.lo \in Nat /\ g.hi \in Nat
      BY <3>1 DEF Grants
    <3> QED BY <3>2 DEF Apart
  <2> QED BY <2>1
<1>2. issued' = [e \in DOMAIN issued \cup {g} |-> IF e = g THEN 1 ELSE issued[e]]
  BY <1>1 DEF BagAdd
<1>3. Durable' = Durable \cup {g}
  BY <1>2 DEF Durable
<1>4. \A h \in Durable' : issued'[h] = 1
  BY <1>1, <1>2, <1>3 DEF Durable, IInv, DurableGrantsDisjoint, Disjoint
<1>5. ASSUME NEW h \in Durable', NEW e \in Durable', h # e, h.store = e.store
      PROVE  Apart(h, e)
  <2>1. CASE h = g
    BY <1>3, <1>5, <2>1
  <2>2. CASE e = g
    BY <1>3, <1>5, <2>2 DEF Apart
  <2>3. CASE h # g /\ e # g
    BY <1>3, <1>5, <2>3 DEF IInv, DurableGrantsDisjoint, Disjoint
  <2> QED BY <2>1, <2>2, <2>3
<1>6. DurableGrantsDisjoint'
  BY <1>4, <1>5 DEF DurableGrantsDisjoint, Disjoint, Apart
<1> QED BY <1>3, <1>6

\* allocate and allocate_pool when they succeed: the front range of what the pop
\* loop left of region p loses size RIDs to a grant.
LEMMA SpendKeeps ==
  ASSUME IInv, TypeOK', NEW f \in Fronts, NEW k \in Kinds, NEW size \in Nat \ {0},
         NEW q \in Dropped(ranges[<<f, k>>], size), q # <<>>,
         NEW via \in {"single", "pool"},
         Grant(StoreOf[f], q[1][1], size, via),
         ranges' = [ranges EXCEPT ![<<f, k>>] = Spend(q, size)],
         UNCHANGED counter
  PROVE  IInv'
<1> DEFINE p == <<f, k>>
<1> DEFINE g == [store |-> StoreOf[f], lo |-> q[1][1], hi |-> q[1][1] + size, via |-> via]
<1>1. /\ p \in Regions /\ p[1] = f /\ StoreOf[f] \in Stores
      /\ ranges \in [Regions -> Seq(Nat \X Nat)]
  BY DEF Regions, IInv, TypeOK
<1> HIDE DEF p
<1>2. ranges[p] \in Seq(Nat \X Nat) /\ size \in Nat /\ q \in Dropped(ranges[p], size)
  BY <1>1 DEF p
<1>3. /\ q \in Seq(Nat \X Nat) /\ 1 \in 1..Len(q)
      /\ q[1][2] >= q[1][1] + size
      /\ \E o \in 0..Len(ranges[p]) : /\ Len(q) = Len(ranges[p]) - o
                                      /\ \A i \in 1..Len(q) : q[i] = ranges[p][i + o]
  BY <1>2, DroppedSuffix, ZenonT(60)
<1>4. PICK o \in 0..Len(ranges[p]) : /\ Len(q) = Len(ranges[p]) - o
                                     /\ \A i \in 1..Len(q) : q[i] = ranges[p][i + o]
  BY <1>3
<1>5. /\ Spend(q, size) \in Seq(Nat \X Nat) /\ Len(Spend(q, size)) = Len(q)
      /\ Spend(q, size)[1] = <<q[1][1] + size, q[1][2]>>
      /\ \A i \in 2..Len(q) : Spend(q, size)[i] = q[i]
      /\ q[1][1] \in Nat /\ q[1][2] \in Nat
  <2>1. q[1] \in Nat \X Nat
    BY <1>3
  <2> QED BY <1>2, <1>3, <2>1, SpendType
<1>6. ranges'[p] = Spend(q, size) /\ \A r \in Regions \ {p} : ranges'[r] = ranges[r]
  BY <1>1, <1>5 DEF p
<1>17. /\ DOMAIN ranges'[p] = 1..Len(q) /\ DOMAIN ranges[p] = 1..Len(ranges[p])
       /\ o \in Nat /\ Len(q) \in Nat /\ Len(ranges[p]) \in Nat
       /\ Len(q) = Len(ranges[p]) - o
  <2>1. DOMAIN ranges'[p] = 1..Len(q)
    BY <1>5, <1>6
  <2>2. DOMAIN ranges[p] = 1..Len(ranges[p]) /\ Len(ranges[p]) \in Nat
    BY <1>2
  <2>3. o \in Nat /\ Len(q) \in Nat
    BY <1>3, <1>4, <2>2
  <2> QED BY <1>4, <2>1, <2>2, <2>3
<1>18. \A i \in 1..Len(q) : i + o \in DOMAIN ranges[p] /\ q[i] = ranges[p][i + o]
  <2>1. \A i \in 1..Len(q) : i + o \in 1..Len(ranges[p])
    BY <1>17
  <2> QED BY <1>4, <1>17, <2>1
<1>7. \A i \in DOMAIN ranges'[p] :
        /\ i + o \in DOMAIN ranges[p]
        /\ ranges'[p][i][2] = ranges[p][i + o][2]
        /\ ranges'[p][i][1] >= ranges[p][i + o][1]
  <2>1. ASSUME NEW i \in DOMAIN ranges'[p]
        PROVE  /\ i + o \in DOMAIN ranges[p]
               /\ ranges'[p][i][2] = ranges[p][i + o][2]
               /\ ranges'[p][i][1] >= ranges[p][i + o][1]
    <3>1. i \in 1..Len(q) /\ q[i] = ranges[p][i + o] /\ q[i] \in Nat \X Nat
      <4>1. i \in 1..Len(q)
        BY <1>17, <2>1
      <4>2. q \in Seq(Nat \X Nat)
        BY <1>3
      <4>3. q[i] \in Nat \X Nat
        BY <4>1, <4>2
      <4>4. q[i] = ranges[p][i + o]
        BY <1>18, <4>1, Zenon
      <4> QED BY <4>1, <4>3, <4>4
    <3>2. i + o \in DOMAIN ranges[p]
      BY <1>18, <3>1
    <3>3. CASE i = 1
      BY <1>2, <1>5, <1>6, <3>1, <3>2, <3>3, SMTT(60)
    <3>4. CASE i # 1
      <4>1. i \in 2..Len(q)
        BY <1>17, <3>1, <3>4
      <4>2. ranges'[p][i] = q[i] /\ q[i][1] \in Nat
        BY <1>5, <1>6, <3>1, <4>1
      <4> QED BY <3>1, <3>2, <4>2
    <3> QED BY <3>3, <3>4
  <2> QED BY <2>1
<1>8. \A r \in Regions : \E n \in Nat : \A i \in DOMAIN ranges'[r] :
        /\ i + n \in DOMAIN ranges[r]
        /\ ranges'[r][i][2] = ranges[r][i + n][2]
        /\ ranges'[r][i][1] >= ranges[r][i + n][1]
  <2>1. ASSUME NEW r \in Regions, r # p, NEW i \in DOMAIN ranges[r]
        PROVE  /\ i + 0 = i /\ ranges[r][i][1] \in Nat
    <3>1. ranges[r] \in Seq(Nat \X Nat)
      BY <1>1
    <3>2. i \in Int
      BY <2>1, <3>1
    <3> QED BY <3>2, HeldTypes DEF IInv
  <2>2. ASSUME NEW r \in Regions, r # p
        PROVE  \A i \in DOMAIN ranges'[r] :
                 /\ i + 0 \in DOMAIN ranges[r]
                 /\ ranges'[r][i][2] = ranges[r][i + 0][2]
                 /\ ranges'[r][i][1] >= ranges[r][i + 0][1]
    BY <1>6, <2>1, <2>2
  <2>3. 0 \in Nat /\ o \in Nat
    BY <1>17
  <2> SUFFICES ASSUME NEW r \in Regions
               PROVE  \E n \in Nat : \A i \in DOMAIN ranges'[r] :
                        /\ i + n \in DOMAIN ranges[r]
                        /\ ranges'[r][i][2] = ranges[r][i + n][2]
                        /\ ranges'[r][i][1] >= ranges[r][i + n][1]
    OBVIOUS
  <2>4. CASE r = p
    <3>1. \A i \in DOMAIN ranges'[r] :
            /\ i + o \in DOMAIN ranges[r]
            /\ ranges'[r][i][2] = ranges[r][i + o][2]
            /\ ranges'[r][i][1] >= ranges[r][i + o][1]
      BY <1>7, <2>4
    <3> QED BY <2>3, <3>1
  <2>5. CASE r # p
    BY <2>2, <2>3, <2>5, Zenon
  <2> QED BY <2>4, <2>5
<1>9. /\ \A r \in Regions : \A i \in DOMAIN ranges'[r] :
           ranges'[r][i][2] <= counter'[StoreOf[r[1]]]
      /\ \A r, s \in Regions : \A i \in DOMAIN ranges'[r], j \in DOMAIN ranges'[s] :
           StoreOf[r[1]] = StoreOf[s[1]] /\ (r # s \/ i # j) =>
             \/ ranges'[r][i][2] <= ranges'[s][j][1]
             \/ ranges'[s][j][2] <= ranges'[r][i][1]
      /\ \A r \in Regions : \A i \in DOMAIN ranges'[r] : \A h \in Durable :
           h.store = StoreOf[r[1]] =>
             h.hi <= ranges'[r][i][1] \/ ranges'[r][i][2] <= h.lo
  BY <1>8, ShrinkKeeps
<1>10. /\ g \in Grants /\ g.via # "fallback" /\ g.lo < g.hi
       /\ g.lo = q[1][1] /\ g.hi = q[1][1] + size /\ g.store = StoreOf[p[1]]
       /\ issued' = BagAdd(issued, g)
  BY <1>1, <1>5 DEF Grants, Grant
<1> HIDE DEF g
<1>11. /\ 1 + o \in DOMAIN ranges[p] /\ ranges[p][1 + o] = q[1]
       /\ ranges[p][1 + o][1] <= g.lo /\ g.hi <= ranges[p][1 + o][2]
  <2>1. 1 + o \in DOMAIN ranges[p] /\ ranges[p][1 + o] = q[1]
    BY <1>3, <1>18
  <2>2. /\ q[1][2] >= q[1][1] + size /\ q[1][1] \in Nat /\ q[1][2] \in Nat
        /\ g.lo = q[1][1] /\ g.hi = q[1][1] + size
    BY <1>3, <1>5, <1>10, Zenon
  <2>3. q[1][1] <= g.lo /\ g.hi <= q[1][2]
    BY <2>2
  <2> QED BY <2>1, <2>3, Zenon
<1>19. /\ ranges[p][1 + o][1] <= g.lo /\ g.hi <= ranges[p][1 + o][2]
       /\ ranges[p][1 + o][1] \in Nat /\ ranges[p][1 + o][2] \in Nat
       /\ g.lo \in Nat /\ g.hi \in Nat
  <2>1. g.lo \in Nat /\ g.hi \in Nat
    BY <1>10 DEF Grants
  <2>2. ranges[p][1 + o][1] \in Nat /\ ranges[p][1 + o][2] \in Nat
    BY <1>1, <1>11, HeldTypes DEF IInv
  <2> QED BY <1>11, <2>1, <2>2
<1>12. ASSUME NEW h \in Durable, h.store = g.store
       PROVE  Apart(g, h)
  <2>1. h.hi <= ranges[p][1 + o][1] \/ ranges[p][1 + o][2] <= h.lo
    BY <1>1, <1>10, <1>11, <1>12 DEF IInv, HeldDisjoint
  <2>2. h.lo \in Nat /\ h.hi \in Nat /\ g.lo \in Nat /\ g.hi \in Nat
    BY <1>19, HeldTypes DEF IInv, Durable
  <2> QED BY <1>19, <2>1, <2>2, SMTT(60) DEF Apart
<1>13. Durable' = Durable \cup {g} /\ DurableGrantsDisjoint'
  BY <1>10, <1>12, GrantKeeps
<1>14. HeldBelowCounter'
  <2>1. g.hi <= counter[g.store]
    <3>1. ranges[p][1 + o][2] <= counter[StoreOf[p[1]]]
      BY <1>1, <1>11 DEF IInv, HeldBelowCounter
    <3>2. counter[StoreOf[p[1]]] \in Int
      BY <1>1, HeldTypes DEF IInv
    <3> QED BY <1>10, <1>19, <3>1, <3>2, SMTT(60)
  <2> QED BY <1>9, <1>13, <2>1 DEF IInv, HeldBelowCounter
<1>15. ASSUME NEW r \in Regions, NEW i \in DOMAIN ranges'[r], g.store = StoreOf[r[1]]
       PROVE  g.hi <= ranges'[r][i][1] \/ ranges'[r][i][2] <= g.lo
  <2>1. CASE r = p /\ i = 1
    BY <1>5, <1>6, <1>10, <2>1
  <2>2. CASE r = p /\ i # 1
    <3>1. i \in 2..Len(q) /\ ranges'[p][i] = ranges[p][i + o]
      <4>1. i \in 1..Len(q) /\ i \in 2..Len(q)
        BY <1>15, <1>17, <2>2
      <4> QED BY <1>5, <1>6, <1>18, <4>1
    <3>2. i + o \in DOMAIN ranges[p] /\ i + o # 1 + o
      <4>1. i \in 1..Len(q) /\ i # 1
        BY <1>17, <3>1
      <4>2. i + o # 1 + o
        BY <1>17, <4>1
      <4> QED BY <1>18, <4>1, <4>2
    <3>3. \/ ranges[p][1 + o][2] <= ranges[p][i + o][1]
          \/ ranges[p][i + o][2] <= ranges[p][1 + o][1]
      BY <1>1, <1>11, <3>2 DEF IInv, HeldDisjoint
    <3>4. ranges[p][i + o][1] \in Nat /\ ranges[p][i + o][2] \in Nat
      BY <1>1, <3>2, HeldTypes DEF IInv
    <3>6. g.hi <= ranges[p][i + o][1] \/ ranges[p][i + o][2] <= g.lo
      <4>1. CASE ranges[p][1 + o][2] <= ranges[p][i + o][1]
        BY <1>19, <3>4, <4>1, SMTT(60)
      <4>2. CASE ranges[p][i + o][2] <= ranges[p][1 + o][1]
        BY <1>19, <3>4, <4>2, SMTT(60)
      <4> QED BY <3>3, <4>1, <4>2
    <3> QED BY <2>2, <3>1, <3>6
  <2>3. CASE r # p
    <3>1. ranges'[r] = ranges[r]
      BY <1>6, <2>3
    <3>2. \/ ranges[p][1 + o][2] <= ranges[r][i][1]
          \/ ranges[r][i][2] <= ranges[p][1 + o][1]
      BY <1>1, <1>10, <1>11, <1>15, <2>3, <3>1 DEF IInv, HeldDisjoint
    <3>3. ranges[r][i][1] \in Nat /\ ranges[r][i][2] \in Nat
      BY <1>15, <3>1, HeldTypes DEF IInv
    <3> QED BY <1>19, <3>1, <3>2, <3>3, SMTT(60)
  <2> QED BY <2>1, <2>2, <2>3
<1>16. HeldDisjoint'
  BY <1>9, <1>13, <1>15, SMTT(60) DEF HeldDisjoint
<1> QED BY <1>13, <1>14, <1>16 DEF IInv

----------------------------------------------------------------------------
(* The theorems.                                                              *)

\* A step that touches neither the counters, the regions nor durable grants.
LEMMA SameKeeps ==
  ASSUME IInv, TypeOK', UNCHANGED <<counter, ranges>>, Durable' = Durable,
         \A g \in Durable : issued'[g] = issued[g]
  PROVE  IInv'
BY DEF IInv, HeldBelowCounter, HeldDisjoint, DurableGrantsDisjoint, Disjoint, Apart

\* Without a failing CREATE, a block starts at or above the counter.
LEMMA ReserveOkFresh ==
  ASSUME ~CreateMayFail, TypeOK, NEW s \in Stores, NEW first \in Nat, NEW block \in Nat,
         NEW base, ReserveOk(s, first, block, base)
  PROVE  /\ base = Seeded(s, first) /\ base \in Nat /\ base >= counter[s]
         /\ counter' = [counter EXCEPT ![s] = base + block]
<1>1. base = Seeded(s, first) /\ counter' = [counter EXCEPT ![s] = base + block]
  BY Zenon DEF ReserveOk
<1> QED BY <1>1 DEF Seeded, TypeOK

\* A reservation for a region, successful or not, keeps the invariant.
LEMMA ReserveForKeeps ==
  ASSUME ~CreateMayFail, IInv, TypeOK', NEW f \in Fronts, NEW k \in Kinds,
         ReserveFor(f, k), UNCHANGED issued
  PROVE  IInv'
<1> DEFINE p == <<f, k>>
<1>1. /\ p \in Regions /\ p[1] = f /\ StoreOf[f] \in Stores /\ Base[f] \in Nat
      /\ BlockSize(k) \in Nat /\ TypeOK
  BY DEF Regions, BlockSize, IInv
<1>2. CASE ReserveErr(StoreOf[f], Base[f]) /\ UNCHANGED ranges
  <2>1. /\ \A s \in Stores : counter[s] <= counter'[s]
        /\ \A s \in Stores : counter[s] \in Int /\ counter'[s] \in Int
    <3>1. counter \in [Stores -> Nat \cup {-1}] /\ Seeded(StoreOf[f], Base[f]) \in Nat
      BY <1>1 DEF Seeded, TypeOK
    <3>2. counter[StoreOf[f]] <= Seeded(StoreOf[f], Base[f])
      BY <1>1, <3>1 DEF Seeded
    <3>3. CASE UNCHANGED counter
      BY <3>1, <3>3
    <3>4. CASE counter' = [counter EXCEPT ![StoreOf[f]] = Seeded(StoreOf[f], Base[f])]
      BY <1>1, <3>1, <3>2, <3>4
    <3> QED BY <1>2, <3>3, <3>4 DEF ReserveErr
  <2>2. Durable' = Durable
    BY DEF Durable
  <2>3. HeldBelowCounter'
    <3>1. ASSUME NEW g \in Durable PROVE g.hi <= counter'[g.store]
      <4>1. g.store \in Stores /\ g.hi \in Nat /\ g.hi <= counter[g.store]
        BY <1>1, HeldTypes DEF IInv, HeldBelowCounter, Durable
      <4> QED BY <2>1, <4>1
    <3>2. ASSUME NEW r \in Regions, NEW i \in DOMAIN ranges[r]
          PROVE  ranges[r][i][2] <= counter'[StoreOf[r[1]]]
      <4>1. /\ StoreOf[r[1]] \in Stores /\ ranges[r][i][2] \in Nat
            /\ ranges[r][i][2] <= counter[StoreOf[r[1]]]
        BY <1>1, HeldTypes DEF IInv, HeldBelowCounter
      <4> QED BY <2>1, <4>1
    <3> QED BY <1>2, <2>2, <3>1, <3>2 DEF HeldBelowCounter
  <2>4. HeldDisjoint' /\ DurableGrantsDisjoint'
    BY <1>2, <2>2 DEF IInv, HeldDisjoint, DurableGrantsDisjoint, Disjoint, Apart
  <2> QED BY <2>3, <2>4 DEF IInv
<1>3. ASSUME NEW base \in {Base[f], Seeded(StoreOf[f], Base[f])},
             ReserveOk(StoreOf[f], Base[f], BlockSize(k), base),
             ranges' = [ranges EXCEPT ![p] = Append(@, <<base, base + BlockSize(k)>>)]
      PROVE  IInv'
  <2>1. /\ base \in Nat /\ base >= counter[StoreOf[f]]
        /\ counter' = [counter EXCEPT ![StoreOf[f]] = base + BlockSize(k)]
    BY <1>1, <1>3, ReserveOkFresh
  <2> QED BY <1>1, <1>3, <2>1, ReserveKeeps
<1> QED BY <1>2, <1>3 DEF ReserveFor

\* Every step keeps the inductive invariant.
LEMMA InvStep ==
  ASSUME ~CreateMayFail
  PROVE  IInv /\ [Next]_vars => IInv'
<1> SUFFICES ASSUME IInv, [Next]_vars PROVE IInv'
  OBVIOUS
<1>1. TypeOK /\ TypeOK'
  BY TypeStep DEF IInv
<1>2. "single" \in Kinds /\ "pool" \in Kinds /\ 1 \in Nat \ {0} /\ RID_POOL_SIZE \in Nat \ {0}
  BY DEF Kinds
<1>3. CASE UNCHANGED vars
  <2>1. UNCHANGED <<counter, ranges, issued>> /\ Durable' = Durable
    BY <1>3 DEF vars, Durable
  <2> QED BY <1>1, <2>1, SameKeeps
<1>4. ASSUME NEW f \in Fronts, BootSingle(f) PROVE IInv'
  BY <1>1, <1>2, <1>4, ReserveForKeeps DEF BootSingle
<1>5. ASSUME NEW f \in Fronts, BootPool(f) PROVE IInv'
  BY <1>1, <1>2, <1>5, ReserveForKeeps DEF BootPool
<1>6. ASSUME NEW f \in Fronts, Refill(f) PROVE IInv'
  <2>1. Head(refill[f]) \in Kinds
    BY <1>1, <1>6 DEF Refill, TypeOK
  <2> QED BY <1>1, <1>6, <2>1, ReserveForKeeps DEF Refill
<1>7. ASSUME NEW f \in Fronts, CreateUser(f) PROVE IInv'
  <2>1. PICK q \in Dropped(ranges[<<f, "single">>], 1) :
          /\ q # <<>>
          /\ Grant(StoreOf[f], q[1][1], 1, "single")
          /\ ranges' = [ranges EXCEPT ![<<f, "single">>] = Spend(q, 1)]
          /\ UNCHANGED counter
    BY <1>7 DEF CreateUser
  <2> QED BY <1>1, <1>2, <2>1, SpendKeeps
<1>9. ASSUME NEW f \in Fronts, GrantPool(f) PROVE IInv'
  <2>1. PICK q \in Dropped(ranges[<<f, "pool">>], RID_POOL_SIZE) :
          /\ q # <<>>
          /\ Grant(StoreOf[f], q[1][1], RID_POOL_SIZE, "pool")
          /\ ranges' = [ranges EXCEPT ![<<f, "pool">>] = Spend(q, RID_POOL_SIZE)]
          /\ UNCHANGED counter
    BY <1>9 DEF GrantPool
  <2> QED BY <1>1, <1>2, <2>1, SpendKeeps
<1>20. ASSUME UNCHANGED counter, Durable' = Durable,
              \A g \in Durable : issued'[g] = issued[g],
              NEW f \in Fronts,
              \A p \in Regions : ranges'[p] = ranges[p] \/ ranges'[p] = <<>>
       PROVE  IInv'
  <2>1. ASSUME NEW p \in Regions
        PROVE  \A i \in DOMAIN ranges'[p] :
                 /\ i + 0 \in DOMAIN ranges[p]
                 /\ ranges'[p][i][2] = ranges[p][i + 0][2]
                 /\ ranges'[p][i][1] >= ranges[p][i + 0][1]
    <3>1. CASE ranges'[p] = <<>>
      BY <3>1
    <3>2. ASSUME ranges'[p] = ranges[p], NEW i \in DOMAIN ranges[p]
          PROVE  i + 0 = i /\ ranges[p][i][1] \in Nat
      <4>1. ranges[p] \in Seq(Nat \X Nat)
        BY <1>1 DEF TypeOK
      <4>2. i + 0 = i
        BY <3>2, <4>1
      <4> QED BY <1>1, <4>2, HeldTypes
    <3> QED BY <1>20, <3>1, <3>2
  <2>2. \A p \in Regions : \E o \in Nat : \A i \in DOMAIN ranges'[p] :
          /\ i + o \in DOMAIN ranges[p]
          /\ ranges'[p][i][2] = ranges[p][i + o][2]
          /\ ranges'[p][i][1] >= ranges[p][i + o][1]
    BY <2>1
  <2>3. HeldBelowCounter' /\ HeldDisjoint'
    BY <1>1, <1>20, <2>2, ShrinkKeeps DEF IInv, HeldBelowCounter, HeldDisjoint
  <2>4. DurableGrantsDisjoint'
    BY <1>20 DEF IInv, DurableGrantsDisjoint, Disjoint, Apart
  <2> QED BY <1>1, <2>3, <2>4 DEF IInv
<1>8. ASSUME NEW f \in Fronts, CreateUserFallback(f) PROVE IInv'
  <2> DEFINE g == [store |-> StoreOf[f], lo |-> nextRid[f], hi |-> nextRid[f] + 1,
                   via |-> "fallback"]
  <2>1. /\ issued' = BagAdd(issued, g) /\ UNCHANGED counter
        /\ ranges' = [ranges EXCEPT ![<<f, "single">>] = <<>>]
    BY <1>8 DEF CreateUserFallback, Grant
  <2>2. g.via = "fallback"
    OBVIOUS
  <2> HIDE DEF g
  <2>3. Durable' = Durable /\ \A h \in Durable : issued'[h] = issued[h]
    BY <2>1, <2>2 DEF Durable, BagAdd
  <2>4. \A p \in Regions : ranges'[p] = ranges[p] \/ ranges'[p] = <<>>
    BY <1>1, <2>1 DEF TypeOK
  <2> QED BY <1>20, <2>1, <2>3, <2>4
<1>10. ASSUME NEW f \in Fronts, RefusePool(f) PROVE IInv'
  <2>1. /\ UNCHANGED <<counter, issued>>
        /\ ranges' = [ranges EXCEPT ![<<f, "pool">>] = <<>>]
    BY <1>10 DEF RefusePool
  <2>2. Durable' = Durable /\ \A h \in Durable : issued'[h] = issued[h]
    BY <2>1 DEF Durable
  <2>3. \A p \in Regions : ranges'[p] = ranges[p] \/ ranges'[p] = <<>>
    BY <1>1, <2>1 DEF TypeOK
  <2> QED BY <1>20, <2>1, <2>2, <2>3
<1>11. ASSUME NEW f \in Fronts, Crash(f) PROVE IInv'
  <2>1. /\ UNCHANGED <<counter, issued>>
        /\ \A p \in Regions : ranges'[p] = ranges[p] \/ ranges'[p] = <<>>
    BY <1>11 DEF Crash
  <2>2. Durable' = Durable /\ \A h \in Durable : issued'[h] = issued[h]
    BY <2>1 DEF Durable
  <2> QED BY <1>20, <2>1, <2>2
<1>12. ASSUME NEW s \in Stores, ProvisionDirect(s) PROVE IInv'
  <2>1. PICK base \in {RID_POOL_FIRST, Seeded(s, RID_POOL_FIRST)} :
          /\ ReserveOk(s, RID_POOL_FIRST, 1, base)
          /\ Grant(s, base, 1, "direct")
          /\ UNCHANGED ranges
    BY <1>12 DEF ProvisionDirect
  <2>2. /\ base \in Nat /\ base >= counter[s] /\ counter[s] \in Int
        /\ counter' = [counter EXCEPT ![s] = base + 1]
    <3>1. RID_POOL_FIRST \in Nat /\ 1 \in Nat
      OBVIOUS
    <3> QED BY <1>1, <2>1, <3>1, ReserveOkFresh, HeldTypes
  <2> DEFINE g == [store |-> s, lo |-> base, hi |-> base + 1, via |-> "direct"]
  <2>3. /\ g \in Grants /\ g.via # "fallback" /\ g.lo < g.hi /\ g.store = s
        /\ g.lo = base /\ g.hi = base + 1 /\ issued' = BagAdd(issued, g)
    BY <2>1, <2>2 DEF Grants, Grant
  <2> HIDE DEF g
  <2>4. \A r \in Stores : counter[r] <= counter'[r] /\ counter'[r] \in Int /\ counter[r] \in Int
    BY <1>1, <2>2, SMTT(60) DEF TypeOK
  <2>5. counter'[s] = base + 1
    BY <1>1, <2>2 DEF TypeOK
  <2>6. \A h \in Durable : /\ h.store \in Stores /\ h.lo \in Nat /\ h.hi \in Nat
                           /\ h.hi <= counter[h.store]
    BY <1>1, HeldTypes DEF IInv, HeldBelowCounter, Durable
  <2>7. \A h \in Durable : h.store = g.store => Apart(g, h)
    BY <2>2, <2>3, <2>6 DEF Apart
  <2>8. Durable' = Durable \cup {g} /\ DurableGrantsDisjoint'
    BY <2>3, <2>7, GrantKeeps
  <2>9. \A r \in Regions : \A i \in DOMAIN ranges[r] :
          /\ StoreOf[r[1]] \in Stores
          /\ ranges[r][i][1] \in Nat /\ ranges[r][i][2] \in Nat
          /\ ranges[r][i][2] <= counter[StoreOf[r[1]]]
    BY <1>1, HeldTypes DEF IInv, HeldBelowCounter
  <2>10. HeldBelowCounter'
    <3>1. \A h \in Durable' : h.hi <= counter'[h.store]
      BY <2>3, <2>4, <2>5, <2>6, <2>8
    <3>2. \A r \in Regions : \A i \in DOMAIN ranges[r] :
            ranges[r][i][2] <= counter'[StoreOf[r[1]]]
      BY <2>4, <2>9
    <3> QED BY <2>1, <3>1, <3>2 DEF HeldBelowCounter
  <2>11. HeldDisjoint'
    <3>1. ASSUME NEW r \in Regions, NEW i \in DOMAIN ranges[r], g.store = StoreOf[r[1]]
          PROVE  ranges[r][i][2] <= g.lo
      BY <2>2, <2>3, <2>9, <3>1
    <3> QED BY <2>1, <2>8, <3>1 DEF IInv, HeldDisjoint
  <2> QED BY <1>1, <2>8, <2>10, <2>11 DEF IInv
<1> QED BY <1>3, <1>4, <1>5, <1>6, <1>7, <1>8, <1>9, <1>10, <1>11, <1>12
        DEF Next, FrontStep

\* The initial state satisfies the inductive invariant.
LEMMA InvInit == Init => IInv
<1> SUFFICES ASSUME Init PROVE IInv
  OBVIOUS
<1>1. DOMAIN issued = {} /\ Durable = {}
  BY DEF Init, EmptyBag, SetToBag, Durable
<1>2. \A p \in Regions : ranges[p] = <<>> /\ DOMAIN ranges[p] = {}
  BY DEF Init
<1>3. TypeOK
  BY <1>1 DEF Init, TypeOK, EmptyBag, SetToBag
<1> QED BY <1>1, <1>2, <1>3 DEF IInv, HeldBelowCounter, HeldDisjoint,
        DurableGrantsDisjoint, Disjoint

\* Type correctness of the RID allocator, failing CREATEs included.
THEOREM TypeCorrect == Spec => []TypeOK
<1>1. Init => TypeOK
  BY InvInit DEF IInv
<1> QED BY <1>1, TypeStep, PTL DEF Spec

\* Any number of front-ends and direct provisioners of one store, restarted at
\* any moment, never hand out a RID twice from the durable counter, and all they
\* hold or granted lies below it: what reserve_rid_block promises.
THEOREM RidsNeverReissued ==
  ASSUME ~CreateMayFail
  PROVE  Spec => [](DurableGrantsDisjoint /\ HeldBelowCounter /\ HeldDisjoint)
<1>1. IInv => DurableGrantsDisjoint /\ HeldBelowCounter /\ HeldDisjoint
  BY DEF IInv
<1> QED BY <1>1, InvInit, InvStep, PTL DEF Spec

\* What live front-ends hold in memory is nobody else's and was never granted.
THEOREM HeldStaysApart ==
  ASSUME ~CreateMayFail
  PROVE  Spec => []HeldApart
<1>1. IInv => HeldApart
  BY DEF IInv, HeldApart
<1> QED BY <1>1, InvInit, InvStep, PTL DEF Spec

----------------------------------------------------------------------------
(* The refinement: RidPool implements RidIssuer.                              *)

\* A step that logs no durable grant leaves the issuer as it is.
LEMMA SilentStutters ==
  ASSUME Durable' = Durable, \A h \in Durable : issued'[h] = issued[h]
  PROVE  UNCHANGED [g \in Durable |-> issued[g]]
OBVIOUS

\* A step that logs the durable grant g, and keeps the invariant, issues g: the
\* invariant after the step says that g was given once, so it is new, and that it
\* meets no other grant of its store.
LEMMA GrantIssues ==
  ASSUME IInv, IInv', NEW g, g.via # "fallback", issued' = BagAdd(issued, g)
  PROVE  Issuer!Issue
<1> DEFINE given == [h \in Durable |-> issued[h]]
<1>1. /\ \A h \in Durable : issued[h] = 1
      /\ \A h \in Durable' : issued'[h] = 1
      /\ \A h, e \in Durable' : h # e /\ h.store = e.store => h.hi <= e.lo \/ e.hi <= h.lo
  BY DEF IInv, DurableGrantsDisjoint, Disjoint, Apart
<1>2. g \notin DOMAIN issued
  <2>1. ASSUME g \in DOMAIN issued PROVE FALSE
    <3>1. issued' = [issued EXCEPT ![g] = @ + 1]
      BY <2>1 DEF BagAdd
    <3>2. g \in Durable /\ g \in Durable' /\ issued'[g] = issued[g] + 1
      BY <2>1, <3>1 DEF Durable
    <3> QED BY <1>1, <3>2
  <2> QED BY <2>1
<1>3. issued' = [e \in DOMAIN issued \cup {g} |-> IF e = g THEN 1 ELSE issued[e]]
  BY <1>2 DEF BagAdd
<1>4. Durable' = Durable \cup {g} /\ g \notin Durable
  BY <1>2, <1>3 DEF Durable
<1>5. DOMAIN given = Durable /\ DOMAIN given' = Durable'
  OBVIOUS
<1>6. given' = [h \in DOMAIN given \cup {g} |-> IF h = g THEN 1 ELSE given[h]]
  <2>1. \A h \in Durable : h \in DOMAIN issued
    BY DEF Durable
  <2>2. \A h \in Durable \cup {g} : issued'[h] = IF h = g THEN 1 ELSE issued[h]
    BY <1>3, <2>1
  <2> QED BY <1>4, <2>2
<1>7. g \in DOMAIN given' \ DOMAIN given
  BY <1>4, <1>5
<1>8. \A h \in DOMAIN given : h.store = g.store => h.hi <= g.lo \/ g.hi <= h.lo
  BY <1>1, <1>4, <1>5
<1> QED BY <1>6, <1>7, <1>8 DEF Issuer!Issue

\* Every step of the allocator gives fresh durable RIDs away or none.
LEMMA StepIssues ==
  ASSUME ~CreateMayFail
  PROVE  IInv /\ IInv' /\ [Next]_vars => [Issuer!Issue]_[g \in Durable |-> issued[g]]
<1> SUFFICES ASSUME IInv, IInv', [Next]_vars
             PROVE  Issuer!Issue \/ UNCHANGED [g \in Durable |-> issued[g]]
  OBVIOUS
<1>1. CASE UNCHANGED issued
  <2>1. Durable' = Durable /\ \A h \in Durable : issued'[h] = issued[h]
    BY <1>1 DEF Durable
  <2> QED BY <2>1, SilentStutters
<1>2. ASSUME NEW s, NEW lo, NEW size, NEW via \in {"single", "pool", "direct"},
             Grant(s, lo, size, via)
      PROVE  Issuer!Issue
  <2> DEFINE g == [store |-> s, lo |-> lo, hi |-> lo + size, via |-> via]
  <2>1. g.via # "fallback" /\ issued' = BagAdd(issued, g)
    BY <1>2 DEF Grant
  <2> QED BY <2>1, GrantIssues
<1>3. ASSUME NEW f \in Fronts, CreateUserFallback(f)
      PROVE  UNCHANGED [g \in Durable |-> issued[g]]
  <2> DEFINE g == [store |-> StoreOf[f], lo |-> nextRid[f], hi |-> nextRid[f] + 1,
                   via |-> "fallback"]
  <2>1. issued' = BagAdd(issued, g) /\ g.via = "fallback"
    BY <1>3 DEF CreateUserFallback, Grant
  <2> HIDE DEF g
  <2>2. Durable' = Durable /\ \A h \in Durable : issued'[h] = issued[h]
    BY <2>1 DEF Durable, BagAdd
  <2> QED BY <2>2, SilentStutters
<1>4. ASSUME NEW f \in Fronts, CreateUser(f) PROVE Issuer!Issue
  BY <1>2, <1>4 DEF CreateUser
<1>5. ASSUME NEW f \in Fronts, GrantPool(f) PROVE Issuer!Issue
  BY <1>2, <1>5 DEF GrantPool
<1>6. ASSUME NEW s \in Stores, ProvisionDirect(s) PROVE Issuer!Issue
  BY <1>2, <1>6 DEF ProvisionDirect
<1>7. ASSUME NEW f \in Fronts,
             BootSingle(f) \/ BootPool(f) \/ Refill(f) \/ RefusePool(f) \/ Crash(f)
      PROVE  UNCHANGED issued
  BY <1>7, Zenon DEF BootSingle, BootPool, Refill, RefusePool, Crash
<1>8. CASE UNCHANGED vars
  BY <1>1, <1>8 DEF vars
<1> QED BY <1>1, <1>3, <1>4, <1>5, <1>6, <1>7, <1>8 DEF Next, FrontStep

\* Blocks reserved from the counter and spent from memory implement an issuer of
\* fresh RIDs, for any number of stores, front-ends, provisioners and restarts.
THEOREM ImplementsIssuer ==
  ASSUME ~CreateMayFail
  PROVE  Spec => IssuesFresh
<1>1. Init => Issuer!Init
  <2> SUFFICES ASSUME Init PROVE Issuer!Init
    OBVIOUS
  <2>1. Durable = {}
    BY DEF Init, EmptyBag, SetToBag, Durable
  <2> QED BY <2>1 DEF Issuer!Init
<1> QED BY <1>1, InvInit, InvStep, StepIssues, PTL DEF Spec, IssuesFresh, Issuer!Spec
=============================================================================
