-------------------------- MODULE DhcpLeasesProofs --------------------------
(* Proofs about DhcpLeases, for any servers, clients, tasks and pool.          *)
(*                                                                             *)
(* Exclusive speaks of acknowledgements; what keeps them apart is the lease    *)
(* table of the one server in whose slice the address lies.  The inductive     *)
(* invariant ties them together: for an address that is not excused only its   *)
(* home server has tasks for it, one at a time, and one row; and a client that *)
(* still uses the address is the one that the row, or the task between its     *)
(* DELETE and its CREATE, stands for.                                          *)
EXTENDS DhcpLeases, TLAPS, WellFoundedInduction

\* The pool has an address for every server: a smaller one is not split, and each
\* server hands out all of it.
Configured ==
  /\ Nodes \in Nat \ {0} /\ PoolSize \in Nat /\ Nodes <= PoolSize
  /\ Reservable \subseteq Clients \X Addrs
  /\ None \notin Addrs
  /\ \A n \in Nat : None \notin [at : {"delete", "create"}, kind : {"discover", "request"},
                                 mac : Clients, ip : Addrs, stamp : 1 .. n]

Has(s, t, a) == task[s][t] # None /\ task[s][t].ip = a

\* Tasks for an address run on its home server, one at a time.
TasksHome(a) ==
  \A s \in Servers, t \in Tasks :
    Has(s, t, a) => a \in Slice(s) /\ \A u \in Tasks : Has(s, u, a) => u = t

\* A server has rows of its own addresses and, by the feed, of the primary's.
RowsHome(a) == \A s \in Servers : \A r \in rows[s] : r.ip = a => a \in Slice(s) \/ a \in Slice(0)
PagesHome(a) ==
  \A s \in Servers : pull[s] # None =>
    /\ \A r \in pull[s].todo : r.ip = a => a \in Slice(0)
    /\ pull[s].at # "check" /\ pull[s].row.ip = a => a \in Slice(0)

\* At home an address has one row, and none between DELETE and CREATE.
RowAlone(a) ==
  \A s \in Servers : a \in Slice(s) =>
    /\ \A q, r \in rows[s] : q.ip = a /\ r.ip = a => q = r
    /\ \A t \in Tasks : Has(s, t, a) /\ task[s][t].at = "create" => \A r \in rows[s] : r.ip # a

\* Client c uses address a: it was acknowledged and its time has not run out.
Uses(c, a) == claim[c] # None /\ claim[c].ip = a /\ claim[c].start > horizon

\* The home server knows who uses an address.
Backed(c, a, s) ==
  /\ \A t \in Tasks : Has(s, t, a) => task[s][t].mac = c /\ claim[c].start <= task[s][t].stamp
  /\ \/ \E t \in Tasks : Has(s, t, a) /\ task[s][t].at = "create"
     \/ \E r \in rows[s] : r.ip = a /\ r.mac = c /\ Holds(r) /\ claim[c].start <= r.start
ClaimsBacked(a) ==
  \A c \in Clients : Uses(c, a) => \E s \in Servers : a \in Slice(s) /\ Backed(c, a, s)

\* What holds of an address that is not excused.
Kept(a) == TasksHome(a) /\ RowsHome(a) /\ PagesHome(a) /\ RowAlone(a) /\ ClaimsBacked(a)

\* An address that is or was reserved is excused.
ReservedExcused == \A s \in Servers : \A p \in reserved[s] : p[2] \in excused

IInv == TypeOK /\ ReservedExcused /\ \A a \in Addrs \ excused : Kept(a)

----------------------------------------------------------------------------
(* Arithmetic.                                                                 *)

\* A nonempty set of numbers has a least element.
LEMMA LeastExists ==
  ASSUME NEW S, S \subseteq Nat, S # {}
  PROVE  \E x \in S : \A y \in S : x <= y
<1> DEFINE R == {p \in Nat \X Nat : p[1] < p[2]}
<1>1. IsWellFoundedOn(R, Nat)
  BY NatLessThanWellFounded DEF OpToRel
<1>2. \E x \in S : \A y \in S : ~ (<<y, x>> \in R)
  <2> HIDE DEF R
  <2> QED BY <1>1, WFMin
<1>3. PICK x \in S : \A y \in S : ~ (<<y, x>> \in R)
  BY <1>2
<1>4. \A y \in S : x <= y
  <2> SUFFICES ASSUME NEW y \in S PROVE x <= y
    OBVIOUS
  <2>1. x \in Nat /\ y \in Nat /\ ~ (<<y, x>> \in R)
    BY <1>3
  <2> QED BY <2>1
<1> QED BY <1>4

\* The newest of some leases is one of them.
LEMMA NewestIn ==
  ASSUME TypeOK, NEW S, S \subseteq Rows, S # {}
  PROVE  Newest(S) \in S
<1> DEFINE ages == {clock - r.start : r \in S}
<1>1. clock \in Nat /\ \A r \in S : r.start \in 1 .. clock
  BY DEF TypeOK, Rows
<1>2. ages \subseteq Nat /\ ages # {}
  BY <1>1
<1>3. PICK x \in ages : \A y \in ages : x <= y
  <2> HIDE DEF ages
  <2> QED BY <1>2, LeastExists
<1>4. PICK r \in S : x = clock - r.start
  BY <1>3
<1>5. \A q \in S : q.start <= r.start
  <2> SUFFICES ASSUME NEW q \in S PROVE q.start <= r.start
    OBVIOUS
  <2>1. x <= clock - q.start
    BY <1>3
  <2>2. q.start \in 1 .. clock /\ r.start \in 1 .. clock
    BY <1>1
  <2> DEFINE u == q.start
             v == r.start
  <2>3. u \in 1 .. clock /\ v \in 1 .. clock /\ clock - v <= clock - u
    BY <1>4, <2>1, <2>2
  <2> HIDE DEF u, v
  <2>4. u <= v
    BY <1>1, <2>3
  <2> QED BY <2>4 DEF u, v
<1> QED BY <1>5 DEF Newest

\* Blocks of one size do not overlap.
LEMMA Blocks ==
  ASSUME NEW size \in Nat, NEW s \in Nat, NEW t \in Nat, s < t
  PROVE  s * size + size <= t * size /\ s * size \in Nat /\ t * size \in Nat
<1>1. t - (s + 1) \in Nat
  OBVIOUS
<1> DEFINE d == t - (s + 1)
<1>2. d \in Nat /\ t = s + 1 + d
  BY <1>1
<1> HIDE DEF d
<1>3. \A x, y, z \in Nat : (x + 1 + y) * z = x * z + z + y * z /\ x * z \in Nat /\ y * z \in Nat
  OBVIOUS
<1> QED BY <1>2, <1>3

\* The slices of two servers do not overlap.
LEMMA SlicesApart ==
  ASSUME Configured, NEW s \in Servers, NEW t \in Servers, NEW a \in Slice(s), a \in Slice(t)
  PROVE  s = t
<1> DEFINE size == PoolSize \div Nodes
<1>1. size \in Nat /\ size # 0
  BY DEF Configured
<1>2. s \in Nat /\ t \in Nat /\ s <= Nodes - 1 /\ t <= Nodes - 1 /\ Nodes \in Nat
  BY DEF Configured, Servers
<1>3. CASE Nodes <= 1
  BY <1>2, <1>3
<1>4. CASE Nodes > 1
  <2>1. ASSUME NEW x \in Servers, NEW y \in Servers, a \in Slice(x), a \in Slice(y), x < y
        PROVE  FALSE
    <3>1. x \in Nat /\ y \in Nat /\ y <= Nodes - 1
      BY DEF Servers, Configured
    <3>2. x * size + size <= y * size /\ x * size \in Nat /\ y * size \in Nat
      <4> HIDE DEF size
      <4> QED BY <1>1, <2>1, <3>1, Blocks
    <3>3. a \in (1 + x * size) .. ((1 + x * size) + size - 1)
      <4>1. x # Nodes - 1
        BY <1>2, <2>1, <3>1
      <4> QED BY <1>1, <1>2, <1>4, <2>1, <4>1 DEF Slice
    <3>4. a \in (1 + y * size) .. PoolSize \/ a \in (1 + y * size) .. ((1 + y * size) + size - 1)
      BY <1>1, <1>2, <1>4, <2>1 DEF Slice
    <3>5. a <= x * size + size /\ a >= 1 + y * size /\ a \in Int
      <4> HIDE DEF size
      <4> DEFINE X == x * size
                 Y == y * size
      <4>1. X \in Nat /\ Y \in Nat
        BY <3>2
      <4>2. a \in (1 + X) .. ((1 + X) + size - 1)
        BY <3>3
      <4>3. a \in (1 + Y) .. PoolSize \/ a \in (1 + Y) .. ((1 + Y) + size - 1)
        BY <3>4
      <4> HIDE DEF X, Y
      <4>4. a <= X + size /\ a >= 1 + Y /\ a \in Int
        BY <1>1, <4>1, <4>2, <4>3 DEF Configured
      <4> QED BY <4>4 DEF X, Y
    <3> QED
      <4> DEFINE X == x * size
                 Y == y * size
      <4>1. X \in Nat /\ Y \in Nat /\ X + size <= Y /\ a <= X + size /\ a >= 1 + Y /\ a \in Int
        BY <3>2, <3>5
      <4> HIDE DEF X, Y, size
      <4> QED BY <1>1, <4>1
  <2>2. ~(s < t) /\ ~(t < s)
    BY <2>1
  <2> QED BY <1>2, <2>2
<1> QED BY <1>2, <1>3, <1>4

\* A slice lies in the pool.
LEMMA SliceIn ==
  ASSUME Configured, NEW s \in Servers
  PROVE  Slice(s) \subseteq Addrs
<1> DEFINE size == PoolSize \div Nodes
           X == s * size
           Z == (Nodes - 1) * size
<1>1. size \in Nat /\ size # 0 /\ Nodes * size <= PoolSize
  BY DEF Configured
<1>2. s \in Nat /\ s <= Nodes - 1 /\ Nodes \in Nat /\ PoolSize \in Nat
  BY DEF Configured, Servers
<1>3. Slice(s) = Addrs \/ Slice(s) = (1 + X) .. PoolSize
      \/ (s # Nodes - 1 /\ Slice(s) = (1 + X) .. ((1 + X) + size - 1))
  BY DEF Slice
<1>4. X \in Nat
  <2> HIDE DEF size
  <2> QED BY <1>1, <1>2
<1>5. s # Nodes - 1 => X + size <= Z /\ Z \in Nat
  <2> SUFFICES ASSUME s # Nodes - 1 PROVE X + size <= Z /\ Z \in Nat
    OBVIOUS
  <2>1. s < Nodes - 1 /\ Nodes - 1 \in Nat
    BY <1>2
  <2> HIDE DEF size
  <2> QED BY <1>1, <1>2, <2>1, Blocks
<1>6. Z <= PoolSize
  <2>1. Nodes - 1 \in Nat
    BY DEF Configured
  <2> HIDE DEF size
  <2>2. \A n, z \in Nat : (n + 1) * z = n * z + z /\ n * z \in Nat
    OBVIOUS
  <2>3. Nodes * size = Z + size /\ Z \in Nat
    <3> DEFINE m == Nodes - 1
    <3>1. m \in Nat /\ Nodes = m + 1
      BY <1>2, <2>1
    <3> HIDE DEF m
    <3>2. Nodes * size = m * size + size /\ m * size \in Nat
      BY <1>1, <2>2, <3>1
    <3> QED BY <3>2 DEF m
  <2> HIDE DEF Z
  <2>4. Z + size <= PoolSize
    BY <1>1, <2>3
  <2> QED BY <1>1, <1>2, <2>3, <2>4
<1> HIDE DEF size, X, Z
<1> QED BY <1>1, <1>2, <1>3, <1>4, <1>5, <1>6 DEF Addrs

----------------------------------------------------------------------------
(* Type correctness.                                                           *)

\* What was stamped stays behind the clock.
LEMMA Grows ==
  ASSUME TypeOK, clock' \in Nat, clock <= clock'
  PROVE  /\ Rows \subseteq Rows' /\ TaskState \subseteq TaskState'
         /\ [ip : Addrs, start : 1 .. clock] \subseteq [ip : Addrs, start : 1 .. clock']
         /\ \A p : IsPull(p) => IsPull(p)'
<1>1. 1 .. clock \subseteq 1 .. clock'
  BY DEF TypeOK
<1>2. Rows \subseteq Rows'
  BY <1>1 DEF Rows, Addrs, States
<1> QED BY <1>1, <1>2 DEF TaskState, IsPull, Addrs

\* What an allocation may give: a reservation, a lease of the client's own, or an
\* address that no other client holds.
LEMMA AllocateGives ==
  ASSUME Configured, TypeOK, ReservedExcused, NEW s \in Servers, NEW c \in Clients,
         NEW want \in Addrs \cup {None}, NEW ip,
         ip = Allocate(s, reserved[s], rows[s], c, want), ip # None
  PROVE  /\ ip \in Addrs
         /\ \/ ip \in excused
            \/ \E q \in rows[s] : q.ip = ip /\ q.mac = c
            \/ \A r \in rows[s] : Holds(r) /\ r.ip = ip => r.mac = c
<1> DEFINE res == reserved[s]
           leases == rows[s]
           mine == {p \in res : p[1] = c}
           taken == {p[2] : p \in res}
           other == {r.ip : r \in {q \in leases : Holds(q) /\ q.mac # c}}
           own == {r \in leases : Holds(r) /\ r.mac = c}
           free == Slice(s) \ (taken \cup other)
<1>1. rows[s] \subseteq Rows /\ res \subseteq Clients \X Addrs
  BY DEF TypeOK
<1>2. CASE mine # {}
  <2>1. ip = (CHOOSE p \in mine : TRUE)[2]
    BY <1>2 DEF Allocate
  <2>2. (CHOOSE p \in mine : TRUE) \in res
    BY <1>2
  <2> QED BY <1>1, <2>1, <2>2 DEF ReservedExcused
<1>3. CASE mine = {} /\ own # {} /\ Newest(own).ip \notin taken
  <2>1. ip = Newest(own).ip
    BY <1>3 DEF Allocate
  <2>2. own \subseteq Rows
    BY <1>1
  <2>3. Newest(own) \in own
    <3> HIDE DEF own
    <3> QED BY <1>3, <2>2, NewestIn
  <2> QED BY <1>1, <2>1, <2>3 DEF Rows
<1>4. CASE mine = {} /\ ~(own # {} /\ Newest(own).ip \notin taken)
           /\ want \in Addrs \ (taken \cup other)
  <2>1. ip = want
    BY <1>4 DEF Allocate
  <2> QED BY <1>4, <2>1
<1>5. CASE mine = {} /\ ~(own # {} /\ Newest(own).ip \notin taken)
           /\ want \notin Addrs \ (taken \cup other) /\ free # {}
  <2>1. ip = CHOOSE a \in free : \A b \in free : a <= b
    BY <1>5 DEF Allocate
  <2>2. free \subseteq Addrs /\ Addrs \subseteq Nat
    BY SliceIn DEF Addrs, Configured
  <2>3. \E a \in free : \A b \in free : a <= b
    <3> HIDE DEF free
    <3> QED BY <1>5, <2>2, LeastExists
  <2>4. ip \in free
    <3> HIDE DEF free
    <3> QED BY <2>1, <2>3
  <2>5. ip \in Addrs /\ ip \notin other
    BY <2>2, <2>4
  <2> QED BY <2>5
<1>6. CASE mine = {} /\ ~(own # {} /\ Newest(own).ip \notin taken)
           /\ want \notin Addrs \ (taken \cup other) /\ free = {}
  <2>1. ip = None
    BY <1>6 DEF Allocate
  <2> QED BY <2>1
<1> QED BY <1>2, <1>3, <1>4, <1>5, <1>6

\* Type correctness, variable by variable: what is left alone stays well typed when
\* the clock goes on.
LEMMA TypeFrame ==
  ASSUME TypeOK, clock' \in Nat, clock <= clock', horizon' \in 0 .. clock',
         rows' = rows \/ rows' \in [Servers -> SUBSET Rows'],
         reserved' = reserved \/ reserved' \in [Servers -> SUBSET (Clients \X Addrs)],
         task' = task \/ task' \in [Servers -> [Tasks -> {None} \cup TaskState']],
         pull' = pull \/ (/\ DOMAIN pull' = Servers
                         /\ \A x \in Servers : pull'[x] = None \/ IsPull(pull[x])'),
         claim' = claim \/ claim' \in [Clients -> {None} \cup [ip : Addrs, start : 1 .. clock']],
         excused' \subseteq Addrs
  PROVE  TypeOK'
<1>1. /\ Rows \subseteq Rows' /\ TaskState \subseteq TaskState'
      /\ [ip : Addrs, start : 1 .. clock] \subseteq [ip : Addrs, start : 1 .. clock']
      /\ \A p : IsPull(p) => IsPull(p)'
  BY Grows
<1>2. DOMAIN pull' = Servers /\ \A x \in Servers : pull'[x] = None \/ IsPull(pull[x])'
  BY <1>1 DEF TypeOK, IsPull
<1>3. rows' \in [Servers -> SUBSET Rows']
  BY <1>1 DEF TypeOK
<1>4. task' \in [Servers -> [Tasks -> {None} \cup TaskState']]
  BY <1>1 DEF TypeOK
<1>5. claim' \in [Clients -> {None} \cup [ip : Addrs, start : 1 .. clock']]
  BY <1>1 DEF TypeOK
<1>6. reserved' \in [Servers -> SUBSET (Clients \X Addrs)]
  BY DEF TypeOK
<1> QED BY <1>2, <1>3, <1>4, <1>5, <1>6 DEF TypeOK

\* The clock's own types, for the steps that leave it alone.
LEMMA Still ==
  ASSUME TypeOK, clock' = clock, horizon' = horizon
  PROVE  clock' \in Nat /\ clock <= clock' /\ horizon' \in 0 .. clock'
BY DEF TypeOK

LEMMA Ticks ==
  ASSUME TypeOK, clock' = clock + 1, horizon' = horizon
  PROVE  /\ clock \in Nat /\ clock' \in Nat /\ clock <= clock' /\ horizon' \in 0 .. clock'
         /\ clock' \in 1 .. clock' /\ \A n \in 1 .. clock : n \in 1 .. clock' /\ n < clock'
BY DEF TypeOK

LEMMA ReceiveTypes ==
  ASSUME Configured, IInv, NEW s \in Servers, NEW t \in Tasks, NEW c \in Clients,
         NEW kind \in {"discover", "request"}, NEW want \in Addrs \cup {None},
         Receive(s, t, c, kind, want)
  PROVE  TypeOK'
<1> DEFINE ip == Allocate(s, reserved[s], rows[s], c, want)
           v == [at |-> "delete", kind |-> kind, mac |-> c, ip |-> ip, stamp |-> clock + 1]
<1>1. ip \in Addrs
  BY AllocateGives DEF Receive, IInv
<1>2. clock' = clock + 1 /\ clock' \in Nat /\ clock <= clock' /\ horizon' \in 0 .. clock'
      /\ clock' \in 1 .. clock'
  BY Ticks DEF Receive, IInv
<1>3. task' = [task EXCEPT ![s][t] = v]
  BY DEF Receive
<1> HIDE DEF ip
<1>4. v \in TaskState'
  BY <1>1, <1>2 DEF TaskState
<1> HIDE DEF v
<1>5. task' \in [Servers -> [Tasks -> {None} \cup TaskState']]
  <2>1. TaskState \subseteq TaskState'
    BY <1>2, Grows DEF IInv
  <2> QED BY <1>3, <1>4, <2>1 DEF IInv, TypeOK
<1>6. excused' \subseteq Addrs
  BY <1>1 DEF Receive, IInv, TypeOK, ip
<1>7. TypeOK /\ rows' = rows /\ pull' = pull /\ claim' = claim /\ reserved' = reserved
  BY DEF Receive, IInv
<1> QED BY <1>2, <1>5, <1>6, <1>7, TypeFrame

LEMMA DeleteTypes ==
  ASSUME IInv, NEW s \in Servers, NEW t \in Tasks, Delete(s, t)
  PROVE  TypeOK'
<1>1. TypeOK /\ clock' = clock /\ horizon' = horizon /\ pull' = pull /\ claim' = claim
      /\ reserved' = reserved /\ excused' = excused
  BY DEF Delete, IInv
<1>2. Rows' = Rows /\ TaskState' = TaskState
  BY <1>1 DEF Rows, TaskState
<1>3. rows' \in [Servers -> SUBSET Rows']
  BY <1>2 DEF Delete, IInv, TypeOK
<1>4. task[s][t] \in TaskState
  BY DEF Delete, IInv, TypeOK
<1>5. [task[s][t] EXCEPT !.at = "create"] \in TaskState
  BY <1>4 DEF TaskState
<1>6. task' \in [Servers -> [Tasks -> {None} \cup TaskState']]
  BY <1>2, <1>5 DEF Delete, IInv, TypeOK
<1>7. excused' \subseteq Addrs
  BY <1>1 DEF TypeOK
<1> QED BY <1>1, <1>3, <1>6, <1>7, Still, TypeFrame

LEMMA CreateTypes ==
  ASSUME IInv, NEW s \in Servers, NEW t \in Tasks, Create(s, t)
  PROVE  TypeOK'
<1> DEFINE k == task[s][t]
           new == [ip |-> k.ip, mac |-> k.mac, start |-> k.stamp, upd |-> k.stamp,
                   state |-> IF k.kind = "discover" THEN "offered" ELSE "active"]
<1>1. TypeOK /\ clock' = clock /\ horizon' = horizon /\ pull' = pull
      /\ reserved' = reserved /\ excused' = excused
  BY DEF Create, IInv
<1>2. Rows' = Rows /\ TaskState' = TaskState
  BY <1>1 DEF Rows, TaskState
<1>3. k \in TaskState
  BY DEF Create, IInv, TypeOK
<1>4. new \in Rows
  BY <1>3 DEF TaskState, Rows, States
<1>5. rows' \in [Servers -> SUBSET Rows']
  BY <1>2, <1>4 DEF Create, IInv, TypeOK
<1>6. task' \in [Servers -> [Tasks -> {None} \cup TaskState']]
  BY <1>2 DEF Create, Done, IInv, TypeOK
<1>7. claim' = claim \/ claim' \in [Clients -> {None} \cup [ip : Addrs, start : 1 .. clock']]
  <2>1. [ip |-> k.ip, start |-> k.stamp] \in [ip : Addrs, start : 1 .. clock]
    BY <1>3 DEF TaskState
  <2>2. claim' = claim \/ claim' = [claim EXCEPT ![k.mac] = [ip |-> k.ip, start |-> k.stamp]]
    BY DEF Create
  <2> HIDE DEF k
  <2> QED BY <1>1, <2>1, <2>2 DEF TypeOK
<1>8. excused' \subseteq Addrs
  BY <1>1 DEF TypeOK
<1> QED BY <1>1, <1>5, <1>6, <1>7, <1>8, Still, TypeFrame

LEMMA ReleaseTypes ==
  ASSUME IInv, NEW s \in Servers, NEW c \in Clients, NEW a \in Addrs, Release(s, c, a)
  PROVE  TypeOK'
<1> DEFINE held == {r \in rows[s] : Holds(r) /\ r.ip = a}
           r == Newest(held)
           new == [r EXCEPT !.state = "released", !.upd = clock + 1]
<1>1. TypeOK /\ clock' = clock + 1 /\ horizon' = horizon /\ pull' = pull /\ task' = task
      /\ reserved' = reserved
  BY DEF Release, IInv
<1>2. clock' \in Nat /\ clock <= clock' /\ horizon' \in 0 .. clock' /\ clock' \in 1 .. clock'
  BY <1>1, Ticks
<1>3. r \in held
  <2>1. held \subseteq Rows /\ held # {}
    BY DEF Release, IInv, TypeOK
  <2> HIDE DEF held
  <2> QED BY <1>1, <2>1, NewestIn
<1>4. Rows \subseteq Rows'
  BY <1>1, <1>2, Grows
<1>5. new \in Rows'
  <2>1. r \in Rows'
    BY <1>3, <1>4 DEF IInv, TypeOK
  <2> HIDE DEF r
  <2> QED BY <1>1, <1>2, <2>1 DEF Rows, States
<1>6. rows' = [rows EXCEPT ![s] = (@ \ {r}) \cup {new}]
  BY DEF Release
<1> HIDE DEF new, r, held
<1>7. rows' \in [Servers -> SUBSET Rows']
  BY <1>1, <1>4, <1>5, <1>6 DEF TypeOK
<1>8. claim' = claim \/ claim' \in [Clients -> {None} \cup [ip : Addrs, start : 1 .. clock']]
  <2>1. claim \in [Clients -> {None} \cup [ip : Addrs, start : 1 .. clock']]
    BY <1>1, <1>2, Grows DEF TypeOK
  <2>2. claim' = claim \/ claim' = [claim EXCEPT ![c] = IF @ # None /\ @.ip = a THEN None ELSE @]
    BY DEF Release
  <2> QED BY <2>1, <2>2
<1>9. excused' \subseteq Addrs
  BY DEF Release, IInv, TypeOK
<1> QED BY <1>1, <1>2, <1>7, <1>8, <1>9, TypeFrame

LEMMA SweepTypes ==
  ASSUME IInv, NEW s \in Servers, Sweep(s)
  PROVE  TypeOK'
<1>1. TypeOK /\ clock' = clock + 1 /\ horizon' = horizon /\ pull' = pull /\ task' = task
      /\ reserved' = reserved /\ claim' = claim /\ excused' = excused
  BY DEF Sweep, IInv
<1>2. clock' \in Nat /\ clock <= clock' /\ horizon' \in 0 .. clock' /\ clock' \in 1 .. clock'
  BY <1>1, Ticks
<1>3. Rows \subseteq Rows'
  BY <1>1, <1>2, Grows
<1>4. \A r \in Stale(s) : [r EXCEPT !.state = "expired", !.upd = clock + 1] \in Rows'
  <2> SUFFICES ASSUME NEW r \in Stale(s)
               PROVE  [r EXCEPT !.state = "expired", !.upd = clock + 1] \in Rows'
    OBVIOUS
  <2>1. r \in Rows'
    BY <1>1, <1>3 DEF Stale, TypeOK
  <2> QED BY <1>1, <1>2, <2>1 DEF Rows, States
<1>5. rows' \in [Servers -> SUBSET Rows']
  <2>1. rows[s] \subseteq Rows' /\ rows \in [Servers -> SUBSET Rows']
    BY <1>1, <1>3 DEF TypeOK
  <2>2. (rows[s] \ Stale(s)) \cup {[r EXCEPT !.state = "expired", !.upd = clock + 1] : r \in Stale(s)}
          \in SUBSET Rows'
    BY <1>4, <2>1
  <2> QED BY <2>1, <2>2 DEF Sweep
<1>6. excused' \subseteq Addrs
  BY <1>1 DEF TypeOK
<1> QED BY <1>1, <1>2, <1>5, <1>6, TypeFrame

LEMMA AdminTypes ==
  ASSUME Configured, IInv, NEW s \in Servers, NEW p \in Reservable,
         CreateReservation(s, p) \/ DeleteReservation(s, p)
  PROVE  TypeOK'
<1>1. TypeOK /\ clock' = clock /\ horizon' = horizon /\ pull' = pull /\ task' = task
      /\ rows' = rows /\ claim' = claim
  BY DEF CreateReservation, DeleteReservation, IInv
<1>2. p \in Clients \X Addrs
  BY DEF Configured
<1>3. reserved' \in [Servers -> SUBSET (Clients \X Addrs)]
  <2>1. reserved \in [Servers -> SUBSET (Clients \X Addrs)]
    BY <1>1 DEF TypeOK
  <2>2. /\ reserved[s] \cup {p} \in SUBSET (Clients \X Addrs)
        /\ reserved[s] \ {p} \in SUBSET (Clients \X Addrs)
    BY <1>2, <2>1
  <2>3. CASE CreateReservation(s, p)
    <3>1. reserved' = [reserved EXCEPT ![s] = reserved[s] \cup {p}]
      BY <2>3 DEF CreateReservation
    <3> QED BY <2>1, <2>2, <3>1
  <2>4. CASE DeleteReservation(s, p)
    <3>1. reserved' = [reserved EXCEPT ![s] = reserved[s] \ {p}]
      BY <2>4 DEF DeleteReservation
    <3> QED BY <2>1, <2>2, <3>1
  <2> QED BY <2>3, <2>4
<1>4. excused' \subseteq Addrs
  <2>1. excused \subseteq Addrs /\ p[2] \in Addrs
    BY <1>1, <1>2 DEF TypeOK
  <2> QED BY <2>1 DEF CreateReservation, DeleteReservation
<1> QED BY <1>1, <1>3, <1>4, Still, TypeFrame

LEMMA CrashTypes ==
  ASSUME IInv, NEW s \in Servers, Crash(s)
  PROVE  TypeOK'
<1>1. TypeOK /\ clock' = clock /\ horizon' = horizon /\ reserved' = reserved
      /\ rows' = rows /\ claim' = claim
  BY DEF Crash, IInv
<1>2. Rows' = Rows /\ TaskState' = TaskState /\ \A p : IsPull(p) => IsPull(p)'
  BY <1>1 DEF Rows, TaskState, IsPull
<1>3. task' \in [Servers -> [Tasks -> {None} \cup TaskState']]
  BY <1>2 DEF Crash, IInv, TypeOK
<1>4. DOMAIN pull' = Servers /\ \A x \in Servers : pull'[x] = None \/ pull'[x] = pull[x]
  BY DEF Crash, IInv, TypeOK
<1>5. DOMAIN pull' = Servers /\ \A x \in Servers : pull'[x] = None \/ IsPull(pull[x])'
  BY <1>1, <1>2, <1>4 DEF TypeOK, IsPull
<1>6. excused' \subseteq Addrs
  BY DEF Crash, IInv, TypeOK, TaskState
<1> QED BY <1>1, <1>3, <1>5, <1>6, Still, TypeFrame

\* The steps of the feed.
PullStep(s) ==
  \/ Fetch(s) \/ ApplyDelete(s) \/ ApplyCreate(s) \/ SetCursor(s)
  \/ \E r \in rows[0] \cup (IF pull[s] = None THEN {} ELSE pull[s].todo) : ApplyCheck(s, r)

LEMMA PullTypes ==
  ASSUME Configured, IInv, NEW s \in Servers, PullStep(s)
  PROVE  TypeOK'
<1>1. TypeOK /\ clock' = clock /\ horizon' = horizon /\ reserved' = reserved /\ task' = task
      /\ claim' = claim /\ excused' = excused
  BY DEF IInv, PullStep, Fetch, ApplyDelete, ApplyCreate, SetCursor, ApplyCheck
<1>2. Rows' = Rows /\ \A p : IsPull(p) => IsPull(p)'
  BY <1>1 DEF Rows, IsPull
<1>3. 0 \in Servers /\ rows[0] \subseteq Rows /\ rows[s] \subseteq Rows
  <2>1. 0 \in Servers
    BY DEF Configured, Servers
  <2> QED BY <1>1, <2>1 DEF TypeOK
<1>4. pull[s] # None => IsPull(pull[s])
  BY <1>1 DEF TypeOK
<1>5. excused' \subseteq Addrs
  BY <1>1 DEF TypeOK
<1>6. ASSUME rows' = rows \/ rows' \in [Servers -> SUBSET Rows], NEW v,
             v = None \/ IsPull(v), pull' = [pull EXCEPT ![s] = v]
      PROVE  TypeOK'
  <2>1. DOMAIN pull' = Servers /\ \A x \in Servers : pull'[x] = v \/ pull'[x] = pull[x]
    BY <1>1, <1>6 DEF TypeOK
  <2>2. \A x \in Servers : pull'[x] = None \/ IsPull(pull'[x])
    BY <1>1, <1>6, <2>1 DEF TypeOK
  <2>3. \A x \in Servers : pull'[x] = None \/ IsPull(pull[x])'
    BY <1>2, <2>2 DEF IsPull
  <2> QED BY <1>1, <1>2, <1>5, <1>6, <2>1, <2>3, Still, TypeFrame
<1>7. CASE Fetch(s)
  <2> DEFINE k == CHOOSE k \in {Key(r) : r \in Page(cursor[s])} :
                    \A r \in Page(cursor[s]) : ~Before(k, Key(r))
             v == [todo |-> Page(cursor[s]), row |-> None, at |-> "check", next |-> k]
  <2>1. pull' = [pull EXCEPT ![s] = v] /\ rows' = rows
    BY <1>7 DEF Fetch
  <2>2. Page(cursor[s]) \subseteq Rows
    BY <1>3 DEF Page
  <2> HIDE DEF k
  <2>3. IsPull(v)
    BY <2>2 DEF IsPull
  <2> QED BY <1>6, <2>1, <2>3
<1>8. CASE ApplyDelete(s)
  <2>1. IsPull(pull[s]) /\ pull[s].at = "delete"
    BY <1>4, <1>8 DEF ApplyDelete
  <2> DEFINE v == [pull[s] EXCEPT !.at = "create"]
  <2>2. pull' = [pull EXCEPT ![s] = v]
    BY <1>8 DEF ApplyDelete
  <2>3. v = [todo |-> pull[s].todo, row |-> pull[s].row, at |-> "create", next |-> pull[s].next]
    BY <2>1 DEF IsPull
  <2>4. IsPull(v)
    BY <2>1, <2>3 DEF IsPull
  <2>5. rows' \in [Servers -> SUBSET Rows]
    BY <1>1, <1>8 DEF ApplyDelete, TypeOK
  <2> QED BY <1>6, <2>2, <2>4, <2>5
<1>9. CASE ApplyCreate(s)
  <2>1. IsPull(pull[s]) /\ pull[s].at = "create"
    BY <1>4, <1>9 DEF ApplyCreate
  <2> DEFINE v == [todo |-> pull[s].todo, row |-> None, at |-> "check", next |-> pull[s].next]
  <2>2. pull' = [pull EXCEPT ![s] = v]
    BY <1>9 DEF ApplyCreate
  <2>4. IsPull(v) /\ pull[s].row \in Rows
    BY <2>1 DEF IsPull
  <2>5. rows' \in [Servers -> SUBSET Rows]
    BY <1>1, <1>9, <2>4 DEF ApplyCreate, TypeOK
  <2> QED BY <1>6, <2>2, <2>4, <2>5
<1>10. CASE SetCursor(s)
  BY <1>6, <1>10 DEF SetCursor
<1>11. ASSUME NEW r, ApplyCheck(s, r)
       PROVE  TypeOK'
  <2>1. IsPull(pull[s]) /\ r \in pull[s].todo /\ rows' = rows /\ pull[s].at = "check"
    BY <1>4, <1>11 DEF ApplyCheck
  <2> DEFINE rest == [pull[s] EXCEPT !.todo = pull[s].todo \ {r}]
             go == [todo |-> pull[s].todo \ {r}, row |-> r, at |-> "delete", next |-> pull[s].next]
  <2>2. rest = [todo |-> pull[s].todo \ {r}, row |-> pull[s].row, at |-> "check", next |-> pull[s].next]
    BY <2>1 DEF IsPull
  <2>4. IsPull(rest) /\ IsPull(go)
    BY <2>1, <2>2 DEF IsPull
  <2>5. pull' = [pull EXCEPT ![s] = rest] \/ pull' = [pull EXCEPT ![s] = go]
    BY <1>11 DEF ApplyCheck
  <2> HIDE DEF rest, go
  <2> QED BY <1>6, <2>1, <2>4, <2>5
<1> QED BY <1>7, <1>8, <1>9, <1>10, <1>11 DEF PullStep

----------------------------------------------------------------------------
(* Steps.                                                                      *)

\* A step that does not touch the rows, tasks and users of an address.
LEMMA Unseen ==
  ASSUME NEW a, Kept(a), pull' = pull,
         \A x \in Servers, t \in Tasks : /\ Has(x, t, a)' <=> Has(x, t, a)
                                         /\ Has(x, t, a) => task'[x][t] = task[x][t],
         \A x \in Servers : \A r : r.ip = a => (r \in rows'[x] <=> r \in rows[x]),
         \A c \in Clients : Uses(c, a)' => Uses(c, a) /\ claim'[c] = claim[c]
  PROVE  Kept(a)'
<1>1. TasksHome(a)'
  BY DEF Kept, TasksHome, Slice, Servers, Addrs
<1>2. RowsHome(a)' /\ PagesHome(a)'
  BY DEF Kept, RowsHome, PagesHome, Slice, Servers, Addrs
<1>3. RowAlone(a)'
  BY DEF Kept, RowAlone, Slice, Servers, Addrs
<1>4. ClaimsBacked(a)'
  <2> SUFFICES ASSUME NEW c \in Clients, Uses(c, a)'
               PROVE  \E s \in Servers : a \in Slice(s) /\ Backed(c, a, s)'
    BY DEF ClaimsBacked, Slice, Servers, Addrs
  <2>1. Uses(c, a) /\ claim'[c] = claim[c]
    OBVIOUS
  <2>2. PICK s \in Servers : a \in Slice(s) /\ Backed(c, a, s)
    BY <2>1 DEF Kept, ClaimsBacked
  <2>3. Backed(c, a, s)'
    BY <2>1, <2>2 DEF Backed, Holds
  <2> QED BY <2>2, <2>3
<1> QED BY <1>1, <1>2, <1>3, <1>4 DEF Kept

\* Time and the administrator touch no lease.
LEMMA QuietKeeps ==
  ASSUME IInv, Elapse \/ \E s \in Servers, p \in Reservable : CreateReservation(s, p) \/ DeleteReservation(s, p)
  PROVE  \A a \in Addrs \ excused' : Kept(a)'
<1> SUFFICES ASSUME NEW a \in Addrs \ excused' PROVE Kept(a)'
  OBVIOUS
<1>1. /\ rows' = rows /\ task' = task /\ pull' = pull /\ claim' = claim
      /\ excused \subseteq excused'
  BY DEF Elapse, CreateReservation, DeleteReservation
<1>2. horizon' = horizon \/ horizon' = horizon + 1
  BY DEF Elapse, CreateReservation, DeleteReservation
<1>3. Kept(a)
  BY <1>1 DEF IInv
<1>4. ASSUME NEW c \in Clients, Uses(c, a)' PROVE Uses(c, a) /\ claim'[c] = claim[c]
  <2>1. claim[c] # None /\ claim[c].ip = a /\ claim[c].start > horizon'
    BY <1>1, <1>4 DEF Uses
  <2>2. claim[c].start \in Nat /\ horizon \in Nat
    BY <2>1 DEF IInv, TypeOK
  <2>3. claim[c].start > horizon
    BY <1>2, <2>1, <2>2
  <2> QED BY <1>1, <2>1, <2>3 DEF Uses
<1> QED BY <1>1, <1>3, <1>4, Unseen DEF Has

LEMMA ReceiveKeeps ==
  ASSUME Configured, IInv, NEW s \in Servers, NEW t \in Tasks, NEW c \in Clients,
         NEW kind \in {"discover", "request"}, NEW want \in Addrs \cup {None},
         Receive(s, t, c, kind, want)
  PROVE  \A a \in Addrs \ excused' : Kept(a)'
<1> SUFFICES ASSUME NEW a \in Addrs \ excused' PROVE Kept(a)'
  OBVIOUS
<1>1. PICK ip : ip = Allocate(s, reserved[s], rows[s], c, want)
  OBVIOUS
<1>2. PICK v : v = [at |-> "delete", kind |-> kind, mac |-> c, ip |-> ip, stamp |-> clock + 1]
  OBVIOUS
<1>3. /\ task[s][t] = None /\ ip # None /\ task' = [task EXCEPT ![s][t] = v]
      /\ rows' = rows /\ pull' = pull /\ claim' = claim /\ horizon' = horizon
      /\ excused' = IF ip \notin Slice(s) \/ Rivals(s, ip) # {} THEN excused \cup {ip} ELSE excused
  BY <1>1, <1>2 DEF Receive
<1>4. TypeOK /\ Kept(a)
  BY <1>3 DEF IInv
<1>5. /\ task'[s][t] = v
      /\ \A x \in Servers, u \in Tasks : x # s \/ u # t => task'[x][u] = task[x][u]
  <2>1. task' = [task EXCEPT ![s][t] = v]
    BY <1>3
  <2> QED BY <1>4, <2>1 DEF TypeOK
<1>6. /\ \A x \in Servers, u \in Tasks : x # s \/ u # t => (Has(x, u, a)' <=> Has(x, u, a))
      /\ ~Has(s, t, a)
  BY <1>3, <1>5 DEF Has
<1>7. v # None /\ v.ip = ip /\ v.mac = c /\ v.stamp = clock + 1 /\ v.at = "delete"
  <2>1. v = [at |-> "delete", kind |-> kind, mac |-> c, ip |-> ip, stamp |-> clock + 1]
    BY <1>2
  <2>2. ip \in Addrs
    BY <1>1, <1>3, AllocateGives DEF IInv
  <2>3. clock + 1 \in Nat /\ clock + 1 \in 1 .. clock + 1
    BY <1>4 DEF TypeOK
  <2>4. v \in [at : {"delete", "create"}, kind : {"discover", "request"}, mac : Clients,
               ip : Addrs, stamp : 1 .. clock + 1]
    BY <2>1, <2>2, <2>3
  <2>5. v # None
    BY <2>3, <2>4 DEF Configured
  <2> QED BY <2>1, <2>5
<1>8. CASE a # ip
  <2>1. ~Has(s, t, a)'
    BY <1>5, <1>7, <1>8 DEF Has
  <2>2. \A x \in Servers, u \in Tasks : /\ Has(x, u, a)' <=> Has(x, u, a)
                                        /\ Has(x, u, a) => task'[x][u] = task[x][u]
    BY <1>5, <1>6, <2>1
  <2> QED BY <1>3, <1>4, <2>2, Unseen DEF Uses
<1>9. CASE a = ip
  <2>1. a \in Slice(s) /\ Rivals(s, a) = {}
    BY <1>3, <1>9
  <2>2. \A u \in Tasks : ~Has(s, u, a)
    BY <2>1 DEF Rivals, Has
  <2>3. \A x \in Servers, u \in Tasks : ~Has(x, u, a)
    BY <1>4, <2>1, <2>2, SlicesApart DEF Kept, TasksHome
  <2>4. \A x \in Servers, u \in Tasks : Has(x, u, a)' => x = s /\ u = t
    BY <1>6, <2>3
  <2>5. TasksHome(a)'
    BY <2>1, <2>4 DEF TasksHome, Slice, Servers, Addrs
  <2>6. RowsHome(a)' /\ PagesHome(a)'
    BY <1>3, <1>4 DEF Kept, RowsHome, PagesHome, Slice, Servers, Addrs
  <2>7. RowAlone(a)'
    <3>1. \A x \in Servers, u \in Tasks : ~(Has(x, u, a)' /\ task'[x][u].at = "create")
      BY <1>5, <1>7, <2>4
    <3> QED BY <1>3, <1>4, <3>1 DEF Kept, RowAlone, Slice, Servers, Addrs
  <2>8. ClaimsBacked(a)'
    <3> SUFFICES ASSUME NEW d \in Clients, Uses(d, a)'
                 PROVE  a \in Slice(s) /\ Backed(d, a, s)'
      BY DEF ClaimsBacked, Slice, Servers, Addrs
    <3>1. Uses(d, a)
      BY <1>3 DEF Uses
    <3>2. Backed(d, a, s)
      BY <1>4, <2>1, <3>1, SlicesApart DEF Kept, ClaimsBacked
    <3>3. PICK r \in rows[s] : r.ip = a /\ r.mac = d /\ Holds(r) /\ claim[d].start <= r.start
      BY <2>2, <3>2 DEF Backed
    <3>4. d = c
      <4>1. \/ ip \in excused
            \/ \E q \in rows[s] : q.ip = ip /\ q.mac = c
            \/ \A q \in rows[s] : Holds(q) /\ q.ip = ip => q.mac = c
        BY <1>1, <1>3, AllocateGives DEF IInv
      <4>2. a \notin excused
        BY <1>3
      <4>3. \A q \in rows[s] : q.ip = a => q = r
        BY <1>4, <2>1, <3>3 DEF Kept, RowAlone
      <4> QED BY <1>9, <3>3, <4>1, <4>2, <4>3
    <3>5. claim[d].start <= clock + 1
      <4>1. claim[d].start \in 1 .. clock /\ clock \in Nat
        BY <1>4, <3>1 DEF TypeOK, Uses
      <4> QED BY <4>1
    <3> QED BY <1>3, <1>5, <1>7, <2>1, <2>4, <3>3, <3>4, <3>5 DEF Backed, Holds
  <2> QED BY <2>5, <2>6, <2>7, <2>8 DEF Kept
<1> QED BY <1>8, <1>9

LEMMA DeleteKeeps ==
  ASSUME Configured, IInv, NEW s \in Servers, NEW t \in Tasks, Delete(s, t)
  PROVE  \A a \in Addrs \ excused' : Kept(a)'
<1> SUFFICES ASSUME NEW a \in Addrs \ excused' PROVE Kept(a)'
  OBVIOUS
<1>1. PICK k, v : k = task[s][t] /\ v = [task[s][t] EXCEPT !.at = "create"]
  OBVIOUS
<1>2. /\ k # None /\ task' = [task EXCEPT ![s][t] = v] /\ pull' = pull /\ claim' = claim
      /\ horizon' = horizon /\ excused' = excused
      /\ rows' = [rows EXCEPT ![s] = {r \in rows[s] : r.ip # k.ip}]
  BY <1>1 DEF Delete
<1>3. TypeOK /\ Kept(a)
  BY <1>2 DEF IInv
<1>4. /\ task'[s][t] = v
      /\ \A x \in Servers, u \in Tasks : x # s \/ u # t => task'[x][u] = task[x][u]
  <2>1. task' = [task EXCEPT ![s][t] = v]
    BY <1>2
  <2> QED BY <1>3, <2>1 DEF TypeOK
<1>5. k \in TaskState
  BY <1>1, <1>2, <1>3 DEF TypeOK
<1>6. v # None /\ v.ip = k.ip /\ v.mac = k.mac /\ v.stamp = k.stamp /\ v.at = "create"
  <2>1. v \in TaskState /\ v.ip = k.ip /\ v.mac = k.mac /\ v.stamp = k.stamp /\ v.at = "create"
    BY <1>1, <1>5 DEF TaskState
  <2> QED BY <1>3, <2>1 DEF Configured, TaskState, TypeOK
<1>7. \A x \in Servers : rows'[x] = IF x = s THEN {r \in rows[s] : r.ip # k.ip} ELSE rows[x]
  BY <1>2, <1>3 DEF TypeOK
<1>8. \A x \in Servers, u \in Tasks : Has(x, u, a)' <=> Has(x, u, a)
  BY <1>1, <1>2, <1>4, <1>6 DEF Has
<1>9. CASE a # k.ip
  <2>1. \A x \in Servers, u \in Tasks : Has(x, u, a) => task'[x][u] = task[x][u]
    BY <1>1, <1>4, <1>9 DEF Has
  <2>2. \A x \in Servers : \A r : r.ip = a => (r \in rows'[x] <=> r \in rows[x])
    BY <1>7, <1>9
  <2> QED BY <1>2, <1>3, <1>8, <2>1, <2>2, Unseen DEF Uses
<1>10. CASE a = k.ip
  <2>1. Has(s, t, a) /\ Has(s, t, a)'
    BY <1>1, <1>2, <1>8, <1>10 DEF Has
  <2>2. a \in Slice(s) /\ \A u \in Tasks : Has(s, u, a) => u = t
    BY <1>3, <2>1 DEF Kept, TasksHome
  <2>3. TasksHome(a)'
    BY <1>3, <1>8 DEF Kept, TasksHome, Slice, Servers, Addrs
  <2>4. RowsHome(a)' /\ PagesHome(a)'
    BY <1>2, <1>3, <1>7 DEF Kept, RowsHome, PagesHome, Slice, Servers, Addrs
  <2>5. RowAlone(a)'
    <3>1. \A x \in Servers : a \in Slice(x) => \A r \in rows'[x] : r.ip # a
      BY <1>7, <1>10, <2>2, SlicesApart
    <3> QED BY <3>1 DEF RowAlone, Slice, Servers, Addrs
  <2>6. ClaimsBacked(a)'
    <3> SUFFICES ASSUME NEW d \in Clients, Uses(d, a)'
                 PROVE  a \in Slice(s) /\ Backed(d, a, s)'
      BY DEF ClaimsBacked, Slice, Servers, Addrs
    <3>1. Backed(d, a, s)
      BY <1>2, <1>3, <2>2, SlicesApart DEF Uses, Kept, ClaimsBacked
    <3>2. k.mac = d /\ claim[d].start <= k.stamp
      BY <1>1, <2>1, <3>1 DEF Backed
    <3>3. \A u \in Tasks : Has(s, u, a)' => task'[s][u] = v
      BY <1>4, <1>8, <2>2
    <3> QED BY <1>2, <1>4, <1>6, <2>1, <2>2, <3>2, <3>3 DEF Backed
  <2> QED BY <2>3, <2>4, <2>5, <2>6 DEF Kept
<1> QED BY <1>9, <1>10

LEMMA CreateKeeps ==
  ASSUME Configured, IInv, NEW s \in Servers, NEW t \in Tasks, Create(s, t)
  PROVE  \A a \in Addrs \ excused' : Kept(a)'
<1> SUFFICES ASSUME NEW a \in Addrs \ excused' PROVE Kept(a)'
  OBVIOUS
<1>1. PICK k, new :
        /\ k = task[s][t]
        /\ new = [ip |-> k.ip, mac |-> k.mac, start |-> k.stamp, upd |-> k.stamp,
                  state |-> IF k.kind = "discover" THEN "offered" ELSE "active"]
  OBVIOUS
<1>2. /\ k # None /\ k.at = "create" /\ task' = [task EXCEPT ![s][t] = None] /\ pull' = pull
      /\ horizon' = horizon /\ excused' = excused
      /\ rows' = [rows EXCEPT ![s] = rows[s] \cup {new}]
      /\ claim' = IF k.kind = "request"
                  THEN [claim EXCEPT ![k.mac] = [ip |-> k.ip, start |-> k.stamp]] ELSE claim
  BY <1>1 DEF Create, Done
<1>3. TypeOK /\ Kept(a)
  BY <1>2 DEF IInv
<1>4. /\ task'[s][t] = None
      /\ \A x \in Servers, u \in Tasks : x # s \/ u # t => task'[x][u] = task[x][u]
  <2>1. task' = [task EXCEPT ![s][t] = None]
    BY <1>2
  <2> QED BY <1>3, <2>1 DEF TypeOK
<1>5. k \in TaskState
  BY <1>1, <1>2, <1>3 DEF TypeOK
<1>6. new.ip = k.ip /\ new.mac = k.mac /\ new.start = k.stamp /\ Holds(new)
  BY <1>1 DEF Holds
<1>7. \A x \in Servers : rows'[x] = IF x = s THEN rows[s] \cup {new} ELSE rows[x]
  BY <1>2, <1>3 DEF TypeOK
<1>8. \A x \in Servers, u \in Tasks : Has(x, u, a)' => Has(x, u, a) /\ (x # s \/ u # t)
                                                      /\ task'[x][u] = task[x][u]
  BY <1>4 DEF Has
<1>9. \A c \in Clients : \/ claim'[c] = claim[c]
                         \/ c = k.mac /\ k.kind = "request"
                            /\ claim'[c] = [ip |-> k.ip, start |-> k.stamp]
  BY <1>2, <1>3 DEF TypeOK
<1>10. CASE a # k.ip
  <2>1. \A x \in Servers, u \in Tasks : /\ Has(x, u, a)' <=> Has(x, u, a)
                                        /\ Has(x, u, a) => task'[x][u] = task[x][u]
    BY <1>1, <1>4, <1>10 DEF Has
  <2>2. \A x \in Servers : \A r : r.ip = a => (r \in rows'[x] <=> r \in rows[x])
    BY <1>6, <1>7, <1>10
  <2>3. \A c \in Clients : Uses(c, a)' => Uses(c, a) /\ claim'[c] = claim[c]
    BY <1>2, <1>9, <1>10 DEF Uses
  <2> QED BY <1>2, <1>3, <2>1, <2>2, <2>3, Unseen
<1>11. CASE a = k.ip
  <2>1. Has(s, t, a)
    BY <1>1, <1>2, <1>11 DEF Has
  <2>2. a \in Slice(s) /\ \A u \in Tasks : Has(s, u, a) => u = t
    BY <1>3, <2>1 DEF Kept, TasksHome
  <2>3. \A x \in Servers, u \in Tasks : ~Has(x, u, a)'
    BY <1>3, <1>8, <2>2, SlicesApart DEF Kept, TasksHome
  <2>4. \A r \in rows[s] : r.ip # a
    BY <1>1, <1>2, <1>3, <2>1, <2>2 DEF Kept, RowAlone
  <2>5. TasksHome(a)'
    BY <2>3 DEF TasksHome
  <2>6. RowsHome(a)' /\ PagesHome(a)'
    BY <1>2, <1>3, <1>7, <2>2 DEF Kept, RowsHome, PagesHome, Slice, Servers, Addrs
  <2>7. RowAlone(a)'
    <3>1. \A x \in Servers : a \in Slice(x) => \A r \in rows'[x] : r.ip = a => r = new
      BY <1>7, <2>2, <2>4, SlicesApart
    <3> QED BY <2>3, <3>1 DEF RowAlone, Slice, Servers, Addrs
  <2>8. ClaimsBacked(a)'
    <3> SUFFICES ASSUME NEW d \in Clients, Uses(d, a)'
                 PROVE  a \in Slice(s) /\ Backed(d, a, s)'
      BY DEF ClaimsBacked, Slice, Servers, Addrs
    <3>1. new \in rows'[s]
      BY <1>7
    <3>2. d = k.mac /\ claim'[d].start <= k.stamp
      <4>1. CASE claim'[d] = claim[d]
        <5>1. Backed(d, a, s)
          BY <1>2, <1>3, <2>2, <4>1, SlicesApart DEF Uses, Kept, ClaimsBacked
        <5> QED BY <1>1, <2>1, <4>1, <5>1 DEF Backed
      <4>2. CASE d = k.mac /\ claim'[d] = [ip |-> k.ip, start |-> k.stamp]
        <5>1. k.stamp \in Int
          BY <1>5 DEF TaskState
        <5> QED BY <4>2, <5>1
      <4> QED BY <1>9, <4>1, <4>2
    <3> QED BY <1>6, <1>11, <2>2, <2>3, <3>1, <3>2 DEF Backed, Holds
  <2> QED BY <2>5, <2>6, <2>7, <2>8 DEF Kept
<1> QED BY <1>10, <1>11

LEMMA ReleaseKeeps ==
  ASSUME Configured, IInv, NEW s \in Servers, NEW c \in Clients, NEW b \in Addrs, Release(s, c, b)
  PROVE  \A a \in Addrs \ excused' : Kept(a)'
<1> SUFFICES ASSUME NEW a \in Addrs \ excused' PROVE Kept(a)'
  OBVIOUS
<1>1. PICK held : held = {r \in rows[s] : Holds(r) /\ r.ip = b}
  OBVIOUS
<1>2. PICK r, new : r = Newest(held) /\ new = [r EXCEPT !.state = "released", !.upd = clock + 1]
  OBVIOUS
<1>3. /\ held # {} /\ rows' = [rows EXCEPT ![s] = (rows[s] \ {r}) \cup {new}]
      /\ excused' = IF claim'[r.mac] # None /\ claim'[r.mac].ip = b
                    THEN excused \cup {b} ELSE excused
      /\ task' = task /\ pull' = pull /\ horizon' = horizon
  BY <1>1, <1>2 DEF Release
<1>4. TypeOK /\ Kept(a)
  BY <1>3 DEF IInv
<1>5. r \in rows[s] /\ r.ip = b /\ r \in Rows
  <2>1. held \subseteq Rows
    BY <1>1, <1>4 DEF TypeOK
  <2>2. r \in held
    BY <1>2, <1>3, <1>4, <2>1, NewestIn
  <2> QED BY <1>1, <2>1, <2>2
<1>6. new.ip = b
  BY <1>2, <1>5 DEF Rows
<1>7. \A x \in Servers : rows'[x] = IF x = s THEN (rows[s] \ {r}) \cup {new} ELSE rows[x]
  BY <1>3, <1>4 DEF TypeOK
<1>8. \A d \in Clients : claim'[d] = claim[d] \/ claim'[d] = None
  BY <1>4 DEF Release, TypeOK
<1>9. \A d \in Clients : Uses(d, a)' => Uses(d, a) /\ claim'[d] = claim[d]
  BY <1>3, <1>8 DEF Uses
<1>10. CASE a # b
  <2>1. \A x \in Servers : \A q : q.ip = a => (q \in rows'[x] <=> q \in rows[x])
    BY <1>5, <1>6, <1>7, <1>10
  <2> QED BY <1>3, <1>4, <1>9, <2>1, Unseen DEF Has
<1>11. CASE a = b
  <2>1. \A x \in Servers, u \in Tasks : Has(x, u, a)' <=> Has(x, u, a)
    BY <1>3 DEF Has
  <2>2. TasksHome(a)'
    BY <1>4, <2>1 DEF Kept, TasksHome, Slice, Servers, Addrs
  <2>3. \A x \in Servers : \A q \in rows'[x] : q.ip = a => \E p \in rows[x] : p.ip = a
    BY <1>5, <1>7, <1>11
  <2>4. RowsHome(a)' /\ PagesHome(a)'
    BY <1>3, <1>4, <2>3 DEF Kept, RowsHome, PagesHome, Slice, Servers, Addrs
  <2>5. ASSUME a \in Slice(s)
        PROVE  \A q \in rows[s] : q.ip = a => q = r
    BY <1>4, <1>5, <1>11, <2>5 DEF Kept, RowAlone
  <2>6. RowAlone(a)'
    <3> SUFFICES ASSUME NEW x \in Servers, a \in Slice(x)
                 PROVE  /\ \A p, q \in rows'[x] : p.ip = a /\ q.ip = a => p = q
                        /\ \A t \in Tasks : Has(x, t, a)' /\ task'[x][t].at = "create"
                                              => \A q \in rows'[x] : q.ip # a
      BY DEF RowAlone, Slice, Servers, Addrs
    <3>1. \A p, q \in rows'[x] : p.ip = a /\ q.ip = a => p = q
      <4>1. CASE x = s
        BY <1>7, <2>5, <4>1
      <4>2. CASE x # s
        BY <1>4, <1>7, <4>2 DEF Kept, RowAlone
      <4> QED BY <4>1, <4>2
    <3>2. \A t \in Tasks : Has(x, t, a)' /\ task'[x][t].at = "create"
                             => \A q \in rows'[x] : q.ip # a
      BY <1>3, <1>4, <2>1, <2>3 DEF Kept, RowAlone
    <3> QED BY <3>1, <3>2
  <2>7. ClaimsBacked(a)'
    <3> SUFFICES ASSUME NEW d \in Clients, Uses(d, a)'
                 PROVE  \E x \in Servers : a \in Slice(x) /\ Backed(d, a, x)'
      BY DEF ClaimsBacked, Slice, Servers, Addrs
    <3>1. Uses(d, a) /\ claim'[d] = claim[d]
      BY <1>9
    <3>2. PICK x \in Servers : a \in Slice(x) /\ Backed(d, a, x)
      BY <1>4, <3>1 DEF Kept, ClaimsBacked
    <3>3. CASE x = s
      <4>1. \A t \in Tasks : ~(Has(s, t, a) /\ task[s][t].at = "create")
        BY <1>4, <1>5, <1>11, <3>2, <3>3 DEF Kept, RowAlone
      <4>2. d = r.mac
        BY <2>5, <3>2, <3>3, <4>1 DEF Backed
      <4>3. claim'[r.mac] # None /\ claim'[r.mac].ip = b
        BY <1>11, <4>2 DEF Uses
      <4>4. b \in excused'
        BY <1>3, <4>3
      <4> QED BY <1>11, <4>4
    <3>4. CASE x # s
      <4>1. rows'[x] = rows[x]
        BY <1>7, <3>4
      <4>2. Backed(d, a, x)'
        BY <1>3, <2>1, <3>1, <3>2, <4>1 DEF Backed, Holds
      <4> QED BY <3>2, <4>2
    <3> QED BY <3>3, <3>4
  <2> QED BY <2>2, <2>4, <2>6, <2>7 DEF Kept
<1> QED BY <1>10, <1>11

LEMMA SweepKeeps ==
  ASSUME Configured, IInv, NEW s \in Servers, Sweep(s)
  PROVE  \A a \in Addrs \ excused' : Kept(a)'
<1> SUFFICES ASSUME NEW a \in Addrs \ excused' PROVE Kept(a)'
  OBVIOUS
<1>1. /\ task' = task /\ pull' = pull /\ horizon' = horizon /\ claim' = claim /\ excused' = excused
      /\ rows' = [rows EXCEPT ![s] = (rows[s] \ Stale(s)) \cup
                   {[r EXCEPT !.state = "expired", !.upd = clock + 1] : r \in Stale(s)}]
  BY DEF Sweep
<1>2. TypeOK /\ Kept(a)
  BY <1>1 DEF IInv
<1>3. \A x \in Servers : x # s => rows'[x] = rows[x]
  BY <1>1, <1>2 DEF TypeOK
<1>4. rows'[s] = (rows[s] \ Stale(s)) \cup
                   {[r EXCEPT !.state = "expired", !.upd = clock + 1] : r \in Stale(s)}
  BY <1>1, <1>2 DEF TypeOK
<1>5. \A r \in Stale(s) : r \in rows[s] /\ [r EXCEPT !.state = "expired", !.upd = clock + 1].ip = r.ip
  BY <1>2 DEF Stale, TypeOK, Rows
<1>6. \A q \in rows'[s] : \E p \in rows[s] :
        /\ p.ip = q.ip
        /\ \/ p = q /\ p \notin Stale(s)
           \/ q = [p EXCEPT !.state = "expired", !.upd = clock + 1] /\ p \in Stale(s)
  BY <1>4, <1>5
<1>7. \A x \in Servers, u \in Tasks : Has(x, u, a)' <=> Has(x, u, a)
  BY <1>1 DEF Has
<1>8. \A x \in Servers : \A q \in rows'[x] : q.ip = a => \E p \in rows[x] : p.ip = a
  BY <1>3, <1>6
<1>9. TasksHome(a)'
  BY <1>2, <1>7 DEF Kept, TasksHome, Slice, Servers, Addrs
<1>10. RowsHome(a)' /\ PagesHome(a)'
  BY <1>1, <1>2, <1>8 DEF Kept, RowsHome, PagesHome, Slice, Servers, Addrs
<1>11. RowAlone(a)'
  <2> SUFFICES ASSUME NEW x \in Servers, a \in Slice(x)
               PROVE  /\ \A p, q \in rows'[x] : p.ip = a /\ q.ip = a => p = q
                      /\ \A t \in Tasks : Has(x, t, a)' /\ task'[x][t].at = "create"
                                            => \A q \in rows'[x] : q.ip # a
    BY DEF RowAlone, Slice, Servers, Addrs
  <2>1. \A p, q \in rows[x] : p.ip = a /\ q.ip = a => p = q
    BY <1>2 DEF Kept, RowAlone
  <2>2. \A p, q \in rows'[x] : p.ip = a /\ q.ip = a => p = q
    <3>1. CASE x = s
      <4> SUFFICES ASSUME NEW p \in rows'[s], NEW q \in rows'[s], p.ip = a, q.ip = a
                   PROVE  p = q
        BY <3>1
      <4>1. PICK p0 \in rows[s] : /\ p0.ip = a
              /\ \/ p0 = p /\ p0 \notin Stale(s)
                 \/ p = [p0 EXCEPT !.state = "expired", !.upd = clock + 1] /\ p0 \in Stale(s)
        BY <1>6
      <4>2. PICK q0 \in rows[s] : /\ q0.ip = a
              /\ \/ q0 = q /\ q0 \notin Stale(s)
                 \/ q = [q0 EXCEPT !.state = "expired", !.upd = clock + 1] /\ q0 \in Stale(s)
        BY <1>6
      <4>3. p0 = q0
        BY <2>1, <3>1, <4>1, <4>2
      <4> QED BY <4>1, <4>2, <4>3
    <3>2. CASE x # s
      BY <1>3, <2>1, <3>2
    <3> QED BY <3>1, <3>2
  <2>3. \A t \in Tasks : Has(x, t, a)' /\ task'[x][t].at = "create" => \A q \in rows'[x] : q.ip # a
    BY <1>1, <1>2, <1>7, <1>8 DEF Kept, RowAlone
  <2> QED BY <2>2, <2>3
<1>12. ClaimsBacked(a)'
  <2> SUFFICES ASSUME NEW d \in Clients, Uses(d, a)'
               PROVE  \E x \in Servers : a \in Slice(x) /\ Backed(d, a, x)'
    BY DEF ClaimsBacked, Slice, Servers, Addrs
  <2>1. Uses(d, a)
    BY <1>1 DEF Uses
  <2>2. PICK x \in Servers : a \in Slice(x) /\ Backed(d, a, x)
    BY <1>2, <2>1 DEF Kept, ClaimsBacked
  <2>3. \A r \in rows[x] : claim[d].start <= r.start => r \in rows'[x]
    <3> SUFFICES ASSUME NEW r \in rows[x], claim[d].start <= r.start PROVE r \in rows'[x]
      OBVIOUS
    <3>1. r.start \in Int /\ claim[d].start \in Int /\ horizon \in Int /\ claim[d].start > horizon
      BY <1>2, <2>1 DEF TypeOK, Rows, Uses
    <3>2. ~(r.start <= horizon)
      BY <3>1
    <3>3. x = s => r \notin Stale(s)
      BY <3>2 DEF Stale
    <3> QED BY <1>3, <1>4, <3>3
  <2>4. Backed(d, a, x)'
    BY <1>1, <1>7, <2>2, <2>3 DEF Backed, Holds
  <2> QED BY <2>2, <2>4
<1> QED BY <1>9, <1>10, <1>11, <1>12 DEF Kept

LEMMA CrashKeeps ==
  ASSUME Configured, IInv, NEW s \in Servers, Crash(s)
  PROVE  \A a \in Addrs \ excused' : Kept(a)'
<1> SUFFICES ASSUME NEW a \in Addrs \ excused' PROVE Kept(a)'
  OBVIOUS
<1>1. /\ rows' = rows /\ horizon' = horizon /\ claim' = claim
      /\ excused \subseteq excused'
      /\ \A t \in Tasks : task[s][t] # None /\ task[s][t].at = "create" => task[s][t].ip \in excused'
  BY DEF Crash
<1>2. TypeOK /\ Kept(a)
  BY <1>1 DEF IInv
<1>3. /\ \A t \in Tasks : task'[s][t] = None
      /\ \A x \in Servers : x # s => task'[x] = task[x]
      /\ \A x \in Servers : pull'[x] = None \/ pull'[x] = pull[x]
  BY <1>2 DEF Crash, TypeOK
<1>4. \A x \in Servers, u \in Tasks : Has(x, u, a)' => Has(x, u, a) /\ x # s /\ task'[x][u] = task[x][u]
  BY <1>3 DEF Has
<1>5. TasksHome(a)' /\ RowsHome(a)'
  BY <1>1, <1>2, <1>4 DEF Kept, TasksHome, RowsHome, Slice, Servers, Addrs
<1>6. PagesHome(a)'
  BY <1>2, <1>3 DEF Kept, PagesHome, Slice, Servers, Addrs
<1>7. RowAlone(a)'
  BY <1>1, <1>2, <1>4 DEF Kept, RowAlone, Slice, Servers, Addrs
<1>8. ClaimsBacked(a)'
  <2> SUFFICES ASSUME NEW d \in Clients, Uses(d, a)'
               PROVE  \E x \in Servers : a \in Slice(x) /\ Backed(d, a, x)'
    BY DEF ClaimsBacked, Slice, Servers, Addrs
  <2>1. Uses(d, a)
    BY <1>1 DEF Uses
  <2>2. PICK x \in Servers : a \in Slice(x) /\ Backed(d, a, x)
    BY <1>2, <2>1 DEF Kept, ClaimsBacked
  <2>3. CASE x = s
    <3>1. \A t \in Tasks : ~(Has(s, t, a) /\ task[s][t].at = "create")
      BY <1>1 DEF Has
    <3> QED BY <1>1, <1>4, <2>2, <2>3, <3>1 DEF Backed, Holds
  <2>4. CASE x # s
    <3>1. \A u \in Tasks : (Has(x, u, a)' <=> Has(x, u, a)) /\ task'[x][u] = task[x][u]
      BY <1>3, <2>4 DEF Has
    <3> QED BY <1>1, <2>2, <3>1 DEF Backed, Holds
  <2> QED BY <2>3, <2>4
<1> QED BY <1>5, <1>6, <1>7, <1>8 DEF Kept

\* The feed brings a secondary rows of the primary's addresses, which are not its own.
LEMMA PullKeeps ==
  ASSUME Configured, IInv, NEW s \in Servers, s # 0, PullStep(s)
  PROVE  \A a \in Addrs \ excused' : Kept(a)'
<1> SUFFICES ASSUME NEW a \in Addrs \ excused' PROVE Kept(a)'
  OBVIOUS
<1>1. task' = task /\ horizon' = horizon /\ claim' = claim /\ excused' = excused
  BY DEF PullStep, Fetch, ApplyDelete, ApplyCreate, SetCursor, ApplyCheck
<1>2. TypeOK /\ Kept(a)
  BY <1>1 DEF IInv
<1>3. 0 \in Servers
  BY DEF Configured, Servers
<1>4. \A x \in Servers, u \in Tasks : Has(x, u, a)' <=> Has(x, u, a)
  BY <1>1 DEF Has
<1>5. \A x \in Servers : x # s => pull'[x] = pull[x] /\ rows'[x] = rows[x]
  BY <1>2 DEF PullStep, Fetch, ApplyDelete, ApplyCreate, SetCursor, ApplyCheck, TypeOK
<1>6. \/ rows'[s] = rows[s]
      \/ pull[s] # None /\ pull[s].at # "check" /\ rows'[s] = {q \in rows[s] : q.ip # pull[s].row.ip}
      \/ pull[s] # None /\ pull[s].at # "check" /\ rows'[s] = rows[s] \cup {pull[s].row}
  BY <1>2 DEF PullStep, Fetch, ApplyDelete, ApplyCreate, SetCursor, ApplyCheck, TypeOK
<1>7. \/ pull'[s] = None
      \/ /\ \A r \in pull'[s].todo : r \in rows[0] \/ (pull[s] # None /\ r \in pull[s].todo)
         /\ \/ pull'[s].at = "check"
            \/ pull[s] # None /\ pull'[s].row \in pull[s].todo
            \/ pull[s] # None /\ pull[s].at # "check" /\ pull'[s].row = pull[s].row
  <2>1. CASE Fetch(s)
    BY <1>2, <2>1 DEF Fetch, Page, TypeOK
  <2>2. CASE ApplyDelete(s)
    <3>1. pull[s] # None /\ pull[s].at = "delete" /\ IsPull(pull[s])
      BY <1>2, <2>2 DEF ApplyDelete, TypeOK
    <3>2. pull'[s] = [pull[s] EXCEPT !.at = "create"]
      BY <1>2, <2>2 DEF ApplyDelete, TypeOK
    <3>3. pull'[s].todo = pull[s].todo /\ pull'[s].row = pull[s].row
      BY <3>1, <3>2 DEF IsPull
    <3> QED BY <3>1, <3>3
  <2>3. CASE ApplyCreate(s)
    BY <1>2, <2>3 DEF ApplyCreate, TypeOK
  <2>4. CASE SetCursor(s)
    BY <1>2, <2>4 DEF SetCursor, TypeOK
  <2>5. ASSUME NEW r, ApplyCheck(s, r)
        PROVE  /\ \A q \in pull'[s].todo : pull[s] # None /\ q \in pull[s].todo
               /\ \/ pull'[s].at = "check"
                  \/ pull[s] # None /\ pull'[s].row \in pull[s].todo
    <3>1. pull[s] # None /\ pull[s].at = "check" /\ r \in pull[s].todo /\ IsPull(pull[s])
      BY <1>2, <2>5 DEF ApplyCheck, TypeOK
    <3>2. \/ pull'[s] = [pull[s] EXCEPT !.todo = pull[s].todo \ {r}]
          \/ pull'[s] = [todo |-> pull[s].todo \ {r}, row |-> r, at |-> "delete", next |-> pull[s].next]
      BY <1>2, <2>5 DEF ApplyCheck, TypeOK
    <3>3. pull'[s].todo = pull[s].todo \ {r} /\ (pull'[s].at = "check" \/ pull'[s].row = r)
      BY <3>1, <3>2 DEF IsPull
    <3> QED BY <3>1, <3>3
  <2> QED BY <2>1, <2>2, <2>3, <2>4, <2>5 DEF PullStep
<1>8. a \in Slice(s) => \A r : r.ip = a => (r \in rows'[s] <=> r \in rows[s])
  <2> SUFFICES ASSUME a \in Slice(s) PROVE \A r : r.ip = a => (r \in rows'[s] <=> r \in rows[s])
    OBVIOUS
  <2>1. a \notin Slice(0)
    BY <1>3, SlicesApart
  <2>2. pull[s] # None /\ pull[s].at # "check" => pull[s].row.ip # a
    BY <1>2, <2>1 DEF Kept, PagesHome
  <2> QED BY <1>6, <2>2
<1>9. TasksHome(a)'
  BY <1>2, <1>4 DEF Kept, TasksHome, Slice, Servers, Addrs
<1>10. RowsHome(a)'
  <2> SUFFICES ASSUME NEW x \in Servers, NEW r \in rows'[x], r.ip = a
               PROVE  a \in Slice(x) \/ a \in Slice(0)
    BY DEF RowsHome, Slice, Servers, Addrs
  <2>1. r \in rows[x] \/ (pull[x] # None /\ pull[x].at # "check" /\ r = pull[x].row)
    BY <1>5, <1>6
  <2> QED BY <1>2, <2>1 DEF Kept, RowsHome, PagesHome
<1>11. PagesHome(a)'
  <2> SUFFICES ASSUME NEW x \in Servers, pull'[x] # None
               PROVE  /\ \A r \in pull'[x].todo : r.ip = a => a \in Slice(0)
                      /\ pull'[x].at # "check" /\ pull'[x].row.ip = a => a \in Slice(0)
    BY DEF PagesHome, Slice, Servers, Addrs
  <2>1. CASE x # s
    BY <1>2, <1>5, <2>1 DEF Kept, PagesHome
  <2>2. CASE x = s
    <3>1. \A r \in rows[0] : r.ip = a => a \in Slice(0)
      BY <1>2, <1>3 DEF Kept, RowsHome
    <3>2. pull[s] # None => /\ \A r \in pull[s].todo : r.ip = a => a \in Slice(0)
                            /\ pull[s].at # "check" /\ pull[s].row.ip = a => a \in Slice(0)
      BY <1>2 DEF Kept, PagesHome
    <3> QED BY <1>7, <2>2, <3>1, <3>2
  <2> QED BY <2>1, <2>2
<1>12. \A x \in Servers : a \in Slice(x) => \A r : r.ip = a => (r \in rows'[x] <=> r \in rows[x])
  BY <1>5, <1>8
<1>13. RowAlone(a)'
  BY <1>1, <1>2, <1>4, <1>12 DEF Kept, RowAlone, Slice, Servers, Addrs
<1>14. ClaimsBacked(a)'
  <2> SUFFICES ASSUME NEW d \in Clients, Uses(d, a)'
               PROVE  \E x \in Servers : a \in Slice(x) /\ Backed(d, a, x)'
    BY DEF ClaimsBacked, Slice, Servers, Addrs
  <2>1. Uses(d, a)
    BY <1>1 DEF Uses
  <2>2. PICK x \in Servers : a \in Slice(x) /\ Backed(d, a, x)
    BY <1>2, <2>1 DEF Kept, ClaimsBacked
  <2>3. Backed(d, a, x)'
    BY <1>1, <1>4, <1>12, <2>2 DEF Backed, Holds
  <2> QED BY <2>2, <2>3
<1> QED BY <1>9, <1>10, <1>11, <1>13, <1>14 DEF Kept

LEMMA StartSound ==
  ASSUME Configured, Init
  PROVE  IInv
<1>1. TypeOK
  BY DEF Init, TypeOK
<1>2. \A s \in Servers : rows[s] = {} /\ reserved[s] = {} /\ pull[s] = None
  BY DEF Init
<1>3. \A s \in Servers, t \in Tasks : task[s][t] = None
  BY DEF Init
<1>4. \A c \in Clients : claim[c] = None
  BY DEF Init
<1> QED BY <1>1, <1>2, <1>3, <1>4 DEF IInv, ReservedExcused, Kept, TasksHome, RowsHome,
        PagesHome, RowAlone, ClaimsBacked, Uses, Has

\* Reservations excuse their address, and what is excused stays so.
LEMMA ReservedKept ==
  ASSUME IInv, excused \subseteq excused',
         \A s \in Servers : \A p \in reserved'[s] : p \in reserved[s] \/ p[2] \in excused'
  PROVE  ReservedExcused'
BY DEF IInv, ReservedExcused, Servers

LEMMA ElapseTypes ==
  ASSUME IInv, Elapse
  PROVE  TypeOK'
<1>1. clock \in Nat /\ horizon \in 0 .. clock
  BY DEF IInv, TypeOK
<1>2. clock' \in Nat /\ clock <= clock' /\ horizon' \in 0 .. clock'
  BY <1>1 DEF Elapse
<1>3. TypeOK /\ rows' = rows /\ reserved' = reserved /\ task' = task /\ pull' = pull
      /\ claim' = claim /\ excused' \subseteq Addrs
  BY DEF IInv, TypeOK, Elapse
<1> QED BY <1>2, <1>3, TypeFrame

LEMMA StepSound ==
  ASSUME Configured, IInv, [Next]_vars
  PROVE  IInv'
<1>1. CASE Next
  <2> DEFINE Sound == TypeOK' /\ ReservedExcused' /\ \A b \in Addrs \ excused' : Kept(b)'
  <2>2. ASSUME NEW s \in Servers, NEW t \in Tasks, NEW c \in Clients,
               NEW kind \in {"discover", "request"}, NEW want \in Addrs \cup {None},
               Receive(s, t, c, kind, want)
       PROVE  Sound
    <3>1. reserved' = reserved /\ excused \subseteq excused'
      BY <2>2 DEF Receive
    <3> QED BY <2>2, <3>1, ReservedKept, ReceiveTypes, ReceiveKeeps
  <2>3. ASSUME NEW s \in Servers, NEW t \in Tasks, Delete(s, t)
       PROVE  Sound
    <3>1. reserved' = reserved /\ excused \subseteq excused'
      BY <2>3 DEF Delete
    <3> QED BY <2>3, <3>1, ReservedKept, DeleteTypes, DeleteKeeps
  <2>4. ASSUME NEW s \in Servers, NEW t \in Tasks, Create(s, t)
       PROVE  Sound
    <3>1. reserved' = reserved /\ excused \subseteq excused'
      BY <2>4 DEF Create
    <3> QED BY <2>4, <3>1, ReservedKept, CreateTypes, CreateKeeps
  <2>5. ASSUME NEW s \in Servers, NEW c \in Clients, NEW a \in Addrs, Release(s, c, a)
       PROVE  Sound
    <3>1. reserved' = reserved /\ excused \subseteq excused'
      BY <2>5 DEF Release
    <3> QED BY <2>5, <3>1, ReservedKept, ReleaseTypes, ReleaseKeeps
  <2>6. ASSUME NEW s \in Servers, Sweep(s)
       PROVE  Sound
    <3>1. reserved' = reserved /\ excused \subseteq excused'
      BY <2>6 DEF Sweep
    <3> QED BY <2>6, <3>1, ReservedKept, SweepTypes, SweepKeeps
  <2>7. ASSUME NEW s \in Servers, Crash(s)
       PROVE  Sound
    <3>1. reserved' = reserved /\ excused \subseteq excused'
      BY <2>7 DEF Crash
    <3> QED BY <2>7, <3>1, ReservedKept, CrashTypes, CrashKeeps
  <2>8. ASSUME NEW s \in Servers, NEW p \in Reservable,
               CreateReservation(s, p) \/ DeleteReservation(s, p)
       PROVE  Sound
    <3>1. excused \subseteq excused'
      BY <2>8 DEF CreateReservation, DeleteReservation
    <3>2. \A x \in Servers : \A q \in reserved'[x] : q \in reserved[x] \/ q[2] \in excused'
      BY <2>8 DEF CreateReservation, DeleteReservation, IInv, TypeOK
    <3> QED BY <2>8, <3>1, <3>2, ReservedKept, AdminTypes, QuietKeeps
  <2>9. ASSUME NEW s \in Servers \ {0}, PullStep(s)
       PROVE  Sound
    <3>1. reserved' = reserved /\ excused' = excused
      BY <2>9 DEF PullStep, Fetch, ApplyCheck, ApplyDelete, ApplyCreate, SetCursor
    <3> QED BY <2>9, <3>1, ReservedKept, PullTypes, PullKeeps
  <2>10. ASSUME Elapse
        PROVE  Sound
    <3>1. reserved' = reserved /\ excused' = excused
      BY <2>10 DEF Elapse
    <3>2. \A b \in Addrs \ excused' : Kept(b)'
      BY <2>10, QuietKeeps, Zenon
    <3> QED BY <2>10, <3>1, <3>2, ReservedKept, ElapseTypes
  <2>11. Sound
    <3>1. CASE \E s \in Servers, t \in Tasks :
                 \/ \E c \in Clients, kind \in {"discover", "request"}, want \in Addrs \cup {None} :
                      Receive(s, t, c, kind, want)
                 \/ Delete(s, t)
                 \/ Create(s, t)
      BY <2>2, <2>3, <2>4, <3>1
    <3>2. CASE \E s \in Servers, c \in Clients, a \in Addrs : Release(s, c, a)
      BY <2>5, <3>2
    <3>3. CASE \E s \in Servers :
                 \/ Sweep(s)
                 \/ Crash(s)
                 \/ \E p \in Reservable : CreateReservation(s, p) \/ DeleteReservation(s, p)
      BY <2>6, <2>7, <2>8, <3>3
    <3>4. CASE \E s \in Servers \ {0} :
                 \/ Fetch(s)
                 \/ \E r \in rows[0] \cup (IF pull[s] = None THEN {} ELSE pull[s].todo) :
                      ApplyCheck(s, r)
                 \/ ApplyDelete(s)
                 \/ ApplyCreate(s)
                 \/ SetCursor(s)
      <4>1. \E s \in Servers \ {0} : PullStep(s)
        BY <3>4 DEF PullStep
      <4> QED BY <2>9, <4>1
    <3> HIDE DEF Sound
    <3> QED BY <1>1, <2>10, <3>1, <3>2, <3>3, <3>4 DEF Next
  <2> QED BY <2>11 DEF IInv, Addrs
<1>2. CASE UNCHANGED vars
  BY <1>2 DEF vars, IInv, TypeOK, Rows, TaskState, IsPull, ReservedExcused, Kept, TasksHome,
     RowsHome, PagesHome, RowAlone, ClaimsBacked, Uses, Backed, Has, Holds, Slice, Servers, Addrs
<1> QED BY <1>1, <1>2

\* An address that two clients use has one row that stands for both.
LEMMA KeptExclusive ==
  ASSUME Configured, IInv
  PROVE  LeasesExclusive
<1> SUFFICES ASSUME NEW c \in Clients, NEW d \in Clients, c # d,
                    claim[c] # None, claim[d] # None,
                    claim[c].start > horizon, claim[d].start > horizon,
                    claim[c].ip = claim[d].ip, claim[c].ip \notin excused
             PROVE  FALSE
  BY DEF LeasesExclusive, Exclusive, IInv
<1>1. PICK a : a = claim[c].ip
  OBVIOUS
<1>2. a \in Addrs \ excused /\ Uses(c, a) /\ Uses(d, a)
  BY <1>1 DEF IInv, TypeOK, Uses
<1>3. Kept(a)
  BY <1>2 DEF IInv
<1>4. PICK s \in Servers : a \in Slice(s) /\ Backed(c, a, s)
  BY <1>2, <1>3 DEF Kept, ClaimsBacked
<1>5. Backed(d, a, s)
  BY <1>2, <1>3, <1>4, SlicesApart DEF Kept, ClaimsBacked
<1>6. \A t \in Tasks : ~Has(s, t, a)
  BY <1>4, <1>5 DEF Backed
<1>7. \A q, r \in rows[s] : q.ip = a /\ r.ip = a => q = r
  BY <1>3, <1>4 DEF Kept, RowAlone
<1> QED BY <1>4, <1>5, <1>6, <1>7 DEF Backed

\* Whatever the servers, the feed, crashes and clients do, two clients are never
\* acknowledged one address at the same time, but for the addresses that were handed
\* out in one of the ways that Exclusive lists (allocate_ip, upsert_lease,
\* release_lease, create_reservation).
THEOREM LeasesStayExclusive == ASSUME Configured PROVE Spec => []LeasesExclusive
<1>1. Init => IInv
  BY StartSound
<1>2. IInv /\ [Next]_vars => IInv'
  BY StepSound
<1>3. IInv => LeasesExclusive
  BY KeptExclusive
<1> QED BY <1>1, <1>2, <1>3, PTL DEF Spec
=============================================================================
