---------------------------- MODULE DhcpLeases ----------------------------
(* The DHCPv4 server: address allocation from one pool, the lease table, the   *)
(* expiry sweep and the lease feed from the primary (node 0) to its            *)
(* secondaries. Several servers may share the pool by split scope. Every      *)
(* datagram is handled by a task of its own that reads the reservations and    *)
(* the leases, and then replaces the row of the address it chose by a DELETE   *)
(* and a CREATE: three steps that other tasks, the sweep and the feed puller   *)
(* interleave with. Clients may send any datagram at any time, which covers    *)
(* lost, repeated and late ones.                                               *)
EXTENDS Integers, FiniteSets

CONSTANTS
  None,        \* no value
  Clients,     \* MAC addresses
  PoolSize,    \* the pool is the addresses 1 .. PoolSize
  Nodes,       \* servers sharing the pool (DHCP_NODES)
  Tasks,       \* datagram tasks a server runs at once
  Reservable,  \* <<client, address>> pairs the administrator may reserve
  FeedLimit,   \* rows per page of the lease feed (FEED_LIMIT)
  MaxClock,    \* bound: stamps given to leases and releases
  MaxElapsed,  \* bound: stamps whose lease time runs out
  MaxCrashes   \* bound: server crashes

VARIABLES
  rows,        \* rows[s]: the lease table of server s
  reserved,    \* reserved[s]: its reservations
  task,        \* task[s][t]: a datagram task in progress, or None
  pull,        \* pull[s]: the page a secondary is applying, or None
  cursor,      \* cursor[s]: dhcp_repl_state, <<updated_at, address>>
  clock,       \* the last time stamp given
  horizon,     \* leases that started at or before it have run out
  claim,       \* claim[c]: the address client c was last acknowledged, or None
  excused,     \* addresses whose exclusivity was given up (see Exclusive)
  crashes

vars == <<rows, reserved, task, pull, cursor, clock, horizon, claim, excused, crashes>>

Servers == 0 .. Nodes - 1
Addrs == 1 .. PoolSize
States == {"offered", "active", "expired", "released"}
Rows == [ip : Addrs, mac : Clients, state : States, start : 1 .. clock, upd : 1 .. clock]

----------------------------------------------------------------------------
(* Address allocation *)

\* PoolPartition::slice: the addresses server s hands out afresh. Too small a
\* pool is not split, and the last node takes the remainder.
Slice(s) ==
  LET size == PoolSize \div Nodes
      first == 1 + s * size
      last == IF s = Nodes - 1 THEN PoolSize ELSE first + size - 1
  IN IF Nodes <= 1 \/ size = 0 THEN Addrs ELSE first .. last

Holds(r) == r.state \in {"active", "offered"}

Newest(S) == CHOOSE r \in S : \A q \in S : q.start <= r.start

\* Faulty variant: an address the client asks for is given, though it is held.
AllocateAsked(s, res, leases, mac, want) ==
  IF want \in Addrs THEN want ELSE None

\* allocate_ip: the reservation of this client; else its newest held lease,
\* unless that address is reserved; else the address it asks for, if free; else
\* the first free address of this server's slice; else None.
Allocate(s, res, leases, mac, want) ==
  LET mine == {p \in res : p[1] = mac}
      taken == {p[2] : p \in res}
      other == {r.ip : r \in {q \in leases : Holds(q) /\ q.mac # mac}}
      own == {r \in leases : Holds(r) /\ r.mac = mac}
      free == Slice(s) \ (taken \cup other)
  IN IF mine # {} THEN (CHOOSE p \in mine : TRUE)[2]
     ELSE IF own # {} /\ Newest(own).ip \notin taken THEN Newest(own).ip
     ELSE IF want \in Addrs \ (taken \cup other) THEN want
     ELSE IF free # {} THEN CHOOSE a \in free : \A b \in free : a <= b
     ELSE None

----------------------------------------------------------------------------
(* Datagram tasks *)

Done(s, t) == task' = [task EXCEPT ![s][t] = None]

\* Tasks of server s that chose address a and have not written it yet.
Rivals(s, a) == {u \in Tasks : task[s][u] # None /\ task[s][u].ip = a}

\* A DISCOVER or REQUEST of client c, which asks for address want or for none:
\* its task reads the reservations and the leases and chooses an address. No
\* address, or another than a REQUEST insists on (NAK), changes nothing. The
\* lease gets its time stamps here, before it is written.
Receive(s, t, c, kind, want) ==
  LET ip == Allocate(s, reserved[s], rows[s], c, want) IN
  /\ task[s][t] = None
  /\ clock < MaxClock
  /\ ip # None
  /\ kind = "discover" \/ want \in {None, ip}
  /\ task' = [task EXCEPT ![s][t] =
                [at |-> "delete", kind |-> kind, mac |-> c, ip |-> ip, stamp |-> clock + 1]]
  /\ clock' = clock + 1
  /\ excused' = IF ip \notin Slice(s) \/ Rivals(s, ip) # {}
                THEN excused \cup {ip} ELSE excused
  /\ UNCHANGED <<rows, reserved, pull, cursor, horizon, claim, crashes>>

\* upsert_lease, first half: DELETE the rows of the address.
Delete(s, t) ==
  /\ task[s][t] # None
  /\ task[s][t].at = "delete"
  /\ rows' = [rows EXCEPT ![s] = {r \in @ : r.ip # task[s][t].ip}]
  /\ task' = [task EXCEPT ![s][t].at = "create"]
  /\ UNCHANGED <<reserved, pull, cursor, clock, horizon, claim, excused, crashes>>

\* upsert_lease, second half: CREATE the row; then OFFER, or ACK.
Create(s, t) ==
  /\ task[s][t] # None
  /\ task[s][t].at = "create"
  /\ LET k == task[s][t] IN
     /\ rows' = [rows EXCEPT ![s] = @ \cup
          {[ip |-> k.ip, mac |-> k.mac, start |-> k.stamp, upd |-> k.stamp,
            state |-> IF k.kind = "discover" THEN "offered" ELSE "active"]}]
     /\ claim' = IF k.kind = "request"
                 THEN [claim EXCEPT ![k.mac] = [ip |-> k.ip, start |-> k.stamp]]
                 ELSE claim
  /\ Done(s, t)
  /\ UNCHANGED <<reserved, pull, cursor, clock, horizon, excused, crashes>>

\* A RELEASE of address a by client c: the newest held row of the address is
\* released, whoever holds it (release_lease reads the row again by its id, so a
\* row replaced meanwhile stays). The sender stops using the address, unless the
\* datagram is a late copy of an earlier one.
Release(s, c, a) ==
  LET held == {r \in rows[s] : Holds(r) /\ r.ip = a}
      quit == [claim EXCEPT ![c] = IF @ # None /\ @.ip = a THEN None ELSE @]
  IN
  /\ held # {}
  /\ clock < MaxClock
  /\ LET r == Newest(held) IN
     /\ rows' = [rows EXCEPT ![s] = (@ \ {r}) \cup
                   {[r EXCEPT !.state = "released", !.upd = clock + 1]}]
     /\ claim' \in {claim, quit}
     /\ excused' = IF claim'[r.mac] # None /\ claim'[r.mac].ip = a
                   THEN excused \cup {a} ELSE excused
  /\ clock' = clock + 1
  /\ UNCHANGED <<reserved, task, pull, cursor, horizon, crashes>>

----------------------------------------------------------------------------
(* Time, the sweep and the administrator *)

\* Lease times run out, in the order the leases started.
Elapse ==
  /\ horizon < clock
  /\ horizon < MaxElapsed
  /\ horizon' = horizon + 1
  /\ UNCHANGED <<rows, reserved, task, pull, cursor, clock, claim, excused, crashes>>

\* Faulty variant: the sweep leaves offered leases alone.
StaleActive(s) == {r \in rows[s] : r.state = "active" /\ r.start <= horizon}

\* The leases whose time has run out.
Stale(s) == {r \in rows[s] : Holds(r) /\ r.start <= horizon}

\* expire_stale_leases: one UPDATE, which stamps the rows anew.
Sweep(s) ==
  /\ Stale(s) # {}
  /\ rows' = [rows EXCEPT ![s] = (@ \ Stale(s)) \cup
                {[r EXCEPT !.state = "expired", !.upd = clock + 1] : r \in Stale(s)}]
  /\ clock' = clock + 1
  /\ UNCHANGED <<reserved, task, pull, cursor, horizon, claim, excused, crashes>>

\* create_reservation: client and address each reserved at most once; that
\* another client holds the address is not checked.
CreateReservation(s, p) ==
  /\ \A q \in reserved[s] : q[1] # p[1] /\ q[2] # p[2]
  /\ reserved' = [reserved EXCEPT ![s] = @ \cup {p}]
  /\ excused' = excused \cup {p[2]}
  /\ UNCHANGED <<rows, task, pull, cursor, clock, horizon, claim, crashes>>

\* delete_reservation. The lease of the reserving client stays.
DeleteReservation(s, p) ==
  /\ p \in reserved[s]
  /\ reserved' = [reserved EXCEPT ![s] = @ \ {p}]
  /\ UNCHANGED <<rows, task, pull, cursor, clock, horizon, claim, excused, crashes>>

\* The server stops: its tasks and its pull are lost. A task between DELETE and
\* CREATE leaves the address without a row.
Crash(s) ==
  /\ crashes < MaxCrashes
  /\ crashes' = crashes + 1
  /\ task' = [task EXCEPT ![s] = [t \in Tasks |-> None]]
  /\ pull' = [pull EXCEPT ![s] = None]
  /\ excused' = excused \cup
       {task[s][t].ip : t \in {u \in Tasks : /\ task[s][u] # None
                                             /\ task[s][u].at = "create"}}
  /\ UNCHANGED <<rows, reserved, cursor, clock, horizon, claim>>

----------------------------------------------------------------------------
(* The lease feed *)

Key(r) == <<r.upd, r.ip>>
Before(a, b) == a[1] < b[1] \/ (a[1] = b[1] /\ a[2] < b[2])

\* dhcp_lease_feed on the primary: the first rows above the cursor.
Page(c) ==
  LET above == {r \in rows[0] : Before(c, Key(r))}
  IN {r \in above : Cardinality({q \in above : Before(Key(q), Key(r))}) < FeedLimit}

\* dhcp_pull_once reads its cursor and fetches a page.
Fetch(s) ==
  /\ pull[s] = None
  /\ Page(cursor[s]) # {}
  /\ pull' = [pull EXCEPT ![s] =
       [todo |-> Page(cursor[s]), row |-> None, at |-> "check",
        next |-> CHOOSE k \in {Key(r) : r \in Page(cursor[s])} :
                   \A r \in Page(cursor[s]) : ~Before(k, Key(r))]]
  /\ UNCHANGED <<rows, reserved, task, cursor, clock, horizon, claim, excused, crashes>>

\* apply_replicated_lease: skip the row if the address has one as new (of
\* several rows the store returns any), else go on to the upsert.
ApplyCheck(s, r) ==
  /\ pull[s] # None
  /\ pull[s].at = "check"
  /\ r \in pull[s].todo
  /\ \A q \in pull[s].todo : ~Before(Key(q), Key(r))
  /\ LET here == {q \in rows[s] : q.ip = r.ip}
         rest == pull[s].todo \ {r}
     IN \/ /\ \E q \in here : q.upd >= r.upd
           /\ pull' = [pull EXCEPT ![s].todo = rest]
        \/ /\ here = {} \/ \E q \in here : q.upd < r.upd
           /\ pull' = [pull EXCEPT ![s] =
                [todo |-> rest, row |-> r, at |-> "delete", next |-> @.next]]
  /\ UNCHANGED <<rows, reserved, task, cursor, clock, horizon, claim, excused, crashes>>

ApplyDelete(s) ==
  /\ pull[s] # None
  /\ pull[s].at = "delete"
  /\ rows' = [rows EXCEPT ![s] = {q \in @ : q.ip # pull[s].row.ip}]
  /\ pull' = [pull EXCEPT ![s].at = "create"]
  /\ UNCHANGED <<reserved, task, cursor, clock, horizon, claim, excused, crashes>>

ApplyCreate(s) ==
  /\ pull[s] # None
  /\ pull[s].at = "create"
  /\ rows' = [rows EXCEPT ![s] = @ \cup {pull[s].row}]
  /\ pull' = [pull EXCEPT ![s] =
       [todo |-> @.todo, row |-> None, at |-> "check", next |-> @.next]]
  /\ UNCHANGED <<reserved, task, cursor, clock, horizon, claim, excused, crashes>>

\* set_dhcp_repl_cursor, once every row of the page is applied.
SetCursor(s) ==
  /\ pull[s] # None
  /\ pull[s].at = "check"
  /\ pull[s].todo = {}
  /\ cursor' = [cursor EXCEPT ![s] = pull[s].next]
  /\ pull' = [pull EXCEPT ![s] = None]
  /\ UNCHANGED <<rows, reserved, task, clock, horizon, claim, excused, crashes>>

----------------------------------------------------------------------------
Init ==
  /\ rows = [s \in Servers |-> {}]
  /\ reserved = [s \in Servers |-> {}]
  /\ task = [s \in Servers |-> [t \in Tasks |-> None]]
  /\ pull = [s \in Servers |-> None]
  /\ cursor = [s \in Servers |-> <<0, 0>>]
  /\ clock = 0
  /\ horizon = 0
  /\ claim = [c \in Clients |-> None]
  /\ excused = {}
  /\ crashes = 0

Next ==
  \/ \E s \in Servers, t \in Tasks :
       \/ \E c \in Clients, kind \in {"discover", "request"}, want \in Addrs \cup {None} :
            Receive(s, t, c, kind, want)
       \/ Delete(s, t)
       \/ Create(s, t)
  \/ \E s \in Servers, c \in Clients, a \in Addrs : Release(s, c, a)
  \/ \E s \in Servers :
       \/ Sweep(s)
       \/ Crash(s)
       \/ \E p \in Reservable : CreateReservation(s, p) \/ DeleteReservation(s, p)
  \/ \E s \in Servers \ {0} :
       \/ Fetch(s)
       \/ \E r \in rows[0] \cup (IF pull[s] = None THEN {} ELSE pull[s].todo) : ApplyCheck(s, r)
       \/ ApplyDelete(s)
       \/ ApplyCreate(s)
       \/ SetCursor(s)
  \/ Elapse

\* The sweep is a timer loop of its own.
Spec == Init /\ [][Next]_vars /\ \A s \in Servers : WF_vars(Sweep(s))

----------------------------------------------------------------------------
(* Properties *)

\* A datagram task, and a page that is being applied.
TaskState == [at : {"delete", "create"}, kind : {"discover", "request"}, mac : Clients,
              ip : Addrs, stamp : 1 .. clock]
IsPull(p) ==
  /\ p = [todo |-> p.todo, row |-> p.row, at |-> p.at, next |-> p.next]
  /\ p.todo \subseteq Rows
  /\ p.at \in {"check", "delete", "create"}
  /\ p.at # "check" => p.row \in Rows

\* Type correctness: no lease, task or page is stamped ahead of the clock.
TypeOK ==
  /\ rows \in [Servers -> SUBSET Rows]
  /\ reserved \in [Servers -> SUBSET (Clients \X Addrs)]
  /\ clock \in Nat /\ horizon \in 0 .. clock
  /\ task \in [Servers -> [Tasks -> {None} \cup TaskState]]
  /\ DOMAIN pull = Servers /\ \A s \in Servers : pull[s] = None \/ IsPull(pull[s])
  /\ claim \in [Clients -> {None} \cup [ip : Addrs, start : 1 .. clock]]
  /\ excused \subseteq Addrs

\* Two clients are never acknowledged one address at the same time (lease time
\* not run out, not given up), except for an address that was once: reserved
\* while leased; handed out outside the server's slice (a requested address and
\* a renewal are honoured over the whole range); chosen by two tasks at once,
\* be it for two datagrams of one client;
\* released by a datagram its holder did not mean (the sender of a RELEASE is
\* not compared with the holder, and a late copy counts); or left without a row
\* by a crash inside upsert_lease. There is no other way.
Exclusive ==
  \A c, d \in Clients :
    /\ c # d
    /\ claim[c] # None /\ claim[d] # None
    /\ claim[c].start > horizon /\ claim[d].start > horizon
    /\ claim[c].ip = claim[d].ip
    => claim[c].ip \in excused

\* The leases are well formed, and exclusive but for those ways.
LeasesExclusive == TypeOK /\ Exclusive

\* No lease of server s that has run out holds its address.
Swept(s) == \A r \in rows[s] : Holds(r) => r.start > horizon

\* A lease whose time has run out stops holding its address: the sweep gets it,
\* also when the feed or a slow task writes it back after a sweep.
StaleFreed == \A s \in Servers : []<>Swept(s)
=============================================================================
