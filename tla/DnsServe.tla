------------------------------ MODULE DnsServe ------------------------------
(* Answering in the DNS service: the slots for queries in flight, the snapshot *)
(* cache that they share, secured dynamic updates that must show at once, and  *)
(* the cache of forwarded answers.                                             *)
EXTENDS Integers, FiniteSets, TLC

CONSTANTS
  Tasks,        \* spawned handlers
  Slots,        \* MAX_INFLIGHT_QUERIES
  Zones,        \* zones of the store; each holds the rows <<zone, change>>
  Changes,      \* dynamic updates, each of one row in every zone
  Foreign,      \* questions outside the zones
  Entries       \* MAX_ENTRIES of the cache of forwarded answers

VARIABLES
  rows,         \* the rows of the store
  cache,        \* SnapshotCache: at = "none", "fresh" or "stale" (past SNAPSHOT_TTL)
  lock,         \* the task with the write lock of the cache, or Nobody
  task,         \* task[t]: where handler t is
  acked,        \* the updates answered with NOERROR
  fwd           \* DnsCache: question -> TRUE while its TTL runs

vars == <<rows, cache, lock, task, acked, fwd>>

Nobody == "none"
Idle == [at |-> "idle"]
Inflight == {t \in Tasks : task[t] # Idle}
Go(t, r) == task' = [task EXCEPT ![t] = r]
Move(t, place) == Go(t, [task[t] EXCEPT !.at = place])
Rest == <<rows, cache, lock, acked, fwd>>

\* A query is asked of the zones or of a foreign name; asked remembers which
\* updates had been answered when it came in.
Query(place, q) == [at |-> place, q |-> q, asked |-> acked, snap |-> {}, left |-> {}]

----------------------------------------------------------------------------
(* Intake *)

\* run: a datagram that finds a free permit; without one it is dropped.
Datagram(t, q) ==
  /\ task[t] = Idle
  /\ Cardinality(Inflight) < Slots
  /\ Go(t, Query("get", q))
  /\ UNCHANGED Rest

\* run: a connection, which holds its permit while it delivers the query.
Connect(t, q) ==
  /\ task[t] = Idle
  /\ Cardinality(Inflight) < Slots
  /\ Go(t, Query("read", q))
  /\ UNCHANGED Rest

\* handle_tcp: the query came in time, or TCP_QUERY_TIMEOUT ends the connection.
Read(t) ==
  /\ task[t].at = "read"
  /\ \/ Move(t, "get")
     \/ Go(t, Idle)
  /\ UNCHANGED Rest

----------------------------------------------------------------------------
(* SnapshotCache::get and load_snapshot *)

\* The look under the read lock.
Look(t) ==
  /\ task[t].at = "get"
  /\ lock = Nobody
  /\ IF cache.at = "fresh"
       THEN Go(t, [task[t] EXCEPT !.at = "resolve", !.snap = cache.snap])
       ELSE Move(t, "want")
  /\ UNCHANGED Rest

\* Faulty variant: the snapshot is built before the write lock is taken.
LockLate(t) ==
  /\ task[t].at = "want"
  /\ Go(t, [task[t] EXCEPT !.at = "load", !.left = Zones])
  /\ UNCHANGED Rest

\* The write lock, and the second look that lets one of a herd do the work.
Lock(t) ==
  /\ task[t].at = "want"
  /\ lock = Nobody
  /\ IF cache.at = "fresh"
       THEN /\ Go(t, [task[t] EXCEPT !.at = "resolve", !.snap = cache.snap])
            /\ UNCHANGED lock
       ELSE /\ Go(t, [task[t] EXCEPT !.at = "load", !.left = Zones])
            /\ lock' = t
  /\ UNCHANGED <<rows, cache, acked, fwd>>

\* list_records of one zone after another.
LoadZone(t, z) ==
  /\ task[t].at = "load"
  /\ z \in task[t].left
  /\ Go(t, [task[t] EXCEPT !.left = @ \ {z}, !.snap = @ \cup {r \in rows : r[1] = z}])
  /\ UNCHANGED Rest

Loaded(t) ==
  /\ task[t].at = "load"
  /\ task[t].left = {}
  /\ cache' = [at |-> "fresh", snap |-> task[t].snap]
  /\ lock' = Nobody
  /\ Move(t, "resolve")
  /\ UNCHANGED <<rows, acked, fwd>>

\* Faulty variant: the guard outlives the error.
LoadFailsHeld(t) ==
  /\ task[t].at = "load"
  /\ Go(t, Idle)
  /\ UNCHANGED Rest

\* A read fails: the guard is dropped, the old snapshot stays, nothing is answered.
LoadFails(t) ==
  /\ task[t].at = "load"
  /\ lock' = Nobody
  /\ Go(t, Idle)
  /\ UNCHANGED <<rows, cache, acked, fwd>>

\* SNAPSHOT_TTL passes.
Expire ==
  /\ cache.at = "fresh"
  /\ cache' = [cache EXCEPT !.at = "stale"]
  /\ UNCHANGED <<rows, lock, task, acked, fwd>>

----------------------------------------------------------------------------
(* The answer *)

\* resolve_in on the snapshot; REFUSED, for a foreign name, goes on to forward_cached.
Resolve(t) ==
  /\ task[t].at = "resolve"
  /\ \/ task[t].q \notin Foreign /\ Go(t, Idle)
     \/ task[t].q \in Foreign /\ Move(t, "forward")
  /\ UNCHANGED Rest

Without(f, k) == [q \in DOMAIN f \ {k} |-> f[q]]

\* Faulty variant: nothing makes room.
RoomAlways(f) == {f}

\* DnsCache::put makes room: first what has expired, then the entry that would
\* expire first.
Room(f) ==
  LET live == [q \in {k \in DOMAIN f : f[k]} |-> TRUE] IN
    IF Cardinality(DOMAIN f) < Entries THEN {f}
    ELSE IF Cardinality(DOMAIN live) < Entries THEN {live}
    ELSE {Without(live, k) : k \in DOMAIN live}

\* forward_cached: a cached answer; otherwise the first upstream that answers, its
\* answer cached unless its TTL is zero; or REFUSED when every upstream fails.
Forward(t) ==
  /\ task[t].at = "forward"
  /\ LET q == task[t].q
         f == IF q \in DOMAIN fwd /\ ~fwd[q] THEN Without(fwd, q) ELSE fwd
     IN \/ /\ q \in DOMAIN f
           /\ fwd' = f
        \/ /\ q \notin DOMAIN f
           /\ \/ fwd' = f
              \/ \E g \in Room(f) : fwd' = (q :> TRUE) @@ g
  /\ Go(t, Idle)
  /\ UNCHANGED <<rows, cache, lock, acked>>

\* The TTL of a forwarded answer passes.
Lapse(q) ==
  /\ q \in DOMAIN fwd
  /\ fwd[q]
  /\ fwd' = [fwd EXCEPT ![q] = FALSE]
  /\ UNCHANGED <<rows, cache, lock, task, acked>>

----------------------------------------------------------------------------
(* Secured dynamic update *)

\* handle_secured_update: the signature verifies, the prerequisites hold on the
\* records read.
Update(t, c) ==
  /\ task[t] = Idle
  /\ Cardinality(Inflight) < Slots
  /\ \A u \in Inflight : task[u].at = "apply" => task[u].c # c
  /\ \A z \in Zones : <<z, c>> \notin rows
  /\ Go(t, [at |-> "apply", c |-> c, left |-> Zones])
  /\ UNCHANGED Rest

\* apply_one.
ApplyOne(t, z) ==
  /\ task[t].at = "apply"
  /\ z \in task[t].left
  /\ rows' = rows \cup {<<z, task[t].c>>}
  /\ Go(t, [task[t] EXCEPT !.left = @ \ {z}])
  /\ UNCHANGED <<cache, lock, acked, fwd>>

\* A write fails: SERVFAIL; what is applied stays, and the snapshot stays too.
ApplyFails(t) ==
  /\ task[t].at = "apply"
  /\ Go(t, Idle)
  /\ UNCHANGED Rest

\* Faulty variant: the answer does not wait for the snapshot to go.
InvalidateNot(t) ==
  /\ task[t].at = "apply"
  /\ task[t].left = {}
  /\ acked' = acked \cup {task[t].c}
  /\ Go(t, Idle)
  /\ UNCHANGED <<rows, cache, lock, fwd>>

\* NOERROR: invalidate takes the write lock, then the answer leaves.
Invalidate(t) ==
  /\ task[t].at = "apply"
  /\ task[t].left = {}
  /\ lock = Nobody
  /\ cache' = [at |-> "none", snap |-> {}]
  /\ acked' = acked \cup {task[t].c}
  /\ Go(t, Idle)
  /\ UNCHANGED <<rows, lock, fwd>>

----------------------------------------------------------------------------

Init ==
  /\ rows = {}
  /\ cache = [at |-> "none", snap |-> {}]
  /\ lock = Nobody
  /\ task = [t \in Tasks |-> Idle]
  /\ acked = {}
  /\ fwd = <<>>

Step(t) ==
  \/ Read(t) \/ Look(t) \/ Lock(t) \/ Loaded(t) \/ LoadFails(t)
  \/ Resolve(t) \/ Forward(t) \/ ApplyFails(t) \/ Invalidate(t)
  \/ \E z \in Zones : LoadZone(t, z) \/ ApplyOne(t, z)

Next ==
  \/ \E t \in Tasks, q \in Foreign \cup {"local"} : Datagram(t, q) \/ Connect(t, q)
  \/ \E t \in Tasks, c \in Changes : Update(t, c)
  \/ \E t \in Tasks : Step(t)
  \/ \E q \in Foreign : Lapse(q)
  \/ Expire

\* tokio polls a handler that can go on, and its RwLock queues in order, so a
\* handler that wants the lock again and again gets it.
Fairness == \A t \in Tasks : SF_vars(Step(t))

Spec == Init /\ [][Next]_vars /\ Fairness

----------------------------------------------------------------------------
(* Properties *)

TypeOK ==
  /\ rows \subseteq Zones \X Changes
  /\ cache.at \in {"none", "fresh", "stale"} /\ cache.snap \subseteq rows
  /\ lock \in Tasks \cup {Nobody}
  /\ \A t \in Tasks : task[t].at \in {"idle", "read", "get", "want", "load", "resolve", "forward", "apply"}
  /\ acked \subseteq Changes
  /\ DOMAIN fwd \subseteq Foreign

\* A query that comes in after a dynamic update was answered sees every row of it,
\* whatever loads and updates overlapped: a load that had read its zones before
\* the update ends before invalidate gets the lock, so it cannot put its old
\* snapshot back (handle_secured_update, SnapshotCache::get).
UpdateSeen ==
  \A t \in Tasks : task[t].at = "resolve" => Zones \X task[t].asked \subseteq task[t].snap

\* The cache of forwarded answers never outgrows MAX_ENTRIES, however the answers
\* and their TTLs interleave (DnsCache::put).
CacheBounded == Cardinality(DOMAIN fwd) <= Entries

\* Handler t is not running.
Free(t) == task[t].at = "idle"

\* Every handler comes to its end and gives its slot back: the lock is always
\* released, also when the load under it fails.
SlotsReturn == \A t \in Tasks : []<>Free(t)
=============================================================================
