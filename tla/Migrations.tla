----------------------------- MODULE Migrations -----------------------------
(* Opening a store that several nodes share: the idempotent baseline, then the  *)
(* migrations that must run once, in order, under an advisory lock that is      *)
(* stolen when it looks abandoned.                                              *)
EXTENDS Naturals, FiniteSets

CONSTANTS
  Nodes,        \* the processes that open the store
  Migrations,   \* how many migrations the list has: their ids are 1 .. Migrations
  Stale,        \* LOCK_STALE_SECS
  MaxTime,      \* bound on the clock
  MaxFaults     \* bound on crashes and failing statements

VARIABLES
  now,          \* the clock of the nodes
  version,      \* schema_meta:current, 0 while there is none
  lock,         \* held_at of schema_migration_lock:lock, or NoLock
  holder,       \* who created that row (not stored)
  done,         \* the migrations whose statements were applied
  node,         \* where each node is
  outlasted,    \* history: did a migrator run longer than a lock lasts, and was it seen?
  faults

schemaVars == <<now, version, lock, holder, done, node, outlasted, faults>>

NoLock == MaxTime + 1
Off == [at |-> "off", id |-> 0, since |-> 0]
Target == Migrations
Go(n, at) == node' = [node EXCEPT ![n].at = at]

\* run_migrations: the fast path of an up-to-date store.
UpToDate == version >= Target

Tick ==
  /\ now < MaxTime
  /\ now' = now + 1
  /\ UNCHANGED <<version, lock, holder, done, node, outlasted, faults>>

\* connect_url: open, define the baseline, look at the version.
Connect(n) ==
  /\ node[n].at = "off"
  /\ Go(n, IF UpToDate THEN "up" ELSE "claim")
  /\ UNCHANGED <<now, version, lock, holder, done, outlasted, faults>>

\* The nodes inside run_pending, or on the way out of it.
Migrating == {n \in Nodes : node[n].at \in {"pending", "apply", "record", "release", "giveup"}}

\* Mutant: any lock that is held is taken for abandoned.
AbandonedAtOnce == lock # NoLock

\* claim_migration_lock, its DELETE: a lock that is too old is taken for abandoned.
Abandoned == lock # NoLock /\ lock + Stale < now

DropStale(n) ==
  /\ node[n].at = "claim"
  /\ node' = [node EXCEPT ![n] = [at |-> "create", id |-> 0, since |-> now]]
  /\ lock' = IF Abandoned THEN NoLock ELSE lock
  /\ outlasted' = (outlasted \/ (lock # NoLock /\ lock + Stale < now /\ holder \in Migrating))
  /\ UNCHANGED <<now, version, holder, done, faults>>

\* Its CREATE of the fixed id, which fails when the row is there; the time is the one
\* taken before the DELETE.
CreateLock(n) ==
  /\ node[n].at = "create"
  /\ IF lock = NoLock
     THEN lock' = node[n].since /\ holder' = n /\ Go(n, "pending")
     ELSE UNCHANGED <<lock, holder>> /\ Go(n, "wait")
  /\ UNCHANGED <<now, version, done, outlasted, faults>>

\* await_schema_version: poll until the version is there, for as long as a lock lasts.
Await(n) ==
  /\ node[n].at = "wait"
  /\ \/ UpToDate /\ Go(n, "up")
     \/ ~UpToDate /\ now > node[n].since + Stale /\ node' = [node EXCEPT ![n] = Off]
  /\ UNCHANGED <<now, version, lock, holder, done, outlasted, faults>>

\* run_pending reads the version again, under the lock.
Reread(n) ==
  /\ node[n].at = "pending"
  /\ node' = [node EXCEPT ![n].at = IF UpToDate THEN "release" ELSE "apply",
                          ![n].id = IF UpToDate THEN 0 ELSE version + 1]
  /\ UNCHANGED <<now, version, lock, holder, done, outlasted, faults>>

\* The statements of one migration.
Statements(n) ==
  /\ node[n].at = "apply"
  /\ done' = done \cup {node[n].id}
  /\ Go(n, "record")
  /\ UNCHANGED <<now, version, lock, holder, outlasted, faults>>

\* A statement fails: the error is returned after the release, and the node does not
\* come up.
StatementFails(n) ==
  /\ node[n].at = "apply"
  /\ faults < MaxFaults
  /\ faults' = faults + 1
  /\ Go(n, "giveup")
  /\ UNCHANGED <<now, version, lock, holder, done, outlasted>>

\* set_schema_version: one UPSERT after the statements.
Record(n) ==
  /\ node[n].at = "record"
  /\ version' = node[n].id
  /\ node' = [node EXCEPT ![n].at = IF node[n].id = Target THEN "release" ELSE "apply",
                          ![n].id = IF @ = Target THEN @ ELSE @ + 1]
  /\ UNCHANGED <<now, lock, holder, done, outlasted, faults>>

\* release_migration_lock deletes the row, whoever made it.
Release(n) ==
  /\ node[n].at \in {"release", "giveup"}
  /\ lock' = NoLock
  /\ node' = [node EXCEPT ![n] = IF @.at = "release" THEN [Off EXCEPT !.at = "up"] ELSE Off]
  /\ UNCHANGED <<now, version, holder, done, outlasted, faults>>

NodeCrash(n) ==
  /\ node[n].at # "off"
  /\ faults < MaxFaults
  /\ faults' = faults + 1
  /\ node' = [node EXCEPT ![n] = Off]
  /\ UNCHANGED <<now, version, lock, holder, done, outlasted>>

SchemaInit ==
  /\ now = 0 /\ version = 0 /\ lock = NoLock
  /\ holder \in Nodes
  /\ done = {}
  /\ node = [n \in Nodes |-> Off]
  /\ outlasted = FALSE /\ faults = 0

SchemaNext ==
  \/ Tick
  \/ \E n \in Nodes :
       \/ Connect(n) \/ DropStale(n) \/ CreateLock(n) \/ Await(n) \/ Reread(n)
       \/ Statements(n) \/ StatementFails(n) \/ Record(n) \/ Release(n) \/ NodeCrash(n)

SchemaSpec == SchemaInit /\ [][SchemaNext]_schemaVars

----------------------------------------------------------------------------
Places == {"off", "claim", "create", "wait", "pending", "apply", "record", "release",
           "giveup", "up"}

SchemaTypeOK ==
  /\ now \in 0 .. MaxTime /\ version \in 0 .. Target /\ lock \in 0 .. NoLock
  /\ holder \in Nodes /\ done \subseteq 1 .. Target /\ outlasted \in BOOLEAN
  /\ node \in [Nodes -> [at : Places, id : 0 .. Target, since : 0 .. MaxTime]]
  /\ faults \in Nat

\* A node that serves has the whole schema, whoever migrated it, through crashes between
\* a statement and its version, failing statements and stolen locks; and what the version
\* says was applied was.
SchemaWhole ==
  /\ \A n \in Nodes : node[n].at = "up" => done = 1 .. Target
  /\ 1 .. version \subseteq done

\* "A single node migrates while the others wait": two run at once only after a migrator
\* outlived its lock.
OneMigrator == Cardinality(Migrating) > 1 => outlasted

\* What opening one store from several nodes promises.
SchemaServed == SchemaTypeOK /\ SchemaWhole /\ OneMigrator
=============================================================================
