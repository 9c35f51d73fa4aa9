---------------------------- MODULE StoreProofs ----------------------------
(* Proofs about the store: its schema (Migrations), its tables of rows and of   *)
(* settings (Tables, Settings), the files of SYSVOL (Sysvol) and the SMB        *)
(* connection that serves them (SmbConnection), for any nodes, callers, rows,   *)
(* files, pages and faults.                                                     *)
EXTENDS Migrations, Settings, SmbConnection, Integers, FiniteSetTheorems, TLAPS

(* The schema.                                                                *)

\* How a store is configured: the list of migrations and the lease of the lock.
SchemaConfigured == Migrations \in Nat /\ Stale \in Nat /\ MaxTime \in Nat /\ MaxFaults \in Nat

\* What a node on its way has reason to rely on: the migrations before the one it is at
\* were applied, and all of them when it is through.
Progress ==
  \A n \in Nodes :
    /\ node[n].at = "apply" => node[n].id \in 1 .. Target /\ 1 .. node[n].id - 1 \subseteq done
    /\ node[n].at = "record" => node[n].id \in 1 .. Target /\ 1 .. node[n].id \subseteq done
    /\ node[n].at \in {"release", "up"} => done = 1 .. Target

\* As long as no migrator outlived its lock, the one that migrates holds the lock.
HolderMigrates == ~outlasted => \A n \in Migrating : lock # NoLock /\ holder = n

SchemaInv == SchemaTypeOK /\ 1 .. version \subseteq done /\ Progress /\ HolderMigrates

LEMMA SchemaInitInv == ASSUME SchemaConfigured PROVE SchemaInit => SchemaInv
<1> SUFFICES ASSUME SchemaInit PROVE SchemaInv
  OBVIOUS
<1>1. SchemaTypeOK
  <2>1. Off \in [at : Places, id : 0 .. Target, since : 0 .. MaxTime]
    BY DEF SchemaConfigured, Off, Target, Places
  <2>2. outlasted \in BOOLEAN
    BY DEF SchemaInit
  <2>3. node \in [Nodes -> [at : Places, id : 0 .. Target, since : 0 .. MaxTime]]
    BY <2>1 DEF SchemaInit
  <2>4. now \in 0 .. MaxTime /\ version \in 0 .. Target /\ lock \in 0 .. NoLock /\ faults \in Nat
    BY DEF SchemaConfigured, SchemaInit, NoLock, Target
  <2> QED BY <2>2, <2>3, <2>4 DEF SchemaInit, SchemaTypeOK
<1>2. 1 .. version \subseteq done
  BY DEF SchemaInit
<1>3. Progress
  BY DEF SchemaInit, Off, Progress
<1>4. HolderMigrates
  BY DEF SchemaInit, Off, HolderMigrates, Migrating
<1> QED BY <1>1, <1>2, <1>3, <1>4 DEF SchemaInv

\* A node that moves to a place and a migration: the others stay where they are.
LEMMA NodeMoves ==
  ASSUME SchemaTypeOK, NEW n \in Nodes, NEW at \in Places, NEW id \in 0 .. Target,
         node' = [node EXCEPT ![n].at = at, ![n].id = id]
  PROVE  /\ node' \in [Nodes -> [at : Places, id : 0 .. Target, since : 0 .. MaxTime]]
         /\ node'[n].at = at /\ node'[n].id = id
         /\ \A m \in Nodes \ {n} : node'[m] = node[m]
BY DEF SchemaTypeOK

\* Type correctness is inductive.
LEMMA SchemaTypeStep == ASSUME SchemaConfigured, SchemaTypeOK, Progress, [SchemaNext]_schemaVars PROVE SchemaTypeOK'
<1> USE DEF SchemaConfigured, SchemaTypeOK, NoLock, Target, Places
<1>1. CASE UNCHANGED schemaVars
  BY <1>1 DEF schemaVars
<1>2. CASE Tick
  BY <1>2 DEF Tick
<1>3. ASSUME NEW n \in Nodes, Connect(n) PROVE SchemaTypeOK'
  BY <1>3 DEF Connect, Go
<1>4. ASSUME NEW n \in Nodes, DropStale(n) PROVE SchemaTypeOK'
  <2>1. outlasted' \in BOOLEAN
    BY <1>4, Zenon DEF DropStale
  <2> QED BY <1>4, <2>1 DEF DropStale
<1>5. ASSUME NEW n \in Nodes, CreateLock(n) PROVE SchemaTypeOK'
  BY <1>5 DEF CreateLock, Go
<1>6. ASSUME NEW n \in Nodes, Await(n) PROVE SchemaTypeOK'
  BY <1>6 DEF Await, Go, Off
<1>7. ASSUME NEW n \in Nodes, Reread(n) PROVE SchemaTypeOK'
  <2> DEFINE at == IF UpToDate THEN "release" ELSE "apply"
  <2> DEFINE id == IF UpToDate THEN 0 ELSE version + 1
  <2>1. at \in Places /\ id \in 0 .. Target
    BY DEF UpToDate
  <2>2. node' = [node EXCEPT ![n].at = at, ![n].id = id]
    BY <1>7 DEF Reread
  <2> HIDE DEF at, id
  <2>3. node' \in [Nodes -> [at : Places, id : 0 .. Target, since : 0 .. MaxTime]]
    BY <2>1, <2>2, NodeMoves
  <2> QED BY <1>7, <2>3 DEF Reread
<1>8. ASSUME NEW n \in Nodes, Statements(n) PROVE SchemaTypeOK'
  BY <1>8 DEF Statements, Go, Progress
<1>9. ASSUME NEW n \in Nodes, StatementFails(n) PROVE SchemaTypeOK'
  BY <1>9 DEF StatementFails, Go
<1>10. ASSUME NEW n \in Nodes, Record(n) PROVE SchemaTypeOK'
  <2> DEFINE at == IF node[n].id = Target THEN "release" ELSE "apply"
  <2> DEFINE id == IF node[n].id = Target THEN node[n].id ELSE node[n].id + 1
  <2>1. at \in Places /\ id \in 0 .. Target
    BY <1>10 DEF Record, Progress
  <2>2. node' = [node EXCEPT ![n].at = at, ![n].id = id]
    BY <1>10 DEF Record
  <2> HIDE DEF at, id
  <2>3. node' \in [Nodes -> [at : Places, id : 0 .. Target, since : 0 .. MaxTime]]
    BY <2>1, <2>2, NodeMoves
  <2> QED BY <1>10, <2>3 DEF Record, Progress
<1>11. ASSUME NEW n \in Nodes, Release(n) PROVE SchemaTypeOK'
  BY <1>11 DEF Release, Off
<1>12. ASSUME NEW n \in Nodes, NodeCrash(n) PROVE SchemaTypeOK'
  BY <1>12 DEF NodeCrash, Off
<1> QED BY <1>1, <1>2, <1>3, <1>4, <1>5, <1>6, <1>7, <1>8, <1>9, <1>10, <1>11, <1>12 DEF SchemaNext

\* The version and what the nodes rely on: statements are never undone, so a fact about
\* one node survives the steps of the others.
LEMMA ProgressStep ==
  ASSUME SchemaConfigured, SchemaTypeOK, SchemaTypeOK', 1 .. version \subseteq done, Progress, [SchemaNext]_schemaVars
  PROVE  1 .. version' \subseteq done' /\ Progress'
<1> USE DEF SchemaConfigured, Target
<1>0. \A n \in Nodes : node[n].id \in Nat
  BY DEF SchemaTypeOK
<1>u. ASSUME UpToDate PROVE done = 1 .. Target
  <2>1. version = Migrations
    BY <1>u DEF UpToDate, SchemaTypeOK
  <2> QED BY <2>1 DEF SchemaTypeOK
<1>1. CASE UNCHANGED schemaVars
  BY <1>1 DEF schemaVars, Progress
<1>2. CASE Tick
  BY <1>2 DEF Tick, Progress
<1>3. ASSUME NEW n \in Nodes, Connect(n) PROVE 1 .. version' \subseteq done' /\ Progress'
  <2>1. CASE UpToDate
    BY <1>3, <1>u, <2>1, SMTT(60) DEF Connect, Go, Progress, SchemaTypeOK
  <2>2. CASE ~UpToDate
    BY <1>3, <2>2 DEF Connect, Go, Progress, SchemaTypeOK
  <2> QED BY <2>1, <2>2
<1>4. ASSUME NEW n \in Nodes, DropStale(n) PROVE 1 .. version' \subseteq done' /\ Progress'
  BY <1>4 DEF DropStale, Progress, SchemaTypeOK
<1>5. ASSUME NEW n \in Nodes, CreateLock(n) PROVE 1 .. version' \subseteq done' /\ Progress'
  <2>1. node' = [node EXCEPT ![n].at = "pending"] \/ node' = [node EXCEPT ![n].at = "wait"]
    BY <1>5 DEF CreateLock, Go
  <2>2. node'[n].at \in {"pending", "wait"} /\ \A m \in Nodes \ {n} : node'[m] = node[m]
    BY <2>1 DEF SchemaTypeOK
  <2> QED BY <1>5, <2>2 DEF CreateLock, Progress
<1>6. ASSUME NEW n \in Nodes, Await(n) PROVE 1 .. version' \subseteq done' /\ Progress'
  <2>1. \/ UpToDate /\ node' = [node EXCEPT ![n].at = "up"]
        \/ node' = [node EXCEPT ![n] = Off]
    BY <1>6 DEF Await, Go
  <2>2. /\ (node'[n].at = "up" /\ UpToDate) \/ node'[n].at = "off"
        /\ \A m \in Nodes \ {n} : node'[m] = node[m]
    BY <2>1 DEF Off, SchemaTypeOK
  <2> QED BY <1>6, <1>u, <2>2 DEF Await, Progress
<1>7. ASSUME NEW n \in Nodes, Reread(n) PROVE 1 .. version' \subseteq done' /\ Progress'
  <2> DEFINE at == IF UpToDate THEN "release" ELSE "apply"
  <2> DEFINE id == IF UpToDate THEN 0 ELSE version + 1
  <2>1. at \in Places /\ id \in 0 .. Target
    BY DEF UpToDate, Places, SchemaTypeOK
  <2>2. node' = [node EXCEPT ![n].at = at, ![n].id = id]
    BY <1>7 DEF Reread
  <2>3. /\ at = "release" => done = 1 .. Target
        /\ at = "apply" => id \in 1 .. Target /\ 1 .. id - 1 \subseteq done
    BY <1>u, SMTT(60) DEF UpToDate, SchemaTypeOK
  <2>4. at \in {"release", "apply"}
    OBVIOUS
  <2> HIDE DEF at, id
  <2>5. /\ node'[n].at = at /\ node'[n].id = id
        /\ \A m \in Nodes \ {n} : node'[m] = node[m]
    BY <2>2 DEF SchemaTypeOK
  <2> QED BY <1>7, <2>3, <2>4, <2>5 DEF Reread, Progress
<1>8. ASSUME NEW n \in Nodes, Statements(n) PROVE 1 .. version' \subseteq done' /\ Progress'
  <2>1. /\ node[n].id \in 1 .. Target /\ 1 .. node[n].id - 1 \subseteq done
        /\ done' = done \cup {node[n].id} /\ done \subseteq 1 .. Target
        /\ version' = version
    BY <1>8 DEF Statements, Progress, SchemaTypeOK
  <2>2. 1 .. node[n].id \subseteq done'
    BY <2>1
  <2> QED BY <1>0, <1>8, <2>1, <2>2 DEF Statements, Go, Progress, SchemaTypeOK
<1>9. ASSUME NEW n \in Nodes, StatementFails(n) PROVE 1 .. version' \subseteq done' /\ Progress'
  BY <1>9 DEF StatementFails, Go, Progress, SchemaTypeOK
<1>10. ASSUME NEW n \in Nodes, Record(n) PROVE 1 .. version' \subseteq done' /\ Progress'
  <2>1. /\ node[n].id \in 1 .. Target /\ 1 .. node[n].id \subseteq done
        /\ version' = node[n].id /\ done' = done /\ done \subseteq 1 .. Target
    BY <1>10 DEF Record, Progress, SchemaTypeOK
  <2>2. CASE node[n].id = Target
    BY <1>10, <2>1, <2>2 DEF Record, Progress, SchemaTypeOK
  <2>3. CASE node[n].id # Target
    <3>1. node' = [node EXCEPT ![n].at = "apply", ![n].id = node[n].id + 1]
      BY <1>10, <2>3 DEF Record, SchemaTypeOK
    <3>2. (node[n].id + 1) - 1 = node[n].id /\ node[n].id + 1 \in 1 .. Target
      BY <2>1, <2>3
    <3> QED BY <2>1, <3>1, <3>2 DEF Progress, SchemaTypeOK
  <2> QED BY <2>2, <2>3
<1>11. ASSUME NEW n \in Nodes, Release(n) PROVE 1 .. version' \subseteq done' /\ Progress'
  BY <1>11 DEF Release, Off, Progress, SchemaTypeOK
<1>12. ASSUME NEW n \in Nodes, NodeCrash(n) PROVE 1 .. version' \subseteq done' /\ Progress'
  BY <1>12 DEF NodeCrash, Off, Progress, SchemaTypeOK
<1> QED BY <1>1, <1>2, <1>3, <1>4, <1>5, <1>6, <1>7, <1>8, <1>9, <1>10, <1>11, <1>12 DEF SchemaNext

\* The lock: it is dropped only when it is stale, by then its holder has stopped or
\* outlived it; and only the one who migrates releases it.
LEMMA HolderStep ==
  ASSUME SchemaConfigured, SchemaTypeOK, SchemaTypeOK', HolderMigrates, [SchemaNext]_schemaVars
  PROVE  HolderMigrates'
<1> SUFFICES ASSUME ~outlasted', NEW m \in Migrating' PROVE lock' # NoLock /\ holder' = m
  BY DEF HolderMigrates, NoLock
<1> USE DEF SchemaConfigured
<1>0. m \in Nodes /\ node'[m].at \in {"pending", "apply", "record", "release", "giveup"}
  BY DEF Migrating
<1>a. ASSUME UNCHANGED <<lock, holder>>, ~outlasted, m \in Migrating
      PROVE  lock' # NoLock /\ holder' = m
  BY <1>a DEF HolderMigrates
<1>1. CASE UNCHANGED schemaVars
  BY <1>0, <1>1, <1>a DEF schemaVars, Migrating
<1>2. CASE Tick
  BY <1>0, <1>2, <1>a DEF Tick, Migrating
<1>3. ASSUME NEW n \in Nodes, Connect(n) PROVE lock' # NoLock /\ holder' = m
  <2>1. m \in Migrating
    BY <1>0, <1>3 DEF Connect, Go, Migrating, SchemaTypeOK
  <2> QED BY <1>3, <1>a, <2>1 DEF Connect
<1>4. ASSUME NEW n \in Nodes, DropStale(n) PROVE lock' # NoLock /\ holder' = m
  <2>1. m \in Migrating
    BY <1>0, <1>4 DEF DropStale, Migrating, SchemaTypeOK
  <2>2. ~outlasted /\ ~(lock # NoLock /\ lock + Stale < now /\ holder \in Migrating)
    BY <1>4, Zenon DEF DropStale
  <2>3. lock # NoLock /\ holder = m
    BY <2>1, <2>2 DEF HolderMigrates
  <2>4. ~Abandoned
    BY <2>1, <2>2, <2>3 DEF Abandoned
  <2> QED BY <1>4, <2>3, <2>4 DEF DropStale
<1>5. ASSUME NEW n \in Nodes, CreateLock(n) PROVE lock' # NoLock /\ holder' = m
  <2>1. ~outlasted /\ node[n].since \in 0 .. MaxTime
    BY <1>5 DEF CreateLock, SchemaTypeOK
  <2>2. CASE lock = NoLock
    <3>1. m \notin Migrating
      BY <2>1, <2>2 DEF HolderMigrates
    <3>2. m = n
      BY <1>0, <1>5, <2>2, <3>1 DEF CreateLock, Go, Migrating, SchemaTypeOK
    <3> QED BY <1>5, <2>1, <2>2, <3>2 DEF CreateLock, NoLock
  <2>3. CASE lock # NoLock
    <3>1. m \in Migrating
      BY <1>0, <1>5, <2>3 DEF CreateLock, Go, Migrating, SchemaTypeOK
    <3> QED BY <1>5, <1>a, <2>1, <2>3, <3>1 DEF CreateLock
  <2> QED BY <2>2, <2>3
<1>6. ASSUME NEW n \in Nodes, Await(n) PROVE lock' # NoLock /\ holder' = m
  <2>1. m \in Migrating
    BY <1>0, <1>6 DEF Await, Go, Off, Migrating, SchemaTypeOK
  <2> QED BY <1>6, <1>a, <2>1 DEF Await
<1>7. ASSUME NEW n \in Nodes, Reread(n) PROVE lock' # NoLock /\ holder' = m
  <2>1. m \in Migrating
    BY <1>0, <1>7 DEF Reread, Migrating, SchemaTypeOK
  <2> QED BY <1>7, <1>a, <2>1 DEF Reread
<1>8. ASSUME NEW n \in Nodes, Statements(n) PROVE lock' # NoLock /\ holder' = m
  <2>1. m \in Migrating
    BY <1>0, <1>8 DEF Statements, Go, Migrating, SchemaTypeOK
  <2> QED BY <1>8, <1>a, <2>1 DEF Statements
<1>9. ASSUME NEW n \in Nodes, StatementFails(n) PROVE lock' # NoLock /\ holder' = m
  <2>1. m \in Migrating
    BY <1>0, <1>9 DEF StatementFails, Go, Migrating, SchemaTypeOK
  <2> QED BY <1>9, <1>a, <2>1 DEF StatementFails
<1>10. ASSUME NEW n \in Nodes, Record(n) PROVE lock' # NoLock /\ holder' = m
  <2>1. m \in Migrating
    BY <1>0, <1>10 DEF Record, Migrating, SchemaTypeOK
  <2> QED BY <1>10, <1>a, <2>1 DEF Record
<1>11. ASSUME NEW n \in Nodes, Release(n) PROVE lock' # NoLock /\ holder' = m
  <2>1. m # n /\ m \in Migrating /\ n \in Migrating /\ ~outlasted
    BY <1>0, <1>11 DEF Release, Off, Migrating, SchemaTypeOK
  <2> QED BY <2>1 DEF HolderMigrates
<1>12. ASSUME NEW n \in Nodes, NodeCrash(n) PROVE lock' # NoLock /\ holder' = m
  <2>1. m \in Migrating
    BY <1>0, <1>12 DEF NodeCrash, Off, Migrating, SchemaTypeOK
  <2> QED BY <1>12, <1>a, <2>1 DEF NodeCrash
<1> QED BY <1>1, <1>2, <1>3, <1>4, <1>5, <1>6, <1>7, <1>8, <1>9, <1>10, <1>11, <1>12 DEF SchemaNext

\* Every step keeps the inductive invariant.
LEMMA SchemaStep == ASSUME SchemaConfigured PROVE SchemaInv /\ [SchemaNext]_schemaVars => SchemaInv'
BY SchemaTypeStep, ProgressStep, HolderStep DEF SchemaInv

\* The invariant is strong enough.
LEMMA SchemaInvGives == ASSUME SchemaConfigured PROVE SchemaInv => SchemaServed
<1> SUFFICES ASSUME SchemaInv PROVE SchemaServed
  OBVIOUS
<1>1. SchemaTypeOK /\ SchemaWhole
  BY DEF SchemaInv, Progress, SchemaWhole
<1>2. OneMigrator
  <2> SUFFICES ASSUME ~outlasted PROVE ~(Cardinality(Migrating) > 1)
    BY DEF OneMigrator
  <2>1. Migrating \subseteq {holder}
    BY DEF SchemaInv, HolderMigrates
  <2>2. IsFiniteSet({holder}) /\ Cardinality({holder}) = 1
    BY FS_Singleton
  <2>3. Cardinality(Migrating) \in Nat /\ Cardinality(Migrating) <= 1
    BY <2>1, <2>2, FS_Subset, FS_CardinalityType
  <2> QED BY <2>3
<1> QED BY <1>1, <1>2 DEF SchemaServed

\* However many nodes open a store, whoever crashes, loses the lock or fails in a
\* statement, a node that serves has the whole schema, and two nodes migrate at once only
\* after one outlived its lock.
THEOREM SchemaAlwaysServed == ASSUME SchemaConfigured PROVE SchemaSpec => []SchemaServed
BY SchemaInitInv, SchemaStep, SchemaInvGives, PTL DEF SchemaSpec

----------------------------------------------------------------------------
(* The tables of rows.                                                        *)

ParentRows == [id : 1 .. MaxRows, key : Keys]
ChildRows == [id : 1 .. MaxRows, key : Keys, ref : Keys \cup {NoRef}]
Snapshots ==
  [kept : BOOLEAN, parents : SUBSET ParentRows, children : SUBSET ChildRows, torn : BOOLEAN]
RequestPlaces ==
  {"idle", "look parent", "create parent", "find named", "look child", "create child",
   "find new", "update child", "delete child", "read naming", "delete parent",
   "snapshot", "snapshot children", "empty parents", "fill parents", "empty children",
   "fill children"}
RequestsOn == [at : RequestPlaces, key : Keys, ref : Keys \cup {NoRef}, id : Nat]

TableTypes ==
  /\ parents \in SUBSET ParentRows /\ children \in SUBSET ChildRows
  /\ backup \in Snapshots
  /\ request \in [Callers -> RequestsOn]
  /\ raced \in BOOLEAN /\ torn \in BOOLEAN /\ rowsMade \in Nat

\* Keys are unique in the snapshot too, from which a restore fills the tables.
UniqueIn(P, C) ==
  /\ family.parent.indexed => Unique(P)
  /\ family.child.indexed => Unique(C)

\* An id is given once, so that a request which deletes a row by its id deletes the row
\* whose key it has looked for among the rows that name it.
Numbered(P, m) ==
  /\ \A p \in P : p.id <= m
  /\ \A p, q \in P : p.id = q.id => p.key = q.key
Fits(x, P, m) ==
  x.at \in {"read naming", "delete parent"} =>
    x.id <= m /\ \A p \in P : p.id = x.id => p.key = x.key
IdsInv ==
  /\ Numbered(parents \cup backup.parents, rowsMade)
  /\ \A c \in Callers : Fits(request[c], parents \cup backup.parents, rowsMade)

\* While requests come one at a time, what one has found still holds.
Held(P, C) == \A r \in C : \E p \in P : p.key = r.ref
Stage(x, P, C, b, t) ==
  /\ x.at \in {"look child", "create child", "update child"} => \E p \in P : p.key = x.ref
  /\ x.at = "delete parent" => \A r \in C : r.ref # x.key
  /\ x.at = "snapshot children" => b.parents = P /\ b.torn = t
  /\ x.at \in {"empty parents", "fill parents", "empty children", "fill children"} => b.kept
  /\ x.at \in {"fill parents", "empty children", "fill children"} => t
  /\ x.at = "fill parents" => P = {}
  /\ x.at \in {"empty children", "fill children"} => P = b.parents
  /\ x.at = "fill children" => C = {}
RowsSound(P, C, b, t) ==
  /\ ~t => Held(P, C)
  /\ b.kept /\ ~b.torn => Held(b.parents, b.children)

OneByOneInv ==
  ~raced => \A c, d \in Callers : request[c] # NoRequest /\ request[d] # NoRequest => c = d
RefInv ==
  Tight /\ ~raced =>
    /\ RowsSound(parents, children, backup, torn)
    /\ \A c \in Callers : Stage(request[c], parents, children, backup, torn)

TablesInv ==
  TableTypes /\ UniqueIn(parents, children) /\ UniqueIn(backup.parents, backup.children)
  /\ IdsInv /\ OneByOneInv /\ RefInv

LEMMA IdsAre == ASSUME MaxRows \in Nat PROVE \A p \in ParentRows : p.id \in Nat
BY DEF ParentRows

LEMMA ChildIdsAre == ASSUME MaxRows \in Nat PROVE \A p \in ChildRows : p.id \in Nat
BY DEF ChildRows

LEMMA OldIds ==
  ASSUME NEW m \in Nat, NEW n \in Nat, NEW i \in Nat, i <= m, m <= n
  PROVE  i <= n /\ ~(i > m)
OBVIOUS

LEMMA Same == ASSUME NEW m \in Nat, NEW n, n = m PROVE n \in Nat /\ m <= n
OBVIOUS

LEMMA NoRequestIs ==
  /\ NoRequest \in RequestsOn
  /\ NoRequest.at = "idle" /\ NoRequest.key = "a" /\ NoRequest.ref = NoRef /\ NoRequest.id = 0
BY DEF NoRequest, RequestsOn, RequestPlaces, Keys, NoRef

LEMMA TablesInitInv == TablesInit => TablesInv
<1> SUFFICES ASSUME TablesInit PROVE TablesInv
  OBVIOUS
<1>1. /\ parents = {} /\ children = {} /\ torn = FALSE /\ raced = FALSE /\ rowsMade = 0
      /\ backup = [kept |-> FALSE, parents |-> {}, children |-> {}, torn |-> FALSE]
      /\ request = [c \in Callers |-> NoRequest]
  BY DEF TablesInit
<1>2. backup.parents = {} /\ backup.children = {} /\ backup.kept = FALSE
  BY <1>1
<1>3. TableTypes
  BY <1>1, NoRequestIs DEF TableTypes, Snapshots
<1>4. UniqueIn({}, {})
  BY DEF UniqueIn, Unique
<1>5. IdsInv
  BY <1>1, <1>2, NoRequestIs DEF IdsInv, Numbered, Fits
<1>6. OneByOneInv
  BY <1>1 DEF OneByOneInv
<1>7. RefInv
  BY <1>1, <1>2, NoRequestIs DEF RefInv, RowsSound, Held, Stage
<1> QED BY <1>1, <1>2, <1>3, <1>4, <1>5, <1>6, <1>7 DEF TablesInv

\* A step of one request.
Moved(c, x) ==
  /\ x \in RequestsOn
  /\ request' = [request EXCEPT ![c] = x]
  /\ family' = family
RowsTyped ==
  /\ parents' \in SUBSET ParentRows /\ children' \in SUBSET ChildRows
  /\ backup' \in Snapshots /\ torn' \in BOOLEAN /\ rowsMade' \in Nat
  /\ rowsMade <= rowsMade'
NewRows ==
  /\ Numbered(parents' \cup backup'.parents, rowsMade')
  /\ \A p \in parents' \cup backup'.parents :
       p \in parents \cup backup.parents \/ p.id > rowsMade

LEMMA RequestMoves ==
  ASSUME MaxRows \in Nat, TablesInv, NEW c \in Callers, NEW x, Moved(c, x), RowsTyped, NewRows,
         raced' \in BOOLEAN,
         (raced' = raced /\ request[c] # NoRequest)
           \/ (~raced' => ~raced /\ \A d \in Callers \ {c} : request[d] = NoRequest),
         UniqueIn(parents', children'), UniqueIn(backup'.parents, backup'.children),
         Fits(x, parents' \cup backup'.parents, rowsMade'),
         Tight /\ ~raced' =>
           /\ RowsSound(parents', children', backup', torn')
           /\ Stage(x, parents', children', backup', torn')
  PROVE  TablesInv'
<1>1. request \in [Callers -> RequestsOn] /\ rowsMade \in Nat /\ rowsMade' \in Nat
  BY DEF TablesInv, TableTypes, RowsTyped
<1>2. request'[c] = x /\ \A d \in Callers \ {c} : request'[d] = request[d]
  BY <1>1 DEF Moved
<1>3. TableTypes'
  BY <1>1 DEF TableTypes, Moved, RowsTyped
<1>4. UniqueIn(parents, children)' /\ UniqueIn(backup.parents, backup.children)'
  BY DEF UniqueIn, Moved
<1>5. IdsInv'
  <2>1. ASSUME NEW d \in Callers \ {c} PROVE Fits(request[d], parents' \cup backup'.parents, rowsMade')
    <3> SUFFICES ASSUME request[d].at \in {"read naming", "delete parent"}
                 PROVE  /\ request[d].id <= rowsMade'
                        /\ \A p \in parents' \cup backup'.parents :
                             p.id = request[d].id => p.key = request[d].key
      BY DEF Fits
    <3>1. /\ request[d].id <= rowsMade /\ request[d].id \in Nat
          /\ \A p \in parents \cup backup.parents : p.id = request[d].id => p.key = request[d].key
      BY <1>1 DEF TablesInv, IdsInv, Fits, RequestsOn
    <3>2. \A p \in parents' \cup backup'.parents : p.id \in Nat
      <4>1. backup'.parents \in SUBSET ParentRows /\ parents' \in SUBSET ParentRows
        BY DEF RowsTyped, Snapshots
      <4>2. \A p \in ParentRows : p.id \in Nat
        BY IdsAre
      <4> QED BY <4>1, <4>2
    <3>3. request[d].id <= rowsMade'
      <4>1. rowsMade <= rowsMade'
        BY DEF RowsTyped
      <4> QED BY <1>1, <3>1, <4>1, OldIds
    <3>4. ASSUME NEW p \in parents' \cup backup'.parents, p.id = request[d].id
          PROVE  p \in parents \cup backup.parents
      <4>1. ~(p.id > rowsMade)
        BY <1>1, <3>1, <3>4, OldIds, rowsMade <= rowsMade' DEF RowsTyped
      <4> QED BY <4>1 DEF NewRows
    <3> QED BY <3>1, <3>3, <3>4
  <2> QED BY <1>2, <2>1 DEF IdsInv, NewRows
<1>6. ~raced' => ~raced /\ \A d \in Callers \ {c} : request[d] = NoRequest
  BY DEF TablesInv, OneByOneInv
<1>7. OneByOneInv'
  BY <1>2, <1>6 DEF OneByOneInv
<1>8. RefInv'
  <2> SUFFICES ASSUME Tight', ~raced'
               PROVE  /\ RowsSound(parents', children', backup', torn')
                      /\ \A d \in Callers : Stage(request'[d], parents', children', backup', torn')
    BY DEF RefInv
  <2>1. Tight
    BY DEF Tight, Moved
  <2>2. \A d \in Callers \ {c} : Stage(request'[d], parents', children', backup', torn')
    BY <1>2, <1>6, NoRequestIs DEF Stage
  <2> QED BY <1>2, <2>1, <2>2
<1> QED BY <1>3, <1>4, <1>5, <1>7, <1>8 DEF TablesInv

\* The tables as a step finds them.
LEMMA Found ==
  ASSUME MaxRows \in Nat, TablesInv, NEW c \in Callers
  PROVE  /\ parents \in SUBSET ParentRows /\ children \in SUBSET ChildRows /\ rowsMade \in Nat
         /\ backup \in Snapshots /\ raced \in BOOLEAN /\ torn \in BOOLEAN
         /\ backup.parents \in SUBSET ParentRows /\ backup.children \in SUBSET ChildRows
         /\ backup.kept \in BOOLEAN /\ backup.torn \in BOOLEAN
         /\ request[c] \in RequestsOn
         /\ request[c].key \in Keys /\ request[c].ref \in Keys \cup {NoRef} /\ request[c].id \in Nat
         /\ UniqueIn(parents, children) /\ UniqueIn(backup.parents, backup.children)
         /\ Numbered(parents \cup backup.parents, rowsMade)
         /\ Fits(request[c], parents \cup backup.parents, rowsMade)
         /\ Tight /\ ~raced => /\ RowsSound(parents, children, backup, torn)
                               /\ Stage(request[c], parents, children, backup, torn)
BY DEF TablesInv, TableTypes, Snapshots, RequestsOn, IdsInv, RefInv

\* The tables do not change, and the request goes on to x.
LEMMA GoesTo ==
  ASSUME MaxRows \in Nat, TablesInv, NEW c \in Callers, NEW x, Moved(c, x), request[c] # NoRequest,
         UNCHANGED <<parents, children, backup, torn, rowsMade, raced>>,
         Fits(x, parents \cup backup.parents, rowsMade),
         Tight /\ ~raced => Stage(x, parents, children, backup, torn)
  PROVE  TablesInv'
<1>1. RowsTyped /\ raced' \in BOOLEAN
  BY Found DEF RowsTyped
<1>2. NewRows
  BY Found DEF NewRows
<1> QED BY <1>1, <1>2, Found, RequestMoves

LEMMA IdleFits ==
  ASSUME NEW P, NEW C, NEW b, NEW t, NEW m
  PROVE  Fits(NoRequest, P, m) /\ Stage(NoRequest, P, C, b, t)
BY NoRequestIs DEF Fits, Stage

\* A request is over and left the tables alone.
LEMMA Over ==
  ASSUME MaxRows \in Nat, TablesInv, NEW c \in Callers, request[c] # NoRequest, Done(c),
         UNCHANGED <<family, parents, children, backup, torn, rowsMade, raced>>
  PROVE  TablesInv'
<1>1. Moved(c, NoRequest)
  BY NoRequestIs DEF Moved, Done, To
<1> QED BY <1>1, IdleFits, GoesTo

----------------------------------------------------------------------------
\* The first statement of a request.
LEMMA BeginRequestStep ==
  ASSUME MaxRows \in Nat, TablesInv, NEW c \in Callers, NEW x \in RequestsOn, BeginRequest(c, x),
         x.at \in {"look parent", "find named", "read naming", "find new", "delete child",
                   "snapshot", "empty parents"},
         x.at = "read naming" => \E p \in parents : p.key = x.key /\ p.id = x.id,
         x.at = "empty parents" => backup.kept
  PROVE  TablesInv'
<1>1. Moved(c, x) /\ UNCHANGED <<parents, children, backup, torn, rowsMade>>
  BY DEF BeginRequest, Moved, To
<1>r. RowsTyped
  <2>1. rowsMade <= rowsMade' /\ rowsMade' \in Nat
    BY <1>1, Found, Same
  <2> QED BY <1>1, <2>1, Found DEF RowsTyped
<1>w. NewRows
  BY <1>1, Found DEF NewRows
<1>2. RowsTyped /\ NewRows
  BY <1>r, <1>w
<1>3. /\ raced' \in BOOLEAN
      /\ ~raced' => ~raced /\ \A d \in Callers \ {c} : request[d] = NoRequest
  BY DEF BeginRequest
<1>4. Fits(x, parents \cup backup.parents, rowsMade)
  BY Found DEF Fits, Numbered
<1>5. Stage(x, parents, children, backup, torn)
  BY DEF Stage
<1> QED BY <1>1, <1>2, <1>3, <1>4, <1>5, Found, RequestMoves

LEMMA NewRequest ==
  ASSUME MaxRows \in Nat, TablesInv, NEW c \in Callers, Request(c)
  PROVE  TablesInv'
<1>1. ASSUME NEW k \in Keys, BeginRequest(c, [NoRequest EXCEPT !.at = "look parent", !.key = k])
      PROVE  TablesInv'
  <2> DEFINE x == [NoRequest EXCEPT !.at = "look parent", !.key = k]
  <2>1. x \in RequestsOn /\ x.at = "look parent"
    BY NoRequestIs DEF RequestsOn, RequestPlaces
  <2> HIDE DEF x
  <2> QED BY <1>1, <2>1, BeginRequestStep DEF x
<1>2. ASSUME NEW k \in Keys, NEW r \in Keys \cup {NoRef},
             BeginRequest(c, [NoRequest EXCEPT !.at = "find named", !.key = k, !.ref = r])
      PROVE  TablesInv'
  <2> DEFINE x == [NoRequest EXCEPT !.at = "find named", !.key = k, !.ref = r]
  <2>1. x \in RequestsOn /\ x.at = "find named"
    BY NoRequestIs DEF RequestsOn, RequestPlaces
  <2> HIDE DEF x
  <2> QED BY <1>2, <2>1, BeginRequestStep DEF x
<1>3. ASSUME NEW p \in parents,
             BeginRequest(c, [NoRequest EXCEPT !.at = "read naming", !.key = p.key, !.id = p.id])
      PROVE  TablesInv'
  <2> DEFINE x == [NoRequest EXCEPT !.at = "read naming", !.key = p.key, !.id = p.id]
  <2>0. p.key \in Keys /\ p.id \in Nat
    BY Found DEF ParentRows
  <2>1. x \in RequestsOn /\ x.at = "read naming" /\ x.key = p.key /\ x.id = p.id
    BY <2>0, NoRequestIs DEF RequestsOn, RequestPlaces
  <2> HIDE DEF x
  <2> QED BY <1>3, <2>1, BeginRequestStep DEF x
<1>4. ASSUME NEW r \in children, NEW k \in Keys \cup {NoRef},
             BeginRequest(c, [NoRequest EXCEPT !.at = "find new", !.ref = k, !.id = r.id])
      PROVE  TablesInv'
  <2> DEFINE x == [NoRequest EXCEPT !.at = "find new", !.ref = k, !.id = r.id]
  <2>0. r.id \in Nat
    BY Found DEF ChildRows
  <2>1. x \in RequestsOn /\ x.at = "find new"
    BY <2>0, NoRequestIs DEF RequestsOn, RequestPlaces
  <2> HIDE DEF x
  <2> QED BY <1>4, <2>1, BeginRequestStep DEF x
<1>5. ASSUME NEW r \in children,
             BeginRequest(c, [NoRequest EXCEPT !.at = "delete child", !.id = r.id])
      PROVE  TablesInv'
  <2> DEFINE x == [NoRequest EXCEPT !.at = "delete child", !.id = r.id]
  <2>0. r.id \in Nat
    BY Found DEF ChildRows
  <2>1. x \in RequestsOn /\ x.at = "delete child"
    BY <2>0, NoRequestIs DEF RequestsOn, RequestPlaces
  <2> HIDE DEF x
  <2> QED BY <1>5, <2>1, BeginRequestStep DEF x
<1>6. ASSUME BeginRequest(c, [NoRequest EXCEPT !.at = "snapshot"])
      PROVE  TablesInv'
  <2> DEFINE x == [NoRequest EXCEPT !.at = "snapshot"]
  <2>1. x \in RequestsOn /\ x.at = "snapshot"
    BY NoRequestIs DEF RequestsOn, RequestPlaces
  <2> HIDE DEF x
  <2> QED BY <1>6, <2>1, BeginRequestStep DEF x
<1>7. ASSUME backup.kept, BeginRequest(c, [NoRequest EXCEPT !.at = "empty parents"])
      PROVE  TablesInv'
  <2> DEFINE x == [NoRequest EXCEPT !.at = "empty parents"]
  <2>1. x \in RequestsOn /\ x.at = "empty parents"
    BY NoRequestIs DEF RequestsOn, RequestPlaces
  <2> HIDE DEF x
  <2> QED BY <1>7, <2>1, BeginRequestStep DEF x
<1> QED BY <1>1, <1>2, <1>3, <1>4, <1>5, <1>6, <1>7 DEF Request

----------------------------------------------------------------------------
\* The later statements.
LEMMA GoesOnAt ==
  ASSUME NEW q \in RequestsOn, NEW a \in RequestPlaces
  PROVE  \E x \in RequestsOn : /\ x = [q EXCEPT !.at = a]
                               /\ x.at = a /\ x.key = q.key /\ x.ref = q.ref /\ x.id = q.id
<1>1. [q EXCEPT !.at = a] \in RequestsOn
  BY DEF RequestsOn
<1> WITNESS [q EXCEPT !.at = a] \in RequestsOn
<1> QED BY DEF RequestsOn

LEMMA Busy ==
  ASSUME NEW c \in Callers, request[c].at # "idle"
  PROVE  request[c] # NoRequest
BY NoRequestIs

\* A statement that only looks lets the request go on, when what it has found holds.
LEMMA Looks ==
  ASSUME MaxRows \in Nat, TablesInv, NEW c \in Callers, request[c].at # "idle",
         NEW a \in RequestPlaces, To(c, [request[c] EXCEPT !.at = a]),
         a \notin {"read naming", "delete parent"},
         \A x \in RequestsOn : x.at = a /\ x.key = request[c].key /\ x.ref = request[c].ref =>
           (Tight /\ ~raced => Stage(x, parents, children, backup, torn)),
         UNCHANGED <<family, parents, children, backup, torn, rowsMade, raced>>
  PROVE  TablesInv'
<1>1. PICK x \in RequestsOn :
        /\ x = [request[c] EXCEPT !.at = a]
        /\ x.at = a /\ x.key = request[c].key /\ x.ref = request[c].ref /\ x.id = request[c].id
  <2>1. request[c] \in RequestsOn
    BY Found
  <2> QED BY <2>1, GoesOnAt
<1>2. request' = [request EXCEPT ![c] = x]
  BY <1>1 DEF To
<1>3. Moved(c, x)
  BY <1>1, <1>2 DEF Moved
<1>4. Fits(x, parents \cup backup.parents, rowsMade)
  BY <1>1 DEF Fits
<1>5. Tight /\ ~raced => Stage(x, parents, children, backup, torn)
  BY <1>1
<1> QED BY <1>3, <1>4, <1>5, Busy, GoesTo

LEMMA LookParentStep ==
  ASSUME MaxRows \in Nat, TablesInv, NEW c \in Callers, LookParent(c)
  PROVE  TablesInv'
<1>1. /\ request[c].at = "look parent"
      /\ Done(c) \/ To(c, [request[c] EXCEPT !.at = "create parent"])
      /\ UNCHANGED <<family, parents, children, backup, torn, rowsMade, raced>>
  BY DEF LookParent
<1>2. CASE Done(c)
  BY <1>1, <1>2, Busy, Over
<1>3. CASE To(c, [request[c] EXCEPT !.at = "create parent"])
  <2>1. \A x \in RequestsOn : x.at = "create parent" => Stage(x, parents, children, backup, torn)
    BY DEF Stage
  <2> QED BY <1>1, <1>3, <2>1, Looks DEF RequestPlaces
<1> QED BY <1>1, <1>2, <1>3

LEMMA FindNamedStep ==
  ASSUME MaxRows \in Nat, TablesInv, NEW c \in Callers, FindNamed(c)
  PROVE  TablesInv'
<1>1. /\ request[c].at = "find named"
      /\ UNCHANGED <<family, parents, children, backup, torn, rowsMade, raced>>
  BY DEF FindNamed
<1>2. CASE Done(c)
  BY <1>1, <1>2, Busy, Over
<1>3. CASE /\ ~(family.child.needs /\ Keyed(parents, request[c].ref) = {})
           /\ To(c, [request[c] EXCEPT !.at = "look child"])
  <2>1. Tight => \E p \in parents : p.key = request[c].ref
    BY <1>3 DEF Tight, Keyed
  <2>2. \A x \in RequestsOn : x.at = "look child" /\ x.ref = request[c].ref =>
          (Tight => Stage(x, parents, children, backup, torn))
    BY <2>1 DEF Stage
  <2> QED BY <1>1, <1>3, <2>2, Looks DEF RequestPlaces
<1> QED BY <1>1, <1>2, <1>3 DEF FindNamed

LEMMA LookChildStep ==
  ASSUME MaxRows \in Nat, TablesInv, NEW c \in Callers, LookChild(c)
  PROVE  TablesInv'
<1>1. /\ request[c].at = "look child"
      /\ Done(c) \/ To(c, [request[c] EXCEPT !.at = "create child"])
      /\ UNCHANGED <<family, parents, children, backup, torn, rowsMade, raced>>
  BY DEF LookChild
<1>2. CASE Done(c)
  BY <1>1, <1>2, Busy, Over
<1>3. CASE To(c, [request[c] EXCEPT !.at = "create child"])
  <2>1. Tight /\ ~raced => \E p \in parents : p.key = request[c].ref
    BY <1>1, Found DEF Stage
  <2>2. \A x \in RequestsOn : x.at = "create child" /\ x.ref = request[c].ref =>
          (Tight /\ ~raced => Stage(x, parents, children, backup, torn))
    BY <2>1 DEF Stage
  <2> QED BY <1>1, <1>3, <2>2, Looks DEF RequestPlaces
<1> QED BY <1>1, <1>2, <1>3

LEMMA FindNewStep ==
  ASSUME MaxRows \in Nat, TablesInv, NEW c \in Callers, FindNew(c)
  PROVE  TablesInv'
<1>1. /\ request[c].at = "find new"
      /\ UNCHANGED <<family, parents, children, backup, torn, rowsMade, raced>>
  BY DEF FindNew
<1>2. CASE Done(c)
  BY <1>1, <1>2, Busy, Over
<1>3. CASE /\ ~(family.child.needs /\ Keyed(parents, request[c].ref) = {})
           /\ To(c, [request[c] EXCEPT !.at = "update child"])
  <2>1. Tight => \E p \in parents : p.key = request[c].ref
    BY <1>3 DEF Tight, Keyed
  <2>2. \A x \in RequestsOn : x.at = "update child" /\ x.ref = request[c].ref =>
          (Tight => Stage(x, parents, children, backup, torn))
    BY <2>1 DEF Stage
  <2> QED BY <1>1, <1>3, <2>2, Looks DEF RequestPlaces
<1> QED BY <1>1, <1>2, <1>3 DEF FindNew

LEMMA RequestFailsStep ==
  ASSUME MaxRows \in Nat, TablesInv, NEW c \in Callers, RequestFails(c)
  PROVE  TablesInv'
BY Over DEF RequestFails

\* A statement that changes only the second table and numbers no row of the first.
LEMMA ChildrenChange ==
  ASSUME MaxRows \in Nat, TablesInv, NEW c \in Callers, NEW x, Moved(c, x), request[c].at # "idle",
         UNCHANGED <<parents, backup, torn, raced>>,
         rowsMade' \in Nat, rowsMade <= rowsMade',
         children' \in SUBSET ChildRows,
         family.child.indexed => Unique(children'),
         Fits(x, parents \cup backup.parents, rowsMade),
         Tight /\ ~raced => /\ ~torn => Held(parents, children')
                            /\ Stage(x, parents, children', backup, torn)
  PROVE  TablesInv'
<1>f. /\ parents \in SUBSET ParentRows /\ rowsMade \in Nat
      /\ backup \in Snapshots /\ raced \in BOOLEAN /\ torn \in BOOLEAN
      /\ backup.parents \in SUBSET ParentRows
      /\ UniqueIn(parents, children) /\ UniqueIn(backup.parents, backup.children)
      /\ Numbered(parents \cup backup.parents, rowsMade)
      /\ Tight /\ ~raced => RowsSound(parents, children, backup, torn)
  BY Found
<1>1. RowsTyped /\ raced' \in BOOLEAN
  BY <1>f DEF RowsTyped
<1>i. \A p \in parents \cup backup.parents : p.id \in Nat
  BY <1>f, IdsAre
<1>2. Numbered(parents \cup backup.parents, rowsMade')
  <2>1. \A p \in parents \cup backup.parents : p.id <= rowsMade'
    BY <1>f, <1>i, OldIds DEF Numbered
  <2> QED BY <1>f, <2>1 DEF Numbered
<1>3. NewRows
  BY <1>2 DEF NewRows
<1>4. UniqueIn(parents', children') /\ UniqueIn(backup'.parents, backup'.children)
  BY <1>f DEF UniqueIn
<1>5. Fits(x, parents' \cup backup'.parents, rowsMade')
  <2>1. x.id \in Nat
    BY DEF Moved, RequestsOn
  <2>2. x.id <= rowsMade => x.id <= rowsMade'
    BY <2>1, <1>f, OldIds
  <2> QED BY <2>2 DEF Fits
<1>6. Tight /\ ~raced' =>
           /\ RowsSound(parents', children', backup', torn')
           /\ Stage(x, parents', children', backup', torn')
  BY <1>f DEF RowsSound
<1> QED BY <1>1, <1>3, <1>4, <1>5, <1>6, Busy, RequestMoves

LEMMA Ended ==
  ASSUME NEW c \in Callers, Done(c), family' = family
  PROVE  Moved(c, NoRequest)
BY NoRequestIs DEF Moved, Done, To

LEMMA CreateChildStep ==
  ASSUME MaxRows \in Nat, TablesInv, NEW c \in Callers, CreateChild(c)
  PROVE  TablesInv'
<1>1. /\ request[c].at = "create child" /\ Done(c)
      /\ UNCHANGED <<family, parents, backup, torn, raced>>
  BY DEF CreateChild
<1>f. /\ children \in SUBSET ChildRows /\ rowsMade \in Nat
      /\ request[c].key \in Keys /\ request[c].ref \in Keys \cup {NoRef}
      /\ UniqueIn(parents, children)
      /\ Tight /\ ~raced => /\ RowsSound(parents, children, backup, torn)
                            /\ Stage(request[c], parents, children, backup, torn)
  BY Found
<1>2. CASE UNCHANGED <<children, rowsMade>>
  BY <1>1, <1>2, Busy, Over
<1>3. CASE /\ ~Taken(family.child, children, request[c].key)
           /\ rowsMade < MaxRows
           /\ rowsMade' = rowsMade + 1
           /\ children' = children \cup {[id |-> rowsMade', key |-> request[c].key, ref |-> request[c].ref]}
  <2> DEFINE r == [id |-> rowsMade', key |-> request[c].key, ref |-> request[c].ref]
  <2>1. rowsMade' \in Nat /\ rowsMade <= rowsMade' /\ rowsMade' \in 1 .. MaxRows
    BY <1>3, <1>f
  <2>2. r \in ChildRows /\ r.key = request[c].key /\ r.ref = request[c].ref
    BY <2>1, <1>f DEF ChildRows
  <2>3. children' = children \cup {r}
    BY <1>3
  <2> HIDE DEF r
  <2>4. children' \in SUBSET ChildRows
    BY <2>2, <2>3, <1>f
  <2>5. family.child.indexed => Unique(children')
    BY <1>3, <2>2, <2>3, <1>f DEF Taken, Keyed, UniqueIn, Unique
  <2>6. Tight /\ ~raced => \E p \in parents : p.key = request[c].ref
    BY <1>1, <1>f DEF Stage
  <2>7. Tight /\ ~raced => (~torn => Held(parents, children'))
    BY <2>2, <2>3, <2>6, <1>f DEF RowsSound, Held
  <2> QED BY <1>1, <2>1, <2>4, <2>5, <2>7, IdleFits, Ended, ChildrenChange
<1> QED BY <1>2, <1>3 DEF CreateChild

LEMMA UpdateChildStep ==
  ASSUME MaxRows \in Nat, TablesInv, NEW c \in Callers, UpdateChild(c)
  PROVE  TablesInv'
<1>1. /\ request[c].at = "update child" /\ Done(c)
      /\ UNCHANGED <<family, parents, backup, torn, raced, rowsMade>>
      /\ children' = {IF r.id = request[c].id THEN [r EXCEPT !.ref = request[c].ref] ELSE r : r \in children}
  BY DEF UpdateChild
<1>f. /\ children \in SUBSET ChildRows /\ rowsMade \in Nat
      /\ request[c].ref \in Keys \cup {NoRef}
      /\ UniqueIn(parents, children)
      /\ Tight /\ ~raced => /\ RowsSound(parents, children, backup, torn)
                            /\ Stage(request[c], parents, children, backup, torn)
  BY Found
<1> DEFINE new(r) == IF r.id = request[c].id THEN [r EXCEPT !.ref = request[c].ref] ELSE r
<1>2. \A r \in children :
        new(r) \in ChildRows /\ new(r).key = r.key /\ new(r).ref \in {r.ref, request[c].ref}
  BY <1>f DEF ChildRows
<1>3. children' = {new(r) : r \in children}
  BY <1>1
<1> HIDE DEF new
<1>4. children' \in SUBSET ChildRows
  BY <1>2, <1>3
<1>5. family.child.indexed => Unique(children')
  <2> SUFFICES ASSUME Unique(children), NEW r \in children', NEW s \in children', r.key = s.key
               PROVE  r = s
    BY <1>f DEF UniqueIn, Unique
  <2>1. PICK r0 \in children : r = new(r0)
    BY <1>3
  <2>2. PICK s0 \in children : s = new(s0)
    BY <1>3
  <2>3. r0 = s0
    BY <2>1, <2>2, <1>2 DEF Unique
  <2> QED BY <2>1, <2>2, <2>3
<1>6. Tight /\ ~raced => \E p \in parents : p.key = request[c].ref
  BY <1>1, <1>f DEF Stage
<1>7. Tight /\ ~raced => (~torn => Held(parents, children'))
  <2> SUFFICES ASSUME Tight, ~raced, ~torn, NEW r \in children' PROVE \E p \in parents : p.key = r.ref
    BY DEF Held
  <2>1. PICK r0 \in children : r = new(r0)
    BY <1>3
  <2>2. \E p \in parents : p.key = r0.ref
    BY <1>f DEF RowsSound, Held
  <2> QED BY <2>1, <2>2, <1>2, <1>6
<1>8. rowsMade' \in Nat /\ rowsMade <= rowsMade'
  BY <1>1, <1>f, Same
<1> QED BY <1>1, <1>4, <1>5, <1>7, <1>8, IdleFits, Ended, ChildrenChange

LEMMA DeleteChildStep ==
  ASSUME MaxRows \in Nat, TablesInv, NEW c \in Callers, DeleteChild(c)
  PROVE  TablesInv'
<1>1. /\ request[c].at = "delete child" /\ Done(c)
      /\ UNCHANGED <<family, parents, backup, torn, raced, rowsMade>>
      /\ children' \subseteq children
  BY DEF DeleteChild
<1>f. /\ children \in SUBSET ChildRows /\ rowsMade \in Nat
      /\ UniqueIn(parents, children)
      /\ Tight /\ ~raced => RowsSound(parents, children, backup, torn)
  BY Found
<1>2. children' \in SUBSET ChildRows
  BY <1>1, <1>f
<1>3. family.child.indexed => Unique(children')
  BY <1>1, <1>f DEF UniqueIn, Unique
<1>4. Tight /\ ~raced => (~torn => Held(parents, children'))
  BY <1>1, <1>f DEF RowsSound, Held
<1>5. rowsMade' \in Nat /\ rowsMade <= rowsMade'
  BY <1>1, <1>f, Same
<1> QED BY <1>1, <1>2, <1>3, <1>4, <1>5, IdleFits, Ended, ChildrenChange

LEMMA ReadNamingStep ==
  ASSUME MaxRows \in Nat, TablesInv, NEW c \in Callers, ReadNaming(c)
  PROVE  TablesInv'
<1>1. /\ request[c].at = "read naming"
      /\ UNCHANGED <<family, parents, backup, torn, raced, rowsMade>>
  BY DEF ReadNaming
<1>f. /\ children \in SUBSET ChildRows /\ rowsMade \in Nat
      /\ request[c] \in RequestsOn
      /\ UniqueIn(parents, children)
      /\ Fits(request[c], parents \cup backup.parents, rowsMade)
      /\ Tight /\ ~raced => RowsSound(parents, children, backup, torn)
  BY Found
<1>2. CASE Done(c) /\ UNCHANGED children
  BY <1>1, <1>2, Busy, Over
<1>3. CASE /\ family.onDelete # "guard" \/ Naming(request[c].key) = {}
           /\ To(c, [request[c] EXCEPT !.at = "delete parent"])
           /\ children' = IF family.onDelete = "drop" THEN children \ Naming(request[c].key)
                                                     ELSE children
  <2>1. PICK x \in RequestsOn :
          /\ x = [request[c] EXCEPT !.at = "delete parent"]
          /\ x.at = "delete parent" /\ x.key = request[c].key /\ x.id = request[c].id
    <3>1. "delete parent" \in RequestPlaces /\ request[c] \in RequestsOn
      BY <1>f DEF RequestPlaces
    <3> QED BY <3>1, GoesOnAt
  <2>2. request' = [request EXCEPT ![c] = x]
    BY <1>3, <2>1 DEF To
  <2>3. Moved(c, x)
    BY <1>1, <2>1, <2>2 DEF Moved
  <2>4. children' \subseteq children
    BY <1>3
  <2>5. children' \in SUBSET ChildRows
    BY <2>4, <1>f
  <2>6. family.child.indexed => Unique(children')
    BY <2>4, <1>f DEF UniqueIn, Unique
  <2>7. Tight /\ ~raced => (~torn => Held(parents, children'))
    BY <2>4, <1>f DEF RowsSound, Held
  <2>8. Tight => \A r \in children' : r.ref # x.key
    BY <1>3, <2>1 DEF Tight, Naming
  <2>9. Tight => Stage(x, parents, children', backup, torn)
    BY <2>1, <2>8 DEF Stage
  <2>10. Fits(x, parents \cup backup.parents, rowsMade)
    BY <1>1, <1>f, <2>1 DEF Fits
  <2>11. rowsMade' \in Nat /\ rowsMade <= rowsMade'
    BY <1>1, <1>f, Same
  <2> QED BY <1>1, <2>3, <2>5, <2>6, <2>7, <2>9, <2>10, <2>11, ChildrenChange
<1> QED BY <1>2, <1>3 DEF ReadNaming

\* A statement that changes the first table, or the snapshot, and numbers no row anew.
LEMMA TablesChange ==
  ASSUME MaxRows \in Nat, TablesInv, NEW c \in Callers, NEW x, Moved(c, x), request[c].at # "idle",
         UNCHANGED <<rowsMade, raced>>,
         parents' \in SUBSET ParentRows, children' \in SUBSET ChildRows,
         backup' \in Snapshots, torn' \in BOOLEAN,
         parents' \cup backup'.parents \subseteq parents \cup backup.parents,
         UniqueIn(parents', children'), UniqueIn(backup'.parents, backup'.children),
         x.at \notin {"read naming", "delete parent"},
         Tight /\ ~raced =>
           /\ RowsSound(parents', children', backup', torn')
           /\ Stage(x, parents', children', backup', torn')
  PROVE  TablesInv'
<1>f. rowsMade \in Nat /\ raced \in BOOLEAN /\ Numbered(parents \cup backup.parents, rowsMade)
  BY Found
<1>1. rowsMade' \in Nat /\ rowsMade <= rowsMade'
  BY <1>f, Same
<1>2. RowsTyped /\ raced' \in BOOLEAN
  BY <1>1, <1>f DEF RowsTyped
<1>3. Numbered(parents' \cup backup'.parents, rowsMade')
  BY <1>f DEF Numbered
<1>4. NewRows
  BY <1>3 DEF NewRows
<1>5. Fits(x, parents' \cup backup'.parents, rowsMade')
  BY DEF Fits
<1> QED BY <1>2, <1>4, <1>5, Busy, RequestMoves

LEMMA CreateParentStep ==
  ASSUME MaxRows \in Nat, TablesInv, NEW c \in Callers, CreateParent(c)
  PROVE  TablesInv'
<1>1. /\ request[c].at = "create parent" /\ Done(c)
      /\ UNCHANGED <<family, children, backup, torn, raced>>
  BY DEF CreateParent
<1>f. /\ parents \in SUBSET ParentRows /\ children \in SUBSET ChildRows /\ rowsMade \in Nat
      /\ backup \in Snapshots /\ raced \in BOOLEAN /\ torn \in BOOLEAN
      /\ backup.parents \in SUBSET ParentRows
      /\ request[c].key \in Keys
      /\ UniqueIn(parents, children) /\ UniqueIn(backup.parents, backup.children)
      /\ Numbered(parents \cup backup.parents, rowsMade)
      /\ Tight /\ ~raced => RowsSound(parents, children, backup, torn)
  BY Found
<1>2. CASE UNCHANGED <<parents, rowsMade>>
  BY <1>1, <1>2, Busy, Over
<1>3. CASE /\ ~Taken(family.parent, parents, request[c].key)
           /\ rowsMade < MaxRows
           /\ rowsMade' = rowsMade + 1
           /\ parents' = parents \cup {[id |-> rowsMade', key |-> request[c].key]}
  <2> DEFINE r == [id |-> rowsMade', key |-> request[c].key]
  <2>1. rowsMade' \in Nat /\ rowsMade <= rowsMade' /\ rowsMade' > rowsMade /\ rowsMade' \in 1 .. MaxRows
    BY <1>3, <1>f
  <2>2. r \in ParentRows /\ r.key = request[c].key /\ r.id = rowsMade'
    BY <2>1, <1>f DEF ParentRows
  <2>3. parents' = parents \cup {r}
    BY <1>3
  <2> HIDE DEF r
  <2>4. parents' \in SUBSET ParentRows
    BY <2>2, <2>3, <1>f
  <2>5. UniqueIn(parents', children') /\ UniqueIn(backup'.parents, backup'.children)
    <3>1. family.parent.indexed => Unique(parents')
      BY <1>3, <2>2, <2>3, <1>f DEF Taken, Keyed, UniqueIn, Unique
    <3> QED BY <3>1, <1>1, <1>f DEF UniqueIn
  <2>6. RowsTyped
    BY <1>1, <2>1, <2>4, <1>f DEF RowsTyped
  <2>i. \A p \in parents \cup backup.parents : p.id \in Nat /\ p.id <= rowsMade
    BY <1>f, IdsAre DEF Numbered
  <2>7. \A p \in parents \cup backup.parents : p.id <= rowsMade' /\ p.id # rowsMade'
    <3> SUFFICES ASSUME NEW p \in parents \cup backup.parents
                 PROVE  p.id <= rowsMade' /\ p.id # rowsMade'
      OBVIOUS
    <3>1. p.id \in Nat /\ p.id <= rowsMade
      BY <2>i
    <3> HIDE DEF TablesInv
    <3> QED BY <3>1, <1>f, <1>3
  <2>8. NewRows
    <3>1. parents' \cup backup'.parents = (parents \cup backup.parents) \cup {r}
      BY <2>3, <1>1
    <3>2. \A p \in parents' \cup backup'.parents : p.id <= rowsMade'
      BY <3>1, <2>7, <2>2, <2>1
    <3>3. \A p, q \in parents' \cup backup'.parents : p.id = q.id => p.key = q.key
      BY <3>1, <2>7, <2>2, <1>f DEF Numbered
    <3>4. \A p \in parents' \cup backup'.parents : p \in parents \cup backup.parents \/ p.id > rowsMade
      BY <3>1, <2>2, <2>1
    <3> QED BY <3>2, <3>3, <3>4 DEF NewRows, Numbered
  <2>9. Tight /\ ~raced => RowsSound(parents', children', backup', torn')
    BY <1>1, <2>3, <1>f DEF RowsSound, Held
  <2> QED BY <1>1, <1>f, <2>5, <2>6, <2>8, <2>9, IdleFits, Ended, Busy, RequestMoves
<1> QED BY <1>2, <1>3 DEF CreateParent

LEMMA DeleteParentStep ==
  ASSUME MaxRows \in Nat, TablesInv, NEW c \in Callers, DeleteParent(c)
  PROVE  TablesInv'
<1>1. /\ request[c].at = "delete parent" /\ Done(c)
      /\ UNCHANGED <<family, children, backup, torn, raced, rowsMade>>
      /\ parents' = parents \ RowOf(parents, request[c].id)
  BY DEF DeleteParent
<1>f. /\ parents \in SUBSET ParentRows /\ children \in SUBSET ChildRows
      /\ backup \in Snapshots /\ torn \in BOOLEAN
      /\ UniqueIn(parents, children) /\ UniqueIn(backup.parents, backup.children)
      /\ Fits(request[c], parents \cup backup.parents, rowsMade)
      /\ Tight /\ ~raced => /\ RowsSound(parents, children, backup, torn)
                            /\ Stage(request[c], parents, children, backup, torn)
  BY Found
<1>2. \A p \in parents : p.key # request[c].key => p \in parents'
  BY <1>1, <1>f DEF Fits, RowOf
<1>3. UniqueIn(parents', children') /\ UniqueIn(backup'.parents, backup'.children)
  BY <1>1, <1>f DEF UniqueIn, Unique
<1>4. Tight /\ ~raced => RowsSound(parents', children', backup', torn')
  <2> SUFFICES ASSUME Tight, ~raced PROVE RowsSound(parents', children', backup', torn')
    OBVIOUS
  <2>1. \A r \in children : r.ref # request[c].key
    BY <1>1, <1>f DEF Stage
  <2> QED BY <1>1, <1>2, <1>f, <2>1 DEF RowsSound, Held
<1>5. /\ parents' \in SUBSET ParentRows /\ children' \in SUBSET ChildRows
      /\ backup' \in Snapshots /\ torn' \in BOOLEAN
      /\ parents' \cup backup'.parents \subseteq parents \cup backup.parents
  BY <1>1, <1>f
<1> QED BY <1>1, <1>3, <1>4, <1>5, IdleFits, Ended, NoRequestIs, TablesChange

LEMMA SnapshotStep ==
  ASSUME MaxRows \in Nat, TablesInv, NEW c \in Callers, Snapshot(c)
  PROVE  TablesInv'
<1>f. /\ parents \in SUBSET ParentRows /\ children \in SUBSET ChildRows
      /\ backup \in Snapshots /\ torn \in BOOLEAN /\ backup.torn \in BOOLEAN
      /\ backup.parents \in SUBSET ParentRows
      /\ UniqueIn(parents, children) /\ UniqueIn(backup.parents, backup.children)
      /\ Tight /\ ~raced => /\ RowsSound(parents, children, backup, torn)
                            /\ Stage(request[c], parents, children, backup, torn)
  BY Found
<1>1. CASE /\ request[c].at = "snapshot"
           /\ backup' = [kept |-> FALSE, parents |-> parents, children |-> {}, torn |-> torn]
           /\ To(c, [NoRequest EXCEPT !.at = "snapshot children"])
           /\ UNCHANGED <<family, parents, children, raced, torn, rowsMade, requests, tableFaults>>
  <2>1. PICK x \in RequestsOn :
          x = [NoRequest EXCEPT !.at = "snapshot children"] /\ x.at = "snapshot children"
    <3>1. "snapshot children" \in RequestPlaces
      BY DEF RequestPlaces
    <3> QED BY <3>1, NoRequestIs, GoesOnAt
  <2>2. Moved(c, x)
    BY <1>1, <2>1 DEF Moved, To
  <2>3. backup'.kept = FALSE /\ backup'.parents = parents /\ backup'.children = {} /\ backup'.torn = torn
    BY <1>1
  <2>4. backup' \in Snapshots
    BY <1>1, <1>f DEF Snapshots
  <2>5. UniqueIn(parents', children') /\ UniqueIn(backup'.parents, backup'.children)
    BY <1>1, <2>3, <1>f DEF UniqueIn, Unique
  <2>6. Tight /\ ~raced => /\ RowsSound(parents', children', backup', torn')
                           /\ Stage(x, parents', children', backup', torn')
    BY <1>1, <2>1, <2>3, <1>f DEF RowsSound, Stage
  <2> QED BY <1>1, <1>f, <2>1, <2>2, <2>3, <2>4, <2>5, <2>6, TablesChange
<1>2. CASE /\ request[c].at = "snapshot children"
           /\ backup' = [backup EXCEPT !.kept = TRUE, !.children = children]
           /\ Done(c)
           /\ UNCHANGED <<family, parents, children, raced, torn, rowsMade, requests, tableFaults>>
  <2>3. /\ backup'.kept = TRUE /\ backup'.parents = backup.parents /\ backup'.children = children
        /\ backup'.torn = backup.torn /\ backup' \in Snapshots
    BY <1>2, <1>f DEF Snapshots
  <2>5. UniqueIn(parents', children') /\ UniqueIn(backup'.parents, backup'.children)
    BY <1>2, <2>3, <1>f DEF UniqueIn
  <2>6. Tight /\ ~raced => RowsSound(parents', children', backup', torn')
    <3>1. Tight /\ ~raced => backup.parents = parents /\ backup.torn = torn
      BY <1>2, <1>f DEF Stage
    <3> QED BY <1>2, <2>3, <3>1, <1>f DEF RowsSound
  <2> QED BY <1>2, <1>f, <2>3, <2>5, <2>6, IdleFits, Ended, NoRequestIs, TablesChange
<1> QED BY <1>1, <1>2 DEF Snapshot

\* The rows that a table is filled with keep its index, and an empty table takes them all.
LEMMA Filled ==
  ASSUME NEW table, NEW old, NEW saved
  PROVE  /\ table.indexed /\ Unique(old) /\ Unique(saved) => Unique(Fill(table, old, saved))
         /\ Fill(table, old, saved) \subseteq old \cup saved
         /\ old = {} => Fill(table, old, saved) = saved
<1>1. table.indexed /\ Unique(old) /\ Unique(saved) => Unique(Fill(table, old, saved))
  BY DEF Fill, Taken, Keyed, Unique
<1>2. Fill(table, old, saved) \subseteq old \cup saved
  BY DEF Fill
<1>3. old = {} => Fill(table, old, saved) = saved
  BY DEF Fill, Taken, Keyed
<1> QED BY <1>1, <1>2, <1>3

LEMMA NextPlace ==
  ASSUME NEW a \in RequestPlaces
  PROVE  \E x \in RequestsOn : x = [NoRequest EXCEPT !.at = a] /\ x.at = a
BY NoRequestIs, GoesOnAt

LEMMA RestoreStep ==
  ASSUME MaxRows \in Nat, TablesInv, NEW c \in Callers, Restore(c)
  PROVE  TablesInv'
<1>f. /\ parents \in SUBSET ParentRows /\ children \in SUBSET ChildRows
      /\ backup \in Snapshots /\ torn \in BOOLEAN /\ backup.torn \in BOOLEAN
      /\ backup.parents \in SUBSET ParentRows /\ backup.children \in SUBSET ChildRows
      /\ UniqueIn(parents, children) /\ UniqueIn(backup.parents, backup.children)
      /\ Tight /\ ~raced => /\ RowsSound(parents, children, backup, torn)
                            /\ Stage(request[c], parents, children, backup, torn)
  BY Found
<1>p. /\ "fill parents" \in RequestPlaces /\ "empty children" \in RequestPlaces /\ "fill children" \in RequestPlaces
  BY DEF RequestPlaces
<1>1. CASE /\ request[c].at = "empty parents"
           /\ parents' = {} /\ torn' = TRUE
           /\ To(c, [NoRequest EXCEPT !.at = "fill parents"])
           /\ UNCHANGED children
           /\ UNCHANGED <<family, backup, raced, rowsMade, requests, tableFaults>>
  <2>1. PICK x \in RequestsOn : x = [NoRequest EXCEPT !.at = "fill parents"] /\ x.at = "fill parents"
    BY <1>p, NextPlace
  <2>2. Moved(c, x)
    BY <1>1, <2>1 DEF Moved, To
  <2>3. UniqueIn(parents', children') /\ UniqueIn(backup'.parents, backup'.children)
    BY <1>1, <1>f DEF UniqueIn, Unique
  <2>4. Tight /\ ~raced => /\ RowsSound(parents', children', backup', torn')
                           /\ Stage(x, parents', children', backup', torn')
    BY <1>1, <2>1, <1>f DEF RowsSound, Stage
  <2> QED BY <1>1, <1>f, <2>1, <2>2, <2>3, <2>4, TablesChange
<1>2. CASE /\ request[c].at = "fill parents"
           /\ parents' = Fill(family.parent, parents, backup.parents)
           /\ To(c, [NoRequest EXCEPT !.at = "empty children"])
           /\ UNCHANGED <<family, children, backup, raced, torn, rowsMade, requests, tableFaults>>
  <2>1. PICK x \in RequestsOn : x = [NoRequest EXCEPT !.at = "empty children"] /\ x.at = "empty children"
    BY <1>p, NextPlace
  <2>2. Moved(c, x)
    BY <1>2, <2>1 DEF Moved, To
  <2>3. /\ family.parent.indexed => Unique(parents')
        /\ parents' \subseteq parents \cup backup.parents
        /\ parents = {} => parents' = backup.parents
    <3>1. /\ family.parent.indexed => Unique(parents)
          /\ family.parent.indexed => Unique(backup.parents)
      BY <1>f DEF UniqueIn
    <3>2. parents' = Fill(family.parent, parents, backup.parents)
      BY <1>2
    <3> QED BY <3>1, <3>2, Filled
  <2>4. UniqueIn(parents', children') /\ UniqueIn(backup'.parents, backup'.children)
    BY <1>2, <2>3, <1>f DEF UniqueIn
  <2>5. Tight /\ ~raced => /\ torn /\ backup.kept /\ parents' = backup.parents
    BY <1>2, <2>3, <1>f DEF Stage
  <2>6. Tight /\ ~raced => /\ RowsSound(parents', children', backup', torn')
                           /\ Stage(x, parents', children', backup', torn')
    BY <1>2, <2>1, <2>5, <1>f DEF RowsSound, Stage
  <2> QED BY <1>2, <1>f, <2>1, <2>2, <2>3, <2>4, <2>6, TablesChange
<1>3. CASE /\ request[c].at = "empty children"
           /\ children' = {}
           /\ To(c, [NoRequest EXCEPT !.at = "fill children"])
           /\ UNCHANGED <<family, parents, backup, raced, torn, rowsMade, requests, tableFaults>>
  <2>1. PICK x \in RequestsOn : x = [NoRequest EXCEPT !.at = "fill children"] /\ x.at = "fill children"
    BY <1>p, NextPlace
  <2>2. Moved(c, x)
    BY <1>3, <2>1 DEF Moved, To
  <2>3. UniqueIn(parents', children') /\ UniqueIn(backup'.parents, backup'.children)
    BY <1>3, <1>f DEF UniqueIn, Unique
  <2>4. Tight /\ ~raced => /\ RowsSound(parents', children', backup', torn')
                           /\ Stage(x, parents', children', backup', torn')
    BY <1>3, <2>1, <1>f DEF RowsSound, Stage
  <2> QED BY <1>3, <1>f, <2>1, <2>2, <2>3, <2>4, TablesChange
<1>4. CASE /\ request[c].at = "fill children"
           /\ children' = Fill(family.child, children, backup.children) /\ torn' = backup.torn
           /\ Done(c)
           /\ UNCHANGED <<family, parents, backup, raced, rowsMade, requests, tableFaults>>
  <2>3. /\ family.child.indexed => Unique(children')
        /\ children' \subseteq children \cup backup.children
        /\ children = {} => children' = backup.children
    <3>1. /\ family.child.indexed => Unique(children)
          /\ family.child.indexed => Unique(backup.children)
      BY <1>f DEF UniqueIn
    <3>2. children' = Fill(family.child, children, backup.children)
      BY <1>4
    <3> QED BY <3>1, <3>2, Filled
  <2>4. UniqueIn(parents', children') /\ UniqueIn(backup'.parents, backup'.children)
    BY <1>4, <2>3, <1>f DEF UniqueIn
  <2>5. Tight /\ ~raced => /\ backup.kept /\ parents = backup.parents /\ children' = backup.children
    BY <1>4, <2>3, <1>f DEF Stage
  <2>6. Tight /\ ~raced => RowsSound(parents', children', backup', torn')
    BY <1>4, <2>5, <1>f DEF RowsSound
  <2>7. children' \in SUBSET ChildRows
    BY <2>3, <1>f
  <2> QED BY <1>4, <1>f, <2>4, <2>6, <2>7, IdleFits, Ended, NoRequestIs, TablesChange
<1> QED BY <1>1, <1>2, <1>3, <1>4 DEF Restore

LEMMA TablesStep == ASSUME MaxRows \in Nat, TablesInv, [TablesNext]_tableVars PROVE TablesInv'
<1>1. CASE UNCHANGED tableVars
  BY <1>1 DEF tableVars, TablesInv, TableTypes, UniqueIn, IdsInv, OneByOneInv, RefInv, Tight, Unique,
              Numbered, Fits, RowsSound, Held, Stage
<1>2. CASE TablesNext
  <2>1. PICK c \in Callers :
          \/ Request(c)
          \/ LookParent(c) \/ CreateParent(c)
          \/ FindNamed(c) \/ LookChild(c) \/ CreateChild(c)
          \/ FindNew(c) \/ UpdateChild(c) \/ DeleteChild(c)
          \/ ReadNaming(c) \/ DeleteParent(c)
          \/ Snapshot(c) \/ Restore(c) \/ RequestFails(c)
    BY <1>2 DEF TablesNext
  <2> QED BY <2>1, NewRequest, LookParentStep, CreateParentStep, FindNamedStep, LookChildStep,
             CreateChildStep, FindNewStep, UpdateChildStep, DeleteChildStep, ReadNamingStep,
             DeleteParentStep, SnapshotStep, RestoreStep, RequestFailsStep
<1> QED BY <1>1, <1>2

LEMMA TablesInvGives ==
  ASSUME MaxRows \in Nat, TablesInv
  PROVE  TablesTypeOK /\ KeysUnique /\ RefsHeld
<1>1. TablesTypeOK
  <2>1. parents \in SUBSET ParentRows /\ children \in SUBSET ChildRows
    BY DEF TablesInv, TableTypes
  <2> QED BY <2>1 DEF TablesTypeOK, ParentRows, ChildRows
<1>2. KeysUnique
  BY DEF TablesInv, UniqueIn, KeysUnique
<1>3. RefsHeld
  BY DEF TablesInv, RefInv, RefsHeld, RowsSound, Held
<1> QED BY <1>1, <1>2, <1>3

----------------------------------------------------------------------------
(* The tables of settings.                                                    *)

SettingRows == [id : 1 .. MaxValues, value : Values]
SettingCalls ==
  [at : {"read", "ensure", "create default", "select", "delete", "create", "update"},
   value : Values, alone : BOOLEAN]

SettingTypes ==
  /\ rows \subseteq SettingRows
  /\ valuesMade \in Nat
  /\ call \in [Services -> {NoCall} \cup SettingCalls]
  /\ settled \in Values \cup {NoValue}

\* A call that began alone and that none has joined is the only one; what it found of
\* the rows still holds. A value is settled only while nothing is under way.
AloneInv ==
  \A c \in Services : call[c].alone =>
    /\ \A d \in Services \ {c} : call[d] = NoCall
    /\ call[c].at = "update" => rows # {}
    /\ call[c].at = "create" => rows = {}
SettledInv == settled # NoValue => \A c \in Services : call[c] = NoCall

SettingsInv == SettingTypes /\ AloneInv /\ SettledInv /\ SaveHeals

\* Steps of the call of c.
Acts(c) ==
  Read(c) \/ Ensure(c) \/ Select(c) \/ Delete(c) \/ Create(c) \/ Update(c) \/ CallFails(c)

LEMMA SettingsInitInv == SettingsInit => SettingsInv
BY DEF SettingsInit, SettingsInv, SettingTypes, AloneInv, SettledInv, SaveHeals, NoCall

LEMMA NoCallIsNone ==
  /\ NoCall.at = "idle" /\ NoCall.value = NoValue /\ NoCall.alone = FALSE
  /\ NoCall \notin SettingCalls
BY DEF NoCall, SettingCalls

\* A new call ends what was settled and every solitude but its own.
LEMMA BeginCallStep ==
  ASSUME SettingsInv, NEW c \in Services, NEW at, NEW v \in Values, BeginCall(c, at, v),
         at \in {"read", "ensure", "select", "delete"}
  PROVE  SettingsInv'
<1>0. call[c] = NoCall /\ settled' = NoValue /\ rows' = rows /\ valuesMade' = valuesMade
  BY DEF BeginCall
<1> DEFINE new == [at |-> at, value |-> v, alone |-> ~Others(c)]
<1>1. call' = [d \in Services |-> IF d = c THEN new ELSE [call[d] EXCEPT !.alone = FALSE]]
  BY DEF BeginCall
<1>2. new \in SettingCalls
  BY DEF SettingCalls, Others
<1>a. \A x \in SettingCalls : [x EXCEPT !.alone = FALSE] \in SettingCalls
                              /\ [x EXCEPT !.alone = FALSE].alone = FALSE
  BY DEF SettingCalls
<1>b. [NoCall EXCEPT !.alone = FALSE] = NoCall /\ NoCall.alone = FALSE
  <2>1. NoCall \in [at : {"idle"}, value : {NoValue}, alone : {FALSE}]
    BY DEF NoCall
  <2>2. [NoCall EXCEPT !.alone = FALSE] = NoCall
    BY <2>1
  <2> QED BY <2>1, <2>2
<1>c. \A d \in Services : call[d] \in {NoCall} \cup SettingCalls
  BY DEF SettingsInv, SettingTypes
<1>3. \A d \in Services : [call[d] EXCEPT !.alone = FALSE] \in {NoCall} \cup SettingCalls
  BY <1>a, <1>b, <1>c
<1>4. \A d \in Services : [call[d] EXCEPT !.alone = FALSE].alone = FALSE
  BY <1>a, <1>b, <1>c
<1>5. \A d \in Services : call[d] = NoCall => [call[d] EXCEPT !.alone = FALSE] = NoCall
  BY <1>b
<1>6. SettingTypes'
  BY <1>0, <1>1, <1>2, <1>3 DEF SettingsInv, SettingTypes
<1>7. AloneInv'
  <2> SUFFICES ASSUME NEW e \in Services, call'[e].alone
               PROVE  /\ \A d \in Services \ {e} : call'[d] = NoCall
                      /\ call'[e].at = "update" => rows' # {}
                      /\ call'[e].at = "create" => rows' = {}
    BY DEF AloneInv
  <2>1. e = c
    BY <1>1, <1>4
  <2>2. call'[c] = new /\ ~Others(c)
    BY <1>1, <2>1
  <2>3. \A d \in Services \ {c} : call[d] = NoCall
    BY <2>2 DEF Others
  <2> QED BY <1>1, <1>5, <2>1, <2>2, <2>3
<1>8. SettledInv' /\ SaveHeals'
  BY <1>0 DEF SettledInv, SaveHeals
<1> QED BY <1>6, <1>7, <1>8 DEF SettingsInv

\* A call goes on or ends; nothing is settled.
LEMMA GoesOn ==
  ASSUME SettingsInv, NEW c \in Services, call[c] # NoCall, NEW x \in {NoCall} \cup SettingCalls,
         call' = [call EXCEPT ![c] = x], settled' \in {settled, NoValue},
         rows' \subseteq SettingRows, valuesMade' \in Nat,
         x.alone => call[c].alone,
         x.at = "update" /\ x.alone => rows' # {},
         x.at = "create" /\ x.alone => rows' = {}
  PROVE  SettingsInv'
<1>1. settled = NoValue /\ settled' = NoValue
  BY DEF SettingsInv, SettledInv
<1>2. SettingTypes'
  BY <1>1 DEF SettingsInv, SettingTypes
<1>3. call'[c] = x /\ \A d \in Services \ {c} : call'[d] = call[d]
  BY DEF SettingsInv, SettingTypes
<1>4. AloneInv'
  <2> SUFFICES ASSUME NEW e \in Services, call'[e].alone
               PROVE  /\ \A d \in Services \ {e} : call'[d] = NoCall
                      /\ call'[e].at = "update" => rows' # {}
                      /\ call'[e].at = "create" => rows' = {}
    BY DEF AloneInv
  <2>1. e = c
    <3>1. CASE e # c
      <4>1. call[e].alone
        BY <1>3, <3>1
      <4>2. call[c] = NoCall
        BY <3>1, <4>1 DEF SettingsInv, AloneInv
      <4> QED BY <4>2
    <3> QED BY <3>1
  <2>2. \A d \in Services \ {c} : call[d] = NoCall
    BY <1>3, <2>1 DEF SettingsInv, AloneInv
  <2> QED BY <1>3, <2>1, <2>2
<1>5. SettledInv' /\ SaveHeals'
  BY <1>1 DEF SettledInv, SaveHeals
<1> QED BY <1>2, <1>4, <1>5 DEF SettingsInv

\* A save ends: if it was alone its value is settled, and the rows have it.
LEMMA Ends ==
  ASSUME SettingsInv, NEW c \in Services, call[c] \in SettingCalls, EndCall(c),
         rows' \subseteq SettingRows, valuesMade' \in Nat,
         call[c].alone => rows' # {} /\ \A r \in rows' : r.value = call[c].value
  PROVE  SettingsInv'
<1>1. call' = [call EXCEPT ![c] = NoCall] /\ call[c] # NoCall
  BY NoCallIsNone DEF EndCall
<1>2. call[c].value \in Values /\ call[c].alone \in BOOLEAN /\ NoValue \notin Values
  BY DEF SettingCalls, Values, NoValue
<1>3. CASE call[c].alone /\ call[c].value # "default"
  <2>1. settled' = call[c].value
    BY <1>3 DEF EndCall
  <2>2. \A d \in Services : call'[d] = NoCall
    BY <1>1, <1>3 DEF SettingsInv, AloneInv, SettingTypes
  <2>3. SettingTypes'
    BY <1>1, <1>2, <2>1 DEF SettingsInv, SettingTypes
  <2>4. AloneInv' /\ SettledInv'
    BY <2>2, NoCallIsNone DEF AloneInv, SettledInv
  <2>5. SaveHeals'
    BY <1>3, <2>1 DEF SaveHeals
  <2> QED BY <2>3, <2>4, <2>5 DEF SettingsInv
<1>4. CASE ~(call[c].alone /\ call[c].value # "default")
  <2>1. settled' = NoValue
    BY <1>4 DEF EndCall
  <2> QED BY <1>1, <2>1, GoesOn, NoCallIsNone
<1> QED BY <1>3, <1>4

\* The place a call is at changes, and nothing else of it.
LEMMA Placed ==
  ASSUME NEW x \in SettingCalls,
         NEW at \in {"read", "ensure", "create default", "select", "delete", "create", "update"}
  PROVE  LET y == [x EXCEPT !.at = at] IN y \in SettingCalls /\ y.at = at /\ y.alone = x.alone
BY DEF SettingCalls

LEMMA ActsStep ==
  ASSUME MaxValues \in Nat, SettingsInv, NEW c \in Services, Acts(c)
  PROVE  SettingsInv'
<1>1. call[c] # NoCall /\ call[c] \in SettingCalls
  <2>1. call[c] \in {NoCall} \cup SettingCalls
    BY DEF SettingsInv, SettingTypes
  <2> QED
    BY <2>1, NoCallIsNone DEF Acts, Read, Ensure, Select, Delete, Create, Update, CallFails
<1>2. call[c].value \in Values /\ call[c].alone \in BOOLEAN
  BY <1>1 DEF SettingCalls
<1>3. rows \subseteq SettingRows /\ valuesMade \in Nat
  BY DEF SettingsInv, SettingTypes
<1>n. ASSUME valuesMade < MaxValues, NEW v \in Values
      PROVE  [id |-> valuesMade + 1, value |-> v] \in SettingRows
  BY <1>3, <1>n DEF SettingRows
<1>4. CASE Read(c)
  <2>1. CASE rows # {} \/ kind.reader = "nothing"
    BY <1>1, <1>3, <1>4, <2>1, GoesOn, NoCallIsNone DEF Read
  <2>2. CASE ~(rows # {} \/ kind.reader = "nothing")
    <3> DEFINE at == IF kind.reader = "save" THEN "select" ELSE "create"
               x == [call[c] EXCEPT !.at = at]
    <3>0. at \in {"select", "create"}
      OBVIOUS
    <3> HIDE DEF at
    <3>1. x \in SettingCalls /\ x.at = at /\ x.alone = call[c].alone
      BY <1>1, <3>0 DEF SettingCalls
    <3>2. call' = [call EXCEPT ![c] = x] /\ UNCHANGED <<rows, settled, valuesMade>> /\ rows = {}
      BY <1>4, <2>2 DEF Read, Onward, at
    <3> HIDE DEF x
    <3> QED BY <1>1, <1>3, <3>0, <3>1, <3>2, GoesOn
  <2> QED BY <2>1, <2>2
<1>5. CASE Ensure(c)
  <2>1. CASE call[c].at = "ensure"
    <3> DEFINE at == IF rows = {} THEN "create default" ELSE "delete"
               x == [call[c] EXCEPT !.at = at]
    <3>0. at \in {"create default", "delete"}
      OBVIOUS
    <3> HIDE DEF at
    <3>1. x \in SettingCalls /\ x.at = at /\ x.alone = call[c].alone
      BY <1>1, <3>0 DEF SettingCalls
    <3>2. call' = [call EXCEPT ![c] = x] /\ UNCHANGED <<rows, settled, valuesMade>>
      BY <1>5, <2>1 DEF Ensure, Onward, at
    <3> HIDE DEF x
    <3> QED BY <1>1, <1>3, <3>0, <3>1, <3>2, GoesOn
  <2>2. CASE call[c].at = "create default"
    <3> DEFINE x == [call[c] EXCEPT !.at = "delete"]
    <3>1. x \in SettingCalls /\ x.at = "delete" /\ x.alone = call[c].alone
      BY <1>1, Placed
    <3>2. /\ call' = [call EXCEPT ![c] = x] /\ settled' = settled
          /\ valuesMade < MaxValues /\ valuesMade' = valuesMade + 1
          /\ rows' = rows \cup {[id |-> valuesMade + 1, value |-> "default"]}
      BY <1>5, <2>2 DEF Ensure, Onward
    <3>3. rows' \subseteq SettingRows /\ valuesMade' \in Nat
      BY <1>3, <1>n, <3>2 DEF Values
    <3> HIDE DEF x
    <3> QED BY <1>1, <3>1, <3>2, <3>3, GoesOn
  <2> QED BY <1>5, <2>1, <2>2 DEF Ensure
<1>6. CASE Select(c)
  <2> DEFINE at == IF rows = {} THEN "create" ELSE "update"
             x == [call[c] EXCEPT !.at = at]
  <2>0. (at = "create" /\ rows = {}) \/ (at = "update" /\ rows # {})
    OBVIOUS
  <2> HIDE DEF at
  <2>1. x \in SettingCalls /\ x.at = at /\ x.alone = call[c].alone
    BY <1>1, <2>0 DEF SettingCalls
  <2>2. call' = [call EXCEPT ![c] = x] /\ UNCHANGED <<rows, settled, valuesMade>>
    BY <1>6 DEF Select, Onward, at
  <2> HIDE DEF x
  <2> QED BY <1>1, <1>3, <2>0, <2>1, <2>2, GoesOn
<1>7. CASE Delete(c)
  <2> DEFINE x == [call[c] EXCEPT !.at = "create"]
  <2>1. x \in SettingCalls /\ x.at = "create" /\ x.alone = call[c].alone
    BY <1>1, Placed
  <2>2. call' = [call EXCEPT ![c] = x] /\ rows' = {} /\ UNCHANGED <<settled, valuesMade>>
    BY <1>7 DEF Delete, Onward
  <2> HIDE DEF x
  <2> QED BY <1>1, <1>3, <2>1, <2>2, GoesOn
<1>8. CASE Create(c)
  <2>1. CASE valuesMade < MaxValues /\ EndCall(c)
             /\ valuesMade' = valuesMade + 1
             /\ rows' = rows \cup {[id |-> valuesMade', value |-> call[c].value]}
    <3>1. rows' \subseteq SettingRows /\ valuesMade' \in Nat
      BY <1>2, <1>3, <1>n, <2>1
    <3>2. call[c].alone => rows = {}
      BY <1>8 DEF Create, SettingsInv, AloneInv
    <3>3. call[c].alone => rows' # {} /\ \A r \in rows' : r.value = call[c].value
      <4>1. [id |-> valuesMade', value |-> call[c].value].value = call[c].value
        OBVIOUS
      <4> QED BY <2>1, <3>2, <4>1
    <3> QED BY <1>1, <2>1, <3>1, <3>3, Ends
  <2>2. CASE call' = [call EXCEPT ![c] = NoCall] /\ UNCHANGED <<rows, valuesMade, settled>>
    BY <1>1, <1>3, <2>2, GoesOn, NoCallIsNone
  <2> QED BY <1>8, <2>1, <2>2 DEF Create
<1>9. CASE Update(c)
  <2>1. rows' = Updated(call[c].value) /\ EndCall(c) /\ valuesMade' = valuesMade
    BY <1>9 DEF Update
  <2>2. \A r \in rows : [r EXCEPT !.value = call[c].value] \in SettingRows
                        /\ [r EXCEPT !.value = call[c].value].value = call[c].value
    BY <1>2, <1>3 DEF SettingRows
  <2>3. rows' \subseteq SettingRows /\ \A r \in rows' : r.value = call[c].value
    BY <2>1, <2>2 DEF Updated
  <2>4. call[c].alone => rows' # {}
    <3>1. call[c].alone => rows # {}
      BY <1>9 DEF Update, SettingsInv, AloneInv
    <3> QED BY <2>1, <3>1 DEF Updated
  <2> QED BY <1>1, <1>3, <2>1, <2>3, <2>4, Ends
<1>10. CASE CallFails(c)
  BY <1>1, <1>3, <1>10, GoesOn, NoCallIsNone DEF CallFails
<1> QED BY <1>4, <1>5, <1>6, <1>7, <1>8, <1>9, <1>10 DEF Acts

LEMMA SettingsStep ==
  ASSUME MaxValues \in Nat, SettingsInv, [SettingsNext]_settingVars
  PROVE  SettingsInv'
<1>1. ASSUME NEW c \in Services, NEW v \in Values \ {"default"}, BeginSave(c, v)
      PROVE  SettingsInv'
  <2>1. PICK at \in {"select", "ensure", "delete"} : BeginCall(c, at, v)
    BY <1>1 DEF BeginSave
  <2> QED BY <2>1, BeginCallStep
<1>2. ASSUME NEW c \in Services, BeginRead(c)
      PROVE  SettingsInv'
  BY <1>2, BeginCallStep DEF BeginRead, Values
<1>3. ASSUME NEW c \in Services, Acts(c)
      PROVE  SettingsInv'
  BY <1>3, ActsStep
<1>4. CASE UNCHANGED settingVars
  BY <1>4 DEF settingVars, SettingsInv, SettingTypes, AloneInv, SettledInv, SaveHeals
<1> QED BY <1>1, <1>2, <1>3, <1>4 DEF SettingsNext, Acts

LEMMA SettingsInvGives ==
  ASSUME MaxValues \in Nat, SettingsInv
  PROVE  SettingsTypeOK /\ SaveHeals
BY DEF SettingsInv, SettingTypes, SettingRows, SettingsTypeOK

\* The console's rows stay whole, for any number of callers and of rows: requests that
\* overlap and fail at any statement never leave two rows with one key where the code
\* promises a unique name, requests made one after the other never leave a row that names
\* one that is gone, and a save of settings heals what a race has left (magnetite-db).
THEOREM RowsAlwaysKept ==
  ASSUME MaxRows \in Nat, MaxValues \in Nat
  PROVE  TablesSpec /\ SettingsSpec => []RowsKept
<1>1. TablesInit => TablesInv
  BY TablesInitInv
<1>2. TablesInv /\ [TablesNext]_tableVars => TablesInv'
  BY TablesStep
<1>3. SettingsInit => SettingsInv
  BY SettingsInitInv
<1>4. SettingsInv /\ [SettingsNext]_settingVars => SettingsInv'
  BY SettingsStep
<1>5. TablesInv /\ SettingsInv => RowsKept
  BY TablesInvGives, SettingsInvGives DEF RowsKept
<1> QED BY <1>1, <1>2, <1>3, <1>4, <1>5, PTL DEF TablesSpec, SettingsSpec


----------------------------------------------------------------------------
(* SYSVOL.                                                                    *)

\* How SYSVOL is configured: no logon script is a file of a policy.
SysvolConfigured ==
  Templates \cap Scripts = {} /\ MaxEdits \in Nat /\ MaxSysvolFaults \in Nat

FileRows == [version : Nat, stamp : Nat, deleted : BOOLEAN, body : {0, 1, 2}]
Cursors == [stamp : Nat, path : Paths \cup {0}]
Edit == [kind : {"idle", "write", "delete"}, body : {0, 1, 2}, rest : SUBSET Paths]
PulledRows == [path : Paths, row : FileRows]

SysvolTypes ==
  /\ gpc \in BOOLEAN /\ clock \in Nat
  /\ file \in [Sides -> [Paths -> FileRows]]
  /\ op \in Edit
  /\ cursor \in Cursors
  /\ pulled \in [busy : BOOLEAN, rows : SUBSET PulledRows, next : Cursors]
  /\ edits \in 0 .. MaxEdits /\ sysvolFaults \in 0 .. MaxSysvolFaults

\* A stamp is a time that was; a row that was never written counts as deleted.
RowFits(r, t) ==
  /\ r.stamp <= t
  /\ r.version > 0 => r.stamp >= 1
  /\ r.version = 0 => r.deleted
StampInv ==
  /\ \A n \in Sides, p \in Paths : RowFits(file[n][p], clock)
  /\ cursor.stamp <= clock /\ pulled.next.stamp <= clock
  /\ \A r \in pulled.rows : RowFits(r.row, clock)

\* What the page under way will have passed is here, or a row of the page brings it.
Behind(p, c) == file["primary"][p].version > 0 /\ ~Later(At("primary", p), c)
InPage(p) == [path |-> p, row |-> file["primary"][p]] \in pulled.rows
PageInv ==
  pulled.busy =>
    \A p \in Paths :
      Behind(p, pulled.next) => ~Ahead(file["primary"][p], file["secondary"][p]) \/ InPage(p)

\* A request writes the files of a policy whose container it has made, and deletes those of
\* one whose container it has deleted; the files it is through with are as the container is.
Shown(r) == IF r.deleted THEN 0 ELSE r.body
HalvesInv ==
  /\ op.kind = "write" => op.body # 0
  /\ op.kind = "idle" => op.rest = {}
  /\ sysvolFaults = 0 =>
       /\ \A p \in Templates \ op.rest : (Shown(file["primary"][p]) # 0) = gpc
       /\ \A p \in Templates \cap op.rest : gpc = (op.kind = "write")

SysvolInv == SysvolTypes /\ StampInv /\ FilesFollow /\ PageInv /\ HalvesInv /\ ServedFollows

LEMMA SidesAre == "primary" \in Sides /\ "secondary" \in Sides
BY DEF Sides

LEMMA NoRowIs ==
  /\ NoRow \in FileRows /\ NoRow.version = 0 /\ NoRow.stamp = 0 /\ NoRow.deleted = TRUE
  /\ Start \in Cursors /\ Start.stamp = 0 /\ Start.path = 0
  /\ Nothing \in Edit /\ Nothing.kind = "idle" /\ Nothing.rest = {} /\ Nothing.body = 0
  /\ NoPull.busy = FALSE /\ NoPull.rows = {} /\ NoPull.next = Start
BY DEF NoRow, FileRows, Start, Cursors, Nothing, Todo, Edit, NoPull

LEMMA SysvolInitInv == ASSUME SysvolConfigured, SysvolInit PROVE SysvolInv
<1>1. /\ gpc = FALSE /\ file = [n \in Sides |-> [p \in Paths |-> NoRow]] /\ clock = 0
      /\ op = Nothing /\ cursor = Start /\ pulled = NoPull
      /\ tree = [p \in Paths |-> 0] /\ scripts = [p \in Scripts |-> 0]
      /\ sig = [p \in Paths |-> 0] /\ edits = 0 /\ sysvolFaults = 0
  BY DEF SysvolInit
<1>2. \A n \in Sides, p \in Paths : file[n][p] = NoRow
  BY <1>1
<1>3. pulled \in [busy : BOOLEAN, rows : SUBSET PulledRows, next : Cursors]
  BY <1>1, NoRowIs DEF NoPull
<1>4. SysvolTypes
  <2>1. file \in [Sides -> [Paths -> FileRows]]
    BY <1>1, NoRowIs
  <2>2. gpc \in BOOLEAN
    BY <1>1
  <2>3. clock \in Nat /\ edits \in 0 .. MaxEdits /\ sysvolFaults \in 0 .. MaxSysvolFaults
    BY <1>1 DEF SysvolConfigured
  <2>4. op \in Edit /\ cursor \in Cursors
    BY <1>1, NoRowIs
  <2> QED BY <1>3, <2>1, <2>2, <2>3, <2>4 DEF SysvolTypes
<1>5. StampInv
  BY <1>1, <1>2, NoRowIs DEF StampInv, RowFits
<1>6. FilesFollow
  BY <1>2, SidesAre, NoRowIs DEF FilesFollow
<1>7. PageInv
  BY <1>1, NoRowIs DEF PageInv
<1>8. HalvesInv
  <2>1. \A p \in Templates : file["primary"][p].deleted
    BY <1>2, SidesAre, NoRowIs DEF Paths
  <2>2. \A p \in Templates : Shown(file["primary"][p]) = 0
    BY <2>1 DEF Shown
  <2> QED BY <1>1, <2>2, NoRowIs DEF HalvesInv
<1>9. ServedFollows
  BY <1>1 DEF ServedFollows, Paths
<1> QED BY <1>4, <1>5, <1>6, <1>7, <1>8, <1>9 DEF SysvolInv

LEMMA SysvolInvGives ==
  ASSUME SysvolConfigured, SysvolInv
  PROVE  SysvolTypeOK /\ FilesFollow /\ ServedFollows /\ GpoWhole
<1>1. SysvolTypeOK
  <2>1. \A n \in Sides, p \in Paths : file[n][p].version \in Nat /\ file[n][p].stamp <= clock
    BY DEF SysvolInv, SysvolTypes, StampInv, RowFits, FileRows
  <2> QED BY <2>1 DEF SysvolInv, SysvolTypes, SysvolTypeOK
<1>2. GpoWhole
  <2> SUFFICES ASSUME op = Nothing, sysvolFaults = 0, NEW p \in Templates
               PROVE  (Live("primary")[p] # 0) = gpc
    BY DEF GpoWhole
  <2>1. Live("primary")[p] = Shown(file["primary"][p])
    BY DEF Live, Shown, Paths
  <2>2. (Shown(file["primary"][p]) # 0) = gpc
    BY NoRowIs DEF SysvolInv, HalvesInv
  <2> QED BY <2>1, <2>2
<1> QED BY <1>1, <1>2 DEF SysvolInv

----------------------------------------------------------------------------
\* The requests.
LEMMA FilesKept ==
  ASSUME SysvolInv, UNCHANGED <<file, clock, cursor, pulled>>
  PROVE  StampInv' /\ FilesFollow' /\ PageInv'
BY DEF SysvolInv, StampInv, FilesFollow, PageInv, Behind, InPage, At, Later, Ahead

LEMMA ServedKept ==
  ASSUME SysvolInv, UNCHANGED <<tree, scripts, sig>>, sysvolFaults \in Nat,
         sysvolFaults' = sysvolFaults \/ sysvolFaults' = sysvolFaults + 1
  PROVE  ServedFollows'
<1>1. sysvolFaults' = 0 => sysvolFaults = 0
  OBVIOUS
<1> QED BY <1>1 DEF SysvolInv, ServedFollows

\* A request that begins or ends leaves the files alone.
LEMMA RequestStep ==
  ASSUME SysvolConfigured, SysvolInv,
         UNCHANGED <<file, clock, cursor, pulled, tree, scripts, sig>>,
         op' \in Edit, gpc' \in BOOLEAN, edits' \in 0 .. MaxEdits, sysvolFaults' \in 0 .. MaxSysvolFaults,
         sysvolFaults' = sysvolFaults \/ sysvolFaults' = sysvolFaults + 1,
         HalvesInv'
  PROVE  SysvolInv'
<1>1. sysvolFaults \in Nat
  BY DEF SysvolInv, SysvolTypes
<1>2. SysvolTypes'
  BY DEF SysvolInv, SysvolTypes
<1> QED BY <1>1, <1>2, FilesKept, ServedKept DEF SysvolInv

LEMMA Counted ==
  ASSUME SysvolConfigured, SysvolInv
  PROVE  /\ edits \in 0 .. MaxEdits /\ (edits < MaxEdits => edits + 1 \in 0 .. MaxEdits)
         /\ sysvolFaults \in 0 .. MaxSysvolFaults /\ sysvolFaults \in Nat
         /\ sysvolFaults < MaxSysvolFaults => sysvolFaults + 1 \in 0 .. MaxSysvolFaults /\ sysvolFaults + 1 # 0
<1>1. edits \in 0 .. MaxEdits /\ sysvolFaults \in 0 .. MaxSysvolFaults /\ MaxEdits \in Nat /\ MaxSysvolFaults \in Nat
  BY DEF SysvolConfigured, SysvolInv, SysvolTypes
<1> HIDE DEF SysvolInv
<1> QED BY <1>1

LEMMA TodoIs ==
  ASSUME NEW k \in {"idle", "write", "delete"}, NEW b \in {0, 1, 2}, NEW R \in SUBSET Paths
  PROVE  /\ Todo(k, b, R) \in Edit
         /\ Todo(k, b, R).kind = k /\ Todo(k, b, R).body = b /\ Todo(k, b, R).rest = R
BY DEF Todo, Edit

LEMMA CreateGpoStep == ASSUME SysvolConfigured, SysvolInv, CreateGpo PROVE SysvolInv'
<1>1. PICK b \in {1, 2} : op' = Todo("write", b, Templates)
  BY DEF CreateGpo
<1>2. op' \in Edit /\ op'.kind = "write" /\ op'.body = b /\ op'.rest = Templates
  <2>1. Templates \in SUBSET Paths /\ b \in {0, 1, 2} /\ "write" \in {"idle", "write", "delete"}
    BY DEF Paths
  <2> QED BY <1>1, <2>1, TodoIs
<1>3. /\ gpc' = TRUE /\ edits' = edits + 1 /\ edits < MaxEdits
      /\ UNCHANGED <<file, clock, cursor, pulled, tree, scripts, sig, sysvolFaults>>
  BY DEF CreateGpo
<1>4. HalvesInv'
  <2>1. op'.body # 0
    BY <1>2
  <2> QED BY <1>2, <1>3, <2>1 DEF HalvesInv
<1>5. gpc' \in BOOLEAN
  BY <1>3
<1> QED BY <1>2, <1>3, <1>4, <1>5, Counted, RequestStep

LEMMA DeleteGpoStep == ASSUME SysvolConfigured, SysvolInv, DeleteGpo PROVE SysvolInv'
<1> DEFINE R == {p \in Templates : Live("primary")[p] # 0}
<1>1. op' = Todo("delete", 0, R)
  BY DEF DeleteGpo
<1>2. op' \in Edit /\ op'.kind = "delete" /\ op'.rest = R
  <2>1. R \in SUBSET Paths
    BY DEF Paths
  <2> HIDE DEF R
  <2> QED BY <1>1, <2>1, TodoIs
<1>3. /\ gpc' = FALSE /\ edits' = edits + 1 /\ edits < MaxEdits
      /\ UNCHANGED <<file, clock, cursor, pulled, tree, scripts, sig, sysvolFaults>>
  BY DEF DeleteGpo
<1>4. \A p \in Templates \ R : Shown(file["primary"][p]) = 0
  BY DEF Live, Shown, Paths
<1> HIDE DEF R
<1>5. HalvesInv'
  BY <1>2, <1>3, <1>4 DEF HalvesInv
<1>6. gpc' \in BOOLEAN
  BY <1>3
<1> QED BY <1>2, <1>3, <1>5, <1>6, Counted, RequestStep

LEMMA EditScriptStep == ASSUME SysvolConfigured, SysvolInv, EditScript PROVE SysvolInv'
<1>1. PICK p \in Scripts, b \in {0, 1, 2} :
        op' = Todo(IF b = 0 THEN "delete" ELSE "write", b, {p})
  BY DEF EditScript
<1>2. /\ op' \in Edit /\ op'.kind \in {"write", "delete"} /\ op'.rest = {p}
      /\ op'.kind = "write" => op'.body # 0
  <2>1. {p} \in SUBSET Paths
    BY DEF Paths
  <2>2. CASE b = 0
    BY <1>1, <2>1, <2>2, TodoIs
  <2>3. CASE b # 0
    BY <1>1, <2>1, <2>3, TodoIs
  <2> QED BY <2>2, <2>3
<1>3. /\ edits' = edits + 1 /\ edits < MaxEdits /\ op = Nothing
      /\ UNCHANGED <<gpc, file, clock, cursor, pulled, tree, scripts, sig, sysvolFaults>>
  BY DEF EditScript
<1>4. Templates \ op'.rest = Templates /\ Templates \cap op'.rest = {}
  BY <1>2 DEF SysvolConfigured
<1>5. sysvolFaults = 0 => \A q \in Templates : (Shown(file["primary"][q]) # 0) = gpc
  BY <1>3, NoRowIs DEF SysvolInv, HalvesInv
<1>6. HalvesInv'
  BY <1>2, <1>3, <1>4, <1>5 DEF HalvesInv
<1>7. gpc' \in BOOLEAN
  BY <1>3 DEF SysvolInv, SysvolTypes
<1> QED BY <1>2, <1>3, <1>6, <1>7, Counted, RequestStep

LEMMA EditEndsStep == ASSUME SysvolConfigured, SysvolInv, EditEnds PROVE SysvolInv'
<1>1. /\ op.rest = {} /\ op' = Nothing
      /\ UNCHANGED <<gpc, file, clock, cursor, pulled, tree, scripts, sig, edits, sysvolFaults>>
  BY DEF EditEnds
<1>2. HalvesInv'
  BY <1>1, NoRowIs DEF SysvolInv, HalvesInv
<1>3. gpc' \in BOOLEAN /\ op' \in Edit
  BY <1>1, NoRowIs DEF SysvolInv, SysvolTypes
<1> QED BY <1>1, <1>2, <1>3, Counted, RequestStep

LEMMA EditFailsStep == ASSUME SysvolConfigured, SysvolInv, EditFails PROVE SysvolInv'
<1>1. /\ op' = Nothing /\ sysvolFaults < MaxSysvolFaults /\ sysvolFaults' = sysvolFaults + 1
      /\ UNCHANGED <<gpc, file, clock, cursor, pulled, tree, scripts, sig, edits>>
  BY DEF EditFails, SysvolFault
<1>2. sysvolFaults' # 0 /\ sysvolFaults' \in 0 .. MaxSysvolFaults
  BY <1>1, Counted
<1>3. HalvesInv'
  BY <1>1, <1>2, NoRowIs DEF HalvesInv
<1>4. gpc' \in BOOLEAN /\ op' \in Edit
  BY <1>1, NoRowIs DEF SysvolInv, SysvolTypes
<1> QED BY <1>1, <1>2, <1>3, <1>4, Counted, RequestStep

----------------------------------------------------------------------------
\* A row that is written: it stays, or has the next version and the time of now.
NewRow(r, x) == x = r \/ (x.version = r.version + 1 /\ x.stamp = clock + 1)

LEMMA UpsertedIs ==
  ASSUME SysvolInv, NEW r \in FileRows, NEW b \in {1, 2}
  PROVE  /\ Upserted(r, b) \in FileRows /\ NewRow(r, Upserted(r, b))
         /\ Shown(Upserted(r, b)) # 0
<1>0. clock \in Nat /\ r.version \in Nat /\ r.version + 1 \in Nat /\ clock + 1 \in Nat
  BY DEF SysvolInv, SysvolTypes, FileRows
<1>1. CASE r.version > 0 /\ ~r.deleted /\ r.body = b
  BY <1>1 DEF Upserted, NewRow, Shown
<1>2. CASE ~(r.version > 0 /\ ~r.deleted /\ r.body = b)
  <2>1. Upserted(r, b) = [version |-> r.version + 1, stamp |-> clock + 1, deleted |-> FALSE, body |-> b]
    BY <1>2 DEF Upserted
  <2>2. Upserted(r, b) \in FileRows
    BY <1>0, <2>1 DEF FileRows
  <2> QED BY <2>1, <2>2 DEF NewRow, Shown
<1> QED BY <1>1, <1>2

LEMMA BuriedIs ==
  ASSUME SysvolInv, NEW r \in FileRows, r.version = 0 => r.deleted
  PROVE  /\ Buried(r) \in FileRows /\ NewRow(r, Buried(r))
         /\ Shown(Buried(r)) = 0
<1>0. clock \in Nat /\ r.version \in Nat /\ r.version + 1 \in Nat /\ clock + 1 \in Nat
  BY DEF SysvolInv, SysvolTypes, FileRows
<1>1. CASE r.version = 0 \/ r.deleted
  BY <1>1 DEF Buried, NewRow, Shown
<1>2. CASE ~(r.version = 0 \/ r.deleted)
  <2>1. Buried(r) = [version |-> r.version + 1, stamp |-> clock + 1, deleted |-> TRUE, body |-> 0]
    BY <1>2 DEF Buried
  <2>2. Buried(r) \in FileRows
    BY <1>0, <2>1 DEF FileRows
  <2> QED BY <2>1, <2>2 DEF NewRow, Shown
<1> QED BY <1>1, <1>2

\* Rows are in order, and a write takes a row on.
LEMMA NewRowFits ==
  ASSUME NEW t \in Nat, t = clock, NEW r \in FileRows, NEW x \in FileRows, RowFits(r, t), NewRow(r, x)
  PROVE  RowFits(x, t + 1) /\ ~Ahead(r, x)
<1>1. /\ r.version \in Nat /\ r.stamp \in Nat /\ x.version \in Nat /\ x.stamp \in Nat
  BY DEF FileRows
<1>2. CASE x = r
  BY <1>1, <1>2 DEF RowFits, Ahead
<1>3. CASE x.version = r.version + 1 /\ x.stamp = clock + 1
  BY <1>1, <1>3 DEF RowFits, Ahead
<1> QED BY <1>2, <1>3 DEF NewRow

LEMMA FitsLater ==
  ASSUME NEW t \in Nat, NEW r \in FileRows, RowFits(r, t)
  PROVE  RowFits(r, t + 1)
<1>1. r.stamp \in Nat
  BY DEF FileRows
<1> QED BY <1>1 DEF RowFits

LEMMA AheadMoves ==
  ASSUME NEW a \in FileRows, NEW b \in FileRows, NEW c \in FileRows, ~Ahead(a, b), ~Ahead(b, c)
  PROVE  ~Ahead(a, c)
<1>1. /\ a.version \in Nat /\ a.stamp \in Nat /\ b.version \in Nat /\ b.stamp \in Nat
      /\ c.version \in Nat /\ c.stamp \in Nat
  BY DEF FileRows
<1> QED BY <1>1 DEF Ahead

\* A write of one file at one side.
LEMMA WriteStep ==
  ASSUME SysvolConfigured, SysvolInv, NEW n \in Sides, NEW p \in Paths, NEW x \in FileRows,
         NewRow(file[n][p], x), Write(n, p, x), UNCHANGED <<cursor, pulled>>
  PROVE  /\ file' \in [Sides -> [Paths -> FileRows]] /\ clock' \in Nat
         /\ file'[n][p] = x /\ \A m \in Sides, q \in Paths : <<m, q>> # <<n, p>> => file'[m][q] = file[m][q]
         /\ \A m \in Sides, q \in Paths :
              file'[m][q] = file[m][q] \/ file'[m][q].stamp = clock + 1
         /\ \A m \in Sides, q \in Paths : ~Ahead(file[m][q], file'[m][q])
         /\ StampInv'
<1>1. file \in [Sides -> [Paths -> FileRows]] /\ clock \in Nat
  BY DEF SysvolInv, SysvolTypes
<1>2. file' = [file EXCEPT ![n][p] = x] /\ clock' = clock + 1
  BY DEF Write
<1>3. file' \in [Sides -> [Paths -> FileRows]] /\ clock' \in Nat
  BY <1>1, <1>2
<1>4. file'[n][p] = x /\ \A m \in Sides, q \in Paths : <<m, q>> # <<n, p>> => file'[m][q] = file[m][q]
  BY <1>1, <1>2
<1>5. \A m \in Sides, q \in Paths :
              file'[m][q] = file[m][q] \/ file'[m][q].stamp = clock + 1
  BY <1>4 DEF NewRow
<1>6. \A m \in Sides, q \in Paths : RowFits(file[m][q], clock)
  BY DEF SysvolInv, StampInv
<1>7. \A m \in Sides, q \in Paths : NewRow(file[m][q], file'[m][q])
  BY <1>4 DEF NewRow
<1>8. \A m \in Sides, q \in Paths : RowFits(file'[m][q], clock + 1) /\ ~Ahead(file[m][q], file'[m][q])
  BY <1>1, <1>3, <1>6, <1>7, NewRowFits
<1>9. cursor.stamp <= clock + 1 /\ pulled.next.stamp <= clock + 1
  <2>1. /\ cursor.stamp \in Nat /\ pulled.next.stamp \in Nat
        /\ cursor.stamp <= clock /\ pulled.next.stamp <= clock
    BY DEF SysvolInv, SysvolTypes, StampInv, Cursors
  <2> HIDE DEF SysvolInv
  <2> QED BY <1>1, <2>1
<1>10. \A r \in pulled.rows : RowFits(r.row, clock + 1)
  <2>1. \A r \in pulled.rows : r.row \in FileRows /\ RowFits(r.row, clock)
    BY DEF SysvolInv, SysvolTypes, StampInv, PulledRows
  <2> QED BY <1>1, <2>1, FitsLater
<1>11. StampInv'
  BY <1>2, <1>8, <1>9, <1>10 DEF StampInv
<1> QED BY <1>3, <1>4, <1>5, <1>8, <1>11

\* What is written at the primary now is after the cursor and after the page under way.
LEMMA WrittenLater ==
  ASSUME SysvolInv, NEW p \in Paths, file'["primary"][p].stamp = clock + 1, UNCHANGED <<cursor, pulled>>
  PROVE  Later(At("primary", p), cursor)' /\ Later(At("primary", p), pulled.next)'
<1>1. /\ clock \in Nat /\ cursor.stamp \in Nat /\ pulled.next.stamp \in Nat
      /\ cursor.stamp <= clock /\ pulled.next.stamp <= clock
  BY DEF SysvolInv, SysvolTypes, StampInv, Cursors
<1>2. clock + 1 > cursor.stamp /\ clock + 1 > pulled.next.stamp
  BY <1>1
<1> QED BY <1>2 DEF Later, At

LEMMA StepStep == ASSUME SysvolConfigured, SysvolInv, Step PROVE SysvolInv'
<1> DEFINE row(p) == IF op.kind = "write" THEN Upserted(file["primary"][p], op.body)
                                          ELSE Buried(file["primary"][p])
<1>1. PICK p \in op.rest :
        /\ Write("primary", p, row(p))
        /\ op' = IF op.rest = {p} THEN Nothing ELSE [op EXCEPT !.rest = @ \ {p}]
  BY DEF Step
<1>u. UNCHANGED <<gpc, cursor, pulled, tree, scripts, sig, edits, sysvolFaults>>
  BY DEF Step
<1>t. /\ op \in Edit /\ p \in Paths /\ file["primary"][p] \in FileRows /\ op.rest \subseteq Paths
      /\ op.kind \in {"write", "delete"}
  BY SidesAre DEF SysvolInv, SysvolTypes, Edit, HalvesInv
<1>2. row(p) \in FileRows /\ NewRow(file["primary"][p], row(p)) /\ (Shown(row(p)) # 0) = (op.kind = "write")
  <2>1. CASE op.kind = "write"
    <3>1. op.body \in {1, 2}
      BY <1>t, <2>1 DEF SysvolInv, HalvesInv, Edit
    <3> QED BY <1>t, <2>1, <3>1, UpsertedIs
  <2>2. CASE op.kind # "write"
    <3>1. file["primary"][p].version = 0 => file["primary"][p].deleted
      BY <1>t, SidesAre DEF SysvolInv, StampInv, RowFits
    <3> QED BY <1>t, <2>2, <3>1, BuriedIs
  <2> QED BY <2>1, <2>2
<1> DEFINE x == row(p)
<1>3. x \in FileRows /\ NewRow(file["primary"][p], x) /\ Write("primary", p, x) /\ (Shown(x) # 0) = (op.kind = "write")
  BY <1>1, <1>2
<1> HIDE DEF x
<1>4. /\ file' \in [Sides -> [Paths -> FileRows]] /\ clock' \in Nat
      /\ file'["primary"][p] = x
      /\ \A m \in Sides, q \in Paths : <<m, q>> # <<"primary", p>> => file'[m][q] = file[m][q]
      /\ \A m \in Sides, q \in Paths : file'[m][q] = file[m][q] \/ file'[m][q].stamp = clock + 1
      /\ StampInv'
  BY <1>3, <1>t, <1>u, SidesAre, WriteStep
<1>5. op' \in Edit /\ op'.rest = op.rest \ {p} /\ op'.kind \in {"idle", op.kind}
      /\ (op'.kind = "idle" => op'.rest = {}) /\ (op'.kind # "idle" => op'.kind = op.kind /\ op'.body = op.body)
  <2>1. CASE op.rest = {p}
    BY <1>1, <2>1, NoRowIs
  <2>2. CASE op.rest # {p}
    BY <1>1, <1>t, <2>2 DEF Edit
  <2> QED BY <2>1, <2>2
<1>6. SysvolTypes'
  BY <1>4, <1>5, <1>u DEF SysvolInv, SysvolTypes
<1>7. \A q \in Paths : file'["secondary"][q] = file["secondary"][q]
  BY <1>4, SidesAre
<1>8. \A q \in Paths :
        \/ file'["primary"][q] = file["primary"][q]
        \/ Later(At("primary", q), cursor)' /\ Later(At("primary", q), pulled.next)'
  BY <1>4, <1>u, SidesAre, WrittenLater
<1>9. FilesFollow'
  <2> SUFFICES ASSUME NEW q \in Paths, file'["primary"][q].version > 0, ~Later(At("primary", q), cursor)'
               PROVE  ~Ahead(file'["primary"][q], file'["secondary"][q])
    BY DEF FilesFollow
  <2>1. file'["primary"][q] = file["primary"][q] /\ file'["secondary"][q] = file["secondary"][q]
    BY <1>7, <1>8
  <2>2. ~Later(At("primary", q), cursor)
    BY <2>1, <1>u DEF Later, At
  <2> QED BY <2>1, <2>2 DEF SysvolInv, FilesFollow
<1>10. PageInv'
  <2> SUFFICES ASSUME pulled'.busy, NEW q \in Paths, file'["primary"][q].version > 0,
                      ~Later(At("primary", q), pulled.next)'
               PROVE  ~Ahead(file'["primary"][q], file'["secondary"][q]) \/ InPage(q)'
    BY DEF PageInv, Behind
  <2>1. file'["primary"][q] = file["primary"][q] /\ file'["secondary"][q] = file["secondary"][q]
    BY <1>7, <1>8
  <2>2. ~Later(At("primary", q), pulled.next)
    BY <2>1, <1>u DEF Later, At
  <2> QED BY <2>1, <2>2, <1>u DEF SysvolInv, PageInv, Behind, InPage
<1>11. HalvesInv'
  <2>1. ASSUME sysvolFaults' = 0, NEW q \in Templates \ op'.rest
        PROVE  (Shown(file'["primary"][q]) # 0) = gpc'
    <3>1. CASE q = p
      <4>1. gpc = (op.kind = "write")
        BY <2>1, <3>1, <1>1, <1>u DEF SysvolInv, HalvesInv
      <4> QED BY <3>1, <4>1, <1>3, <1>4, <1>u
    <3>2. CASE q # p
      <4>1. q \in Templates \ op.rest /\ q \in Paths
        BY <2>1, <3>2, <1>5 DEF Paths
      <4>2. file'["primary"][q] = file["primary"][q]
        BY <3>2, <4>1, <1>4, SidesAre
      <4> QED BY <4>1, <4>2, <2>1, <1>u DEF SysvolInv, HalvesInv
    <3> QED BY <3>1, <3>2
  <2>2. ASSUME sysvolFaults' = 0, NEW q \in Templates \cap op'.rest
        PROVE  gpc' = (op'.kind = "write")
    <3>1. op'.kind = op.kind
      BY <2>2, <1>5
    <3>2. gpc = (op.kind = "write")
      BY <2>2, <1>5, <1>u DEF SysvolInv, HalvesInv
    <3> QED BY <3>1, <3>2, <1>u
  <2>3. (op'.kind = "write" => op'.body # 0) /\ (op'.kind = "idle" => op'.rest = {})
    BY <1>5 DEF SysvolInv, HalvesInv
  <2> QED BY <2>1, <2>2, <2>3 DEF HalvesInv
<1>12. ServedFollows'
  BY <1>u DEF SysvolInv, ServedFollows
<1> QED BY <1>4, <1>6, <1>9, <1>10, <1>11, <1>12 DEF SysvolInv

\* What only the secondary's rows change by, and only upwards.
LEMMA SecondaryGrows ==
  ASSUME SysvolInv, file' \in [Sides -> [Paths -> FileRows]],
         UNCHANGED <<cursor, gpc, op, sysvolFaults>>,
         \A q \in Paths : file'["primary"][q] = file["primary"][q],
         \A q \in Paths : ~Ahead(file["secondary"][q], file'["secondary"][q])
  PROVE  /\ FilesFollow' /\ HalvesInv'
         /\ \A q \in Paths : ~Ahead(file["primary"][q], file["secondary"][q]) =>
                             ~Ahead(file'["primary"][q], file'["secondary"][q])
<1>1. \A q \in Paths : /\ file["primary"][q] \in FileRows /\ file["secondary"][q] \in FileRows
                       /\ file'["secondary"][q] \in FileRows
  BY SidesAre DEF SysvolInv, SysvolTypes
<1>2. \A q \in Paths : ~Ahead(file["primary"][q], file["secondary"][q]) =>
                       ~Ahead(file'["primary"][q], file'["secondary"][q])
  BY <1>1, AheadMoves
<1>3. FilesFollow'
  <2> SUFFICES ASSUME NEW q \in Paths, file'["primary"][q].version > 0, ~Later(At("primary", q), cursor)'
               PROVE  ~Ahead(file'["primary"][q], file'["secondary"][q])
    BY DEF FilesFollow
  <2>1. ~Later(At("primary", q), cursor)
    BY DEF Later, At
  <2> QED BY <1>2, <2>1 DEF SysvolInv, FilesFollow
<1>4. HalvesInv'
  <2>1. \A q \in Templates : file'["primary"][q] = file["primary"][q]
    BY DEF Paths
  <2> QED BY <2>1 DEF SysvolInv, HalvesInv
<1> QED BY <1>2, <1>3, <1>4

LEMMA WriteHereStep == ASSUME SysvolConfigured, SysvolInv, WriteHere PROVE SysvolInv'
<1>1. PICK p \in Paths, b \in {1, 2} : Write("secondary", p, Upserted(file["secondary"][p], b))
  BY DEF WriteHere
<1>u. UNCHANGED <<gpc, op, cursor, pulled, tree, scripts, sig, sysvolFaults>> /\ edits < MaxEdits /\ edits' = edits + 1
  BY DEF WriteHere
<1> DEFINE x == Upserted(file["secondary"][p], b)
<1>2. x \in FileRows /\ NewRow(file["secondary"][p], x) /\ Write("secondary", p, x)
  <2>1. file["secondary"][p] \in FileRows
    BY SidesAre DEF SysvolInv, SysvolTypes
  <2> QED BY <1>1, <2>1, UpsertedIs
<1> HIDE DEF x
<1>4. /\ file' \in [Sides -> [Paths -> FileRows]] /\ clock' \in Nat
      /\ \A m \in Sides, q \in Paths : <<m, q>> # <<"secondary", p>> => file'[m][q] = file[m][q]
      /\ \A m \in Sides, q \in Paths : ~Ahead(file[m][q], file'[m][q])
      /\ StampInv'
  BY <1>2, <1>u, SidesAre, WriteStep
<1>5. /\ \A q \in Paths : file'["primary"][q] = file["primary"][q]
      /\ \A q \in Paths : ~Ahead(file["secondary"][q], file'["secondary"][q])
  BY <1>4, SidesAre
<1>6. /\ FilesFollow' /\ HalvesInv'
      /\ \A q \in Paths : ~Ahead(file["primary"][q], file["secondary"][q]) =>
                          ~Ahead(file'["primary"][q], file'["secondary"][q])
  BY <1>4, <1>5, <1>u, SecondaryGrows
<1>7. PageInv'
  <2> SUFFICES ASSUME pulled'.busy, NEW q \in Paths, file'["primary"][q].version > 0,
                      ~Later(At("primary", q), pulled.next)'
               PROVE  ~Ahead(file'["primary"][q], file'["secondary"][q]) \/ InPage(q)'
    BY DEF PageInv, Behind
  <2>1. ~Later(At("primary", q), pulled.next) /\ file'["primary"][q] = file["primary"][q]
    BY <1>5, <1>u DEF Later, At
  <2>2. ~Ahead(file["primary"][q], file["secondary"][q]) \/ InPage(q)
    BY <2>1, <1>u DEF SysvolInv, PageInv, Behind
  <2> QED BY <1>6, <2>1, <2>2, <1>u DEF InPage
<1>8. SysvolTypes'
  BY <1>4, <1>u, Counted DEF SysvolInv, SysvolTypes
<1>9. ServedFollows'
  BY <1>u DEF SysvolInv, ServedFollows
<1> QED BY <1>4, <1>6, <1>7, <1>8, <1>9 DEF SysvolInv

LEMMA FetchStep == ASSUME SysvolConfigured, SysvolInv, Fetch PROVE SysvolInv'
<1>s. PICK S \in SysvolFeed : \E last \in S :
        pulled' = [busy |-> TRUE, rows |-> {[path |-> p, row |-> file["primary"][p]] : p \in S},
                   next |-> At("primary", last)]
  BY DEF Fetch
<1>1. PICK last \in S :
        pulled' = [busy |-> TRUE, rows |-> {[path |-> p, row |-> file["primary"][p]] : p \in S},
                   next |-> At("primary", last)]
  BY <1>s
<1>u. UNCHANGED <<gpc, file, clock, op, cursor, tree, scripts, sig, edits, sysvolFaults>>
  BY DEF Fetch
<1>2. /\ S \subseteq Unseen /\ Unseen \subseteq Paths
      /\ \A p \in S, q \in Unseen \ S : Later(At("primary", q), At("primary", p))
  BY DEF SysvolFeed, Unseen
<1>t. file \in [Sides -> [Paths -> FileRows]]
  BY DEF SysvolInv, SysvolTypes
<1>3. \A p \in S : /\ [path |-> p, row |-> file["primary"][p]] \in PulledRows
                   /\ RowFits(file["primary"][p], clock) /\ file["primary"][p].stamp \in Nat
                   /\ file["primary"][p].stamp <= clock
  BY <1>t, <1>2, SidesAre DEF SysvolInv, StampInv, RowFits, PulledRows, FileRows
<1>4. At("primary", last) \in Cursors /\ At("primary", last).stamp <= clock
  BY <1>2, <1>3 DEF At, Cursors
<1>5. /\ pulled'.busy = TRUE /\ pulled'.next = At("primary", last)
      /\ pulled'.rows = {[path |-> p, row |-> file["primary"][p]] : p \in S}
  BY <1>1
<1>6. pulled' \in [busy : BOOLEAN, rows : SUBSET PulledRows, next : Cursors]
  <2>1. {[path |-> p, row |-> file["primary"][p]] : p \in S} \in SUBSET PulledRows
    BY <1>3
  <2> QED BY <1>1, <1>4, <2>1
<1>7. SysvolTypes'
  BY <1>6, <1>u DEF SysvolInv, SysvolTypes
<1>8. StampInv'
  <2>1. \A r \in pulled'.rows : RowFits(r.row, clock)
    BY <1>3, <1>5
  <2> QED BY <2>1, <1>4, <1>5, <1>u DEF SysvolInv, StampInv
<1>9. FilesFollow'
  BY <1>u DEF SysvolInv, FilesFollow, At, Later, Ahead
<1>10. PageInv'
  <2> SUFFICES ASSUME NEW q \in Paths, file["primary"][q].version > 0,
                      ~Later(At("primary", q), At("primary", last))
               PROVE  ~Ahead(file["primary"][q], file["secondary"][q]) \/ InPage(q)'
    BY <1>5, <1>u DEF PageInv, Behind, At
  <2>1. CASE q \in S
    BY <2>1, <1>5, <1>u DEF InPage
  <2>2. CASE q \notin S
    <3>1. q \notin Unseen
      BY <2>2, <1>2
    <3>2. ~Later(At("primary", q), cursor)
      BY <3>1 DEF Unseen
    <3> QED BY <3>2 DEF SysvolInv, FilesFollow
  <2> QED BY <2>1, <2>2
<1>11. HalvesInv'
  BY <1>u DEF SysvolInv, HalvesInv
<1>12. ServedFollows'
  BY <1>u DEF SysvolInv, ServedFollows
<1> QED BY <1>7, <1>8, <1>9, <1>10, <1>11, <1>12 DEF SysvolInv

LEMMA ApplyStep == ASSUME SysvolConfigured, SysvolInv, Apply PROVE SysvolInv'
<1>1. PICK r \in pulled.rows :
        /\ file' = IF Wins(r.row, file["secondary"][r.path])
                   THEN [file EXCEPT !["secondary"][r.path] = r.row] ELSE file
        /\ pulled' = [pulled EXCEPT !.rows = @ \ {r}]
  BY DEF Apply
<1>u. UNCHANGED <<gpc, clock, op, cursor, tree, scripts, sig, edits, sysvolFaults>> /\ pulled.busy
  BY DEF Apply
<1>t. /\ file \in [Sides -> [Paths -> FileRows]]
      /\ pulled \in [busy : BOOLEAN, rows : SUBSET PulledRows, next : Cursors]
      /\ clock \in Nat
  BY DEF SysvolInv, SysvolTypes
<1>2. r \in PulledRows /\ r.path \in Paths /\ r.row \in FileRows
  BY <1>1, <1>t DEF PulledRows
<1>3. /\ pulled'.rows = pulled.rows \ {r} /\ pulled'.busy = pulled.busy /\ pulled'.next = pulled.next
      /\ pulled' \in [busy : BOOLEAN, rows : SUBSET PulledRows, next : Cursors]
  BY <1>1, <1>t
<1>4. /\ file' \in [Sides -> [Paths -> FileRows]]
      /\ \A m \in Sides, q \in Paths : <<m, q>> # <<"secondary", r.path>> => file'[m][q] = file[m][q]
      /\ file'["secondary"][r.path] = IF Wins(r.row, file["secondary"][r.path]) THEN r.row
                                       ELSE file["secondary"][r.path]
  <2>1. CASE Wins(r.row, file["secondary"][r.path])
    <3>1. file' = [file EXCEPT !["secondary"][r.path] = r.row]
      BY <1>1, <2>1
    <3> QED BY <3>1, <2>1, <1>2, <1>t, SidesAre
  <2>2. CASE ~Wins(r.row, file["secondary"][r.path])
    BY <1>1, <2>2, <1>t
  <2> QED BY <2>1, <2>2
<1>5. \A q \in Paths : file'["primary"][q] = file["primary"][q]
  BY <1>4, SidesAre
<1>r. \A a, b \in FileRows : Wins(a, b) => ~Ahead(b, a)
  <2>1. \A a \in FileRows : a.version \in Nat /\ a.stamp \in Nat
    BY DEF FileRows
  <2> QED BY <2>1 DEF Wins, Ahead
<1>s. \A a \in FileRows : ~Ahead(a, a)
  <2>1. \A a \in FileRows : a.version \in Nat /\ a.stamp \in Nat
    BY DEF FileRows
  <2> QED BY <2>1 DEF Ahead
<1>i. \A q \in Paths : file["secondary"][q] \in FileRows
  BY <1>t, SidesAre
<1>6. \A q \in Paths : ~Ahead(file["secondary"][q], file'["secondary"][q])
  <2> SUFFICES ASSUME NEW q \in Paths PROVE ~Ahead(file["secondary"][q], file'["secondary"][q])
    OBVIOUS
  <2>1. CASE q # r.path
    BY <2>1, <1>4, <1>s, <1>i, SidesAre
  <2>2. CASE q = r.path
    BY <2>2, <1>2, <1>4, <1>r, <1>s, <1>i
  <2> QED BY <2>1, <2>2
<1>7. /\ FilesFollow' /\ HalvesInv'
      /\ \A q \in Paths : ~Ahead(file["primary"][q], file["secondary"][q]) =>
                          ~Ahead(file'["primary"][q], file'["secondary"][q])
  BY <1>4, <1>5, <1>6, <1>u, SecondaryGrows
<1>8. PageInv'
  <2> SUFFICES ASSUME NEW q \in Paths, file'["primary"][q].version > 0,
                      ~Later(At("primary", q), pulled.next)'
               PROVE  ~Ahead(file'["primary"][q], file'["secondary"][q]) \/ InPage(q)'
    BY DEF PageInv, Behind
  <2>1. ~Later(At("primary", q), pulled.next) /\ file'["primary"][q] = file["primary"][q]
    BY <1>3, <1>5 DEF Later, At
  <2>2. ~Ahead(file["primary"][q], file["secondary"][q]) \/ InPage(q)
    BY <2>1, <1>u DEF SysvolInv, PageInv, Behind
  <2>3. CASE [path |-> q, row |-> file["primary"][q]] # r
    BY <1>3, <1>7, <2>1, <2>2, <2>3 DEF InPage
  <2>4. CASE [path |-> q, row |-> file["primary"][q]] = r
    <3>1. r.path = q /\ r.row = file["primary"][q]
      BY <2>4
    <3>2. CASE Wins(r.row, file["secondary"][q])
      BY <3>1, <3>2, <1>4, <1>2, <1>s, <2>1
    <3>3. CASE ~Wins(r.row, file["secondary"][q])
      <4>1. ~Ahead(file["primary"][q], file["secondary"][q])
        BY <3>1, <3>3 DEF Wins, Ahead
      <4> QED BY <4>1, <1>7
    <3> QED BY <3>2, <3>3
  <2> QED BY <2>3, <2>4
<1>9. StampInv'
  <2>1. \A m \in Sides, q \in Paths : RowFits(file'[m][q], clock)
    <3>1. /\ RowFits(r.row, clock)
          /\ \A m \in Sides, q \in Paths : RowFits(file[m][q], clock)
      BY <1>1 DEF SysvolInv, StampInv
    <3> SUFFICES ASSUME NEW m \in Sides, NEW q \in Paths PROVE RowFits(file'[m][q], clock)
      OBVIOUS
    <3>2. CASE <<m, q>> # <<"secondary", r.path>>
      BY <3>1, <3>2, <1>4
    <3>3. CASE <<m, q>> = <<"secondary", r.path>>
      <4>1. m = "secondary" /\ q = r.path
        BY <3>3
      <4> QED BY <4>1, <3>1, <1>4, <1>2, SidesAre
    <3> QED BY <3>2, <3>3
  <2> QED BY <2>1, <1>3, <1>u DEF SysvolInv, StampInv
<1>10. SysvolTypes'
  BY <1>3, <1>4, <1>u DEF SysvolInv, SysvolTypes
<1>11. ServedFollows'
  BY <1>u DEF SysvolInv, ServedFollows
<1> QED BY <1>7, <1>8, <1>9, <1>10, <1>11 DEF SysvolInv

LEMMA NoPullIs == NoPull \in [busy : BOOLEAN, rows : SUBSET PulledRows, next : Cursors]
BY NoRowIs DEF NoPull

\* A pull ends, and the cursor moves to where what is behind it is here.
LEMMA PullEnds ==
  ASSUME SysvolConfigured, SysvolInv, pulled' = NoPull, cursor' \in Cursors, cursor'.stamp <= clock,
         UNCHANGED <<gpc, file, clock, op, tree, scripts, sig, edits>>,
         sysvolFaults' \in 0 .. MaxSysvolFaults,
         sysvolFaults' = sysvolFaults \/ sysvolFaults' = sysvolFaults + 1,
         \A q \in Paths : Behind(q, cursor') => ~Ahead(file["primary"][q], file["secondary"][q])
  PROVE  SysvolInv'
<1>1. SysvolTypes'
  BY NoPullIs DEF SysvolInv, SysvolTypes
<1>2. StampInv'
  <2>1. clock \in Nat /\ Start.stamp <= clock
    BY NoRowIs DEF SysvolInv, SysvolTypes
  <2> QED BY <2>1, NoRowIs DEF SysvolInv, StampInv
<1>3. FilesFollow'
  BY DEF FilesFollow, Behind, At, Later
<1>4. PageInv'
  BY NoRowIs DEF PageInv
<1>c. sysvolFaults \in Nat
  BY Counted
<1>5. HalvesInv'
  <2>1. sysvolFaults' = 0 => sysvolFaults = 0
    BY <1>c
  <2> QED BY <2>1 DEF SysvolInv, HalvesInv
<1>6. ServedFollows'
  BY <1>c, ServedKept
<1> QED BY <1>1, <1>2, <1>3, <1>4, <1>5, <1>6 DEF SysvolInv

LEMMA AdvanceStep == ASSUME SysvolConfigured, SysvolInv, Advance PROVE SysvolInv'
<1>1. /\ pulled.busy /\ pulled.rows = {} /\ cursor' = pulled.next /\ pulled' = NoPull
      /\ UNCHANGED <<gpc, file, clock, op, tree, scripts, sig, edits, sysvolFaults>>
  BY DEF Advance
<1>2. \A q \in Paths : Behind(q, cursor') => ~Ahead(file["primary"][q], file["secondary"][q])
  BY <1>1 DEF SysvolInv, PageInv, InPage
<1>3. cursor' \in Cursors /\ cursor'.stamp <= clock
  BY <1>1 DEF SysvolInv, SysvolTypes, StampInv
<1> QED BY <1>1, <1>2, <1>3, Counted, PullEnds

LEMMA PullFailsStep == ASSUME SysvolConfigured, SysvolInv, PullFails PROVE SysvolInv'
<1>1. /\ pulled' = NoPull /\ sysvolFaults < MaxSysvolFaults /\ sysvolFaults' = sysvolFaults + 1
      /\ cursor' = cursor \/ cursor' = Start
      /\ UNCHANGED <<gpc, file, clock, op, tree, scripts, sig, edits>>
  BY DEF PullFails, SysvolFault
<1>2. \A q \in Paths : Behind(q, cursor') => ~Ahead(file["primary"][q], file["secondary"][q])
  <2>1. CASE cursor' = cursor
    BY <2>1 DEF SysvolInv, FilesFollow, Behind
  <2>2. CASE cursor' = Start
    <3>1. \A q \in Paths : file["primary"][q].version > 0 =>
            file["primary"][q].stamp \in Nat /\ file["primary"][q].stamp >= 1
      BY SidesAre DEF SysvolInv, SysvolTypes, StampInv, RowFits, FileRows
    <3>2. \A q \in Paths : file["primary"][q].version > 0 => Later(At("primary", q), Start)
      BY <3>1, NoRowIs DEF Later, At
    <3> QED BY <2>2, <3>2 DEF Behind
  <2> QED BY <1>1, <2>1, <2>2
<1>3. cursor' \in Cursors /\ cursor'.stamp <= clock
  <2>1. clock \in Nat /\ Start.stamp <= clock
    BY NoRowIs DEF SysvolInv, SysvolTypes
  <2> QED BY <1>1, <2>1, NoRowIs DEF SysvolInv, SysvolTypes, StampInv
<1> QED BY <1>1, <1>2, <1>3, Counted, PullEnds

LEMMA RefreshStep == ASSUME SysvolConfigured, SysvolInv, Refresh PROVE SysvolInv'
<1>1. /\ sig' = Live("secondary") /\ tree' = Live("secondary")
      /\ UNCHANGED <<gpc, file, clock, op, cursor, pulled, edits>>
      /\ \/ scripts' = [p \in Scripts |-> Live("secondary")[p]] /\ UNCHANGED sysvolFaults
         \/ sysvolFaults < MaxSysvolFaults /\ sysvolFaults' = sysvolFaults + 1
  BY DEF Refresh, SysvolFault
<1>2. /\ sysvolFaults' \in 0 .. MaxSysvolFaults
      /\ sysvolFaults' = 0 => sysvolFaults = 0
      /\ sysvolFaults' = 0 => UNCHANGED sysvolFaults
  BY <1>1, Counted
<1>3. ServedFollows'
  <2>1. tree' = sig'
    BY <1>1
  <2>2. ASSUME sysvolFaults' = 0, NEW p \in Scripts PROVE scripts'[p] = sig'[p]
    <3>1. scripts' = [q \in Scripts |-> Live("secondary")[q]]
      BY <1>1, <2>2, Counted
    <3> QED BY <3>1, <1>1
  <2> QED BY <2>1, <2>2 DEF ServedFollows
<1>4. StampInv' /\ FilesFollow' /\ PageInv'
  BY <1>1, FilesKept
<1>5. HalvesInv'
  BY <1>1, <1>2 DEF SysvolInv, HalvesInv
<1>6. SysvolTypes'
  <2>1. UNCHANGED <<gpc, file, clock, op, cursor, pulled, edits>> /\ sysvolFaults' \in 0 .. MaxSysvolFaults
    BY <1>1, <1>2
  <2> QED BY <2>1 DEF SysvolInv, SysvolTypes
<1> QED BY <1>3, <1>4, <1>5, <1>6 DEF SysvolInv

LEMMA SysvolStep == ASSUME SysvolConfigured, SysvolInv, [SysvolNext]_sysvolVars PROVE SysvolInv'
<1>1. CASE UNCHANGED sysvolVars
  <2>1. UNCHANGED <<gpc, file, clock, op, cursor, pulled, tree, scripts, sig, edits, sysvolFaults>>
    BY <1>1 DEF sysvolVars
  <2>2. StampInv' /\ FilesFollow' /\ PageInv'
    BY <2>1, FilesKept
  <2> QED BY <2>1, <2>2 DEF SysvolInv, SysvolTypes, HalvesInv, ServedFollows
<1>2. CASE SysvolNext
  BY <1>2, CreateGpoStep, DeleteGpoStep, EditScriptStep, StepStep, EditEndsStep, EditFailsStep,
     WriteHereStep, FetchStep, ApplyStep, AdvanceStep, PullFailsStep, RefreshStep DEF SysvolNext
<1> QED BY <1>1, <1>2

----------------------------------------------------------------------------
(* The SMB connection.                                                        *)

\* Every nonce that was used is behind the counter.
SealInv ==
  /\ nonce \in Nat
  /\ \A a \in sealedWith : a[2] \in Nat /\ a[2] <= nonce
  /\ SealsOnce
PipeInv ==
  /\ pipes \in [DOMAIN pipes -> [len : Nat, pos : Nat]]
  /\ PlaceInside
ToldInv == told = Offer(dialect, encrypt) /\ EchoMatches
SmbInv == SmbTypeOK /\ SealInv /\ PipeInv /\ ToldInv

LEMMA SmbInitInv == SmbInit => SmbInv
<1> SUFFICES ASSUME SmbInit PROVE SmbInv
  OBVIOUS
<1>1. SmbTypeOK
  <2>1. logons = 0 /\ keys = [signing |-> 0, sealing |-> 0, application |-> 0]
    BY DEF SmbInit, NoKeys
  <2>2. 0 \in 0 .. logons
    BY <2>1
  <2>3. keys \in [signing : 0 .. logons, sealing : 0 .. logons, application : 0 .. logons]
    BY <2>1, <2>2
  <2>b. open \in BOOLEAN /\ encrypt \in BOOLEAN
    BY DEF SmbInit
  <2>4. /\ dialect \in {0, 21, 30, 311}
        /\ session \in 0 .. logons /\ nonce \in Nat /\ logons \in Nat /\ changes \in Nat
        /\ nextPipe \in Nat
    BY <2>1, <2>2 DEF SmbInit
  <2>5. listed \subseteq Indexes
    BY DEF SmbInit
  <2> QED BY <2>b, <2>3, <2>4, <2>5 DEF SmbTypeOK
<1>2. SealInv
  BY DEF SmbInit, SealInv, SealsOnce
<1>3. PipeInv
  BY DEF SmbInit, PipeInv, PlaceInside
<1>4. ToldInv
  BY DEF SmbInit, ToldInv, EchoMatches, Answer
<1> QED BY <1>1, <1>2, <1>3, <1>4 DEF SmbInv

\* An answer takes the next nonce.
LEMMA SealStep ==
  ASSUME SealInv, NEW seal \in BOOLEAN, Sealed(seal)
  PROVE  SealInv'
<1>1. CASE ~seal
  BY <1>1 DEF Sealed, SealInv, SealsOnce
<1>2. CASE seal
  <2> DEFINE new == <<keys'.sealing, nonce', Cardinality(sealedWith)>>
  <2>1. nonce' = nonce + 1 /\ sealedWith' = sealedWith \cup {new}
    BY <1>2 DEF Sealed
  <2>2. new[2] = nonce'
    OBVIOUS
  <2> HIDE DEF new
  <2>3. nonce' \in Nat /\ \A a \in sealedWith : a[2] \in Nat /\ a[2] <= nonce' /\ a[2] # nonce'
    BY <2>1 DEF SealInv
  <2>4. \A a \in sealedWith' : a[2] \in Nat /\ a[2] <= nonce'
    BY <2>1, <2>2, <2>3
  <2>5. SealsOnce'
    <3> SUFFICES ASSUME NEW a \in sealedWith', NEW b \in sealedWith', a[1] = b[1], a[2] = b[2]
                 PROVE  a = b
      BY DEF SealsOnce
    <3>1. CASE a \in sealedWith /\ b \in sealedWith
      BY <3>1 DEF SealInv, SealsOnce
    <3>2. CASE a = new
      BY <3>2, <2>1, <2>2, <2>3
    <3>3. CASE b = new
      BY <3>3, <2>1, <2>2, <2>3
    <3> QED BY <3>1, <3>2, <3>3, <2>1
  <2> QED BY <2>3, <2>4, <2>5 DEF SealInv
<1> QED BY <1>1, <1>2

LEMMA SealKept ==
  ASSUME SealInv, UNCHANGED <<nonce, sealedWith>>
  PROVE  SealInv'
BY DEF SealInv, SealsOnce

LEMMA PipesKept == ASSUME PipeInv, UNCHANGED pipes PROVE PipeInv'
BY DEF PipeInv, PlaceInside

\* An answer which is no validation.
LEMMA ToldKept ==
  ASSUME ToldInv, UNCHANGED <<dialect, encrypt, told>>, reply'.cmd # "validate"
  PROVE  ToldInv'
BY DEF ToldInv, EchoMatches, Offer

\* An answer that leaves the connection as it is.
LEMMA AnswerStep ==
  ASSUME SmbInv, NEW seal \in BOOLEAN, Handled(seal), UNCHANGED conn, Sealed(seal), reply'.cmd # "validate"
  PROVE  SmbInv'
<1>0. UNCHANGED <<open, dialect, encrypt, session, keys, listed, pipes, nextPipe, told, logons, changes>>
  BY DEF Handled, conn
<1>1. SealInv' /\ PipeInv' /\ ToldInv'
  BY <1>0, SealStep, PipesKept, ToldKept DEF SmbInv
<1>2. SmbTypeOK'
  BY <1>0, <1>1 DEF SmbInv, SmbTypeOK, SealInv
<1> QED BY <1>1, <1>2 DEF SmbInv

LEMMA AnsweredStep ==
  ASSUME SmbInv, NEW seal \in BOOLEAN, NEW cmd, cmd # "validate", NEW status, Answered(seal, cmd, status)
  PROVE  SmbInv'
<1>1. reply'.cmd # "validate"
  BY DEF Answered, Answer
<1> QED BY <1>1, AnswerStep DEF Answered

LEMMA NegotiateStep ==
  ASSUME SmbInv, NEW seal \in BOOLEAN, NEW d \in {21, 30, 311}, NEW can \in BOOLEAN, Negotiate(seal, d, can)
  PROVE  SmbInv'
<1>1. /\ changes' = changes + 1 /\ dialect' = d /\ encrypt' \in BOOLEAN
      /\ told' = Offer(dialect', encrypt') /\ reply'.cmd = "negotiate"
      /\ UNCHANGED <<open, session, keys, listed, pipes, nextPipe, logons>>
  BY DEF Negotiate, Handled, Answer
<1>2. SealInv' /\ PipeInv'
  BY <1>1, SealStep, PipesKept DEF SmbInv, Negotiate
<1>3. ToldInv'
  BY <1>1 DEF ToldInv, EchoMatches
<1>4. SmbTypeOK'
  BY <1>1, <1>2 DEF SmbInv, SmbTypeOK, SealInv
<1> QED BY <1>2, <1>3, <1>4 DEF SmbInv

LEMMA LogonStep ==
  ASSUME SmbInv, NEW seal \in BOOLEAN, NEW a \in BOOLEAN, Logon(seal, a)
  PROVE  SmbInv'
<1>1. /\ logons' = logons + 1 /\ session' = logons + 1 /\ keys' = Derived(logons + 1, a)
      /\ reply'.cmd = "setup"
      /\ UNCHANGED <<open, dialect, encrypt, listed, pipes, nextPipe, told, changes>>
  BY DEF Logon, Handled, Answer
<1>2. SealInv' /\ PipeInv' /\ ToldInv'
  BY <1>1, SealStep, PipesKept, ToldKept DEF SmbInv, Logon
<1>t. logons \in Nat /\ keys \in [signing : 0 .. logons, sealing : 0 .. logons, application : 0 .. logons]
  BY DEF SmbInv, SmbTypeOK
<1>3. keys' \in [signing : 0 .. logons', sealing : 0 .. logons', application : 0 .. logons']
  <2>1. keys.signing \in 0 .. logons' /\ keys.sealing \in 0 .. logons' /\ keys.application \in 0 .. logons'
    BY <1>1, <1>t
  <2>2. logons + 1 \in 0 .. logons'
    BY <1>1, <1>t
  <2> QED BY <1>1, <2>1, <2>2 DEF Derived
<1>4. session' \in 0 .. logons' /\ logons' \in Nat
  BY <1>1, <1>t
<1>5. SmbTypeOK'
  BY <1>1, <1>2, <1>3, <1>4 DEF SmbInv, SmbTypeOK, SealInv
<1> QED BY <1>2, <1>5 DEF SmbInv

\* A message that changes pipes or listings only.
LEMMA PipeStep ==
  ASSUME SmbInv, NEW seal \in BOOLEAN, Handled(seal), Sealed(seal), reply'.cmd # "validate", PipeInv',
         listed' \subseteq Indexes, nextPipe' \in Nat,
         UNCHANGED <<dialect, encrypt, session, keys, told, logons, changes>>
  PROVE  SmbInv'
<1>1. SealInv' /\ ToldInv'
  BY SealStep, ToldKept DEF SmbInv
<1>2. SmbTypeOK'
  BY <1>1 DEF SmbInv, SmbTypeOK, SealInv, Handled
<1> QED BY <1>1, <1>2 DEF SmbInv

LEMMA CreatePipeStep ==
  ASSUME SmbInv, NEW seal \in BOOLEAN, CreatePipe(seal)
  PROVE  SmbInv'
<1>1. /\ Handled(seal) /\ Sealed(seal) /\ reply'.cmd # "validate" /\ nextPipe' = nextPipe + 1
      /\ pipes' = [f \in DOMAIN pipes \cup {nextPipe + 1} |->
                     IF f = nextPipe + 1 THEN [len |-> 0, pos |-> 0] ELSE pipes[f]]
      /\ UNCHANGED <<dialect, encrypt, session, keys, listed, told, logons, changes>>
  BY DEF CreatePipe, Answer
<1>2. PipeInv'
  BY <1>1 DEF SmbInv, PipeInv, PlaceInside
<1>3. listed' \subseteq Indexes /\ nextPipe' \in Nat
  BY <1>1 DEF SmbInv, SmbTypeOK
<1> QED BY <1>1, <1>2, <1>3, PipeStep

\* Buffering an answer with a place inside it.
LEMMA BufferedStep ==
  ASSUME SmbInv, NEW f \in DOMAIN pipes, NEW len \in Nat, NEW pos \in Nat, pos <= len,
         pipes' = Buffered(f, len, pos)
  PROVE  PipeInv'
BY DEF SmbInv, PipeInv, PlaceInside, Buffered

LEMMA WritePipeStep ==
  ASSUME SmbInv, NEW seal \in BOOLEAN, NEW f, NEW len \in Nat, WritePipe(seal, f, len)
  PROVE  SmbInv'
<1>1. /\ Handled(seal) /\ Sealed(seal) /\ reply'.cmd # "validate" /\ f \in DOMAIN pipes
      /\ pipes' = Buffered(f, len, 0)
      /\ UNCHANGED <<dialect, encrypt, session, keys, listed, nextPipe, told, logons, changes>>
  BY DEF WritePipe, Answer
<1>2. PipeInv'
  BY <1>1, BufferedStep
<1>3. listed' \subseteq Indexes /\ nextPipe' \in Nat
  BY <1>1 DEF SmbInv, SmbTypeOK
<1> QED BY <1>1, <1>2, <1>3, PipeStep

LEMMA TransceiveStep ==
  ASSUME SmbInv, NEW seal \in BOOLEAN, NEW f, NEW len \in Nat, NEW max \in Nat, Transceive(seal, f, len, max)
  PROVE  SmbInv'
<1>1. /\ Handled(seal) /\ Sealed(seal) /\ reply'.cmd # "validate" /\ f \in DOMAIN pipes
      /\ (len > max /\ pipes' = Buffered(f, len, max)) \/ UNCHANGED pipes
      /\ UNCHANGED <<dialect, encrypt, session, keys, listed, nextPipe, told, logons, changes>>
  BY DEF Transceive, Answer
<1>2. PipeInv'
  <2>1. CASE UNCHANGED pipes
    BY <2>1, PipesKept DEF SmbInv
  <2>2. CASE len > max /\ pipes' = Buffered(f, len, max)
    <3>1. max <= len
      BY <2>2
    <3> QED BY <1>1, <2>2, <3>1, BufferedStep
  <2> QED BY <1>1, <2>1, <2>2
<1>3. listed' \subseteq Indexes /\ nextPipe' \in Nat
  BY <1>1 DEF SmbInv, SmbTypeOK
<1> QED BY <1>1, <1>2, <1>3, PipeStep

LEMMA ReadPipeStep ==
  ASSUME SmbInv, NEW seal \in BOOLEAN, NEW f, NEW length \in Nat, ReadPipe(seal, f, length)
  PROVE  SmbInv'
<1> DEFINE n == IF length < Available(f) THEN length ELSE Available(f)
<1>1. /\ Handled(seal) /\ Sealed(seal) /\ reply'.cmd # "validate" /\ f \in DOMAIN pipes
      /\ pipes' = [pipes EXCEPT ![f].pos = @ + n] \/ UNCHANGED pipes
      /\ UNCHANGED <<dialect, encrypt, session, keys, listed, nextPipe, told, logons, changes>>
  BY DEF ReadPipe, Answer
<1>2. PipeInv'
  <2>1. CASE UNCHANGED pipes
    BY <2>1, PipesKept DEF SmbInv
  <2>2. CASE pipes' = [pipes EXCEPT ![f].pos = @ + n]
    <3>1. /\ pipes \in [DOMAIN pipes -> [len : Nat, pos : Nat]]
          /\ pipes[f].pos \in Nat /\ pipes[f].len \in Nat /\ pipes[f].pos <= pipes[f].len
      BY <1>1 DEF SmbInv, PipeInv, PlaceInside
    <3>2. pipes[f].pos + n \in Nat /\ pipes[f].pos + n <= pipes[f].len
      BY <3>1 DEF Available
    <3> HIDE DEF n
    <3>3. /\ DOMAIN pipes' = DOMAIN pipes /\ pipes' \in [DOMAIN pipes -> [len : Nat, pos : Nat]]
          /\ pipes'[f].pos = pipes[f].pos + n /\ pipes'[f].len = pipes[f].len
          /\ \A g \in DOMAIN pipes \ {f} : pipes'[g] = pipes[g]
      BY <1>1, <2>2, <3>1, <3>2
    <3> QED BY <3>1, <3>2, <3>3 DEF SmbInv, PipeInv, PlaceInside
  <2> QED BY <1>1, <2>1, <2>2
<1>3. listed' \subseteq Indexes /\ nextPipe' \in Nat
  BY <1>1 DEF SmbInv, SmbTypeOK
<1> QED BY <1>1, <1>2, <1>3, PipeStep

LEMMA ValidateStep ==
  ASSUME SmbInv, NEW seal \in BOOLEAN, Validate(seal)
  PROVE  SmbInv'
<1>0. /\ UNCHANGED <<open, dialect, encrypt, session, keys, listed, pipes, nextPipe, told, logons, changes>>
      /\ reply' = Answer("validate", "ok", Echo) /\ Sealed(seal)
  BY DEF Validate, Handled, conn
<1>1. SealInv' /\ PipeInv'
  BY <1>0, SealStep, PipesKept DEF SmbInv
<1>2. ToldInv'
  BY <1>0 DEF SmbInv, ToldInv, EchoMatches, Answer, Echo, Offer
<1>3. SmbTypeOK'
  BY <1>0, <1>1 DEF SmbInv, SmbTypeOK, SealInv
<1> QED BY <1>1, <1>2, <1>3 DEF SmbInv

LEMMA QueryDirectoryStep ==
  ASSUME SmbInv, NEW seal \in BOOLEAN, NEW t, NEW i \in Indexes, QueryDirectory(seal, t, i)
  PROVE  SmbInv'
<1>1. /\ Handled(seal) /\ Sealed(seal) /\ reply'.cmd # "validate" /\ listed' \subseteq listed \cup {i}
      /\ UNCHANGED <<dialect, encrypt, session, keys, pipes, nextPipe, told, logons, changes>>
  <2>1. \/ listed' = listed \cup {i} /\ reply' = Answer("list", "ok", NoInfo)
        \/ UNCHANGED listed /\ reply' = Answer("list", "no more", NoInfo)
    BY DEF QueryDirectory
  <2>2. reply'.cmd # "validate"
    <3>1. CASE reply' = Answer("list", "ok", NoInfo)
      BY <3>1 DEF Answer
    <3>2. CASE reply' = Answer("list", "no more", NoInfo)
      BY <3>2 DEF Answer
    <3> QED BY <2>1, <3>1, <3>2
  <2>3. listed' \subseteq listed \cup {i}
    BY <2>1
  <2> QED BY <2>2, <2>3 DEF QueryDirectory
<1>2. PipeInv' /\ listed' \subseteq Indexes /\ nextPipe' \in Nat
  BY <1>1, PipesKept DEF SmbInv, SmbTypeOK
<1> QED BY <1>1, <1>2, PipeStep

LEMMA CloseStep ==
  ASSUME SmbInv, NEW seal \in BOOLEAN, NEW f, NEW i, Close(seal, f, i)
  PROVE  SmbInv'
<1>1. /\ Handled(seal) /\ Sealed(seal) /\ reply'.cmd # "validate" /\ listed' \subseteq listed
      /\ pipes' = [g \in DOMAIN pipes \ {f} |-> pipes[g]]
      /\ UNCHANGED <<dialect, encrypt, session, keys, nextPipe, told, logons, changes>>
  BY DEF Close, Answer
<1>2. PipeInv'
  BY <1>1 DEF SmbInv, PipeInv, PlaceInside
<1>3. listed' \subseteq Indexes /\ nextPipe' \in Nat
  BY <1>1 DEF SmbInv, SmbTypeOK
<1> QED BY <1>1, <1>2, <1>3, PipeStep

LEMMA MessageStep ==
  ASSUME MaxAnswer \in Nat, SmbInv, NEW seal \in BOOLEAN, Message(seal)
  PROVE  SmbInv'
<1>1. ASSUME NegotiateSmb1(seal) PROVE SmbInv'
  <2>1. reply'.cmd # "validate"
    BY <1>1 DEF NegotiateSmb1, Answer
  <2> QED BY <1>1, <2>1, AnswerStep DEF NegotiateSmb1
<1>2. ASSUME NEW s, SetupAnswered(seal, s) PROVE SmbInv'
  <2>1. reply'.cmd # "validate"
    BY <1>2 DEF SetupAnswered, Answer
  <2> QED BY <1>2, <2>1, AnswerStep DEF SetupAnswered
<1>3. ASSUME LogonNtlm(seal) \/ LogonKerberos(seal) PROVE SmbInv'
  BY <1>3, LogonStep DEF LogonNtlm, LogonKerberos
<1>4. ASSUME NEW f \in Fids, NEW n \in 0 .. MaxAnswer,
             WritePipe(seal, f, n) \/ ReadPipe(seal, f, n) \/ \E max \in 0 .. 1 : Transceive(seal, f, n, max)
      PROVE  SmbInv'
  <2>1. n \in Nat /\ \A max \in 0 .. 1 : max \in Nat
    OBVIOUS
  <2> QED BY <1>4, <2>1, WritePipeStep, ReadPipeStep, TransceiveStep
<1>5. ASSUME NEW t \in Trees, NEW i \in Indexes,
             QueryDirectory(seal, t, i) \/ CreateFile(seal, t, i) \/ ReadFile(seal, t, i)
      PROVE  SmbInv'
  BY <1>5, QueryDirectoryStep, AnsweredStep DEF CreateFile, ReadFile
<1>6. ASSUME TreeConnect(seal) \/ QueryInfo(seal) \/ Other(seal) PROVE SmbInv'
  BY <1>6, AnsweredStep DEF TreeConnect, QueryInfo, Other
<1> QED BY <1>1, <1>2, <1>3, <1>4, <1>5, <1>6, ValidateStep, NegotiateStep, CreatePipeStep, CloseStep
        DEF Message

LEMMA SmbStep == ASSUME MaxAnswer \in Nat, SmbInv, [SmbNext]_smbVars PROVE SmbInv'
<1>1. CASE UNCHANGED smbVars
  BY <1>1 DEF smbVars, conn, SmbInv, SmbTypeOK, SealInv, SealsOnce, PipeInv, PlaceInside, ToldInv,
              EchoMatches, Offer
<1>2. CASE Drop
  <2>1. UNCHANGED <<dialect, encrypt, session, keys, listed, pipes, nextPipe, told, logons, changes,
                    nonce, sealedWith, reply>> /\ open' = FALSE
    BY <1>2 DEF Drop, conn
  <2>2. SealInv' /\ PipeInv'
    BY <2>1, SealKept, PipesKept DEF SmbInv
  <2> QED BY <2>1, <2>2 DEF SmbInv, SmbTypeOK, ToldInv, EchoMatches, Offer
<1>3. CASE RefuseSignature("other")
  <2>1. UNCHANGED <<open, dialect, encrypt, session, keys, listed, pipes, nextPipe, told, logons, changes,
                    nonce, sealedWith>> /\ reply'.cmd # "validate"
    BY <1>3 DEF RefuseSignature, conn, Answer
  <2>2. SealInv' /\ PipeInv' /\ ToldInv'
    BY <2>1, SealKept, PipesKept, ToldKept DEF SmbInv
  <2> QED BY <2>1, <2>2 DEF SmbInv, SmbTypeOK
<1>4. ASSUME NEW t \in Trees, NEW n \in 1 .. MaxNodes, SetTree(t, n) PROVE SmbInv'
  <2>1. UNCHANGED <<open, dialect, encrypt, session, keys, listed, pipes, nextPipe, told, logons,
                    nonce, sealedWith, reply>> /\ changes' = changes + 1
    BY <1>4 DEF SetTree
  <2>2. SealInv' /\ PipeInv'
    BY <2>1, SealKept, PipesKept DEF SmbInv
  <2> QED BY <2>1, <2>2 DEF SmbInv, SmbTypeOK, ToldInv, EchoMatches, Offer
<1> QED BY <1>1, <1>2, <1>3, <1>4, MessageStep DEF SmbNext

LEMMA SmbInvGives == SmbInv => SmbSound
BY DEF SmbInv, SmbSound, SealInv, PipeInv, ToldInv

\* SYSVOL follows, for any files, pages and answers: nothing behind the cursor of the
\* secondary is missing or older than at the primary, however a pull is torn, repeated or
\* begun again and whatever is written meanwhile at either side; a policy has both halves
\* or neither; and the SMB connection that serves the files never seals two answers with
\* one nonce, never reads past an answer, and echoes what it negotiated.
THEOREM SysvolAlwaysFollows ==
  ASSUME SysvolConfigured, MaxAnswer \in Nat
  PROVE  SysvolSpec /\ SmbSpec => []SysvolFollows
<1>1. SysvolInit => SysvolInv
  BY SysvolInitInv
<1>2. SysvolInv /\ [SysvolNext]_sysvolVars => SysvolInv'
  BY SysvolStep
<1>3. SmbInit => SmbInv
  BY SmbInitInv
<1>4. SmbInv /\ [SmbNext]_smbVars => SmbInv'
  BY SmbStep
<1>5. SysvolInv /\ SmbInv => SysvolFollows
  BY SysvolInvGives, SmbInvGives DEF SysvolFollows
<1> QED BY <1>1, <1>2, <1>3, <1>4, <1>5, PTL DEF SysvolSpec, SmbSpec
=============================================================================
