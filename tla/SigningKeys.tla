---------------------------- MODULE SigningKeys ----------------------------
(* The signing keys of the OIDC issuer: the key rows in each node's store, the *)
(* keyring a running node signs and verifies with, rotation with its two       *)
(* writes and its reload, and the snapshot feed that copies the rows to a      *)
(* secondary. The clock counts token lifetimes; keys are numbered in the order *)
(* they are generated, which also orders the finer stamps of the rows.         *)
EXTENDS Integers, FiniteSets, FiniteSetsExt

CONSTANTS
  Nodes,      \* issuers
  Primary,    \* the node that serves the feed; the others pull it
  AdminNode,  \* AdminNode[a]: the node whose rotate-key endpoint administrator a calls
  Ttl,        \* TOKEN_TTL_SECS
  Grace,      \* RETIRED_KEY_GRACE_SECS
  MaxTime,    \* bound: the clock
  MaxKeys,    \* bound: no rotation once this many keys were generated
  InsertsFail, \* TRUE: the insert of a rotation may fail
  MaxFaults   \* bound: crashes and failing inserts

VARIABLES
  now,        \* the clock
  minted,     \* keys generated so far; keys are numbers in the order of creation
  rows,       \* rows[n]: the sso_signing_key rows of node n
  ring,       \* ring[n]: the keyring in memory, or Down
  rot,        \* rot[a]: where administrator a's rotation is
  signed,     \* unexpired tokens: key, expiry, issuer
  feed,       \* feed[n]: a snapshot on its way to secondary n, or NoFeed
  serial,     \* serial[n]: sso_repl_state of secondary n
  faults

keyVars == <<now, minted, rows, ring, rot, signed, feed, serial, faults>>

Active == 0   \* retired_at of a key that is not retired
Down == [up |-> FALSE]
NoRotation == [at |-> "idle"]
NoFeed == [sent |-> FALSE]
KeyRow(k) == [key |-> k, retired |-> Active, by |-> 0]   \* by: the key it was retired for
Actives(R) == {r \in R : r.retired = Active}
KeysOf(R) == {r.key : r \in R}

----------------------------------------------------------------------------
(* The store and the keyring *)

\* Faulty variant: a key is pruned as soon as it is retired.
PrunedAtOnce(R, t) == Actives(R)

\* prune_retired_signing_keys with the cutoff its callers compute.
Pruned(R, t) == {r \in R : r.retired = Active \/ r.retired >= t - Grace}

\* The keyring of a set of rows with an active one: the newest of these signs.
Keyring(R) == [up |-> TRUE, sign |-> Max(KeysOf(Actives(R))), all |-> KeysOf(R)]

\* load_or_init_keyring on node n at time t: prune, load, and generate a key when
\* no row is active. Gives the rows and the keyring; k is the key it may generate.
Loaded(R, k, t) ==
  LET kept == Pruned(R, t)
      full == IF Actives(kept) = {} THEN kept \cup {KeyRow(k)} ELSE kept
  IN [rows |-> full, ring |-> Keyring(full)]

\* SsoState::new on a node that starts.
Start(n) ==
  /\ ~ring[n].up
  /\ LET l == Loaded(rows[n], minted + 1, now)
     IN /\ rows' = [rows EXCEPT ![n] = l.rows]
        /\ ring' = [ring EXCEPT ![n] = l.ring]
        /\ minted' = IF minted + 1 \in KeysOf(l.rows) THEN minted + 1 ELSE minted
  /\ UNCHANGED <<now, rot, signed, feed, serial, faults>>

\* The process stops; its rotations stop with it.
Crash(n) ==
  /\ ring[n].up
  /\ faults < MaxFaults
  /\ faults' = faults + 1
  /\ ring' = [ring EXCEPT ![n] = Down]
  /\ rot' = [a \in DOMAIN AdminNode |-> IF AdminNode[a] = n THEN NoRotation ELSE rot[a]]
  /\ UNCHANGED <<now, minted, rows, signed, feed, serial>>

----------------------------------------------------------------------------
(* Rotation *)

\* rotate_signing_key's UPDATE.
Retired(R, k, t) ==
  (R \ Actives(R)) \cup {[key |-> r.key, retired |-> t, by |-> k] : r \in Actives(R)}

\* rotate: the key is generated, then the active rows are retired.
Rotate(a) ==
  LET n == AdminNode[a]
  IN /\ rot[a] = NoRotation
     /\ ring[n].up
     /\ minted < MaxKeys
     /\ minted' = minted + 1
     /\ rows' = [rows EXCEPT ![n] = Retired(@, minted', now)]
     /\ rot' = [rot EXCEPT ![a] = [at |-> "create", key |-> minted']]
     /\ UNCHANGED <<now, ring, signed, feed, serial, faults>>

\* The new row is created.
RotateCreate(a) ==
  /\ rot[a].at = "create"
  /\ rows' = [rows EXCEPT ![AdminNode[a]] = @ \cup {KeyRow(rot[a].key)}]
  /\ rot' = [rot EXCEPT ![a] = [at |-> "load"]]
  /\ UNCHANGED <<now, minted, ring, signed, feed, serial, faults>>

\* The create fails: rotate returns the error, the keyring stays as it is.
RotateFails(a) ==
  /\ rot[a].at = "create"
  /\ InsertsFail
  /\ faults < MaxFaults
  /\ faults' = faults + 1
  /\ rot' = [rot EXCEPT ![a] = NoRotation]
  /\ UNCHANGED <<now, minted, rows, ring, signed, feed, serial>>

\* The keyring is read back. It is in memory only after the swap below.
RotateLoad(a) ==
  LET n == AdminNode[a]
      l == Loaded(rows[n], minted + 1, now)
  IN /\ rot[a].at = "load"
     /\ minted' = IF minted + 1 \in KeysOf(l.rows) THEN minted + 1 ELSE minted
     /\ rows' = [rows EXCEPT ![n] = l.rows]
     /\ rot' = [rot EXCEPT ![a] = [at |-> "swap", ring |-> l.ring]]
     /\ UNCHANGED <<now, ring, signed, feed, serial, faults>>

\* Faulty variant: the rotation leaves the keyring in memory alone.
SwappedNot(old, new) == old

\* The write lock is taken and the keyring replaced.
Swapped(old, new) == new

RotateSwap(a) ==
  /\ rot[a].at = "swap"
  /\ ring' = [ring EXCEPT ![AdminNode[a]] = Swapped(@, rot[a].ring)]
  /\ rot' = [rot EXCEPT ![a] = NoRotation]
  /\ UNCHANGED <<now, minted, rows, signed, feed, serial, faults>>

----------------------------------------------------------------------------
(* Tokens *)

\* sign_id_token, sign_access_token: the first key of the keyring signs.
Sign(n) ==
  /\ ring[n].up
  /\ signed' = signed \cup {[key |-> ring[n].sign, exp |-> now + Ttl, iss |-> n]}
  /\ UNCHANGED <<now, minted, rows, ring, rot, feed, serial, faults>>

\* userinfo and Keyring::decode: by the key the token names.
Verifies(n, t) == t.key \in ring[n].all

----------------------------------------------------------------------------
(* Replication *)

\* The newest creation or retirement among the rows.
Serial(R) == Max({0} \cup KeysOf(R) \cup {r.by : r \in R})

\* GET /repl/sso.
Fetch(n) ==
  /\ n # Primary
  /\ ring[n].up /\ ring[Primary].up
  /\ ~feed[n].sent
  /\ feed' = [feed EXCEPT ![n] = [sent |-> TRUE, rows |-> rows[Primary]]]
  /\ UNCHANGED <<now, minted, rows, ring, rot, signed, serial, faults>>

\* A feed is applied unless its serial is the one applied last.
Fresh(n, f) == Serial(f) # serial[n]

\* apply_sso_repl: one transaction, then the serial; the keyring is not reloaded.
Apply(n) ==
  /\ feed[n].sent
  /\ feed' = [feed EXCEPT ![n] = NoFeed]
  /\ IF Fresh(n, feed[n].rows)
     THEN /\ rows' = [rows EXCEPT ![n] = feed[n].rows]
          /\ serial' = [serial EXCEPT ![n] = Serial(feed[n].rows)]
     ELSE UNCHANGED <<rows, serial>>
  /\ UNCHANGED <<now, minted, ring, rot, signed, faults>>

\* The answer is lost, or the secondary stops before it applies it.
Lose(n) ==
  /\ feed[n].sent
  /\ feed' = [feed EXCEPT ![n] = NoFeed]
  /\ UNCHANGED <<now, minted, rows, ring, rot, signed, serial, faults>>

\* A token lifetime passes. A rotation takes far less than that.
Elapse ==
  /\ now < MaxTime
  /\ \A a \in DOMAIN AdminNode : rot[a] = NoRotation
  /\ now' = now + 1
  /\ signed' = {t \in signed : t.exp >= now'}
  /\ UNCHANGED <<minted, rows, ring, rot, feed, serial, faults>>

KeysInit ==
  /\ now = 1
  /\ minted = 0
  /\ rows = [n \in Nodes |-> {}]
  /\ ring = [n \in Nodes |-> Down]
  /\ rot = [a \in DOMAIN AdminNode |-> NoRotation]
  /\ signed = {}
  /\ feed = [n \in Nodes |-> NoFeed]
  /\ serial = [n \in Nodes |-> 0]
  /\ faults = 0

KeysNext ==
  \/ \E n \in Nodes : Start(n) \/ Crash(n) \/ Sign(n) \/ Fetch(n) \/ Apply(n) \/ Lose(n)
  \/ \E a \in DOMAIN AdminNode :
       Rotate(a) \/ RotateCreate(a) \/ RotateFails(a) \/ RotateLoad(a) \/ RotateSwap(a)
  \/ Elapse

KeyFairness ==
  /\ WF_keyVars(Start(Primary))
  /\ \A a \in DOMAIN AdminNode : WF_keyVars(RotateCreate(a)) /\ WF_keyVars(RotateLoad(a)) /\ WF_keyVars(RotateSwap(a))
  /\ \A n \in Nodes \ {Primary} : WF_keyVars(Start(n)) /\ SF_keyVars(Fetch(n)) /\ SF_keyVars(Apply(n))

KeysSpec == KeysInit /\ [][KeysNext]_keyVars /\ KeyFairness

----------------------------------------------------------------------------
(* Properties *)

\* Tokens, rows and keyrings name generated keys.
KeysTypeOK ==
  /\ minted \in Nat
  /\ now \in 1..MaxTime
  /\ \A n \in Nodes :
       /\ KeysOf(rows[n]) \subseteq 1..minted
       /\ ring[n].up => ring[n].sign \in ring[n].all /\ ring[n].all \subseteq 1..minted
  /\ \A t \in signed : t.key \in 1..minted /\ t.exp >= now

\* While the primary runs, it verifies every unexpired token it issued: rotations,
\* pruning and restarts in any order keep the key of each (the promise of rotate).
PrimaryVerifies ==
  ring[Primary].up => \A t \in signed : t.iss = Primary => Verifies(Primary, t)

\* When no rotation is under way, the key the primary signs with is its only active
\* row, after a rotation cut off by a crash too; only a failed insert leaves none.
OneSigner ==
  (ring[Primary].up /\ \A a \in DOMAIN AdminNode : rot[a] = NoRotation)
    => LET active == KeysOf(Actives(rows[Primary]))
       IN active = {ring[Primary].sign} \/ (InsertsFail /\ active = {})

\* While the primary runs, it verifies every unexpired token it issued, through
\* rotations, pruning and restarts in any order; and when no rotation is under way, the
\* key it signs with is its only active row, after a rotation cut off by a crash too.
TokensVerify == KeysTypeOK /\ PrimaryVerifies /\ OneSigner

\* A key in the primary's store reaches every secondary's, unless it is pruned first
\* (a peer skips only an unchanged snapshot, says the comment on the feed).
KeysArrive ==
  \A n \in Nodes \ {Primary}, k \in 1..2 * MaxKeys :
    (k \in KeysOf(rows[Primary])) ~> (k \in KeysOf(rows[n]) \/ k \notin KeysOf(rows[Primary]))

============================================================================
