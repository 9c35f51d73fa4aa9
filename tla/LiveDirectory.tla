--------------------------- MODULE LiveDirectory ---------------------------
(* The accounts of a running domain controller: the rows of ad_principal, the  *)
(* KDC's keys (those seeded at startup, those registered since, and those       *)
(* revoked) and the runtime users of the RPC directory. SAMR, LDAP and kpasswd  *)
(* change the keys in memory; a SAMR or LDAP account is saved by a task of its  *)
(* own; the web, LDAP and the replication agent change the rows; and two        *)
(* refreshers, the 20 s tick and the agent, carry the rows back into memory.    *)
EXTENDS Integers, FiniteSets

CONSTANTS
  Users,       \* user names
  Machines,    \* machine account names (ending in "$")
  Keys,        \* Kerberos keys
  MaxChanges,  \* bound: operations of clients
  MaxFaults    \* bound: failed saves and restarts

VARIABLES
  db,          \* db[u]: the row of u, or NoRow
  saving,      \* spawned saves that have not run
  boot,        \* boot[u]: the key seeded at startup, or None
  dynamic,     \* dynamic[u]: the key registered at runtime, or None
  revoked,     \* names revoked at runtime
  runtime,     \* names of the directory's runtime_users
  handles,     \* names created through SAMR by this process
  refresh,     \* refresh[r]: where refresher r is
  unseen,      \* names the KDC knows, gone from the rows before any refresh saw them
  changes, faults

vars == <<db, saving, boot, dynamic, revoked, runtime, handles, refresh, unseen, changes, faults>>
memory == <<boot, dynamic, revoked, runtime, handles>>

Names == Users \cup Machines
Refreshers == {"tick", "agent"}

\* No key; and the empty key of an account imported with its NT hash only.
None == "none"
NoKey == "empty"

Row(key, on, rid) == [key |-> key, on |-> on, rid |-> rid]
NoRow == [key |-> None]

\* Every account has a RID of its own, but for the machines LDAP adds: theirs is 0.
OwnRid(u) == u
ZeroRid == "0"
Idle == [at |-> "idle"]

\* The keys of the enabled rows of S.
Seedable(rows, S) ==
  [u \in Names |-> IF u \in S /\ rows[u] # NoRow /\ rows[u].on /\ rows[u].key # NoKey
                   THEN rows[u].key ELSE None]

\* PrincipalStore::get: revoked first, then dynamic, then the startup seed.
Get(u) ==
  IF u \in revoked THEN None ELSE IF dynamic[u] # None THEN dynamic[u] ELSE boot[u]

Count == changes < MaxChanges /\ changes' = changes + 1
Fault == faults < MaxFaults /\ faults' = faults + 1

----------------------------------------------------------------------------
(* Changes of the rows *)

\* upsert_local_principal: the row is replaced and enabled.
Upserted(u, key, rid) == [db EXCEPT ![u] = Row(key, TRUE, rid)]

\* The web sets a password or imports key material, or LDAP adds a user.
Provision(u, key) ==
  /\ Count
  /\ db' = Upserted(u, key, OwnRid(u))
  /\ unseen' = unseen \ {u}
  /\ UNCHANGED <<saving, memory, refresh, faults>>

\* LDAP adds a user without a password: a disabled row, unless there is one.
ProvisionDisabled(u) ==
  /\ Count
  /\ db[u] = NoRow
  /\ db' = [db EXCEPT ![u] = Row(NoKey, FALSE, OwnRid(u))]
  /\ unseen' = unseen \ {u}
  /\ UNCHANGED <<saving, memory, refresh, faults>>

\* A replication cycle merged a row for u, disabled or not; the agent refreshes next.
Replicated(u, key, on) ==
  /\ Count
  /\ refresh["agent"] = Idle
  /\ db' = [db EXCEPT ![u] = Row(key, on, OwnRid(u))]
  /\ unseen' = unseen \ {u}
  /\ refresh' = [refresh EXCEPT !["agent"] = [at |-> "due"]]
  /\ UNCHANGED <<saving, memory, faults>>

\* delete_replicated_principal, for the web's delete and for a tombstone: by RID, so
\* the machines that LDAP saved with RID 0 go together. The agent does not refresh
\* after a cycle of tombstones.
Delete(u) ==
  /\ Count
  /\ db[u] # NoRow
  /\ LET gone == {v \in Names : db[v] # NoRow /\ db[v].rid = db[u].rid} IN
     /\ db' = [v \in Names |-> IF v \in gone THEN NoRow ELSE db[v]]
     /\ unseen' = unseen \cup (gone \ runtime)
  /\ UNCHANGED <<saving, memory, refresh, faults>>

----------------------------------------------------------------------------
(* Changes in memory *)

\* SamrCreateUser2InDomain: the initial key, and a save of it.
SamrCreate(m, key) ==
  /\ Count
  /\ handles' = handles \cup {m}
  /\ dynamic' = [dynamic EXCEPT ![m] = key]
  /\ saving' = saving \cup {[name |-> m, key |-> key, rid |-> OwnRid(m)]}
  /\ UNCHANGED <<db, boot, revoked, runtime, refresh, unseen, faults>>

\* SamrSetInformationUser2 on a handle of this process: the password the client
\* chose is registered, published, and saved by a task of its own.
SamrSet(m, key) ==
  /\ Count
  /\ m \in handles
  /\ dynamic' = [dynamic EXCEPT ![m] = key]
  /\ runtime' = runtime \cup {m}
  /\ saving' = saving \cup {[name |-> m, key |-> key, rid |-> OwnRid(m)]}
  /\ UNCHANGED <<db, boot, revoked, handles, refresh, unseen, faults>>

\* register_machine: LDAP adds a computer; the row gets RID 0.
LdapMachine(m, key) ==
  /\ Count
  /\ dynamic' = [dynamic EXCEPT ![m] = key]
  /\ saving' = saving \cup {[name |-> m, key |-> key, rid |-> ZeroRid]}
  /\ UNCHANGED <<db, boot, revoked, runtime, handles, refresh, unseen, faults>>

\* kpasswd, by whoever holds a ticket: only the key in memory changes.
Kpasswd(u, key) ==
  /\ Count
  /\ u \in revoked \/ dynamic[u] # None \/ boot[u] # None
  /\ dynamic' = [dynamic EXCEPT ![u] = key]
  /\ UNCHANGED <<db, saving, boot, revoked, runtime, handles, refresh, unseen, faults>>

\* persist_account: spawned saves run in any order.
Persist(s) ==
  /\ s \in saving
  /\ saving' = saving \ {s}
  /\ db' = Upserted(s.name, s.key, s.rid)
  /\ unseen' = unseen \ {s.name}
  /\ UNCHANGED <<memory, refresh, changes, faults>>

\* The save fails with a warning.
PersistFails(s) ==
  /\ Fault
  /\ s \in saving
  /\ saving' = saving \ {s}
  /\ unseen' = IF db[s.name] = NoRow /\ s.name \notin runtime THEN unseen \cup {s.name} ELSE unseen
  /\ UNCHANGED <<db, memory, refresh, changes>>

----------------------------------------------------------------------------
(* refresh_live_directory: the rows are read, then the KDC seeded, the runtime   *)
(* users reduced, the removed ones revoked and the users of the rows put back.   *)

\* build_directory_from_db. The tick is always due, the agent after a merge.
Build(r) ==
  /\ refresh[r].at \in {"due", IF r = "tick" THEN "idle" ELSE "due"}
  /\ refresh' = [refresh EXCEPT ![r] = [at |-> "seed", rows |-> db]]
  /\ UNCHANGED <<db, saving, memory, unseen, changes, faults>>

\* Faulty variant: a disabled account loses only its runtime key.
OffNone(rows) == {}

\* The rows that are to be revoked: the disabled ones.
Off(rows) == {u \in Names : rows[u] # NoRow /\ ~rows[u].on}

\* seed_kdc_from_users: disabled users are revoked, the others registered, which
\* clears a revocation. A user without a key is left as it is.
SeedKdc(r) ==
  /\ refresh[r].at = "seed"
  /\ LET rows == refresh[r].rows
         keys == Seedable(rows, Names)
     IN /\ dynamic' = [u \in Names |-> CASE u \in Off(rows) -> None
                                         [] u \notin Off(rows) /\ keys[u] # None -> keys[u]
                                         [] OTHER -> dynamic[u]]
        /\ revoked' = (revoked \ {u \in Names : keys[u] # None}) \cup Off(rows)
  /\ refresh' = [refresh EXCEPT ![r].at = "retain"]
  /\ UNCHANGED <<db, saving, boot, runtime, handles, unseen, changes, faults>>

\* retain_runtime_users.
Retain(r) ==
  /\ refresh[r].at = "retain"
  /\ LET gone == {u \in runtime : refresh[r].rows[u] = NoRow} IN
     /\ runtime' = runtime \ gone
     /\ refresh' = [refresh EXCEPT ![r] = [at |-> "revoke", rows |-> @.rows, gone |-> gone]]
  /\ UNCHANGED <<db, saving, boot, dynamic, revoked, handles, unseen, changes, faults>>

\* Faulty variant: a removed user stays with the KDC.
RevokeNone(S) == UNCHANGED <<dynamic, revoked>>

\* remove_dynamic_principal of each name in S.
Revoke(S) ==
  /\ dynamic' = [u \in Names |-> IF u \in S THEN None ELSE dynamic[u]]
  /\ revoked' = revoked \cup S

RevokeGone(r) ==
  /\ refresh[r].at = "revoke"
  /\ Revoke(refresh[r].gone)
  /\ refresh' = [refresh EXCEPT ![r] = [at |-> "upsert", rows |-> @.rows]]
  /\ UNCHANGED <<db, saving, boot, runtime, handles, unseen, changes, faults>>

\* upsert_runtime_user of every row.
Upsert(r) ==
  /\ refresh[r].at = "upsert"
  /\ runtime' = runtime \cup {u \in Names : refresh[r].rows[u] # NoRow}
  /\ refresh' = [refresh EXCEPT ![r] = Idle]
  /\ UNCHANGED <<db, saving, boot, dynamic, revoked, handles, unseen, changes, faults>>

----------------------------------------------------------------------------
\* AddcService::start: users are seeded into the fixed keys, machines into the
\* dynamic ones.
Started(rows) ==
  /\ boot = Seedable(rows, Users)
  /\ dynamic = Seedable(rows, Machines)
  /\ revoked = {} /\ runtime = {} /\ handles = {}
  /\ refresh = [r \in Refreshers |-> Idle]
  /\ unseen = {} /\ saving = {}

\* The process restarts; saves that did not run are lost.
Restart ==
  /\ Fault
  /\ boot' = Seedable(db, Users)
  /\ dynamic' = Seedable(db, Machines)
  /\ revoked' = {} /\ runtime' = {} /\ handles' = {}
  /\ refresh' = [r \in Refreshers |-> Idle]
  /\ unseen' = {} /\ saving' = {}
  /\ UNCHANGED <<db, changes>>

\* The domain has its users at first, with one key.
Init ==
  /\ \E key \in Keys :
       db = [u \in Names |-> IF u \in Users THEN Row(key, TRUE, OwnRid(u)) ELSE NoRow]
  /\ Started(db)
  /\ changes = 0 /\ faults = 0

Refreshing(r) == Build(r) \/ SeedKdc(r) \/ Retain(r) \/ RevokeGone(r) \/ Upsert(r)

Next ==
  \/ \E u \in Users, key \in Keys \cup {NoKey} : Provision(u, key)
  \/ \E u \in Users : ProvisionDisabled(u)
  \/ \E u \in Users, key \in Keys, on \in BOOLEAN : Replicated(u, key, on)
  \/ \E u \in Names : Delete(u)
  \/ \E m \in Machines, key \in Keys : SamrCreate(m, key) \/ SamrSet(m, key) \/ LdapMachine(m, key)
  \/ \E u \in Names, key \in Keys : Kpasswd(u, key)
  \/ \E s \in saving : Persist(s) \/ PersistFails(s)
  \/ \E r \in Refreshers : Refreshing(r)
  \/ Restart

\* Spawned tasks run, and both refreshers go on.
Fairness ==
  /\ WF_vars(\E s \in saving : Persist(s))
  /\ \A r \in Refreshers : WF_vars(Refreshing(r))

Spec == Init /\ [][Next]_vars /\ Fairness

----------------------------------------------------------------------------
(* Properties *)

TypeOK ==
  /\ \A u \in Names : db[u] # NoRow => db[u].key \in Keys \cup {NoKey} /\ db[u].on \in BOOLEAN
  /\ \A s \in saving : s.name \in Machines /\ s.key \in Keys
  /\ boot \in [Names -> Keys \cup {None}] /\ dynamic \in [Names -> Keys \cup {None}]
  /\ revoked \subseteq Names /\ runtime \subseteq Names /\ handles \subseteq Machines
  /\ \A r \in Refreshers :
       refresh[r].at \in {"idle", "due", "seed", "retain", "revoke", "upsert"}

\* What the KDC answers for u agrees with its row. Excepted are names that no refresh
\* ever saw (retain_runtime_users reports only runtime users, so they stay until a
\* restart) and rows without a Kerberos key, whose earlier key is left in place.
Agrees(u) ==
  IF db[u] = NoRow THEN u \in unseen \/ Get(u) = None
  ELSE IF ~db[u].on THEN Get(u) = None
  ELSE db[u].key = NoKey \/ Get(u) = db[u].key

\* Whatever SAMR, LDAP, kpasswd, the web and replication did, and in whichever order the
\* saves and the two refreshes were applied, the KDC ends up with the rows: the current
\* key of an enabled account, none for one that is disabled or deleted.
KdcFollows == <>[](\A u \in Names : Agrees(u))
=============================================================================
