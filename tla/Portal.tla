------------------------------- MODULE Portal -------------------------------
(* The portal's local accounts and sessions: first-run setup under its lock,   *)
(* login, login through an upstream provider, the account screen with its      *)
(* last-admin guard, and the revocation of sessions. A call is a request that  *)
(* other requests overtake at each of its database operations.                 *)
EXTENDS Integers, FiniteSets

CONSTANTS
  Names,       \* user names
  Calls,       \* concurrent requests
  AutoProvision, \* TRUE: the provider admits identities without an account
  MaxSessions, \* bound: sessions created
  MaxChanges   \* bound: calls of the account screen

VARIABLES
  accounts,    \* accounts[n]: the account row of n, or NoAccount
  sessions,    \* the session rows: subject, role, live, late
  lock,        \* setup_lock: the call that holds it, or Free
  flows,       \* the started logins at the provider, by their state token
  call,        \* call[x]: where request x is
  setups,      \* accounts that setup created
  made,        \* sessions created so far
  changes,     \* calls of the account screen so far
  raced        \* a change was written between another's look at its account and its write

portalVars == <<accounts, sessions, lock, flows, call, setups, made, changes, raced>>

Roles == {"viewer", "admin"}
NoAccount == [role |-> "none", enabled |-> FALSE]
Unlocked == "free"
NoCall == [at |-> "idle"]
Admins == {n \in Names : accounts[n].enabled /\ accounts[n].role = "admin"}

\* What an account screen call does: the account it names and its new state. A
\* delete gives NoAccount; a change of role or of the flag keeps the other.
Changes(n) ==
  {[kind |-> "role", name |-> n, to |-> r] : r \in Roles} \cup
  {[kind |-> "enabled", name |-> n, on |-> b] : b \in BOOLEAN} \cup
  {[kind |-> "delete", name |-> n]} \cup
  {[kind |-> "create", name |-> n, to |-> r] : r \in Roles}

Moves(x, s) == call' = [call EXCEPT ![x] = s]

----------------------------------------------------------------------------
(* Setup *)

\* Faulty variant: setup takes no lock.
LockedNot(x) == UNCHANGED lock

\* The setup lock is held from here to the end of create_first_admin.
Locked(x) == lock = Unlocked /\ lock' = x

\* setup_first_admin enters create_first_admin.
Setup(x, n) ==
  /\ call[x] = NoCall
  /\ setups < 2
  /\ Locked(x)
  /\ Moves(x, [at |-> "hasAccounts", name |-> n])
  /\ UNCHANGED <<accounts, sessions, flows, setups, made, changes, raced>>

\* has_accounts: setup is refused when there is one.
HasAccounts(x) ==
  /\ call[x].at = "hasAccounts"
  /\ IF \A n \in Names : accounts[n] = NoAccount
     THEN /\ Moves(x, [call[x] EXCEPT !.at = "firstAdmin"])
          /\ UNCHANGED lock
     ELSE /\ Moves(x, NoCall)
          /\ lock' = IF lock = x THEN Unlocked ELSE lock
  /\ UNCHANGED <<accounts, sessions, flows, setups, made, changes, raced>>

\* create_account, the lock released, the session of the new admin to come. The
\* unique index on the name refuses a second row.
FirstAdmin(x) ==
  /\ call[x].at = "firstAdmin"
  /\ lock' = IF lock = x THEN Unlocked ELSE lock
  /\ IF accounts[call[x].name] = NoAccount
     THEN /\ accounts' = [accounts EXCEPT ![call[x].name] = [role |-> "admin", enabled |-> TRUE]]
          /\ setups' = setups + 1
          /\ Moves(x, [at |-> "session", name |-> call[x].name, role |-> "admin"])
     ELSE /\ Moves(x, NoCall)
          /\ UNCHANGED <<accounts, setups>>
  /\ UNCHANGED <<sessions, flows, made, changes, raced>>

----------------------------------------------------------------------------
(* Logins *)

\* verify_login finds an enabled account and the password is right.
Login(x, n) ==
  /\ call[x] = NoCall
  /\ accounts[n].enabled
  /\ Moves(x, [at |-> "session", name |-> n, role |-> accounts[n].role])
  /\ UNCHANGED <<accounts, sessions, lock, flows, setups, made, changes, raced>>

\* start_session, and the ends of local_login and callback: the row of the session,
\* with the role read before. late: its account is not enabled (any more).
StartSession(x) ==
  /\ call[x].at = "session"
  /\ made < MaxSessions
  /\ made' = made + 1
  /\ sessions' = sessions \cup
       {[subject |-> call[x].name, role |-> call[x].role, live |-> TRUE,
         late |-> ~accounts[call[x].name].enabled]}
  /\ Moves(x, NoCall)
  /\ UNCHANGED <<accounts, lock, flows, setups, changes, raced>>

\* Federation start: a flow with a fresh state token (here its number).
FlowStart(x) ==
  /\ call[x] = NoCall
  /\ flows = {}
  /\ flows' = {x}
  /\ UNCHANGED <<accounts, sessions, lock, call, setups, made, changes, raced>>

\* A flow is pruned after FLOW_TTL, and all of them when the process restarts.
FlowEnds ==
  /\ flows # {}
  /\ flows' = {}
  /\ UNCHANGED <<accounts, sessions, lock, call, setups, made, changes, raced>>

\* callback: the flow is consumed; the exchange with the provider may fail.
Callback(x) ==
  /\ call[x] = NoCall
  /\ \E f \in flows : flows' = flows \ {f}
  /\ \/ \E n \in Names : Moves(x, [at |-> "identity", name |-> n])
     \/ UNCHANGED call
  /\ UNCHANGED <<accounts, sessions, lock, setups, made, changes, raced>>

\* resolve_identity: the enabled account of that name, or a viewer without one.
Identity(x) ==
  LET a == accounts[call[x].name]
  IN /\ call[x].at = "identity"
     /\ Moves(x, IF a.enabled \/ AutoProvision
                THEN [at |-> "session", name |-> call[x].name,
                      role |-> IF a.enabled THEN a.role ELSE "viewer"]
                ELSE NoCall)
     /\ UNCHANGED <<accounts, sessions, lock, flows, setups, made, changes, raced>>

----------------------------------------------------------------------------
(* The account screen *)

\* require(Admin): the session is valid and carries the admin role.
Gate(x, s, op) ==
  /\ call[x] = NoCall
  /\ changes < MaxChanges
  /\ s \in sessions
  /\ s.live /\ s.role = "admin"
  /\ changes' = changes + 1
  /\ Moves(x, [at |-> "find", op |-> op])
  /\ UNCHANGED <<accounts, sessions, lock, flows, setups, made, raced>>

\* find_account_by_username: a create wants no account, the others want one.
Find(x) ==
  LET op == call[x].op
      a == accounts[op.name]
  IN /\ call[x].at = "find"
     /\ Moves(x, IF (a = NoAccount) # (op.kind = "create") THEN NoCall
                ELSE [at |-> "count", op |-> op, found |-> a])
     /\ UNCHANGED <<accounts, sessions, lock, flows, setups, made, changes, raced>>

\* Does the change take an admin away from the account that was found?
Guarded(op, a) ==
  /\ a.enabled /\ a.role = "admin"
  /\ \/ op.kind = "role" /\ op.to # "admin"
     \/ op.kind = "enabled" /\ ~op.on
     \/ op.kind = "delete"

\* Faulty variant: the last-admin check allows the last admin too.
RefusedNot(op, a) == Guarded(op, a) /\ Cardinality(Admins) = 0

\* is_last_enabled_admin refuses the change.
Refused(op, a) == Guarded(op, a) /\ Cardinality(Admins) <= 1

Check(x) ==
  LET c == call[x]
  IN /\ c.at = "count"
     /\ IF Refused(c.op, c.found)
        THEN Moves(x, NoCall)
        ELSE Moves(x, [at |-> "write", op |-> c.op])
     /\ UNCHANGED <<accounts, sessions, lock, flows, setups, made, changes, raced>>

\* The row an UPDATE, DELETE or CREATE leaves; an UPDATE of no row changes nothing,
\* and a CREATE of a name that exists by now is refused by the index.
WrittenAccount(op, a) ==
  CASE op.kind = "delete" -> NoAccount
    [] op.kind = "create" -> IF a = NoAccount THEN [role |-> op.to, enabled |-> TRUE] ELSE a
    [] op.kind = "role" -> IF a = NoAccount THEN a ELSE [a EXCEPT !.role = op.to]
    [] op.kind = "enabled" -> IF a = NoAccount THEN a ELSE [a EXCEPT !.enabled = op.on]

\* Faulty variant: disabling leaves the sessions.
RevokesDeleted(op) == op.kind = "delete"

\* Deleting and disabling an account revoke its sessions.
Revokes(op) == op.kind = "delete" \/ (op.kind = "enabled" /\ ~op.on)

WriteAccount(x) ==
  LET op == call[x].op
  IN /\ call[x].at = "write"
     /\ accounts' = [accounts EXCEPT ![op.name] = WrittenAccount(op, @)]
     /\ Moves(x, IF Revokes(op) THEN [at |-> "revoke", name |-> op.name] ELSE NoCall)
     /\ raced' = (raced \/ \E y \in Calls \ {x} : call[y].at \in {"count", "write"})
     /\ UNCHANGED <<sessions, lock, flows, setups, made, changes>>

\* revoke_sessions_for_subject.
Revoke(x) ==
  /\ call[x].at = "revoke"
  /\ sessions' = {IF s.subject = call[x].name THEN [s EXCEPT !.live = FALSE] ELSE s : s \in sessions}
  /\ Moves(x, NoCall)
  /\ UNCHANGED <<accounts, lock, flows, setups, made, changes, raced>>

\* logout, revoke_portal_sessions, or the 24 hours of the session are over.
End(s) ==
  /\ s.live
  /\ sessions' = (sessions \ {s}) \cup {[s EXCEPT !.live = FALSE]}
  /\ UNCHANGED <<accounts, lock, flows, call, setups, made, changes, raced>>

\* cleanup_expired_sessions.
Cleanup ==
  /\ \E s \in sessions : ~s.live
  /\ sessions' = {s \in sessions : s.live}
  /\ UNCHANGED <<accounts, lock, flows, call, setups, made, changes, raced>>

PortalInit ==
  /\ accounts = [n \in Names |-> NoAccount]
  /\ sessions = {}
  /\ lock = Unlocked
  /\ flows = {}
  /\ call = [x \in Calls |-> NoCall]
  /\ setups = 0 /\ made = 0 /\ changes = 0
  /\ raced = FALSE

PortalNext ==
  \/ \E x \in Calls :
       \/ \E n \in Names : Setup(x, n) \/ Login(x, n)
       \/ HasAccounts(x) \/ FirstAdmin(x) \/ StartSession(x)
       \/ FlowStart(x) \/ Callback(x) \/ Identity(x)
       \/ \E s \in sessions, n \in Names : \E op \in Changes(n) : Gate(x, s, op)
       \/ Find(x) \/ Check(x) \/ WriteAccount(x) \/ Revoke(x)
  \/ FlowEnds
  \/ \E s \in sessions : End(s)
  \/ Cleanup

PortalSpec == PortalInit /\ [][PortalNext]_portalVars

----------------------------------------------------------------------------
(* Properties *)

\* Sessions belong to names, calls are where a request can be.
PortalTypeOK ==
  /\ \A n \in Names : accounts[n].role \in Roles \cup {"none"} /\ accounts[n].enabled \in BOOLEAN
  /\ \A s \in sessions : s.subject \in Names /\ s.role \in Roles
  /\ lock \in Calls \cup {Unlocked}
  /\ lock \in Calls => call[lock].at \in {"hasAccounts", "firstAdmin"}

\* Setup makes one administrator while no account was ever deleted, whoever else is
\* in setup (create_first_admin is called TOCTOU-safe).
SetupOnce == (changes = 0) => setups <= 1

\* Once set up, an enabled admin is left, unless two calls of the account
\* screen overlapped: the guard looks before it leaps, and nothing holds the rest off.
AdminLeft == (setups > 0 /\ ~raced) => Admins # {}

\* Once set up, an enabled admin is left (AC-05, as the account functions state it).
LastAdminKept == (setups > 0) => Admins # {}

\* Only sessions made after an account was disabled or deleted outlive that: the
\* revocation misses none that existed.
RevokedWithAccount ==
  \A s \in sessions :
    (s.live /\ ~s.late /\ ~accounts[s.subject].enabled)
      => \E x \in Calls : call[x].at = "revoke" /\ call[x].name = s.subject

\* The portal always has an owner and forgets nobody it must: setup makes one
\* administrator while no account was ever deleted, whoever else is in setup; an
\* enabled administrator is left, unless two calls of the account screen overlapped
\* between their looks and their writes; and only sessions made after an account was
\* disabled or deleted outlive that.
PortalGuarded == PortalTypeOK /\ SetupOnce /\ AdminLeft /\ RevokedWithAccount

============================================================================
