------------------------------ MODULE LdapTree ------------------------------
(* The directory tree of the LDAP service and of the web console: entries     *)
(* added, deleted, moved and put into groups by requests that run side by     *)
(* side, every one a series of queries to the store. An entry carries a       *)
(* has_children flag that its children maintain, groups name their members,    *)
(* a removal leaves a tombstone for content synchronisation, and a user or     *)
(* group has an identity (ad_principal, ad_group) that the KDC resolves.       *)
EXTENDS Integers, Sequences, FiniteSets

CONSTANTS
  TreeRequests,   \* requests in flight
  Rdns,           \* RDNs below the base
  GroupRdns,      \* the names that are groups
  Depth,          \* bound: RDNs in a DN, the base included
  MaxOps,         \* bound: requests started
  MaxTreeFaults   \* bound: store errors and crashes

VARIABLES
  entries,    \* entries[dn]: its row, [kids, members]
  tombs,      \* ldap_changelog: DNs that went away
  idents,     \* names with an ad_principal or ad_group row
  op,         \* op[r]: the request and what it has read
  ops, treeFaults,
  clean,      \* no error, no overlap, no move below itself or of its own member
  was,        \* every DN that was ever an entry
  untombed,   \* removed by a request that then failed
  stray       \* names whose entry LDAP removed, or that a rename took off it

treeVars == <<entries, tombs, idents, op, ops, treeFaults, clean, was, untombed, stray>>

Base == <<"base">>
\* Every DN of at most Depth RDNs: names, and the base at the end.
DNs == UNION {{d \in [1..n -> Rdns \cup {"base"}] : \A i \in 1..n : d[i] = "base" <=> i = n} :
                n \in 1..Depth}

Live == DOMAIN entries
IsGroup(d) == Head(d) \in GroupRdns
EntryRow(kids, members) == [kids |-> kids, members |-> members]
NoOp == [at |-> "idle"]
Children(d) == {e \in Live : Len(e) > 1 /\ Tail(e) = d}
\* UPDATE entry SET ... WHERE dn = d: nothing when the row is gone.
SetKids(d, b) == [e \in Live |-> IF e = d THEN [entries[e] EXCEPT !.kids = b] ELSE entries[e]]
SetMembers(d, M) == [e \in Live |-> IF e = d THEN [entries[e] EXCEPT !.members = M] ELSE entries[e]]

Goto(r, o) == op' = [op EXCEPT ![r] = o]

\* r starts on what it has just read.
Begins(r, o) ==
  /\ op[r].at = "idle"
  /\ ops < MaxOps
  /\ ops' = ops + 1
  /\ Goto(r, o)
  /\ UNCHANGED <<entries, tombs, idents, treeFaults, was, untombed, stray>>

Alone(r) == \A q \in TreeRequests \ {r} : op[q].at = "idle"

----------------------------------------------------------------------------
(* Adding an entry: handle_add, and the console's create functions *)

\* insert_entry's two checks.
MayInsert(d) == d \notin Live /\ Tail(d) \in Live

Add(r, d) ==
  /\ Len(d) > 1 /\ MayInsert(d)
  /\ Begins(r, [at |-> "create", dn |-> d])
  /\ clean' = (clean /\ Alone(r))

\* The row; the index on dn refuses a second one.
Create(r) ==
  /\ op[r].at = "create"
  /\ \/ /\ op[r].dn \notin Live
        /\ entries' = [d \in Live \cup {op[r].dn} |->
                         IF d = op[r].dn THEN EntryRow(FALSE, {}) ELSE entries[d]]
        /\ was' = was \cup {op[r].dn}
        /\ Goto(r, [op[r] EXCEPT !.at = "flag"])
     \/ /\ op[r].dn \in Live
        /\ Goto(r, NoOp)
        /\ UNCHANGED <<entries, was>>
  /\ UNCHANGED <<tombs, idents, ops, treeFaults, clean, untombed, stray>>

\* Mutant: the flag goes to the entry itself.
FlagSelf(r) ==
  /\ op[r].at = "flag"
  /\ entries' = SetKids(op[r].dn, FALSE)
  /\ Goto(r, [op[r] EXCEPT !.at = "provision"])
  /\ UNCHANGED <<tombs, idents, ops, treeFaults, clean, was, untombed, stray>>

\* set_has_children on the parent.
Flag(r) ==
  /\ op[r].at = "flag"
  /\ entries' = SetKids(Tail(op[r].dn), TRUE)
  /\ Goto(r, [op[r] EXCEPT !.at = "provision"])
  /\ UNCHANGED <<tombs, idents, ops, treeFaults, clean, was, untombed, stray>>

\* register_user, register_group, provision_ad_principal or provision_ad_group.
Provision(r) ==
  /\ op[r].at = "provision"
  /\ idents' = idents \cup {Head(op[r].dn)}
  /\ stray' = stray \ {Head(op[r].dn)}
  /\ Goto(r, NoOp)
  /\ UNCHANGED <<entries, tombs, ops, treeFaults, clean, was, untombed>>

----------------------------------------------------------------------------
(* Deleting an entry: handle_delete over LDAP, delete_entry of the console *)

\* The groups that name d, each with the member list it is to get.
Rewritten(d, Swap(_)) ==
  [g \in {e \in Live : IsGroup(e) /\ d \in entries[e].members} |-> Swap(entries[g].members)]

Delete(r, d, web) ==
  LET Strip(M) == M \ {d} IN
  /\ d \in Live \ {Base} /\ ~entries[d].kids
  /\ Begins(r, [at |-> "groups", dn |-> d, to |-> d, web |-> web, todo |-> Rewritten(d, Strip)])
  /\ clean' = (clean /\ Alone(r))

\* One group's member list is written back as computed from the list read.
Group(r, g) ==
  /\ op[r].at = "groups" /\ g \in DOMAIN op[r].todo
  /\ entries' = SetMembers(g, op[r].todo[g])
  /\ Goto(r, [op[r] EXCEPT !.todo = [h \in DOMAIN op[r].todo \ {g} |-> op[r].todo[h]]])
  /\ UNCHANGED <<tombs, idents, ops, treeFaults, clean, was, untombed, stray>>

GroupsDone(r) == op[r].at = "groups" /\ DOMAIN op[r].todo = {}

RemoveEntry(r) ==
  /\ GroupsDone(r) /\ op[r].to = op[r].dn
  /\ entries' = [d \in Live \ {op[r].dn} |-> entries[d]]
  /\ stray' = IF op[r].web THEN stray ELSE stray \cup {Head(op[r].dn)}
  /\ Goto(r, [op[r] EXCEPT !.at = "tomb"])
  /\ UNCHANGED <<tombs, idents, ops, treeFaults, clean, was, untombed>>

\* Mutant: the tombstone is of the new DN.
TombNew(r) ==
  /\ op[r].at = "tomb"
  /\ tombs' = tombs \cup {op[r].to}
  /\ Goto(r, [op[r] EXCEPT !.at = "count"])
  /\ UNCHANGED <<entries, idents, ops, treeFaults, clean, was, untombed, stray>>

\* The tombstone, also of the old DN of a rename.
Tomb(r) ==
  /\ op[r].at = "tomb"
  /\ tombs' = tombs \cup {op[r].dn}
  /\ Goto(r, [op[r] EXCEPT !.at = "count"])
  /\ UNCHANGED <<entries, idents, ops, treeFaults, clean, was, untombed, stray>>

\* list_children of the old parent; a rename looks only when the parent changes.
Count(r) ==
  /\ op[r].at = "count"
  /\ IF op[r].to # op[r].dn /\ Tail(op[r].to) = Tail(op[r].dn)
       THEN Goto(r, NoOp)
       ELSE Goto(r, [at |-> "recount", dn |-> op[r].dn, to |-> op[r].to, web |-> op[r].web,
                     kids |-> Children(Tail(op[r].dn)) # {}])
  /\ UNCHANGED <<entries, tombs, idents, ops, treeFaults, clean, was, untombed, stray>>

Recount(r) ==
  /\ op[r].at = "recount"
  /\ entries' = SetKids(Tail(op[r].dn), op[r].kids)
  /\ Goto(r, CASE op[r].to # op[r].dn -> [at |-> "flag-new", dn |-> op[r].to]
               [] op[r].to = op[r].dn /\ op[r].web -> [at |-> "teardown", dn |-> op[r].dn]
               [] OTHER -> NoOp)
  /\ UNCHANGED <<tombs, idents, ops, treeFaults, clean, was, untombed, stray>>

\* Mutant: the console leaves the identity, too.
TeardownNot(r) ==
  /\ op[r].at = "teardown"
  /\ Goto(r, NoOp)
  /\ UNCHANGED <<entries, tombs, idents, ops, treeFaults, clean, was, untombed, stray>>

\* The console removes the identity of the name; handle_delete does not.
Teardown(r) ==
  /\ op[r].at = "teardown"
  /\ idents' = idents \ {Head(op[r].dn)}
  /\ Goto(r, NoOp)
  /\ UNCHANGED <<entries, tombs, ops, treeFaults, clean, was, untombed, stray>>

----------------------------------------------------------------------------
(* Renaming and moving: rename_entry, from handle_moddn and move_entry *)

\* The new superior is looked up only when it is another one.
MayMove(d, e) ==
  /\ d \in Live \ {Base} /\ ~entries[d].kids
  /\ e # d /\ e \notin Live
  /\ Tail(e) = Tail(d) \/ Tail(e) \in Live

Rename(r, d, e) ==
  LET Swap(M) == (M \ {d}) \cup {e} IN
  /\ Len(e) > 1 /\ MayMove(d, e)
  /\ IsGroup(d) <=> IsGroup(e)
  /\ Begins(r, [at |-> "groups", dn |-> d, to |-> e, web |-> FALSE,
               members |-> entries[d].members, todo |-> Rewritten(d, Swap)])
  /\ clean' = (clean /\ Alone(r) /\ Tail(e) # d /\ d \notin entries[d].members)

\* The row gets its new DN and the attributes read at the start.
Move(r) ==
  LET d == op[r].dn  e == op[r].to IN
  /\ GroupsDone(r) /\ e # d
  /\ \/ /\ d \in Live /\ e \notin Live
        /\ entries' = [x \in (Live \ {d}) \cup {e} |->
                         IF x = e THEN EntryRow(entries[d].kids, op[r].members) ELSE entries[x]]
        /\ was' = was \cup {e}
        /\ Goto(r, [op[r] EXCEPT !.at = "tomb"])
     \/ /\ d \notin Live
        /\ Goto(r, [op[r] EXCEPT !.at = "tomb"])
        /\ UNCHANGED <<entries, was>>
     \/ /\ d \in Live /\ e \in Live
        /\ Goto(r, NoOp)
        /\ UNCHANGED <<entries, was>>
  /\ stray' = IF Head(e) = Head(d) THEN stray ELSE stray \cup {Head(d)}
  /\ UNCHANGED <<tombs, idents, ops, treeFaults, clean, untombed>>

FlagNew(r) ==
  /\ op[r].at = "flag-new"
  /\ entries' = SetKids(Tail(op[r].dn), TRUE)
  /\ Goto(r, NoOp)
  /\ UNCHANGED <<tombs, idents, ops, treeFaults, clean, was, untombed, stray>>

----------------------------------------------------------------------------
(* Membership: add_member, remove_member, and modify_entry on a group *)

AddMember(r, g, d) ==
  /\ g \in Live /\ IsGroup(g) /\ d \in Live
  /\ Begins(r, [at |-> "members", dn |-> g, members |-> entries[g].members \cup {d}])
  /\ clean' = (clean /\ Alone(r))

RemoveMember(r, g, d) ==
  /\ g \in Live /\ IsGroup(g) /\ d \in entries[g].members
  /\ Begins(r, [at |-> "members", dn |-> g, members |-> entries[g].members \ {d}])
  /\ clean' = (clean /\ Alone(r))

WriteMembers(r) ==
  /\ op[r].at = "members"
  /\ entries' = SetMembers(op[r].dn, op[r].members)
  /\ Goto(r, NoOp)
  /\ UNCHANGED <<tombs, idents, ops, treeFaults, clean, was, untombed, stray>>

----------------------------------------------------------------------------
\* A store error or the end of the process: the request stops where it is.
RequestStops(r) ==
  /\ op[r].at # "idle"
  /\ treeFaults < MaxTreeFaults
  /\ treeFaults' = treeFaults + 1
  /\ clean' = FALSE
  /\ untombed' = IF op[r].at = "tomb" THEN untombed \cup {op[r].dn} ELSE untombed
  /\ Goto(r, NoOp)
  /\ UNCHANGED <<entries, tombs, idents, ops, was, stray>>

TreeInit ==
  /\ entries = [d \in {Base} |-> EntryRow(FALSE, {})]
  /\ tombs = {} /\ idents = {} /\ was = {Base} /\ untombed = {} /\ stray = {}
  /\ op = [r \in TreeRequests |-> NoOp]
  /\ ops = 0 /\ treeFaults = 0 /\ clean = TRUE

TreeNext ==
  \E r \in TreeRequests :
    \/ \E d \in DNs : Add(r, d)
    \/ \E d \in Live, web \in BOOLEAN : Delete(r, d, web)
    \/ \E d \in Live, e \in DNs : Rename(r, d, e)
    \/ \E g, d \in Live : AddMember(r, g, d)
    \/ \E g \in Live : \E d \in entries[g].members : RemoveMember(r, g, d)
    \/ Create(r) \/ Flag(r) \/ Provision(r)
    \/ op[r].at = "groups" /\ \E g \in DOMAIN op[r].todo : Group(r, g)
    \/ RemoveEntry(r) \/ Tomb(r) \/ Count(r) \/ Recount(r) \/ Teardown(r)
    \/ Move(r) \/ FlagNew(r) \/ WriteMembers(r)
    \/ RequestStops(r)

TreeSpec == TreeInit /\ [][TreeNext]_treeVars

----------------------------------------------------------------------------
TreeTypeOK ==
  /\ Live \subseteq DNs /\ Base \in Live
  /\ \A d \in Live : entries[d] \in [kids : BOOLEAN, members : SUBSET DNs]
  /\ tombs \subseteq DNs /\ idents \subseteq Rdns
  /\ \A d \in Live : entries[d].members # {} => IsGroup(d)

Quiet == \A r \in TreeRequests : op[r].at = "idle"

\* After any series of requests one at a time and without errors the tree is
\* whole: every entry has its parent, has_children says whether there are
\* children (it is all that delete_entry and rename_entry look at), and groups
\* name entries that exist (delete_entry strips, rename_entry rewrites them).
Whole ==
  clean /\ Quiet =>
    \A d \in Live :
      /\ d # Base => Tail(d) \in Live
      /\ entries[d].kids <=> Children(d) # {}
      /\ entries[d].members \subseteq Live

\* However requests overlap, a DN that went away is on record for the consumers
\* of content synchronisation (delete_entry and rename_entry write the
\* tombstone after the row went), unless that very write failed.
RemovalOnRecord ==
  \A d \in was \ Live :
    \/ d \in tombs \cup untombed
    \/ \E r \in TreeRequests : op[r].at = "tomb" /\ op[r].dn = d

\* After any series of requests one at a time the KDC resolves only names that
\* still have an entry, but for entries deleted over LDAP or renamed: the
\* console's delete tears the identity down.
IdentityTornDown ==
  clean /\ Quiet => \A n \in idents \ stray : \E d \in Live : Head(d) = n

\* After requests one at a time the tree is whole: every entry has its parent,
\* has_children is right and groups name entries that exist. However requests overlap,
\* a DN that went away is on record for the consumers of content synchronisation, unless
\* that very write failed, and the KDC resolves only names that still have an entry, but
\* for entries deleted over LDAP or renamed.
TreeWhole == TreeTypeOK /\ Whole /\ RemovalOnRecord /\ IdentityTornDown
=============================================================================
