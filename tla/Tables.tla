------------------------------- MODULE Tables -------------------------------
(* The tables behind the screens of the console, two at a time: a table and one *)
(* whose rows name its rows.  Every statement of a call is a step of its own,   *)
(* there are no transactions, and calls overlap.  What differs from table to    *)
(* table is whether a key is looked up before a create, whether an index keeps  *)
(* it unique, whether a save looks up the row it names, and what a delete does  *)
(* about the rows that name the deleted one.                                    *)
EXTENDS Naturals, FiniteSets

CONSTANTS
  Callers,      \* requests that can be under way together
  MaxRows,      \* bound on the rows ever created
  MaxRequests,     \* bound on the calls
  MaxTableFaults     \* bound on failing statements and crashes

VARIABLES
  family,       \* the pair of tables
  parents,      \* rows of the first: id, key
  children,     \* rows of the second: id, key, ref
  backup,       \* the snapshot taken of the two, and whether there is one
  request,         \* what each request is about to do
  raced,        \* two requests have been under way together
  torn,         \* a restore stopped half way, or put back what was saved then
  rowsMade, requests, tableFaults

tableVars ==
  <<family, parents, children, backup, request, raced, torn, rowsMade, requests, tableFaults>>

----------------------------------------------------------------------------
(* The tables.                                                                *)

TableWith(looked, indexed, needs) == [looked |-> looked, indexed |-> indexed, needs |-> needs]

MailDomainTable == TableWith(TRUE, TRUE, FALSE)
MailUserTable == TableWith(TRUE, TRUE, TRUE)
AliasTable == TableWith(FALSE, TRUE, TRUE)
MailingListTable == TableWith(FALSE, TRUE, TRUE)
BackupMxTable == TableWith(TRUE, TRUE, FALSE)

ZoneTable == TableWith(TRUE, TRUE, FALSE)
RecordTable == TableWith(FALSE, FALSE, TRUE)
TsigKeyTable == TableWith(FALSE, TRUE, FALSE)
RpzTable == TableWith(FALSE, FALSE, FALSE)
GeoRuleTable == TableWith(FALSE, FALSE, FALSE)

CertificateTable == TableWith(TRUE, TRUE, FALSE)
VhostTable == TableWith(TRUE, TRUE, FALSE)
AclRuleTable == TableWith(FALSE, FALSE, FALSE)
IpBlockTable == TableWith(FALSE, FALSE, FALSE)
ForwardRuleTable == TableWith(FALSE, FALSE, FALSE)
ForwardUserTable == TableWith(TRUE, TRUE, FALSE)

PoolTable == TableWith(FALSE, TRUE, FALSE)
ReservationTable == TableWith(TRUE, FALSE, TRUE)

ProviderTable == TableWith(TRUE, TRUE, FALSE)
ClientTable == TableWith(FALSE, TRUE, FALSE)

K8sHostTable == TableWith(TRUE, TRUE, FALSE)
K8sRuleTable == TableWith(FALSE, FALSE, FALSE)
K8sTemplateTable == TableWith(FALSE, TRUE, FALSE)

LdapAclTable == TableWith(FALSE, FALSE, FALSE)

Family(parent, child, onDelete) == [parent |-> parent, child |-> child, onDelete |-> onDelete]

\* "guard": the rows that name it are read, and the delete is refused when there are
\* any; "drop": they are deleted first; "keep": nothing.
Families ==
  [users     |-> Family(MailDomainTable, MailUserTable, "guard"),
   aliases   |-> Family(MailUserTable, AliasTable, "keep"),
   lists     |-> Family(MailUserTable, MailingListTable, "keep"),
   mx        |-> Family(BackupMxTable, BackupMxTable, "keep"),
   records   |-> Family(ZoneTable, RecordTable, "drop"),
   geo       |-> Family(ZoneTable, GeoRuleTable, "keep"),
   tsig      |-> Family(TsigKeyTable, ZoneTable, "keep"),
   rpz       |-> Family(RpzTable, RpzTable, "keep"),
   vhosts    |-> Family(CertificateTable, VhostTable, "guard"),
   acls      |-> Family(VhostTable, AclRuleTable, "guard"),
   blocks    |-> Family(IpBlockTable, ForwardRuleTable, "keep"),
   forward   |-> Family(ForwardUserTable, ForwardRuleTable, "keep"),
   reserved  |-> Family(PoolTable, ReservationTable, "guard"),
   clients   |-> Family(ProviderTable, ClientTable, "keep"),
   rules     |-> Family(K8sHostTable, K8sRuleTable, "keep"),
   templates |-> Family(K8sTemplateTable, LdapAclTable, "keep")]

Keys == {"a", "b"}
NoRef == "none"

----------------------------------------------------------------------------
(* Calls.                                                                     *)

NoRequest == [at |-> "idle", key |-> "a", ref |-> NoRef, id |-> 0]
TableFault == tableFaults < MaxTableFaults /\ tableFaults' = tableFaults + 1
To(c, step) == request' = [request EXCEPT ![c] = step]
Done(c) == To(c, NoRequest)

Keyed(rows, k) == {r \in rows : r.key = k}
Naming(k) == {r \in children : r.ref = k}
RowOf(rows, id) == {r \in rows : r.id = id}

\* A request is let in (require, validation) and will do its first statement.
BeginRequest(c, step) ==
  /\ request[c] = NoRequest
  /\ requests < MaxRequests
  /\ requests' = requests + 1
  /\ raced' = (raced \/ \E d \in Callers \ {c} : request[d] # NoRequest)
  /\ To(c, step)
  /\ UNCHANGED <<family, parents, children, backup, torn, rowsMade, tableFaults>>

Request(c) ==
  \/ \E k \in Keys : BeginRequest(c, [NoRequest EXCEPT !.at = "look parent", !.key = k])
  \/ \E k \in Keys, r \in Keys \cup {NoRef} :
       BeginRequest(c, [NoRequest EXCEPT !.at = "find named", !.key = k, !.ref = r])
  \/ \E p \in parents :
       BeginRequest(c, [NoRequest EXCEPT !.at = "read naming", !.key = p.key, !.id = p.id])
  \/ \E r \in children, k \in Keys \cup {NoRef} :
       BeginRequest(c, [NoRequest EXCEPT !.at = "find new", !.ref = k, !.id = r.id])
  \/ \E r \in children : BeginRequest(c, [NoRequest EXCEPT !.at = "delete child", !.id = r.id])
  \/ BeginRequest(c, [NoRequest EXCEPT !.at = "snapshot"])
  \/ backup.kept /\ BeginRequest(c, [NoRequest EXCEPT !.at = "empty parents"])

\* The key is looked up where the code does; a key that is taken refuses the call.
LookParent(c) ==
  /\ request[c].at = "look parent"
  /\ IF family.parent.looked /\ Keyed(parents, request[c].key) # {}
     THEN Done(c) ELSE To(c, [request[c] EXCEPT !.at = "create parent"])
  /\ UNCHANGED <<family, parents, children, backup, raced, torn, rowsMade, requests, tableFaults>>

\* Mutant: the create relies on the lookup before it.
Taken_Looked(table, rows, k) == FALSE

\* The index of the table.
Taken(table, rows, k) == table.indexed /\ Keyed(rows, k) # {}

CreateParent(c) ==
  /\ request[c].at = "create parent"
  /\ \/ /\ ~Taken(family.parent, parents, request[c].key)
        /\ rowsMade < MaxRows
        /\ rowsMade' = rowsMade + 1
        /\ parents' = parents \cup {[id |-> rowsMade', key |-> request[c].key]}
     \/ Taken(family.parent, parents, request[c].key) /\ UNCHANGED <<parents, rowsMade>>
  /\ Done(c)
  /\ UNCHANGED <<family, children, backup, raced, torn, requests, tableFaults>>

\* The row that a new row names, where the code looks it up.
FindNamed(c) ==
  /\ request[c].at = "find named"
  /\ IF family.child.needs /\ Keyed(parents, request[c].ref) = {}
     THEN Done(c) ELSE To(c, [request[c] EXCEPT !.at = "look child"])
  /\ UNCHANGED <<family, parents, children, backup, raced, torn, rowsMade, requests, tableFaults>>

LookChild(c) ==
  /\ request[c].at = "look child"
  /\ IF family.child.looked /\ Keyed(children, request[c].key) # {}
     THEN Done(c) ELSE To(c, [request[c] EXCEPT !.at = "create child"])
  /\ UNCHANGED <<family, parents, children, backup, raced, torn, rowsMade, requests, tableFaults>>

CreateChild(c) ==
  /\ request[c].at = "create child"
  /\ \/ /\ ~Taken(family.child, children, request[c].key)
        /\ rowsMade < MaxRows
        /\ rowsMade' = rowsMade + 1
        /\ children' = children \cup {[id |-> rowsMade', key |-> request[c].key, ref |-> request[c].ref]}
     \/ Taken(family.child, children, request[c].key) /\ UNCHANGED <<children, rowsMade>>
  /\ Done(c)
  /\ UNCHANGED <<family, parents, backup, raced, torn, requests, tableFaults>>

\* A row is changed by its id; one that is gone stays gone.
FindNew(c) ==
  /\ request[c].at = "find new"
  /\ IF family.child.needs /\ Keyed(parents, request[c].ref) = {}
     THEN Done(c) ELSE To(c, [request[c] EXCEPT !.at = "update child"])
  /\ UNCHANGED <<family, parents, children, backup, raced, torn, rowsMade, requests, tableFaults>>

UpdateChild(c) ==
  /\ request[c].at = "update child"
  /\ children' = {IF r.id = request[c].id THEN [r EXCEPT !.ref = request[c].ref] ELSE r : r \in children}
  /\ Done(c)
  /\ UNCHANGED <<family, parents, backup, raced, torn, rowsMade, requests, tableFaults>>

DeleteChild(c) ==
  /\ request[c].at = "delete child"
  /\ children' = children \ RowOf(children, request[c].id)
  /\ Done(c)
  /\ UNCHANGED <<family, parents, backup, raced, torn, rowsMade, requests, tableFaults>>

\* What the delete of a row does about those that name it, before the row goes.
ReadNaming(c) ==
  /\ request[c].at = "read naming"
  /\ \/ /\ family.onDelete = "guard" /\ Naming(request[c].key) # {}
        /\ Done(c)
        /\ UNCHANGED children
     \/ /\ family.onDelete # "guard" \/ Naming(request[c].key) = {}
        /\ To(c, [request[c] EXCEPT !.at = "delete parent"])
        /\ children' = IF family.onDelete = "drop" THEN children \ Naming(request[c].key)
                                                  ELSE children
  /\ UNCHANGED <<family, parents, backup, raced, torn, rowsMade, requests, tableFaults>>

DeleteParent(c) ==
  /\ request[c].at = "delete parent"
  /\ parents' = parents \ RowOf(parents, request[c].id)
  /\ Done(c)
  /\ UNCHANGED <<family, children, backup, raced, torn, rowsMade, requests, tableFaults>>

\* create_backup: the tables one after the other, then the row that holds the snapshot.
Snapshot(c) ==
  \/ /\ request[c].at = "snapshot"
     /\ backup' = [kept |-> FALSE, parents |-> parents, children |-> {}, torn |-> torn]
     /\ To(c, [NoRequest EXCEPT !.at = "snapshot children"])
     /\ UNCHANGED <<family, parents, children, raced, torn, rowsMade, requests, tableFaults>>
  \/ /\ request[c].at = "snapshot children"
     /\ backup' = [backup EXCEPT !.kept = TRUE, !.children = children]
     /\ Done(c)
     /\ UNCHANGED <<family, parents, children, raced, torn, rowsMade, requests, tableFaults>>

\* INSERT of all rows or, when the index refuses one, of none: the error is not looked at.
Fill(table, rows, saved) ==
  IF \E s \in saved : Taken(table, rows, s.key) THEN rows ELSE rows \cup saved

\* restore_backup: each table is emptied and filled again.
Restore(c) ==
  \/ /\ request[c].at = "empty parents"
     /\ parents' = {} /\ torn' = TRUE
     /\ To(c, [NoRequest EXCEPT !.at = "fill parents"])
     /\ UNCHANGED children
     /\ UNCHANGED <<family, backup, raced, rowsMade, requests, tableFaults>>
  \/ /\ request[c].at = "fill parents"
     /\ parents' = Fill(family.parent, parents, backup.parents)
     /\ To(c, [NoRequest EXCEPT !.at = "empty children"])
     /\ UNCHANGED <<family, children, backup, raced, torn, rowsMade, requests, tableFaults>>
  \/ /\ request[c].at = "empty children"
     /\ children' = {}
     /\ To(c, [NoRequest EXCEPT !.at = "fill children"])
     /\ UNCHANGED <<family, parents, backup, raced, torn, rowsMade, requests, tableFaults>>
  \/ /\ request[c].at = "fill children"
     /\ children' = Fill(family.child, children, backup.children) /\ torn' = backup.torn
     /\ Done(c)
     /\ UNCHANGED <<family, parents, backup, raced, rowsMade, requests, tableFaults>>

\* A statement fails or the server stops: the statements before stay done.
RequestFails(c) ==
  /\ request[c] # NoRequest
  /\ TableFault
  /\ Done(c)
  /\ UNCHANGED <<family, parents, children, backup, raced, torn, rowsMade, requests>>

TablesInit ==
  /\ family \in {Families[f] : f \in DOMAIN Families}
  /\ parents = {} /\ children = {}
  /\ backup = [kept |-> FALSE, parents |-> {}, children |-> {}, torn |-> FALSE]
  /\ request = [c \in Callers |-> NoRequest]
  /\ raced = FALSE /\ torn = FALSE
  /\ rowsMade = 0 /\ requests = 0 /\ tableFaults = 0

TablesNext ==
  \E c \in Callers :
    \/ Request(c)
    \/ LookParent(c) \/ CreateParent(c)
    \/ FindNamed(c) \/ LookChild(c) \/ CreateChild(c)
    \/ FindNew(c) \/ UpdateChild(c) \/ DeleteChild(c)
    \/ ReadNaming(c) \/ DeleteParent(c)
    \/ Snapshot(c) \/ Restore(c) \/ RequestFails(c)

TablesSpec == TablesInit /\ [][TablesNext]_tableVars

----------------------------------------------------------------------------
TablesTypeOK ==
  /\ \A p \in parents : p.id \in 1 .. MaxRows /\ p.key \in Keys
  /\ \A r \in children : r.id \in 1 .. MaxRows /\ r.key \in Keys /\ r.ref \in Keys \cup {NoRef}

Unique(rows) == \A r, s \in rows : r.key = s.key => r = s

\* Two requests never leave two rows with one key where the code promises names unique:
\* the lookup alone does not see to it, nor a restore beside other calls.
KeysUnique ==
  /\ family.parent.indexed => Unique(parents)
  /\ family.child.indexed => Unique(children)

\* The pairs that promise that a row named is there.
Tight == family.child.needs /\ family.onDelete \in {"guard", "drop"}

\* Calls made one after the other never leave a row that names one that is gone, even
\* when one of them fails half way; a restore puts back what the snapshot held.
RefsHeld ==
  Tight /\ ~raced /\ ~torn =>
    \A r \in children : \E p \in parents : p.key = r.ref
=============================================================================
