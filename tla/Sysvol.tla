------------------------------- MODULE Sysvol -------------------------------
(* SYSVOL: Group Policy files and logon scripts, versioned in the store of the  *)
(* primary, pulled by the secondary over a feed and served over SMB from its    *)
(* store.  A Group Policy object has two halves: an entry of the directory and  *)
(* files here.  Requests that write at the primary follow one another.          *)
EXTENDS Naturals, FiniteSets

CONSTANTS
  Templates,    \* paths of the files of the policy, numbers in the order of the paths
  Scripts,      \* paths of logon scripts, likewise
  FeedPage,         \* rows of a page of the feed (FEED_LIMIT)
  Persisted,    \* the cursor is kept in the store (server) or in memory (domain controller)
  MaxEdits,     \* bound on requests
  MaxSysvolFaults     \* bound on failing statements, lost answers and restarts

VARIABLES
  gpc,          \* the directory holds the policy's container
  file,         \* file[n][path]: version (0: no row), stamp, deleted, body
  clock,        \* Utc::now()
  op,           \* the request at the primary: what is left of it to do
  cursor,       \* what the secondary has pulled up to: stamp, path
  pulled,       \* the page being applied, and the cursor that comes with it
  tree,         \* the tree served by the secondary: path -> body, 0 where there is none
  scripts,      \* the NETLOGON tree
  sig,          \* the contents the trees were built from
  edits, sysvolFaults

sysvolVars == <<gpc, file, clock, op, cursor, pulled, tree, scripts, sig, edits, sysvolFaults>>

Sides == {"primary", "secondary"}
Paths == Templates \cup Scripts
Start == [stamp |-> 0, path |-> 0]

NoPull == [busy |-> FALSE, rows |-> {}, next |-> Start]
SysvolFault == sysvolFaults < MaxSysvolFaults /\ sysvolFaults' = sysvolFaults + 1

----------------------------------------------------------------------------
(* The store.                                                                 *)

\* upsert_sysvol_file: a file that is there with the same contents is left alone.
Upserted(row, body) ==
  IF row.version > 0 /\ ~row.deleted /\ row.body = body THEN row
  ELSE [version |-> row.version + 1, stamp |-> clock + 1, deleted |-> FALSE, body |-> body]

\* delete_sysvol_file: a tombstone, unless there is no row or it is one.
Buried(row) ==
  IF row.version = 0 \/ row.deleted THEN row
  ELSE [version |-> row.version + 1, stamp |-> clock + 1, deleted |-> TRUE, body |-> 0]

\* list_sysvol_files.
Live(n) == [p \in Paths |-> IF file[n][p].deleted THEN 0 ELSE file[n][p].body]

Later(c, d) == c.stamp > d.stamp \/ (c.stamp = d.stamp /\ c.path > d.path)
At(n, p) == [stamp |-> file[n][p].stamp, path |-> p]

----------------------------------------------------------------------------
(* Requests at the primary.                                                   *)

Write(n, p, row) == file' = [file EXCEPT ![n][p] = row] /\ clock' = clock + 1

Todo(kind, body, rest) == [kind |-> kind, body |-> body, rest |-> rest]
Nothing == Todo("idle", 0, {})

\* create_gpo: the container of the directory first, then the files.
CreateGpo ==
  /\ op = Nothing /\ edits < MaxEdits
  /\ edits' = edits + 1
  /\ gpc' = TRUE
  /\ \E b \in {1, 2} : op' = Todo("write", b, Templates)
  /\ UNCHANGED <<file, clock, cursor, pulled, tree, scripts, sig, sysvolFaults>>

\* delete_gpo: the container and its children go first, then the files are listed.
DeleteGpo ==
  /\ op = Nothing /\ edits < MaxEdits /\ gpc
  /\ edits' = edits + 1
  /\ gpc' = FALSE
  /\ op' = Todo("delete", 0, {p \in Templates : Live("primary")[p] # 0})
  /\ UNCHANGED <<file, clock, cursor, pulled, tree, scripts, sig, sysvolFaults>>

\* create_logon_script, delete_logon_script.
EditScript ==
  /\ op = Nothing /\ edits < MaxEdits
  /\ edits' = edits + 1
  /\ \E p \in Scripts, b \in {0, 1, 2} :
       op' = Todo(IF b = 0 THEN "delete" ELSE "write", b, {p})
  /\ UNCHANGED <<gpc, file, clock, cursor, pulled, tree, scripts, sig, sysvolFaults>>

\* One file of the request after the other.
Step ==
  /\ op.rest # {}
  /\ \E p \in op.rest :
       /\ \A q \in op.rest : p <= q
       /\ Write("primary", p, IF op.kind = "write" THEN Upserted(file["primary"][p], op.body)
                                                   ELSE Buried(file["primary"][p]))
       /\ op' = IF op.rest = {p} THEN Nothing ELSE [op EXCEPT !.rest = @ \ {p}]
  /\ UNCHANGED <<gpc, cursor, pulled, tree, scripts, sig, edits, sysvolFaults>>

\* Nothing was there to delete.
EditEnds ==
  /\ op # Nothing /\ op.rest = {}
  /\ op' = Nothing
  /\ UNCHANGED <<gpc, file, clock, cursor, pulled, tree, scripts, sig, edits, sysvolFaults>>

\* A statement fails or the primary stops: the files so far stay written.
EditFails ==
  /\ op # Nothing
  /\ SysvolFault
  /\ op' = Nothing
  /\ UNCHANGED <<gpc, file, clock, cursor, pulled, tree, scripts, sig, edits>>

----------------------------------------------------------------------------
(* The secondary.                                                             *)

\* Its own console can write its store too (and the seed of the first start does).
WriteHere ==
  /\ edits < MaxEdits
  /\ edits' = edits + 1
  /\ \E p \in Paths, b \in {1, 2} :
       Write("secondary", p, Upserted(file["secondary"][p], b))
  /\ UNCHANGED <<gpc, op, cursor, pulled, tree, scripts, sig, sysvolFaults>>

\* sysvol_feed: a page of the rows after the cursor, the oldest ones.
Unseen == {p \in Paths : file["primary"][p].version > 0 /\ Later(At("primary", p), cursor)}
SysvolFeed ==
  {S \in SUBSET Unseen :
     /\ Cardinality(S) <= FeedPage /\ (Cardinality(S) = FeedPage \/ S = Unseen)
     /\ \A p \in S, q \in Unseen \ S : Later(At("primary", q), At("primary", p))}

Fetch ==
  /\ ~pulled.busy
  /\ \E S \in SysvolFeed : \E last \in S :
       /\ \A p \in S \ {last} : Later(At("primary", last), At("primary", p))
       /\ pulled' = [busy |-> TRUE, rows |-> {[path |-> p, row |-> file["primary"][p]] : p \in S},
                     next |-> At("primary", last)]
  /\ UNCHANGED <<gpc, file, clock, op, cursor, tree, scripts, sig, edits, sysvolFaults>>

\* Mutant: only the version decides, and the first of two equal ones stays.
Wins_Version(a, b) == a.version > b.version

\* SysvolFile::wins.
Wins(a, b) == a.version > b.version \/ (a.version = b.version /\ a.stamp > b.stamp)

\* apply_replicated_sysvol_file, oldest first: the row with the stamp it came with.
Came(r) == [stamp |-> r.row.stamp, path |-> r.path]

Apply ==
  /\ pulled.busy
  /\ \E r \in pulled.rows :
       /\ \A q \in pulled.rows \ {r} : Later(Came(q), Came(r))
       /\ file' = IF Wins(r.row, file["secondary"][r.path])
                  THEN [file EXCEPT !["secondary"][r.path] = r.row] ELSE file
       /\ pulled' = [pulled EXCEPT !.rows = @ \ {r}]
  /\ UNCHANGED <<gpc, clock, op, cursor, tree, scripts, sig, edits, sysvolFaults>>

\* The cursor moves when the whole page is applied.
Advance ==
  /\ pulled.busy /\ pulled.rows = {}
  /\ cursor' = pulled.next
  /\ pulled' = NoPull
  /\ UNCHANGED <<gpc, file, clock, op, tree, scripts, sig, edits, sysvolFaults>>

\* The answer is lost, an apply fails, or the secondary restarts; a cursor in memory
\* begins again.
PullFails ==
  /\ pulled.busy
  /\ SysvolFault
  /\ pulled' = NoPull
  /\ cursor' \in {cursor} \cup (IF Persisted THEN {} ELSE {Start})
  /\ UNCHANGED <<gpc, file, clock, op, tree, scripts, sig, edits>>

\* refresh_served_sysvol: both trees, when the contents are not those of the last time.
\* A failing read of the scripts counts as none.
Refresh ==
  /\ Live("secondary") # sig
  /\ sig' = Live("secondary")
  /\ tree' = Live("secondary")
  /\ \/ scripts' = [p \in Scripts |-> Live("secondary")[p]] /\ UNCHANGED sysvolFaults
     \/ SysvolFault /\ scripts' = [p \in Scripts |-> 0]
  /\ UNCHANGED <<gpc, file, clock, op, cursor, pulled, edits>>

NoRow == [version |-> 0, stamp |-> 0, deleted |-> TRUE, body |-> 0]

SysvolInit ==
  /\ gpc = FALSE
  /\ file = [n \in Sides |-> [p \in Paths |-> NoRow]]
  /\ clock = 0
  /\ op = Nothing
  /\ cursor = Start /\ pulled = NoPull
  /\ tree = [p \in Paths |-> 0] /\ scripts = [p \in Scripts |-> 0]
  /\ sig = [p \in Paths |-> 0]
  /\ edits = 0 /\ sysvolFaults = 0

SysvolNext ==
  \/ CreateGpo \/ DeleteGpo \/ EditScript \/ Step \/ EditEnds \/ EditFails
  \/ WriteHere \/ Fetch \/ Apply \/ Advance \/ PullFails \/ Refresh

SysvolSpec == SysvolInit /\ [][SysvolNext]_sysvolVars

----------------------------------------------------------------------------
SysvolTypeOK ==
  /\ gpc \in BOOLEAN
  /\ \A n \in Sides, p \in Paths : file[n][p].version \in Nat /\ file[n][p].stamp <= clock
  /\ edits \in 0 .. MaxEdits /\ sysvolFaults \in 0 .. MaxSysvolFaults

Ahead(a, b) == a.version > b.version \/ (a.version = b.version /\ a.stamp > b.stamp)

\* What the cursor has passed is here: the secondary never skips a change or a deletion
\* of the primary, nor keeps a file that lost to it.
FilesFollow ==
  \A p \in Paths :
    file["primary"][p].version > 0 /\ ~Later(At("primary", p), cursor)
      => ~Ahead(file["primary"][p], file["secondary"][p])

\* The trees a member is served are those of the contents they were last built from, and
\* the scripts are missing only after a read that failed.
ServedFollows ==
  /\ tree = sig
  /\ sysvolFaults = 0 => \A p \in Scripts : scripts[p] = sig[p]

\* The two halves of a policy agree when no request is under way and none failed.
GpoWhole ==
  op = Nothing /\ sysvolFaults = 0 => \A p \in Templates : (Live("primary")[p] # 0) = gpc
=============================================================================
