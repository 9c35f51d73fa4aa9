---------------------------- MODULE AdReplication ----------------------------
(* Multi-master replication of AD users between domain controllers.           *)
(*                                                                            *)
(* A local write stamps the object (version, time, originating DSA and USN).  *)
(* A DC serves the list it built from its store at startup, numbered by       *)
(* position.  A replication agent pulls a peer's list, from the start or past *)
(* a cursor, merges it object by object under per-attribute stamps and then   *)
(* records the cursor.  Every await is a step.                                *)
(*                                                                            *)
(*   magnetite-db/src/replication.rs  stamps, merge, cursors                  *)
(*   magnetite-db/src/ad.rs           upsert_local_principal                  *)
(*   magnetite-addc/src/lib.rs        build_directory_from_db, replicate_cycle*)
(*                                    apply_replicated_changes, the agent     *)
(*   magnetite-rpc/src/drsuapi.rs     get_nc_changes_response                 *)
EXTENDS Integers, FiniteSets, SequencesExt

CONSTANTS
  DCs,           \* invocation ids, numbers: they are compared
  Users,         \* sAMAccountNames, numbers
  Peers,         \* Peers[d]: the DCs d runs a replication agent for
  Seed,          \* Seed[d]: the users d's store starts with
  Writers,       \* the DCs that take local writes
  WellKnown,     \* groups a DC serves after its users; they have no stamp
  PageMax,       \* cMaxObjects of a pull
  Concurrent,    \* may tasks of one DC overlap between a read and its write?
  MayDisable,    \* are disabled principals created (LDAP add without password)?
  Restarts,      \* bound: Restarts[d], how often d may restart
  MaxWrites, MaxFailures, MaxClock,                  \* bounds
  None

ASSUME AdReplicationAssumption ==
  /\ DCs \subseteq Nat /\ Users \subseteq Nat /\ IsFiniteSet(Users)
  /\ Peers \in [DCs -> SUBSET DCs] /\ \A d \in DCs : d \notin Peers[d]
  /\ Seed \in [DCs -> SUBSET Users] /\ Writers \subseteq DCs
  /\ WellKnown \in Nat /\ PageMax \in Nat \ {0}
  /\ Concurrent \in BOOLEAN /\ MayDisable \in BOOLEAN
  /\ Restarts \in [DCs -> Nat]
  /\ MaxWrites \in Nat /\ MaxFailures \in Nat /\ MaxClock \in Nat

Links == {l \in DCs \X DCs : l[2] \in Peers[l[1]]}   \* <<destination, source>>

VARIABLES
  clock,     \* wall clock, in seconds
  row,       \* row[d][u]: ad_principal and its two repl_metadata rows
  usn,       \* usn[d]: dsa_state.highest_usn
  served,    \* served[d]: Directory.users as built at startup
  cursor,    \* cursor[d][e]: the repl_cursor row, 0 when there is none
  known,     \* known[l]: the agent remembers the source's DSA
  pull,      \* pull[l]: the cycle under way
  writing,   \* writing[d]: a local write stamped and not committed yet
  restarts, writes, failures

vars == <<clock, row, usn, served, cursor, known, pull, writing, restarts, writes,
          failures>>

Stamp == [version : Nat, time : Nat, dsa : DCs, usn : Nat]

\* A password is identified by the stamp of the write that set it.
Row == [pw : Stamp, disabled : BOOLEAN, obj : Stamp, sec : Stamp \cup {None}]

Entry == [user : Users, pw : Stamp, meta : Stamp]

Pending == [user : Users, row : Row]

\* A local write stamped and not committed.
Write == [user : Users, stamp : Stamp, disabled : BOOLEAN]

IdlePull == [at |-> "idle"]

ASSUME NoneAssumption == None \notin Stamp /\ None \notin Row /\ None \notin Pending /\ None \notin Write

\* Type correctness.
TypeOK ==
  /\ clock \in 0..MaxClock
  /\ row \in [DCs -> [Users -> Row \cup {None}]]
  /\ usn \in [DCs -> Nat]
  /\ served \in [DCs -> Seq(Entry)]
  /\ cursor \in [DCs -> [DCs -> Nat]]
  /\ known \in [Links -> BOOLEAN]
  /\ DOMAIN pull = Links
  /\ \A l \in Links : \/ pull[l] = IdlePull
                      \/ /\ pull[l].at = "apply" /\ pull[l].to \in Nat
                         /\ DOMAIN pull[l].objects \subseteq Nat
                         /\ \A i \in DOMAIN pull[l].objects : pull[l].objects[i] \in Entry
                         /\ pull[l].pend \in Pending \cup {None}
  /\ writing \in [DCs -> Write \cup {None}]

\* What build_directory_from_db makes of a store, in any order: a row's position
\* follows its random record id.
Listings(rows) ==
  SetToSeqs({[user |-> u, pw |-> rows[u].pw, meta |-> rows[u].obj] :
             u \in {v \in Users : rows[v] # None}})

SeedStamp(d, u) ==
  [version |-> 1, time |-> 0, dsa |-> d, usn |-> Cardinality({v \in Seed[d] : v <= u})]

Init ==
  /\ clock = 0
  /\ row = [d \in DCs |-> [u \in Users |->
       IF u \in Seed[d]
       THEN [pw |-> SeedStamp(d, u), disabled |-> FALSE, obj |-> SeedStamp(d, u),
             sec |-> None]
       ELSE None]]
  /\ usn = [d \in DCs |-> Cardinality(Seed[d])]
  /\ served \in [DCs -> UNION {Listings(row[d]) : d \in DCs}]
  /\ \A d \in DCs : served[d] \in Listings(row[d])
  /\ cursor = [d \in DCs |-> [e \in DCs |-> 0]]
  /\ known = [l \in Links |-> FALSE]
  /\ pull = [l \in Links |-> IdlePull]
  /\ writing = [d \in DCs |-> None]
  /\ restarts = [d \in DCs |-> 0] /\ writes = 0 /\ failures = 0

\* ReplStamp.wins_over: an identical stamp does not win.
WinsOver(a, b) ==
  \/ a.version > b.version
  \/ a.version = b.version /\ a.time > b.time
  \/ a.version = b.version /\ a.time = b.time /\ a.dsa > b.dsa

\* Is another task of d between its read and its write?
Free(d) ==
  \/ Concurrent
  \/ /\ writing[d] = None
     /\ \A l \in Links : l[1] = d /\ pull[l] # IdlePull => pull[l].pend = None

----------------------------------------------------------------------------
(* Local writes: next_local_stamp, then write_principal_stamped.              *)

NextLocalStamp(d, u) ==
  [version |-> IF row[d][u] = None THEN 1 ELSE row[d][u].obj.version + 1,
   time |-> clock, dsa |-> d, usn |-> usn[d] + 1]

BeginWrite(d, u, disabled) ==
  /\ d \in Writers /\ writes < MaxWrites
  /\ Free(d) /\ writing[d] = None
  /\ disabled => MayDisable /\ row[d][u] = None
  /\ usn' = [usn EXCEPT ![d] = usn[d] + 1]
  /\ writing' = [writing EXCEPT ![d] =
       [user |-> u, stamp |-> NextLocalStamp(d, u), disabled |-> disabled]]
  /\ writes' = writes + 1
  /\ UNCHANGED <<clock, row, served, cursor, known, pull, restarts, failures>>

\* Mutant: a reset keeps the stamp the object had.
Written_SameStamp(old, w) ==
  [pw |-> w.stamp, disabled |-> w.disabled,
   obj |-> IF old = None THEN w.stamp ELSE old.obj,
   sec |-> IF old = None THEN None ELSE old.sec]

\* Mutant: a local write goes to the row and not to the metadata.
Written_Unstamped(old, w) ==
  [pw |-> w.stamp, disabled |-> w.disabled,
   obj |-> IF old = None THEN None ELSE old.obj,
   sec |-> IF old = None THEN None ELSE old.sec]

\* The row and the object's stamp; the password's own stamp is left as it is.
Written(old, w) ==
  [pw |-> w.stamp, disabled |-> w.disabled, obj |-> w.stamp,
   sec |-> IF old = None THEN None ELSE old.sec]

CommitWrite(d) ==
  /\ writing[d] # None
  /\ LET u == writing[d].user
     IN row' = [row EXCEPT ![d][u] = Written(row[d][u], writing[d])]
  /\ writing' = [writing EXCEPT ![d] = None]
  /\ UNCHANGED <<clock, usn, served, cursor, known, pull, restarts, writes, failures>>

Tick ==
  /\ clock < MaxClock
  /\ clock' = clock + 1
  /\ UNCHANGED <<row, usn, served, cursor, known, pull, writing, restarts, writes,
                 failures>>

----------------------------------------------------------------------------
(* get_nc_changes_response of source e for destination d.                     *)

Least(x, y) == IF x <= y THEN x ELSE y
Most(x, y) == IF x >= y THEN x ELSE y

\* up_to_date_vector of d: its own DSA at its highest USN, the others as recorded.
UpToDateVector(d) == [cursor[d] EXCEPT ![d] = usn[d]]

\* Mutant: dampening applied to the source's own changes too.
Dampened_Own(entry, e, vector) == entry.meta.usn <= vector[entry.meta.dsa]

\* Loop dampening: a change of foreign origin the destination's vector covers.
Dampened(entry, e, vector) ==
  entry.meta.dsa # e /\ entry.meta.usn <= vector[entry.meta.dsa]

\* Mutant: usnvecTo reports the high-water mark of a page that was cut.
Reply_HighWater(e, from, vector) ==
  LET high == Len(served[e]) + WellKnown
      last == Least(from + PageMax, high)
      page == (from + 1)..Least(last, Len(served[e]))
      sent == {i \in page : ~Dampened(served[e][i], e, vector)}
  IN [at |-> "apply", pend |-> None, to |-> Most(high, from),
      objects |-> [i \in sent |-> served[e][i]]]

\* The page after position from, without what is dampened, by position, and usnvecTo.
Reply(e, from, vector) ==
  LET high == Len(served[e]) + WellKnown
      last == Least(from + PageMax, high)
      page == (from + 1)..Least(last, Len(served[e]))
      sent == {i \in page : ~Dampened(served[e][i], e, vector)}
  IN [at |-> "apply", pend |-> None, to |-> Most(last, from),
      objects |-> [i \in sent |-> served[e][i]]]

\* replicate_cycle: a full pull carries no vector, a delta carries all of it.
BeginPull(l) ==
  LET from == IF known[l] THEN cursor[l[1]][l[2]] ELSE 0
      vector == IF from = 0 THEN [x \in DCs |-> 0] ELSE UpToDateVector(l[1])
  IN /\ pull[l] = IdlePull
     /\ pull' = [pull EXCEPT ![l] = Reply(l[2], from, vector)]
     /\ UNCHANGED <<clock, row, usn, served, cursor, known, writing, restarts,
                    writes, failures>>

----------------------------------------------------------------------------
(* apply_replicated_principal_merged.                                         *)

\* Mutant: the last writer wins.
Wins_Always(stamp, held) == TRUE

Wins(stamp, held) == held = None \/ WinsOver(stamp, held)

\* The wire carries one stamp for all attributes, and NORMAL_ACCOUNT for every user.
Merged(old, o) ==
  IF old = None
  THEN [pw |-> o.pw, disabled |-> FALSE, obj |-> o.meta, sec |-> o.meta]
  ELSE LET object == Wins(o.meta, old.obj)
           secret == Wins(o.meta, old.sec)
       IN [pw |-> IF secret THEN o.pw ELSE old.pw,
           disabled |-> ~object /\ old.disabled,
           obj |-> IF object THEN o.meta ELSE old.obj,
           sec |-> IF secret THEN o.meta ELSE old.sec]

\* The next object of a cycle, and the cycle once it is dealt with.
First(p) == Min(DOMAIN p.objects)

Passed(p) ==
  [at |-> "apply", pend |-> None, to |-> p.to,
   objects |-> [i \in DOMAIN p.objects \ {First(p)} |-> p.objects[i]]]

\* The cycle with a merged row that is still to be written.
Merging(p, u, r) ==
  [at |-> "apply", pend |-> [user |-> u, row |-> r], to |-> p.to, objects |-> p.objects]

\* Read the row and its stamps, merge, allocate a USN; or skip the object.
ReadObject(l) ==
  LET d == l[1]
      o == pull[l].objects[First(pull[l])]
      merged == Merged(row[d][o.user], o)
  IN /\ pull[l] # IdlePull /\ DOMAIN pull[l].objects # {} /\ pull[l].pend = None
     /\ Free(d)
     /\ \/ /\ merged = row[d][o.user]
           /\ pull' = [pull EXCEPT ![l] = Passed(pull[l])]
           /\ UNCHANGED usn
        \/ /\ merged # row[d][o.user]
           /\ pull' = [pull EXCEPT ![l] = Merging(pull[l], o.user, merged)]
           /\ usn' = [usn EXCEPT ![d] = usn[d] + 1]
     /\ UNCHANGED <<clock, row, served, cursor, known, writing, restarts, writes,
                    failures>>

\* write_principal_merged: one transaction.
WriteObject(l) ==
  /\ pull[l] # IdlePull /\ pull[l].pend # None
  /\ row' = [row EXCEPT ![l[1]][pull[l].pend.user] = pull[l].pend.row]
  /\ pull' = [pull EXCEPT ![l] = Passed(pull[l])]
  /\ UNCHANGED <<clock, usn, served, cursor, known, writing, restarts, writes, failures>>

\* record_cursor, which never goes back; the agent keeps the source's DSA.
FinishPull(l) ==
  /\ pull[l] # IdlePull /\ DOMAIN pull[l].objects = {}
  /\ cursor' = [cursor EXCEPT ![l[1]][l[2]] = Most(cursor[l[1]][l[2]], pull[l].to)]
  /\ known' = [known EXCEPT ![l] = TRUE]
  /\ pull' = [pull EXCEPT ![l] = IdlePull]
  /\ UNCHANGED <<clock, row, usn, served, writing, restarts, writes, failures>>

\* A connection or store error ends the cycle; what was applied stays.  record_cursor
\* deletes the old row before it creates the new one: an error in between loses it.
FailPull(l) ==
  /\ pull[l] # IdlePull
  /\ failures < MaxFailures /\ failures' = failures + 1
  /\ pull' = [pull EXCEPT ![l] = IdlePull]
  /\ \/ UNCHANGED cursor
     \/ /\ DOMAIN pull[l].objects = {} /\ pull[l].to > cursor[l[1]][l[2]]
        /\ cursor' = [cursor EXCEPT ![l[1]][l[2]] = 0]
  /\ UNCHANGED <<clock, row, usn, served, known, writing, restarts, writes>>

\* d stops, whatever it was doing, and starts again on its store.
Restart(d) ==
  /\ restarts[d] < Restarts[d]
  /\ restarts' = [restarts EXCEPT ![d] = restarts[d] + 1]
  /\ \E s \in Listings(row[d]) : served' = [served EXCEPT ![d] = s]
  /\ writing' = [writing EXCEPT ![d] = None]
  /\ known' = [l \in Links |-> l[1] # d /\ known[l]]
  /\ pull' = [l \in Links |-> IF l[1] = d THEN IdlePull ELSE pull[l]]
  /\ UNCHANGED <<clock, row, usn, cursor, writes, failures>>

----------------------------------------------------------------------------

PullStep(l) == BeginPull(l) \/ ReadObject(l) \/ WriteObject(l) \/ FinishPull(l)

Next ==
  \/ Tick
  \/ \E d \in DCs, u \in Users, b \in BOOLEAN : BeginWrite(d, u, b)
  \/ \E d \in DCs : CommitWrite(d) \/ Restart(d)
  \/ \E l \in Links : PullStep(l) \/ FailPull(l)

(* The agents keep cycling, a request that is being served is finished.       *)
Fairness ==
  /\ \A l \in Links : WF_vars(PullStep(l))
  /\ \A d \in DCs : WF_vars(CommitWrite(d))

Spec == Init /\ [][Next]_vars /\ Fairness

----------------------------------------------------------------------------
(* Properties.                                                                *)

\* Does d hold the object of an entry, or something newer?
Holds(d, entry) ==
  /\ row[d][entry.user] # None
  /\ ~WinsOver(entry.meta, row[d][entry.user].obj)

\* record_cursor: "we now hold its changes up to high_usn".  True while the source
\* runs: its positions last as long as the list it built at startup.
CursorHolds ==
  \A l \in Links : restarts[l[2]] = 0 =>
    \A i \in DOMAIN served[l[2]] :
      i <= cursor[l[1]][l[2]] => Holds(l[1], served[l[2]][i])

\* A step that puts no object back to an older stamp.
Advance ==
  \A d \in DCs, u \in Users :
    row[d][u] # None =>
      /\ row'[d][u] # None
      /\ ~WinsOver(row[d][u].obj, row'[d][u].obj)

\* No write, local or replicated, puts an object back to an older stamp.
ObjectsAdvance == [][Advance]_vars

\* "A newer local password is not clobbered": no write replaces a password by one
\* that was set under an older stamp.
PasswordsAdvance ==
  [][\A d \in DCs, u \in Users :
       row[d][u] # None => ~WinsOver(row[d][u].pw, row'[d][u].pw)]_vars

\* Replicas that agree on an object's stamp agree on its password.
StampFixesPassword ==
  \A d, e \in DCs, u \in Users :
    row[d][u] # None /\ row[e][u] # None /\ row[d][u].obj = row[e][u].obj =>
      row[d][u].pw = row[e][u].pw

\* What loop dampening rests on: a change of d's own that a source of d serves back
\* is one that d holds, or has replaced by a newer one.
OwnChangesHeld ==
  \A l \in Links : \A i \in DOMAIN served[l[2]] :
    served[l[2]][i].meta.dsa = l[1] => Holds(l[1], served[l[2]][i])

\* What a replica goes by is sound: the tables are well formed, a replica holds what
\* lies behind its cursor, and one stamp means one password.
ReplicaSound == TypeOK /\ CursorHolds /\ StampFixesPassword

\* Two masters keep their word: a DC holds its own changes, whatever comes back from
\* its partner, and no object goes back to an older stamp.
MastersSound == [](TypeOK /\ OwnChangesHeld) /\ ObjectsAdvance

\* Every destination ends up holding what a source that keeps running serves,
\* through cut pages, failed cycles, a lost cursor and its own restarts.
CatchesUp ==
  <>[](\A l \in Links : restarts[l[2]] = 0 =>
         \A i \in DOMAIN served[l[2]] : Holds(l[1], served[l[2]][i]))
=============================================================================
