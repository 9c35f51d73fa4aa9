------------------------------ MODULE LdapSync ------------------------------
(* Content synchronisation (RFC 4533) between a directory and a read-only      *)
(* copy. The provider answers a search with its context CSN, the entries       *)
(* changed since the consumer's cookie and the tombstones since, read by three  *)
(* queries; the consumer applies the answer one message at a time and keeps    *)
(* the CSN as its next cookie when the answer was complete. Writers stamp a     *)
(* row or tombstone before they write it. The identity of an entry is its DN   *)
(* (entry_sync_uuid), so a DN stands for both.                                 *)
EXTENDS Integers, FiniteSets, FiniteSetsExt

CONSTANTS
  Entries,    \* DNs
  Writers,    \* requests that write to the provider
  MaxClock,   \* bound: stamps taken
  MaxFaults   \* bound: failed queries, broken connections, lost state writes

VARIABLES
  clock,
  live,       \* live[d]: updated_at of the row, 0 when there is none
  tombs,      \* ldap_changelog: pairs of a DN and a csn
  write,      \* write[w]: the change under way, its stamp taken
  pass,       \* the refresh under way
  copy,       \* the consumer's rows, by the stamp of the version they hold
  cookie,     \* the consumer's persisted cookie, 0 when empty
  faults,
  excused     \* DNs whose last change one of the known gaps swallowed

vars == <<clock, live, tombs, write, pass, copy, cookie, faults, excused>>

Idle == [at |-> "idle"]
Latest(S) == IF S = {} THEN 0 ELSE Max(S)
Tombed(d) == Latest({t \in 1..MaxClock : <<d, t>> \in tombs})
Changed(d) == Latest({live[d], Tombed(d)})

----------------------------------------------------------------------------
(* The provider's writers *)

\* The row is looked up and now is taken: by now_meta, write_attributes or
\* rename_entry.
Stamp(w, d) ==
  /\ write[w].at = "idle" /\ clock < MaxClock
  /\ clock' = clock + 1
  /\ write' = [write EXCEPT ![w] = [dn |-> d, stamp |-> clock + 1,
                                    at |-> IF live[d] = 0 THEN "create" ELSE "update"]]
  /\ UNCHANGED <<live, tombs, pass, copy, cookie, faults, excused>>

\* A change that reaches the store after the CSN of a refresh passed its stamp is
\* one that no later refresh asks for.
Overtaken(stamp) ==
  stamp <= cookie \/ (pass.at \in {"deletes", "apply"} /\ stamp <= pass.csn)
Excuse(d, gap) == excused' = IF gap THEN excused \cup {d} ELSE excused \ {d}

\* The row is created, unless there is one by now, or updated, if it still is.
WriteRow(w) ==
  LET d == write[w].dn  t == write[w].stamp IN
  /\ write[w].at \in {"create", "update"}
  /\ \/ /\ write[w].at = "create" <=> live[d] = 0
        /\ live' = [live EXCEPT ![d] = t]
        /\ Excuse(d, Overtaken(t) \/ t < Tombed(d))
     \/ /\ write[w].at = "create" <=> live[d] # 0
        /\ UNCHANGED <<live, excused>>
  /\ write' = [write EXCEPT ![w] = Idle]
  /\ UNCHANGED <<clock, tombs, pass, copy, cookie, faults>>

\* delete_entry, or the old DN of rename_entry: the row goes, then the tombstone
\* is stamped.
DeleteRow(w, d) ==
  /\ write[w].at = "idle" /\ live[d] # 0 /\ clock < MaxClock
  /\ clock' = clock + 1
  /\ live' = [live EXCEPT ![d] = 0]
  /\ write' = [write EXCEPT ![w] = [at |-> "tomb", dn |-> d, stamp |-> clock + 1]]
  /\ UNCHANGED <<tombs, pass, copy, cookie, faults, excused>>

WriteTomb(w) ==
  /\ write[w].at = "tomb"
  /\ tombs' = tombs \cup {<<write[w].dn, write[w].stamp>>}
  /\ Excuse(write[w].dn, Overtaken(write[w].stamp) \/ live[write[w].dn] # 0)
  /\ write' = [write EXCEPT ![w] = Idle]
  /\ UNCHANGED <<clock, live, pass, copy, cookie, faults>>

\* The provider's process ends before the write: a tombstone is never written.
WriterDies(w) ==
  /\ write[w].at # "idle" /\ faults < MaxFaults
  /\ faults' = faults + 1
  /\ excused' = IF write[w].at = "tomb" THEN excused \cup {write[w].dn} ELSE excused
  /\ write' = [write EXCEPT ![w] = Idle]
  /\ UNCHANGED <<clock, live, tombs, pass, copy, cookie>>

----------------------------------------------------------------------------
(* handle_syncrepl_search *)

\* A query that fails reads as an empty answer (unwrap_or_default).
Fails == faults < MaxFaults /\ faults' = faults + 1

\* ldap_context_csn.
ContextCsn == Latest({Changed(d) : d \in Entries})

SearchCsn ==
  /\ pass.at = "idle"
  /\ \/ /\ UNCHANGED faults
        /\ pass' = [at |-> "entries", since |-> cookie, csn |-> ContextCsn]
     \/ /\ Fails
        /\ pass' = [at |-> "entries", since |-> cookie, csn |-> 0]
  /\ UNCHANGED <<clock, live, tombs, write, copy, cookie, excused>>

\* Mutant: the bound is one too high.
EntriesSinceNext(s) == {<<d, live[d]>> : d \in {e \in Entries : live[e] > s + 1}}

\* ldap_entries_since: every entry when the cookie is empty.
EntriesSince(s) == {<<d, live[d]>> : d \in {e \in Entries : live[e] > s}}

SearchEntries ==
  /\ pass.at = "entries"
  /\ \/ /\ UNCHANGED <<faults, excused>>
        /\ pass' = [at |-> "deletes", since |-> pass.since, csn |-> pass.csn,
                    adds |-> EntriesSince(pass.since)]
     \/ /\ Fails
        /\ excused' = excused \cup {p[1] : p \in EntriesSince(pass.since)}
        /\ pass' = [at |-> "deletes", since |-> pass.since, csn |-> pass.csn, adds |-> {}]
  /\ UNCHANGED <<clock, live, tombs, write, copy, cookie>>

\* ldap_deletions_since; a full refresh has no delete phase.
DeletionsSince(s) == IF s = 0 THEN {} ELSE {d \in Entries : Tombed(d) > s}

SearchDeletes ==
  /\ pass.at = "deletes"
  /\ \/ /\ UNCHANGED faults
        /\ pass' = [at |-> "apply", csn |-> pass.csn, adds |-> pass.adds,
                    dels |-> DeletionsSince(pass.since)]
        /\ excused' = excused
             \cup ({p[1] : p \in pass.adds} \cap DeletionsSince(pass.since))
             \cup (IF pass.since = 0 THEN {d \in Entries : live[d] = 0 /\ copy[d] # 0} ELSE {})
     \/ /\ Fails /\ pass.since # 0
        /\ excused' = excused \cup DeletionsSince(pass.since)
        /\ pass' = [at |-> "apply", csn |-> pass.csn, adds |-> pass.adds, dels |-> {}]
  /\ UNCHANGED <<clock, live, tombs, write, copy, cookie>>

----------------------------------------------------------------------------
(* The consumer: sync_dialog and spawn_consumer *)

\* apply_ldap_sync_entry, with the content as sent.
ApplyAdd(p) ==
  /\ pass.at = "apply" /\ p \in pass.adds
  /\ copy' = [copy EXCEPT ![p[1]] = p[2]]
  /\ pass' = [pass EXCEPT !.adds = @ \ {p}]
  /\ UNCHANGED <<clock, live, tombs, write, cookie, faults, excused>>

\* Mutant: the identity of the tombstone finds no row.
ApplyDeleteNone(d) ==
  /\ pass.at = "apply" /\ pass.adds = {} /\ d \in pass.dels
  /\ pass' = [pass EXCEPT !.dels = @ \ {d}]
  /\ UNCHANGED <<clock, live, tombs, write, copy, cookie, faults, excused>>

\* apply_ldap_sync_delete, after every entry.
ApplyDelete(d) ==
  /\ pass.at = "apply" /\ pass.adds = {} /\ d \in pass.dels
  /\ copy' = [copy EXCEPT ![d] = 0]
  /\ pass' = [pass EXCEPT !.dels = @ \ {d}]
  /\ UNCHANGED <<clock, live, tombs, write, cookie, faults, excused>>

\* SearchResultDone: the cookie is persisted; record_ldap_sync may fail unseen.
Record ==
  /\ pass.at = "apply" /\ pass.adds = {} /\ pass.dels = {}
  /\ \/ UNCHANGED faults /\ cookie' = pass.csn
     \/ Fails /\ UNCHANGED cookie
  /\ pass' = Idle
  /\ UNCHANGED <<clock, live, tombs, write, copy, excused>>

\* The connection breaks or an apply fails: the cookie stays.
Break ==
  /\ pass.at # "idle" /\ Fails
  /\ pass' = Idle
  /\ UNCHANGED <<clock, live, tombs, write, copy, cookie, excused>>

Init ==
  /\ clock = 0 /\ faults = 0 /\ cookie = 0
  /\ live = [d \in Entries |-> 0] /\ copy = live
  /\ tombs = {} /\ excused = {}
  /\ write = [w \in Writers |-> Idle] /\ pass = Idle

Pull ==
  \/ SearchCsn \/ SearchEntries \/ SearchDeletes
  \/ \E p \in Entries \X (1..MaxClock) : ApplyAdd(p)
  \/ \E d \in Entries : ApplyDelete(d)
  \/ Record

Next ==
  \/ \E w \in Writers, d \in Entries : Stamp(w, d) \/ DeleteRow(w, d)
  \/ \E w \in Writers : WriteRow(w) \/ WriteTomb(w) \/ WriterDies(w)
  \/ Pull \/ Break

\* The consumer's timer goes on, and so does a request that was started.
Spec ==
  /\ Init /\ [][Next]_vars
  /\ WF_vars(Pull)
  /\ \A w \in Writers : WF_vars(WriteRow(w) \/ WriteTomb(w))

----------------------------------------------------------------------------
TypeOK ==
  /\ clock \in 0..MaxClock /\ cookie \in 0..clock /\ faults \in 0..MaxFaults
  /\ live \in [Entries -> 0..clock] /\ copy \in [Entries -> 0..clock]
  /\ tombs \subseteq Entries \X (1..clock)
  /\ excused \subseteq Entries
  /\ \A w \in Writers : write[w].at \in {"idle", "create", "update", "tomb"}
  /\ pass.at \in {"idle", "entries", "deletes", "apply"}

Pending(d) == \E w \in Writers : write[w].at # "idle" /\ write[w].dn = d

\* The cookie keeps its word: what the provider changed up to the consumer's
\* cookie the consumer holds as the provider does, whatever broke on the way and
\* however writes and the three queries of handle_syncrepl_search cross. The
\* gaps of the code are left out by name: a write that comes late under an old
\* stamp, a query that failed and reads as empty, a DN deleted and added again
\* in one refresh or before its tombstone, a full refresh of a copy that has rows already, and a
\* tombstone that a crash took.
CookieKeepsWord ==
  \A d \in Entries \ excused :
    ~Pending(d) /\ Changed(d) <= cookie => copy[d] = live[d]

\* The copy is the directory, but for changes under way or swallowed by a gap.
Followed == \A d \in Entries \ excused : Pending(d) \/ copy[d] = live[d]

\* The consumer catches up with every change no gap swallowed: once writing ends
\* spawn_consumer's passes bring the copy to the provider's state.
CopyFollows == <>[]Followed

\* "a full refresh implicitly replaces the consumer's view": once writing ends
\* and passes succeed the copy is the directory.
CopyEquals == <>[](\A d \in Entries : copy[d] = live[d])
=============================================================================
