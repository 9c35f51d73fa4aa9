------------------------------ MODULE DnsZone ------------------------------
(* One zone on its primary and on a secondary: record changes with the serial  *)
(* bump and the journal entry that follow them, dynamic updates, NOTIFY, and   *)
(* the secondary's refresh by IXFR or AXFR with the writes that store it.      *)
EXTENDS Integers, Sequences, FiniteSets, SequencesExt

CONSTANTS
  Recs,        \* resource records
  Writers,     \* concurrent record changes on the primary
  SerialWidth, \* serials are 0..SerialWidth-1 (the code's have 32 bits)
  First,       \* the serial of the new zone on the primary
  Dynamic,     \* TRUE: the primary takes dynamic updates
  MaxChanges,  \* bound: record changes and dynamic updates
  MaxFaults    \* bound: lost answers, truncated answers and crashes

VARIABLES
  recs,        \* the primary's records
  serial,      \* the serial of its SOA
  journal,     \* zone_journal, in the order of its serials
  wr,          \* wr[w]: where writer w is
  seen,        \* the serial replication_task saw last on the primary, or Unset
  notified,    \* a NOTIFY waits in the secondary's channel
  copy,        \* copy[r]: how many rows of r the secondary has
  held,        \* the serial of the secondary's SOA
  state,       \* its transfer_state: last_serial, last_ok, ever a last_success
  tr,          \* where its refresh is
  torn,        \* a change was made without a serial, or a full transfer cut short
  changes, faults

vars == <<recs, serial, journal, wr, seen, notified, copy, held, state, tr, torn, changes, faults>>
primary == <<recs, serial, journal, wr>>
secondary == <<copy, held, state, tr>>

Unset == -1
Idle == [at |-> "idle"]
NoState == [last |-> Unset, ok |-> FALSE, success |-> FALSE]

\* serial_newer: RFC 1982.
SerialNewer(a, b) == a # b /\ (a - b) % SerialWidth < SerialWidth \div 2

----------------------------------------------------------------------------
(* The primary *)

Begin(w, added, removed) ==
  /\ wr[w] = Idle
  /\ changes < MaxChanges
  /\ changes' = changes + 1
  /\ recs' = (recs \ removed) \cup added
  /\ wr' = [wr EXCEPT ![w] = [at |-> "bump", added |-> added, removed |-> removed]]
  /\ UNCHANGED <<serial, journal, seen, notified, copy, held, state, tr, torn, faults>>

\* save_record, for a new record.
SaveRecord(w, r) == r \notin recs /\ Begin(w, {r}, {})

\* delete_record.
DeleteRecord(w, r) == r \in recs /\ Begin(w, {}, {r})

\* repoint_address_record, and save_record of a record that exists: one row
\* replaces another.
Repoint(w, r, s) == r \in recs /\ s \notin recs /\ Begin(w, {s}, {r})

\* bump_zone_serial reads the zone ...
BumpRead(w) ==
  /\ wr[w].at = "bump"
  /\ wr' = [wr EXCEPT ![w] = [at |-> "write", serial |-> serial,
                              added |-> @.added, removed |-> @.removed]]
  /\ UNCHANGED <<recs, serial, journal, seen, notified, copy, held, state, tr, torn, changes, faults>>

\* Faulty variant: the increment wraps to 0.
BumpedToZero(s) == (s + 1) % SerialWidth

\* Faulty variant: the serial stays.
BumpedNot(s) == s

\* wrapping_add(1).max(1).
Bumped(s) == IF (s + 1) % SerialWidth = 0 THEN 1 ELSE (s + 1) % SerialWidth

\* ... and writes it back.
BumpWrite(w) ==
  /\ wr[w].at = "write"
  /\ serial' = Bumped(wr[w].serial)
  /\ wr' = [wr EXCEPT ![w] = [@ EXCEPT !.at = "journal", !.serial = serial']]
  /\ UNCHANGED <<recs, journal, seen, notified, copy, held, state, tr, torn, changes, faults>>

\* append_zone_journal.
AppendJournal(w) ==
  /\ wr[w].at = "journal"
  /\ journal' = Append(journal, [serial |-> wr[w].serial,
                                 added |-> wr[w].added, removed |-> wr[w].removed])
  /\ wr' = [wr EXCEPT ![w] = Idle]
  /\ UNCHANGED <<recs, serial, seen, notified, copy, held, state, tr, torn, changes, faults>>

\* The process stops with a change half done: the rest of it never happens.
CrashPrimary ==
  /\ faults < MaxFaults
  /\ faults' = faults + 1
  /\ torn' = (torn \/ \E w \in Writers : wr[w] # Idle)
  /\ wr' = [w \in Writers |-> Idle]
  /\ seen' = Unset
  /\ UNCHANGED <<recs, serial, journal, notified, copy, held, state, tr, changes>>

\* handle_secured_update: prerequisites hold, the records are added or deleted; no
\* serial and no journal entry. (seed_dc_locator and withdraw_dc_locator do the same.)
Update(r) ==
  /\ Dynamic
  /\ changes < MaxChanges
  /\ changes' = changes + 1
  /\ recs' = IF r \in recs THEN recs \ {r} ELSE recs \cup {r}
  /\ torn' = TRUE
  /\ UNCHANGED <<serial, journal, wr, seen, notified, copy, held, state, tr, faults>>

\* The scan of replication_task: the first look only remembers the serial; a newer
\* one sends a NOTIFY, which may get lost.
Scan ==
  /\ seen # serial
  /\ \/ seen = Unset /\ UNCHANGED notified
     \/ /\ seen # Unset
        /\ SerialNewer(serial, seen)
        /\ notified' \in {notified, TRUE}
  /\ seen' = serial
  /\ UNCHANGED <<primary, secondary, torn, changes, faults>>

----------------------------------------------------------------------------
(* The secondary *)

\* record_state.
Recorded(s, ok) == [last |-> s, ok |-> ok, success |-> ok \/ state.success]

\* refresh_secondary starts, because the zone is due or a NOTIFY came in. A zone
\* that was synced asks for an IXFR; one that was not asks for the serial first, if
\* it recorded an attempt, and takes one that is not newer for a success.
Refresh ==
  /\ tr = Idle
  /\ notified' \in {notified, FALSE}
  /\ IF ~state.success /\ state.last # Unset /\ ~SerialNewer(serial, state.last)
     THEN /\ state' = Recorded(state.last, TRUE)
          /\ UNCHANGED tr
     ELSE /\ tr' = [at |-> "serve", ixfr |-> state.success, from |-> held, soa |-> serial]
          /\ UNCHANGED state
  /\ UNCHANGED <<primary, seen, copy, held, torn, changes, faults>>

\* Faulty variant: a journal that reaches the current serial is enough.
BridgesEnd(j, from, to) == j # <<>> /\ Last(j).serial = to

\* The journal links the serial of the client to the current one.
Bridges(j, from, to) ==
  /\ j # <<>>
  /\ j[1].serial = (from + 1) % SerialWidth
  /\ Last(j).serial = to

\* build_axfr_stream: the SOA was read before the records and the journal are.
\* The entries are those with a greater serial, in the order of their serials.
Serve ==
  LET j == SortSeq(SelectSeq(journal, LAMBDA e : e.serial > tr.from),
                   LAMBDA e, f : e.serial < f.serial)
  IN /\ tr.at = "serve"
     /\ tr' = CASE tr.ixfr /\ tr.from = tr.soa -> [at |-> "done", soa |-> held]
                [] tr.ixfr /\ tr.from # tr.soa /\ Bridges(j, tr.from, tr.soa)
                     -> [at |-> "delta", soa |-> tr.soa, deltas |-> j]
                [] OTHER -> [at |-> "soa", soa |-> tr.soa, recs |-> recs]
     /\ UNCHANGED <<primary, seen, notified, copy, held, state, torn, changes, faults>>

\* No answer: the attempt failed.
ServeFails ==
  /\ tr.at = "serve"
  /\ faults < MaxFaults
  /\ faults' = faults + 1
  /\ state' = Recorded(IF state.last = Unset THEN 0 ELSE state.last, FALSE)
  /\ tr' = Idle
  /\ UNCHANGED <<primary, seen, notified, copy, held, torn, changes>>

\* The stream of a full transfer ends early: axfr_pull keeps what has come.
Truncate(S) ==
  /\ tr.at = "soa"
  /\ S \subseteq tr.recs /\ S # tr.recs
  /\ faults < MaxFaults
  /\ faults' = faults + 1
  /\ torn' = TRUE
  /\ tr' = [tr EXCEPT !.recs = S]
  /\ UNCHANGED <<primary, seen, notified, copy, held, state, changes>>

\* replace_zone_records: the SOA, the delete, the creates; its errors are dropped.
StoreSoa ==
  /\ tr.at = "soa"
  /\ held' = tr.soa
  /\ tr' = [tr EXCEPT !.at = "clear"]
  /\ UNCHANGED <<primary, seen, notified, copy, state, torn, changes, faults>>

StoreClear ==
  /\ tr.at = "clear"
  /\ copy' = [r \in Recs |-> 0]
  /\ tr' = [tr EXCEPT !.at = "fill"]
  /\ UNCHANGED <<primary, seen, notified, held, state, torn, changes, faults>>

StoreFill ==
  /\ tr.at = "fill"
  /\ copy' = [r \in Recs |-> IF r \in tr.recs THEN 1 ELSE 0]
  /\ tr' = [at |-> "done", soa |-> tr.soa]
  /\ UNCHANGED <<primary, seen, notified, held, state, torn, changes, faults>>

\* apply_zone_delta: one row of each removed record goes, each added one is created.
Patched(c, d) ==
  [r \in Recs |->
     LET left == IF r \in d.removed /\ c[r] > 0 THEN c[r] - 1 ELSE c[r]
     IN IF r \in d.added THEN left + 1 ELSE left]

ApplyDelta ==
  /\ tr.at = "delta"
  /\ tr.deltas # <<>>
  /\ copy' = Patched(copy, Head(tr.deltas))
  /\ tr' = [tr EXCEPT !.deltas = Tail(@)]
  /\ UNCHANGED <<primary, seen, notified, held, state, torn, changes, faults>>

\* Faulty variant: the SOA is not stored.
ApplySoaNot ==
  /\ tr.at = "delta"
  /\ tr.deltas = <<>>
  /\ tr' = [at |-> "done", soa |-> tr.soa]
  /\ UNCHANGED <<primary, seen, notified, copy, held, state, torn, changes, faults>>

\* set_zone_soa, after the deltas.
ApplySoa ==
  /\ tr.at = "delta"
  /\ tr.deltas = <<>>
  /\ held' = tr.soa
  /\ tr' = [at |-> "done", soa |-> tr.soa]
  /\ UNCHANGED <<primary, seen, notified, copy, state, torn, changes, faults>>

\* record_state of a refresh that went well.
Done ==
  /\ tr.at = "done"
  /\ state' = Recorded(tr.soa, TRUE)
  /\ tr' = Idle
  /\ UNCHANGED <<primary, seen, notified, copy, held, torn, changes, faults>>

\* The secondary stops; what it wrote stays.
CrashSecondary ==
  /\ tr # Idle
  /\ faults < MaxFaults
  /\ faults' = faults + 1
  /\ torn' = (torn \/ tr.at \in {"clear", "fill"})
  /\ tr' = Idle
  /\ notified' = FALSE
  /\ UNCHANGED <<primary, seen, copy, held, state, changes>>

Init ==
  /\ recs = {} /\ serial = First /\ journal = <<>>
  /\ wr = [w \in Writers |-> Idle]
  /\ seen = Unset /\ notified = FALSE
  /\ copy = [r \in Recs |-> 0] /\ held = 1
  /\ state = NoState /\ tr = Idle
  /\ torn = FALSE /\ changes = 0 /\ faults = 0

Next ==
  \/ \E w \in Writers :
       \/ \E r \in Recs : SaveRecord(w, r) \/ DeleteRecord(w, r)
       \/ \E r, s \in Recs : Repoint(w, r, s)
       \/ BumpRead(w) \/ BumpWrite(w) \/ AppendJournal(w)
  \/ \E r \in Recs : Update(r)
  \/ CrashPrimary \/ Scan
  \/ Refresh \/ Serve \/ ServeFails
  \/ \E S \in SUBSET Recs : Truncate(S)
  \/ StoreSoa \/ StoreClear \/ StoreFill \/ ApplyDelta \/ ApplySoa \/ Done
  \/ CrashSecondary

\* The steps of a transfer that is under way.
Transfers == Serve \/ StoreSoa \/ StoreClear \/ StoreFill \/ ApplyDelta \/ ApplySoa \/ Done

\* Requests that began go on, and the secondary's task refreshes again and again.
Fairness ==
  /\ \A w \in Writers : WF_vars(BumpRead(w) \/ BumpWrite(w) \/ AppendJournal(w))
  /\ WF_vars(Refresh)
  /\ WF_vars(Transfers)

Spec == Init /\ [][Next]_vars /\ Fairness

----------------------------------------------------------------------------
(* Properties *)

\* Serials are in range and never 0; a synced secondary recorded a serial.
TypeOK ==
  /\ serial \in 1..SerialWidth - 1 /\ held \in 1..SerialWidth - 1
  /\ recs \subseteq Recs
  /\ \A r \in Recs : copy[r] \in Nat
  /\ state.success => state.last # Unset

AtRest == tr = Idle /\ \A w \in Writers : wr[w] = Idle

\* A secondary that holds the primary's serial misses none of its records, though
\* records, serial and journal are read at different times; excepted are changes that
\* got no serial and transfers that were cut short.
NothingMissing ==
  (~torn /\ AtRest /\ state.success /\ held = serial) => \A r \in recs : copy[r] > 0

\* The same without the exceptions (the comments on bump_zone_serial and on
\* replace_zone_records promise it).
Complete ==
  (AtRest /\ state.success /\ held = serial) => \A r \in recs : copy[r] > 0

\* At rest the secondary has the primary's serial.
CaughtUp == AtRest => held = serial

\* Once the primary rests, the secondary comes to hold its serial and stays there,
\* lost NOTIFYs, failed transfers and crashes notwithstanding.
CatchesUp == <>[]CaughtUp

============================================================================
