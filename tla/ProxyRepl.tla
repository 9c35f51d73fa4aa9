----------------------------- MODULE ProxyRepl -----------------------------
(* Replication of the proxy configuration: the primary serves a snapshot of    *)
(* its tables with the newest updated_at as the serial, the secondary replaces *)
(* its own tables when that serial is not the one it applied last.             *)
EXTENDS Integers, Sequences, FiniteSets, FiniteSetsExt

CONSTANTS
  Rows,         \* <<table, key>> of the rows that may exist
  Tables,       \* the tables, in the order of the feed
  MaxClock,     \* bound: writes on the primary
  MaxFaults     \* bound: lost answers, failed transactions and crashes

VARIABLES
  rows,         \* the primary's rows: key -> updated_at
  clock,        \* the time of the last write
  feed,         \* what proxy_repl_feed has gathered so far
  copy,         \* the secondary's rows: key -> updated_at of the primary's row
  serial,       \* proxy_repl_state
  pull,         \* where proxy_pull_once is
  missed,       \* a row went, or a write fell between the reads of a feed that was used
  faults

vars == <<rows, clock, feed, copy, serial, pull, missed, faults>>

Idle == [at |-> "idle"]
None == 0
Between == pull.at = "fetch" /\ feed.next \in 2..Len(Tables)
Newest(rs) == IF rs = <<>> THEN None ELSE Max({rs[k] : k \in DOMAIN rs})

----------------------------------------------------------------------------
(* The primary: save_vhost, save_acl_rule, save_ip_block, upsert_certificate *)

Save(k) ==
  /\ clock < MaxClock
  /\ clock' = clock + 1
  /\ rows' = [j \in DOMAIN rows \cup {k} |-> IF j = k THEN clock' ELSE rows[j]]
  /\ feed' = [feed EXCEPT !.clean = @ /\ ~Between]
  /\ UNCHANGED <<copy, serial, pull, missed, faults>>

\* delete_vhost, delete_acl_rule, delete_ip_block, delete_certificate: the row goes,
\* and its updated_at with it.
Delete(k) ==
  /\ k \in DOMAIN rows
  /\ clock < MaxClock
  /\ clock' = clock + 1
  /\ rows' = [j \in DOMAIN rows \ {k} |-> rows[j]]
  /\ missed' = TRUE
  /\ feed' = [feed EXCEPT !.clean = @ /\ ~Between]
  /\ UNCHANGED <<copy, serial, pull, faults>>

----------------------------------------------------------------------------
(* The pull *)

\* proxy_pull_once asks; serve_proxy_feed begins.
Ask ==
  /\ pull = Idle
  /\ pull' = [at |-> "fetch"]
  /\ feed' = [next |-> 1, got |-> <<>>, clean |-> TRUE]
  /\ UNCHANGED <<rows, clock, copy, serial, missed, faults>>

\* proxy_repl_feed reads one table after another.
Gather ==
  /\ pull.at = "fetch"
  /\ feed.next <= Len(Tables)
  /\ LET here == {k \in DOMAIN rows : k[1] = Tables[feed.next]} IN
       feed' = [feed EXCEPT !.next = @ + 1,
                            !.got = [k \in DOMAIN @ \cup here |-> IF k \in here THEN rows[k] ELSE @[k]]]
  /\ UNCHANGED <<rows, clock, copy, serial, pull, missed, faults>>

\* The answer arrives, and the serial differs from the one applied ...
Arrives ==
  /\ pull.at = "fetch"
  /\ feed.next > Len(Tables)
  /\ pull' = IF Newest(feed.got) = serial
             THEN Idle
             ELSE [at |-> "apply", got |-> feed.got, serial |-> Newest(feed.got)]
  /\ missed' = (missed \/ ~feed.clean)
  /\ UNCHANGED <<rows, clock, feed, copy, serial, faults>>

\* Faulty variant: a transaction that failed looks like one that did not.
ReplaceUnchecked ==
  /\ pull.at = "apply"
  /\ \/ copy' = pull.got /\ UNCHANGED faults
     \/ faults < MaxFaults /\ faults' = faults + 1 /\ UNCHANGED copy
  /\ pull' = [pull EXCEPT !.at = "serial"]
  /\ UNCHANGED <<rows, clock, feed, serial, missed>>

\* ... so apply_proxy_repl replaces every table in one transaction ...
Replace ==
  /\ pull.at = "apply"
  /\ copy' = pull.got
  /\ pull' = [pull EXCEPT !.at = "serial"]
  /\ UNCHANGED <<rows, clock, feed, serial, missed, faults>>

\* ... and then set_proxy_repl_serial.
SetSerial ==
  /\ pull.at = "serial"
  /\ serial' = pull.serial
  /\ pull' = Idle
  /\ UNCHANGED <<rows, clock, feed, copy, missed, faults>>

\* The request fails, the transaction rolls back, or the secondary restarts.
Fails ==
  /\ pull # Idle
  /\ faults < MaxFaults
  /\ faults' = faults + 1
  /\ pull' = Idle
  /\ UNCHANGED <<rows, clock, feed, copy, serial, missed>>

Init ==
  /\ rows = <<>> /\ clock = None
  /\ feed = [next |-> 1, got |-> <<>>, clean |-> TRUE]
  /\ copy = <<>> /\ serial = None /\ pull = Idle
  /\ missed = FALSE /\ faults = 0

Next ==
  \/ \E k \in Rows : Save(k) \/ Delete(k)
  \/ Ask \/ Gather \/ Arrives \/ Replace \/ SetSerial \/ Fails

\* run_pull_loop polls for ever.
Fairness == WF_vars(Ask) /\ WF_vars(Gather) /\ WF_vars(Arrives) /\ WF_vars(Replace) /\ WF_vars(SetSerial)

Spec == Init /\ [][Next]_vars /\ Fairness

----------------------------------------------------------------------------
(* Properties *)

TypeOK ==
  /\ DOMAIN rows \subseteq Rows /\ DOMAIN copy \subseteq Rows
  /\ clock \in 0..MaxClock /\ serial \in 0..MaxClock
  /\ pull.at \in {"idle", "fetch", "apply", "serial"}

\* The two configurations agree, or one of the known gaps opened.
SavedAlike == missed \/ copy = rows

\* Saved rows reach the secondary and stay there: once the writes end the two
\* configurations agree, through lost answers, transactions that roll back and
\* restarts between the transaction and its serial, as long as no row was deleted
\* and no write fell between the reads of a feed.
SavesConverge == <>[]SavedAlike

\* The same without the condition: a peer may skip a snapshot with the serial it
\* has applied, because that snapshot is unchanged.
Converges == <>[](copy = rows)
=============================================================================
