------------------------------ MODULE MailRepl ------------------------------
(* Pull replication of the mail store from a primary to a secondary.          *)
(*                                                                            *)
(* The primary stamps every add, deletion and flag change with its clock and  *)
(* serves three streams, each strictly after a (timestamp, repl_id) cursor    *)
(* and cut at a limit.  The secondary polls, applies one item at a time and   *)
(* then persists the three cursors together.  Every await is a step: other    *)
(* requests, a crash or a promotion may come in between.                      *)
(*                                                                            *)
(*   magnetite-db/src/mail.rs       store_message_record, delete_mail_message,*)
(*                                  set_mail_flags, mail_repl_feed, apply_*   *)
(*   magnetite-server/src/repl.rs   run_pull_loop, pull_once, ReplAlerter     *)
(*   magnetite-server/src/role.rs   the pulling flag                          *)
EXTENDS Integers, FiniteSets

CONSTANTS
  Msgs,               \* repl_ids, numbers; random UUIDs, so in no relation to time
  FlagSets,           \* the flags a message can carry
  NoFlags,            \* those a message is stored with
  FEED_LIMIT,
  ALERT_AFTER_FAILURES,
  STUCK_AFTER_CYCLES,
  MaxWriters,         \* requests the primary serves at a time
  Imported,           \* a mailbox imported before the secondary's first poll
  MayImport,          \* is the Maildir importer used later on?
  MayHang,            \* may the primary accept a poll and never answer it?
  MaxClock,           \* bound: distinct instants
  MaxFlagChanges,     \* bound: set_mail_flags calls
  MaxFlips,           \* bound: promote / demote of the secondary
  MaxPrimaryCrashes, MaxSecondaryCrashes, MaxOutages   \* bounds on faults

Streams == {"msg", "del", "flag"}

VARIABLES
  clock,     \* the primary's wall clock
  log,       \* log[k]: the primary's rows that stream k is read from
  used,      \* repl_ids assigned so far
  writing,   \* the requests in progress on the primary: kind, id, flags, ts
  mail,      \* mail[m]: the flags of message m on the secondary, or "absent"
  cursor,    \* cursor[k]: the secondary's persisted stream cursors
  pulling,   \* the secondary's role flag: TRUE while it tracks the primary
  pass,      \* the pull pass under way
  fails,     \* FailureRun: consecutive, alerted
  stuck,     \* StuckRun: cycles, alerted
  link,      \* the primary as the secondary finds it: "up", "down" or "hung"
  spent      \* what the bounds count

primaryVars == <<clock, log, used, writing>>
secondaryVars == <<mail, cursor, pulling, pass, fails, stuck>>
mailVars == <<clock, log, used, writing, mail, cursor, pulling, pass, fails, stuck,
          link, spent>>

Row == [id : Msgs, ts : Nat, flags : FlagSets]
Position == Nat \X Nat
Start == <<0, 0>>                       \* the empty cursor: a full sync

Key(r) == <<r.ts, r.id>>
Earlier(p, q) == p[1] < q[1] \/ (p[1] = q[1] /\ p[2] < q[2])

IdlePass == [at |-> "idle"]

\* A pass first collects the feed (at = the stream to read next), then applies
\* what is in todo and carries the position each stream will have reached.
PassState ==
  {IdlePass} \cup
  [at : Streams \cup {"apply"}, todo : [Streams -> SUBSET Row],
   next : [Streams -> Position], fetched : BOOLEAN, applied : BOOLEAN]

\* Type correctness.
MailTypeOK ==
  /\ clock \in 0..MaxClock
  /\ log \in [Streams -> SUBSET Row]
  /\ used \subseteq Msgs
  /\ \A w \in writing : w.kind \in Streams /\ w.id \in Msgs /\ w.ts \in 0..MaxClock
  /\ mail \in [Msgs -> FlagSets \cup {"absent"}]
  /\ cursor \in [Streams -> Position]
  /\ pulling \in BOOLEAN
  /\ pass \in PassState
  /\ fails \in [consecutive : 0..ALERT_AFTER_FAILURES, alerted : BOOLEAN]
  /\ stuck \in [cycles : 0..STUCK_AFTER_CYCLES, alerted : BOOLEAN]
  /\ link \in {"up", "down", "hung"}

Bounds == [flags |-> MaxFlagChanges, flips |-> MaxFlips, outages |-> MaxOutages,
           primary |-> MaxPrimaryCrashes, secondary |-> MaxSecondaryCrashes]

MailInit ==
  /\ clock = 1
  /\ log = [k \in Streams |-> IF k = "msg"
                               THEN [id : Imported, ts : {1}, flags : {NoFlags}] ELSE {}]
  /\ used = Imported
  /\ writing = {}
  /\ mail = [m \in Msgs |-> "absent"]
  /\ cursor = [k \in Streams |-> Start]
  /\ pulling = TRUE
  /\ pass = IdlePass
  /\ fails = [consecutive |-> 0, alerted |-> FALSE]
  /\ stuck = [cycles |-> 0, alerted |-> FALSE]
  /\ link = "up"
  /\ spent = [b \in DOMAIN Bounds |-> 0]

Spend(b) == spent[b] < Bounds[b] /\ spent' = [spent EXCEPT ![b] = @ + 1]

----------------------------------------------------------------------------
(* The primary.  A write is three awaits: begin it (a deletion or flag change *)
(* touches mail_message here), stamp it, create the row a stream is read from.*)

Stored == {r.id : r \in log["msg"]}

Begin(kind, m, flags, ts) ==
  /\ Cardinality(writing) < MaxWriters
  /\ writing' = writing \cup {[kind |-> kind, id |-> m, flags |-> flags, ts |-> ts]}

\* store_mail_message: SMTP delivery, stamped later with the present.
BeginStore(m) ==
  /\ m \notin used
  /\ used' = used \cup {m}
  /\ Begin("msg", m, NoFlags, 0)
  /\ UNCHANGED <<clock, log, secondaryVars, link, spent>>

\* store_imported_message: the message brings its original received date.
BeginImport(m, ts) ==
  /\ MayImport
  /\ m \notin used
  /\ used' = used \cup {m}
  /\ Begin("msg", m, NoFlags, ts)
  /\ UNCHANGED <<clock, log, secondaryVars, link, spent>>

\* delete_mail_message: select, delete; the tombstone follows.
BeginDelete(m) ==
  /\ m \in Stored
  /\ log' = [log EXCEPT !["msg"] = {r \in @ : r.id # m}]
  /\ Begin("del", m, NoFlags, 0)
  /\ UNCHANGED <<clock, used, secondaryVars, link, spent>>

\* set_mail_flags: update the message; the changelog entry follows.
BeginFlags(m, flags) ==
  /\ m \in Stored
  /\ Spend("flags")
  /\ log' = [log EXCEPT !["msg"] =
               {IF r.id = m THEN [r EXCEPT !.flags = flags] ELSE r : r \in @}]
  /\ Begin("flag", m, flags, 0)
  /\ UNCHANGED <<clock, used, secondaryVars, link>>

\* Utc::now(): a new instant, or the one a concurrent request was stamped with.
StampWrite(w) ==
  /\ w \in writing /\ w.ts = 0
  /\ \/ clock' = clock + 1 /\ clock' <= MaxClock
     \/ clock' = clock /\ \E v \in writing : v.ts = clock /\ v.id # w.id
  /\ writing' = (writing \ {w}) \cup {[w EXCEPT !.ts = clock']}
  /\ UNCHANGED <<log, used, secondaryVars, link, spent>>

CommitWrite(w) ==
  /\ w \in writing /\ w.ts # 0
  /\ writing' = writing \ {w}
  /\ log' = [log EXCEPT ![w.kind] =
               @ \cup {[id |-> w.id, ts |-> w.ts, flags |-> w.flags]}]
  /\ UNCHANGED <<clock, used, secondaryVars, link, spent>>

\* The primary dies: what was begun and not committed never will be.
CrashPrimary ==
  /\ writing # {}
  /\ Spend("primary")
  /\ writing' = {}
  /\ UNCHANGED <<clock, log, used, secondaryVars, link>>

----------------------------------------------------------------------------
(* mail_repl_feed: one stream's page, and the cursor after it.                *)

\* Mutant: the timestamp alone is compared, so a tie across a page is skipped.
After_TimestampOnly(r, p) == p[1] < r.ts

After(r, p) == Earlier(p, Key(r))

Page(S, p) ==
  {r \in S : /\ After(r, p)
             /\ Cardinality({q \in S : After(q, p) /\ Earlier(Key(q), Key(r))}) < FEED_LIMIT}

\* Mutant: an empty page sends the stream back to the start.
Reached_Restart(page, p) ==
  IF page = {} THEN Start
  ELSE CHOOSE q \in {Key(r) : r \in page} : \A r \in page : ~Earlier(q, Key(r))

\* Mutant: the timestamp without the id.
Reached_NoId(page, p) ==
  IF page = {} THEN p ELSE <<CHOOSE t \in {r.ts : r \in page} : \A r \in page : r.ts <= t>>

Reached(page, p) ==
  IF page = {} THEN p
  ELSE CHOOSE q \in {Key(r) : r \in page} : \A r \in page : ~Earlier(q, Key(r))

(* run_pull_loop, pull_once.                                                  *)

\* A poll begins while the flag says so; the persisted cursor goes out.
BeginPass ==
  /\ pass = IdlePass /\ pulling /\ link = "up"
  /\ pass' = [at |-> "msg", todo |-> [k \in Streams |-> {}], next |-> cursor,
              fetched |-> FALSE, applied |-> FALSE]
  /\ UNCHANGED <<primaryVars, mail, cursor, pulling, fails, stuck, link, spent>>

\* The primary answers the three queries one after the other.
StreamAfter(k) == CASE k = "msg" -> "del" [] k = "del" -> "flag" [] k = "flag" -> "apply"

ReadStream(k) ==
  /\ pass.at = k
  /\ link = "up"
  /\ LET page == Page(log[k], pass.next[k])
     IN pass' = [pass EXCEPT !.at = StreamAfter(k), !.todo[k] = page,
                             !.next[k] = Reached(page, @),
                             !.fetched = @ \/ page # {}]
  /\ UNCHANGED <<primaryVars, mail, cursor, pulling, fails, stuck, link, spent>>

\* A row of a page, oldest first; messages, then deletions, then flags.
NextIn(k, r) ==
  /\ pass.at = "apply"
  /\ r \in pass.todo[k]
  /\ \A q \in pass.todo[k] : ~Earlier(Key(q), Key(r))
  /\ k # "msg" => pass.todo["msg"] = {}
  /\ k = "flag" => pass.todo["del"] = {}

Took(k, r, did) ==
  pass' = [pass EXCEPT !.todo[k] = @ \ {r}, !.applied = @ \/ did]

\* apply_replicated_message: insert unless it is there.
ApplyMessage(r) ==
  /\ NextIn("msg", r)
  /\ mail' = IF mail[r.id] = "absent" THEN [mail EXCEPT ![r.id] = r.flags] ELSE mail
  /\ Took("msg", r, mail[r.id] = "absent")
  /\ UNCHANGED <<primaryVars, cursor, pulling, fails, stuck, link, spent>>

ApplyDeletion(r) ==
  /\ NextIn("del", r)
  /\ mail' = [mail EXCEPT ![r.id] = "absent"]
  /\ Took("del", r, mail[r.id] # "absent")
  /\ UNCHANGED <<primaryVars, cursor, pulling, fails, stuck, link, spent>>

\* Mutant: a flag change for an unknown message creates it.
ApplyFlags_Upsert(r) ==
  /\ NextIn("flag", r)
  /\ mail' = [mail EXCEPT ![r.id] = r.flags]
  /\ Took("flag", r, TRUE)
  /\ UNCHANGED <<primaryVars, cursor, pulling, fails, stuck, link, spent>>

ApplyFlags(r) ==
  /\ NextIn("flag", r)
  /\ mail' = IF mail[r.id] = "absent" THEN mail ELSE [mail EXCEPT ![r.id] = r.flags]
  /\ Took("flag", r, mail[r.id] # "absent")
  /\ UNCHANGED <<primaryVars, cursor, pulling, fails, stuck, link, spent>>

(* ReplAlerter.                                                               *)

Least(x, y) == IF x <= y THEN x ELSE y

\* Mutant: the count is reset, the latch is not.
NoteSuccess_Latched == fails' = [consecutive |-> 0, alerted |-> fails.alerted]

NoteSuccess == fails' = [consecutive |-> 0, alerted |-> FALSE]

\* Mutant: the alert waits for one failure more than the count can hold.
NoteFailure_Late ==
  LET n == Least(fails.consecutive + 1, ALERT_AFTER_FAILURES)
  IN fails' = [consecutive |-> n, alerted |-> fails.alerted \/ n > ALERT_AFTER_FAILURES]

NoteFailure ==
  LET n == Least(fails.consecutive + 1, ALERT_AFTER_FAILURES)
  IN fails' = [consecutive |-> n, alerted |-> fails.alerted \/ n >= ALERT_AFTER_FAILURES]

NoteProgress(stalled) ==
  LET n == Least(stuck.cycles + 1, STUCK_AFTER_CYCLES)
  IN stuck' = IF stalled
              THEN [cycles |-> n, alerted |-> stuck.alerted \/ n >= STUCK_AFTER_CYCLES]
              ELSE [cycles |-> 0, alerted |-> FALSE]

\* Mutant: the cursor is saved as soon as the feed has been read.
ReadyToRecord_Early == pass.at = "apply"

ReadyToRecord == pass.at = "apply" /\ \A k \in Streams : pass.todo[k] = {}

\* record_mail_repl_sync, and the loop's bookkeeping.
EndPass ==
  /\ ReadyToRecord
  /\ cursor' = pass.next
  /\ pass' = IdlePass
  /\ NoteSuccess
  /\ NoteProgress(pass.fetched /\ ~pass.applied)
  /\ UNCHANGED <<primaryVars, mail, pulling, link, spent>>

\* A refused or broken poll: the cursor is read back and rewritten as it is.
FailPass ==
  /\ pulling \/ pass # IdlePass
  /\ pass = IdlePass \/ pass.at \in Streams
  /\ link = "down"
  /\ pass' = IdlePass
  /\ NoteFailure
  /\ UNCHANGED <<primaryVars, mail, cursor, pulling, stuck, link, spent>>

\* The secondary's own store fails on the way: the pass is given up.  The cursor
\* stays, or, when it cannot be read back, the empty one is recorded.
AbortPass ==
  /\ pass # IdlePass
  /\ Spend("secondary")
  /\ cursor' \in {cursor, [k \in Streams |-> Start]}
  /\ pass' = IdlePass
  /\ NoteFailure
  /\ UNCHANGED <<primaryVars, mail, pulling, stuck, link>>

CrashSecondary ==
  /\ Spend("secondary")
  /\ pass' = IdlePass
  /\ pulling' = TRUE
  /\ fails' = [consecutive |-> 0, alerted |-> FALSE]
  /\ stuck' = [cycles |-> 0, alerted |-> FALSE]
  /\ UNCHANGED <<primaryVars, mail, cursor, link>>

\* RoleController promote / demote.
FlipRole ==
  /\ Spend("flips")
  /\ pulling' = ~pulling
  /\ UNCHANGED <<primaryVars, mail, cursor, pass, fails, stuck, link>>

LoseLink ==
  /\ link = "up" /\ Spend("outages")
  /\ \/ link' = "down"
     \/ MayHang /\ pass.at \in Streams /\ link' = "hung"
  /\ UNCHANGED <<primaryVars, secondaryVars>>

RestoreLink ==
  /\ link # "up"
  /\ link' = "up"
  /\ UNCHANGED <<primaryVars, secondaryVars, spent>>

----------------------------------------------------------------------------

WriterStep ==
  \/ \E m \in Msgs : BeginStore(m) \/ BeginDelete(m)
  \/ \E m \in Msgs, ts \in 1..clock : BeginImport(m, ts)
  \/ \E m \in Msgs, f \in FlagSets : BeginFlags(m, f)
  \/ \E w \in writing : StampWrite(w) \/ CommitWrite(w)

PassStep ==
  \/ BeginPass \/ EndPass \/ FailPass
  \/ \E k \in Streams : ReadStream(k)
  \/ pass.at = "apply" /\ \E r \in UNION {pass.todo[k] : k \in Streams} :
       ApplyMessage(r) \/ ApplyDeletion(r) \/ ApplyFlags(r)

MailNext ==
  \/ WriterStep \/ CrashPrimary
  \/ PassStep \/ AbortPass \/ CrashSecondary
  \/ FlipRole \/ LoseLink \/ RestoreLink

(* The pull loop keeps ticking, and a request that stamped its row commits.   *)
MailFairness == WF_mailVars(PassStep) /\ WF_mailVars(\E w \in writing : CommitWrite(w))

MailSpec == MailInit /\ [][MailNext]_mailVars /\ MailFairness

----------------------------------------------------------------------------
(* Properties.                                                                *)

\* What the primary holds, in the secondary's terms.
Mirror == [m \in Msgs |->
  IF m \in Stored THEN (CHOOSE r \in log["msg"] : r.id = m).flags ELSE "absent"]

\* The primary is quiet and reachable, and the secondary polls.
Calm == writing = {} /\ link = "up" /\ pulling

\* Exclusive cursors skip nothing: a message the primary holds at or before the
\* secondary's persisted cursor is on the secondary.
CursorCovers ==
  \A r \in log["msg"] : ~After(r, cursor["msg"]) => mail[r.id] # "absent"

\* A deletion sticks: between passes, no message whose tombstone the secondary has
\* passed is on the secondary, though pages are re-read after a crash.
NoResurrection ==
  pass = IdlePass =>
    \A r \in log["del"] : ~After(r, cursor["del"]) => mail[r.id] = "absent"

\* The replica's cursors are honest, whether it crashes, fails, is promoted or demoted in
\* between: whatever lies behind them was applied or deleted, and a deleted message does
\* not come back.
StoreFollows == MailTypeOK /\ CursorCovers /\ NoResurrection

\* A step that moves no stream cursor backwards, or a failed pass that sends the
\* secondary back to a full sync.
Forward ==
  \/ \A k \in Streams : ~Earlier(cursor'[k], cursor[k])
  \/ fails'.consecutive > 0 /\ \A k \in Streams : cursor'[k] = Start

\* A pass never moves a stream cursor backwards; only a failed one may send the
\* secondary back to a full sync.
CursorsAdvance == [][Forward]_mailVars

\* An outage nobody was told of.
Unalerted == link # "up" /\ pulling /\ ~fails.alerted
=============================================================================
