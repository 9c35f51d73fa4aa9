---------------------------- MODULE SmtpSession ----------------------------
(* The SMTP dialog: the envelope a session collects, STARTTLS and AUTH, and    *)
(* what DATA does with the message: delivery to local mailboxes under a quota, *)
(* relay for authenticated sessions, the backup-MX queue, and one reply for    *)
(* all of it. A session resolves recipients against the directory it read when *)
(* the connection was accepted.                                                *)
EXTENDS Integers, FiniteSets

CONSTANTS
  Sessions,   \* concurrent connections
  Boxes,      \* mailboxes of local users
  Lists,      \* aliases and mailing lists, each expands to every local mailbox
  Backups,    \* addresses of domains this host is the backup MX of
  Foreign,    \* addresses of other domains
  Quota,      \* quota_bytes of a mailbox; every message has size 1
  Direct,     \* TRUE: relay by MX, recipient by recipient; FALSE: one smarthost
  MaxMsgs,    \* bound: DATA commands
  MaxErrors   \* bound: failing store operations

VARIABLES
  users,      \* local users that exist
  usedBytes,  \* usedBytes[b]: used_bytes of mailbox b
  sess,       \* sess[c]: the state of connection c
  msgs,       \* DATA commands so far
  errors

smtpVars == <<users, usedBytes, sess, msgs, errors>>

Rcpts == Boxes \cup Lists \cup Backups \cup Foreign

\* A connection before the greeting, and the state smtp_dialog starts in. Every
\* recipient is kept with TRUE while the MAIL command it was given under is the
\* last one.
Closed == [at |-> "closed"]
Dialog(snapshot, secure) ==
  [at |-> "command", snap |-> snapshot, secure |-> secure, authed |-> FALSE,
   deliver |-> {}, relay |-> {}, queue |-> {}]

Addresses(S) == {p[1] : p \in S}
Aged(S) == {<<a, FALSE>> : a \in Addresses(S)}
Added(S, T) == S \cup {<<a, TRUE>> : a \in T \ Addresses(S)}

----------------------------------------------------------------------------
(* Commands *)

\* handle_connection, on the plain or on the TLS port: the snapshot is read once.
Greet(c) ==
  /\ sess[c].at = "closed"
  /\ \E secure \in BOOLEAN : sess' = [sess EXCEPT ![c] = Dialog(users, secure)]
  /\ UNCHANGED <<users, usedBytes, msgs, errors>>

\* STARTTLS starts a new dialog, with the snapshot of the connection.
StartTls(c) ==
  /\ sess[c].at = "command"
  /\ ~sess[c].secure
  /\ sess' = [sess EXCEPT ![c] = Dialog(@.snap, TRUE)]
  /\ UNCHANGED <<users, usedBytes, msgs, errors>>

\* AUTH with valid credentials; refused without TLS and when done before.
Auth(c) ==
  /\ sess[c].at = "command"
  /\ sess[c].secure
  /\ ~sess[c].authed
  /\ users # {}
  /\ sess' = [sess EXCEPT ![c].authed = TRUE]
  /\ UNCHANGED <<users, usedBytes, msgs, errors>>

\* EHLO, HELO: the local recipients are dropped, the others stay.
Ehlo(c) ==
  /\ sess[c].at = "command"
  /\ sess' = [sess EXCEPT ![c].deliver = {}]
  /\ UNCHANGED <<users, usedBytes, msgs, errors>>

\* Faulty variant: MAIL keeps the recipients of the transaction before it.
NewEnvelopeKept(s) ==
  [s EXCEPT !.deliver = Aged(@), !.relay = Aged(@), !.queue = Aged(@)]

\* MAIL FROM: a new envelope. The backup-MX recipients of an unfinished one stay.
NewEnvelope(s) == [s EXCEPT !.deliver = {}, !.relay = {}, !.queue = Aged(@)]

Mail(c) ==
  /\ sess[c].at = "command"
  /\ sess' = [sess EXCEPT ![c] = NewEnvelope(@)]
  /\ UNCHANGED <<users, usedBytes, msgs, errors>>

\* Faulty variant: a foreign recipient is taken from anyone.
MayRelayAnyone(s) == TRUE

\* Foreign recipients are taken from authenticated sessions only.
MayRelay(s) == s.authed

\* RCPT TO, by resolve_recipient on the snapshot. A user unknown to it and a
\* foreign address without AUTH are refused and change nothing.
Rcpt(c, r) ==
  /\ sess[c].at = "command"
  /\ \/ /\ r \in Boxes \cap sess[c].snap
        /\ sess' = [sess EXCEPT ![c].deliver = Added(@, {r})]
     \/ /\ r \in Lists
        /\ sess' = [sess EXCEPT ![c].deliver = Added(@, Boxes \cap sess[c].snap)]
     \/ /\ r \in Backups
        /\ sess' = [sess EXCEPT ![c].queue = Added(@, {r})]
     \/ /\ r \in Foreign
        /\ MayRelay(sess[c])
        /\ sess' = [sess EXCEPT ![c].relay = Added(@, {r})]
  /\ UNCHANGED <<users, usedBytes, msgs, errors>>

Emptied(s) == [s EXCEPT !.deliver = {}, !.relay = {}, !.queue = {}]

\* RSET drops every recipient.
Rset(c) ==
  /\ sess[c].at = "command"
  /\ sess' = [sess EXCEPT ![c] = Emptied(@)]
  /\ UNCHANGED <<users, usedBytes, msgs, errors>>

\* QUIT, a lost connection or a read timeout, at any point of the dialog.
Leave(c) ==
  /\ sess[c].at # "closed"
  /\ sess' = [sess EXCEPT ![c] = Closed]
  /\ UNCHANGED <<users, usedBytes, msgs, errors>>

----------------------------------------------------------------------------
(* DATA *)

\* The body is read; a body over the limit (552) leaves the envelope as it is.
\* counted, error and box are the locals of the delivery loop; stored are the rows
\* that exist.
Data(c) ==
  /\ sess[c].at = "command"
  /\ msgs < MaxMsgs
  /\ sess[c].deliver \cup sess[c].relay \cup sess[c].queue # {}
  /\ msgs' = msgs + 1
  /\ sess' = [sess EXCEPT ![c] =
       [at |-> "deliver", env |-> sess[c], todo |-> Addresses(@.deliver),
        box |-> "none", stored |-> {}, counted |-> {}, error |-> FALSE]]
  /\ UNCHANGED <<users, usedBytes, errors>>

\* Faulty variant: no quota.
HasRoomAlways(b) == TRUE

\* The quota check of deliver_to_mailbox; a user gone meanwhile has no quota.
HasRoom(b) == b \notin users \/ usedBytes[b] + 1 <= Quota

\* deliver_to_mailbox reads the user; the mailbox is full, or the row is next.
Check(c, b) ==
  /\ sess[c].at = "deliver"
  /\ sess[c].box = "none"
  /\ b \in sess[c].todo
  /\ sess' = [sess EXCEPT ![c].todo = @ \ {b}, ![c].box = IF HasRoom(b) THEN b ELSE "none"]
  /\ UNCHANGED <<users, usedBytes, msgs, errors>>

\* The message row is created.
Store(c) ==
  /\ sess[c].at = "deliver"
  /\ sess[c].box # "none"
  /\ sess' = [sess EXCEPT ![c].at = "count", ![c].stored = @ \cup {sess[c].box}]
  /\ UNCHANGED <<users, usedBytes, msgs, errors>>

\* The store fails before the row is created.
StoreFails(c) ==
  /\ sess[c].at = "deliver"
  /\ sess[c].box # "none"
  /\ errors < MaxErrors
  /\ errors' = errors + 1
  /\ sess' = [sess EXCEPT ![c].box = "none", ![c].error = TRUE]
  /\ UNCHANGED <<users, usedBytes, msgs>>

\* used_bytes is raised by one atomic UPDATE (of no row, if the user is gone).
Count(c) ==
  /\ sess[c].at = "count"
  /\ usedBytes' = IF sess[c].box \in users THEN [usedBytes EXCEPT ![sess[c].box] = @ + 1] ELSE usedBytes
  /\ sess' = [sess EXCEPT ![c].at = "deliver", ![c].box = "none", ![c].counted = @ \cup {sess[c].box}]
  /\ UNCHANGED <<users, msgs, errors>>

\* The UPDATE fails: the delivery counts as failed, but its row is there.
CountFails(c) ==
  /\ sess[c].at = "count"
  /\ errors < MaxErrors
  /\ errors' = errors + 1
  /\ sess' = [sess EXCEPT ![c].at = "deliver", ![c].box = "none", ![c].error = TRUE]
  /\ UNCHANGED <<users, usedBytes, msgs>>

\* relay_message: a smarthost takes all recipients or none, direct delivery
\* each on its own.
Outcomes(S) == IF Direct THEN SUBSET S ELSE {{}, S}

\* Faulty variant: a message is accepted only when every part of it went well.
AcceptedWhole(d, sent, parked) ==
  ~d.error /\ sent = Addresses(d.env.relay) /\ parked = Addresses(d.env.queue)

\* One recipient served is enough for 250.
Accepted(d, sent, parked) == d.counted \cup sent \cup parked # {}

\* The rest of DATA, once every mailbox was tried: relay, enqueue_backup (one
\* row; it may fail) and the reply. served is what became of the message.
Finish(c) ==
  /\ sess[c].at = "deliver"
  /\ sess[c].box = "none"
  /\ sess[c].todo = {}
  /\ \E sent \in Outcomes(Addresses(sess[c].env.relay)),
        parked \in {Addresses(sess[c].env.queue), {}} :
       LET d == sess[c]
           fails == parked # Addresses(d.env.queue)
       IN /\ fails => errors < MaxErrors
          /\ errors' = IF fails THEN errors + 1 ELSE errors
          /\ sess' = [sess EXCEPT ![c] =
               [at |-> "replied", env |-> d.env,
                stored |-> d.stored, sent |-> sent, parked |-> parked,
                code |-> IF Accepted(d, sent, parked) THEN "250"
                         ELSE IF d.error THEN "451"
                         ELSE IF d.env.deliver # {} THEN "452" ELSE "451"]]
  /\ UNCHANGED <<users, usedBytes, msgs>>

\* The dialog goes on with an empty envelope.
Resume(c) ==
  /\ sess[c].at = "replied"
  /\ sess' = [sess EXCEPT ![c] = Emptied(@.env)]
  /\ UNCHANGED <<users, usedBytes, msgs, errors>>

\* delete_mail_user, while sessions hold older snapshots.
DeleteUser(b) ==
  /\ b \in users
  /\ users' = users \ {b}
  /\ UNCHANGED <<usedBytes, sess, msgs, errors>>

----------------------------------------------------------------------------
SmtpInit ==
  /\ users = Boxes
  /\ usedBytes = [b \in Boxes |-> 0]
  /\ sess = [c \in Sessions |-> Closed]
  /\ msgs = 0
  /\ errors = 0

SmtpNext ==
  \/ \E c \in Sessions :
       \/ Greet(c) \/ StartTls(c) \/ Auth(c) \/ Ehlo(c) \/ Mail(c) \/ Rset(c) \/ Leave(c)
       \/ \E r \in Rcpts : Rcpt(c, r)
       \/ Data(c)
       \/ \E b \in Boxes : Check(c, b)
       \/ Store(c) \/ StoreFails(c) \/ Count(c) \/ CountFails(c) \/ Finish(c) \/ Resume(c)
  \/ \E b \in Boxes : DeleteUser(b)

SmtpSpec == SmtpInit /\ [][SmtpNext]_smtpVars

----------------------------------------------------------------------------
(* Properties *)

SmtpTypeOK ==
  /\ users \subseteq Boxes
  /\ usedBytes \in [Boxes -> Nat]
  /\ \A c \in Sessions :
       /\ sess[c].at \in {"closed", "command", "deliver", "count", "replied"}
       /\ sess[c].at = "command" =>
            /\ sess[c].deliver \subseteq Boxes \X BOOLEAN
            /\ sess[c].relay \subseteq Foreign \X BOOLEAN
            /\ sess[c].queue \subseteq Backups \X BOOLEAN

Replied == {c \in Sessions : sess[c].at = "replied"}

\* A message refused with a 4xx code is nowhere: not with a remote server, not
\* in the queue, not in a mailbox. The client will send it again, and what was
\* served the first time would be served twice. The one exception is a mailbox
\* whose used_bytes could not be written after its row was.
RefusedNowhere ==
  \A c \in Replied :
    sess[c].code # "250" =>
      /\ sess[c].sent \cup sess[c].parked = {}
      /\ sess[c].stored # {} => errors > 0 /\ sess[c].code = "451"

\* The quota check and the update of used_bytes are separate, so sessions that
\* deliver at once overrun the quota; the overrun is at most one message for each
\* session but the first.
OverrunBounded ==
  \A b \in Boxes : usedBytes[b] <= Quota + Cardinality(Sessions) - 1

\* A local or relayed copy goes only to recipients given since the MAIL command
\* the message belongs to: nobody receives a message because of an envelope that
\* was begun before and given up. (Backup-MX recipients do not have this: MAIL
\* leaves them in place.)
EnvelopeFresh ==
  \A c \in Replied :
    \A a \in sess[c].stored \cup sess[c].sent : <<a, FALSE>> \notin sess[c].env.deliver \cup sess[c].env.relay

\* This host is no open relay: whatever a remote server accepted came from a
\* session that authenticated, under TLS, before the message was sent.
NoOpenRelay ==
  \A c \in Replied : sess[c].sent # {} => sess[c].env.authed /\ sess[c].env.secure

\* SMTP sessions keep what the dialogue promises: a message refused with a 4xx code is
\* nowhere, so that the client's next try serves nobody twice; nobody receives a message
\* because of an envelope begun before and given up; whatever a remote server accepted
\* came from a session authenticated under TLS; and sessions that deliver at once overrun
\* a quota by at most one message for each session but the first.
SmtpHonest ==
  /\ SmtpTypeOK
  /\ RefusedNowhere
  /\ EnvelopeFresh
  /\ NoOpenRelay
  /\ OverrunBounded
=============================================================================
