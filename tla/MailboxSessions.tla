-------------------------- MODULE MailboxSessions --------------------------
(* IMAP and POP3 sessions on one mailbox. A session works on a list of the     *)
(* messages it read at SELECT (IMAP) or PASS (POP3): flags are computed from   *)
(* that list and written back, EXPUNGE, CLOSE and QUIT delete what it says is   *)
(* deleted, one message at a time, while other sessions and the delivery of    *)
(* new mail go on.                                                             *)
EXTENDS Integers, FiniteSets

CONSTANTS
  Imap,       \* IMAP connections
  Pop,        \* POP3 connections
  Msgs,       \* messages that may come to exist
  Folders,    \* mailbox folders, "INBOX" among them
  Flags,      \* message flags, "deleted" among them
  MaxStores   \* bound: STORE commands

VARIABLES
  store,      \* store[m]: its row, [state, folder, flags]
  sess,       \* sess[c]: the connection
  behind,     \* behind[c]: messages whose flags others changed since c read them
  marked,     \* messages some client ever marked deleted
  stores

vars == <<store, sess, behind, marked, stores>>

Conns == Imap \cup Pop
Row(state, folder, flags) == [state |-> state, folder |-> folder, flags |-> flags]
Present == {m \in Msgs : store[m].state = "here"}
Off == [at |-> "off"]
Authed == [at |-> "authed"]

\* load_mailbox and derive_deleted: the folder as it is now; dead is the vector
\* of deletion marks.
Loaded(f) ==
  LET list == {m \in Present : store[m].folder = f}
  IN [at |-> "selected", folder |-> f,
      seen |-> [m \in list |-> store[m].flags],
      dead |-> {m \in list : "deleted" \in store[m].flags}]

\* c has just read the mailbox; the flags of M were just changed by c.
Fresh(c) == behind' = [behind EXCEPT ![c] = {}]
Others(c, M) == behind' = [d \in Conns |-> IF d = c THEN behind[d] ELSE behind[d] \cup M]

----------------------------------------------------------------------------
(* Arrival of messages *)

\* store_mail_message: SMTP delivery to INBOX.
Deliver(m) ==
  /\ store[m].state = "new"
  /\ store' = [store EXCEPT ![m] = Row("here", "INBOX", {})]
  /\ UNCHANGED <<sess, behind, marked, stores>>

\* IMAP APPEND, with flags; the list of the session is not read again.
Append(c, m, f, flags) ==
  /\ sess[c].at \in {"authed", "selected"}
  /\ store[m].state = "new"
  /\ store' = [store EXCEPT ![m] = Row("here", f, flags)]
  /\ marked' = IF "deleted" \in flags THEN marked \cup {m} ELSE marked
  /\ UNCHANGED <<sess, behind, stores>>

----------------------------------------------------------------------------
(* IMAP *)

Login(c) ==
  /\ sess[c].at = "off"
  /\ sess' = [sess EXCEPT ![c] = Authed]
  /\ UNCHANGED <<store, behind, marked, stores>>

\* SELECT and EXAMINE.
Select(c, f) ==
  /\ sess[c].at \in {"authed", "selected"}
  /\ sess' = [sess EXCEPT ![c] = Loaded(f)]
  /\ Fresh(c)
  /\ UNCHANGED <<store, marked, stores>>

\* apply_flag_mode, on the flags the session read.
NewFlags(old, mode, flags) ==
  CASE mode = "replace" -> flags
    [] mode = "add" -> old \cup flags
    [] mode = "remove" -> old \ flags

\* STORE and UID STORE of one message: set_mail_flags (of no row, if the message
\* is gone), then the list is to be read again.
Store(c, m, mode, flags) ==
  /\ sess[c].at = "selected"
  /\ m \in DOMAIN sess[c].seen
  /\ stores < MaxStores
  /\ stores' = stores + 1
  /\ LET new == NewFlags(sess[c].seen[m], mode, flags) IN
     /\ store' = IF m \in Present THEN [store EXCEPT ![m].flags = new] ELSE store
     /\ marked' = IF "deleted" \in new THEN marked \cup {m} ELSE marked
  /\ sess' = [sess EXCEPT ![c].at = "reload"]
  /\ Others(c, {m})

\* Faulty variant: the list is not read again.
ReloadedOld(c) == [sess[c] EXCEPT !.at = "selected"]

\* The second half of STORE: the session reads its folder again.
Reloaded(c) == Loaded(sess[c].folder)

Reload(c) ==
  /\ sess[c].at = "reload"
  /\ sess' = [sess EXCEPT ![c] = Reloaded(c)]
  /\ Fresh(c)
  /\ UNCHANGED <<store, marked, stores>>

\* Faulty variant: every message of the list is expunged.
DoomedAll(s) == DOMAIN s.seen

\* What EXPUNGE deletes: the messages marked in the session's list.
Doomed(s) == s.dead

\* EXPUNGE and CLOSE begin; CLOSE leaves the folder afterwards.
Expunge(c, close) ==
  /\ sess[c].at = "selected"
  /\ sess' = [sess EXCEPT ![c] =
       [at |-> "expunge", folder |-> @.folder, todo |-> Doomed(sess[c]), close |-> close]]
  /\ UNCHANGED <<store, behind, marked, stores>>

\* delete_mail_message: one message; deleting one that is gone does nothing.
Remove(c, m) ==
  /\ sess[c].at \in {"expunge", "quit"}
  /\ m \in sess[c].todo
  /\ store' = IF m \in Present THEN [store EXCEPT ![m] = Row("gone", "INBOX", {})] ELSE store
  /\ sess' = [sess EXCEPT ![c].todo = @ \ {m}]
  /\ UNCHANGED <<behind, marked, stores>>

\* After EXPUNGE the folder is read again and nothing counts as marked.
Expunged(c) ==
  /\ sess[c].at = "expunge"
  /\ sess[c].todo = {}
  /\ sess' = [sess EXCEPT ![c] =
       IF @.close THEN Authed ELSE [Loaded(@.folder) EXCEPT !.dead = {}]]
  /\ Fresh(c)
  /\ UNCHANGED <<store, marked, stores>>

----------------------------------------------------------------------------
(* POP3 *)

\* PASS: the messages of every folder.
Pass(c) ==
  /\ sess[c].at = "off"
  /\ sess' = [sess EXCEPT ![c] = [at |-> "pop", list |-> Present, dead |-> {}]]
  /\ Fresh(c)
  /\ UNCHANGED <<store, marked, stores>>

Dele(c, m) ==
  /\ sess[c].at = "pop"
  /\ m \in sess[c].list \ sess[c].dead
  /\ sess' = [sess EXCEPT ![c].dead = @ \cup {m}]
  /\ UNCHANGED <<store, behind, marked, stores>>

RsetPop(c) ==
  /\ sess[c].at = "pop"
  /\ sess' = [sess EXCEPT ![c].dead = {}]
  /\ UNCHANGED <<store, behind, marked, stores>>

\* QUIT commits the deletions.
Quit(c) ==
  /\ sess[c].at = "pop"
  /\ sess' = [sess EXCEPT ![c] = [at |-> "quit", todo |-> @.dead]]
  /\ marked' = marked \cup sess[c].dead
  /\ UNCHANGED <<store, behind, stores>>

\* A connection ends: LOGOUT, a lost connection, a crash. POP3 deletes nothing
\* unless QUIT came first.
Drop(c) ==
  /\ sess[c].at # "off"
  /\ sess' = [sess EXCEPT ![c] = Off]
  /\ UNCHANGED <<store, behind, marked, stores>>

----------------------------------------------------------------------------
Init ==
  /\ store = [m \in Msgs |-> Row("new", "INBOX", {})]
  /\ sess = [c \in Conns |-> Off]
  /\ behind = [c \in Conns |-> {}]
  /\ marked = {}
  /\ stores = 0

Next ==
  \/ \E m \in Msgs : Deliver(m)
  \/ \E c \in Imap :
       \/ Login(c)
       \/ \E f \in Folders : Select(c, f)
       \/ \E m \in Msgs, f \in Folders, flags \in SUBSET Flags : Append(c, m, f, flags)
       \/ \E m \in Msgs, mode \in {"replace", "add", "remove"}, flags \in SUBSET Flags :
            Store(c, m, mode, flags)
       \/ Reload(c)
       \/ \E close \in BOOLEAN : Expunge(c, close)
       \/ Expunged(c)
  \/ \E c \in Conns, m \in Msgs : Remove(c, m)
  \/ \E c \in Pop :
       \/ Pass(c) \/ RsetPop(c) \/ Quit(c)
       \/ \E m \in Msgs : Dele(c, m)
  \/ \E c \in Conns : Drop(c)

Spec == Init /\ [][Next]_vars

----------------------------------------------------------------------------
(* Properties *)

TypeOK ==
  /\ store \in [Msgs -> [state : {"new", "here", "gone"}, folder : Folders, flags : SUBSET Flags]]
  /\ \A c \in Conns :
       sess[c].at \in {"off", "authed", "selected", "reload", "expunge", "pop", "quit"}
  /\ marked \subseteq Msgs

\* No message is lost: whatever is gone was marked deleted by a client, with
\* STORE or APPEND, or with DELE and QUIT. Mail that arrives, or that moves up in
\* the list, while a session deletes by its own list is never hit.
GoneWereMarked == \A m \in Msgs : store[m].state = "gone" => m \in marked

\* A step that removes a message which is not marked in the store is one of a session
\* whose list others made stale, or of a POP3 session that sent DELE for it.
RemovesMarked ==
  \A m \in Msgs :
    /\ m \in Present
    /\ store'[m].state = "gone"
    /\ "deleted" \notin store[m].flags
    => \E c \in Conns :
         /\ sess[c].at \in {"expunge", "quit"}
         /\ m \in sess[c].todo
         /\ sess[c].at = "quit" \/ m \in behind[c]

\* An IMAP session removes a message that is not marked in the store only when
\* another session took the mark away after the list was read. A session's own
\* "STORE -FLAGS \Deleted" always saves the message from its next EXPUNGE.
UnmarkSaves == [][RemovesMarked]_vars
=============================================================================
