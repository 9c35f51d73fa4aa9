----------------------------- MODULE MailProofs -----------------------------
(* Proofs about mail: the dialogue and delivery (SmtpSession), for any         *)
(* sessions, addresses, quota and bounds, and the replication of the store     *)
(* (MailRepl), whose argument stands before its own part below.                *)
(*                                                                             *)
(* SmtpHonest speaks of answered messages and of used_bytes; what keeps it     *)
(* true is in the sessions that have not answered yet. A local or relayed      *)
(* recipient belongs to the last MAIL command, a relayed one was taken after   *)
(* AUTH, which is under TLS; a row of a delivery that counted nothing comes    *)
(* with an error of the store; and a mailbox has room for every delivery that  *)
(* passed its quota check, up to one message for each session but the first.   *)
EXTENDS SmtpSession, MailRepl, Integers, FiniteSetTheorems, WellFoundedInduction, TLAPS

\* There is a session, finitely many of them, and no mailbox has the name the model
\* uses for none.
SmtpConfigured ==
  /\ IsFiniteSet(Sessions) /\ Sessions # {}
  /\ Quota \in Nat
  /\ "none" \notin Boxes
  /\ Direct \in BOOLEAN

\* A session that waits for a command, or its envelope while DATA is processed.
Envelopes ==
  {s \in [at : {"command"}, snap : SUBSET Boxes, secure : BOOLEAN, authed : BOOLEAN,
          deliver : SUBSET (Boxes \X {TRUE}), relay : SUBSET (Foreign \X {TRUE}),
          queue : SUBSET (Backups \X BOOLEAN)] :
     /\ s.relay # {} => s.authed
     /\ s.authed => s.secure}

\* DATA while mailboxes are served, and once it is answered. e is the number of errors.
Deliveries(e) ==
  {s \in [at : {"deliver", "count"}, env : Envelopes, todo : SUBSET Boxes,
          box : Boxes \cup {"none"}, stored : SUBSET Boxes, counted : SUBSET Boxes,
          error : BOOLEAN] :
     /\ s.at = "count" => s.box # "none"
     /\ s.at = "deliver" /\ s.stored # {} => (s.counted # {} \/ (s.error /\ e > 0))}

Replies(e) ==
  {s \in [at : {"replied"}, env : Envelopes, stored : SUBSET Boxes, sent : SUBSET Foreign,
          parked : SUBSET Backups, code : {"250", "451", "452"}] :
     /\ s.code # "250" => s.sent = {} /\ s.parked = {}
     /\ s.code # "250" /\ s.stored # {} => e > 0 /\ s.code = "451"
     /\ s.sent # {} => s.env.relay # {}}

States(e) == {Closed} \cup Envelopes \cup Deliveries(e) \cup Replies(e)

SessInv ==
  /\ users \subseteq Boxes
  /\ usedBytes \in [Boxes -> Nat]
  /\ errors \in Nat
  /\ DOMAIN sess = Sessions /\ sess = [c \in Sessions |-> sess[c]]
  /\ \A c \in Sessions : sess[c] \in States(errors)

\* The sessions between the quota check of b and the update of its used_bytes.
InFlight(S, b) == {c \in Sessions : S[c].at \in {"deliver", "count"} /\ S[c].box = b}

\* used_bytes of b with what is in flight to it (which no longer counts when the user
\* is gone).
Claimed(U, B, S, b) == B[b] + (IF b \in U THEN Cardinality(InFlight(S, b)) ELSE 0)
Limit == Quota + Cardinality(Sessions) - 1

QuotaInv == \A b \in Boxes : Claimed(users, usedBytes, sess, b) <= Limit

SmtpInv == SessInv /\ QuotaInv

----------------------------------------------------------------------------
(* Sessions.                                                                   *)

\* More errors leave a session as good as it was.
LEMMA StatesGrow ==
  ASSUME NEW e \in Nat, NEW f \in Nat, e <= f
  PROVE  States(e) \subseteq States(f)
<1>1. Deliveries(e) \subseteq Deliveries(f)
  BY DEF Deliveries
<1>2. Replies(e) \subseteq Replies(f)
  BY DEF Replies
<1> QED BY <1>1, <1>2 DEF States

\* Sessions are told apart by where they are.
LEMMA ByPlace ==
  ASSUME NEW e, NEW s \in States(e)
  PROVE  /\ s.at \in {"closed", "command", "deliver", "count", "replied"}
         /\ s.at = "closed" => s = Closed
         /\ s.at = "command" => s \in Envelopes
         /\ s.at \in {"deliver", "count"} => s \in Deliveries(e)
         /\ s.at = "replied" => s \in Replies(e)
<1>1. CASE s = Closed
  BY <1>1 DEF Closed
<1>2. CASE s \in Envelopes
  BY <1>2 DEF Envelopes
<1>3. CASE s \in Deliveries(e)
  BY <1>3 DEF Deliveries
<1>4. CASE s \in Replies(e)
  BY <1>4 DEF Replies
<1> QED BY <1>1, <1>2, <1>3, <1>4 DEF States

\* A step of one session.
LEMMA OneMoves ==
  ASSUME SessInv, NEW c \in Sessions, NEW x,
         sess' = [sess EXCEPT ![c] = x], errors' \in Nat, errors <= errors',
         x \in States(errors'), users' \subseteq Boxes, usedBytes' \in [Boxes -> Nat]
  PROVE  SessInv' /\ sess'[c] = x /\ \A d \in Sessions \ {c} : sess'[d] = sess[d]
<1>1. DOMAIN sess = Sessions /\ errors \in Nat
  BY DEF SessInv
<1>2. DOMAIN sess' = Sessions /\ sess' = [d \in Sessions |-> sess'[d]]
  BY <1>1
<1>3. sess'[c] = x /\ \A d \in Sessions \ {c} : sess'[d] = sess[d]
  BY <1>1
<1>4. \A d \in Sessions : sess'[d] \in States(errors')
  <2>1. States(errors) \subseteq States(errors')
    BY <1>1, StatesGrow
  <2> QED BY <1>3, <2>1 DEF SessInv
<1> QED BY <1>2, <1>3, <1>4 DEF SessInv

----------------------------------------------------------------------------
(* What is in flight to a mailbox.                                             *)

LEMMA FlightFinite ==
  ASSUME SmtpConfigured, NEW S, NEW b
  PROVE  /\ IsFiniteSet(InFlight(S, b)) /\ Cardinality(InFlight(S, b)) \in Nat
         /\ Cardinality(InFlight(S, b)) <= Cardinality(Sessions)
         /\ Cardinality(Sessions) \in Nat /\ Cardinality(Sessions) > 0
<1>1. InFlight(S, b) \subseteq Sessions /\ IsFiniteSet(Sessions) /\ Sessions # {}
  BY DEF InFlight, SmtpConfigured
<1>2. Cardinality(Sessions) # 0 /\ Cardinality(Sessions) \in Nat
  BY <1>1, FS_EmptySet, FS_CardinalityType
<1> QED BY <1>1, <1>2, FS_Subset, FS_CardinalityType

\* A step that adds nothing to what is in flight keeps the quota.
LEMMA QuotaKept ==
  ASSUME SmtpConfigured, SmtpInv, users' \subseteq users, usedBytes' = usedBytes,
         \A b \in Boxes : InFlight(sess', b) \subseteq InFlight(sess, b)
  PROVE  QuotaInv'
<1> SUFFICES ASSUME NEW b \in Boxes
             PROVE  Claimed(users', usedBytes', sess', b) <= Limit
  BY DEF QuotaInv, Limit
<1>1. Claimed(users, usedBytes, sess, b) <= Limit /\ usedBytes[b] \in Nat
  BY DEF SmtpInv, QuotaInv, SessInv
<1>2. Cardinality(InFlight(sess', b)) <= Cardinality(InFlight(sess, b))
  BY FlightFinite, FS_Subset
<1>3. /\ Cardinality(InFlight(sess', b)) \in Nat /\ Cardinality(InFlight(sess, b)) \in Nat
      /\ Limit \in Int
  BY FlightFinite DEF Limit, SmtpConfigured
<1> QED BY <1>1, <1>2, <1>3 DEF Claimed

\* A session that is in flight to no mailbox after its step.
LEMMA FlightShrinks ==
  ASSUME NEW c \in Sessions, \A d \in Sessions \ {c} : sess'[d] = sess[d],
         NEW b, sess'[c].at \notin {"deliver", "count"} \/ sess'[c].box # b \/ c \in InFlight(sess, b)
  PROVE  InFlight(sess', b) \subseteq InFlight(sess, b)
BY DEF InFlight

----------------------------------------------------------------------------
(* Steps. *)

LEMMA InitHolds == ASSUME SmtpConfigured, SmtpInit PROVE SmtpInv
<1>1. SessInv
  BY DEF SmtpInit, SessInv, States
<1>2. \A b \in Boxes : InFlight(sess, b) = {}
  BY DEF SmtpInit, InFlight, Closed
<1>3. \A b \in Boxes : Claimed(users, usedBytes, sess, b) = 0
  BY <1>2, FS_EmptySet DEF SmtpInit, Claimed
<1>4. 0 <= Limit
  BY FlightFinite DEF Limit, SmtpConfigured
<1> QED BY <1>1, <1>3, <1>4 DEF SmtpInv, QuotaInv

\* A session that gives commands, gives up or goes on with the dialog.
Talks(c) ==
  \/ Greet(c) \/ StartTls(c) \/ Auth(c) \/ Ehlo(c) \/ Mail(c) \/ Rset(c) \/ Leave(c)
  \/ \E r \in Rcpts : Rcpt(c, r)
  \/ Resume(c)

\* Adding recipients to a list of the last MAIL command.
LEMMA AddedOk ==
  ASSUME NEW A, NEW B, TRUE \in B, NEW S \in SUBSET (A \X B), NEW T \in SUBSET A
  PROVE  Added(S, T) \in SUBSET (A \X B)
<1>1. ASSUME NEW p \in Added(S, T) PROVE p \in A \X B
  <2>1. CASE p \in S
    BY <2>1
  <2>2. CASE \E a \in T \ Addresses(S) : p = <<a, TRUE>>
    <3>1. PICK a \in T : p = <<a, TRUE>>
      BY <2>2
    <3>2. a \in A
      OBVIOUS
    <3> QED BY <3>1, <3>2
  <2> QED BY <1>1, <2>1, <2>2 DEF Added
<1> QED BY <1>1

LEMMA AgedOk ==
  ASSUME NEW A, NEW S \in SUBSET (A \X BOOLEAN)
  PROVE  Aged(S) \in SUBSET (A \X BOOLEAN)
<1>1. ASSUME NEW p \in Aged(S) PROVE p \in A \X BOOLEAN
  <2>1. PICK q \in S : p = <<q[1], FALSE>>
    BY <1>1 DEF Aged, Addresses
  <2>2. q[1] \in A
    OBVIOUS
  <2> QED BY <2>1, <2>2
<1> QED BY <1>1

\* Whatever a command does, the session has an envelope as it should be, or is closed.
LEMMA TalkMoves ==
  ASSUME SmtpInv, NEW c \in Sessions, Talks(c)
  PROVE  /\ \E x \in {Closed} \cup Envelopes : sess' = [sess EXCEPT ![c] = x]
         /\ UNCHANGED <<users, usedBytes, errors>>
<1> DEFINE s == sess[c]
<1>1. s \in States(errors) /\ users \subseteq Boxes
  BY DEF SmtpInv, SessInv
<1>2. s.at = "command" => s \in Envelopes
  BY <1>1, ByPlace
<1>d. \A U \in SUBSET Boxes, q \in BOOLEAN : Dialog(U, q) \in Envelopes
  BY DEF Dialog, Envelopes
<1>e. \A u \in Envelopes : Emptied(u) \in Envelopes
  BY DEF Emptied, Envelopes
<1>3. CASE Greet(c)
  BY <1>1, <1>3, <1>d DEF Greet
<1>4. CASE StartTls(c)
  <2>1. s \in Envelopes
    BY <1>2, <1>4 DEF StartTls
  <2>2. s.snap \in SUBSET Boxes
    BY <2>1 DEF Envelopes
  <2> QED BY <2>2, <1>4, <1>d DEF StartTls
<1>5. CASE Auth(c)
  <2>1. s \in Envelopes /\ s.secure
    BY <1>2, <1>5 DEF Auth
  <2>2. [s EXCEPT !.authed = TRUE] \in Envelopes
    BY <2>1 DEF Envelopes
  <2> QED BY <2>2, <1>5 DEF Auth
<1>6. CASE Ehlo(c)
  <2>1. s \in Envelopes
    BY <1>2, <1>6 DEF Ehlo
  <2>2. [s EXCEPT !.deliver = {}] \in Envelopes
    BY <2>1 DEF Envelopes
  <2> QED BY <2>2, <1>6 DEF Ehlo
<1>7. CASE Mail(c)
  <2>1. s \in Envelopes
    BY <1>2, <1>7 DEF Mail
  <2>2. s.queue \in SUBSET (Backups \X BOOLEAN)
    BY <2>1 DEF Envelopes
  <2>3. Aged(s.queue) \in SUBSET (Backups \X BOOLEAN)
    BY <2>2, AgedOk
  <2>4. NewEnvelope(s) \in Envelopes
    BY <2>1, <2>3 DEF Envelopes, NewEnvelope
  <2> QED BY <2>4, <1>7 DEF Mail
<1>8. CASE Rset(c)
  BY <1>2, <1>8, <1>e DEF Rset
<1>9. CASE Leave(c)
  BY <1>9 DEF Leave
<1>10. ASSUME NEW r \in Rcpts, Rcpt(c, r) PROVE \E x \in Envelopes : sess' = [sess EXCEPT ![c] = x]
  <2>1. s \in Envelopes
    BY <1>2, <1>10 DEF Rcpt
  <2>2. /\ s.deliver \in SUBSET (Boxes \X {TRUE}) /\ s.relay \in SUBSET (Foreign \X {TRUE})
        /\ s.queue \in SUBSET (Backups \X BOOLEAN)
    BY <2>1 DEF Envelopes
  <2>3. ASSUME NEW T \in SUBSET Boxes PROVE [s EXCEPT !.deliver = Added(@, T)] \in Envelopes
    <3>1. Added(s.deliver, T) \in SUBSET (Boxes \X {TRUE})
      BY <2>2, AddedOk
    <3> QED BY <3>1, <2>1 DEF Envelopes
  <2>4. ASSUME r \in Backups PROVE [s EXCEPT !.queue = Added(@, {r})] \in Envelopes
    <3>1. Added(s.queue, {r}) \in SUBSET (Backups \X BOOLEAN)
      BY <2>2, <2>4, AddedOk
    <3> QED BY <3>1, <2>1 DEF Envelopes
  <2>5. ASSUME r \in Foreign, MayRelay(s) PROVE [s EXCEPT !.relay = Added(@, {r})] \in Envelopes
    <3>1. Added(s.relay, {r}) \in SUBSET (Foreign \X {TRUE})
      BY <2>2, <2>5, AddedOk
    <3> QED BY <3>1, <2>1, <2>5 DEF Envelopes, MayRelay
  <2>6. CASE r \in Boxes \cap s.snap /\ sess' = [sess EXCEPT ![c].deliver = Added(@, {r})]
    BY <2>6, <2>3
  <2>7. CASE r \in Lists /\ sess' = [sess EXCEPT ![c].deliver = Added(@, Boxes \cap sess[c].snap)]
    <3>1. Boxes \cap s.snap \in SUBSET Boxes
      OBVIOUS
    <3> QED BY <2>7, <3>1, <2>3
  <2>8. CASE r \in Backups /\ sess' = [sess EXCEPT ![c].queue = Added(@, {r})]
    BY <2>8, <2>4
  <2>9. CASE r \in Foreign /\ MayRelay(s) /\ sess' = [sess EXCEPT ![c].relay = Added(@, {r})]
    BY <2>9, <2>5
  <2> QED BY <1>10, <2>6, <2>7, <2>8, <2>9 DEF Rcpt
<1>11. CASE Resume(c)
  <2>1. s \in Replies(errors)
    BY <1>1, <1>11, ByPlace DEF Resume
  <2>2. s.env \in Envelopes
    BY <2>1 DEF Replies
  <2> QED BY <2>2, <1>11, <1>e DEF Resume
<1>12. UNCHANGED <<users, usedBytes, errors>>
  BY DEF Talks, Greet, StartTls, Auth, Ehlo, Mail, Rset, Leave, Rcpt, Resume
<1> QED
  <2>1. \E x \in {Closed} \cup Envelopes : sess' = [sess EXCEPT ![c] = x]
    BY <1>3, <1>4, <1>5, <1>6, <1>7, <1>8, <1>9, <1>10, <1>11 DEF Talks
  <2> QED BY <2>1, <1>12

LEMMA TalkStep ==
  ASSUME SmtpConfigured, SmtpInv, NEW c \in Sessions, Talks(c)
  PROVE  SmtpInv'
<1>1. PICK x \in {Closed} \cup Envelopes : sess' = [sess EXCEPT ![c] = x]
  BY TalkMoves
<1>2. UNCHANGED <<users, usedBytes, errors>>
  BY TalkMoves
<1>3. x \in States(errors') /\ x.at \notin {"deliver", "count"}
  <2>1. x \in States(errors')
    BY DEF States
  <2>2. CASE x = Closed
    BY <2>1, <2>2 DEF Closed
  <2>3. CASE x \in Envelopes
    BY <2>1, <2>3 DEF Envelopes
  <2> QED BY <2>2, <2>3
<1>4. SessInv' /\ sess'[c] = x /\ \A d \in Sessions \ {c} : sess'[d] = sess[d]
  BY <1>1, <1>2, <1>3, OneMoves DEF SmtpInv, SessInv
<1>5. \A b \in Boxes : InFlight(sess', b) \subseteq InFlight(sess, b)
  BY <1>3, <1>4, FlightShrinks
<1> QED BY <1>2, <1>4, <1>5, QuotaKept DEF SmtpInv

----------------------------------------------------------------------------
(* DATA. *)

\* DATA takes the envelope; nothing is in flight yet.
LEMMA DataStep ==
  ASSUME SmtpConfigured, SmtpInv, NEW c \in Sessions, Data(c)
  PROVE  SmtpInv'
<1> DEFINE s == sess[c]
           x == [at |-> "deliver", env |-> s, todo |-> Addresses(s.deliver),
                 box |-> "none", stored |-> {}, counted |-> {}, error |-> FALSE]
<1>1. s \in Envelopes
  BY ByPlace DEF SmtpInv, SessInv, Data
<1>2. Addresses(s.deliver) \in SUBSET Boxes
  <2>1. s.deliver \in SUBSET (Boxes \X {TRUE})
    BY <1>1 DEF Envelopes
  <2>2. \A p \in s.deliver : p[1] \in Boxes
    BY <2>1
  <2> QED BY <2>2 DEF Addresses
<1>3. x \in Deliveries(errors)
  BY <1>1, <1>2 DEF Deliveries
<1>4. sess' = [sess EXCEPT ![c] = x] /\ UNCHANGED <<users, usedBytes, errors>>
  BY DEF Data
<1>5. SessInv' /\ sess'[c] = x /\ \A d \in Sessions \ {c} : sess'[d] = sess[d]
  BY <1>3, <1>4, OneMoves DEF SmtpInv, SessInv, States
<1>6. \A b \in Boxes : InFlight(sess', b) \subseteq InFlight(sess, b)
  BY <1>5, FlightShrinks DEF SmtpConfigured
<1> QED BY <1>4, <1>5, <1>6, QuotaKept DEF SmtpInv

\* The quota check is where a delivery comes in flight: either the mailbox had room, or
\* its user is gone.
LEMMA CheckStep ==
  ASSUME SmtpConfigured, SmtpInv, NEW c \in Sessions, NEW b \in Boxes, Check(c, b)
  PROVE  SmtpInv'
<1> DEFINE s == sess[c]
           x == [s EXCEPT !.todo = @ \ {b}, !.box = IF HasRoom(b) THEN b ELSE "none"]
<1>1. s \in Deliveries(errors) /\ s.at = "deliver" /\ s.box = "none"
  BY ByPlace DEF SmtpInv, SessInv, Check
<1>2. x \in Deliveries(errors) /\ x.at = "deliver" /\ x.box = IF HasRoom(b) THEN b ELSE "none"
  BY <1>1 DEF Deliveries
<1>3. sess' = [sess EXCEPT ![c] = x] /\ UNCHANGED <<users, usedBytes, errors>>
  BY DEF Check
<1>4. SessInv' /\ sess'[c] = x /\ \A d \in Sessions \ {c} : sess'[d] = sess[d]
  BY <1>2, <1>3, OneMoves DEF SmtpInv, SessInv, States
<1>x. x.box \in {b, "none"}
  BY <1>2
<1> HIDE DEF x
<1>5. ASSUME NEW a \in Boxes, a # b PROVE InFlight(sess', a) \subseteq InFlight(sess, a)
  <2>1. sess'[c].box # a
    BY <1>4, <1>5, <1>x DEF SmtpConfigured
  <2> QED BY <1>4, <2>1, FlightShrinks
<1>6. CASE HasRoom(b)
  <2> SUFFICES ASSUME NEW a \in Boxes PROVE Claimed(users, usedBytes, sess', a) <= Limit
    BY <1>3, <1>4 DEF SmtpInv, QuotaInv, Limit
  <2>0. /\ Claimed(users, usedBytes, sess, a) <= Limit /\ usedBytes[a] \in Nat
        /\ Quota \in Nat
    BY DEF SmtpInv, QuotaInv, SessInv, SmtpConfigured
  <2>1. /\ Cardinality(InFlight(sess, a)) \in Nat /\ Cardinality(InFlight(sess', a)) \in Nat
        /\ Cardinality(InFlight(sess', a)) <= Cardinality(Sessions)
        /\ Cardinality(Sessions) \in Nat
    BY FlightFinite
  <2>2. CASE a # b
    <3>1. Cardinality(InFlight(sess', a)) <= Cardinality(InFlight(sess, a))
      BY <1>5, <2>2, FlightFinite, FS_Subset
    <3> QED BY <2>0, <2>1, <3>1 DEF Claimed, Limit
  <2>3. CASE a = b /\ b \in users
    <3>1. usedBytes[b] + 1 <= Quota
      BY <1>6, <2>3 DEF HasRoom
    <3> QED BY <2>0, <2>1, <2>3, <3>1 DEF Claimed, Limit
  <2>4. CASE a = b /\ b \notin users
    BY <2>0, <2>4 DEF Claimed
  <2> QED BY <2>2, <2>3, <2>4
<1>7. CASE ~ HasRoom(b)
  <2>1. InFlight(sess', b) \subseteq InFlight(sess, b)
    BY <1>2, <1>4, <1>7, FlightShrinks DEF SmtpConfigured
  <2>2. \A a \in Boxes : InFlight(sess', a) \subseteq InFlight(sess, a)
    BY <1>5, <2>1
  <2> QED BY <1>3, <1>4, <2>2, QuotaKept DEF SmtpInv
<1> QED BY <1>6, <1>7

\* The row is created, or not: what is in flight stays, or is less.
LEMMA StoreStep ==
  ASSUME SmtpConfigured, SmtpInv, NEW c \in Sessions, Store(c) \/ StoreFails(c) \/ CountFails(c)
  PROVE  SmtpInv'
<1> DEFINE s == sess[c]
<1>1. s \in Deliveries(errors) /\ errors \in Nat
  BY ByPlace DEF SmtpInv, SessInv, Store, StoreFails, CountFails
<1>2. CASE Store(c)
  <2> DEFINE x == [s EXCEPT !.at = "count", !.stored = @ \cup {s.box}]
  <2>1. s.at = "deliver" /\ s.box # "none"
    BY <1>2 DEF Store
  <2>2. s.box \in Boxes
    BY <1>1, <2>1 DEF Deliveries
  <2>3. x \in Deliveries(errors) /\ x.box = s.box
    BY <1>1, <2>1, <2>2 DEF Deliveries
  <2>4. sess' = [sess EXCEPT ![c] = x] /\ UNCHANGED <<users, usedBytes, errors>>
    BY <1>2 DEF Store
  <2>5. SessInv' /\ sess'[c] = x /\ \A d \in Sessions \ {c} : sess'[d] = sess[d]
    BY <2>3, <2>4, OneMoves DEF SmtpInv, SessInv, States
  <2>6. \A b \in Boxes : InFlight(sess', b) \subseteq InFlight(sess, b)
    BY <2>1, <2>3, <2>5 DEF InFlight
  <2> QED BY <2>4, <2>5, <2>6, QuotaKept DEF SmtpInv
<1>3. CASE StoreFails(c) \/ CountFails(c)
  <2>1. PICK x \in Deliveries(errors') : sess' = [sess EXCEPT ![c] = x] /\ x.box = "none"
    <3>1. CASE StoreFails(c)
      <4> DEFINE y == [s EXCEPT !.box = "none", !.error = TRUE]
      <4>1. s.at = "deliver" /\ errors' = errors + 1 /\ sess' = [sess EXCEPT ![c] = y]
        BY <3>1 DEF StoreFails
      <4>2. errors' > 0
        BY <1>1, <4>1
      <4>3. y \in Deliveries(errors') /\ y.box = "none"
        BY <1>1, <4>1, <4>2 DEF Deliveries
      <4> QED BY <4>1, <4>3
    <3>2. CASE CountFails(c)
      <4> DEFINE y == [s EXCEPT !.at = "deliver", !.box = "none", !.error = TRUE]
      <4>1. errors' = errors + 1 /\ sess' = [sess EXCEPT ![c] = y]
        BY <3>2 DEF CountFails
      <4>2. errors' > 0
        BY <1>1, <4>1
      <4>3. y \in Deliveries(errors') /\ y.box = "none"
        BY <1>1, <4>2 DEF Deliveries
      <4> QED BY <4>1, <4>3
    <3> QED BY <1>3, <3>1, <3>2
  <2>2. UNCHANGED <<users, usedBytes>> /\ errors' \in Nat /\ errors <= errors'
    BY <1>1, <1>3 DEF StoreFails, CountFails
  <2>3. SessInv' /\ sess'[c] = x /\ \A d \in Sessions \ {c} : sess'[d] = sess[d]
    BY <1>1, <2>1, <2>2, OneMoves DEF SmtpInv, SessInv, States
  <2>4. \A b \in Boxes : InFlight(sess', b) \subseteq InFlight(sess, b)
    BY <2>1, <2>3, FlightShrinks DEF SmtpConfigured
  <2> QED BY <2>2, <2>3, <2>4, QuotaKept DEF SmtpInv
<1> QED BY <1>2, <1>3

\* used_bytes is raised by what is in flight no longer.
LEMMA CountStep ==
  ASSUME SmtpConfigured, SmtpInv, NEW c \in Sessions, Count(c)
  PROVE  SmtpInv'
<1> DEFINE s == sess[c]
           k == s.box
           x == [s EXCEPT !.at = "deliver", !.box = "none", !.counted = @ \cup {s.box}]
<1>1. s \in Deliveries(errors) /\ errors \in Nat /\ s.at = "count"
  BY ByPlace DEF SmtpInv, SessInv, Count
<1>2. k \in Boxes
  BY <1>1 DEF Deliveries
<1>3. x \in Deliveries(errors) /\ x.box = "none"
  BY <1>1, <1>2 DEF Deliveries
<1>4. /\ sess' = [sess EXCEPT ![c] = x] /\ UNCHANGED <<users, errors>>
      /\ usedBytes' = IF k \in users THEN [usedBytes EXCEPT ![k] = @ + 1] ELSE usedBytes
  BY DEF Count
<1>5. usedBytes \in [Boxes -> Nat] /\ usedBytes' \in [Boxes -> Nat] /\ users \subseteq Boxes
  BY <1>2, <1>4 DEF SmtpInv, SessInv
<1>6. SessInv' /\ sess'[c] = x /\ \A d \in Sessions \ {c} : sess'[d] = sess[d]
  BY <1>1, <1>3, <1>4, <1>5, OneMoves DEF SmtpInv, SessInv, States
<1>7. \A b \in Boxes : InFlight(sess', b) \subseteq InFlight(sess, b)
  BY <1>3, <1>6, FlightShrinks DEF SmtpConfigured
<1>8. CASE k \notin users
  BY <1>4, <1>6, <1>7, <1>8, QuotaKept DEF SmtpInv
<1>9. CASE k \in users
  <2> SUFFICES ASSUME NEW a \in Boxes PROVE Claimed(users, usedBytes', sess', a) <= Limit
    BY <1>4, <1>6 DEF SmtpInv, QuotaInv, Limit
  <2>0. /\ Claimed(users, usedBytes, sess, a) <= Limit /\ usedBytes[a] \in Nat
        /\ Limit \in Int
    BY FlightFinite DEF SmtpInv, QuotaInv, SessInv, SmtpConfigured, Limit
  <2>1. /\ Cardinality(InFlight(sess, a)) \in Nat /\ Cardinality(InFlight(sess', a)) \in Nat
        /\ IsFiniteSet(InFlight(sess, a))
    BY FlightFinite
  <2>2. CASE a # k
    <3>1. Cardinality(InFlight(sess', a)) <= Cardinality(InFlight(sess, a))
      BY <1>7, FlightFinite, FS_Subset
    <3>2. usedBytes'[a] = usedBytes[a]
      BY <1>4, <1>5, <2>2
    <3> QED BY <2>0, <2>1, <3>1, <3>2 DEF Claimed
  <2>3. CASE a = k
    <3>1. InFlight(sess', k) = InFlight(sess, k) \ {c} /\ c \in InFlight(sess, k)
      <4>1. k # "none" /\ sess'[c].box = "none"
        BY <1>2, <1>3, <1>6 DEF SmtpConfigured
      <4>2. c \in InFlight(sess, k)
        BY <1>1 DEF InFlight
      <4>3. c \notin InFlight(sess', k)
        BY <4>1 DEF InFlight
      <4>4. \A d \in Sessions \ {c} : d \in InFlight(sess', k) <=> d \in InFlight(sess, k)
        BY <1>6 DEF InFlight
      <4>5. InFlight(sess', k) \subseteq Sessions /\ InFlight(sess, k) \subseteq Sessions
        BY DEF InFlight
      <4> QED BY <4>2, <4>3, <4>4, <4>5
    <3>2. Cardinality(InFlight(sess', a)) = Cardinality(InFlight(sess, a)) - 1
      BY <2>1, <2>3, <3>1, FS_RemoveElement
    <3>3. usedBytes'[a] = usedBytes[a] + 1
      BY <1>2, <1>4, <1>5, <1>9, <2>3
    <3> QED BY <1>9, <2>0, <2>1, <2>3, <3>2, <3>3 DEF Claimed
  <2> QED BY <2>2, <2>3
<1> QED BY <1>8, <1>9

\* The reply: refused, the message was relayed to nobody and queued for nobody, and a
\* row it left behind is one the store failed to count.
LEMMA FinishStep ==
  ASSUME SmtpConfigured, SmtpInv, NEW c \in Sessions, Finish(c)
  PROVE  SmtpInv'
<1> DEFINE s == sess[c]
           Reply(sent, parked) ==
             [at |-> "replied", env |-> s.env,
              stored |-> s.stored, sent |-> sent, parked |-> parked,
              code |-> IF Accepted(s, sent, parked) THEN "250"
                       ELSE IF s.error THEN "451"
                       ELSE IF s.env.deliver # {} THEN "452" ELSE "451"]
<1>1. s \in Deliveries(errors) /\ errors \in Nat /\ s.at = "deliver"
  BY ByPlace DEF SmtpInv, SessInv, Finish
<1>2. /\ s.env \in Envelopes /\ s.stored \in SUBSET Boxes /\ s.counted \in SUBSET Boxes
      /\ s.error \in BOOLEAN
      /\ s.stored # {} => (s.counted # {} \/ (s.error /\ errors > 0))
  BY <1>1 DEF Deliveries
<1>3. /\ Addresses(s.env.relay) \in SUBSET Foreign /\ Addresses(s.env.queue) \in SUBSET Backups
      /\ Addresses(s.env.relay) # {} => s.env.relay # {}
  <2>1. s.env.relay \in SUBSET (Foreign \X {TRUE}) /\ s.env.queue \in SUBSET (Backups \X BOOLEAN)
    BY <1>2 DEF Envelopes
  <2>2. (\A p \in s.env.relay : p[1] \in Foreign) /\ (\A p \in s.env.queue : p[1] \in Backups)
    BY <2>1
  <2> QED BY <2>2 DEF Addresses
<1>4. PICK sent \in Outcomes(Addresses(s.env.relay)), parked \in {Addresses(s.env.queue), {}} :
        /\ errors' = IF parked # Addresses(s.env.queue) THEN errors + 1 ELSE errors
        /\ sess' = [sess EXCEPT ![c] = Reply(sent, parked)]
  BY DEF Finish
<1>5. UNCHANGED <<users, usedBytes>> /\ errors' \in Nat /\ errors <= errors'
  BY <1>1, <1>4 DEF Finish
<1>6. sent \in SUBSET Addresses(s.env.relay) /\ parked \in SUBSET Backups
  BY <1>3 DEF Outcomes
<1>7. sent \in SUBSET Foreign /\ (sent # {} => s.env.relay # {})
  BY <1>3, <1>6
<1> DEFINE x == Reply(sent, parked)
<1>8. x \in Replies(errors')
  <2>1. x \in [at : {"replied"}, env : Envelopes, stored : SUBSET Boxes, sent : SUBSET Foreign,
                parked : SUBSET Backups, code : {"250", "451", "452"}]
    BY <1>2, <1>6, <1>7
  <2>2. x.code # "250" => s.counted = {} /\ sent = {} /\ parked = {}
    BY DEF Accepted
  <2>3. x.code # "250" /\ s.error => x.code = "451"
    OBVIOUS
  <2>4. /\ x.sent = sent /\ x.parked = parked /\ x.stored = s.stored /\ x.env = s.env
    OBVIOUS
  <2>5. x.code # "250" /\ x.stored # {} => errors' > 0 /\ x.code = "451"
    BY <1>1, <1>2, <1>5, <2>2, <2>3, <2>4
  <2> HIDE DEF x
  <2> QED BY <1>7, <2>1, <2>2, <2>4, <2>5 DEF Replies
<1>9. x.at = "replied"
  OBVIOUS
<1> HIDE DEF x
<1>10. sess' = [sess EXCEPT ![c] = x]
  BY <1>4 DEF x
<1>11. SessInv' /\ sess'[c] = x /\ \A d \in Sessions \ {c} : sess'[d] = sess[d]
  BY <1>5, <1>8, <1>10, OneMoves DEF SmtpInv, SessInv, States
<1>12. \A b \in Boxes : InFlight(sess', b) \subseteq InFlight(sess, b)
  BY <1>9, <1>11, FlightShrinks
<1> QED BY <1>5, <1>11, <1>12, QuotaKept DEF SmtpInv

\* A user who is deleted leaves what is in flight to the mailbox without an account.
LEMMA DeleteStep ==
  ASSUME SmtpConfigured, SmtpInv, NEW b \in Boxes, DeleteUser(b)
  PROVE  SmtpInv'
<1>1. users' \subseteq users /\ UNCHANGED <<usedBytes, sess, errors>>
  BY DEF DeleteUser
<1>2. SessInv'
  BY <1>1 DEF SmtpInv, SessInv
<1>3. \A a \in Boxes : InFlight(sess', a) \subseteq InFlight(sess, a)
  BY <1>1
<1> QED BY <1>1, <1>2, <1>3, QuotaKept DEF SmtpInv

----------------------------------------------------------------------------
(* The theorem. *)

LEMMA NextKeeps ==
  ASSUME SmtpConfigured, SmtpInv, [SmtpNext]_smtpVars
  PROVE  SmtpInv'
<1>1. CASE \E c \in Sessions : Talks(c)
  BY <1>1, TalkStep
<1>2. CASE \E c \in Sessions : Data(c)
  BY <1>2, DataStep
<1>3. CASE \E c \in Sessions : \E b \in Boxes : Check(c, b)
  BY <1>3, CheckStep
<1>4. CASE \E c \in Sessions : Store(c) \/ StoreFails(c) \/ CountFails(c)
  BY <1>4, StoreStep
<1>5. CASE \E c \in Sessions : Count(c)
  BY <1>5, CountStep
<1>6. CASE \E c \in Sessions : Finish(c)
  BY <1>6, FinishStep
<1>7. CASE \E b \in Boxes : DeleteUser(b)
  BY <1>7, DeleteStep
<1>8. CASE UNCHANGED smtpVars
  <2>1. UNCHANGED <<users, usedBytes, sess, errors>>
    BY <1>8 DEF smtpVars
  <2> QED BY <2>1 DEF SmtpInv, SessInv, QuotaInv, Limit
<1> QED
  BY <1>1, <1>2, <1>3, <1>4, <1>5, <1>6, <1>7, <1>8 DEF SmtpNext, Talks

LEMMA InvIsHonest ==
  ASSUME SmtpConfigured, SmtpInv
  PROVE  SmtpHonest
<1>1. SmtpTypeOK
  <2>1. ASSUME NEW c \in Sessions
        PROVE  /\ sess[c].at \in {"closed", "command", "deliver", "count", "replied"}
               /\ sess[c].at = "command" =>
                    /\ sess[c].deliver \subseteq Boxes \X BOOLEAN
                    /\ sess[c].relay \subseteq Foreign \X BOOLEAN
                    /\ sess[c].queue \subseteq Backups \X BOOLEAN
    <3>1. sess[c] \in States(errors)
      BY DEF SmtpInv, SessInv
    <3>2. sess[c].at \in {"closed", "command", "deliver", "count", "replied"}
      BY <3>1, ByPlace
    <3>3. ASSUME sess[c].at = "command"
          PROVE  /\ sess[c].deliver \in SUBSET (Boxes \X {TRUE})
                 /\ sess[c].relay \in SUBSET (Foreign \X {TRUE})
                 /\ sess[c].queue \in SUBSET (Backups \X BOOLEAN)
      <4>1. sess[c] \in Envelopes
        BY <3>1, <3>3, ByPlace
      <4> QED BY <4>1 DEF Envelopes
    <3>4. Boxes \X {TRUE} \subseteq Boxes \X BOOLEAN /\ Foreign \X {TRUE} \subseteq Foreign \X BOOLEAN
      OBVIOUS
    <3> QED BY <3>2, <3>3, <3>4
  <2> QED BY <2>1 DEF SmtpTypeOK, SmtpInv, SessInv
<1>2. ASSUME NEW c \in Replied PROVE sess[c] \in Replies(errors) /\ sess[c].env \in Envelopes
  <2>1. sess[c] \in Replies(errors)
    BY ByPlace DEF Replied, SmtpInv, SessInv
  <2> QED BY <2>1 DEF Replies
<1>3. RefusedNowhere
  BY <1>2 DEF RefusedNowhere, Replies
<1>4. EnvelopeFresh
  <2>1. ASSUME NEW c \in Replied, NEW a PROVE <<a, FALSE>> \notin sess[c].env.deliver \cup sess[c].env.relay
    <3>1. sess[c].env.deliver \in SUBSET (Boxes \X {TRUE}) /\ sess[c].env.relay \in SUBSET (Foreign \X {TRUE})
      BY <1>2 DEF Envelopes
    <3> QED BY <3>1
  <2> QED BY <2>1 DEF EnvelopeFresh
<1>5. NoOpenRelay
  <2>1. ASSUME NEW c \in Replied, sess[c].sent # {} PROVE sess[c].env.authed /\ sess[c].env.secure
    <3>1. sess[c].env.relay # {}
      BY <1>2, <2>1 DEF Replies
    <3> QED BY <1>2, <3>1 DEF Envelopes
  <2> QED BY <2>1 DEF NoOpenRelay
<1>6. OverrunBounded
  <2>1. ASSUME NEW b \in Boxes PROVE usedBytes[b] <= Quota + Cardinality(Sessions) - 1
    <3>1. Claimed(users, usedBytes, sess, b) <= Limit /\ usedBytes[b] \in Nat
      BY DEF SmtpInv, QuotaInv, SessInv
    <3>2. Cardinality(InFlight(sess, b)) \in Nat /\ Limit \in Int
      BY FlightFinite DEF Limit, SmtpConfigured
    <3> QED BY <3>1, <3>2 DEF Claimed, Limit
  <2> QED BY <2>1 DEF OverrunBounded
<1> QED BY <1>1, <1>3, <1>4, <1>5, <1>6 DEF SmtpHonest

\* The SMTP dialog is honest, for any number of sessions: a refused message is nowhere
\* (but for a row the store failed to count), nobody gets a copy because of an abandoned
\* envelope, what a remote server accepted came from a session authenticated under TLS,
\* and deliveries at once overrun a quota by at most one message for each session but
\* the first.
THEOREM SmtpStaysHonest ==
  ASSUME SmtpConfigured
  PROVE  SmtpSpec => []SmtpHonest
<1>1. SmtpInit => SmtpInv
  BY InitHolds
<1>2. SmtpInv /\ [SmtpNext]_smtpVars => SmtpInv'
  BY NextKeeps
<1>3. SmtpInv => SmtpHonest
  BY InvIsHonest
<1> QED BY <1>1, <1>2, <1>3, PTL DEF SmtpSpec

----------------------------------------------------------------------------
(* The replication of the mail store, for any messages, page size, clock and   *)
(* faults. A page is a beginning of what lies after the cursor, so that moving *)
(* the cursor to its last row passes only what the page holds; a row that is   *)
(* stamped and not yet committed carries the present, which no cursor has      *)
(* reached, as long as writes do not overlap; and a message that is gone has   *)
(* no row any page can bring back once its tombstone was passed.               *)

\* How the mail store is replicated in the theorems: the primary serves one write at a
\* time.
MailConfigured ==
  /\ Msgs \subseteq Nat /\ Imported \subseteq Msgs /\ IsFiniteSet(Imported)
  /\ NoFlags \in FlagSets /\ "absent" \notin FlagSets
  /\ MaxWriters \in {0, 1} /\ MayImport \in BOOLEAN
  /\ MaxClock \in Nat \ {0} /\ FEED_LIMIT \in Nat
  /\ ALERT_AFTER_FAILURES \in Nat \ {0} /\ STUCK_AFTER_CYCLES \in Nat

LEMMA EarlierOrder ==
  ASSUME NEW p \in Position, NEW q \in Position, NEW r \in Position
  PROVE  /\ ~Earlier(p, p)
         /\ Earlier(p, q) /\ Earlier(q, r) => Earlier(p, r)
         /\ Earlier(p, q) \/ Earlier(q, p) \/ (p[1] = q[1] /\ p[2] = q[2])
         /\ Earlier(p, q) => ~Earlier(q, p)
BY DEF Earlier, Position

LEMMA KeyPosition == ASSUME MailConfigured, NEW r \in Row PROVE Key(r) \in Position /\ Key(r)[1] = r.ts /\ Key(r)[2] = r.id
BY DEF MailConfigured, Row, Key, Position

\* A finite set of rows that is not empty has a last one.
LEMMA LastRow ==
  ASSUME MailConfigured, NEW S \in SUBSET Row, IsFiniteSet(S), S # {}
  PROVE  \E r \in S : \A q \in S : ~Earlier(Key(r), Key(q))
<1> DEFINE Preds(r) == {q \in S : Earlier(Key(q), Key(r))}
           left(r) == Cardinality(S) - Cardinality(Preds(r))
           T == {left(r) : r \in S}
           Less == OpToRel(<, Nat)
<1>1. Cardinality(S) \in Nat
  BY FS_CardinalityType
<1>2. \A r \in S : IsFiniteSet(Preds(r)) /\ Cardinality(Preds(r)) \in Nat /\ Cardinality(Preds(r)) <= Cardinality(S)
  <2> SUFFICES ASSUME NEW r \in S
               PROVE IsFiniteSet(Preds(r)) /\ Cardinality(Preds(r)) \in Nat /\ Cardinality(Preds(r)) <= Cardinality(S)
    OBVIOUS
  <2>1. Preds(r) \in SUBSET S
    OBVIOUS
  <2> HIDE DEF Preds
  <2> QED BY <2>1, FS_Subset, FS_CardinalityType
<1>3. T \subseteq Nat /\ T # {}
  <2> HIDE DEF Preds
  <2> QED BY <1>1, <1>2
<1>4. PICK x \in T : \A y \in T : ~(<<y, x>> \in Less)
  <2> HIDE DEF T
  <2> QED BY <1>3, NatLessThanWellFounded, WFMin
<1>5. \A y \in T : ~(y < x)
  <2>1. \A y \in Nat : y < x => <<y, x>> \in Less
    BY <1>3 DEF OpToRel
  <2> HIDE DEF T, Less
  <2> QED BY <1>3, <1>4, <2>1
<1>6. PICK r \in S : x = left(r)
  OBVIOUS
<1>7. ASSUME NEW q \in S, Earlier(Key(r), Key(q)) PROVE FALSE
  <2>1. Preds(r) \in SUBSET Preds(q)
    <3> SUFFICES ASSUME NEW s \in S, Earlier(Key(s), Key(r)) PROVE Earlier(Key(s), Key(q))
      OBVIOUS
    <3>1. Key(s) \in Position /\ Key(r) \in Position /\ Key(q) \in Position
      BY KeyPosition
    <3> QED BY <1>7, <3>1, EarlierOrder
  <2>2. r \in Preds(q) /\ r \notin Preds(r)
    BY <1>7, KeyPosition, EarlierOrder
  <2>3. Cardinality(Preds(r)) < Cardinality(Preds(q))
    <3> HIDE DEF Preds
    <3>1. Cardinality(Preds(r)) <= Cardinality(Preds(q)) /\ Cardinality(Preds(q)) # Cardinality(Preds(r))
      BY <1>2, <2>1, <2>2, FS_Subset
    <3> QED BY <1>2, <3>1
  <2>4. left(q) < left(r)
    <3> HIDE DEF Preds
    <3> QED BY <1>1, <1>2, <2>3
  <2> QED BY <1>5, <1>6, <2>4
<1> QED BY <1>7

\* What a page is: some of the rows after the cursor, with every row that comes before
\* one of them.
LEMMA PageClosed ==
  ASSUME MailConfigured, NEW S \in SUBSET Row, IsFiniteSet(S), NEW p \in Position
  PROVE  /\ Page(S, p) \subseteq S /\ IsFiniteSet(Page(S, p))
         /\ \A r \in Page(S, p) : After(r, p)
         /\ \A r \in Page(S, p), q \in S :
              After(q, p) /\ Earlier(Key(q), Key(r)) => q \in Page(S, p)
<1> DEFINE Preds(r) == {q \in S : After(q, p) /\ Earlier(Key(q), Key(r))}
<1>1. Page(S, p) \in SUBSET S
  BY DEF Page
<1>2. IsFiniteSet(Page(S, p))
  BY <1>1, FS_Subset
<1>3. \A r \in Page(S, p) : After(r, p)
  BY DEF Page
<1>4. ASSUME NEW r \in Page(S, p), NEW q \in S, After(q, p), Earlier(Key(q), Key(r))
      PROVE  q \in Page(S, p)
  <2>1. Preds(q) \in SUBSET Preds(r)
    <3> SUFFICES ASSUME NEW s \in S, Earlier(Key(s), Key(q)) PROVE Earlier(Key(s), Key(r))
      OBVIOUS
    <3>1. Key(s) \in Position /\ Key(r) \in Position /\ Key(q) \in Position
      BY <1>1, KeyPosition
    <3> QED BY <1>4, <3>1, EarlierOrder
  <2>2. Preds(r) \in SUBSET S
    OBVIOUS
  <2>3. Cardinality(Preds(r)) < FEED_LIMIT
    BY DEF Page
  <2>4. Cardinality(Preds(q)) < FEED_LIMIT
    <3> HIDE DEF Preds
    <3>1. IsFiniteSet(Preds(r)) /\ Cardinality(Preds(r)) \in Nat
      BY <2>2, FS_Subset, FS_CardinalityType
    <3>2. Cardinality(Preds(q)) \in Nat /\ Cardinality(Preds(q)) <= Cardinality(Preds(r))
      BY <2>1, <3>1, FS_Subset, FS_CardinalityType
    <3> QED BY <2>3, <3>1, <3>2 DEF MailConfigured
  <2> QED BY <1>4, <2>4 DEF Page
<1> QED BY <1>1, <1>2, <1>3, <1>4

\* Where a stream has got to after a page: nothing is passed but what was passed before
\* and what has the id of a row of the page.
LEMMA ReachedCovers ==
  ASSUME MailConfigured, NEW S \in SUBSET Row, IsFiniteSet(S), NEW p \in Position
  PROVE  /\ Reached(Page(S, p), p) \in Position
         /\ ~Earlier(Reached(Page(S, p), p), p)
         /\ Reached(Page(S, p), p)[1] = p[1] \/ \E r \in S : Reached(Page(S, p), p)[1] = r.ts
         /\ \A r \in S : ~After(r, Reached(Page(S, p), p)) =>
              ~After(r, p) \/ \E q \in Page(S, p) : q.id = r.id
<1> DEFINE page == Page(S, p)
           q == Reached(page, p)
<1>1. /\ page \subseteq S /\ IsFiniteSet(page)
      /\ \A r \in page : After(r, p)
      /\ \A r \in page, s \in S : After(s, p) /\ Earlier(Key(s), Key(r)) => s \in page
  BY PageClosed
<1> HIDE DEF page
<1>2. CASE page = {}
  <2>1. q = p
    BY <1>2 DEF Reached
  <2> QED BY <2>1, EarlierOrder DEF page
<1>3. CASE page # {}
  <2>1. PICK r0 \in page : \A s \in page : ~Earlier(Key(r0), Key(s))
    BY <1>1, <1>3, LastRow
  <2>2. q \in {Key(r) : r \in page} /\ \A r \in page : ~Earlier(q, Key(r))
    BY <1>3, <2>1 DEF Reached
  <2>3. PICK r1 \in page : q = Key(r1)
    BY <2>2
  <2> HIDE DEF q
  <2>4. r1 \in Row /\ q \in Position /\ q[1] = r1.ts /\ q[2] = r1.id
    BY <1>1, <2>3, KeyPosition
  <2>5. ~Earlier(q, p)
    <3>1. Earlier(p, q)
      BY <1>1, <2>3 DEF After
    <3> QED BY <2>4, <3>1, EarlierOrder
  <2>6. ASSUME NEW r \in S, ~After(r, q), After(r, p)
        PROVE  \E s \in page : s.id = r.id
    <3>1. Key(r) \in Position /\ Key(r)[1] = r.ts /\ Key(r)[2] = r.id
      BY KeyPosition
    <3>2. CASE Earlier(Key(r), q)
      BY <1>1, <2>3, <2>6, <3>2
    <3>3. CASE ~Earlier(Key(r), q)
      <4>1. ~Earlier(q, Key(r))
        BY <2>6 DEF After
      <4>2. Key(r)[2] = q[2]
        BY <2>4, <3>1, <3>3, <4>1, EarlierOrder
      <4> QED BY <2>4, <3>1, <4>2
    <3> QED BY <3>2, <3>3
  <2> QED BY <1>1, <2>4, <2>5, <2>6 DEF q, page
<1> QED BY <1>2, <1>3

----------------------------------------------------------------------------
(* The inductive invariant.                                                   *)

Write == [kind : Streams, id : Msgs, flags : FlagSets, ts : Nat]
Passes == [at : Streams \cup {"apply"}, todo : [Streams -> SUBSET Row],
           next : [Streams -> Position], fetched : BOOLEAN, applied : BOOLEAN]
Polling == pass # IdlePass

\* Types, one write at a time, tables that can be counted, and a page that has not been
\* read is empty.
MailTypes ==
  /\ MailTypeOK
  /\ clock # 0
  /\ \A k \in Streams : IsFiniteSet(log[k])
  /\ writing \subseteq Write /\ \A v, w \in writing : v = w
  /\ Polling => /\ pass.at = "msg" => pass.todo["msg"] = {}
                /\ pass.at \in {"msg", "del"} => pass.todo["del"] = {}

\* Nothing carries a stamp of the future.
InPast(t) == t <= clock
\* A write that is stamped with the present, and every write of a tombstone or a flag
\* change is, has nothing beside it and nothing after it.
Fresh(w) == w.ts # 0 /\ (w.kind # "msg" \/ ~MayImport)

Stamps ==
  /\ \A k \in Streams : \A r \in log[k] : r.ts # 0 /\ InPast(r.ts)
  /\ \A k \in Streams : InPast(cursor[k][1])
  /\ Polling => \A k \in Streams : InPast(pass.next[k][1])
  /\ \A w \in writing : InPast(w.ts)
  /\ \A w \in writing : Fresh(w) =>
       /\ w.ts = clock
       /\ \A k \in Streams : cursor[k][1] < clock
       /\ Polling => \A k \in Streams : pass.next[k][1] < clock
       /\ \A k \in Streams : \A r \in log[k] : r.ts < clock

\* Names are given out once: no message that is stored, or on its way, has a tombstone,
\* committed, on its way or in the page under way.
Names ==
  /\ \A k \in Streams : \A r \in log[k] : r.id \in used
  /\ \A w \in writing : w.id \in used
  /\ Polling => \A k \in Streams : \A r \in pass.todo[k] : r.id \in used

Apart(m) ==
  /\ \A d \in log["del"] : d.id # m
  /\ Polling => \A d \in pass.todo["del"] : d.id # m

Tombs ==
  /\ \A r \in log["msg"] : Apart(r.id)
  /\ \A r \in log["msg"], w \in writing : w.kind = "del" => w.id # r.id
  /\ \A w \in writing : w.kind = "msg" => Apart(w.id)

\* What the streams have passed by the pass under way is applied or in its pages.
PassCovers ==
  Polling => \A r \in log["msg"] : ~After(r, pass.next["msg"]) =>
               mail[r.id] # "absent" \/ \E q \in pass.todo["msg"] : q.id = r.id

Gone(m) == mail[m] = "absent" /\ (Polling => \A q \in pass.todo["msg"] : q.id # m)

DelCovers == \A d \in log["del"] : ~After(d, cursor["del"]) => Gone(d.id)

DelPass ==
  Polling => \A d \in log["del"] : ~After(d, pass.next["del"]) =>
               Gone(d.id) \/ \E e \in pass.todo["del"] : e.id = d.id

\* A pass only moves on.
PassAhead == Polling => \A k \in Streams : ~Earlier(pass.next[k], cursor[k])

Covers == ~MayImport => CursorCovers /\ PassCovers

MailInv ==
  /\ MailTypes /\ Stamps /\ Names /\ Tombs
  /\ Covers /\ DelCovers /\ DelPass /\ PassAhead

LEMMA PassIn == ASSUME MailTypes, Polling PROVE pass \in Passes
BY DEF MailTypes, MailTypeOK, PassState, Polling, Passes

LEMMA PassTypes ==
  ASSUME NEW p \in Passes
  PROVE  /\ p # IdlePass
         /\ p.at \in Streams \cup {"apply"}
         /\ p.todo \in [Streams -> SUBSET Row] /\ p.next \in [Streams -> Position]
         /\ \A k \in Streams : p.todo[k] \subseteq Row /\ p.next[k] \in Position
BY DEF Passes, IdlePass

LEMMA StreamsAre == Streams = {"msg", "del", "flag"} /\ "msg" \in Streams /\ "del" \in Streams /\ "flag" \in Streams
BY DEF Streams

LEMMA MailInitInv == ASSUME MailConfigured, MailInit PROVE MailInv
<1> USE StreamsAre
<1> DEFINE first == [id : Imported, ts : {1}, flags : {NoFlags}]
<1>1. IsFiniteSet(first)
  <2> DEFINE f == [m \in Imported |-> [id |-> m, ts |-> 1, flags |-> NoFlags]]
  <2>1. f \in Surjection(Imported, first)
    BY DEF Surjection
  <2> HIDE DEF f, first
  <2> QED BY <2>1, FS_Surjection DEF MailConfigured
<1>2. log["msg"] = first /\ log["del"] = {} /\ log["flag"] = {} /\ log \in [Streams -> SUBSET Row]
  <2>1. first \subseteq Row
    <3>1. Imported \subseteq Msgs /\ 1 \in Nat /\ NoFlags \in FlagSets
      BY DEF MailConfigured
    <3> QED BY <3>1 DEF Row
  <2>2. log = [k \in Streams |-> IF k = "msg" THEN first ELSE {}]
    BY DEF MailInit
  <2> HIDE DEF first
  <2> QED BY <2>1, <2>2
<1>3. \A r \in first : r.id \in Imported /\ r.ts = 1
  OBVIOUS
<1> HIDE DEF first
<1>4. pass = IdlePass /\ ~Polling /\ writing = {} /\ clock = 1 /\ used = Imported
  BY DEF MailInit, Polling
<1>5. cursor \in [Streams -> Position] /\ \A k \in Streams : cursor[k] = <<0, 0>>
  BY DEF MailInit, Start, Position
<1>6. MailTypes
  <2>1. MailTypeOK
    BY <1>2, <1>4, <1>5 DEF MailInit, MailTypeOK, MailConfigured, PassState
  <2>2. \A k \in Streams : IsFiniteSet(log[k])
    BY <1>1, <1>2, FS_EmptySet
  <2> QED BY <1>4, <2>1, <2>2 DEF MailTypes
<1>7. Stamps
  BY <1>2, <1>3, <1>4, <1>5 DEF Stamps, InPast
<1>8. Names /\ Tombs /\ DelCovers /\ DelPass /\ PassAhead /\ PassCovers
  BY <1>2, <1>3, <1>4 DEF Names, Tombs, Apart, DelCovers, DelPass, PassAhead, PassCovers
<1>9. CursorCovers
  <2> SUFFICES ASSUME NEW r \in log["msg"] PROVE After(r, cursor["msg"])
    BY DEF CursorCovers
  <2>1. Key(r)[1] = 1
    BY <1>2, <1>3 DEF Key
  <2> QED BY <1>5, <2>1 DEF After, Earlier
<1> QED BY <1>6, <1>7, <1>8, <1>9 DEF MailInv, Covers

----------------------------------------------------------------------------
(* The primary's steps.                                                       *)

LEMMA BeginAlone ==
  ASSUME MailConfigured, MailTypes, NEW kind, NEW m, NEW flags, NEW ts, Begin(kind, m, flags, ts)
  PROVE  /\ writing = {}
         /\ writing' = {[kind |-> kind, id |-> m, flags |-> flags, ts |-> ts]}
<1>1. writing = {}
  <2> SUFFICES ASSUME writing # {} PROVE FALSE
    OBVIOUS
  <2>1. PICK w \in writing : TRUE
    OBVIOUS
  <2>2. writing = {w}
    BY <2>1 DEF MailTypes
  <2>3. Cardinality(writing) = 1
    BY <2>2, FS_Singleton
  <2>4. Cardinality(writing) < MaxWriters
    BY DEF Begin
  <2> QED BY <2>3, <2>4 DEF MailConfigured
<1> QED BY <1>1 DEF Begin

\* What a step of the primary leaves alone.
LEMMA SecondaryStays ==
  ASSUME UNCHANGED secondaryVars
  PROVE  /\ mail' = mail /\ cursor' = cursor /\ pass' = pass /\ pulling' = pulling
         /\ fails' = fails /\ stuck' = stuck /\ Polling' = Polling
BY DEF secondaryVars, Polling

LEMMA BeginMessageInv ==
  ASSUME MailConfigured, MailInv, NEW m \in Msgs, NEW ts \in 0 .. clock, m \notin used,
         ts = 0 \/ MayImport,
         used' = used \cup {m}, Begin("msg", m, NoFlags, ts),
         UNCHANGED <<clock, log, secondaryVars, link, spent>>
  PROVE  MailInv'
<1> DEFINE w0 == [kind |-> "msg", id |-> m, flags |-> NoFlags, ts |-> ts]
<1> USE StreamsAre
<1>1. writing = {} /\ writing' = {w0}
  BY BeginAlone DEF MailInv
<1>2. w0 \in Write /\ w0.ts = ts /\ w0.id = m /\ w0.kind = "msg" /\ ts \in Nat
  BY DEF Write, MailConfigured, MailInv, MailTypes, MailTypeOK
<1> HIDE DEF w0
<1>3. /\ mail' = mail /\ cursor' = cursor /\ pass' = pass /\ pulling' = pulling
      /\ fails' = fails /\ stuck' = stuck /\ Polling' = Polling /\ log' = log /\ clock' = clock /\ link' = link
  BY SecondaryStays
<1>4. MailTypes'
  <2>1. MailTypeOK'
    <3>1. \A w \in writing' : w.kind \in Streams /\ w.id \in Msgs /\ w.ts \in 0..MaxClock
      BY <1>1, <1>2 DEF MailInv, MailTypes, MailTypeOK, MailConfigured
    <3>2. used' \subseteq Msgs
      BY DEF MailInv, MailTypes, MailTypeOK
    <3> QED BY <1>3, <3>1, <3>2 DEF MailInv, MailTypes, MailTypeOK
  <2>2. writing' \subseteq Write /\ \A v, w \in writing' : v = w
    BY <1>1, <1>2
  <2> QED BY <1>3, <2>1, <2>2 DEF MailInv, MailTypes
<1>5. Stamps'
  <2>1. \A w \in writing' : ~Fresh(w) /\ InPast(w.ts)
    BY <1>1, <1>2 DEF Fresh, InPast
  <2> QED BY <1>3, <2>1 DEF MailInv, Stamps, InPast, Fresh
<1>6. Names'
  BY <1>1, <1>2, <1>3 DEF MailInv, Names
<1>7. Tombs'
  <2>1. Apart(m)
    BY DEF MailInv, Names, Apart
  <2>2. Apart(m)'
    BY <1>3, <2>1 DEF Apart
  <2>3. \A r \in log["msg"] : Apart(r.id)'
    BY <1>3 DEF MailInv, Tombs, Apart
  <2> QED BY <1>1, <1>2, <1>3, <2>2, <2>3 DEF Tombs
<1>8. Covers' /\ DelCovers' /\ DelPass' /\ PassAhead'
  BY <1>3 DEF MailInv, Covers, CursorCovers, PassCovers, DelCovers, Gone, DelPass, PassAhead
<1> QED BY <1>4, <1>5, <1>6, <1>7, <1>8 DEF MailInv

LEMMA BeginStoreInv ==
  ASSUME MailConfigured, MailInv, NEW m \in Msgs, BeginStore(m) PROVE MailInv'
<1>1. 0 \in 0 .. clock
  BY DEF MailInv, MailTypes, MailTypeOK
<1> QED BY <1>1, BeginMessageInv DEF BeginStore

LEMMA BeginImportInv ==
  ASSUME MailConfigured, MailInv, NEW m \in Msgs, NEW ts \in 1 .. clock, BeginImport(m, ts)
  PROVE  MailInv'
<1>1. ts \in 0 .. clock
  BY DEF MailInv, MailTypes, MailTypeOK
<1> QED BY <1>1, BeginMessageInv DEF BeginImport

LEMMA BeginDeleteInv ==
  ASSUME MailConfigured, MailInv, NEW m \in Msgs, BeginDelete(m) PROVE MailInv'
<1> DEFINE w0 == [kind |-> "del", id |-> m, flags |-> NoFlags, ts |-> 0]
<1> USE StreamsAre
<1>1. writing = {} /\ writing' = {w0}
  BY BeginAlone DEF MailInv, BeginDelete
<1>2. w0 \in Write /\ w0.ts = 0 /\ w0.id = m /\ w0.kind = "del"
  BY DEF Write, MailConfigured
<1> HIDE DEF w0
<1>3. /\ mail' = mail /\ cursor' = cursor /\ pass' = pass /\ pulling' = pulling
      /\ fails' = fails /\ stuck' = stuck /\ Polling' = Polling /\ clock' = clock /\ used' = used /\ link' = link
  BY SecondaryStays DEF BeginDelete
<1>4. /\ log \in [Streams -> SUBSET Row] /\ log' \in [Streams -> SUBSET Row]
      /\ log'["msg"] = {r \in log["msg"] : r.id # m}
      /\ log'["del"] = log["del"] /\ log'["flag"] = log["flag"]
      /\ \A k \in Streams : log'[k] \subseteq log[k]
  BY DEF BeginDelete, MailInv, MailTypes, MailTypeOK
<1>5. m \in used
  BY DEF BeginDelete, Stored, MailInv, Names
<1>6. MailTypes'
  <2>1. MailTypeOK'
    <3>1. \A w \in writing' : w.kind \in Streams /\ w.id \in Msgs /\ w.ts \in 0..MaxClock
      BY <1>1, <1>2 DEF MailConfigured
    <3> QED BY <1>3, <1>4, <3>1 DEF MailInv, MailTypes, MailTypeOK
  <2>2. writing' \subseteq Write /\ \A v, w \in writing' : v = w
    BY <1>1, <1>2
  <2>3. ASSUME NEW k \in Streams PROVE IsFiniteSet(log'[k])
    <3>1. IsFiniteSet(log[k]) /\ log'[k] \in SUBSET log[k]
      BY <1>4 DEF MailInv, MailTypes
    <3> QED BY <3>1, FS_Subset
  <2> QED BY <1>3, <2>1, <2>2, <2>3 DEF MailInv, MailTypes
<1>7. Stamps'
  <2>1. \A w \in writing' : ~Fresh(w) /\ InPast(w.ts)
    BY <1>1, <1>2 DEF Fresh, InPast, MailInv, MailTypes, MailTypeOK
  <2> QED BY <1>3, <1>4, <2>1 DEF MailInv, Stamps, InPast, Fresh
<1>8. Names'
  BY <1>1, <1>2, <1>3, <1>4, <1>5 DEF MailInv, Names
<1>9. Tombs'
  <2>1. \A r \in log["msg"] : Apart(r.id)'
    BY <1>3, <1>4 DEF MailInv, Tombs, Apart
  <2> QED BY <1>1, <1>2, <1>4, <2>1 DEF Tombs
<1>10. Covers' /\ DelCovers' /\ DelPass' /\ PassAhead'
  BY <1>3, <1>4 DEF MailInv, Covers, CursorCovers, PassCovers, DelCovers, Gone, DelPass, PassAhead
<1> QED BY <1>6, <1>7, <1>8, <1>9, <1>10 DEF MailInv

LEMMA BeginFlagsInv ==
  ASSUME MailConfigured, MailInv, NEW m \in Msgs, NEW flags \in FlagSets, BeginFlags(m, flags)
  PROVE  MailInv'
<1> DEFINE w0 == [kind |-> "flag", id |-> m, flags |-> flags, ts |-> 0]
           New(r) == IF r.id = m THEN [r EXCEPT !.flags = flags] ELSE r
<1> USE StreamsAre
<1>1. writing = {} /\ writing' = {w0}
  BY BeginAlone DEF MailInv, BeginFlags
<1>2. w0 \in Write /\ w0.ts = 0 /\ w0.id = m /\ w0.kind = "flag"
  BY DEF Write
<1> HIDE DEF w0
<1>3. /\ mail' = mail /\ cursor' = cursor /\ pass' = pass /\ pulling' = pulling
      /\ fails' = fails /\ stuck' = stuck /\ Polling' = Polling /\ clock' = clock /\ used' = used /\ link' = link
  BY SecondaryStays DEF BeginFlags
<1>4. /\ log \in [Streams -> SUBSET Row]
      /\ log' = [log EXCEPT !["msg"] = {New(r) : r \in log["msg"]}]
  BY DEF BeginFlags, MailInv, MailTypes, MailTypeOK
<1>5. \A r \in Row : New(r) \in Row /\ New(r).id = r.id /\ New(r).ts = r.ts
  BY DEF Row
<1> HIDE DEF New
<1>6. /\ log' \in [Streams -> SUBSET Row]
      /\ log'["msg"] = {New(r) : r \in log["msg"]}
      /\ log'["del"] = log["del"] /\ log'["flag"] = log["flag"]
  BY <1>4, <1>5
<1>7. \A q \in log'["msg"] : \E r \in log["msg"] : q.id = r.id /\ q.ts = r.ts
  BY <1>4, <1>5, <1>6
<1>8. m \in used
  BY DEF BeginFlags, Stored, MailInv, Names
<1>9. MailTypes'
  <2>1. MailTypeOK'
    <3>1. \A w \in writing' : w.kind \in Streams /\ w.id \in Msgs /\ w.ts \in 0..MaxClock
      BY <1>1, <1>2 DEF MailConfigured
    <3> QED BY <1>3, <1>6, <3>1 DEF MailInv, MailTypes, MailTypeOK
  <2>2. writing' \subseteq Write /\ \A v, w \in writing' : v = w
    BY <1>1, <1>2
  <2>3. IsFiniteSet(log'["msg"])
    <3> DEFINE f == [r \in log["msg"] |-> New(r)]
    <3>1. f \in Surjection(log["msg"], log'["msg"])
      BY <1>6 DEF Surjection
    <3>2. IsFiniteSet(log["msg"])
      BY DEF MailInv, MailTypes
    <3> HIDE DEF f
    <3> QED BY <3>1, <3>2, FS_Surjection
  <2> QED BY <1>3, <1>6, <2>1, <2>2, <2>3 DEF MailInv, MailTypes
<1>10. Stamps'
  <2>1. \A w \in writing' : ~Fresh(w) /\ InPast(w.ts)
    BY <1>1, <1>2 DEF Fresh, InPast, MailInv, MailTypes, MailTypeOK
  <2> QED BY <1>3, <1>6, <1>7, <2>1 DEF MailInv, Stamps, InPast, Fresh
<1>11. Names'
  BY <1>1, <1>2, <1>3, <1>6, <1>7, <1>8 DEF MailInv, Names
<1>12. Tombs'
  <2>1. \A r \in log["msg"] : Apart(r.id)'
    BY <1>3, <1>6 DEF MailInv, Tombs, Apart
  <2> QED BY <1>1, <1>2, <1>6, <1>7, <2>1 DEF Tombs
<1>13. CursorCovers => CursorCovers'
  BY <1>3, <1>7 DEF CursorCovers, After, Key
<1>14. PassCovers => PassCovers'
  BY <1>3, <1>7 DEF PassCovers, After, Key
<1>15. DelCovers' /\ DelPass' /\ PassAhead'
  BY <1>3, <1>6 DEF MailInv, DelCovers, Gone, DelPass, PassAhead
<1> QED BY <1>9, <1>10, <1>11, <1>12, <1>13, <1>14, <1>15 DEF MailInv, Covers

LEMMA StampWriteInv ==
  ASSUME MailConfigured, MailInv, NEW w \in writing, StampWrite(w) PROVE MailInv'
<1> DEFINE w0 == [w EXCEPT !.ts = clock']
<1> USE StreamsAre
<1>1. writing = {w} /\ w \in Write /\ w.ts = 0
  BY DEF MailInv, MailTypes, StampWrite
<1>2. clock \in Nat \ {0} /\ clock' = clock + 1 /\ clock' <= MaxClock
  BY <1>1 DEF StampWrite, MailInv, MailTypes, MailTypeOK
<1>3. writing' = {w0}
  BY <1>1 DEF StampWrite
<1>4. w0 \in Write /\ w0.ts = clock' /\ w0.id = w.id /\ w0.kind = w.kind
  BY <1>1, <1>2 DEF Write
<1> HIDE DEF w0
<1>5. /\ mail' = mail /\ cursor' = cursor /\ pass' = pass /\ pulling' = pulling
      /\ fails' = fails /\ stuck' = stuck /\ Polling' = Polling /\ used' = used /\ log' = log /\ link' = link
  BY SecondaryStays DEF StampWrite
<1>6. MailTypes'
  <2>1. MailTypeOK'
    <3>1. \A v \in writing' : v.kind \in Streams /\ v.id \in Msgs /\ v.ts \in 0..MaxClock
      BY <1>1, <1>2, <1>3, <1>4 DEF Write, MailConfigured
    <3>2. clock' \in 0 .. MaxClock
      BY <1>2 DEF MailConfigured
    <3> QED BY <1>5, <3>1, <3>2 DEF MailInv, MailTypes, MailTypeOK
  <2>2. writing' \subseteq Write /\ \A u, v \in writing' : u = v
    BY <1>3, <1>4
  <2> QED BY <1>2, <1>5, <2>1, <2>2 DEF MailInv, MailTypes
<1>7. Stamps'
  <2>1. \A t \in Nat : InPast(t) => t < clock' /\ t <= clock'
    BY <1>2 DEF InPast
  <2>2. ASSUME NEW k \in Streams
        PROVE  /\ \A r \in log[k] : r.ts \in Nat
               /\ cursor[k][1] \in Nat
               /\ Polling => pass.next[k][1] \in Nat
    <3>1. log[k] \subseteq Row /\ cursor[k] \in Position
      BY DEF MailInv, MailTypes, MailTypeOK
    <3>2. Polling => pass.next[k] \in Position
      BY PassIn, PassTypes DEF MailInv
    <3> QED BY <3>1, <3>2 DEF Row, Position
  <2>3. /\ \A k \in Streams : \A r \in log[k] : r.ts # 0 /\ r.ts <= clock' /\ r.ts < clock'
        /\ \A k \in Streams : cursor[k][1] <= clock' /\ cursor[k][1] < clock'
        /\ Polling => \A k \in Streams : pass.next[k][1] <= clock' /\ pass.next[k][1] < clock'
    BY <2>1, <2>2 DEF MailInv, Stamps
  <2>4. w0.ts <= clock'
    BY <1>2, <1>4
  <2> QED BY <1>3, <1>4, <1>5, <2>3, <2>4 DEF Stamps, InPast, Fresh
<1>8. Names'
  BY <1>1, <1>3, <1>4, <1>5 DEF MailInv, Names
<1>9. Tombs'
  <2>1. \A i \in Msgs : Apart(i) => Apart(i)'
    BY <1>5 DEF Apart
  <2>2. \A r \in log["msg"] : r.id \in Msgs
    BY DEF MailInv, MailTypes, MailTypeOK, Row
  <2>3. w.id \in Msgs
    BY <1>1 DEF Write
  <2> QED BY <1>1, <1>3, <1>4, <1>5, <2>1, <2>2, <2>3 DEF MailInv, Tombs
<1>10. Covers' /\ DelCovers' /\ DelPass' /\ PassAhead'
  BY <1>5 DEF MailInv, Covers, CursorCovers, PassCovers, DelCovers, Gone, DelPass, PassAhead
<1> QED BY <1>6, <1>7, <1>8, <1>9, <1>10 DEF MailInv

\* A row that carries the present lies after every position reached before.
LEMMA NewRowAfter ==
  ASSUME NEW r \in Row, NEW p \in Position, p[1] < r.ts PROVE After(r, p)
BY DEF After, Earlier, Key, Row, Position

LEMMA CommitWriteInv ==
  ASSUME MailConfigured, MailInv, NEW w \in writing, CommitWrite(w) PROVE MailInv'
<1> DEFINE r0 == [id |-> w.id, ts |-> w.ts, flags |-> w.flags]
<1> USE StreamsAre
<1>1. writing = {w} /\ w \in Write /\ w.ts # 0 /\ writing' = {}
  BY DEF MailInv, MailTypes, CommitWrite
<1>2. r0 \in Row /\ r0.id = w.id /\ r0.ts = w.ts /\ w.kind \in Streams
  BY <1>1 DEF Row, Write
<1>3. log' = [log EXCEPT ![w.kind] = log[w.kind] \cup {r0}] /\ log \in [Streams -> SUBSET Row]
  BY DEF CommitWrite, MailInv, MailTypes, MailTypeOK
<1> HIDE DEF r0
<1>4. /\ log' \in [Streams -> SUBSET Row]
      /\ \A k \in Streams : log'[k] = IF k = w.kind THEN log[k] \cup {r0} ELSE log[k]
  BY <1>2, <1>3
<1>5. /\ mail' = mail /\ cursor' = cursor /\ pass' = pass /\ pulling' = pulling
      /\ fails' = fails /\ stuck' = stuck /\ Polling' = Polling /\ used' = used /\ clock' = clock /\ link' = link
  BY SecondaryStays DEF CommitWrite
<1>6. MailTypes'
  <2>1. MailTypeOK'
    BY <1>1, <1>4, <1>5 DEF MailInv, MailTypes, MailTypeOK
  <2>2. ASSUME NEW k \in Streams PROVE IsFiniteSet(log'[k])
    <3>1. IsFiniteSet(log[k])
      BY DEF MailInv, MailTypes
    <3>2. IsFiniteSet(log[k] \cup {r0})
      BY <3>1, FS_AddElement
    <3> QED BY <1>4, <3>1, <3>2
  <2> QED BY <1>1, <1>5, <2>1, <2>2 DEF MailInv, MailTypes
<1>7. Stamps'
  <2>1. r0.ts # 0 /\ InPast(r0.ts)
    BY <1>1, <1>2 DEF MailInv, Stamps
  <2>2. \A k \in Streams : \A r \in log'[k] : r.ts # 0 /\ InPast(r.ts)
    BY <1>4, <2>1 DEF MailInv, Stamps
  <2> QED BY <1>1, <1>5, <2>2 DEF MailInv, Stamps, InPast
<1>8. Names'
  BY <1>1, <1>2, <1>4, <1>5 DEF MailInv, Names
<1>9. Tombs'
  <2>1. \A r \in log'["msg"] : \A d \in log'["del"] : d.id # r.id
    BY <1>1, <1>2, <1>4 DEF MailInv, Tombs, Apart
  <2>2. \A r \in log'["msg"] : Polling => \A d \in pass.todo["del"] : d.id # r.id
    BY <1>1, <1>2, <1>4 DEF MailInv, Tombs, Apart
  <2> QED BY <1>1, <1>5, <2>1, <2>2 DEF Tombs, Apart
<1>10. ASSUME w.kind # "msg" \/ ~MayImport
       PROVE  /\ \A k \in Streams : After(r0, cursor[k])
              /\ Polling => \A k \in Streams : After(r0, pass.next[k])
  <2>1. Fresh(w)
    BY <1>1, <1>10 DEF Fresh
  <2>2. /\ \A k \in Streams : cursor[k][1] < r0.ts
        /\ Polling => \A k \in Streams : pass.next[k][1] < r0.ts
    BY <1>1, <1>2, <2>1 DEF MailInv, Stamps
  <2>3. \A k \in Streams : cursor[k] \in Position
    BY DEF MailInv, MailTypes, MailTypeOK
  <2>4. Polling => \A k \in Streams : pass.next[k] \in Position
    BY PassIn, PassTypes DEF MailInv
  <2> QED BY <1>2, <2>2, <2>3, <2>4, NewRowAfter
<1>11. Covers'
  <2> SUFFICES ASSUME ~MayImport PROVE CursorCovers' /\ PassCovers'
    BY DEF Covers
  <2> QED BY <1>4, <1>5, <1>10 DEF MailInv, Covers, CursorCovers, PassCovers
<1>12. DelCovers'
  BY <1>4, <1>5, <1>10 DEF MailInv, DelCovers, Gone
<1>13. DelPass'
  BY <1>4, <1>5, <1>10 DEF MailInv, DelPass, Gone
<1>14. PassAhead'
  BY <1>5 DEF MailInv, PassAhead
<1> QED BY <1>6, <1>7, <1>8, <1>9, <1>11, <1>12, <1>13, <1>14 DEF MailInv

LEMMA CrashPrimaryInv == ASSUME MailInv, CrashPrimary PROVE MailInv'
<1>1. /\ mail' = mail /\ cursor' = cursor /\ pass' = pass /\ pulling' = pulling
      /\ fails' = fails /\ stuck' = stuck /\ Polling' = Polling
      /\ used' = used /\ clock' = clock /\ log' = log /\ writing' = {} /\ link' = link
  BY SecondaryStays DEF CrashPrimary
<1>2. MailTypes' /\ Stamps' /\ Names'
  BY <1>1 DEF MailInv, MailTypes, MailTypeOK, Stamps, InPast, Names
<1>3. Tombs'
  BY <1>1 DEF MailInv, Tombs, Apart
<1>4. Covers' /\ DelCovers' /\ DelPass' /\ PassAhead'
  BY <1>1 DEF MailInv, Covers, CursorCovers, PassCovers, DelCovers, Gone, DelPass, PassAhead
<1> QED BY <1>2, <1>3, <1>4 DEF MailInv

----------------------------------------------------------------------------
(* The secondary's steps.                                                     *)

LEMMA PrimaryStays ==
  ASSUME UNCHANGED primaryVars
  PROVE  clock' = clock /\ log' = log /\ used' = used /\ writing' = writing
BY DEF primaryVars

FailRuns == [consecutive : 0..ALERT_AFTER_FAILURES, alerted : BOOLEAN]
StuckRuns == [cycles : 0..STUCK_AFTER_CYCLES, alerted : BOOLEAN]

LEMMA Notes ==
  ASSUME MailConfigured, MailTypeOK
  PROVE  /\ NoteSuccess => fails' \in FailRuns
         /\ NoteFailure => fails' \in FailRuns /\ fails'.consecutive > 0
         /\ \A stalled \in BOOLEAN : NoteProgress(stalled) => stuck' \in StuckRuns
<1>1. ALERT_AFTER_FAILURES \in Nat \ {0} /\ STUCK_AFTER_CYCLES \in Nat
  BY DEF MailConfigured
<1>2. fails \in FailRuns /\ stuck \in StuckRuns
  BY DEF MailTypeOK, FailRuns, StuckRuns
<1>3. NoteSuccess => fails' \in FailRuns
  BY <1>1 DEF NoteSuccess, FailRuns
<1>4. NoteFailure => fails' \in FailRuns /\ fails'.consecutive > 0
  <2> SUFFICES ASSUME NoteFailure PROVE fails' \in FailRuns /\ fails'.consecutive > 0
    OBVIOUS
  <2>1. PICK n : n = Least(fails.consecutive + 1, ALERT_AFTER_FAILURES)
    OBVIOUS
  <2>2. n \in 0 .. ALERT_AFTER_FAILURES /\ n > 0
    BY <1>1, <1>2, <2>1 DEF Least, FailRuns
  <2>3. fails' = [consecutive |-> n, alerted |-> fails.alerted \/ n >= ALERT_AFTER_FAILURES]
    BY <2>1 DEF NoteFailure
  <2>4. (fails.alerted \/ n >= ALERT_AFTER_FAILURES) \in BOOLEAN
    OBVIOUS
  <2> QED BY <2>2, <2>3, <2>4 DEF FailRuns
<1>5. ASSUME NEW stalled \in BOOLEAN, NoteProgress(stalled) PROVE stuck' \in StuckRuns
  <2>1. PICK n : n = Least(stuck.cycles + 1, STUCK_AFTER_CYCLES)
    OBVIOUS
  <2>2. n \in 0 .. STUCK_AFTER_CYCLES
    BY <1>1, <1>2, <2>1 DEF Least, StuckRuns
  <2>3. stuck' = IF stalled THEN [cycles |-> n, alerted |-> stuck.alerted \/ n >= STUCK_AFTER_CYCLES]
                 ELSE [cycles |-> 0, alerted |-> FALSE]
    BY <1>5, <2>1 DEF NoteProgress
  <2>4. (stuck.alerted \/ n >= STUCK_AFTER_CYCLES) \in BOOLEAN
    OBVIOUS
  <2>5. 0 \in 0 .. STUCK_AFTER_CYCLES
    BY <1>1
  <2> QED BY <2>2, <2>3, <2>4, <2>5 DEF StuckRuns
<1> QED BY <1>3, <1>4, <1>5

\* A pass that ends, however it does, leaves the cursor where it was or sends it back to
\* the start, unless it is recorded.
LEMMA GivenUp ==
  ASSUME MailConfigured, MailInv, UNCHANGED primaryVars, mail' = mail, pass' = IdlePass,
         cursor' = cursor \/ cursor' = [k \in Streams |-> Start],
         pulling' \in BOOLEAN, fails' \in FailRuns, stuck' \in StuckRuns, link' = link
  PROVE  MailInv'
<1> USE StreamsAre
<1>1. clock' = clock /\ log' = log /\ used' = used /\ writing' = writing /\ ~Polling'
  BY PrimaryStays DEF Polling
<1>2. cursor' \in [Streams -> Position]
  BY DEF MailInv, MailTypes, MailTypeOK, Start, Position
<1>3. MailTypes'
  <2>1. MailTypeOK'
    BY <1>1, <1>2 DEF MailInv, MailTypes, MailTypeOK, PassState, FailRuns, StuckRuns
  <2> QED BY <1>1, <2>1 DEF MailInv, MailTypes
<1>4. \A k \in Streams : cursor'[k] = cursor[k] \/ cursor'[k] = <<0, 0>>
  BY DEF Start
<1>5. \A k \in Streams : cursor'[k][1] = cursor[k][1] \/ cursor'[k][1] = 0
  BY <1>4
<1>6. clock \in Nat \ {0}
  BY DEF MailInv, MailTypes, MailTypeOK
<1>7. Stamps'
  BY <1>1, <1>5, <1>6 DEF MailInv, Stamps, InPast, Fresh
<1>8. Names' /\ Tombs'
  BY <1>1 DEF MailInv, Names, Tombs, Apart
<1>9. ASSUME NEW k \in Streams, NEW r \in log[k], ~After(r, cursor'[k]) PROVE ~After(r, cursor[k])
  <2> SUFFICES ASSUME cursor'[k] = <<0, 0>> PROVE After(r, cursor'[k])
    BY <1>4, <1>9
  <2>1. r \in Row /\ r.ts # 0
    BY DEF MailInv, MailTypes, MailTypeOK, Stamps
  <2>2. <<0, 0>> \in Position /\ <<0, 0>>[1] < r.ts
    BY <2>1 DEF Position, Row
  <2> QED BY <2>1, <2>2, NewRowAfter
<1>10. Covers'
  BY <1>1, <1>9 DEF MailInv, Covers, CursorCovers, PassCovers
<1>11. DelCovers' /\ DelPass' /\ PassAhead'
  BY <1>1, <1>9 DEF MailInv, DelCovers, Gone, DelPass, PassAhead
<1> QED BY <1>3, <1>7, <1>8, <1>10, <1>11 DEF MailInv

LEMMA FailPassInv == ASSUME MailConfigured, MailInv, FailPass PROVE MailInv'
<1>1. fails' \in FailRuns
  BY Notes DEF FailPass, MailInv, MailTypes
<1> QED BY <1>1, GivenUp DEF FailPass, MailInv, MailTypes, MailTypeOK, FailRuns, StuckRuns

LEMMA AbortPassInv == ASSUME MailConfigured, MailInv, AbortPass PROVE MailInv'
<1>1. fails' \in FailRuns
  BY Notes DEF AbortPass, MailInv, MailTypes
<1> QED BY <1>1, GivenUp DEF AbortPass, MailInv, MailTypes, MailTypeOK, FailRuns, StuckRuns

LEMMA CrashSecondaryInv == ASSUME MailConfigured, MailInv, CrashSecondary PROVE MailInv'
<1>1. fails' \in FailRuns /\ stuck' \in StuckRuns
  BY DEF CrashSecondary, FailRuns, StuckRuns, MailConfigured
<1> QED BY <1>1, GivenUp DEF CrashSecondary, MailInv, MailTypes, MailTypeOK

\* A change of the role or of the link touches nothing the invariant is about.
LEMMA AsideInv ==
  ASSUME MailInv, UNCHANGED primaryVars, UNCHANGED <<mail, cursor, pass, fails, stuck>>,
         pulling' \in BOOLEAN, link' \in {"up", "down", "hung"}
  PROVE  MailInv'
<1>1. clock' = clock /\ log' = log /\ used' = used /\ writing' = writing /\ Polling' = Polling
  BY PrimaryStays DEF Polling
<1>2. MailTypes' /\ Stamps' /\ Names'
  BY <1>1 DEF MailInv, MailTypes, MailTypeOK, Stamps, InPast, Fresh, Names
<1>3. Tombs'
  BY <1>1 DEF MailInv, Tombs, Apart
<1>4. Covers' /\ DelCovers' /\ DelPass' /\ PassAhead'
  BY <1>1 DEF MailInv, Covers, CursorCovers, PassCovers, DelCovers, Gone, DelPass, PassAhead
<1> QED BY <1>2, <1>3, <1>4 DEF MailInv

LEMMA TurnsInv ==
  ASSUME MailInv, FlipRole \/ LoseLink \/ RestoreLink PROVE MailInv'
<1>1. CASE FlipRole
  <2>1. link' \in {"up", "down", "hung"} /\ pulling' \in BOOLEAN
    BY <1>1 DEF FlipRole, MailInv, MailTypes, MailTypeOK
  <2> QED BY <1>1, <2>1, AsideInv DEF FlipRole
<1>2. CASE LoseLink \/ RestoreLink
  <2>1. link' \in {"up", "down", "hung"} /\ pulling' \in BOOLEAN
    BY <1>2 DEF LoseLink, RestoreLink, secondaryVars, MailInv, MailTypes, MailTypeOK
  <2> QED BY <1>2, <2>1, AsideInv DEF LoseLink, RestoreLink, secondaryVars
<1> QED BY <1>1, <1>2

LEMMA EndPassInv == ASSUME MailConfigured, MailInv, EndPass PROVE MailInv'
<1> USE StreamsAre
<1>1. /\ clock' = clock /\ log' = log /\ used' = used /\ writing' = writing /\ ~Polling'
      /\ mail' = mail /\ pulling' = pulling /\ link' = link /\ cursor' = pass.next /\ pass' = IdlePass
  BY PrimaryStays DEF Polling, EndPass
<1>2. Polling /\ \A k \in Streams : pass.todo[k] = {}
  <2>1. pass.at = "apply"
    BY DEF EndPass, ReadyToRecord
  <2> QED BY <2>1 DEF Polling, IdlePass, EndPass, ReadyToRecord
<1>3. pass \in Passes /\ pass.next \in [Streams -> Position]
  BY <1>2, PassIn, PassTypes DEF MailInv
<1>4. fails' \in FailRuns /\ stuck' \in StuckRuns
  <2>1. (pass.fetched /\ ~pass.applied) \in BOOLEAN
    OBVIOUS
  <2> QED BY <2>1, Notes DEF EndPass, MailInv, MailTypes
<1>5. MailTypes'
  <2>1. MailTypeOK'
    BY <1>1, <1>3, <1>4 DEF MailInv, MailTypes, MailTypeOK, PassState, FailRuns, StuckRuns
  <2> QED BY <1>1, <2>1 DEF MailInv, MailTypes
<1>6. Stamps'
  BY <1>1, <1>2 DEF MailInv, Stamps, InPast, Fresh
<1>7. Names' /\ Tombs'
  BY <1>1 DEF MailInv, Names, Tombs, Apart
<1>8. Covers' /\ DelCovers' /\ DelPass' /\ PassAhead'
  BY <1>1, <1>2 DEF MailInv, Covers, CursorCovers, PassCovers, DelCovers, Gone, DelPass, PassAhead
<1> QED BY <1>5, <1>6, <1>7, <1>8 DEF MailInv

LEMMA BeginPassInv == ASSUME MailConfigured, MailInv, BeginPass PROVE MailInv'
<1> USE StreamsAre
<1>1. /\ clock' = clock /\ log' = log /\ used' = used /\ writing' = writing
      /\ mail' = mail /\ pulling' = pulling /\ link' = link /\ cursor' = cursor
      /\ fails' = fails /\ stuck' = stuck /\ ~Polling
  BY PrimaryStays DEF Polling, BeginPass
<1>2. cursor \in [Streams -> Position]
  BY DEF MailInv, MailTypes, MailTypeOK
<1>3. /\ pass' \in Passes /\ pass'.at = "msg" /\ pass'.next = cursor
      /\ \A k \in Streams : pass'.todo[k] = {}
  BY <1>2 DEF BeginPass, Passes
<1>4. Polling'
  BY <1>3, PassTypes DEF Polling
<1>5. MailTypes'
  <2>1. pass' \in PassState
    BY <1>3 DEF PassState, Passes
  <2>2. MailTypeOK'
    BY <1>1, <2>1 DEF MailInv, MailTypes, MailTypeOK
  <2> QED BY <1>1, <1>3, <2>2 DEF MailInv, MailTypes
<1>6. Stamps'
  BY <1>1, <1>3 DEF MailInv, Stamps, InPast, Fresh
<1>7. Names' /\ Tombs'
  BY <1>1, <1>3 DEF MailInv, Names, Tombs, Apart
<1>8. Covers'
  BY <1>1, <1>3 DEF MailInv, Covers, CursorCovers, PassCovers
<1>9. DelCovers' /\ DelPass'
  BY <1>1, <1>3 DEF MailInv, DelCovers, Gone, DelPass
<1>10. PassAhead'
  BY <1>1, <1>2, <1>3, EarlierOrder DEF PassAhead
<1> QED BY <1>5, <1>6, <1>7, <1>8, <1>9, <1>10 DEF MailInv

LEMMA ReadStreamInv ==
  ASSUME MailConfigured, MailInv, NEW k \in Streams, ReadStream(k) PROVE MailInv'
<1> DEFINE page == Page(log[k], pass.next[k])
           to == Reached(page, pass.next[k])
<1> USE StreamsAre
<1>1. /\ clock' = clock /\ log' = log /\ used' = used /\ writing' = writing
      /\ mail' = mail /\ pulling' = pulling /\ link' = link /\ cursor' = cursor
      /\ fails' = fails /\ stuck' = stuck
  BY PrimaryStays DEF ReadStream
<1>2. Polling /\ pass.at = k
  BY DEF ReadStream, Polling, IdlePass
<1>3. /\ pass \in Passes /\ pass.todo \in [Streams -> SUBSET Row] /\ pass.next \in [Streams -> Position]
      /\ pass.next[k] \in Position
  BY <1>2, PassIn, PassTypes DEF MailInv
<1>4. log[k] \in SUBSET Row /\ IsFiniteSet(log[k])
  BY DEF MailInv, MailTypes, MailTypeOK
<1>5. page \subseteq log[k]
  BY <1>3, <1>4, PageClosed
<1>6. /\ to \in Position /\ ~Earlier(to, pass.next[k])
      /\ to[1] = pass.next[k][1] \/ \E r \in log[k] : to[1] = r.ts
      /\ \A r \in log[k] : ~After(r, to) => ~After(r, pass.next[k]) \/ \E q \in page : q.id = r.id
  BY <1>3, <1>4, ReachedCovers
<1>7. pass' = [pass EXCEPT !.at = StreamAfter(k), !.todo[k] = page, !.next[k] = to,
                           !.fetched = @ \/ page # {}]
  BY DEF ReadStream
<1> HIDE DEF page, to
<1>8. /\ pass'.at = StreamAfter(k)
      /\ pass'.todo = [pass.todo EXCEPT ![k] = page]
      /\ pass'.next = [pass.next EXCEPT ![k] = to]
      /\ pass'.fetched = (pass.fetched \/ page # {}) /\ pass'.applied = pass.applied
      /\ DOMAIN pass' = {"at", "todo", "next", "fetched", "applied"}
  BY <1>3, <1>7 DEF Passes
<1>9. pass'.todo \in [Streams -> SUBSET Row] /\ pass'.next \in [Streams -> Position]
  BY <1>3, <1>4, <1>5, <1>6, <1>8
<1>10. \A j \in Streams : /\ pass'.todo[j] = IF j = k THEN page ELSE pass.todo[j]
                          /\ pass'.next[j] = IF j = k THEN to ELSE pass.next[j]
  BY <1>3, <1>8
<1>11. pass' \in Passes
  <2>1. StreamAfter(k) \in Streams \cup {"apply"}
    BY DEF StreamAfter
  <2>2. (pass.fetched \/ page # {}) \in BOOLEAN /\ pass.applied \in BOOLEAN
    BY <1>3 DEF Passes
  <2>3. pass' = [at |-> pass'.at, todo |-> pass'.todo, next |-> pass'.next,
                 fetched |-> pass'.fetched, applied |-> pass'.applied]
    BY <1>3, <1>7 DEF Passes
  <2> QED BY <1>8, <1>9, <2>1, <2>2, <2>3 DEF Passes
<1>12. Polling'
  BY <1>11, PassTypes DEF Polling
<1>13. MailTypes'
  <2>1. pass' \in PassState
    BY <1>11 DEF PassState, Passes
  <2>2. MailTypeOK'
    BY <1>1, <2>1 DEF MailInv, MailTypes, MailTypeOK
  <2>3. /\ pass'.at # "msg"
        /\ pass'.at = "del" => pass'.todo["del"] = {}
    BY <1>2, <1>8, <1>10 DEF StreamAfter, MailInv, MailTypes
  <2> QED BY <1>1, <2>2, <2>3 DEF MailInv, MailTypes
<1>14. Stamps'
  <2>1. InPast(to[1])
    BY <1>2, <1>6 DEF MailInv, Stamps
  <2>2. \A j \in Streams : InPast(pass'.next[j][1])
    BY <1>2, <1>10, <2>1 DEF MailInv, Stamps
  <2>3. \A w \in writing : Fresh(w) => to[1] < clock
    BY <1>2, <1>6 DEF MailInv, Stamps
  <2>4. \A w \in writing : Fresh(w) => \A j \in Streams : pass'.next[j][1] < clock
    BY <1>2, <1>10, <2>3 DEF MailInv, Stamps
  <2> QED BY <1>1, <2>2, <2>4 DEF MailInv, Stamps, InPast, Fresh
<1>15. Names'
  BY <1>1, <1>2, <1>5, <1>10 DEF MailInv, Names
<1>16. Tombs'
  <2>1. \A r \in log["msg"] : \A d \in pass'.todo["del"] : d.id # r.id
    BY <1>2, <1>5, <1>10 DEF MailInv, Tombs, Apart
  <2>2. \A w \in writing : w.kind = "msg" => \A d \in pass'.todo["del"] : d.id # w.id
    BY <1>2, <1>5, <1>10 DEF MailInv, Tombs, Apart
  <2> QED BY <1>1, <2>1, <2>2 DEF MailInv, Tombs, Apart
<1>17. Covers'
  <2> SUFFICES ASSUME ~MayImport PROVE CursorCovers' /\ PassCovers'
    BY DEF Covers
  <2>1. CursorCovers'
    BY <1>1 DEF MailInv, Covers, CursorCovers
  <2>2. ASSUME NEW r \in log["msg"], ~After(r, pass'.next["msg"])
        PROVE  mail[r.id] # "absent" \/ \E q \in pass'.todo["msg"] : q.id = r.id
    <3>1. CASE k = "msg"
      <4>1. pass.todo["msg"] = {}
        BY <1>2, <3>1 DEF MailInv, MailTypes
      <4> QED BY <1>2, <1>6, <1>10, <2>2, <3>1, <4>1 DEF MailInv, Covers, PassCovers
    <3>2. CASE k # "msg"
      BY <1>2, <1>10, <2>2, <3>2 DEF MailInv, Covers, PassCovers
    <3> QED BY <3>1, <3>2
  <2> QED BY <1>1, <2>1, <2>2 DEF PassCovers
<1>18. \A d \in log["del"] : Gone(d.id) => Gone(d.id)'
  <2> SUFFICES ASSUME NEW d \in log["del"], Gone(d.id), NEW q \in pass'.todo["msg"] PROVE q.id # d.id
    BY <1>1 DEF Gone
  <2>1. CASE k = "msg"
    BY <1>5, <1>10, <2>1 DEF MailInv, Tombs, Apart
  <2>2. CASE k # "msg"
    BY <1>2, <1>10, <2>2 DEF Gone
  <2> QED BY <2>1, <2>2
<1>19. DelCovers'
  BY <1>1, <1>18 DEF MailInv, DelCovers
<1>20. DelPass'
  <2> SUFFICES ASSUME NEW d \in log["del"], ~After(d, pass'.next["del"])
               PROVE  Gone(d.id)' \/ \E e \in pass'.todo["del"] : e.id = d.id
    BY <1>1 DEF DelPass
  <2>1. CASE k = "del"
    <3>1. pass.todo["del"] = {}
      BY <1>2, <2>1 DEF MailInv, MailTypes
    <3> QED BY <1>2, <1>6, <1>10, <1>18, <2>1, <3>1 DEF MailInv, DelPass
  <2>2. CASE k # "del"
    BY <1>2, <1>10, <1>18, <2>2 DEF MailInv, DelPass
  <2> QED BY <2>1, <2>2
<1>21. PassAhead'
  <2> SUFFICES ASSUME NEW j \in Streams PROVE ~Earlier(pass'.next[j], cursor[j])
    BY <1>1 DEF PassAhead
  <2>1. cursor[j] \in Position /\ ~Earlier(pass.next[j], cursor[j])
    BY <1>2 DEF MailInv, PassAhead, MailTypes, MailTypeOK
  <2>2. pass.next[j] \in Position
    BY <1>3
  <2>3. CASE j = k
    <3>1. ASSUME NEW p \in Position, NEW q \in Position, NEW s \in Position, ~Earlier(q, p), ~Earlier(s, q)
          PROVE  ~Earlier(s, p)
      BY <3>1 DEF Position, Earlier
    <3> QED BY <1>6, <1>10, <2>1, <2>2, <2>3, <3>1
  <2>4. CASE j # k
    BY <1>10, <2>1, <2>4
  <2> QED BY <2>3, <2>4
<1> QED BY <1>13, <1>14, <1>15, <1>16, <1>17, <1>19, <1>20, <1>21 DEF MailInv

\* What taking a row out of its page leaves: the other rows, and the positions.
LEMMA TookPass ==
  ASSUME MailConfigured, MailInv, NEW k \in Streams, NEW r, NextIn(k, r), NEW did \in BOOLEAN, Took(k, r, did)
  PROVE  /\ Polling /\ Polling' /\ r \in Row /\ r \in pass.todo[k]
         /\ pass' \in Passes /\ pass'.at = "apply" /\ pass'.next = pass.next
         /\ \A j \in Streams : pass'.todo[j] = IF j = k THEN pass.todo[j] \ {r} ELSE pass.todo[j]
<1> USE StreamsAre
<1>1. Polling /\ pass.at = "apply" /\ r \in pass.todo[k]
  BY DEF NextIn, Polling, IdlePass
<1>2. pass \in Passes /\ pass.todo \in [Streams -> SUBSET Row] /\ r \in Row
  BY <1>1, PassIn, PassTypes DEF MailInv
<1>3. pass' = [pass EXCEPT !.todo[k] = @ \ {r}, !.applied = @ \/ did]
  BY DEF Took
<1>4. /\ pass'.at = "apply" /\ pass'.next = pass.next /\ pass'.fetched = pass.fetched
      /\ pass'.todo = [pass.todo EXCEPT ![k] = pass.todo[k] \ {r}]
      /\ pass'.applied = (pass.applied \/ did)
  BY <1>1, <1>2, <1>3 DEF Passes
<1>5. pass' = [at |-> pass'.at, todo |-> pass'.todo, next |-> pass'.next,
               fetched |-> pass'.fetched, applied |-> pass'.applied]
  BY <1>2, <1>3 DEF Passes
<1>6. pass'.todo \in [Streams -> SUBSET Row] /\ (pass.applied \/ did) \in BOOLEAN
  BY <1>2, <1>4
<1>7. pass' \in Passes
  BY <1>2, <1>4, <1>5, <1>6 DEF Passes
<1>8. Polling'
  BY <1>7, PassTypes DEF Polling
<1> QED BY <1>1, <1>2, <1>4, <1>7, <1>8

\* Applying a row keeps everything but what the positions say of the mailbox.
LEMMA AppliedInv ==
  ASSUME MailConfigured, MailInv, NEW k \in Streams, NEW r,
         Polling, Polling', pass' \in Passes, pass'.at = "apply", pass'.next = pass.next,
         \A j \in Streams : pass'.todo[j] = IF j = k THEN pass.todo[j] \ {r} ELSE pass.todo[j],
         mail' \in [Msgs -> FlagSets \cup {"absent"}],
         UNCHANGED <<primaryVars, cursor, pulling, fails, stuck, link, spent>>
  PROVE  /\ MailTypes' /\ Stamps' /\ Names' /\ Tombs' /\ PassAhead'
         /\ clock' = clock /\ log' = log /\ used' = used /\ writing' = writing /\ cursor' = cursor
<1> USE StreamsAre
<1>2. /\ clock' = clock /\ log' = log /\ used' = used /\ writing' = writing
      /\ pulling' = pulling /\ link' = link /\ cursor' = cursor
      /\ fails' = fails /\ stuck' = stuck
  BY PrimaryStays
<1>3. MailTypes'
  <2>1. pass' \in PassState
    BY DEF PassState, Passes
  <2>2. MailTypeOK'
    BY <1>2, <2>1 DEF MailInv, MailTypes, MailTypeOK
  <2> QED BY <1>2, <2>2 DEF MailInv, MailTypes
<1>4. Stamps'
  BY <1>2 DEF MailInv, Stamps, InPast, Fresh
<1>5. Names' /\ Tombs'
  <2>1. \A j \in Streams : pass'.todo[j] \subseteq pass.todo[j]
    OBVIOUS
  <2>2. Names'
    BY <1>2, <2>1 DEF MailInv, Names
  <2> QED BY <1>2, <2>1, <2>2 DEF MailInv, Tombs, Apart
<1>6. PassAhead'
  BY <1>2 DEF MailInv, PassAhead
<1> QED BY <1>2, <1>3, <1>4, <1>5, <1>6

LEMMA ApplyMessageInv ==
  ASSUME MailConfigured, MailInv, NEW r, ApplyMessage(r) PROVE MailInv'
<1> USE StreamsAre
<1>1. (mail[r.id] = "absent") \in BOOLEAN /\ NextIn("msg", r) /\ Took("msg", r, mail[r.id] = "absent")
  BY DEF ApplyMessage
<1>2. /\ Polling /\ Polling' /\ r \in Row /\ r \in pass.todo["msg"] /\ pass'.next = pass.next
      /\ pass' \in Passes /\ pass'.at = "apply"
      /\ \A j \in Streams : pass'.todo[j] = IF j = "msg" THEN pass.todo[j] \ {r} ELSE pass.todo[j]
      /\ pass'.todo["msg"] = pass.todo["msg"] \ {r} /\ pass'.todo["del"] = pass.todo["del"]
  BY <1>1, TookPass
<1>3. r.id \in Msgs /\ r.flags \in FlagSets /\ mail \in [Msgs -> FlagSets \cup {"absent"}]
  BY <1>2 DEF Row, MailInv, MailTypes, MailTypeOK
<1>4. /\ mail' \in [Msgs -> FlagSets \cup {"absent"}]
      /\ mail'[r.id] # "absent"
      /\ \A m \in Msgs : m # r.id => mail'[m] = mail[m]
  BY <1>3 DEF ApplyMessage, MailConfigured
<1>5. /\ MailTypes' /\ Stamps' /\ Names' /\ Tombs' /\ PassAhead'
      /\ log' = log /\ cursor' = cursor
  BY <1>2, <1>4, AppliedInv DEF ApplyMessage
<1>6. \A q \in log["msg"] \cup log["del"] : q.id \in Msgs
  BY DEF MailInv, MailTypes, MailTypeOK, Row
<1>7. Covers'
  <2> SUFFICES ASSUME ~MayImport PROVE CursorCovers' /\ PassCovers'
    BY DEF Covers
  <2>1. CursorCovers'
    BY <1>4, <1>5, <1>6 DEF MailInv, Covers, CursorCovers
  <2>2. ASSUME NEW q \in log["msg"], ~After(q, pass.next["msg"])
        PROVE  mail'[q.id] # "absent" \/ \E s \in pass'.todo["msg"] : s.id = q.id
    <3>1. CASE q.id = r.id
      BY <1>4, <3>1
    <3>2. CASE q.id # r.id
      BY <1>2, <1>4, <1>6, <2>2, <3>2 DEF MailInv, Covers, PassCovers
    <3> QED BY <3>1, <3>2
  <2> QED BY <1>2, <1>5, <2>1, <2>2 DEF PassCovers
<1>8. \A d \in log["del"] : Gone(d.id) => Gone(d.id)'
  <2> SUFFICES ASSUME NEW d \in log["del"], Gone(d.id) PROVE Gone(d.id)'
    OBVIOUS
  <2>1. d.id # r.id /\ d.id \in Msgs
    BY <1>2, <1>6 DEF Gone
  <2>2. mail'[d.id] = "absent" /\ \A q \in pass'.todo["msg"] : q.id # d.id
    BY <1>2, <1>4, <2>1 DEF Gone
  <2>3. d' = d
    OBVIOUS
  <2> QED BY <2>2 DEF Gone
<1>9. DelCovers' /\ DelPass'
  BY <1>2, <1>5, <1>8 DEF MailInv, DelCovers, DelPass
<1> QED BY <1>5, <1>7, <1>9 DEF MailInv

LEMMA ApplyDeletionInv ==
  ASSUME MailConfigured, MailInv, NEW r, ApplyDeletion(r) PROVE MailInv'
<1> USE StreamsAre
<1>1. /\ (mail[r.id] # "absent") \in BOOLEAN /\ NextIn("del", r) /\ Took("del", r, mail[r.id] # "absent")
      /\ pass.todo["msg"] = {}
  BY DEF ApplyDeletion, NextIn
<1>2. /\ Polling /\ Polling' /\ r \in Row /\ r \in pass.todo["del"] /\ pass'.next = pass.next
      /\ pass' \in Passes /\ pass'.at = "apply"
      /\ \A j \in Streams : pass'.todo[j] = IF j = "del" THEN pass.todo[j] \ {r} ELSE pass.todo[j]
      /\ pass'.todo["msg"] = {} /\ pass'.todo["del"] = pass.todo["del"] \ {r}
  BY <1>1, TookPass
<1>3. r.id \in Msgs /\ mail \in [Msgs -> FlagSets \cup {"absent"}]
  BY <1>2 DEF Row, MailInv, MailTypes, MailTypeOK
<1>4. /\ mail' \in [Msgs -> FlagSets \cup {"absent"}]
      /\ mail'[r.id] = "absent"
      /\ \A m \in Msgs : m # r.id => mail'[m] = mail[m]
  BY <1>3 DEF ApplyDeletion
<1>5. /\ MailTypes' /\ Stamps' /\ Names' /\ Tombs' /\ PassAhead'
      /\ log' = log /\ cursor' = cursor
  BY <1>2, <1>4, AppliedInv DEF ApplyDeletion
<1>6. \A q \in log["msg"] \cup log["del"] : q.id \in Msgs
  BY DEF MailInv, MailTypes, MailTypeOK, Row
<1>7. \A q \in log["msg"] : q.id # r.id
  BY <1>2 DEF MailInv, Tombs, Apart
<1>8. Covers'
  BY <1>1, <1>2, <1>4, <1>5, <1>6, <1>7 DEF MailInv, Covers, CursorCovers, PassCovers
<1>9. ASSUME NEW d \in log["del"], Gone(d.id) \/ d.id = r.id PROVE mail'[d.id] = "absent"
  <2>1. CASE d.id = r.id
    BY <1>4, <2>1
  <2>2. CASE d.id # r.id
    BY <1>4, <1>6, <1>9, <2>2 DEF Gone
  <2> QED BY <2>1, <2>2
<1>10. DelCovers'
  BY <1>2, <1>5, <1>9 DEF MailInv, DelCovers, Gone
<1>11. DelPass'
  <2> SUFFICES ASSUME NEW d \in log["del"], ~After(d, pass.next["del"])
               PROVE  mail'[d.id] = "absent" \/ \E e \in pass'.todo["del"] : e.id = d.id
    BY <1>2, <1>5 DEF DelPass, Gone
  <2>1. Gone(d.id) \/ \E e \in pass.todo["del"] : e.id = d.id
    BY <1>2 DEF MailInv, DelPass
  <2> QED BY <1>2, <1>9, <2>1
<1> QED BY <1>5, <1>8, <1>10, <1>11 DEF MailInv

LEMMA ApplyFlagsInv ==
  ASSUME MailConfigured, MailInv, NEW r, ApplyFlags(r) PROVE MailInv'
<1> USE StreamsAre
<1>1. /\ (mail[r.id] # "absent") \in BOOLEAN /\ NextIn("flag", r) /\ Took("flag", r, mail[r.id] # "absent")
  BY DEF ApplyFlags
<1>2. /\ Polling /\ Polling' /\ r \in Row /\ pass'.next = pass.next
      /\ pass' \in Passes /\ pass'.at = "apply"
      /\ \A j \in Streams : pass'.todo[j] = IF j = "flag" THEN pass.todo[j] \ {r} ELSE pass.todo[j]
      /\ pass'.todo["msg"] = pass.todo["msg"] /\ pass'.todo["del"] = pass.todo["del"]
  BY <1>1, TookPass
<1>3. r.id \in Msgs /\ r.flags \in FlagSets /\ mail \in [Msgs -> FlagSets \cup {"absent"}]
  BY <1>2 DEF Row, MailInv, MailTypes, MailTypeOK
<1>4. /\ mail' \in [Msgs -> FlagSets \cup {"absent"}]
      /\ \A m \in Msgs : mail'[m] = "absent" <=> mail[m] = "absent"
  BY <1>3 DEF ApplyFlags, MailConfigured
<1>5. /\ MailTypes' /\ Stamps' /\ Names' /\ Tombs' /\ PassAhead'
      /\ log' = log /\ cursor' = cursor
  BY <1>2, <1>4, AppliedInv DEF ApplyFlags
<1>6. \A q \in log["msg"] \cup log["del"] : q.id \in Msgs
  BY DEF MailInv, MailTypes, MailTypeOK, Row
<1>7. Covers'
  BY <1>2, <1>4, <1>5, <1>6 DEF MailInv, Covers, CursorCovers, PassCovers
<1>8. DelCovers' /\ DelPass'
  BY <1>2, <1>4, <1>5, <1>6 DEF MailInv, DelCovers, DelPass, Gone
<1> QED BY <1>5, <1>7, <1>8 DEF MailInv

----------------------------------------------------------------------------
(* The theorems.                                                              *)

LEMMA MailStep == ASSUME MailConfigured, MailInv, [MailNext]_mailVars PROVE MailInv'
<1>1. CASE UNCHANGED mailVars
  <2>1. UNCHANGED primaryVars /\ UNCHANGED <<mail, cursor, pass, fails, stuck>> /\ pulling' = pulling /\ link' = link
    BY <1>1 DEF mailVars, primaryVars
  <2> QED BY <2>1, AsideInv DEF MailInv, MailTypes, MailTypeOK
<1>2. CASE WriterStep
  BY <1>2, BeginStoreInv, BeginDeleteInv, BeginImportInv, BeginFlagsInv, StampWriteInv, CommitWriteInv
  DEF WriterStep
<1>3. CASE PassStep
  BY <1>3, BeginPassInv, EndPassInv, FailPassInv, ReadStreamInv, ApplyMessageInv, ApplyDeletionInv,
     ApplyFlagsInv DEF PassStep
<1>4. CASE CrashPrimary \/ AbortPass \/ CrashSecondary \/ FlipRole \/ LoseLink \/ RestoreLink
  BY <1>4, CrashPrimaryInv, AbortPassInv, CrashSecondaryInv, TurnsInv
<1> QED BY <1>1, <1>2, <1>3, <1>4 DEF MailNext

LEMMA MailInvGives == ASSUME MailInv PROVE (MayImport \/ StoreFollows) /\ NoResurrection
BY DEF MailInv, MailTypes, StoreFollows, Covers, DelCovers, Gone, NoResurrection

\* The replica's cursors are honest, for any messages, page size and faults: whatever
\* lies behind them was applied or deleted, and a deleted message does not come back, as
\* long as the primary serves one write at a time and the importer is not used later on
\* (mail_repl_feed, pull_once, record_mail_repl_sync).
THEOREM StoreAlwaysFollows ==
  ASSUME MailConfigured, ~MayImport PROVE MailSpec => []StoreFollows
<1>1. MailInit => MailInv
  BY MailInitInv
<1>2. MailInv /\ [MailNext]_mailVars => MailInv'
  BY MailStep
<1>3. MailInv => StoreFollows
  BY MailInvGives
<1> QED BY <1>1, <1>2, <1>3, PTL DEF MailSpec

\* Late imports make the feed skip messages, but no deletion: between passes, no message
\* whose tombstone the secondary has passed is on the secondary (apply_mail_deletion).
THEOREM DeletionsAlwaysStick ==
  ASSUME MailConfigured PROVE MailSpec => []NoResurrection
<1>1. MailInit => MailInv
  BY MailInitInv
<1>2. MailInv /\ [MailNext]_mailVars => MailInv'
  BY MailStep
<1>3. MailInv => NoResurrection
  BY MailInvGives
<1> QED BY <1>1, <1>2, <1>3, PTL DEF MailSpec

\* A step of the pass, or a failed one, is all that moves a cursor.
LEMMA ForwardStep == ASSUME MailConfigured, MailInv, [MailNext]_mailVars PROVE [Forward]_mailVars
<1> SUFFICES ASSUME MailNext PROVE Forward
  OBVIOUS
<1> USE StreamsAre
<1>1. CASE cursor' = cursor
  <2>1. \A k \in Streams : cursor[k] \in Position
    BY DEF MailInv, MailTypes, MailTypeOK
  <2> QED BY <1>1, <2>1, EarlierOrder DEF Forward
<1>2. CASE EndPass
  <2>1. Polling /\ cursor' = pass.next
    BY <1>2 DEF EndPass, ReadyToRecord, Polling, IdlePass
  <2> QED BY <2>1 DEF MailInv, PassAhead, Forward
<1>3. CASE AbortPass
  <2>1. fails'.consecutive > 0
    BY <1>3, Notes DEF AbortPass, MailInv, MailTypes
  <2>2. cursor' = cursor \/ cursor' = [k \in Streams |-> Start]
    BY <1>3 DEF AbortPass
  <2> QED BY <1>1, <2>1, <2>2 DEF Forward
<1>4. ASSUME ~EndPass, ~AbortPass PROVE cursor' = cursor
  <2>1. CASE WriterStep \/ CrashPrimary \/ CrashSecondary \/ FlipRole \/ LoseLink \/ RestoreLink
    BY <2>1 DEF WriterStep, BeginStore, BeginImport, BeginDelete, BeginFlags, StampWrite, CommitWrite,
       CrashPrimary, CrashSecondary, FlipRole, LoseLink, RestoreLink, secondaryVars
  <2>2. CASE PassStep
    BY <1>4, <2>2 DEF PassStep, BeginPass, FailPass, ReadStream, ApplyMessage, ApplyDeletion, ApplyFlags
  <2> QED BY <1>4, <2>1, <2>2 DEF MailNext
<1> QED BY <1>1, <1>2, <1>3, <1>4

\* No pass moves a stream's cursor backwards; only a failed one may send the secondary
\* back to a full sync.
THEOREM CursorsNeverReturn ==
  ASSUME MailConfigured PROVE MailSpec => CursorsAdvance
<1>1. MailInit => MailInv
  BY MailInitInv
<1>2. MailInv /\ [MailNext]_mailVars => MailInv'
  BY MailStep
<1>3. MailInv /\ [MailNext]_mailVars => [Forward]_mailVars
  BY ForwardStep
<1> QED BY <1>1, <1>2, <1>3, PTL DEF MailSpec, CursorsAdvance
=============================================================================
