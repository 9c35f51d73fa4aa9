------------------------ MODULE AdReplicationProofs ------------------------
(* Proofs about AdReplication, for any domain controllers, users, topology of  *)
(* replication links, page size and bounds, when the tasks of one controller   *)
(* do not overlap between a read and its write (~Concurrent).                  *)
(*                                                                             *)
(* OwnChangesHeld is about what a source serves; what makes it so is that a    *)
(* stamp is nowhere before its originating controller has it: not in a row,    *)
(* not in a list, not in a reply on its way, not in a merged row to be         *)
(* written. That holds because objects only advance, which in turn needs that  *)
(* a stamped write and a merged row still fit the row they were made from.     *)
EXTENDS AdReplication, AdGroups, FiniteSetTheorems, NaturalsInduction, WellFoundedInduction, TLAPS

\* By the rows rs, the controller a stamp comes from has it, or something newer.
KeptIn(rs, u, s) == rs[s.dsa][u] # None /\ ~WinsOver(s, rs[s.dsa][u].obj)

RowsKept(rs) == \A d \in DCs, u \in Users : rs[d][u] # None => KeptIn(rs, u, rs[d][u].obj)

ListKept(rs, s) == \A i \in DOMAIN s : KeptIn(rs, s[i].user, s[i].meta)

\* What a cycle into d carries is kept, and its merged row does not fall behind the
\* row it replaces.
CycleSound(rs, d, p) ==
  \/ p = IdlePull
  \/ /\ ListKept(rs, p.objects)
     /\ p.pend # None =>
          /\ KeptIn(rs, p.pend.user, p.pend.row.obj)
          /\ rs[d][p.pend.user] # None =>
               ~WinsOver(rs[d][p.pend.user].obj, p.pend.row.obj)

\* A stamped write is of its controller, and newer than the row it replaces.
WriteSound(rs, d, w) ==
  w # None =>
    /\ w.stamp.dsa = d
    /\ rs[d][w.user] # None => WinsOver(w.stamp, rs[d][w.user].obj)

\* Is a cycle between the read of an object and its write?
Holding(p) == p # IdlePull /\ p.pend # None

\* The tasks of a controller do not overlap.
OneTask ==
  /\ \A l \in Links : Holding(pull[l]) => writing[l[1]] = None
  /\ \A l, m \in Links : Holding(pull[l]) /\ Holding(pull[m]) /\ l[1] = m[1] => l = m

IInv ==
  /\ TypeOK /\ OneTask
  /\ RowsKept(row)
  /\ \A d \in DCs : ListKept(row, served[d]) /\ WriteSound(row, d, writing[d])
  /\ \A l \in Links : CycleSound(row, l[1], pull[l])

----------------------------------------------------------------------------
(* The order of stamps.                                                        *)

LEMMA StampOrder ==
  ASSUME NEW a \in Stamp, NEW b \in Stamp, NEW c \in Stamp
  PROVE  /\ ~WinsOver(a, a)
         /\ WinsOver(a, b) => ~WinsOver(b, a)
         /\ ~WinsOver(a, b) /\ ~WinsOver(b, c) => ~WinsOver(a, c)
<1>1. /\ a.version \in Nat /\ a.time \in Nat /\ a.dsa \in Nat
      /\ b.version \in Nat /\ b.time \in Nat /\ b.dsa \in Nat
      /\ c.version \in Nat /\ c.time \in Nat /\ c.dsa \in Nat
  BY AdReplicationAssumption DEF Stamp
<1> QED BY <1>1 DEF WinsOver

\* Two tables of rows, the second not older than the first.
RowTable == [DCs -> [Users -> Row \cup {None}]]

NotOlder(rs, rt) ==
  \A d \in DCs, u \in Users :
    rs[d][u] # None => rt[d][u] # None /\ ~WinsOver(rs[d][u].obj, rt[d][u].obj)

LEMMA KeptStays ==
  ASSUME NEW rs \in RowTable, NEW rt \in RowTable, NotOlder(rs, rt),
         NEW u \in Users, NEW s \in Stamp, KeptIn(rs, u, s)
  PROVE  KeptIn(rt, u, s)
<1>1. s.dsa \in DCs
  BY DEF Stamp
<1>2. rs[s.dsa][u] # None /\ rs[s.dsa][u] \in Row \cup {None} /\ rt[s.dsa][u] \in Row \cup {None}
  BY <1>1 DEF KeptIn, RowTable
<1>3. rt[s.dsa][u] # None /\ ~WinsOver(rs[s.dsa][u].obj, rt[s.dsa][u].obj)
  BY <1>1, <1>2 DEF NotOlder
<1>4. rs[s.dsa][u].obj \in Stamp /\ rt[s.dsa][u].obj \in Stamp
  BY <1>2, <1>3 DEF Row
<1>5. ~WinsOver(s, rs[s.dsa][u].obj)
  BY DEF KeptIn
<1>6. ~WinsOver(s, rt[s.dsa][u].obj)
  BY <1>3, <1>4, <1>5, StampOrder
<1> QED BY <1>3, <1>6 DEF KeptIn

LEMMA ListStays ==
  ASSUME NEW rs \in RowTable, NEW rt \in RowTable, NotOlder(rs, rt),
         NEW s, \A i \in DOMAIN s : s[i] \in Entry, ListKept(rs, s)
  PROVE  ListKept(rt, s)
<1> SUFFICES ASSUME NEW i \in DOMAIN s PROVE KeptIn(rt, s[i].user, s[i].meta)
  BY DEF ListKept
<1>1. KeptIn(rs, s[i].user, s[i].meta) /\ s[i].user \in Users /\ s[i].meta \in Stamp
  BY DEF ListKept, Entry
<1> QED BY <1>1, KeptStays

----------------------------------------------------------------------------
(* The table when one row changes.                                             *)

LEMMA OneRowMoves ==
  ASSUME NEW rs \in RowTable, NEW rt \in RowTable, NEW d \in DCs, NEW u \in Users, NEW r \in Row,
         rt = [rs EXCEPT ![d][u] = r],
         rs[d][u] # None => ~WinsOver(rs[d][u].obj, r.obj)
  PROVE  NotOlder(rs, rt)
<1> SUFFICES ASSUME NEW e \in DCs, NEW w \in Users, rs[e][w] # None
             PROVE  rt[e][w] # None /\ ~WinsOver(rs[e][w].obj, rt[e][w].obj)
  BY DEF NotOlder
<1>1. CASE e = d /\ w = u
  <2>1. rt[e][w] = r /\ r # None
    BY <1>1, NoneAssumption DEF RowTable
  <2> QED BY <1>1, <2>1
<1>2. CASE ~(e = d /\ w = u)
  <2>1. rt[e][w] = rs[e][w]
    BY <1>2 DEF RowTable
  <2>2. rs[e][w].obj \in Stamp
    BY DEF RowTable, Row
  <2> QED BY <2>1, <2>2, StampOrder
<1> QED BY <1>1, <1>2

LEMMA SameTable ==
  ASSUME NEW rs \in RowTable
  PROVE  NotOlder(rs, rs)
<1> SUFFICES ASSUME NEW e \in DCs, NEW w \in Users, rs[e][w] # None
             PROVE  ~WinsOver(rs[e][w].obj, rs[e][w].obj)
  BY DEF NotOlder
<1>1. rs[e][w].obj \in Stamp
  BY DEF RowTable, Row
<1> QED BY <1>1, StampOrder

\* A row whose new stamp is kept leaves the table's stamps kept.
LEMMA RowsStayKept ==
  ASSUME NEW rs \in RowTable, NEW rt \in RowTable, NEW d \in DCs, NEW u \in Users, NEW r \in Row,
         rt = [rs EXCEPT ![d][u] = r], NotOlder(rs, rt), RowsKept(rs), KeptIn(rt, u, r.obj)
  PROVE  RowsKept(rt)
<1> SUFFICES ASSUME NEW e \in DCs, NEW w \in Users, rt[e][w] # None
             PROVE  KeptIn(rt, w, rt[e][w].obj)
  BY DEF RowsKept
<1>1. CASE e = d /\ w = u
  <2>1. rt[e][w] = r
    BY <1>1 DEF RowTable
  <2> QED BY <1>1, <2>1
<1>2. CASE ~(e = d /\ w = u)
  <2>1. rt[e][w] = rs[e][w]
    BY <1>2 DEF RowTable
  <2>2. rs[e][w].obj \in Stamp
    BY <2>1 DEF RowTable, Row
  <2>3. KeptIn(rs, w, rs[e][w].obj)
    BY <2>1 DEF RowsKept
  <2>4. KeptIn(rt, w, rs[e][w].obj)
    BY <2>2, <2>3, KeptStays
  <2> QED BY <2>1, <2>4
<1> QED BY <1>1, <1>2

----------------------------------------------------------------------------
(* Cycles.                                                                     *)

CycleType(p) ==
  \/ p = IdlePull
  \/ /\ p.at = "apply" /\ p.to \in Nat
     /\ DOMAIN p.objects \subseteq Nat
     /\ \A i \in DOMAIN p.objects : p.objects[i] \in Entry
     /\ p.pend \in Pending \cup {None}

LEMMA CycleStays ==
  ASSUME NEW rs \in RowTable, NEW rt \in RowTable, NotOlder(rs, rt), NEW d, NEW p,
         CycleType(p), CycleSound(rs, d, p), Holding(p) => rt[d] = rs[d]
  PROVE  CycleSound(rt, d, p)
<1>1. CASE p = IdlePull
  BY <1>1 DEF CycleSound
<1>2. CASE p # IdlePull
  <2>1. ListKept(rt, p.objects)
    BY <1>2, ListStays DEF CycleType, CycleSound
  <2>2. ASSUME p.pend # None
        PROVE  /\ KeptIn(rt, p.pend.user, p.pend.row.obj)
               /\ rt[d][p.pend.user] # None => ~WinsOver(rt[d][p.pend.user].obj, p.pend.row.obj)
    <3>1. p.pend.user \in Users /\ p.pend.row.obj \in Stamp
      BY <1>2, <2>2 DEF CycleType, Pending, Row
    <3>2. /\ KeptIn(rs, p.pend.user, p.pend.row.obj)
          /\ rs[d][p.pend.user] # None => ~WinsOver(rs[d][p.pend.user].obj, p.pend.row.obj)
      BY <1>2, <2>2 DEF CycleSound
    <3>3. rt[d] = rs[d]
      BY <1>2, <2>2 DEF Holding
    <3> QED BY <3>1, <3>2, <3>3, KeptStays
  <2> QED BY <2>1, <2>2 DEF CycleSound
<1> QED BY <1>1, <1>2

\* The tables and cycles, apart from what only bounds them.
LEMMA Typed ==
  ASSUME IInv
  PROVE  /\ clock \in 0..MaxClock /\ row \in RowTable /\ usn \in [DCs -> Nat]
         /\ served \in [DCs -> Seq(Entry)] /\ cursor \in [DCs -> [DCs -> Nat]]
         /\ known \in [Links -> BOOLEAN] /\ DOMAIN pull = Links
         /\ \A l \in Links : CycleType(pull[l])
         /\ writing \in [DCs -> Write \cup {None}]
BY DEF IInv, TypeOK, RowTable, CycleType

LEMMA TypedAgain ==
  ASSUME clock' \in 0..MaxClock, row' \in RowTable, usn' \in [DCs -> Nat],
         served' \in [DCs -> Seq(Entry)], cursor' \in [DCs -> [DCs -> Nat]],
         known' \in [Links -> BOOLEAN], DOMAIN pull' = Links,
         \A l \in Links : CycleType(pull'[l]),
         writing' \in [DCs -> Write \cup {None}]
  PROVE  TypeOK'
<1>1. \A l \in Links : \/ pull'[l] = IdlePull
                       \/ /\ pull'[l].at = "apply" /\ pull'[l].to \in Nat
                          /\ DOMAIN pull'[l].objects \subseteq Nat
                          /\ \A i \in DOMAIN pull'[l].objects : pull'[l].objects[i] \in Entry
                          /\ pull'[l].pend \in Pending \cup {None}
  BY DEF CycleType
<1> QED BY <1>1 DEF TypeOK, RowTable, Links, IdlePull, Entry, Pending, Stamp, Row, Write

\* IInv of the next state, with the primes where the steps below have them.
LEMMA IInvAgain ==
  ASSUME TypeOK',
         \A l \in Links : Holding(pull'[l]) => writing'[l[1]] = None,
         \A l, m \in Links : Holding(pull'[l]) /\ Holding(pull'[m]) /\ l[1] = m[1] => l = m,
         RowsKept(row'),
         \A d \in DCs : ListKept(row', served'[d]) /\ WriteSound(row', d, writing'[d]),
         \A l \in Links : CycleSound(row', l[1], pull'[l])
  PROVE  IInv'
<1>1. OneTask'
  BY DEF OneTask, Holding, Links, IdlePull
<1>2. RowsKept(row)'
  OBVIOUS
<1>3. (\A d \in DCs : ListKept(row, served[d]) /\ WriteSound(row, d, writing[d]))'
  BY ZenonT(60) DEF ListKept, WriteSound, KeptIn, WinsOver
<1>4. (\A l \in Links : CycleSound(row, l[1], pull[l]))'
  BY DEF CycleSound, ListKept, KeptIn, WinsOver, IdlePull, Links
<1> QED BY <1>1, <1>2, <1>3, <1>4 DEF IInv

----------------------------------------------------------------------------
(* Steps of a cycle that leave the rows alone.                                 *)

\* No task of l's destination but l itself is between its read and its write.
Alone(l) ==
  /\ writing[l[1]] = None
  /\ \A m \in Links : m[1] = l[1] /\ m # l => ~Holding(pull[m])

LEMMA CycleMoves ==
  ASSUME IInv, NEW l \in Links, NEW p, pull' = [pull EXCEPT ![l] = p],
         CycleType(p), CycleSound(row, l[1], p), Holding(p) => Alone(l),
         row' = row, writing' = writing, served' = served, clock' = clock,
         usn' \in [DCs -> Nat], cursor' \in [DCs -> [DCs -> Nat]], known' \in [Links -> BOOLEAN]
  PROVE  IInv'
<1>1. DOMAIN pull' = Links /\ pull'[l] = p /\ \A m \in Links : m # l => pull'[m] = pull[m]
  BY Typed
<1>2. \A m \in Links : CycleType(pull'[m])
  BY <1>1, Typed
<1>3. TypeOK'
  BY <1>1, <1>2, Typed, TypedAgain
<1>4. /\ \A m \in Links : Holding(pull[m]) => writing[m[1]] = None
      /\ \A m, n \in Links : Holding(pull[m]) /\ Holding(pull[n]) /\ m[1] = n[1] => m = n
  BY DEF IInv, OneTask
<1>5. \A m \in Links : Holding(pull'[m]) => writing'[m[1]] = None
  BY <1>1, <1>4 DEF Alone
<1>6. \A m, n \in Links : Holding(pull'[m]) /\ Holding(pull'[n]) /\ m[1] = n[1] => m = n
  BY <1>1, <1>4 DEF Alone
<1>7. \A m \in Links : CycleSound(row', m[1], pull'[m])
  BY <1>1 DEF IInv
<1>8. RowsKept(row') /\ \A d \in DCs : ListKept(row', served'[d]) /\ WriteSound(row', d, writing'[d])
  BY DEF IInv
<1> QED BY <1>3, <1>5, <1>6, <1>7, <1>8, IInvAgain

\* The smallest of a nonempty set of numbers is one of them: a reply is applied in the
\* order of its positions.
LEMMA MinIn ==
  ASSUME NEW S, S \subseteq Nat, S # {}
  PROVE  Min(S) \in S
<1> DEFINE R == {p \in Nat \X Nat : p[1] < p[2]}
<1>1. IsWellFoundedOn(R, Nat)
  BY NatLessThanWellFounded DEF OpToRel
<1>2. \E x \in S : \A y \in S : ~ (<<y, x>> \in R)
  <2> HIDE DEF R
  <2> QED BY <1>1, WFMin
<1>3. PICK x \in S : \A y \in S : ~ (<<y, x>> \in R)
  BY <1>2
<1>4. \A y \in S : x =< y
  <2> SUFFICES ASSUME NEW y \in S PROVE x =< y
    OBVIOUS
  <2>1. x \in Nat /\ y \in Nat /\ ~ (<<y, x>> \in R)
    BY <1>3
  <2> QED BY <2>1
<1> QED BY <1>4 DEF Min

LEMMA Ends ==
  ASSUME NEW l \in Links
  PROVE  l[1] \in DCs /\ l[2] \in DCs
BY DEF Links

\* What get_nc_changes_response sends is from the list the source serves.
LEMMA ReplySound ==
  ASSUME IInv, NEW e \in DCs, NEW d, NEW from \in Nat, NEW vector
  PROVE  LET p == Reply(e, from, vector)
         IN CycleType(p) /\ CycleSound(row, d, p) /\ p.pend = None
<1> DEFINE high == Len(served[e]) + WellKnown
           last == Least(from + PageMax, high)
           page == (from + 1)..Least(last, Len(served[e]))
           sent == {i \in page : ~Dampened(served[e][i], e, vector)}
<1>1. PICK p : p = [at |-> "apply", pend |-> None, to |-> Most(last, from),
                    objects |-> [i \in sent |-> served[e][i]]]
  OBVIOUS
<1>2. p = Reply(e, from, vector)
  BY <1>1 DEF Reply
<1>3. served[e] \in Seq(Entry) /\ Len(served[e]) \in Nat
  BY Typed
<1>4. last \in Int /\ Most(last, from) \in Nat /\ Least(last, Len(served[e])) \in Int
      /\ Least(last, Len(served[e])) <= Len(served[e])
  BY <1>3, AdReplicationAssumption DEF Least, Most
<1>5. sent \subseteq 1..Len(served[e])
  <2> SUFFICES ASSUME NEW i \in page PROVE i \in 1..Len(served[e])
    OBVIOUS
  <2>1. page = (from + 1)..Least(last, Len(served[e]))
    OBVIOUS
  <2> HIDE DEF last, page
  <2> QED BY <1>3, <1>4, <2>1
<1> HIDE DEF sent, last
<1>6. /\ p.at = "apply" /\ p.to = Most(last, from) /\ p.pend = None /\ DOMAIN p.objects = sent
      /\ \A i \in sent : p.objects[i] = served[e][i]
  BY <1>1
<1>7. \A i \in sent : i \in Nat /\ served[e][i] \in Entry /\ i \in DOMAIN served[e]
  BY <1>3, <1>5
<1>8. CycleType(p)
  BY <1>4, <1>6, <1>7 DEF CycleType
<1>9. ListKept(row, p.objects)
  BY <1>6, <1>7 DEF IInv, ListKept
<1>10. CycleSound(row, d, p)
  BY <1>6, <1>9 DEF CycleSound
<1> QED BY <1>2, <1>6, <1>8, <1>10

\* What the merge of an object makes of a row: its stamp is the newer of the two.
LEMMA MergedRow ==
  ASSUME NEW old \in Row \cup {None}, NEW o \in Entry
  PROVE  /\ Merged(old, o) \in Row
         /\ Merged(old, o).obj = o.meta \/ (old # None /\ Merged(old, o).obj = old.obj)
         /\ old # None => ~WinsOver(old.obj, Merged(old, o).obj)
         /\ ~WinsOver(o.meta, Merged(old, o).obj)
<1>1. o.pw \in Stamp /\ o.meta \in Stamp
  BY DEF Entry
<1>2. CASE old = None
  <2>1. Merged(old, o) = [pw |-> o.pw, disabled |-> FALSE, obj |-> o.meta, sec |-> o.meta]
    BY <1>2 DEF Merged
  <2>2. Merged(old, o) \in Row
    BY <1>1, <2>1 DEF Row
  <2>3. Merged(old, o).obj = o.meta
    BY <2>1
  <2>4. ~WinsOver(o.meta, o.meta)
    BY <1>1, StampOrder
  <2> QED BY <1>2, <2>2, <2>3, <2>4
<1>3. CASE old # None
  <2> DEFINE object == Wins(o.meta, old.obj)
             secret == Wins(o.meta, old.sec)
  <2>1. Merged(old, o) = [pw |-> IF secret THEN o.pw ELSE old.pw,
                          disabled |-> ~object /\ old.disabled,
                          obj |-> IF object THEN o.meta ELSE old.obj,
                          sec |-> IF secret THEN o.meta ELSE old.sec]
    BY <1>3 DEF Merged
  <2>2. /\ old.pw \in Stamp /\ old.obj \in Stamp /\ old.sec \in Stamp \cup {None}
        /\ old.disabled \in BOOLEAN
    BY <1>3 DEF Row
  <2>3. object => WinsOver(o.meta, old.obj) \/ old.obj = None
    BY DEF Wins
  <2>4. /\ ~WinsOver(old.obj, old.obj) /\ ~WinsOver(o.meta, o.meta)
        /\ WinsOver(o.meta, old.obj) => ~WinsOver(old.obj, o.meta)
        /\ ~object => ~WinsOver(o.meta, old.obj)
    BY <1>1, <2>2, StampOrder DEF Wins
  <2>5. None \notin Stamp
    BY NoneAssumption
  <2> HIDE DEF object, secret
  <2>6. (~object /\ old.disabled) \in BOOLEAN
    OBVIOUS
  <2>7. Merged(old, o) \in Row
    BY <1>1, <2>1, <2>2, <2>6 DEF Row
  <2>8. Merged(old, o).obj = IF object THEN o.meta ELSE old.obj
    BY <2>1
  <2>9. CASE object
    BY <1>3, <2>2, <2>3, <2>4, <2>5, <2>7, <2>8, <2>9
  <2>10. CASE ~object
    BY <1>3, <2>4, <2>7, <2>8, <2>10
  <2> QED BY <2>9, <2>10
<1> QED BY <1>2, <1>3

\* A cycle that has dealt with its next object.
LEMMA PassedSound ==
  ASSUME NEW rs, NEW d, NEW p, p # IdlePull, CycleType(p), CycleSound(rs, d, p)
  PROVE  CycleType(Passed(p)) /\ CycleSound(rs, d, Passed(p)) /\ ~Holding(Passed(p))
<1>1. PICK q : q = Passed(p)
  OBVIOUS
<1>2. /\ q.at = "apply" /\ q.to = p.to /\ q.pend = None
      /\ DOMAIN q.objects = DOMAIN p.objects \ {First(p)}
      /\ \A i \in DOMAIN q.objects : q.objects[i] = p.objects[i]
  BY <1>1 DEF Passed
<1>3. CycleType(q)
  BY <1>2 DEF CycleType
<1>4. ListKept(rs, q.objects)
  BY <1>2 DEF CycleSound, ListKept
<1>5. CycleSound(rs, d, q) /\ ~Holding(q)
  BY <1>2, <1>4 DEF CycleSound, Holding
<1> QED BY <1>1, <1>3, <1>5

LEMMA BeginPullSound ==
  ASSUME IInv, NEW l \in Links, BeginPull(l)
  PROVE  IInv'
<1>1. l[1] \in DCs /\ l[2] \in DCs /\ cursor[l[1]][l[2]] \in Nat
  BY Ends, Typed
<1>2. PICK from, vector :
        from \in Nat /\ pull' = [pull EXCEPT ![l] = Reply(l[2], from, vector)]
  <2>1. PICK from : from = IF known[l] THEN cursor[l[1]][l[2]] ELSE 0
    OBVIOUS
  <2>2. PICK vector : vector = IF from = 0 THEN [x \in DCs |-> 0] ELSE UpToDateVector(l[1])
    OBVIOUS
  <2>3. from \in Nat
    BY <1>1, <2>1
  <2>4. pull' = [pull EXCEPT ![l] = Reply(l[2], from, vector)]
    BY <2>1, <2>2 DEF BeginPull
  <2> QED BY <2>3, <2>4
<1>3. PICK p : p = Reply(l[2], from, vector)
  OBVIOUS
<1>4. CycleType(p) /\ CycleSound(row, l[1], p) /\ p.pend = None
  BY <1>1, <1>2, <1>3, ReplySound
<1>5. ~Holding(p)
  BY <1>4 DEF Holding
<1>6. /\ row' = row /\ writing' = writing /\ served' = served /\ clock' = clock
      /\ usn' = usn /\ cursor' = cursor /\ known' = known
  BY DEF BeginPull
<1>7. pull' = [pull EXCEPT ![l] = p]
  BY <1>2, <1>3
<1>8. usn' \in [DCs -> Nat] /\ cursor' \in [DCs -> [DCs -> Nat]] /\ known' \in [Links -> BOOLEAN]
  BY <1>6, Typed
<1> QED BY <1>4, <1>5, <1>6, <1>7, <1>8, CycleMoves

\* Between the read of an object and its write, nothing else of the controller runs.
LEMMA FreeAlone ==
  ASSUME ~Concurrent, NEW l \in Links, Free(l[1])
  PROVE  Alone(l)
BY DEF Free, Alone, Holding

LEMMA ReadObjectSound ==
  ASSUME IInv, ~Concurrent, NEW l \in Links, ReadObject(l)
  PROVE  IInv'
<1>1. PICK d, p : d = l[1] /\ p = pull[l]
  OBVIOUS
<1>2. d \in DCs /\ CycleType(p) /\ CycleSound(row, d, p)
  BY <1>1, Ends, Typed DEF IInv
<1>3. p # IdlePull /\ DOMAIN p.objects # {} /\ p.pend = None /\ Alone(l)
  BY <1>1, FreeAlone DEF ReadObject
<1>4. PICK o : o = p.objects[First(p)]
  OBVIOUS
<1>5. o \in Entry /\ KeptIn(row, o.user, o.meta)
  <2>1. DOMAIN p.objects \subseteq Nat
    BY <1>2, <1>3 DEF CycleType
  <2>2. First(p) \in DOMAIN p.objects
    BY <1>3, <2>1, MinIn DEF First
  <2> QED BY <1>2, <1>3, <1>4, <2>2 DEF CycleType, CycleSound, ListKept
<1>6. PICK old : old = row[d][o.user]
  OBVIOUS
<1>7. o.user \in Users /\ o.meta \in Stamp /\ old \in Row \cup {None}
  BY <1>2, <1>5, <1>6, Typed DEF Entry, RowTable
<1>8. PICK r : r = Merged(old, o)
  OBVIOUS
<1>9. /\ r \in Row /\ (r.obj = o.meta \/ (old # None /\ r.obj = old.obj))
      /\ old # None => ~WinsOver(old.obj, r.obj)
  BY <1>5, <1>7, <1>8, MergedRow
<1>10. KeptIn(row, o.user, r.obj)
  BY <1>2, <1>5, <1>6, <1>7, <1>9 DEF IInv, RowsKept
<1>11. PICK q : q = Merging(p, o.user, r)
  OBVIOUS
<1>12. /\ q.at = "apply" /\ q.to = p.to /\ q.objects = p.objects
       /\ q.pend = [user |-> o.user, row |-> r]
  BY <1>11 DEF Merging
<1>13. q.pend \in Pending /\ q.pend.user = o.user /\ q.pend.row = r
  BY <1>7, <1>9, <1>12 DEF Pending
<1>14. CycleType(q)
  BY <1>2, <1>3, <1>12, <1>13 DEF CycleType
<1>15. CycleSound(row, d, q)
  BY <1>2, <1>3, <1>6, <1>9, <1>10, <1>12, <1>13 DEF CycleSound
<1>16. /\ row' = row /\ writing' = writing /\ served' = served /\ clock' = clock
       /\ cursor' = cursor /\ known' = known
  BY DEF ReadObject
<1>17. cursor' \in [DCs -> [DCs -> Nat]] /\ known' \in [Links -> BOOLEAN]
  BY <1>16, Typed, SMTT(60)
<1>18. \/ pull' = [pull EXCEPT ![l] = Passed(p)] /\ usn' = usn
       \/ pull' = [pull EXCEPT ![l] = q] /\ usn' = [usn EXCEPT ![d] = usn[d] + 1]
  BY <1>1, <1>4, <1>6, <1>8, <1>11 DEF ReadObject
<1>19. usn' \in [DCs -> Nat]
  <2>1. usn \in [DCs -> Nat] /\ usn[d] \in Nat
    BY <1>2, Typed
  <2> QED BY <1>2, <1>18, <2>1
<1>20. CASE pull' = [pull EXCEPT ![l] = Passed(p)]
  <2>1. PICK t : t = Passed(p)
    OBVIOUS
  <2>2. CycleType(t) /\ CycleSound(row, l[1], t) /\ ~Holding(t)
    BY <1>1, <1>2, <1>3, <2>1, PassedSound
  <2>3. pull' = [pull EXCEPT ![l] = t]
    BY <1>20, <2>1
  <2> QED BY <1>16, <1>17, <1>19, <2>2, <2>3, CycleMoves
<1>21. CASE pull' = [pull EXCEPT ![l] = q]
  <2>1. CycleSound(row, l[1], q)
    BY <1>1, <1>15
  <2> QED BY <1>3, <1>14, <1>16, <1>17, <1>19, <1>21, <2>1, CycleMoves
<1> QED BY <1>18, <1>20, <1>21

LEMMA EndPullSound ==
  ASSUME IInv, NEW l \in Links, FinishPull(l) \/ FailPull(l)
  PROVE  IInv'
<1>1. l[1] \in DCs /\ l[2] \in DCs /\ CycleType(pull[l])
  BY Ends, Typed
<1>2. cursor \in [DCs -> [DCs -> Nat]] /\ known \in [Links -> BOOLEAN] /\ usn \in [DCs -> Nat]
  BY Typed
<1>3. /\ row' = row /\ writing' = writing /\ served' = served /\ clock' = clock /\ usn' = usn
      /\ pull' = [pull EXCEPT ![l] = IdlePull] /\ pull[l] # IdlePull
  BY DEF FinishPull, FailPull
<1>4. pull[l].to \in Nat
  BY <1>1, <1>3 DEF CycleType
<1>5. Most(cursor[l[1]][l[2]], pull[l].to) \in Nat
  BY <1>1, <1>2, <1>4 DEF Most
<1>6. PICK n \in Nat : cursor' = cursor \/ cursor' = [cursor EXCEPT ![l[1]][l[2]] = n]
  <2>1. CASE FinishPull(l)
    BY <1>5, <2>1 DEF FinishPull
  <2>2. CASE FailPull(l)
    BY <2>2 DEF FailPull
  <2> QED BY <2>1, <2>2
<1>7. cursor' \in [DCs -> [DCs -> Nat]]
  BY <1>1, <1>2, <1>6
<1>8. known' \in [Links -> BOOLEAN]
  BY <1>2 DEF FinishPull, FailPull
<1>9. CycleType(IdlePull) /\ CycleSound(row, l[1], IdlePull) /\ ~Holding(IdlePull)
  BY DEF CycleType, CycleSound, Holding
<1>10. PICK p : p = IdlePull
  OBVIOUS
<1>11. /\ CycleType(p) /\ CycleSound(row, l[1], p) /\ ~Holding(p)
       /\ pull' = [pull EXCEPT ![l] = p] /\ usn' \in [DCs -> Nat]
  BY <1>2, <1>3, <1>9, <1>10
<1> QED BY <1>3, <1>7, <1>8, <1>11, CycleMoves

----------------------------------------------------------------------------
(* Steps that write a row.                                                     *)

\* A controller writes a row; the task that wrote it is the only one it had.
LEMMA RowMoves ==
  ASSUME IInv, NEW d \in DCs, NEW u \in Users, NEW r \in Row,
         row' = [row EXCEPT ![d][u] = r],
         row[d][u] # None => ~WinsOver(row[d][u].obj, r.obj),
         KeptIn(row', u, r.obj),
         DOMAIN pull' = Links,
         \A l \in Links : IF l[1] = d
                            THEN ~Holding(pull'[l]) /\ CycleType(pull'[l]) /\ CycleSound(row, d, pull'[l])
                            ELSE pull'[l] = pull[l],
         writing' = [writing EXCEPT ![d] = None],
         served' = served, clock' = clock, usn' = usn, cursor' = cursor, known' = known
  PROVE  IInv' /\ NotOlder(row, row')
<1>1. row \in RowTable /\ writing \in [DCs -> Write \cup {None}]
  BY Typed
<1>2. row' \in RowTable
  BY <1>1 DEF RowTable
<1>3. NotOlder(row, row')
  <2>1. PICK rs, rt : rs = row /\ rt = row'
    OBVIOUS
  <2>2. rs \in RowTable /\ rt \in RowTable /\ rt = [rs EXCEPT ![d][u] = r]
        /\ (rs[d][u] # None => ~WinsOver(rs[d][u].obj, r.obj))
    BY <1>1, <1>2, <2>1
  <2> QED BY <2>1, <2>2, OneRowMoves
<1>4. \A e \in DCs : e # d => row'[e] = row[e]
  BY <1>1 DEF RowTable
<1>5. \A l \in Links : CycleType(pull'[l]) /\ CycleSound(row, l[1], pull'[l])
  BY Typed DEF IInv
<1>6. /\ writing' \in [DCs -> Write \cup {None}] /\ writing'[d] = None
      /\ \A e \in DCs : e # d => writing'[e] = writing[e]
  BY <1>1
<1>7. TypeOK'
  BY <1>2, <1>5, <1>6, Typed, TypedAgain
<1>8. \A l \in Links : Holding(pull'[l]) => l[1] # d /\ pull'[l] = pull[l]
  OBVIOUS
<1>9. \A l \in Links : Holding(pull'[l]) => writing'[l[1]] = None
  BY <1>6, <1>8, Ends DEF IInv, OneTask
<1>10. \A l, m \in Links : Holding(pull'[l]) /\ Holding(pull'[m]) /\ l[1] = m[1] => l = m
  BY <1>8 DEF IInv, OneTask
<1>11. RowsKept(row')
  <2>1. PICK rs, rt : rs = row /\ rt = row'
    OBVIOUS
  <2>2. /\ rs \in RowTable /\ rt \in RowTable /\ rt = [rs EXCEPT ![d][u] = r] /\ NotOlder(rs, rt)
        /\ RowsKept(rs) /\ KeptIn(rt, u, r.obj)
    BY <1>1, <1>2, <1>3, <2>1 DEF IInv
  <2> QED BY <2>1, <2>2, RowsStayKept
<1>12. ASSUME NEW e \in DCs PROVE ListKept(row', served'[e]) /\ WriteSound(row', e, writing'[e])
  <2>1. ListKept(row, served[e]) /\ WriteSound(row, e, writing[e])
    BY DEF IInv
  <2>2. \A i \in DOMAIN served[e] : served[e][i] \in Entry
    BY Typed
  <2>3. ListKept(row', served[e])
    BY <1>1, <1>2, <1>3, <2>1, <2>2, ListStays
  <2>4. WriteSound(row', e, writing'[e])
    BY <1>4, <1>6, <2>1 DEF WriteSound
  <2> QED BY <2>3, <2>4
<1>13. ASSUME NEW l \in Links PROVE CycleSound(row', l[1], pull'[l])
  <2>1. Holding(pull'[l]) => row'[l[1]] = row[l[1]]
    BY <1>4, <1>8, Ends
  <2> QED BY <1>1, <1>2, <1>3, <1>5, <2>1, CycleStays
<1> QED BY <1>3, <1>7, <1>9, <1>10, <1>11, <1>12, <1>13, IInvAgain

\* A stamp that the row of its own controller now carries is kept.
LEMMA OwnStampKept ==
  ASSUME NEW rt \in RowTable, NEW u \in Users, NEW r \in Row, rt[r.obj.dsa][u] = r
  PROVE  KeptIn(rt, u, r.obj)
<1>1. r.obj \in Stamp
  BY DEF Row
<1> QED BY <1>1, StampOrder, NoneAssumption DEF KeptIn

LEMMA CommitWriteSound ==
  ASSUME IInv, NEW d \in DCs, CommitWrite(d)
  PROVE  IInv' /\ NotOlder(row, row')
<1>1. PICK w : w = writing[d]
  OBVIOUS
<1>2. w \in Write /\ w # None /\ WriteSound(row, d, w)
  BY <1>1, Typed DEF CommitWrite, IInv
<1>3. PICK u, old : u = w.user /\ old = row[d][u]
  OBVIOUS
<1>4. u \in Users /\ old \in Row \cup {None} /\ row \in RowTable
  BY <1>2, <1>3, Typed DEF Write, RowTable
<1>5. PICK r : r = Written(old, w)
  OBVIOUS
<1>6. r \in Row /\ r.obj = w.stamp
  <2>1. r = [pw |-> w.stamp, disabled |-> w.disabled, obj |-> w.stamp,
             sec |-> IF old = None THEN None ELSE old.sec]
    BY <1>5 DEF Written
  <2>2. w.stamp \in Stamp /\ w.disabled \in BOOLEAN
    BY <1>2 DEF Write
  <2>3. old # None => old.sec \in Stamp \cup {None}
    BY <1>4 DEF Row
  <2> QED BY <2>1, <2>2, <2>3 DEF Row
<1>7. row' = [row EXCEPT ![d][u] = r]
  BY <1>1, <1>3, <1>5 DEF CommitWrite
<1>8. w.stamp.dsa = d /\ (old # None => WinsOver(w.stamp, old.obj))
  BY <1>2, <1>3 DEF WriteSound
<1>9. old # None => ~WinsOver(old.obj, r.obj)
  <2> SUFFICES ASSUME old # None PROVE ~WinsOver(old.obj, r.obj)
    OBVIOUS
  <2>1. old.obj \in Stamp /\ r.obj \in Stamp
    BY <1>4, <1>6 DEF Row
  <2> QED BY <1>6, <1>8, <2>1, StampOrder
<1>10. KeptIn(row', u, r.obj)
  <2>1. row' \in RowTable /\ row'[d][u] = r
    BY <1>4, <1>6, <1>7 DEF RowTable
  <2> QED BY <1>4, <1>6, <1>8, <2>1, OwnStampKept
<1>11. /\ writing' = [writing EXCEPT ![d] = None] /\ pull' = pull
       /\ served' = served /\ clock' = clock /\ usn' = usn /\ cursor' = cursor /\ known' = known
  BY DEF CommitWrite
<1>12. ASSUME NEW l \in Links, l[1] = d
       PROVE  ~Holding(pull'[l]) /\ CycleType(pull'[l]) /\ CycleSound(row, d, pull'[l])
  BY <1>1, <1>2, <1>11, <1>12, Typed DEF IInv, OneTask
<1>13. row[d][u] # None => ~WinsOver(row[d][u].obj, r.obj)
  BY <1>3, <1>9
<1>14. DOMAIN pull' = Links
  BY <1>11, Typed
<1>15. \A l \in Links : IF l[1] = d
                          THEN ~Holding(pull'[l]) /\ CycleType(pull'[l]) /\ CycleSound(row, d, pull'[l])
                          ELSE pull'[l] = pull[l]
  BY <1>11, <1>12
<1> QED BY <1>4, <1>6, <1>7, <1>10, <1>11, <1>13, <1>14, <1>15, RowMoves

LEMMA WriteObjectSound ==
  ASSUME IInv, NEW k \in Links, WriteObject(k)
  PROVE  IInv' /\ NotOlder(row, row')
<1>1. PICK d, p : d = k[1] /\ p = pull[k]
  OBVIOUS
<1>2. d \in DCs /\ CycleType(p) /\ CycleSound(row, d, p) /\ row \in RowTable
  BY <1>1, Ends, Typed DEF IInv
<1>3. p # IdlePull /\ p.pend # None /\ Holding(p)
  BY <1>1 DEF WriteObject, Holding
<1>4. PICK u, r : u = p.pend.user /\ r = p.pend.row
  OBVIOUS
<1>5. u \in Users /\ r \in Row
  BY <1>2, <1>3, <1>4 DEF CycleType, Pending
<1>6. /\ KeptIn(row, u, r.obj)
      /\ row[d][u] # None => ~WinsOver(row[d][u].obj, r.obj)
  BY <1>2, <1>3, <1>4 DEF CycleSound
<1>7. row' = [row EXCEPT ![d][u] = r]
  BY <1>1, <1>4 DEF WriteObject
<1>8. row' \in RowTable
  BY <1>2, <1>5, <1>7 DEF RowTable
<1>9. KeptIn(row', u, r.obj)
  <2>1. PICK rs, rt : rs = row /\ rt = row'
    OBVIOUS
  <2>2. rs \in RowTable /\ rt \in RowTable /\ rt = [rs EXCEPT ![d][u] = r]
        /\ (rs[d][u] # None => ~WinsOver(rs[d][u].obj, r.obj))
    BY <1>2, <1>6, <1>7, <1>8, <2>1
  <2>3. NotOlder(rs, rt)
    BY <1>2, <1>5, <2>2, OneRowMoves
  <2>4. r.obj \in Stamp /\ KeptIn(rs, u, r.obj)
    BY <1>5, <1>6, <2>1 DEF Row
  <2> QED BY <1>5, <2>1, <2>2, <2>3, <2>4, KeptStays
<1>10. PICK q : q = Passed(p)
  OBVIOUS
<1>11. CycleType(q) /\ CycleSound(row, d, q) /\ ~Holding(q)
  BY <1>2, <1>3, <1>10, PassedSound
<1>12. /\ pull' = [pull EXCEPT ![k] = q] /\ writing' = writing
       /\ served' = served /\ clock' = clock /\ usn' = usn /\ cursor' = cursor /\ known' = known
  BY <1>1, <1>10 DEF WriteObject
<1>13. DOMAIN pull' = Links /\ pull'[k] = q /\ \A l \in Links : l # k => pull'[l] = pull[l]
  BY <1>12, Typed
<1>14. writing[d] = None /\ \A l \in Links : l[1] = d /\ l # k => ~Holding(pull[l])
  BY <1>1, <1>3 DEF IInv, OneTask
<1>15. writing' = [writing EXCEPT ![d] = None]
  BY <1>2, <1>12, <1>14, Typed
<1>16. \A l \in Links : CycleType(pull[l]) /\ CycleSound(row, l[1], pull[l])
  BY Typed DEF IInv
<1>17. \A l \in Links : IF l[1] = d
                          THEN ~Holding(pull'[l]) /\ CycleType(pull'[l]) /\ CycleSound(row, d, pull'[l])
                          ELSE pull'[l] = pull[l]
  BY <1>1, <1>11, <1>13, <1>14, <1>16
<1> QED BY <1>2, <1>5, <1>6, <1>7, <1>9, <1>12, <1>13, <1>15, <1>17, RowMoves

----------------------------------------------------------------------------
(* The other steps.                                                            *)

LEMMA BeginWriteSound ==
  ASSUME IInv, ~Concurrent, NEW d \in DCs, NEW u \in Users, NEW b \in BOOLEAN, BeginWrite(d, u, b)
  PROVE  IInv'
<1>1. /\ row \in RowTable /\ usn \in [DCs -> Nat] /\ clock \in Nat /\ usn[d] \in Nat
      /\ writing \in [DCs -> Write \cup {None}]
  BY Typed, AdReplicationAssumption
<1>2. PICK s : s = NextLocalStamp(d, u)
  OBVIOUS
<1>3. row[d][u] # None => row[d][u].obj \in Stamp /\ row[d][u].obj.version \in Nat
  BY <1>1 DEF RowTable, Row, Stamp
<1>4. /\ s.version = IF row[d][u] = None THEN 1 ELSE row[d][u].obj.version + 1
      /\ s.time = clock /\ s.dsa = d /\ s.usn = usn[d] + 1
  BY <1>2 DEF NextLocalStamp
<1>5. s.version \in Nat /\ s.usn \in Nat
  BY <1>1, <1>3, <1>4
<1>6. s \in Stamp
  BY <1>1, <1>2, <1>4, <1>5 DEF NextLocalStamp, Stamp
<1>7. row[d][u] # None => WinsOver(s, row[d][u].obj)
  BY <1>3, <1>4, <1>5 DEF WinsOver
<1>8. PICK w : w = [user |-> u, stamp |-> s, disabled |-> b]
  OBVIOUS
<1>9. w \in Write /\ w.user = u /\ w.stamp = s
  BY <1>6, <1>8 DEF Write
<1>10. /\ writing' = [writing EXCEPT ![d] = w] /\ usn' = [usn EXCEPT ![d] = usn[d] + 1]
       /\ row' = row /\ pull' = pull /\ served' = served /\ clock' = clock
       /\ cursor' = cursor /\ known' = known
  BY <1>2, <1>8 DEF BeginWrite
<1>11. /\ writing' \in [DCs -> Write \cup {None}] /\ writing'[d] = w /\ usn' \in [DCs -> Nat]
       /\ \A e \in DCs : e # d => writing'[e] = writing[e]
  BY <1>1, <1>9, <1>10
<1>12. TypeOK'
  BY <1>10, <1>11, Typed, TypedAgain
<1>13. \A l \in Links : l[1] = d => ~Holding(pull[l])
  BY DEF BeginWrite, Free, Holding
<1>14. \A l \in Links : Holding(pull'[l]) => writing'[l[1]] = None
  BY <1>10, <1>11, <1>13, Ends DEF IInv, OneTask
<1>15. \A l, m \in Links : Holding(pull'[l]) /\ Holding(pull'[m]) /\ l[1] = m[1] => l = m
  BY <1>10 DEF IInv, OneTask
<1>16. WriteSound(row, d, w)
  BY <1>4, <1>7, <1>9 DEF WriteSound
<1>17. \A e \in DCs : ListKept(row', served'[e]) /\ WriteSound(row', e, writing'[e])
  BY <1>10, <1>11, <1>16 DEF IInv
<1>18. RowsKept(row') /\ \A l \in Links : CycleSound(row', l[1], pull'[l])
  BY <1>10 DEF IInv
<1> QED BY <1>12, <1>14, <1>15, <1>17, <1>18, IInvAgain

\* What build_directory_from_db makes of the rows rs of one store.
LEMMA ListingType ==
  ASSUME NEW rs \in [Users -> Row \cup {None}], NEW s \in Listings(rs)
  PROVE  /\ s \in Seq(Entry)
         /\ \A i \in DOMAIN s : /\ s[i].user \in Users /\ rs[s[i].user] # None
                                /\ s[i].meta = rs[s[i].user].obj
<1> DEFINE some == {v \in Users : rs[v] # None}
           entry(u) == [user |-> u, pw |-> rs[u].pw, meta |-> rs[u].obj]
           all == {entry(u) : u \in some}
           n == Cardinality(all)
<1>1. IsFiniteSet(some)
  BY FS_Subset, AdReplicationAssumption
<1>2. IsFiniteSet(all)
  <2>1. PICK f : f = [u \in some |-> entry(u)]
    OBVIOUS
  <2>2. f \in [some -> all] /\ \A x \in all : \E u \in some : f[u] = x
    BY <2>1
  <2>3. f \in Surjection(some, all)
    <3> HIDE DEF some, all
    <3> QED BY <2>2 DEF Surjection
  <2> HIDE DEF some, all
  <2> QED BY <1>1, <2>3, FS_Surjection
<1>3. n \in Nat
  BY <1>2, FS_CardinalityType
<1>4. s \in [1..n -> all]
  BY DEF Listings, SetToSeqs
<1>5. \A x \in all : x \in Entry /\ x.user \in Users /\ rs[x.user] # None /\ x.meta = rs[x.user].obj
  <2> SUFFICES ASSUME NEW u \in some PROVE entry(u) \in Entry
    OBVIOUS
  <2>1. rs[u] \in Row
    OBVIOUS
  <2>2. rs[u].pw \in Stamp /\ rs[u].obj \in Stamp
    BY <2>1 DEF Row
  <2> QED BY <2>2 DEF Entry
<1> HIDE DEF n, all
<1>6. s \in [1..n -> Entry]
  BY <1>4, <1>5
<1>7. s \in Seq(Entry)
  BY <1>3, <1>6
<1> QED BY <1>4, <1>5, <1>7

LEMMA RestartSound ==
  ASSUME IInv, NEW d \in DCs, Restart(d)
  PROVE  IInv'
<1>1. row \in RowTable /\ row[d] \in [Users -> Row \cup {None}] /\ served \in [DCs -> Seq(Entry)]
  BY Typed DEF RowTable
<1>2. PICK s \in Listings(row[d]) : served' = [served EXCEPT ![d] = s]
  BY DEF Restart
<1>3. /\ s \in Seq(Entry)
      /\ \A i \in DOMAIN s : /\ s[i].user \in Users /\ row[d][s[i].user] # None
                             /\ s[i].meta = row[d][s[i].user].obj
  BY <1>1, <1>2, ListingType
<1>4. ListKept(row, s)
  BY <1>3 DEF IInv, RowsKept, ListKept
<1>5. /\ writing' = [writing EXCEPT ![d] = None]
      /\ known' = [l \in Links |-> l[1] # d /\ known[l]]
      /\ pull' = [l \in Links |-> IF l[1] = d THEN IdlePull ELSE pull[l]]
      /\ clock' = clock /\ row' = row /\ usn' = usn /\ cursor' = cursor
  BY DEF Restart
<1>6. /\ served' \in [DCs -> Seq(Entry)] /\ served'[d] = s
      /\ \A e \in DCs : e # d => served'[e] = served[e]
  BY <1>1, <1>2, <1>3
<1>7. /\ writing' \in [DCs -> Write \cup {None}] /\ writing'[d] = None
      /\ \A e \in DCs : e # d => writing'[e] = writing[e]
  BY <1>5, Typed
<1>8. DOMAIN pull' = Links /\ \A l \in Links : pull'[l] = IdlePull \/ pull'[l] = pull[l]
  BY <1>5
<1>9. known' \in [Links -> BOOLEAN]
  BY <1>5, Typed
<1>10. CycleType(IdlePull) /\ ~Holding(IdlePull) /\ \A e : CycleSound(row, e, IdlePull)
  BY DEF CycleType, Holding, CycleSound
<1>11. \A l \in Links : CycleType(pull'[l])
  BY <1>8, <1>10, Typed
<1>12. TypeOK'
  BY <1>5, <1>6, <1>7, <1>8, <1>9, <1>11, Typed, TypedAgain
<1>13. \A l \in Links : Holding(pull'[l]) => Holding(pull[l])
  BY <1>8, <1>10
<1>14. \A l \in Links : Holding(pull'[l]) => writing'[l[1]] = None
  BY <1>7, <1>13, Ends DEF IInv, OneTask
<1>15. \A l, m \in Links : Holding(pull'[l]) /\ Holding(pull'[m]) /\ l[1] = m[1] => l = m
  BY <1>13 DEF IInv, OneTask
<1>16. WriteSound(row, d, None)
  BY DEF WriteSound
<1>17. \A e \in DCs : ListKept(row', served'[e]) /\ WriteSound(row', e, writing'[e])
  BY <1>4, <1>5, <1>6, <1>7, <1>16 DEF IInv
<1>18. RowsKept(row') /\ \A l \in Links : CycleSound(row', l[1], pull'[l])
  BY <1>5, <1>8, <1>10 DEF IInv
<1> QED BY <1>12, <1>14, <1>15, <1>17, <1>18, IInvAgain

\* Time passes, or nothing happens.
LEMMA RestSound ==
  ASSUME IInv, Tick \/ UNCHANGED vars
  PROVE  IInv'
<1>1. /\ row' = row /\ usn' = usn /\ served' = served /\ cursor' = cursor /\ known' = known
      /\ pull' = pull /\ writing' = writing
  BY DEF Tick, vars
<1>2. clock' \in 0..MaxClock
  <2>1. clock \in 0..MaxClock
    BY Typed
  <2> QED BY <2>1, AdReplicationAssumption DEF Tick, vars
<1>3. TypeOK'
  BY <1>1, <1>2, Typed, TypedAgain
<1>4. /\ \A l \in Links : Holding(pull[l]) => writing[l[1]] = None
      /\ \A l, m \in Links : Holding(pull[l]) /\ Holding(pull[m]) /\ l[1] = m[1] => l = m
  BY DEF IInv, OneTask
<1>5. /\ RowsKept(row) /\ \A l \in Links : CycleSound(row, l[1], pull[l])
      /\ \A d \in DCs : ListKept(row, served[d]) /\ WriteSound(row, d, writing[d])
  BY DEF IInv
<1> QED BY <1>1, <1>3, <1>4, <1>5, IInvAgain

LEMMA StepSound ==
  ASSUME IInv, ~Concurrent, [Next]_vars
  PROVE  IInv' /\ NotOlder(row, row')
<1>1. row' = row => NotOlder(row, row')
  BY Typed, SameTable
<1>2. CASE Tick \/ UNCHANGED vars
  BY <1>1, <1>2, RestSound DEF Tick, vars
<1>3. ASSUME NEW d \in DCs, NEW u \in Users, NEW b \in BOOLEAN, BeginWrite(d, u, b)
      PROVE  IInv' /\ NotOlder(row, row')
  BY <1>1, <1>3, BeginWriteSound DEF BeginWrite
<1>4. ASSUME NEW d \in DCs, CommitWrite(d) PROVE IInv' /\ NotOlder(row, row')
  BY <1>4, CommitWriteSound
<1>5. ASSUME NEW d \in DCs, Restart(d) PROVE IInv' /\ NotOlder(row, row')
  BY <1>1, <1>5, RestartSound DEF Restart
<1>6. ASSUME NEW l \in Links, BeginPull(l) PROVE IInv' /\ NotOlder(row, row')
  BY <1>1, <1>6, BeginPullSound DEF BeginPull
<1>7. ASSUME NEW l \in Links, ReadObject(l) PROVE IInv' /\ NotOlder(row, row')
  BY <1>1, <1>7, ReadObjectSound DEF ReadObject
<1>8. ASSUME NEW l \in Links, WriteObject(l) PROVE IInv' /\ NotOlder(row, row')
  BY <1>8, WriteObjectSound
<1>9. ASSUME NEW l \in Links, FinishPull(l) \/ FailPull(l) PROVE IInv' /\ NotOlder(row, row')
  <2>1. row' = row
    BY <1>9 DEF FinishPull, FailPull
  <2> QED BY <1>1, <1>9, <2>1, EndPullSound
<1> QED BY <1>2, <1>3, <1>4, <1>5, <1>6, <1>7, <1>8, <1>9 DEF Next, PullStep

LEMMA SeedSound ==
  ASSUME NEW d \in DCs, NEW u \in Users
  PROVE  SeedStamp(d, u) \in Stamp /\ SeedStamp(d, u).dsa = d /\ Cardinality(Seed[d]) \in Nat
<1>1. IsFiniteSet(Seed[d]) /\ IsFiniteSet({v \in Seed[d] : v <= u})
  BY FS_Subset, AdReplicationAssumption
<1>2. Cardinality(Seed[d]) \in Nat /\ Cardinality({v \in Seed[d] : v <= u}) \in Nat
  BY <1>1, FS_CardinalityType
<1> QED BY <1>2 DEF SeedStamp, Stamp

LEMMA InitSound ==
  ASSUME Init
  PROVE  IInv
<1>1. ASSUME NEW d \in DCs, NEW u \in Users
      PROVE  /\ row[d][u] \in Row \cup {None}
             /\ row[d][u] # None => row[d][u] \in Row /\ row[d][u].obj = SeedStamp(d, u)
  <2>1. PICK r : r = [pw |-> SeedStamp(d, u), disabled |-> FALSE, obj |-> SeedStamp(d, u), sec |-> None]
    OBVIOUS
  <2>2. r \in Row /\ r.obj = SeedStamp(d, u)
    BY <2>1, SeedSound DEF Row
  <2>3. row[d][u] = r \/ row[d][u] = None
    BY <2>1 DEF Init
  <2> QED BY <2>2, <2>3
<1>2. row \in RowTable
  <2>1. row = [d \in DCs |-> [u \in Users |-> row[d][u]]]
    BY DEF Init
  <2> QED BY <1>1, <2>1 DEF RowTable
<1>3. RowsKept(row)
  <2> SUFFICES ASSUME NEW d \in DCs, NEW u \in Users, row[d][u] # None
               PROVE  KeptIn(row, u, row[d][u].obj)
    BY DEF RowsKept
  <2>1. row[d][u] \in Row /\ row[d][u].obj.dsa = d
    BY <1>1, SeedSound
  <2> QED BY <1>2, <2>1, OwnStampKept
<1>4. ASSUME NEW d \in DCs
      PROVE  served[d] \in Seq(Entry) /\ ListKept(row, served[d])
  <2>1. served[d] \in Listings(row[d]) /\ row[d] \in [Users -> Row \cup {None}]
    BY <1>2 DEF Init, RowTable
  <2>2. /\ served[d] \in Seq(Entry)
        /\ \A i \in DOMAIN served[d] :
             /\ served[d][i].user \in Users /\ row[d][served[d][i].user] # None
             /\ served[d][i].meta = row[d][served[d][i].user].obj
    BY <2>1, ListingType
  <2> QED BY <1>3, <2>2 DEF RowsKept, ListKept
<1>5. served \in [DCs -> Seq(Entry)]
  BY <1>4 DEF Init
<1>6. usn \in [DCs -> Nat]
  <2>1. \A d \in DCs : Cardinality(Seed[d]) \in Nat
    BY FS_Subset, FS_CardinalityType, AdReplicationAssumption
  <2> QED BY <2>1 DEF Init
<1>7. \A l \in Links : pull[l] = IdlePull
  BY DEF Init
<1>8. \A d \in DCs : writing[d] = None
  BY DEF Init
<1>9. TypeOK
  BY <1>2, <1>5, <1>6, <1>7, AdReplicationAssumption DEF Init, TypeOK, RowTable
<1>10. OneTask /\ \A l \in Links : CycleSound(row, l[1], pull[l])
  BY <1>7 DEF OneTask, Holding, CycleSound
<1>11. \A d \in DCs : WriteSound(row, d, writing[d])
  BY <1>8 DEF WriteSound
<1> QED BY <1>3, <1>4, <1>9, <1>10, <1>11 DEF IInv

\* Masters that replicate from each other, in any topology, through restarts, failed
\* cycles and lost cursors: the tables keep their types, a change of d's own that a
\* source serves back to d is one d holds or has replaced by a newer one (what the loop
\* dampening of get_nc_changes_response rests on), and no local or merged write puts an
\* object back to an older stamp. For tasks of one controller that do not overlap.
THEOREM MastersStaySound == ASSUME ~Concurrent PROVE Spec => MastersSound
<1>1. Init => IInv
  BY InitSound
<1>2. IInv /\ [Next]_vars => IInv' /\ NotOlder(row, row')
  BY StepSound, SMTT(60)
<1>3. IInv => TypeOK /\ OwnChangesHeld
  <2> SUFFICES ASSUME IInv PROVE OwnChangesHeld
    BY DEF IInv
  <2>1. \A l \in Links : ListKept(row, served[l[2]])
    BY Ends DEF IInv
  <2> QED BY <2>1 DEF OwnChangesHeld, ListKept, KeptIn, Holds
<1>4. NotOlder(row, row') => [Advance]_vars
  BY DEF NotOlder, Advance
<1>5. Init /\ [][Next]_vars => [](TypeOK /\ OwnChangesHeld)
  BY <1>1, <1>2, <1>3, PTL
<1>6. Init /\ [][Next]_vars => ObjectsAdvance
  BY <1>1, <1>2, <1>4, PTL DEF ObjectsAdvance
<1> QED BY <1>5, <1>6, PTL DEF Spec, MastersSound

----------------------------------------------------------------------------
(* Replicas of one writable controller.                                        *)
(*                                                                             *)
(* w is the only writer and the only source. Then every row and every entry    *)
(* carries the password of its stamp, on a replica the secret's stamp is the   *)
(* object's, nothing is ever dampened, and a cycle in flight owes exactly the  *)
(* positions up to its mark that the replica does not hold yet.                *)

Star(w) ==
  /\ w \in DCs /\ Writers \subseteq {w}
  /\ \A d \in DCs : d # w => Seed[d] = {}
  /\ \A l \in Links : l[1] # w /\ l[2] = w

HeldIn(rs, d, o) == rs[d][o.user] # None /\ ~WinsOver(o.meta, rs[d][o.user].obj)

\* By the rows rs, d holds the first n objects of the list s.
Behind(rs, d, s, n) == \A i \in DOMAIN s : i <= n => HeldIn(rs, d, s[i])

\* What the cycle p would put behind the cursor is held or still to be applied.
Progress(rs, d, s, p) ==
  p # IdlePull =>
    \A i \in DOMAIN s : i <= p.to =>
      HeldIn(rs, d, s[i]) \/ (i \in DOMAIN p.objects /\ p.objects[i] = s[i])

EntryPlain(w, o) == o.pw = o.meta /\ o.meta.dsa = w

RowPlain(w, d, r) == r.pw = r.obj /\ r.obj.dsa = w /\ (d # w => r.sec = r.obj)

\* The merged row of a cycle covers the object it was made from.
CyclePlain(w, d, p) ==
  p # IdlePull =>
    /\ \A i \in DOMAIN p.objects : EntryPlain(w, p.objects[i])
    /\ p.pend # None =>
         /\ RowPlain(w, d, p.pend.row)
         /\ First(p) \in DOMAIN p.objects
         /\ p.pend.user = p.objects[First(p)].user
         /\ ~WinsOver(p.objects[First(p)].meta, p.pend.row.obj)

Plain(w) ==
  /\ \A d \in DCs, u \in Users : row[d][u] # None => RowPlain(w, d, row[d][u])
  /\ \A i \in DOMAIN served[w] : EntryPlain(w, served[w][i])
  /\ \A d \in DCs : writing[d] # None => d = w
  /\ \A l \in Links : CyclePlain(w, l[1], pull[l])

Follows(w) ==
  restarts[w] = 0 =>
    \A l \in Links : /\ Behind(row, l[1], served[w], cursor[l[1]][w])
                     /\ Progress(row, l[1], served[w], pull[l])

RInv(w) == restarts \in [DCs -> Nat] /\ Plain(w) /\ Follows(w)

LEMMA HeldStays ==
  ASSUME NEW rs \in RowTable, NEW rt \in RowTable, NotOlder(rs, rt),
         NEW d \in DCs, NEW o \in Entry, HeldIn(rs, d, o)
  PROVE  HeldIn(rt, d, o)
<1>1. o.user \in Users /\ o.meta \in Stamp
  BY DEF Entry
<1>2. rs[d][o.user] # None /\ rs[d][o.user] \in Row \cup {None} /\ rt[d][o.user] \in Row \cup {None}
  BY <1>1 DEF HeldIn, RowTable
<1>3. rt[d][o.user] # None /\ ~WinsOver(rs[d][o.user].obj, rt[d][o.user].obj)
  BY <1>1, <1>2 DEF NotOlder
<1>4. rs[d][o.user].obj \in Stamp /\ rt[d][o.user].obj \in Stamp
  BY <1>2, <1>3 DEF Row
<1>5. ~WinsOver(o.meta, rt[d][o.user].obj)
  BY <1>1, <1>3, <1>4, StampOrder DEF HeldIn
<1> QED BY <1>3, <1>5 DEF HeldIn

\* Rows that advance do not undo what a replica holds.
LEMMA FollowingStays ==
  ASSUME NEW rs \in RowTable, NEW rt \in RowTable, NotOlder(rs, rt), NEW d \in DCs,
         NEW s \in Seq(Entry), NEW n, NEW p
  PROVE  /\ Behind(rs, d, s, n) => Behind(rt, d, s, n)
         /\ Progress(rs, d, s, p) => Progress(rt, d, s, p)
<1>1. \A i \in DOMAIN s : s[i] \in Entry
  OBVIOUS
<1>2. \A i \in DOMAIN s : HeldIn(rs, d, s[i]) => HeldIn(rt, d, s[i])
  BY <1>1, HeldStays
<1> QED BY <1>2 DEF Behind, Progress

\* RInv of the next state, with the primes where the steps below have them.
LEMMA RInvAgain ==
  ASSUME NEW w, restarts' \in [DCs -> Nat],
         \A d \in DCs, u \in Users : row'[d][u] # None => RowPlain(w, d, row'[d][u]),
         \A i \in DOMAIN served'[w] : EntryPlain(w, served'[w][i]),
         \A d \in DCs : writing'[d] # None => d = w,
         \A l \in Links : CyclePlain(w, l[1], pull'[l]),
         restarts'[w] = 0 =>
           \A l \in Links : /\ Behind(row', l[1], served'[w], cursor'[l[1]][w])
                            /\ Progress(row', l[1], served'[w], pull'[l])
  PROVE  RInv(w)'
<1>1. Plain(w)'
  BY DEF Plain, RowPlain, EntryPlain, CyclePlain, WinsOver, First, Min, Links, IdlePull
<1>2. Follows(w)'
  BY DEF Follows, Behind, Progress, HeldIn, WinsOver, Links, IdlePull
<1> QED BY <1>1, <1>2 DEF RInv

\* Replica rows stay plain under the merge.
LEMMA MergedPlain ==
  ASSUME NEW w, NEW d, d # w, NEW old \in Row \cup {None}, NEW o \in Entry,
         EntryPlain(w, o), old # None => RowPlain(w, d, old)
  PROVE  RowPlain(w, d, Merged(old, o))
<1>1. CASE old = None
  <2>1. Merged(old, o) = [pw |-> o.pw, disabled |-> FALSE, obj |-> o.meta, sec |-> o.meta]
    BY <1>1 DEF Merged
  <2> QED BY <2>1 DEF EntryPlain, RowPlain
<1>2. CASE old # None
  <2>1. old.pw = old.obj /\ old.obj.dsa = w /\ old.sec = old.obj
    BY <1>2 DEF RowPlain
  <2> DEFINE object == Wins(o.meta, old.obj)
  <2>2. Merged(old, o) = [pw |-> IF object THEN o.pw ELSE old.pw,
                          disabled |-> ~object /\ old.disabled,
                          obj |-> IF object THEN o.meta ELSE old.obj,
                          sec |-> IF object THEN o.meta ELSE old.sec]
    BY <1>2, <2>1 DEF Merged
  <2> HIDE DEF object
  <2> QED BY <2>1, <2>2 DEF EntryPlain, RowPlain
<1> QED BY <1>1, <1>2

\* The steps that move one cycle and its cursor, and leave the rest.
LEMMA CycleFollows ==
  ASSUME NEW w, RInv(w), NEW l \in Links, NEW p, pull' = [pull EXCEPT ![l] = p], DOMAIN pull = Links,
         row' = row, served' = served, writing' = writing, restarts' = restarts,
         CyclePlain(w, l[1], p),
         \A m \in Links : m # l => cursor'[m[1]][w] = cursor[m[1]][w],
         restarts[w] = 0 =>
           /\ Behind(row, l[1], served[w], cursor'[l[1]][w])
           /\ Progress(row, l[1], served[w], p)
  PROVE  RInv(w)'
<1>1. pull'[l] = p /\ \A m \in Links : m # l => pull'[m] = pull[m]
  OBVIOUS
<1>2. \A m \in Links : CyclePlain(w, m[1], pull'[m])
  BY <1>1 DEF RInv, Plain
<1>3. restarts'[w] = 0 =>
        \A m \in Links : /\ Behind(row', m[1], served'[w], cursor'[m[1]][w])
                         /\ Progress(row', m[1], served'[w], pull'[m])
  BY <1>1 DEF RInv, Follows
<1>4. /\ \A d \in DCs, u \in Users : row'[d][u] # None => RowPlain(w, d, row'[d][u])
      /\ \A i \in DOMAIN served'[w] : EntryPlain(w, served'[w][i])
      /\ \A d \in DCs : writing'[d] # None => d = w
      /\ restarts' \in [DCs -> Nat]
  BY DEF RInv, Plain
<1> QED BY <1>2, <1>3, <1>4, RInvAgain

\* Two links into one replica are one: both come from w.
LEMMA StarLinks ==
  ASSUME NEW w, Star(w), NEW l \in Links, NEW m \in Links, l[1] = m[1]
  PROVE  l = m
<1>1. l = <<l[1], l[2]>> /\ m = <<m[1], m[2]>>
  BY DEF Links
<1>2. l[2] = w /\ m[2] = w
  BY DEF Star
<1> QED BY <1>1, <1>2

LEMMA BeginPullFollows ==
  ASSUME IInv, NEW w, Star(w), RInv(w), NEW l \in Links, BeginPull(l)
  PROVE  RInv(w)'
<1>1. /\ l[1] \in DCs /\ l[2] = w /\ w \in DCs /\ cursor[l[1]][w] \in Nat
      /\ served[w] \in Seq(Entry) /\ Len(served[w]) \in Nat /\ DOMAIN pull = Links
  BY Ends, Typed DEF Star
<1>2. PICK from : from = IF known[l] THEN cursor[l[1]][w] ELSE 0
  OBVIOUS
<1>3. PICK vector : vector = IF from = 0 THEN [x \in DCs |-> 0] ELSE UpToDateVector(l[1])
  OBVIOUS
<1>4. from \in Nat
  BY <1>1, <1>2
<1>5. pull' = [pull EXCEPT ![l] = Reply(w, from, vector)]
  BY <1>1, <1>2, <1>3 DEF BeginPull
<1> DEFINE high == Len(served[w]) + WellKnown
           last == Least(from + PageMax, high)
           page == (from + 1)..Least(last, Len(served[w]))
           sent == {i \in page : ~Dampened(served[w][i], w, vector)}
<1>6. PICK p : p = [at |-> "apply", pend |-> None, to |-> Most(last, from),
                    objects |-> [i \in sent |-> served[w][i]]]
  OBVIOUS
<1>7. p = Reply(w, from, vector)
  BY <1>6 DEF Reply
<1>8. /\ p.at = "apply" /\ p.pend = None /\ p.to = Most(last, from) /\ DOMAIN p.objects = sent
      /\ \A i \in sent : p.objects[i] = served[w][i]
  BY <1>6
<1>9. last \in Int
  BY <1>1, <1>4, AdReplicationAssumption DEF Least
<1>10. \A i \in 1..Len(served[w]) : i <= Most(last, from) => i <= from \/ i \in page
  <2> SUFFICES ASSUME NEW i \in 1..Len(served[w]), i <= Most(last, from), ~(i <= from)
               PROVE  i \in page
    OBVIOUS
  <2>1. i <= last
    BY <1>4, <1>9 DEF Most
  <2>2. i <= Least(last, Len(served[w])) /\ Least(last, Len(served[w])) \in Int
    BY <1>1, <1>9, <2>1 DEF Least
  <2>3. page = (from + 1)..Least(last, Len(served[w]))
    OBVIOUS
  <2> HIDE DEF page, last
  <2> QED BY <1>4, <2>2, <2>3
<1>11. \A i \in page : i \in 1..Len(served[w])
  <2>1. Least(last, Len(served[w])) \in Int /\ Least(last, Len(served[w])) <= Len(served[w])
    BY <1>1, <1>9 DEF Least
  <2>2. page = (from + 1)..Least(last, Len(served[w]))
    OBVIOUS
  <2> HIDE DEF page, last
  <2> QED BY <1>1, <1>4, <2>1, <2>2
<1> HIDE DEF page, last
<1>12. \A i \in DOMAIN served[w] : EntryPlain(w, served[w][i])
  BY DEF RInv, Plain
<1>13. sent = page
  BY <1>1, <1>11, <1>12 DEF Dampened, EntryPlain
<1>14. CyclePlain(w, l[1], p)
  BY <1>1, <1>8, <1>11, <1>12, <1>13 DEF CyclePlain
<1>15. ASSUME restarts[w] = 0
       PROVE  /\ Behind(row, l[1], served[w], cursor[l[1]][w])
              /\ Progress(row, l[1], served[w], p)
  <2>1. Behind(row, l[1], served[w], cursor[l[1]][w])
    BY <1>15 DEF RInv, Follows
  <2>2. \A i \in 1..Len(served[w]) : i <= from => HeldIn(row, l[1], served[w][i])
    BY <1>1, <1>2, <2>1 DEF Behind
  <2>3. Progress(row, l[1], served[w], p)
    BY <1>1, <1>8, <1>10, <1>13, <2>2 DEF Progress
  <2> QED BY <2>1, <2>3
<1>16. /\ row' = row /\ served' = served /\ writing' = writing /\ restarts' = restarts
       /\ cursor' = cursor /\ pull' = [pull EXCEPT ![l] = p]
  BY <1>5, <1>7 DEF BeginPull
<1>17. /\ \A m \in Links : m # l => cursor'[m[1]][w] = cursor[m[1]][w]
       /\ restarts[w] = 0 =>
            /\ Behind(row, l[1], served[w], cursor'[l[1]][w])
            /\ Progress(row, l[1], served[w], p)
  BY <1>15, <1>16
<1> QED BY <1>1, <1>14, <1>16, <1>17, CycleFollows

\* A cycle that has dealt with its next object, which the replica holds.
LEMMA PassedFollows ==
  ASSUME NEW w, NEW d, NEW rs, NEW s, NEW p, p # IdlePull, CyclePlain(w, d, p),
         Progress(rs, d, s, p), First(p) \in DOMAIN s /\ p.objects[First(p)] = s[First(p)]
                                  => HeldIn(rs, d, s[First(p)])
  PROVE  Progress(rs, d, s, Passed(p))
<1>1. PICK q : q = Passed(p)
  OBVIOUS
<1>2. /\ q.to = p.to /\ DOMAIN q.objects = DOMAIN p.objects \ {First(p)}
      /\ \A i \in DOMAIN q.objects : q.objects[i] = p.objects[i]
  BY <1>1 DEF Passed
<1> QED BY <1>1, <1>2 DEF Progress

LEMMA PassedPlain ==
  ASSUME NEW w, NEW d, NEW p, p # IdlePull, CyclePlain(w, d, p)
  PROVE  CyclePlain(w, d, Passed(p))
<1>1. PICK q : q = Passed(p)
  OBVIOUS
<1>2. /\ q.pend = None /\ DOMAIN q.objects = DOMAIN p.objects \ {First(p)}
      /\ \A i \in DOMAIN q.objects : q.objects[i] = p.objects[i]
  BY <1>1 DEF Passed
<1> QED BY <1>1, <1>2 DEF CyclePlain

LEMMA ReadObjectFollows ==
  ASSUME IInv, NEW w, Star(w), RInv(w), NEW l \in Links, ReadObject(l)
  PROVE  RInv(w)'
<1>1. PICK d, p : d = l[1] /\ p = pull[l]
  OBVIOUS
<1>2. d \in DCs /\ d # w /\ CycleType(p) /\ CyclePlain(w, d, p) /\ DOMAIN pull = Links
  BY <1>1, Ends, Typed DEF Star, RInv, Plain
<1>3. p # IdlePull /\ DOMAIN p.objects # {} /\ p.pend = None
  BY <1>1 DEF ReadObject
<1>4. PICK o : o = p.objects[First(p)]
  OBVIOUS
<1>5. First(p) \in DOMAIN p.objects
  <2>1. DOMAIN p.objects \subseteq Nat
    BY <1>2, <1>3 DEF CycleType
  <2> QED BY <1>3, <2>1, MinIn DEF First
<1>6. o \in Entry /\ EntryPlain(w, o)
  BY <1>2, <1>3, <1>4, <1>5 DEF CycleType, CyclePlain
<1>7. PICK old : old = row[d][o.user]
  OBVIOUS
<1>8. o.user \in Users /\ old \in Row \cup {None}
  BY <1>2, <1>6, <1>7, Typed DEF Entry, RowTable
<1>9. old # None => RowPlain(w, d, old)
  BY <1>2, <1>7, <1>8 DEF RInv, Plain
<1>10. PICK r : r = Merged(old, o)
  OBVIOUS
<1>11. r \in Row /\ ~WinsOver(o.meta, r.obj) /\ RowPlain(w, d, r)
  BY <1>2, <1>6, <1>8, <1>9, <1>10, MergedRow, MergedPlain
<1>12. PICK q : q = Merging(p, o.user, r)
  OBVIOUS
<1>13. /\ row' = row /\ writing' = writing /\ served' = served /\ cursor' = cursor
       /\ restarts' = restarts
  BY DEF ReadObject
<1>14. restarts[w] = 0 =>
         Behind(row, d, served[w], cursor[d][w]) /\ Progress(row, d, served[w], p)
  BY <1>1, SMTT(60) DEF RInv, Follows
<1>15. \/ r = old /\ pull' = [pull EXCEPT ![l] = Passed(p)]
       \/ pull' = [pull EXCEPT ![l] = q]
  BY <1>1, <1>4, <1>7, <1>10, <1>12 DEF ReadObject
<1>16. CASE r = old /\ pull' = [pull EXCEPT ![l] = Passed(p)]
  <2>1. PICK t : t = Passed(p)
    OBVIOUS
  <2>2. HeldIn(row, d, o)
    BY <1>7, <1>11, <1>16, NoneAssumption DEF HeldIn
  <2>3. CyclePlain(w, d, t)
    BY <1>2, <1>3, <2>1, PassedPlain
  <2>4. restarts[w] = 0 => Progress(row, d, served[w], t)
    BY <1>2, <1>3, <1>4, <1>14, <2>1, <2>2, PassedFollows
  <2>5. /\ pull' = [pull EXCEPT ![l] = t] /\ CyclePlain(w, l[1], t)
        /\ \A m \in Links : m # l => cursor'[m[1]][w] = cursor[m[1]][w]
        /\ restarts[w] = 0 =>
             /\ Behind(row, l[1], served[w], cursor'[l[1]][w])
             /\ Progress(row, l[1], served[w], t)
    BY <1>1, <1>13, <1>14, <1>16, <2>1, <2>3, <2>4
  <2> QED BY <1>2, <1>13, <2>5, CycleFollows
<1>17. CASE pull' = [pull EXCEPT ![l] = q]
  <2>1. /\ q.to = p.to /\ q.objects = p.objects
        /\ q.pend = [user |-> o.user, row |-> r]
    BY <1>12 DEF Merging
  <2>2. q.pend.user = o.user /\ q.pend.row = r /\ First(q) = First(p)
    BY <2>1 DEF First
  <2>3. CyclePlain(w, d, q)
    BY <1>2, <1>3, <1>4, <1>5, <1>11, <2>1, <2>2 DEF CyclePlain
  <2>4. restarts[w] = 0 => Progress(row, d, served[w], q)
    BY <1>3, <1>14, <2>1 DEF Progress
  <2>5. /\ CyclePlain(w, l[1], q)
        /\ \A m \in Links : m # l => cursor'[m[1]][w] = cursor[m[1]][w]
        /\ restarts[w] = 0 =>
             /\ Behind(row, l[1], served[w], cursor'[l[1]][w])
             /\ Progress(row, l[1], served[w], q)
    BY <1>1, <1>13, <1>14, <2>3, <2>4
  <2> QED BY <1>2, <1>13, <1>17, <2>5, CycleFollows
<1> QED BY <1>15, <1>16, <1>17

LEMMA EndPullFollows ==
  ASSUME IInv, NEW w, Star(w), RInv(w), NEW l \in Links, FinishPull(l) \/ FailPull(l)
  PROVE  RInv(w)'
<1>1. PICK d, p : d = l[1] /\ p = pull[l]
  OBVIOUS
<1>2. /\ d \in DCs /\ l[2] = w /\ w \in DCs /\ CycleType(p) /\ DOMAIN pull = Links
      /\ cursor \in [DCs -> [DCs -> Nat]] /\ cursor[d][w] \in Nat /\ served[w] \in Seq(Entry)
  BY <1>1, Ends, Typed DEF Star
<1>3. /\ row' = row /\ writing' = writing /\ served' = served /\ restarts' = restarts
      /\ pull' = [pull EXCEPT ![l] = IdlePull] /\ p # IdlePull
  BY <1>1 DEF FinishPull, FailPull
<1>4. p.to \in Nat
  BY <1>2, <1>3 DEF CycleType
<1>5. restarts[w] = 0 =>
        Behind(row, d, served[w], cursor[d][w]) /\ Progress(row, d, served[w], p)
  BY <1>1 DEF RInv, Follows
<1>6. PICK n : /\ \/ cursor' = [cursor EXCEPT ![d][w] = n]
                  \/ cursor' = cursor /\ n = cursor[d][w]
               /\ restarts[w] = 0 => Behind(row, d, served[w], n)
  <2>1. \A i \in DOMAIN served[w] : i \in Nat /\ i # 0
    BY <1>2
  <2>2. CASE FinishPull(l)
    <3>1. PICK n : n = Most(cursor[d][w], p.to)
      OBVIOUS
    <3>2. cursor' = [cursor EXCEPT ![d][w] = n] /\ DOMAIN p.objects = {}
      BY <1>1, <1>2, <2>2, <3>1 DEF FinishPull
    <3>3. \A i \in DOMAIN served[w] : i <= n => i <= cursor[d][w] \/ i <= p.to
      BY <1>2, <1>4, <2>1, <3>1 DEF Most
    <3>4. restarts[w] = 0 => Behind(row, d, served[w], n)
      BY <1>3, <1>5, <3>2, <3>3 DEF Behind, Progress
    <3> QED BY <3>2, <3>4
  <2>3. CASE FailPull(l)
    <3>1. cursor' = cursor \/ cursor' = [cursor EXCEPT ![d][w] = 0]
      BY <1>1, <1>2, <2>3 DEF FailPull
    <3>2. CASE cursor' = cursor
      <4>1. PICK n : n = cursor[d][w]
        OBVIOUS
      <4>2. restarts[w] = 0 => Behind(row, d, served[w], n)
        BY <1>5, <4>1
      <4> QED BY <3>2, <4>1, <4>2
    <3>3. CASE cursor' = [cursor EXCEPT ![d][w] = 0]
      <4>1. Behind(row, d, served[w], 0)
        BY <2>1 DEF Behind
      <4> QED BY <3>3, <4>1
    <3> QED BY <3>1, <3>2, <3>3
  <2> QED BY <2>2, <2>3
<1>7. /\ cursor'[d][w] = n
      /\ \A e \in DCs : e # d => cursor'[e][w] = cursor[e][w]
  BY <1>2, <1>6
<1>8. \A m \in Links : m # l => cursor'[m[1]][w] = cursor[m[1]][w]
  BY <1>1, <1>7, Ends, StarLinks
<1>9. CyclePlain(w, d, IdlePull) /\ Progress(row, d, served[w], IdlePull)
  BY DEF CyclePlain, Progress
<1>10. PICK q : q = IdlePull
  OBVIOUS
<1>11. /\ CyclePlain(w, l[1], q) /\ pull' = [pull EXCEPT ![l] = q]
       /\ restarts[w] = 0 =>
            /\ Behind(row, l[1], served[w], cursor'[l[1]][w])
            /\ Progress(row, l[1], served[w], q)
  BY <1>1, <1>3, <1>6, <1>7, <1>9, <1>10
<1>12. /\ row' = row /\ served' = served /\ writing' = writing /\ restarts' = restarts
       /\ DOMAIN pull = Links
  BY <1>2, <1>3
<1> QED BY <1>8, <1>11, <1>12, CycleFollows

\* A row of d is written and the cycle that wrote it, if any, moves on.
LEMMA RowFollows ==
  ASSUME IInv, IInv', NotOlder(row, row'), NEW w, Star(w), RInv(w),
         NEW d \in DCs, NEW u \in Users, NEW r \in Row,
         row' = [row EXCEPT ![d][u] = r], RowPlain(w, d, r),
         \A e \in DCs : writing'[e] # None => writing[e] # None,
         \A l \in Links : CyclePlain(w, l[1], pull'[l]),
         restarts[w] = 0 => \A l \in Links : Progress(row', l[1], served[w], pull'[l]),
         served' = served, cursor' = cursor, restarts' = restarts
  PROVE  RInv(w)'
<1>1. row \in RowTable /\ row' \in RowTable /\ served[w] \in Seq(Entry)
  BY Typed DEF IInv, TypeOK, RowTable, Star
<1>2. ASSUME NEW e \in DCs, NEW v \in Users, row'[e][v] # None
      PROVE  RowPlain(w, e, row'[e][v])
  <2>1. CASE e = d /\ v = u
    <3>1. row'[e][v] = r
      BY <1>1, <2>1 DEF RowTable
    <3> QED BY <2>1, <3>1
  <2>2. CASE ~(e = d /\ v = u)
    <3>1. row'[e][v] = row[e][v]
      BY <1>1, <2>2 DEF RowTable
    <3> QED BY <1>2, <3>1 DEF RInv, Plain
  <2> QED BY <2>1, <2>2
<1>3. ASSUME restarts[w] = 0, NEW l \in Links
      PROVE  Behind(row', l[1], served[w], cursor[l[1]][w])
  <2>1. Behind(row, l[1], served[w], cursor[l[1]][w])
    BY <1>3 DEF RInv, Follows
  <2> QED BY <1>1, <2>1, Ends, FollowingStays
<1>4. restarts'[w] = 0 =>
        \A l \in Links : /\ Behind(row', l[1], served'[w], cursor'[l[1]][w])
                         /\ Progress(row', l[1], served'[w], pull'[l])
  BY <1>3
<1>5. /\ \A i \in DOMAIN served'[w] : EntryPlain(w, served'[w][i])
      /\ \A e \in DCs : writing'[e] # None => e = w
      /\ restarts' \in [DCs -> Nat]
  BY DEF RInv, Plain
<1> QED BY <1>2, <1>4, <1>5, RInvAgain

LEMMA CommitWriteFollows ==
  ASSUME IInv, IInv', NotOlder(row, row'), NEW w, Star(w), RInv(w), NEW d \in DCs, CommitWrite(d)
  PROVE  RInv(w)'
<1>1. PICK t : t = writing[d]
  OBVIOUS
<1>2. t \in Write /\ t # None /\ WriteSound(row, d, t) /\ d = w
  BY <1>1, Typed DEF CommitWrite, IInv, RInv, Plain
<1>3. PICK u, old : u = t.user /\ old = row[d][u]
  OBVIOUS
<1>4. u \in Users /\ old \in Row \cup {None} /\ row \in RowTable /\ served[w] \in Seq(Entry)
  BY <1>2, <1>3, Typed DEF Write, RowTable
<1>5. PICK r : r = Written(old, t)
  OBVIOUS
<1>6. r = [pw |-> t.stamp, disabled |-> t.disabled, obj |-> t.stamp,
           sec |-> IF old = None THEN None ELSE old.sec]
  BY <1>5 DEF Written
<1>7. r \in Row
  <2>1. t.stamp \in Stamp /\ t.disabled \in BOOLEAN
    BY <1>2 DEF Write
  <2>2. old # None => old.sec \in Stamp \cup {None}
    BY <1>4 DEF Row
  <2> QED BY <1>6, <2>1, <2>2 DEF Row
<1>8. t.stamp.dsa = w
  BY <1>2 DEF WriteSound
<1>9. RowPlain(w, d, r)
  BY <1>2, <1>6, <1>8 DEF RowPlain
<1>10. row' = [row EXCEPT ![d][u] = r]
  BY <1>1, <1>3, <1>5 DEF CommitWrite
<1>11. /\ pull' = pull /\ served' = served /\ cursor' = cursor /\ restarts' = restarts
       /\ writing' = [writing EXCEPT ![d] = None]
  BY DEF CommitWrite
<1>12. \A e \in DCs : writing'[e] # None => writing[e] # None
  BY <1>11, Typed
<1>13. \A l \in Links : CyclePlain(w, l[1], pull'[l])
  BY <1>11 DEF RInv, Plain
<1>14. ASSUME restarts[w] = 0, NEW l \in Links PROVE Progress(row', l[1], served[w], pull'[l])
  <2>1. row' \in RowTable
    BY DEF IInv, TypeOK, RowTable
  <2>2. Progress(row, l[1], served[w], pull[l])
    BY <1>14 DEF RInv, Follows
  <2> QED BY <1>4, <1>11, <2>1, <2>2, Ends, FollowingStays
<1> QED BY <1>4, <1>7, <1>9, <1>10, <1>11, <1>12, <1>13, <1>14, RowFollows

LEMMA WriteObjectFollows ==
  ASSUME IInv, IInv', NotOlder(row, row'), NEW w, Star(w), RInv(w), NEW k \in Links, WriteObject(k)
  PROVE  RInv(w)'
<1>1. PICK d, p : d = k[1] /\ p = pull[k]
  OBVIOUS
<1>2. /\ d \in DCs /\ CycleType(p) /\ CyclePlain(w, d, p) /\ row \in RowTable
      /\ DOMAIN pull = Links /\ served[w] \in Seq(Entry)
  BY <1>1, Ends, Typed DEF RInv, Plain, Star
<1>3. p # IdlePull /\ p.pend # None
  BY <1>1 DEF WriteObject
<1>4. PICK u, r : u = p.pend.user /\ r = p.pend.row
  OBVIOUS
<1>5. u \in Users /\ r \in Row
  BY <1>2, <1>3, <1>4 DEF CycleType, Pending
<1>6. /\ RowPlain(w, d, r) /\ First(p) \in DOMAIN p.objects /\ u = p.objects[First(p)].user
      /\ ~WinsOver(p.objects[First(p)].meta, r.obj)
  BY <1>2, <1>3, <1>4 DEF CyclePlain
<1>7. row' = [row EXCEPT ![d][u] = r]
  BY <1>1, <1>4 DEF WriteObject
<1>8. row'[d][u] = r /\ row' \in RowTable
  BY <1>2, <1>5, <1>7 DEF RowTable
<1>9. HeldIn(row', d, p.objects[First(p)])
  BY <1>5, <1>6, <1>8, NoneAssumption DEF HeldIn
<1>10. PICK q : q = Passed(p)
  OBVIOUS
<1>11. /\ pull' = [pull EXCEPT ![k] = q] /\ writing' = writing
       /\ served' = served /\ cursor' = cursor /\ restarts' = restarts
  BY <1>1, <1>10 DEF WriteObject
<1>12. pull'[k] = q /\ \A l \in Links : l # k => pull'[l] = pull[l]
  BY <1>2, <1>11
<1>13. CyclePlain(w, d, q)
  BY <1>2, <1>3, <1>10, PassedPlain
<1>14. \A l \in Links : CyclePlain(w, l[1], pull'[l])
  BY <1>1, <1>12, <1>13 DEF RInv, Plain
<1>15. ASSUME restarts[w] = 0, NEW l \in Links PROVE Progress(row', l[1], served[w], pull'[l])
  <2>1. Progress(row, l[1], served[w], pull[l])
    BY <1>15 DEF RInv, Follows
  <2>2. Progress(row', l[1], served[w], pull[l])
    BY <1>2, <1>8, <2>1, Ends, FollowingStays
  <2>3. CASE l = k
    <3>1. Progress(row', d, served[w], p)
      BY <1>1, <2>2, <2>3
    <3>2. Progress(row', d, served[w], q)
      BY <1>2, <1>3, <1>9, <1>10, <3>1, PassedFollows
    <3> QED BY <1>1, <1>12, <2>3, <3>2
  <2>4. CASE l # k
    BY <1>12, <2>2, <2>4
  <2> QED BY <2>3, <2>4
<1>16. \A e \in DCs : writing'[e] # None => writing[e] # None
  BY <1>11
<1> QED BY <1>2, <1>5, <1>6, <1>7, <1>11, <1>14, <1>15, <1>16, RowFollows

LEMMA BeginWriteFollows ==
  ASSUME IInv, NEW w, Star(w), RInv(w), NEW d \in DCs, NEW u \in Users, NEW b \in BOOLEAN,
         BeginWrite(d, u, b)
  PROVE  RInv(w)'
<1>1. d = w
  BY DEF BeginWrite, Star
<1>2. PICK t : writing' = [writing EXCEPT ![d] = t]
  BY DEF BeginWrite
<1>3. /\ row' = row /\ served' = served /\ pull' = pull /\ cursor' = cursor /\ restarts' = restarts
  BY DEF BeginWrite
<1>4. \A e \in DCs : writing'[e] # None => e = w
  BY <1>1, <1>2, Typed DEF RInv, Plain
<1>5. /\ \A e \in DCs, v \in Users : row'[e][v] # None => RowPlain(w, e, row'[e][v])
      /\ \A i \in DOMAIN served'[w] : EntryPlain(w, served'[w][i])
      /\ \A l \in Links : CyclePlain(w, l[1], pull'[l])
      /\ restarts' \in [DCs -> Nat]
  BY <1>3 DEF RInv, Plain
<1>6. restarts'[w] = 0 =>
        \A l \in Links : /\ Behind(row', l[1], served'[w], cursor'[l[1]][w])
                         /\ Progress(row', l[1], served'[w], pull'[l])
  BY <1>3 DEF RInv, Follows
<1> QED BY <1>4, <1>5, <1>6, RInvAgain

LEMMA RestartFollows ==
  ASSUME IInv, NEW w, Star(w), RInv(w), NEW d \in DCs, Restart(d)
  PROVE  RInv(w)'
<1>1. row \in RowTable /\ row[d] \in [Users -> Row \cup {None}] /\ served \in [DCs -> Seq(Entry)]
  BY Typed DEF RowTable
<1>2. PICK s \in Listings(row[d]) : served' = [served EXCEPT ![d] = s]
  BY DEF Restart
<1>3. /\ writing' = [writing EXCEPT ![d] = None]
      /\ pull' = [l \in Links |-> IF l[1] = d THEN IdlePull ELSE pull[l]]
      /\ row' = row /\ cursor' = cursor /\ restarts' = [restarts EXCEPT ![d] = restarts[d] + 1]
  BY DEF Restart
<1>4. restarts \in [DCs -> Nat] /\ restarts[d] \in Nat /\ w \in DCs
  BY DEF RInv, Star
<1>5. /\ restarts' \in [DCs -> Nat] /\ restarts'[d] # 0
      /\ \A e \in DCs : e # d => restarts'[e] = restarts[e]
  BY <1>3, <1>4
<1>6. \A e \in DCs : writing'[e] # None => e = w
  BY <1>3, Typed DEF RInv, Plain
<1>7. \A l \in Links : pull'[l] = IdlePull \/ pull'[l] = pull[l]
  BY <1>3
<1>8. \A e : CyclePlain(w, e, IdlePull) /\ Progress(row, e, served[w], IdlePull)
  BY DEF CyclePlain, Progress
<1>9. \A l \in Links : CyclePlain(w, l[1], pull'[l])
  BY <1>7, <1>8 DEF RInv, Plain
<1>10. \A i \in DOMAIN served'[w] : EntryPlain(w, served'[w][i])
  <2>1. CASE d # w
    BY <1>1, <1>2, <1>4, <2>1 DEF RInv, Plain
  <2>2. CASE d = w
    <3>1. served'[w] = s
      BY <1>1, <1>2, <2>2
    <3>2. ASSUME NEW i \in DOMAIN s PROVE EntryPlain(w, s[i])
      <4>1. PICK v \in Users : row[d][v] # None /\ s[i] = [user |-> v, pw |-> row[d][v].pw, meta |-> row[d][v].obj]
        BY <1>2 DEF Listings, SetToSeqs
      <4>2. RowPlain(w, d, row[d][v])
        BY <4>1 DEF RInv, Plain
      <4> QED BY <4>1, <4>2 DEF RowPlain, EntryPlain
    <3> QED BY <3>1, <3>2
  <2> QED BY <2>1, <2>2
<1>11. ASSUME restarts'[w] = 0, NEW l \in Links
       PROVE  /\ Behind(row', l[1], served'[w], cursor'[l[1]][w])
              /\ Progress(row', l[1], served'[w], pull'[l])
  <2>1. d # w /\ restarts[w] = 0
    BY <1>4, <1>5, <1>11
  <2>2. served'[w] = served[w]
    BY <1>1, <1>2, <1>4, <2>1
  <2>3. Behind(row, l[1], served[w], cursor[l[1]][w]) /\ Progress(row, l[1], served[w], pull[l])
    BY <2>1 DEF RInv, Follows
  <2> QED BY <1>3, <1>7, <1>8, <2>2, <2>3
<1>12. \A e \in DCs, v \in Users : row'[e][v] # None => RowPlain(w, e, row'[e][v])
  BY <1>3 DEF RInv, Plain
<1> QED BY <1>5, <1>6, <1>9, <1>10, <1>11, <1>12, RInvAgain

LEMMA RestFollows ==
  ASSUME NEW w, RInv(w), Tick \/ UNCHANGED vars
  PROVE  RInv(w)'
<1>1. /\ row' = row /\ served' = served /\ cursor' = cursor /\ pull' = pull
      /\ writing' = writing /\ restarts' = restarts
  BY DEF Tick, vars
<1>2. /\ \A e \in DCs, v \in Users : row'[e][v] # None => RowPlain(w, e, row'[e][v])
      /\ \A i \in DOMAIN served'[w] : EntryPlain(w, served'[w][i])
      /\ \A e \in DCs : writing'[e] # None => e = w
      /\ \A l \in Links : CyclePlain(w, l[1], pull'[l])
      /\ restarts' \in [DCs -> Nat]
  BY <1>1 DEF RInv, Plain
<1>3. restarts'[w] = 0 =>
        \A l \in Links : /\ Behind(row', l[1], served'[w], cursor'[l[1]][w])
                         /\ Progress(row', l[1], served'[w], pull'[l])
  BY <1>1 DEF RInv, Follows
<1> QED BY <1>2, <1>3, RInvAgain

LEMMA StepFollows ==
  ASSUME IInv, ~Concurrent, NEW w, Star(w), RInv(w), [Next]_vars
  PROVE  RInv(w)'
<1>1. IInv' /\ NotOlder(row, row')
  BY StepSound
<1>2. CASE Tick \/ UNCHANGED vars
  BY <1>2, RestFollows
<1>3. ASSUME NEW d \in DCs, NEW u \in Users, NEW b \in BOOLEAN, BeginWrite(d, u, b)
      PROVE  RInv(w)'
  BY <1>3, BeginWriteFollows
<1>4. ASSUME NEW d \in DCs, CommitWrite(d) \/ Restart(d) PROVE RInv(w)'
  BY <1>1, <1>4, CommitWriteFollows, RestartFollows
<1>5. ASSUME NEW l \in Links, PullStep(l) \/ FailPull(l) PROVE RInv(w)'
  BY <1>1, <1>5, BeginPullFollows, ReadObjectFollows, WriteObjectFollows, EndPullFollows DEF PullStep
<1> QED BY <1>2, <1>3, <1>4, <1>5 DEF Next

LEMMA InitFollows ==
  ASSUME Init, NEW w, Star(w)
  PROVE  RInv(w)
<1>1. \A d \in DCs, u \in Users : row[d][u] # None => RowPlain(w, d, row[d][u])
  <2> SUFFICES ASSUME NEW d \in DCs, NEW u \in Users, row[d][u] # None
               PROVE  RowPlain(w, d, row[d][u])
    OBVIOUS
  <2>1. u \in Seed[d]
    BY DEF Init
  <2>2. d = w
    BY <2>1 DEF Star
  <2>3. row[d][u] = [pw |-> SeedStamp(d, u), disabled |-> FALSE, obj |-> SeedStamp(d, u), sec |-> None]
    BY <2>1 DEF Init
  <2>4. SeedStamp(d, u).dsa = d
    BY SeedSound
  <2> QED BY <2>2, <2>3, <2>4 DEF RowPlain
<1>2. \A i \in DOMAIN served[w] : EntryPlain(w, served[w][i])
  <2> SUFFICES ASSUME NEW i \in DOMAIN served[w] PROVE EntryPlain(w, served[w][i])
    OBVIOUS
  <2>1. w \in DCs /\ served[w] \in Listings(row[w])
    BY DEF Init, Star
  <2>2. PICK v \in Users : /\ row[w][v] # None
                           /\ served[w][i] = [user |-> v, pw |-> row[w][v].pw, meta |-> row[w][v].obj]
    BY <2>1 DEF Listings, SetToSeqs
  <2> QED BY <1>1, <2>1, <2>2 DEF RowPlain, EntryPlain
<1>3. \A l \in Links : pull[l] = IdlePull /\ cursor[l[1]][w] = 0
  BY Ends DEF Init, Star
<1>4. \A i \in DOMAIN served[w] : i \in Nat /\ i # 0
  BY InitSound, Typed DEF Star
<1>5. Plain(w)
  BY <1>1, <1>2, <1>3 DEF Init, Plain, CyclePlain
<1>6. Follows(w)
  BY <1>3, <1>4 DEF Follows, Behind, Progress
<1>7. restarts \in [DCs -> Nat]
  BY DEF Init
<1> QED BY <1>5, <1>6, <1>7 DEF RInv

\* Replicas of one writable controller, however many, through restarts of both sides,
\* failed cycles, pages cut at any size and a cursor row lost between its delete and its
\* create: while the source runs, a replica holds everything behind its cursor
\* (record_cursor: "we now hold its changes up to high_usn"), and two stores that agree
\* on an object's stamp agree on its password.
THEOREM ReplicasFollow ==
  ASSUME ~Concurrent, NEW CONSTANT w, Star(w) PROVE Spec => []ReplicaSound
<1>1. Init => IInv /\ RInv(w)
  BY InitSound, InitFollows
<1>2. IInv /\ RInv(w) /\ [Next]_vars => (IInv /\ RInv(w))'
  BY StepSound, StepFollows
<1>3. IInv /\ RInv(w) => ReplicaSound
  <2> SUFFICES ASSUME IInv, RInv(w) PROVE ReplicaSound
    OBVIOUS
  <2>1. CursorHolds
    BY DEF RInv, Follows, Behind, HeldIn, CursorHolds, Holds, Star
  <2>2. StampFixesPassword
    BY DEF RInv, Plain, RowPlain, StampFixesPassword
  <2> QED BY <2>1, <2>2 DEF IInv, ReplicaSound
<1> QED BY <1>1, <1>2, <1>3, PTL DEF Spec

----------------------------------------------------------------------------
(* Proofs about AdGroups, for any controllers, members, editors and clock.     *)
(*                                                                             *)
(* A link is never put back, but by a write whose list was read before another *)
(* write, because what a task is about to write is no older than what it read.  *)
(* That one stamp means one state rests on where stamps come from: a link is   *)
(* nowhere, in no list stored, served, pulled, read or merged, before its       *)
(* origin has stored it or something newer, so that an edit, which is the next  *)
(* version of what its controller has, makes a stamp nobody has seen; unless    *)
(* the controller lost what it had.                                            *)

\* Invocation ids are compared as numbers.
GroupConfigured == GroupDCs \subseteq Nat /\ MaxGroupClock \in Nat

LinkLists == [Members -> Link \cup {NoLink}]
GroupTasks ==
  {NoTask} \cup [at : {"pulled"}, dc : GroupDCs, incoming : LinkLists]
           \cup [at : {"edit", "merge"}, dc : GroupDCs, read : LinkLists, new : LinkLists]

GroupShapes ==
  /\ groupClock \in 0 .. MaxGroupClock
  /\ links \in [GroupDCs -> LinkLists] /\ servedLinks \in [GroupDCs -> LinkLists]
  /\ groupUsn \in [GroupDCs -> Nat] /\ task \in [Tasks -> GroupTasks] /\ resets \in Nat

\* Link a is no older than link b.
NoOlder(a, b) == b = NoLink \/ (a # NoLink /\ ~LinkWins(b, a))

\* What a task is about to write comes after what it read; an edit gives one member the
\* next version, in its controller's name.
WritesAhead ==
  \A t \in Tasks :
    /\ task[t].at \in {"edit", "merge"} => \A m \in Members : NoOlder(task[t].new[m], task[t].read[m])
    /\ task[t].at = "edit" =>
         \E m \in Members :
           /\ \A n \in Members \ {m} : task[t].new[n] = task[t].read[n]
           /\ task[t].new[m] # NoLink /\ task[t].new[m].dsa = task[t].dc
           /\ task[t].new[m].version = task[t].read[m].version + 1

\* The links of m in every list but those that edits are about to write.
HeldAt(m) ==
  {links[d][m] : d \in GroupDCs} \cup {servedLinks[d][m] : d \in GroupDCs}
    \cup {task[t].incoming[m] : t \in {u \in Tasks : task[u].at = "pulled"}}
    \cup {task[t].read[m] : t \in {u \in Tasks : task[u].at \in {"edit", "merge"}}}
    \cup {task[t].new[m] : t \in {u \in Tasks : task[u].at = "merge"}}

\* The origin of a link has it, or a newer one, unless it lost links.
OriginsHave ==
  \A m \in Members : \A l \in HeldAt(m) \ {NoLink} :
    l.dsa \notin lost => NoOlder(links[l.dsa][m], l)

SameStamp(a, b) == a.version = b.version /\ a.time = b.time /\ a.dsa = b.dsa

\* One stamp, one state.
StampsTell ==
  \A m \in Members : \A k, l \in HeldAt(m) \ {NoLink} :
    SameStamp(k, l) /\ k.dsa \notin lost => k.present = l.present

GroupInv == GroupShapes /\ WritesAhead /\ OriginsHave /\ StampsTell

\* Links and their order.
LEMMA LinkFacts ==
  ASSUME GroupConfigured, NEW l \in Link
  PROVE  /\ l # NoLink /\ l.version \in Nat /\ l.version > 0 /\ l.time \in Nat /\ l.dsa \in Nat
         /\ l.dsa \in GroupDCs /\ l.present \in BOOLEAN
<1>1. l.version > 0 /\ NoLink.version = 0
  BY DEF Link, NoLink
<1>2. l # NoLink
  BY <1>1
<1>3. l.version \in Nat /\ l.time \in 0 .. MaxGroupClock /\ l.dsa \in GroupDCs
  BY DEF Link
<1>4. l.present \in BOOLEAN
  BY DEF Link
<1>5. l.dsa \in Nat
  BY <1>3 DEF GroupConfigured
<1>6. \A i \in 0 .. MaxGroupClock : i \in Nat
  BY DEF GroupConfigured
<1> HIDE DEF NoLink
<1> QED BY <1>1, <1>2, <1>3, <1>4, <1>5, <1>6, Zenon

LEMMA NoOlderFacts ==
  ASSUME GroupConfigured
  PROVE  /\ \A a \in Link \cup {NoLink} : NoOlder(a, a)
         /\ \A a, b, c \in Link \cup {NoLink} : NoOlder(a, b) /\ NoOlder(b, c) => NoOlder(a, c)
         /\ \A a \in Link, b \in Link \cup {NoLink} : a.version > b.version => NoOlder(a, b)
         /\ \A a, b \in Link : NoOlder(a, b) => a.version >= b.version
<1>1. ASSUME NEW a \in Link \cup {NoLink} PROVE NoOlder(a, a)
  BY LinkFacts DEF NoOlder, LinkWins
<1>2. ASSUME NEW a \in Link \cup {NoLink}, NEW b \in Link \cup {NoLink}, NEW c \in Link \cup {NoLink},
             NoOlder(a, b), NoOlder(b, c)
      PROVE  NoOlder(a, c)
  <2>1. CASE c = NoLink
    BY <2>1 DEF NoOlder
  <2>2. CASE c # NoLink
    <3>1. a \in Link /\ b \in Link /\ c \in Link /\ ~LinkWins(c, b) /\ ~LinkWins(b, a)
      BY <1>2, <2>2 DEF NoOlder
    <3>2. ~LinkWins(c, a)
      BY <3>1, LinkFacts DEF LinkWins
    <3> QED BY <3>1, <3>2, LinkFacts DEF NoOlder
  <2> QED BY <2>1, <2>2
<1>3. ASSUME NEW a \in Link, NEW b \in Link \cup {NoLink}, a.version > b.version
      PROVE  NoOlder(a, b)
  BY <1>3, LinkFacts DEF NoOlder, LinkWins
<1>4. ASSUME NEW a \in Link, NEW b \in Link, NoOlder(a, b) PROVE a.version >= b.version
  BY <1>4, LinkFacts DEF NoOlder, LinkWins
<1> QED BY <1>1, <1>2, <1>3, <1>4

\* What a task has in its hands.
LEMMA TaskFacts ==
  ASSUME NEW k \in GroupTasks
  PROVE  /\ k.at \in {"idle", "pulled", "edit", "merge"}
         /\ k.at = "pulled" => k.dc \in GroupDCs /\ k.incoming \in LinkLists
         /\ k.at \in {"edit", "merge"} =>
              k.dc \in GroupDCs /\ k.read \in LinkLists /\ k.new \in LinkLists
BY DEF GroupTasks, NoTask

LEMMA HeldKinds ==
  ASSUME GroupShapes, NEW m \in Members
  PROVE  HeldAt(m) \subseteq Link \cup {NoLink}
<1>1. \A d \in GroupDCs : links[d][m] \in Link \cup {NoLink} /\ servedLinks[d][m] \in Link \cup {NoLink}
  BY DEF GroupShapes, LinkLists
<1>2. ASSUME NEW t \in Tasks
      PROVE  /\ task[t].at = "pulled" => task[t].incoming[m] \in Link \cup {NoLink}
             /\ task[t].at \in {"edit", "merge"} =>
                  task[t].read[m] \in Link \cup {NoLink} /\ task[t].new[m] \in Link \cup {NoLink}
  BY TaskFacts DEF GroupShapes, LinkLists
<1> QED BY <1>1, <1>2 DEF HeldAt

----------------------------------------------------------------------------
\* Steps after which no new link is held, and where a controller that never lost links
\* has none that is older than before.
LEMMA HeldShrinks ==
  ASSUME GroupConfigured, GroupInv, GroupShapes',
         \A m \in Members : HeldAt(m)' \subseteq HeldAt(m),
         lost \subseteq lost',
         \A d \in GroupDCs \ lost' : \A m \in Members : NoOlder(links'[d][m], links[d][m])
  PROVE  OriginsHave' /\ StampsTell'
<1>1. OriginsHave'
  <2> SUFFICES ASSUME NEW m \in Members, NEW l \in HeldAt(m)', l # NoLink, l.dsa \notin lost'
               PROVE  NoOlder(links'[l.dsa][m], l)
    BY DEF OriginsHave
  <2>1. l \in HeldAt(m) /\ l \in Link /\ l.dsa \in GroupDCs /\ l.dsa \notin lost
    BY HeldKinds, LinkFacts DEF GroupInv
  <2>2. NoOlder(links[l.dsa][m], l) /\ NoOlder(links'[l.dsa][m], links[l.dsa][m])
    BY <2>1 DEF GroupInv, OriginsHave
  <2>3. links[l.dsa][m] \in Link \cup {NoLink} /\ links'[l.dsa][m] \in Link \cup {NoLink}
    BY <2>1 DEF GroupInv, GroupShapes, LinkLists
  <2> QED BY <2>1, <2>2, <2>3, NoOlderFacts
<1>2. StampsTell'
  BY DEF GroupInv, StampsTell
<1> QED BY <1>1, <1>2

LEMMA HeldSame ==
  ASSUME GroupConfigured, GroupInv, GroupShapes',
         \A m \in Members : HeldAt(m)' \subseteq HeldAt(m), UNCHANGED <<links, lost>>
  PROVE  OriginsHave' /\ StampsTell'
<1>1. \A d \in GroupDCs \ lost' : \A m \in Members : NoOlder(links'[d][m], links[d][m])
  BY NoOlderFacts DEF GroupInv, GroupShapes, LinkLists
<1> QED BY <1>1, HeldShrinks

\* A task goes on as k.
LEMMA TaskStep ==
  ASSUME GroupInv, NEW t \in Tasks, NEW k \in GroupTasks, task' = [task EXCEPT ![t] = k]
  PROVE  /\ task' \in [Tasks -> GroupTasks] /\ task'[t] = k
         /\ \A u \in Tasks \ {t} : task'[u] = task[u]
BY DEF GroupInv, GroupShapes

LEMMA BeginEditKeeps ==
  ASSUME GroupConfigured, GroupInv, NEW t \in Editors, NEW d \in GroupDCs, NEW m \in Members,
         NEW present \in BOOLEAN, BeginEdit(t, d, m, present)
  PROVE  GroupInv'
<1> DEFINE n == [version |-> links[d][m].version + 1, time |-> groupClock, dsa |-> d,
                 usn |-> groupUsn[d] + 1, present |-> present]
           w == [links[d] EXCEPT ![m] = n]
           k == [at |-> "edit", dc |-> d, read |-> links[d], new |-> w]
<1>0. /\ t \in Tasks /\ task[t] = NoTask /\ task[t].at = "idle"
      /\ groupUsn' = [groupUsn EXCEPT ![d] = @ + 1]
      /\ UNCHANGED <<groupClock, links, servedLinks, lost, resets>>
  BY DEF BeginEdit, Tasks, NoTask
<1>1. task' = [task EXCEPT ![t] = k]
  BY DEF BeginEdit, NextVersion
<1>2. links[d] \in LinkLists /\ links[d][m] \in Link \cup {NoLink} /\ links[d][m].version \in Nat
  <2>1. links[d] \in LinkLists /\ links[d][m] \in Link \cup {NoLink}
    BY DEF GroupInv, GroupShapes, LinkLists
  <2>2. NoLink.version = 0
    BY DEF NoLink
  <2> QED BY <2>1, <2>2, LinkFacts
<1>3. n \in Link /\ n.version = links[d][m].version + 1 /\ n.dsa = d
  <2>1. groupUsn[d] + 1 \in Nat /\ groupClock \in 0 .. MaxGroupClock
    BY DEF GroupInv, GroupShapes
  <2>2. links[d][m].version + 1 \in Nat \ {0}
    BY <1>2
  <2> QED BY <2>1, <2>2 DEF Link
<1> HIDE DEF n
<1>4. w \in LinkLists /\ w[m] = n /\ \A x \in Members \ {m} : w[x] = links[d][x]
  BY <1>2, <1>3 DEF LinkLists
<1> HIDE DEF w
<1>5. k \in GroupTasks /\ k.at = "edit" /\ k.dc = d /\ k.read = links[d] /\ k.new = w
  BY <1>2, <1>4 DEF GroupTasks
<1> HIDE DEF k
<1>6. /\ task' \in [Tasks -> GroupTasks] /\ task'[t] = k
      /\ \A u \in Tasks \ {t} : task'[u] = task[u]
  BY <1>0, <1>1, <1>5, TaskStep
<1>7. GroupShapes'
  BY <1>0, <1>6 DEF GroupInv, GroupShapes
<1>8. WritesAhead'
  <2>1. n # NoLink /\ NoOlder(n, links[d][m])
    BY <1>2, <1>3, NoOlderFacts, LinkFacts
  <2>2. \A x \in Members : NoOlder(w[x], links[d][x])
    BY <1>2, <1>4, <2>1, NoOlderFacts DEF LinkLists
  <2> QED BY <1>3, <1>4, <1>5, <1>6, <2>1, <2>2 DEF GroupInv, WritesAhead
<1>9. \A x \in Members : HeldAt(x)' \subseteq HeldAt(x)
  BY <1>0, <1>5, <1>6 DEF HeldAt
<1> QED BY <1>0, <1>7, <1>8, <1>9, HeldSame DEF GroupInv

LEMMA BeginPullKeeps ==
  ASSUME GroupConfigured, GroupInv, NEW d \in GroupDCs, NEW e \in GroupDCs, BeginGroupPull(d, e)
  PROVE  GroupInv'
<1> DEFINE k == [at |-> "pulled", dc |-> d, incoming |-> servedLinks[e]]
<1>0. /\ d \in Tasks /\ task' = [task EXCEPT ![d] = k]
      /\ UNCHANGED <<groupClock, links, servedLinks, groupUsn, lost, resets>>
  BY DEF BeginGroupPull, Tasks
<1>1. k \in GroupTasks /\ k.at = "pulled" /\ k.incoming = servedLinks[e]
  BY DEF GroupTasks, GroupInv, GroupShapes
<1> HIDE DEF k
<1>2. /\ task' \in [Tasks -> GroupTasks] /\ task'[d] = k
      /\ \A u \in Tasks \ {d} : task'[u] = task[u]
  BY <1>0, <1>1, TaskStep
<1>3. GroupShapes'
  BY <1>0, <1>2 DEF GroupInv, GroupShapes
<1>4. WritesAhead'
  BY <1>1, <1>2 DEF GroupInv, WritesAhead
<1>5. \A x \in Members : HeldAt(x)' \subseteq HeldAt(x)
  BY <1>0, <1>1, <1>2 DEF HeldAt
<1> QED BY <1>0, <1>3, <1>4, <1>5, HeldSame DEF GroupInv

LEMMA ReadLinksKeeps ==
  ASSUME GroupConfigured, GroupInv, NEW d \in GroupDCs, ReadLinks(d)
  PROVE  GroupInv'
<1> DEFINE in == task[d].incoming
           w == [m \in Members |-> IF Takes(in[m], links[d][m]) THEN in[m] ELSE links[d][m]]
           k == [at |-> "merge", dc |-> d, read |-> links[d], new |-> w]
<1>0. /\ d \in Tasks /\ task[d].at = "pulled" /\ task' = [task EXCEPT ![d] = k]
      /\ UNCHANGED <<groupClock, links, servedLinks, groupUsn, lost, resets>>
  BY DEF ReadLinks, Tasks
<1>1. links[d] \in LinkLists /\ in \in LinkLists
  BY <1>0, TaskFacts DEF GroupInv, GroupShapes
<1>2. \A m \in Members : w[m] = in[m] \/ w[m] = links[d][m]
  OBVIOUS
<1>3. \A m \in Members : in[m] \in Link \cup {NoLink} /\ links[d][m] \in Link \cup {NoLink}
  BY <1>1 DEF LinkLists
<1>4. w \in LinkLists
  BY <1>3 DEF LinkLists
<1>5. ASSUME NEW m \in Members PROVE NoOlder(w[m], links[d][m])
  <2>1. CASE Takes(in[m], links[d][m])
    <3>1. w[m] = in[m]
      BY <2>1
    <3>2. CASE links[d][m] = NoLink
      BY <3>2 DEF NoOlder
    <3>3. CASE links[d][m] # NoLink
      <4>1. in[m] \in Link /\ links[d][m] \in Link /\ LinkWins(in[m], links[d][m])
        BY <1>3, <2>1, <3>3 DEF Takes
      <4>2. ~LinkWins(links[d][m], in[m])
        BY <4>1, LinkFacts DEF LinkWins
      <4> QED BY <3>1, <4>1, <4>2, LinkFacts DEF NoOlder
    <3> QED BY <3>2, <3>3
  <2>2. CASE ~Takes(in[m], links[d][m])
    <3>1. w[m] = links[d][m]
      BY <2>2
    <3> QED BY <1>3, <3>1, NoOlderFacts
  <2> QED BY <2>1, <2>2
<1> HIDE DEF w
<1>6. k \in GroupTasks /\ k.at = "merge" /\ k.read = links[d] /\ k.new = w
  BY <1>1, <1>4 DEF GroupTasks
<1> HIDE DEF k
<1>7. /\ task' \in [Tasks -> GroupTasks] /\ task'[d] = k
      /\ \A u \in Tasks \ {d} : task'[u] = task[u]
  BY <1>0, <1>6, TaskStep
<1>8. GroupShapes'
  BY <1>0, <1>7 DEF GroupInv, GroupShapes
<1>9. WritesAhead'
  BY <1>5, <1>6, <1>7 DEF GroupInv, WritesAhead
<1>10. \A x \in Members : HeldAt(x)' \subseteq HeldAt(x)
  <2> SUFFICES ASSUME NEW x \in Members, NEW l \in HeldAt(x)' PROVE l \in HeldAt(x)
    OBVIOUS
  <2>1. in[x] \in HeldAt(x) /\ links[d][x] \in HeldAt(x)
    BY <1>0 DEF HeldAt
  <2>2. w[x] \in HeldAt(x)
    BY <1>2, <2>1
  <2> QED BY <1>0, <1>6, <1>7, <2>1, <2>2 DEF HeldAt
<1> QED BY <1>0, <1>8, <1>9, <1>10, HeldSame DEF GroupInv

\* The links that a write leaves held.
LEMMA WrittenHeld ==
  ASSUME GroupInv, NEW t \in Tasks, WriteLinks(t), NEW m \in Members, NEW l \in HeldAt(m)'
  PROVE  l \in HeldAt(m) \/ l = task[t].new[m]
<1>1. /\ links' = [links EXCEPT ![task[t].dc] = task[t].new] /\ UNCHANGED servedLinks
      /\ task' = [task EXCEPT ![t] = NoTask]
  BY DEF WriteLinks
<1>2. /\ \A d \in GroupDCs : links'[d] = links[d] \/ links'[d] = task[t].new
      /\ \A u \in Tasks \ {t} : task'[u] = task[u]
      /\ task'[t].at = "idle"
  BY <1>1 DEF GroupInv, GroupShapes, NoTask
<1> QED BY <1>1, <1>2 DEF HeldAt

LEMMA WriteLinksKeeps ==
  ASSUME GroupConfigured, GroupInv, NEW t \in Tasks, WriteLinks(t)
  PROVE  GroupInv'
<1> DEFINE d == task[t].dc
           w == task[t].new
<1>0. /\ task[t].at \in {"edit", "merge"} /\ task' = [task EXCEPT ![t] = NoTask]
      /\ links' = [links EXCEPT ![d] = w]
      /\ lost' = IF Stale(t) THEN lost \cup {d} ELSE lost
      /\ UNCHANGED <<groupClock, servedLinks, groupUsn, resets>>
  BY DEF WriteLinks
<1>1. d \in GroupDCs /\ w \in LinkLists /\ task[t].read \in LinkLists
  BY <1>0, TaskFacts DEF GroupInv, GroupShapes
<1>2. /\ links'[d] = w /\ \A e \in GroupDCs \ {d} : links'[e] = links[e]
      /\ links' \in [GroupDCs -> LinkLists]
  BY <1>0, <1>1 DEF GroupInv, GroupShapes
<1>3. /\ task' \in [Tasks -> GroupTasks] /\ task'[t].at = "idle"
      /\ \A u \in Tasks \ {t} : task'[u] = task[u]
  BY <1>0, TaskStep DEF GroupTasks, NoTask
<1>4. GroupShapes'
  BY <1>0, <1>2, <1>3 DEF GroupInv, GroupShapes
<1>5. WritesAhead'
  BY <1>3 DEF GroupInv, WritesAhead
<1>6. lost \subseteq lost' /\ (d \notin lost' => task[t].read = links[d])
  BY <1>0 DEF Stale
<1>7. \A e \in GroupDCs \ lost' : \A m \in Members : NoOlder(links'[e][m], links[e][m])
  <2> SUFFICES ASSUME NEW e \in GroupDCs \ lost', NEW m \in Members
               PROVE  NoOlder(links'[e][m], links[e][m])
    OBVIOUS
  <2>1. CASE e = d
    BY <1>0, <1>2, <1>6, <2>1 DEF GroupInv, WritesAhead
  <2>2. CASE e # d
    BY <1>2, <2>2, NoOlderFacts DEF GroupInv, GroupShapes, LinkLists
  <2> QED BY <2>1, <2>2
<1>8. CASE task[t].at = "merge"
  <2>1. \A m \in Members : w[m] \in HeldAt(m)
    BY <1>8 DEF HeldAt
  <2>2. \A m \in Members : HeldAt(m)' \subseteq HeldAt(m)
    BY <2>1, WrittenHeld
  <2> QED BY <1>4, <1>5, <1>6, <1>7, <2>2, HeldShrinks DEF GroupInv
<1>9. CASE task[t].at = "edit"
  <2>1. PICK x \in Members :
          /\ \A y \in Members \ {x} : w[y] = task[t].read[y]
          /\ w[x] # NoLink /\ w[x].dsa = d
          /\ w[x].version = task[t].read[x].version + 1
    BY <1>9 DEF GroupInv, WritesAhead
  <2>2. \A m \in Members : task[t].read[m] \in HeldAt(m)
    BY <1>0 DEF HeldAt
  <2>3. w[x] \in Link
    BY <1>1, <2>1 DEF LinkLists
  \* What the write adds is the edited link, and nothing that the controller's own
  \* links do not precede, unless it is counted as lost.
  <2>4. ASSUME NEW m \in Members, NEW l \in HeldAt(m)'
        PROVE  l \in HeldAt(m) \/ (m = x /\ l = w[x])
    BY <2>1, <2>2, <2>4, WrittenHeld
  <2>5. ASSUME NEW l \in HeldAt(x), l # NoLink, l.dsa = d, d \notin lost'
        PROVE  l \in Link /\ l.version < w[x].version
    <3>1. l \in Link
      BY <2>5, HeldKinds DEF GroupInv
    <3>2. NoOlder(links[d][x], l)
      BY <1>6, <2>5 DEF GroupInv, OriginsHave
    <3>3. links[d][x] \in Link
      BY <1>1, <2>5, <3>2 DEF NoOlder, GroupInv, GroupShapes, LinkLists
    <3>4. l.version <= links[d][x].version
      BY <3>1, <3>2, <3>3, NoOlderFacts, LinkFacts
    <3>5. w[x].version = links[d][x].version + 1
      BY <1>6, <2>1, <2>5
    <3> QED BY <3>1, <3>3, <3>4, <3>5, LinkFacts
  <2>6. OriginsHave'
    <3> SUFFICES ASSUME NEW m \in Members, NEW l \in HeldAt(m)', l # NoLink, l.dsa \notin lost'
                 PROVE  NoOlder(links'[l.dsa][m], l)
      BY DEF OriginsHave
    <3>1. CASE l \in HeldAt(m)
      <4>1. l \in Link /\ l.dsa \in GroupDCs /\ l.dsa \notin lost
        BY <1>6, <3>1, HeldKinds, LinkFacts DEF GroupInv
      <4>2. NoOlder(links[l.dsa][m], l) /\ NoOlder(links'[l.dsa][m], links[l.dsa][m])
        BY <1>7, <3>1, <4>1 DEF GroupInv, OriginsHave
      <4>3. links[l.dsa][m] \in Link \cup {NoLink} /\ links'[l.dsa][m] \in Link \cup {NoLink}
        BY <1>2, <4>1 DEF GroupInv, GroupShapes, LinkLists
      <4> QED BY <4>1, <4>2, <4>3, NoOlderFacts
    <3>2. CASE m = x /\ l = w[x]
      BY <1>2, <2>1, <2>3, <3>2, NoOlderFacts
    <3> QED BY <2>4, <3>1, <3>2
  <2>7. StampsTell'
    <3> SUFFICES ASSUME NEW m \in Members, NEW j \in HeldAt(m)', NEW l \in HeldAt(m)',
                        j # NoLink, l # NoLink, SameStamp(j, l), j.dsa \notin lost'
                 PROVE  j.present = l.present
      BY DEF StampsTell
    <3>1. CASE j \in HeldAt(m) /\ l \in HeldAt(m)
      BY <1>6, <3>1 DEF GroupInv, StampsTell
    <3>2. CASE m = x /\ j = w[x] /\ l \in HeldAt(m)
      BY <2>1, <2>3, <2>5, <3>2, LinkFacts DEF SameStamp
    <3>3. CASE m = x /\ l = w[x] /\ j \in HeldAt(m)
      BY <2>1, <2>3, <2>5, <3>3, LinkFacts DEF SameStamp
    <3>4. CASE m = x /\ l = w[x] /\ j = w[x]
      BY <3>4
    <3> QED BY <2>4, <3>1, <3>2, <3>3, <3>4
  <2> QED BY <1>4, <1>5, <2>6, <2>7 DEF GroupInv
<1> QED BY <1>0, <1>8, <1>9

LEMMA ResetKeeps ==
  ASSUME GroupConfigured, GroupInv, NEW d \in GroupDCs, Reset(d)
  PROVE  GroupInv'
<1>0. /\ links' = [links EXCEPT ![d] = NoLinks] /\ lost' = lost \cup {d}
      /\ UNCHANGED <<groupClock, servedLinks, groupUsn, task>> /\ resets' \in Nat
  BY DEF Reset, GroupInv, GroupShapes
<1>1. NoLinks \in LinkLists /\ \A m \in Members : NoLinks[m] = NoLink
  BY DEF NoLinks, LinkLists
<1>2. /\ links'[d] = NoLinks /\ \A e \in GroupDCs \ {d} : links'[e] = links[e]
      /\ links' \in [GroupDCs -> LinkLists]
  BY <1>0, <1>1 DEF GroupInv, GroupShapes
<1>3. GroupShapes' /\ WritesAhead'
  BY <1>0, <1>2 DEF GroupInv, GroupShapes, WritesAhead
<1>4. \A m \in Members : HeldAt(m)' \subseteq HeldAt(m) \cup {NoLink}
  BY <1>0, <1>1, <1>2 DEF HeldAt
<1>5. OriginsHave'
  BY <1>0, <1>2, <1>4, HeldKinds, LinkFacts DEF GroupInv, OriginsHave
<1>6. StampsTell'
  BY <1>0, <1>4 DEF GroupInv, StampsTell
<1> QED BY <1>3, <1>5, <1>6 DEF GroupInv

LEMMA GroupRestartKeeps ==
  ASSUME GroupConfigured, GroupInv, NEW d \in GroupDCs, GroupRestart(d)
  PROVE  GroupInv'
<1>0. /\ servedLinks' = [servedLinks EXCEPT ![d] = links[d]]
      /\ task' = [t \in Tasks |-> IF task[t] # NoTask /\ task[t].dc = d THEN NoTask ELSE task[t]]
      /\ UNCHANGED <<groupClock, links, groupUsn, lost, resets>>
  BY DEF GroupRestart
<1>1. \A t \in Tasks : task'[t] = NoTask \/ task'[t] = task[t]
  BY <1>0
<1>2. NoTask \in GroupTasks /\ NoTask.at = "idle"
  BY DEF GroupTasks, NoTask
<1>3. task' \in [Tasks -> GroupTasks]
  BY <1>0, <1>2 DEF GroupInv, GroupShapes
<1>4. /\ servedLinks' \in [GroupDCs -> LinkLists]
      /\ \A e \in GroupDCs : servedLinks'[e] = servedLinks[e] \/ servedLinks'[e] = links[d]
  BY <1>0 DEF GroupInv, GroupShapes
<1>5. GroupShapes'
  BY <1>0, <1>3, <1>4 DEF GroupInv, GroupShapes
<1>6. WritesAhead'
  <2> SUFFICES ASSUME NEW t \in Tasks
               PROVE  /\ task'[t].at \in {"edit", "merge"} =>
                           \A m \in Members : NoOlder(task'[t].new[m], task'[t].read[m])
                      /\ task'[t].at = "edit" =>
                           \E m \in Members :
                             /\ \A n \in Members \ {m} : task'[t].new[n] = task'[t].read[n]
                             /\ task'[t].new[m] # NoLink /\ task'[t].new[m].dsa = task'[t].dc
                             /\ task'[t].new[m].version = task'[t].read[m].version + 1
    BY DEF WritesAhead
  <2>1. CASE task'[t] = NoTask
    BY <1>2, <2>1
  <2>2. CASE task'[t] = task[t]
    BY <2>2 DEF GroupInv, WritesAhead
  <2> QED BY <1>1, <2>1, <2>2
<1>7. \A m \in Members : HeldAt(m)' \subseteq HeldAt(m)
  BY <1>0, <1>1, <1>2, <1>4 DEF HeldAt
<1> QED BY <1>0, <1>5, <1>6, <1>7, HeldSame DEF GroupInv

LEMMA GroupTickKeeps ==
  ASSUME GroupConfigured, GroupInv, GroupTick
  PROVE  GroupInv'
<1>0. /\ groupClock' \in 0 .. MaxGroupClock
      /\ UNCHANGED <<links, servedLinks, groupUsn, task, lost, resets>>
  BY DEF GroupTick, GroupInv, GroupShapes, GroupConfigured
<1>1. GroupShapes' /\ WritesAhead'
  BY <1>0 DEF GroupInv, GroupShapes, WritesAhead
<1>2. \A m \in Members : HeldAt(m)' \subseteq HeldAt(m)
  BY <1>0 DEF HeldAt
<1> QED BY <1>0, <1>1, <1>2, HeldSame DEF GroupInv

LEMMA GroupBegins == ASSUME GroupConfigured, GroupInit PROVE GroupInv
<1>1. NoLinks \in LinkLists /\ \A m \in Members : NoLinks[m] = NoLink
  BY DEF NoLinks, LinkLists
<1>2. NoTask \in GroupTasks /\ NoTask.at = "idle"
  BY DEF GroupTasks, NoTask
<1>3. GroupShapes
  BY <1>1, <1>2 DEF GroupInit, GroupShapes, GroupConfigured
<1>4. WritesAhead
  BY <1>2 DEF GroupInit, WritesAhead
<1>5. \A m \in Members : HeldAt(m) \subseteq {NoLink}
  BY <1>1, <1>2 DEF GroupInit, HeldAt
<1>6. OriginsHave /\ StampsTell
  BY <1>5 DEF OriginsHave, StampsTell
<1> QED BY <1>3, <1>4, <1>6 DEF GroupInv

LEMMA GroupStep == ASSUME GroupConfigured, GroupInv, [GroupNext]_groupVars PROVE GroupInv'
<1>1. ASSUME NEW t \in Editors, NEW d \in GroupDCs, NEW m \in Members, NEW present \in BOOLEAN,
             BeginEdit(t, d, m, present)
      PROVE  GroupInv'
  BY <1>1, BeginEditKeeps
<1>2. ASSUME NEW d \in GroupDCs, NEW e \in GroupDCs, BeginGroupPull(d, e) PROVE GroupInv'
  BY <1>2, BeginPullKeeps
<1>3. ASSUME NEW d \in GroupDCs, ReadLinks(d) \/ Reset(d) \/ GroupRestart(d) PROVE GroupInv'
  BY <1>3, ReadLinksKeeps, ResetKeeps, GroupRestartKeeps
<1>4. ASSUME NEW t \in Tasks, WriteLinks(t) PROVE GroupInv'
  BY <1>4, WriteLinksKeeps
<1>5. CASE GroupTick
  BY <1>5, GroupTickKeeps
<1>6. CASE UNCHANGED groupVars
  BY <1>6 DEF groupVars, GroupInv, GroupShapes, WritesAhead, OriginsHave, StampsTell, HeldAt
<1> QED BY <1>1, <1>2, <1>3, <1>4, <1>5, <1>6 DEF GroupNext

\* A step that is no reset, and no write of a task whose list another one wrote since.
LEMMA LinksStep == ASSUME GroupConfigured, GroupInv, [GroupNext]_groupVars PROVE [LinksForward]_groupVars
<1> SUFFICES ASSUME NEW d \in GroupDCs, NEW m \in Members, GroupNext, links[d][m] # NoLink,
                    links'[d][m] = NoLink \/ LinkWins(links[d][m], links'[d][m]),
                    resets' = resets
             PROVE  \E t \in Tasks : WriteLinks(t) /\ task[t].dc = d /\ Stale(t)
  BY DEF LinksForward
<1>1. links[d][m] \in Link
  BY DEF GroupInv, GroupShapes, LinkLists
<1>2. links'[d][m] # links[d][m]
  BY <1>1, LinkFacts DEF LinkWins
<1>3. PICK t \in Tasks : WriteLinks(t)
  <2>1. \A e \in GroupDCs : ~Reset(e)
    <3> SUFFICES ASSUME NEW e \in GroupDCs, Reset(e) PROVE FALSE
      OBVIOUS
    <3>1. resets' = resets + 1 /\ resets < MaxResets
      BY DEF Reset
    <3> QED BY <3>1 DEF GroupInv, GroupShapes
  <2> QED BY <1>2, <2>1 DEF GroupNext, BeginEdit, BeginGroupPull, ReadLinks, GroupRestart, GroupTick
<1>4. links' = [links EXCEPT ![task[t].dc] = task[t].new] /\ task[t].at \in {"edit", "merge"}
  BY <1>3 DEF WriteLinks
<1>5. task[t].dc = d /\ links'[d] = task[t].new
  BY <1>2, <1>4 DEF GroupInv, GroupShapes
<1>6. task[t].read # links[d]
  <2> SUFFICES ASSUME task[t].read = links[d] PROVE FALSE
    OBVIOUS
  <2>1. NoOlder(links'[d][m], links[d][m])
    BY <1>4, <1>5 DEF GroupInv, WritesAhead
  <2> QED BY <2>1 DEF NoOlder
<1> QED BY <1>3, <1>5, <1>6 DEF Stale

LEMMA GroupInvTells == ASSUME GroupConfigured, GroupInv PROVE GroupTypeOK /\ SameStampSameState
<1>1. GroupTypeOK
  <2>1. \A d \in GroupDCs, m \in Members : links[d][m] \in Link \cup {NoLink}
    BY DEF GroupInv, GroupShapes, LinkLists
  <2>2. \A t \in Tasks : task[t].at \in {"idle", "pulled", "edit", "merge"}
    BY TaskFacts DEF GroupInv, GroupShapes
  <2> QED BY <2>1, <2>2 DEF GroupInv, GroupShapes, GroupTypeOK
<1>2. SameStampSameState
  <2> SUFFICES ASSUME NEW d \in GroupDCs, NEW e \in GroupDCs, NEW m \in Members,
                      links[d][m] # NoLink, links[e][m] # NoLink,
                      ~LinkWins(links[d][m], links[e][m]), ~LinkWins(links[e][m], links[d][m]),
                      links[d][m].dsa \notin lost
               PROVE  links[d][m].present = links[e][m].present
    BY DEF SameStampSameState
  <2>1. links[d][m] \in HeldAt(m) /\ links[e][m] \in HeldAt(m)
    BY DEF HeldAt
  <2>2. links[d][m] \in Link /\ links[e][m] \in Link
    BY DEF GroupInv, GroupShapes, LinkLists
  <2>3. SameStamp(links[d][m], links[e][m])
    BY <2>2, LinkFacts DEF LinkWins, SameStamp
  <2> QED BY <2>1, <2>3 DEF GroupInv, StampsTell
<1> QED BY <1>1, <1>2

\* For any controllers, members, editors and interleaving of set_group_member_local with
\* apply_replicated_group: a link is put back to an older stamp, or dropped, only by the
\* reset of a group or by a write whose list was read before another write; and links
\* under one stamp agree on whether the member is present, unless the stamp's origin
\* lost links.
THEOREM LinksAlwaysAdvance ==
  ASSUME GroupConfigured
  PROVE  GroupSpec => LinksAdvance
<1>1. GroupInit => GroupInv
  BY GroupBegins
<1>2. GroupInv /\ [GroupNext]_groupVars => GroupInv'
  BY GroupStep
<1>3. GroupInv => GroupTypeOK /\ SameStampSameState
  BY GroupInvTells
<1>4. GroupInv /\ [GroupNext]_groupVars => [LinksForward]_groupVars
  BY LinksStep
<1> QED BY <1>1, <1>2, <1>3, <1>4, PTL DEF GroupSpec, LinksAdvance
=============================================================================
