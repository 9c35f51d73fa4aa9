--------------------------- MODULE IdentityProofs ---------------------------
(* Proofs about who may do what: the signing keys and the codes of the issuer,  *)
(* the accounts and sessions of the portal, the roles of the web console, and    *)
(* the entries of the directory tree.                                          *)
EXTENDS SigningKeys, SsoCodes, Portal, Console, LdapTree, Integers, FiniteSetTheorems, TLAPS,
        WellFoundedInduction

----------------------------------------------------------------------------
(* Proofs about SigningKeys, for any issuers, lifetimes and number of keys.    *)
(*                                                                             *)
(* PrimaryVerifies speaks of the keyring in memory; what keeps it true is in   *)
(* the store: the key of every unexpired token has a row that is active, or was *)
(* retired no earlier than a lifetime before the token expires, so that no     *)
(* pruning takes it, and a keyring read from the rows has it.  The keyring of  *)
(* a rotation between its load and its swap is as good as the one in memory.   *)

\* Retired keys outlive their tokens, and the primary's keys are rotated by one
\* administrator at a time, whose inserts succeed.
KeysConfigured ==
  /\ Primary \in Nodes /\ \A a \in DOMAIN AdminNode : AdminNode[a] \in Nodes
  /\ \A a, b \in DOMAIN AdminNode : AdminNode[a] = Primary /\ AdminNode[b] = Primary => a = b
  /\ Ttl \in Nat /\ Grace \in Nat /\ Ttl <= Grace
  /\ MaxTime \in Nat \ {0}
  /\ InsertsFail = FALSE

\* Rows name keys up to m and times up to t.
RowsOK(R, m, t) == \A r \in R : r.key \in 1 .. m /\ r.retired \in 0 .. t
RingOK(g, m) == g.up = TRUE /\ g.sign \in g.all /\ g.all \subseteq 1 .. m
TokensOK == \A t \in signed : t.key \in 1 .. minted /\ t.exp \in now .. now + Ttl

Shapes ==
  /\ minted \in Nat /\ now \in 1 .. MaxTime
  /\ DOMAIN rows = Nodes /\ DOMAIN ring = Nodes /\ DOMAIN feed = Nodes
  /\ DOMAIN rot = DOMAIN AdminNode
  /\ \A n \in Nodes : RowsOK(rows[n], minted, now)
  /\ \A n \in Nodes : ring[n].up \in BOOLEAN /\ (ring[n].up => RingOK(ring[n], minted))
  /\ \A n \in Nodes : feed[n].sent = FALSE
                      \/ (feed[n].sent = TRUE /\ n # Primary /\ RowsOK(feed[n].rows, minted, now))
  /\ \A a \in DOMAIN AdminNode :
       \/ rot[a].at \in {"idle", "load"}
       \/ rot[a].at = "create" /\ rot[a].key \in 1 .. minted
       \/ rot[a].at = "swap" /\ RingOK(rot[a].ring, minted)
  /\ TokensOK

\* The key of every token of the primary is kept long enough.
Covered ==
  \A t \in signed : t.iss = Primary =>
    \E r \in rows[Primary] : r.key = t.key /\ (r.retired = Active \/ t.exp <= r.retired + Ttl)

\* The key the primary signs with was retired just now, if at all.
SignKept ==
  ring[Primary].up =>
    \E r \in rows[Primary] : r.key = ring[Primary].sign /\ r.retired \in {Active, now}

\* Keyrings have the keys of the primary's tokens.
RingKnows == ring[Primary].up => \A t \in signed : t.iss = Primary => t.key \in ring[Primary].all
SwapKnows ==
  \A a \in DOMAIN AdminNode : AdminNode[a] = Primary /\ rot[a].at = "swap" =>
    /\ ring[Primary].sign \in rot[a].ring.all
    /\ \A t \in signed : t.iss = Primary => t.key \in rot[a].ring.all

AtMostOne(S) == \A j, k \in S : j = k
ActiveKeys == KeysOf(Actives(rows[Primary]))

\* The active rows, by where the rotation is.
Phases ==
  /\ \A a \in DOMAIN AdminNode : AdminNode[a] = Primary =>
       /\ rot[a].at # "idle" => ring[Primary].up
       /\ rot[a].at = "create" => ActiveKeys = {}
       /\ rot[a].at = "load" => AtMostOne(ActiveKeys)
       /\ rot[a].at = "swap" => ActiveKeys = {rot[a].ring.sign}
  /\ ring[Primary].up /\ (\A a \in DOMAIN AdminNode : AdminNode[a] = Primary => rot[a].at = "idle")
       => ActiveKeys = {ring[Primary].sign}
  /\ ~ring[Primary].up => AtMostOne(ActiveKeys)

KeysInv == Shapes /\ Covered /\ SignKept /\ RingKnows /\ SwapKnows /\ Phases

----------------------------------------------------------------------------
(* The keyring of some rows.                                                   *)

\* A nonempty set of numbers has a least element.
LEMMA LeastExists ==
  ASSUME NEW S, S \subseteq Nat, S # {}
  PROVE  \E x \in S : \A y \in S : x <= y
<1> DEFINE R == {p \in Nat \X Nat : p[1] < p[2]}
<1>1. IsWellFoundedOn(R, Nat)
  BY NatLessThanWellFounded DEF OpToRel
<1>2. \E x \in S : \A y \in S : ~ (<<y, x>> \in R)
  <2> HIDE DEF R
  <2> QED BY <1>1, WFMin
<1>3. PICK x \in S : \A y \in S : ~ (<<y, x>> \in R)
  BY <1>2
<1>4. \A y \in S : x <= y
  <2> SUFFICES ASSUME NEW y \in S PROVE x <= y
    OBVIOUS
  <2>1. x \in Nat /\ y \in Nat /\ ~ (<<y, x>> \in R)
    BY <1>3
  <2> QED BY <2>1
<1> QED BY <1>4

\* The greatest of some keys is one of them.
LEMMA MaxIn ==
  ASSUME NEW m \in Nat, NEW S, S \subseteq 1 .. m, S # {}
  PROVE  Max(S) \in S
<1> DEFINE D == {m - k : k \in S}
<1>1. D \subseteq Nat /\ D # {}
  <2>1. \A k \in S : k \in 1 .. m
    OBVIOUS
  <2>2. \A k \in 1 .. m : m - k \in Nat
    OBVIOUS
  <2>3. \A k \in S : m - k \in Nat
    BY <2>1, <2>2
  <2> QED BY <2>3
<1>2. PICK x \in D : \A y \in D : x <= y
  <2> HIDE DEF D
  <2> QED BY <1>1, LeastExists
<1>3. PICK k \in S : x = m - k
  BY <1>2
<1>4. \A j \in S : k >= j
  <2> SUFFICES ASSUME NEW j \in S PROVE k >= j
    OBVIOUS
  <2>1. x <= m - j /\ j \in 1 .. m /\ k \in 1 .. m
    BY <1>2
  <2> QED BY <1>3, <2>1
<1> QED BY <1>4 DEF Max

\* What load_or_init_keyring gives; g and m are the keys generated before and after.
LoadOf(R, g, t, l, m) ==
  /\ g \in Nat /\ t \in Nat /\ Grace \in Nat /\ RowsOK(R, g, t)
  /\ l = Loaded(R, g + 1, t)
  /\ m = IF g + 1 \in KeysOf(l.rows) THEN g + 1 ELSE g
LoadFit(R, g, t, l, m) ==
  /\ m \in Nat /\ g <= m /\ RowsOK(l.rows, m, t) /\ RingOK(l.ring, m)
  /\ \A r \in R : r.retired = Active \/ r.retired >= t - Grace => r \in l.rows
  /\ l.ring.all = KeysOf(l.rows) /\ l.ring.sign \in KeysOf(Actives(l.rows))
  /\ AtMostOne(KeysOf(Actives(R))) => KeysOf(Actives(l.rows)) = {l.ring.sign}

LEMMA LoadedGives ==
  ASSUME NEW R, NEW g, NEW t, NEW l, NEW m, LoadOf(R, g, t, l, m)
  PROVE  LoadFit(R, g, t, l, m)
<1>0. /\ g \in Nat /\ t \in Nat /\ Grace \in Nat /\ RowsOK(R, g, t)
      /\ l = Loaded(R, g + 1, t)
      /\ m = IF g + 1 \in KeysOf(l.rows) THEN g + 1 ELSE g
  BY DEF LoadOf
<1> DEFINE kept == Pruned(R, t)
           full == IF Actives(kept) = {} THEN kept \cup {KeyRow(g + 1)} ELSE kept
<1>1. l = [rows |-> full, ring |-> Keyring(full)]
  BY <1>0 DEF Loaded
<1>2. l.rows = full /\ l.ring = Keyring(full)
  BY <1>1
<1>3. /\ l.ring.up = TRUE /\ l.ring.all = KeysOf(l.rows)
      /\ l.ring.sign = Max(KeysOf(Actives(l.rows)))
  BY <1>2 DEF Keyring
<1>4. KeyRow(g + 1).key = g + 1 /\ KeyRow(g + 1).retired = 0 /\ Active = 0
  BY DEF KeyRow, Active
<1>5. \A r \in l.rows : r \in R \/ r = KeyRow(g + 1)
  BY <1>2 DEF Pruned
<1>6. \A r \in R : r.key \in 1 .. g /\ r.retired \in 0 .. t
  BY <1>0 DEF RowsOK
<1>7. m \in Nat /\ g \in Nat /\ t \in Nat /\ g <= m /\ (m = g \/ m = g + 1)
  BY <1>0
<1>8. KeyRow(g + 1) \in l.rows => m = g + 1
  BY <1>0, <1>4 DEF KeysOf
<1>9. RowsOK(l.rows, m, t)
  <2> SUFFICES ASSUME NEW r \in l.rows PROVE r.key \in 1 .. m /\ r.retired \in 0 .. t
    BY DEF RowsOK
  <2>1. CASE r \in R
    BY <1>6, <1>7, <2>1
  <2>2. CASE r = KeyRow(g + 1)
    BY <1>4, <1>7, <1>8, <2>2
  <2> QED BY <1>5, <2>1, <2>2
<1>10. Actives(l.rows) # {}
  <2>1. CASE Actives(kept) = {}
    <3>1. KeyRow(g + 1) \in l.rows
      BY <1>2, <2>1
    <3> QED BY <1>4, <3>1 DEF Actives
  <2>2. CASE Actives(kept) # {}
    BY <1>2, <2>2
  <2> QED BY <2>1, <2>2
<1>11. l.ring.sign \in KeysOf(Actives(l.rows))
  <2>1. KeysOf(Actives(l.rows)) # {} /\ KeysOf(Actives(l.rows)) \subseteq 1 .. m
    BY <1>9, <1>10 DEF KeysOf, Actives, RowsOK
  <2> QED BY <1>3, <1>7, <2>1, MaxIn
<1>12. RingOK(l.ring, m)
  <2>1. KeysOf(Actives(l.rows)) \subseteq KeysOf(l.rows) /\ KeysOf(l.rows) \subseteq 1 .. m
    BY <1>9 DEF KeysOf, Actives, RowsOK
  <2> QED BY <1>3, <1>11, <2>1 DEF RingOK
<1>13. \A r \in R : r.retired = Active \/ r.retired >= t - Grace => r \in l.rows
  BY <1>2 DEF Pruned
<1>14. ASSUME AtMostOne(KeysOf(Actives(R)))
       PROVE  KeysOf(Actives(l.rows)) = {l.ring.sign}
  <2>1. \A x, y \in Actives(l.rows) : x.key = y.key
    <3>1. CASE Actives(kept) = {}
      <4>1. \A x \in Actives(l.rows) : x = KeyRow(g + 1)
        BY <1>2, <3>1 DEF Actives
      <4> QED BY <4>1
    <3>2. CASE Actives(kept) # {}
      <4>1. \A x \in Actives(l.rows) : x \in Actives(R)
        BY <1>2, <3>2 DEF Actives, Pruned
      <4> QED BY <1>14, <4>1 DEF KeysOf, AtMostOne
    <3> QED BY <3>1, <3>2
  <2> QED BY <1>11, <2>1 DEF KeysOf
<1> QED BY <1>3, <1>7, <1>9, <1>11, <1>12, <1>13, <1>14 DEF LoadFit

----------------------------------------------------------------------------
(* Frames.                                                                     *)

\* Shapes, one variable at a time: what is left alone stays as it should be.
LEMMA ShapesFrame ==
  ASSUME KeysConfigured, Shapes, minted' \in Nat, minted <= minted', now' \in 1 .. MaxTime, now <= now',
         DOMAIN rows' = Nodes, DOMAIN ring' = Nodes, DOMAIN feed' = Nodes,
         DOMAIN rot' = DOMAIN AdminNode,
         \A n \in Nodes : rows'[n] = rows[n] \/ RowsOK(rows'[n], minted', now'),
         \A n \in Nodes : ring'[n] = ring[n] \/ ring'[n] = Down \/ RingOK(ring'[n], minted'),
         \A n \in Nodes : \/ feed'[n] = feed[n]
                          \/ feed'[n] = NoFeed
                          \/ /\ feed'[n].sent = TRUE /\ n # Primary
                             /\ RowsOK(feed'[n].rows, minted', now'),
         \A a \in DOMAIN AdminNode : \/ rot'[a] = rot[a]
                                     \/ rot'[a].at \in {"idle", "load"}
                                     \/ rot'[a].at = "create" /\ rot'[a].key \in 1 .. minted'
                                     \/ rot'[a].at = "swap" /\ RingOK(rot'[a].ring, minted'),
         \A t \in signed' : t.key \in 1 .. minted' /\ t.exp \in now' .. now' + Ttl
  PROVE  Shapes'
<1>1. minted \in Nat /\ now \in Nat /\ now' \in Nat
  BY DEF Shapes, KeysConfigured
<1>2. 1 .. minted \subseteq 1 .. minted' /\ 0 .. now \subseteq 0 .. now'
  BY <1>1
<1>3. \A R : RowsOK(R, minted, now) => RowsOK(R, minted', now')
  BY <1>2 DEF RowsOK
<1>4. \A g : RingOK(g, minted) => RingOK(g, minted')
  BY <1>2 DEF RingOK
<1>5. \A n \in Nodes : RowsOK(rows'[n], minted', now')
  BY <1>3 DEF Shapes
<1>6. \A n \in Nodes : ring'[n].up \in BOOLEAN /\ (ring'[n].up => RingOK(ring'[n], minted'))
  <2> SUFFICES ASSUME NEW n \in Nodes
               PROVE  ring'[n].up \in BOOLEAN /\ (ring'[n].up => RingOK(ring'[n], minted'))
    OBVIOUS
  <2>1. CASE ring'[n] = ring[n]
    BY <1>4, <2>1 DEF Shapes
  <2>2. CASE ring'[n] = Down
    BY <2>2 DEF Down
  <2>3. CASE RingOK(ring'[n], minted')
    BY <2>3 DEF RingOK
  <2> QED BY <2>1, <2>2, <2>3
<1>7. \A n \in Nodes : \/ feed'[n].sent = FALSE
                       \/ /\ feed'[n].sent = TRUE /\ n # Primary
                          /\ RowsOK(feed'[n].rows, minted', now')
  BY <1>3 DEF Shapes, NoFeed
<1>8. \A a \in DOMAIN AdminNode : \/ rot'[a].at \in {"idle", "load"}
                                  \/ rot'[a].at = "create" /\ rot'[a].key \in 1 .. minted'
                                  \/ rot'[a].at = "swap" /\ RingOK(rot'[a].ring, minted')
  BY <1>2, <1>4 DEF Shapes
<1>9. TokensOK'
  BY DEF TokensOK
<1> QED BY <1>5, <1>6, <1>7, <1>8, <1>9 DEF Shapes, RowsOK, RingOK

\* A step that leaves the primary's rows, keyring, tokens and rotation alone.
LEMMA PrimaryStill ==
  ASSUME KeysInv, Shapes', now' = now, rows'[Primary] = rows[Primary], ring'[Primary] = ring[Primary],
         \A t \in signed' : t.iss = Primary => t \in signed,
         \A a \in DOMAIN AdminNode : AdminNode[a] = Primary => rot'[a] = rot[a]
  PROVE  KeysInv'
<1>1. Covered' /\ SignKept' /\ RingKnows'
  BY DEF KeysInv, Covered, SignKept, RingKnows, Active
<1>2. SwapKnows'
  BY DEF KeysInv, SwapKnows
<1>3. ActiveKeys' = ActiveKeys
  BY DEF ActiveKeys, KeysOf, Actives, Active
<1>4. Phases'
  BY <1>3 DEF KeysInv, Phases, AtMostOne
<1> QED BY <1>1, <1>2, <1>4 DEF KeysInv

----------------------------------------------------------------------------
(* Steps.                                                                      *)

\* Tokens stay well formed while the clock stands still.
LEMMA TokensStay ==
  ASSUME Shapes, minted' \in Nat, minted <= minted', now' = now
  PROVE  \A t \in signed : t.key \in 1 .. minted' /\ t.exp \in now' .. now' + Ttl
<1>1. \A k \in 1 .. minted : k \in 1 .. minted'
  BY DEF Shapes
<1> QED BY <1>1 DEF Shapes, TokensOK

\* A row that covers a token or the signing key is not pruned.
LEMMA CoverKept ==
  ASSUME KeysConfigured, Shapes, NEW r, r.retired \in 0 .. now,
         NEW e \in now .. now + Ttl, r.retired = Active \/ e <= r.retired + Ttl
  PROVE  r.retired = Active \/ r.retired >= now - Grace
<1>1. now \in Nat /\ Ttl \in Nat /\ Grace \in Nat /\ Ttl <= Grace
  BY DEF Shapes, KeysConfigured
<1>2. PICK x : x = r.retired
  OBVIOUS
<1>3. x \in 0 .. now /\ (x = Active \/ e <= x + Ttl)
  BY <1>2
<1>4. x = Active \/ x >= now - Grace
  BY <1>1, <1>3
<1> QED BY <1>2, <1>4

LEMMA SignSound ==
  ASSUME KeysConfigured, KeysInv, NEW n \in Nodes, Sign(n)
  PROVE  KeysInv'
<1>1. PICK v : v = [key |-> ring[n].sign, exp |-> now + Ttl, iss |-> n]
  OBVIOUS
<1>2. /\ ring[n].up /\ signed' = signed \cup {v}
      /\ now' = now /\ minted' = minted /\ rows' = rows /\ ring' = ring /\ rot' = rot /\ feed' = feed
  BY <1>1 DEF Sign
<1>3. Shapes /\ minted \in Nat /\ now \in 1 .. MaxTime /\ Ttl \in Nat /\ now \in Nat
  BY DEF KeysInv, Shapes, KeysConfigured
<1>4. v.key = ring[n].sign /\ v.exp = now + Ttl /\ v.iss = n
  BY <1>1
<1>5. v.key \in 1 .. minted /\ v.exp \in now .. now + Ttl
  <2>1. ring[n].sign \in 1 .. minted
    BY <1>2, <1>3 DEF Shapes, RingOK
  <2>2. now + Ttl \in now .. now + Ttl
    BY <1>3
  <2> QED BY <1>4, <2>1, <2>2
<1>6. Shapes'
  <2>1. \A t \in signed' : t.key \in 1 .. minted' /\ t.exp \in now' .. now' + Ttl
    BY <1>2, <1>3, <1>5 DEF Shapes, TokensOK
  <2>2. /\ minted' \in Nat /\ minted <= minted' /\ now' \in 1 .. MaxTime /\ now <= now'
        /\ DOMAIN rows' = Nodes /\ DOMAIN ring' = Nodes /\ DOMAIN feed' = Nodes
        /\ DOMAIN rot' = DOMAIN AdminNode
    BY <1>2, <1>3 DEF Shapes
  <2> QED BY <1>2, <1>3, <2>1, <2>2, ShapesFrame
<1>7. CASE n # Primary
  BY <1>2, <1>4, <1>6, <1>7, PrimaryStill
<1>8. CASE n = Primary
  <2>1. Covered'
    <3>1. PICK r \in rows[Primary] : r.key = ring[Primary].sign /\ r.retired \in {Active, now}
      BY <1>2, <1>8 DEF KeysInv, SignKept
    <3>2. r.key = v.key /\ (r.retired = Active \/ v.exp <= r.retired + Ttl)
      BY <1>3, <1>4, <1>8, <3>1
    <3> QED BY <1>2, <3>2 DEF KeysInv, Covered, Active
  <2>2. SignKept'
    BY <1>2 DEF KeysInv, SignKept, Active
  <2>3. RingKnows'
    <3>1. ring[Primary].sign \in ring[Primary].all
      BY <1>2, <1>3, <1>8 DEF Shapes, RingOK
    <3> QED BY <1>2, <1>4, <1>8, <3>1 DEF KeysInv, RingKnows
  <2>4. SwapKnows'
    BY <1>2, <1>4, <1>8 DEF KeysInv, SwapKnows
  <2>5. ActiveKeys' = ActiveKeys
    BY <1>2 DEF ActiveKeys, KeysOf, Actives, Active
  <2>6. Phases'
    BY <1>2, <2>5 DEF KeysInv, Phases, AtMostOne
  <2> QED BY <1>6, <2>1, <2>2, <2>3, <2>4, <2>6 DEF KeysInv
<1> QED BY <1>7, <1>8

\* The feed reaches secondaries only.
LEMMA FeedSound ==
  ASSUME KeysConfigured, KeysInv, NEW n \in Nodes, Fetch(n) \/ Apply(n) \/ Lose(n)
  PROVE  KeysInv'
<1>1. /\ now' = now /\ minted' = minted /\ ring' = ring /\ rot' = rot /\ signed' = signed
      /\ DOMAIN rows' = DOMAIN rows /\ DOMAIN feed' = DOMAIN feed
  BY DEF Fetch, Apply, Lose
<1>2. Shapes /\ minted \in Nat /\ now \in 1 .. MaxTime /\ now \in Nat
  BY DEF KeysInv, Shapes, KeysConfigured
<1>3. \A x \in Nodes : x # n => feed'[x] = feed[x] /\ rows'[x] = rows[x]
  BY <1>2 DEF Fetch, Apply, Lose, Shapes
<1>4. \/ feed'[n] = NoFeed
      \/ feed'[n].sent = TRUE /\ n # Primary /\ RowsOK(feed'[n].rows, minted', now')
  <2>1. CASE Fetch(n)
    <3>1. feed'[n] = [sent |-> TRUE, rows |-> rows[Primary]] /\ n # Primary
      BY <1>2, <2>1 DEF Fetch, Shapes
    <3> QED BY <1>1, <1>2, <3>1 DEF Shapes, KeysConfigured
  <2>2. CASE Apply(n) \/ Lose(n)
    BY <1>2, <2>2 DEF Apply, Lose, Shapes
  <2> QED BY <2>1, <2>2
<1>5. rows'[n] = rows[n] \/ (n # Primary /\ RowsOK(rows'[n], minted', now'))
  <2>1. rows'[n] = rows[n] \/ (feed[n].sent /\ rows'[n] = feed[n].rows)
    BY <1>2 DEF Fetch, Apply, Lose, Shapes
  <2> QED BY <1>1, <1>2, <2>1 DEF Shapes
<1>6. Shapes'
  <2>1. \A t \in signed' : t.key \in 1 .. minted' /\ t.exp \in now' .. now' + Ttl
    BY <1>1, <1>2, TokensStay
  <2>2. \A x \in Nodes : rows'[x] = rows[x] \/ RowsOK(rows'[x], minted', now')
    BY <1>3, <1>5
  <2>3. \A x \in Nodes : \/ feed'[x] = feed[x]
                         \/ feed'[x] = NoFeed
                         \/ /\ feed'[x].sent = TRUE /\ x # Primary
                            /\ RowsOK(feed'[x].rows, minted', now')
    BY <1>3, <1>4
  <2>4. /\ minted' \in Nat /\ minted <= minted' /\ now' \in 1 .. MaxTime /\ now <= now'
        /\ DOMAIN rows' = Nodes /\ DOMAIN ring' = Nodes /\ DOMAIN feed' = Nodes
        /\ DOMAIN rot' = DOMAIN AdminNode
    BY <1>1, <1>2 DEF Shapes
  <2> QED BY <1>1, <1>2, <2>1, <2>2, <2>3, <2>4, ShapesFrame
<1>7. rows'[Primary] = rows[Primary]
  BY <1>3, <1>5 DEF KeysConfigured
<1> QED BY <1>1, <1>6, <1>7, PrimaryStill

\* A keyring read from the primary's rows has the keys that are in use.
LEMMA LoadCovers ==
  ASSUME KeysConfigured, KeysInv, NEW l, l = Loaded(rows[Primary], minted + 1, now)
  PROVE  /\ \A t \in signed : t.iss = Primary =>
              /\ \E r \in l.rows : r.key = t.key /\ (r.retired = Active \/ t.exp <= r.retired + Ttl)
              /\ t.key \in l.ring.all
         /\ ring[Primary].up =>
              /\ \E r \in l.rows : r.key = ring[Primary].sign /\ r.retired \in {Active, now}
              /\ ring[Primary].sign \in l.ring.all
<1>1. Shapes /\ minted \in Nat /\ now \in Nat /\ Grace \in Nat /\ Primary \in Nodes
  BY DEF KeysInv, Shapes, KeysConfigured
<1>2. RowsOK(rows[Primary], minted, now)
  BY <1>1 DEF Shapes
<1>3. /\ \A r \in rows[Primary] : r.retired = Active \/ r.retired >= now - Grace => r \in l.rows
      /\ l.ring.all = KeysOf(l.rows)
  <2>1. PICK m : m = IF minted + 1 \in KeysOf(l.rows) THEN minted + 1 ELSE minted
    OBVIOUS
  <2>2. LoadFit(rows[Primary], minted, now, l, m)
    BY <1>1, <1>2, <2>1, LoadedGives DEF LoadOf
  <2> QED BY <2>2 DEF LoadFit
<1>4. ASSUME NEW t \in signed, t.iss = Primary
      PROVE  /\ \E r \in l.rows : r.key = t.key /\ (r.retired = Active \/ t.exp <= r.retired + Ttl)
             /\ t.key \in l.ring.all
  <2>1. PICK r \in rows[Primary] : r.key = t.key /\ (r.retired = Active \/ t.exp <= r.retired + Ttl)
    BY <1>4 DEF KeysInv, Covered
  <2>2. t.exp \in now .. now + Ttl /\ r.retired \in 0 .. now
    BY <1>1, <1>2 DEF Shapes, TokensOK, RowsOK
  <2>3. r.retired = Active \/ r.retired >= now - Grace
    BY <1>1, <2>1, <2>2, CoverKept
  <2>4. r \in l.rows
    BY <1>3, <2>3
  <2> QED BY <1>3, <2>1, <2>4 DEF KeysOf
<1>5. ASSUME ring[Primary].up
      PROVE  /\ \E r \in l.rows : r.key = ring[Primary].sign /\ r.retired \in {Active, now}
             /\ ring[Primary].sign \in l.ring.all
  <2>1. PICK r \in rows[Primary] : r.key = ring[Primary].sign /\ r.retired \in {Active, now}
    BY <1>5 DEF KeysInv, SignKept
  <2>2. r.retired = Active \/ r.retired >= now - Grace
    BY <1>1, <2>1
  <2>3. r \in l.rows
    BY <1>3, <2>2
  <2> QED BY <1>3, <2>1, <2>3 DEF KeysOf
<1> QED BY <1>4, <1>5

LEMMA StartSound ==
  ASSUME KeysConfigured, KeysInv, NEW n \in Nodes, Start(n)
  PROVE  KeysInv'
<1>1. PICK l : l = Loaded(rows[n], minted + 1, now)
  OBVIOUS
<1>2. /\ ~ring[n].up /\ rows' = [rows EXCEPT ![n] = l.rows] /\ ring' = [ring EXCEPT ![n] = l.ring]
      /\ minted' = (IF minted + 1 \in KeysOf(l.rows) THEN minted + 1 ELSE minted)
      /\ now' = now /\ rot' = rot /\ signed' = signed /\ feed' = feed
  BY <1>1 DEF Start
<1>3. Shapes /\ minted \in Nat /\ now \in 1 .. MaxTime /\ now \in Nat /\ Grace \in Nat
  BY DEF KeysInv, Shapes, KeysConfigured
<1>4. /\ rows'[n] = l.rows /\ \A x \in Nodes : x # n => rows'[x] = rows[x]
      /\ ring'[n] = l.ring /\ \A x \in Nodes : x # n => ring'[x] = ring[x]
      /\ DOMAIN rows' = Nodes /\ DOMAIN ring' = Nodes /\ DOMAIN feed' = Nodes
      /\ DOMAIN rot' = DOMAIN AdminNode
  BY <1>2, <1>3 DEF Shapes
<1>5. RowsOK(rows[n], minted, now)
  BY <1>3 DEF Shapes
<1>6. PICK m : m = minted'
  OBVIOUS
<1>7. /\ m \in Nat /\ minted <= m /\ RowsOK(l.rows, m, now) /\ RingOK(l.ring, m)
      /\ l.ring.all = KeysOf(l.rows) /\ l.ring.sign \in KeysOf(Actives(l.rows))
      /\ AtMostOne(KeysOf(Actives(rows[n]))) => KeysOf(Actives(l.rows)) = {l.ring.sign}
  <2>1. LoadFit(rows[n], minted, now, l, m)
    BY <1>1, <1>2, <1>3, <1>5, <1>6, LoadedGives DEF LoadOf
  <2> QED BY <2>1 DEF LoadFit
<1>8. Shapes'
  <2>1. \A t \in signed' : t.key \in 1 .. minted' /\ t.exp \in now' .. now' + Ttl
    BY <1>2, <1>3, <1>6, <1>7, TokensStay
  <2>2. \A x \in Nodes : rows'[x] = rows[x] \/ RowsOK(rows'[x], minted', now')
    BY <1>2, <1>4, <1>6, <1>7
  <2>3. \A x \in Nodes : ring'[x] = ring[x] \/ ring'[x] = Down \/ RingOK(ring'[x], minted')
    BY <1>4, <1>6, <1>7
  <2>4. minted' \in Nat /\ minted <= minted' /\ now' \in 1 .. MaxTime /\ now <= now'
    BY <1>2, <1>3, <1>6, <1>7
  <2> QED BY <1>2, <1>3, <1>4, <2>1, <2>2, <2>3, <2>4, ShapesFrame
<1>9. CASE n # Primary
  BY <1>2, <1>4, <1>8, <1>9, PrimaryStill DEF KeysConfigured
<1>10. CASE n = Primary
  <2>1. \A t \in signed : t.iss = Primary =>
          /\ \E r \in l.rows : r.key = t.key /\ (r.retired = Active \/ t.exp <= r.retired + Ttl)
          /\ t.key \in l.ring.all
    BY <1>1, <1>10, LoadCovers
  <2>2. Covered' /\ RingKnows'
    BY <1>2, <1>4, <1>10, <2>1 DEF Covered, RingKnows, Active
  <2>3. SignKept'
    BY <1>2, <1>4, <1>7, <1>10 DEF SignKept, KeysOf, Actives, Active
  <2>4. \A a \in DOMAIN AdminNode : AdminNode[a] = Primary => rot[a].at = "idle"
    BY <1>2, <1>10 DEF KeysInv, Phases
  <2>5. SwapKnows'
    BY <1>2, <2>4 DEF SwapKnows
  <2>6. ActiveKeys' = KeysOf(Actives(l.rows))
    BY <1>4, <1>10 DEF ActiveKeys, KeysOf, Actives, Active
  <2>7. ActiveKeys' = {ring'[Primary].sign} /\ ring'[Primary].up
    BY <1>2, <1>4, <1>7, <1>10, <2>6 DEF KeysInv, Phases, ActiveKeys, RingOK
  <2>8. Phases'
    BY <1>2, <2>4, <2>7 DEF Phases
  <2> QED BY <1>8, <2>2, <2>3, <2>5, <2>8 DEF KeysInv
<1> QED BY <1>9, <1>10

LEMMA CrashSound ==
  ASSUME KeysConfigured, KeysInv, NEW n \in Nodes, Crash(n)
  PROVE  KeysInv'
<1>1. /\ ring[n].up /\ ring' = [ring EXCEPT ![n] = Down]
      /\ rot' = [a \in DOMAIN AdminNode |-> IF AdminNode[a] = n THEN NoRotation ELSE rot[a]]
      /\ now' = now /\ minted' = minted /\ rows' = rows /\ signed' = signed /\ feed' = feed
  BY DEF Crash
<1>2. Shapes /\ minted \in Nat /\ now \in 1 .. MaxTime /\ now \in Nat
  BY DEF KeysInv, Shapes, KeysConfigured
<1>3. /\ ring'[n] = Down /\ \A x \in Nodes : x # n => ring'[x] = ring[x]
      /\ DOMAIN rows' = Nodes /\ DOMAIN ring' = Nodes /\ DOMAIN feed' = Nodes
      /\ DOMAIN rot' = DOMAIN AdminNode
  BY <1>1, <1>2 DEF Shapes
<1>4. \A a \in DOMAIN AdminNode : IF AdminNode[a] = n THEN rot'[a].at = "idle" ELSE rot'[a] = rot[a]
  BY <1>1 DEF NoRotation
<1>5. Shapes'
  <2>1. \A t \in signed' : t.key \in 1 .. minted' /\ t.exp \in now' .. now' + Ttl
    BY <1>1, <1>2, TokensStay
  <2>2. minted' \in Nat /\ minted <= minted' /\ now' \in 1 .. MaxTime /\ now <= now'
    BY <1>1, <1>2
  <2>3. \A x \in Nodes : ring'[x] = ring[x] \/ ring'[x] = Down \/ RingOK(ring'[x], minted')
    BY <1>3
  <2>4. \A a \in DOMAIN AdminNode : rot'[a] = rot[a] \/ rot'[a].at \in {"idle", "load"}
    BY <1>4
  <2> QED BY <1>1, <1>2, <1>3, <2>1, <2>2, <2>3, <2>4, ShapesFrame
<1>6. CASE n # Primary
  BY <1>1, <1>3, <1>4, <1>5, <1>6, PrimaryStill DEF KeysConfigured
<1>7. CASE n = Primary
  <2>1. ~ring'[Primary].up
    BY <1>3, <1>7 DEF Down
  <2>2. \A a \in DOMAIN AdminNode : AdminNode[a] = Primary => rot'[a].at = "idle"
    BY <1>4, <1>7
  <2>3. Covered' /\ SignKept' /\ RingKnows' /\ SwapKnows'
    BY <1>1, <2>1, <2>2 DEF KeysInv, Covered, SignKept, RingKnows, SwapKnows, Active
  <2>4. ActiveKeys' = ActiveKeys
    BY <1>1 DEF ActiveKeys, KeysOf, Actives, Active
  <2>5. AtMostOne(ActiveKeys)
    <3>1. CASE \A a \in DOMAIN AdminNode : AdminNode[a] = Primary => rot[a].at = "idle"
      BY <1>1, <1>7, <3>1 DEF KeysInv, Phases, AtMostOne
    <3>2. ASSUME NEW a \in DOMAIN AdminNode, AdminNode[a] = Primary, rot[a].at # "idle"
          PROVE  AtMostOne(ActiveKeys)
      <4>1. rot[a].at \in {"load", "create", "swap"}
        BY <1>2, <3>2 DEF Shapes
      <4> QED BY <3>2, <4>1 DEF KeysInv, Phases, AtMostOne
    <3> QED BY <3>1, <3>2
  <2>6. Phases'
    BY <2>1, <2>2, <2>4, <2>5 DEF Phases
  <2> QED BY <1>5, <2>3, <2>6 DEF KeysInv
<1> QED BY <1>6, <1>7

\* A rotation step of another node.
LEMMA ElsewhereSound ==
  ASSUME KeysConfigured, KeysInv, Shapes', NEW a \in DOMAIN AdminNode, AdminNode[a] # Primary,
         now' = now, signed' = signed, rows'[Primary] = rows[Primary],
         ring'[Primary] = ring[Primary], \A b \in DOMAIN AdminNode : b # a => rot'[b] = rot[b]
  PROVE  KeysInv'
BY PrimaryStill

LEMMA RotateSound ==
  ASSUME KeysConfigured, KeysInv, NEW a \in DOMAIN AdminNode, Rotate(a)
  PROVE  KeysInv'
<1>1. PICK n, v : n = AdminNode[a] /\ v = [at |-> "create", key |-> minted + 1]
  OBVIOUS
<1>2. /\ rot[a] = NoRotation /\ ring[n].up /\ minted' = minted + 1
      /\ rows' = [rows EXCEPT ![n] = Retired(rows[n], minted + 1, now)]
      /\ rot' = [rot EXCEPT ![a] = v]
      /\ now' = now /\ ring' = ring /\ signed' = signed /\ feed' = feed
  BY <1>1 DEF Rotate
<1>3. Shapes /\ minted \in Nat /\ now \in 1 .. MaxTime /\ now \in Nat /\ n \in Nodes /\ Ttl \in Nat
  BY <1>1 DEF KeysInv, Shapes, KeysConfigured
<1>4. PICK R, Q : R = rows[n] /\ Q = Retired(rows[n], minted + 1, now)
  OBVIOUS
<1>5. /\ rows'[n] = Q /\ \A x \in Nodes : x # n => rows'[x] = rows[x]
      /\ rot'[a] = v /\ \A b \in DOMAIN AdminNode : b # a => rot'[b] = rot[b]
      /\ DOMAIN rows' = Nodes /\ DOMAIN ring' = Nodes /\ DOMAIN feed' = Nodes
      /\ DOMAIN rot' = DOMAIN AdminNode
  BY <1>2, <1>3, <1>4 DEF Shapes
<1>6. \A q \in Q : \/ q \in R /\ q.retired # Active
                   \/ q.retired = now /\ \E r \in R : r.retired = Active /\ q.key = r.key
  BY <1>4 DEF Retired, Actives
<1>7. \A r \in R : \/ r \in Q
                   \/ r.retired = Active /\ \E q \in Q : q.key = r.key /\ q.retired = now
  <2> SUFFICES ASSUME NEW r \in R, r.retired = Active
               PROVE  \E q \in Q : q.key = r.key /\ q.retired = now
    BY <1>4 DEF Retired, Actives
  <2>1. PICK q : q = [key |-> r.key, retired |-> now, by |-> minted + 1]
    OBVIOUS
  <2>2. q \in Q
    BY <1>4, <2>1 DEF Retired, Actives
  <2> QED BY <2>1, <2>2
<1>8. Shapes'
  <2>1. minted' \in Nat /\ minted <= minted' /\ now' \in 1 .. MaxTime /\ now <= now'
    BY <1>2, <1>3
  <2>2. \A t \in signed' : t.key \in 1 .. minted' /\ t.exp \in now' .. now' + Ttl
    BY <1>2, <1>3, <2>1, TokensStay
  <2>3. RowsOK(Q, minted', now')
    <3>1. RowsOK(R, minted, now)
      BY <1>3, <1>4 DEF Shapes
    <3>2. 1 .. minted \subseteq 1 .. minted' /\ now \in 0 .. now
      BY <1>3, <2>1
    <3> QED BY <1>2, <1>6, <3>1, <3>2 DEF RowsOK
  <2>4. rot'[a].at = "create" /\ rot'[a].key \in 1 .. minted'
    BY <1>1, <1>2, <1>3, <1>5
  <2>5. \A x \in Nodes : rows'[x] = rows[x] \/ RowsOK(rows'[x], minted', now')
    BY <1>5, <2>3
  <2>6. \A b \in DOMAIN AdminNode : \/ rot'[b] = rot[b]
                                    \/ rot'[b].at = "create" /\ rot'[b].key \in 1 .. minted'
    BY <1>5, <2>4
  <2> QED BY <1>2, <1>3, <1>5, <2>1, <2>2, <2>5, <2>6, ShapesFrame
<1>9. CASE n # Primary
  BY <1>1, <1>2, <1>5, <1>8, <1>9, ElsewhereSound DEF KeysConfigured
<1>10. CASE n = Primary
  <2>1. Covered'
    <3> SUFFICES ASSUME NEW t \in signed, t.iss = Primary
                 PROVE  \E q \in Q : q.key = t.key /\ (q.retired = Active \/ t.exp <= q.retired + Ttl)
      BY <1>2, <1>5, <1>10 DEF Covered, Active
    <3>1. PICK r \in R : r.key = t.key /\ (r.retired = Active \/ t.exp <= r.retired + Ttl)
      BY <1>4, <1>10 DEF KeysInv, Covered
    <3>2. t.exp <= now + Ttl
      BY <1>3 DEF Shapes, TokensOK
    <3> QED BY <1>7, <3>1, <3>2
  <2>2. SignKept'
    <3>1. PICK r \in R : r.key = ring[Primary].sign /\ r.retired \in {Active, now}
      BY <1>2, <1>4, <1>10 DEF KeysInv, SignKept
    <3>2. \E q \in Q : q.key = ring[Primary].sign /\ q.retired \in {Active, now}
      BY <1>7, <3>1
    <3> QED BY <1>2, <1>5, <1>10, <3>2 DEF SignKept, Active
  <2>3. RingKnows'
    BY <1>2 DEF KeysInv, RingKnows
  <2>4. \A b \in DOMAIN AdminNode : AdminNode[b] = Primary => b = a
    BY <1>1, <1>10 DEF KeysConfigured
  <2>5. rot'[a].at = "create"
    BY <1>1, <1>5
  <2>6. SwapKnows'
    BY <2>4, <2>5 DEF SwapKnows
  <2>7. ActiveKeys' = {}
    <3>1. \A q \in Q : q.retired # Active
      BY <1>3, <1>6 DEF Active
    <3> QED BY <1>5, <1>10, <3>1 DEF ActiveKeys, KeysOf, Actives, Active
  <2>8. Phases'
    BY <1>1, <1>2, <1>10, <2>4, <2>5, <2>7 DEF Phases
  <2> QED BY <1>8, <2>1, <2>2, <2>3, <2>6, <2>8 DEF KeysInv
<1> QED BY <1>9, <1>10

LEMMA RotateCreateSound ==
  ASSUME KeysConfigured, KeysInv, NEW a \in DOMAIN AdminNode, RotateCreate(a)
  PROVE  KeysInv'
<1>1. PICK n, k, v, w : n = AdminNode[a] /\ k = rot[a].key /\ v = KeyRow(k) /\ w = [at |-> "load"]
  OBVIOUS
<1>2. /\ rot[a].at = "create" /\ rows' = [rows EXCEPT ![n] = rows[n] \cup {v}]
      /\ rot' = [rot EXCEPT ![a] = w]
      /\ minted' = minted /\ now' = now /\ ring' = ring /\ signed' = signed /\ feed' = feed
  BY <1>1 DEF RotateCreate
<1>3. Shapes /\ minted \in Nat /\ now \in 1 .. MaxTime /\ now \in Nat /\ n \in Nodes
  BY <1>1 DEF KeysInv, Shapes, KeysConfigured
<1>4. /\ rows'[n] = rows[n] \cup {v} /\ \A x \in Nodes : x # n => rows'[x] = rows[x]
      /\ rot'[a] = w /\ \A b \in DOMAIN AdminNode : b # a => rot'[b] = rot[b]
      /\ DOMAIN rows' = Nodes /\ DOMAIN ring' = Nodes /\ DOMAIN feed' = Nodes
      /\ DOMAIN rot' = DOMAIN AdminNode
  BY <1>2, <1>3 DEF Shapes
<1>5. v.key = k /\ v.retired = Active /\ k \in 1 .. minted
  BY <1>1, <1>2, <1>3 DEF KeyRow, Shapes
<1>6. w.at = "load"
  BY <1>1
<1>7. Shapes'
  <2>1. minted' \in Nat /\ minted <= minted' /\ now' \in 1 .. MaxTime /\ now <= now'
    BY <1>2, <1>3
  <2>2. \A t \in signed' : t.key \in 1 .. minted' /\ t.exp \in now' .. now' + Ttl
    BY <1>2, <1>3, <2>1, TokensStay
  <2>3. RowsOK(rows'[n], minted', now')
    <3>1. RowsOK(rows[n], minted, now) /\ 0 \in 0 .. now
      BY <1>3 DEF Shapes
    <3> QED BY <1>2, <1>4, <1>5, <3>1 DEF RowsOK, Active
  <2>4. \A x \in Nodes : rows'[x] = rows[x] \/ RowsOK(rows'[x], minted', now')
    BY <1>4, <2>3
  <2>5. \A b \in DOMAIN AdminNode : rot'[b] = rot[b] \/ rot'[b].at \in {"idle", "load"}
    BY <1>4, <1>6
  <2> QED BY <1>2, <1>3, <1>4, <2>1, <2>2, <2>4, <2>5, ShapesFrame
<1>8. CASE n # Primary
  BY <1>1, <1>2, <1>4, <1>7, <1>8, ElsewhereSound DEF KeysConfigured
<1>9. CASE n = Primary
  <2>1. Covered' /\ SignKept' /\ RingKnows'
    BY <1>2, <1>4, <1>9 DEF KeysInv, Covered, SignKept, RingKnows, Active
  <2>2. \A b \in DOMAIN AdminNode : AdminNode[b] = Primary => b = a
    BY <1>1, <1>9 DEF KeysConfigured
  <2>3. SwapKnows'
    BY <1>4, <1>6, <2>2 DEF SwapKnows
  <2>4. ActiveKeys = {} /\ ring[Primary].up
    BY <1>1, <1>2, <1>9 DEF KeysInv, Phases
  <2>5. AtMostOne(ActiveKeys')
    <3>1. \A r \in rows[Primary] : r.retired # Active
      BY <2>4 DEF ActiveKeys, KeysOf, Actives
    <3>2. \A r \in Actives(rows[Primary])' : r = v
      BY <1>4, <1>9, <3>1 DEF Actives, Active
    <3> QED BY <3>2 DEF ActiveKeys, KeysOf, AtMostOne
  <2>6. Phases'
    BY <1>1, <1>2, <1>4, <1>6, <1>9, <2>2, <2>4, <2>5 DEF Phases, AtMostOne
  <2> QED BY <1>7, <2>1, <2>3, <2>6 DEF KeysInv
<1> QED BY <1>8, <1>9

LEMMA RotateLoadSound ==
  ASSUME KeysConfigured, KeysInv, NEW a \in DOMAIN AdminNode, RotateLoad(a)
  PROVE  KeysInv'
<1>1. PICK n : n = AdminNode[a]
  OBVIOUS
<1>2. PICK l, w : l = Loaded(rows[n], minted + 1, now) /\ w = [at |-> "swap", ring |-> l.ring]
  OBVIOUS
<1>3. /\ rot[a].at = "load" /\ rows' = [rows EXCEPT ![n] = l.rows] /\ rot' = [rot EXCEPT ![a] = w]
      /\ minted' = (IF minted + 1 \in KeysOf(l.rows) THEN minted + 1 ELSE minted)
      /\ now' = now /\ ring' = ring /\ signed' = signed /\ feed' = feed
  BY <1>1, <1>2 DEF RotateLoad
<1>4. Shapes /\ minted \in Nat /\ now \in 1 .. MaxTime /\ now \in Nat /\ n \in Nodes /\ Grace \in Nat
  BY <1>1 DEF KeysInv, Shapes, KeysConfigured
<1>5. /\ rows'[n] = l.rows /\ \A x \in Nodes : x # n => rows'[x] = rows[x]
      /\ rot'[a] = w /\ \A b \in DOMAIN AdminNode : b # a => rot'[b] = rot[b]
      /\ DOMAIN rows' = Nodes /\ DOMAIN ring' = Nodes /\ DOMAIN feed' = Nodes
      /\ DOMAIN rot' = DOMAIN AdminNode
  BY <1>3, <1>4 DEF Shapes
<1>6. RowsOK(rows[n], minted, now)
  BY <1>4 DEF Shapes
<1>7. PICK m : m = minted'
  OBVIOUS
<1>8. /\ m \in Nat /\ minted <= m /\ RowsOK(l.rows, m, now) /\ RingOK(l.ring, m)
      /\ l.ring.all = KeysOf(l.rows) /\ l.ring.sign \in KeysOf(Actives(l.rows))
      /\ AtMostOne(KeysOf(Actives(rows[n]))) => KeysOf(Actives(l.rows)) = {l.ring.sign}
  <2>1. LoadFit(rows[n], minted, now, l, m)
    BY <1>2, <1>3, <1>4, <1>6, <1>7, LoadedGives DEF LoadOf
  <2> QED BY <2>1 DEF LoadFit
<1>9. w.at = "swap" /\ w.ring = l.ring
  BY <1>2
<1>10. Shapes'
  <2>1. minted' \in Nat /\ minted <= minted' /\ now' \in 1 .. MaxTime /\ now <= now'
    BY <1>3, <1>4, <1>7, <1>8
  <2>2. \A t \in signed' : t.key \in 1 .. minted' /\ t.exp \in now' .. now' + Ttl
    BY <1>3, <1>4, <2>1, TokensStay
  <2>3. \A x \in Nodes : rows'[x] = rows[x] \/ RowsOK(rows'[x], minted', now')
    BY <1>3, <1>5, <1>7, <1>8
  <2>4. \A b \in DOMAIN AdminNode : \/ rot'[b] = rot[b]
                                    \/ rot'[b].at = "swap" /\ RingOK(rot'[b].ring, minted')
    BY <1>5, <1>7, <1>8, <1>9
  <2> QED BY <1>3, <1>4, <1>5, <2>1, <2>2, <2>3, <2>4, ShapesFrame
<1>11. CASE n # Primary
  BY <1>1, <1>3, <1>5, <1>10, <1>11, ElsewhereSound DEF KeysConfigured
<1>12. CASE n = Primary
  <2>1. /\ \A t \in signed : t.iss = Primary =>
             /\ \E r \in l.rows : r.key = t.key /\ (r.retired = Active \/ t.exp <= r.retired + Ttl)
             /\ t.key \in l.ring.all
        /\ ring[Primary].up =>
             /\ \E r \in l.rows : r.key = ring[Primary].sign /\ r.retired \in {Active, now}
             /\ ring[Primary].sign \in l.ring.all
    BY <1>2, <1>12, LoadCovers
  <2>2. Covered' /\ SignKept' /\ RingKnows'
    BY <1>3, <1>5, <1>12, <2>1 DEF KeysInv, Covered, SignKept, RingKnows, Active
  <2>3. \A b \in DOMAIN AdminNode : AdminNode[b] = Primary => b = a
    BY <1>1, <1>12 DEF KeysConfigured
  <2>4. ring[Primary].up /\ AtMostOne(ActiveKeys)
    BY <1>1, <1>3, <1>12 DEF KeysInv, Phases
  <2>5. SwapKnows'
    BY <1>3, <1>5, <1>9, <2>1, <2>3, <2>4 DEF SwapKnows
  <2>6. ActiveKeys' = {l.ring.sign}
    <3>1. ActiveKeys' = KeysOf(Actives(l.rows))
      BY <1>5, <1>12 DEF ActiveKeys, KeysOf, Actives, Active
    <3> QED BY <1>8, <1>12, <2>4, <3>1 DEF ActiveKeys
  <2>7. Phases'
    BY <1>1, <1>3, <1>5, <1>9, <1>12, <2>3, <2>4, <2>6 DEF Phases
  <2> QED BY <1>10, <2>2, <2>5, <2>7 DEF KeysInv
<1> QED BY <1>11, <1>12

LEMMA RotateSwapSound ==
  ASSUME KeysConfigured, KeysInv, NEW a \in DOMAIN AdminNode, RotateSwap(a)
  PROVE  KeysInv'
<1>1. PICK n, g : n = AdminNode[a] /\ g = rot[a].ring
  OBVIOUS
<1>2. /\ rot[a].at = "swap" /\ ring' = [ring EXCEPT ![n] = g] /\ rot' = [rot EXCEPT ![a] = NoRotation]
      /\ minted' = minted /\ now' = now /\ rows' = rows /\ signed' = signed /\ feed' = feed
  BY <1>1 DEF RotateSwap, Swapped
<1>3. Shapes /\ minted \in Nat /\ now \in 1 .. MaxTime /\ now \in Nat /\ n \in Nodes
  BY <1>1 DEF KeysInv, Shapes, KeysConfigured
<1>4. /\ ring'[n] = g /\ \A x \in Nodes : x # n => ring'[x] = ring[x]
      /\ rot'[a].at = "idle" /\ \A b \in DOMAIN AdminNode : b # a => rot'[b] = rot[b]
      /\ DOMAIN rows' = Nodes /\ DOMAIN ring' = Nodes /\ DOMAIN feed' = Nodes
      /\ DOMAIN rot' = DOMAIN AdminNode
  BY <1>2, <1>3 DEF Shapes, NoRotation
<1>5. RingOK(g, minted)
  BY <1>1, <1>2, <1>3 DEF Shapes
<1>6. Shapes'
  <2>1. minted' \in Nat /\ minted <= minted' /\ now' \in 1 .. MaxTime /\ now <= now'
    BY <1>2, <1>3
  <2>2. \A t \in signed' : t.key \in 1 .. minted' /\ t.exp \in now' .. now' + Ttl
    BY <1>2, <1>3, <2>1, TokensStay
  <2>3. \A x \in Nodes : ring'[x] = ring[x] \/ ring'[x] = Down \/ RingOK(ring'[x], minted')
    BY <1>2, <1>4, <1>5
  <2>4. \A b \in DOMAIN AdminNode : rot'[b] = rot[b] \/ rot'[b].at \in {"idle", "load"}
    BY <1>4
  <2> QED BY <1>2, <1>3, <1>4, <2>1, <2>2, <2>3, <2>4, ShapesFrame
<1>7. CASE n # Primary
  BY <1>1, <1>2, <1>4, <1>6, <1>7, ElsewhereSound DEF KeysConfigured
<1>8. CASE n = Primary
  <2>1. ActiveKeys = {g.sign}
    BY <1>1, <1>2, <1>8 DEF KeysInv, Phases
  <2>2. ActiveKeys' = ActiveKeys
    BY <1>2 DEF ActiveKeys, KeysOf, Actives, Active
  <2>3. Covered'
    BY <1>2 DEF KeysInv, Covered, Active
  <2>4. SignKept'
    <3>1. \E r \in rows[Primary] : r.key = g.sign /\ r.retired = Active
      BY <2>1 DEF ActiveKeys, KeysOf, Actives
    <3> QED BY <1>2, <1>4, <1>8, <3>1 DEF SignKept, Active
  <2>5. RingKnows'
    BY <1>1, <1>2, <1>4, <1>8, ZenonT(60) DEF KeysInv, SwapKnows, RingKnows
  <2>6. \A b \in DOMAIN AdminNode : AdminNode[b] = Primary => b = a
    BY <1>1, <1>8 DEF KeysConfigured
  <2>7. SwapKnows'
    BY <1>4, <2>6 DEF SwapKnows
  <2>8. Phases'
    BY <1>4, <1>5, <1>8, <2>1, <2>2, <2>6 DEF Phases, RingOK
  <2> QED BY <1>6, <2>3, <2>4, <2>5, <2>7, <2>8 DEF KeysInv
<1> QED BY <1>7, <1>8

LEMMA ElapseSound ==
  ASSUME KeysConfigured, KeysInv, Elapse
  PROVE  KeysInv'
<1>1. /\ now < MaxTime /\ now' = now + 1 /\ \A a \in DOMAIN AdminNode : rot[a] = NoRotation
      /\ \A t \in signed' : t \in signed /\ t.exp >= now'
      /\ minted' = minted /\ rows' = rows /\ ring' = ring /\ rot' = rot /\ feed' = feed
  BY DEF Elapse
<1>2. Shapes /\ minted \in Nat /\ now \in 1 .. MaxTime /\ now \in Nat /\ MaxTime \in Nat /\ Ttl \in Nat
  BY DEF KeysInv, Shapes, KeysConfigured
<1>3. Shapes'
  <2>1. /\ minted' \in Nat /\ minted <= minted' /\ now' \in 1 .. MaxTime /\ now <= now'
        /\ DOMAIN rows' = Nodes /\ DOMAIN ring' = Nodes /\ DOMAIN feed' = Nodes
        /\ DOMAIN rot' = DOMAIN AdminNode
    BY <1>1, <1>2 DEF Shapes
  <2>2. \A t \in signed' : t.key \in 1 .. minted' /\ t.exp \in now' .. now' + Ttl
    <3> SUFFICES ASSUME NEW t \in signed' PROVE t.key \in 1 .. minted' /\ t.exp \in now' .. now' + Ttl
      OBVIOUS
    <3>1. t.key \in 1 .. minted /\ t.exp \in now .. now + Ttl /\ t.exp >= now'
      BY <1>1, <1>2 DEF Shapes, TokensOK
    <3> QED BY <1>1, <1>2, <3>1
  <2> QED BY <1>1, <1>2, <2>1, <2>2, ShapesFrame
<1>4. \A a \in DOMAIN AdminNode : rot[a].at = "idle"
  BY <1>1 DEF NoRotation
<1>5. Covered' /\ RingKnows'
  BY <1>1 DEF KeysInv, Covered, RingKnows, Active
<1>6. SwapKnows'
  BY <1>1, <1>4 DEF SwapKnows
<1>7. ActiveKeys' = ActiveKeys
  BY <1>1 DEF ActiveKeys, KeysOf, Actives, Active
<1>8. SignKept'
  <2> SUFFICES ASSUME ring[Primary].up
               PROVE  \E r \in rows[Primary] : r.key = ring[Primary].sign /\ r.retired = Active
    BY <1>1 DEF SignKept, Active
  <2>1. ActiveKeys = {ring[Primary].sign}
    BY <1>4 DEF KeysInv, Phases
  <2> QED BY <2>1 DEF ActiveKeys, KeysOf, Actives
<1>9. Phases'
  BY <1>1, <1>7 DEF KeysInv, Phases, AtMostOne
<1> QED BY <1>3, <1>5, <1>6, <1>8, <1>9 DEF KeysInv

LEMMA KeysInitSound ==
  ASSUME KeysConfigured, KeysInit
  PROVE  KeysInv
<1>1. /\ \A n \in Nodes : rows[n] = {} /\ ring[n] = Down /\ feed[n] = NoFeed
      /\ \A a \in DOMAIN AdminNode : rot[a] = NoRotation
      /\ signed = {} /\ minted = 0 /\ now = 1 /\ Primary \in Nodes
      /\ DOMAIN rows = Nodes /\ DOMAIN ring = Nodes /\ DOMAIN feed = Nodes
      /\ DOMAIN rot = DOMAIN AdminNode
  BY DEF KeysInit, KeysConfigured
<1>2. Shapes
  <2>1. \A n \in Nodes : RowsOK(rows[n], minted, now) /\ ring[n].up = FALSE /\ feed[n].sent = FALSE
    BY <1>1 DEF RowsOK, Down, NoFeed
  <2>2. \A a \in DOMAIN AdminNode : rot[a].at \in {"idle", "load"}
    BY <1>1 DEF NoRotation
  <2>3. minted \in Nat /\ now \in 1 .. MaxTime /\ TokensOK
    BY <1>1 DEF TokensOK, KeysConfigured
  <2> QED BY <1>1, <2>1, <2>2, <2>3 DEF Shapes
<1>3. ~ring[Primary].up /\ \A a \in DOMAIN AdminNode : rot[a].at = "idle"
  BY <1>1 DEF Down, NoRotation
<1>4. ActiveKeys = {}
  BY <1>1 DEF ActiveKeys, KeysOf, Actives
<1>5. Covered /\ SignKept /\ RingKnows /\ SwapKnows /\ Phases
  <2>1. Covered /\ SignKept /\ RingKnows /\ SwapKnows
    BY <1>1, <1>3 DEF Covered, SignKept, RingKnows, SwapKnows
  <2>2. Phases
    BY <1>3, <1>4 DEF Phases, AtMostOne
  <2> QED BY <2>1, <2>2
<1> QED BY <1>2, <1>5 DEF KeysInv

LEMMA KeysStepSound ==
  ASSUME KeysConfigured, KeysInv, [KeysNext]_keyVars
  PROVE  KeysInv'
<1>1. CASE UNCHANGED keyVars
  <2>1. Shapes'
    BY <1>1 DEF keyVars, KeysInv, Shapes, RowsOK, RingOK, TokensOK
  <2> QED BY <1>1, <2>1, PrimaryStill DEF keyVars
<1>2. ASSUME NEW n \in Nodes, Start(n) \/ Crash(n) \/ Sign(n) \/ Fetch(n) \/ Apply(n) \/ Lose(n)
      PROVE  KeysInv'
  BY <1>2, StartSound, CrashSound, SignSound, FeedSound
<1>3. ASSUME NEW a \in DOMAIN AdminNode,
             Rotate(a) \/ RotateCreate(a) \/ RotateFails(a) \/ RotateLoad(a) \/ RotateSwap(a)
      PROVE  KeysInv'
  <2>1. ~RotateFails(a)
    BY DEF RotateFails, KeysConfigured
  <2> QED BY <1>3, <2>1, RotateSound, RotateCreateSound, RotateLoadSound, RotateSwapSound
<1>4. CASE Elapse
  BY <1>4, ElapseSound
<1> QED BY <1>1, <1>2, <1>3, <1>4 DEF KeysNext

\* The primary verifies every unexpired token it issued, whatever rotations, prunings,
\* crashes, restarts and pulls fall between (the promise of rotate and of
\* RETIRED_KEY_GRACE_SECS); and when no rotation is under way, the key it signs with is
\* its only active row.
THEOREM TokensAlwaysVerify ==
  ASSUME KeysConfigured PROVE KeysSpec => []TokensVerify
<1>1. KeysInit => KeysInv
  BY KeysInitSound
<1>2. KeysInv /\ [KeysNext]_keyVars => KeysInv'
  BY KeysStepSound
<1>3. KeysInv => TokensVerify
  <2> SUFFICES ASSUME KeysInv PROVE KeysTypeOK /\ PrimaryVerifies /\ OneSigner
    BY DEF TokensVerify
  <2>1. KeysTypeOK
    <3>1. \A n \in Nodes : KeysOf(rows[n]) \subseteq 1 .. minted
      BY DEF KeysInv, Shapes, RowsOK, KeysOf
    <3>2. \A t \in signed : t.key \in 1 .. minted /\ t.exp >= now
      BY DEF KeysInv, Shapes, TokensOK
    <3> QED BY <3>1, <3>2 DEF KeysInv, Shapes, RingOK, KeysTypeOK
  <2>2. PrimaryVerifies
    BY DEF KeysInv, RingKnows, PrimaryVerifies, Verifies
  <2>3. OneSigner
    <3> SUFFICES ASSUME ring[Primary].up, \A a \in DOMAIN AdminNode : rot[a] = NoRotation
                 PROVE  ActiveKeys = {ring[Primary].sign}
      BY DEF OneSigner, ActiveKeys
    <3>1. \A a \in DOMAIN AdminNode : rot[a].at = "idle"
      BY DEF NoRotation
    <3> QED BY <3>1 DEF KeysInv, Phases
  <2> QED BY <2>1, <2>2, <2>3
<1> QED BY <1>1, <1>2, <1>3, PTL DEF KeysSpec

----------------------------------------------------------------------------
(* Proofs about SsoCodes, for any clients, concurrent requests and codes.      *)
(*                                                                             *)
(* That a code is redeemed once rests on three facts about the map of codes:   *)
(* it has one entry for a code, no entry for a code that was redeemed, and     *)
(* numbers are never given out again.                                          *)
CodesConfigured == MaxCodes \in Nat

\* One entry for a code, none for a redeemed one.
CodesApart ==
  /\ \A k, l \in codes : k.code = l.code => k = l
  /\ \A k \in codes, t \in tokens : k.code # t.code

\* The sessions of a client are revoked, or late, from the moment its deletion has
\* looked at them.
DeletingRevoked ==
  \A s \in granted : s.client \in deleting \/ client[s.client] = "gone" => s.revoked \/ s.late

CodesInv == CodesTypeOK /\ RedeemedOnce /\ CodesApart /\ DeletingRevoked

LEMMA CodesInitSound == ASSUME CodesConfigured PROVE CodesInit => CodesInv
BY DEF CodesConfigured, CodesInit, CodesInv, CodesTypeOK, RedeemedOnce, CodesApart, DeletingRevoked, ReqState

\* A request's next state leaves the others alone.
LEMMA StepTypes ==
  ASSUME CodesTypeOK, issued' = issued, NEW r \in Requests, NEW s \in ReqState, GoTo(r, s)
  PROVE  req' \in [Requests -> ReqState']
BY DEF CodesTypeOK, GoTo, ReqState

LEMMA Places ==
  ASSUME CodesTypeOK, NEW r \in Requests
  PROVE  /\ req[r].at = "authorize" => req[r].client \in Clients
         /\ req[r].at = "take" => /\ req[r].client \in Clients /\ req[r].code \in 1..issued
                                  /\ req[r].right \in BOOLEAN
         /\ req[r].at = "record" => req[r].client \in Clients /\ req[r].code \in 1..issued
BY DEF CodesTypeOK, ReqState, NoRequest

LEMMA AuthorizeKeeps ==
  ASSUME CodesInv, NEW r \in Requests, NEW c \in Clients, Authorize(r, c)
  PROVE  CodesInv'
<1>1. [at |-> "authorize", client |-> c] \in ReqState
  BY DEF ReqState
<1>2. req' \in [Requests -> ReqState']
  BY <1>1, StepTypes DEF Authorize, CodesInv
<1> QED BY <1>2 DEF Authorize, CodesInv, CodesTypeOK, RedeemedOnce, CodesApart, DeletingRevoked

LEMMA TokenKeeps ==
  ASSUME CodesInv, NEW r \in Requests, NEW c \in Clients, NEW k \in 1..issued, NEW right \in BOOLEAN,
         Token(r, c, k, right)
  PROVE  CodesInv'
<1>1. [at |-> "take", client |-> c, code |-> k, right |-> right] \in ReqState
  BY DEF ReqState
<1>2. req' \in [Requests -> ReqState']
  BY <1>1, StepTypes DEF Token, CodesInv
<1> QED BY <1>2 DEF Token, CodesInv, CodesTypeOK, RedeemedOnce, CodesApart, DeletingRevoked

\* The numbers grow, and what was typed with the old ones stays typed.
LEMMA MoreIssued ==
  ASSUME CodesTypeOK, issued' = issued + 1
  PROVE  1..issued \subseteq 1..issued' /\ issued' \in 1..issued' /\ issued' \notin 1..issued
         /\ ReqState \subseteq ReqState'
<1>1. issued \in Nat
  BY DEF CodesTypeOK
<1>2. 1..issued \subseteq 1..issued' /\ issued' \in 1..issued' /\ issued' \notin 1..issued
  BY <1>1
<1> QED BY <1>2 DEF ReqState

LEMMA PutCodeKeeps ==
  ASSUME CodesConfigured, CodesInv, NEW r \in Requests, PutCode(r)
  PROVE  CodesInv'
<1>1. CASE UNCHANGED <<codes, issued>>
  <2>1. req' \in [Requests -> ReqState']
    BY <1>1, StepTypes DEF PutCode, CodesInv, ReqState
  <2> QED BY <1>1, <2>1 DEF PutCode, CodesInv, CodesTypeOK, RedeemedOnce, CodesApart, DeletingRevoked
<1>2. CASE issued < MaxCodes /\ issued' = issued + 1
           /\ codes' = codes \cup {[code |-> issued', client |-> req[r].client, expired |-> FALSE]}
  <2> DEFINE new == [code |-> issued', client |-> req[r].client, expired |-> FALSE]
  <2>1. issued' \in 0..MaxCodes
    BY <1>2 DEF CodesConfigured, CodesInv, CodesTypeOK
  <2>2. 1..issued \subseteq 1..issued' /\ issued' \in 1..issued' /\ issued' \notin 1..issued
        /\ ReqState \subseteq ReqState'
    BY <1>2, MoreIssued DEF CodesInv
  <2>3. req' \in [Requests -> ReqState']
    <3>1. NoRequest \in ReqState
      BY DEF ReqState
    <3>2. req' = [req EXCEPT ![r] = NoRequest] /\ req \in [Requests -> ReqState]
      BY DEF PutCode, GoTo, CodesInv, CodesTypeOK
    <3> QED BY <2>2, <3>1, <3>2
  <2>4. req[r].client \in Clients
    BY Places DEF PutCode, CodesInv
  <2>5. codes' \subseteq [code : 1..issued', client : Clients, expired : BOOLEAN]
    <3>1. new \in [code : 1..issued', client : Clients, expired : BOOLEAN]
      BY <2>2, <2>4
    <3>2. codes \subseteq [code : 1..issued', client : Clients, expired : BOOLEAN]
      BY <2>2 DEF CodesInv, CodesTypeOK
    <3> QED BY <1>2, <3>1, <3>2
  <2>6. /\ tokens' \subseteq [code : 1..issued', owner : Clients, to : Clients, req : Requests]
        /\ granted' \subseteq [client : Clients, code : 1..issued', revoked : BOOLEAN, late : BOOLEAN]
    BY <2>2 DEF PutCode, CodesInv, CodesTypeOK
  <2>7. CodesTypeOK'
    BY <2>1, <2>3, <2>5, <2>6 DEF PutCode, CodesInv, CodesTypeOK
  <2>8. /\ \A k \in codes : k.code \in 1..issued
        /\ \A t \in tokens : t.code \in 1..issued
    BY DEF CodesInv, CodesTypeOK
  <2>9. CodesApart'
    <3>1. new.code = issued' /\ codes' = codes \cup {new} /\ tokens' = tokens
      BY <1>2 DEF PutCode
    <3> HIDE DEF new
    <3>2. \A k \in codes : k.code # new.code
      BY <2>2, <2>8, <3>1
    <3>3. \A t \in tokens : t.code # new.code
      BY <2>2, <2>8, <3>1
    <3> QED BY <3>1, <3>2, <3>3 DEF CodesInv, CodesApart
  <2> QED BY <2>7, <2>9 DEF PutCode, CodesInv, RedeemedOnce, DeletingRevoked
<1> QED BY <1>1, <1>2 DEF PutCode

LEMMA TakeCodeKeeps ==
  ASSUME CodesInv, NEW r \in Requests, TakeCode(r)
  PROVE  CodesInv'
<1> DEFINE q == req[r]
           found == {k \in codes : k.code = q.code}
           new == {[code |-> k.code, owner |-> k.client, to |-> q.client, req |-> r] : k \in found}
<1>1. q.at = "take" /\ codes' = codes \ found
      /\ client' = client /\ issued' = issued /\ deleting' = deleting /\ granted' = granted
  BY DEF TakeCode, Left
<1>2. q.client \in Clients /\ q.code \in 1..issued
  BY <1>1, Places DEF CodesInv
<1>3. CASE Good(q, found)
  <2>1. tokens' = tokens \cup new
        /\ GoTo(r, [at |-> "record", client |-> q.client, code |-> q.code])
    BY <1>3 DEF TakeCode
  <2>2. PICK k \in found : found = {k} /\ k.client = q.client
    BY <1>3 DEF Good, CodesInv, CodesApart
  <2>3. new = {[code |-> k.code, owner |-> k.client, to |-> q.client, req |-> r]}
    BY <2>2
  <2>4. k \in codes /\ k.code \in 1..issued /\ k.client \in Clients /\ k.code = q.code
    BY <2>2 DEF CodesInv, CodesTypeOK
  <2>5. \A t \in tokens : t.code # k.code
    BY <2>4 DEF CodesInv, CodesApart
  <2> HIDE DEF new, found, q
  <2>6. req' \in [Requests -> ReqState']
    <3>1. [at |-> "record", client |-> q.client, code |-> q.code] \in ReqState
      BY <1>2 DEF ReqState
    <3> QED BY <1>1, <2>1, <3>1, StepTypes DEF CodesInv
  <2>7. tokens' \subseteq [code : 1..issued, owner : Clients, to : Clients, req : Requests]
    BY <1>2, <2>1, <2>3, <2>4 DEF CodesInv, CodesTypeOK
  <2>8. CodesTypeOK'
    BY <1>1, <2>6, <2>7 DEF CodesInv, CodesTypeOK
  <2>9. RedeemedOnce'
    BY <2>1, <2>2, <2>3, <2>5 DEF CodesInv, RedeemedOnce
  <2>10. CodesApart'
    <3>1. \A l \in codes' : l \in codes /\ l.code # k.code
      BY <1>1, <2>4 DEF found
    <3> QED BY <2>1, <2>3, <3>1 DEF CodesInv, CodesApart
  <2> QED BY <1>1, <2>8, <2>9, <2>10 DEF CodesInv, DeletingRevoked
<1>4. CASE ~Good(q, found)
  <2>1. GoTo(r, NoRequest) /\ tokens' = tokens
    BY <1>4 DEF TakeCode
  <2>2. req' \in [Requests -> ReqState']
    BY <1>1, <2>1, StepTypes DEF CodesInv, ReqState
  <2> QED BY <1>1, <2>1, <2>2 DEF CodesInv, CodesTypeOK, RedeemedOnce, CodesApart, DeletingRevoked
<1> QED BY <1>3, <1>4

LEMMA RecordKeeps ==
  ASSUME CodesInv, NEW r \in Requests, Record(r)
  PROVE  CodesInv'
<1>1. req[r].client \in Clients /\ req[r].code \in 1..issued
  BY Places DEF Record, CodesInv
<1>2. req' \in [Requests -> ReqState']
  BY StepTypes DEF Record, CodesInv, ReqState
<1> DEFINE late == req[r].client \in deleting \/ client[req[r].client] = "gone"
           new == [client |-> req[r].client, code |-> req[r].code, revoked |-> FALSE, late |-> late]
<1>3. late \in BOOLEAN
  OBVIOUS
<1>4. CASE granted' = granted \cup {new}
  <2>1. new.client = req[r].client /\ new.late = late
    OBVIOUS
  <2>2. new.client \in deleting \/ client[new.client] = "gone" => new.late
    BY <2>1
  <2>3. new \in [client : Clients, code : 1..issued, revoked : BOOLEAN, late : BOOLEAN]
    <3> HIDE DEF late
    <3> QED BY <1>1, <1>3
  <2> HIDE DEF new
  <2>4. CodesTypeOK'
    BY <1>2, <1>4, <2>3 DEF Record, CodesInv, CodesTypeOK
  <2>5. DeletingRevoked'
    BY <1>4, <2>2 DEF Record, CodesInv, DeletingRevoked
  <2> QED BY <2>4, <2>5 DEF Record, CodesInv, RedeemedOnce, CodesApart
<1>5. CASE UNCHANGED granted
  BY <1>2, <1>5 DEF Record, CodesInv, CodesTypeOK, RedeemedOnce, CodesApart, DeletingRevoked
<1> QED BY <1>4, <1>5 DEF Record

LEMMA UpdateKeeps ==
  ASSUME CodesInv, NEW c \in Clients, Update(c)
  PROVE  CodesInv'
<1>1. client' \in [Clients -> {"enabled", "disabled", "gone"}]
      /\ \A d \in Clients : client'[d] = "gone" => client[d] = "gone"
  BY DEF Update, CodesInv, CodesTypeOK
<1>2. \A s \in granted : s.client \in Clients
  BY DEF CodesInv, CodesTypeOK
<1>3. DeletingRevoked'
  BY <1>1, <1>2 DEF Update, CodesInv, DeletingRevoked
<1> QED BY <1>1, <1>3 DEF Update, CodesInv, CodesTypeOK, RedeemedOnce, CodesApart, ReqState

\* Revoking sessions leaves the others, and their clients, as they are.
LEMMA RevokedTypes ==
  ASSUME CodesInv, NEW T \in SUBSET granted
  PROVE  /\ Revoked(granted, T)
              \subseteq [client : Clients, code : 1..issued, revoked : BOOLEAN, late : BOOLEAN]
         /\ \A s \in Revoked(granted, T) :
              \/ s \in granted \ T
              \/ s.revoked /\ \E t \in T : s.client = t.client
<1>1. \A t \in T : [t EXCEPT !.revoked = TRUE]
                       \in [client : Clients, code : 1..issued, revoked : BOOLEAN, late : BOOLEAN]
                   /\ [t EXCEPT !.revoked = TRUE].revoked
                   /\ [t EXCEPT !.revoked = TRUE].client = t.client
  <2> SUFFICES ASSUME NEW t \in T
               PROVE  /\ [t EXCEPT !.revoked = TRUE]
                           \in [client : Clients, code : 1..issued, revoked : BOOLEAN, late : BOOLEAN]
                      /\ [t EXCEPT !.revoked = TRUE].revoked
                      /\ [t EXCEPT !.revoked = TRUE].client = t.client
    OBVIOUS
  <2>1. t \in [client : Clients, code : 1..issued, revoked : BOOLEAN, late : BOOLEAN]
    BY DEF CodesInv, CodesTypeOK
  <2> QED BY <2>1
<1>2. granted \subseteq [client : Clients, code : 1..issued, revoked : BOOLEAN, late : BOOLEAN]
  BY DEF CodesInv, CodesTypeOK
<1> QED BY <1>1, <1>2 DEF Revoked

LEMMA DeleteKeeps ==
  ASSUME CodesInv, NEW c \in Clients, DeleteRevoke(c) \/ DeleteRow(c)
  PROVE  CodesInv'
<1>1. CASE DeleteRevoke(c)
  <2>1. SessionsOf(c) \in SUBSET granted
    BY DEF SessionsOf
  <2>2. /\ granted' \subseteq [client : Clients, code : 1..issued, revoked : BOOLEAN, late : BOOLEAN]
        /\ \A s \in granted' : s.revoked \/ s \in granted \ SessionsOf(c)
    BY <1>1, <2>1, RevokedTypes DEF DeleteRevoke
  <2>3. DeletingRevoked'
    BY <1>1, <2>2 DEF DeleteRevoke, SessionsOf, CodesInv, DeletingRevoked
  <2> QED BY <1>1, <2>2, <2>3 DEF DeleteRevoke, CodesInv, CodesTypeOK, RedeemedOnce, CodesApart, ReqState
<1>2. CASE DeleteRow(c)
  <2>1. client' \in [Clients -> {"enabled", "disabled", "gone"}]
        /\ \A d \in Clients : client'[d] = "gone" => client[d] = "gone" \/ d \in deleting
    BY <1>2 DEF DeleteRow, CodesInv, CodesTypeOK
  <2>2. \A s \in granted : s.client \in Clients
    BY DEF CodesInv, CodesTypeOK
  <2>3. DeletingRevoked'
    BY <1>2, <2>1, <2>2 DEF DeleteRow, CodesInv, DeletingRevoked
  <2> QED BY <1>2, <2>1, <2>3 DEF DeleteRow, CodesInv, CodesTypeOK, RedeemedOnce, CodesApart, ReqState
<1> QED BY <1>1, <1>2

LEMMA RevokeOneKeeps ==
  ASSUME CodesInv, NEW s \in granted, RevokeOne(s)
  PROVE  CodesInv'
<1>1. {s} \in SUBSET granted
  OBVIOUS
<1>2. /\ granted' \subseteq [client : Clients, code : 1..issued, revoked : BOOLEAN, late : BOOLEAN]
      /\ \A t \in granted' : t.revoked \/ t \in granted
  BY <1>1, RevokedTypes DEF RevokeOne
<1> QED BY <1>2 DEF RevokeOne, CodesInv, CodesTypeOK, RedeemedOnce, CodesApart, DeletingRevoked, ReqState

LEMMA ExpireKeeps ==
  ASSUME CodesInv, NEW k \in codes, Expire(k)
  PROVE  CodesInv'
<1> DEFINE l == [k EXCEPT !.expired = TRUE]
<1>1. l \in [code : 1..issued, client : Clients, expired : BOOLEAN] /\ l.code = k.code
  BY DEF CodesInv, CodesTypeOK
<1>2. codes' = (codes \ {k}) \cup {l}
  BY DEF Expire
<1> HIDE DEF l
<1>3. CodesApart'
  BY <1>1, <1>2 DEF Expire, CodesInv, CodesApart
<1> QED BY <1>1, <1>2, <1>3 DEF Expire, CodesInv, CodesTypeOK, RedeemedOnce, DeletingRevoked, ReqState

LEMMA RestartKeeps ==
  ASSUME CodesInv, SsoRestart
  PROVE  CodesInv'
BY DEF SsoRestart, CodesInv, CodesTypeOK, RedeemedOnce, CodesApart, DeletingRevoked, ReqState

LEMMA CodesStepSound == ASSUME CodesConfigured PROVE CodesInv /\ [CodesNext]_codeVars => CodesInv'
<1> SUFFICES ASSUME CodesInv, [CodesNext]_codeVars PROVE CodesInv'
  OBVIOUS
<1>1. CASE UNCHANGED codeVars
  BY <1>1 DEF codeVars, CodesInv, CodesTypeOK, RedeemedOnce, CodesApart, DeletingRevoked, ReqState
<1> QED BY <1>1, AuthorizeKeeps, TokenKeeps, PutCodeKeeps, TakeCodeKeeps, RecordKeeps, UpdateKeeps,
  DeleteKeeps, RevokeOneKeeps, ExpireKeeps, RestartKeeps DEF CodesNext

\* An authorization code gives tokens at most once and only to the client it was issued
\* to, and a deleted client keeps no session but those recorded after its deletion had
\* revoked the others: for any number of clients and of token requests that interleave
\* with each other, with expiry, with a restart and with an administrator's changes.
THEOREM CodesRedeemedOnce ==
  ASSUME CodesConfigured
  PROVE  CodesSpec => []CodeOnce
<1>1. CodesInv => CodeOnce
  BY DEF CodesInv, CodeOnce, DeletingRevoked, RevokedWithClient
<1> QED BY CodesInitSound, CodesStepSound, <1>1, PTL DEF CodesSpec

----------------------------------------------------------------------------
(* Proofs about Portal, for any names, concurrent requests and bounds.         *)
(*                                                                             *)
(* The guard of the last admin counts before the write: what it saw still      *)
(* holds at the write as long as no other call of the account screen wrote in  *)
(* between, and setup only adds admins.  The lock makes the request that holds *)
(* it the only one in setup, so the accounts it found missing stay missing.    *)

\* Names can be counted, and a free lock is nobody's.
PortalConfigured == IsFiniteSet(Names) /\ Unlocked \notin Calls

AccountRow == {NoAccount} \cup [role : Roles, enabled : BOOLEAN]
SessionRow == [subject : Names, role : Roles, live : BOOLEAN, late : BOOLEAN]
Ops == UNION {Changes(n) : n \in Names}

\* Where a request of the portal is.
CallState ==
  {NoCall}
  \cup [at : {"hasAccounts", "firstAdmin", "identity", "revoke"}, name : Names]
  \cup [at : {"session"}, name : Names, role : Roles]
  \cup [at : {"find", "write"}, op : Ops]
  \cup [at : {"count"}, op : Ops, found : AccountRow]

PortalShapes ==
  /\ accounts \in [Names -> AccountRow]
  /\ sessions \subseteq SessionRow
  /\ lock \in Calls \cup {Unlocked}
  /\ call \in [Calls -> CallState]
  /\ setups \in Nat /\ made \in Nat /\ changes \in Nat
  /\ raced \in BOOLEAN

\* The holder of the lock is the one request in setup.
InSetup(c) == c.at \in {"hasAccounts", "firstAdmin"}
LockHeld == \A x \in Calls : InSetup(call[x]) <=> lock = x

\* Before the first call of the account screen nothing takes an account away.
OnScreen(c) == c.at \in {"find", "count", "write", "revoke"}
Untouched ==
  changes = 0 =>
    /\ \A x \in Calls : ~OnScreen(call[x])
    /\ setups > 0 => \E n \in Names : accounts[n] # NoAccount
    /\ \A x \in Calls : call[x].at = "firstAdmin" => setups = 0
    /\ setups <= 1

\* What a call of the account screen found still holds when it writes, as long as
\* no two of them overlapped.
StillFound(c) ==
  /\ c.at = "count" /\ c.op.kind # "create" =>
       c.found = accounts[c.op.name] /\ c.found # NoAccount
  /\ c.at = "write" /\ c.op.kind # "create" =>
       /\ accounts[c.op.name] # NoAccount
       /\ Guarded(c.op, accounts[c.op.name]) => Cardinality(Admins) > 1
Looked == ~raced => \A x \in Calls : StillFound(call[x])

PortalInv == PortalShapes /\ LockHeld /\ Untouched /\ Looked /\ AdminLeft /\ RevokedWithAccount

LEMMA PortalInitSound == ASSUME PortalConfigured PROVE PortalInit => PortalInv
<1> SUFFICES ASSUME PortalInit PROVE PortalInv
  OBVIOUS
<1>1. PortalShapes
  BY DEF PortalShapes, PortalInit, AccountRow, CallState
<1>2. \A x \in Calls : call[x].at = "idle" /\ lock # x
  BY DEF PortalInit, NoCall, PortalConfigured
<1>3. LockHeld /\ Untouched /\ Looked
  BY <1>2 DEF PortalInit, LockHeld, InSetup, Untouched, OnScreen, Looked, StillFound
<1>4. AdminLeft /\ RevokedWithAccount
  BY DEF AdminLeft, RevokedWithAccount, PortalInit
<1> QED BY <1>1, <1>3, <1>4 DEF PortalInv

LEMMA OpFacts ==
  ASSUME NEW act \in Ops
  PROVE  /\ act.name \in Names
         /\ act.kind \in {"role", "enabled", "delete", "create"}
         /\ act.kind \in {"role", "create"} => act.to \in Roles
         /\ act.kind = "enabled" => act.on \in BOOLEAN
BY DEF Ops, Changes

LEMMA CallFacts ==
  ASSUME PortalShapes, NEW x \in Calls
  PROVE  /\ call[x].at \in {"idle", "hasAccounts", "firstAdmin", "identity", "revoke",
                            "session", "find", "write", "count"}
         /\ InSetup(call[x]) \/ call[x].at \in {"identity", "revoke", "session"} => call[x].name \in Names
         /\ InSetup(call[x]) => call[x] \in [at : {"hasAccounts", "firstAdmin"}, name : Names]
         /\ call[x].at = "session" => call[x].role \in Roles
         /\ call[x].at \in {"find", "write", "count"} => call[x].op \in Ops
         /\ call[x].at = "count" => call[x].found \in AccountRow
BY DEF PortalShapes, CallState, NoCall, InSetup

\* The accounts that are admins are finitely many.
LEMMA AdminsFinite == ASSUME PortalConfigured PROVE IsFiniteSet(Admins) /\ Cardinality(Admins) \in Nat
BY FS_Subset, FS_CardinalityType DEF PortalConfigured, Admins

LEMMA AdminFacts ==
  ASSUME PortalShapes, NEW n \in Names
  PROVE  /\ accounts[n].enabled \in BOOLEAN
         /\ accounts[n].enabled => accounts[n].role \in Roles /\ accounts[n] # NoAccount
<1>1. accounts[n] \in AccountRow
  BY DEF PortalShapes
<1>2. CASE accounts[n] = NoAccount
  BY <1>2 DEF NoAccount
<1>3. CASE accounts[n] \in [role : Roles, enabled : BOOLEAN]
  BY <1>3 DEF NoAccount, Roles
<1> QED BY <1>1, <1>2, <1>3 DEF AccountRow

\* Sessions that are new, or still live, are live for the reason they were before.
SessionsKept ==
  \A s \in sessions' :
    \/ s \in sessions
    \/ s.live = FALSE
    \/ s.late = ~accounts[s.subject].enabled

\* A step that leaves accounts, setup and the requests that revoke alone.
LEMMA MoveSound ==
  ASSUME PortalConfigured, PortalInv, NEW x \in Calls, NEW s \in CallState, Moves(x, s),
         ~InSetup(call[x]), ~InSetup(s), call[x].at # "revoke",
         UNCHANGED <<accounts, lock, setups, raced>>,
         changes' = changes + 1 \/ (changes' = changes /\ (OnScreen(s) => OnScreen(call[x]))),
         made' \in Nat, sessions' \in SUBSET SessionRow, SessionsKept,
         ~raced => StillFound(s)
  PROVE  PortalInv'
<1>1. PortalShapes'
  BY DEF PortalInv, PortalShapes, Moves
<1>2. /\ \A y \in Calls : y # x => call'[y] = call[y]
      /\ call'[x] = s
  BY DEF PortalInv, PortalShapes, Moves
<1>3. LockHeld'
  BY <1>2 DEF PortalInv, LockHeld, InSetup
<1>4. Untouched'
  <2> SUFFICES ASSUME changes' = 0 PROVE changes = 0 /\ ~OnScreen(s) /\ s.at # "firstAdmin"
    BY <1>2 DEF PortalInv, Untouched, OnScreen
  <2> QED BY DEF PortalInv, Untouched, PortalShapes, InSetup
<1>5. Admins' = Admins
  BY DEF Admins
<1>6. Looked'
  <2> SUFFICES ASSUME ~raced, NEW y \in Calls PROVE StillFound(call[y])'
    BY DEF Looked
  <2>1. StillFound(call'[y])
    BY <1>2 DEF PortalInv, Looked
  <2> QED BY <2>1, <1>5 DEF StillFound
<1>7. AdminLeft'
  BY <1>5 DEF PortalInv, AdminLeft
<1>8. RevokedWithAccount'
  <2> SUFFICES ASSUME NEW u \in sessions', u.live, ~u.late, ~accounts[u.subject].enabled
               PROVE  \E y \in Calls : call'[y].at = "revoke" /\ call'[y].name = u.subject
    BY DEF RevokedWithAccount
  <2>1. u \in sessions
    BY DEF SessionsKept
  <2>2. PICK y \in Calls : call[y].at = "revoke" /\ call[y].name = u.subject
    BY <2>1 DEF PortalInv, RevokedWithAccount
  <2> QED BY <2>2, <1>2
<1> QED BY <1>1, <1>3, <1>4, <1>6, <1>7, <1>8 DEF PortalInv

\* A step that only ends, forgets or adds sessions, or moves flows.
LEMMA SessionsSound ==
  ASSUME PortalInv, UNCHANGED <<accounts, lock, call, setups, changes, raced>>,
         made' \in Nat, sessions' \in SUBSET SessionRow, SessionsKept
  PROVE  PortalInv'
<1>1. PortalShapes'
  BY DEF PortalInv, PortalShapes
<1>2. LockHeld' /\ Untouched'
  BY DEF PortalInv, LockHeld, Untouched
<1>3. Admins' = Admins
  BY DEF Admins
<1>4. Looked'
  <2> SUFFICES ASSUME ~raced, NEW y \in Calls PROVE StillFound(call[y])'
    BY DEF Looked
  <2>1. StillFound(call[y])
    BY DEF PortalInv, Looked
  <2> QED BY <2>1, <1>3 DEF StillFound
<1>5. AdminLeft'
  BY <1>3 DEF PortalInv, AdminLeft
<1>6. RevokedWithAccount'
  <2> SUFFICES ASSUME NEW u \in sessions', u.live, ~u.late, ~accounts[u.subject].enabled
               PROVE  \E y \in Calls : call[y].at = "revoke" /\ call[y].name = u.subject
    BY DEF RevokedWithAccount
  <2>1. u \in sessions
    BY DEF SessionsKept
  <2> QED BY <2>1 DEF PortalInv, RevokedWithAccount
<1> QED BY <1>1, <1>2, <1>4, <1>5, <1>6 DEF PortalInv

LEMMA SetupSound ==
  ASSUME PortalConfigured, PortalInv, NEW x \in Calls, NEW n \in Names, Setup(x, n)
  PROVE  PortalInv'
<1> DEFINE s == [at |-> "hasAccounts", name |-> n]
<1>1. s \in CallState /\ call[x].at = "idle" /\ lock = Unlocked /\ lock' = x
  BY DEF Setup, Locked, CallState, NoCall
<1>2. /\ \A y \in Calls : y # x => call'[y] = call[y]
      /\ call'[x] = s
  BY DEF PortalInv, PortalShapes, Setup, Moves
<1>3. UNCHANGED <<accounts, sessions, setups, made, changes, raced>>
  BY DEF Setup
<1> HIDE DEF s
<1>4. PortalShapes'
  BY <1>1, <1>2, <1>3 DEF PortalInv, PortalShapes, Setup, Moves, s
<1>5. LockHeld'
  <2>1. \A y \in Calls : ~InSetup(call[y])
    BY <1>1 DEF PortalInv, LockHeld, PortalConfigured
  <2>2. InSetup(s) /\ s.at # "firstAdmin"
    BY DEF s, InSetup
  <2> QED BY <1>1, <1>2, <2>1, <2>2 DEF LockHeld, InSetup
<1>6. Untouched'
  <2>1. ~OnScreen(s) /\ s.at # "firstAdmin"
    BY DEF s, OnScreen
  <2> QED BY <1>2, <1>3, <2>1 DEF PortalInv, Untouched, OnScreen
<1>7. Admins' = Admins
  BY <1>3 DEF Admins
<1>8. Looked'
  <2> SUFFICES ASSUME ~raced, NEW y \in Calls PROVE StillFound(call[y])'
    BY <1>3 DEF Looked
  <2>1. StillFound(call'[y])
    BY <1>2, <1>3 DEF PortalInv, Looked, StillFound, s
  <2> QED BY <2>1, <1>3, <1>7 DEF StillFound
<1>9. AdminLeft' /\ RevokedWithAccount'
  <2>1. AdminLeft'
    BY <1>3, <1>7 DEF PortalInv, AdminLeft
  <2>2. call[x].at # "revoke"
    BY <1>1
  <2> QED BY <1>2, <1>3, <2>1, <2>2 DEF PortalInv, RevokedWithAccount
<1> QED BY <1>4, <1>5, <1>6, <1>8, <1>9 DEF PortalInv

LEMMA HasAccountsSound ==
  ASSUME PortalConfigured, PortalInv, NEW x \in Calls, HasAccounts(x)
  PROVE  PortalInv'
<1>1. /\ call[x].at = "hasAccounts" /\ lock = x
      /\ call[x] \in [at : {"hasAccounts", "firstAdmin"}, name : Names]
  BY CallFacts DEF HasAccounts, PortalInv, LockHeld, InSetup
<1> DEFINE s == call'[x]
<1>2. \/ /\ \A n \in Names : accounts[n] = NoAccount
         /\ s = [call[x] EXCEPT !.at = "firstAdmin"] /\ lock' = lock
      \/ s = NoCall /\ lock' = Unlocked
  BY <1>1 DEF PortalInv, PortalShapes, HasAccounts, Moves
<1>3. /\ \A y \in Calls : y # x => call'[y] = call[y]
      /\ s \in CallState /\ DOMAIN call' = Calls
      /\ s.at = "firstAdmin" => lock' = x /\ \A n \in Names : accounts[n] = NoAccount
      /\ s.at = "firstAdmin" \/ (s.at = "idle" /\ lock' = Unlocked)
  <2>1. [call[x] EXCEPT !.at = "firstAdmin"] = [at |-> "firstAdmin", name |-> call[x].name]
    BY <1>1
  <2>2. [at |-> "firstAdmin", name |-> call[x].name] \in CallState
    BY <1>1 DEF CallState
  <2>3. NoCall \in CallState /\ NoCall.at = "idle"
    BY DEF CallState, NoCall
  <2>4. DOMAIN call' = Calls /\ \A y \in Calls : y # x => call'[y] = call[y]
    BY DEF PortalInv, PortalShapes, HasAccounts, Moves
  <2>5. \/ /\ \A n \in Names : accounts[n] = NoAccount
           /\ s = [at |-> "firstAdmin", name |-> call[x].name] /\ lock' = x
        \/ s = NoCall /\ lock' = Unlocked
    BY <1>1, <1>2, <2>1
  <2> HIDE DEF s
  <2> QED BY <2>2, <2>3, <2>4, <2>5
<1>4. UNCHANGED <<accounts, sessions, setups, made, changes, raced>>
  BY DEF HasAccounts
<1>5. call' \in [Calls -> CallState]
  BY <1>3, <1>1 DEF PortalInv, PortalShapes, HasAccounts, Moves
<1> HIDE DEF s
<1>6. PortalShapes'
  BY <1>3, <1>4, <1>5, <1>1 DEF PortalInv, PortalShapes
<1>7. LockHeld'
  <2> SUFFICES ASSUME NEW y \in Calls PROVE InSetup(call'[y]) <=> lock' = y
    BY DEF LockHeld, InSetup
  <2>1. CASE y = x
    BY <2>1, <1>3 DEF InSetup, s, PortalConfigured
  <2>2. CASE y # x
    BY <2>2, <1>3, <1>1 DEF PortalInv, LockHeld, InSetup, PortalConfigured
  <2> QED BY <2>1, <2>2
<1>8. Untouched'
  <2> SUFFICES ASSUME changes = 0 PROVE ~OnScreen(s) /\ (s.at = "firstAdmin" => setups = 0)
    BY <1>3, <1>4 DEF PortalInv, Untouched, OnScreen, s
  <2>1. s.at = "firstAdmin" => ~(setups > 0)
    BY <1>3 DEF PortalInv, Untouched
  <2> QED BY <2>1, <1>3 DEF OnScreen, PortalInv, PortalShapes
<1>9. Admins' = Admins
  BY <1>4 DEF Admins
<1>10. Looked'
  <2> SUFFICES ASSUME ~raced, NEW y \in Calls PROVE StillFound(call[y])'
    BY <1>4 DEF Looked
  <2>1. StillFound(call'[y])
    BY <1>3, <1>4 DEF PortalInv, Looked, StillFound, s
  <2> QED BY <2>1, <1>4, <1>9 DEF StillFound
<1>11. AdminLeft' /\ RevokedWithAccount'
  <2>1. AdminLeft'
    BY <1>4, <1>9 DEF PortalInv, AdminLeft
  <2> QED BY <1>1, <1>3, <1>4, <2>1 DEF PortalInv, RevokedWithAccount
<1> QED BY <1>6, <1>7, <1>8, <1>10, <1>11 DEF PortalInv

\* More accounts enabled, no fewer admins.
LEMMA AdminsGrow ==
  ASSUME PortalConfigured, PortalConfigured', Admins \subseteq Admins'
  PROVE  Cardinality(Admins) <= Cardinality(Admins')
<1>1. IsFiniteSet(Admins')
  BY FS_Subset DEF PortalConfigured, Admins
<1> QED BY <1>1, FS_Subset

LEMMA FirstAdminSound ==
  ASSUME PortalConfigured, PortalInv, NEW x \in Calls, FirstAdmin(x)
  PROVE  PortalInv'
<1> DEFINE n == call[x].name
           s == call'[x]
<1>1. call[x].at = "firstAdmin" /\ lock = x /\ lock' = Unlocked /\ n \in Names
  BY CallFacts DEF FirstAdmin, PortalInv, LockHeld, InSetup
<1>2. /\ \A y \in Calls : y # x => call'[y] = call[y]
      /\ \/ /\ accounts[n] = NoAccount
            /\ s = [at |-> "session", name |-> n, role |-> "admin"]
            /\ accounts' = [accounts EXCEPT ![n] = [role |-> "admin", enabled |-> TRUE]]
            /\ setups' = setups + 1
         \/ accounts' = accounts /\ s = NoCall /\ setups' = setups
  BY <1>1 DEF PortalInv, PortalShapes, FirstAdmin, Moves
<1>3. s \in CallState /\ s.at \in {"idle", "session"}
  BY <1>1, <1>2 DEF CallState, NoCall, Roles
<1>4. UNCHANGED <<sessions, made, changes, raced>>
  BY DEF FirstAdmin
<1>5. call' \in [Calls -> CallState]
  BY <1>3 DEF PortalInv, PortalShapes, FirstAdmin, Moves
<1>6. /\ accounts' \in [Names -> AccountRow]
      /\ \A m \in Names : accounts[m] # NoAccount => accounts'[m] = accounts[m]
      /\ \A m \in Names : accounts'[m].enabled \/ accounts'[m] = accounts[m]
      /\ setups' # setups => n \in Admins'
  <2>1. [role |-> "admin", enabled |-> TRUE] \in AccountRow
    BY DEF AccountRow, Roles
  <2> QED BY <1>1, <1>2, <2>1 DEF PortalInv, PortalShapes, Admins
<1> HIDE DEF s, n
<1>7. PortalShapes'
  BY <1>1, <1>2, <1>4, <1>5, <1>6 DEF PortalInv, PortalShapes
<1>8. LockHeld'
  <2> SUFFICES ASSUME NEW y \in Calls PROVE InSetup(call'[y]) <=> lock' = y
    BY DEF LockHeld, InSetup
  <2>1. CASE y = x
    BY <2>1, <1>1, <1>3 DEF InSetup, s, PortalConfigured
  <2>2. CASE y # x
    BY <2>2, <1>1, <1>2 DEF PortalInv, LockHeld, InSetup, PortalConfigured
  <2> QED BY <2>1, <2>2
<1>9. Untouched'
  <2> SUFFICES ASSUME changes = 0
               PROVE  /\ \A y \in Calls : ~OnScreen(call'[y]) /\ call'[y].at # "firstAdmin"
                      /\ setups' > 0 => \E m \in Names : accounts'[m] # NoAccount
                      /\ setups' <= 1
    BY <1>4 DEF Untouched, OnScreen
  <2>1. setups = 0
    BY <1>1 DEF PortalInv, Untouched
  <2>2. setups' <= 1
    BY <2>1, <1>2
  <2>3. setups' > 0 => \E m \in Names : accounts'[m] # NoAccount
    <3>1. [role |-> "admin", enabled |-> TRUE] # NoAccount
      BY DEF NoAccount
    <3> QED BY <1>1, <1>2, <2>1, <3>1 DEF PortalInv, PortalShapes
  <2>4. \A y \in Calls : y # x => call[y].at # "firstAdmin"
    BY <1>1 DEF PortalInv, LockHeld, InSetup
  <2> QED BY <1>2, <1>3, <2>2, <2>3, <2>4 DEF PortalInv, Untouched, OnScreen, s
<1>10. Admins \subseteq Admins'
  BY <1>6, AdminFacts DEF Admins, PortalInv
<1>11. Looked'
  <2> SUFFICES ASSUME ~raced, NEW y \in Calls PROVE StillFound(call[y])'
    BY <1>4 DEF Looked
  <2>1. CASE y = x
    BY <2>1, <1>3 DEF StillFound, s
  <2>2. CASE y # x
    <3>1. call'[y] = call[y] /\ StillFound(call[y])
      BY <2>2, <1>2 DEF PortalInv, Looked
    <3> DEFINE c == call[y]
    <3>2. CASE c.at \in {"count", "write"} /\ c.op.kind # "create"
      <4>1. c.op.name \in Names
        BY <3>2, CallFacts, OpFacts DEF PortalInv
      <4>2. accounts[c.op.name] # NoAccount
        BY <3>1, <3>2 DEF StillFound
      <4>3. accounts'[c.op.name] = accounts[c.op.name]
        BY <4>1, <4>2, <1>6
      <4>4. Cardinality(Admins) \in Nat /\ Cardinality(Admins') \in Nat
            /\ Cardinality(Admins) <= Cardinality(Admins')
        <5>1. PortalConfigured'
          BY DEF PortalConfigured
        <5>2. IsFiniteSet(Admins')
          BY FS_Subset DEF PortalConfigured, Admins
        <5> QED BY <5>1, <5>2, <1>10, AdminsGrow, AdminsFinite, FS_CardinalityType
      <4> QED BY <3>1, <3>2, <4>2, <4>3, <4>4 DEF StillFound, Guarded
    <3>3. CASE ~(c.at \in {"count", "write"} /\ c.op.kind # "create")
      BY <3>1, <3>3 DEF StillFound
    <3> QED BY <3>2, <3>3
  <2> QED BY <2>1, <2>2
<1>12. AdminLeft'
  BY <1>2, <1>4, <1>6, <1>10 DEF PortalInv, AdminLeft
<1>13. RevokedWithAccount'
  <2> SUFFICES ASSUME NEW u \in sessions, u.live, ~u.late, ~accounts'[u.subject].enabled
               PROVE  \E y \in Calls : call'[y].at = "revoke" /\ call'[y].name = u.subject
    BY <1>4 DEF RevokedWithAccount
  <2>1. u.subject \in Names
    BY DEF PortalInv, PortalShapes, SessionRow
  <2>2. ~accounts[u.subject].enabled
    BY <2>1, <1>6
  <2>3. PICK y \in Calls : call[y].at = "revoke" /\ call[y].name = u.subject
    BY <2>2 DEF PortalInv, RevokedWithAccount
  <2> QED BY <2>3, <1>1, <1>2
<1> QED BY <1>7, <1>8, <1>9, <1>11, <1>12, <1>13 DEF PortalInv

\* The steps of logins and of the provider's answers.
LEMMA LoginsSound ==
  ASSUME PortalConfigured, PortalInv, NEW x \in Calls,
         \/ \E n \in Names : Login(x, n)
         \/ StartSession(x) \/ FlowStart(x) \/ Callback(x) \/ Identity(x)
  PROVE  PortalInv'
<1>0. PortalShapes /\ sessions \subseteq SessionRow /\ made \in Nat /\ DOMAIN call = Calls
  BY DEF PortalInv, PortalShapes
<1>1. CASE \E n \in Names : Login(x, n)
  <2> PICK n \in Names : Login(x, n)
    BY <1>1
  <2> DEFINE s == [at |-> "session", name |-> n, role |-> accounts[n].role]
  <2>1. accounts[n].role \in Roles /\ call[x].at = "idle"
    BY <1>0, AdminFacts DEF Login, NoCall
  <2>2. s \in CallState
    BY <2>1 DEF CallState
  <2>3. SessionsKept /\ sessions' \in SUBSET SessionRow /\ made' \in Nat
    BY <1>0 DEF Login, SessionsKept
  <2>4. s.at = "session"
    OBVIOUS
  <2>5. Moves(x, s) /\ UNCHANGED <<accounts, lock, setups, raced, changes>>
    BY DEF Login
  <2> HIDE DEF s
  <2> QED BY <2>1, <2>2, <2>3, <2>4, <2>5, MoveSound DEF InSetup, OnScreen, StillFound
<1>2. CASE StartSession(x)
  <2> DEFINE new == [subject |-> call[x].name, role |-> call[x].role, live |-> TRUE,
                     late |-> ~accounts[call[x].name].enabled]
  <2>1. call[x].at = "session" /\ call[x].name \in Names /\ call[x].role \in Roles
    BY <1>0, <1>2, CallFacts DEF StartSession
  <2>2. new \in SessionRow
    BY <1>0, <2>1, AdminFacts DEF SessionRow
  <2>3. sessions' = sessions \cup {new}
    BY <1>2 DEF StartSession
  <2>4. SessionsKept /\ sessions' \in SUBSET SessionRow /\ made' \in Nat
    <3>1. new.late = ~accounts[new.subject].enabled
      OBVIOUS
    <3>2. made' = made + 1
      BY <1>2 DEF StartSession
    <3> HIDE DEF new
    <3> QED BY <1>0, <2>2, <2>3, <3>1, <3>2 DEF SessionsKept
  <2>5. Moves(x, NoCall) /\ UNCHANGED <<accounts, lock, setups, raced, changes>>
    BY <1>2 DEF StartSession
  <2>6. NoCall \in CallState /\ NoCall.at = "idle"
    BY DEF CallState, NoCall
  <2> QED BY <2>1, <2>4, <2>5, <2>6, MoveSound DEF InSetup, OnScreen, StillFound
<1>3. CASE FlowStart(x)
  BY <1>0, <1>3, SessionsSound DEF FlowStart, SessionsKept
<1>4. CASE Callback(x)
  <2>1. CASE UNCHANGED call
    BY <1>0, <1>4, <2>1, SessionsSound DEF Callback, SessionsKept
  <2>2. CASE \E n \in Names : Moves(x, [at |-> "identity", name |-> n])
    <3> PICK n \in Names : Moves(x, [at |-> "identity", name |-> n])
      BY <2>2
    <3> DEFINE s == [at |-> "identity", name |-> n]
    <3>1. s \in CallState /\ s.at = "identity" /\ call[x].at = "idle"
      BY <1>4 DEF CallState, Callback, NoCall
    <3>2. SessionsKept /\ sessions' \in SUBSET SessionRow /\ made' \in Nat
          /\ UNCHANGED <<accounts, lock, setups, raced, changes>>
      BY <1>0, <1>4 DEF Callback, SessionsKept
    <3>3. Moves(x, s)
      OBVIOUS
    <3> HIDE DEF s
    <3> QED BY <3>1, <3>2, <3>3, MoveSound DEF InSetup, OnScreen, StillFound
  <2> QED BY <1>4, <2>1, <2>2 DEF Callback
<1>5. CASE Identity(x)
  <2> DEFINE a == accounts[call[x].name]
             s == IF a.enabled \/ AutoProvision
                  THEN [at |-> "session", name |-> call[x].name,
                        role |-> IF a.enabled THEN a.role ELSE "viewer"]
                  ELSE NoCall
  <2>1. call[x].at = "identity" /\ call[x].name \in Names
    BY <1>0, <1>5, CallFacts DEF Identity
  <2>2. (IF a.enabled THEN a.role ELSE "viewer") \in Roles
    BY <1>0, <2>1, AdminFacts DEF Roles
  <2>3. s \in CallState /\ s.at \in {"idle", "session"}
    BY <2>1, <2>2 DEF CallState, NoCall
  <2>4. SessionsKept /\ sessions' \in SUBSET SessionRow /\ made' \in Nat
        /\ UNCHANGED <<accounts, lock, setups, raced, changes>> /\ Moves(x, s)
    BY <1>0, <1>5 DEF Identity, SessionsKept
  <2> HIDE DEF s
  <2> QED BY <2>1, <2>3, <2>4, MoveSound DEF InSetup, OnScreen, StillFound
<1> QED BY <1>1, <1>2, <1>3, <1>4, <1>5

\* The steps of the account screen up to the write.
LEMMA LooksSound ==
  ASSUME PortalConfigured, PortalInv, NEW x \in Calls,
         \/ \E s \in sessions, act \in Ops : Gate(x, s, act)
         \/ Find(x) \/ Check(x)
  PROVE  PortalInv'
<1>0. PortalShapes /\ sessions \subseteq SessionRow /\ made \in Nat /\ changes \in Nat
  BY DEF PortalInv, PortalShapes
<1>1. CASE \E s \in sessions, act \in Ops : Gate(x, s, act)
  <2> PICK u \in sessions, act \in Ops : Gate(x, u, act)
    BY <1>1
  <2> DEFINE s == [at |-> "find", op |-> act]
  <2>1. s \in CallState /\ s.at = "find" /\ call[x].at = "idle" /\ Moves(x, s)
    BY DEF CallState, NoCall, Gate
  <2>2. SessionsKept /\ sessions' \in SUBSET SessionRow /\ made' \in Nat
        /\ UNCHANGED <<accounts, lock, setups, raced>> /\ changes' = changes + 1
    BY <1>0 DEF Gate, SessionsKept
  <2> HIDE DEF s
  <2> QED BY <2>1, <2>2, MoveSound DEF InSetup, OnScreen, StillFound
<1>2. CASE Find(x)
  <2> DEFINE act == call[x].op
             a == accounts[act.name]
             s == IF (a = NoAccount) # (act.kind = "create") THEN NoCall
                  ELSE [at |-> "count", op |-> act, found |-> a]
  <2>1. call[x].at = "find" /\ act \in Ops /\ act.name \in Names
    BY <1>0, <1>2, CallFacts, OpFacts DEF Find
  <2>2. a \in AccountRow
    BY <1>0, <2>1 DEF PortalShapes
  <2>3. s \in CallState /\ s.at \in {"idle", "count"}
    BY <2>1, <2>2 DEF CallState, NoCall
  <2>4. SessionsKept /\ sessions' \in SUBSET SessionRow /\ made' \in Nat
        /\ UNCHANGED <<accounts, lock, setups, raced, changes>> /\ Moves(x, s)
    BY <1>0, <1>2 DEF Find, SessionsKept
  <2>5. StillFound(s)
    BY DEF StillFound, NoCall
  <2> HIDE DEF s
  <2> QED BY <2>1, <2>3, <2>4, <2>5, MoveSound DEF InSetup, OnScreen
<1>3. CASE Check(x)
  <2> DEFINE c == call[x]
             s == IF Refused(c.op, c.found) THEN NoCall ELSE [at |-> "write", op |-> c.op]
  <2>1. c.at = "count" /\ c.op \in Ops /\ c.op.name \in Names
    BY <1>0, <1>3, CallFacts, OpFacts DEF Check
  <2>3. s \in CallState /\ s.at \in {"idle", "write"}
    BY <2>1 DEF CallState, NoCall
  <2>4. SessionsKept /\ sessions' \in SUBSET SessionRow /\ made' \in Nat
        /\ UNCHANGED <<accounts, lock, setups, raced, changes>> /\ Moves(x, s)
    BY <1>0, <1>3 DEF Check, SessionsKept
  <2>5. ~raced => StillFound(s)
    <3> SUFFICES ASSUME ~raced, c.op.kind # "create", ~Refused(c.op, c.found)
                 PROVE  /\ accounts[c.op.name] # NoAccount
                        /\ Guarded(c.op, accounts[c.op.name]) => Cardinality(Admins) > 1
      BY DEF StillFound, NoCall
    <3>1. c.found = accounts[c.op.name] /\ c.found # NoAccount
      BY <2>1 DEF PortalInv, Looked, StillFound
    <3> QED BY <3>1, AdminsFinite DEF Refused
  <2> HIDE DEF s
  <2> QED BY <2>1, <2>3, <2>4, <2>5, MoveSound DEF InSetup, OnScreen
<1> QED BY <1>1, <1>2, <1>3

\* What a write makes of an account.
LEMMA WrittenFacts ==
  ASSUME NEW act \in Ops, NEW a \in AccountRow
  PROVE  /\ WrittenAccount(act, a) \in AccountRow
         /\ ~Revokes(act) /\ a.enabled => WrittenAccount(act, a).enabled
         /\ a.enabled /\ a.role = "admin" /\ ~Guarded(act, a) => WrittenAccount(act, a) = a
<1> DEFINE w == WrittenAccount(act, a)
<1>1. CASE act.kind = "delete"
  BY <1>1, OpFacts DEF WrittenAccount, AccountRow, Revokes, Guarded
<1>2. CASE act.kind = "create"
  <2>1. act.to \in Roles
    BY <1>2, OpFacts
  <2>2. [role |-> act.to, enabled |-> TRUE] \in AccountRow
    BY <2>1 DEF AccountRow
  <2>3. w = IF a = NoAccount THEN [role |-> act.to, enabled |-> TRUE] ELSE a
    BY <1>2 DEF WrittenAccount
  <2>4. a.enabled => a # NoAccount
    BY DEF NoAccount
  <2> QED BY <2>2, <2>3, <2>4
<1>3. CASE act.kind = "role"
  <2>1. CASE a = NoAccount
    BY <1>3, <2>1 DEF WrittenAccount, AccountRow, NoAccount
  <2>2. CASE a # NoAccount
    <3>1. a \in [role : Roles, enabled : BOOLEAN] /\ act.to \in Roles
      BY <1>3, <2>2, OpFacts DEF AccountRow
    <3>2. w = [a EXCEPT !.role = act.to]
      BY <1>3, <2>2 DEF WrittenAccount
    <3>3. w = [role |-> act.to, enabled |-> a.enabled] /\ a = [role |-> a.role, enabled |-> a.enabled]
      BY <3>1, <3>2
    <3> QED BY <1>3, <3>1, <3>3 DEF AccountRow, Guarded
  <2> QED BY <2>1, <2>2
<1>4. CASE act.kind = "enabled"
  <2>1. CASE a = NoAccount
    BY <1>4, <2>1 DEF WrittenAccount, AccountRow, NoAccount
  <2>2. CASE a # NoAccount
    <3>1. a \in [role : Roles, enabled : BOOLEAN] /\ act.on \in BOOLEAN
      BY <1>4, <2>2, OpFacts DEF AccountRow
    <3>2. w = [a EXCEPT !.enabled = act.on]
      BY <1>4, <2>2 DEF WrittenAccount
    <3>3. w = [role |-> a.role, enabled |-> act.on] /\ a = [role |-> a.role, enabled |-> a.enabled]
      BY <3>1, <3>2
    <3>4. w \in AccountRow
      BY <3>1, <3>3 DEF AccountRow
    <3>5. ~Revokes(act) => act.on
      BY <1>4 DEF Revokes
    <3>6. a.enabled /\ a.role = "admin" /\ ~Guarded(act, a) => act.on
      BY <1>4 DEF Guarded
    <3>7. act.on = TRUE \/ act.on = FALSE
      BY <3>1
    <3>8. a.enabled => a.enabled = TRUE
      BY <3>1
    <3> QED BY <3>1, <3>3, <3>4, <3>5, <3>6, <3>7, <3>8
  <2> QED BY <2>1, <2>2
<1> QED BY <1>1, <1>2, <1>3, <1>4, OpFacts

LEMMA WriteSound ==
  ASSUME PortalConfigured, PortalInv, NEW x \in Calls, WriteAccount(x)
  PROVE  PortalInv'
<1> DEFINE act == call[x].op
           n == act.name
           w == WrittenAccount(act, accounts[n])
           s == IF Revokes(act) THEN [at |-> "revoke", name |-> n] ELSE NoCall
<1>1. call[x].at = "write" /\ act \in Ops /\ n \in Names
  BY CallFacts, OpFacts DEF WriteAccount, PortalInv
<1>2. s \in CallState /\ s.at \in {"idle", "revoke"} /\ (Revokes(act) => s.at = "revoke" /\ s.name = n)
  BY <1>1 DEF CallState, NoCall
<1>3. /\ accounts \in [Names -> AccountRow] /\ accounts' = [accounts EXCEPT ![n] = w]
      /\ Moves(x, s) /\ call \in [Calls -> CallState]
      /\ UNCHANGED <<sessions, lock, setups, made, changes>>
  BY DEF WriteAccount, PortalInv, PortalShapes
<1>4. /\ \A y \in Calls : y # x => call'[y] = call[y]
      /\ call'[x] = s /\ call' \in [Calls -> CallState]
  BY <1>2, <1>3 DEF Moves
<1>5. /\ w \in AccountRow
      /\ ~Revokes(act) /\ accounts[n].enabled => w.enabled
      /\ accounts[n].enabled /\ accounts[n].role = "admin" /\ ~Guarded(act, accounts[n]) => w = accounts[n]
  BY <1>1, <1>3, WrittenFacts
<1>6. /\ accounts' \in [Names -> AccountRow] /\ accounts'[n] = w
      /\ \A m \in Names : m # n => accounts'[m] = accounts[m]
  BY <1>1, <1>3, <1>5
<1>7. /\ raced' \in BOOLEAN /\ (~raced' => ~raced)
      /\ ~raced' => \A y \in Calls : y # x => call[y].at \notin {"count", "write"}
  BY DEF WriteAccount, PortalInv, PortalShapes
<1> HIDE DEF s, w
<1>8. PortalShapes'
  BY <1>3, <1>4, <1>6, <1>7 DEF PortalInv, PortalShapes
<1>9. LockHeld'
  BY <1>1, <1>2, <1>3, <1>4 DEF PortalInv, LockHeld, InSetup
<1>10. Untouched'
  BY <1>1, <1>3 DEF PortalInv, Untouched, OnScreen
<1>11. Looked'
  <2> SUFFICES ASSUME ~raced', NEW y \in Calls PROVE call'[y].at \notin {"count", "write"}
    BY DEF Looked, StillFound
  <2> QED BY <1>2, <1>4, <1>7
<1>12. AdminLeft'
  <2> SUFFICES ASSUME setups > 0, ~raced' PROVE Admins' # {}
    BY <1>3 DEF AdminLeft
  <2>1. Admins # {} /\ ~raced
    BY <1>7 DEF PortalInv, AdminLeft
  <2>2. CASE Guarded(act, accounts[n])
    <3>1. Cardinality(Admins) > 1
      <4>1. act.kind # "create"
        BY <2>2 DEF Guarded
      <4> QED BY <1>1, <2>1, <2>2, <4>1 DEF PortalInv, Looked, StillFound
    <3>2. \E m \in Admins : m # n
      <4> SUFFICES ASSUME \A m \in Admins : m = n PROVE FALSE
        OBVIOUS
      <4>1. Admins \subseteq {n}
        OBVIOUS
      <4>2. IsFiniteSet({n}) /\ Cardinality({n}) = 1
        BY FS_Singleton
      <4>3. Cardinality(Admins) <= 1
        BY <4>1, <4>2, FS_Subset
      <4> QED BY <3>1, <4>3, AdminsFinite
    <3>3. PICK m \in Admins : m # n
      BY <3>2
    <3> QED BY <3>3, <1>6 DEF Admins
  <2>3. CASE ~Guarded(act, accounts[n])
    <3>1. PICK m \in Admins : TRUE
      BY <2>1
    <3>2. accounts'[m] = accounts[m]
      BY <2>3, <1>5, <1>6 DEF Admins
    <3> QED BY <3>2 DEF Admins
  <2> QED BY <2>2, <2>3
<1>13. RevokedWithAccount'
  <2> SUFFICES ASSUME NEW u \in sessions, u.live, ~u.late, ~accounts'[u.subject].enabled
               PROVE  \E y \in Calls : call'[y].at = "revoke" /\ call'[y].name = u.subject
    BY <1>3 DEF RevokedWithAccount
  <2>1. u.subject \in Names
    BY DEF PortalInv, PortalShapes, SessionRow
  <2>2. CASE u.subject = n /\ Revokes(act)
    BY <2>2, <1>2, <1>4
  <2>3. CASE ~(u.subject = n /\ Revokes(act))
    <3>1. ~accounts[u.subject].enabled
      BY <2>1, <2>3, <1>5, <1>6
    <3>2. PICK y \in Calls : call[y].at = "revoke" /\ call[y].name = u.subject
      BY <3>1 DEF PortalInv, RevokedWithAccount
    <3> QED BY <3>2, <1>1, <1>4
  <2> QED BY <2>2, <2>3
<1> QED BY <1>8, <1>9, <1>10, <1>11, <1>12, <1>13 DEF PortalInv

LEMMA RevokeSound ==
  ASSUME PortalConfigured, PortalInv, NEW x \in Calls, Revoke(x)
  PROVE  PortalInv'
<1> DEFINE n == call[x].name
<1>1. call[x].at = "revoke" /\ n \in Names /\ sessions \subseteq SessionRow
  BY CallFacts DEF Revoke, PortalInv, PortalShapes
<1>2. NoCall \in CallState /\ NoCall.at = "idle"
  BY DEF CallState, NoCall
<1>3. Moves(x, NoCall) /\ UNCHANGED <<accounts, lock, setups, made, changes, raced>>
  BY DEF Revoke
<1>4. /\ \A y \in Calls : y # x => call'[y] = call[y]
      /\ call'[x] = NoCall /\ call' \in [Calls -> CallState]
  BY <1>2, <1>3 DEF Moves, PortalInv, PortalShapes
<1>5. sessions' \subseteq SessionRow
      /\ \A u \in sessions' : u.live => u \in sessions /\ u.subject # n
  <2> SUFFICES ASSUME NEW u \in sessions' PROVE u \in SessionRow /\ (u.live => u \in sessions /\ u.subject # n)
    OBVIOUS
  <2>1. PICK v \in sessions : u = IF v.subject = n THEN [v EXCEPT !.live = FALSE] ELSE v
    BY DEF Revoke
  <2>2. v \in SessionRow
    BY <1>1
  <2> QED BY <2>1, <2>2 DEF SessionRow
<1>6. PortalShapes'
  BY <1>3, <1>4, <1>5 DEF PortalInv, PortalShapes
<1>7. LockHeld' /\ Untouched'
  BY <1>1, <1>2, <1>3, <1>4 DEF PortalInv, LockHeld, InSetup, Untouched, OnScreen
<1>8. Admins' = Admins
  BY <1>3 DEF Admins
<1>9. Looked'
  <2> SUFFICES ASSUME ~raced, NEW y \in Calls PROVE StillFound(call[y])'
    BY <1>3 DEF Looked
  <2>1. StillFound(call'[y])
    BY <1>2, <1>4 DEF PortalInv, Looked, StillFound
  <2> QED BY <2>1, <1>3, <1>8 DEF StillFound
<1>10. AdminLeft'
  BY <1>3, <1>8 DEF PortalInv, AdminLeft
<1>11. RevokedWithAccount'
  <2> SUFFICES ASSUME NEW u \in sessions', u.live, ~u.late, ~accounts[u.subject].enabled
               PROVE  \E y \in Calls : call'[y].at = "revoke" /\ call'[y].name = u.subject
    BY <1>3 DEF RevokedWithAccount
  <2>1. u \in sessions /\ u.subject # n
    BY <1>5
  <2>2. PICK y \in Calls : call[y].at = "revoke" /\ call[y].name = u.subject
    BY <2>1 DEF PortalInv, RevokedWithAccount
  <2> QED BY <2>1, <2>2, <1>4
<1> QED BY <1>6, <1>7, <1>9, <1>10, <1>11 DEF PortalInv

\* The ends of sessions and of flows.
LEMMA EndsSound ==
  ASSUME PortalInv, FlowEnds \/ Cleanup \/ \E s \in sessions : End(s)
  PROVE  PortalInv'
<1>0. sessions \subseteq SessionRow /\ made \in Nat
  BY DEF PortalInv, PortalShapes
<1>1. CASE FlowEnds
  BY <1>0, <1>1, SessionsSound DEF FlowEnds, SessionsKept
<1>2. CASE Cleanup
  BY <1>0, <1>2, SessionsSound DEF Cleanup, SessionsKept
<1>3. CASE \E s \in sessions : End(s)
  <2> PICK s \in sessions : End(s)
    BY <1>3
  <2> DEFINE e == [s EXCEPT !.live = FALSE]
  <2>1. e \in SessionRow /\ e.live = FALSE
    BY <1>0 DEF SessionRow
  <2>2. sessions' = (sessions \ {s}) \cup {e}
    BY DEF End
  <2>3. UNCHANGED <<accounts, lock, call, setups, changes, raced, made>>
    BY DEF End
  <2> HIDE DEF e
  <2>4. SessionsKept /\ sessions' \in SUBSET SessionRow /\ made' \in Nat
    BY <1>0, <2>1, <2>2, <2>3 DEF SessionsKept
  <2> QED BY <2>3, <2>4, SessionsSound
<1> QED BY <1>1, <1>2, <1>3

LEMMA PortalStepSound ==
  ASSUME PortalConfigured, PortalInv, [PortalNext]_portalVars
  PROVE  PortalInv'
<1>1. CASE UNCHANGED portalVars
  <2>1. UNCHANGED <<accounts, lock, call, setups, changes, raced, made, sessions>>
    BY <1>1 DEF portalVars
  <2>2. SessionsKept /\ sessions' \in SUBSET SessionRow /\ made' \in Nat
    BY <2>1 DEF SessionsKept, PortalInv, PortalShapes
  <2> QED BY <2>1, <2>2, SessionsSound
<1>2. ASSUME NEW x \in Calls,
             \/ \E n \in Names : Setup(x, n) \/ Login(x, n)
             \/ HasAccounts(x) \/ FirstAdmin(x) \/ StartSession(x)
             \/ FlowStart(x) \/ Callback(x) \/ Identity(x)
             \/ \E s \in sessions, n \in Names : \E act \in Changes(n) : Gate(x, s, act)
             \/ Find(x) \/ Check(x) \/ WriteAccount(x) \/ Revoke(x)
      PROVE  PortalInv'
  <2>1. \A n \in Names : Changes(n) \subseteq Ops
    BY DEF Ops
  <2> QED BY <1>2, <2>1, SetupSound, HasAccountsSound, FirstAdminSound, LoginsSound, LooksSound,
             WriteSound, RevokeSound
<1>3. CASE FlowEnds \/ Cleanup \/ \E s \in sessions : End(s)
  BY <1>3, EndsSound
<1> QED BY <1>1, <1>2, <1>3 DEF PortalNext

\* Whoever sets up, logs in and edits accounts at the same time: setup makes one
\* administrator while no account was ever deleted, an enabled administrator is left
\* unless two calls of the account screen overlapped, and the sessions of a disabled or
\* deleted account are revoked (create_first_admin, is_last_enabled_admin,
\* revoke_sessions_for_subject).
THEOREM PortalStaysGuarded == ASSUME PortalConfigured PROVE PortalSpec => []PortalGuarded
<1>1. PortalInit => PortalInv
  BY PortalInitSound
<1>2. PortalInv /\ [PortalNext]_portalVars => PortalInv'
  BY PortalStepSound
<1>3. PortalInv => PortalGuarded
  <2> SUFFICES ASSUME PortalInv PROVE PortalTypeOK /\ SetupOnce
    BY DEF PortalGuarded, PortalInv
  <2>1. \A n \in Names : accounts[n].role \in Roles \cup {"none"} /\ accounts[n].enabled \in BOOLEAN
    <3> SUFFICES ASSUME NEW n \in Names
                 PROVE  accounts[n].role \in Roles \cup {"none"} /\ accounts[n].enabled \in BOOLEAN
      OBVIOUS
    <3>1. accounts[n] \in AccountRow
      BY DEF PortalInv, PortalShapes
    <3>2. CASE accounts[n] = NoAccount
      BY <3>2 DEF NoAccount
    <3>3. CASE accounts[n] \in [role : Roles, enabled : BOOLEAN]
      BY <3>3
    <3> QED BY <3>1, <3>2, <3>3 DEF AccountRow
  <2>2. \A s \in sessions : s.subject \in Names /\ s.role \in Roles
    BY DEF PortalInv, PortalShapes, SessionRow
  <2>3. lock \in Calls => call[lock].at \in {"hasAccounts", "firstAdmin"}
    BY DEF PortalInv, LockHeld, InSetup
  <2>4. PortalTypeOK
    BY <2>1, <2>2, <2>3 DEF PortalTypeOK, PortalInv, PortalShapes
  <2>5. SetupOnce
    BY DEF SetupOnce, PortalInv, Untouched
  <2> QED BY <2>4, <2>5
<1> QED BY <1>1, <1>2, <1>3, PTL DEF PortalSpec

----------------------------------------------------------------------------
(* Proofs about Console, for any sessions and failing queries. The argument is *)
(* about the list of calls: none that changes rows has the class Read, and     *)
(* those reserved to administrators have a class only they are allowed.        *)

ConsoleConfigured == MaxLogins \in Nat /\ MaxQueryFaults \in Nat

RoleNames == {"viewer", "operator", "admin"}
Classes == {"Read", "Write", "Destroy", "Control", "Admin"}
AdminClasses == {"Destroy", "Control", "Admin"}

\* What the properties need of a call's declaration.
Classed(c) ==
  /\ c.class \in Classes /\ c.changes \in BOOLEAN /\ c.name # "none"
  /\ c.changes => c.class # "Read"
  /\ c.name \in InSteps => c.changes
  /\ c.name \in Reserved => c.class \in AdminClasses

LEMMA LooksClassed ==
  ASSUME NEW class \in Classes, NEW names, names \cap (InSteps \cup Reserved \cup {"none"}) = {}
  PROVE  \A c \in Looks(class, names) : Classed(c)
<1> SUFFICES ASSUME NEW c \in Looks(class, names) PROVE Classed(c)
  OBVIOUS
<1>1. PICK n \in names : c = [name |-> n, class |-> class, changes |-> FALSE]
  BY DEF Looks
<1>2. c.name = n /\ c.class = class /\ c.changes = FALSE
  BY <1>1
<1>3. c.changes \in BOOLEAN
  BY <1>2
<1> QED BY <1>2, <1>3 DEF Classed

LEMMA EditsClassed ==
  ASSUME NEW class \in Classes \ {"Read"}, NEW names, "none" \notin names,
         class \in AdminClasses \/ names \cap Reserved = {}
  PROVE  \A c \in Edits(class, names) : Classed(c)
<1> SUFFICES ASSUME NEW c \in Edits(class, names) PROVE Classed(c)
  OBVIOUS
<1>1. PICK n \in names : c = [name |-> n, class |-> class, changes |-> TRUE]
  BY DEF Edits
<1>2. c.name = n /\ c.class = class /\ c.changes = TRUE
  BY <1>1
<1>3. c.changes \in BOOLEAN
  BY <1>2
<1> QED BY <1>2, <1>3 DEF Classed

LEMMA CallsClassed == \A c \in ConsoleCalls : Classed(c)
<1>1. \A c \in AccountCalls : Classed(c)
  <2>1. \A c \in Looks("Admin", {"list_local_accounts"}) : Classed(c)
    BY LooksClassed DEF Classes, InSteps, Reserved, EndsSessions
  <2>2. \A c \in Edits("Admin", {"create_local_account", "set_account_role",
                                "set_account_enabled", "delete_local_account"}) : Classed(c)
    BY EditsClassed DEF Classes, AdminClasses
  <2> QED BY <2>1, <2>2 DEF AccountCalls
<1>2. \A c \in PasswordAndSessionCalls : Classed(c)
  <2>1. \A c \in Looks("Admin", {"list_active_sessions"}) : Classed(c)
    BY LooksClassed DEF Classes, InSteps, Reserved, EndsSessions
  <2>2. \A c \in Edits("Admin", {"reset_account_password", "revoke_portal_sessions"}) : Classed(c)
    BY EditsClassed DEF Classes, AdminClasses
  <2> QED BY <2>1, <2>2 DEF PasswordAndSessionCalls
<1>3. \A c \in SettingsCalls : Classed(c)
  <2>1. \A c \in Looks("Admin", {"get_system_settings"}) : Classed(c)
    BY LooksClassed DEF Classes, InSteps, Reserved, EndsSessions
  <2>2. \A c \in Edits("Admin", {"save_system_settings"}) : Classed(c)
    BY EditsClassed DEF Classes, AdminClasses
  <2> QED BY <2>1, <2>2 DEF SettingsCalls
<1>4. \A c \in BackupCalls : Classed(c)
  <2>1. \A c \in Looks("Read", {"list_backups"}) : Classed(c)
    BY LooksClassed DEF Classes, InSteps, Reserved, EndsSessions
  <2>2. \A c \in Edits("Admin", {"create_backup", "restore_backup", "delete_backup"}) : Classed(c)
    BY EditsClassed DEF Classes, AdminClasses
  <2> QED BY <2>1, <2>2 DEF BackupCalls
<1>5. \A c \in LogCalls : Classed(c)
  <2>1. \A c \in Looks("Read", {"query_logs"}) : Classed(c)
    BY LooksClassed DEF Classes, InSteps, Reserved, EndsSessions
  <2> QED BY <2>1 DEF LogCalls
<1>6. \A c \in AuditCalls : Classed(c)
  <2>1. \A c \in Looks("Read", {"query_audit_log"}) : Classed(c)
    BY LooksClassed DEF Classes, InSteps, Reserved, EndsSessions
  <2> QED BY <2>1 DEF AuditCalls
<1>7. \A c \in ShellCalls : Classed(c)
  <2>1. \A c \in Looks("Read", {"get_shell_info", "get_dashboard_cards"}) : Classed(c)
    BY LooksClassed DEF Classes, InSteps, Reserved, EndsSessions
  <2> QED BY <2>1 DEF ShellCalls
<1>8. \A c \in AlertCalls : Classed(c)
  <2>1. \A c \in Looks("Read", {"list_alerts"}) : Classed(c)
    BY LooksClassed DEF Classes, InSteps, Reserved, EndsSessions
  <2>2. \A c \in Edits("Write", {"acknowledge_alerts", "resolve_alerts"}) : Classed(c)
    BY EditsClassed DEF Classes, Reserved, EndsSessions
  <2> QED BY <2>1, <2>2 DEF AlertCalls
<1>9. \A c \in TargetCalls : Classed(c)
  <2>1. \A c \in Looks("Read", {"list_notification_targets"}) : Classed(c)
    BY LooksClassed DEF Classes, InSteps, Reserved, EndsSessions
  <2>2. \A c \in Edits("Write", {"create_notification_target", "set_notification_target_enabled",
                                "delete_notification_target"}) : Classed(c)
    BY EditsClassed DEF Classes, Reserved, EndsSessions
  <2> QED BY <2>1, <2>2 DEF TargetCalls
<1>10. \A c \in PrincipalCalls : Classed(c)
  <2>1. \A c \in Looks("Read", {"list_ad_principals", "list_ad_groups", "get_addc_status"}) :
                               Classed(c)
    BY LooksClassed DEF Classes, InSteps, Reserved, EndsSessions
  <2> QED BY <2>1 DEF PrincipalCalls
<1>11. \A c \in GpoCalls : Classed(c)
  <2>1. \A c \in Looks("Read", {"list_gpos", "list_logon_scripts"}) : Classed(c)
    BY LooksClassed DEF Classes, InSteps, Reserved, EndsSessions
  <2>2. \A c \in Edits("Write", {"create_gpo", "delete_gpo", "create_logon_script",
                                "delete_logon_script"}) : Classed(c)
    BY EditsClassed DEF Classes, Reserved, EndsSessions
  <2> QED BY <2>1, <2>2 DEF GpoCalls
<1>12. \A c \in MembershipCalls : Classed(c)
  <2>1. \A c \in Edits("Admin", {"join_domain", "leave_domain"}) : Classed(c)
    BY EditsClassed DEF Classes, AdminClasses
  <2> QED BY <2>1 DEF MembershipCalls
<1>13. \A c \in FsmoCalls : Classed(c)
  <2>1. \A c \in Looks("Read", {"list_fsmo_roles"}) : Classed(c)
    BY LooksClassed DEF Classes, InSteps, Reserved, EndsSessions
  <2>2. \A c \in Edits("Admin", {"seize_fsmo_role"}) : Classed(c)
    BY EditsClassed DEF Classes, AdminClasses
  <2> QED BY <2>1, <2>2 DEF FsmoCalls
<1>14. \A c \in PoolCalls : Classed(c)
  <2>1. \A c \in Looks("Read", {"get_dhcp_metrics", "list_pools", "get_pool",
                               "count_pool_active_leases"}) : Classed(c)
    BY LooksClassed DEF Classes, InSteps, Reserved, EndsSessions
  <2>2. \A c \in Edits("Write", {"save_pool", "delete_pool"}) : Classed(c)
    BY EditsClassed DEF Classes, Reserved, EndsSessions
  <2> QED BY <2>1, <2>2 DEF PoolCalls
<1>15. \A c \in LeaseCalls : Classed(c)
  <2>1. \A c \in Looks("Read", {"list_reservations", "list_leases", "get_dhcp_config"}) :
                               Classed(c)
    BY LooksClassed DEF Classes, InSteps, Reserved, EndsSessions
  <2>2. \A c \in Edits("Write", {"create_reservation", "delete_reservation", "release_lease"}) :
                                Classed(c)
    BY EditsClassed DEF Classes, Reserved, EndsSessions
  <2>3. \A c \in Edits("Control", {"save_dhcp_config"}) : Classed(c)
    BY EditsClassed DEF Classes, AdminClasses
  <2> QED BY <2>1, <2>2, <2>3 DEF LeaseCalls
<1>16. \A c \in ZoneCalls : Classed(c)
  <2>1. \A c \in Looks("Read", {"get_dns_metrics", "list_zones", "get_zone",
                               "count_zone_records"}) : Classed(c)
    BY LooksClassed DEF Classes, InSteps, Reserved, EndsSessions
  <2>2. \A c \in Edits("Write", {"save_zone", "delete_zone"}) : Classed(c)
    BY EditsClassed DEF Classes, Reserved, EndsSessions
  <2> QED BY <2>1, <2>2 DEF ZoneCalls
<1>17. \A c \in RecordCalls : Classed(c)
  <2>1. \A c \in Looks("Read", {"list_records"}) : Classed(c)
    BY LooksClassed DEF Classes, InSteps, Reserved, EndsSessions
  <2>2. \A c \in Edits("Write", {"save_record", "delete_record"}) : Classed(c)
    BY EditsClassed DEF Classes, Reserved, EndsSessions
  <2> QED BY <2>1, <2>2 DEF RecordCalls
<1>18. \A c \in RpzCalls : Classed(c)
  <2>1. \A c \in Looks("Read", {"list_rpz", "dns_query_test"}) : Classed(c)
    BY LooksClassed DEF Classes, InSteps, Reserved, EndsSessions
  <2>2. \A c \in Edits("Write", {"save_rpz", "delete_rpz"}) : Classed(c)
    BY EditsClassed DEF Classes, Reserved, EndsSessions
  <2> QED BY <2>1, <2>2 DEF RpzCalls
<1>19. \A c \in DnssecCalls : Classed(c)
  <2>1. \A c \in Looks("Read", {"get_dnssec_key_info"}) : Classed(c)
    BY LooksClassed DEF Classes, InSteps, Reserved, EndsSessions
  <2>2. \A c \in Edits("Write", {"set_zone_dnssec"}) : Classed(c)
    BY EditsClassed DEF Classes, Reserved, EndsSessions
  <2> QED BY <2>1, <2>2 DEF DnssecCalls
<1>20. \A c \in GeoCalls : Classed(c)
  <2>1. \A c \in Looks("Read", {"list_geo_rules"}) : Classed(c)
    BY LooksClassed DEF Classes, InSteps, Reserved, EndsSessions
  <2>2. \A c \in Edits("Write", {"create_geo_rule", "toggle_geo_rule", "delete_geo_rule"}) :
                                Classed(c)
    BY EditsClassed DEF Classes, Reserved, EndsSessions
  <2> QED BY <2>1, <2>2 DEF GeoCalls
<1>21. \A c \in TransferCalls : Classed(c)
  <2>1. \A c \in Looks("Read", {"list_tsig_keys"}) : Classed(c)
    BY LooksClassed DEF Classes, InSteps, Reserved, EndsSessions
  <2>2. \A c \in Edits("Write", {"set_zone_replication", "create_tsig_key", "delete_tsig_key"}) :
                                Classed(c)
    BY EditsClassed DEF Classes, Reserved, EndsSessions
  <2> QED BY <2>1, <2>2 DEF TransferCalls
<1>22. \A c \in ForwarderCalls : Classed(c)
  <2>1. \A c \in Looks("Read", {"get_dns_forwarders"}) : Classed(c)
    BY LooksClassed DEF Classes, InSteps, Reserved, EndsSessions
  <2>2. \A c \in Edits("Write", {"save_dns_forwarders"}) : Classed(c)
    BY EditsClassed DEF Classes, Reserved, EndsSessions
  <2> QED BY <2>1, <2>2 DEF ForwarderCalls
<1>23. \A c \in DdnsCalls : Classed(c)
  <2>1. \A c \in Looks("Read", {"get_ddns_page"}) : Classed(c)
    BY LooksClassed DEF Classes, InSteps, Reserved, EndsSessions
  <2>2. \A c \in Edits("Write", {"save_ddns_config", "trigger_ddns_update"}) : Classed(c)
    BY EditsClassed DEF Classes, Reserved, EndsSessions
  <2> QED BY <2>1, <2>2 DEF DdnsCalls
<1>24. \A c \in HostCalls : Classed(c)
  <2>1. \A c \in Looks("Read", {"get_k8s_metrics", "list_k8s_hosts", "list_k8s_clusters"}) :
                               Classed(c)
    BY LooksClassed DEF Classes, InSteps, Reserved, EndsSessions
  <2>2. \A c \in Edits("Write", {"create_k8s_host", "create_k8s_cluster"}) : Classed(c)
    BY EditsClassed DEF Classes, Reserved, EndsSessions
  <2>3. \A c \in Edits("Destroy", {"delete_k8s_host"}) : Classed(c)
    BY EditsClassed DEF Classes, AdminClasses
  <2> QED BY <2>1, <2>2, <2>3 DEF HostCalls
<1>25. \A c \in ClusterCalls : Classed(c)
  <2>1. \A c \in Looks("Read", {"list_k8s_alert_rules", "list_k8s_templates"}) : Classed(c)
    BY LooksClassed DEF Classes, InSteps, Reserved, EndsSessions
  <2>2. \A c \in Edits("Write", {"save_k8s_alert_rule", "toggle_k8s_rule", "save_k8s_template"}) :
                                Classed(c)
    BY EditsClassed DEF Classes, Reserved, EndsSessions
  <2>3. \A c \in Edits("Destroy", {"delete_k8s_cluster", "delete_k8s_alert_rule"}) : Classed(c)
    BY EditsClassed DEF Classes, AdminClasses
  <2> QED BY <2>1, <2>2, <2>3 DEF ClusterCalls
<1>26. \A c \in WorkloadCalls : Classed(c)
  <2>1. \A c \in Looks("Read", {"list_cluster_workloads", "get_pod_logs"}) : Classed(c)
    BY LooksClassed DEF Classes, InSteps, Reserved, EndsSessions
  <2>2. \A c \in Edits("Write", {"set_cluster_api"}) : Classed(c)
    BY EditsClassed DEF Classes, Reserved, EndsSessions
  <2>3. \A c \in Edits("Destroy", {"delete_k8s_template"}) : Classed(c)
    BY EditsClassed DEF Classes, AdminClasses
  <2> QED BY <2>1, <2>2, <2>3 DEF WorkloadCalls
<1>27. \A c \in TreeCalls : Classed(c)
  <2>1. \A c \in Looks("Read", {"get_ldap_metrics", "get_tree_root", "get_tree_children",
                               "get_entry", "list_parents", "list_users"}) : Classed(c)
    BY LooksClassed DEF Classes, InSteps, Reserved, EndsSessions
  <2> QED BY <2>1 DEF TreeCalls
<1>28. \A c \in UserCalls : Classed(c)
  <2>1. \A c \in Edits("Write", {"create_user", "toggle_user"}) : Classed(c)
    BY EditsClassed DEF Classes, Reserved, EndsSessions
  <2>2. \A c \in Edits("Admin", {"reset_password"}) : Classed(c)
    BY EditsClassed DEF Classes, AdminClasses
  <2> QED BY <2>1, <2>2 DEF UserCalls
<1>29. \A c \in GroupCalls : Classed(c)
  <2>1. \A c \in Looks("Read", {"list_groups"}) : Classed(c)
    BY LooksClassed DEF Classes, InSteps, Reserved, EndsSessions
  <2>2. \A c \in Edits("Write", {"create_group", "add_member", "remove_member"}) : Classed(c)
    BY EditsClassed DEF Classes, Reserved, EndsSessions
  <2> QED BY <2>1, <2>2 DEF GroupCalls
<1>30. \A c \in EntryCalls : Classed(c)
  <2>1. \A c \in Looks("Read", {"list_ous", "list_computers"}) : Classed(c)
    BY LooksClassed DEF Classes, InSteps, Reserved, EndsSessions
  <2>2. \A c \in Edits("Write", {"create_ou", "create_computer", "move_entry"}) : Classed(c)
    BY EditsClassed DEF Classes, Reserved, EndsSessions
  <2> QED BY <2>1, <2>2 DEF EntryCalls
<1>31. \A c \in DeleteCalls : Classed(c)
  <2>1. \A c \in Edits("Write", {"delete_entry"}) : Classed(c)
    BY EditsClassed DEF Classes, Reserved, EndsSessions
  <2> QED BY <2>1 DEF DeleteCalls
<1>32. \A c \in LdapAclCalls : Classed(c)
  <2>1. \A c \in Looks("Read", {"list_ldap_acls", "get_ldap_sync_status"}) : Classed(c)
    BY LooksClassed DEF Classes, InSteps, Reserved, EndsSessions
  <2>2. \A c \in Edits("Write", {"create_ldap_acl", "toggle_ldap_acl", "delete_ldap_acl"}) :
                                Classed(c)
    BY EditsClassed DEF Classes, Reserved, EndsSessions
  <2> QED BY <2>1, <2>2 DEF LdapAclCalls
<1>33. \A c \in DomainCalls : Classed(c)
  <2>1. \A c \in Looks("Read", {"get_mail_metrics", "list_mail_domains", "list_mail_users"}) :
                               Classed(c)
    BY LooksClassed DEF Classes, InSteps, Reserved, EndsSessions
  <2>2. \A c \in Edits("Write", {"save_mail_domain", "create_mail_user"}) : Classed(c)
    BY EditsClassed DEF Classes, Reserved, EndsSessions
  <2>3. \A c \in Edits("Destroy", {"delete_mail_domain"}) : Classed(c)
    BY EditsClassed DEF Classes, AdminClasses
  <2> QED BY <2>1, <2>2, <2>3 DEF DomainCalls
<1>34. \A c \in MailUserCalls : Classed(c)
  <2>1. \A c \in Looks("Read", {"list_aliases", "list_mailing_lists"}) : Classed(c)
    BY LooksClassed DEF Classes, InSteps, Reserved, EndsSessions
  <2>2. \A c \in Edits("Write", {"toggle_mail_user", "reset_mail_user_password", "save_alias"}) :
                                Classed(c)
    BY EditsClassed DEF Classes, Reserved, EndsSessions
  <2>3. \A c \in Edits("Destroy", {"delete_mail_user", "delete_alias"}) : Classed(c)
    BY EditsClassed DEF Classes, AdminClasses
  <2> QED BY <2>1, <2>2, <2>3 DEF MailUserCalls
<1>35. \A c \in ListCalls : Classed(c)
  <2>1. \A c \in Looks("Read", {"get_mail_config"}) : Classed(c)
    BY LooksClassed DEF Classes, InSteps, Reserved, EndsSessions
  <2>2. \A c \in Edits("Write", {"create_mailing_list", "add_list_member", "remove_list_member",
                                "save_mail_config"}) : Classed(c)
    BY EditsClassed DEF Classes, Reserved, EndsSessions
  <2>3. \A c \in Edits("Destroy", {"delete_mailing_list"}) : Classed(c)
    BY EditsClassed DEF Classes, AdminClasses
  <2> QED BY <2>1, <2>2, <2>3 DEF ListCalls
<1>36. \A c \in RelayCalls : Classed(c)
  <2>1. \A c \in Looks("Read", {"get_mail_relay", "list_mail_messages", "get_dkim"}) : Classed(c)
    BY LooksClassed DEF Classes, InSteps, Reserved, EndsSessions
  <2>2. \A c \in Looks("Admin", {"get_mail_message"}) : Classed(c)
    BY LooksClassed DEF Classes, InSteps, Reserved, EndsSessions
  <2>3. \A c \in Edits("Write", {"save_mail_relay"}) : Classed(c)
    BY EditsClassed DEF Classes, Reserved, EndsSessions
  <2> QED BY <2>1, <2>2, <2>3 DEF RelayCalls
<1>37. \A c \in DkimCalls : Classed(c)
  <2>1. \A c \in Looks("Read", {"list_backup_mx"}) : Classed(c)
    BY LooksClassed DEF Classes, InSteps, Reserved, EndsSessions
  <2>2. \A c \in Edits("Write", {"generate_dkim", "set_dkim_enabled", "save_backup_mx"}) :
                                Classed(c)
    BY EditsClassed DEF Classes, Reserved, EndsSessions
  <2> QED BY <2>1, <2>2 DEF DkimCalls
<1>38. \A c \in QueueCalls : Classed(c)
  <2>1. \A c \in Looks("Read", {"list_backup_queue", "get_mail_repl_status"}) : Classed(c)
    BY LooksClassed DEF Classes, InSteps, Reserved, EndsSessions
  <2>2. \A c \in Edits("Destroy", {"delete_backup_mx", "delete_backup_queue"}) : Classed(c)
    BY EditsClassed DEF Classes, AdminClasses
  <2> QED BY <2>1, <2>2 DEF QueueCalls
<1>39. \A c \in VhostCalls : Classed(c)
  <2>1. \A c \in Looks("Read", {"get_proxy_metrics", "list_vhosts", "list_certificates"}) :
                               Classed(c)
    BY LooksClassed DEF Classes, InSteps, Reserved, EndsSessions
  <2>2. \A c \in Edits("Write", {"save_vhost", "toggle_vhost"}) : Classed(c)
    BY EditsClassed DEF Classes, Reserved, EndsSessions
  <2>3. \A c \in Edits("Destroy", {"delete_vhost"}) : Classed(c)
    BY EditsClassed DEF Classes, AdminClasses
  <2> QED BY <2>1, <2>2, <2>3 DEF VhostCalls
<1>40. \A c \in CertificateCalls : Classed(c)
  <2>1. \A c \in Looks("Read", {"list_acl_rules"}) : Classed(c)
    BY LooksClassed DEF Classes, InSteps, Reserved, EndsSessions
  <2>2. \A c \in Edits("Write", {"create_certificate", "save_acl_rule", "set_acl_priority"}) :
                                Classed(c)
    BY EditsClassed DEF Classes, Reserved, EndsSessions
  <2>3. \A c \in Edits("Destroy", {"delete_certificate"}) : Classed(c)
    BY EditsClassed DEF Classes, AdminClasses
  <2> QED BY <2>1, <2>2, <2>3 DEF CertificateCalls
<1>41. \A c \in BlockCalls : Classed(c)
  <2>1. \A c \in Looks("Read", {"list_ip_blocks"}) : Classed(c)
    BY LooksClassed DEF Classes, InSteps, Reserved, EndsSessions
  <2>2. \A c \in Edits("Write", {"toggle_acl", "save_ip_block", "set_ip_block_order",
                                "toggle_ip_block"}) : Classed(c)
    BY EditsClassed DEF Classes, Reserved, EndsSessions
  <2>3. \A c \in Edits("Destroy", {"delete_acl_rule", "delete_ip_block"}) : Classed(c)
    BY EditsClassed DEF Classes, AdminClasses
  <2> QED BY <2>1, <2>2, <2>3 DEF BlockCalls
<1>42. \A c \in ForwardCalls : Classed(c)
  <2>1. \A c \in Looks("Read", {"list_forward_rules", "list_forward_users"}) : Classed(c)
    BY LooksClassed DEF Classes, InSteps, Reserved, EndsSessions
  <2>2. \A c \in Edits("Write", {"save_forward_rule", "toggle_forward_rule",
                                "create_forward_user"}) : Classed(c)
    BY EditsClassed DEF Classes, Reserved, EndsSessions
  <2>3. \A c \in Edits("Destroy", {"delete_forward_rule"}) : Classed(c)
    BY EditsClassed DEF Classes, AdminClasses
  <2> QED BY <2>1, <2>2, <2>3 DEF ForwardCalls
<1>43. \A c \in AcmeCalls : Classed(c)
  <2>1. \A c \in Looks("Read", {"get_proxy_health", "get_acme_config"}) : Classed(c)
    BY LooksClassed DEF Classes, InSteps, Reserved, EndsSessions
  <2>2. \A c \in Edits("Write", {"toggle_forward_user", "save_acme_config"}) : Classed(c)
    BY EditsClassed DEF Classes, Reserved, EndsSessions
  <2>3. \A c \in Edits("Destroy", {"delete_forward_user"}) : Classed(c)
    BY EditsClassed DEF Classes, AdminClasses
  <2> QED BY <2>1, <2>2, <2>3 DEF AcmeCalls
<1>44. \A c \in ProviderCalls : Classed(c)
  <2>1. \A c \in Looks("Read", {"get_sso_metrics", "list_sso_providers"}) : Classed(c)
    BY LooksClassed DEF Classes, InSteps, Reserved, EndsSessions
  <2>2. \A c \in Edits("Write", {"save_provider"}) : Classed(c)
    BY EditsClassed DEF Classes, Reserved, EndsSessions
  <2>3. \A c \in Edits("Destroy", {"delete_provider"}) : Classed(c)
    BY EditsClassed DEF Classes, AdminClasses
  <2> QED BY <2>1, <2>2, <2>3 DEF ProviderCalls
<1>45. \A c \in ClientCalls : Classed(c)
  <2>1. \A c \in Looks("Read", {"list_oidc_clients", "list_sso_sessions"}) : Classed(c)
    BY LooksClassed DEF Classes, InSteps, Reserved, EndsSessions
  <2>2. \A c \in Edits("Write", {"save_oidc_client"}) : Classed(c)
    BY EditsClassed DEF Classes, Reserved, EndsSessions
  <2>3. \A c \in Edits("Destroy", {"delete_oidc_client"}) : Classed(c)
    BY EditsClassed DEF Classes, AdminClasses
  <2>4. \A c \in Edits("Admin", {"regenerate_client_secret", "revoke_sso_sessions"}) : Classed(c)
    BY EditsClassed DEF Classes, AdminClasses
  <2> QED BY <2>1, <2>2, <2>3, <2>4 DEF ClientCalls
<1>46. \A c \in WatchHostCalls : Classed(c)
  <2>1. \A c \in Looks("Read", {"get_watch_metrics", "list_watch_hosts",
                               "hosts_under_maintenance"}) : Classed(c)
    BY LooksClassed DEF Classes, InSteps, Reserved, EndsSessions
  <2>2. \A c \in Edits("Write", {"save_watch_host", "delete_watch_host"}) : Classed(c)
    BY EditsClassed DEF Classes, Reserved, EndsSessions
  <2> QED BY <2>1, <2>2 DEF WatchHostCalls
<1>47. \A c \in WatchRuleCalls : Classed(c)
  <2>1. \A c \in Looks("Read", {"list_watch_rules", "list_watch_groups"}) : Classed(c)
    BY LooksClassed DEF Classes, InSteps, Reserved, EndsSessions
  <2>2. \A c \in Edits("Write", {"save_watch_rule", "toggle_watch_rule", "delete_watch_rule",
                                "save_watch_group"}) : Classed(c)
    BY EditsClassed DEF Classes, Reserved, EndsSessions
  <2> QED BY <2>1, <2>2 DEF WatchRuleCalls
<1>48. \A c \in WatchGroupCalls : Classed(c)
  <2>1. \A c \in Looks("Read", {"list_watch_maintenance", "list_host_metrics"}) : Classed(c)
    BY LooksClassed DEF Classes, InSteps, Reserved, EndsSessions
  <2>2. \A c \in Edits("Write", {"delete_watch_group", "create_watch_maintenance",
                                "delete_watch_maintenance"}) : Classed(c)
    BY EditsClassed DEF Classes, Reserved, EndsSessions
  <2> QED BY <2>1, <2>2 DEF WatchGroupCalls
<1> QED BY <1>1, <1>2, <1>3, <1>4, <1>5, <1>6, <1>7, <1>8, <1>9, <1>10, <1>11, <1>12, <1>13, <1>14, <1>15, <1>16, <1>17, <1>18, <1>19, <1>20, <1>21, <1>22, <1>23, <1>24, <1>25, <1>26, <1>27, <1>28, <1>29, <1>30, <1>31, <1>32, <1>33, <1>34, <1>35, <1>36, <1>37, <1>38, <1>39, <1>40, <1>41, <1>42, <1>43, <1>44, <1>45, <1>46, <1>47, <1>48 DEF ConsoleCalls

\* What a role may do.
LEMMA RankIs == Rank("viewer") = 1 /\ Rank("operator") = 2 /\ Rank("admin") = 3
<1>1. RoleOrder[1] = "viewer" /\ RoleOrder[2] = "operator" /\ RoleOrder[3] = "admin"
  BY DEF RoleOrder
<1>2. 1 .. 3 = {1, 2, 3}
  OBVIOUS
<1> QED BY <1>1, <1>2 DEF Rank

LEMMA AllowedIs ==
  ASSUME NEW role \in RoleNames, NEW class \in Classes, Allowed(role, class)
  PROVE  /\ class # "Read" => role # "viewer"
         /\ class \in AdminClasses => role = "admin"
<1>1. CASE class = "Read"
  BY <1>1 DEF AdminClasses
<1>2. CASE class = "Write"
  <2>1. MinRole(class) = "operator"
    BY <1>2 DEF MinRole
  <2>2. Rank(role) >= 2
    BY <2>1, RankIs DEF Allowed
  <2>3. role # "viewer"
    BY <2>2, RankIs
  <2> QED BY <1>2, <2>3 DEF AdminClasses
<1>3. CASE class \in AdminClasses
  <2>1. MinRole(class) = "admin"
    BY <1>3 DEF MinRole, AdminClasses
  <2>2. Rank(role) >= 3
    BY <2>1, RankIs DEF Allowed
  <2>3. role = "admin"
    BY <2>2, RankIs DEF RoleNames
  <2> QED BY <2>3
<1> QED BY <1>1, <1>2, <1>3 DEF Classes, AdminClasses

AskedRows ==
  [at : {"idle", "allowed", "partly", "changed", "answered"}, call : ConsoleCalls \cup {NoneAsked},
   as : RoleNames, logged : BOOLEAN]
SessionRows == [live : BOOLEAN, role : RoleNames]

\* A call under way was allowed when it began; one that has changed rows is one that may.
AskedFits(x, f) ==
  /\ x.at = "idle" => x.call = NoneAsked
  /\ x.at # "idle" => x.call \in ConsoleCalls /\ Allowed(x.as, x.call.class)
  /\ x.at \in {"partly", "changed", "answered"} => x.call.changes
  /\ x.at = "answered" => x.logged \/ f > 0
ConsoleInv ==
  /\ session \in [Sessions -> SessionRows]
  /\ asked \in [Sessions -> AskedRows]
  /\ logins \in 0 .. MaxLogins /\ queryFaults \in 0 .. MaxQueryFaults
  /\ \A s \in Sessions : AskedFits(asked[s], queryFaults)

LEMMA IdleIs ==
  /\ Idle \in AskedRows /\ Idle.at = "idle" /\ Idle.call = NoneAsked
  /\ \A f : AskedFits(Idle, f)
<1>1. Idle.at = "idle" /\ Idle.call = NoneAsked
  BY DEF Idle
<1>2. Idle \in AskedRows
  BY DEF Idle, AskedRows, RoleNames
<1> QED BY <1>1, <1>2 DEF AskedFits

LEMMA ConsoleInitInv == ASSUME ConsoleConfigured, ConsoleInit PROVE ConsoleInv
<1>1. [live |-> FALSE, role |-> "viewer"] \in SessionRows
  BY DEF SessionRows, RoleNames
<1>2. session \in [Sessions -> SessionRows] /\ asked \in [Sessions -> AskedRows]
  BY <1>1, IdleIs DEF ConsoleInit
<1>3. logins \in 0 .. MaxLogins /\ queryFaults \in 0 .. MaxQueryFaults
  BY DEF ConsoleConfigured, ConsoleInit
<1> QED BY <1>2, <1>3, IdleIs DEF ConsoleInit, ConsoleInv

LEMMA FaultIs ==
  ASSUME ConsoleConfigured, ConsoleInv, Fault
  PROVE  queryFaults' \in 0 .. MaxQueryFaults /\ queryFaults' > 0
<1>1. queryFaults \in 0 .. MaxQueryFaults /\ MaxQueryFaults \in Nat
  BY DEF ConsoleConfigured, ConsoleInv
<1> HIDE DEF ConsoleInv
<1> QED BY <1>1 DEF Fault

\* The calls under way stay, one of them goes on to x.
LEMMA AskedMoves ==
  ASSUME ConsoleConfigured, ConsoleInv, NEW s \in Sessions, NEW x \in AskedRows,
         asked' = [asked EXCEPT ![s] = x], session' \in [Sessions -> SessionRows],
         logins' = logins, UNCHANGED queryFaults \/ Fault,
         AskedFits(x, queryFaults')
  PROVE  ConsoleInv'
<1>1. /\ asked \in [Sessions -> AskedRows]
      /\ \A t \in Sessions : AskedFits(asked[t], queryFaults)
      /\ queryFaults \in 0 .. MaxQueryFaults
  BY DEF ConsoleInv
<1>2. /\ asked' \in [Sessions -> AskedRows] /\ asked'[s] = x
      /\ \A t \in Sessions \ {s} : asked'[t] = asked[t]
  BY <1>1
<1>3. /\ queryFaults' \in 0 .. MaxQueryFaults
      /\ queryFaults > 0 => queryFaults' > 0
  BY <1>1, FaultIs
<1>4. \A t \in Sessions : AskedFits(asked[t], queryFaults')
  BY <1>1, <1>3 DEF AskedFits
<1>5. \A t \in Sessions : AskedFits(asked'[t], queryFaults')
  BY <1>2, <1>4
<1> QED BY <1>2, <1>3, <1>5 DEF ConsoleInv

LEMMA SignInStep ==
  ASSUME ConsoleConfigured, ConsoleInv, NEW s \in Sessions, NEW r \in RoleNames, SignIn(s, r)
  PROVE  ConsoleInv'
<1>1. [live |-> TRUE, role |-> r] \in SessionRows
  BY DEF SessionRows
<1>2. session' \in [Sessions -> SessionRows]
  BY <1>1 DEF ConsoleInv, SignIn
<1>3. logins' \in 0 .. MaxLogins
  <2>1. logins \in 0 .. MaxLogins /\ MaxLogins \in Nat /\ logins < MaxLogins /\ logins' = logins + 1
    BY DEF ConsoleConfigured, ConsoleInv, SignIn
  <2> HIDE DEF ConsoleInv
  <2> QED BY <2>1
<1> QED BY <1>2, <1>3 DEF ConsoleInv, SignIn

LEMMA EndsOne ==
  ASSUME ConsoleInv, NEW t \in Sessions
  PROVE  [session EXCEPT ![t].live = FALSE] \in [Sessions -> SessionRows]
<1>1. session \in [Sessions -> SessionRows]
  BY DEF ConsoleInv
<1>2. [session[t] EXCEPT !.live = FALSE] \in SessionRows
  BY <1>1 DEF SessionRows
<1> QED BY <1>1, <1>2

LEMMA LogoutStep ==
  ASSUME ConsoleConfigured, ConsoleInv, NEW s \in Sessions, Logout(s)
  PROVE  ConsoleInv'
<1>1. session' \in [Sessions -> SessionRows]
  BY EndsOne DEF Logout
<1> QED BY <1>1 DEF ConsoleInv, Logout

LEMMA RequireStep ==
  ASSUME ConsoleConfigured, ConsoleInv, NEW s \in Sessions, NEW c \in ConsoleCalls, Require(s, c)
  PROVE  ConsoleInv'
<1> DEFINE x == [at |-> "allowed", call |-> c, as |-> session[s].role, logged |-> FALSE]
<1>1. session[s].role \in RoleNames /\ session \in [Sessions -> SessionRows]
  BY DEF ConsoleInv, SessionRows
<1>2. x \in AskedRows /\ x.at = "allowed" /\ x.call = c /\ x.as = session[s].role
  BY <1>1 DEF AskedRows
<1>3. asked' = [asked EXCEPT ![s] = x] /\ UNCHANGED <<session, logins, queryFaults>>
  BY DEF Require
<1>4. Allowed(session[s].role, c.class)
  BY DEF Require
<1> HIDE DEF x
<1>5. AskedFits(x, queryFaults')
  BY <1>2, <1>4 DEF AskedFits
<1> QED BY <1>1, <1>2, <1>3, <1>5, AskedMoves

\* A call goes on to another stage, with an entry in the log or without.
LEMMA Stages ==
  ASSUME ConsoleInv, NEW s \in Sessions, asked[s].at # "idle", asked[s].call.changes,
         NEW a \in {"allowed", "partly", "changed", "answered"}, NEW l \in BOOLEAN, NEW f,
         a = "answered" => l \/ f > 0
  PROVE  \E x \in AskedRows :
           /\ x = [at |-> a, call |-> asked[s].call, as |-> asked[s].as, logged |-> l]
           /\ AskedFits(x, f)
<1> DEFINE x == [at |-> a, call |-> asked[s].call, as |-> asked[s].as, logged |-> l]
<1>1. asked[s] \in AskedRows /\ AskedFits(asked[s], queryFaults)
  BY DEF ConsoleInv
<1>2. x \in AskedRows /\ x.at = a /\ x.call = asked[s].call /\ x.as = asked[s].as /\ x.logged = l
  BY <1>1 DEF AskedRows
<1> HIDE DEF x
<1>3. AskedFits(x, f)
  BY <1>1, <1>2 DEF AskedFits
<1> QED BY <1>2, <1>3 DEF x

LEMMA Spelled ==
  ASSUME ConsoleInv, NEW s \in Sessions, NEW a
  PROVE  /\ [asked EXCEPT ![s].at = a] =
              [asked EXCEPT ![s] = [at |-> a, call |-> asked[s].call, as |-> asked[s].as,
                                    logged |-> asked[s].logged]]
         /\ [asked EXCEPT ![s].at = a, ![s].logged = TRUE] =
              [asked EXCEPT ![s] = [at |-> a, call |-> asked[s].call, as |-> asked[s].as,
                                    logged |-> TRUE]]
         /\ [asked[s] EXCEPT !.at = a] =
              [at |-> a, call |-> asked[s].call, as |-> asked[s].as, logged |-> asked[s].logged]
<1>1. asked \in [Sessions -> AskedRows] /\ asked[s] \in AskedRows
  BY DEF ConsoleInv
<1>2. [asked[s] EXCEPT !.at = a] =
        [at |-> a, call |-> asked[s].call, as |-> asked[s].as, logged |-> asked[s].logged]
  BY <1>1 DEF AskedRows
<1>3. [asked[s] EXCEPT !.at = a, !.logged = TRUE] =
        [at |-> a, call |-> asked[s].call, as |-> asked[s].as, logged |-> TRUE]
  <2> DEFINE y == [asked[s] EXCEPT !.at = a]
             z == [at |-> a, call |-> asked[s].call, as |-> asked[s].as, logged |-> asked[s].logged]
  <2>1. [asked[s] EXCEPT !.at = a, !.logged = TRUE] = [y EXCEPT !.logged = TRUE]
    BY <1>1 DEF AskedRows
  <2>2. \A l : [z EXCEPT !.logged = l] =
                [at |-> a, call |-> asked[s].call, as |-> asked[s].as, logged |-> l]
    OBVIOUS
  <2>3. y = z
    BY <1>2
  <2> HIDE DEF y, z
  <2> QED BY <2>1, <2>2, <2>3
<1>4. [asked EXCEPT ![s].at = a] = [asked EXCEPT ![s] = [asked[s] EXCEPT !.at = a]]
  BY <1>1
<1>5. [asked EXCEPT ![s].at = a, ![s].logged = TRUE] =
        [asked EXCEPT ![s] = [asked[s] EXCEPT !.at = a, !.logged = TRUE]]
  BY <1>1
<1> QED BY <1>2, <1>3, <1>4, <1>5

LEMMA ChangeStep ==
  ASSUME ConsoleConfigured, ConsoleInv, NEW s \in Sessions, Change(s)
  PROVE  ConsoleInv'
<1>1. session' \in [Sessions -> SessionRows]
  <2>1. CASE UNCHANGED session
    BY <2>1 DEF ConsoleInv
  <2>2. CASE \E t \in Sessions : session' = [session EXCEPT ![t].live = FALSE]
    BY <2>2, EndsOne
  <2> QED BY <2>1, <2>2 DEF Change
<1>2. /\ asked[s].at # "idle" /\ asked[s].logged \in BOOLEAN
      /\ asked[s].call \in ConsoleCalls /\ UNCHANGED <<logins, queryFaults>>
  BY DEF Change, ConsoleInv, AskedFits, AskedRows
<1>3. CASE asked' = [asked EXCEPT ![s] = Idle]
  BY <1>1, <1>2, <1>3, IdleIs, AskedMoves
<1>4. ASSUME NEW a \in {"partly", "changed"}, asked[s].call.changes, asked' = [asked EXCEPT ![s].at = a]
      PROVE  ConsoleInv'
  <2>1. PICK x \in AskedRows :
          /\ x = [at |-> a, call |-> asked[s].call, as |-> asked[s].as, logged |-> asked[s].logged]
          /\ AskedFits(x, queryFaults)
    BY <1>2, <1>4, Stages
  <2>2. asked' = [asked EXCEPT ![s] = x]
    BY <1>4, <2>1, Spelled
  <2> QED BY <1>1, <1>2, <2>1, <2>2, AskedMoves
<1>5. asked[s].call.name \in InSteps => asked[s].call.changes
  BY <1>2, CallsClassed DEF Classed
<1> QED BY <1>3, <1>4, <1>5 DEF Change

LEMMA FailStep ==
  ASSUME ConsoleConfigured, ConsoleInv, NEW s \in Sessions, Fail(s)
  PROVE  ConsoleInv'
<1>1. /\ Fault /\ UNCHANGED <<session, logins>> /\ asked[s].at \in {"allowed", "partly"}
      /\ asked' = [asked EXCEPT ![s] = IF asked[s].at = "partly" THEN [asked[s] EXCEPT !.at = "answered"]
                                       ELSE Idle]
  <2>1. asked \in [Sessions -> AskedRows]
    BY DEF ConsoleInv
  <2> QED BY <2>1 DEF Fail
<1>2. session' \in [Sessions -> SessionRows] /\ queryFaults' > 0
  BY <1>1, FaultIs DEF ConsoleInv
<1>3. CASE asked[s].at = "partly"
  <2>1. /\ asked[s].call.changes /\ asked[s].logged \in BOOLEAN /\ asked[s].at # "idle"
    BY <1>3 DEF ConsoleInv, AskedFits, AskedRows
  <2>2. PICK x \in AskedRows :
          /\ x = [at |-> "answered", call |-> asked[s].call, as |-> asked[s].as, logged |-> asked[s].logged]
          /\ AskedFits(x, queryFaults')
    BY <1>2, <2>1, Stages
  <2>3. asked' = [asked EXCEPT ![s] = x]
    BY <1>1, <1>3, <2>2, Spelled
  <2> QED BY <1>1, <1>2, <2>2, <2>3, AskedMoves
<1>4. CASE asked[s].at # "partly"
  BY <1>1, <1>2, <1>4, IdleIs, AskedMoves
<1> QED BY <1>3, <1>4

LEMMA AuditStep ==
  ASSUME ConsoleConfigured, ConsoleInv, NEW s \in Sessions, Audit(s)
  PROVE  ConsoleInv'
<1>1. /\ asked[s].at = "changed" /\ UNCHANGED <<session, logins>>
      /\ \E a \in {"answered", "allowed"} :
           \/ asked' = [asked EXCEPT ![s].at = a, ![s].logged = TRUE] /\ UNCHANGED queryFaults
           \/ Fault /\ asked' = [asked EXCEPT ![s].at = a]
  BY DEF Audit
<1>2. session' \in [Sessions -> SessionRows] /\ asked[s].call.changes /\ asked[s].logged \in BOOLEAN
  BY <1>1 DEF ConsoleInv, AskedFits, AskedRows
<1>3. ASSUME NEW a \in {"answered", "allowed"},
             asked' = [asked EXCEPT ![s].at = a, ![s].logged = TRUE], UNCHANGED queryFaults
      PROVE  ConsoleInv'
  <2>1. PICK x \in AskedRows :
          /\ x = [at |-> a, call |-> asked[s].call, as |-> asked[s].as, logged |-> TRUE]
          /\ AskedFits(x, queryFaults')
    BY <1>1, <1>2, Stages
  <2>2. asked' = [asked EXCEPT ![s] = x]
    BY <1>3, <2>1, Spelled
  <2> QED BY <1>1, <1>2, <1>3, <2>1, <2>2, AskedMoves
<1>4. ASSUME NEW a \in {"answered", "allowed"}, Fault, asked' = [asked EXCEPT ![s].at = a]
      PROVE  ConsoleInv'
  <2>0. queryFaults' > 0
    BY <1>4, FaultIs
  <2>1. PICK x \in AskedRows :
          /\ x = [at |-> a, call |-> asked[s].call, as |-> asked[s].as, logged |-> asked[s].logged]
          /\ AskedFits(x, queryFaults')
    BY <1>1, <1>2, <2>0, Stages
  <2>2. asked' = [asked EXCEPT ![s] = x]
    BY <1>4, <2>1, Spelled
  <2> QED BY <1>1, <1>2, <1>4, <2>1, <2>2, AskedMoves
<1> QED BY <1>1, <1>3, <1>4

LEMMA AnswerStep ==
  ASSUME ConsoleConfigured, ConsoleInv, NEW s \in Sessions, Answer(s)
  PROVE  ConsoleInv'
<1>1. session' \in [Sessions -> SessionRows]
  BY DEF ConsoleInv, Answer
<1> QED BY <1>1, IdleIs, AskedMoves DEF Answer

LEMMA ConsoleStep == ASSUME ConsoleConfigured, ConsoleInv, [ConsoleNext]_consoleVars PROVE ConsoleInv'
<1>1. CASE UNCHANGED consoleVars
  BY <1>1 DEF consoleVars, ConsoleInv
<1>2. CASE ConsoleNext
  BY <1>2, SignInStep, LogoutStep, RequireStep, ChangeStep, FailStep, AuditStep, AnswerStep
  DEF ConsoleNext, RoleNames
<1> QED BY <1>1, <1>2

\* Who may change what, for any sessions, logins and failing queries: no viewer changes
\* rows, nobody but an administrator what is reserved to them, and an answered change is
\* in the audit log unless a query failed (require, decide, ActionClass::min_role,
\* append_audit).
THEOREM RolesAlwaysKept == ASSUME ConsoleConfigured PROVE ConsoleSpec => []RolesKept
<1>1. ConsoleInit => ConsoleInv
  BY ConsoleInitInv
<1>2. ConsoleInv /\ [ConsoleNext]_consoleVars => ConsoleInv'
  BY ConsoleStep
<1>3. ConsoleInv => RolesKept
  <2> SUFFICES ASSUME ConsoleInv PROVE RolesKept
    OBVIOUS
  <2>1. ConsoleTypeOK
    <3>1. \A c \in ConsoleCalls : c # NoneAsked
      BY CallsClassed DEF Classed, NoneAsked
    <3> QED BY <3>1 DEF ConsoleInv, ConsoleTypeOK, AskedFits
  <2>2. OnlyAllowed
    <3> SUFFICES ASSUME NEW s \in Sessions, asked[s].at \in {"partly", "changed", "answered"}
                 PROVE  /\ asked[s].as # "viewer"
                        /\ asked[s].call.name \in Reserved => asked[s].as = "admin"
      BY DEF OnlyAllowed
    <3>1. /\ asked[s].call \in ConsoleCalls /\ asked[s].call.changes /\ asked[s].as \in RoleNames
          /\ Allowed(asked[s].as, asked[s].call.class)
      BY DEF ConsoleInv, AskedFits, AskedRows
    <3>2. Classed(asked[s].call)
      BY <3>1, CallsClassed
    <3> QED BY <3>1, <3>2, AllowedIs DEF Classed
  <2>3. Accountable
    BY DEF ConsoleInv, AskedFits, Accountable
  <2> QED BY <2>1, <2>2, <2>3 DEF RolesKept
<1> QED BY <1>1, <1>2, <1>3, PTL DEF ConsoleSpec

----------------------------------------------------------------------------
(* Proofs about LdapTree, for any requests in flight, names and depth.         *)
(*                                                                             *)
(* That a removal is on record holds however requests overlap, and needs only   *)
(* what a request has in its hands at each stage.  The tree is whole between    *)
(* requests because the one in flight leaves it whole but for what its stage   *)
(* still has to write: which has_children flags may be wrong (Stale), which DN  *)
(* groups may name before it exists (Coming), whose identity outlives its       *)
(* entry (Leaving), and what the request's reading still says (Ahead).         *)

\* There is room for the base.
TreeConfigured == Depth \in Nat \ {0}

Named == DNs \ {Base}
Todos == UNION {[G -> SUBSET DNs] : G \in SUBSET {g \in DNs : IsGroup(g)}}

AddOps == [at : {"create", "flag", "provision"}, dn : Named]
DeleteOps ==
  {o \in [at : {"groups", "tomb", "count"}, dn : Named, to : Named, web : BOOLEAN, todo : Todos] :
     o.to = o.dn}
MoveOps ==
  {o \in [at : {"groups", "tomb", "count"}, dn : Named, to : Named, web : {FALSE},
          members : SUBSET DNs, todo : Todos] :
     o.to # o.dn /\ (o.members # {} => IsGroup(o.to))}
CountOps ==
  {o \in [at : {"recount"}, dn : Named, to : Named, web : BOOLEAN, kids : BOOLEAN] :
     o.to # o.dn => ~o.web}
LastOps == [at : {"flag-new", "teardown"}, dn : Named]
MemberOps == [at : {"members"}, dn : {g \in DNs : IsGroup(g)}, members : SUBSET DNs]
TreeOps ==
  {NoOp} \cup AddOps \cup DeleteOps \cup MoveOps \cup CountOps \cup LastOps \cup MemberOps

TreeShapes == TreeTypeOK /\ op \in [TreeRequests -> TreeOps] /\ clean \in BOOLEAN

\* The tree of rows E, the identities I and the strays S, as request o leaves them.
Below(E, d) == {e \in DOMAIN E : Len(e) > 1 /\ Tail(e) = d}
After(o) == o.at \in {"tomb", "count", "recount"}
Renames(o) == o.to # o.dn
Stale(o) ==
  CASE o.at \in {"flag", "flag-new"} -> {Tail(o.dn)}
    [] After(o) -> IF o.at # "recount" /\ Renames(o) /\ Tail(o.to) = Tail(o.dn)
                     THEN {} ELSE {Tail(o.dn), Tail(o.to)}
    [] OTHER -> {}
Coming(o) == IF o.at = "groups" THEN {o.to} ELSE {}
Leaving(o) ==
  CASE o.at = "teardown" -> {Head(o.dn)}
    [] After(o) -> IF o.web THEN {Head(o.dn)} ELSE {}
    [] OTHER -> {}
Ahead(o, E) ==
  /\ o.at = "create" => Tail(o.dn) \in DOMAIN E
  /\ o.at \in {"flag", "provision", "flag-new", "groups"} => o.dn \in DOMAIN E
  /\ o.at = "groups" =>
       /\ Below(E, o.dn) = {}
       /\ \A g \in DOMAIN E : o.dn \in E[g].members => g \in DOMAIN o.todo
       /\ \A g \in DOMAIN o.todo : o.todo[g] \subseteq ((DOMAIN E \cup {o.to}) \ {o.dn})
       /\ Renames(o) =>
            /\ o.to \notin DOMAIN E
            /\ Tail(o.to) \in DOMAIN E \ {o.dn}
            /\ o.members \subseteq DOMAIN E \ {o.dn}
  /\ After(o) => (Renames(o) => o.to \in DOMAIN E)
  /\ o.at = "recount" => (o.kids <=> Below(E, Tail(o.dn)) # {})
  /\ o.at = "members" => o.members \subseteq DOMAIN E
RowsRight(o, E) ==
  \A d \in DOMAIN E :
    /\ d # Base => Tail(d) \in DOMAIN E
    /\ d \notin Stale(o) => (E[d].kids <=> Below(E, d) # {})
    /\ E[d].members \subseteq DOMAIN E \cup Coming(o)
NamesRight(o, E, I, S) == \A n \in I \ S : n \in Leaving(o) \/ \E d \in DOMAIN E : Head(d) = n
WholeBut(o, E, I, S) == RowsRight(o, E) /\ NamesRight(o, E, I, S) /\ Ahead(o, E)

CleanInv ==
  clean =>
    /\ Quiet => WholeBut(NoOp, entries, idents, stray)
    /\ \A r \in TreeRequests :
         op[r].at # "idle" => Alone(r) /\ WholeBut(op[r], entries, idents, stray)

LEMMA DNFacts ==
  ASSUME TreeConfigured
  PROVE  /\ Base \in DNs
         /\ Len(Base) = 1
         /\ \A d \in Named : d \in DNs /\ Len(d) > 1 /\ Head(d) \in Rdns /\ Tail(d) # d
         /\ \A d \in DNs : Len(d) > 1 <=> d # Base
<1> DEFINE Of(n) == {d \in [1 .. n -> Rdns \cup {"base"}] : \A i \in 1 .. n : d[i] = "base" <=> i = n}
<1>1. Base \in Of(1) /\ Len(Base) = 1
  BY DEF Base
<1>2. Base \in DNs
  BY <1>1 DEF DNs, TreeConfigured
<1>3. ASSUME NEW d \in DNs
      PROVE  /\ d # Base => Len(d) > 1 /\ Head(d) \in Rdns /\ Tail(d) # d
             /\ Len(d) > 1 => d # Base
  <2>1. PICK n \in 1 .. Depth : d \in Of(n)
    BY DEF DNs
  <2>2. n \in Nat /\ n >= 1
    BY <2>1 DEF TreeConfigured
  <2>3. d \in Seq(Rdns \cup {"base"}) /\ Len(d) = n
    BY <2>1, <2>2
  <2>4. ASSUME d # Base PROVE Len(d) > 1
    <3>1. n # 1
      <4> SUFFICES ASSUME n = 1 PROVE FALSE
        OBVIOUS
      <4>1. d[1] = "base"
        BY <2>1
      <4>2. d = Base
        BY <4>1, <2>3 DEF Base
      <4> QED BY <4>2, <2>4
    <3> QED BY <3>1, <2>2, <2>3
  <2>5. ASSUME Len(d) > 1 PROVE Head(d) \in Rdns /\ Tail(d) # d
    <3>1. d[1] # "base" /\ d[1] \in Rdns \cup {"base"}
      BY <2>1, <2>2, <2>3, <2>5
    <3>2. Head(d) = d[1]
      BY <2>3, <2>5
    <3>3. Len(Tail(d)) = Len(d) - 1
      BY <2>3, <2>5
    <3> QED BY <3>1, <3>2, <3>3, <2>2, <2>3
  <2> QED BY <2>4, <2>5, <1>1
<1> QED BY <1>1, <1>2, <1>3 DEF Named

\* What a request in flight has in its hands.
LEMMA TreeOpFacts ==
  ASSUME NEW o \in TreeOps
  PROVE  /\ o.at \in {"idle", "create", "flag", "provision", "groups", "tomb", "count", "recount",
                      "flag-new", "teardown", "members"}
         /\ o.at = "idle" => o = NoOp
         /\ o.at \in {"create", "flag", "provision"} => o \in AddOps
         /\ o.at \in {"groups", "tomb", "count"} => (o.to = o.dn => o \in DeleteOps)
         /\ o.at \in {"groups", "tomb", "count"} => (o.to # o.dn => o \in MoveOps)
         /\ o.at = "recount" => o \in CountOps
         /\ o.at \in {"flag-new", "teardown"} => o \in LastOps
         /\ o.at = "members" => o \in MemberOps
<1>1. CASE o = NoOp
  BY <1>1 DEF NoOp
<1>2. CASE o \in AddOps
  BY <1>2 DEF AddOps
<1>3. CASE o \in DeleteOps
  BY <1>3 DEF DeleteOps
<1>4. CASE o \in MoveOps
  BY <1>4 DEF MoveOps
<1>5. CASE o \in CountOps
  BY <1>5 DEF CountOps
<1>6. CASE o \in LastOps
  BY <1>6 DEF LastOps
<1>7. CASE o \in MemberOps
  BY <1>7 DEF MemberOps
<1> QED BY <1>1, <1>2, <1>3, <1>4, <1>5, <1>6, <1>7 DEF TreeOps

\* The rows of a tree.
Rows(E) ==
  /\ DOMAIN E \subseteq DNs /\ Base \in DOMAIN E
  /\ \A d \in DOMAIN E : E[d] \in [kids : BOOLEAN, members : SUBSET DNs]
  /\ \A d \in DOMAIN E : E[d].members # {} => IsGroup(d)

LEMMA RowKinds == TreeTypeOK <=> Rows(entries) /\ tombs \subseteq DNs /\ idents \subseteq Rdns
BY DEF TreeTypeOK, Rows, Live

\* What SetKids and SetMembers leave.
LEMMA KidsWritten ==
  ASSUME Rows(entries), NEW d, NEW b \in BOOLEAN
  PROVE  /\ Rows(SetKids(d, b)) /\ DOMAIN SetKids(d, b) = DOMAIN entries
         /\ \A e \in DOMAIN entries :
              /\ SetKids(d, b)[e].members = entries[e].members
              /\ e # d => SetKids(d, b)[e].kids = entries[e].kids
         /\ d \in DOMAIN entries => SetKids(d, b)[d].kids = b
BY DEF Rows, SetKids, Live

LEMMA MembersWritten ==
  ASSUME Rows(entries), NEW d, NEW M \in SUBSET DNs, M # {} => IsGroup(d)
  PROVE  /\ Rows(SetMembers(d, M)) /\ DOMAIN SetMembers(d, M) = DOMAIN entries
         /\ \A e \in DOMAIN entries :
              /\ SetMembers(d, M)[e].kids = entries[e].kids
              /\ e # d => SetMembers(d, M)[e].members = entries[e].members
         /\ d \in DOMAIN entries => SetMembers(d, M)[d].members = M
BY DEF Rows, SetMembers, Live

----------------------------------------------------------------------------
\* What each step does to the rows and to the request, in the terms of the proof.

\* Request r goes on as o.
LEMMA Stepped ==
  ASSUME TreeShapes, NEW r \in TreeRequests, NEW o \in TreeOps, Goto(r, o)
  PROVE  /\ op' \in [TreeRequests -> TreeOps] /\ op'[r] = o
         /\ \A q \in TreeRequests \ {r} : op'[q] = op[q]
BY DEF TreeShapes, Goto

LEMMA TodoOf ==
  ASSUME NEW t \in Todos
  PROVE  /\ \A g \in DOMAIN t : g \in DNs /\ IsGroup(g) /\ t[g] \in SUBSET DNs
         /\ \A g : [h \in DOMAIN t \ {g} |-> t[h]] \in Todos
<1>1. PICK G \in SUBSET {g \in DNs : IsGroup(g)} : t \in [G -> SUBSET DNs]
  BY DEF Todos
<1>2. ASSUME NEW g PROVE [h \in DOMAIN t \ {g} |-> t[h]] \in Todos
  <2>1. [h \in DOMAIN t \ {g} |-> t[h]] \in [G \ {g} -> SUBSET DNs]
    BY <1>1
  <2>2. G \ {g} \in SUBSET {x \in DNs : IsGroup(x)}
    OBVIOUS
  <2> QED BY <2>1, <2>2 DEF Todos
<1> QED BY <1>1, <1>2

\* What holds of every reachable state.
TreeInv == TreeShapes /\ RemovalOnRecord /\ CleanInv

\* d is on record, or request r goes on as o to put it there, or another one does.
OnRecord(d, T, r, o) ==
  \/ d \in T
  \/ o.at = "tomb" /\ o.dn = d
  \/ \E q \in TreeRequests \ {r} : op[q].at = "tomb" /\ op[q].dn = d

LEMMA StillOnRecord ==
  ASSUME TreeInv, NEW r \in TreeRequests, op[r].at # "tomb", NEW o,
         NEW d \in was, d \notin DOMAIN entries
  PROVE  OnRecord(d, tombs \cup untombed, r, o)
BY DEF TreeInv, RemovalOnRecord, OnRecord, Live

LEMMA StepCloses ==
  ASSUME TreeInv, NEW r \in TreeRequests, NEW o \in TreeOps, Goto(r, o),
         Rows(entries'), tombs' \subseteq DNs, idents' \subseteq Rdns, clean' \in BOOLEAN,
         clean' => clean /\ Alone(r) /\ WholeBut(o, entries', idents', stray'),
         \A d \in was' : d \in DOMAIN entries' \/ OnRecord(d, tombs' \cup untombed', r, o)
  PROVE  TreeInv'
<1>1. /\ op' \in [TreeRequests -> TreeOps] /\ op'[r] = o
      /\ \A q \in TreeRequests \ {r} : op'[q] = op[q]
  BY Stepped DEF TreeInv
<1>2. TreeShapes'
  BY <1>1 DEF TreeShapes, TreeTypeOK, Rows, Live
<1>3. RemovalOnRecord'
  BY <1>1 DEF RemovalOnRecord, OnRecord, Live
<1>4. CleanInv'
  <2> SUFFICES ASSUME clean'
               PROVE  /\ Quiet' => WholeBut(NoOp, entries', idents', stray')
                      /\ \A q \in TreeRequests : op'[q].at # "idle" =>
                           Alone(q)' /\ WholeBut(op'[q], entries', idents', stray')
    BY DEF CleanInv
  <2>1. Alone(r) /\ WholeBut(o, entries', idents', stray')
    OBVIOUS
  <2>2. \A q \in TreeRequests \ {r} : op'[q].at = "idle"
    BY <1>1, <2>1 DEF Alone
  <2>3. Alone(r)'
    BY <2>2 DEF Alone
  <2>4. Quiet' => o = NoOp
    BY <1>1, TreeOpFacts DEF Quiet
  <2> QED BY <1>1, <2>1, <2>2, <2>3, <2>4
<1> QED BY <1>2, <1>3, <1>4 DEF TreeInv

LEMMA InFlight ==
  ASSUME TreeInv, NEW r \in TreeRequests, op[r].at # "idle", clean
  PROVE  Alone(r) /\ WholeBut(op[r], entries, idents, stray)
BY DEF TreeInv, CleanInv

LEMMA Undisturbed ==
  ASSUME TreeInv, NEW r \in TreeRequests, op[r].at = "idle", clean, Alone(r)
  PROVE  WholeBut(NoOp, entries, idents, stray)
BY DEF TreeInv, CleanInv, Quiet, Alone

LEMMA InvKinds ==
  ASSUME TreeInv, NEW r \in TreeRequests
  PROVE  /\ Rows(entries) /\ tombs \subseteq DNs /\ idents \subseteq Rdns /\ clean \in BOOLEAN
         /\ op[r] \in TreeOps
BY RowKinds DEF TreeInv, TreeShapes

----------------------------------------------------------------------------
\* A request begins on what it has read.
LEMMA BeginsKeeps ==
  ASSUME TreeInv, NEW r \in TreeRequests, NEW o \in TreeOps, Begins(r, o),
         o.at # "tomb", clean' \in BOOLEAN, clean' => clean /\ Alone(r),
         clean' /\ WholeBut(NoOp, entries, idents, stray) => WholeBut(o, entries, idents, stray)
  PROVE  TreeInv'
<1>1. /\ op[r].at = "idle" /\ Goto(r, o)
      /\ UNCHANGED <<entries, tombs, idents, was, untombed, stray>>
  BY DEF Begins
<1>2. \A d \in was' : d \in DOMAIN entries' \/ OnRecord(d, tombs' \cup untombed', r, o)
  BY <1>1, StillOnRecord
<1>3. clean' => WholeBut(o, entries', idents', stray')
  BY <1>1, Undisturbed
<1> QED BY <1>1, <1>2, <1>3, InvKinds, StepCloses

LEMMA AddKeeps ==
  ASSUME TreeConfigured, TreeInv, NEW r \in TreeRequests, NEW d \in DNs, Add(r, d)
  PROVE  TreeInv'
<1> DEFINE o == [at |-> "create", dn |-> d]
<1>1. o \in TreeOps
  BY DNFacts DEF Add, TreeOps, AddOps, Named
<1>2. Begins(r, o) /\ clean' = (clean /\ Alone(r)) /\ Tail(d) \in DOMAIN entries
  BY DEF Add, MayInsert, Live
<1>3. clean' \in BOOLEAN
  BY <1>2, InvKinds
<1>4. ASSUME WholeBut(NoOp, entries, idents, stray) PROVE WholeBut(o, entries, idents, stray)
  BY <1>2, <1>4 DEF WholeBut, RowsRight, NamesRight, Ahead, Stale, Coming, Leaving, After, NoOp
<1> QED BY <1>1, <1>2, <1>3, <1>4, BeginsKeeps

LEMMA DeleteBeginKeeps ==
  ASSUME TreeConfigured, TreeInv, NEW r \in TreeRequests, NEW d \in Live, NEW web \in BOOLEAN,
         Delete(r, d, web)
  PROVE  TreeInv'
<1> DEFINE Strip(M) == M \ {d}
           t == Rewritten(d, Strip)
           o == [at |-> "groups", dn |-> d, to |-> d, web |-> web, todo |-> t]
<1>1. d \in Named /\ d \in DOMAIN entries /\ ~entries[d].kids
  BY InvKinds DEF Delete, Live, Rows, Named
<1>2. t \in Todos
  <2> DEFINE G == {e \in DOMAIN entries : IsGroup(e) /\ d \in entries[e].members}
  <2>1. t \in [G -> SUBSET DNs]
    BY InvKinds DEF Rewritten, Rows, Live
  <2>2. G \in SUBSET {g \in DNs : IsGroup(g)}
    BY InvKinds DEF Rows
  <2> QED BY <2>1, <2>2 DEF Todos
<1>3. o \in TreeOps
  BY <1>1, <1>2 DEF TreeOps, DeleteOps
<1>4. Begins(r, o) /\ clean' = (clean /\ Alone(r))
  BY DEF Delete
<1>5. clean' \in BOOLEAN
  BY <1>4, InvKinds
<1>6. ASSUME WholeBut(NoOp, entries, idents, stray) PROVE WholeBut(o, entries, idents, stray)
  <2>1. \A x \in DOMAIN entries :
          /\ x # Base => Tail(x) \in DOMAIN entries
          /\ entries[x].kids <=> Below(entries, x) # {}
          /\ entries[x].members \subseteq DOMAIN entries
    BY <1>6 DEF WholeBut, RowsRight, Stale, Coming, After, NoOp
  <2>2. RowsRight(o, entries)
    BY <2>1 DEF RowsRight, Stale, Coming, After
  <2>3. NamesRight(o, entries, idents, stray)
    BY <1>6 DEF WholeBut, NamesRight, Leaving, After, NoOp
  <2>4. DOMAIN t = {e \in DOMAIN entries : IsGroup(e) /\ d \in entries[e].members}
    BY DEF Rewritten, Live
  <2>5. \A g \in DOMAIN t : t[g] = entries[g].members \ {d}
    BY DEF Rewritten, Live
  <2>6. \A g \in DOMAIN entries : d \in entries[g].members => g \in DOMAIN t
    BY <2>4, InvKinds DEF Rows
  <2>7. \A g \in DOMAIN t : t[g] \subseteq ((DOMAIN entries \cup {d}) \ {d})
    BY <2>1, <2>4, <2>5
  <2>8. Ahead(o, entries)
    BY <1>1, <2>1, <2>6, <2>7 DEF Ahead, After, Renames
  <2> QED BY <2>2, <2>3, <2>8 DEF WholeBut
<1> QED BY <1>3, <1>4, <1>5, <1>6, BeginsKeeps

LEMMA RenameKeeps ==
  ASSUME TreeConfigured, TreeInv, NEW r \in TreeRequests, NEW d \in Live, NEW e \in DNs,
         Rename(r, d, e)
  PROVE  TreeInv'
<1> DEFINE Swap(M) == (M \ {d}) \cup {e}
           t == Rewritten(d, Swap)
           o == [at |-> "groups", dn |-> d, to |-> e, web |-> FALSE,
                 members |-> entries[d].members, todo |-> t]
<1>1. /\ d \in Named /\ e \in Named /\ e # d /\ d \in DOMAIN entries /\ e \notin DOMAIN entries
      /\ ~entries[d].kids /\ (IsGroup(d) <=> IsGroup(e))
      /\ Tail(e) = Tail(d) \/ Tail(e) \in DOMAIN entries
  BY InvKinds, DNFacts DEF Rename, MayMove, Live, Rows, Named
<1>2. t \in Todos
  <2> DEFINE G == {x \in DOMAIN entries : IsGroup(x) /\ d \in entries[x].members}
  <2>1. t \in [G -> SUBSET DNs]
    BY InvKinds DEF Rewritten, Rows, Live
  <2>2. G \in SUBSET {g \in DNs : IsGroup(g)}
    BY InvKinds DEF Rows
  <2> QED BY <2>1, <2>2 DEF Todos
<1>3. o \in TreeOps
  <2>1. entries[d].members \in SUBSET DNs /\ (entries[d].members # {} => IsGroup(e))
    BY <1>1, InvKinds DEF Rows
  <2> QED BY <1>1, <1>2, <2>1 DEF TreeOps, MoveOps
<1>4. Begins(r, o) /\ clean' = (clean /\ Alone(r) /\ Tail(e) # d /\ d \notin entries[d].members)
  BY DEF Rename
<1>5. clean' \in BOOLEAN
  BY <1>4, InvKinds
<1>6. ASSUME clean', WholeBut(NoOp, entries, idents, stray) PROVE WholeBut(o, entries, idents, stray)
  <2>1. \A x \in DOMAIN entries :
          /\ x # Base => Tail(x) \in DOMAIN entries
          /\ entries[x].kids <=> Below(entries, x) # {}
          /\ entries[x].members \subseteq DOMAIN entries
    BY <1>6 DEF WholeBut, RowsRight, Stale, Coming, After, NoOp
  <2>2. RowsRight(o, entries)
    BY <2>1 DEF RowsRight, Stale, Coming, After
  <2>3. NamesRight(o, entries, idents, stray)
    BY <1>6 DEF WholeBut, NamesRight, Leaving, After, NoOp
  <2>4. DOMAIN t = {x \in DOMAIN entries : IsGroup(x) /\ d \in entries[x].members}
    BY DEF Rewritten, Live
  <2>5. \A g \in DOMAIN t : t[g] = (entries[g].members \ {d}) \cup {e}
    BY DEF Rewritten, Live
  <2>6. \A g \in DOMAIN entries : d \in entries[g].members => g \in DOMAIN t
    BY <2>4, InvKinds DEF Rows
  <2>7. \A g \in DOMAIN t : t[g] \subseteq ((DOMAIN entries \cup {e}) \ {d})
    BY <1>1, <2>1, <2>4, <2>5
  <2>8. Tail(e) \in DOMAIN entries \ {d}
    BY <1>1, <1>4, <1>6, <2>1 DEF Named
  <2>9. entries[d].members \subseteq DOMAIN entries \ {d}
    BY <1>1, <1>4, <1>6, <2>1
  <2>10. Ahead(o, entries)
    BY <1>1, <2>1, <2>6, <2>7, <2>8, <2>9 DEF Ahead, After, Renames
  <2> QED BY <2>2, <2>3, <2>10 DEF WholeBut
<1> QED BY <1>3, <1>4, <1>5, <1>6, BeginsKeeps

LEMMA MembersBegin ==
  ASSUME TreeConfigured, TreeInv, NEW r \in TreeRequests, NEW g \in DOMAIN entries, IsGroup(g),
         NEW M, M \subseteq DOMAIN entries \cup entries[g].members,
         Begins(r, [at |-> "members", dn |-> g, members |-> M]), clean' = (clean /\ Alone(r))
  PROVE  TreeInv'
<1> DEFINE o == [at |-> "members", dn |-> g, members |-> M]
<1>1. o \in TreeOps
  BY InvKinds DEF Rows, TreeOps, MemberOps
<1>2. clean' \in BOOLEAN
  BY InvKinds
<1>3. ASSUME WholeBut(NoOp, entries, idents, stray) PROVE WholeBut(o, entries, idents, stray)
  <2>1. entries[g].members \subseteq DOMAIN entries
    BY <1>3 DEF WholeBut, RowsRight, Stale, Coming, After, NoOp
  <2>2. M \subseteq DOMAIN entries
    BY <2>1
  <2> QED
    BY <1>3, <2>2 DEF WholeBut, RowsRight, NamesRight, Ahead, Stale, Coming, Leaving, After, NoOp
<1> QED BY <1>1, <1>2, <1>3, BeginsKeeps

LEMMA MembershipKeeps ==
  ASSUME TreeConfigured, TreeInv, NEW r \in TreeRequests, NEW g \in Live, NEW d,
         (AddMember(r, g, d) /\ d \in Live) \/ RemoveMember(r, g, d)
  PROVE  TreeInv'
<1>1. CASE AddMember(r, g, d) /\ d \in Live
  <2>1. entries[g].members \cup {d} \subseteq DOMAIN entries \cup entries[g].members
    BY <1>1 DEF Live
  <2> QED BY <1>1, <2>1, MembersBegin DEF AddMember, Live
<1>2. CASE RemoveMember(r, g, d)
  <2>1. entries[g].members \ {d} \subseteq DOMAIN entries \cup entries[g].members
    OBVIOUS
  <2> QED BY <1>2, <2>1, MembersBegin DEF RemoveMember, Live
<1> QED BY <1>1, <1>2

----------------------------------------------------------------------------
\* A request goes on.

\* The rows as a request that is alone finds them.
LEMMA RowsRead ==
  ASSUME TreeInv, NEW r \in TreeRequests, op[r].at # "idle", clean
  PROVE  /\ Alone(r)
         /\ \A d \in DOMAIN entries :
              /\ d # Base => Tail(d) \in DOMAIN entries
              /\ d \notin Stale(op[r]) => (entries[d].kids <=> Below(entries, d) # {})
              /\ entries[d].members \subseteq DOMAIN entries \cup Coming(op[r])
         /\ \A n \in idents \ stray :
              n \in Leaving(op[r]) \/ \E d \in DOMAIN entries : Head(d) = n
         /\ Ahead(op[r], entries)
BY InFlight DEF WholeBut, RowsRight, NamesRight

LEMMA CreateKeeps ==
  ASSUME TreeConfigured, TreeInv, NEW r \in TreeRequests, Create(r)
  PROVE  TreeInv'
<1>0. /\ op[r].at = "create" /\ op[r] \in AddOps /\ op[r].dn \in Named
      /\ UNCHANGED <<tombs, idents, clean, untombed, stray>>
  BY InvKinds, TreeOpFacts DEF Create, AddOps
<1>1. CASE op[r].dn \in Live
  <2>1. Goto(r, NoOp) /\ UNCHANGED <<entries, was>> /\ NoOp \in TreeOps
    BY <1>1 DEF Create, TreeOps
  <2>2. clean => Alone(r) /\ WholeBut(NoOp, entries, idents, stray)
    BY <1>0, RowsRead DEF WholeBut, RowsRight, NamesRight, Ahead, Stale, Coming, Leaving, After, NoOp
  <2>3. \A d \in was' : d \in DOMAIN entries' \/ OnRecord(d, tombs' \cup untombed', r, NoOp)
    BY <1>0, <2>1, StillOnRecord
  <2> QED BY <1>0, <2>1, <2>2, <2>3, InvKinds, StepCloses
<1>2. CASE op[r].dn \notin Live
  <2> DEFINE d == op[r].dn
             o == [op[r] EXCEPT !.at = "flag"]
  <2>1. Goto(r, o) /\ was' = was \cup {d}
    BY <1>2 DEF Create
  <2>2. o \in TreeOps /\ o.at = "flag" /\ o.dn = d
    BY <1>0 DEF AddOps, TreeOps
  <2>3. /\ DOMAIN entries' = DOMAIN entries \cup {d} /\ d \notin DOMAIN entries
        /\ entries'[d] = EntryRow(FALSE, {})
        /\ \A x \in DOMAIN entries : entries'[x] = entries[x]
    BY <1>2 DEF Create, Live
  <2>4. Rows(entries')
    <3>1. entries'[d].kids = FALSE /\ entries'[d].members = {}
      BY <2>3 DEF EntryRow
    <3>2. entries'[d] \in [kids : BOOLEAN, members : SUBSET DNs]
      BY <2>3 DEF EntryRow
    <3>3. Rows(entries) /\ d \in DNs
      BY <1>0, InvKinds DEF Named
    <3> HIDE DEF d
    <3> QED BY <2>3, <3>1, <3>2, <3>3 DEF Rows
  <2>5. \A x \in was' : x \in DOMAIN entries' \/ OnRecord(x, tombs' \cup untombed', r, o)
    BY <1>0, <2>1, <2>3, StillOnRecord
  <2>6. ASSUME clean PROVE Alone(r) /\ WholeBut(o, entries', idents', stray')
    <3>1. /\ Tail(d) \in DOMAIN entries
          /\ \A x \in DOMAIN entries :
               /\ x # Base => Tail(x) \in DOMAIN entries
               /\ entries[x].kids <=> Below(entries, x) # {}
               /\ entries[x].members \subseteq DOMAIN entries
      BY <1>0, <2>6, RowsRead DEF Ahead, Stale, Coming, After
    <3>2. Len(d) > 1 /\ Tail(d) # d /\ \A x \in DOMAIN entries : Len(x) > 1 <=> x # Base
      BY <1>0, DNFacts, InvKinds DEF Rows
    <3>3. Below(entries', d) = {}
      BY <2>3, <3>1, <3>2 DEF Below
    <3>4. \A x \in DOMAIN entries : x # Tail(d) => Below(entries', x) = Below(entries, x)
      BY <2>3, <3>1, <3>2 DEF Below
    <3>5. Stale(o) = {Tail(d)} /\ Coming(o) = {} /\ Leaving(o) = {}
      BY <2>2 DEF Stale, Coming, Leaving, After
    <3>6. RowsRight(o, entries')
      BY <2>3, <3>1, <3>3, <3>4, <3>5 DEF RowsRight, EntryRow
    <3>7. NamesRight(o, entries', idents', stray')
      BY <1>0, <2>3, <2>6, RowsRead DEF NamesRight, Leaving, After
    <3>8. Ahead(o, entries')
      BY <2>2, <2>3 DEF Ahead, After
    <3> QED BY <1>0, <2>6, RowsRead, <3>6, <3>7, <3>8 DEF WholeBut
  <2> HIDE DEF o
  <2> QED BY <1>0, <2>1, <2>2, <2>4, <2>5, <2>6, InvKinds, StepCloses
<1> QED BY <1>1, <1>2

\* A step that leaves the entries' DNs and the records alone.
LEMMA SameTreeCloses ==
  ASSUME TreeInv, NEW r \in TreeRequests, op[r].at # "tomb", NEW o \in TreeOps, Goto(r, o),
         Rows(entries'), DOMAIN entries' = DOMAIN entries, idents' \subseteq Rdns,
         UNCHANGED <<tombs, clean, was, untombed>>,
         clean => Alone(r) /\ WholeBut(o, entries', idents', stray')
  PROVE  TreeInv'
<1>1. \A d \in was' : d \in DOMAIN entries' \/ OnRecord(d, tombs' \cup untombed', r, o)
  BY StillOnRecord
<1> QED BY <1>1, InvKinds, StepCloses

LEMMA SameBelow ==
  ASSUME DOMAIN entries' = DOMAIN entries, NEW d
  PROVE  Below(entries', d) = Below(entries, d)
BY DEF Below

LEMMA FlagKeeps ==
  ASSUME TreeConfigured, TreeInv, NEW r \in TreeRequests, Flag(r)
  PROVE  TreeInv'
<1> DEFINE d == op[r].dn
           o == [op[r] EXCEPT !.at = "provision"]
<1>0. /\ op[r].at = "flag" /\ op[r] \in AddOps /\ d \in Named /\ Len(d) > 1
      /\ Goto(r, o) /\ UNCHANGED <<tombs, idents, clean, was, untombed, stray>>
      /\ entries' = SetKids(Tail(d), TRUE)
  BY InvKinds, TreeOpFacts, DNFacts DEF Flag, AddOps
<1>1. o \in TreeOps /\ o.at = "provision" /\ o.dn = d
  BY <1>0 DEF AddOps, TreeOps
<1> HIDE DEF o
<1>2. /\ Rows(entries') /\ DOMAIN entries' = DOMAIN entries
      /\ \A e \in DOMAIN entries :
           /\ entries'[e].members = entries[e].members
           /\ e # Tail(d) => entries'[e].kids = entries[e].kids
      /\ Tail(d) \in DOMAIN entries => entries'[Tail(d)].kids = TRUE
  <2> DEFINE p == Tail(d)
  <2> HIDE DEF p
  <2>1. Rows(entries) /\ TRUE \in BOOLEAN
    BY InvKinds
  <2>2. /\ Rows(SetKids(p, TRUE)) /\ DOMAIN SetKids(p, TRUE) = DOMAIN entries
        /\ \A x \in DOMAIN entries :
             /\ SetKids(p, TRUE)[x].members = entries[x].members
             /\ x # p => SetKids(p, TRUE)[x].kids = entries[x].kids
        /\ p \in DOMAIN entries => SetKids(p, TRUE)[p].kids = TRUE
    BY <2>1, KidsWritten, Zenon
  <2> QED BY <1>0, <2>2 DEF p
<1>3. ASSUME clean PROVE Alone(r) /\ WholeBut(o, entries', idents', stray')
  <2>1. /\ d \in DOMAIN entries
        /\ \A x \in DOMAIN entries :
             /\ x # Base => Tail(x) \in DOMAIN entries
             /\ x # Tail(d) => (entries[x].kids <=> Below(entries, x) # {})
             /\ entries[x].members \subseteq DOMAIN entries
    BY <1>0, <1>3, RowsRead DEF Ahead, Stale, Coming, After
  <2>2. d \in Below(entries', Tail(d))
    BY <1>0, <1>2, <2>1 DEF Below
  <2>3. Stale(o) = {} /\ Coming(o) = {} /\ Leaving(o) = {}
    BY <1>1 DEF Stale, Coming, Leaving, After
  <2>4. RowsRight(o, entries')
    BY <1>2, <2>1, <2>2, <2>3, SameBelow DEF RowsRight
  <2>5. NamesRight(o, entries', idents', stray')
    BY <1>0, <1>2, <1>3, RowsRead DEF NamesRight, Leaving, After
  <2>6. Ahead(o, entries')
    BY <1>1, <1>2, <2>1 DEF Ahead, After
  <2> QED BY <1>0, <1>3, RowsRead, <2>4, <2>5, <2>6 DEF WholeBut
<1> QED BY <1>0, <1>1, <1>2, <1>3, InvKinds, SameTreeCloses

LEMMA FlagNewKeeps ==
  ASSUME TreeConfigured, TreeInv, NEW r \in TreeRequests, FlagNew(r)
  PROVE  TreeInv'
<1> DEFINE d == op[r].dn
<1>0. /\ op[r].at = "flag-new" /\ op[r] \in LastOps /\ d \in Named /\ Len(d) > 1
      /\ Goto(r, NoOp) /\ UNCHANGED <<tombs, idents, clean, was, untombed, stray>>
      /\ entries' = SetKids(Tail(d), TRUE)
  BY InvKinds, TreeOpFacts, DNFacts DEF FlagNew, LastOps
<1>1. NoOp \in TreeOps /\ NoOp.at = "idle"
  BY DEF TreeOps, NoOp
<1>2. /\ Rows(entries') /\ DOMAIN entries' = DOMAIN entries
      /\ \A e \in DOMAIN entries :
           /\ entries'[e].members = entries[e].members
           /\ e # Tail(d) => entries'[e].kids = entries[e].kids
      /\ Tail(d) \in DOMAIN entries => entries'[Tail(d)].kids = TRUE
  <2> DEFINE p == Tail(d)
  <2> HIDE DEF p
  <2>1. Rows(entries) /\ TRUE \in BOOLEAN
    BY InvKinds
  <2>2. /\ Rows(SetKids(p, TRUE)) /\ DOMAIN SetKids(p, TRUE) = DOMAIN entries
        /\ \A x \in DOMAIN entries :
             /\ SetKids(p, TRUE)[x].members = entries[x].members
             /\ x # p => SetKids(p, TRUE)[x].kids = entries[x].kids
        /\ p \in DOMAIN entries => SetKids(p, TRUE)[p].kids = TRUE
    BY <2>1, KidsWritten, Zenon
  <2> QED BY <1>0, <2>2 DEF p
<1>3. ASSUME clean PROVE Alone(r) /\ WholeBut(NoOp, entries', idents', stray')
  <2>1. /\ d \in DOMAIN entries
        /\ \A x \in DOMAIN entries :
             /\ x # Base => Tail(x) \in DOMAIN entries
             /\ x # Tail(d) => (entries[x].kids <=> Below(entries, x) # {})
             /\ entries[x].members \subseteq DOMAIN entries
    BY <1>0, <1>3, RowsRead DEF Ahead, Stale, Coming, After
  <2>2. d \in Below(entries', Tail(d))
    BY <1>0, <1>2, <2>1 DEF Below
  <2>3. Stale(NoOp) = {} /\ Coming(NoOp) = {} /\ Leaving(NoOp) = {}
    BY <1>1 DEF Stale, Coming, Leaving, After
  <2>4. RowsRight(NoOp, entries')
    BY <1>2, <2>1, <2>2, <2>3, SameBelow DEF RowsRight
  <2>5. NamesRight(NoOp, entries', idents', stray')
    BY <1>0, <1>2, <1>3, RowsRead DEF NamesRight, Leaving, After
  <2>6. Ahead(NoOp, entries')
    BY <1>1 DEF Ahead, After
  <2> QED BY <1>0, <1>3, RowsRead, <2>4, <2>5, <2>6 DEF WholeBut
<1> QED BY <1>0, <1>1, <1>2, <1>3, InvKinds, SameTreeCloses

LEMMA NoOpFacts ==
  /\ NoOp \in TreeOps /\ NoOp.at = "idle"
  /\ Stale(NoOp) = {} /\ Coming(NoOp) = {} /\ Leaving(NoOp) = {}
  /\ \A E : Ahead(NoOp, E)
BY DEF TreeOps, NoOp, Stale, Coming, Leaving, After, Ahead

LEMMA ProvisionKeeps ==
  ASSUME TreeConfigured, TreeInv, NEW r \in TreeRequests, Provision(r)
  PROVE  TreeInv'
<1> DEFINE d == op[r].dn
<1>0. /\ op[r].at = "provision" /\ op[r] \in AddOps /\ d \in Named /\ Head(d) \in Rdns
      /\ Goto(r, NoOp) /\ UNCHANGED <<entries, tombs, clean, was, untombed>>
      /\ idents' = idents \cup {Head(d)} /\ stray' = stray \ {Head(d)}
  BY InvKinds, TreeOpFacts, DNFacts DEF Provision, AddOps
<1>1. ASSUME clean PROVE Alone(r) /\ WholeBut(NoOp, entries', idents', stray')
  <2>1. Stale(op[r]) = {} /\ Coming(op[r]) = {} /\ Leaving(op[r]) = {}
    BY <1>0 DEF Stale, Coming, Leaving, After
  <2>2. d \in DOMAIN entries
    BY <1>0, <1>1, RowsRead DEF Ahead
  <2>3. RowsRight(NoOp, entries')
    BY <1>0, <1>1, <2>1, NoOpFacts, RowsRead DEF RowsRight
  <2>4. NamesRight(NoOp, entries', idents', stray')
    BY <1>0, <1>1, <2>1, <2>2, NoOpFacts, RowsRead DEF NamesRight
  <2> QED BY <1>0, <1>1, <2>3, <2>4, NoOpFacts, RowsRead DEF WholeBut
<1> QED BY <1>0, <1>1, NoOpFacts, InvKinds, SameTreeCloses

LEMMA TeardownKeeps ==
  ASSUME TreeConfigured, TreeInv, NEW r \in TreeRequests, Teardown(r)
  PROVE  TreeInv'
<1> DEFINE d == op[r].dn
<1>0. /\ op[r].at = "teardown"
      /\ Goto(r, NoOp) /\ UNCHANGED <<entries, tombs, clean, was, untombed, stray>>
      /\ idents' = idents \ {Head(d)}
  BY DEF Teardown
<1>1. ASSUME clean PROVE Alone(r) /\ WholeBut(NoOp, entries', idents', stray')
  <2>1. Stale(op[r]) = {} /\ Coming(op[r]) = {} /\ Leaving(op[r]) = {Head(d)}
    BY <1>0 DEF Stale, Coming, Leaving, After
  <2>2. RowsRight(NoOp, entries')
    BY <1>0, <1>1, <2>1, NoOpFacts, RowsRead DEF RowsRight
  <2>3. NamesRight(NoOp, entries', idents', stray')
    BY <1>0, <1>1, <2>1, NoOpFacts, RowsRead DEF NamesRight
  <2> QED BY <1>0, <1>1, <2>2, <2>3, NoOpFacts, RowsRead DEF WholeBut
<1> QED BY <1>0, <1>1, NoOpFacts, InvKinds, SameTreeCloses

LEMMA WriteMembersKeeps ==
  ASSUME TreeConfigured, TreeInv, NEW r \in TreeRequests, WriteMembers(r)
  PROVE  TreeInv'
<1> DEFINE g == op[r].dn
           M == op[r].members
<1>0. /\ op[r].at = "members" /\ IsGroup(g) /\ M \in SUBSET DNs
      /\ Goto(r, NoOp) /\ UNCHANGED <<tombs, idents, clean, was, untombed, stray>>
      /\ entries' = SetMembers(g, M)
  BY InvKinds, TreeOpFacts DEF WriteMembers, MemberOps
<1>1. /\ Rows(entries') /\ DOMAIN entries' = DOMAIN entries
      /\ \A e \in DOMAIN entries :
           /\ entries'[e].kids = entries[e].kids
           /\ e # g => entries'[e].members = entries[e].members
      /\ g \in DOMAIN entries => entries'[g].members = M
  <2>1. Rows(entries) /\ (M # {} => IsGroup(g))
    BY <1>0, InvKinds
  <2> HIDE DEF g, M
  <2>2. M \in SUBSET DNs
    BY <1>0
  <2>3. /\ Rows(SetMembers(g, M)) /\ DOMAIN SetMembers(g, M) = DOMAIN entries
        /\ \A e \in DOMAIN entries :
             /\ SetMembers(g, M)[e].kids = entries[e].kids
             /\ e # g => SetMembers(g, M)[e].members = entries[e].members
        /\ g \in DOMAIN entries => SetMembers(g, M)[g].members = M
    BY <2>1, <2>2, MembersWritten
  <2> QED BY <1>0, <2>3
<1>2. ASSUME clean PROVE Alone(r) /\ WholeBut(NoOp, entries', idents', stray')
  <2>1. Stale(op[r]) = {} /\ Coming(op[r]) = {} /\ Leaving(op[r]) = {}
    BY <1>0 DEF Stale, Coming, Leaving, After
  <2>2. M \subseteq DOMAIN entries
    BY <1>0, <1>2, RowsRead DEF Ahead
  <2>3. RowsRight(NoOp, entries')
    BY <1>0, <1>1, <1>2, <2>1, <2>2, SameBelow, NoOpFacts, RowsRead DEF RowsRight
  <2>4. NamesRight(NoOp, entries', idents', stray')
    BY <1>0, <1>1, <1>2, <2>1, NoOpFacts, RowsRead DEF NamesRight
  <2> QED BY <1>0, <1>2, <2>3, <2>4, NoOpFacts, RowsRead DEF WholeBut
<1> QED BY <1>0, <1>1, <1>2, NoOpFacts, InvKinds, SameTreeCloses

LEMMA GroupKeeps ==
  ASSUME TreeConfigured, TreeInv, NEW r \in TreeRequests, NEW g, Group(r, g)
  PROVE  TreeInv'
<1> DEFINE t == op[r].todo
           u == [h \in DOMAIN t \ {g} |-> t[h]]
           o == [op[r] EXCEPT !.todo = u]
<1>0. /\ op[r].at = "groups" /\ g \in DOMAIN t /\ t \in Todos
      /\ op[r] \in DeleteOps \cup MoveOps
      /\ Goto(r, o) /\ UNCHANGED <<tombs, idents, clean, was, untombed, stray>>
      /\ entries' = SetMembers(g, t[g])
  BY InvKinds, TreeOpFacts DEF Group, DeleteOps, MoveOps
<1>1. u \in Todos /\ g \in DNs /\ IsGroup(g) /\ t[g] \in SUBSET DNs
  BY <1>0, TodoOf
<1>2. DOMAIN u = DOMAIN t \ {g} /\ \A h \in DOMAIN u : u[h] = t[h]
  OBVIOUS
<1>3. /\ o \in TreeOps /\ o.at = "groups" /\ o.dn = op[r].dn /\ o.to = op[r].to /\ o.todo = u
      /\ Renames(o) => o.members = op[r].members
  <2> HIDE DEF u, t
  <2>1. CASE op[r] \in DeleteOps
    BY <1>0, <1>1, <2>1 DEF DeleteOps, TreeOps, Renames
  <2>2. CASE op[r] \in MoveOps
    BY <1>0, <1>1, <2>2 DEF MoveOps, TreeOps, Renames
  <2> QED BY <1>0, <2>1, <2>2
<1>4. /\ Rows(entries') /\ DOMAIN entries' = DOMAIN entries
      /\ \A e \in DOMAIN entries :
           /\ entries'[e].kids = entries[e].kids
           /\ e # g => entries'[e].members = entries[e].members
      /\ g \in DOMAIN entries => entries'[g].members = t[g]
  <2>1. Rows(entries) /\ (t[g] # {} => IsGroup(g))
    BY <1>1, InvKinds
  <2> HIDE DEF t
  <2>2. t[g] \in SUBSET DNs
    BY <1>1
  <2>3. /\ Rows(SetMembers(g, t[g])) /\ DOMAIN SetMembers(g, t[g]) = DOMAIN entries
        /\ \A e \in DOMAIN entries :
             /\ SetMembers(g, t[g])[e].kids = entries[e].kids
             /\ e # g => SetMembers(g, t[g])[e].members = entries[e].members
        /\ g \in DOMAIN entries => SetMembers(g, t[g])[g].members = t[g]
    BY <2>1, <2>2, MembersWritten
  <2> QED BY <1>0, <2>3
<1>5. ASSUME clean PROVE Alone(r) /\ WholeBut(o, entries', idents', stray')
  <2> HIDE DEF o, u
  <2>1. Stale(op[r]) = {} /\ Coming(op[r]) = {op[r].to} /\ Leaving(op[r]) = {}
    BY <1>0 DEF Stale, Coming, Leaving, After
  <2>2. Stale(o) = {} /\ Coming(o) = {op[r].to} /\ Leaving(o) = {}
    BY <1>3 DEF Stale, Coming, Leaving, After
  <2>3. /\ op[r].dn \in DOMAIN entries /\ Below(entries, op[r].dn) = {}
        /\ \A x \in DOMAIN entries : op[r].dn \in entries[x].members => x \in DOMAIN t
        /\ \A x \in DOMAIN t : t[x] \subseteq ((DOMAIN entries \cup {op[r].to}) \ {op[r].dn})
        /\ Renames(op[r]) =>
             /\ op[r].to \notin DOMAIN entries
             /\ Tail(op[r].to) \in DOMAIN entries \ {op[r].dn}
             /\ op[r].members \subseteq DOMAIN entries \ {op[r].dn}
    BY <1>0, <1>5, RowsRead DEF Ahead
  <2>4. RowsRight(o, entries')
    BY <1>0, <1>4, <1>5, <2>1, <2>2, <2>3, SameBelow, RowsRead DEF RowsRight
  <2>5. NamesRight(o, entries', idents', stray')
    BY <1>0, <1>4, <1>5, <2>1, <2>2, RowsRead DEF NamesRight
  <2>6. \A x \in DOMAIN entries' : o.dn \in entries'[x].members => x \in DOMAIN u
    BY <1>0, <1>2, <1>3, <1>4, <2>3
  <2>7. Renames(o) <=> Renames(op[r])
    BY <1>3 DEF Renames
  <2>8. Ahead(o, entries')
    BY <1>2, <1>3, <1>4, <2>3, <2>6, <2>7, SameBelow DEF Ahead, After
  <2> QED BY <1>0, <1>5, <2>4, <2>5, <2>8, RowsRead DEF WholeBut
<1> HIDE DEF o
<1> QED BY <1>0, <1>3, <1>4, <1>5, InvKinds, SameTreeCloses

LEMMA RemoveEntryKeeps ==
  ASSUME TreeConfigured, TreeInv, NEW r \in TreeRequests, RemoveEntry(r)
  PROVE  TreeInv'
<1> DEFINE d == op[r].dn
           o == [op[r] EXCEPT !.at = "tomb"]
<1>0. /\ op[r].at = "groups" /\ op[r].to = d /\ DOMAIN op[r].todo = {}
      /\ op[r] \in DeleteOps /\ d \in Named /\ op[r].web \in BOOLEAN
      /\ Goto(r, o) /\ UNCHANGED <<tombs, idents, clean, was, untombed>>
      /\ stray' = IF op[r].web THEN stray ELSE stray \cup {Head(d)}
  BY InvKinds, TreeOpFacts DEF RemoveEntry, GroupsDone, DeleteOps
<1>1. /\ DOMAIN entries' = DOMAIN entries \ {d}
      /\ \A x \in DOMAIN entries \ {d} : entries'[x] = entries[x]
  BY DEF RemoveEntry, Live
<1>2. o \in TreeOps /\ o.at = "tomb" /\ o.dn = d /\ o.to = d /\ (o.web <=> op[r].web)
  BY <1>0 DEF DeleteOps, TreeOps
<1> HIDE DEF o
<1>3. Rows(entries')
  BY <1>0, <1>1, InvKinds DEF Rows, Named
<1>4. \A x \in was' : x \in DOMAIN entries' \/ OnRecord(x, tombs' \cup untombed', r, o)
  BY <1>0, <1>1, <1>2, StillOnRecord DEF OnRecord
<1>5. ASSUME clean PROVE Alone(r) /\ WholeBut(o, entries', idents', stray')
  <2>1. Stale(op[r]) = {} /\ Coming(op[r]) = {d} /\ Leaving(op[r]) = {}
    BY <1>0 DEF Stale, Coming, Leaving, After
  <2>2. Stale(o) = {Tail(d)} /\ Coming(o) = {} /\ Leaving(o) = IF op[r].web THEN {Head(d)} ELSE {}
    BY <1>2 DEF Stale, Coming, Leaving, After, Renames
  <2>3. /\ d \in DOMAIN entries /\ Below(entries, d) = {}
        /\ \A x \in DOMAIN entries : d \notin entries[x].members
    BY <1>0, <1>5, RowsRead DEF Ahead
  <2>4. Len(d) > 1 /\ \A x \in DOMAIN entries : Len(x) > 1 <=> x # Base
    BY <1>0, DNFacts, InvKinds DEF Rows
  <2>5. \A x : x # Tail(d) => Below(entries', x) = Below(entries, x)
    BY <1>1 DEF Below
  <2>6. \A x \in DOMAIN entries : x # Base => Tail(x) # d
    BY <2>3, <2>4 DEF Below
  <2>7. RowsRight(o, entries')
    BY <1>0, <1>1, <1>5, <2>1, <2>2, <2>3, <2>5, <2>6, RowsRead DEF RowsRight
  <2>8. NamesRight(o, entries', idents', stray')
    <3> SUFFICES ASSUME NEW n \in idents' \ stray', n \notin Leaving(o)
                 PROVE  \E x \in DOMAIN entries' : Head(x) = n
      BY DEF NamesRight
    <3>1. n \in idents \ stray /\ n # Head(d)
      BY <1>0, <2>2
    <3> QED BY <1>0, <1>1, <1>5, <2>1, <3>1, RowsRead
  <2>9. Ahead(o, entries')
    BY <1>2 DEF Ahead, After, Renames
  <2> QED BY <1>0, <1>5, <2>7, <2>8, <2>9, RowsRead DEF WholeBut
<1> QED BY <1>0, <1>2, <1>3, <1>4, <1>5, InvKinds, StepCloses

LEMMA TombKeeps ==
  ASSUME TreeConfigured, TreeInv, NEW r \in TreeRequests, Tomb(r)
  PROVE  TreeInv'
<1> DEFINE d == op[r].dn
           o == [op[r] EXCEPT !.at = "count"]
<1>0. /\ op[r].at = "tomb" /\ op[r] \in DeleteOps \cup MoveOps /\ d \in Named
      /\ Goto(r, o) /\ UNCHANGED <<entries, idents, clean, was, untombed, stray>>
      /\ tombs' = tombs \cup {d}
  BY InvKinds, TreeOpFacts DEF Tomb, DeleteOps, MoveOps
<1>1. /\ o \in TreeOps /\ o.at = "count" /\ o.dn = d /\ o.to = op[r].to
      /\ o.web <=> op[r].web
  <2>1. CASE op[r] \in DeleteOps
    BY <1>0, <2>1 DEF DeleteOps, TreeOps
  <2>2. CASE op[r] \in MoveOps
    BY <1>0, <2>2 DEF MoveOps, TreeOps
  <2> QED BY <1>0, <2>1, <2>2
<1> HIDE DEF o
<1>2. tombs' \subseteq DNs
  BY <1>0, InvKinds DEF Named
<1>3. \A x \in was' : x \in DOMAIN entries' \/ OnRecord(x, tombs' \cup untombed', r, o)
  BY <1>0 DEF TreeInv, RemovalOnRecord, OnRecord, Live
<1>4. ASSUME clean PROVE Alone(r) /\ WholeBut(o, entries', idents', stray')
  <2>1. Stale(o) = Stale(op[r]) /\ Coming(o) = Coming(op[r]) /\ Leaving(o) = Leaving(op[r])
    BY <1>0, <1>1 DEF Stale, Coming, Leaving, After, Renames
  <2>2. Ahead(o, entries')
    BY <1>0, <1>1, <1>4, RowsRead DEF Ahead, After, Renames
  <2>3. RowsRight(o, entries') /\ NamesRight(o, entries', idents', stray')
    BY <1>0, <1>4, <2>1, RowsRead DEF RowsRight, NamesRight
  <2> QED BY <1>0, <1>4, <2>2, <2>3, RowsRead DEF WholeBut
<1> QED BY <1>0, <1>1, <1>2, <1>3, <1>4, InvKinds, StepCloses

LEMMA CountKeeps ==
  ASSUME TreeConfigured, TreeInv, NEW r \in TreeRequests, Count(r)
  PROVE  TreeInv'
<1> DEFINE d == op[r].dn
           e == op[r].to
<1>0. /\ op[r].at = "count" /\ op[r] \in DeleteOps \cup MoveOps /\ d \in Named /\ e \in Named
      /\ op[r].web \in BOOLEAN
      /\ UNCHANGED <<entries, tombs, idents, clean, was, untombed, stray>>
  BY InvKinds, TreeOpFacts DEF Count, DeleteOps, MoveOps
<1>1. CASE e # d /\ Tail(e) = Tail(d)
  <2>1. Goto(r, NoOp)
    BY <1>1 DEF Count
  <2>2. ~op[r].web
    BY <1>0, <1>1 DEF DeleteOps, MoveOps
  <2>3. Stale(op[r]) = {} /\ Coming(op[r]) = {} /\ Leaving(op[r]) = {}
    BY <1>0, <1>1, <2>2 DEF Stale, Coming, Leaving, After, Renames
  <2>4. clean => Alone(r) /\ WholeBut(NoOp, entries', idents', stray')
    BY <1>0, <2>3, NoOpFacts, RowsRead DEF WholeBut, RowsRight, NamesRight
  <2> QED BY <1>0, <2>1, <2>4, NoOpFacts, InvKinds, SameTreeCloses
<1>2. CASE ~(e # d /\ Tail(e) = Tail(d))
  <2> DEFINE k == Below(entries, Tail(d)) # {}
             o == [at |-> "recount", dn |-> d, to |-> e, web |-> op[r].web, kids |-> k]
  <2>1. Goto(r, o)
    BY <1>2 DEF Count, Children, Below, Live
  <2>2. /\ o \in TreeOps /\ o.at = "recount" /\ o.dn = d /\ o.to = e /\ (o.web <=> op[r].web)
        /\ o.kids <=> k
    <3>1. e # d => ~op[r].web
      BY <1>0 DEF DeleteOps, MoveOps
    <3> HIDE DEF k
    <3>2. k \in BOOLEAN
      BY DEF k
    <3> QED BY <1>0, <3>1, <3>2 DEF CountOps, TreeOps
  <2> HIDE DEF o
  <2>3. Stale(op[r]) = {Tail(d), Tail(e)} /\ Coming(op[r]) = {}
    BY <1>0, <1>2 DEF Stale, Coming, After, Renames
  <2>4. Stale(o) = {Tail(d), Tail(e)} /\ Coming(o) = {}
    BY <2>2 DEF Stale, Coming, After, Renames
  <2>5. Leaving(o) = Leaving(op[r])
    BY <1>0, <2>2 DEF Leaving, After
  <2>6. ASSUME clean PROVE Alone(r) /\ WholeBut(o, entries', idents', stray')
    <3>1. Ahead(o, entries')
      BY <1>0, <2>2, <2>6, RowsRead DEF Ahead, After, Renames
    <3>2. RowsRight(o, entries') /\ NamesRight(o, entries', idents', stray')
      BY <1>0, <2>3, <2>4, <2>5, <2>6, RowsRead DEF RowsRight, NamesRight
    <3> QED BY <1>0, <2>6, <3>1, <3>2, RowsRead DEF WholeBut
  <2> QED BY <1>0, <2>1, <2>2, <2>6, InvKinds, SameTreeCloses
<1> QED BY <1>1, <1>2

LEMMA RecountKeeps ==
  ASSUME TreeConfigured, TreeInv, NEW r \in TreeRequests, Recount(r)
  PROVE  TreeInv'
<1> DEFINE d == op[r].dn
           e == op[r].to
           o == CASE e # d -> [at |-> "flag-new", dn |-> e]
                  [] e = d /\ op[r].web -> [at |-> "teardown", dn |-> d]
                  [] OTHER -> NoOp
<1>0. /\ op[r].at = "recount" /\ d \in Named /\ e \in Named
      /\ op[r].web \in BOOLEAN /\ op[r].kids \in BOOLEAN /\ (e # d => ~op[r].web)
      /\ Goto(r, o) /\ UNCHANGED <<tombs, idents, clean, was, untombed, stray>>
      /\ entries' = SetKids(Tail(d), op[r].kids)
  BY InvKinds, TreeOpFacts DEF Recount, CountOps
<1>1. /\ Rows(entries') /\ DOMAIN entries' = DOMAIN entries
      /\ \A x \in DOMAIN entries :
           /\ entries'[x].members = entries[x].members
           /\ x # Tail(d) => entries'[x].kids = entries[x].kids
      /\ Tail(d) \in DOMAIN entries => entries'[Tail(d)].kids = op[r].kids
  <2>1. Rows(entries) /\ op[r].kids \in BOOLEAN
    BY <1>0, InvKinds
  <2> DEFINE p == Tail(d)
             b == op[r].kids
  <2> HIDE DEF p, b
  <2>2. b \in BOOLEAN
    BY <2>1 DEF b
  <2>3. /\ Rows(SetKids(p, b)) /\ DOMAIN SetKids(p, b) = DOMAIN entries
        /\ \A x \in DOMAIN entries :
             /\ SetKids(p, b)[x].members = entries[x].members
             /\ x # p => SetKids(p, b)[x].kids = entries[x].kids
        /\ p \in DOMAIN entries => SetKids(p, b)[p].kids = b
    BY <2>1, <2>2, KidsWritten
  <2> QED BY <1>0, <2>3 DEF p, b
<1>2. /\ o \in TreeOps
      /\ o.at \in {"flag-new", "teardown", "idle"}
      /\ o.at = "flag-new" <=> e # d
      /\ o.at = "flag-new" => o.dn = e
      /\ o.at = "teardown" <=> e = d /\ op[r].web
      /\ o.at = "teardown" => o.dn = d
  <2>1. CASE e # d
    BY <1>0, <2>1 DEF TreeOps, LastOps
  <2>2. CASE e = d /\ op[r].web
    BY <1>0, <2>2 DEF TreeOps, LastOps
  <2>3. CASE e = d /\ ~op[r].web
    BY <2>3 DEF TreeOps, NoOp
  <2> QED BY <1>0, <2>1, <2>2, <2>3
<1> HIDE DEF o
<1>3. ASSUME clean PROVE Alone(r) /\ WholeBut(o, entries', idents', stray')
  <2>1. Stale(op[r]) = {Tail(d), Tail(e)} /\ Coming(op[r]) = {}
    BY <1>0 DEF Stale, Coming, After, Renames
  <2>2. Coming(o) = {} /\ Stale(o) = IF e # d THEN {Tail(e)} ELSE {}
    BY <1>2 DEF Stale, Coming, After
  <2>3. Leaving(op[r]) = IF op[r].web THEN {Head(d)} ELSE {}
    BY <1>0 DEF Leaving, After
  <2>4. \A n \in Leaving(op[r]) : n \in Leaving(o)
    BY <1>0, <1>2, <2>3 DEF Leaving, After
  <2>5. (op[r].kids <=> Below(entries, Tail(d)) # {}) /\ (e # d => e \in DOMAIN entries)
    BY <1>0, <1>3, RowsRead DEF Ahead, After, Renames
  <2>6. RowsRight(o, entries')
    <3> SUFFICES ASSUME NEW x \in DOMAIN entries
                 PROVE  /\ x # Base => Tail(x) \in DOMAIN entries
                        /\ x \notin Stale(o) => (entries'[x].kids <=> Below(entries', x) # {})
                        /\ entries'[x].members \subseteq DOMAIN entries
      BY <1>1, <2>2 DEF RowsRight
    <3>1. Below(entries', x) = Below(entries, x)
      BY <1>1, SameBelow
    <3>2. CASE x = Tail(d)
      BY <1>0, <1>1, <1>3, <2>1, <2>5, <3>1, <3>2, RowsRead
    <3>3. CASE x # Tail(d)
      BY <1>0, <1>1, <1>3, <2>1, <2>2, <3>1, <3>3, RowsRead
    <3> QED BY <3>2, <3>3
  <2>7. NamesRight(o, entries', idents', stray')
    BY <1>0, <1>1, <1>3, <2>4, RowsRead DEF NamesRight
  <2>8. Ahead(o, entries')
    BY <1>1, <1>2, <2>5 DEF Ahead, After
  <2> QED BY <1>0, <1>3, <2>6, <2>7, <2>8, RowsRead DEF WholeBut
<1> QED BY <1>0, <1>1, <1>2, <1>3, InvKinds, SameTreeCloses

\* The request of a rename that finds its old DN still there and the new one free.
LEMMA MovedKeeps ==
  ASSUME TreeConfigured, TreeInv, NEW r \in TreeRequests, Move(r),
         op[r].dn \in DOMAIN entries, op[r].to \notin DOMAIN entries
  PROVE  TreeInv'
<1> DEFINE d == op[r].dn
           e == op[r].to
           o == [op[r] EXCEPT !.at = "tomb"]
<1>0. /\ op[r].at = "groups" /\ DOMAIN op[r].todo = {} /\ op[r] \in MoveOps
      /\ d \in Named /\ e \in Named /\ e # d
      /\ op[r].members \in SUBSET DNs /\ (op[r].members # {} => IsGroup(e))
      /\ ~op[r].web
      /\ UNCHANGED <<tombs, idents, clean, untombed>>
      /\ stray' = IF Head(e) = Head(d) THEN stray ELSE stray \cup {Head(d)}
  BY InvKinds, TreeOpFacts DEF Move, GroupsDone, MoveOps
<1>1. /\ entries' = [x \in (DOMAIN entries \ {d}) \cup {e} |->
                       IF x = e THEN EntryRow(entries[d].kids, op[r].members) ELSE entries[x]]
      /\ was' = was \cup {e} /\ Goto(r, o)
  BY DEF Move, Live
<1>2. /\ DOMAIN entries' = (DOMAIN entries \ {d}) \cup {e}
      /\ entries'[e].kids = entries[d].kids /\ entries'[e].members = op[r].members
      /\ \A x \in DOMAIN entries \ {d} : entries'[x] = entries[x]
  BY <1>1 DEF EntryRow
<1>3. o \in TreeOps /\ o.at = "tomb" /\ o.dn = d /\ o.to = e /\ ~o.web
  BY <1>0 DEF MoveOps, TreeOps
<1> HIDE DEF o
<1>4. Rows(entries')
  <2>1. entries[d].kids \in BOOLEAN
    BY InvKinds DEF Rows
  <2>2. entries'[e] \in [kids : BOOLEAN, members : SUBSET DNs]
    BY <1>0, <1>1, <2>1 DEF EntryRow
  <2>3. Rows(entries) /\ e \in DNs /\ d # Base
    BY <1>0, InvKinds DEF Named
  <2>4. DOMAIN entries' \subseteq DNs /\ Base \in DOMAIN entries'
    BY <1>2, <2>3 DEF Rows
  <2>5. \A x \in DOMAIN entries' : entries'[x] \in [kids : BOOLEAN, members : SUBSET DNs]
    BY <1>2, <2>2, <2>3 DEF Rows
  <2>6. \A x \in DOMAIN entries' : entries'[x].members # {} => IsGroup(x)
    BY <1>0, <1>2, <2>3 DEF Rows
  <2> QED BY <2>4, <2>5, <2>6 DEF Rows
<1>5. \A x \in was' : x \in DOMAIN entries' \/ OnRecord(x, tombs' \cup untombed', r, o)
  BY <1>0, <1>1, <1>2, <1>3, StillOnRecord DEF OnRecord
<1>6. ASSUME clean PROVE Alone(r) /\ WholeBut(o, entries', idents', stray')
  <2>1. Stale(op[r]) = {} /\ Coming(op[r]) = {e} /\ Leaving(op[r]) = {}
    BY <1>0 DEF Stale, Coming, Leaving, After
  <2>2. /\ Below(entries, d) = {} /\ Tail(e) \in DOMAIN entries \ {d}
        /\ \A x \in DOMAIN entries : d \notin entries[x].members
        /\ op[r].members \subseteq DOMAIN entries \ {d}
    BY <1>0, <1>6, RowsRead DEF Ahead, Renames
  <2>3. /\ Len(d) > 1 /\ Len(e) > 1 /\ Tail(e) # e /\ d # Base /\ e # Base
        /\ \A x \in DOMAIN entries : Len(x) > 1 <=> x # Base
    BY <1>0, DNFacts, InvKinds DEF Rows, Named
  <2>4. /\ \A x \in DOMAIN entries : x # Base => Tail(x) \in DOMAIN entries \ {d}
        /\ \A x \in DOMAIN entries : entries[x].kids <=> Below(entries, x) # {}
        /\ \A x \in DOMAIN entries : entries[x].members \subseteq (DOMAIN entries \ {d}) \cup {e}
    <3>1. \A x \in DOMAIN entries : x # Base => Tail(x) \in DOMAIN entries \ {d}
      <4>1. \A x \in DOMAIN entries : x # Base => Tail(x) # d
        BY <2>2, <2>3 DEF Below
      <4> QED BY <1>0, <1>6, <4>1, RowsRead
    <3>2. \A x \in DOMAIN entries : entries[x].kids <=> Below(entries, x) # {}
      BY <1>0, <1>6, <2>1, RowsRead
    <3>3. \A x \in DOMAIN entries : entries[x].members \subseteq (DOMAIN entries \ {d}) \cup {e}
      BY <1>0, <1>6, <2>1, <2>2, RowsRead
    <3> QED BY <3>1, <3>2, <3>3
  <2>5. Coming(o) = {} /\ Leaving(o) = {}
        /\ Stale(o) = IF Tail(e) = Tail(d) THEN {} ELSE {Tail(d), Tail(e)}
    BY <1>0, <1>3 DEF Stale, Coming, Leaving, After, Renames
  <2>6. Below(entries', e) = {}
    <3>1. \A x \in DOMAIN entries' : Len(x) > 1 => Tail(x) # e
      BY <1>2, <2>3, <2>4
    <3> QED BY <3>1 DEF Below
  <2>7. \A x : x # Tail(d) /\ x # Tail(e) => Below(entries', x) = Below(entries, x)
    BY <1>2 DEF Below
  <2>8. Tail(e) = Tail(d) => Below(entries', Tail(d)) # {} /\ Below(entries, Tail(d)) # {}
    <3>1. d \in Below(entries, Tail(d))
      BY <2>3 DEF Below
    <3>2. e \in Below(entries', Tail(e))
      BY <1>2, <2>3 DEF Below
    <3> QED BY <3>1, <3>2
  <2>9. RowsRight(o, entries')
    <3> SUFFICES ASSUME NEW x \in DOMAIN entries'
                 PROVE  /\ x # Base => Tail(x) \in DOMAIN entries'
                        /\ x \notin Stale(o) => (entries'[x].kids <=> Below(entries', x) # {})
                        /\ entries'[x].members \subseteq DOMAIN entries'
      BY <2>5 DEF RowsRight
    <3>1. CASE x = e
      BY <1>2, <2>2, <2>4, <2>6, <3>1
    <3>2. CASE x # e
      <4>1. x \in DOMAIN entries \ {d} /\ entries'[x] = entries[x]
        BY <1>2, <3>2
      <4>2. x \notin Stale(o) => (Below(entries', x) # {} <=> Below(entries, x) # {})
        BY <2>5, <2>7, <2>8
      <4> QED BY <1>2, <2>4, <4>1, <4>2
    <3> QED BY <3>1, <3>2
  <2>10. NamesRight(o, entries', idents', stray')
    <3> SUFFICES ASSUME NEW n \in idents' \ stray'
                 PROVE  \E x \in DOMAIN entries' : Head(x) = n
      BY DEF NamesRight
    <3>1. PICK x \in DOMAIN entries : Head(x) = n
      BY <1>0, <1>6, <2>1, RowsRead
    <3>2. CASE x = d
      BY <1>0, <1>2, <3>1, <3>2
    <3>3. CASE x # d
      BY <1>2, <3>1, <3>3
    <3> QED BY <3>2, <3>3
  <2>11. Ahead(o, entries')
    BY <1>2, <1>3 DEF Ahead, After
  <2> QED BY <1>0, <1>6, <2>9, <2>10, <2>11, RowsRead DEF WholeBut
<1> QED BY <1>0, <1>1, <1>3, <1>4, <1>5, <1>6, InvKinds, StepCloses

\* The one that finds them otherwise: other requests came in between.
LEMMA NotMovedKeeps ==
  ASSUME TreeConfigured, TreeInv, NEW r \in TreeRequests, Move(r),
         op[r].dn \notin DOMAIN entries \/ op[r].to \in DOMAIN entries
  PROVE  TreeInv'
<1> DEFINE d == op[r].dn
           e == op[r].to
           t == [op[r] EXCEPT !.at = "tomb"]
<1>0. /\ op[r].at = "groups" /\ e # d /\ op[r] \in MoveOps
      /\ UNCHANGED <<entries, was, tombs, idents, clean, untombed>>
      /\ Goto(r, t) \/ Goto(r, NoOp)
  BY InvKinds, TreeOpFacts DEF Move, GroupsDone, Live
<1>1. t \in TreeOps
  BY <1>0 DEF MoveOps, TreeOps
<1>2. ~clean
  BY <1>0, RowsRead DEF Ahead, Renames
<1>3. PICK o \in TreeOps : Goto(r, o)
  BY <1>0, <1>1, NoOpFacts
<1> QED BY <1>0, <1>2, <1>3, InvKinds, SameTreeCloses

LEMMA RequestStopsKeeps ==
  ASSUME TreeInv, NEW r \in TreeRequests, RequestStops(r)
  PROVE  TreeInv'
<1>1. /\ Goto(r, NoOp) /\ clean' = FALSE /\ UNCHANGED <<entries, tombs, idents, was, stray>>
      /\ untombed' = IF op[r].at = "tomb" THEN untombed \cup {op[r].dn} ELSE untombed
  BY DEF RequestStops
<1>2. \A x \in was' : x \in DOMAIN entries' \/ OnRecord(x, tombs' \cup untombed', r, NoOp)
  BY <1>1 DEF TreeInv, RemovalOnRecord, OnRecord, Live
<1> QED BY <1>1, <1>2, NoOpFacts, InvKinds, StepCloses

LEMMA TreeBegins == ASSUME TreeConfigured, TreeInit PROVE TreeInv
<1>1. DOMAIN entries = {Base} /\ entries[Base] = EntryRow(FALSE, {})
  BY DEF TreeInit
<1>2. TreeShapes
  <2>1. Rows(entries)
    <3>1. entries[Base].members = {} /\ entries[Base] \in [kids : BOOLEAN, members : SUBSET DNs]
      BY <1>1 DEF EntryRow
    <3> QED BY <1>1, <3>1, DNFacts DEF Rows
  <2> QED BY <2>1, RowKinds, NoOpFacts DEF TreeInit, TreeShapes
<1>3. RemovalOnRecord
  BY <1>1 DEF TreeInit, RemovalOnRecord, Live
<1>4. WholeBut(NoOp, entries, idents, stray)
  <2>1. Below(entries, Base) = {}
    BY <1>1, DNFacts DEF Below
  <2> QED BY <1>1, <2>1, NoOpFacts DEF TreeInit, WholeBut, RowsRight, NamesRight, EntryRow
<1>5. CleanInv
  BY <1>4, NoOpFacts DEF CleanInv, TreeInit
<1> QED BY <1>2, <1>3, <1>5 DEF TreeInv

LEMMA TreeStep == ASSUME TreeConfigured, TreeInv, [TreeNext]_treeVars PROVE TreeInv'
<1>1. ASSUME NEW r \in TreeRequests, NEW d \in DNs, Add(r, d) PROVE TreeInv'
  BY <1>1, AddKeeps
<1>2. ASSUME NEW r \in TreeRequests, NEW d \in Live, NEW web \in BOOLEAN, Delete(r, d, web)
      PROVE  TreeInv'
  BY <1>2, DeleteBeginKeeps
<1>3. ASSUME NEW r \in TreeRequests, NEW d \in Live, NEW e \in DNs, Rename(r, d, e) PROVE TreeInv'
  BY <1>3, RenameKeeps
<1>4. ASSUME NEW r \in TreeRequests, NEW g \in Live, NEW d \in Live, AddMember(r, g, d)
      PROVE  TreeInv'
  BY <1>4, MembershipKeeps
<1>5. ASSUME NEW r \in TreeRequests, NEW g \in Live, NEW d, RemoveMember(r, g, d) PROVE TreeInv'
  BY <1>5, MembershipKeeps
<1>6. ASSUME NEW r \in TreeRequests, NEW g, Group(r, g) PROVE TreeInv'
  BY <1>6, GroupKeeps
<1>7. ASSUME NEW r \in TreeRequests, Move(r) PROVE TreeInv'
  BY <1>7, MovedKeeps, NotMovedKeeps
<1>8. ASSUME NEW r \in TreeRequests,
             \/ Create(r) \/ Flag(r) \/ Provision(r) \/ RemoveEntry(r) \/ Tomb(r) \/ Count(r)
             \/ Recount(r) \/ Teardown(r) \/ FlagNew(r) \/ WriteMembers(r) \/ RequestStops(r)
      PROVE  TreeInv'
  BY <1>8, CreateKeeps, FlagKeeps, ProvisionKeeps, RemoveEntryKeeps, TombKeeps, CountKeeps,
     RecountKeeps, TeardownKeeps, FlagNewKeeps, WriteMembersKeeps, RequestStopsKeeps
<1>9. CASE UNCHANGED treeVars
  BY <1>9 DEF treeVars, TreeInv, TreeShapes, TreeTypeOK, RemovalOnRecord, CleanInv, Live, Quiet, Alone
<1> QED BY <1>1, <1>2, <1>3, <1>4, <1>5, <1>6, <1>7, <1>8, <1>9 DEF TreeNext

LEMMA TreeInvWhole == ASSUME TreeInv PROVE TreeWhole
<1>1. TreeTypeOK /\ RemovalOnRecord
  BY DEF TreeInv, TreeShapes
<1>2. ASSUME clean, Quiet PROVE WholeBut(NoOp, entries, idents, stray)
  BY <1>2 DEF TreeInv, CleanInv
<1>3. Whole
  BY <1>2, NoOpFacts DEF Whole, WholeBut, RowsRight, Live, Children, Below
<1>4. IdentityTornDown
  BY <1>2, NoOpFacts DEF IdentityTornDown, WholeBut, NamesRight, Live
<1> QED BY <1>1, <1>3, <1>4 DEF TreeWhole

\* Whatever the names, the depth and the requests in flight: after requests one at a time
\* every entry has its parent, has_children is right, groups name entries that exist and
\* the KDC resolves only names that have an entry, but for those deleted over LDAP or
\* renamed; and however handle_add, handle_delete, handle_moddn and the console's calls
\* overlap, a DN that went away has its tombstone, unless the write of it failed.
THEOREM TreeStaysWhole ==
  ASSUME TreeConfigured
  PROVE  TreeSpec => []TreeWhole
<1>1. TreeInit => TreeInv
  BY TreeBegins
<1>2. TreeInv /\ [TreeNext]_treeVars => TreeInv'
  BY TreeStep
<1>3. TreeInv => TreeWhole
  BY TreeInvWhole
<1> QED BY <1>1, <1>2, <1>3, PTL DEF TreeSpec
=============================================================================
