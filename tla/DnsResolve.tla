----------------------------- MODULE DnsResolve -----------------------------
(* The resolver: one question against a snapshot of zones, records and response*)
(* policy rules. A name is the sequence of its labels from the root, so that a *)
(* name lies at or below another when it has that one as a prefix.             *)
EXTENDS Integers, Sequences, FiniteSets, SequencesExt

CONSTANTS
  Apexes,       \* names of zones
  Rows,         \* records: [zone, owner, type, target]; target is <<>> unless type is "CNAME"
  Questions,    \* names asked for
  Rules,        \* policy rules: [domain, action, to]; a domain may start with "*"
  MaxRows,      \* bound: records in a snapshot
  MaxRules      \* bound: rules in a snapshot

VARIABLES
  zones,        \* the enabled zones
  records,      \* the enabled records
  rpz,          \* the enabled rules
  asked,        \* the question: [name, type]
  reply         \* its Resolution, or None

vars == <<zones, records, rpz, asked, reply>>

Types == {"A", "CNAME"}
None == [rcode |-> "none"]
Depth == 8

Below(name, base) == IsPrefix(base, name)
Plain == [rcode |-> "noerror", answers |-> <<>>, soa |-> FALSE, drop |-> FALSE, policy |-> FALSE]
Refused == [Plain EXCEPT !.rcode = "refused"]
Dropped == [Plain EXCEPT !.drop = TRUE]
Answers(s) == [Plain EXCEPT !.answers = s]
Negative(rcode) == [Plain EXCEPT !.rcode = rcode, !.soa = TRUE]
Nowhere == <<>>

\* Faulty variant: any zone above the name will do.
FindZoneShortest(name) ==
  LET above == {z \in zones : Below(name, z)} IN
    IF above = {} THEN Nowhere ELSE CHOOSE z \in above : \A y \in above : Len(z) <= Len(y)

\* find_zone: the most specific zone at or above the name.
FindZone(name) ==
  LET above == {z \in zones : Below(name, z)} IN
    IF above = {} THEN Nowhere ELSE CHOOSE z \in above : \A y \in above : Len(y) <= Len(z)

InZone(z) == {r \in records : r.zone = z}

\* records_at.
RecordsAt(z, name) == {r \in InZone(z) : r.owner = name}

Sources(z, name) ==
  {r \in InZone(z) : /\ Last(r.owner) = "*"
                     /\ Below(name, Front(r.owner))
                     /\ name # Front(r.owner)}

\* Faulty variant: the wildcard furthest up.
WildcardAtTop(z, name) ==
  {[r EXCEPT !.owner = name] :
     r \in {s \in Sources(z, name) : \A o \in Sources(z, name) : Len(s.owner) <= Len(o.owner)}}

\* wildcard_at: the records of the closest wildcard, owned by the name asked for.
WildcardAt(z, name) ==
  {[r EXCEPT !.owner = name] :
     r \in {s \in Sources(z, name) : \A o \in Sources(z, name) : Len(o.owner) <= Len(s.owner)}}

OfType(rs, type) == SetToSeq({r \in rs : r.type = type})

\* Faulty variant: the target's own alias is left out of the answer.
ChasedSkipping(target, type) ==
  LET at(n) == RecordsAt(FindZone(n), n)
      step[d \in 0..Depth, n \in {r.target : r \in Rows} \cup {x.to : x \in Rules}] ==
        IF d = Depth \/ FindZone(n) = Nowhere THEN <<>>
        ELSE LET alias == OfType(at(n), "CNAME") IN
          IF alias # <<>> THEN step[d + 1, Head(alias).target]
          ELSE OfType(at(n), type)
  IN step[0, target]

\* chase_cname: from a target on through the zones, Depth aliases at the most.
Chased(target, type) ==
  LET at(n) == RecordsAt(FindZone(n), n)
      step[d \in 0..Depth, n \in {r.target : r \in Rows} \cup {x.to : x \in Rules}] ==
        IF d = Depth \/ FindZone(n) = Nowhere THEN <<>>
        ELSE LET alias == OfType(at(n), "CNAME") IN
          IF alias # <<>> THEN <<Head(alias)>> \o step[d + 1, Head(alias).target]
          ELSE OfType(at(n), type)
  IN step[0, target]

\* answer_at: the exact type, else an alias followed, else no data.
AnswerAt(rs, type) ==
  LET exact == OfType(rs, type)
      alias == OfType(rs, "CNAME")
  IN IF exact # <<>> THEN Answers(exact)
     ELSE IF type # "CNAME" /\ alias # <<>>
       THEN Answers(<<Head(alias)>> \o Chased(Head(alias).target, type))
     ELSE Negative("noerror")

\* rpz_matches: exact, or "*.suffix" for the suffix and what lies below it.
Matches(name, domain) ==
  IF Last(domain) = "*" THEN Below(name, Front(domain)) ELSE name = domain

Weight(rule) == Len(SelectSeq(rule.domain, LAMBDA l : l # "*"))

\* rpz_action: the matching rules of the most specific domain.
RpzAction(name) ==
  LET hit == {r \in rpz : Matches(name, r.domain)} IN
    {r \in hit : \A s \in hit : Weight(s) <= Weight(r)}

\* apply_rpz_inner.
ApplyRpz(rule, name, type) ==
  CASE rule.action = "nxdomain" -> [Plain EXCEPT !.rcode = "nxdomain"]
    [] rule.action = "nodata" -> Plain
    [] rule.action = "drop" -> Dropped
    [] rule.action = "redirect" ->
         LET cname == [zone |-> Nowhere, owner |-> name, type |-> "CNAME", target |-> rule.to] IN
           Answers(<<cname>> \o IF type = "CNAME" THEN <<>> ELSE Chased(rule.to, type))

\* The part of resolve_in below the policy.
Authoritative(name, type) ==
  LET z == FindZone(name)
      at == RecordsAt(z, name)
      wild == WildcardAt(z, name)
  IN IF z = Nowhere THEN Refused
     ELSE IF name = z \/ at # {} THEN AnswerAt(at, type)
     ELSE IF wild # {} THEN AnswerAt(wild, type)
     ELSE Negative("nxdomain")

\* resolve_in: the policy first, whether or not the name is ours.
Resolve(name, type) ==
  IF RpzAction(name) # {}
    THEN {[ApplyRpz(rule, name, type) EXCEPT !.policy = TRUE] : rule \in RpzAction(name)}
    ELSE {Authoritative(name, type)}

Init ==
  /\ zones \in SUBSET Apexes
  /\ records \in {s \in SUBSET Rows : Cardinality(s) <= MaxRows}
  /\ rpz \in {s \in SUBSET Rules : Cardinality(s) <= MaxRules}
  /\ asked \in [name : Questions, type : Types]
  /\ reply = None

\* answer, up to the message.
Answer ==
  /\ reply = None
  /\ reply' \in Resolve(asked.name, asked.type)
  /\ UNCHANGED <<zones, records, rpz, asked>>

Next == Answer

----------------------------------------------------------------------------
(* Properties *)

Replied == reply # None
Ours == Replied /\ ~reply.policy

\* The answer is a chain: it starts at the name asked for, every alias but the
\* last leads to the owner of the record after it, and an answer that ends in an
\* alias the client did not ask for ends where the zones end or a loop was cut.
ChainLinked ==
  Replied => LET s == reply.answers IN
    /\ s # <<>> => s[1].owner = asked.name
    /\ \A i \in 1..(Len(s) - 1) :
         s[i + 1].owner = IF s[i].type = "CNAME" /\ asked.type # "CNAME"
                          THEN s[i].target ELSE s[i].owner
    /\ Len(s) <= Depth + 1 + Cardinality(Rows)

\* Authority is not shared: a record found at a name, also one that a chain or a
\* policy leads to, is of the most specific zone enabled for that name, so a zone
\* that holds a child zone's old records never answers with them; a record at the
\* first name may be a wildcard's, but only when the zone has none of that name.
AnswersBelong ==
  Replied => \A i \in 1..Len(reply.answers) :
    LET r == reply.answers[i]
        z == {y \in zones : Below(r.owner, y) /\ \A x \in zones : Below(r.owner, x) => Len(x) <= Len(y)}
    IN \/ \E y \in z : r \in InZone(y)
       \/ reply.policy /\ i = 1
       \/ /\ i = 1
          /\ \E y \in z : \A o \in InZone(y) : o.owner # r.owner

\* The closest wildcard decides: an answer by a wildcard is never that of one
\* further up when a closer one of the zone also covers the name, and a name is
\* denied only when no enabled record and no wildcard of its zone covers it.
WildcardClosest ==
  Ours /\ reply.rcode \in {"noerror", "nxdomain"} =>
    LET z == FindZone(asked.name)
        covers(r) == /\ Last(r.owner) = "*"
                     /\ Len(r.owner) <= Len(asked.name)
                     /\ \A i \in 1..(Len(r.owner) - 1) : r.owner[i] = asked.name[i]
        exact == {r \in InZone(z) : r.owner = asked.name}
        wild == {r \in InZone(z) : covers(r)}
    IN /\ reply.rcode = "nxdomain" => exact \cup wild = {} /\ asked.name # z
       /\ exact = {} /\ asked.name # z /\ reply.answers # <<>> =>
            \E r \in wild : /\ \A s \in wild : Len(s.owner) <= Len(r.owner)
                            /\ reply.answers[1] = [r EXCEPT !.owner = asked.name]
=============================================================================
