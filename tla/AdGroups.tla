------------------------------ MODULE AdGroups ------------------------------
(* The membership of one AD group on domain controllers that replicate it.     *)
(* Every member is a link with a stamp of its own, absent links included. A     *)
(* local edit and the merge of a replicated group both read the whole list of   *)
(* links, change it and write it back; the controller serves the list it built  *)
(* at startup.                                                                  *)
EXTENDS Integers, FiniteSets

CONSTANTS
  GroupDCs,    \* invocation ids, numbers: they are compared
  Members,     \* member SIDs
  Editors,     \* requests that edit the group, on any controller
  MaxEdits, MaxResets, MaxRestarts, MaxGroupClock     \* bounds

VARIABLES
  groupClock,  \* wall clock, in seconds
  links,       \* links[d][m]: the stored link, or NoLink
  servedLinks, \* servedLinks[d]: the links as built at d's startup
  groupUsn,    \* groupUsn[d]: highest_usn
  task,        \* task[t]: an edit, or a controller's merge, between read and write
  lost,        \* controllers that ever lost links: by a reset or an overlapping write
  edits, resets, groupRestarts

groupVars ==
  <<groupClock, links, servedLinks, groupUsn, task, lost, edits, resets, groupRestarts>>

\* The editors, and the replication agent of each controller.
Tasks == Editors \cup GroupDCs
NoLink == [version |-> 0]
NoTask == [at |-> "idle"]
NoLinks == [m \in Members |-> NoLink]

\* ReplStamp::wins_over.
LinkWins(a, b) ==
  \/ a.version > b.version
  \/ a.version = b.version /\ a.time > b.time
  \/ a.version = b.version /\ a.time = b.time /\ a.dsa > b.dsa

----------------------------------------------------------------------------
\* Faulty variant: a local edit keeps the version.
NextVersionSame(link) == link.version

NextVersion(link) == link.version + 1

\* set_group_member_local: the list is read and a USN allocated ...
BeginEdit(t, d, m, present) ==
  /\ task[t] = NoTask
  /\ edits < MaxEdits
  /\ edits' = edits + 1
  /\ groupUsn' = [groupUsn EXCEPT ![d] = @ + 1]
  /\ task' = [task EXCEPT ![t] =
       [at |-> "edit", dc |-> d, read |-> links[d],
        new |-> [links[d] EXCEPT ![m] =
          [version |-> NextVersion(@), time |-> groupClock, dsa |-> d, usn |-> groupUsn[d] + 1,
           present |-> present]]]]
  /\ UNCHANGED <<groupClock, links, servedLinks, lost, resets, groupRestarts>>

\* A replication cycle of d from e: what e serves arrives. (A delta that leaves the
\* group out, by the cursor or by dampening, changes nothing.)
BeginGroupPull(d, e) ==
  /\ d # e
  /\ task[d] = NoTask
  /\ task' = [task EXCEPT ![d] = [at |-> "pulled", dc |-> d, incoming |-> servedLinks[e]]]
  /\ UNCHANGED <<groupClock, links, servedLinks, groupUsn, lost, edits, resets, groupRestarts>>

\* Faulty variant: what comes in replaces what is there.
TakesAlways(in, cur) == in # NoLink

\* A link that is not there yet, or one that wins.
Takes(in, cur) == in # NoLink /\ (cur = NoLink \/ LinkWins(in, cur))

\* apply_replicated_group: the list is read and merged link by link.
ReadLinks(d) ==
  /\ task[d].at = "pulled"
  /\ LET in == task[d].incoming IN
     task' = [task EXCEPT ![d] =
       [at |-> "merge", dc |-> d, read |-> links[d],
        new |-> [m \in Members |-> IF Takes(in[m], links[d][m]) THEN in[m] ELSE links[d][m]]]]
  /\ UNCHANGED <<groupClock, links, servedLinks, groupUsn, lost, edits, resets, groupRestarts>>

\* A task whose list was written since it read it.
Stale(t) == task[t].read # links[task[t].dc]

\* write_group_stamped: the whole list, in one transaction. (An edit that found the
\* group writes it even if it was deleted since.)
WriteLinks(t) ==
  /\ task[t].at \in {"edit", "merge"}
  /\ links' = [links EXCEPT ![task[t].dc] = task[t].new]
  /\ task' = [task EXCEPT ![t] = NoTask]
  /\ lost' = IF Stale(t) THEN lost \cup {task[t].dc} ELSE lost
  /\ UNCHANGED <<groupClock, servedLinks, groupUsn, edits, resets, groupRestarts>>

\* upsert_ad_group for a group that exists (LDAP adds it again), and
\* delete_replicated_group: the links go, absent ones too.
Reset(d) ==
  /\ links[d] # NoLinks
  /\ resets < MaxResets
  /\ resets' = resets + 1
  /\ links' = [links EXCEPT ![d] = NoLinks]
  /\ lost' = lost \cup {d}
  /\ UNCHANGED <<groupClock, servedLinks, groupUsn, task, edits, groupRestarts>>

\* d starts again on its store: the edits of its requests and its merge are given up.
GroupRestart(d) ==
  /\ groupRestarts < MaxRestarts
  /\ groupRestarts' = groupRestarts + 1
  /\ servedLinks' = [servedLinks EXCEPT ![d] = links[d]]
  /\ task' = [t \in Tasks |-> IF task[t] # NoTask /\ task[t].dc = d THEN NoTask ELSE task[t]]
  /\ UNCHANGED <<groupClock, links, groupUsn, lost, edits, resets>>

GroupTick ==
  /\ groupClock < MaxGroupClock
  /\ groupClock' = groupClock + 1
  /\ UNCHANGED <<links, servedLinks, groupUsn, task, lost, edits, resets, groupRestarts>>

\* A group that one controller has just created.
GroupInit ==
  /\ groupClock = 0
  /\ links = [d \in GroupDCs |-> NoLinks] /\ servedLinks = links
  /\ groupUsn = [d \in GroupDCs |-> 0]
  /\ task = [t \in Tasks |-> NoTask]
  /\ lost = {} /\ edits = 0 /\ resets = 0 /\ groupRestarts = 0

GroupNext ==
  \/ \E t \in Editors, d \in GroupDCs, m \in Members, present \in BOOLEAN :
       BeginEdit(t, d, m, present)
  \/ \E d, e \in GroupDCs : BeginGroupPull(d, e)
  \/ \E d \in GroupDCs : ReadLinks(d) \/ Reset(d) \/ GroupRestart(d)
  \/ \E t \in Tasks : WriteLinks(t)
  \/ GroupTick

GroupSpec == GroupInit /\ [][GroupNext]_groupVars

----------------------------------------------------------------------------
(* Properties *)

Link ==
  [version : Nat \ {0}, time : 0..MaxGroupClock, dsa : GroupDCs, usn : Nat, present : BOOLEAN]

GroupTypeOK ==
  /\ \A d \in GroupDCs, m \in Members : links[d][m] \in Link \cup {NoLink}
  /\ groupUsn \in [GroupDCs -> Nat]
  /\ \A t \in Tasks : task[t].at \in {"idle", "pulled", "edit", "merge"}

\* A step that puts a link back to an older stamp, or drops it, is a reset, or the
\* write of a task that read its list before another task wrote it.
LinksForward ==
  \A d \in GroupDCs, m \in Members :
    (links[d][m] # NoLink /\ (links'[d][m] = NoLink \/ LinkWins(links[d][m], links'[d][m]))) =>
      \/ resets' # resets
      \/ \E t \in Tasks : WriteLinks(t) /\ task[t].dc = d /\ Stale(t)

\* Controllers that hold a member's link under the same version, time and origin, which
\* is all that wins_over compares, agree on whether the member is present. Excepted are
\* links of a controller that lost its versions: by a reset, or by an update that
\* another one overwrote.
SameStampSameState ==
  \A d, e \in GroupDCs, m \in Members :
    /\ links[d][m] # NoLink /\ links[e][m] # NoLink
    /\ ~LinkWins(links[d][m], links[e][m]) /\ ~LinkWins(links[e][m], links[d][m])
    /\ links[d][m].dsa \notin lost
    => links[d][m].present = links[e][m].present

\* A membership change, once stored, is undone only by a newer one: a merge never takes
\* an older link, a removal survives as an absent link. The two exceptions are the lost
\* update of overlapping writers, and a group that is added again or deleted. And
\* controllers whose links carry one stamp agree on whether the member is present.
LinksAdvance ==
  /\ [](GroupTypeOK /\ SameStampSameState)
  /\ [][LinksForward]_groupVars
=============================================================================
