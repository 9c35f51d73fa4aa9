------------------------------- MODULE Pages -------------------------------
(* The pages of the web console as the browser runs them.  A page lists what    *)
(* a server function returned, and changes it through forms, confirmation       *)
(* dialogs and buttons, each a server action: its answer arrives later, closes  *)
(* the form, shows a message and reloads the list.  One part of a page runs,    *)
(* against rows that other operators change too.                                *)
EXTENDS Naturals, FiniteSets

CONSTANTS
  Rows,         \* rows that the list may hold
  MaxCalls,     \* bound on calls of this page
  MaxOthers,    \* bound on changes by other operators, and on reloads by hand
  MaxFaults     \* bound on failing calls and loads, and on lost answers

VARIABLES
  part,         \* the part of a page that runs
  store,        \* row -> [at, live]: its last change, and whether the row exists
  clock,        \* changes so far
  shown,        \* the list on the page: [ok, at], at[row] the change it shows
  gen,          \* the page's reload counter
  loads,        \* loads under way: [gen, served, at]
  form,         \* [open, opening, typed, populated]
  dialog,       \* [open, target], target 0 for none
  counting,     \* rows whose count is fetched before the dialog opens
  read,         \* the row whose name the user has read in the dialog
  calls,        \* calls under way: [row, opening, read, state, at, crossed]
  own,          \* row -> the change this page was told was made
  applied,      \* openings whose content was applied, with how often: opening -> Nat
  message,      \* what the page said last: "none", "ok", "error"
  spent         \* [calls, others, faults, lost]

vars == <<part, store, clock, shown, gen, loads, form, dialog, counting, read, calls,
          own, applied, message, spent>>

\* A part: its control, whether the control is disabled while a call is pending,
\* whether a success reloads the list, whether a failure is shown.
Part(kind, guarded, reloads, told) ==
  [kind |-> kind, guarded |-> guarded, reloads |-> reloads, told |-> told]

Form == Part("form", TRUE, TRUE, TRUE)              \* opens for a row or a new one
Quiet == Part("form", TRUE, FALSE, TRUE)            \* changes nothing that is listed
Inline == Part("inline", TRUE, TRUE, TRUE)          \* always there
InlineQuiet == Part("inline", TRUE, FALSE, TRUE)
Dialog == Part("dialog", FALSE, TRUE, TRUE)         \* asks before it deletes
DialogGuarded == Part("dialog", TRUE, TRUE, TRUE)
DialogSilent == Part("dialog", FALSE, TRUE, FALSE)
Counted == Part("counted", FALSE, TRUE, FALSE)      \* asks once it knows a count
Button == Part("button", FALSE, TRUE, TRUE)
ButtonSilent == Part("button", FALSE, TRUE, FALSE)
ButtonGuarded == Part("button", TRUE, TRUE, TRUE)
Once == Part("once", TRUE, FALSE, TRUE)             \* a form filled by the first load
OnceReloads == Part("once", TRUE, TRUE, TRUE)
Each == Part("each", TRUE, TRUE, TRUE)              \* a form filled by every load
Listing == Part("listing", FALSE, FALSE, FALSE)

----------------------------------------------------------------------------
\* What each page offers: the forms, dialogs and buttons that change its rows, and
\* the list of them.

\* Pages of DNS.
ZoneEdits == {Form, Counted}
ZoneList == {Listing}
RecordForm == {Form}
RecordDelete == {DialogSilent}
RecordList == {Listing}
RpzEdits == {Form, DialogSilent}
RpzList == {Listing}
GeoEdits == {Form, ButtonSilent, DialogSilent}
GeoList == {Listing}
DnssecPage == {ButtonGuarded, Listing}
ForwardersForm == {Once}
DdnsEdits == {Once, ButtonGuarded}
ReplicationEdits == {Form, Inline, DialogSilent}
ReplicationList == {Listing}
ReplicationSlideover == {Form}
QueryLogs == {Listing}
QueryTest == {InlineQuiet}
DnsMetrics == {Listing}

\* Pages of DHCP.
PoolEdits == {Form, Counted}
PoolList == {Listing}
ReservationEdits == {Form, DialogSilent}
ReservationList == {Listing}
LeasePage == {DialogSilent, Listing}
DhcpConfigForm == {OnceReloads}
DhcpMetrics == {Listing}

\* Pages of LDAP.
UserEdits == {Form, ButtonSilent, DialogSilent, Quiet}
UserList == {Listing}
GroupEdits == {Form, Button, ButtonSilent, DialogSilent}
GroupList == {Listing}
LdapAclEdits == {Form, ButtonSilent, DialogSilent}
LdapAclList == {Listing}
EntryTree == {Listing}
EntryMove == {ButtonGuarded}
ComputerPage == {Form, Dialog, Listing}
OuPage == {Form, Dialog, Listing}
SyncStatus == {Listing}
LdapMetrics == {Listing}

\* Pages of mail.
MailUserEdits == {Form, ButtonSilent, Quiet, DialogSilent}
MailUserList == {Listing}
DomainEdits == {Form, Dialog}
DomainList == {Listing}
AliasEdits == {Form, DialogSilent}
AliasList == {Listing}
ListEdits == {Form, Button, ButtonSilent, DialogSilent}
ListList == {Listing}
MessageList == {Listing}
ProtocolsForm == {Once}
DkimPage == {ButtonGuarded, Listing}
BackupMxEdits == {Form, Dialog, Button}
BackupMxList == {Listing}
MailReplStatus == {Listing}
RelayForm == {Once}
MailSettingsForm == {Once}
MailMetrics == {Listing}

\* Pages of proxy.
VhostForm == {Form}
VhostRows == {ButtonSilent, Dialog, Listing}
CertificateEdits == {Form, Dialog, Each}
CertificateList == {Listing}
AclEdits == {Form, ButtonSilent, DialogSilent}
AclList == {Listing}
ForwardRuleEdits == {Form, ButtonSilent, DialogSilent}
ForwardRuleList == {Listing}
ForwardUserPage == {Form, ButtonSilent, DialogSilent, Listing}
IpBlockEdits == {Form, ButtonSilent, DialogSilent}
IpBlockList == {Listing}
AccessLogs == {Listing}
ProxyHealth == {Listing}

\* Pages of Kubernetes.
K8sHostPage == {Form, Dialog, Listing}
ClusterEdits == {Form, DialogSilent}
ClusterList == {Listing}
WorkloadEdits == {Form, InlineQuiet}
WorkloadList == {Listing}
AlertRuleEdits == {Form, ButtonSilent, DialogSilent}
AlertRuleList == {Listing}
TemplatePage == {Form, DialogSilent, Listing}

\* Pages of SSO.
ProviderEdits == {Form, Dialog}
ProviderList == {Listing}
ClientEdits == {Form, Button, Dialog}
ClientList == {Listing}
SessionPage == {DialogSilent, Listing}
SinkPage == {Form, ButtonSilent, DialogSilent, Listing}

\* Pages of monitoring.
WatchHostEdits == {Form, DialogSilent}
WatchHostList == {Listing}
WatchRuleEdits == {Form, ButtonSilent, DialogSilent}
WatchRuleList == {Listing}
WatchGroupEdits == {Form, DialogSilent}
WatchGroupList == {Listing}
WindowEdits == {Form, DialogSilent}
WindowList == {Listing}
HostMetrics == {Listing}

\* Pages of the domain controller.
GpoEdits == {Form, DialogSilent}
GpoList == {Listing}
ScriptPage == {Form, DialogSilent, Listing}
JoinForm == {InlineQuiet}
LeaveForm == {InlineQuiet}
FsmoPage == {DialogGuarded, Listing}
AddcStatus == {Listing}

\* Pages of the console itself.
AccountEdits == {Form, Button, Dialog, Quiet}
AccountList == {Listing}
PortalPage == {DialogSilent, Listing}
AlertButtons == {ButtonSilent}
AlertList == {Listing}
TargetEdits == {Form, ButtonSilent, Dialog}
TargetList == {Listing}
AuditList == {Listing}
BackupEdits == {Form, Dialog}
BackupList == {Listing}
LogList == {Listing}
LoginPage == {InlineQuiet, Listing}
SetupForm == {InlineQuiet}
SettingsForm == {Each}
DashboardCards == {Listing}
ShellInfo == {Listing}

AllParts ==
  UNION {ZoneEdits, ZoneList, RecordForm, RecordDelete, RecordList, RpzEdits, RpzList,
   GeoEdits, GeoList, DnssecPage, ForwardersForm, DdnsEdits, ReplicationEdits,
   ReplicationList, ReplicationSlideover, QueryLogs, QueryTest, DnsMetrics,
   PoolEdits, PoolList, ReservationEdits, ReservationList, LeasePage,
   DhcpConfigForm, DhcpMetrics, UserEdits, UserList, GroupEdits, GroupList,
   LdapAclEdits, LdapAclList, EntryTree, EntryMove, ComputerPage, OuPage,
   SyncStatus, LdapMetrics, MailUserEdits, MailUserList, DomainEdits,
   DomainList, AliasEdits, AliasList, ListEdits, ListList, MessageList,
   ProtocolsForm, DkimPage, BackupMxEdits, BackupMxList, MailReplStatus,
   RelayForm, MailSettingsForm, MailMetrics, VhostForm, VhostRows,
   CertificateEdits, CertificateList, AclEdits, AclList, ForwardRuleEdits,
   ForwardRuleList, ForwardUserPage, IpBlockEdits, IpBlockList, AccessLogs,
   ProxyHealth, K8sHostPage, ClusterEdits, ClusterList, WorkloadEdits,
   WorkloadList, AlertRuleEdits, AlertRuleList, TemplatePage, ProviderEdits,
   ProviderList, ClientEdits, ClientList, SessionPage, SinkPage,
   WatchHostEdits, WatchHostList, WatchRuleEdits, WatchRuleList,
   WatchGroupEdits, WatchGroupList, WindowEdits, WindowList, HostMetrics,
   GpoEdits, GpoList, ScriptPage, JoinForm, LeaveForm, FsmoPage, AddcStatus,
   AccountEdits, AccountList, PortalPage, AlertButtons, AlertList,
   TargetEdits, TargetList, AuditList, BackupEdits, BackupList, LogList,
   LoginPage, SetupForm, SettingsForm, DashboardCards, ShellInfo}

----------------------------------------------------------------------------
Fault == spent.faults < MaxFaults
Faulty == [spent EXCEPT !.faults = @ + 1]
First == CHOOSE r \in Rows : \A s \in Rows : r <= s
Asks == part.kind \in {"dialog", "counted"}
Fields == part.kind \in {"form", "inline", "once", "each"}
Stamps == [r \in Rows |-> store[r].at]
Load(g) == [gen |-> g, served |-> FALSE, at |-> [r \in Rows |-> 0]]

\* The reload counter moves on: a load starts, and what it supersedes is not shown.
Reloads == gen' = gen + 1 /\ loads' = loads \cup {Load(gen + 1)}

\* The server reads the rows for a load.
Serve ==
  \E l \in loads :
    /\ ~l.served
    /\ loads' = (loads \ {l}) \cup {[l EXCEPT !.served = TRUE, !.at = Stamps]}
    /\ UNCHANGED <<part, store, clock, shown, gen, form, dialog, counting, read, calls, own,
                   applied, message, spent>>

\* Mutant: the answer of a superseded load is shown too.
Newest_Any(l) == TRUE

\* A resource drops the answer of a load that a newer one superseded.
Newest(l) == l.gen = gen

\* Mutant: every load fills the form.
Fills_Each == part.kind \in {"once", "each"}

\* A form is filled by the first load, or by each.
Fills == part.kind = "each" \/ (part.kind = "once" /\ ~form.populated)

\* A load arrives, or fails.
Arrive ==
  \E l \in loads :
    /\ l.served
    /\ loads' = loads \ {l}
    /\ \/ /\ shown' = IF Newest(l) THEN [ok |-> TRUE, at |-> l.at] ELSE shown
          /\ form' = IF Newest(l) /\ Fills
                       THEN [form EXCEPT !.typed = FALSE, !.populated = TRUE] ELSE form
          /\ spent' = spent
       \/ /\ Fault
          /\ shown' = IF Newest(l) THEN [shown EXCEPT !.ok = FALSE] ELSE shown
          /\ form' = form
          /\ spent' = Faulty
    /\ UNCHANGED <<part, store, clock, gen, dialog, counting, read, calls, own, applied, message>>

\* ErrorState's retry, and the buttons that load again.
Retry ==
  /\ \/ ~shown.ok /\ spent' = spent
     \/ spent.others < MaxOthers /\ spent' = [spent EXCEPT !.others = @ + 1]
  /\ loads = {}
  /\ Reloads
  /\ UNCHANGED <<part, store, clock, shown, form, dialog, counting, read, calls, own, applied, message>>

\* Another operator changes a row.
Other ==
  /\ spent.others < MaxOthers
  /\ clock' = clock + 1
  /\ \E r \in Rows, live \in BOOLEAN : store' = [store EXCEPT ![r] = [at |-> clock + 1, live |-> live]]
  /\ spent' = [spent EXCEPT !.others = @ + 1]
  /\ UNCHANGED <<part, shown, gen, loads, form, dialog, counting, read, calls, own, applied, message>>

\* The user opens the form, types into it, or closes it.
Open ==
  /\ part.kind = "form" /\ ~form.open
  /\ form' = [form EXCEPT !.open = TRUE, !.opening = @ + 1, !.typed = FALSE]
  /\ form.opening < MaxCalls + 1
  /\ UNCHANGED <<part, store, clock, shown, gen, loads, dialog, counting, read, calls, own, applied, message, spent>>

Type ==
  /\ Fields /\ form.open /\ ~form.typed
  /\ part.kind \in {"once", "each"} => shown.ok
  /\ form' = [form EXCEPT !.typed = TRUE]
  /\ UNCHANGED <<part, store, clock, shown, gen, loads, dialog, counting, read, calls, own, applied, message, spent>>

Cancel ==
  /\ part.kind = "form" /\ form.open
  /\ form' = [form EXCEPT !.open = FALSE, !.typed = FALSE]
  /\ UNCHANGED <<part, store, clock, shown, gen, loads, dialog, counting, read, calls, own, applied, message, spent>>

\* Mutant: a pending call does not disable the control.
Enabled_Always == TRUE

\* The control is not disabled by a pending call.
Enabled == part.guarded => calls = {}

Call(r, opening, was) ==
  [row |-> r, opening |-> opening, read |-> was, state |-> "out", at |-> 0, crossed |-> FALSE]

\* A server action is dispatched.
Dispatch(c) ==
  /\ spent.calls < MaxCalls
  /\ spent' = [spent EXCEPT !.calls = @ + 1]
  /\ calls' = calls \cup {c}

Submit ==
  /\ Fields /\ form.open /\ form.typed /\ Enabled
  /\ \E r \in IF part.kind = "form" THEN Rows ELSE {First} : Dispatch(Call(r, form.opening, 0))
  /\ UNCHANGED <<part, store, clock, shown, gen, loads, form, dialog, counting, read, own, applied, message>>

Press ==
  /\ part.kind = "button" /\ shown.ok /\ Enabled
  /\ \E r \in Rows : Dispatch(Call(r, 0, 0))
  /\ UNCHANGED <<part, store, clock, shown, gen, loads, form, dialog, counting, read, own, applied, message>>

\* Mutant: every dialog fetches a count first.
Ask_Late ==
  /\ Asks /\ ~dialog.open /\ shown.ok /\ Enabled
  /\ \E r \in Rows \ counting : counting' = counting \cup {r}
  /\ UNCHANGED <<part, store, clock, shown, gen, loads, form, dialog, read, calls, own, applied, message, spent>>

\* The user clicks the delete button of a row: the dialog opens, or a count is fetched.
Ask ==
  /\ Asks /\ ~dialog.open /\ shown.ok /\ Enabled
  /\ \E r \in Rows \ counting :
       IF part.kind = "counted"
         THEN counting' = counting \cup {r} /\ dialog' = dialog
         ELSE dialog' = [open |-> TRUE, target |-> r] /\ counting' = counting
  /\ UNCHANGED <<part, store, clock, shown, gen, loads, form, read, calls, own, applied, message, spent>>

\* request_delete goes on when the count arrives (0 when that failed).
CountArrives ==
  \E r \in counting :
    /\ counting' = counting \ {r}
    /\ dialog' = [open |-> TRUE, target |-> r]
    /\ UNCHANGED <<part, store, clock, shown, gen, loads, form, read, calls, own, applied, message, spent>>

\* The user reads the dialog's text and makes up their mind.
Reads ==
  /\ dialog.open /\ read = 0
  /\ read' = dialog.target
  /\ UNCHANGED <<part, store, clock, shown, gen, loads, form, dialog, counting, calls, own, applied, message, spent>>

\* on_confirm, and the effect that drops the target of a closed dialog.
Confirm ==
  /\ dialog.open /\ read # 0
  /\ Dispatch(Call(dialog.target, 0, read))
  /\ dialog' = [open |-> FALSE, target |-> 0]
  /\ read' = 0
  /\ UNCHANGED <<part, store, clock, shown, gen, loads, form, counting, own, applied, message>>

Dismiss ==
  /\ dialog.open
  /\ dialog' = [open |-> FALSE, target |-> 0]
  /\ read' = 0
  /\ UNCHANGED <<part, store, clock, shown, gen, loads, form, counting, calls, own, applied, message, spent>>

\* The server function runs: it changes the row, or refuses.
Run ==
  \E c \in calls :
    /\ c.state = "out"
    /\ \/ /\ clock' = clock + 1
          /\ store' = [store EXCEPT ![c.row] = [at |-> clock + 1, live |-> ~Asks]]
          /\ applied' = [applied EXCEPT ![c.opening] = @ + 1]
          /\ calls' = (calls \ {c}) \cup {[c EXCEPT !.state = "done", !.at = clock + 1]}
          /\ spent' = spent
       \/ /\ Fault
          /\ calls' = (calls \ {c}) \cup {[c EXCEPT !.state = "failed"]}
          /\ spent' = Faulty
          /\ UNCHANGED <<clock, store, applied>>
    /\ UNCHANGED <<part, shown, gen, loads, form, dialog, counting, read, own, message>>

\* The answer of a call that was made is lost on the way: the page sees a failure.
Lose ==
  \E c \in calls :
    /\ c.state = "done" /\ Fault
    /\ calls' = (calls \ {c}) \cup {[c EXCEPT !.state = "failed"]}
    /\ spent' = [Faulty EXCEPT !.lost = TRUE]
    /\ UNCHANGED <<part, store, clock, shown, gen, loads, form, dialog, counting, read, own, applied, message>>

\* The effect on an action's value: a success closes the form, is shown and reloads;
\* a failure is shown, or dropped. An action whose calls overlap may ignore the answer
\* of a call that another one's answer crossed.
Answer ==
  \E c \in calls :
    /\ c.state # "out"
    /\ calls' = {[d EXCEPT !.crossed = TRUE] : d \in calls \ {c}}
    /\ \/ /\ c.state = "done"
          /\ message' = "ok"
          /\ own' = IF part.reloads THEN [own EXCEPT ![c.row] = IF @ > c.at THEN @ ELSE c.at] ELSE own
          /\ form' = CASE part.kind = "form" -> [form EXCEPT !.open = FALSE, !.typed = FALSE]
                       [] part.kind = "inline" -> [form EXCEPT !.typed = FALSE, !.opening = @ + 1]
                       [] OTHER -> [form EXCEPT !.opening = @ + 1]
          /\ IF part.reloads THEN Reloads ELSE UNCHANGED <<gen, loads>>
       \/ /\ c.state = "failed"
          /\ message' = IF part.told THEN "error" ELSE message
          /\ UNCHANGED <<own, form, gen, loads>>
       \/ c.crossed /\ UNCHANGED <<message, own, form, gen, loads>>
    /\ UNCHANGED <<part, store, clock, shown, dialog, counting, read, applied, spent>>

Init ==
  /\ part \in AllParts
  /\ store = [r \in Rows |-> [at |-> 0, live |-> TRUE]]
  /\ clock = 0
  /\ shown = [ok |-> FALSE, at |-> [r \in Rows |-> 0]]
  /\ gen = 1
  /\ loads = {Load(1)}
  /\ form = [open |-> part.kind \in {"inline", "once", "each"}, opening |-> 1, typed |-> FALSE,
             populated |-> FALSE]
  /\ dialog = [open |-> FALSE, target |-> 0]
  /\ counting = {}
  /\ read = 0
  /\ calls = {}
  /\ own = [r \in Rows |-> 0]
  /\ applied = [n \in 0 .. 2 * MaxCalls + 1 |-> 0]
  /\ message = "none"
  /\ spent = [calls |-> 0, others |-> 0, faults |-> 0, lost |-> FALSE]

Next ==
  \/ Serve \/ Arrive \/ Retry \/ Other \/ Open \/ Type \/ Cancel \/ Submit \/ Press
  \/ Ask \/ CountArrives \/ Reads \/ Confirm \/ Dismiss \/ Run \/ Lose \/ Answer

Spec == Init /\ [][Next]_vars

----------------------------------------------------------------------------
\* The state keeps its shape.
TypeOK ==
  /\ \A r \in Rows : store[r].at <= clock /\ own[r] <= clock /\ shown.at[r] <= clock
  /\ \A l \in loads : l.gen <= gen
  /\ dialog.target \in Rows \cup {0} /\ (dialog.open <=> dialog.target # 0)
  /\ message \in {"none", "ok", "error"}

\* A page shows its own changes: once no load is under way and the last one succeeded,
\* the list is not older than any change the page was told was made, whatever order
\* the answers of calls and loads arrived in.
OwnChangesShown == loads = {} /\ shown.ok => \A r \in Rows : shown.at[r] >= own[r]

\* A dialog deletes only the row whose name the user read in it; but where a count is
\* fetched first, a late count may put another row in its place.
OnlyConfirmed ==
  part.kind = "dialog" => \A c \in calls : c.row = c.read

\* What was typed into a form is applied once, however often the user clicks, unless
\* the answer was lost and the user tries again.
AppliedOnce == ~spent.lost => \A n \in DOMAIN applied : n > 0 /\ Fields => applied[n] <= 1

\* A step may empty a form somebody typed into only if the user closed it or the answer
\* of a call that was made arrives; a load does not, but where each load fills the form.
InputKept ==
  form.typed /\ ~form'.typed /\ part.kind # "each" =>
    ~form'.open \/ \E c \in calls : c.state = "done" /\ c \notin calls'
=============================================================================
