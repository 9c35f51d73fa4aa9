----------------------------- MODULE MCRequests -----------------------------
(* Parts that serve overlapping requests, checked for safety in one run, one part *)
(* at a time: the allocation of RIDs (the constants of the configuration), SMTP   *)
(* connections, mailbox connections, the mail feed under every fault at once, the *)
(* answers the DNS server resolves, nodes that open one store at the same time,   *)
(* tables of rows and single rows, the SYSVOL    *)
(* files of two nodes and the SMB connection that serves them, and the pages of   *)
(* the web console.                                                               *)
EXTENDS RidPool, SmtpSession, Migrations, Settings, SmbConnection

CONSTANTS
  c1, c2,          \* two at once: front-ends of one store, connections or requests
  s1,              \* the store two front-ends share (Tier B)
  Parts            \* the parts that are run

\* The two differ only in name.
Swaps == Permutations({c1, c2})

SharedStore == [f \in {c1, c2} |-> s1]
SharedBase == [f \in {c1, c2} |-> RID_POOL_FIRST]

\* The zone z and its child a.z, with records on both sides of the cut, wildcards,
\* chains of CNAMEs that cross it and loop, and policy rules. Names are read from
\* the root.
Z == <<"z">>
A == <<"z", "a">>
MCApexes == {Z, A}
Row(z, o, t, to) == [zone |-> z, owner |-> o, type |-> t, target |-> to]
MCRows == {Row(Z, Z, "A", <<>>), Row(Z, <<"z", "b">>, "CNAME", <<"z", "a", "b">>),
           Row(Z, <<"z", "*">>, "A", <<>>), Row(A, <<"z", "a", "*">>, "A", <<>>),
           Row(A, <<"z", "a", "b">>, "CNAME", <<"z", "b">>), Row(A, <<"z", "a", "b">>, "A", <<>>),
           Row(Z, <<"z", "a", "b">>, "A", <<>>), Row(Z, <<"z", "c", "*">>, "CNAME", <<"z", "b">>)}
MCQuestions == {Z, A, <<"z", "b">>, <<"z", "a", "b">>, <<"z", "c", "d">>, <<"y">>}
MCRules == {[domain |-> <<"z", "a", "*">>, action |-> "redirect", to |-> <<"z", "b">>],
            [domain |-> <<"z", "b">>, action |-> "drop", to |-> <<>>],
            [domain |-> <<"z", "c", "d">>, action |-> "nxdomain", to |-> <<>>],
            [domain |-> <<"*">>, action |-> "nodata", to |-> <<>>]}

VARIABLES
  focus,     \* the part that runs
  v1, v2, v3, v4, v5, v6, v7, v8, v9, v10, v11, v12, v13, v14, v15   \* its variables, in the order of its module, where that is instantiated below

shared == <<v1, v2, v3, v4, v5, v6, v7, v8, v9, v10, v11, v12, v13, v14, v15>>

Mailboxes == INSTANCE MailboxSessions WITH
  Imap <- {c1, c2}, Pop <- {3}, Msgs <- {1, 2}, Folders <- {"INBOX"},
  Flags <- {"deleted"}, MaxStores <- 1, store <- v1, sess <- v2, behind <- v3,
  marked <- v4, stores <- v5

Feed == INSTANCE MailRepl WITH
  Msgs <- {1, 2}, FlagSets <- {"new", "seen"}, NoFlags <- "new", FEED_LIMIT <- 2,
  ALERT_AFTER_FAILURES <- 2, STUCK_AFTER_CYCLES <- 2, MaxWriters <- 1, Imported <- {},
  MayImport <- TRUE, MayHang <- TRUE, MaxClock <- 2, MaxFlagChanges <- 1,
  MaxFlips <- 0, MaxPrimaryCrashes <- 1, MaxSecondaryCrashes <- 1, MaxOutages <- 1,
  clock <- v1, log <- v2, used <- v3, writing <- v4, mail <- v5, cursor <- v6,
  pulling <- v7, pass <- v8, fails <- v9, stuck <- v10, link <- v11, spent <- v12

Resolve == INSTANCE DnsResolve WITH
  Apexes <- MCApexes, Rows <- MCRows, Questions <- MCQuestions, Rules <- MCRules,
  MaxRows <- 4, MaxRules <- 1, zones <- v1, records <- v2, rpz <- v3, asked <- v4,
  reply <- v5

Page == INSTANCE Pages WITH
  Rows <- {1, 2}, MaxCalls <- 2, MaxOthers <- 1, MaxFaults <- 1, part <- v1,
  store <- v2, clock <- v3, shown <- v4, gen <- v5, loads <- v6, form <- v7,
  dialog <- v8, counting <- v9, read <- v10, calls <- v11, own <- v12, applied <- v13,
  message <- v14, spent <- v15

\* Variables that the part in focus does not have are 0.
Rest13 == v13 = 0 /\ v14 = 0 /\ v15 = 0
Rest6 == v6 = 0 /\ v7 = 0 /\ v8 = 0 /\ v9 = 0 /\ v10 = 0 /\ v11 = 0 /\ v12 = 0 /\ Rest13
Rest1 == v1 = 0 /\ v2 = 0 /\ v3 = 0 /\ v4 = 0 /\ v5 = 0 /\ Rest6
from6 == <<v6, v7, v8, v9, v10, v11, v12, v13, v14, v15>>
from13 == <<v13, v14, v15>>

\* The parts whose modules are extended keep their own variables, which stay as they
\* begin while another part is in focus.
own == <<vars, smtpVars, schemaVars, tableVars, settingVars, sysvolVars, smbVars>>
OwnInit == Init /\ SmtpInit /\ SchemaInit /\ TablesInit /\ SettingsInit /\ SysvolInit /\ SmbInit

\* Where a part can begin in several ways, one of them will do while it stays so.
Quiet ==
  /\ focus # "schema" => holder = 1
  /\ focus # "tables" => family = Families.mx
  /\ focus # "settings" => kind = ProxyKv

Starts ==
  \/ focus \in {"rids", "smtp", "schema", "tables", "settings", "sysvol", "smb"} /\ Rest1
  \/ focus = "boxes" /\ Mailboxes!Init /\ Rest6
  \/ focus = "feed" /\ Feed!MailInit /\ Rest13
  \/ focus = "resolve" /\ Resolve!Init /\ Rest6
  \/ focus = "pages" /\ Page!Init

MCInit == focus \in Parts /\ OwnInit /\ Quiet /\ Starts

MCNext ==
  \/ focus = "rids" /\ Next /\ UNCHANGED <<focus, shared, smtpVars, schemaVars, tableVars, settingVars, sysvolVars, smbVars>>
  \/ focus = "smtp" /\ SmtpNext /\ UNCHANGED <<focus, shared, vars, schemaVars, tableVars, settingVars, sysvolVars, smbVars>>
  \/ focus = "schema" /\ SchemaNext /\ UNCHANGED <<focus, shared, vars, smtpVars, tableVars, settingVars, sysvolVars, smbVars>>
  \/ focus = "tables" /\ TablesNext /\ UNCHANGED <<focus, shared, vars, smtpVars, schemaVars, settingVars, sysvolVars, smbVars>>
  \/ focus = "settings" /\ SettingsNext /\ UNCHANGED <<focus, shared, vars, smtpVars, schemaVars, tableVars, sysvolVars, smbVars>>
  \/ focus = "sysvol" /\ SysvolNext /\ UNCHANGED <<focus, shared, vars, smtpVars, schemaVars, tableVars, settingVars, smbVars>>
  \/ focus = "smb" /\ SmbNext /\ UNCHANGED <<focus, shared, vars, smtpVars, schemaVars, tableVars, settingVars, sysvolVars>>
  \/ focus = "boxes" /\ Mailboxes!Next /\ UNCHANGED <<focus, own, from6>>
  \/ focus = "feed" /\ Feed!MailNext /\ UNCHANGED <<focus, own, from13>>
  \/ focus = "resolve" /\ Resolve!Next /\ UNCHANGED <<focus, own, from6>>
  \/ focus = "pages" /\ Page!Next /\ UNCHANGED <<focus, own>>

MCSpec == MCInit /\ [][MCNext]_<<focus, own, shared>>

\* Mail is lost to no session's old list: whatever is gone was marked deleted by a
\* client, and a session's own "STORE -FLAGS \Deleted" saves the message from its next
\* EXPUNGE.
MailboxKept ==
  /\ [](focus = "boxes" => Mailboxes!TypeOK /\ Mailboxes!GoneWereMarked)
  /\ [][focus = "boxes" => Mailboxes!RemovesMarked]_shared

\* Late imports, crashes of the primary and a hung primary may make the feed skip, but a
\* deletion sticks on the secondary, and no pass moves a stream cursor backwards; only a
\* failed one may send the secondary back to a full sync.
DeletionsStick ==
  /\ [](focus = "feed" => Feed!MailTypeOK /\ Feed!NoResurrection)
  /\ [][focus = "feed" => Feed!Forward]_shared

\* What the resolver answers is right: each CNAME leads to the owner of what follows it,
\* the records belong to the zone closest to the name, and a wildcard answers only for
\* names that nothing closer answers for.
AnswersRight ==
  focus = "resolve" =>
    /\ Resolve!ChainLinked
    /\ Resolve!AnswersBelong
    /\ Resolve!WildcardClosest

\* A page of the console is honest with its user: it comes to show the changes it reported
\* as made, deletes only what the user confirmed, applies what was typed once, and no
\* load empties a form somebody typed into.
PagesHonest ==
  /\ [](focus = "pages" => /\ Page!TypeOK /\ Page!OwnChangesShown
                           /\ Page!OnlyConfirmed /\ Page!AppliedOnce)
  /\ [][focus = "pages" => Page!InputKept]_shared
=============================================================================
