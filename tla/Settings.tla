------------------------------ MODULE Settings ------------------------------
(* The settings that are kept as the one row of a table of their own: nothing   *)
(* but the code that writes them keeps it one.  A save selects and then creates *)
(* or updates, or deletes and creates; a reader may write the default or the    *)
(* seed of the configuration file when it finds no row.  They are in the store  *)
(* of the tables of rows, which this module extends and shares nothing with.    *)
EXTENDS Tables

CONSTANTS
  Services,     \* requests and services that can be under way together
  MaxValues,    \* bound on the rows ever created
  MaxCalls,     \* bound on the calls
  MaxCallFaults \* bound on failing statements and crashes

VARIABLES
  kind,         \* the table
  rows,         \* its rows: id, value
  call,         \* what each caller is about to do
  settled,      \* the value of a save nothing overlapped, with no call since
  valuesMade, calls, callFaults

settingVars == <<kind, rows, call, settled, valuesMade, calls, callFaults>>

----------------------------------------------------------------------------
(* The tables: how they are saved, and what a reader that finds no row does.  *)

Setting(saves, reader) == [saves |-> saves, reader |-> reader, indexed |-> FALSE]

DnsForwarders == Setting("update", "save")
DdnsConfig == Setting("update", "save")
AcmeConfig == Setting("update", "save")
MailConfig == Setting("update", "save")
MailRelay == Setting("update", "save")
DhcpConfig == Setting("replace", "create")
AppSettings == Setting("replace", "nothing")
ServerIdentity == Setting("never", "create")
ProxyKv == [Setting("update", "nothing") EXCEPT !.indexed = TRUE]
DhcpCursor == Setting("update", "nothing")
SsoSerial == Setting("update", "nothing")
SysvolCursor == Setting("update", "nothing")

Singletons ==
  [dns_settings |-> DnsForwarders, ddnsconfig |-> DdnsConfig, acmeconfig |-> AcmeConfig,
   mailserverconfig |-> MailConfig, mailrelayconfig |-> MailRelay, dhcp_config |-> DhcpConfig,
   app_settings |-> AppSettings, server_identity |-> ServerIdentity, proxy_kv |-> ProxyKv,
   dhcp_repl_state |-> DhcpCursor, sso_repl_state |-> SsoSerial,
   sysvol_repl_state |-> SysvolCursor]

Values == {"default", "one", "two"}
NoValue == "none"

----------------------------------------------------------------------------
NoCall == [at |-> "idle", value |-> NoValue, alone |-> FALSE]
SettingFault == callFaults < MaxCallFaults /\ callFaults' = callFaults + 1
Others(c) == \E d \in Services \ {c} : call[d] # NoCall

\* A call begins: whoever is under way is not alone any more.
BeginCall(c, at, value) ==
  /\ call[c] = NoCall
  /\ calls < MaxCalls
  /\ calls' = calls + 1
  /\ settled' = NoValue
  /\ call' = [d \in Services |->
                IF d = c THEN [at |-> at, value |-> value, alone |-> ~Others(c)]
                ELSE [call[d] EXCEPT !.alone = FALSE]]
  /\ UNCHANGED <<kind, rows, valuesMade, callFaults>>

BeginSave(c, v) ==
  /\ kind.saves # "never"
  /\ BeginCall(c, IF kind.saves = "update" THEN "select"
               ELSE IF kind.reader = "create" THEN "ensure" ELSE "delete", v)

\* The DHCP service asks per packet, the mail service per connection, others at boot.
BeginRead(c) == BeginCall(c, "read", "default")

Onward(c, at) == call' = [call EXCEPT ![c].at = at]

\* The end of a call: a save that nothing overlapped settles the value.
EndCall(c) ==
  /\ settled' = IF call[c].alone /\ call[c].value # "default" THEN call[c].value ELSE NoValue
  /\ call' = [call EXCEPT ![c] = NoCall]

Read(c) ==
  /\ call[c].at = "read"
  /\ IF rows # {} \/ kind.reader = "nothing"
     THEN call' = [call EXCEPT ![c] = NoCall]
     ELSE Onward(c, IF kind.reader = "save" THEN "select" ELSE "create")
  /\ UNCHANGED <<kind, rows, settled, valuesMade, calls, callFaults>>

\* A save that replaces reads first, which writes the default when there is no row.
Ensure(c) ==
  \/ /\ call[c].at = "ensure"
     /\ Onward(c, IF rows = {} THEN "create default" ELSE "delete")
     /\ UNCHANGED <<kind, rows, settled, valuesMade, calls, callFaults>>
  \/ /\ call[c].at = "create default"
     /\ valuesMade < MaxValues
     /\ valuesMade' = valuesMade + 1
     /\ rows' = rows \cup {[id |-> valuesMade', value |-> "default"]}
     /\ Onward(c, "delete")
     /\ UNCHANGED <<kind, settled, calls, callFaults>>

Select(c) ==
  /\ call[c].at = "select"
  /\ Onward(c, IF rows = {} THEN "create" ELSE "update")
  /\ UNCHANGED <<kind, rows, settled, valuesMade, calls, callFaults>>

\* DELETE of every row.
Delete(c) ==
  /\ call[c].at = "delete"
  /\ rows' = {}
  /\ Onward(c, "create")
  /\ UNCHANGED <<kind, settled, valuesMade, calls, callFaults>>

\* CREATE: no index refuses a second row (that of proxy_kv, by its key, does).
Create(c) ==
  /\ call[c].at = "create"
  /\ \/ /\ valuesMade < MaxValues
        /\ ~(kind.indexed /\ rows # {})
        /\ valuesMade' = valuesMade + 1
        /\ rows' = rows \cup {[id |-> valuesMade', value |-> call[c].value]}
        /\ EndCall(c)
     \/ /\ kind.indexed /\ rows # {}
        /\ call' = [call EXCEPT ![c] = NoCall]
        /\ UNCHANGED <<rows, valuesMade, settled>>
  /\ UNCHANGED <<kind, calls, callFaults>>

\* Mutant: the update names the row that was selected.
Updated_First(v) ==
  {IF r = CHOOSE s \in rows : TRUE THEN [r EXCEPT !.value = v] ELSE r : r \in rows}

\* UPDATE of the table: of every row it has.
Updated(v) == {[r EXCEPT !.value = v] : r \in rows}

Update(c) ==
  /\ call[c].at = "update"
  /\ rows' = Updated(call[c].value)
  /\ EndCall(c)
  /\ UNCHANGED <<kind, valuesMade, calls, callFaults>>

\* A statement fails, or the server stops.
CallFails(c) ==
  /\ call[c] # NoCall
  /\ SettingFault
  /\ call' = [call EXCEPT ![c] = NoCall]
  /\ settled' = NoValue
  /\ UNCHANGED <<kind, rows, valuesMade, calls>>

SettingsInit ==
  /\ kind \in {Singletons[k] : k \in DOMAIN Singletons}
  /\ rows = {}
  /\ call = [c \in Services |-> NoCall]
  /\ settled = NoValue
  /\ valuesMade = 0 /\ calls = 0 /\ callFaults = 0

SettingsNext ==
  \E c \in Services :
    \/ \E v \in Values \ {"default"} : BeginSave(c, v)
    \/ BeginRead(c)
    \/ Read(c) \/ Ensure(c) \/ Select(c) \/ Delete(c) \/ Create(c) \/ Update(c) \/ CallFails(c)

SettingsSpec == SettingsInit /\ [][SettingsNext]_settingVars

----------------------------------------------------------------------------
SettingsTypeOK ==
  /\ \A r \in rows : r.id \in 1 .. MaxValues /\ r.value \in Values
  /\ settled \in Values \cup {NoValue}

\* Saves and first reads that overlap can leave two rows that differ, of which a reader
\* gets either.  The next save that has the table to itself ends that: whatever rows
\* there are hold its value.
SaveHeals == settled # NoValue => rows # {} /\ \A r \in rows : r.value = settled

\* What a save looked up still holds after it: no two rows of a table carry one key where
\* the table has an index, and a row's reference is to a row that exists where deletes
\* are guarded or cascade, unless requests overlapped or a restore stopped half way; and
\* a save of a singleton table that nothing overlaps is what the next read finds, also
\* where racing first reads or a crash left two rows or none.
RowsKept ==
  /\ TablesTypeOK /\ KeysUnique /\ RefsHeld
  /\ SettingsTypeOK /\ SaveHeals
=============================================================================
