------------------------------ MODULE Console ------------------------------
(* The server functions of the web console.  Each of them has one shape: look   *)
(* the session up and compare its role with the class of the call, validate,    *)
(* change rows, append an audit entry and answer; the entry's error is dropped. *)
(* What a call changes is modelled with its domain; here are who may make it    *)
(* and what the audit log says of it.                                           *)
EXTENDS Naturals, FiniteSets

CONSTANTS
  Sessions,     \* browser sessions
  Only,         \* bound: the calls that a session makes, {} for all
  MaxLogins,    \* bound on logins
  MaxQueryFaults     \* bound on failing queries and crashes

VARIABLES
  session,      \* the session rows: live, role
  asked,          \* the call each session has under way: at, call, as, logged
  logins, queryFaults

consoleVars == <<session, asked, logins, queryFaults>>

RoleOrder == <<"viewer", "operator", "admin">>
Rank(role) == CHOOSE i \in 1 .. 3 : RoleOrder[i] = role

\* Mutant: what cannot be undone counts as an ordinary change.
MinRole_Flat(class) ==
  CASE class = "Read" -> "viewer"
    [] class \in {"Write", "Destroy", "Control"} -> "operator"
    [] class = "Admin" -> "admin"

\* ActionClass::min_role.
MinRole(class) ==
  CASE class = "Read" -> "viewer"
    [] class = "Write" -> "operator"
    [] class \in {"Destroy", "Control", "Admin"} -> "admin"

\* decide.
Allowed(role, class) == Rank(role) >= Rank(MinRole(class))

Looks(class, names) == {[name |-> n, class |-> class, changes |-> FALSE] : n \in names}
Edits(class, names) == {[name |-> n, class |-> class, changes |-> TRUE] : n \in names}

----------------------------------------------------------------------------
(* The calls, screen by screen.                                               *)

AccountCalls ==
  Looks("Admin", {"list_local_accounts"})
  \cup Edits("Admin", {"create_local_account", "set_account_role", "set_account_enabled",
                         "delete_local_account"})
PasswordAndSessionCalls ==
  Looks("Admin", {"list_active_sessions"})
  \cup Edits("Admin", {"reset_account_password", "revoke_portal_sessions"})
SettingsCalls ==
  Looks("Admin", {"get_system_settings"}) \cup Edits("Admin", {"save_system_settings"})
BackupCalls ==
  Looks("Read", {"list_backups"})
  \cup Edits("Admin", {"create_backup", "restore_backup", "delete_backup"})
LogCalls == Looks("Read", {"query_logs"})
AuditCalls == Looks("Read", {"query_audit_log"})
ShellCalls == Looks("Read", {"get_shell_info", "get_dashboard_cards"})

AlertCalls ==
  Looks("Read", {"list_alerts"}) \cup Edits("Write", {"acknowledge_alerts", "resolve_alerts"})
TargetCalls ==
  Looks("Read", {"list_notification_targets"})
  \cup Edits("Write", {"create_notification_target", "set_notification_target_enabled",
                         "delete_notification_target"})

PrincipalCalls == Looks("Read", {"list_ad_principals", "list_ad_groups", "get_addc_status"})
GpoCalls ==
  Looks("Read", {"list_gpos", "list_logon_scripts"})
  \cup Edits("Write", {"create_gpo", "delete_gpo", "create_logon_script", "delete_logon_script"})
MembershipCalls == Edits("Admin", {"join_domain", "leave_domain"})
FsmoCalls == Looks("Read", {"list_fsmo_roles"}) \cup Edits("Admin", {"seize_fsmo_role"})

PoolCalls ==
  Looks("Read", {"get_dhcp_metrics", "list_pools", "get_pool", "count_pool_active_leases"})
  \cup Edits("Write", {"save_pool", "delete_pool"})
LeaseCalls ==
  Looks("Read", {"list_reservations", "list_leases", "get_dhcp_config"})
  \cup Edits("Write", {"create_reservation", "delete_reservation", "release_lease"})
  \cup Edits("Control", {"save_dhcp_config"})

ZoneCalls ==
  Looks("Read", {"get_dns_metrics", "list_zones", "get_zone", "count_zone_records"})
  \cup Edits("Write", {"save_zone", "delete_zone"})
RecordCalls ==
  Looks("Read", {"list_records"}) \cup Edits("Write", {"save_record", "delete_record"})
RpzCalls ==
  Looks("Read", {"list_rpz", "dns_query_test"}) \cup Edits("Write", {"save_rpz", "delete_rpz"})
DnssecCalls == Looks("Read", {"get_dnssec_key_info"}) \cup Edits("Write", {"set_zone_dnssec"})
GeoCalls ==
  Looks("Read", {"list_geo_rules"})
  \cup Edits("Write", {"create_geo_rule", "toggle_geo_rule", "delete_geo_rule"})
TransferCalls ==
  Looks("Read", {"list_tsig_keys"})
  \cup Edits("Write", {"set_zone_replication", "create_tsig_key", "delete_tsig_key"})
ForwarderCalls == Looks("Read", {"get_dns_forwarders"}) \cup Edits("Write", {"save_dns_forwarders"})
DdnsCalls ==
  Looks("Read", {"get_ddns_page"}) \cup Edits("Write", {"save_ddns_config", "trigger_ddns_update"})

HostCalls ==
  Looks("Read", {"get_k8s_metrics", "list_k8s_hosts", "list_k8s_clusters"})
  \cup Edits("Write", {"create_k8s_host", "create_k8s_cluster"})
  \cup Edits("Destroy", {"delete_k8s_host"})
ClusterCalls ==
  Looks("Read", {"list_k8s_alert_rules", "list_k8s_templates"})
  \cup Edits("Write", {"save_k8s_alert_rule", "toggle_k8s_rule", "save_k8s_template"})
  \cup Edits("Destroy", {"delete_k8s_cluster", "delete_k8s_alert_rule"})
WorkloadCalls ==
  Looks("Read", {"list_cluster_workloads", "get_pod_logs"})
  \cup Edits("Write", {"set_cluster_api"}) \cup Edits("Destroy", {"delete_k8s_template"})

\* get_ldap_metrics, get_tree_root and list_parents create the base entries when they miss.
TreeCalls ==
  Looks("Read", {"get_ldap_metrics", "get_tree_root", "get_tree_children", "get_entry",
                 "list_parents", "list_users"})
UserCalls ==
  Edits("Write", {"create_user", "toggle_user"}) \cup Edits("Admin", {"reset_password"})
GroupCalls ==
  Looks("Read", {"list_groups"})
  \cup Edits("Write", {"create_group", "add_member", "remove_member"})
EntryCalls ==
  Looks("Read", {"list_ous", "list_computers"})
  \cup Edits("Write", {"create_ou", "create_computer", "move_entry"})
DeleteCalls == Edits("Write", {"delete_entry"})
LdapAclCalls ==
  Looks("Read", {"list_ldap_acls", "get_ldap_sync_status"})
  \cup Edits("Write", {"create_ldap_acl", "toggle_ldap_acl", "delete_ldap_acl"})

DomainCalls ==
  Looks("Read", {"get_mail_metrics", "list_mail_domains", "list_mail_users"})
  \cup Edits("Write", {"save_mail_domain", "create_mail_user"})
  \cup Edits("Destroy", {"delete_mail_domain"})
MailUserCalls ==
  Looks("Read", {"list_aliases", "list_mailing_lists"})
  \cup Edits("Write", {"toggle_mail_user", "reset_mail_user_password", "save_alias"})
  \cup Edits("Destroy", {"delete_mail_user", "delete_alias"})
ListCalls ==
  Looks("Read", {"get_mail_config"})
  \cup Edits("Write", {"create_mailing_list", "add_list_member", "remove_list_member",
                         "save_mail_config"})
  \cup Edits("Destroy", {"delete_mailing_list"})
RelayCalls ==
  Looks("Read", {"get_mail_relay", "list_mail_messages", "get_dkim"})
  \cup Looks("Admin", {"get_mail_message"})
  \cup Edits("Write", {"save_mail_relay"})
DkimCalls ==
  Looks("Read", {"list_backup_mx"})
  \cup Edits("Write", {"generate_dkim", "set_dkim_enabled", "save_backup_mx"})
QueueCalls ==
  Looks("Read", {"list_backup_queue", "get_mail_repl_status"})
  \cup Edits("Destroy", {"delete_backup_mx", "delete_backup_queue"})

VhostCalls ==
  Looks("Read", {"get_proxy_metrics", "list_vhosts", "list_certificates"})
  \cup Edits("Write", {"save_vhost", "toggle_vhost"}) \cup Edits("Destroy", {"delete_vhost"})
CertificateCalls ==
  Looks("Read", {"list_acl_rules"})
  \cup Edits("Write", {"create_certificate", "save_acl_rule", "set_acl_priority"})
  \cup Edits("Destroy", {"delete_certificate"})
BlockCalls ==
  Looks("Read", {"list_ip_blocks"})
  \cup Edits("Write", {"toggle_acl", "save_ip_block", "set_ip_block_order", "toggle_ip_block"})
  \cup Edits("Destroy", {"delete_acl_rule", "delete_ip_block"})
ForwardCalls ==
  Looks("Read", {"list_forward_rules", "list_forward_users"})
  \cup Edits("Write", {"save_forward_rule", "toggle_forward_rule", "create_forward_user"})
  \cup Edits("Destroy", {"delete_forward_rule"})
AcmeCalls ==
  Looks("Read", {"get_proxy_health", "get_acme_config"})
  \cup Edits("Write", {"toggle_forward_user", "save_acme_config"})
  \cup Edits("Destroy", {"delete_forward_user"})

ProviderCalls ==
  Looks("Read", {"get_sso_metrics", "list_sso_providers"})
  \cup Edits("Write", {"save_provider"}) \cup Edits("Destroy", {"delete_provider"})
ClientCalls ==
  Looks("Read", {"list_oidc_clients", "list_sso_sessions"})
  \cup Edits("Write", {"save_oidc_client"})
  \cup Edits("Destroy", {"delete_oidc_client"})
  \cup Edits("Admin", {"regenerate_client_secret", "revoke_sso_sessions"})

WatchHostCalls ==
  Looks("Read", {"get_watch_metrics", "list_watch_hosts", "hosts_under_maintenance"})
  \cup Edits("Write", {"save_watch_host", "delete_watch_host"})
WatchRuleCalls ==
  Looks("Read", {"list_watch_rules", "list_watch_groups"})
  \cup Edits("Write", {"save_watch_rule", "toggle_watch_rule", "delete_watch_rule",
                         "save_watch_group"})
WatchGroupCalls ==
  Looks("Read", {"list_watch_maintenance", "list_host_metrics"})
  \cup Edits("Write", {"delete_watch_group", "create_watch_maintenance",
                         "delete_watch_maintenance"})

ConsoleCalls ==
  UNION {AccountCalls, PasswordAndSessionCalls, SettingsCalls, BackupCalls, LogCalls, AuditCalls,
         ShellCalls, AlertCalls, TargetCalls, PrincipalCalls, GpoCalls, MembershipCalls, FsmoCalls,
         PoolCalls, LeaseCalls, ZoneCalls, RecordCalls, RpzCalls, DnssecCalls, GeoCalls,
         TransferCalls, ForwarderCalls, DdnsCalls, HostCalls, ClusterCalls, WorkloadCalls,
         TreeCalls, UserCalls, GroupCalls, EntryCalls, DeleteCalls, LdapAclCalls, DomainCalls,
         MailUserCalls, ListCalls, RelayCalls, DkimCalls, QueueCalls, VhostCalls,
         CertificateCalls, BlockCalls, ForwardCalls, AcmeCalls, ProviderCalls, ClientCalls,
         WatchHostCalls, WatchRuleCalls, WatchGroupCalls}

----------------------------------------------------------------------------
(* One call.                                                                  *)

NoneAsked == [name |-> "none", class |-> "Read", changes |-> FALSE]
Idle == [at |-> "idle", call |-> NoneAsked, as |-> "viewer", logged |-> FALSE]
Fault == queryFaults < MaxQueryFaults /\ queryFaults' = queryFaults + 1

\* A login, by password or provider, with the role of the account.
SignIn(s, role) ==
  /\ ~session[s].live
  /\ logins < MaxLogins
  /\ logins' = logins + 1
  /\ session' = [session EXCEPT ![s] = [live |-> TRUE, role |-> role]]
  /\ UNCHANGED <<asked, queryFaults>>

Logout(s) ==
  /\ session[s].live
  /\ session' = [session EXCEPT ![s].live = FALSE]
  /\ UNCHANGED <<asked, logins, queryFaults>>

\* require: the session row as it is now, once.  A call that is refused, or whose
\* input is, changes nothing.
Require(s, c) ==
  /\ asked[s] = Idle /\ session[s].live
  /\ c.name \in Only[s] \/ Only[s] = {}
  /\ Allowed(session[s].role, c.class)
  /\ asked' = [asked EXCEPT ![s] = [at |-> "allowed", call |-> c,
                                 as |-> session[s].role, logged |-> FALSE]]
  /\ UNCHANGED <<session, logins, queryFaults>>

\* The calls that end sessions. (A change of an account's role or password does not, and
\* a session keeps the role it began with.)
EndsSessions == {"set_account_enabled", "delete_local_account", "revoke_portal_sessions"}

\* The calls that change rows by several statements, each of which may fail after the
\* ones before took effect; and the ones that take a list and write an entry for each.
InSteps ==
  {"create_user", "create_group", "add_member", "remove_member", "delete_entry", "create_gpo",
   "delete_gpo", "join_domain", "create_k8s_cluster", "delete_k8s_cluster", "delete_zone",
   "set_account_enabled", "delete_local_account", "generate_dkim", "delete_watch_host"}
OneByOne == {"acknowledge_alerts", "resolve_alerts", "revoke_portal_sessions", "revoke_sso_sessions"}

\* The rows are read or changed, whatever became of the session since.
Change(s) ==
  /\ asked[s].at \in {"allowed", "partly"}
  /\ \/ UNCHANGED session
     \/ /\ asked[s].call.name \in EndsSessions
        /\ \E t \in Sessions : session' = [session EXCEPT ![t].live = FALSE]
  /\ \/ /\ ~asked[s].call.changes
        /\ asked' = [asked EXCEPT ![s] = Idle]
     \/ /\ asked[s].call.changes
        /\ asked' = [asked EXCEPT ![s].at = "changed"]
     \/ /\ asked[s] = [asked[s] EXCEPT !.at = "allowed"] /\ asked[s].call.name \in InSteps
        /\ asked' = [asked EXCEPT ![s].at = "partly"]
  /\ UNCHANGED <<logins, queryFaults>>

\* A query fails: the error is the answer, and no entry is written, though an earlier
\* statement of the call stays done.
Fail(s) ==
  /\ asked[s].at \in {"allowed", "partly"}
  /\ Fault
  /\ asked' = [asked EXCEPT ![s] = IF @.at = "partly" THEN [@ EXCEPT !.at = "answered"] ELSE Idle]
  /\ UNCHANGED <<session, logins>>

\* append_audit; its error is ignored.  A list goes on with its next element.
Audit(s) ==
  /\ asked[s].at = "changed"
  /\ \E at \in {"answered"} \cup (IF asked[s].call.name \in OneByOne THEN {"allowed"} ELSE {}) :
       \/ asked' = [asked EXCEPT ![s].at = at, ![s].logged = TRUE] /\ UNCHANGED queryFaults
       \/ Fault /\ asked' = [asked EXCEPT ![s].at = at]
  /\ UNCHANGED <<session, logins>>

Answer(s) ==
  /\ asked[s].at = "answered"
  /\ asked' = [asked EXCEPT ![s] = Idle]
  /\ UNCHANGED <<session, logins, queryFaults>>

ConsoleInit ==
  /\ session = [s \in Sessions |-> [live |-> FALSE, role |-> "viewer"]]
  /\ asked = [s \in Sessions |-> Idle]
  /\ logins = 0 /\ queryFaults = 0

ConsoleNext ==
  \E s \in Sessions :
    \/ \E r \in {"viewer", "operator", "admin"} : SignIn(s, r)
    \/ Logout(s)
    \/ asked[s] = Idle /\ session[s].live /\ \E c \in ConsoleCalls : Require(s, c)
    \/ Change(s) \/ Fail(s) \/ Audit(s) \/ Answer(s)

ConsoleSpec == ConsoleInit /\ [][ConsoleNext]_consoleVars

----------------------------------------------------------------------------
ConsoleTypeOK ==
  /\ \A s \in Sessions : asked[s].call = NoneAsked <=> asked[s].at = "idle"
  /\ logins \in 0 .. MaxLogins /\ queryFaults \in 0 .. MaxQueryFaults

\* What the design reserves to administrators: accounts and sessions, settings, backup
\* and restore, passwords of users, the domain membership of the server, and what
\* deletes mail, hosts of the proxy or clusters with all that hangs on them.
Reserved ==
  {"create_local_account", "delete_local_account", "save_system_settings", "restore_backup",
   "create_backup", "reset_password", "join_domain", "leave_domain", "seize_fsmo_role",
   "delete_mail_domain", "delete_mail_user", "delete_vhost", "delete_k8s_cluster",
   "save_dhcp_config", "revoke_sso_sessions", "set_account_role", "reset_account_password"}
  \cup EndsSessions

\* A viewer changes nothing, and nobody but an administrator what is reserved to them,
\* though sessions end and begin with other roles while calls are under way.
OnlyAllowed ==
  \A s \in Sessions : asked[s].at \in {"partly", "changed", "answered"} =>
    /\ asked[s].as # "viewer"
    /\ asked[s].call.name \in Reserved => asked[s].as = "admin"

\* A call that changed anything and was answered is in the audit log, unless a query of
\* it failed.
Accountable ==
  \A s \in Sessions : asked[s].at = "answered" => asked[s].logged \/ queryFaults > 0

\* The console keeps its roles: whatever changed rows was allowed for the class of the
\* call when it began, and what the design reserves to administrators was an
\* administrator's; and a change that was answered is in the audit log, unless a query
\* of it failed.
RolesKept == ConsoleTypeOK /\ OnlyAllowed /\ Accountable
=============================================================================
