----------------------------- MODULE AcmeCerts -----------------------------
(* Automatic certificates: the ACME manager reads its settings from the store, *)
(* orders a certificate when it must, answers the authority's challenges on    *)
(* the proxy's HTTP listener and stores what is issued; the TLS listener loads *)
(* the stored certificates again and again.                                    *)
EXTENDS Integers, FiniteSets

CONSTANTS
  Domains,      \* names that may be configured; each has a TLS virtual host
  Validity,     \* the life of an issued certificate
  RenewBefore,  \* renew_before_days
  MaxEdits,     \* bound: changes of the settings
  MaxFaults     \* bound: failures of the authority, of the store, restarts

VARIABLES
  wanted,       \* the settings: the configured domains; {} when disabled
  cert,         \* the stored certificate: the names it covers and the time left
  account,      \* the account's credentials are stored
  mgr,          \* where run_acme_manager is
  challenges,   \* the challenge responses that the HTTP listener serves
  sni,          \* the names the TLS listener has a certificate for
  edits, faults

vars == <<wanted, cert, account, mgr, challenges, sni, edits, faults>>

Idle == [at |-> "idle"]
NoCert == [san |-> {}, left |-> 0]
Fault == faults < MaxFaults /\ faults' = faults + 1
Covered == cert.san

\* save_acme_config.
Save(ds) ==
  /\ ds # wanted
  /\ edits < MaxEdits
  /\ edits' = edits + 1
  /\ wanted' = ds
  /\ UNCHANGED <<cert, account, mgr, challenges, sni, faults>>

\* Faulty variant: only the time left counts.
NeedsRenewalByTime(ds) == cert = NoCert \/ cert.left <= RenewBefore

\* needs_renewal: no certificate, little time left, or a domain it does not cover.
NeedsRenewal(ds) ==
  \/ cert = NoCert
  \/ cert.left <= RenewBefore
  \/ ~(ds \subseteq cert.san)

\* One turn of run_acme_manager, with the settings as they are now.
Poll ==
  /\ mgr = Idle
  /\ wanted # {}
  /\ NeedsRenewal(wanted)
  /\ mgr' = [at |-> "account", ds |-> wanted, left |-> wanted, tokens |-> {}]
  /\ UNCHANGED <<wanted, cert, account, challenges, sni, edits, faults>>

\* load_or_create_account, then new_order; credentials that cannot be stored are
\* only warned about, and the next order registers again.
Account ==
  /\ mgr.at = "account"
  /\ mgr' = [mgr EXCEPT !.at = "authorize"]
  /\ \/ account' = TRUE /\ UNCHANGED faults
     \/ ~account /\ Fault /\ UNCHANGED account
  /\ UNCHANGED <<wanted, cert, challenges, sni, edits>>

\* One authorization: its response is served before set_ready is called; one that
\* is valid already needs none.
Authorize(d) ==
  /\ mgr.at = "authorize"
  /\ d \in mgr.left
  /\ \/ /\ challenges' = challenges \cup {d}
        /\ mgr' = [mgr EXCEPT !.left = @ \ {d}, !.tokens = @ \cup {d}]
     \/ /\ d \in Covered
        /\ mgr' = [mgr EXCEPT !.left = @ \ {d}]
        /\ UNCHANGED challenges
  /\ UNCHANGED <<wanted, cert, account, sni, edits, faults>>

\* poll_ready, finalize, poll_certificate: the authority has fetched every response.
Issue ==
  /\ mgr.at = "authorize"
  /\ mgr.left = {}
  /\ mgr.tokens \subseteq challenges
  /\ challenges' = challenges \ mgr.tokens
  /\ mgr' = [mgr EXCEPT !.at = "store"]
  /\ UNCHANGED <<wanted, cert, account, sni, edits, faults>>

\* upsert_certificate.
Store ==
  /\ mgr.at = "store"
  /\ cert' = [san |-> mgr.ds, left |-> Validity]
  /\ mgr' = Idle
  /\ UNCHANGED <<wanted, account, challenges, sni, edits, faults>>

\* Faulty variant: the responses of a failed order stay.
OrderFailsDirty ==
  /\ mgr # Idle
  /\ Fault
  /\ mgr' = Idle
  /\ UNCHANGED <<wanted, cert, account, challenges, sni, edits>>

\* Any step of the order fails: clear_tokens, and RETRY_INTERVAL before the next turn.
OrderFails ==
  /\ mgr # Idle
  /\ Fault
  /\ challenges' = challenges \ mgr.tokens
  /\ mgr' = Idle
  /\ UNCHANGED <<wanted, cert, account, sni, edits>>

\* load_sni_map, at the start and every 30 s.
Reload ==
  /\ sni # Covered
  /\ sni' = Covered
  /\ UNCHANGED <<wanted, cert, account, mgr, challenges, edits, faults>>

\* The vhosts cannot be listed: the map that is swapped in is empty.
ReloadFails ==
  /\ sni # {}
  /\ Fault
  /\ sni' = {}
  /\ UNCHANGED <<wanted, cert, account, mgr, challenges, edits>>

\* A day passes.
Age ==
  /\ cert.left > 0
  /\ cert' = [cert EXCEPT !.left = @ - 1]
  /\ UNCHANGED <<wanted, account, mgr, challenges, sni, edits, faults>>

\* The server restarts: orders and responses are gone, the map is loaded anew.
Restart ==
  /\ Fault
  /\ mgr' = Idle
  /\ challenges' = {}
  /\ sni' = Covered
  /\ UNCHANGED <<wanted, cert, account, edits>>

Init ==
  /\ wanted \in SUBSET Domains
  /\ cert = NoCert /\ account = FALSE /\ mgr = Idle
  /\ challenges = {} /\ sni = {} /\ edits = 0 /\ faults = 0

Next ==
  \/ \E ds \in SUBSET Domains : Save(ds)
  \/ Poll \/ Account \/ \E d \in Domains : Authorize(d)
  \/ Issue \/ Store \/ OrderFails
  \/ Reload \/ ReloadFails \/ Age \/ Restart

\* The manager's loop and the reload timer run for ever, and the authority, which
\* fails MaxFaults times at the most, answers in the end.
Fairness ==
  /\ WF_vars(Poll) /\ WF_vars(Account) /\ WF_vars(\E d \in Domains : Authorize(d))
  /\ WF_vars(Issue) /\ WF_vars(Store) /\ WF_vars(Reload)

Spec == Init /\ [][Next]_vars /\ Fairness

----------------------------------------------------------------------------
(* Properties *)

TypeOK ==
  /\ wanted \subseteq Domains
  /\ cert.san \subseteq Domains /\ cert.left \in 0..Validity
  /\ account \in BOOLEAN
  /\ mgr.at \in {"idle", "account", "authorize", "store"}
  /\ challenges \subseteq Domains /\ sni \subseteq Domains

\* The listener has a certificate for d, if that is configured.
ServedNow(d) == d \in wanted => d \in sni

\* A configured domain is served with a certificate in the end, also when it is
\* added while an order for the old settings is under way, or to a certificate
\* that is good for a long time yet (SAN drift).
DomainServed == \A d \in Domains : []<>ServedNow(d)

\* No response to a challenge outlives its order, however the order ends.
ResponsesCleared == challenges # {} => mgr.at = "authorize" /\ challenges \subseteq mgr.tokens
=============================================================================
