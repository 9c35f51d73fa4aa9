------------------------------ MODULE SsoCodes ------------------------------
(* The authorization-code flow of the OIDC issuer: clients, codes in memory,   *)
(* token requests that read the client before they take the code, and the      *)
(* session rows a token leaves.                                                *)
EXTENDS Integers, FiniteSets

CONSTANTS
  Clients,    \* registered clients
  Requests,   \* concurrent requests of the authorize and token endpoints
  MaxCodes    \* bound: codes issued

VARIABLES
  client,     \* client[c]: "enabled", "disabled" or "gone"
  codes,      \* the code map in memory: code, client, whether it is expired
  issued,     \* codes issued so far; a code is a number
  req,        \* req[r]: where request r is
  deleting,   \* clients whose sessions a delete has revoked, the row still there
  tokens,     \* tokens given out: the code, the client it was issued to, the caller
  granted     \* sso_session rows: client, code, revoked

codeVars == <<client, codes, issued, req, deleting, tokens, granted>>

NoRequest == [at |-> "idle"]
GoTo(r, s) == req' = [req EXCEPT ![r] = s]

\* authorize: an enabled client, a registered redirect URI, code flow, the openid
\* scope and S256; then the portal session is looked up.
Authorize(r, c) ==
  /\ req[r] = NoRequest
  /\ issued < MaxCodes
  /\ client[c] = "enabled"
  /\ GoTo(r, [at |-> "authorize", client |-> c])
  /\ UNCHANGED <<client, codes, issued, deleting, tokens, granted>>

\* put_code, or the redirect to the login page.
PutCode(r) ==
  /\ req[r].at = "authorize"
  /\ GoTo(r, NoRequest)
  /\ \/ UNCHANGED <<codes, issued>>
     \/ /\ issued < MaxCodes
        /\ issued' = issued + 1
        /\ codes' = codes \cup {[code |-> issued', client |-> req[r].client, expired |-> FALSE]}
  /\ UNCHANGED <<client, deleting, tokens, granted>>

\* token: the client authenticates (get_oidc_client_auth, enabled, secret). right:
\* the redirect URI and the verifier it sends are those of the code.
Token(r, c, k, right) ==
  /\ req[r] = NoRequest
  /\ client[c] = "enabled"
  /\ GoTo(r, [at |-> "take", client |-> c, code |-> k, right |-> right])
  /\ UNCHANGED <<client, codes, issued, deleting, tokens, granted>>

\* Faulty variant: a code stays until it expires.
LeftAll(q, found, good) == codes

\* take_code removes the code whatever comes of it.
Left(q, found, good) == codes \ found

\* Not expired, issued to this client, redirect URI and PKCE right.
Good(q, found) == q.right /\ \E k \in found : ~k.expired /\ k.client = q.client

\* take_code, the checks, and both tokens.
TakeCode(r) ==
  LET q == req[r]
      found == {k \in codes : k.code = q.code}
      good == Good(q, found)
  IN /\ q.at = "take"
     /\ codes' = Left(q, found, good)
     /\ IF good
        THEN /\ tokens' = tokens \cup
                  {[code |-> k.code, owner |-> k.client, to |-> q.client, req |-> r] : k \in found}
             /\ GoTo(r, [at |-> "record", client |-> q.client, code |-> q.code])
        ELSE GoTo(r, NoRequest) /\ UNCHANGED tokens
     /\ UNCHANGED <<client, issued, deleting, granted>>

\* create_sso_session; its failure is ignored.
Record(r) ==
  /\ req[r].at = "record"
  /\ \/ granted' = granted \cup
          {[client |-> req[r].client, code |-> req[r].code, revoked |-> FALSE,
            late |-> req[r].client \in deleting \/ client[req[r].client] = "gone"]}
     \/ UNCHANGED granted
  /\ GoTo(r, NoRequest)
  /\ UNCHANGED <<client, codes, issued, deleting, tokens>>

\* update_oidc_client switches a client on or off.
Update(c) ==
  /\ client[c] # "gone"
  /\ client' = [client EXCEPT ![c] = IF @ = "enabled" THEN "disabled" ELSE "enabled"]
  /\ UNCHANGED <<codes, issued, req, deleting, tokens, granted>>

Revoked(S, T) == (S \ T) \cup {[s EXCEPT !.revoked = TRUE] : s \in T}

\* Faulty variant: the sessions of another field are revoked, so none of these.
SessionsOfNone(c) == {}

\* revoke_sessions_where client_ref.
SessionsOf(c) == {s \in granted : s.client = c}

\* delete_oidc_client revokes the sessions of the client first.
DeleteRevoke(c) ==
  /\ client[c] # "gone"
  /\ c \notin deleting
  /\ deleting' = deleting \cup {c}
  /\ granted' = Revoked(granted, SessionsOf(c))
  /\ UNCHANGED <<client, codes, issued, req, tokens>>

\* ... and then deletes its row.
DeleteRow(c) ==
  /\ c \in deleting
  /\ client' = [client EXCEPT ![c] = "gone"]
  /\ deleting' = deleting \ {c}
  /\ UNCHANGED <<codes, issued, req, tokens, granted>>

\* revoke_sso_session, of one session.
RevokeOne(s) ==
  /\ ~s.revoked
  /\ granted' = Revoked(granted, {s})
  /\ UNCHANGED <<client, codes, issued, req, deleting, tokens>>

\* CODE_TTL_SECS pass; the code stays in the map until someone presents it.
Expire(k) ==
  /\ ~k.expired
  /\ codes' = (codes \ {k}) \cup {[k EXCEPT !.expired = TRUE]}
  /\ UNCHANGED <<client, issued, req, deleting, tokens, granted>>

\* The process restarts: codes and requests are gone.
SsoRestart ==
  /\ codes' = {}
  /\ req' = [r \in Requests |-> NoRequest]
  /\ UNCHANGED <<client, issued, deleting, tokens, granted>>

CodesInit ==
  /\ client = [c \in Clients |-> "enabled"]
  /\ codes = {}
  /\ issued = 0
  /\ req = [r \in Requests |-> NoRequest]
  /\ deleting = {}
  /\ tokens = {}
  /\ granted = {}

CodesNext ==
  \/ \E r \in Requests :
       \/ \E c \in Clients :
            \/ Authorize(r, c)
            \/ \E k \in 1..issued, right \in BOOLEAN : Token(r, c, k, right)
       \/ PutCode(r) \/ TakeCode(r) \/ Record(r)
  \/ \E c \in Clients : Update(c) \/ DeleteRevoke(c) \/ DeleteRow(c)
  \/ \E s \in granted : RevokeOne(s)
  \/ \E k \in codes : Expire(k)
  \/ SsoRestart

CodesSpec == CodesInit /\ [][CodesNext]_codeVars

\* Where a request of the two endpoints is.
ReqState ==
  {NoRequest}
  \cup [at : {"authorize"}, client : Clients]
  \cup [at : {"take"}, client : Clients, code : 1..issued, right : BOOLEAN]
  \cup [at : {"record"}, client : Clients, code : 1..issued]

\* Requests, codes, tokens and sessions are of registered clients and issued codes.
CodesTypeOK ==
  /\ client \in [Clients -> {"enabled", "disabled", "gone"}]
  /\ issued \in 0..MaxCodes
  /\ codes \subseteq [code : 1..issued, client : Clients, expired : BOOLEAN]
  /\ req \in [Requests -> ReqState]
  /\ deleting \subseteq Clients
  /\ tokens \subseteq [code : 1..issued, owner : Clients, to : Clients, req : Requests]
  /\ granted \subseteq [client : Clients, code : 1..issued, revoked : BOOLEAN, late : BOOLEAN]

\* A code is redeemed at most once, by the client it was issued to: two requests
\* that present it at the same time do not both get tokens.
RedeemedOnce ==
  /\ \A t \in tokens : t.to = t.owner
  /\ \A t, u \in tokens : t.code = u.code => t = u

\* A client that is gone has only sessions that were recorded after the delete had
\* revoked the others (AC-19, but for token requests under way).
RevokedWithClient ==
  \A s \in granted : client[s.client] = "gone" => s.revoked \/ s.late

\* The codes and what is left of them are in order.
CodeOnce == CodesTypeOK /\ RedeemedOnce /\ RevokedWithClient

============================================================================
