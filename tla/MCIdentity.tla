----------------------------- MODULE MCIdentity -----------------------------
(* Parts of the identity services whose safety is checked together in one run,   *)
(* one part at a time: two masters that replicate from each other (the constants *)
(* of the configuration), the accounts and sessions of the portal, the signing   *)
(* keys and the codes of the SSO, the LDAP tree, the members of an AD group and   *)
(* the calls of the web console.                                                 *)
EXTENDS MCAdReplication, SigningKeys, SsoCodes, Portal, LdapTree, AdGroups, Console

\* One administrator rotates the keys, on the primary.
OneAdmin == [a |-> "p"]

\* One session makes every call; the other revokes sessions meanwhile.
OnlyRevokes == [s |-> {}, t |-> {"revoke_portal_sessions"}]

VARIABLES
  focus,     \* the part that runs
  v1, v2, v3, v4, v5, v6, v7, v8, v9   \* its variables, in the order of its module, where that is instantiated below

shared == <<v1, v2, v3, v4, v5, v6, v7, v8, v9>>

Failing == INSTANCE SigningKeys WITH
  MaxFaults <- 1, InsertsFail <- TRUE, now <- v1, minted <- v2, rows <- v3,
  ring <- v4, rot <- v5, signed <- v6, feed <- v7, serial <- v8, faults <- v9

\* Variables that the part in focus does not have are 0.
Rest1 == v1 = 0 /\ v2 = 0 /\ v3 = 0 /\ v4 = 0 /\ v5 = 0 /\ v6 = 0 /\ v7 = 0 /\ v8 = 0 /\ v9 = 0

\* The parts whose modules are extended keep their own variables, which stay as they
\* begin while another part is in focus.
own == <<vars, portalVars, keyVars, codeVars, treeVars, groupVars, consoleVars>>
OwnInit == Init /\ PortalInit /\ KeysInit /\ CodesInit /\ TreeInit /\ GroupInit /\ ConsoleInit

Starts ==
  \/ focus \in {"masters", "portal", "keys", "codes", "tree", "groups", "console"} /\ Rest1
  \/ focus = "failing" /\ Failing!KeysInit

MCInit == OwnInit /\ Starts

MCNext ==
  \/ focus = "masters" /\ Next /\ UNCHANGED <<focus, shared, portalVars, keyVars, codeVars, treeVars, groupVars, consoleVars>>
  \/ focus = "portal" /\ PortalNext /\ UNCHANGED <<focus, shared, vars, keyVars, codeVars, treeVars, groupVars, consoleVars>>
  \/ focus = "keys" /\ KeysNext /\ UNCHANGED <<focus, shared, vars, portalVars, codeVars, treeVars, groupVars, consoleVars>>
  \/ focus = "codes" /\ CodesNext /\ UNCHANGED <<focus, shared, vars, portalVars, keyVars, treeVars, groupVars, consoleVars>>
  \/ focus = "tree" /\ TreeNext /\ UNCHANGED <<focus, shared, vars, portalVars, keyVars, codeVars, groupVars, consoleVars>>
  \/ focus = "groups" /\ GroupNext /\ UNCHANGED <<focus, shared, vars, portalVars, keyVars, codeVars, treeVars, consoleVars>>
  \/ focus = "console" /\ ConsoleNext /\ UNCHANGED <<focus, shared, vars, portalVars, keyVars, codeVars, treeVars, groupVars>>
  \/ focus = "failing" /\ Failing!KeysNext /\ UNCHANGED <<focus, own>>

MCSpec == MCInit /\ [][MCNext]_<<focus, own, shared>>

\* When the insert of a rotation fails, the keyring still signs with the only active row,
\* or with none active: never with one of two.
SignerAlone == focus = "failing" => Failing!KeysTypeOK /\ Failing!OneSigner
=============================================================================
