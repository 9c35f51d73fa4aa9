---------------------------- MODULE SmbConnection ----------------------------
(* One connection of the SMB server that serves SYSVOL, NETLOGON and the RPC     *)
(* pipes: negotiation, logon, keys, sealed and signed messages, pipe handles and *)
(* directory listings.  Message bodies and key derivation are data: a key is     *)
(* known by the logon it came from.  The files it serves are those of Sysvol,     *)
(* which this module extends.                                                    *)
(*                                                                               *)
(*   magnetite-smb/src/server.rs   Connection::handle and the command handlers   *)
EXTENDS Sysvol

CONSTANTS
  MaxAnswer,      \* bound: length of the answer of an RPC request
  MaxNodes,       \* bound: nodes of a served tree
  MaxLogons, MaxPipes, MaxSealed,      \* bounds: logons, pipes, sealed answers
  MaxChanges      \* bound: NEGOTIATEs and changes of a tree

Fids == 1 .. MaxPipes                    \* alloc_pipe_id counts
Indexes == 0 .. MaxNodes - 1             \* node 0 is the root directory
Trees == {"SYSVOL", "NETLOGON"}

VARIABLES
  open,       \* is the connection open?
  dialect,    \* 21, 30 or 311; 0 before the NEGOTIATE
  encrypt,    \* encrypt_negotiated
  session,    \* the logon session_key is from, 0 for none
  keys,       \* the logons signing_key, enc_key / dec_key and application_key are from
  nonce,      \* nonce_ctr
  listed,     \* listed_dirs
  pipes,      \* open_pipes: [len, pos] of the buffered answer
  nextPipe,   \* next_pipe
  nodes,      \* how many nodes each served tree has
  reply,      \* the last answer
  sealedWith, \* history: the keys and nonces answers were sealed with
  told,       \* history: what the last NEGOTIATE said of dialect, capability and mode
  logons,     \* history: logons with a key
  changes     \* history: NEGOTIATEs and tree changes

conn == <<dialect, encrypt, session, keys, listed, pipes, nextPipe, told, logons, changes>>
smbVars == <<open, conn, nodes, nonce, reply, sealedWith>>

NoKeys == [signing |-> 0, sealing |-> 0, application |-> 0]

Answer(cmd, status, info) == [cmd |-> cmd, status |-> status, info |-> info]

NoInfo == [dialect |-> 0, cap |-> FALSE, must |-> FALSE]

\* The SecurityMode and Capabilities of negotiate_response.
Offer(d, e) == [dialect |-> d, cap |-> e, must |-> d = 30 /\ ~e]

\* Mutant: the counter of nonces is not advanced.
SealedSame(seal) ==
  /\ UNCHANGED nonce
  /\ sealedWith' = IF seal THEN sealedWith \cup {<<keys'.sealing, nonce, Cardinality(sealedWith)>>}
                   ELSE sealedWith

\* An answer to a sealed message is sealed under the key of the moment after it was
\* handled, with the next nonce; each answer is told apart by the number it is given.
Sealed(seal) ==
  /\ nonce' = IF seal THEN nonce + 1 ELSE nonce
  /\ sealedWith' = IF seal THEN sealedWith \cup {<<keys'.sealing, nonce', Cardinality(sealedWith)>>}
                   ELSE sealedWith

\* handle: a sealed message needs the key; the answer is sealed as the message was.  A
\* compressed message is handled in the same way, and its answer compressed.
Handled(seal) ==
  /\ open
  /\ seal => keys.sealing # 0 /\ nonce < MaxSealed
  /\ UNCHANGED <<open, nodes>>

\* A sealed message without a key or that does not decrypt, and a message that is no
\* SMB2 message, end the connection.
Drop ==
  /\ open
  /\ open' = FALSE
  /\ UNCHANGED <<conn, nodes, nonce, reply, sealedWith>>

\* A signed message whose signature does not fit, sent in the clear, is refused.
RefuseSignature(cmd) ==
  /\ open /\ keys.signing # 0 /\ cmd \notin {"negotiate", "setup"}
  /\ reply' = Answer(cmd, "access denied", NoInfo)
  /\ UNCHANGED <<open, conn, nodes, nonce, sealedWith>>

----------------------------------------------------------------------------
(* NEGOTIATE.                                                                    *)

\* The SMB1 NEGOTIATE of a Windows client: the wildcard dialect, nothing changes.
NegotiateSmb1(seal) ==
  /\ Handled(seal)
  /\ reply' = Answer("negotiate", "ok", Offer(767, FALSE))
  /\ UNCHANGED conn /\ Sealed(seal)

\* The highest dialect of the offer; 3.1.1 always seals, 3.0 if the client can.
Negotiate(seal, d, can) ==
  /\ Handled(seal)
  /\ changes < MaxChanges /\ changes' = changes + 1
  /\ dialect' = d
  /\ encrypt' = (d = 311 \/ (d = 30 /\ can))
  /\ told' = Offer(d, encrypt')
  /\ reply' = Answer("negotiate", "ok", told')
  /\ UNCHANGED <<session, keys, listed, pipes, nextPipe, logons>>
  /\ Sealed(seal)

----------------------------------------------------------------------------
(* SESSION_SETUP.                                                                *)

\* derive_session_keys; the Kerberos branch does the same without an application key.
Derived(k, application) ==
  [signing |-> IF dialect >= 30 THEN k ELSE keys.signing,
   sealing |-> IF encrypt THEN k ELSE keys.sealing,
   application |-> IF dialect >= 30 /\ application THEN k ELSE keys.application]

Logon(seal, application) ==
  /\ Handled(seal)
  /\ logons < MaxLogons /\ logons' = logons + 1
  /\ session' = logons + 1
  /\ keys' = Derived(logons + 1, application)
  /\ reply' = Answer("setup", "ok", NoInfo)
  /\ UNCHANGED <<dialect, encrypt, listed, pipes, nextPipe, told, changes>>
  /\ Sealed(seal)

LogonNtlm(seal) == Logon(seal, TRUE)
LogonKerberos(seal) == Logon(seal, FALSE)

\* The challenge; a logon that fails; an anonymous, unverified or unknown one, which is
\* accepted: none of them touches a key.
SetupAnswered(seal, status) ==
  /\ Handled(seal)
  /\ reply' = Answer("setup", status, NoInfo)
  /\ UNCHANGED conn /\ Sealed(seal)

----------------------------------------------------------------------------
(* Trees, files and pipes.                                                       *)

\* CREATE of a registered pipe name.
CreatePipe(seal) ==
  /\ Handled(seal)
  /\ nextPipe < MaxPipes /\ nextPipe' = nextPipe + 1
  /\ pipes' = [f \in DOMAIN pipes \cup {nextPipe + 1} |->
                 IF f = nextPipe + 1 THEN [len |-> 0, pos |-> 0] ELSE pipes[f]]
  /\ reply' = Answer("create", "ok", NoInfo)
  /\ UNCHANGED <<dialect, encrypt, session, keys, listed, told, logons, changes>>
  /\ Sealed(seal)

\* Mutant: the place in the buffer is kept.
Buffered_KeepPos(f, len, pos) == [pipes EXCEPT ![f].len = len]

\* The answer of an RPC request, buffered for READs from pos on.
Buffered(f, len, pos) == [pipes EXCEPT ![f] = [len |-> len, pos |-> pos]]

\* WRITE to a pipe: the request is run and its answer buffered.
WritePipe(seal, f, len) ==
  /\ Handled(seal) /\ f \in DOMAIN pipes
  /\ pipes' = Buffered(f, len, 0)
  /\ reply' = Answer("write", "ok", NoInfo)
  /\ UNCHANGED <<dialect, encrypt, session, keys, listed, nextPipe, told, logons, changes>>
  /\ Sealed(seal)

\* FSCTL_PIPE_TRANSCEIVE: what does not fit into max is buffered; what fits leaves the
\* buffer as it was.
Transceive(seal, f, len, max) ==
  /\ Handled(seal) /\ f \in DOMAIN pipes
  /\ IF max > 0 /\ len > max
     THEN pipes' = Buffered(f, len, max) /\ reply' = Answer("ioctl", "overflow", NoInfo)
     ELSE UNCHANGED pipes /\ reply' = Answer("ioctl", "ok", NoInfo)
  /\ UNCHANGED <<dialect, encrypt, session, keys, listed, nextPipe, told, logons, changes>>
  /\ Sealed(seal)

\* READ from a pipe: what is left of the buffered answer, at most length of it.
Available(f) == pipes[f].len - pipes[f].pos

ReadPipe(seal, f, length) ==
  /\ Handled(seal) /\ f \in DOMAIN pipes
  /\ IF Available(f) = 0
     THEN UNCHANGED pipes /\ reply' = Answer("read", "end", NoInfo)
     ELSE /\ pipes' = [pipes EXCEPT ![f].pos =
                         @ + IF length < Available(f) THEN length ELSE Available(f)]
          /\ reply' = Answer("read", "ok", NoInfo)
  /\ UNCHANGED <<dialect, encrypt, session, keys, listed, nextPipe, told, logons, changes>>
  /\ Sealed(seal)

\* FSCTL_VALIDATE_NEGOTIATE_INFO: what was negotiated, worked out again.
Echo == [dialect |-> dialect, cap |-> encrypt, must |-> dialect = 30 /\ ~encrypt]

Validate(seal) ==
  /\ Handled(seal)
  /\ reply' = Answer("validate", "ok", Echo)
  /\ UNCHANGED conn /\ Sealed(seal)

\* QUERY_DIRECTORY: the entries once for each handle, which is the node's index.
QueryDirectory(seal, t, i) ==
  /\ Handled(seal)
  /\ IF i = 0 /\ i < nodes[t] /\ i \notin listed
     THEN listed' = listed \cup {i} /\ reply' = Answer("list", "ok", NoInfo)
     ELSE UNCHANGED listed /\ reply' = Answer("list", "no more", NoInfo)
  /\ UNCHANGED <<dialect, encrypt, session, keys, pipes, nextPipe, told, logons, changes>>
  /\ Sealed(seal)

\* CLOSE of a pipe, a directory or a file; it always succeeds.
Close(seal, f, i) ==
  /\ Handled(seal)
  /\ pipes' = [g \in DOMAIN pipes \ {f} |-> pipes[g]]
  /\ listed' = listed \ {i}
  /\ reply' = Answer("close", "ok", NoInfo)
  /\ UNCHANGED <<dialect, encrypt, session, keys, nextPipe, told, logons, changes>>
  /\ Sealed(seal)

\* What changes nothing on the connection.
Answered(seal, cmd, status) ==
  /\ Handled(seal)
  /\ reply' = Answer(cmd, status, NoInfo)
  /\ UNCHANGED conn /\ Sealed(seal)

\* TREE_CONNECT: one of three fixed tree ids.
TreeConnect(seal) == Answered(seal, "tree", "ok")

\* CREATE of another name: looked up in the tree of the moment; the handle is the index.
CreateFile(seal, t, i) == Answered(seal, "create", IF i < nodes[t] THEN "ok" ELSE "not found")

\* READ of a file through its index in the tree of the moment, up to its end.
ReadFile(seal, t, i) ==
  \E s \in {"ok", "end"} :
    (s = "ok" => i \in 1 .. nodes[t] - 1) /\ Answered(seal, "read", s)

\* QUERY_INFO, of a node or, when there is none, of an empty file.
QueryInfo(seal) == Answered(seal, "info", "ok")

\* TREE_DISCONNECT and LOGOFF, which end nothing; commands that are not supported; WRITE
\* and the transceive with a handle that is no open pipe.
Other(seal) == \E s \in {"ok", "not supported"} : Answered(seal, "other", s)

\* set_sysvol, set_netlogon: another tree is served from the next request on.
SetTree(t, n) ==
  /\ changes < MaxChanges /\ changes' = changes + 1
  /\ nodes' = [nodes EXCEPT ![t] = n]
  /\ UNCHANGED <<open, dialect, encrypt, session, keys, listed, pipes, nextPipe, told,
                 logons, nonce, reply, sealedWith>>

----------------------------------------------------------------------------
SmbInit ==
  /\ open = TRUE /\ dialect = 0 /\ encrypt = FALSE /\ session = 0 /\ keys = NoKeys
  /\ nonce = 0 /\ listed = {} /\ pipes = [f \in {} |-> NoInfo] /\ nextPipe = 0
  /\ nodes = [t \in Trees |-> MaxNodes]
  /\ reply = Answer("none", "none", NoInfo) /\ sealedWith = {} /\ told = Offer(0, FALSE)
  /\ logons = 0 /\ changes = 0

Message(seal) ==
  \/ NegotiateSmb1(seal) \/ Validate(seal)
  \/ \E d \in {21, 30, 311}, can \in BOOLEAN : Negotiate(seal, d, can)
  \/ LogonNtlm(seal) \/ LogonKerberos(seal)
  \/ \E s \in {"more", "failure", "ok"} : SetupAnswered(seal, s)
  \/ CreatePipe(seal)
  \/ \E f \in Fids, n \in 0 .. MaxAnswer :
       WritePipe(seal, f, n) \/ ReadPipe(seal, f, n)
       \/ \E max \in 0 .. 1 : Transceive(seal, f, n, max)
  \/ \E t \in Trees, i \in Indexes :
       QueryDirectory(seal, t, i) \/ CreateFile(seal, t, i) \/ ReadFile(seal, t, i)
  \/ \E f \in Fids, i \in Indexes : Close(seal, f, i)
  \/ TreeConnect(seal) \/ QueryInfo(seal) \/ Other(seal)

SmbNext ==
  \/ Drop \/ RefuseSignature("other")
  \/ \E seal \in BOOLEAN : Message(seal)
  \/ \E t \in Trees, n \in 1 .. MaxNodes : SetTree(t, n)

SmbSpec == SmbInit /\ [][SmbNext]_smbVars

----------------------------------------------------------------------------
SmbTypeOK ==
  /\ open \in BOOLEAN /\ dialect \in {0, 21, 30, 311} /\ encrypt \in BOOLEAN
  /\ session \in 0 .. logons /\ nonce \in Nat /\ logons \in Nat /\ changes \in Nat
  /\ keys \in [signing : 0 .. logons, sealing : 0 .. logons, application : 0 .. logons]
  /\ listed \subseteq Indexes /\ nextPipe \in Nat

\* No two answers are sealed with one nonce under one key, through later logons and
\* negotiations of the connection.
SealsOnce ==
  \A a, b \in sealedWith : a[1] = b[1] /\ a[2] = b[2] => a = b

\* READ subtracts the place from the length: the place is never past the end, whichever
\* of WRITE, READ and the transceive filled and drained the buffer before.
PlaceInside == \A f \in DOMAIN pipes : pipes[f].pos <= pipes[f].len

\* The echo a client asks for to find out a downgrade is what the NEGOTIATE said.
EchoMatches == reply.cmd = "validate" => reply.info = told

\* A connection is sound: its answers are sealed with fresh nonces, its pipes are read
\* inside their answers, and the validation of the negotiation agrees with it.
SmbSound == SmbTypeOK /\ SealsOnce /\ PlaceInside /\ EchoMatches

\* The secondary's SYSVOL follows: nothing behind its cursor is missing or older than at
\* the primary, the trees it serves are those of its rows, and a policy has its container
\* and its template or neither, but while a request is between the two; and the SMB
\* connection that serves it is sound.
SysvolFollows ==
  /\ SysvolTypeOK /\ FilesFollow /\ ServedFollows /\ GpoWhole
  /\ SmbSound
=============================================================================
