------------------------------ MODULE Wallets ------------------------------
(***************************************************************************)
(* How private keys come into custody: app/wallet_create.py and            *)
(* app/wallet_import.py over infra/envelope_signer.py and                  *)
(* infra/wallet_repo.py.  A session is a POST /v1/admin/wallets of the     *)
(* daemon or a `clifwd wallets import`, a process of its own on the same   *)
(* database.  Both insert the wallet and its audit row in one transaction; *)
(* an import may also shred the file that held the key, which no rollback  *)
(* brings back.                                                            *)
(*                                                                         *)
(* A key stands for itself, its address and its ciphertext.  The file of a *)
(* source key passes the checks of the refusal table when it is "ready".   *)
(***************************************************************************)
EXTENDS FiniteSets

CONSTANTS
    Sessions,
    NoSession,
    Names,        \* wallet names
    SourceKeys,   \* keys the operator holds in a file
    FreshKeys,    \* keys Account.create may draw
    NoKey

Keys == SourceKeys \cup FreshKeys

ASSUME WalletsAssumption ==
    /\ NoSession \notin Sessions
    /\ NoKey \notin Keys
    /\ SourceKeys \cap FreshKeys = {}

VARIABLES
    wallets,    \* the committed table: the key under each name
    audit,      \* the committed rows of wallet-create and wallet-import
    source,     \* the file of each source key
    lock,       \* the session that holds SQLite's writer lock
    phase,      \* where a session is
    req,        \* what a session was asked, and the key it holds
    told,       \* ghost: what operators have been told
    aborted     \* ghost: keys of imports that failed once shred was due

vars == <<wallets, audit, source, lock, phase, req, told, aborted>>

Request == [name : Names, key : Keys, shred : BOOLEAN]
NoRequest == [key |-> NoKey]
Phases == {"idle", "sealed", "refused", "inserted", "shredded", "stored"}
Row == [decision : {"approved", "error"}, name : Names, key : Keys]
Answers == [said : {"stored", "shred_failed"}, name : Names, key : Keys]

TypeOK ==
    /\ wallets \in [Names -> Keys \cup {NoKey}]
    /\ audit \subseteq Row
    /\ source \in [SourceKeys -> {"none", "unfit", "ready", "gone"}]
    /\ lock \in Sessions \cup {NoSession}
    /\ phase \in [Sessions -> Phases]
    /\ req \in [Sessions -> Request \cup {NoRequest}]
    /\ \A x \in Sessions : phase[x] # "idle" => req[x] \in Request
    /\ \A x \in Sessions : phase[x] # "idle" /\ req[x].shred => req[x].key \in SourceKeys
    /\ told \subseteq Answers
    /\ aborted \subseteq SourceKeys

Init ==
    /\ wallets = [n \in Names |-> NoKey]
    /\ audit = {}
    /\ source = [k \in SourceKeys |-> "none"]
    /\ lock = NoSession
    /\ phase = [x \in Sessions |-> "idle"]
    /\ req = [x \in Sessions |-> NoRequest]
    /\ told = {}
    /\ aborted = {}

Stored(k) == \E n \in Names : wallets[n] = k

\* Nobody else will ever draw the same 32 random bytes.
Unused(k) == ~Stored(k) /\ \A x \in Sessions : req[x].key # k

RowOf(decision, x) == [decision |-> decision, name |-> req[x].name, key |-> req[x].key]
Say(said, x) == [said |-> said, name |-> req[x].name, key |-> req[x].key]

-----------------------------------------------------------------------------
(* The beginning of a request, before its first statement: no lock is held.  *)

Begin(x, p, n, k, shred) ==
    /\ phase[x] = "idle"
    /\ phase' = [phase EXCEPT ![x] = p]
    /\ req' = [req EXCEPT ![x] = [name |-> n, key |-> k, shred |-> shred]]
    /\ UNCHANGED <<wallets, audit, source, lock, told, aborted>>

\* Fault: a creation takes the path of an import that shreds.
create_wallet_Shreds(x, n, k) == Unused(k) /\ Begin(x, "sealed", n, k, TRUE)

\* EnvelopeSigner.create_wallet up to the insert: generate and seal.
create_wallet(x, n, k) == Unused(k) /\ Begin(x, "sealed", n, k, FALSE)

\* Sealing fails: the SealError arm.
create_wallet_SealError(x, n, k) == Unused(k) /\ Begin(x, "refused", n, k, FALSE)

\* import_wallet up to the insert: the file passes, the address is the
\* expected one if there is one, the key is sealed.
import_wallet(x, n, k, shred) == source[k] = "ready" /\ Begin(x, "sealed", n, k, shred)

\* The refusal table: the file is missing or unfit, or its key has another
\* address than the operator expects.
import_wallet_Refused(x, n, k, mismatch, shred) ==
    (source[k] # "ready" \/ mismatch) /\ Begin(x, "refused", n, k, shred)

-----------------------------------------------------------------------------
(* The transaction.                                                          *)

Release(x) == IF lock = x THEN NoSession ELSE lock

Finish(x) ==
    /\ lock' = Release(x)
    /\ phase' = [phase EXCEPT ![x] = "idle"]
    /\ req' = [req EXCEPT ![x] = NoRequest]

\* Fault: the insert is an upsert.
repo_create_Upsert(x) ==
    /\ phase[x] = "sealed"
    /\ lock = NoSession
    /\ lock' = x
    /\ phase' = [phase EXCEPT ![x] = "inserted"]
    /\ UNCHANGED <<wallets, audit, source, req, told, aborted>>

\* WalletRepo.create: BEGIN IMMEDIATE, look the name up, insert.
repo_create(x) ==
    /\ phase[x] = "sealed"
    /\ lock = NoSession
    /\ lock' = x
    /\ phase' = [phase EXCEPT ![x] =
                    IF wallets[req[x].name] = NoKey THEN "inserted" ELSE "refused"]
    /\ UNCHANGED <<wallets, audit, source, req, told, aborted>>

\* The row of a refusal is appended and committed before the refusal is raised.
Refuse(x) ==
    /\ phase[x] = "refused"
    /\ lock \in {NoSession, x}
    /\ audit' = audit \cup {RowOf("error", x)}
    /\ Finish(x)
    /\ UNCHANGED <<wallets, source, told, aborted>>

\* Fault: the file is shredded as soon as its key has been read.
shred_file_Early(x) ==
    /\ phase[x] = "sealed"
    /\ req[x].shred
    /\ source[req[x].key] = "ready"
    /\ source' = [source EXCEPT ![req[x].key] = "gone"]
    /\ UNCHANGED <<wallets, audit, lock, phase, req, told, aborted>>

\* _shred_file overwrites the file.
shred_file(x) ==
    /\ phase[x] = "inserted"
    /\ req[x].shred
    /\ source[req[x].key] = "ready"
    /\ source' = [source EXCEPT ![req[x].key] = "gone"]
    /\ phase' = [phase EXCEPT ![x] = "shredded"]
    /\ UNCHANGED <<wallets, audit, lock, req, told, aborted>>

\* No shred on the PATH, no file any more, an error, or the ten seconds are
\* over, when the file may have been overwritten.  ShredSourceFailed leaves the
\* scope, which rolls back; the CLI says that the wallet was imported.
shred_file_Failed(x) ==
    /\ phase[x] \in {"inserted", "shredded"}
    /\ req[x].shred
    /\ told' = told \cup {Say("shred_failed", x)}
    /\ aborted' = aborted \cup {req[x].key}
    /\ Finish(x)
    /\ UNCHANGED <<wallets, audit, source>>

\* The approved row is appended and the scope is left: one commit.
ScopeExit(x) ==
    /\ \/ phase[x] = "inserted" /\ ~req[x].shred
       \/ phase[x] = "shredded"
    /\ wallets' = [wallets EXCEPT ![req[x].name] = req[x].key]
    /\ audit' = audit \cup {RowOf("approved", x)}
    /\ lock' = NoSession
    /\ phase' = [phase EXCEPT ![x] = "stored"]
    /\ UNCHANGED <<source, req, told, aborted>>

\* 201, or `imported: name @ address`.
Answer(x) ==
    /\ phase[x] = "stored"
    /\ told' = told \cup {Say("stored", x)}
    /\ Finish(x)
    /\ UNCHANGED <<wallets, audit, source, aborted>>

\* Fault: the scope commits on the way out of an exception.
Abort_Commits(x) ==
    /\ phase[x] # "idle"
    /\ wallets' = IF phase[x] \in {"inserted", "shredded"}
                  THEN [wallets EXCEPT ![req[x].name] = req[x].key] ELSE wallets
    /\ aborted' = IF phase[x] = "shredded" THEN aborted \cup {req[x].key} ELSE aborted
    /\ Finish(x)
    /\ UNCHANGED <<audit, source, told>>

\* Any other exception (the writer lock was not free for thirty seconds, the
\* append or the commit failed) or the death of the process.
Abort(x) ==
    /\ phase[x] # "idle"
    /\ aborted' = IF phase[x] = "shredded" THEN aborted \cup {req[x].key} ELSE aborted
    /\ Finish(x)
    /\ UNCHANGED <<wallets, audit, source, told>>

-----------------------------------------------------------------------------
(* The operator.                                                             *)

PlaceFile(k, s) ==
    /\ source[k] \in {"none", "unfit"}
    /\ source' = [source EXCEPT ![k] = s]
    /\ UNCHANGED <<wallets, audit, lock, phase, req, told, aborted>>

\* "wallet was imported successfully; manually shred the source."
ManualShred(k) ==
    /\ \E a \in told : a.said = "shred_failed" /\ a.key = k
    /\ source[k] = "ready"
    /\ source' = [source EXCEPT ![k] = "gone"]
    /\ UNCHANGED <<wallets, audit, lock, phase, req, told, aborted>>

Next ==
    \/ \E x \in Sessions :
        \/ \E n \in Names, k \in FreshKeys :
              create_wallet(x, n, k) \/ create_wallet_SealError(x, n, k)
        \/ \E n \in Names, k \in SourceKeys, shred \in BOOLEAN :
              \/ import_wallet(x, n, k, shred)
              \/ \E mismatch \in BOOLEAN : import_wallet_Refused(x, n, k, mismatch, shred)
        \/ repo_create(x) \/ Refuse(x) \/ shred_file(x) \/ shred_file_Failed(x)
        \/ ScopeExit(x) \/ Answer(x) \/ Abort(x)
    \/ \E k \in SourceKeys :
        \/ \E s \in {"unfit", "ready"} : PlaceFile(k, s)
        \/ ManualShred(k)

Spec == Init /\ [][Next]_vars

-----------------------------------------------------------------------------

\* A wallet that the operator was told of is in the table, under its name and
\* with its key, whatever other imports and creations of the same name do.
WalletsKept ==
    \A a \in told : a.said = "stored" => wallets[a.name] = a.key

\* fwd destroys a file only while it holds the key: in the table, or in the
\* transaction of an import that may yet commit.  The exceptions are the
\* imports that failed between their shred and their commit.
SourceCovered ==
    \A k \in SourceKeys :
        source[k] = "gone" =>
            \/ Stored(k)
            \/ \E x \in Sessions : phase[x] = "shredded" /\ req[x].key = k
            \/ k \in aborted

\* The approved rows of the audit log name exactly the wallets of the table.
AuditMatches ==
    \A n \in Names, k \in Keys :
        [decision |-> "approved", name |-> n, key |-> k] \in audit <=> wallets[n] = k

-----------------------------------------------------------------------------
(* What the documentation says and the code does not do.                     *)

\* docs/architecture.md:438: "Exit non-zero with a warning if `shred` fails -
\* the wallet is provisioned"; cli/wallets.py:201: "wallet was imported
\* successfully".
ShredFailureKeepsWallet ==
    \A a \in told : a.said = "shred_failed" => wallets[a.name] = a.key
=============================================================================
