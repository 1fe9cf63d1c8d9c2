------------------------------- MODULE Access -------------------------------
(***************************************************************************)
(* Who may have what signed: the policy file and its life (clifwd policy   *)
(* init, edits by hand, the load at startup), the callers table (create,   *)
(* replace, revoke), bearer authentication, the decision on a request, and *)
(* `clifwd capability grant`, a second process that mints the tokens of a  *)
(* consumer one HTTP call at a time and writes them to a bundle.           *)
(*                                                                         *)
(* A token is the index of its mint in issued; the sequence says whom each *)
(* token was minted for.  Only the hash is kept by the code, in the row of *)
(* the caller.  Audit rows are in AuditLog, rates in Rates, the sealing of *)
(* wallets in Wallets.                                                     *)
(***************************************************************************)
EXTENDS PolicyInit, Sequences

CONSTANTS
    InitArgs,       \* options that operators give to policy init
    Edits,          \* additions that operators make to the file by hand
    Mints,          \* [name, policy_path] that operators mint by hand
    FirstWallets,   \* the wallets of the deployment: name -> address
    NewWallets,     \* [name, address] of wallets that are created or imported later
    GrantSpecs,     \* capability grants: a consumer's spec and the options of the command
    Asks,           \* requests for a signature
    Sessions,       \* concurrent requests
    NoPolicy, NoGrant, NoBundle, Idle, NoAsk,
    MaxKeys         \* bound: tokens minted

\* A consumer's spec lists its roles in an order, and the value of a
\* transaction is a uint256.
ASSUME AccessAssumption ==
    /\ \A spec \in GrantSpecs : spec.roles \in Seq(STRING)
    /\ \A ask \in Asks : ask.kind # "fsp" => ask.value_wei \in Nat

VARIABLES
    policy_file,    \* FWD_POLICY_PATH, NoPolicy: no such file
    daemon,         \* "up" or "down"
    policy,         \* app.state.policy, NoPolicy: not loaded
    callers,        \* the callers table: name -> [policy_path, key, status]
    wallets,        \* the wallets table: name -> address
    requests,       \* session -> Idle or the caller as authentication read it
    grant,          \* the running capability grant, or NoGrant
    bundle,         \* the last bundle written, or NoBundle
    issued          \* the tokens minted, in order: the name of the caller

vars == <<policy_file, daemon, policy, callers, wallets, requests, grant, bundle, issued>>

\* The table f with the row of key x set to v.
Put(f, x, v) == [y \in DOMAIN f \cup {x} |-> IF y = x THEN v ELSE f[y]]

Tokens == 1..Len(issued)

Active(name) == name \in DOMAIN callers /\ callers[name].status = "active"

\* CallerRepo.list_all(include_revoked=False).
ActiveCallers ==
    {[name |-> n, policy_path |-> callers[n].policy_path] :
        n \in {m \in DOMAIN callers : Active(m)}}

Init ==
    /\ policy_file = NoPolicy
    /\ daemon = "down"
    /\ policy = NoPolicy
    /\ callers = << >>
    /\ wallets = FirstWallets
    /\ requests = [s \in Sessions |-> Idle]
    /\ grant = NoGrant
    /\ bundle = NoBundle
    /\ issued = << >>

-----------------------------------------------------------------------------
(***************************************************************************)
(* The policy file, the wallets and the daemon.                            *)
(***************************************************************************)

\* The policies of the options that policy init accepts.
Generated == [args \in {a \in InitArgs : InitArgsValid(a)} |-> generate_policy(args)]

\* What policy init prints; with --merge, the current file with it merged in.
InitOutput(args, merge) ==
    IF merge /\ policy_file # NoPolicy
    THEN merge_policies(policy_file, Generated[args])
    ELSE Generated[args]

\* clifwd policy init --out FWD_POLICY_PATH.
InitPolicy(args, merge) ==
    /\ policy_file' = InitOutput(args, merge)
    /\ UNCHANGED <<daemon, policy, callers, wallets, requests, grant, bundle, issued>>

\* The operator adds rules to the file.
EditPolicy(edit) ==
    /\ policy_file # NoPolicy
    /\ policy_file' = [merge_policies(policy_file, edit) EXCEPT
                          !.native_transfers = Overlay(@, edit.native_transfers)]
    /\ UNCHANGED <<daemon, policy, callers, wallets, requests, grant, bundle, issued>>

\* A wallet row is inserted, by the daemon or by the CLI; names are unique.
AddWallet(w) ==
    /\ w.name \notin DOMAIN wallets
    /\ wallets' = Put(wallets, w.name, w.address)
    /\ UNCHANGED <<policy_file, daemon, policy, callers, requests, grant, bundle, issued>>

\* The lifespan of the daemon: the file is loaded if it is there and
\* consistent with the tables; otherwise the process exits at once.
Start ==
    /\ daemon = "down"
    /\ policy_file # NoPolicy
    /\ check_consistency(policy_file, ActiveCallers, wallets)
    /\ daemon' = "up"
    /\ policy' = policy_file
    /\ UNCHANGED <<policy_file, callers, wallets, requests, grant, bundle, issued>>

\* FWD_DISABLE_MLOCK=1 without FWD_POLICY_PATH: no policy is loaded.
StartWithoutPolicy ==
    /\ daemon = "down"
    /\ daemon' = "up"
    /\ UNCHANGED <<policy_file, policy, callers, wallets, requests, grant, bundle, issued>>

\* The daemon stops or crashes; requests in flight are gone.
Stop ==
    /\ daemon = "up"
    /\ daemon' = "down"
    /\ policy' = NoPolicy
    /\ requests' = [s \in Sessions |-> Idle]
    /\ UNCHANGED <<policy_file, callers, wallets, grant, bundle, issued>>

-----------------------------------------------------------------------------
(***************************************************************************)
(* Callers.                                                                *)
(***************************************************************************)

\* CallerExistsError: an active caller is never overwritten, a revoked one
\* only with replace.
NameTaken(name, replace) ==
    name \in DOMAIN callers /\ (Active(name) \/ ~replace)

\* Fault: a replaced row keeps its key.
repo_create_KeepKey(name, path, key) ==
    Put(callers, name,
        [policy_path |-> path, status |-> "active",
         key |-> IF name \in DOMAIN callers THEN callers[name].key ELSE key])

\* The row that an insert, or the update of a revoked row, leaves.
repo_create(name, path, key) ==
    Put(callers, name, [policy_path |-> path, key |-> key, status |-> "active"])

\* POST /v1/admin/callers answers 201.
CallerAccepted(name, path, replace) ==
    /\ daemon = "up"
    /\ policy # NoPolicy => policy_path_exists(policy, path)
    /\ ~NameTaken(name, replace)

\* The key is generated, its row committed.
create_caller(name, path) ==
    /\ Len(issued) < MaxKeys
    /\ callers' = repo_create(name, path, Len(issued) + 1)
    /\ issued' = Append(issued, name)

\* clifwd callers create.
PostCallers(mint, replace) ==
    /\ CallerAccepted(mint.name, mint.policy_path, replace)
    /\ create_caller(mint.name, mint.policy_path)
    /\ UNCHANGED <<policy_file, daemon, policy, wallets, requests, grant, bundle>>

revoke(name) == [callers EXCEPT ![name].status = "revoked"]

\* DELETE /v1/admin/callers/{name}; 404 and 409 change nothing.
DeleteCaller(name) ==
    /\ daemon = "up"
    /\ Active(name)
    /\ callers' = revoke(name)
    /\ UNCHANGED <<policy_file, daemon, policy, wallets, requests, grant, bundle, issued>>

-----------------------------------------------------------------------------
(***************************************************************************)
(* Requests.                                                               *)
(***************************************************************************)

\* Fault: revoked rows are not filtered out.
resolve_caller_Revoked(key) ==
    {n \in DOMAIN callers : callers[n].key = key}

\* The rows whose hash the presented key verifies against.
resolve_caller(key) ==
    {n \in DOMAIN callers : Active(n) /\ callers[n].key = key}

\* require_caller: a read-only session of its own, closed before the request
\* starts its transaction.  The row is used as it was read.
Authenticate(s, key) ==
    /\ daemon = "up"
    /\ requests[s] = Idle
    /\ \E n \in resolve_caller(key) :
          requests' = [requests EXCEPT ![s] =
              [name |-> n, policy_path |-> callers[n].policy_path, key |-> key, signed |-> NoAsk]]
    /\ UNCHANGED <<policy_file, daemon, policy, callers, wallets, grant, bundle, issued>>

\* The rest of sign-transaction or sign-fsp-message: the wallet is looked
\* up, the policy that was loaded at startup decides.
SignAsk(s, ask) ==
    /\ requests[s] # Idle
    /\ requests[s].signed = NoAsk
    /\ policy # NoPolicy
    /\ ask.wallet \in DOMAIN wallets
    /\ evaluate(policy, requests[s], ask)
    /\ requests' = [requests EXCEPT ![s].signed = ask]
    /\ UNCHANGED <<policy_file, daemon, policy, callers, wallets, grant, bundle, issued>>

\* The answer: the signature, a refusal (403), or a failure further on.
Answer(s) ==
    /\ requests[s] # Idle
    /\ requests' = [requests EXCEPT ![s] = Idle]
    /\ UNCHANGED <<policy_file, daemon, policy, callers, wallets, grant, bundle, issued>>

-----------------------------------------------------------------------------
(***************************************************************************)
(* clifwd capability grant --approve.                                      *)
(***************************************************************************)

\* provisioning_plan: the caller and the path of a role of the convention.
CallerOf(spec, role) == Name(ROLE_CONVENTION[role][1], spec.network)
PathOf(spec, role) == Name(ROLE_CONVENTION[role][2], spec.network)

\* A bundle is refused before any mint when a wallet is not configured or
\* --config NETWORK is missing or contradicts the spec.
GrantStart(spec) ==
    /\ grant = NoGrant
    /\ spec.emit_bundle => spec.configured
    /\ grant' = [spec |-> spec, todo |-> spec.roles, minted |-> << >>, failures |-> 0]
    /\ UNCHANGED <<policy_file, daemon, policy, callers, wallets, requests, bundle, issued>>

InGrant == grant # NoGrant /\ grant.todo # << >>

Derived == Head(grant.todo) \in DOMAIN ROLE_CONVENTION

GrantAccepted ==
    LET role == Head(grant.todo)
    IN  CallerAccepted(CallerOf(grant.spec, role), PathOf(grant.spec, role),
                       grant.spec.replace)

GrantCreates ==
    LET role == Head(grant.todo)
    IN  create_caller(CallerOf(grant.spec, role), PathOf(grant.spec, role))

\* Fault: the token of the previous answer is recorded.
GrantMint_Previous ==
    /\ InGrant /\ Derived /\ GrantAccepted
    /\ GrantCreates
    /\ grant' = [grant EXCEPT !.todo = Tail(@),
                              !.minted = Put(@, Head(grant.todo), Len(issued))]
    /\ UNCHANGED <<policy_file, daemon, policy, wallets, requests, bundle>>

\* 201.  (A role that the spec repeats has one entry in minted.)
GrantMint ==
    /\ InGrant /\ Derived /\ GrantAccepted
    /\ GrantCreates
    /\ grant' = [grant EXCEPT !.todo = Tail(@),
                              !.minted = Put(@, Head(grant.todo), Len(issued) + 1)]
    /\ UNCHANGED <<policy_file, daemon, policy, wallets, requests, bundle>>

\* The role has no convention, or the answer is not 201: 400, 409, or an
\* error that rolled the mint back.
GrantSkip ==
    /\ InGrant
    /\ Derived => daemon = "up"
    /\ grant' = [grant EXCEPT !.todo = Tail(@), !.failures = @ + 1]
    /\ UNCHANGED <<policy_file, daemon, policy, callers, wallets, requests, bundle, issued>>

\* No connection, or no answer in time: the command exits, with what it has
\* minted so far, and the daemon may still have minted.
GrantUnreachable ==
    /\ InGrant /\ Derived
    /\ \/ UNCHANGED <<callers, issued>>
       \/ GrantAccepted /\ GrantCreates
    /\ grant' = NoGrant
    /\ UNCHANGED <<policy_file, daemon, policy, wallets, requests, bundle>>

compose_bundle == [spec |-> grant.spec, tokens |-> grant.minted]

\* Fault: a bundle is written although some capability was not minted.
GrantEnd_Partial ==
    /\ grant # NoGrant /\ grant.todo = << >>
    /\ \/ /\ grant.spec.emit_bundle
          /\ bundle' = compose_bundle
       \/ UNCHANGED bundle
    /\ grant' = NoGrant
    /\ UNCHANGED <<policy_file, daemon, policy, callers, wallets, requests, issued>>

\* Every capability was tried.  Writing the bundle may fail: the config of
\* the bundle is refused, or the file cannot be written.
GrantEnd ==
    /\ grant # NoGrant /\ grant.todo = << >>
    /\ \/ /\ grant.spec.emit_bundle /\ grant.failures = 0
          /\ bundle' = compose_bundle
       \/ UNCHANGED bundle
    /\ grant' = NoGrant
    /\ UNCHANGED <<policy_file, daemon, policy, callers, wallets, requests, issued>>

-----------------------------------------------------------------------------
Next ==
    \/ \E args \in DOMAIN Generated, merge \in BOOLEAN : InitPolicy(args, merge)
    \/ \E edit \in Edits : EditPolicy(edit)
    \/ \E w \in NewWallets : AddWallet(w)
    \/ Start
    \/ StartWithoutPolicy
    \/ Stop
    \/ \E mint \in Mints, replace \in BOOLEAN : PostCallers(mint, replace)
    \/ \E name \in DOMAIN callers : DeleteCaller(name)
    \/ \E s \in Sessions, key \in Tokens : Authenticate(s, key)
    \/ \E s \in Sessions, ask \in Asks : SignAsk(s, ask)
    \/ \E s \in Sessions : Answer(s)
    \/ \E spec \in GrantSpecs : GrantStart(spec)
    \/ GrantMint
    \/ GrantSkip
    \/ GrantUnreachable
    \/ GrantEnd

Spec == Init /\ [][Next]_vars

-----------------------------------------------------------------------------
(***************************************************************************)
(* Properties.                                                             *)
(***************************************************************************)

\* Rows, requests, grants and bundles refer to tokens that were minted.
TypeOK ==
    /\ daemon \in {"up", "down"}
    /\ issued \in Seq(DOMAIN callers)
    /\ \A n \in DOMAIN callers :
          callers[n].key \in Tokens /\ callers[n].status \in {"active", "revoked"}
    /\ \A s \in Sessions : requests[s] # Idle => requests[s].key \in Tokens
    /\ grant # NoGrant => \A r \in DOMAIN grant.minted : grant.minted[r] \in Tokens
    /\ bundle # NoBundle => \A r \in DOMAIN bundle.tokens : bundle.tokens[r] \in Tokens

\* The tokens that no active row answers to.
Dead == {k \in Tokens : \A n \in DOMAIN callers : Active(n) => callers[n].key # k}

\* A token that was revoked never comes back, whatever is minted, replaced or
\* restarted afterwards, and no request starts with it: the requests that a
\* revocation misses are those that had authenticated before it
\* (caller_repo.py: "the prior key stays cryptographically dead").
RevokedStaysOut ==
    [][ /\ Dead \subseteq Dead'
        /\ \A s \in Sessions :
              requests'[s] # Idle /\ requests[s] = Idle => requests'[s].key \notin Dead' ]_vars

\* The callers of the convention: policy init generates them, grants mint them.
Conventional(name) == \E role \in DOMAIN ROLE_CONVENTION : ROLE_CONVENTION[role][1] = name[1]

\* Whatever was initialised, merged and edited, a caller of the convention
\* gets nothing signed off its own network (Submission has one address on two
\* of them), nothing that moves value, no claim to a recipient that no init
\* named (init takes the recipient as it is given, so "any" names them all),
\* and only one kind of FSP message (policy_init.py: "An uptime token cannot
\* sign a reward distribution").
LeastPrivilege ==
    \A s \in Sessions :
        LET r == requests[s]
        IN  r # Idle /\ r.signed # NoAsk /\ Conventional(r.name) =>
               /\ r.signed.chain = r.name[2]
               /\ r.signed.kind # "transfer"
               /\ r.signed.kind = "call" =>
                     /\ r.signed.value_wei = 0
                     /\ r.signed.method = "claim" =>
                           \E args \in InitArgs : args.recipient \in {Unpinned, r.signed.arg}
               /\ r.signed.kind = "fsp" =>
                     \A ask \in Asks : ask.kind = "fsp" /\ evaluate(policy, r, ask)
                                       => ask.message_type = r.signed.message_type

\* What a policy lets a caller have signed, as its binding stands.
Authorised(p, name, ask) ==
    evaluate(p, [name |-> name, policy_path |-> p.callers[name].policy_path], ask)

\* In a policy that is put in force every ask is some caller's alone, so that
\* revoking the caller of a role withdraws what the role stands for.
OneHolder ==
    [][ policy' # policy /\ policy' # NoPolicy =>
           \A ask \in Asks :
               \A m, n \in {c \in DOMAIN policy'.callers : Authorised(policy', c, ask)} : m = n ]_vars

\* The daemon could start on p, with the callers and wallets there are.
Bootable(p) == check_consistency(p, ActiveCallers, wallets)

DistinctKeys == \A v, w \in DOMAIN wallets : wallets[v] = wallets[w] => v = w

\* Registration is initialised with the voter that it registers
\* (policy_init.py: "Requires fsp-voter").
Complete(args) == "fsp-register" \in args.capabilities => "fsp-voter" \in args.capabilities

\* The daemon can start on whatever policy init prints, while no caller is
\* active, and merging rules into a file that it could start on leaves a file
\* that it can start on, with the callers and wallets there are, when no key has
\* two names (policy_init.py: the generated file is "meant to round-trip through
\* clifwd policy validate").
MergeKeepsBootable ==
    DistinctKeys =>
        \A args \in DOMAIN Generated : Complete(args) =>
            /\ ActiveCallers = {} => Bootable(InitOutput(args, FALSE))
            /\ policy_file # NoPolicy /\ Bootable(policy_file) => Bootable(InitOutput(args, TRUE))

\* Merging a network changes nothing of what the callers of the file get
\* signed on other networks (policy_init.py: merging "leaves every other
\* network's rules byte-identical").
MergeIsAdditive ==
    policy_file # NoPolicy =>
        \A args \in DOMAIN Generated :
            LET merged == InitOutput(args, TRUE)
                elsewhere == {ask \in Asks : ask.chain \notin args.networks}
                Rights(p) == {r \in (DOMAIN policy_file.callers) \X elsewhere :
                                 Authorised(p, r[1], r[2])}
            IN  /\ DOMAIN policy_file.callers \subseteq DOMAIN merged.callers
                /\ Rights(merged) = Rights(policy_file)

\* A capability grant on a running daemon mints callers that its policy binds:
\* if the daemon could be restarted on its policy before, it still can.  (A
\* caller minted by hand need not be bound.)
GrantKeepsBootable ==
    [][ grant # NoGrant /\ grant' # grant /\ policy # NoPolicy /\ Bootable(policy)
        => Bootable(policy)' ]_vars

\* A bundle holds one token for every capability of its spec, each minted for
\* the caller of that capability, and no two the same, although the mints are
\* separate requests and may be refused, lost or cut off half-way.
BundleComplete ==
    bundle # NoBundle =>
        /\ DOMAIN bundle.tokens = {bundle.spec.roles[i] : i \in DOMAIN bundle.spec.roles}
        /\ \A r \in DOMAIN bundle.tokens :
              /\ issued[bundle.tokens[r]] = CallerOf(bundle.spec, r)
              /\ \A q \in DOMAIN bundle.tokens : bundle.tokens[q] = bundle.tokens[r] => q = r

-----------------------------------------------------------------------------
(***************************************************************************)
(* Edits by hand: what the theorems on the policies ask of them.  Without  *)
(* it the properties above fail, whatever policy init and grants do.       *)
(***************************************************************************)
ConventionPath(path) == \E role \in DOMAIN ROLE_CONVENTION : ROLE_CONVENTION[role][2] = path[1]

\* A wallet that policy init binds on some network.
ConventionWallet(w) == \E c \in DOMAIN CapabilityRules : w[1] \in CapabilityRules[c].wallets

\* An edit leaves the callers and the blocks of the convention to policy init.
EditsElsewhere ==
    \A e \in Edits :
        /\ \A n \in DOMAIN e.callers : ~Conventional(n)
        /\ \A path \in DOMAIN e.permissions \cup DOMAIN e.fsp_permissions
                       \cup DOMAIN e.native_transfers : ~ConventionPath(path)

\* A block that allows a wallet without declaring it does so on the wallet's network.
EditsAtHome ==
    LET Home(w) == {w[2]} \cap DOMAIN NetworkTable
    IN  \A e \in Edits :
           /\ \A path \in DOMAIN e.permissions :
                 LET block == e.permissions[path]
                 IN  \A w \in block.wallet_allowlist \ DOMAIN e.wallets, to \in DOMAIN block.contracts :
                        block.contracts[to].chains \subseteq Home(w)
           /\ \A path \in DOMAIN e.native_transfers :
                 LET block == e.native_transfers[path]
                 IN  \A w \in block.wallet_allowlist \ DOMAIN e.wallets : block.chains \subseteq Home(w)

\* An edit does not send from a signing wallet, and of the wallets of the
\* convention it signs FSP messages with no other.
EditsKeepDomains ==
    \A e \in Edits :
        /\ \A w \in Allowlisted(e.permissions) : w[1] # "fsp-signing"
        /\ \A w \in Allowlisted(e.fsp_permissions) \cup e.fsp_self_submit :
              ConventionWallet(w) => w[1] = "fsp-signing"

\* The blocks of two paths share no wallet.
Apart(blocks, others) ==
    \A x \in DOMAIN blocks, y \in DOMAIN others :
        x # y => blocks[x].wallet_allowlist \cap others[y].wallet_allowlist = {}

\* The callers that edits bind have blocks of their own, with wallets that no
\* other block of the section allows.
EditsDisjoint ==
    /\ \A e, f \in Edits :
          /\ \A m \in DOMAIN e.callers, n \in DOMAIN f.callers :
                e.callers[m].policy_path = f.callers[n].policy_path => m = n
          /\ Apart(e.permissions, f.permissions)
          /\ Apart(e.fsp_permissions, f.fsp_permissions)
          /\ Apart(e.native_transfers, f.native_transfers)
    /\ \A e \in Edits :
          /\ \A m \in DOMAIN e.callers : ~ConventionPath(e.callers[m].policy_path)
          /\ \A w \in Allowlisted(e.permissions) : ~ConventionWallet(w)
          /\ \A w \in Allowlisted(e.fsp_permissions) : w[1] # "fsp-signing"
=============================================================================
