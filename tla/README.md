# fwd in TLA+

fwd is a sign-only gateway to EVM wallets. Clients ask it for signatures over
HTTP; it checks them against a policy, assigns nonces, signs with keys sealed
under a master key, and records everything in one SQLite file. It never talks
to a chain: clients broadcast and report the outcome back.

This directory holds TLA+ models of fwd's core, TLC runs, and TLAPS proofs.
Paths below are relative to `src/fwd/` in the repository unless they start with
`docs/`.

    cd tla
    tlc -config Nonces.cfg MCSigning     # any .cfg, with its MC module
    tlapm SigningProofs.tla              # any *Proofs module

`PROJECT.json` lists the runs, the source lines behind every definition, the
faults each property was tried against, the hazards and the theorems.

## The system

| Component | State | Operations | What makes it correct |
|---|---|---|---|
| Nonce allocation (`infra/nonce_repo.py`) | `nonces(wallet, chain, next_nonce, last_confirmed)` | reserve, release the tail, confirm, seed, sync | a nonce is held by one live transaction; none is lost; a confirmed one is never handed out again |
| Transaction ledger (`infra/transaction_repo.py`) | `transactions`, `transaction_hashes`, `transaction_attempts` | create, change status, add attempt, find by idempotency key, find stale reservations | one transaction per key; statuses only move towards an end |
| Signing use case (`app/sign_transaction.py`) | none of its own | one request: replay, caps, gate, wedge guard, reserve, sign, persist | whatever fails, nonce and rate end as if nothing had happened, and an audit row remains |
| Report-back (`api/transactions.py`) | none of its own | broadcast-result, receipt, sign-replacement | late, repeated and reordered reports are refused or harmless |
| Admin nonce endpoints (`api/nonce.py`) | none of its own | nonce-init, nonce-sync, nonce/holes | an operator cannot re-issue a live nonce without saying so |
| Rates and caps (`infra/rate_repo.py`) | `rate_buckets`, `fsp_rate_buckets`, `wallet_buckets` | check and increment, release, commit value, prune | no window exceeds its cap; no allowance is lost |
| Policy engine (`app/policy_engine.py`, `app/policy_gate.py`, `app/fsp_policy.py`) | the loaded policy | evaluate, release after failure | default deny; a role stays within its network and message type; steps 8 and 9 count once |
| Audit log (`infra/audit_repo.py`) | `audit_log`, a hash chain | append, commit, verify | the chain never forks; what a client was told is on record |
| Sessions (`infra/db.py`, `app/dependencies.py`) | SQLite's writer lock | BEGIN IMMEDIATE, commit, rollback | writers are serialised |
| Wallets (`app/wallet_*.py`, `infra/wallet_repo.py`, `infra/envelope_signer.py`) | `wallets`; the key files of the operator | create, import, shred | an answered wallet stays; no file is destroyed without its key in the table |
| Callers (`infra/caller_repo.py`, `app/caller_*.py`, `api/caller_auth.py`) | `callers` | create, replace, revoke, resolve | a revoked token never works again |
| Policy file and startup (`infra/policy_loader.py`, `app/policy_init.py`, `main.py`) | `policy.yaml`; the policy in memory | init, merge, edit, check, load | merging a network leaves the others alone; the daemon can start on what was merged and granted; no key signs both contract calls and FSP messages unless opted in |
| Capability grants (`app/capability_grant.py`, `app/bundle_emit.py`, `cli/capability.py`) | the loop of one command; the bundle file | mint per role, write the bundle | a bundle is complete, each token under its own capability |
| Master key, ABI decoding, health, the rest of the CLI | files | seal, decode, probe | not modelled |

How they interact: an HTTP request resolves its caller in a read-only session,
then opens one writing session, in which the use case calls the repositories. The
session scope commits when the handler returns and rolls back when it raises. A
handler that refuses commits its audit row explicitly and then raises. Every
writing session opens with BEGIN IMMEDIATE, so requests that write are
serialised, in one process or several.

What is hard here: the order in which clients report (fwd learns about the
chain only from them, late, twice or never); a failure between the reservation
and the insert; operators who re-seed or sync while transactions are
outstanding; retries; counters that are taken before and given back after a
failure, across window boundaries and restarts; the chain of audit rows
under concurrent sessions and crashes; key files that are shredded by a
transaction that may still roll back; a policy file that is generated, merged
and edited while the daemon runs on an older one and callers are minted,
rotated and revoked; a grant made of several requests, any of which can fail or
be lost. `PROJECT.json` lists each hazard at its
line.

## The modules

### Signing

One action per way a request can end. The state is the `nonces` row of each
account (a (wallet, chain) pair), the `transactions` table with the attempts of
each row, the clock, and the audit row written last, which carries the outcome
of the request. `seedpoint` and `overridden` are ghosts: the value an admin call
set last, and the accounts an operator re-seeded with `force_with_in_flight`
while transactions were in flight.

| Code | Actions |
|---|---|
| `sign_transaction` | SignReplay, SignConflict, SignCapped, SignDenied, SignWedged, SignUnseeded, SignFailed, SignApproved |
| `post_broadcast_result` | BroadcastAccepted, BroadcastReleaseable, BroadcastTooLow, ReportRefused |
| `post_receipt` | Receipt, ReportRefused |
| `post_sign_replacement` | ReplacementRefused, ReplacementFailed, ReplacementSigned |
| `post_nonce_init`, `post_nonce_sync` | NonceInit, NonceInitRefused, NonceInitNoWallet, NonceSyncAdvance, NonceSyncInSync, NonceSyncRefused |

Why one action per request is faithful: the request's transaction holds the
writer lock from its first read, and the clock value it uses is read while it
does. The policy verdict and the signer's outcome are choices of the
environment. Attempt *k* stands for the hash recorded with sequence number *k*:
a reported hash either is one of them or is refused. `MinPriority` is
`math.ceil(prev * 1.125)` in integers; the float is exact below 2^53, far above
FWD_MAX_FEE_PER_GAS. The replacement arm `replacement_intent_unrecoverable` is left out: request
validation guarantees that the stored body has its data. A missing wallet ends a request before anything
is written.

### Ledger

What nonce allocation and the transaction table promise together, as a book of
entries: an entry is opened with a nonce that no open entry of its account holds
and that is above what is confirmed, then settled for good, by a rejection or a
confirmation; an operator may sync or re-seed, and over open entries a re-seed
suspends the promise. There is no next_nonce. `Signing` implements it under the
mapping `AsBook`: pending and submitted transactions are open entries, the
others settled ones, whatever their bids, keys, timestamps and audit rows.
`ImplementsLedger` (that Signing, so mapped, satisfies Ledger's specification)
is checked in the run Nonces and proved as `LedgerRefined`.

### Rates

Buckets without their window, counters per window, the aggregate value per
day, and the signed transactions that wait for a receipt. One action per way a
request ends at or after the gate, for the three kinds of rule (contract
method, native transfer, FSP message), plus receipts, the clock and a restart
that prunes. Rule matching (steps 1 to 7) leaves this state alone, so a bucket
stands for a request that has passed them. Time is in hours; a day has
`HoursPerDay` of them. `signed` and `wallet_signed` are ghosts that count
signatures per window whether or not a limit counts that window.

### AuditLog

Committed rows by seq, SQLite's writer lock, and sessions that begin, append,
commit (by leaving the scope, or explicitly before a refusal is raised), answer,
roll back or crash. `verify(from, to)` is an operator over committed rows. One
row may be changed or deleted outside the program, once. SHA-256 is taken as
collision-free: a hash is its preimage, the bodies of the chain up to the row.

### Wallets

The committed `wallets` table and its audit rows, the operator's key files, the
writer lock, and sessions of the daemon (create) and of `clifwd wallets import`
(a process of its own). The key is read or generated before the session's first
statement, so without the lock; lookup and insert follow BEGIN IMMEDIATE; then
the file is shredded, the approved row appended and the scope left. Any step can
fail or be the last one of a process. A key stands for its address and ciphertext; "unfit" is a
file that one of the checks of the refusal table rejects. `told` and `aborted` are
ghosts. The operator is external: puts files in place, and shreds one when the
CLI tells him to.

### Policy, PolicyInit and Access

*Policy* has no state: a policy is a record of functions, and the module has
every check of `check_consistency` as a predicate and the decision of the
engine (steps 1 to 7 and the wallet binding of step 9, native transfers,
`evaluate_fsp`) on an *ask*, a request reduced to what the rules compare. A
name `claim-flare` is the pair <<"claim", "flare">>; a chain id is its network;
a method is its canonical signature. `Signatures` and `has_nonscalar_args` are
the shipped ABIs as tables.

*PolicyInit* is `clifwd policy init`: each capability is a table of rows
(caller, path, contract, methods, wallets), from which `generate_policy` builds
the sections; `merge_policies` joins them to an existing file, section by
section (`Overlay`). The role convention of `capability grant` is here as well,
since the two must agree.

*Access* composes them with the state: the file, the policy in memory, the
`callers` and `wallets` tables, requests and one running grant. Tokens are
numbered as they are minted; a row holds the number of its token.

| Code | Actions |
|---|---|
| `clifwd policy init [--merge]`, the operator's editor | InitPolicy, EditPolicy |
| `lifespan`, `_startup_policy_load` | Start, StartWithoutPolicy, Stop |
| `post_callers`, `delete_caller` | PostCallers, DeleteCaller |
| `require_caller`, then the rest of a sign request | Authenticate, SignAsk, Answer |
| `capability grant --approve` | GrantStart, GrantMint, GrantSkip, GrantUnreachable, GrantEnd |
| `WalletRepo.create` | AddWallet |

Authentication and decision are two steps because the code uses two sessions:
the row is read in a read-only one and used as it was read. A grant is a process
of its own that sends one request per role; GrantUnreachable covers a lost
answer, where the daemon may have minted. A failing `Start` changes nothing, so
it is no step. Start reads the tables and the file at one moment; edits during
it are not considered. Left out: rates (in Rates), audit rows (in AuditLog), the
sealing of wallets (in Wallets), the admin token, capability ids (only in the
uniqueness check: neither init nor grant writes one to the file).

### Domains

Access with a history variable, `booted`: the wallets table as the last start
read it. It follows Access's steps and constrains none (`HistoryOnly`).
KeyDomainsApart compares a signature that a request has with all that any caller
of the policy in force could have signed, by the keys that the start knew; the
startup check compares blocks of a file, before any of this, and by then file,
callers and wallets may have changed. The Access run is a run of DomainSpec.

Signing and Rates keep only the latest audit row or verdict; AuditLog shows
that a row that a session appends is kept.

## The runs

All states below are distinct ones.

| Run | Checks | Bounds and why they suffice |
|---|---|---|
| Nonces | NonceUnique, InFlightBelowNext, ConfirmedBelowNext, ConfirmedNotLive, NoLeakedNonce, ConfirmedMonotone, ImplementsLedger | 3 transactions, nonces to 2, 296k states. Every fault in nonce handling needs a transaction below the tail and one at the tail; a third lets a re-issue happen after both |
| Retries | OneTxPerKey, HoleNeverDeepened | 2 transactions, 1 key, 2 bodies (symmetric), clock to 2 with a lease of 1: at and after the lease, 1.3M states |
| Settles | TypeOK, AttemptsEscalate, EveryReservationSettles | 2 transactions, nonces to 2, 3 attempts, fees 0..2 and gas 1..2 against caps of 1, 406k states: a bid above, at and below the cap, a refused replacement after an accepted one, a report for an older bid |
| RateCaps | TypeOK, CapRespected, NothingLost | 2 methods on a wallet, 6 hours in 3 days of 2 hours: hour and day boundaries, and a restart that prunes a window for good |
| RuleKinds | CapRespected, NothingLost | each kind of rule on its own wallet, one with a cap that does not parse |
| AuditChain | TypeOK, ChainIntact, AnsweredIsLogged, DamageLocated | 2 sessions, 4 rows, 2 bodies, 533k states: a damaged row can have rows on both sides |
| Custody | TypeOK, WalletsKept, SourceCovered, AuditMatches | 2 sessions, 2 names, 1 key file, 1 generated key, 181k states: two sessions race for one name, or for one file under two names |
| Access | TypeOK, RevokedStaysOut, LeastPrivilege, OneHolder, KeyDomainsApart, MergeIsAdditive, MergeKeepsBootable, GrantKeepsBootable, BundleComplete | Flare with claim and fsp, Songbird with fsp-voter and fsp-register, one edit by hand (a transfer block on a generated wallet, a caller with a wallet of its own, an FSP seat), a second name for one key, 2 grants, 1 request at a time, 2 tokens, 108k states: enough for a rotation (two tokens of one name), a bundle of two, and every policy on top of every other |

The Signing runs have one account and one caller: the tables are keyed by
account and by caller, and the theorems cover any number of both.

Each property is also run against a fault put into a mapped definition (the
operators marked *Fault*), and TLC finds the violation.

Bounds in guards: `MaxNonce`, `MaxTxs`, `MaxTime`, `MaxOutstanding`,
`MaxRows` and `MaxKeys` cap what would grow for ever. `MaxAttempts`, `Lease`, `MaxAdvance`,
`MaxGas` and `MaxFeePerGas` are the program's own limits, made small.

**Fairness.** `FairSpec` assumes of each transaction that some broadcast result
is reported, and some receipt once it is broadcast. That is what the API asks of its clients
(docs/architecture.md, steps 14 and 15), and nothing in fwd enforces it; without
it a transaction stays pending, which is what the wedge guard is for. The run
shows that fwd never stops accepting the report that would settle a row.

### Disagreements between documentation and code

Four runs state what a document or comment says and end in a violation.

| Run | The text | The code |
|---|---|---|
| UnreleasedGap | docs/architecture.md:237 "tail nonce released, else surfaced via `nonce/holes`" | the row is marked `failed`, and `nonce/holes` lists `pending` rows |
| NativeRelease | docs/architecture.md:236 "releases the nonce + rate" | `release_rate_after_failure` returns early for a native transfer |
| DailyCap | docs/architecture.md:643 value "added on successful **sign**" | value is added at the receipt, so outstanding transactions overrun the cap |
| ShredFailed | cli/wallets.py:201 "wallet was imported successfully; manually shred the source." | the exception leaves the session scope, which rolls the wallet back; shredding the file then destroys the only copy of the key |

ShredFailed has a neighbour that no text speaks of: shred comes before the
commit, so a crash or a failed commit in between loses the key as well.
SourceCovered shows that these are the only ways.

Met on the way, without a run: infra/policy_loader.py:344 says "one key must not
sign in both domains", but the check collects addresses from `permissions` and
`fsp_permissions` only (lines 271 to 282), so a wallet that a `native_transfers`
block and an FSP block allow passes startup without opt-in and signs transfers
and FSP messages with one key; app/policy_init.py:583 says that a "defensive
setdefault keeps a merge-only `--capabilities fsp-register --merge` generation
referentially valid", but it adds the wallets without their
`wallet_constraints`, so the daemon does not start on the file unless fsp-voter
was there before ("Requires fsp-voter", line 40, which nothing enforces);
MergeKeepsBootable therefore speaks of options with both (`Complete`). infra/audit_repo.py:159 says when `upstream_break` is
set, and the linkage check of the first walked row always returns before; api/transactions.py:434 speaks of a "min fee
increase", and ceil(0 * 1.125) = 0 lets the same bid pass when the priority fee
was 0; docs/architecture.md:762 says "deny keeps the rate increment", and a
denial at step 9 releases what step 8 counted; docs/decisions.md:869 has an orphan re-driven
through sign-replacement, which needs status `submitted`; docs/architecture.md:240 has
every denied operation leave an audit row, and a missing wallet leaves none.

## The proofs

TLAPS proves these for every value of the constants, from the named assumptions
of each module (`SigningAssumption`, `RatesAssumption`, `AuditAssumption`,
`WalletsAssumption`, `AccessAssumption`: the constants have their types;
MaxAttempts > 0, a day has an hour, sentinel values are not values, the roles of
a spec are a sequence of strings, a transaction's value is a natural number).

**SigningProofs.** `TypeCorrect`, `NonceSafety`, `HoleSafety`,
`IdempotencySafety`, `NoNonceLost`, `ConfirmedForward`, `BidsEscalate`,
`InFlightSafety`, `ConfirmedSafety`, `ConfirmedSettled`, `LedgerRefined`.
NonceUnique is not inductive: a release could take back a nonce at or above one
in flight, were that one not below next_nonce; and ConfirmedBelowNext could fail
when the tail that is released is the nonce confirmed last. `NonceInv` therefore
joins NonceUnique, InFlightBelowNext, ConfirmedBelowNext and ConfirmedNotLive
(no transaction in flight carries the nonce confirmed last) with `SeededInv`
(nothing exists on an account before its first nonce-init, which is unguarded).
HoleSafety needs that rows are inserted in the order of reserved_at.
`StepCases` splits a step into its actions once for all proofs.

`LedgerRefined`: Init maps to the empty book, and each action to one step of it
or to none. ApprovedOpens (a new transaction is a new entry; that next_nonce is
free and above what is confirmed is TailIsFree, from NonceInv), RejectionCloses
and ReceiptConfirms are the steps that move the book; AdminSteps are syncs and
re-seeds; releasing a tail does not show in it; in all others the
book stays (SameBook), replacements included, since a bid is not part of it.

**RatesProofs.** `TypeCorrect`, `CapSafety`, `AllowanceKept`. A counter may exceed what was
signed (an unreleased native transfer) but never falls short of it while its
window can still be current. `CapInv` says so for every window that covers the
present or a later hour: pruning drops only windows that cannot be current
again, because a day is shorter than the two days it keeps. NothingLost is the
converse (a count is never above the signatures) where every failure releases;
it is inductive together with the types, since a release finds the very windows
that the gate counted in the same step (CountedAndSigned, NothingLostStep).

**AuditLogProofs.** `TypeCorrect`, `ChainSafety`, `AnswersLogged`,
`DamageFound`. `AuditInv`: a session between BEGIN and its end holds the lock;
its pending row continues the log as it stands; an undamaged log is 1..n, each
row chained to the last. For damage, `DamageInv`: put the lost row back and the
log is chained; new rows go behind it, so this survives appends. Two different
rows with one predecessor have different hashes, so one of the two rows at the
scar fails its check.

**WalletsProofs.** `TypeCorrect`, `StoredForGood`, `SourceSafety`,
`AuditAgrees`. `WalletsInv`: from its insert to its end a session holds the
lock, so the name it found free is still free when it commits, and its commit
overwrites nothing; a shredded file belongs to an open import, a stored wallet or
an import that failed.

**AccessProofs.** `TypeCorrect`, `RevocationFinal`, `Bundles`, for
any policies, edits, callers and grants and any number of concurrent requests.
`AccessInv`: rows, requests, grants and bundles hold tokens that were minted
(`Rows`, `InFlight`), so the token of the next mint is none of them; a grant
under way files every token under the role whose caller it was minted for, and
as long as it has no failures, its roles minted and its roles to do are the
whole spec (`GrantSound`), which at the end of the loop is what
BundleComplete asks. RevocationFinal then needs only that a mint writes a new
key and leaves the other rows (`MintKeepsDead`), and that authentication reads
active rows (`StartsAlive`).

**AccessPolicyProofs**, with the lemmas of **PolicyInitProofs** about the
tables. `ConventionLeastPrivilege`, `OneHolderInForce`, `MergesAreAdditive`,
`MergesKeepBootable`, `GrantsKeepBootable`, for any options of init, merged in
any order and any number of times, any requests, grants and restarts, and any
edits that meet the hypotheses below.

None of the five is inductive: they say what a file means, and the file is the
result of a history. `PolicyInv` says what is left of it: every rule of the
file, and of the policy in force, is a rule of some *piece* (a generated policy
or an edit), all of whose keys the policy still has. So a merge may overwrite a
block, but a caller that came with the block is still bound (`FromPieces`,
`Within`). The rest ties requests to policies: while the daemon is down there is
no policy and no request, and what a request had signed was authorised by the
policy in force (`Decided`). From there the argument is about single pieces.
PolicyInitProofs shows that callers, paths and roles of the convention name each
other uniquely (`RowsAgree`, `RowsConventional`), which methods and wallets each
row has, and that a capability binds, constrains and opts in the wallets of its
own rows (`CapabilitiesClosed`). For MergesKeepBootable each check of
`check_consistency` is a lemma: the merged file is the old one outside the
generated keys and the generated one on them, and the checks that span sections
(self-submit, key segregation) are settled by the stem of the wallet.

The properties are false of arbitrary hand-written files, so the theorems name
what they ask of edits; MCAccess asserts that its edit meets all of it.

| Hypothesis | Needed by | Without it |
|---|---|---|
| `EditsElsewhere`: edits bind no caller and set no block of the convention | all but OneHolderInForce | an edit widens a generated role, or a merge overwrites the edit |
| `EditsAtHome`: a block that allows a wallet without declaring it does so on the wallet's network | MergesAreAdditive | a native_transfers block on Flare with a Songbird wallet that only the database knows passes the startup check and authorises nothing, until merging Songbird declares the wallet |
| `EditsKeepDomains`: edits send from no signing wallet, and of the convention's wallets sign FSP messages with no other | MergesKeepBootable | an edit opts a sender wallet in to fsp_self_submit, or signs with it; the file is bootable, and the next merge gives the wallet a sending block that the startup check refuses |
| `EditsDisjoint`: the callers of edits have blocks and wallets of their own | OneHolderInForce | two callers share a block |

The second and the third came out of failed proof attempts: adding a network
is not additive, nor always bootable, on a file edited in these ways, although
each edit is accepted by itself. MergeKeepsBootable holds for wallets with
distinct keys (`DistinctKeys`); a key imported twice can be refused at any start.

In these modules sections are plain functions, because the prover's SMT backend
does not know `@@` and `:>`.

**DomainsProofs.** `KeyDomains` and `CarveOut`, for any edits (none of the
hypotheses above), callers, wallets and requests. `DomainInv` carries the check
of one moment to the requests that follow: the policy in force passed it against
`booted`, whatever the file and the table are by now, because a policy is loaded
only by a start and dropped only by a stop (`PolicyChanges`). By `Decided`, what
a request had signed some block of that policy allows (`EvaluatePermitted`), so a
key that can sign in both domains is in the allowlists of both kinds of blocks.
CarveOut bounds what the exception allows: the contract calls of an opted-in
wallet have no value and are calls of the FSP protocol. It is proved only: the
edit of the run opts nobody in, and of the convention's callers LeastPrivilege
says as much.

What they do not say, because the code does not do it: value transfers are not
compared with FSP messages (see the disagreements); a wallet that is created or
imported while the daemon runs is compared at the next start; and the carve-out
holds the name that is opted in to the shapes, while it exempts the address, so
that the blocks of a second name of that key are not held to them.

**Model-checked only.** EveryReservationSettles (liveness under fairness is out
of the prover's reach) and the four disagreements.

## Not modelled

- ABI decoding, the byte layout of FSP messages and the epochs inside them,
  encryption of the master key, key hashing: libraries, or conversions without
  state. They enter as steps that may fail, or as tables.
- Power loss under `synchronous=NORMAL` (infra/db.py:52): a committed
  transaction could be undone after its answer. It needs the signing request as
  several steps (read, reserve, sign, commit, answer) over a disk that forgets,
  as an implementation of Signing's atomic actions.
- One key under two wallet names as two rows of `nonces`: Signing takes an
  account to have a key of its own.
- The client and the mempool: which gaps a client can recover from is a question
  about code outside the repository.
- Health probes, listings, the remaining commands of the CLI, `bundle compose`
  (the host-side composer of the same format), the example client.

Worth adding next, in this order: the steps of a signing request with power
loss, refined to Signing; Wallets composed with Signing for shared keys; a
client with a mempool on top of Signing.
