------------------------------ MODULE Signing ------------------------------
(***************************************************************************)
(* The nonce and transaction ledger of fwd: POST /v1/sign-transaction, the *)
(* report-back endpoints (broadcast-result, receipt, sign-replacement) and *)
(* the admin nonce endpoints (nonce-init, nonce-sync, nonce/holes).        *)
(*                                                                         *)
(* Every writing request runs in one SQLite transaction opened with BEGIN  *)
(* IMMEDIATE (infra/db.py), so requests are serialised and one action here *)
(* is one whole request: its early returns are actions of their own.       *)
(*                                                                         *)
(* An account is a (wallet, chain) pair, the key of the nonces table.  An  *)
(* intent is the (to, value, data) part of a request.  The policy decision *)
(* and the outcome of the sealed master are choices of the environment.    *)
(***************************************************************************)
EXTENDS Integers, Sequences

CONSTANTS
    Accounts,       \* (wallet, chain) pairs whose wallet is provisioned
    Callers,        \* caller names
    Keys,           \* idempotency keys
    NoKey,          \* a request without an Idempotency-Key header
    Intents,        \* (to, value_wei, data) of a request
    Gas, Fees,      \* the gas limits and the fees per gas that callers ask for
    MaxGas,         \* FWD_MAX_GAS
    MaxFeePerGas,   \* FWD_MAX_FEE_PER_GAS
    Lease,          \* FWD_RESERVATION_LEASE_SEC, in ticks
    MaxAdvance,     \* FWD_NONCE_SYNC_MAX_ADVANCE
    MaxAttempts,    \* attempts per transaction, replacements included (5 in the code)
    MaxNonce,       \* bound: the highest next_nonce explored
    MaxTxs,         \* bound: transaction rows
    MaxTime         \* bound: the last tick of the clock

ASSUME SigningAssumption ==
    /\ NoKey \notin Keys
    /\ Gas \subseteq Nat
    /\ Fees \subseteq Nat
    /\ MaxGas \in Nat
    /\ MaxFeePerGas \in Nat
    /\ Lease \in Nat
    /\ MaxAdvance \in Nat
    /\ MaxAttempts \in Nat \ {0}
    /\ MaxNonce \in Nat
    /\ MaxTxs \in Nat
    /\ MaxTime \in Nat

VARIABLES
    seeded,         \* the accounts that have a nonces row
    next_nonce,     \* nonces.next_nonce
    last_confirmed, \* nonces.last_confirmed, Null when the column is NULL
    txs,            \* the transactions table, in the order of insertion
    now,            \* the wall clock
    audit,          \* the row most recently appended to audit_log
    seedpoint,      \* ghost: the next_nonce an admin call set last
    overridden      \* ghost: accounts re-seeded while transactions were in flight

vars == <<seeded, next_nonce, last_confirmed, txs, now, audit, seedpoint, overridden>>
nonceVars == <<seeded, next_nonce, last_confirmed, seedpoint, overridden>>

Null == -1
Statuses == {"pending", "submitted", "mined", "failed", "reverted"}
InFlight == {"pending", "submitted"}
Settled == Statuses \ InFlight

\* The request schemas ask for max_fee_per_gas >= 1 and priority fee >= 0.
FeeParams == [gas : Gas, max_fee : Fees \ {0}, priority : Fees]
Requests == [caller : Callers, key : Keys \cup {NoKey}, acct : Accounts,
             intent : Intents, fee : FeeParams]

\* A transactions row with its transaction_attempts.  Attempt k also stands for
\* the hash recorded with sequence_num k: a hash is a function of the account,
\* the nonce, the intent and the attempt's fees.
TxRow == [caller : Callers, key : Keys \cup {NoKey}, acct : Accounts,
          intent : Intents, fee : FeeParams, nonce : Nat, status : Statuses,
          reserved_at : Nat, attempts : Seq(FeeParams)]

\* The vocabulary of audit_log, as far as this module writes it.
Actions ==
    {"genesis", "sign-transaction-duplicate", "sign-transaction",
     "tx-broadcast-result", "tx-receipt", "tx-replacement", "nonce-init",
     "nonce-sync"}
Decisions == {"approved", "denied", "error", "none"}
Reasons ==
    {"already_initialized", "broadcast_accepted",
     "broadcast_rejected_nonce_too_low", "force_overwrite",
     "idempotency_key_body_mismatch", "idempotency_replay",
     "illegal_transition", "in_flight_nonces", "in_sync",
     "nonce_not_initialized", "nonce_sync_out_of_bounds", "none",
     "policy_denied", "pre_sign_failure", "receipt_mined_reverted",
     "receipt_mined_success", "rejected_not_released", "rejected_released",
     "replacement_bump_too_low", "replacement_cap_exhausted", "sign_failure",
     "tx_hash_mismatch",
     "tx_params_rejected", "wallet_has_stale_nonce_hole", "wallet_not_found"}
AuditRow == [action : Actions, decision : Decisions, reason : Reasons, tx : Nat]
Row(action, decision, reason, tx) ==
    [action |-> action, decision |-> decision, reason |-> reason, tx |-> tx]

TypeOK ==
    /\ seeded \in SUBSET Accounts
    /\ next_nonce \in [Accounts -> Nat]
    /\ last_confirmed \in [Accounts -> Nat \cup {Null}]
    /\ txs \in Seq(TxRow)
    /\ \A i \in DOMAIN txs : Len(txs[i].attempts) \in 1..MaxAttempts
    /\ now \in Nat
    /\ audit \in AuditRow
    /\ seedpoint \in [Accounts -> Nat]
    /\ overridden \in SUBSET Accounts

Init ==
    /\ seeded = {}
    /\ next_nonce = [a \in Accounts |-> 0]
    /\ last_confirmed = [a \in Accounts |-> Null]
    /\ txs = <<>>
    /\ now = 0
    /\ audit = Row("genesis", "none", "none", 0)
    /\ seedpoint = [a \in Accounts |-> 0]
    /\ overridden = {}

-----------------------------------------------------------------------------
(* The repositories: infra/nonce_repo.py and infra/transaction_repo.py.      *)

\* Fault: the release forgets that a later reservation may hold the tail.
release_if_unused_Unconditional(nx, a, reserved) == [nx EXCEPT ![a] = @ - 1]

reserve_next(nx, a) == [nx EXCEPT ![a] = @ + 1]

release_if_unused(nx, a, reserved) ==
    IF nx[a] - 1 = reserved THEN [nx EXCEPT ![a] = @ - 1] ELSE nx

\* Fault: the receipt overwrites last_confirmed instead of taking the maximum.
mark_confirmed_Overwrite(lc, a, nonce) == [lc EXCEPT ![a] = nonce]

mark_confirmed(lc, a, nonce) ==
    [lc EXCEPT ![a] = IF @ = Null \/ @ < nonce THEN nonce ELSE @]

\* Fault: the on-chain count is taken for the last confirmed nonce.
set_last_confirmed_OffByOne(lc, a, value) == [lc EXCEPT ![a] = value]

set_last_confirmed(lc, a, value) == [lc EXCEPT ![a] = value - 1]

\* Fault: a failed transaction no longer answers for its key.
get_by_idempotency_key_SkipFailed(c, k) ==
    {i \in DOMAIN txs : /\ txs[i].caller = c /\ txs[i].key = k
                        /\ txs[i].status # "failed"}

get_by_idempotency_key(c, k) ==
    {i \in DOMAIN txs : txs[i].caller = c /\ txs[i].key = k}

StaleReservation(i) ==
    txs[i].status = "pending" /\ txs[i].reserved_at < now - Lease

\* Fault: the guard looks at broadcast transactions, not at orphans.
has_stale_reservation_Submitted(a) ==
    \E i \in DOMAIN txs : /\ txs[i].acct = a
                          /\ txs[i].status = "submitted"
                          /\ txs[i].reserved_at < now - Lease

has_stale_reservation(a) ==
    \E i \in DOMAIN txs : txs[i].acct = a /\ StaleReservation(i)

\* GET /v1/admin/nonce/holes: what the operator is shown.
get_nonce_holes == {i \in DOMAIN txs : StaleReservation(i)}

\* Fault: only broadcast transactions count as in flight.
has_in_flight_Submitted(a) ==
    \E i \in DOMAIN txs : txs[i].acct = a /\ txs[i].status = "submitted"

has_in_flight(a) ==
    \E i \in DOMAIN txs : txs[i].acct = a /\ txs[i].status \in InFlight

update_status(i, status) == txs' = [txs EXCEPT ![i].status = status]

-----------------------------------------------------------------------------
(* POST /v1/sign-transaction: app/sign_transaction.py.                       *)

SameBody(r, i) ==
    r.acct = txs[i].acct /\ r.intent = txs[i].intent /\ r.fee = txs[i].fee

Replayed(r) == r.key # NoKey /\ get_by_idempotency_key(r.caller, r.key) # {}

FeeRejected(fee) ==
    \/ fee.priority > fee.max_fee
    \/ fee.gas > MaxGas
    \/ fee.max_fee > MaxFeePerGas

\* The request got past the replay check, the sanity caps and the policy gate.
Admitted(r) == ~Replayed(r) /\ ~FeeRejected(r.fee)

\* The request has reserved its nonce and built the transaction to sign.
Reserves(r) ==
    /\ Admitted(r)
    /\ ~has_stale_reservation(r.acct)
    /\ r.acct \in seeded

NewTx(r) ==
    [caller |-> r.caller, key |-> r.key, acct |-> r.acct, intent |-> r.intent,
     fee |-> r.fee, nonce |-> next_nonce[r.acct], status |-> "pending",
     reserved_at |-> now, attempts |-> <<r.fee>>]

\* An idempotent replay: the recorded attempt 1 is returned, nothing is signed.
SignReplay(r) ==
    /\ r.key # NoKey
    /\ \E i \in get_by_idempotency_key(r.caller, r.key) :
          /\ SameBody(r, i)
          /\ audit' = Row("sign-transaction-duplicate", "approved", "idempotency_replay", i)
    /\ UNCHANGED <<nonceVars, txs, now>>

SignConflict(r) ==
    /\ r.key # NoKey
    /\ \E i \in get_by_idempotency_key(r.caller, r.key) :
          /\ ~SameBody(r, i)
          /\ audit' = Row("sign-transaction", "denied", "idempotency_key_body_mismatch", i)
    /\ UNCHANGED <<nonceVars, txs, now>>

SignCapped(r) ==
    /\ ~Replayed(r)
    /\ FeeRejected(r.fee)
    /\ audit' = Row("sign-transaction", "denied", "tx_params_rejected", 0)
    /\ UNCHANGED <<nonceVars, txs, now>>

SignDenied(r) ==
    /\ Admitted(r)
    /\ audit' = Row("sign-transaction", "denied", "policy_denied", 0)
    /\ UNCHANGED <<nonceVars, txs, now>>

SignWedged(r) ==
    /\ Admitted(r)
    /\ has_stale_reservation(r.acct)
    /\ audit' = Row("sign-transaction", "denied", "wallet_has_stale_nonce_hole", 0)
    /\ UNCHANGED <<nonceVars, txs, now>>

SignUnseeded(r) ==
    /\ Admitted(r)
    /\ ~has_stale_reservation(r.acct)
    /\ r.acct \notin seeded
    /\ audit' = Row("sign-transaction", "error", "nonce_not_initialized", 0)
    /\ UNCHANGED <<nonceVars, txs, now>>

\* Fault: the error arm commits its audit row without giving the nonce back.
SignFailed_KeepNonce(r) ==
    /\ Reserves(r)
    /\ next_nonce[r.acct] < MaxNonce
    /\ next_nonce' = reserve_next(next_nonce, r.acct)
    /\ audit' = Row("sign-transaction", "error", "pre_sign_failure", 0)
    /\ UNCHANGED <<seeded, last_confirmed, seedpoint, overridden, txs, now>>

\* The sealed master or eth_account refuses: the reservation is released and
\* committed together with the forensic row.
SignFailed(r) ==
    /\ Reserves(r)
    /\ next_nonce' = release_if_unused(reserve_next(next_nonce, r.acct), r.acct,
                                       next_nonce[r.acct])
    /\ audit' = Row("sign-transaction", "error", "pre_sign_failure", 0)
    /\ UNCHANGED <<seeded, last_confirmed, seedpoint, overridden, txs, now>>

SignApproved(r) ==
    /\ Reserves(r)
    /\ next_nonce[r.acct] < MaxNonce
    /\ Len(txs) < MaxTxs
    /\ next_nonce' = reserve_next(next_nonce, r.acct)
    /\ txs' = Append(txs, NewTx(r))
    /\ audit' = Row("sign-transaction", "approved", "none", Len(txs) + 1)
    /\ UNCHANGED <<seeded, last_confirmed, seedpoint, overridden, now>>

-----------------------------------------------------------------------------
(* The report-back endpoints: api/transactions.py.  A request for a tx_id of *)
(* another caller is a 404 that writes nothing.                              *)

\* The reported hash is not one recorded for the row, or the row is not in the
\* state the report needs (a late, repeated or reordered report).
ReportRefused(i, action, required) ==
    /\ \/ audit' = Row(action, "denied", "tx_hash_mismatch", i)
       \/ /\ txs[i].status # required
          /\ audit' = Row(action, "denied", "illegal_transition", i)
    /\ UNCHANGED <<nonceVars, txs, now>>

\* Fault: a late acceptance is taken for a transaction already given up.
BroadcastAccepted_Late(i) ==
    /\ txs[i].status \in {"pending", "failed"}
    /\ update_status(i, "submitted")
    /\ audit' = Row("tx-broadcast-result", "approved", "broadcast_accepted", i)
    /\ UNCHANGED <<nonceVars, now>>

BroadcastAccepted(i) ==
    /\ txs[i].status = "pending"
    /\ update_status(i, "submitted")
    /\ audit' = Row("tx-broadcast-result", "approved", "broadcast_accepted", i)
    /\ UNCHANGED <<nonceVars, now>>

\* The audit outcome says whether the nonce was released.
BroadcastReleaseable(i) ==
    /\ txs[i].status = "pending"
    /\ next_nonce' = release_if_unused(next_nonce, txs[i].acct, txs[i].nonce)
    /\ update_status(i, "failed")
    /\ audit' = Row("tx-broadcast-result", "approved",
                    IF next_nonce' = next_nonce THEN "rejected_not_released"
                                                ELSE "rejected_released", i)
    /\ UNCHANGED <<seeded, last_confirmed, seedpoint, overridden, now>>

BroadcastTooLow(i) ==
    /\ txs[i].status = "pending"
    /\ update_status(i, "failed")
    /\ audit' = Row("tx-broadcast-result", "approved", "broadcast_rejected_nonce_too_low", i)
    /\ UNCHANGED <<nonceVars, now>>

\* Fault: only the hash of the first attempt is known to /receipt, so that a
\* transaction mined as a replacement has no receipt that is accepted.
Receipt_FirstHash(i, status) ==
    /\ txs[i].status = "submitted"
    /\ Len(txs[i].attempts) = 1
    /\ update_status(i, status)
    /\ last_confirmed' = mark_confirmed(last_confirmed, txs[i].acct, txs[i].nonce)
    /\ audit' = Row("tx-receipt", "approved", "receipt_mined_success", i)
    /\ UNCHANGED <<seeded, next_nonce, seedpoint, overridden, now>>

\* The receipt of any recorded attempt confirms the nonce, mined or reverted.
Receipt(i, status) ==
    /\ txs[i].status = "submitted"
    /\ update_status(i, status)
    /\ last_confirmed' = mark_confirmed(last_confirmed, txs[i].acct, txs[i].nonce)
    /\ audit' = Row("tx-receipt", "approved",
                    IF status = "mined" THEN "receipt_mined_success"
                                        ELSE "receipt_mined_reverted", i)
    /\ UNCHANGED <<seeded, next_nonce, seedpoint, overridden, now>>

\* Fault: the bump is measured against the first attempt.
latest_attempt_First(i) == txs[i].attempts[1]

latest_attempt(i) == txs[i].attempts[Len(txs[i].attempts)]

\* math.ceil(prev * 1.125)
MinPriority(prev) == (9 * prev + 7) \div 8

\* Fault: the cap admits one attempt too many.
AttemptsExhausted_OffByOne(i) == Len(txs[i].attempts) > MaxAttempts

AttemptsExhausted(i) == Len(txs[i].attempts) >= MaxAttempts

BumpTooLow(i, fee) ==
    \/ fee.priority < MinPriority(latest_attempt(i).priority)
    \/ fee.max_fee < latest_attempt(i).max_fee

ReplacementRefused(i, fee) ==
    /\ \/ /\ txs[i].status # "submitted"
          /\ audit' = Row("tx-replacement", "denied", "illegal_transition", i)
       \/ /\ txs[i].status = "submitted"
          /\ BumpTooLow(i, fee)
          /\ audit' = Row("tx-replacement", "denied", "replacement_bump_too_low", i)
       \/ /\ txs[i].status = "submitted"
          /\ ~BumpTooLow(i, fee)
          /\ FeeRejected(fee)
          /\ audit' = Row("tx-replacement", "denied", "tx_params_rejected", i)
       \/ /\ txs[i].status = "submitted"
          /\ ~BumpTooLow(i, fee)
          /\ ~FeeRejected(fee)
          /\ AttemptsExhausted(i)
          /\ audit' = Row("tx-replacement", "denied", "replacement_cap_exhausted", i)
    /\ UNCHANGED <<nonceVars, txs, now>>

Replaceable(i, fee) ==
    /\ txs[i].status = "submitted"
    /\ ~BumpTooLow(i, fee)
    /\ ~FeeRejected(fee)
    /\ ~AttemptsExhausted(i)

\* The nonce stays reserved: an earlier attempt may be in a mempool.
ReplacementFailed(i, fee) ==
    /\ Replaceable(i, fee)
    /\ audit' = Row("tx-replacement", "error", "sign_failure", i)
    /\ UNCHANGED <<nonceVars, txs, now>>

ReplacementSigned(i, fee) ==
    /\ Replaceable(i, fee)
    /\ txs' = [txs EXCEPT ![i].attempts = Append(@, fee)]
    /\ audit' = Row("tx-replacement", "approved", "none", i)
    /\ UNCHANGED <<nonceVars, now>>

-----------------------------------------------------------------------------
(* The admin nonce endpoints: api/nonce.py.                                  *)

NonceInitRefused(a, force) ==
    /\ a \in seeded
    /\ \/ /\ ~force
          /\ audit' = Row("nonce-init", "denied", "already_initialized", 0)
       \/ /\ force
          /\ has_in_flight(a)
          /\ audit' = Row("nonce-init", "denied", "in_flight_nonces", 0)
    /\ UNCHANGED <<nonceVars, txs, now>>

\* The foreign key on wallets refuses an account whose wallet does not exist.
NonceInitNoWallet ==
    /\ audit' = Row("nonce-init", "denied", "wallet_not_found", 0)
    /\ UNCHANGED <<nonceVars, txs, now>>

NonceInit(a, value, force, force_with_in_flight) ==
    /\ a \in seeded => force /\ (force_with_in_flight \/ ~has_in_flight(a))
    /\ seeded' = seeded \cup {a}
    /\ next_nonce' = [next_nonce EXCEPT ![a] = value]
    /\ last_confirmed' = [last_confirmed EXCEPT ![a] = Null]
    /\ seedpoint' = [seedpoint EXCEPT ![a] = value]
    /\ overridden' = IF /\ force_with_in_flight
                        /\ \E i \in DOMAIN txs : txs[i].acct = a /\ txs[i].status \in InFlight
                     THEN overridden \cup {a} ELSE overridden \ {a}
    /\ audit' = Row("nonce-init", "approved",
                    IF a \in seeded THEN "force_overwrite" ELSE "none", 0)
    /\ UNCHANGED <<txs, now>>

NonceSyncRefused(a, count) ==
    /\ \/ /\ a \notin seeded
          /\ audit' = Row("nonce-sync", "denied", "nonce_not_initialized", 0)
       \/ /\ a \in seeded
          /\ count < next_nonce[a] \/ count > next_nonce[a] + MaxAdvance
          /\ audit' = Row("nonce-sync", "denied", "nonce_sync_out_of_bounds", 0)
    /\ UNCHANGED <<nonceVars, txs, now>>

NonceSyncInSync(a) ==
    /\ a \in seeded
    /\ audit' = Row("nonce-sync", "approved", "in_sync", 0)
    /\ UNCHANGED <<nonceVars, txs, now>>

NonceSyncAdvance(a, count) ==
    /\ a \in seeded
    /\ count > next_nonce[a]
    /\ count <= next_nonce[a] + MaxAdvance
    /\ next_nonce' = [next_nonce EXCEPT ![a] = count]
    /\ last_confirmed' = set_last_confirmed(last_confirmed, a, count)
    /\ seedpoint' = [seedpoint EXCEPT ![a] = count]
    /\ audit' = Row("nonce-sync", "approved", "none", 0)
    /\ UNCHANGED <<seeded, overridden, txs, now>>

\* Time passes while nobody holds the writer lock.
Tick ==
    /\ now < MaxTime
    /\ now' = now + 1
    /\ UNCHANGED <<nonceVars, txs, audit>>

-----------------------------------------------------------------------------

Sign ==
    \E r \in Requests :
        \/ SignReplay(r) \/ SignConflict(r) \/ SignCapped(r) \/ SignDenied(r)
        \/ SignWedged(r) \/ SignUnseeded(r) \/ SignFailed(r) \/ SignApproved(r)

Broadcast(i) == BroadcastAccepted(i) \/ BroadcastReleaseable(i) \/ BroadcastTooLow(i)
ReceiptReport(i) == Receipt(i, "mined") \/ Receipt(i, "reverted")

Report ==
    \E i \in DOMAIN txs :
        \/ Broadcast(i)
        \/ ReceiptReport(i)
        \/ ReportRefused(i, "tx-broadcast-result", "pending")
        \/ ReportRefused(i, "tx-receipt", "submitted")
        \/ \E fee \in FeeParams :
              \/ ReplacementRefused(i, fee)
              \/ ReplacementFailed(i, fee)
              \/ ReplacementSigned(i, fee)

Admin ==
    \/ NonceInitNoWallet
    \/ \E a \in Accounts :
        \/ NonceSyncInSync(a)
        \/ \E force \in BOOLEAN : NonceInitRefused(a, force)
        \/ \E value \in 0..MaxNonce :
              \/ NonceSyncRefused(a, value)
              \/ NonceSyncAdvance(a, value)
              \/ \E force, force_with_in_flight \in BOOLEAN :
                    NonceInit(a, value, force, force_with_in_flight)

Next == Sign \/ Report \/ Admin \/ Tick

Spec == Init /\ [][Next]_vars

\* The clients report back, as the API asks of them (architecture.md, steps 14
\* and 15): a signed transaction is broadcast and its outcome reported, and a
\* broadcast one eventually has a receipt.
Fairness ==
    \A i \in 1..MaxTxs :
        /\ WF_vars(i \in DOMAIN txs /\ Broadcast(i))
        /\ WF_vars(i \in DOMAIN txs /\ ReceiptReport(i))

FairSpec == Spec /\ Fairness
-----------------------------------------------------------------------------
(* Safety.                                                                   *)

Live(i) == txs[i].status \in InFlight

\* No two transactions in flight on one account carry the same nonce, whatever
\* the order in which reports, failed signings, syncs and re-seeds arrive:
\* reserve_next never hands out a nonce that release_if_unused, nonce-sync or a
\* guarded nonce-init left in use.  An operator's force_with_in_flight is the
\* one way out, until a later re-seed finds nothing in flight.
NonceUnique ==
    \A i, j \in DOMAIN txs :
        /\ i # j /\ Live(i) /\ Live(j)
        /\ txs[i].acct = txs[j].acct
        /\ txs[i].acct \notin overridden
        => txs[i].nonce # txs[j].nonce

\* A nonce in flight is always below next_nonce, so the next reservation is
\* above everything outstanding: nonce-init must count pending rows as in
\* flight, and a release may only take back the tail.
InFlightBelowNext ==
    \A i \in DOMAIN txs :
        Live(i) /\ txs[i].acct \notin overridden
        => txs[i].nonce < next_nonce[txs[i].acct]

\* next_nonce stays above last_confirmed: a nonce that a receipt or a
\* nonce-sync has confirmed on chain is never reserved again, however late and
\* out of order the receipts come.
ConfirmedBelowNext ==
    \A a \in Accounts \ overridden : last_confirmed[a] < next_nonce[a]

\* The strengthening that makes ConfirmedBelowNext inductive: a transaction in
\* flight never carries the nonce that was confirmed last.
ConfirmedNotLive ==
    \A i \in DOMAIN txs :
        Live(i) /\ txs[i].acct \notin overridden
        => txs[i].nonce # last_confirmed[txs[i].acct]

\* Every nonce handed out since the account was last seeded or synced is held
\* by a recorded transaction: an error between the reservation and the insert
\* of the signed row never burns a nonce (the comment at
\* app/sign_transaction.py:365), and no release takes back another's nonce.
NoLeakedNonce ==
    \A a \in seeded : \A n \in seedpoint[a]..(next_nonce[a] - 1) :
        \E i \in DOMAIN txs : txs[i].acct = a /\ txs[i].nonce = n

\* While a reservation is unreported, nothing on its account is signed later
\* than one lease after it: the wedge guard stops a hole from being deepened.
HoleNeverDeepened ==
    \A i, j \in DOMAIN txs :
        i < j /\ txs[i].acct = txs[j].acct /\ txs[i].status = "pending"
        => txs[j].reserved_at <= txs[i].reserved_at + Lease

\* An idempotency key of a caller names one transaction for ever, failed ones
\* included: a retry never reserves a second nonce, and the unique index on
\* (caller, idempotency_key) never has to reject an insert.
OneTxPerKey ==
    \A i, j \in DOMAIN txs :
        /\ txs[i].key # NoKey
        /\ txs[i].key = txs[j].key
        /\ txs[i].caller = txs[j].caller
        => i = j

\* The attempts of one transaction escalate: each bids at least 9/8 of the
\* priority fee of the attempt before it and no lower a max fee, and never
\* exceeds the caps.  (9/8 of 0 is 0: after a bid without a priority fee the
\* same bid passes, which a node need not accept as a replacement.)
AttemptsEscalate ==
    \A i \in DOMAIN txs : \A k \in DOMAIN txs[i].attempts :
        LET bid == txs[i].attempts[k] IN
        /\ ~FeeRejected(bid)
        /\ k > 1 => LET prev == txs[i].attempts[k - 1] IN
                    /\ 8 * bid.priority >= 9 * prev.priority
                    /\ bid.max_fee >= prev.max_fee

\* last_confirmed only moves forward, except when an operator re-seeds the
\* account: a receipt that arrives after one for a higher nonce, or after a
\* nonce-sync, must not move it back.
ConfirmedMonotone ==
    [][\A a \in Accounts \ overridden :
          \/ last_confirmed'[a] >= last_confirmed[a]
          \/ audit'.reason = "force_overwrite"]_vars

-----------------------------------------------------------------------------
(* Refinement.                                                               *)

\* The table as the book of Ledger: a row is open while it is in flight.
EntryOf(i) == [acct |-> txs[i].acct, nonce |-> txs[i].nonce,
               state |-> IF Live(i) THEN "open" ELSE "settled"]
AsBook == [i \in DOMAIN txs |-> EntryOf(i)]

Book == INSTANCE Ledger WITH
            book      <- AsBook,
            confirmed <- last_confirmed,
            suspended <- overridden,
            Ids       <- 1..MaxTxs,
            Nonces    <- 0..MaxNonce

\* The ledger implements the abstract book: every request, report and admin
\* call is one step of it or leaves it alone.  A nonce is handed out when it is
\* free and above what is confirmed, a settled transaction never comes back,
\* and last_confirmed is what receipts and syncs made it.
ImplementsLedger == Book!Spec

-----------------------------------------------------------------------------
(* Liveness.                                                                 *)

\* Every signed transaction settles once clients report back: no order of
\* replacements, syncs, re-seeds and refused reports leaves a row in a state
\* in which fwd no longer accepts the report that would settle it.
EveryReservationSettles ==
    \A i \in 1..MaxTxs :
        i \in DOMAIN txs ~> (i \in DOMAIN txs /\ txs[i].status \in Settled)

-----------------------------------------------------------------------------
(* What the documentation says and the code does not do.                     *)

\* docs/architecture.md, failure mode 14: a broadcast rejected_releaseable is
\* "recorded; tail nonce released, else surfaced via nonce/holes".  A row that
\* was not released and has outlived its lease is to be among the holes.
UnreleasedSurfaced ==
    (/\ audit.reason = "rejected_not_released"
     /\ txs[audit.tx].reserved_at < now - Lease)
    => audit.tx \in get_nonce_holes
=============================================================================
