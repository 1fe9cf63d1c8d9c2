------------------------------- MODULE Rates -------------------------------
(***************************************************************************)
(* Rate limits and the daily value cap: infra/rate_repo.py, as the policy  *)
(* engine (app/policy_engine.py steps 8 and 9), the gate's release after a *)
(* failure (app/policy_gate.py), the FSP gate (app/fsp_policy.py), the     *)
(* receipt endpoint and the startup pruning (main.py) use it.              *)
(*                                                                         *)
(* A bucket is a primary key of rate_buckets without its window: (caller,  *)
(* wallet, contract, method), or (caller, wallet, message_type) for FSP.   *)
(* A counter that has no row reads as 0.  One action is one request: the   *)
(* counters move inside its BEGIN IMMEDIATE transaction, with one `now`.   *)
(***************************************************************************)
EXTENDS Integers

CONSTANTS
    Abi,            \* buckets under a permissions block
    Native,         \* buckets under a native_transfers block
    Fsp,            \* buckets under an fsp_permissions block
    Wallets,
    WalletOf,       \* the wallet that an Abi or Native bucket spends from
    CallerRate,     \* the RateLimit of a bucket's block, or NoRate
    Bound,          \* wallets with a binding that resolves to a wallet_constraints block
    WalletRate,     \* the RateLimit of a wallet's constraint, or NoRate
    AggregateCap,   \* max_aggregate_value_wei_per_day, NoAggregate or NotDecimal
    NoRate, NoAggregate, NotDecimal,
    Values,         \* value_wei of requests
    HoursPerDay,    \* 24
    MaxOutstanding, \* bound: signed transactions without a receipt, per wallet and value
    MaxTime         \* bound: the last hour of the clock

Buckets == Abi \cup Native \cup Fsp
Kinds == {"hour", "day"}

\* per_hour and per_day are None or >= 1 (domain/policy.py): 0 stands for None.
RateLimits == [Kinds -> Nat] \cup {NoRate}

ASSUME RatesAssumption ==
    /\ Abi \cap Native = {} /\ Abi \cap Fsp = {} /\ Native \cap Fsp = {}
    /\ WalletOf \in [Abi \cup Native -> Wallets]
    /\ CallerRate \in [Buckets -> RateLimits]
    /\ Bound \subseteq Wallets
    /\ WalletRate \in [Wallets -> RateLimits]
    /\ AggregateCap \in [Wallets -> Nat \cup {NoAggregate, NotDecimal}]
    /\ NoRate \notin [Kinds -> Nat]
    /\ NoAggregate \notin Nat /\ NotDecimal \notin Nat /\ NoAggregate # NotDecimal
    /\ Values \subseteq Nat
    /\ HoursPerDay \in Nat \ {0}
    /\ MaxOutstanding \in Nat
    /\ MaxTime \in Nat

VARIABLES
    now,             \* the hour of the clock
    rate_buckets,    \* counter per bucket and window (rate_buckets, fsp_rate_buckets)
    wallet_counter,  \* wallet_buckets.counter per wallet and window
    aggregate,       \* wallet_buckets.aggregate_value_wei per wallet and day
    outstanding,     \* signed transactions without a receipt, per wallet and value
    decision,        \* the latest audited decision: verdict and policy step
    signed,          \* ghost: signatures handed out per bucket and window
    wallet_signed    \* ghost: transactions signed per wallet and window

vars == <<now, rate_buckets, wallet_counter, aggregate, outstanding, decision,
          signed, wallet_signed>>
counters == <<rate_buckets, wallet_counter>>
ghosts == <<signed, wallet_signed>>

Windows == Kinds \X (0..MaxTime)
Counters(S) == [S -> [Windows -> Nat]]
Zero(S) == [x \in S |-> [w \in Windows |-> 0]]
Verdicts == [verdict : {"none", "allowed", "denied", "failed"}, step : 0..9]

TypeOK ==
    /\ now \in 0..MaxTime
    /\ rate_buckets \in Counters(Buckets)
    /\ wallet_counter \in Counters(Wallets)
    /\ aggregate \in [Wallets -> [0..MaxTime -> Nat]]
    /\ outstanding \in [Wallets -> [Values -> 0..MaxOutstanding]]
    /\ decision \in Verdicts
    /\ signed \in Counters(Buckets)
    /\ wallet_signed \in Counters(Wallets)

Init ==
    /\ now = 0
    /\ rate_buckets = Zero(Buckets)
    /\ wallet_counter = Zero(Wallets)
    /\ aggregate = [w \in Wallets |-> [d \in 0..MaxTime |-> 0]]
    /\ outstanding = [w \in Wallets |-> [v \in Values |-> 0]]
    /\ decision = [verdict |-> "none", step |-> 0]
    /\ signed = Zero(Buckets)
    /\ wallet_signed = Zero(Wallets)

-----------------------------------------------------------------------------
(* infra/rate_repo.py                                                        *)

window_start(kind, t) == IF kind = "hour" THEN t ELSE t - (t % HoursPerDay)

Current(kind) == <<kind, window_start(kind, now)>>

\* The windows that a RateLimit counts at this moment.
RateWindows(rate) ==
    IF rate = NoRate THEN {} ELSE {Current(k) : k \in {j \in Kinds : rate[j] > 0}}

\* Fault: a window that has just reached its cap is let through.
BelowCaps_OffByOne(count, rate) ==
    \A k \in Kinds : rate[k] > 0 => count[Current(k)] <= rate[k]

BelowCaps(count, rate) ==
    \A k \in Kinds : rate[k] > 0 => count[Current(k)] < rate[k]

increment(table, x, rate) ==
    [table EXCEPT ![x] = [w \in Windows |-> IF w \in RateWindows(rate) THEN @[w] + 1 ELSE @[w]]]

\* Fault: a release decrements the hour window only.
release_HourOnly(table, x, rate) ==
    [table EXCEPT ![x] = [w \in Windows |->
        IF w \in RateWindows(rate) /\ w[1] = "hour" /\ @[w] > 0 THEN @[w] - 1 ELSE @[w]]]

release(table, x, rate) ==
    [table EXCEPT ![x] = [w \in Windows |->
        IF w \in RateWindows(rate) /\ @[w] > 0 THEN @[w] - 1 ELSE @[w]]]

\* A constraint whose cap is not a decimal string makes the check raise.
AggregateRaises(w) == w \in Bound /\ AggregateCap[w] = NotDecimal

AggregateOk(w, v) ==
    \/ AggregateCap[w] = NoAggregate
    \/ /\ AggregateCap[w] \in Nat
       /\ aggregate[w][window_start("day", now)] + v <= AggregateCap[w]

check_wallet(w, v) ==
    /\ w \in Bound
    /\ AggregateOk(w, v)
    /\ WalletRate[w] # NoRate => BelowCaps(wallet_counter[w], WalletRate[w])

add_committed_value(w, v) ==
    aggregate' = [aggregate EXCEPT ![w][window_start("day", now)] = @ + v]

-----------------------------------------------------------------------------
(* POST /v1/sign-transaction as far as the gate and its release go.          *)

\* Step 8.  No rate is a denial under a permissions block, and no limit at all
\* under a native_transfers block.
check_caller(b) ==
    IF CallerRate[b] = NoRate THEN b \in Native
                              ELSE BelowCaps(rate_buckets[b], CallerRate[b])

Decide(verdict, step) == decision' = [verdict |-> verdict, step |-> step]

\* The counters after steps 8 and 9 let the request through.
CallerCounted(b) == increment(rate_buckets, b, CallerRate[b])
WalletCounted(w) == increment(wallet_counter, w, WalletRate[w])

\* A native transfer must move value.
ValueOk(b, v) == b \in Native => v > 0

DeniedByCaller(b, v) ==
    /\ ValueOk(b, v)
    /\ ~check_caller(b)
    /\ Decide("denied", 8)
    /\ UNCHANGED <<now, counters, aggregate, outstanding, ghosts>>

\* Step 9 denies after step 8 has counted the request.
DeniedByWallet(b, v) ==
    /\ ValueOk(b, v)
    /\ check_caller(b)
    /\ ~AggregateRaises(WalletOf[b])
    /\ ~check_wallet(WalletOf[b], v)
    /\ rate_buckets' = release(CallerCounted(b), b, CallerRate[b])
    /\ Decide("denied", 9)
    /\ UNCHANGED <<now, wallet_counter, aggregate, outstanding, ghosts>>

\* The check raises: evaluate() turns it into a denial at step 0, and the
\* denial commits what step 8 has counted.
DeniedByError(b, v) ==
    /\ ValueOk(b, v)
    /\ check_caller(b)
    /\ AggregateRaises(WalletOf[b])
    /\ rate_buckets' = CallerCounted(b)
    /\ Decide("denied", 0)
    /\ UNCHANGED <<now, wallet_counter, aggregate, outstanding, ghosts>>

Allowed(b, v) ==
    /\ ValueOk(b, v)
    /\ check_caller(b)
    /\ ~AggregateRaises(WalletOf[b])
    /\ check_wallet(WalletOf[b], v)

\* Fault: only the caller's share is given back.
release_rate_after_failure_CallerOnly(b) ==
    /\ rate_buckets' = IF b \in Abi THEN release(CallerCounted(b), b, CallerRate[b])
                                    ELSE CallerCounted(b)
    /\ wallet_counter' = WalletCounted(WalletOf[b])

\* Without a permissions block under the matched path nothing is released.
release_rate_after_failure(b) ==
    LET w == WalletOf[b] IN
    IF b \in Abi
    THEN /\ rate_buckets' = release(CallerCounted(b), b, CallerRate[b])
         /\ wallet_counter' = release(WalletCounted(w), w, WalletRate[w])
    ELSE /\ rate_buckets' = CallerCounted(b)
         /\ wallet_counter' = WalletCounted(w)

\* A stale reservation, a missing nonce row, the sealed master or eth_account
\* stops a request that the gate let through.
SignFailed(b, v) ==
    /\ Allowed(b, v)
    /\ release_rate_after_failure(b)
    /\ Decide("failed", 9)
    /\ UNCHANGED <<now, aggregate, outstanding, ghosts>>

\* One signature more in the current hour and the current day.
Tally(table, x) == [table EXCEPT ![x] = [w \in Windows |->
    IF w \in {Current("hour"), Current("day")} THEN @[w] + 1 ELSE @[w]]]

SignApproved(b, v) ==
    /\ Allowed(b, v)
    /\ outstanding[WalletOf[b]][v] < MaxOutstanding
    /\ rate_buckets' = CallerCounted(b)
    /\ wallet_counter' = WalletCounted(WalletOf[b])
    /\ outstanding' = [outstanding EXCEPT ![WalletOf[b]][v] = @ + 1]
    /\ Decide("allowed", 9)
    /\ signed' = Tally(signed, b)
    /\ wallet_signed' = Tally(wallet_signed, WalletOf[b])
    /\ UNCHANGED <<now, aggregate>>

\* Fault: a receipt is accepted for a transaction that has settled already.
Mined_Twice(w, v) ==
    /\ outstanding' = [outstanding EXCEPT ![w][v] = @ - 1]
    /\ add_committed_value(w, v)
    /\ UNCHANGED <<now, counters, decision, ghosts>>

\* POST /v1/transactions/{tx_id}/receipt: only a mined transaction counts
\* towards the day, the day on which its receipt is reported.
Mined(w, v) ==
    /\ outstanding[w][v] > 0
    /\ outstanding' = [outstanding EXCEPT ![w][v] = @ - 1]
    /\ add_committed_value(w, v)
    /\ UNCHANGED <<now, counters, decision, ghosts>>

\* A reverted receipt or a rejected broadcast: no counter moves.
Lost(w, v) ==
    /\ outstanding[w][v] > 0
    /\ outstanding' = [outstanding EXCEPT ![w][v] = @ - 1]
    /\ UNCHANGED <<now, counters, aggregate, decision, ghosts>>

-----------------------------------------------------------------------------
(* POST /v1/sign-fsp-message: app/sign_fsp_message.py, app/fsp_policy.py.    *)

FspDenied(b) ==
    /\ ~check_caller(b)
    /\ Decide("denied", 7)
    /\ UNCHANGED <<now, counters, aggregate, outstanding, ghosts>>

\* The message cannot be built, or the sealed master is unavailable.
FspFailed(b) ==
    /\ check_caller(b)
    /\ rate_buckets' = release(CallerCounted(b), b, CallerRate[b])
    /\ Decide("failed", 7)
    /\ UNCHANGED <<now, wallet_counter, aggregate, outstanding, ghosts>>

FspSigned(b) ==
    /\ check_caller(b)
    /\ rate_buckets' = CallerCounted(b)
    /\ Decide("allowed", 7)
    /\ signed' = Tally(signed, b)
    /\ UNCHANGED <<now, wallet_counter, aggregate, outstanding, wallet_signed>>

-----------------------------------------------------------------------------
(* Time and restarts.                                                        *)

Tick ==
    /\ now < MaxTime
    /\ now' = now + 1
    /\ UNCHANGED <<counters, aggregate, outstanding, decision, ghosts>>

\* Fault: everything before the present moment is taken for stale.
Cutoff_Now == now

\* main.py: two days back.
Cutoff == now - 2 * HoursPerDay

DropBefore(table) ==
    [x \in DOMAIN table |-> [w \in Windows |-> IF w[2] < Cutoff THEN 0 ELSE table[x][w]]]

\* A restart prunes the buckets (delete_stale); the tables are on disk.
Restart ==
    /\ rate_buckets' = DropBefore(rate_buckets)
    /\ wallet_counter' = DropBefore(wallet_counter)
    /\ aggregate' = [x \in Wallets |-> [d \in 0..MaxTime |-> IF d < Cutoff THEN 0 ELSE aggregate[x][d]]]
    /\ UNCHANGED <<now, outstanding, decision, ghosts>>

Next ==
    \/ \E b \in Abi \cup Native, v \in Values :
          \/ DeniedByCaller(b, v) \/ DeniedByWallet(b, v) \/ DeniedByError(b, v)
          \/ SignFailed(b, v) \/ SignApproved(b, v)
    \/ \E w \in Wallets, v \in Values : Mined(w, v) \/ Lost(w, v)
    \/ \E b \in Fsp : FspDenied(b) \/ FspFailed(b) \/ FspSigned(b)
    \/ Tick
    \/ Restart

Spec == Init /\ [][Next]_vars

-----------------------------------------------------------------------------
(* Safety.                                                                   *)

WithinCaps(table, x, rate) ==
    rate # NoRate =>
        \A k \in Kinds : rate[k] > 0 => \A s \in 0..MaxTime : table[x][<<k, s>>] <= rate[k]

\* No window ever yields more signatures than its cap, per bucket and per
\* wallet: not by releasing failed requests, not across a restart that prunes
\* buckets, and not by several buckets spending from one wallet.
CapRespected ==
    /\ \A b \in Buckets : WithinCaps(signed, b, CallerRate[b])
    /\ \A w \in Wallets : WithinCaps(wallet_signed, w, WalletRate[w])

\* Whatever a table has counted for x was signed.
Tight(table, done, x) == \A w \in Windows : table[x][w] <= done[x][w]

\* No allowance is lost: whatever a bucket under a permissions or an
\* fsp_permissions block has counted was signed.  A failed signing, or a denial
\* at step 9, gives back every window it counted, in the window it counted it.
\* Wallets that a native transfer can spend from, and wallets whose cap does
\* not parse, are left out.
NothingLost ==
    /\ \A b \in Abi \cup Fsp :
          (b \in Abi => ~AggregateRaises(WalletOf[b])) => Tight(rate_buckets, signed, b)
    /\ \A w \in Wallets :
          (\A b \in Native : WalletOf[b] # w) => Tight(wallet_counter, wallet_signed, w)

-----------------------------------------------------------------------------
(* What the documentation says and the code does not do.                     *)

\* docs/architecture.md:236: a sign-build error releases "the nonce + rate".
FailureIsFree ==
    [][decision' # decision /\ decision'.verdict = "failed"
       => UNCHANGED counters]_vars

\* docs/decisions.md:571: "aggregate-value bounds value committed": what is
\* mined on one day stays within max_aggregate_value_wei_per_day.
DailyCapHolds ==
    \A w \in Wallets : AggregateCap[w] \in Nat =>
        \A d \in 0..MaxTime : aggregate[w][d] <= AggregateCap[w]
=============================================================================
