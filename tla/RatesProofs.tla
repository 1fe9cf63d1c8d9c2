---------------------------- MODULE RatesProofs ----------------------------
(***************************************************************************)
(* The caps of Rates hold for every policy, every number of buckets and    *)
(* wallets, every length of day and every stretch of time.                 *)
(***************************************************************************)
EXTENDS Rates, TLAPS

Tables == <<rate_buckets, wallet_counter, signed, wallet_signed>>

\* Both windows a request is counted in exist in the tables.
LEMMA WindowExists ==
    ASSUME NEW t \in 0..MaxTime, NEW k \in Kinds
    PROVE  window_start(k, t) \in 0..MaxTime /\ <<k, window_start(k, t)>> \in Windows
<1>1. HoursPerDay \in Nat \ {0} /\ MaxTime \in Nat /\ t \in Nat
  BY RatesAssumption
<1>2. t % HoursPerDay \in 0..t
  BY <1>1
<1>3. window_start(k, t) \in 0..MaxTime
  BY <1>1, <1>2 DEF window_start
<1>4. QED
  BY <1>3 DEF Windows

\* What an increment does to one cell.
LEMMA Incremented ==
    ASSUME NEW S, NEW table \in Counters(S), NEW x \in S, NEW rate
    PROVE  /\ increment(table, x, rate) \in Counters(S)
           /\ \A y \in S, w \in Windows :
                 increment(table, x, rate)[y][w] =
                    IF y = x /\ w \in RateWindows(rate) THEN table[y][w] + 1 ELSE table[y][w]
BY DEF increment, Counters

\* What a signature does to one cell of a tally.
LEMMA Tallied ==
    ASSUME NEW S, NEW table \in Counters(S), NEW x \in S
    PROVE  /\ Tally(table, x) \in Counters(S)
           /\ \A y \in S, w \in Windows :
                 Tally(table, x)[y][w] =
                    IF y = x /\ w \in {Current("hour"), Current("day")}
                    THEN table[y][w] + 1 ELSE table[y][w]
BY DEF Tally, Counters

\* A release right after the increment it belongs to restores every counter:
\* both use one `now`, so they touch the same windows.
LEMMA NetZero ==
    ASSUME NEW S, NEW table \in Counters(S), NEW x \in S, NEW rate
    PROVE  release(increment(table, x, rate), x, rate) = table
<1> DEFINE up == increment(table, x, rate)
           down == release(up, x, rate)
<1>1. /\ up \in Counters(S)
      /\ \A y \in S, w \in Windows :
            up[y][w] = IF y = x /\ w \in RateWindows(rate) THEN table[y][w] + 1 ELSE table[y][w]
  BY Incremented
<1> HIDE DEF up
<1>2. down \in Counters(S)
  BY <1>1 DEF release, Counters
<1>3. \A y \in S, w \in Windows :
         down[y][w] = IF y = x /\ w \in RateWindows(rate) /\ up[y][w] > 0
                      THEN up[y][w] - 1 ELSE up[y][w]
  BY <1>1 DEF release, Counters
<1>4. \A y \in S, w \in Windows : table[y][w] \in Nat
  BY DEF Counters
<1>5. \A y \in S, w \in Windows : down[y][w] = table[y][w]
  BY <1>1, <1>3, <1>4
<1> HIDE DEF down
<1>6. \A y \in S : down[y] = table[y]
  BY <1>2, <1>5 DEF Counters
<1>7. down = table
  BY <1>2, <1>6 DEF Counters
<1>8. QED
  BY <1>7 DEF down, up
-----------------------------------------------------------------------------
\* A step either leaves every counter and tally alone, or it is one of these.
LEMMA StepCases ==
    ASSUME TypeOK, [Next]_vars
    PROVE  \/ UNCHANGED Tables /\ now' \in now..MaxTime
           \/ \E b \in Abi \cup Native, v \in Values :
                 \/ DeniedByError(b, v)
                 \/ SignFailed(b, v) /\ b \in Native
                 \/ SignApproved(b, v)
           \/ \E b \in Fsp : FspSigned(b)
           \/ Restart
<1>0. rate_buckets \in Counters(Buckets) /\ wallet_counter \in Counters(Wallets) /\ now \in 0..MaxTime
  BY DEF TypeOK
<1>a. MaxTime \in Nat /\ now \in now..MaxTime
  BY <1>0, RatesAssumption
<1>1. CASE UNCHANGED vars
  BY <1>1, <1>a DEF vars, Tables
<1>2. ASSUME NEW b \in Abi \cup Native, NEW v \in Values, DeniedByCaller(b, v)
      PROVE  UNCHANGED Tables /\ now' \in now..MaxTime
  BY <1>2, <1>a DEF DeniedByCaller, Tables, counters, ghosts
<1>3. ASSUME NEW b \in Abi \cup Native, NEW v \in Values, DeniedByWallet(b, v)
      PROVE  UNCHANGED Tables /\ now' \in now..MaxTime
  <2>1. rate_buckets' = rate_buckets
    BY <1>3, <1>0, NetZero DEF DeniedByWallet, CallerCounted, Buckets
  <2>2. QED
    BY <1>3, <1>a, <2>1 DEF DeniedByWallet, Tables, ghosts
<1>4. ASSUME NEW b \in Abi \cup Native, NEW v \in Values, SignFailed(b, v), b \in Abi
      PROVE  UNCHANGED Tables /\ now' \in now..MaxTime
  <2>1. WalletOf[b] \in Wallets /\ b \in Buckets
    BY RatesAssumption DEF Buckets
  <2>2. rate_buckets' = rate_buckets
    BY <1>4, <1>0, <2>1, NetZero DEF SignFailed, release_rate_after_failure, CallerCounted
  <2>3. wallet_counter' = wallet_counter
    BY <1>4, <1>0, <2>1, NetZero DEF SignFailed, release_rate_after_failure, WalletCounted
  <2>4. QED
    BY <1>4, <1>a, <2>2, <2>3 DEF SignFailed, Tables, ghosts
<1>5. ASSUME NEW w \in Wallets, NEW v \in Values, Mined(w, v) \/ Lost(w, v)
      PROVE  UNCHANGED Tables /\ now' \in now..MaxTime
  BY <1>5, <1>a DEF Mined, Lost, Tables, counters, ghosts
<1>6. ASSUME NEW b \in Fsp, FspDenied(b) \/ FspFailed(b)
      PROVE  UNCHANGED Tables /\ now' \in now..MaxTime
  <2>1. CASE FspDenied(b)
    BY <2>1, <1>a DEF FspDenied, Tables, counters, ghosts
  <2>2. CASE FspFailed(b)
    <3>1. rate_buckets' = rate_buckets
      BY <2>2, <1>0, NetZero DEF FspFailed, CallerCounted, Buckets
    <3>2. QED
      BY <2>2, <1>a, <3>1 DEF FspFailed, Tables, ghosts
  <2>3. QED
    BY <1>6, <2>1, <2>2
<1>7. CASE Tick
  BY <1>7, <1>0, RatesAssumption DEF Tick, Tables, counters, ghosts
<1>8. QED
  BY <1>1, <1>2, <1>3, <1>4, <1>5, <1>6, <1>7 DEF Next
-----------------------------------------------------------------------------
\* A counter never goes below zero and a settled transaction never settles again.
THEOREM TypeCorrect == Spec => []TypeOK
<1>1. Init => TypeOK
  BY RatesAssumption DEF Init, TypeOK, Counters, Zero, Verdicts
<1>2. TypeOK /\ [Next]_vars => TypeOK'
  <2> SUFFICES ASSUME TypeOK, [Next]_vars PROVE TypeOK'
    OBVIOUS
  <2>1. now' \in 0..MaxTime
    <3>1. CASE Tick
      BY <3>1, RatesAssumption DEF Tick, TypeOK
    <3>2. CASE UNCHANGED now
      BY <3>2 DEF TypeOK
    <3>3. QED
      BY <3>1, <3>2 DEF Next, vars, DeniedByCaller, DeniedByWallet, DeniedByError, SignFailed,
                        SignApproved, Mined, Lost, FspDenied, FspFailed, FspSigned, Restart
  <2>2. decision' \in Verdicts
    <3>1. ASSUME NEW b \in Abi \cup Native, NEW v \in Values,
                 \/ DeniedByCaller(b, v) \/ DeniedByWallet(b, v) \/ DeniedByError(b, v)
                 \/ SignFailed(b, v) \/ SignApproved(b, v)
          PROVE  decision' \in Verdicts
      BY <3>1 DEF Verdicts, Decide, DeniedByCaller, DeniedByWallet, DeniedByError, SignFailed,
                  SignApproved
    <3>2. ASSUME NEW b \in Fsp, FspDenied(b) \/ FspFailed(b) \/ FspSigned(b)
          PROVE  decision' \in Verdicts
      BY <3>2 DEF Verdicts, Decide, FspDenied, FspFailed, FspSigned
    <3>3. CASE UNCHANGED decision
      BY <3>3 DEF TypeOK
    <3>4. QED
      BY <3>1, <3>2, <3>3 DEF Next, vars, Mined, Lost, Restart, Tick
  <2>3. outstanding' \in [Wallets -> [Values -> 0..MaxOutstanding]]
    <3>1. ASSUME NEW b \in Abi \cup Native, NEW v \in Values, SignApproved(b, v)
          PROVE  outstanding' \in [Wallets -> [Values -> 0..MaxOutstanding]]
      <4>1. WalletOf[b] \in Wallets /\ MaxOutstanding \in Nat
        BY RatesAssumption
      <4>2. QED
        BY <3>1, <4>1 DEF SignApproved, TypeOK
    <3>2. ASSUME NEW w \in Wallets, NEW v \in Values, Mined(w, v) \/ Lost(w, v)
          PROVE  outstanding' \in [Wallets -> [Values -> 0..MaxOutstanding]]
      <4>1. /\ outstanding[w][v] - 1 \in 0..MaxOutstanding
            /\ outstanding[w] \in [Values -> 0..MaxOutstanding]
        BY <3>2, RatesAssumption DEF Mined, Lost, TypeOK
      <4>2. outstanding' = [outstanding EXCEPT ![w] = [outstanding[w] EXCEPT ![v] = outstanding[w][v] - 1]]
        BY <3>2 DEF Mined, Lost, TypeOK
      <4>3. QED
        BY <4>1, <4>2 DEF TypeOK
    <3>3. CASE UNCHANGED outstanding
      BY <3>3 DEF TypeOK
    <3>4. QED
      BY <3>1, <3>2, <3>3 DEF Next, vars, DeniedByCaller, DeniedByWallet, DeniedByError,
                              SignFailed, FspDenied, FspFailed, FspSigned, Restart, Tick
  <2>4. aggregate' \in [Wallets -> [0..MaxTime -> Nat]]
    <3>1. ASSUME NEW w \in Wallets, NEW v \in Values, Mined(w, v)
          PROVE  aggregate' \in [Wallets -> [0..MaxTime -> Nat]]
      <4> DEFINE d == window_start("day", now)
                 row == aggregate[w]
      <4>1. d \in 0..MaxTime /\ v \in Nat
        BY WindowExists, RatesAssumption DEF TypeOK, Kinds
      <4>2. aggregate' = [aggregate EXCEPT ![w] = [row EXCEPT ![d] = row[d] + v]]
        BY <3>1 DEF Mined, add_committed_value, TypeOK
      <4>3. row \in [0..MaxTime -> Nat]
        BY DEF TypeOK
      <4> HIDE DEF d, row
      <4>4. row[d] + v \in Nat
        BY <4>1, <4>3
      <4>5. [row EXCEPT ![d] = row[d] + v] \in [0..MaxTime -> Nat]
        BY <4>3, <4>4
      <4>6. QED
        BY <4>2, <4>5 DEF TypeOK
    <3>2. CASE Restart
      BY <3>2 DEF Restart, TypeOK
    <3>3. CASE UNCHANGED aggregate
      BY <3>3 DEF TypeOK
    <3>4. QED
      BY <3>1, <3>2, <3>3 DEF Next, vars, DeniedByCaller, DeniedByWallet, DeniedByError, SignFailed,
                              SignApproved, Lost, FspDenied, FspFailed, FspSigned, Tick
  <2>5. /\ rate_buckets' \in Counters(Buckets) /\ wallet_counter' \in Counters(Wallets)
        /\ signed' \in Counters(Buckets) /\ wallet_signed' \in Counters(Wallets)
    <3>0. /\ rate_buckets \in Counters(Buckets) /\ wallet_counter \in Counters(Wallets)
          /\ signed \in Counters(Buckets) /\ wallet_signed \in Counters(Wallets)
      BY DEF TypeOK
    <3>1. CASE UNCHANGED Tables
      BY <3>0, <3>1 DEF Tables
    <3>2. ASSUME NEW b \in Abi \cup Native, NEW v \in Values,
                 DeniedByError(b, v) \/ (SignFailed(b, v) /\ b \in Native) \/ SignApproved(b, v)
          PROVE  /\ rate_buckets' \in Counters(Buckets) /\ wallet_counter' \in Counters(Wallets)
                 /\ signed' \in Counters(Buckets) /\ wallet_signed' \in Counters(Wallets)
      <4>1. WalletOf[b] \in Wallets /\ b \in Buckets /\ (b \in Native => b \notin Abi)
        BY RatesAssumption DEF Buckets
      <4>2. CallerCounted(b) \in Counters(Buckets) /\ WalletCounted(WalletOf[b]) \in Counters(Wallets)
        BY <3>0, <4>1, Incremented DEF CallerCounted, WalletCounted
      <4>3. Tally(signed, b) \in Counters(Buckets) /\ Tally(wallet_signed, WalletOf[b]) \in Counters(Wallets)
        BY <3>0, <4>1, Tallied
      <4>4. QED
        BY <3>0, <3>2, <4>1, <4>2, <4>3
        DEF DeniedByError, SignFailed, release_rate_after_failure, SignApproved, ghosts
    <3>3. ASSUME NEW b \in Fsp, FspSigned(b)
          PROVE  /\ rate_buckets' \in Counters(Buckets) /\ wallet_counter' \in Counters(Wallets)
                 /\ signed' \in Counters(Buckets) /\ wallet_signed' \in Counters(Wallets)
      BY <3>0, <3>3, Incremented, Tallied DEF FspSigned, CallerCounted, Buckets
    <3>4. CASE Restart
      BY <3>0, <3>4 DEF Restart, DropBefore, Counters, ghosts
    <3>5. QED
      BY <3>1, <3>2, <3>3, <3>4, StepCases
  <2>6. QED
    BY <2>1, <2>2, <2>3, <2>4, <2>5 DEF TypeOK
<1>3. QED
  BY <1>1, <1>2, PTL DEF Spec
-----------------------------------------------------------------------------
\* A capped kind of window, and what a table holds in the window of time t.
Capped(rate, k) == rate # NoRate /\ rate[k] > 0
Cell(table, x, k, t) == table[x][<<k, window_start(k, t)>>]

\* The counter that BelowCaps reads covers every signature of the windows of
\* now and later: pruning only touches windows that have passed.
Covered(done, table, x, rate) ==
    \A k \in Kinds, t \in now..MaxTime :
        Capped(rate, k) => Cell(done, x, k, t) <= Cell(table, x, k, t)

\* The inductive invariant of the caps.
CapInv ==
    /\ CapRespected
    /\ \A b \in Buckets : Covered(signed, rate_buckets, b, CallerRate[b])
    /\ \A w \in Wallets : Covered(wallet_signed, wallet_counter, w, WalletRate[w])

\* An increment and a signature in the same request keep the counter above the
\* tally, and a counter below its cap leaves room for one signature more.
LEMMA OneMore ==
    ASSUME NEW S, NEW done \in Counters(S), NEW table \in Counters(S), NEW x \in S,
           NEW rate \in RateLimits, TypeOK,
           rate # NoRate => BelowCaps(table[x], rate),
           Covered(done, table, x, rate), WithinCaps(done, x, rate)
    PROVE  /\ Covered(Tally(done, x), increment(table, x, rate), x, rate)
           /\ WithinCaps(Tally(done, x), x, rate)
<1> DEFINE done2 == Tally(done, x)
           table2 == increment(table, x, rate)
<1>1. now \in 0..MaxTime /\ MaxTime \in Nat
  BY RatesAssumption DEF TypeOK
<1>2. \A w \in Windows :
        /\ done[x][w] \in Nat /\ table[x][w] \in Nat
        /\ done2[x][w] = IF w \in {Current("hour"), Current("day")} THEN done[x][w] + 1 ELSE done[x][w]
        /\ table2[x][w] = IF w \in RateWindows(rate) THEN table[x][w] + 1 ELSE table[x][w]
  <2>1. \A w \in Windows : done[x][w] \in Nat /\ table[x][w] \in Nat
    BY DEF Counters
  <2>2. \A w \in Windows : done2[x][w] = IF w \in {Current("hour"), Current("day")}
                                         THEN done[x][w] + 1 ELSE done[x][w]
    BY Tallied
  <2>3. \A w \in Windows : table2[x][w] = IF w \in RateWindows(rate)
                                          THEN table[x][w] + 1 ELSE table[x][w]
    BY Incremented
  <2>4. QED
    BY <2>1, <2>2, <2>3
<1> HIDE DEF done2, table2
<1>3. ASSUME NEW k \in Kinds, Capped(rate, k), NEW w \in Windows, w[1] = k
      PROVE  /\ w \in RateWindows(rate) <=> w = Current(k)
             /\ w \in {Current("hour"), Current("day")} <=> w = Current(k)
             /\ rate[k] \in Nat
  BY <1>3 DEF RateWindows, Current, Capped, Kinds, RateLimits
<1>4. Covered(done2, table2, x, rate)
  <2> SUFFICES ASSUME NEW k \in Kinds, NEW t \in now..MaxTime, Capped(rate, k)
               PROVE  Cell(done2, x, k, t) <= Cell(table2, x, k, t)
    BY DEF Covered
  <2>1. t \in 0..MaxTime
    BY <1>1
  <2>2. <<k, window_start(k, t)>> \in Windows
    BY <2>1, WindowExists
  <2>3. Cell(done, x, k, t) <= Cell(table, x, k, t)
    BY DEF Covered
  <2>4. QED
    BY <1>2, <1>3, <2>2, <2>3 DEF Cell
<1>5. WithinCaps(done2, x, rate)
  <2> SUFFICES ASSUME rate # NoRate, NEW k \in Kinds, rate[k] > 0, NEW s \in 0..MaxTime
               PROVE  done2[x][<<k, s>>] <= rate[k]
    BY DEF WithinCaps
  <2>1. <<k, s>> \in Windows /\ Capped(rate, k) /\ done[x][<<k, s>>] <= rate[k]
    BY DEF Windows, Capped, WithinCaps
  <2>2. CASE <<k, s>> = Current(k)
    <3>1. table[x][Current(k)] < rate[k]
      BY DEF BelowCaps
    <3>2. done[x][Current(k)] <= table[x][Current(k)]
      BY <1>1, <2>1 DEF Covered, Cell, Current
    <3>3. QED
      BY <1>2, <1>3, <2>1, <2>2, <3>1, <3>2
  <2>3. CASE <<k, s>> # Current(k)
    BY <1>2, <1>3, <2>1, <2>3
  <2>4. QED
    BY <2>2, <2>3
<1>6. QED
  BY <1>4, <1>5 DEF done2, table2

\* Counting more, or signing for somebody else, breaks no cap.
LEMMA CoverKept ==
    ASSUME NEW S, NEW y \in S, NEW rate, TypeOK,
           NEW done \in Counters(S), NEW table \in Counters(S),
           NEW done2 \in Counters(S), NEW table2 \in Counters(S),
           \A w \in Windows : done2[y][w] = done[y][w] /\ table2[y][w] >= table[y][w],
           Covered(done, table, y, rate), WithinCaps(done, y, rate)
    PROVE  Covered(done2, table2, y, rate) /\ WithinCaps(done2, y, rate)
<1>1. now \in 0..MaxTime /\ MaxTime \in Nat
  BY RatesAssumption DEF TypeOK
<1>2. ASSUME NEW k \in Kinds, NEW t \in now..MaxTime, Capped(rate, k)
      PROVE  Cell(done2, y, k, t) <= Cell(table2, y, k, t)
  <2>1. t \in 0..MaxTime
    BY <1>1
  <2>2. <<k, window_start(k, t)>> \in Windows
    BY <2>1, WindowExists
  <2>3. Cell(done, y, k, t) <= Cell(table, y, k, t)
    BY <1>2 DEF Covered
  <2>4. /\ Cell(done, y, k, t) \in Nat /\ Cell(table, y, k, t) \in Nat
        /\ Cell(done2, y, k, t) = Cell(done, y, k, t)
        /\ Cell(table2, y, k, t) \in Nat /\ Cell(table2, y, k, t) >= Cell(table, y, k, t)
    BY <2>2 DEF Cell, Counters
  <2>5. QED
    BY <2>3, <2>4
<1>3. WithinCaps(done2, y, rate)
  BY DEF WithinCaps, Windows
<1>4. QED
  BY <1>2, <1>3 DEF Covered

\* What the request of bucket b may sign, step 8 and step 9 have checked.
LEMMA GateChecks ==
    ASSUME NEW b \in Abi \cup Native, NEW v \in Values, SignApproved(b, v)
    PROVE  /\ CallerRate[b] # NoRate => BelowCaps(rate_buckets[b], CallerRate[b])
           /\ LET w == WalletOf[b] IN
              WalletRate[w] # NoRate => BelowCaps(wallet_counter[w], WalletRate[w])
BY DEF SignApproved, Allowed, check_caller, check_wallet

\* The cap invariant is inductive.
LEMMA CapInvStep == TypeOK /\ CapInv /\ [Next]_vars => CapInv'
<1> SUFFICES ASSUME TypeOK, CapInv, [Next]_vars PROVE CapInv'
  OBVIOUS
<1>0. /\ rate_buckets \in Counters(Buckets) /\ wallet_counter \in Counters(Wallets)
      /\ signed \in Counters(Buckets) /\ wallet_signed \in Counters(Wallets)
      /\ now \in 0..MaxTime /\ MaxTime \in Nat
  BY RatesAssumption DEF TypeOK
<1>a. \A b \in Buckets : /\ Covered(signed, rate_buckets, b, CallerRate[b])
                         /\ WithinCaps(signed, b, CallerRate[b])
  BY DEF CapInv, CapRespected
<1>b. \A w \in Wallets : /\ Covered(wallet_signed, wallet_counter, w, WalletRate[w])
                         /\ WithinCaps(wallet_signed, w, WalletRate[w])
  BY DEF CapInv, CapRespected
\* With the clock at rest it is enough to look at the new tables.
<1>c. ASSUME UNCHANGED now,
             \A b \in Buckets : /\ Covered(signed', rate_buckets', b, CallerRate[b])
                                /\ WithinCaps(signed', b, CallerRate[b]),
             \A w \in Wallets : /\ Covered(wallet_signed', wallet_counter', w, WalletRate[w])
                                /\ WithinCaps(wallet_signed', w, WalletRate[w])
      PROVE  CapInv'
  BY <1>c DEF CapInv, CapRespected, Covered, WithinCaps, Cell, Capped, window_start
<1>1. CASE UNCHANGED Tables /\ now' \in now..MaxTime
  <2>1. \A t \in now'..MaxTime : t \in now..MaxTime
    BY <1>0, <1>1
  <2>2. QED
    BY <1>1, <2>1 DEF Tables, CapInv, CapRespected, Covered, WithinCaps, Cell, Capped, window_start
<1>2. ASSUME NEW b \in Abi \cup Native, NEW v \in Values,
             DeniedByError(b, v) \/ (SignFailed(b, v) /\ b \in Native)
      PROVE  CapInv'
  <2>1. WalletOf[b] \in Wallets /\ b \in Buckets /\ (b \in Native => b \notin Abi)
    BY RatesAssumption DEF Buckets
  <2>2. /\ rate_buckets' = CallerCounted(b)
        /\ wallet_counter' = wallet_counter \/ wallet_counter' = WalletCounted(WalletOf[b])
        /\ UNCHANGED <<now, signed, wallet_signed>>
    BY <1>2, <2>1 DEF DeniedByError, SignFailed, release_rate_after_failure, ghosts
  <2>3. /\ CallerCounted(b) \in Counters(Buckets)
        /\ \A y \in Buckets, w \in Windows : CallerCounted(b)[y][w] >= rate_buckets[y][w]
    <3>1. \A y \in Buckets, w \in Windows : rate_buckets[y][w] \in Nat
      BY <1>0 DEF Counters
    <3>2. QED
      BY <1>0, <2>1, <3>1, Incremented DEF CallerCounted
  <2>4. /\ wallet_counter' \in Counters(Wallets)
        /\ \A y \in Wallets, w \in Windows : wallet_counter'[y][w] >= wallet_counter[y][w]
    <3>1. \A y \in Wallets, w \in Windows : wallet_counter[y][w] \in Nat
      BY <1>0 DEF Counters
    <3>2. QED
      BY <1>0, <2>1, <2>2, <3>1, Incremented DEF WalletCounted
  <2>5. \A y \in Buckets : /\ Covered(signed', rate_buckets', y, CallerRate[y])
                           /\ WithinCaps(signed', y, CallerRate[y])
    BY <1>0, <1>a, <2>2, <2>3, CoverKept
  <2>6. \A y \in Wallets : /\ Covered(wallet_signed', wallet_counter', y, WalletRate[y])
                           /\ WithinCaps(wallet_signed', y, WalletRate[y])
    BY <1>0, <1>b, <2>2, <2>4, CoverKept
  <2>7. QED
    BY <1>c, <2>2, <2>5, <2>6
\* A signature counted for x keeps the caps of every y.
<1>d. ASSUME NEW S, NEW done \in Counters(S), NEW table \in Counters(S), NEW x \in S,
             NEW rates \in [S -> RateLimits],
             rates[x] # NoRate => BelowCaps(table[x], rates[x]),
             \A y \in S : Covered(done, table, y, rates[y]) /\ WithinCaps(done, y, rates[y])
      PROVE  \A y \in S : /\ Covered(Tally(done, x), increment(table, x, rates[x]), y, rates[y])
                          /\ WithinCaps(Tally(done, x), y, rates[y])
  <2>1. /\ Covered(Tally(done, x), increment(table, x, rates[x]), x, rates[x])
        /\ WithinCaps(Tally(done, x), x, rates[x])
    BY <1>d, OneMore
  <2>2. ASSUME NEW y \in S, y # x
        PROVE  /\ Covered(Tally(done, x), increment(table, x, rates[x]), y, rates[y])
               /\ WithinCaps(Tally(done, x), y, rates[y])
    <3> DEFINE done2 == Tally(done, x)
               table2 == increment(table, x, rates[x])
    <3>1. done2 \in Counters(S) /\ \A w \in Windows : done2[y][w] = done[y][w]
      BY <2>2, Tallied
    <3>2. table2 \in Counters(S) /\ \A w \in Windows : table2[y][w] = table[y][w]
      BY <2>2, Incremented
    <3>3. \A w \in Windows : table[y][w] \in Nat
      BY DEF Counters
    <3> HIDE DEF done2, table2
    <3>4. Covered(done2, table2, y, rates[y]) /\ WithinCaps(done2, y, rates[y])
      BY <1>d, <3>1, <3>2, <3>3, CoverKept
    <3>5. QED
      BY <3>4 DEF done2, table2
  <2>3. QED
    BY <2>1, <2>2
<1>3. ASSUME NEW b \in Abi \cup Native, NEW v \in Values, SignApproved(b, v) PROVE CapInv'
  <2> DEFINE w == WalletOf[b]
  <2>1. w \in Wallets /\ b \in Buckets /\ WalletRate \in [Wallets -> RateLimits]
        /\ CallerRate \in [Buckets -> RateLimits]
    BY RatesAssumption DEF Buckets
  <2>2. /\ rate_buckets' = increment(rate_buckets, b, CallerRate[b])
        /\ wallet_counter' = increment(wallet_counter, w, WalletRate[w])
        /\ signed' = Tally(signed, b) /\ wallet_signed' = Tally(wallet_signed, w)
        /\ UNCHANGED now
    BY <1>3 DEF SignApproved, CallerCounted, WalletCounted
  <2>3. \A y \in Buckets : /\ Covered(signed', rate_buckets', y, CallerRate[y])
                           /\ WithinCaps(signed', y, CallerRate[y])
    BY <1>0, <1>3, <1>a, <1>d, <2>1, <2>2, GateChecks
  <2>4. \A y \in Wallets : /\ Covered(wallet_signed', wallet_counter', y, WalletRate[y])
                           /\ WithinCaps(wallet_signed', y, WalletRate[y])
    BY <1>0, <1>3, <1>b, <1>d, <2>1, <2>2, GateChecks
  <2>5. QED
    BY <1>c, <2>2, <2>3, <2>4
<1>4. ASSUME NEW b \in Fsp, FspSigned(b) PROVE CapInv'
  <2>1. b \in Buckets /\ CallerRate \in [Buckets -> RateLimits]
    BY RatesAssumption DEF Buckets
  <2>2. /\ rate_buckets' = increment(rate_buckets, b, CallerRate[b])
        /\ signed' = Tally(signed, b)
        /\ UNCHANGED <<now, wallet_counter, wallet_signed>>
        /\ CallerRate[b] # NoRate => BelowCaps(rate_buckets[b], CallerRate[b])
    BY <1>4 DEF FspSigned, CallerCounted, check_caller
  <2>3. \A y \in Buckets : /\ Covered(signed', rate_buckets', y, CallerRate[y])
                           /\ WithinCaps(signed', y, CallerRate[y])
    BY <1>0, <1>a, <1>d, <2>1, <2>2
  <2>4. QED
    BY <1>b, <1>c, <2>2, <2>3
<1>5. CASE Restart
  <2>1. UNCHANGED <<now, signed, wallet_signed>>
    BY <1>5 DEF Restart, ghosts
  <2>2. ASSUME NEW k \in Kinds, NEW t \in now..MaxTime
        PROVE  /\ <<k, window_start(k, t)>> \in Windows
               /\ ~(window_start(k, t) < Cutoff)
    <3>1. t \in 0..MaxTime /\ t \in Nat /\ HoursPerDay \in Nat \ {0}
      BY <1>0, RatesAssumption
    <3>2. t % HoursPerDay \in 0..(HoursPerDay - 1)
      BY <3>1
    <3>3. ~(window_start(k, t) < Cutoff)
      BY <1>0, <3>1, <3>2 DEF window_start, Cutoff
    <3>4. QED
      BY <3>1, <3>3, WindowExists
  <2>3. \A b \in Buckets, k \in Kinds, t \in now..MaxTime :
           Cell(rate_buckets', b, k, t) = Cell(rate_buckets, b, k, t)
    BY <1>0, <1>5, <2>2 DEF Restart, DropBefore, Cell, Counters
  <2>4. \A w \in Wallets, k \in Kinds, t \in now..MaxTime :
           Cell(wallet_counter', w, k, t) = Cell(wallet_counter, w, k, t)
    BY <1>0, <1>5, <2>2 DEF Restart, DropBefore, Cell, Counters
  <2>5. \A b \in Buckets : Covered(signed', rate_buckets', b, CallerRate[b])
    BY <1>a, <2>1, <2>3 DEF Covered
  <2>6. \A w \in Wallets : Covered(wallet_signed', wallet_counter', w, WalletRate[w])
    BY <1>b, <2>1, <2>4 DEF Covered
  <2>7. QED
    BY <1>a, <1>b, <1>c, <2>1, <2>5, <2>6
<1>6. QED
  BY <1>1, <1>2, <1>3, <1>4, <1>5, StepCases

\* For every policy: no window of any bucket or wallet yields more signatures
\* than its cap, whatever fails, is denied, is pruned or runs out in between.
THEOREM CapSafety == Spec => []CapRespected
<1>1. Init => CapInv
  <2> SUFFICES ASSUME Init PROVE CapInv
    OBVIOUS
  <2>1. now \in 0..MaxTime /\ MaxTime \in Nat
    BY RatesAssumption DEF Init
  <2>2. \A b \in Buckets, w \in Windows : signed[b][w] = 0 /\ rate_buckets[b][w] = 0
    BY DEF Init, Zero
  <2>3. \A x \in Wallets, w \in Windows : wallet_signed[x][w] = 0 /\ wallet_counter[x][w] = 0
    BY DEF Init, Zero
  <2>4. CapRespected
    <3>1. CallerRate \in [Buckets -> RateLimits] /\ WalletRate \in [Wallets -> RateLimits]
      BY RatesAssumption
    <3>2. QED
      BY <2>2, <2>3, <3>1 DEF CapRespected, WithinCaps, Windows, RateLimits
  <2>5. \A k \in Kinds, t \in now..MaxTime : <<k, window_start(k, t)>> \in Windows
    <3>1. \A t \in now..MaxTime : t \in 0..MaxTime
      BY <2>1
    <3>2. QED
      BY <3>1, WindowExists
  <2>6. QED
    BY <2>2, <2>3, <2>4, <2>5 DEF CapInv, Covered, Cell
<1>2. QED
  BY <1>1, CapInvStep, TypeCorrect, PTL DEF Spec, CapInv
-----------------------------------------------------------------------------
\* A request that is counted and signed keeps the counters of everybody at or
\* below the tallies: the windows counted are among those tallied.
LEMMA CountedAndSigned ==
    ASSUME NEW S, NEW done \in Counters(S), NEW table \in Counters(S), NEW x \in S,
           NEW rate, NEW y \in S, Tight(table, done, y)
    PROVE  Tight(increment(table, x, rate), Tally(done, x), y)
<1>1. RateWindows(rate) \subseteq {Current("hour"), Current("day")}
  BY DEF RateWindows, Kinds
<1>2. \A w \in Windows : table[y][w] \in Nat /\ done[y][w] \in Nat
  BY DEF Counters
<1>3. \A w \in Windows :
         increment(table, x, rate)[y][w] =
            IF y = x /\ w \in RateWindows(rate) THEN table[y][w] + 1 ELSE table[y][w]
  BY Incremented
<1>4. \A w \in Windows :
         Tally(done, x)[y][w] = IF y = x /\ w \in {Current("hour"), Current("day")}
                                THEN done[y][w] + 1 ELSE done[y][w]
  BY Tallied
<1>5. QED
  BY <1>1, <1>2, <1>3, <1>4 DEF Tight

\* No step counts a request that it does not sign, under the rules that give
\* back: NothingLost is inductive.
LEMMA NothingLostStep == TypeOK /\ NothingLost /\ [Next]_vars => NothingLost'
<1> SUFFICES ASSUME TypeOK, NothingLost, [Next]_vars PROVE NothingLost'
  OBVIOUS
<1> DEFINE Given(b) == b \in Abi => ~AggregateRaises(WalletOf[b])
           Own(w) == \A b \in Native : WalletOf[b] # w
<1>0. /\ rate_buckets \in Counters(Buckets) /\ wallet_counter \in Counters(Wallets)
      /\ signed \in Counters(Buckets) /\ wallet_signed \in Counters(Wallets)
  BY DEF TypeOK
<1>a. /\ \A b \in Abi \cup Fsp : Given(b) => Tight(rate_buckets, signed, b)
      /\ \A w \in Wallets : Own(w) => Tight(wallet_counter, wallet_signed, w)
  BY DEF NothingLost
<1>b. ASSUME \A b \in Abi \cup Fsp : Given(b) => Tight(rate_buckets', signed', b),
             \A w \in Wallets : Own(w) => Tight(wallet_counter', wallet_signed', w)
      PROVE  NothingLost'
  BY <1>b DEF NothingLost, Tight, AggregateRaises
<1>1. CASE UNCHANGED Tables
  BY <1>1, <1>a, <1>b DEF Tables
<1>2. ASSUME NEW b \in Abi \cup Native, NEW v \in Values,
             DeniedByError(b, v) \/ (SignFailed(b, v) /\ b \in Native)
      PROVE  NothingLost'
  <2>1. /\ WalletOf[b] \in Wallets /\ b \in Buckets
        /\ b \in Native => b \notin Abi /\ b \notin Fsp
        /\ b \in Abi => b \notin Fsp
    BY RatesAssumption DEF Buckets
  <2>2. /\ rate_buckets' = CallerCounted(b)
        /\ wallet_counter' = wallet_counter
           \/ (b \in Native /\ wallet_counter' = WalletCounted(WalletOf[b]))
        /\ b \in Native \/ AggregateRaises(WalletOf[b])
        /\ UNCHANGED <<signed, wallet_signed>>
    BY <1>2, <2>1 DEF DeniedByError, SignFailed, release_rate_after_failure, ghosts
  <2>3. \A y \in Buckets, w \in Windows : y # b => rate_buckets'[y][w] = rate_buckets[y][w]
    BY <1>0, <2>1, <2>2, Incremented DEF CallerCounted
  <2>4. \A y \in Wallets, w \in Windows :
           Own(y) => wallet_counter'[y][w] = wallet_counter[y][w]
    <3>1. b \in Native => \A y \in Wallets : Own(y) => y # WalletOf[b]
      OBVIOUS
    <3>2. b \in Native => \A y \in Wallets, w \in Windows :
             y # WalletOf[b] => WalletCounted(WalletOf[b])[y][w] = wallet_counter[y][w]
      BY <1>0, <2>1, Incremented DEF WalletCounted
    <3> HIDE DEF Own
    <3>3. QED
      BY <2>2, <3>1, <3>2
  <2>5. \A y \in Abi \cup Fsp : Given(y) => y # b /\ y \in Buckets
    BY <2>1, <2>2 DEF Buckets
  <2> HIDE DEF Given, Own
  <2>6. \A y \in Abi \cup Fsp : Given(y) => Tight(rate_buckets', signed', y)
    BY <1>a, <2>2, <2>3, <2>5 DEF Tight
  <2>7. \A y \in Wallets : Own(y) => Tight(wallet_counter', wallet_signed', y)
    BY <1>a, <2>2, <2>4 DEF Tight
  <2>8. QED
    BY <1>b, <2>6, <2>7
<1>3. ASSUME NEW b \in Abi \cup Native, NEW v \in Values, SignApproved(b, v)
      PROVE  NothingLost'
  <2>1. WalletOf[b] \in Wallets /\ b \in Buckets /\ Abi \cup Fsp \subseteq Buckets
    BY RatesAssumption DEF Buckets
  <2>2. /\ rate_buckets' = increment(rate_buckets, b, CallerRate[b])
        /\ wallet_counter' = increment(wallet_counter, WalletOf[b], WalletRate[WalletOf[b]])
        /\ signed' = Tally(signed, b) /\ wallet_signed' = Tally(wallet_signed, WalletOf[b])
    BY <1>3 DEF SignApproved, CallerCounted, WalletCounted
  <2> HIDE DEF Given, Own
  <2>3. \A y \in Abi \cup Fsp : Given(y) => Tight(rate_buckets', signed', y)
    BY <1>0, <1>a, <2>1, <2>2, CountedAndSigned
  <2>4. \A y \in Wallets : Own(y) => Tight(wallet_counter', wallet_signed', y)
    BY <1>0, <1>a, <2>1, <2>2, CountedAndSigned
  <2>5. QED
    BY <1>b, <2>3, <2>4
<1>4. ASSUME NEW b \in Fsp, FspSigned(b) PROVE NothingLost'
  <2>1. b \in Buckets /\ Abi \cup Fsp \subseteq Buckets
    BY DEF Buckets
  <2>2. /\ rate_buckets' = increment(rate_buckets, b, CallerRate[b])
        /\ signed' = Tally(signed, b)
        /\ UNCHANGED <<wallet_counter, wallet_signed>>
    BY <1>4 DEF FspSigned, CallerCounted
  <2> HIDE DEF Given, Own
  <2>3. \A y \in Abi \cup Fsp : Given(y) => Tight(rate_buckets', signed', y)
    BY <1>0, <1>a, <2>1, <2>2, CountedAndSigned
  <2>4. QED
    BY <1>a, <1>b, <2>2, <2>3
<1>5. CASE Restart
  <2>1. UNCHANGED <<signed, wallet_signed>>
    BY <1>5 DEF Restart, ghosts
  <2>2. \A y \in Buckets, w \in Windows :
           rate_buckets'[y][w] = 0 \/ rate_buckets'[y][w] = rate_buckets[y][w]
    BY <1>0, <1>5 DEF Restart, DropBefore, Counters
  <2>3. \A y \in Wallets, w \in Windows :
           wallet_counter'[y][w] = 0 \/ wallet_counter'[y][w] = wallet_counter[y][w]
    BY <1>0, <1>5 DEF Restart, DropBefore, Counters
  <2>4. /\ \A y \in Buckets, w \in Windows : signed[y][w] \in Nat
        /\ \A y \in Wallets, w \in Windows : wallet_signed[y][w] \in Nat
    BY <1>0 DEF Counters
  <2>5. Abi \cup Fsp \subseteq Buckets
    BY DEF Buckets
  <2> HIDE DEF Given, Own
  <2>6. \A y \in Abi \cup Fsp : Given(y) => Tight(rate_buckets', signed', y)
    BY <1>a, <2>1, <2>2, <2>4, <2>5 DEF Tight
  <2>7. \A y \in Wallets : Own(y) => Tight(wallet_counter', wallet_signed', y)
    BY <1>a, <2>1, <2>3, <2>4 DEF Tight
  <2>8. QED
    BY <1>b, <2>6, <2>7
<1>6. QED
  BY <1>1, <1>2, <1>3, <1>4, <1>5, StepCases

\* For every policy: a failed signing, a denial at step 9 or a pruning never
\* uses up allowance, except under native transfers and caps that do not parse.
THEOREM AllowanceKept == Spec => []NothingLost
<1>1. Init => NothingLost
  <2> SUFFICES ASSUME Init PROVE NothingLost
    OBVIOUS
  <2>1. \A b \in Buckets, w \in Windows : signed[b][w] = 0 /\ rate_buckets[b][w] = 0
    BY DEF Init, Zero
  <2>2. \A x \in Wallets, w \in Windows : wallet_signed[x][w] = 0 /\ wallet_counter[x][w] = 0
    BY DEF Init, Zero
  <2>3. QED
    BY <2>1, <2>2 DEF NothingLost, Tight, Buckets
<1>2. QED
  BY <1>1, NothingLostStep, TypeCorrect, PTL DEF Spec
=============================================================================
