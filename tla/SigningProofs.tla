--------------------------- MODULE SigningProofs ---------------------------
(***************************************************************************)
(* Safety of Signing for every number of accounts, callers, keys, fees,    *)
(* nonces, rows and ticks.                                                 *)
(***************************************************************************)
EXTENDS Signing, SequenceTheorems, TLAPS

ledger == <<nonceVars, txs, now>>

\* What the sign request recorded about row j, which no report changes.
SameRequest(j) ==
    /\ txs'[j].caller = txs[j].caller
    /\ txs'[j].key = txs[j].key
    /\ txs'[j].acct = txs[j].acct
    /\ txs'[j].nonce = txs[j].nonce
    /\ txs'[j].reserved_at = txs[j].reserved_at

\* A row of the table has the fields of its columns.
LEMMA RowTypes ==
    ASSUME TypeOK
    PROVE  /\ txs \in Seq(TxRow)
           /\ Len(txs) \in Nat
           /\ DOMAIN txs = 1..Len(txs)
           /\ \A i \in DOMAIN txs :
                 /\ i \in Nat
                 /\ txs[i] \in TxRow
                 /\ txs[i].acct \in Accounts
                 /\ txs[i].nonce \in Nat
                 /\ txs[i].status \in Statuses
                 /\ txs[i].reserved_at \in Nat
                 /\ txs[i].attempts \in Seq(FeeParams)
<1>1. txs \in Seq(TxRow)
  BY DEF TypeOK
<1>2. Len(txs) \in Nat /\ DOMAIN txs = 1..Len(txs) /\ \A i \in DOMAIN txs : txs[i] \in TxRow
  BY <1>1, LenProperties
<1>3. QED
  BY <1>1, <1>2 DEF TxRow

\* A status update touches the status of one row (TransactionRepo.update_status).
LEMMA UpdateStatus ==
    ASSUME TypeOK, NEW i \in DOMAIN txs, NEW s \in Statuses, update_status(i, s)
    PROVE  /\ txs' \in Seq(TxRow)
           /\ DOMAIN txs' = DOMAIN txs
           /\ \A j \in DOMAIN txs :
                 /\ SameRequest(j)
                 /\ txs'[j].attempts = txs[j].attempts
                 /\ txs'[j].status = IF j = i THEN s ELSE txs[j].status
<1> DEFINE row == [txs[i] EXCEPT !.status = s]
<1>1. txs \in Seq(TxRow) /\ i \in 1..Len(txs)
  BY DEF TypeOK
<1>2. txs[i] \in TxRow
  BY <1>1
<1>3. row \in TxRow
  BY <1>2 DEF TxRow
<1>4. txs' = [txs EXCEPT ![i] = row]
  BY DEF update_status
<1>5. /\ row.caller = txs[i].caller /\ row.key = txs[i].key /\ row.acct = txs[i].acct
      /\ row.nonce = txs[i].nonce /\ row.reserved_at = txs[i].reserved_at
      /\ row.attempts = txs[i].attempts /\ row.status = s
  BY <1>2 DEF TxRow
<1> HIDE DEF row
<1>6. /\ txs' \in Seq(TxRow) /\ Len(txs') = Len(txs)
      /\ \A j \in 1..Len(txs) : txs'[j] = IF j = i THEN row ELSE txs[j]
  BY <1>1, <1>3, <1>4, ExceptSeq
<1>7. QED
  BY <1>1, <1>5, <1>6, LenProperties DEF SameRequest

\* A replacement appends one attempt to one row (TransactionAttemptRepo.add_attempt).
LEMMA AddAttempt ==
    ASSUME TypeOK, NEW i \in DOMAIN txs, NEW fee \in FeeParams, ReplacementSigned(i, fee)
    PROVE  /\ txs' \in Seq(TxRow)
           /\ DOMAIN txs' = DOMAIN txs
           /\ \A j \in DOMAIN txs :
                 /\ SameRequest(j)
                 /\ txs'[j].status = txs[j].status
                 /\ txs'[j].attempts = IF j = i THEN Append(txs[i].attempts, fee)
                                               ELSE txs[j].attempts
<1> DEFINE row == [txs[i] EXCEPT !.attempts = Append(@, fee)]
<1>1. txs \in Seq(TxRow) /\ i \in 1..Len(txs)
  BY DEF TypeOK
<1>2. txs[i] \in TxRow
  BY <1>1
<1>3. Append(txs[i].attempts, fee) \in Seq(FeeParams)
  BY <1>2, AppendProperties DEF TxRow
<1>4. row \in TxRow
  BY <1>2, <1>3 DEF TxRow
<1>5. txs' = [txs EXCEPT ![i] = row]
  BY DEF ReplacementSigned
<1>6. /\ row.caller = txs[i].caller /\ row.key = txs[i].key /\ row.acct = txs[i].acct
      /\ row.nonce = txs[i].nonce /\ row.reserved_at = txs[i].reserved_at
      /\ row.attempts = Append(txs[i].attempts, fee) /\ row.status = txs[i].status
  BY <1>2 DEF TxRow
<1> HIDE DEF row
<1>7. /\ txs' \in Seq(TxRow) /\ Len(txs') = Len(txs)
      /\ \A j \in 1..Len(txs) : txs'[j] = IF j = i THEN row ELSE txs[j]
  BY <1>1, <1>4, <1>5, ExceptSeq
<1>8. QED
  BY <1>1, <1>6, <1>7, LenProperties DEF SameRequest

\* An approved request appends one pending row (TransactionRepo.create).
LEMMA CreateTx ==
    ASSUME TypeOK, NEW r \in Requests, SignApproved(r)
    PROVE  /\ NewTx(r) \in TxRow
           /\ txs' \in Seq(TxRow)
           /\ Len(txs') = Len(txs) + 1
           /\ DOMAIN txs' = DOMAIN txs \cup {Len(txs) + 1}
           /\ \A j \in DOMAIN txs : txs'[j] = txs[j]
           /\ txs'[Len(txs) + 1] = NewTx(r)
<1>1. txs \in Seq(TxRow) /\ r.fee \in FeeParams
  BY DEF TypeOK, Requests
<1>2. <<r.fee>> \in Seq(FeeParams)
  BY <1>1
<1>3. NewTx(r) \in TxRow
  BY <1>2 DEF NewTx, TxRow, TypeOK, Requests, Statuses
<1>4. txs' = Append(txs, NewTx(r))
  BY DEF SignApproved
<1>5. QED
  BY <1>1, <1>3, <1>4, AppendProperties, LenProperties

\* A signing that fails after the reservation leaves next_nonce as it found it.
LEMMA FailedSigningIsFree ==
    ASSUME TypeOK, NEW r \in Requests, SignFailed(r)
    PROVE  UNCHANGED ledger
<1>1. r.acct \in Accounts /\ next_nonce[r.acct] \in Nat
  BY DEF Requests, TypeOK
<1>2. next_nonce' = next_nonce
  BY <1>1 DEF SignFailed, reserve_next, release_if_unused, TypeOK
<1>3. QED
  BY <1>2 DEF SignFailed, ledger, nonceVars

\* A step writes an audit row only, or it is one of the writing actions.
LEMMA StepCases ==
    ASSUME TypeOK, [Next]_vars
    PROVE  \/ UNCHANGED ledger
           \/ \E r \in Requests : SignApproved(r)
           \/ \E i \in DOMAIN txs :
                 \/ BroadcastAccepted(i) \/ BroadcastReleaseable(i) \/ BroadcastTooLow(i)
                 \/ Receipt(i, "mined") \/ Receipt(i, "reverted")
                 \/ \E fee \in FeeParams : ReplacementSigned(i, fee)
           \/ \E a \in Accounts, value \in 0..MaxNonce :
                 \/ NonceSyncAdvance(a, value)
                 \/ \E force, force_with_in_flight \in BOOLEAN :
                       NonceInit(a, value, force, force_with_in_flight)
           \/ Tick
<1>1. CASE UNCHANGED vars
  BY <1>1 DEF vars, ledger, nonceVars
<1>2. CASE Sign
  BY <1>2, FailedSigningIsFree
  DEF Sign, SignReplay, SignConflict, SignCapped, SignDenied, SignWedged, SignUnseeded, ledger
<1>3. CASE Report
  BY <1>3 DEF Report, Broadcast, ReceiptReport, ReportRefused, ReplacementRefused,
              ReplacementFailed, ledger
<1>4. CASE Admin
  BY <1>4 DEF Admin, NonceInitNoWallet, NonceInitRefused, NonceSyncRefused,
              NonceSyncInSync, ledger
<1>5. QED
  BY <1>1, <1>2, <1>3, <1>4 DEF Next
-----------------------------------------------------------------------------
\* Every step keeps the types: a nonce released is never below zero, and the
\* attempt cap is checked before the attempt is added.
LEMMA TypeStep == TypeOK /\ [Next]_vars => TypeOK'
<1> SUFFICES ASSUME TypeOK, [Next]_vars PROVE TypeOK'
  OBVIOUS
<1>a. audit' \in AuditRow
  <2>1. CASE UNCHANGED vars
    BY <2>1 DEF TypeOK, vars
  <2>2. CASE Tick
    BY <2>2 DEF TypeOK, Tick
  <2>3. CASE Sign
    <3>1. \A c \in Callers, k \in Keys : get_by_idempotency_key(c, k) \subseteq Nat
      BY DEF get_by_idempotency_key, TypeOK
    <3>2. \A r \in Requests : r.caller \in Callers /\ (r.key # NoKey => r.key \in Keys)
      BY DEF Requests
    <3>3. Len(txs) + 1 \in Nat
      BY LenProperties DEF TypeOK
    <3>4. QED
      BY <2>3, <3>1, <3>2, <3>3
      DEF Sign, SignReplay, SignConflict, SignCapped, SignDenied, SignWedged,
          SignUnseeded, SignFailed, SignApproved, Row, AuditRow, Actions, Decisions, Reasons
  <2>4. CASE Report
    <3>1. PICK i \in DOMAIN txs :
             \/ Broadcast(i)
             \/ ReceiptReport(i)
             \/ ReportRefused(i, "tx-broadcast-result", "pending")
             \/ ReportRefused(i, "tx-receipt", "submitted")
             \/ \E fee \in FeeParams :
                   \/ ReplacementRefused(i, fee)
                   \/ ReplacementFailed(i, fee)
                   \/ ReplacementSigned(i, fee)
      BY <2>4 DEF Report
    <3>2. i \in Nat
      BY RowTypes
    <3>3. CASE Broadcast(i)
      BY <3>2, <3>3 DEF Broadcast, BroadcastAccepted, BroadcastReleaseable, BroadcastTooLow,
                        Row, AuditRow, Actions, Decisions, Reasons
    <3>4. CASE ReceiptReport(i)
      BY <3>2, <3>4 DEF ReceiptReport, Receipt, Row, AuditRow, Actions, Decisions, Reasons
    <3>5. CASE \/ ReportRefused(i, "tx-broadcast-result", "pending")
               \/ ReportRefused(i, "tx-receipt", "submitted")
      BY <3>2, <3>5 DEF ReportRefused, Row, AuditRow, Actions, Decisions, Reasons
    <3>6. ASSUME NEW fee \in FeeParams,
                 \/ ReplacementRefused(i, fee)
                 \/ ReplacementFailed(i, fee)
                 \/ ReplacementSigned(i, fee)
          PROVE  audit' \in AuditRow
      BY <3>2, <3>6 DEF ReplacementRefused, ReplacementFailed, ReplacementSigned,
                        Row, AuditRow, Actions, Decisions, Reasons
    <3>7. QED
      BY <3>1, <3>3, <3>4, <3>5, <3>6
  <2>5. CASE Admin
    BY <2>5 DEF Admin, NonceInitNoWallet, NonceInitRefused, NonceInit, NonceSyncRefused,
                NonceSyncInSync, NonceSyncAdvance, Row, AuditRow, Actions, Decisions, Reasons
  <2>6. QED
    BY <2>1, <2>2, <2>3, <2>4, <2>5 DEF Next
<1>1. CASE UNCHANGED ledger
  BY <1>1, <1>a DEF ledger, nonceVars, TypeOK
<1>2. ASSUME NEW r \in Requests, SignApproved(r) PROVE TypeOK'
  <2>1. Len(NewTx(r).attempts) = 1 /\ 1 \in 1..MaxAttempts
    BY SigningAssumption DEF NewTx
  <2>2. \A j \in DOMAIN txs' : Len(txs'[j].attempts) \in 1..MaxAttempts
    <3>1. \A j \in DOMAIN txs : Len(txs[j].attempts) \in 1..MaxAttempts
      BY DEF TypeOK
    <3>2. QED
      BY <1>2, <2>1, <3>1, CreateTx
  <2>3. next_nonce' \in [Accounts -> Nat]
    BY <1>2 DEF SignApproved, reserve_next, TypeOK, Requests
  <2>4. QED
    BY <1>2, <1>a, <2>2, <2>3, CreateTx DEF SignApproved, TypeOK
<1>3. ASSUME NEW i \in DOMAIN txs,
             BroadcastAccepted(i) \/ BroadcastTooLow(i) \/ BroadcastReleaseable(i)
      PROVE  TypeOK'
  <2>1. update_status(i, "submitted") \/ update_status(i, "failed")
    BY <1>3 DEF BroadcastAccepted, BroadcastTooLow, BroadcastReleaseable
  <2>2. /\ txs' \in Seq(TxRow)
        /\ \A j \in DOMAIN txs' : Len(txs'[j].attempts) \in 1..MaxAttempts
    BY <2>1, UpdateStatus DEF TypeOK, Statuses
  <2>3. txs[i].acct \in Accounts /\ txs[i].nonce \in Nat
    BY RowTypes
  <2>4. next_nonce' \in [Accounts -> Nat]
    BY <1>3, <2>3 DEF BroadcastAccepted, BroadcastTooLow, BroadcastReleaseable,
                      release_if_unused, TypeOK, nonceVars
  <2>5. QED
    BY <1>3, <1>a, <2>2, <2>4
    DEF BroadcastAccepted, BroadcastTooLow, BroadcastReleaseable, TypeOK, nonceVars
<1>4. ASSUME NEW i \in DOMAIN txs, Receipt(i, "mined") \/ Receipt(i, "reverted")
      PROVE  TypeOK'
  <2>1. update_status(i, "mined") \/ update_status(i, "reverted")
    BY <1>4 DEF Receipt
  <2>2. /\ txs' \in Seq(TxRow)
        /\ \A j \in DOMAIN txs' : Len(txs'[j].attempts) \in 1..MaxAttempts
    BY <2>1, UpdateStatus DEF TypeOK, Statuses
  <2>3. txs[i].acct \in Accounts /\ txs[i].nonce \in Nat
    BY RowTypes
  <2>4. last_confirmed' \in [Accounts -> Nat \cup {Null}]
    BY <1>4, <2>3 DEF Receipt, mark_confirmed, TypeOK
  <2>5. QED
    BY <1>4, <1>a, <2>2, <2>4 DEF Receipt, TypeOK
<1>5. ASSUME NEW i \in DOMAIN txs, NEW fee \in FeeParams, ReplacementSigned(i, fee)
      PROVE  TypeOK'
  <2>1. /\ Len(txs[i].attempts) < MaxAttempts
        /\ Len(txs[i].attempts) \in Nat
        /\ txs[i].attempts \in Seq(FeeParams)
        /\ txs[i] \in TxRow
    BY <1>5, RowTypes, LenProperties, SigningAssumption
    DEF ReplacementSigned, Replaceable, AttemptsExhausted
  <2>2. Len(Append(txs[i].attempts, fee)) = Len(txs[i].attempts) + 1
    BY <1>5, <2>1, AppendProperties
  <2>3. txs'[i].attempts = Append(txs[i].attempts, fee)
    BY <1>5, AddAttempt
  <2>4. \A j \in DOMAIN txs' : Len(txs'[j].attempts) \in 1..MaxAttempts
    <3>1. \A j \in DOMAIN txs : Len(txs[j].attempts) \in 1..MaxAttempts
      BY DEF TypeOK
    <3>2. Len(txs[i].attempts) + 1 \in 1..MaxAttempts
      BY <2>1, <3>1, SigningAssumption
    <3>3. QED
      BY <1>5, <2>2, <2>3, <3>1, <3>2, AddAttempt
  <2>5. QED
    BY <1>5, <1>a, <2>4, AddAttempt DEF ReplacementSigned, TypeOK, nonceVars
<1>6. ASSUME NEW a \in Accounts, NEW value \in 0..MaxNonce,
             \/ NonceSyncAdvance(a, value)
             \/ \E force, force_with_in_flight \in BOOLEAN :
                   NonceInit(a, value, force, force_with_in_flight)
      PROVE  TypeOK'
  <2>1. value \in Nat /\ next_nonce[a] \in Nat
    BY SigningAssumption DEF TypeOK
  <2>2. CASE NonceSyncAdvance(a, value)
    <3>1. value - 1 \in Nat
      BY <2>1, <2>2 DEF NonceSyncAdvance
    <3>2. QED
      BY <1>a, <2>1, <2>2, <3>1 DEF NonceSyncAdvance, set_last_confirmed, TypeOK
  <2>3. CASE \E force, force_with_in_flight \in BOOLEAN :
                NonceInit(a, value, force, force_with_in_flight)
    BY <1>a, <2>1, <2>3 DEF NonceInit, TypeOK
  <2>4. QED
    BY <1>6, <2>2, <2>3
<1>7. CASE Tick
  BY <1>7, <1>a DEF Tick, TypeOK, nonceVars
<1>8. QED
  BY <1>1, <1>2, <1>3, <1>4, <1>5, <1>6, <1>7, StepCases

\* Type correctness: a nonce never goes below zero, a row never has more than
\* MaxAttempts attempts, and every status written is one the table allows.
THEOREM TypeCorrect == Spec => []TypeOK
<1>1. Init => TypeOK
  BY SigningAssumption, EmptySeq DEF Init, TypeOK, Row, AuditRow, Actions, Decisions, Reasons, Null
<1>2. QED
  BY <1>1, TypeStep, PTL DEF Spec
-----------------------------------------------------------------------------
\* A report, a re-seed, a sync or a tick keeps the rows and what was requested.
LEMMA OnlySigningAddsRows ==
    ASSUME TypeOK, [Next]_vars, \A r \in Requests : ~SignApproved(r)
    PROVE  /\ DOMAIN txs' = DOMAIN txs
           /\ \A j \in DOMAIN txs :
                 SameRequest(j) /\ (txs'[j].status = "pending" => txs[j].status = "pending")
<1>1. CASE UNCHANGED txs
  BY <1>1 DEF SameRequest
<1>2. ASSUME NEW i \in DOMAIN txs, NEW s \in Statuses \ {"pending"}, update_status(i, s)
      PROVE  /\ DOMAIN txs' = DOMAIN txs
             /\ \A j \in DOMAIN txs :
                   SameRequest(j) /\ (txs'[j].status = "pending" => txs[j].status = "pending")
  BY <1>2, UpdateStatus
<1>3. ASSUME NEW i \in DOMAIN txs, NEW fee \in FeeParams, ReplacementSigned(i, fee)
      PROVE  /\ DOMAIN txs' = DOMAIN txs
             /\ \A j \in DOMAIN txs :
                   SameRequest(j) /\ (txs'[j].status = "pending" => txs[j].status = "pending")
  BY <1>3, AddAttempt
<1>4. \/ UNCHANGED txs
      \/ \E i \in DOMAIN txs, s \in Statuses \ {"pending"} : update_status(i, s)
      \/ \E i \in DOMAIN txs, fee \in FeeParams : ReplacementSigned(i, fee)
  BY StepCases DEF ledger, BroadcastAccepted, BroadcastReleaseable, BroadcastTooLow, Receipt,
                   NonceSyncAdvance, NonceInit, Tick, Statuses
<1>5. QED
  BY <1>1, <1>2, <1>3, <1>4

\* Nothing is signed or confirmed on an account that was never seeded, so the
\* first nonce-init of an account, which is unguarded, finds nothing in flight.
SeededInv ==
    /\ \A i \in DOMAIN txs : txs[i].acct \in seeded
    /\ \A a \in Accounts \ seeded : last_confirmed[a] = Null

\* Only seeded accounts have transactions, in every reachable state.
LEMMA SeededCorrect == Spec => []SeededInv
<1>1. Init => SeededInv
  BY DEF Init, SeededInv
<1>2. TypeOK /\ SeededInv /\ [Next]_vars => SeededInv'
  <2> SUFFICES ASSUME TypeOK, SeededInv, [Next]_vars PROVE SeededInv'
    OBVIOUS
  <2>1. seeded \subseteq seeded'
    BY StepCases DEF ledger, nonceVars, SignApproved, BroadcastAccepted, BroadcastReleaseable,
                     BroadcastTooLow, Receipt, ReplacementSigned, NonceSyncAdvance, NonceInit, Tick
  <2>2. \A i \in DOMAIN txs' : txs'[i].acct \in seeded'
    <3>1. ASSUME NEW r \in Requests, SignApproved(r)
          PROVE  \A i \in DOMAIN txs' : txs'[i].acct \in seeded'
      <4>1. NewTx(r).acct = r.acct /\ r.acct \in seeded
        BY <3>1 DEF NewTx, SignApproved, Reserves
      <4>2. QED
        BY <2>1, <3>1, <4>1, CreateTx DEF SeededInv
    <3>2. CASE \A r \in Requests : ~SignApproved(r)
      BY <2>1, <3>2, OnlySigningAddsRows DEF SeededInv, SameRequest
    <3>3. QED
      BY <3>1, <3>2
  <2>3. \A a \in Accounts \ seeded' : last_confirmed'[a] = last_confirmed[a]
    <3>1. ASSUME NEW i \in DOMAIN txs, Receipt(i, "mined") \/ Receipt(i, "reverted")
          PROVE  \A a \in Accounts \ seeded' : last_confirmed'[a] = last_confirmed[a]
      BY <2>1, <3>1, RowTypes DEF Receipt, mark_confirmed, SeededInv, TypeOK
    <3>2. ASSUME NEW b \in Accounts, NEW value \in 0..MaxNonce,
                 \/ NonceSyncAdvance(b, value)
                 \/ \E force, force_with_in_flight \in BOOLEAN :
                       NonceInit(b, value, force, force_with_in_flight)
          PROVE  \A a \in Accounts \ seeded' : last_confirmed'[a] = last_confirmed[a]
      BY <2>1, <3>2 DEF NonceSyncAdvance, set_last_confirmed, NonceInit, TypeOK
    <3>3. QED
      BY <3>1, <3>2, StepCases
      DEF ledger, nonceVars, SignApproved, BroadcastAccepted, BroadcastReleaseable,
          BroadcastTooLow, ReplacementSigned, Tick
  <2>4. QED
    BY <2>1, <2>2, <2>3 DEF SeededInv
<1>3. QED
  BY <1>1, <1>2, TypeCorrect, PTL DEF Spec
-----------------------------------------------------------------------------
\* The inductive invariant of the nonce table.  NonceUnique is not inductive
\* alone: the next reservation is new because everything in flight is below
\* next_nonce, a release keeps that true because the tail it takes back is not
\* shared, and it keeps next_nonce above last_confirmed because the tail was
\* not the nonce confirmed last.
NonceInv == NonceUnique /\ InFlightBelowNext /\ ConfirmedBelowNext /\ ConfirmedNotLive

\* A step that settles row i or leaves its status alone adds nothing in flight.
LEMMA FewerLive ==
    ASSUME TypeOK, NonceInv,
           DOMAIN txs' = DOMAIN txs,
           \A j \in DOMAIN txs : SameRequest(j) /\ (txs'[j].status \in InFlight => Live(j)),
           UNCHANGED <<next_nonce, last_confirmed, overridden>>
    PROVE  NonceInv'
BY DEF NonceInv, NonceUnique, InFlightBelowNext, ConfirmedBelowNext, ConfirmedNotLive,
       Live, SameRequest

\* The nonce invariant is inductive.
LEMMA NonceInvStep == TypeOK /\ SeededInv /\ NonceInv /\ [Next]_vars => NonceInv'
<1> SUFFICES ASSUME TypeOK, SeededInv, NonceInv, [Next]_vars PROVE NonceInv'
  OBVIOUS
<1>1. CASE UNCHANGED ledger
  BY <1>1 DEF ledger, nonceVars, NonceInv, NonceUnique, InFlightBelowNext,
              ConfirmedBelowNext, ConfirmedNotLive, Live
<1>2. ASSUME NEW r \in Requests, SignApproved(r) PROVE NonceInv'
  <2> DEFINE a == r.acct
             n == Len(txs) + 1
  <2>1. a \in Accounts /\ next_nonce[a] \in Nat
    BY DEF Requests, TypeOK
  <2>2. next_nonce' = [next_nonce EXCEPT ![a] = @ + 1] /\ UNCHANGED <<last_confirmed, overridden>>
    BY <1>2 DEF SignApproved, reserve_next
  <2>3. NewTx(r).acct = a /\ NewTx(r).nonce = next_nonce[a]
    BY DEF NewTx
  <2>4. \A b \in Accounts : next_nonce'[b] = IF b = a THEN next_nonce[a] + 1 ELSE next_nonce[b]
    BY <2>1, <2>2 DEF TypeOK
  <2>5. /\ DOMAIN txs' = DOMAIN txs \cup {n}
        /\ \A j \in DOMAIN txs : txs'[j] = txs[j]
        /\ txs'[n].acct = a /\ txs'[n].nonce = next_nonce[a]
        /\ n \notin DOMAIN txs
    <3>1. n \notin DOMAIN txs
      BY RowTypes
    <3>2. QED
      BY <1>2, <2>3, <3>1, CreateTx
  <2>6. \A b \in Accounts : next_nonce[b] \in Nat /\ last_confirmed[b] \in Int
    BY DEF TypeOK, Null
  <2> HIDE DEF n, a
  <2>7. NonceUnique'
    BY <2>1, <2>2, <2>5, RowTypes DEF NonceInv, NonceUnique, InFlightBelowNext, Live
  <2>8. InFlightBelowNext'
    BY <2>1, <2>2, <2>4, <2>5, RowTypes DEF NonceInv, InFlightBelowNext, Live
  <2>9. ConfirmedBelowNext'
    BY <2>1, <2>2, <2>4, <2>6 DEF NonceInv, ConfirmedBelowNext
  <2>10. ConfirmedNotLive'
    BY <2>1, <2>2, <2>5, <2>6, RowTypes DEF NonceInv, ConfirmedNotLive, ConfirmedBelowNext, Live
  <2>11. QED
    BY <2>7, <2>8, <2>9, <2>10 DEF NonceInv
<1>3. ASSUME NEW i \in DOMAIN txs, BroadcastAccepted(i) \/ BroadcastTooLow(i) PROVE NonceInv'
  <2>1. /\ update_status(i, "submitted") \/ update_status(i, "failed")
        /\ Live(i)
        /\ UNCHANGED <<next_nonce, last_confirmed, overridden>>
    BY <1>3 DEF BroadcastAccepted, BroadcastTooLow, nonceVars, Live, InFlight
  <2>2. QED
    BY <2>1, UpdateStatus, FewerLive DEF Statuses, Live
<1>4. ASSUME NEW i \in DOMAIN txs, BroadcastReleaseable(i) PROVE NonceInv'
  <2> DEFINE a == txs[i].acct
  <2>1. /\ update_status(i, "failed")
        /\ Live(i)
        /\ UNCHANGED <<last_confirmed, overridden>>
        /\ next_nonce' = release_if_unused(next_nonce, a, txs[i].nonce)
    BY <1>4 DEF BroadcastReleaseable, Live, InFlight
  <2>2. /\ DOMAIN txs' = DOMAIN txs
        /\ \A j \in DOMAIN txs : SameRequest(j) /\ (txs'[j].status \in InFlight => Live(j) /\ j # i)
    BY <2>1, UpdateStatus DEF Statuses, Live, InFlight
  <2>3. CASE next_nonce' = next_nonce
    BY <2>1, <2>2, <2>3, FewerLive
  <2>4. CASE next_nonce' # next_nonce
    <3>1. next_nonce[a] - 1 = txs[i].nonce /\ next_nonce' = [next_nonce EXCEPT ![a] = @ - 1]
      BY <2>1, <2>4 DEF release_if_unused
    <3>2. a \in Accounts /\ \A b \in Accounts : next_nonce[b] \in Nat /\ last_confirmed[b] \in Int
      BY RowTypes DEF TypeOK, Null
    <3>3. \A b \in Accounts : next_nonce'[b] = IF b = a THEN next_nonce[a] - 1 ELSE next_nonce[b]
      BY <3>1, <3>2 DEF TypeOK
    <3>4. NonceUnique' /\ ConfirmedNotLive'
      BY <2>1, <2>2 DEF NonceInv, NonceUnique, ConfirmedNotLive, Live, SameRequest
    <3>5. InFlightBelowNext'
      BY <2>1, <2>2, <3>1, <3>2, <3>3, RowTypes
      DEF NonceInv, NonceUnique, InFlightBelowNext, Live, SameRequest
    <3>6. ConfirmedBelowNext'
      BY <2>1, <3>1, <3>2, <3>3 DEF NonceInv, ConfirmedBelowNext, ConfirmedNotLive
    <3>7. QED
      BY <3>4, <3>5, <3>6 DEF NonceInv
  <2>5. QED
    BY <2>3, <2>4
<1>5. ASSUME NEW i \in DOMAIN txs, Receipt(i, "mined") \/ Receipt(i, "reverted") PROVE NonceInv'
  <2> DEFINE a == txs[i].acct
  <2>1. /\ update_status(i, "mined") \/ update_status(i, "reverted")
        /\ Live(i)
        /\ UNCHANGED <<next_nonce, overridden>>
        /\ last_confirmed' = mark_confirmed(last_confirmed, a, txs[i].nonce)
    BY <1>5 DEF Receipt, Live, InFlight
  <2>2. /\ DOMAIN txs' = DOMAIN txs
        /\ \A j \in DOMAIN txs : SameRequest(j) /\ (txs'[j].status \in InFlight => Live(j) /\ j # i)
    BY <2>1, UpdateStatus DEF Statuses, Live, InFlight
  <2>3. a \in Accounts /\ \A b \in Accounts : next_nonce[b] \in Nat /\ last_confirmed[b] \in Int
    BY RowTypes DEF TypeOK, Null
  <2>4. /\ \A b \in Accounts \ {a} : last_confirmed'[b] = last_confirmed[b]
        /\ last_confirmed'[a] \in {last_confirmed[a], txs[i].nonce}
    BY <2>1, <2>3 DEF mark_confirmed, TypeOK
  <2>5. NonceUnique' /\ InFlightBelowNext'
    BY <2>1, <2>2 DEF NonceInv, NonceUnique, InFlightBelowNext, Live, SameRequest
  <2>6. ConfirmedBelowNext'
    BY <2>1, <2>3, <2>4 DEF NonceInv, ConfirmedBelowNext, InFlightBelowNext
  <2>7. ConfirmedNotLive'
    BY <2>1, <2>2, <2>3, <2>4, RowTypes
    DEF NonceInv, ConfirmedNotLive, NonceUnique, Live, SameRequest
  <2>8. QED
    BY <2>5, <2>6, <2>7 DEF NonceInv
<1>6. ASSUME NEW i \in DOMAIN txs, NEW fee \in FeeParams, ReplacementSigned(i, fee)
      PROVE  NonceInv'
  <2>1. UNCHANGED <<next_nonce, last_confirmed, overridden>>
    BY <1>6 DEF ReplacementSigned, nonceVars
  <2>2. QED
    BY <1>6, <2>1, AddAttempt, FewerLive DEF Live
<1>7. ASSUME NEW a \in Accounts, NEW value \in 0..MaxNonce, NonceSyncAdvance(a, value)
      PROVE  NonceInv'
  <2>1. /\ UNCHANGED <<txs, overridden>>
        /\ value \in Nat /\ value > next_nonce[a]
        /\ next_nonce' = [next_nonce EXCEPT ![a] = value]
        /\ last_confirmed' = [last_confirmed EXCEPT ![a] = value - 1]
    BY <1>7, SigningAssumption DEF NonceSyncAdvance, set_last_confirmed
  <2>2. \A b \in Accounts : next_nonce[b] \in Nat /\ last_confirmed[b] \in Int
    BY DEF TypeOK, Null
  <2>3. \A b \in Accounts :
          /\ next_nonce'[b] = IF b = a THEN value ELSE next_nonce[b]
          /\ last_confirmed'[b] = IF b = a THEN value - 1 ELSE last_confirmed[b]
    BY <2>1 DEF TypeOK
  <2>4. NonceUnique'
    BY <2>1 DEF NonceInv, NonceUnique, Live
  <2>5. InFlightBelowNext' /\ ConfirmedNotLive'
    BY <2>1, <2>2, <2>3, RowTypes DEF NonceInv, InFlightBelowNext, ConfirmedNotLive, Live
  <2>6. ConfirmedBelowNext'
    BY <2>1, <2>2, <2>3 DEF NonceInv, ConfirmedBelowNext
  <2>7. QED
    BY <2>4, <2>5, <2>6 DEF NonceInv
<1>8. ASSUME NEW a \in Accounts, NEW value \in 0..MaxNonce,
             NEW force \in BOOLEAN, NEW force_with_in_flight \in BOOLEAN,
             NonceInit(a, value, force, force_with_in_flight)
      PROVE  NonceInv'
  <2>1. /\ UNCHANGED txs
        /\ value \in Nat
        /\ next_nonce' = [next_nonce EXCEPT ![a] = value]
        /\ last_confirmed' = [last_confirmed EXCEPT ![a] = Null]
        /\ overridden \ {a} = overridden' \ {a}
        /\ a \notin overridden' => \A i \in DOMAIN txs : txs[i].acct = a => ~Live(i)
    <3>1. a \notin overridden' => \A i \in DOMAIN txs : txs[i].acct = a => ~Live(i)
      BY <1>8 DEF NonceInit, has_in_flight, Live, SeededInv
    <3>2. QED
      BY <1>8, <3>1, SigningAssumption DEF NonceInit
  <2>2. \A b \in Accounts :
          /\ next_nonce'[b] = IF b = a THEN value ELSE next_nonce[b]
          /\ last_confirmed'[b] = IF b = a THEN Null ELSE last_confirmed[b]
    BY <2>1 DEF TypeOK
  <2>3. NonceUnique'
    BY <2>1 DEF NonceInv, NonceUnique, Live
  <2>4. InFlightBelowNext' /\ ConfirmedNotLive'
    BY <2>1, <2>2, RowTypes DEF NonceInv, InFlightBelowNext, ConfirmedNotLive, Live
  <2>5. ConfirmedBelowNext'
    BY <2>1, <2>2 DEF NonceInv, ConfirmedBelowNext, Null
  <2>6. QED
    BY <2>3, <2>4, <2>5 DEF NonceInv
<1>9. CASE Tick
  BY <1>9 DEF Tick, nonceVars, NonceInv, NonceUnique, InFlightBelowNext,
              ConfirmedBelowNext, ConfirmedNotLive, Live
<1>10. QED
  BY <1>1, <1>2, <1>3, <1>4, <1>5, <1>6, <1>7, <1>8, <1>9, StepCases

\* For every number of accounts, rows and ticks: no two transactions in flight
\* share a nonce, everything in flight is below next_nonce, and a nonce that is
\* confirmed is never handed out again.
THEOREM NonceSafety ==
    Spec => [](NonceUnique /\ InFlightBelowNext /\ ConfirmedBelowNext /\ ConfirmedNotLive)
<1>1. Init => NonceInv
  BY DEF Init, NonceInv, NonceUnique, InFlightBelowNext, ConfirmedBelowNext,
         ConfirmedNotLive, Null
<1>2. QED
  BY <1>1, NonceInvStep, TypeCorrect, SeededCorrect, PTL DEF Spec, NonceInv
-----------------------------------------------------------------------------
\* However long a client stays silent, nothing is signed above its reservation
\* once the lease has run out.
THEOREM HoleSafety == Spec => []HoleNeverDeepened
<1>1. Init => HoleNeverDeepened
  BY DEF Init, HoleNeverDeepened
<1>2. TypeOK /\ HoleNeverDeepened /\ [Next]_vars => HoleNeverDeepened'
  <2> SUFFICES ASSUME TypeOK, HoleNeverDeepened, [Next]_vars PROVE HoleNeverDeepened'
    OBVIOUS
  <2>1. ASSUME NEW r \in Requests, SignApproved(r) PROVE HoleNeverDeepened'
    <3> DEFINE n == Len(txs) + 1
    <3>1. /\ DOMAIN txs' = DOMAIN txs \cup {n}
          /\ \A j \in DOMAIN txs : txs'[j] = txs[j]
          /\ txs'[n] = NewTx(r)
      BY <2>1, CreateTx
    <3>2. txs'[n].acct = r.acct /\ txs'[n].reserved_at = now
      BY <3>1 DEF NewTx
    <3>3. \A i \in DOMAIN txs :
             txs[i].acct = r.acct /\ txs[i].status = "pending" => now <= txs[i].reserved_at + Lease
      <4>1. now \in Nat /\ Lease \in Nat
        BY SigningAssumption DEF TypeOK
      <4>2. \A i \in DOMAIN txs : txs[i].acct = r.acct => ~StaleReservation(i)
        BY <2>1 DEF SignApproved, Reserves, has_stale_reservation
      <4>3. QED
        BY <4>1, <4>2, RowTypes DEF StaleReservation
    <3>4. n \in Nat /\ \A i \in DOMAIN txs' : i < n \/ i = n
      BY <3>1, RowTypes
    <3>5. ASSUME NEW i \in DOMAIN txs', NEW j \in DOMAIN txs',
                 i < j, txs'[i].acct = txs'[j].acct, txs'[i].status = "pending"
          PROVE  txs'[j].reserved_at <= txs'[i].reserved_at + Lease
      <4>1. i \in DOMAIN txs /\ txs'[i] = txs[i]
        BY <3>1, <3>4, <3>5, RowTypes
      <4>2. CASE j = n
        BY <3>2, <3>3, <3>5, <4>1, <4>2
      <4>3. CASE j # n
        BY <3>1, <3>5, <4>1, <4>3 DEF HoleNeverDeepened
      <4>4. QED
        BY <4>2, <4>3
    <3>6. QED
      BY <3>5 DEF HoleNeverDeepened
  <2>2. CASE \A r \in Requests : ~SignApproved(r)
    BY <2>2, OnlySigningAddsRows DEF HoleNeverDeepened, SameRequest
  <2>3. QED
    BY <2>1, <2>2
<1>3. QED
  BY <1>1, <1>2, TypeCorrect, PTL DEF Spec

\* An idempotency key never names two transactions of its caller.
THEOREM IdempotencySafety == Spec => []OneTxPerKey
<1>1. Init => OneTxPerKey
  BY DEF Init, OneTxPerKey
<1>2. TypeOK /\ OneTxPerKey /\ [Next]_vars => OneTxPerKey'
  <2> SUFFICES ASSUME TypeOK, OneTxPerKey, [Next]_vars PROVE OneTxPerKey'
    OBVIOUS
  <2>1. ASSUME NEW r \in Requests, SignApproved(r) PROVE OneTxPerKey'
    <3> DEFINE n == Len(txs) + 1
    <3>1. /\ DOMAIN txs' = DOMAIN txs \cup {n}
          /\ \A j \in DOMAIN txs : txs'[j] = txs[j]
          /\ txs'[n] = NewTx(r)
      BY <2>1, CreateTx
    <3>2. txs'[n].caller = r.caller /\ txs'[n].key = r.key
      BY <3>1 DEF NewTx
    <3>3. r.key # NoKey => \A i \in DOMAIN txs : ~(txs[i].caller = r.caller /\ txs[i].key = r.key)
      BY <2>1 DEF SignApproved, Reserves, Admitted, Replayed, get_by_idempotency_key
    <3> HIDE DEF n
    <3>4. QED
      BY <3>1, <3>2, <3>3 DEF OneTxPerKey
  <2>2. CASE \A r \in Requests : ~SignApproved(r)
    BY <2>2, OnlySigningAddsRows DEF OneTxPerKey, SameRequest
  <2>3. QED
    BY <2>1, <2>2
<1>3. QED
  BY <1>1, <1>2, TypeCorrect, PTL DEF Spec

\* No reserved nonce is lost: what was handed out since the account was last
\* seeded or synced is held by a recorded transaction.
THEOREM NoNonceLost == Spec => []NoLeakedNonce
<1>1. Init => NoLeakedNonce
  BY DEF Init, NoLeakedNonce
<1>2. TypeOK /\ NoLeakedNonce /\ [Next]_vars => NoLeakedNonce'
  <2> SUFFICES ASSUME TypeOK, NoLeakedNonce, [Next]_vars PROVE NoLeakedNonce'
    OBVIOUS
  <2>a. \A b \in Accounts : next_nonce[b] \in Nat /\ seedpoint[b] \in Nat
    BY DEF TypeOK
  <2>1. ASSUME NEW r \in Requests, SignApproved(r) PROVE NoLeakedNonce'
    <3> DEFINE n == Len(txs) + 1
               a == r.acct
    <3>0. NewTx(r).acct = a /\ NewTx(r).nonce = next_nonce[a]
      BY DEF NewTx
    <3>1. /\ DOMAIN txs' = DOMAIN txs \cup {n}
          /\ \A j \in DOMAIN txs : txs'[j] = txs[j]
          /\ txs'[n].acct = a /\ txs'[n].nonce = next_nonce[a]
      BY <2>1, <3>0, CreateTx
    <3>2. a \in Accounts /\ UNCHANGED <<seeded, seedpoint>> /\ seeded \subseteq Accounts
      BY <2>1 DEF Requests, SignApproved, TypeOK
    <3>3. \A b \in Accounts : next_nonce'[b] = IF b = a THEN next_nonce[a] + 1 ELSE next_nonce[b]
      BY <2>1, <3>2 DEF SignApproved, reserve_next, TypeOK
    <3> HIDE DEF n, a
    <3>4. ASSUME NEW b \in seeded, NEW m \in seedpoint[b]..(next_nonce'[b] - 1)
          PROVE  \E i \in DOMAIN txs' : txs'[i].acct = b /\ txs'[i].nonce = m
      <4>1. b \in Accounts
        BY <3>2
      <4>2. CASE b = a /\ m = next_nonce[a]
        BY <3>1, <4>2
      <4>3. CASE ~(b = a /\ m = next_nonce[a])
        <5>1. m \in seedpoint[b]..(next_nonce[b] - 1)
          BY <2>a, <3>3, <3>4, <4>1, <4>3
        <5>2. QED
          BY <3>1, <5>1 DEF NoLeakedNonce
      <4>4. QED
        BY <4>2, <4>3
    <3>5. QED
      BY <3>2, <3>4 DEF NoLeakedNonce
  <2>2. CASE \A r \in Requests : ~SignApproved(r)
    <3>1. \A b \in seeded' : \/ /\ b \in seeded
                               /\ seedpoint'[b] = seedpoint[b]
                               /\ next_nonce'[b] <= next_nonce[b]
                            \/ next_nonce'[b] = seedpoint'[b]
      <4>1. CASE UNCHANGED <<seeded, seedpoint, next_nonce>>
        BY <4>1, <2>a DEF TypeOK
      <4>2. ASSUME NEW i \in DOMAIN txs, BroadcastReleaseable(i)
            PROVE  /\ UNCHANGED <<seeded, seedpoint>>
                   /\ \A b \in Accounts : next_nonce'[b] <= next_nonce[b]
        BY <4>2, <2>a, RowTypes DEF BroadcastReleaseable, release_if_unused, TypeOK
      <4>3. ASSUME NEW a \in Accounts, NEW value \in 0..MaxNonce,
                   \/ NonceSyncAdvance(a, value)
                   \/ \E force, force_with_in_flight \in BOOLEAN :
                         NonceInit(a, value, force, force_with_in_flight)
            PROVE  /\ seeded' \subseteq seeded \cup {a}
                   /\ next_nonce' = [next_nonce EXCEPT ![a] = value]
                   /\ seedpoint' = [seedpoint EXCEPT ![a] = value]
        BY <4>3 DEF NonceSyncAdvance, NonceInit
      <4>4. \/ UNCHANGED <<seeded, seedpoint, next_nonce>>
            \/ \E i \in DOMAIN txs : BroadcastReleaseable(i)
            \/ \E a \in Accounts, value \in 0..MaxNonce :
                  /\ seeded' \subseteq seeded \cup {a}
                  /\ next_nonce' = [next_nonce EXCEPT ![a] = value]
                  /\ seedpoint' = [seedpoint EXCEPT ![a] = value]
        BY <2>2, <4>3, StepCases
        DEF ledger, nonceVars, BroadcastAccepted, BroadcastTooLow, Receipt, ReplacementSigned, Tick
      <4>5. QED
        BY <2>a, <4>1, <4>2, <4>4 DEF TypeOK
    <3>2. ASSUME NEW b \in seeded', NEW m \in seedpoint'[b]..(next_nonce'[b] - 1)
          PROVE  \E i \in DOMAIN txs' : txs'[i].acct = b /\ txs'[i].nonce = m
      <4>1. b \in Accounts /\ next_nonce'[b] \in Nat /\ seedpoint'[b] \in Nat
        BY TypeStep DEF TypeOK
      <4>2. b \in seeded /\ m \in seedpoint[b]..(next_nonce[b] - 1)
        BY <2>a, <3>1, <3>2, <4>1
      <4>3. PICK i \in DOMAIN txs : txs[i].acct = b /\ txs[i].nonce = m
        BY <4>2 DEF NoLeakedNonce
      <4>4. QED
        BY <2>2, <4>3, OnlySigningAddsRows DEF SameRequest
    <3>3. QED
      BY <3>2 DEF NoLeakedNonce
  <2>3. QED
    BY <2>1, <2>2
<1>3. QED
  BY <1>1, <1>2, TypeCorrect, PTL DEF Spec

\* A receipt or a sync never moves last_confirmed back, however late it comes.
THEOREM ConfirmedForward == Spec => ConfirmedMonotone
<1> DEFINE Forward == \A a \in Accounts \ overridden :
                         \/ last_confirmed'[a] >= last_confirmed[a]
                         \/ audit'.reason = "force_overwrite"
<1>1. TypeOK /\ SeededInv /\ ConfirmedBelowNext /\ [Next]_vars => [Forward]_vars
  <2> SUFFICES ASSUME TypeOK, SeededInv, ConfirmedBelowNext, [Next]_vars PROVE Forward
    OBVIOUS
  <2>1. \A a \in Accounts : last_confirmed[a] \in Int /\ next_nonce[a] \in Nat
    BY DEF TypeOK, Null
  <2>2. CASE UNCHANGED last_confirmed
    BY <2>1, <2>2
  <2>3. ASSUME NEW i \in DOMAIN txs, Receipt(i, "mined") \/ Receipt(i, "reverted") PROVE Forward
    <3> DEFINE b == txs[i].acct
    <3>1. b \in Accounts /\ txs[i].nonce \in Nat
      BY RowTypes
    <3>2. last_confirmed' = mark_confirmed(last_confirmed, b, txs[i].nonce)
      BY <2>3 DEF Receipt
    <3> HIDE DEF b
    <3>3. \A a \in Accounts :
             last_confirmed'[a] = IF a = b /\ (last_confirmed[b] = -1 \/ last_confirmed[b] < txs[i].nonce)
                                  THEN txs[i].nonce ELSE last_confirmed[a]
      BY <3>1, <3>2 DEF mark_confirmed, TypeOK, Null
    <3>4. QED
      BY <2>1, <3>1, <3>3
  <2>4. ASSUME NEW b \in Accounts, NEW value \in 0..MaxNonce, NonceSyncAdvance(b, value)
        PROVE  Forward
    <3>1. /\ value \in Nat /\ value > next_nonce[b]
          /\ last_confirmed' = [last_confirmed EXCEPT ![b] = value - 1]
      BY <2>4, SigningAssumption DEF NonceSyncAdvance, set_last_confirmed
    <3>2. QED
      BY <2>1, <3>1 DEF ConfirmedBelowNext, TypeOK
  <2>5. ASSUME NEW b \in Accounts, NEW value \in 0..MaxNonce,
               NEW force \in BOOLEAN, NEW force_with_in_flight \in BOOLEAN,
               NonceInit(b, value, force, force_with_in_flight)
        PROVE  Forward
    <3>1. CASE b \in seeded
      BY <2>5, <3>1 DEF NonceInit, Row
    <3>2. CASE b \notin seeded
      BY <2>1, <2>5, <3>2 DEF NonceInit, SeededInv, TypeOK
    <3>3. QED
      BY <3>1, <3>2
  <2>6. QED
    BY <2>2, <2>3, <2>4, <2>5, StepCases
    DEF ledger, nonceVars, SignApproved, BroadcastAccepted, BroadcastReleaseable,
        BroadcastTooLow, ReplacementSigned, Tick
<1>2. QED
  BY <1>1, TypeCorrect, SeededCorrect, NonceSafety, PTL DEF Spec, ConfirmedMonotone

\* math.ceil(prev * 1.125) is the least bid that is 9/8 of the last.
LEMMA MinPriorityBound ==
    ASSUME NEW prev \in Nat, NEW bid \in Nat, bid >= MinPriority(prev)
    PROVE  8 * bid >= 9 * prev
BY DEF MinPriority

\* Every bid recorded is within the caps and outbids the one before it.
THEOREM BidsEscalate == Spec => []AttemptsEscalate
<1>1. Init => AttemptsEscalate
  BY DEF Init, AttemptsEscalate
<1>2. TypeOK /\ AttemptsEscalate /\ [Next]_vars => AttemptsEscalate'
  <2> DEFINE Escalates(seq) ==
               \A k \in DOMAIN seq :
                  /\ ~FeeRejected(seq[k])
                  /\ k > 1 => /\ 8 * seq[k].priority >= 9 * seq[k - 1].priority
                              /\ seq[k].max_fee >= seq[k - 1].max_fee
  <2>a. AttemptsEscalate <=> \A i \in DOMAIN txs : Escalates(txs[i].attempts)
    BY DEF AttemptsEscalate
  <2>b. AttemptsEscalate' <=> \A i \in DOMAIN txs' : Escalates(txs'[i].attempts)
    BY DEF AttemptsEscalate, FeeRejected
  <2> SUFFICES ASSUME TypeOK, [Next]_vars, \A i \in DOMAIN txs : Escalates(txs[i].attempts)
               PROVE  \A i \in DOMAIN txs' : Escalates(txs'[i].attempts)
    BY <2>a, <2>b
  <2>1. CASE UNCHANGED txs
    BY <2>1
  <2>2. ASSUME NEW r \in Requests, SignApproved(r)
        PROVE  \A i \in DOMAIN txs' : Escalates(txs'[i].attempts)
    <3>1. NewTx(r).attempts = <<r.fee>> /\ ~FeeRejected(r.fee)
      BY <2>2 DEF NewTx, SignApproved, Reserves, Admitted
    <3>2. Escalates(<<r.fee>>)
      BY <3>1
    <3> HIDE DEF Escalates
    <3>3. QED
      BY <2>2, <3>1, <3>2, CreateTx
  <2>3. ASSUME NEW i \in DOMAIN txs, NEW s \in Statuses, update_status(i, s)
        PROVE  \A j \in DOMAIN txs' : Escalates(txs'[j].attempts)
    <3> HIDE DEF Escalates
    <3>1. QED
      BY <2>3, UpdateStatus
  <2>4. ASSUME NEW i \in DOMAIN txs, NEW fee \in FeeParams, ReplacementSigned(i, fee)
        PROVE  \A j \in DOMAIN txs' : Escalates(txs'[j].attempts)
    <3> DEFINE old == txs[i].attempts
               m == Len(old)
               new == Append(old, fee)
    <3>1. old \in Seq(FeeParams) /\ m \in Nat /\ m >= 1
      BY RowTypes, LenProperties DEF TypeOK
    <3>2. /\ ~FeeRejected(fee)
          /\ fee.priority >= MinPriority(old[m].priority)
          /\ fee.max_fee >= old[m].max_fee
      <4>1. old[m] \in FeeParams
        BY <3>1
      <4>2. /\ fee.priority \in Nat /\ fee.max_fee \in Nat
            /\ old[m].priority \in Nat /\ old[m].max_fee \in Nat
        BY <4>1, SigningAssumption DEF FeeParams
      <4>3. QED
        <5>1. MinPriority(old[m].priority) \in Int
          BY <4>2 DEF MinPriority
        <5>2. ~FeeRejected(fee) /\ ~BumpTooLow(i, fee)
          BY <2>4 DEF ReplacementSigned, Replaceable
        <5>3. QED
          BY <4>2, <5>1, <5>2 DEF BumpTooLow, latest_attempt
    <3>3. 8 * fee.priority >= 9 * old[m].priority
      <4>1. old[m] \in FeeParams
        BY <3>1
      <4>2. fee.priority \in Nat /\ old[m].priority \in Nat
        BY <4>1, SigningAssumption DEF FeeParams
      <4>3. QED
        BY <3>2, <4>2, MinPriorityBound
    <3>4. /\ DOMAIN new = 1..(m + 1)
          /\ \A k \in 1..m : new[k] = old[k]
          /\ new[m + 1] = fee
      BY <3>1, AppendProperties, LenProperties
    <3>5. Escalates(old) /\ DOMAIN old = 1..m
      BY <3>1, LenProperties
    <3> HIDE DEF old, m, new
    <3>6. Escalates(new)
      <4>1. ASSUME NEW k \in 1..m
            PROVE  /\ ~FeeRejected(new[k])
                   /\ k > 1 => /\ 8 * new[k].priority >= 9 * new[k - 1].priority
                               /\ new[k].max_fee >= new[k - 1].max_fee
        <5>1. k > 1 => k - 1 \in 1..m
          BY <3>1
        <5>2. QED
          BY <3>4, <3>5, <5>1
      <4>2. /\ ~FeeRejected(new[m + 1])
            /\ m + 1 > 1 => /\ 8 * new[m + 1].priority >= 9 * new[m].priority
                            /\ new[m + 1].max_fee >= new[m].max_fee
        BY <3>1, <3>2, <3>3, <3>4
      <4>3. \A k \in DOMAIN new : k \in 1..m \/ k = m + 1
        BY <3>1, <3>4
      <4>4. ASSUME NEW k \in DOMAIN new
            PROVE  /\ ~FeeRejected(new[k])
                   /\ k > 1 => /\ 8 * new[k].priority >= 9 * new[k - 1].priority
                               /\ new[k].max_fee >= new[k - 1].max_fee
        <5>1. CASE k \in 1..m
          BY <4>1, <5>1
        <5>2. CASE k = m + 1
          <6>1. k - 1 = m
            BY <3>1, <5>2
          <6>2. QED
            BY <4>2, <5>2, <6>1
        <5>3. QED
          BY <4>3, <5>1, <5>2
      <4>5. QED
        BY <4>4
    <3> HIDE DEF Escalates
    <3>7. QED
      BY <2>4, <3>6, AddAttempt DEF old, new
  <2>5. \/ UNCHANGED txs
        \/ \E r \in Requests : SignApproved(r)
        \/ \E i \in DOMAIN txs, s \in Statuses : update_status(i, s)
        \/ \E i \in DOMAIN txs, fee \in FeeParams : ReplacementSigned(i, fee)
    BY StepCases DEF ledger, BroadcastAccepted, BroadcastReleaseable, BroadcastTooLow, Receipt,
                     NonceSyncAdvance, NonceInit, Tick, Statuses
  <2>6. QED
    BY <2>1, <2>2, <2>3, <2>4, <2>5
<1>3. QED
  BY <1>1, <1>2, TypeCorrect, PTL DEF Spec
-----------------------------------------------------------------------------
\* Everything in flight is below next_nonce: the tail is always free to use.
THEOREM InFlightSafety == Spec => []InFlightBelowNext
BY NonceSafety, PTL

\* A nonce confirmed on chain is never the next to be handed out.
THEOREM ConfirmedSafety == Spec => []ConfirmedBelowNext
BY NonceSafety, PTL

\* No transaction in flight carries the nonce that was confirmed last.
THEOREM ConfirmedSettled == Spec => []ConfirmedNotLive
BY NonceSafety, PTL

-----------------------------------------------------------------------------
\* What the book shows of the table.
LEMMA BookFields ==
    /\ DOMAIN AsBook = DOMAIN txs
    /\ \A i \in DOMAIN txs :
          /\ AsBook[i] = EntryOf(i)
          /\ AsBook[i].acct = txs[i].acct
          /\ AsBook[i].nonce = txs[i].nonce
          /\ AsBook[i].state = "open" <=> Live(i)
<1>1. DOMAIN AsBook = DOMAIN txs /\ \A i \in DOMAIN txs : AsBook[i] = EntryOf(i)
  BY DEF AsBook
<1>2. ASSUME NEW i \in DOMAIN txs
      PROVE  /\ EntryOf(i).acct = txs[i].acct
             /\ EntryOf(i).nonce = txs[i].nonce
             /\ EntryOf(i).state = "open" <=> Live(i)
  <2>1. CASE Live(i)
    BY <2>1 DEF EntryOf
  <2>2. CASE ~Live(i)
    BY <2>2 DEF EntryOf
  <2>3. QED
    BY <2>1, <2>2
<1>3. QED
  BY <1>1, <1>2

\* An entry changes only with its account, its nonce or its being in flight.
LEMMA SameEntry ==
    ASSUME NEW j, txs'[j].acct = txs[j].acct, txs'[j].nonce = txs[j].nonce,
           Live(j)' <=> Live(j)
    PROVE  EntryOf(j)' = EntryOf(j)
<1>1. CASE Live(j)
  BY <1>1 DEF EntryOf
<1>2. CASE ~Live(j)
  BY <1>2 DEF EntryOf
<1>3. QED
  BY <1>1, <1>2

\* A step that keeps the rows, what was requested, and who is in flight keeps
\* the book.
LEMMA SameBook ==
    ASSUME DOMAIN txs' = DOMAIN txs,
           \A j \in DOMAIN txs : SameRequest(j) /\ (Live(j)' <=> Live(j))
    PROVE  AsBook' = AsBook
<1>1. \A j \in DOMAIN txs : EntryOf(j)' = EntryOf(j)
  BY SameEntry DEF SameRequest
<1>2. QED
  BY <1>1 DEF AsBook

\* Settling row i closes its entry.
LEMMA CloseEntry ==
    ASSUME TypeOK, NEW i \in DOMAIN txs, Live(i), NEW s \in Settled, update_status(i, s)
    PROVE  Book!Closes(i)
<1>1. /\ DOMAIN txs' = DOMAIN txs
      /\ \A j \in DOMAIN txs :
            /\ txs'[j].acct = txs[j].acct /\ txs'[j].nonce = txs[j].nonce
            /\ txs'[j].status = IF j = i THEN s ELSE txs[j].status
  BY UpdateStatus DEF SameRequest, Settled
<1>2. ~Live(i)' /\ \A j \in DOMAIN txs : j # i => (Live(j)' <=> Live(j))
  BY <1>1 DEF Live, Settled
<1>3. \A j \in DOMAIN txs : j # i => EntryOf(j)' = EntryOf(j)
  BY <1>1, <1>2, SameEntry
<1>4. EntryOf(i)' = [EntryOf(i) EXCEPT !.state = "settled"]
  <2>1. EntryOf(i)' = [acct |-> txs[i].acct, nonce |-> txs[i].nonce, state |-> "settled"]
    BY <1>1, <1>2 DEF EntryOf
  <2>2. EntryOf(i) = [acct |-> txs[i].acct, nonce |-> txs[i].nonce, state |-> "open"]
    BY DEF EntryOf
  <2>3. QED
    BY <2>1, <2>2
<1>5. AsBook' = [AsBook EXCEPT ![i].state = "settled"]
  BY <1>1, <1>3, <1>4 DEF AsBook
<1>6. QED
  BY <1>5, BookFields DEF Book!Closes

\* Nobody in flight holds the next nonce of a trusted account, and it is above
\* what is confirmed.
LEMMA TailIsFree ==
    ASSUME TypeOK, NonceInv, NEW a \in Accounts \ overridden
    PROVE  /\ ~Book!Holds(a, next_nonce[a])
           /\ next_nonce[a] > last_confirmed[a]
<1>1. \A i \in DOMAIN txs : Live(i) /\ txs[i].acct = a => txs[i].nonce < next_nonce[a]
  BY DEF NonceInv, InFlightBelowNext
<1>2. \A i \in DOMAIN txs : txs[i].nonce \in Nat /\ next_nonce[a] \in Nat
  BY RowTypes DEF TypeOK
<1>3. ~Book!Holds(a, next_nonce[a])
  BY <1>1, <1>2, BookFields DEF Book!Holds
<1>4. last_confirmed[a] < next_nonce[a]
  BY DEF NonceInv, ConfirmedBelowNext
<1>5. last_confirmed[a] \in Int /\ next_nonce[a] \in Int
  BY DEF TypeOK, Null
<1>6. QED
  BY <1>3, <1>4, <1>5

\* An approved request opens an entry.
LEMMA ApprovedOpens ==
    ASSUME TypeOK, NonceInv, NEW r \in Requests, SignApproved(r)
    PROVE  Book!Next
<1>a. PICK n, a, x : n = Len(txs) + 1 /\ a = r.acct /\ x = next_nonce[a]
  OBVIOUS
<1>1. a \in Accounts /\ x \in 0..MaxNonce /\ n \in 1..MaxTxs /\ n \notin DOMAIN txs
  BY <1>a, RowTypes, SigningAssumption DEF SignApproved, TypeOK, Requests
<1>2. NewTx(r).acct = a /\ NewTx(r).nonce = x /\ NewTx(r).status = "pending"
  BY <1>a DEF NewTx
<1>3. /\ DOMAIN txs' = DOMAIN txs \cup {n}
      /\ \A j \in DOMAIN txs : txs'[j] = txs[j]
      /\ txs'[n] = NewTx(r)
  BY <1>a, CreateTx
<1>4. UNCHANGED <<last_confirmed, overridden>>
  BY DEF SignApproved
<1>5. a \notin overridden => ~Book!Holds(a, x) /\ x > last_confirmed[a]
  BY <1>a, <1>1, TailIsFree
<1>6. AsBook' = [j \in DOMAIN AsBook \cup {n} |->
                     IF j = n THEN Book!Entry(a, x) ELSE AsBook[j]]
  <2>1. \A j \in DOMAIN txs : j # n /\ EntryOf(j)' = EntryOf(j)
    BY <1>1, <1>3, SameEntry DEF Live
  <2>2. Live(n)'
    BY <1>2, <1>3 DEF Live, InFlight
  <2>3. EntryOf(n)' = Book!Entry(a, x)
    BY <1>2, <1>3, <2>2 DEF EntryOf, Book!Entry
  <2>4. AsBook' = [j \in DOMAIN txs \cup {n} |-> EntryOf(j)']
    BY <1>3 DEF AsBook
  <2>5. QED
    BY <2>1, <2>3, <2>4, BookFields
<1>7. Book!Open(n, a, x)
  BY <1>4, <1>5, <1>6 DEF Book!Open
<1>8. QED
  BY <1>1, <1>7, BookFields DEF Book!Next

\* A receipt confirms the nonce of its entry.
LEMMA ReceiptConfirms ==
    ASSUME TypeOK, NEW i \in DOMAIN txs, NEW s \in {"mined", "reverted"}, Receipt(i, s)
    PROVE  Book!Next
<1>1. /\ txs[i].acct \in Accounts /\ txs[i].nonce \in Nat
      /\ last_confirmed \in [Accounts -> Nat \cup {-1}]
  BY RowTypes DEF TypeOK, Null
<1>2. Book!Closes(i)
  BY CloseEntry DEF Receipt, Live, InFlight, Settled, Statuses
<1>3. last_confirmed' = [last_confirmed EXCEPT ![txs[i].acct] =
                            IF @ < txs[i].nonce THEN txs[i].nonce ELSE @]
  <2> DEFINE old == last_confirmed[txs[i].acct]
             n == txs[i].nonce
  <2>1. (IF old = -1 \/ old < n THEN n ELSE old) = (IF old < n THEN n ELSE old)
    <3>1. old \in Nat \cup {-1} /\ n \in Nat
      BY <1>1
    <3> HIDE DEF old, n
    <3>2. QED
      BY <3>1
  <2>2. last_confirmed' = [last_confirmed EXCEPT ![txs[i].acct] =
                              IF old = -1 \/ old < n THEN n ELSE old]
    BY DEF Receipt, mark_confirmed, Null
  <2>3. QED
    BY <2>1, <2>2
<1>4. UNCHANGED overridden
  BY DEF Receipt
<1>5. Book!Confirm(i)
  BY <1>2, <1>3, <1>4, BookFields DEF Book!Confirm
<1>6. QED
  BY <1>5, BookFields DEF Book!Next

\* A rejected broadcast closes its entry.
LEMMA RejectionCloses ==
    ASSUME TypeOK, NEW i \in DOMAIN txs, BroadcastReleaseable(i) \/ BroadcastTooLow(i)
    PROVE  Book!Next
<1>1. txs[i].status = "pending" /\ update_status(i, "failed")
  BY DEF BroadcastReleaseable, BroadcastTooLow
<1>2. Book!Closes(i)
  BY <1>1, CloseEntry DEF Live, InFlight, Settled, Statuses
<1>3. UNCHANGED <<last_confirmed, overridden>>
  BY DEF BroadcastReleaseable, BroadcastTooLow, nonceVars
<1>4. Book!Reject(i)
  BY <1>2, <1>3 DEF Book!Reject
<1>5. QED
  BY <1>4, BookFields DEF Book!Next

\* An acceptance or a replacement leaves the book alone.
LEMMA ReportKeepsBook ==
    ASSUME TypeOK, NEW i \in DOMAIN txs,
           BroadcastAccepted(i) \/ \E fee \in FeeParams : ReplacementSigned(i, fee)
    PROVE  UNCHANGED Book!vars
<1>1. CASE BroadcastAccepted(i)
  <2>1. txs[i].status = "pending" /\ update_status(i, "submitted")
    BY <1>1 DEF BroadcastAccepted
  <2>2. /\ DOMAIN txs' = DOMAIN txs
        /\ \A j \in DOMAIN txs :
              SameRequest(j) /\ txs'[j].status = IF j = i THEN "submitted" ELSE txs[j].status
    BY <2>1, UpdateStatus DEF Statuses
  <2>3. \A j \in DOMAIN txs : SameRequest(j) /\ (Live(j)' <=> Live(j))
    BY <2>1, <2>2 DEF Live, InFlight
  <2>4. QED
    BY <1>1, <2>2, <2>3, SameBook DEF BroadcastAccepted, nonceVars, Book!vars
<1>2. ASSUME NEW fee \in FeeParams, ReplacementSigned(i, fee) PROVE UNCHANGED Book!vars
  <2>1. /\ DOMAIN txs' = DOMAIN txs
        /\ \A j \in DOMAIN txs : SameRequest(j) /\ txs'[j].status = txs[j].status
    BY <1>2, AddAttempt
  <2>2. \A j \in DOMAIN txs : SameRequest(j) /\ (Live(j)' <=> Live(j))
    BY <2>1 DEF Live
  <2>3. QED
    BY <1>2, <2>1, <2>2, SameBook DEF ReplacementSigned, nonceVars, Book!vars
<1>3. QED
  BY <1>1, <1>2

\* An admin call re-seeds or syncs an account of the book.
LEMMA AdminSteps ==
    ASSUME TypeOK, SeededInv, NonceInv, NEW a \in Accounts, NEW value \in 0..MaxNonce,
           \/ NonceSyncAdvance(a, value)
           \/ \E force, force_with_in_flight \in BOOLEAN :
                 NonceInit(a, value, force, force_with_in_flight)
    PROVE  Book!Next
<1>1. AsBook' = AsBook
  <2>1. UNCHANGED txs
    BY DEF NonceSyncAdvance, NonceInit
  <2>2. QED
    BY <2>1 DEF AsBook, EntryOf, Live
<1>2. Book!HasOpen(a) <=> has_in_flight(a)
  BY BookFields DEF Book!HasOpen, has_in_flight, Live
<1>3. CASE NonceSyncAdvance(a, value)
  <2>1. /\ value \in Nat /\ next_nonce[a] \in Nat /\ value > next_nonce[a]
        /\ last_confirmed' = [last_confirmed EXCEPT ![a] = value - 1]
        /\ UNCHANGED overridden
    BY <1>3, SigningAssumption DEF NonceSyncAdvance, set_last_confirmed, TypeOK
  <2>2. value - 1 \in 0..MaxNonce
    BY <2>1, SigningAssumption
  <2>3. ASSUME a \notin overridden
        PROVE  /\ value - 1 > last_confirmed[a]
               /\ \A i \in DOMAIN AsBook : AsBook[i].acct = a /\ AsBook[i].state = "open"
                                           => AsBook[i].nonce < value - 1
    <3>1. last_confirmed[a] \in Nat \cup {-1} /\ \A i \in DOMAIN txs : txs[i].nonce \in Nat
      BY RowTypes DEF TypeOK, Null
    <3>2. /\ last_confirmed[a] < next_nonce[a]
          /\ \A i \in DOMAIN txs : Live(i) /\ txs[i].acct = a => txs[i].nonce < next_nonce[a]
      BY <2>3 DEF NonceInv, ConfirmedBelowNext, InFlightBelowNext
    <3>3. QED
      BY <2>1, <3>1, <3>2, BookFields
  <2>4. Book!Sync(a, value - 1)
    BY <1>1, <2>1, <2>3 DEF Book!Sync
  <2>5. QED
    BY <2>2, <2>4 DEF Book!Next
<1>4. ASSUME NEW force \in BOOLEAN, NEW force_with_in_flight \in BOOLEAN,
             NonceInit(a, value, force, force_with_in_flight)
      PROVE  Book!Next
  <2>1. \/ has_in_flight(a) /\ overridden' = overridden \cup {a}
        \/ ~has_in_flight(a) /\ overridden' = overridden \ {a}
    <3>1. a \notin seeded => ~has_in_flight(a)
      BY DEF SeededInv, has_in_flight
    <3>2. a \in seeded => force_with_in_flight \/ ~has_in_flight(a)
      BY <1>4 DEF NonceInit
    <3>3. overridden' = IF force_with_in_flight /\ has_in_flight(a)
                        THEN overridden \cup {a} ELSE overridden \ {a}
      BY <1>4 DEF NonceInit, has_in_flight
    <3>4. QED
      BY <3>1, <3>2, <3>3
  <2>2. last_confirmed' = [last_confirmed EXCEPT ![a] = -1]
    BY <1>4 DEF NonceInit, Null
  <2>3. Book!Reseed(a)
    BY <1>1, <1>2, <2>1, <2>2 DEF Book!Reseed
  <2>4. QED
    BY <2>3 DEF Book!Next
<1>5. QED
  BY <1>3, <1>4

\* The nonce and transaction tables implement the abstract book, for every
\* number of accounts, rows, nonces and attempts.
THEOREM LedgerRefined == Spec => ImplementsLedger
<1>1. Init => Book!Init
  BY DEF Init, Book!Init, AsBook, Null
<1>2. TypeOK /\ SeededInv /\ NonceInv /\ [Next]_vars => [Book!Next]_(Book!vars)
  <2> SUFFICES ASSUME TypeOK, SeededInv, NonceInv, [Next]_vars
               PROVE  Book!Next \/ UNCHANGED Book!vars
    OBVIOUS
  <2>1. CASE UNCHANGED <<txs, last_confirmed, overridden>>
    BY <2>1 DEF Book!vars, AsBook, EntryOf, Live
  <2>2. UNCHANGED ledger \/ Tick => UNCHANGED <<txs, last_confirmed, overridden>>
    BY DEF ledger, nonceVars, Tick
  <2>3. QED
    BY <2>1, <2>2, StepCases, ApprovedOpens, ReceiptConfirms, RejectionCloses,
       ReportKeepsBook, AdminSteps
<1>3. QED
  BY <1>1, <1>2, TypeCorrect, SeededCorrect, NonceSafety, PTL
  DEF Spec, NonceInv, ImplementsLedger, Book!Spec
=============================================================================
