--------------------------- MODULE DomainsProofs ----------------------------
(***************************************************************************)
(* What the keys of a running daemon sign, for any edits of the file, any  *)
(* callers, wallets and asks: the properties of Domains, proved from what  *)
(* the check at startup saw of the policy in force.                        *)
(***************************************************************************)
EXTENDS Domains, AccessPolicyProofs

\* A policy in force passed the checks against the wallets of the start.
DomainInv ==
    policy # NoPolicy =>
        /\ SelfSubmitSound(policy, booted)
        /\ KeysSegregated(policy, booted)

-----------------------------------------------------------------------------
(***************************************************************************)
(* The invariant.                                                          *)
(***************************************************************************)

\* The policy in force changes with the daemon: it is loaded by a start, after
\* the checks, and dropped by a stop.
LEMMA PolicyChanges ==
    ASSUME AccessInv, PolicyInv, Next
    PROVE  \/ daemon = "up" /\ daemon' = "up" /\ policy' = policy
           \/ /\ daemon = "down" /\ wallets' = wallets
              /\ SelfSubmitSound(policy', wallets)
              /\ KeysSegregated(policy', wallets)
           \/ policy' = NoPolicy
<1>1. CASE Start
  BY <1>1 DEF Start, check_consistency, PolicyInv
<1>2. CASE Stop
  BY <1>2 DEF Stop
<1>3. CASE policy' = policy /\ (daemon' = daemon \/ daemon = "down")
  BY <1>3 DEF PolicyInv, AccessInv, Rows
<1> QED
  BY <1>1, <1>2, <1>3 DEF Next, InitPolicy, EditPolicy, AddWallet, StartWithoutPolicy,
     PostCallers, DeleteCaller, Authenticate, SignAsk, Answer, GrantStart, GrantMint,
     GrantSkip, GrantUnreachable, GrantEnd

\* Each step keeps the policy in force and the start it belongs to together.
LEMMA DomainStep ==
    ASSUME AccessInv, PolicyInv, DomainInv, DomainNext
    PROVE  DomainInv'
<1>1. CASE daemon = "up" /\ daemon' = "up" /\ policy' = policy
  BY <1>1 DEF DomainNext, DomainInv
<1>2. CASE /\ daemon = "down" /\ wallets' = wallets
           /\ SelfSubmitSound(policy', wallets)
           /\ KeysSegregated(policy', wallets)
  <2>1. booted' = wallets
    BY <1>2 DEF DomainNext
  <2> QED
    BY <1>2, <2>1 DEF DomainInv
<1>3. CASE policy' = NoPolicy
  BY <1>3 DEF DomainInv
<1> QED
  BY <1>1, <1>2, <1>3, PolicyChanges DEF DomainNext

\* The history variable only watches: a behaviour of DomainSpec is one of Spec.
LEMMA HistoryOnly == DomainSpec => Spec
<1>1. DomainInit => Init
  BY DEF DomainInit
<1>2. [DomainNext]_domain_vars => [Next]_vars
  BY DEF DomainNext, domain_vars
<1> QED
  BY <1>1, <1>2, PTL DEF DomainSpec, Spec

\* The invariant holds of every behaviour.
LEMMA DomainInvariance == DomainSpec => []DomainInv
<1>1. DomainInit => DomainInv
  BY DEF DomainInit, Init, DomainInv
<1>2. AccessInv /\ PolicyInv /\ DomainInv /\ [DomainNext]_domain_vars => DomainInv'
  <2> SUFFICES ASSUME AccessInv, PolicyInv, DomainInv, [DomainNext]_domain_vars
               PROVE  DomainInv'
    OBVIOUS
  <2>1. CASE DomainNext
    BY <2>1, DomainStep
  <2>2. CASE UNCHANGED domain_vars
    BY <2>2 DEF domain_vars, vars, DomainInv
  <2> QED
    BY <2>1, <2>2
<1> QED
  BY <1>1, <1>2, HistoryOnly, Invariance, PolicyInvariance, PTL DEF DomainSpec

-----------------------------------------------------------------------------
(***************************************************************************)
(* The theorems.                                                           *)
(***************************************************************************)

\* What a policy decides for a caller, some block of it allows.
LEMMA EvaluatePermitted ==
    ASSUME NEW p, NEW caller, NEW ask, evaluate(p, caller, ask)
    PROVE  /\ ask.kind = "call" =>
                 \E path \in DOMAIN p.permissions : evaluate_call(p, p.permissions[path], ask)
           /\ ask.kind = "fsp" => ask.wallet \in Allowlisted(p.fsp_permissions)
<1>1. CASE ask.kind = "call"
  <2>1. evaluate_inner(p, caller, ask)
    BY <1>1 DEF evaluate
  <2> QED
    BY <1>1, <2>1 DEF evaluate_inner
<1>2. CASE ask.kind = "fsp"
  <2>1. evaluate_fsp(p, caller, ask)
    BY <1>2 DEF evaluate
  <2> QED
    BY <1>2, <2>1 DEF evaluate_fsp, Allowlisted
<1> QED
  BY <1>1, <1>2

\* The wallet of a contract call is one that the permissions blocks allow, that
\* of a message one that the fsp_permissions blocks allow.
LEMMA WalletOfKind ==
    ASSUME NEW p, NEW caller, NEW ask, evaluate(p, caller, ask)
    PROVE  /\ ask.kind = "call" => ask.wallet \in Allowlisted(p.permissions)
           /\ ask.kind = "fsp" => ask.wallet \in Allowlisted(p.fsp_permissions)
BY EvaluatePermitted DEF evaluate_call, Allowlisted

\* What a request has had signed, the policy in force decided for its caller.
LEMMA SignedDecided ==
    ASSUME Decided, NEW ask \in SignedNow
    PROVE  /\ policy # NoPolicy /\ ask \in Asks
           /\ \E s \in Sessions : evaluate(policy, requests[s], ask)
BY DEF Decided, SignedNow

\* As long as a daemon runs, a key that it knew when it started signs contract
\* calls or FSP messages, not both, for any callers and under any of the key's
\* names, unless it is opted in: the comparison of blocks at startup bounds the
\* signatures of the requests that follow, whatever happens to the file, the
\* callers and the wallets in between.
THEOREM KeyDomains == DomainSpec => []KeyDomainsApart
<1>1. PolicyInv /\ DomainInv => KeyDomainsApart
  <2> SUFFICES ASSUME PolicyInv, DomainInv, NEW done \in SignedNow, NEW ask \in Signable,
                      {done.kind, ask.kind} = {"call", "fsp"},
                      SameKey(done.wallet, ask.wallet)
               PROVE  CarvedOut(done.wallet)
    BY DEF KeyDomainsApart
  <2> DEFINE key == booted[done.wallet]
  <2>1. policy # NoPolicy /\ \E s \in Sessions : evaluate(policy, requests[s], done)
    BY SignedDecided DEF PolicyInv
  <2>2. /\ done.kind = "call" => done.wallet \in Allowlisted(policy.permissions)
        /\ done.kind = "fsp" => done.wallet \in Allowlisted(policy.fsp_permissions)
    BY <2>1, WalletOfKind
  <2>3. /\ ask.kind = "call" => ask.wallet \in Allowlisted(policy.permissions)
        /\ ask.kind = "fsp" => ask.wallet \in Allowlisted(policy.fsp_permissions)
    BY WalletOfKind DEF Signable, Authorised
  <2>4. key \in Addresses(policy.permissions, booted) \cap Addresses(policy.fsp_permissions, booted)
    <3>1. \/ done.kind = "call" /\ ask.kind = "fsp"
          \/ done.kind = "fsp" /\ ask.kind = "call"
      OBVIOUS
    <3> QED
      BY <2>2, <2>3, <3>1 DEF Addresses, SameKey
  <2>5. PICK u \in policy.fsp_self_submit \cap DOMAIN booted : booted[u] = key
    BY <2>1, <2>4 DEF DomainInv, KeysSegregated
  <2> QED
    BY <2>5 DEF CarvedOut, SameKey
<1> QED
  BY <1>1, DomainInvariance, HistoryOnly, PolicyInvariance, PTL

\* The contract calls of a wallet that is opted in to fsp_self_submit have no
\* value and are calls of the FSP protocol, whoever is bound to whichever
\* blocks: every block that could allow one was checked at startup.
THEOREM CarveOut == DomainSpec => []CarveOutBounded
<1>1. PolicyInv /\ DomainInv => CarveOutBounded
  <2> SUFFICES ASSUME PolicyInv, DomainInv, NEW call \in SignedNow, call.kind = "call",
                      call.wallet \in policy.fsp_self_submit
               PROVE  /\ call.value_wei = 0
                      /\ \E abi \in DOMAIN FSP_SELF_SUBMIT_SHAPES :
                            call.method \in FSP_SELF_SUBMIT_SHAPES[abi]
    BY DEF CarveOutBounded
  <2>1. /\ policy # NoPolicy /\ call \in Asks
        /\ \E s \in Sessions : evaluate(policy, requests[s], call)
    BY SignedDecided DEF PolicyInv
  <2>2. PICK path \in DOMAIN policy.permissions :
           evaluate_call(policy, policy.permissions[path], call)
    BY <2>1, EvaluatePermitted
  <2> DEFINE rule == policy.permissions[path].contracts[call.to]
  <2>3. /\ call.wallet \in policy.permissions[path].wallet_allowlist
        /\ call.to \in DOMAIN policy.permissions[path].contracts
        /\ call.method \in DOMAIN rule.methods
        /\ call.value_wei <= rule.methods[call.method].max_value_wei
    BY <2>2 DEF evaluate_call
  <2>4. /\ rule.abi \in DOMAIN FSP_SELF_SUBMIT_SHAPES
        /\ call.method \in FSP_SELF_SUBMIT_SHAPES[rule.abi]
        /\ rule.methods[call.method].max_value_wei = 0
    BY <2>1, <2>3 DEF DomainInv, SelfSubmitSound
  <2>5. call.value_wei \in Nat
    BY <2>1, AccessAssumption
  <2> HIDE DEF rule
  <2>6. call.value_wei = 0
    BY <2>3, <2>4, <2>5
  <2> QED
    BY <2>4, <2>6
<1> QED
  BY <1>1, DomainInvariance, HistoryOnly, PolicyInvariance, PTL
=============================================================================
