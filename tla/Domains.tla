------------------------------ MODULE Domains -------------------------------
(***************************************************************************)
(* Access with a history variable, to say what the keys of a running       *)
(* daemon sign.  A key has two domains, EVM transactions and FSP messages; *)
(* the check at startup (infra/policy_loader.py, "key-domain               *)
(* segmentation") is to keep it to one of them.                            *)
(***************************************************************************)
EXTENDS Access

VARIABLE booted     \* the wallets table as the last start of the daemon read it

domain_vars == <<vars, booted>>

DomainInit ==
    /\ Init
    /\ booted = wallets

DomainNext ==
    /\ Next
    /\ booted' = IF daemon = "up" /\ daemon' = "up" THEN booted ELSE wallets'

DomainSpec == DomainInit /\ [][DomainNext]_domain_vars

-----------------------------------------------------------------------------
(***************************************************************************)
(* Properties.                                                             *)
(***************************************************************************)

\* The asks that requests under way have had signed.
SignedNow == {requests[s].signed : s \in {t \in Sessions : requests[t] # Idle}} \ {NoAsk}

\* The asks that some caller of the policy in force could have signed.
Signable == {ask \in Asks : \E c \in DOMAIN policy.callers : Authorised(policy, c, ask)}

\* Two names of one key, by what the start knew.
SameKey(v, w) == {v, w} \subseteq DOMAIN booted /\ booted[v] = booted[w]

CarvedOut(w) == \E u \in policy.fsp_self_submit : SameKey(u, w)

\* A key that signs contract calls signs no FSP messages, and the other way
\* round: when a request has a signature of the one kind, no caller can get one
\* of the other kind from that key, under any name that the start knew it by,
\* unless one of its names is opted in to fsp_self_submit.  This lasts until
\* the daemon stops, whatever is edited, minted and imported meanwhile.  (A
\* wallet that is imported while the daemon runs is not compared until the next
\* start, and value transfers are not compared at all: the check collects no
\* wallets from native_transfers.)
KeyDomainsApart ==
    \A done \in SignedNow : \A ask \in Signable :
        /\ {done.kind, ask.kind} = {"call", "fsp"}
        /\ SameKey(done.wallet, ask.wallet)
        => CarvedOut(done.wallet)

\* The contract calls that a wallet opted in to fsp_self_submit gets signed
\* move no value and are calls of the FSP protocol (policy_loader.py: "its EVM
\* authority is provably the zero-value FlareSystemsManager
\* signUptimeVote/signRewards path only", by now a few methods more), also
\* when its blocks are written by hand.
CarveOutBounded ==
    \A call \in SignedNow : call.kind = "call" /\ call.wallet \in policy.fsp_self_submit =>
        /\ call.value_wei = 0
        /\ \E abi \in DOMAIN FSP_SELF_SUBMIT_SHAPES : call.method \in FSP_SELF_SUBMIT_SHAPES[abi]
=============================================================================
