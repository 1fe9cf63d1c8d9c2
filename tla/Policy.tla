------------------------------- MODULE Policy -------------------------------
(***************************************************************************)
(* policy.yaml as the daemon reads it: the consistency check at startup    *)
(* (infra/policy_loader.py) and the decision on one request (policy_engine *)
(* steps 1 to 7, fsp_policy).  Constant level: a policy is a record of     *)
(* functions, a request for a signature (an ask) a record.                 *)
(*                                                                         *)
(* Names of callers, wallets and policy paths are pairs <<stem, network>>: *)
(* the code writes "claim-flare" for <<"claim", "flare">>.  A chain id is  *)
(* its network, a method stands for its canonical signature, and of the    *)
(* predicates of a method the one on a scalar that is pinned is kept.      *)
(* Rates are left to module Rates.                                         *)
(***************************************************************************)
EXTENDS Integers

CONSTANTS
    Unpinned,       \* no predicate, or the predicate "any"
    NoCapability    \* a binding without a capability_id

\* The state-changing methods of the shipped ABIs: those that policies name,
\* and one per ABI that they do not.
Signatures ==
    [reward_manager        |-> {"claim", "autoClaim"},
     erc20                 |-> {"transfer", "approve", "transferFrom"},
     participant_register  |-> {"register", "unregister"},
     flare_systems_manager |-> {"signUptimeVote", "signRewards", "signNewSigningPolicy",
                                "updateSettings"},
     submission            |-> {"submit1", "submit2", "submit3", "submitSignatures",
                                "submitAndPass"},
     fast_updater          |-> {"submitUpdates", "removeFeeds"},
     relay                 |-> {"relay", "setSigningPolicy"},
     voter_registry        |-> {"registerVoter", "setMaxVoters"},
     entity_manager        |-> {"confirmSubmitAddressRegistration",
                                "confirmSubmitSignaturesAddressRegistration",
                                "confirmSigningPolicyAddressRegistration"}]

abi_names == DOMAIN Signatures

\* Methods with an array or tuple among their top-level arguments.
has_nonscalar_args(method) ==
    method \in {"claim", "autoClaim", "signUptimeVote", "signRewards",
                "signNewSigningPolicy", "updateSettings", "submitUpdates",
                "removeFeeds", "setSigningPolicy", "registerVoter"}

MESSAGE_TYPES == {"UPTIME", "REWARD_DISTRIBUTION", "SIGNING_POLICY",
                  "VOTER_REGISTRATION", "PROTOCOL_PAYLOAD", "FAST_UPDATE"}

\* The transactions that the key of an FSP signing wallet may also send.
FSP_SELF_SUBMIT_SHAPES ==
    [flare_systems_manager |-> {"signUptimeVote", "signRewards", "signNewSigningPolicy"},
     relay                 |-> {"relay"},
     voter_registry        |-> {"registerVoter"},
     entity_manager        |-> {"confirmSigningPolicyAddressRegistration"}]

-----------------------------------------------------------------------------
(***************************************************************************)
(* check_consistency: callers is the set of active caller rows, wallets    *)
(* the wallets table as a function from names to addresses.                *)
(***************************************************************************)

\* A caller may be bound to a block of any of the three kinds.
policy_path_exists(p, path) ==
    \/ path \in DOMAIN p.permissions
    \/ path \in DOMAIN p.fsp_permissions
    \/ path \in DOMAIN p.native_transfers

\* The binding of a caller is found by name, and its path must be the one
\* that the caller's row was minted with.
Bound(p, caller) ==
    /\ caller.name \in DOMAIN p.callers
    /\ caller.policy_path = p.callers[caller.name].policy_path

\* Checks 1 to 1c.
CallersBound(p, callers) ==
    \A c \in callers :
        /\ Bound(p, c)
        /\ policy_path_exists(p, p.callers[c.name].policy_path)

\* Check 1d.
CapabilityIdsUnique(p) ==
    LET id(c) == p.callers[c].capability_id
    IN  \A m, n \in {c \in DOMAIN p.callers : id(c) # NoCapability} : id(m) = id(n) => m = n

\* Checks 2 and 3.
MethodsKnown(p) ==
    \A path \in DOMAIN p.permissions :
        \A to \in DOMAIN p.permissions[path].contracts :
            LET rule == p.permissions[path].contracts[to]
            IN  /\ rule.abi \in abi_names
                /\ DOMAIN rule.methods \subseteq Signatures[rule.abi]

\* The wallets that some block allows.
Allowlisted(blocks) == UNION {blocks[path].wallet_allowlist : path \in DOMAIN blocks}

\* Checks 4 to 4c, and their counterpart for FSP blocks.
AllowlistsKnown(p, wallets) ==
    /\ Allowlisted(p.permissions) \subseteq DOMAIN p.wallets
    /\ Allowlisted(p.native_transfers) \cup Allowlisted(p.fsp_permissions)
           \subseteq DOMAIN p.wallets \cup DOMAIN wallets

\* Check 5.
ConstraintsExist(p) ==
    \A w \in DOMAIN p.wallets : p.wallets[w] \in p.wallet_constraints

FspBlocksSound(p) ==
    \A path \in DOMAIN p.fsp_permissions :
        /\ path \notin DOMAIN p.permissions
        /\ p.fsp_permissions[path].message_types # {}
        /\ p.fsp_permissions[path].message_types \subseteq MESSAGE_TYPES

\* The addresses, known at startup, of the wallets that some block allows.
Addresses(blocks, wallets) ==
    {wallets[w] : w \in Allowlisted(blocks) \cap DOMAIN wallets}

\* A wallet opted in to fsp_self_submit signs FSP messages, and every
\* permissions block that allows it has one of the bounded shapes.  The blocks
\* of native_transfers are not looked at.
SelfSubmitSound(p, wallets) ==
    \A w \in p.fsp_self_submit :
        /\ w \in DOMAIN p.wallets \cup DOMAIN wallets
        /\ w \in Allowlisted(p.fsp_permissions)
        /\ w \in Allowlisted(p.permissions)
        /\ \A path \in DOMAIN p.permissions :
              w \in p.permissions[path].wallet_allowlist =>
                 \A to \in DOMAIN p.permissions[path].contracts :
                    LET rule == p.permissions[path].contracts[to]
                    IN  /\ rule.abi \in DOMAIN FSP_SELF_SUBMIT_SHAPES
                        /\ \A m \in DOMAIN rule.methods :
                              /\ m \in FSP_SELF_SUBMIT_SHAPES[rule.abi]
                              /\ rule.methods[m].max_value_wei = 0

\* Fault: wallets are compared by name.
KeysSegregated_Names(p, wallets) ==
    Allowlisted(p.permissions) \cap Allowlisted(p.fsp_permissions) \subseteq p.fsp_self_submit

\* No key is allowed both by a permissions block and by an fsp_permissions
\* block, unless it is opted in.  native_transfers are not looked at.
KeysSegregated(p, wallets) ==
    Addresses(p.permissions, wallets) \cap Addresses(p.fsp_permissions, wallets)
        \subseteq {wallets[w] : w \in p.fsp_self_submit \cap DOMAIN wallets}

\* TRUE: no errors.
check_consistency(p, callers, wallets) ==
    /\ CallersBound(p, callers)
    /\ CapabilityIdsUnique(p)
    /\ MethodsKnown(p)
    /\ AllowlistsKnown(p, wallets)
    /\ ConstraintsExist(p)
    /\ FspBlocksSound(p)
    /\ SelfSubmitSound(p, wallets)
    /\ KeysSegregated(p, wallets)

-----------------------------------------------------------------------------
(***************************************************************************)
(* The decision on an ask.  kind is "call" (a transaction with calldata),  *)
(* "transfer" (empty calldata) or "fsp".                                   *)
(***************************************************************************)
evaluate_native_transfer(p, rule, ask) ==
    /\ ask.chain \in rule.chains
    /\ ask.to \in rule.recipient_allowlist
    /\ ask.value_wei > 0
    /\ ask.value_wei <= rule.max_value_wei
    /\ ask.wallet \in rule.wallet_allowlist
    /\ ask.wallet \in DOMAIN p.wallets

\* Fault: the chain of the request is not compared with the chains of the rule.
evaluate_call_AnyChain(p, perm, ask) ==
    /\ ask.to \in DOMAIN perm.contracts
    /\ LET crule == perm.contracts[ask.to]
       IN  /\ ask.method \in DOMAIN crule.methods
           /\ ask.value_wei <= crule.methods[ask.method].max_value_wei
           /\ crule.methods[ask.method].arg_predicate \in {Unpinned, ask.arg}
    /\ ask.wallet \in perm.wallet_allowlist
    /\ ask.wallet \in DOMAIN p.wallets

\* Steps 2 to 7 under a permissions block, and the wallet binding of step 9.
evaluate_call(p, perm, ask) ==
    /\ ask.to \in DOMAIN perm.contracts
    /\ LET crule == perm.contracts[ask.to]
       IN  /\ ask.chain \in crule.chains
           /\ ask.method \in Signatures[crule.abi]
           /\ ask.method \in DOMAIN crule.methods
           /\ LET mrule == crule.methods[ask.method]
              IN  /\ has_nonscalar_args(ask.method) => mrule.allow_unconstrained_args
                  /\ ask.value_wei <= mrule.max_value_wei
                  /\ mrule.arg_predicate \in {Unpinned, ask.arg}
    /\ ask.wallet \in perm.wallet_allowlist
    /\ ask.wallet \in DOMAIN p.wallets

evaluate_inner(p, caller, ask) ==
    /\ Bound(p, caller)
    /\ LET path == caller.policy_path
       IN  \/ /\ path \in DOMAIN p.native_transfers
              /\ ask.kind = "transfer"
              /\ evaluate_native_transfer(p, p.native_transfers[path], ask)
           \/ /\ path \notin DOMAIN p.native_transfers
              /\ ask.kind = "call"
              /\ path \in DOMAIN p.permissions
              /\ evaluate_call(p, p.permissions[path], ask)

evaluate_fsp(p, caller, ask) ==
    /\ Bound(p, caller)
    /\ caller.policy_path \in DOMAIN p.fsp_permissions \ DOMAIN p.permissions
    /\ LET perm == p.fsp_permissions[caller.policy_path]
       IN  /\ ask.message_type = "UPTIME" => perm.chain_ids # {}
           /\ perm.chain_ids # {} => ask.chain \in perm.chain_ids
           /\ ask.message_type \in perm.message_types
           /\ ask.wallet \in perm.wallet_allowlist

\* sign-transaction and sign-fsp-message are two endpoints.
evaluate(p, caller, ask) ==
    IF ask.kind = "fsp" THEN evaluate_fsp(p, caller, ask)
                        ELSE evaluate_inner(p, caller, ask)
=============================================================================
