----------------------------- MODULE PolicyInit -----------------------------
(***************************************************************************)
(* `clifwd policy init` (app/policy_init.py): the policy generated for a   *)
(* set of networks and capabilities, and its merge into an existing one;   *)
(* and the naming convention by which `clifwd capability grant`            *)
(* (app/capability_grant.py) finds the caller of a role.                   *)
(*                                                                         *)
(* A capability is a table.  A submit row is a caller, its permissions     *)
(* block, the contract and methods it may call and the wallets it may use; *)
(* a sign row a caller, its fsp_permissions block and the message type.    *)
(* Stems of names are strings; Name adds the network.                      *)
(***************************************************************************)
EXTENDS Policy

CONSTANTS
    NotGiven        \* the option is absent

\* The contracts that networks.yaml knows on each network.
NetworkTable ==
    LET both == {"reward_manager", "flare_systems_manager", "entity_manager"}
        mainnet == both \cup {"submission", "fast_updater", "relay", "voter_registry"}
    IN  [flare |-> mainnet, songbird |-> mainnet, coston2 |-> both]

\* The address of a contract: Submission has one address on Flare and Songbird.
ContractAddress(abi, net) ==
    IF abi = "submission" THEN <<abi, "shared">> ELSE <<abi, net>>

Name(stem, net) == <<stem, net>>

\* pinned: the option that a scalar argument is pinned to.
\* open: allow_unconstrained_args.
SubmitRow(stem, path, abi, methods, wallets, pinned, open) ==
    [caller |-> stem, path |-> path, abi |-> abi, methods |-> methods,
     wallets |-> wallets, pinned |-> pinned, open |-> open]

Submit(stem, path, abi, methods, wallets) ==
    SubmitRow(stem, path, abi, methods, wallets, "any", TRUE)

Sign(stem, path, type) == [caller |-> stem, path |-> path, message_type |-> type]

claim_rules ==
    [submit      |-> {SubmitRow("claim", <<"perm", "claim">>, "reward_manager", {"claim"},
                                {"claimer"}, "recipient", TRUE)},
     sign        |-> {},
     wallets     |-> {"claimer"},
     constraints |-> {"claimer"},
     self_submit |-> {},
     requires    |-> {}]

\* Fault: the two SIGN callers are bound to one block.
fsp_rules_OneBlock ==
    LET both == {"fsp-signing", "fsp-sender"}
    IN  [submit |->
           {Submit("uptime-vote-submit", <<"perm", "uptime-submit">>, "flare_systems_manager",
                   {"signUptimeVote"}, both)},
         sign |->
           {Sign("uptime-vote-sign", <<"fsp", "uptime">>, "UPTIME"),
            Sign("reward-distribution-sign", <<"fsp", "uptime">>, "UPTIME")},
         wallets     |-> both,
         constraints |-> both,
         self_submit |-> {"fsp-signing"},
         requires    |-> {}]

fsp_rules ==
    LET both == {"fsp-signing", "fsp-sender"}
    IN  [submit |->
           {Submit("uptime-vote-submit", <<"perm", "uptime-submit">>, "flare_systems_manager",
                   {"signUptimeVote"}, both),
            Submit("reward-distribution-submit", <<"perm", "reward-submit">>, "flare_systems_manager",
                   {"signRewards"}, both)},
         sign |->
           {Sign("uptime-vote-sign", <<"fsp", "uptime">>, "UPTIME"),
            Sign("reward-distribution-sign", <<"fsp", "reward">>, "REWARD_DISTRIBUTION")},
         wallets     |-> both,
         constraints |-> both,
         self_submit |-> {"fsp-signing"},
         requires    |-> {}]

\* The seats of the fast updates: wallets that only send.
fastupdate_submits ==
    {Submit(seat[1], <<"perm", seat[1]>>, "fast_updater", {"submitUpdates"}, {seat[2]}) :
        seat \in {<<"fastupdate-submit-1", "fastupdate-1">>,
                  <<"fastupdate-submit-2", "fastupdate-2">>,
                  <<"fastupdate-submit-3", "fastupdate-3">>}}

voter_submits ==
    {Submit("ftso-price-submit", <<"perm", "ftso-price-submit">>, "submission",
            {"submit1", "submit2", "submit3"}, {"fsp-submit"}),
     Submit("ftso-signature-submit", <<"perm", "ftso-signature-submit">>, "submission",
            {"submitSignatures"}, {"fsp-sig-submit"}),
     Submit("relay-submit", <<"perm", "relay-submit">>, "relay", {"relay"}, {"fsp-signing"}),
     Submit("signing-policy-submit", <<"perm", "signing-policy-submit">>,
            "flare_systems_manager", {"signNewSigningPolicy"}, {"fsp-signing"}),
     Submit("voter-registration-submit", <<"perm", "voter-registration-submit">>,
            "voter_registry", {"registerVoter"}, {"fsp-signing"})}

voter_signs ==
    {Sign("signing-policy-sign", <<"fsp", "signing-policy">>, "SIGNING_POLICY"),
     Sign("voter-registration-sign", <<"fsp", "voter-registration">>, "VOTER_REGISTRATION"),
     Sign("protocol-message-sign", <<"fsp", "protocol-message">>, "PROTOCOL_PAYLOAD"),
     Sign("fastupdate-sign", <<"fsp", "fastupdate-sign">>, "FAST_UPDATE")}

voter_rules ==
    LET wallets == {"fsp-signing", "fastupdate-1", "fastupdate-2", "fastupdate-3",
                    "fsp-submit", "fsp-sig-submit"}
    IN  [submit      |-> fastupdate_submits \cup voter_submits,
         sign        |-> voter_signs,
         wallets     |-> wallets,
         constraints |-> wallets,
         self_submit |-> {"fsp-signing"},
         requires    |-> {"submission", "fast_updater", "relay", "voter_registry"}]

\* Binds the wallets of fsp-voter, and leaves their constraints to it.
register_rules ==
    LET Confirm(stem, path, method, wallet) ==
            SubmitRow(stem, path, "entity_manager", {method}, {wallet}, "identity", FALSE)
    IN  [submit |->
           {Confirm("entity-confirm-submit", <<"perm", "entity-confirm-submit">>,
                    "confirmSubmitAddressRegistration", "fsp-submit"),
            Confirm("entity-confirm-sig-submit", <<"perm", "entity-confirm-sig-submit">>,
                    "confirmSubmitSignaturesAddressRegistration", "fsp-sig-submit"),
            Confirm("entity-confirm-signing", <<"perm", "entity-confirm-signing">>,
                    "confirmSigningPolicyAddressRegistration", "fsp-signing")},
         sign        |-> {},
         wallets     |-> {"fsp-submit", "fsp-sig-submit", "fsp-signing"},
         constraints |-> {},
         self_submit |-> {},
         requires    |-> {"entity_manager"}]

\* The rules that a capability emits on every network.
CapabilityRules ==
    [c \in {"claim", "fsp", "fsp-voter", "fsp-register"} |->
        CASE c = "claim"        -> claim_rules
          [] c = "fsp"          -> fsp_rules
          [] c = "fsp-voter"    -> voter_rules
          [] OTHER              -> register_rules]

-----------------------------------------------------------------------------
(***************************************************************************)
(* generate_policy: args are the options of the command.                   *)
(***************************************************************************)

\* The options that do not raise PolicyInitError.
InitArgsValid(args) ==
    /\ args.networks # {} /\ args.networks \subseteq DOMAIN NetworkTable
    /\ args.capabilities # {} /\ args.capabilities \subseteq DOMAIN CapabilityRules
    /\ "claim" \in args.capabilities => args.recipient # NotGiven
    /\ "fsp-register" \in args.capabilities => args.identity # NotGiven
    /\ args.fsp_sender \in {"per-network", "shared"}
    /\ \A net \in args.networks, c \in args.capabilities :
          CapabilityRules[c].requires \subseteq NetworkTable[net]

\* The sender wallet may be shared by the networks.
WalletName(args, stem, net) ==
    IF stem = "fsp-sender" /\ args.fsp_sender = "shared"
    THEN <<stem, "shared">>
    ELSE Name(stem, net)

\* A function given by its graph.
FunctionOf(pairs) ==
    [k \in {p[1] : p \in pairs} |-> (CHOOSE p \in pairs : p[1] = k)[2]]

ConstraintPath(wallet) == <<"wc", wallet>>

Binding(path) == [policy_path |-> path, capability_id |-> NoCapability]

PermissionBlock(args, row, net) ==
    LET method == [max_value_wei            |-> 0,
                   allow_unconstrained_args |-> row.open,
                   arg_predicate            |-> IF row.pinned = "recipient" THEN args.recipient
                                                ELSE IF row.pinned = "identity" THEN args.identity
                                                ELSE Unpinned]
    IN  [contracts |-> [to \in {ContractAddress(row.abi, net)} |->
                           [abi     |-> row.abi,
                            chains  |-> {net},
                            methods |-> [m \in row.methods |-> method]]],
         wallet_allowlist |-> {WalletName(args, w, net) : w \in row.wallets}]

FspBlock(row, net) ==
    [message_types    |-> {row.message_type},
     wallet_allowlist |-> {Name("fsp-signing", net)},
     chain_ids        |-> {net}]

\* The rows of several capabilities.
SubmitRows(capabilities) == UNION {CapabilityRules[c].submit : c \in capabilities}
SignRows(capabilities) == UNION {CapabilityRules[c].sign : c \in capabilities}

\* The wallets whose stems the capabilities list, on every network.
WalletNames(args, stems) ==
    {WalletName(args, w, net) : w \in UNION {stems[c] : c \in args.capabilities},
                                net \in args.networks}

generate_policy(args) ==
    LET submit == SubmitRows(args.capabilities)
        sign == SignRows(args.capabilities)
        Caps == DOMAIN CapabilityRules
        bound == WalletNames(args, [c \in Caps |-> CapabilityRules[c].wallets])
        constrained == WalletNames(args, [c \in Caps |-> CapabilityRules[c].constraints])
    IN  [callers |-> FunctionOf(
            {<<Name(row.caller, net), Binding(Name(row.path, net))>> :
                row \in submit \cup sign, net \in args.networks}),
         wallets |-> [w \in bound |-> ConstraintPath(w)],
         permissions |-> FunctionOf(
            {<<Name(row.path, net), PermissionBlock(args, row, net)>> :
                row \in submit, net \in args.networks}),
         wallet_constraints |-> {ConstraintPath(w) : w \in constrained},
         fsp_permissions |-> FunctionOf(
            {<<Name(row.path, net), FspBlock(row, net)>> :
                row \in sign, net \in args.networks}),
         native_transfers |-> << >>,
         fsp_self_submit |-> WalletNames(args, [c \in Caps |-> CapabilityRules[c].self_submit])]

\* A section with the rules of another one put over it.
Overlay(base, add) ==
    [k \in DOMAIN base \cup DOMAIN add |-> IF k \in DOMAIN add THEN add[k] ELSE base[k]]

\* Fault: a section that the new rules set replaces the old one.
merge_policies_Sections(base, additions) ==
    [additions EXCEPT
        !.wallet_constraints = base.wallet_constraints \cup additions.wallet_constraints,
        !.native_transfers = base.native_transfers,
        !.fsp_self_submit = base.fsp_self_submit \cup additions.fsp_self_submit]

\* Fault: the constraints of the old rules are dropped.
merge_policies_Constraints(base, additions) ==
    [callers            |-> Overlay(base.callers, additions.callers),
     wallets            |-> Overlay(base.wallets, additions.wallets),
     permissions        |-> Overlay(base.permissions, additions.permissions),
     wallet_constraints |-> additions.wallet_constraints,
     fsp_permissions    |-> Overlay(base.fsp_permissions, additions.fsp_permissions),
     native_transfers   |-> base.native_transfers,
     fsp_self_submit    |-> base.fsp_self_submit \cup additions.fsp_self_submit]

\* In every section the new rules win; native_transfers is not generated.
merge_policies(base, additions) ==
    [callers            |-> Overlay(base.callers, additions.callers),
     wallets            |-> Overlay(base.wallets, additions.wallets),
     permissions        |-> Overlay(base.permissions, additions.permissions),
     wallet_constraints |-> base.wallet_constraints \cup additions.wallet_constraints,
     fsp_permissions    |-> Overlay(base.fsp_permissions, additions.fsp_permissions),
     native_transfers   |-> base.native_transfers,
     fsp_self_submit    |-> base.fsp_self_submit \cup additions.fsp_self_submit]

-----------------------------------------------------------------------------
(***************************************************************************)
(* The convention of capability grants: role to caller and policy path.    *)
(***************************************************************************)

\* A role, the stem of its caller, and the kind and stem of its block.
Role(role, caller, kind, block) == <<role, <<caller, <<kind, block>>>>>>

\* Fault: two roles of the convention have each other's paths.
RoleTable_Swapped ==
    {Role("ftso-reward-claim", "claim", "perm", "claim"),
     Role("uptime-vote-sign", "uptime-vote-sign", "fsp", "reward"),
     Role("reward-distribution-sign", "reward-distribution-sign", "fsp", "uptime"),
     Role("fastupdate-submit-1", "fastupdate-submit-1", "perm", "fastupdate-submit-1"),
     Role("relay-submit", "relay-submit", "perm", "relay-submit")}

RoleTable ==
    {Role("ftso-reward-claim", "claim", "perm", "claim"),
     Role("uptime-vote-sign", "uptime-vote-sign", "fsp", "uptime"),
     Role("reward-distribution-sign", "reward-distribution-sign", "fsp", "reward"),
     Role("uptime-vote-submit", "uptime-vote-submit", "perm", "uptime-submit"),
     Role("reward-distribution-submit", "reward-distribution-submit", "perm", "reward-submit"),
     Role("signing-policy-sign", "signing-policy-sign", "fsp", "signing-policy"),
     Role("voter-registration-sign", "voter-registration-sign", "fsp", "voter-registration"),
     Role("protocol-message-sign", "protocol-message-sign", "fsp", "protocol-message"),
     Role("fastupdate-sign", "fastupdate-sign", "fsp", "fastupdate-sign")} \cup
    {Role(r, r, "perm", r) :
        r \in {"fastupdate-submit-1", "fastupdate-submit-2", "fastupdate-submit-3",
               "ftso-price-submit", "ftso-signature-submit", "relay-submit",
               "signing-policy-submit", "voter-registration-submit",
               "entity-confirm-submit", "entity-confirm-sig-submit",
               "entity-confirm-signing"}}

ROLE_CONVENTION == FunctionOf(RoleTable)
=============================================================================
