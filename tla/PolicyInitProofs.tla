-------------------------- MODULE PolicyInitProofs --------------------------
(***************************************************************************)
(* Facts about the tables of policy init and of the role convention, and   *)
(* about the policies that generate_policy makes of them, for all options. *)
(***************************************************************************)
EXTENDS PolicyInit, TLAPS

-----------------------------------------------------------------------------
(***************************************************************************)
(* Functions.                                                              *)
(***************************************************************************)

\* A function given by its graph takes a value that the graph has.
LEMMA FunctionOfGraph ==
    ASSUME NEW pairs, NEW k \in DOMAIN FunctionOf(pairs)
    PROVE  \E p \in pairs : p[1] = k /\ FunctionOf(pairs)[k] = p[2]
<1>1. \E p \in pairs : p[1] = k
  BY DEF FunctionOf
<1>2. PICK q : q = CHOOSE p \in pairs : p[1] = k
  OBVIOUS
<1>3. q \in pairs /\ q[1] = k
  BY <1>1, <1>2
<1>4. FunctionOf(pairs)[k] = q[2]
  BY <1>2 DEF FunctionOf
<1> QED
  BY <1>3, <1>4

\* It is defined on all keys of the graph.
LEMMA FunctionOfDomain ==
    ASSUME NEW pairs, NEW p \in pairs
    PROVE  p[1] \in DOMAIN FunctionOf(pairs)
BY DEF FunctionOf

\* What a section with rules put over it has.
LEMMA OverlayIs ==
    ASSUME NEW base, NEW add
    PROVE  /\ DOMAIN Overlay(base, add) = DOMAIN base \cup DOMAIN add
           /\ \A k \in DOMAIN add : Overlay(base, add)[k] = add[k]
           /\ \A k \in DOMAIN base \ DOMAIN add : Overlay(base, add)[k] = base[k]
BY DEF Overlay

-----------------------------------------------------------------------------
(***************************************************************************)
(* The tables.                                                             *)
(***************************************************************************)

Capabilities == DOMAIN CapabilityRules
AllSubmit == SubmitRows(Capabilities)
AllSign == SignRows(Capabilities)

\* The rules of each capability.
LEMMA Rules ==
    /\ Capabilities = {"claim", "fsp", "fsp-voter", "fsp-register"}
    /\ CapabilityRules["claim"] = claim_rules
    /\ CapabilityRules["fsp"] = fsp_rules
    /\ CapabilityRules["fsp-voter"] = voter_rules
    /\ CapabilityRules["fsp-register"] = register_rules
<1>1. Capabilities = {"claim", "fsp", "fsp-voter", "fsp-register"}
  BY DEF Capabilities, CapabilityRules
<1>2. /\ CapabilityRules["claim"] = claim_rules
      /\ CapabilityRules["fsp"] = fsp_rules
      /\ CapabilityRules["fsp-voter"] = voter_rules
      /\ CapabilityRules["fsp-register"] = register_rules
  BY DEF CapabilityRules
<1> QED
  BY <1>1, <1>2

\* All submit rows.
LEMMA SubmitTables ==
    AllSubmit = claim_rules.submit \cup fsp_rules.submit \cup voter_submits
                \cup fastupdate_submits \cup register_rules.submit
<1>1. voter_rules.submit = voter_submits \cup fastupdate_submits
  BY DEF voter_rules
<1> QED
  BY <1>1, Rules DEF AllSubmit, SubmitRows

\* All sign rows.
LEMMA SignTables == AllSign = fsp_rules.sign \cup voter_signs
<1>1. voter_rules.sign = voter_signs /\ claim_rules.sign = {} /\ register_rules.sign = {}
  BY DEF voter_rules, claim_rules, register_rules
<1> QED
  BY <1>1, Rules DEF AllSign, SignRows

\* The caller of every row of the convention is found under its role.
LEMMA ConventionLookup ==
    ASSUME NEW stem, \E p \in RoleTable : p[2][1] = stem
    PROVE  \E role \in DOMAIN ROLE_CONVENTION : ROLE_CONVENTION[role][1] = stem
<1>1. PICK p \in RoleTable : p[2][1] = stem
  OBVIOUS
<1>2. p[1] \in DOMAIN ROLE_CONVENTION
  BY FunctionOfDomain DEF ROLE_CONVENTION
<1>3. PICK q \in RoleTable : q[1] = p[1] /\ ROLE_CONVENTION[p[1]] = q[2]
  BY <1>2, FunctionOfGraph DEF ROLE_CONVENTION
<1>4. \A x, y \in RoleTable : x[1] = y[1] => x[2][1] = y[2][1]
  BY DEF RoleTable, Role
<1> QED
  BY <1>1, <1>2, <1>3, <1>4

\* A row of the convention has its caller.
LEMMA RoleCaller ==
    ASSUME NEW role, NEW stem, NEW kind, NEW block, Role(role, stem, kind, block) \in RoleTable
    PROVE  \E p \in RoleTable : p[2][1] = stem
<1>1. Role(role, stem, kind, block)[2][1] = stem
  BY DEF Role
<1> QED
  BY <1>1

\* Every caller that policy init generates is in the convention.
LEMMA CallersListed ==
    \A row \in AllSubmit \cup AllSign : \E p \in RoleTable : p[2][1] = row.caller
<1>1. ASSUME NEW r \in {"fastupdate-submit-1", "fastupdate-submit-2", "fastupdate-submit-3",
                        "ftso-price-submit", "ftso-signature-submit", "relay-submit",
                        "signing-policy-submit", "voter-registration-submit",
                        "entity-confirm-submit", "entity-confirm-sig-submit",
                        "entity-confirm-signing"}
      PROVE  \E p \in RoleTable : p[2][1] = r
  <2>1. Role(r, r, "perm", r) \in RoleTable
    BY DEF RoleTable
  <2> QED
    BY <2>1, RoleCaller
<1>2. ASSUME NEW r \in {"claim", "uptime-vote-sign", "reward-distribution-sign",
                        "uptime-vote-submit", "reward-distribution-submit",
                        "signing-policy-sign", "voter-registration-sign",
                        "protocol-message-sign", "fastupdate-sign"}
      PROVE  \E p \in RoleTable : p[2][1] = r
  <2>1. /\ Role("ftso-reward-claim", "claim", "perm", "claim") \in RoleTable
        /\ Role("uptime-vote-sign", "uptime-vote-sign", "fsp", "uptime") \in RoleTable
        /\ Role("reward-distribution-sign", "reward-distribution-sign", "fsp", "reward") \in RoleTable
        /\ Role("uptime-vote-submit", "uptime-vote-submit", "perm", "uptime-submit") \in RoleTable
        /\ Role("reward-distribution-submit", "reward-distribution-submit", "perm", "reward-submit")
              \in RoleTable
        /\ Role("signing-policy-sign", "signing-policy-sign", "fsp", "signing-policy") \in RoleTable
        /\ Role("voter-registration-sign", "voter-registration-sign", "fsp", "voter-registration")
              \in RoleTable
        /\ Role("protocol-message-sign", "protocol-message-sign", "fsp", "protocol-message")
              \in RoleTable
        /\ Role("fastupdate-sign", "fastupdate-sign", "fsp", "fastupdate-sign") \in RoleTable
    BY DEF RoleTable
  <2> QED
    BY <2>1, RoleCaller
<1>3. \A row \in AllSubmit :
         row.caller \in {"claim", "uptime-vote-submit", "reward-distribution-submit",
                         "fastupdate-submit-1", "fastupdate-submit-2", "fastupdate-submit-3",
                         "ftso-price-submit", "ftso-signature-submit", "relay-submit",
                         "signing-policy-submit", "voter-registration-submit",
                         "entity-confirm-submit", "entity-confirm-sig-submit",
                         "entity-confirm-signing"}
  BY SubmitTables DEF claim_rules, fsp_rules, voter_submits, fastupdate_submits, register_rules,
                      Submit, SubmitRow
<1>4. \A row \in AllSign :
         row.caller \in {"uptime-vote-sign", "reward-distribution-sign", "signing-policy-sign",
                         "voter-registration-sign", "protocol-message-sign", "fastupdate-sign"}
  BY SignTables DEF fsp_rules, voter_signs, Sign
<1>5. ASSUME NEW row \in AllSubmit PROVE \E p \in RoleTable : p[2][1] = row.caller
  BY <1>1, <1>2, <1>3
<1>6. ASSUME NEW row \in AllSign PROVE \E p \in RoleTable : p[2][1] = row.caller
  BY <1>2, <1>4
<1> QED
  BY <1>5, <1>6

\* A row of the table of policy init and a role have the same caller exactly
\* when they have the same path.
LEMMA RowsAgree ==
    \A row \in AllSubmit \cup AllSign, role \in DOMAIN ROLE_CONVENTION :
        ROLE_CONVENTION[role][1] = row.caller <=> ROLE_CONVENTION[role][2] = row.path
<1>1. \A role \in DOMAIN ROLE_CONVENTION : \E p \in RoleTable : ROLE_CONVENTION[role] = p[2]
  BY FunctionOfGraph DEF ROLE_CONVENTION
<1>2. \A row \in AllSubmit, p \in RoleTable : p[2][1] = row.caller <=> p[2][2] = row.path
  BY SubmitTables
     DEF RoleTable, Role, claim_rules, fsp_rules, voter_submits, fastupdate_submits,
         register_rules, Submit, SubmitRow
<1>3. \A row \in AllSign, p \in RoleTable : p[2][1] = row.caller <=> p[2][2] = row.path
  BY SignTables DEF RoleTable, Role, fsp_rules, voter_signs, Sign
<1> QED
  BY <1>1, <1>2, <1>3

\* Policy init and the convention of the grants agree: every row of one is a
\* role of the other.
LEMMA RowsConventional ==
    \A row \in AllSubmit \cup AllSign : \E role \in DOMAIN ROLE_CONVENTION :
        ROLE_CONVENTION[role][1] = row.caller /\ ROLE_CONVENTION[role][2] = row.path
<1> SUFFICES ASSUME NEW row \in AllSubmit \cup AllSign
             PROVE  \E role \in DOMAIN ROLE_CONVENTION :
                       ROLE_CONVENTION[role][1] = row.caller /\ ROLE_CONVENTION[role][2] = row.path
  OBVIOUS
<1>1. PICK role \in DOMAIN ROLE_CONVENTION : ROLE_CONVENTION[role][1] = row.caller
  BY CallersListed, ConventionLookup
<1> QED
  BY <1>1, RowsAgree

\* Two roles have one caller exactly when they have one path.
LEMMA RolesApart ==
    \A q, r \in DOMAIN ROLE_CONVENTION :
        ROLE_CONVENTION[q][1] = ROLE_CONVENTION[r][1] <=> ROLE_CONVENTION[q][2] = ROLE_CONVENTION[r][2]
<1>1. \A role \in DOMAIN ROLE_CONVENTION : \E p \in RoleTable : ROLE_CONVENTION[role] = p[2]
  BY FunctionOfGraph DEF ROLE_CONVENTION
<1>2. \A p, q \in RoleTable : p[2][1] = q[2][1] <=> p[2][2] = q[2][2]
  BY DEF RoleTable, Role
<1> QED
  BY <1>1, <1>2

\* The paths of permissions and those of fsp_permissions differ.
LEMMA PathKinds ==
    /\ \A row \in AllSubmit : row.path[1] = "perm"
    /\ \A row \in AllSign : row.path[1] = "fsp"
<1>1. \A row \in AllSubmit : row.path[1] = "perm"
  BY SubmitTables DEF claim_rules, fsp_rules, voter_submits, fastupdate_submits, register_rules,
                      Submit, SubmitRow
<1>2. \A row \in AllSign : row.path[1] = "fsp"
  BY SignTables DEF fsp_rules, voter_signs, Sign
<1> QED
  BY <1>1, <1>2

\* Rows of one path have the same wallets, and rows that share a method and a
\* wallet have one path.
LEMMA SubmitRowsApart ==
    \A q, r \in AllSubmit :
        /\ q.path = r.path => q.wallets \subseteq r.wallets
        /\ q.methods \cap r.methods # {} /\ q.wallets \cap r.wallets # {} => q.path = r.path
<1>1. \A q, r \in AllSubmit : q.path = r.path => q.wallets \subseteq r.wallets
  BY SubmitTables DEF claim_rules, fsp_rules, voter_submits, fastupdate_submits, register_rules,
                      Submit, SubmitRow
<1>2. \A q, r \in AllSubmit : \A m \in q.methods \cap r.methods, w \in q.wallets \cap r.wallets :
         q.path = r.path
  BY SubmitTables DEF claim_rules, fsp_rules, voter_submits, fastupdate_submits, register_rules,
                      Submit, SubmitRow
<1> QED
  BY <1>1, <1>2

\* A sign row has a type of its own.
LEMMA SignRowsApart ==
    /\ \A q, r \in AllSign : q.path = r.path <=> q.message_type = r.message_type
    /\ \A row \in AllSign : row.message_type \in MESSAGE_TYPES
<1>1. \A q, r \in AllSign : q.path = r.path <=> q.message_type = r.message_type
  BY SignTables DEF fsp_rules, voter_signs, Sign
<1>2. \A row \in AllSign : row.message_type \in MESSAGE_TYPES
  BY SignTables DEF fsp_rules, voter_signs, Sign, MESSAGE_TYPES
<1> QED
  BY <1>1, <1>2

\* The methods of a submit row are in its ABI, and claims are pinned to the
\* recipient.
LEMMA SubmitMethods ==
    \A row \in AllSubmit :
        /\ row.abi \in abi_names /\ row.methods \subseteq Signatures[row.abi]
        /\ "claim" \in row.methods => row.pinned = "recipient"
<1>1. \A row \in AllSubmit : row.abi \in abi_names /\ row.methods \subseteq Signatures[row.abi]
  BY SubmitTables DEF claim_rules, fsp_rules, voter_submits, fastupdate_submits, register_rules,
                      Submit, SubmitRow, abi_names, Signatures
<1>2. \A row \in AllSubmit : "claim" \in row.methods => row.pinned = "recipient"
  BY SubmitTables DEF claim_rules, fsp_rules, voter_submits, fastupdate_submits, register_rules,
                      Submit, SubmitRow
<1> QED
  BY <1>1, <1>2

\* What the signing wallet may send has one of the bounded shapes.
LEMMA SigningShapes ==
    \A row \in AllSubmit : "fsp-signing" \in row.wallets =>
        /\ row.abi \in DOMAIN FSP_SELF_SUBMIT_SHAPES
        /\ row.methods \subseteq FSP_SELF_SUBMIT_SHAPES[row.abi]
BY SubmitTables DEF claim_rules, fsp_rules, voter_submits, fastupdate_submits, register_rules,
                    Submit, SubmitRow, FSP_SELF_SUBMIT_SHAPES

\* The wallets of a capability: its rows use no others; it opts in the signing
\* wallet if it signs FSP messages, and then also sends from it; all but
\* registration, which signs nothing, constrain the wallets they bind.
CapabilityClosed(c) ==
    LET rules == CapabilityRules[c]
    IN  /\ \A row \in rules.submit : row.wallets \subseteq rules.wallets
        /\ rules.sign # {} => /\ "fsp-signing" \in rules.wallets
                              /\ "fsp-signing" \in rules.self_submit
        /\ rules.self_submit \subseteq {"fsp-signing"}
        /\ rules.self_submit # {} => /\ rules.sign # {}
                                     /\ \E row \in rules.submit : "fsp-signing" \in row.wallets
        /\ c # "fsp-register" => rules.wallets \subseteq rules.constraints
        /\ c \notin {"claim", "fsp-register"} => rules.sign # {}

\* Every capability is closed in this way, and claim does not send from the
\* signing wallet.
LEMMA CapabilitiesClosed ==
    /\ \A c \in Capabilities : CapabilityClosed(c)
    /\ \A row \in claim_rules.submit : "fsp-signing" \notin row.wallets
    /\ register_rules.wallets \subseteq voter_rules.constraints
<1>1. CapabilityClosed("claim") /\ \A row \in claim_rules.submit : "fsp-signing" \notin row.wallets
  BY Rules DEF CapabilityClosed, claim_rules, SubmitRow
<1>2. CapabilityClosed("fsp")
  <2>1. PICK row : row = Submit("uptime-vote-submit", <<"perm", "uptime-submit">>,
                                "flare_systems_manager", {"signUptimeVote"},
                                {"fsp-signing", "fsp-sender"})
    OBVIOUS
  <2>2. row \in fsp_rules.submit
    BY <2>1 DEF fsp_rules
  <2>3. "fsp-signing" \in row.wallets
    BY <2>1 DEF Submit, SubmitRow
  <2>4. Sign("uptime-vote-sign", <<"fsp", "uptime">>, "UPTIME") \in fsp_rules.sign
    BY DEF fsp_rules
  <2>5. /\ \A r \in fsp_rules.submit : r.wallets \subseteq fsp_rules.wallets
        /\ "fsp-signing" \in fsp_rules.wallets
        /\ fsp_rules.self_submit = {"fsp-signing"}
        /\ fsp_rules.wallets \subseteq fsp_rules.constraints
    BY DEF fsp_rules, Submit, SubmitRow
  <2> QED
    BY <2>2, <2>3, <2>4, <2>5, Rules DEF CapabilityClosed
<1>3. CapabilityClosed("fsp-voter")
  <2>1. PICK row : row = Submit("relay-submit", <<"perm", "relay-submit">>, "relay", {"relay"},
                                {"fsp-signing"})
    OBVIOUS
  <2>2. row \in voter_rules.submit
    BY <2>1 DEF voter_rules, voter_submits
  <2>3. "fsp-signing" \in row.wallets
    BY <2>1 DEF Submit, SubmitRow
  <2>4. Sign("signing-policy-sign", <<"fsp", "signing-policy">>, "SIGNING_POLICY") \in voter_rules.sign
    BY DEF voter_rules, voter_signs
  <2>5. /\ \A r \in voter_rules.submit : r.wallets \subseteq voter_rules.wallets
        /\ "fsp-signing" \in voter_rules.wallets
        /\ voter_rules.self_submit = {"fsp-signing"}
        /\ voter_rules.wallets \subseteq voter_rules.constraints
    BY DEF voter_rules, voter_submits, fastupdate_submits, Submit, SubmitRow
  <2> QED
    BY <2>2, <2>3, <2>4, <2>5, Rules DEF CapabilityClosed
<1>4. CapabilityClosed("fsp-register") /\ register_rules.wallets \subseteq voter_rules.constraints
  <2>1. /\ \A row \in register_rules.submit : row.wallets \subseteq register_rules.wallets
        /\ register_rules.sign = {} /\ register_rules.self_submit = {}
    BY DEF register_rules, SubmitRow
  <2>2. register_rules.wallets \subseteq voter_rules.constraints
    BY DEF register_rules, voter_rules
  <2> QED
    BY <2>1, <2>2, Rules DEF CapabilityClosed
<1> QED
  BY <1>1, <1>2, <1>3, <1>4, Rules

-----------------------------------------------------------------------------
(***************************************************************************)
(* The policies that generate_policy makes.                                *)
(***************************************************************************)

\* The rows of several capabilities, of both kinds.
BothRows(capabilities) == SubmitRows(capabilities) \cup SignRows(capabilities)

\* The callers that are generated: one for each row and network.
LEMMA GeneratedCallers ==
    ASSUME NEW args, NEW rows, rows = BothRows(args.capabilities)
    PROVE  LET section == generate_policy(args).callers
           IN  /\ \A row \in rows, net \in args.networks : Name(row.caller, net) \in DOMAIN section
               /\ \A k \in DOMAIN section : \E row \in rows, net \in args.networks :
                     k = Name(row.caller, net) /\ section[k] = Binding(Name(row.path, net))
<1> DEFINE graph == {<<Name(row.caller, net), Binding(Name(row.path, net))>> :
                        row \in rows, net \in args.networks}
<1> HIDE DEF graph
<1>1. generate_policy(args).callers = FunctionOf(graph)
  BY DEF generate_policy, graph, BothRows
<1>2. ASSUME NEW row \in rows, NEW net \in args.networks
      PROVE  Name(row.caller, net) \in DOMAIN FunctionOf(graph)
  <2>1. <<Name(row.caller, net), Binding(Name(row.path, net))>> \in graph
    BY DEF graph
  <2>2. <<Name(row.caller, net), Binding(Name(row.path, net))>>[1] = Name(row.caller, net)
    OBVIOUS
  <2> QED
    BY <2>1, <2>2, FunctionOfDomain
<1>3. ASSUME NEW k \in DOMAIN FunctionOf(graph)
      PROVE  \E row \in rows, net \in args.networks :
                k = Name(row.caller, net) /\ FunctionOf(graph)[k] = Binding(Name(row.path, net))
  <2>1. PICK pair \in graph : pair[1] = k /\ FunctionOf(graph)[k] = pair[2]
    BY FunctionOfGraph
  <2>2. PICK row \in rows, net \in args.networks :
           pair = <<Name(row.caller, net), Binding(Name(row.path, net))>>
    BY <2>1 DEF graph
  <2>3. pair[1] = Name(row.caller, net) /\ pair[2] = Binding(Name(row.path, net))
    BY <2>2
  <2> QED
    BY <2>1, <2>3
<1> QED
  BY <1>1, <1>2, <1>3

\* The permissions blocks: one for each submit row and network.
LEMMA GeneratedPermissions ==
    ASSUME NEW args, NEW rows, rows = SubmitRows(args.capabilities)
    PROVE  LET section == generate_policy(args).permissions
           IN  /\ \A row \in rows, net \in args.networks : Name(row.path, net) \in DOMAIN section
               /\ \A k \in DOMAIN section : \E row \in rows, net \in args.networks :
                     k = Name(row.path, net) /\ section[k] = PermissionBlock(args, row, net)
<1> DEFINE graph == {<<Name(row.path, net), PermissionBlock(args, row, net)>> :
                        row \in rows, net \in args.networks}
<1> HIDE DEF graph
<1>1. generate_policy(args).permissions = FunctionOf(graph)
  BY DEF generate_policy, graph
<1>2. ASSUME NEW row \in rows, NEW net \in args.networks
      PROVE  Name(row.path, net) \in DOMAIN FunctionOf(graph)
  <2>1. <<Name(row.path, net), PermissionBlock(args, row, net)>> \in graph
    BY DEF graph
  <2>2. <<Name(row.path, net), PermissionBlock(args, row, net)>>[1] = Name(row.path, net)
    OBVIOUS
  <2> QED
    BY <2>1, <2>2, FunctionOfDomain
<1>3. ASSUME NEW k \in DOMAIN FunctionOf(graph)
      PROVE  \E row \in rows, net \in args.networks :
                k = Name(row.path, net) /\ FunctionOf(graph)[k] = PermissionBlock(args, row, net)
  <2>1. PICK pair \in graph : pair[1] = k /\ FunctionOf(graph)[k] = pair[2]
    BY FunctionOfGraph
  <2>2. PICK row \in rows, net \in args.networks :
           pair = <<Name(row.path, net), PermissionBlock(args, row, net)>>
    BY <2>1 DEF graph
  <2>3. pair[1] = Name(row.path, net) /\ pair[2] = PermissionBlock(args, row, net)
    BY <2>2
  <2> QED
    BY <2>1, <2>3
<1> QED
  BY <1>1, <1>2, <1>3

\* The fsp_permissions blocks: one for each sign row and network.
LEMMA GeneratedFsp ==
    ASSUME NEW args, NEW rows, rows = SignRows(args.capabilities)
    PROVE  LET section == generate_policy(args).fsp_permissions
           IN  /\ \A row \in rows, net \in args.networks : Name(row.path, net) \in DOMAIN section
               /\ \A k \in DOMAIN section : \E row \in rows, net \in args.networks :
                     k = Name(row.path, net) /\ section[k] = FspBlock(row, net)
<1> DEFINE graph == {<<Name(row.path, net), FspBlock(row, net)>> :
                        row \in rows, net \in args.networks}
<1> HIDE DEF graph
<1>1. generate_policy(args).fsp_permissions = FunctionOf(graph)
  BY DEF generate_policy, graph
<1>2. ASSUME NEW row \in rows, NEW net \in args.networks
      PROVE  Name(row.path, net) \in DOMAIN FunctionOf(graph)
  <2>1. <<Name(row.path, net), FspBlock(row, net)>> \in graph
    BY DEF graph
  <2>2. <<Name(row.path, net), FspBlock(row, net)>>[1] = Name(row.path, net)
    OBVIOUS
  <2> QED
    BY <2>1, <2>2, FunctionOfDomain
<1>3. ASSUME NEW k \in DOMAIN FunctionOf(graph)
      PROVE  \E row \in rows, net \in args.networks :
                k = Name(row.path, net) /\ FunctionOf(graph)[k] = FspBlock(row, net)
  <2>1. PICK pair \in graph : pair[1] = k /\ FunctionOf(graph)[k] = pair[2]
    BY FunctionOfGraph
  <2>2. PICK row \in rows, net \in args.networks :
           pair = <<Name(row.path, net), FspBlock(row, net)>>
    BY <2>1 DEF graph
  <2>3. pair[1] = Name(row.path, net) /\ pair[2] = FspBlock(row, net)
    BY <2>2
  <2> QED
    BY <2>1, <2>3
<1> QED
  BY <1>1, <1>2, <1>3

\* The other sections.
LEMMA GeneratedRest ==
    ASSUME NEW args
    PROVE  LET g == generate_policy(args)
               Caps == DOMAIN CapabilityRules
           IN  /\ g.wallets = [w \in WalletNames(args, [c \in Caps |-> CapabilityRules[c].wallets])
                                 |-> ConstraintPath(w)]
               /\ g.wallet_constraints =
                     {ConstraintPath(w) : w \in
                         WalletNames(args, [c \in Caps |-> CapabilityRules[c].constraints])}
               /\ g.native_transfers = << >>
               /\ g.fsp_self_submit =
                     WalletNames(args, [c \in Caps |-> CapabilityRules[c].self_submit])
BY DEF generate_policy

\* The name of a wallet tells its stem, and its network unless it is shared.
LEMMA WalletNameIs ==
    ASSUME NEW args, NEW stem, NEW net
    PROVE  /\ WalletName(args, stem, net)[1] = stem
           /\ WalletName(args, stem, net)[2] \in {net, "shared"}
           /\ stem # "fsp-sender" => WalletName(args, stem, net) = Name(stem, net)
BY DEF WalletName, Name

\* A submit row is bound to one contract on one chain, and sends no value.
LEMMA PermissionBlockIs ==
    ASSUME NEW args, NEW row, NEW net, NEW b, b = PermissionBlock(args, row, net)
    PROVE  /\ DOMAIN b.contracts = {ContractAddress(row.abi, net)}
           /\ \A to \in DOMAIN b.contracts :
                 /\ b.contracts[to].abi = row.abi
                 /\ b.contracts[to].chains = {net}
                 /\ DOMAIN b.contracts[to].methods = row.methods
                 /\ \A m \in row.methods :
                       /\ b.contracts[to].methods[m].max_value_wei = 0
                       /\ row.pinned = "recipient" =>
                             b.contracts[to].methods[m].arg_predicate = args.recipient
           /\ b.wallet_allowlist = {WalletName(args, w, net) : w \in row.wallets}
BY DEF PermissionBlock

\* A sign row is bound to one type, one wallet and one chain.
LEMMA FspBlockIs ==
    ASSUME NEW row, NEW net, NEW b, b = FspBlock(row, net)
    PROVE  /\ b.message_types = {row.message_type}
           /\ b.wallet_allowlist = {Name("fsp-signing", net)}
           /\ b.chain_ids = {net}
BY DEF FspBlock

\* The rows of the options are rows of the tables.
LEMMA RowsOfCapability ==
    ASSUME NEW args, InitArgsValid(args)
    PROVE  /\ args.capabilities \subseteq Capabilities
           /\ SubmitRows(args.capabilities) \subseteq AllSubmit
           /\ SignRows(args.capabilities) \subseteq AllSign
           /\ \A row \in SubmitRows(args.capabilities) : \E c \in args.capabilities :
                 row \in CapabilityRules[c].submit
           /\ \A row \in SignRows(args.capabilities) : \E c \in args.capabilities :
                 row \in CapabilityRules[c].sign
BY DEF InitArgsValid, Capabilities, AllSubmit, AllSign, SubmitRows, SignRows

\* The wallets that the capabilities list.
LEMMA WalletNamesIs ==
    ASSUME NEW args, NEW stems
    PROVE  /\ \A c \in args.capabilities, net \in args.networks : \A stem \in stems[c] :
                 WalletName(args, stem, net) \in WalletNames(args, stems)
           /\ \A w \in WalletNames(args, stems) :
                 \E c \in args.capabilities, net \in args.networks : \E stem \in stems[c] :
                    w = WalletName(args, stem, net)
BY DEF WalletNames

\* The wallets section: every wallet that a generated block allows is there.
LEMMA GeneratedWallets ==
    ASSUME NEW args, InitArgsValid(args), NEW g, g = generate_policy(args)
    PROVE  /\ \A w \in DOMAIN g.wallets :
                 g.wallets[w] = ConstraintPath(w) /\ w[2] \in args.networks \cup {"shared"}
           /\ \A row \in SubmitRows(args.capabilities), net \in args.networks :
                 \A stem \in row.wallets : WalletName(args, stem, net) \in DOMAIN g.wallets
           /\ \A row \in SignRows(args.capabilities), net \in args.networks :
                 Name("fsp-signing", net) \in DOMAIN g.wallets
<1> DEFINE stems == [c \in Capabilities |-> CapabilityRules[c].wallets]
<1>1. g.wallets = [w \in WalletNames(args, stems) |-> ConstraintPath(w)]
  BY GeneratedRest DEF Capabilities
<1>2. \A c \in args.capabilities : stems[c] = CapabilityRules[c].wallets
  BY RowsOfCapability
<1> HIDE DEF stems
<1>3. ASSUME NEW w \in DOMAIN g.wallets
      PROVE  g.wallets[w] = ConstraintPath(w) /\ w[2] \in args.networks \cup {"shared"}
  <2>1. w \in WalletNames(args, stems)
    BY <1>1
  <2>2. PICK net, stem : net \in args.networks /\ w = WalletName(args, stem, net)
    BY <2>1, WalletNamesIs
  <2> QED
    BY <1>1, <2>2, WalletNameIs
<1>4. ASSUME NEW row \in SubmitRows(args.capabilities), NEW net \in args.networks,
             NEW stem \in row.wallets
      PROVE  WalletName(args, stem, net) \in DOMAIN g.wallets
  <2>1. PICK c \in args.capabilities : row \in CapabilityRules[c].submit
    BY RowsOfCapability
  <2>2. stem \in stems[c]
    BY <1>2, <2>1, CapabilitiesClosed, RowsOfCapability DEF CapabilityClosed
  <2> QED
    BY <1>1, <2>2, WalletNamesIs
<1>5. ASSUME NEW row \in SignRows(args.capabilities), NEW net \in args.networks
      PROVE  Name("fsp-signing", net) \in DOMAIN g.wallets
  <2>1. PICK c \in args.capabilities : row \in CapabilityRules[c].sign
    BY RowsOfCapability
  <2>2. "fsp-signing" \in stems[c]
    BY <1>2, <2>1, CapabilitiesClosed, RowsOfCapability DEF CapabilityClosed
  <2>3. WalletName(args, "fsp-signing", net) = Name("fsp-signing", net)
    BY WalletNameIs
  <2> QED
    BY <1>1, <2>2, <2>3, WalletNamesIs
<1> QED
  BY <1>3, <1>4, <1>5

\* fsp_self_submit: the signing wallet on every network, when there are FSP
\* messages to sign, and it is used in both ways.
LEMMA GeneratedSelfSubmit ==
    ASSUME NEW args, InitArgsValid(args), NEW g, g = generate_policy(args)
    PROVE  /\ \A row \in SignRows(args.capabilities), net \in args.networks :
                 Name("fsp-signing", net) \in g.fsp_self_submit
           /\ \A w \in g.fsp_self_submit :
                 /\ \E net \in args.networks : w = Name("fsp-signing", net)
                 /\ SignRows(args.capabilities) # {}
                 /\ \E row \in SubmitRows(args.capabilities) : "fsp-signing" \in row.wallets
<1> DEFINE stems == [c \in Capabilities |-> CapabilityRules[c].self_submit]
<1>1. g.fsp_self_submit = WalletNames(args, stems)
  BY GeneratedRest DEF Capabilities
<1>2. \A c \in args.capabilities : stems[c] = CapabilityRules[c].self_submit
  BY RowsOfCapability
<1>3. \A net : WalletName(args, "fsp-signing", net) = Name("fsp-signing", net)
  BY WalletNameIs
<1> HIDE DEF stems
<1>4. ASSUME NEW row \in SignRows(args.capabilities), NEW net \in args.networks
      PROVE  Name("fsp-signing", net) \in g.fsp_self_submit
  <2>1. PICK c \in args.capabilities : row \in CapabilityRules[c].sign
    BY RowsOfCapability
  <2>2. "fsp-signing" \in stems[c]
    BY <1>2, <2>1, CapabilitiesClosed, RowsOfCapability DEF CapabilityClosed
  <2> QED
    BY <1>1, <1>3, <2>2, WalletNamesIs
<1>5. ASSUME NEW w \in g.fsp_self_submit
      PROVE  /\ \E net \in args.networks : w = Name("fsp-signing", net)
             /\ SignRows(args.capabilities) # {}
             /\ \E row \in SubmitRows(args.capabilities) : "fsp-signing" \in row.wallets
  <2>1. PICK c \in args.capabilities, net \in args.networks : \E stem \in stems[c] :
           w = WalletName(args, stem, net)
    BY <1>1, WalletNamesIs
  <2>2. PICK stem \in stems[c] : w = WalletName(args, stem, net)
    BY <2>1
  <2>3. stem \in CapabilityRules[c].self_submit /\ CapabilityClosed(c)
    BY <1>2, <2>2, CapabilitiesClosed, RowsOfCapability
  <2>4. /\ stem = "fsp-signing"
        /\ CapabilityRules[c].sign # {}
        /\ \E row \in CapabilityRules[c].submit : "fsp-signing" \in row.wallets
    BY <2>3 DEF CapabilityClosed
  <2>5. w = Name("fsp-signing", net)
    BY <1>3, <2>2, <2>4
  <2> QED
    BY <2>4, <2>5 DEF SubmitRows, SignRows
<1> QED
  BY <1>4, <1>5

\* Where registration comes with the voter, every wallet that is generated has
\* its constraints, and the signing wallet sends only where it also signs.
LEMMA GeneratedComplete ==
    ASSUME NEW args, InitArgsValid(args), NEW g, g = generate_policy(args),
           "fsp-register" \in args.capabilities => "fsp-voter" \in args.capabilities
    PROVE  /\ \A w \in DOMAIN g.wallets : g.wallets[w] \in g.wallet_constraints
           /\ (\E row \in SubmitRows(args.capabilities) : "fsp-signing" \in row.wallets)
              => SignRows(args.capabilities) # {}
<1> DEFINE bound == [c \in Capabilities |-> CapabilityRules[c].wallets]
           constrained == [c \in Capabilities |-> CapabilityRules[c].constraints]
<1>1. /\ g.wallets = [w \in WalletNames(args, bound) |-> ConstraintPath(w)]
      /\ g.wallet_constraints = {ConstraintPath(w) : w \in WalletNames(args, constrained)}
  BY GeneratedRest DEF Capabilities
<1>2. \A c \in args.capabilities : /\ bound[c] = CapabilityRules[c].wallets
                                   /\ constrained[c] = CapabilityRules[c].constraints
  BY RowsOfCapability
<1> HIDE DEF bound, constrained
<1>3. ASSUME NEW w \in DOMAIN g.wallets PROVE g.wallets[w] \in g.wallet_constraints
  <2>1. PICK c \in args.capabilities, net \in args.networks : \E stem \in bound[c] :
           w = WalletName(args, stem, net)
    BY <1>1, WalletNamesIs
  <2>2. PICK stem \in bound[c] : w = WalletName(args, stem, net)
    BY <2>1
  <2>3. CASE c # "fsp-register"
    <3>1. stem \in constrained[c]
      BY <1>2, <2>2, <2>3, CapabilitiesClosed, RowsOfCapability DEF CapabilityClosed
    <3> QED
      BY <1>1, <2>2, <3>1, WalletNamesIs
  <2>4. CASE c = "fsp-register"
    <3>1. stem \in constrained["fsp-voter"] /\ "fsp-voter" \in args.capabilities
      BY <1>2, <2>2, <2>4, CapabilitiesClosed, Rules
    <3> QED
      BY <1>1, <2>2, <3>1, WalletNamesIs
  <2> QED
    BY <2>3, <2>4
<1>4. ASSUME NEW row \in SubmitRows(args.capabilities), "fsp-signing" \in row.wallets
      PROVE  SignRows(args.capabilities) # {}
  <2>1. PICK c \in args.capabilities : row \in CapabilityRules[c].submit
    BY RowsOfCapability
  <2>2. c # "claim"
    BY <1>4, <2>1, CapabilitiesClosed, Rules
  <2>3. PICK d \in args.capabilities : d \notin {"claim", "fsp-register"}
    BY <2>2
  <2>4. CapabilityRules[d].sign # {}
    BY <2>3, CapabilitiesClosed, RowsOfCapability DEF CapabilityClosed
  <2> QED
    BY <2>4 DEF SignRows
<1> QED
  BY <1>3, <1>4

-----------------------------------------------------------------------------
(***************************************************************************)
(* Merges.                                                                 *)
(***************************************************************************)

\* f has the entries of add, and those of base at other keys.
Over(f, base, add) ==
    /\ DOMAIN f = DOMAIN base \cup DOMAIN add
    /\ \A k \in DOMAIN add : f[k] = add[k]
    /\ \A k \in DOMAIN base \ DOMAIN add : f[k] = base[k]

\* q is the policy p with the rules of s put over it.
MergedFrom(q, p, s) ==
    /\ Over(q.callers, p.callers, s.callers)
    /\ Over(q.wallets, p.wallets, s.wallets)
    /\ Over(q.permissions, p.permissions, s.permissions)
    /\ Over(q.fsp_permissions, p.fsp_permissions, s.fsp_permissions)
    /\ Over(q.native_transfers, p.native_transfers, s.native_transfers)
    /\ q.wallet_constraints = p.wallet_constraints \cup s.wallet_constraints
    /\ q.fsp_self_submit = p.fsp_self_submit \cup s.fsp_self_submit

\* A generated policy merged into another one.
LEMMA MergeIs ==
    ASSUME NEW p, NEW args, NEW g, g = generate_policy(args)
    PROVE  /\ MergedFrom(merge_policies(p, g), p, g)
           /\ merge_policies(p, g).native_transfers = p.native_transfers
<1>1. g.native_transfers = << >>
  BY GeneratedRest
<1>2. DOMAIN g.native_transfers = {}
  BY <1>1
<1>3. merge_policies(p, g).native_transfers = p.native_transfers
  BY DEF merge_policies
<1>4. Over(merge_policies(p, g).native_transfers, p.native_transfers, g.native_transfers)
  BY <1>2, <1>3 DEF Over
<1>5. \A base, add : Over(Overlay(base, add), base, add)
  BY OverlayIs DEF Over
<1>6. LET q == merge_policies(p, g)
      IN  /\ q.callers = Overlay(p.callers, g.callers)
          /\ q.wallets = Overlay(p.wallets, g.wallets)
          /\ q.permissions = Overlay(p.permissions, g.permissions)
          /\ q.fsp_permissions = Overlay(p.fsp_permissions, g.fsp_permissions)
          /\ q.wallet_constraints = p.wallet_constraints \cup g.wallet_constraints
          /\ q.fsp_self_submit = p.fsp_self_submit \cup g.fsp_self_submit
  BY DEF merge_policies
<1> QED
  BY <1>3, <1>4, <1>5, <1>6 DEF MergedFrom

=============================================================================
