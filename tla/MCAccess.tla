------------------------------ MODULE MCAccess ------------------------------
(***************************************************************************)
(* A small deployment for TLC: Flare with claim and fsp, Songbird with     *)
(* fsp-voter and fsp-register, one edit by hand.                           *)
(***************************************************************************)
EXTENDS Domains, TLC

CONSTANTS r1, r2, id1, k1, k2, k3, s1

Args(nets, caps, recipient, identity, sender) ==
    [networks |-> nets, capabilities |-> caps, recipient |-> recipient,
     identity |-> identity, fsp_sender |-> sender]

FlareArgs == Args({"flare"}, {"claim", "fsp"}, r1, NotGiven, "per-network")
SongbirdArgs == Args({"songbird"}, {"fsp-voter", "fsp-register"}, NotGiven, id1, "per-network")
\* Refused: Coston2 has no Submission.
CostonArgs == Args({"coston2"}, {"fsp-voter"}, NotGiven, NotGiven, "per-network")

DeploymentArgs == {FlareArgs, SongbirdArgs, CostonArgs}

Fund == Name("fund", "flare")
Seat == Name("seat", "flare")
Claimer == Name("claimer", "flare")
FspPath(stem, net) == Name(<<"fsp", stem>>, net)
FundPath == Name(<<"native", "fund">>, "flare")

Treasury == Name("treasury", "flare")
TreasuryPath == Name(<<"perm", "treasury">>, "flare")

\* Transfers from the claimer's wallet, claims from a wallet of the operator's,
\* and a wallet that signs fast updates.
FundEdit ==
    [callers |-> (Fund :> Binding(FundPath)) @@ (Treasury :> Binding(TreasuryPath)) @@
                 (Seat :> Binding(FspPath("seat", "flare"))),
     wallets |-> Treasury :> ConstraintPath(Treasury),
     permissions |-> TreasuryPath :>
         [contracts |-> ContractAddress("reward_manager", "flare") :>
             [abi |-> "reward_manager", chains |-> {"flare"},
              methods |-> [m \in {"claim", "autoClaim"} |->
                  [max_value_wei |-> 0, allow_unconstrained_args |-> TRUE, arg_predicate |-> r1]]],
          wallet_allowlist |-> {Treasury}],
     wallet_constraints |-> {ConstraintPath(Treasury)},
     fsp_permissions |-> FspPath("seat", "flare") :>
         [message_types |-> {"FAST_UPDATE"}, wallet_allowlist |-> {Seat}, chain_ids |-> {}],
     native_transfers |-> FundPath :>
         [chains |-> {"flare"}, recipient_allowlist |-> {r1}, max_value_wei |-> 1,
          wallet_allowlist |-> {Claimer}],
     fsp_self_submit |-> {}]

HandEdits == {FundEdit}

\* A mint that only the edited policy binds.
HandMints == {[name |-> Fund, policy_path |-> FundPath]}

Provisioned == (Claimer :> k1) @@ (Name("fsp-signing", "flare") :> k2) @@
               (Name("fsp-submit", "songbird") :> k3)
\* The claimer's key under a second name.
Imports == {[name |-> Seat, address |-> k1]}

\* A rotation into a bundle, and a grant with a role outside the convention.
ConsumerSpecs ==
    {[network |-> "flare", roles |-> <<"uptime-vote-sign", "ftso-reward-claim">>,
      configured |-> TRUE, replace |-> TRUE, emit_bundle |-> TRUE],
     [network |-> "songbird", roles |-> <<"governance-vote", "ftso-price-submit">>,
      configured |-> FALSE, replace |-> FALSE, emit_bundle |-> FALSE]}

Call(wallet, net, chain, abi, method, value, arg) ==
    [kind |-> "call", wallet |-> Name(wallet, net), chain |-> chain,
     to |-> ContractAddress(abi, net), method |-> method, value_wei |-> value, arg |-> arg]
Message(wallet, chain, type) ==
    [kind |-> "fsp", wallet |-> wallet, chain |-> chain, message_type |-> type]

DeploymentAsks ==
    {Call("claimer", "flare", "flare", "reward_manager", "claim", 0, r1),
     Call("claimer", "flare", "flare", "reward_manager", "claim", 1, r1),
     Call("claimer", "flare", "flare", "reward_manager", "claim", 0, r2),
     Call("treasury", "flare", "flare", "reward_manager", "claim", 0, r1)} \cup
    {Call("fsp-submit", "songbird", c, "submission", "submit1", 0, Unpinned) :
        c \in {"flare", "songbird"}} \cup
    {Call("fsp-submit", "songbird", "songbird", "entity_manager",
          "confirmSubmitAddressRegistration", 0, id1),
     Call("fsp-signing", "flare", "flare", "flare_systems_manager", "signUptimeVote", 0, Unpinned),
     Message(Name("fsp-signing", "songbird"), "songbird", "FAST_UPDATE")} \cup
    {Message(Name("fsp-signing", "flare"), "flare", t) : t \in {"UPTIME", "REWARD_DISTRIBUTION"}} \cup
    {Message(Name("fsp-signing", "flare"), "songbird", "UPTIME"),
     Message(Seat, "songbird", "FAST_UPDATE"),
     [kind |-> "transfer", wallet |-> Claimer, chain |-> "flare", to |-> r1, value_wei |-> 1]}

OneSession == {s1}

\* The edit satisfies what the theorems ask of edits.
ASSUME EditsAssumption == EditsElsewhere /\ EditsAtHome /\ EditsKeepDomains /\ EditsDisjoint
=============================================================================
