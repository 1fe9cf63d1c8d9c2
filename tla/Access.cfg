\* Policy files, callers, requests and grants of a small deployment.
CONSTANTS
    r1 = r1  r2 = r2  id1 = id1  k1 = k1  k2 = k2  k3 = k3  s1 = s1
    Unpinned = Unpinned
    NoCapability = NoCapability
    NotGiven = NotGiven
    NoPolicy = NoPolicy
    NoGrant = NoGrant
    NoBundle = NoBundle
    Idle = Idle
    NoAsk = NoAsk
    InitArgs <- DeploymentArgs
    Edits <- HandEdits
    Mints <- HandMints
    FirstWallets <- Provisioned
    NewWallets <- Imports
    GrantSpecs <- ConsumerSpecs
    Asks <- DeploymentAsks
    Sessions <- OneSession
    MaxKeys = 2
SPECIFICATION DomainSpec
INVARIANT TypeOK
INVARIANT LeastPrivilege
INVARIANT KeyDomainsApart
INVARIANT BundleComplete
INVARIANT MergeIsAdditive
INVARIANT MergeKeepsBootable
PROPERTY RevokedStaysOut
PROPERTY OneHolder
PROPERTY GrantKeepsBootable
