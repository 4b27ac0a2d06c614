SPECIFICATION ChainSpecification
CONSTANTS
    alice = alice
    bob = bob
    Node <- MCNode
    Authority <- MCNode
    EnableGrandpa <- MCNode
    Alice = alice
    Bob = bob
    ChainSpec = "local_testnet"
    ForceAuthoring = FALSE
    VoteLag = 0
    Endpoint = {alice}
    Tx <- MCTx
    MaxSlot = 3
    MaxFaults = 1
INVARIANTS
    ChainTypeOK
    FinalAgree
    HeadsAreSound
    OneBlockPerSlot
    NothingForgotten
CHECK_DEADLOCK FALSE
