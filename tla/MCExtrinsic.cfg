SPECIFICATION ExtrinsicSpec
CONSTANTS
    alice = alice
    bob = bob
    pallet = pallet
    Account <- MCAccount
    PalletAccount = pallet
    NoAccount = NoAccount
    ExistentialDeposit = 2
    Endowment <- MCEndowment
    ItemId <- MCItemId
    NoItem = NoItem
    NoCollection = NoCollection
    MaxProducts = 2
    HoldersMax = 1
    Price <- MCPrice
    Label <- MCLabel
    NoProduct = NoProduct
    None = None
SYMMETRY MCSymmetry
INVARIANTS
    ExtrinsicTypeOK
    EventsTellAllButLabels
PROPERTY ImplementsMarketplace
CHECK_DEADLOCK FALSE
