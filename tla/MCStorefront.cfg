SPECIFICATION StorefrontSpec
CONSTANTS
    ann = ann
    bob = bob
    carol = carol
    pallet = pallet
    c1 = c1
    c2 = c2
    c3 = c3
    c4 = c4
    s1 = s1
    s2 = s2
    Account <- MCAccount
    PalletAccount = pallet
    NoAccount = NoAccount
    ExistentialDeposit = 1
    Endowment <- MCEndowment
    ItemId <- MCItemId
    NoItem = NoItem
    NoCollection = NoCollection
    MaxProducts = 1
    HoldersMax = 1
    Price <- MCPrice
    Label <- MCLabel
    NoProduct = NoProduct
    Wallet <- MCWallet
    DevAccount = bob
    Manufacturers <- MCManufacturers
    CallSlot <- MCThreeCalls
    SyncSlot <- MCSyncs
    NoTask = NoTask
    Returned = Returned
    Missed = Missed
SYMMETRY MCSymmetry
INVARIANTS
    StorefrontTypeOK
    RedeemedIsTrue
    VaultWasBought
    PendingHasHandler
CHECK_DEADLOCK FALSE
