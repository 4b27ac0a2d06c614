SPECIFICATION RuntimeSpec
CONSTANTS
    alice = alice
    bob = bob
    carol = carol
    pallet = pallet
    Account <- MCTwo
    PalletAccount = pallet
    NoAccount = NoAccount
    ExistentialDeposit = 2
    Endowment <- MCRich
    ItemId <- MCItemId
    NoItem = NoItem
    NoCollection = NoCollection
    MaxProducts = 1
    HoldersMax = 1
    Price <- MCPrice
    Label <- MCLabel
    NoProduct = NoProduct
    Fee = 1
    Transfer <- MCTransfer
    ItemPrice <- MCItemPrice
    NoPrice = NoPrice
SYMMETRY MCSymmetryOfTwo
PROPERTY MoneyOnlyBurns
CHECK_DEADLOCK FALSE
