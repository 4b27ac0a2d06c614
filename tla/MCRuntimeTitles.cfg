SPECIFICATION RuntimeSpec
CONSTANTS
    alice = alice
    bob = bob
    carol = carol
    pallet = pallet
    Account <- MCThree
    PalletAccount = pallet
    NoAccount = NoAccount
    ExistentialDeposit = 2
    Endowment <- MCEndowment
    ItemId <- MCItemId
    NoItem = NoItem
    NoCollection = NoCollection
    MaxProducts = 1
    HoldersMax = 1
    Price <- MCPrice
    Label <- MCLabel
    NoProduct = NoProduct
    Fee = 1
    Transfer <- MCNoTransfer
    ItemPrice <- MCItemPrice
    NoPrice = NoPrice
SYMMETRY MCSymmetry
INVARIANTS
    RuntimeTypeOK
    CollectionStaysSound
PROPERTIES
    BuyerGetsBoth
    NoLossWithoutConsent
CHECK_DEADLOCK FALSE
