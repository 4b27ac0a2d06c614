SPECIFICATION Spec
CONSTANTS
    alice = alice
    bob = bob
    carol = carol
    pallet = pallet
    bag = bag
    watch = watch
    Account <- MCAccount
    PalletAccount = pallet
    NoAccount = NoAccount
    ExistentialDeposit = 2
    Endowment <- MCEndowment
    ItemId <- MCItemId
    NoItem = NoItem
    NoCollection = NoCollection
    MaxProducts = 2
    HoldersMax = 2
    Price <- MCPrice
    Label <- MCLabel
    NoProduct = NoProduct
    Unissued = Unissued
    Retired = Retired
SYMMETRY MCSymmetry
INVARIANTS
    TypeOK
    RecordAgreesWithNft
    IdsInOrder
    AuthorityChain
    StuckSalesAreRedeemed
    ListNeverBlocked
PROPERTIES
    HistoryOnlyGrows
    ExchangeIsAtomic
    ImplementsRegister
CHECK_DEADLOCK FALSE
