# Genesis marketplace: TLA+ models and proofs

Genesis is a marketplace for authenticated goods. A manufacturer lists a
product and the chain mints an NFT that is the product's title; buyers pay in
the native currency and get the NFT; the holder may sell it on, or redeem it,
which burns the NFT and starts delivery. The repository holds a Substrate node
with one pallet of its own (`src/ecommerce-node`) and a React store front that
talks to the node through polkadot-js (`src/genesis-marketplace`).

Everything here is translated from that code. The modules are checked by TLC on
small instances and, where it says so, proved with TLAPS for every value of the
constants.

## 1. The system

| Part | State | Operations | What is hard | What makes it correct |
|---|---|---|---|---|
| marketplace pallet (`pallets/marketplace/src/lib.rs`) | `Products`, `RegisteredManufacturers`, `NextProductId`, `AdminAccount` | `list_product`, `buy_product`, `toggle_sale`, `redeem_product`, `register_manufacturer`, `unregister_manufacturer`, `set_admin` | one sale changes three ledgers in three pallets; payment precedes the NFT's transfer, which may fail; events are deposited by hand | records and NFTs agree; money and goods move together or, on an error, not at all; ids and histories are never rewritten; events tell what happened, all but names and metadata |
| runtime (`runtime/src`) | balances, the NFT collection, fees | signed extrinsics; `pallet_uniques` and `pallet_balances` calls beside the marketplace's | NFTs and money move without the marketplace, which is one of two places where an NFT may be for sale | a redeemed product stays gone; a buyer gets record and NFT or pays nothing; nobody loses an NFT without a say |
| node process (`node/src/service.rs`, `command.rs`) | the tasks spawned so far, the database | `new_partial`, `new_full` task by task, end of a task or of the process; `purge-chain`, `revert` | tasks run while the start may still fail; a task ends and the process lives; a command is interrupted | no command, finished or not, leaves heads or voter state that point nowhere |
| chain (what `new_full` joins: pool, import queue, Aura, GRANDPA; `rpc.rs`, `apis.rs`, presets) | per node: blocks, best and final chain, voter state, pool, watched extrinsics; slots | submit, gossip, author, import, vote, finalize | forks, late blocks, rival extrinsics of one nonce, restarts within a slot; executed is not final | finality is one; a slot has one block; what is watched is not forgotten |
| chain client (`polkadotApi.ts`) | the `api` variable, one promise per submission | `connectApi`, `buyProduct`, `toggleSale`, `redeemProduct`, `getProduct` | errors told at InBlock, success at Finalized; sockets that close before the reply, during the subscription, under a query | success is never told of what can still be taken back; finality is told while the subscription lives; a lost query is answered with an error |
| page (`App.tsx` and components) | `account`, `products`, `locker`, `txModal`, `showDeliveryModal` | choose an account, sync, buy, list, unlist, redeem | async handlers and syncs that overlap, with what they captured at the start | what is shown as redeemed is redeemed; the vault never shows what was never bought; one step at a time, with nothing missed, it equals the chain |
| details view (`Home.tsx`, `ProductDetail.tsx`) | the request's state, the product shown | open, close | requests that overlap in one modal | the view is never blank; without overlap the product shown is the one asked for |
| the rest | - | other commands, weights, benchmarks, catalogue, styles | - | - |

How they interact: the page calls the chain client, which submits signed
extrinsics and awaits the node's notifications; the node executes extrinsics
one at a time in the runtime; the marketplace pallet calls `Currency::transfer`
of the balances pallet and `create`, `mint`, `transfer`, `burn` of
`pallet_uniques` within one extrinsic. Other users reach the same runtime
through other clients.

## 2. The modules

```
Accounts --- Balances --+
        \--- Uniques ---+--- Marketplace --+-- Runtime ------ MCRuntime
                                           |-- Extrinsic ---- MCExtrinsic
                                           |        (INSTANCE Marketplace)
                                           |-- MarketplaceRefinement -- MCMarketplace
                                           |        (INSTANCE TitleRegister)
                                           +-- Storefront --- MCStorefront
NodeService -- Chain -- MCChain
TxTracker ---- MCTxTracker
ApiConnection -- Details -- MCDetails
```

The theorems about a module `X` are in `XProofs`. `RuntimeProofs` and
`StorefrontProofs` also extend `MarketplaceProofs`; `ExtrinsicProofs` instantiates
it over the storage below the extrinsic's layer. `DetailsProofs` is about
ApiConnection too, and `ChainProofs` about NodeService.

**Accounts, Balances, Uniques.** The external pallets, as far as the marketplace
uses them. `free` is the free balance of each account; `collection` the details
of the marketplace's collection or `NoCollection`; `nft` its items. `CanX`
operators say when a call returns `Ok`, past participles (`Transferred`,
`Minted`, `Moved`, `Burnt`) what the storage is afterwards. `KeepAlive` and
`AllowDeath` differ as in the SDK; moving nothing, or to oneself, always
succeeds.

**Marketplace.** The four storage items keep their names; `products[id]` is the
`Product` record, with name and metadata as one `label`: no call decides anything by
them, but they are stored, shown by the store front and carried by no event. Each extrinsic
is one action named after it: its guards are the `ensure!`s and fallible calls
in the order of the code. FRAME runs a call in a storage layer that an error
drops, so a call that returns `Err` is a stuttering step. Whether a call would
be accepted has a name (`CanBuy`, `CanToggle`, `CanRedeem`) since properties and
the store front refer to it. `holders_count` saturates at the constant
`HoldersMax`, which stands for `u64::MAX`. Product ids go up to and include
`MaxProducts`, one more than may be issued, so an id past the limit would show.

**TitleRegister** is what the pallet promises, in one word per good instead of
two ledgers: issued once, exchanged only while offered and against its price,
retired by its holder. **MarketplaceRefinement** maps the pallet to it: the holder
is the owner in the NFT ledger until the NFT is burnt, a good is offered when its
record is on sale and there is an NFT to sell. Turning `on_sale` on a redeemed product is a stutter of
the register: offering a retired good means nothing.

**Extrinsic** opens up the one step that a call is in Marketplace. `Begin` opens the
storage layer, that is, it remembers the storage in `below`, and makes the
`ensure!`s of the call (`buy_product_checks` and so on; they write nothing).
Then come, one action each, the calls into other pallets
(`ensure_collection_exists`, `mint`, `pay`, `transfer`, `burn`) and the last part
of each body, which writes the pallet's own storage and deposits its event
(`record_...`). `Ensure(condition, error, rest)` is `ensure!` and the `?` of a
fallible call. `Return` is the end of FRAME's `with_storage_layer`: it keeps the
storage, or puts `below` back. `events` holds what the three pallets deposited, in
order; `ProductTransferred` is declared by the pallet and never deposited, and
`ProductAlreadySold` is declared and never returned. `CollectionCreateFailed` cannot be
returned either, since `create` fails only on the collection that was just found
missing. Everybody else sees `Seen`, the storage below the layer, and there the
call is a single step of Marketplace (`ImplementsMarketplace`).

**Runtime** adds what surrounds the pallet: `PreDispatch` takes the fee, `Dispatch`
applies one call of the marketplace, of `pallet_uniques` on the collection's
items, or of `pallet_balances`, and `DispatchFails` is a call that returns `Err`
(the fee stays paid). `DispatchFails` is possible for every call: a call may fail
for a reason outside the model, such as its weight. `item_price` is the offer that
the holder of an NFT may make in `pallet_uniques` (`set_price`), to one account or
to everybody; `buy_item` pays it and moves the NFT. Any transfer of the NFT ends
the offer, the marketplace's (`MarketplaceCall`) included.

**Storefront** is the page, running against Marketplace. A running handler or sync
is a task in a slot; the slots bound how many clicks and account choices a
session has. Each `await` splits a task: `Click`, `Executed`, then `Succeeds` or
`Fails`; `handleConnectWallet`, `SyncKeys`, `SyncValue` per product, `SyncEnds`.
What one turn of the event loop sets is one step. `SyncFails` is a query that failed:
the sync logs the error and leaves the page as it was. `FailsFalsely` is an error
shown for an extrinsic that a block executes all the same, the outcome in which
TxTracker's forks and closed sockets end for the page. Either leaves the slot `Missed`
(the extrinsic may still be `lost` on its way). `Elsewhere` is everybody who
uses the marketplace through another client. Buttons and modals are guards: a
modal covers the page, a disabled button is not clicked. Here a block is final
as soon as it is executed. The page's products have no labels, since no handler's
decision depends on one; that they are displayed is left out.

**TxTracker** is one submission with forks: the node includes the extrinsic, in a
block where it succeeds or fails, takes it back, finalizes or discards it, and
sends notifications, which wait in `inbox` until `Handle` runs the handler. `reply` is
the node's answer to the request itself: `Submitted` is the node taking the
extrinsic, `Replied` the page hearing of it. A socket that closes in between
(`Disconnected`) ends the request with an error, so `.catch(reject)` rejects what the
node has in its pool; one that closes later ends the subscription silently, as the
pool's finality timeout does.

**ApiConnection** is `connectApi`: `api` keeps its name, `opening` and `created` are the
connections being opened and those that `ApiPromise.create` has resolved with, each
named after the caller that opened it, `up` those whose socket is open, `got` what
each caller was returned. A socket may close (`Lost`) and the library opens it again
(`Reconnected`); `connectApi` returns `api` in either state. The await lets several callers open one
each; the last to finish sets `api`, and each returns `api` as it is by then.

**Details** is the details view on Home, on top of ApiConnection: `handleDetails` and
`onClose` are actions, `loading`, `show` and `selected` the component's state, and
`requests` the running handlers, which closing the modal does not cancel. A query that
is sent over a closed socket or waits when it closes (`SocketCloses`) is rejected by
the library and answered with an error.

**NodeService** is one process per node. `started` counts the tasks of its `Plan` that
are spawned: `new_partial` spawns the pool and the import queue, `new_full` the
network, RPC, Aura (for an authority) and the GRANDPA voter, one step each, since a
task runs as soon as it is spawned. `Stopped` is an error on the way, which drops
the task manager, or a kill; `TaskEnds` is a task that ends alone. When an
essential one did, `EssentialTaskFailed` ends the process, but not before `new_full`
has returned: only then does anybody wait for the task manager.

**Chain** is the chain that these nodes make. A block is what it holds (its slot, a
set of extrinsics) and a chain is the sequence of its blocks, so that a chain is its
own hash. There are no messages: a node reads a peer's blocks, pool or votes in a
step of its own at any later time, which covers delay and loss. `blocks`, `best`,
`final` and `vote` are on disk and survive the process, `pool` and `watched` do not.
The extrinsics of a block are a set, of which some order must have every nonce where
it is due. The parts that belong to the SDK are modelled by what they decide:
authoring is one step on the best block of the moment; `LongestChain` prefers the
longer chain and keeps the first of two; a GRANDPA round is one step, in which a
supermajority whose voter states lie on one chain is bound to the common prefix of
its votes, and a node finalizes a block later, when it sees the votes or a commit
message. A voter that finalizes such a block catches up with the round. `vote` is
what a voter can no longer go back on. The voting rule is the default one of
`GrandpaParams`: some blocks behind the best (`VoteLag`, 2 in the SDK) and within
three quarters of what is not final. `revert` first writes a new voter
state, rooted at the finalized block (`RevertAux`), then takes the blocks off the best chain,
one per transaction of the database (`RevertBlock`), the last of which also drops the
forks that are as high; it may be interrupted at any of them. On the local test net there are two authorities, so
finality needs both; on the development chain one is enough, and alone.

The `MUT_` operators are deliberately faulty forms of the definition after them.
Nothing refers to them: each property is also run with one of them in its
place, and must then fail, so that no property holds for want of looking.

## 3. What is checked

| Run | Instance | Shows |
|---|---|---|
| `pallet` | 3 users, 2 products, price 1, deposit 2, endowment 3 | the safety and action properties of Marketplace; every extrinsic is a step of TitleRegister or none |
| `extrinsic` | 2 users, 2 products, prices 0 and 1 | every extrinsic, failing at any of its parts, is a step of Marketplace or none; its events tell what it did, but for names and metadata |
| `runtime_titles` | 3 users, 1 product, fee 1, NFT calls and offers of everyone | what holds when NFTs move outside the marketplace |
| `runtime_money` | 2 users, 1 product, fee 1, transfers of 1 and 2 | money is never made; what goes is a fee or the signer's dust |
| `storefront` | 2 accounts, 1 product, 3 clicks, 2 syncs, another trader | what the page may be relied on for |
| `storefront_sequential` | 1 account, 2 products, 4 clicks, 1 sync | used one step at a time and with nothing missed, the page equals the chain; success beside the open delivery form is a redemption's |
| `chain` | local test net: 2 authorities, 3 slots, 2 rival extrinsics, 1 fault, any commands | finality, slots, the pool's watchers, heads after commands |
| `tracker` | up to 3 abandoned blocks | which answers are true when, and that finality is told |
| `details` | 2 requests, 2 products, 1 other caller of `connectApi`, closing sockets | one view for overlapping requests, one connection for racing callers |
| `toggle_owned`, `error_then_success`, `stale_vault` | as above | the findings of section 6 |

Why these bounds. *Users*: a seller, a buyer and a third, so that the seller on
record, the holder of the NFT and the buyer can be three accounts; the pallet
account is a fourth, which never signs. *Products*: two let a listing follow a
redemption, which is where an id or an NFT could be reused; with one, the limit
is reached at once. *Labels*: two in `pallet`, where a history could swap them, one
elsewhere. *Money*: a price below the deposit, an endowment that after
one payment is exactly the deposit, and (in `extrinsic`) price 0 reach both sides
of every comparison in `transfer`. `HoldersMax` of 2, or of 1, makes the counter saturate on the
third or second sale. *Chain*: in three slots either authority authors twice
or both fork, and each fork can be longer for a while; the voting rule's lag is 0
there, because with the SDK's 2 a vote would need longer chains before two votes can
differ at all, and a smaller lag only lets votes differ more often. Both extrinsics
have nonce 0 of one account, so each excludes the other. `MaxFaults` of 1 allows one
failed start, kill, or lost task in a run; `revert` and `purge-chain` are not
counted. Users' clients call one of the two nodes. *Storefront*: three clicks are
enough for two handlers and a third that undoes one of them; two syncs for one to
overtake the other; four clicks one by one for buy, list, unlist, redeem. *TxTracker*: three retractions let the
extrinsic fail, succeed and fail again before finality. *Details*: two requests for
two products are what can overlap in one view; with an effect, three callers can
open a connection each, and one can call when the others are done.

Symmetry is over the users and the slots, which the specifications treat alike,
and it is not used with a liveness property. In `storefront` the two accounts
are not symmetric: one is the test account Bob.

Deadlock is not checked. The system may really stop: `set_admin` accepts any
account, the pallet's own included, and then nobody can register
manufacturers; a session runs out of task slots; a submission ends; a chain reaches
its last slot.

### The properties

Marketplace: `RecordAgreesWithNft` (two pallets' storage tell one story),
`IdsInOrder`, `AuthorityChain`, `StuckSalesAreRedeemed` (a product on sale can be
bought by all who can pay unless it is redeemed, and then by nobody: `redeem_product`
leaves `on_sale` as it was and `toggle_sale` may set it again, so such a sale passes
its payment and fails at the NFT's transfer), `ListNeverBlocked`, `HistoryOnlyGrows`,
`ExchangeIsAtomic`. `FirstHolderIsManufacturer` is stated there too and proved.
Runtime: `CollectionStaysSound` (in its own collection `RedeemedIsGone`,
`OffersAreOfNfts` and `ListNeverBlocked`), `BuyerGetsBoth`, `NoLossWithoutConsent`,
`MoneyOnlyBurns`. `RecordAgreesWithNft` and `StuckSalesAreRedeemed` do not hold there: an owner who transfers an NFT through `pallet_uniques` leaves a
record behind that still names the old owner, and its sale then fails, with the
buyer's money kept by the dropped storage layer. Two properties of Runtime
suppose `OurCollection`, that the collection is the one `list_product` creates: if
someone created collection 0 first, `list_product` finds it and its mint fails.
Storefront: `RedeemedIsTrue` (no late answer can falsify it, because the chain
never takes a redemption back), `VaultWasBought`, `PendingHasHandler` (a handler
runs behind each pending modal; it need not end, see TxTracker),
`IdleIsFresh` (in `OneStepAtATime` queries and submissions may fail as anywhere; after a
sync that failed, or an error shown for what was executed, the idle page is *not* fresh,
so the property supposes `NothingMissed`), `FormWithSuccessDelivers` (the delivery form opens before the redemption
is submitted; success beside the open form must not be another click's). Extrinsic:
`ImplementsMarketplace`, `EventsTellAllButLabels` (replaying the events of the three
pallets over the storage before gives the storage after, except for names and
metadata: `ProductListed` carries neither, so a listener has to read each record once),
and in its type invariant
`InnerCallsSucceed` (of the calls into other pallets only a payment can fail, or the
transfer of a redeemed product's NFT).
Chain: `FinalAgree`, `HeadsAreSound`, `OneBlockPerSlot`, `NothingForgotten`; its type invariant also says that every block of every
node executes on its parent and that no pool holds two extrinsics of one nonce.
`NothingForgotten` speaks of a process that lives: the pool is lost with it, and so is
the subscription. TxTracker: `ResolvedIsApplied`, `ErrorIsTrueWithoutLoss`
(an error means that trying again is safe if no fork took the block back and no socket closed
between the node's taking the extrinsic and its reply; both exceptions are real),
`FinalityIsTold`. ApiConnection: `HandedIsCreated` (each caller gets a connection that is set
up, though perhaps one whose socket is closed), `ConnectionSettles`. Details:
`NeverBlank`, `ShowsWhatWasAsked`, `LoadingEnds`. A late answer of a view that was
closed does show in the view that is open now, for another product:
`ShowsWhatWasAsked` therefore speaks of clicks that no running request precedes.

### Fairness

TxTracker has weak fairness of `Replied` and `Handle`: what the node has sent arrives
unless the socket closes (`Disconnected` disables both), and the browser's event loop handles
every message that has arrived. Nothing is assumed there of the node, the
network or the user: `FinalityIsTold` starts from an extrinsic that is final and
still watched. Details has weak fairness of the steps of a request, that is of a
node that answers, by a record or by an error: the library retries a connection
until it is there and rejects what a closing socket cuts off, and `handleDetails` sets no timeout, so without an answer the
view does load for ever. Clicks and effects have none.

An extrinsic that the pool discards (`Discarded`: dropped, invalid or usurped) is not
final, so `FinalityIsTold` says nothing of it, and indeed the handler, which looks at
`dispatchError` and `isFinalized` only, never answers it. Nor does it answer after a closed socket or a finality timeout: the
modal then stays pending.

Chain has no fairness. Nothing is assumed of authors, voters, peers or the
network, so no block, vote or finality is promised: with one of two authorities
down the local test net rightly stands still. No liveness is claimed of the runtime,
where every step is somebody's choice, nor of the page, where a user may walk away.

## 4. What is proved

All proofs are checked by TLAPS; none has an omitted step. They use the
assumptions on constants stated beside the constants, which TLC evaluates in the
runs: `AccountAssumption`, `BalancesAssumption`, `UniquesAssumption`,
`MarketplaceAssumption`, `TitleAssumption`, `NoneAssumption`, `RuntimeAssumption`,
`StorefrontAssumption`, `TrackerAssumption`, `ConnectionAssumption`,
`DetailsAssumption`, `NodeAssumption`, `ChainAssumption`. They type the constants and keep
the values for "none" apart from the others; beyond that, the existential deposit
is positive, product ids are item ids, the presets' authorities are nodes, and
accounts and submitted extrinsics are finitely many (an account identifier has 32 bytes;
only `MoneyIsNeverMade` uses that).

**Marketplace** (`MarketplaceProofs`). The inductive invariant is

    LedgersAgree == TypeOK /\ IdsInOrder /\ RecordAgreesWithNft /\ CollectionIsOurs

No part of it is inductive alone. A listing keeps `RecordAgreesWithNft` only if
the NFT it mints is no older product's, which `IdsInOrder` tells; a sale moves
the NFT of its own product only because item and id correspond, which is part of
`IdsInOrder`; and the transfer succeeds only because the collection is there,
which is `CollectionIsOurs`. From it follow `TypeCorrect`, `RecordsAgree`,
`IdsAreInOrder`, `StuckAreRedeemed`, `ListingsNeverBlock`,
`AuthorityComesFirst`, `FirstHolder`, and the action properties `HistoryGrows` and
`AtomicExchange`, for every set of accounts, limit, deposit and set of prices, as
well as `CollectionStaysOurs`. One consequence: the `AlreadyRedeemed` check of
`redeem_product` never fails in the pallet alone, since by `RecordsAgree` a redeemed
product has no NFT and the owner lookup before it answers `NotOwner`.

**Refinement** (`MarketplaceRefinementProofs`). `MarketplaceImplementsRegister`:
initial states map to initial states, and under `LedgersAgree` each extrinsic maps
to `Issue`, `Exchange`, `Offer`, `Withdraw`, `Retire` or a stutter. The invariant is
needed: without it a redemption by a holder who is not the owner on record
would retire somebody else's title.

**Extrinsic** (`ExtrinsicProofs`). `LayerInv` says, call by call and part by part, how
the layer differs from the storage below it and which checks were passed
(`list_product_layer` and so on), beside the types and `LedgersAgree` of the storage
below. The latter is needed, since a mint or a burn that could fail would leave
through another branch. What is proved of Marketplace is used by instantiating its
proofs for that storage. From it follow `ExtrinsicTypeCorrect` (which includes that
`MintFailed` and `BurnFailed` are never returned), `SeenRecordsAgree` (what others see
is consistent in the middle of an extrinsic, too) and `ExtrinsicImplementsMarketplace`;
with `MarketplaceImplementsRegister` the pallet's own steps then implement the register.
`EventsTell` needs one thing more, `Told`: at each part the events deposited so
far tell what the layer is, labels aside. An extrinsic deposits three events at most, so what the
fold over them computes is settled position by position (`FoldIs`).

**Runtime** (`RuntimeProofs`). With calls of `pallet_uniques` and `pallet_balances` in
between, `LedgersAgree` does not hold, and nothing rests on it. The inductive invariant is

    RuntimeInv == RuntimeTypeOK /\ RecordsInOrder /\ TitlesSound

`RecordsInOrder` is the part that is about the pallet's own storage; it includes that
the owner on record is a user, without which the pallet account, which administers
the collection, could be a seller and move any NFT. `TitlesSound` says that in the
marketplace's own collection NFTs and offers exist for unredeemed products only,
and that there are none before there is a collection, or an old one would be
in the way when it is created. From it follow
`CollectionIsSound`, `BuyersGetBoth` and `NothingTakenUnasked`; from the types alone
`MoneyIsNeverMade`. It is about a sum over all
accounts, which the library computes by recursion on subsets. The induction is done
with sets instead of formulas: were there a subset for which the claim fails, there
would be a smallest one (`SmallestIs`, from the well-foundedness of inclusion on finite
sets), and the recursion takes it to a smaller. So `TotalChanges`: if one
summand changes, the sum changes by as much.

**Storefront** (`StorefrontProofs`). `StorefrontInv` rests on `LedgersAgree` and
`FirstHolderIsManufacturer` of the chain that the page reads, and on `HeldIsTrue`: not
only what is shown is true, but what any running sync or handler holds to show
later, which stays true because the chain only goes on (`ChainGoesOn`: neither a
redemption nor a sale is taken back). Hence `StorefrontTypeCorrect`,
`RedeemedIsShownTruly`, `VaultHoldsTheBought` and `PendingModalHasHandler` for every
interleaving. For a session that takes one step at a time, `SequentialInv` adds
`TurnsTaken`: one task runs, what a sync has read is still the chain as it is, and
the page is fresh or will be with the handler's own update, unless something was missed. Hence `IdlePageIsFresh`
and `FormDelivers`, for any number of clicks and products.

**TxTracker** (`TxTrackerProofs`). `SuccessIsFinal` is `ResolvedIsApplied` for any
number of abandoned blocks and waiting notifications. It is not inductive alone,
since the promise resolves from a notification sent earlier: `NewsIsTrue` adds
that each waiting notification of success is true, which stays so because a
final block is never left. `ErrorIsSafeToRetry` is the same about errors, with
`ErrorsAreTrue`: as long as no block was abandoned and no reply was lost. The finding
`error_then_success` shows that the first condition is needed, and a step of
`Disconnected` with a reply due that the second is.

**Connection and details** (`DetailsProofs`). `RacersGetAConnection`: a caller returns the
shared variable and not the connection that it opened, so it gets one that is created because the
variable only ever holds such a one, and holds one as soon as there is any (`ConnectionInv`).
`OneConnectionRemains` is `ConnectionSettles`, through any losses of the socket, which promises nothing to happen and
so is provable. `ViewIsNeverBlank` and `ViewShowsTheAsked` follow from `ViewInv`: an
answer is shown whoever asked for it, so what makes it the right one is that
without an overlap no other request runs.

**Chain** (`ChainProofs`), for any number of nodes, slots, extrinsics, faults, starts and
commands, and any voting rule. The inductive invariant is

    ChainInv == StorageInv /\ PoolTypes /\ LedgerInv /\ MemoryInv /\ SlotInv

`StorageInv`: a database has the prefixes of what it has, best, final and vote are among
its blocks, in that order, and during a `revert` no process runs, the vote is at the
final block and no more blocks are to go than there are above it. `LedgerInv`: each stored chain uses
each nonce once, in order, and was executed block by block. `MemoryInv`: a pool has no
two rivals and nothing that its best chain has overtaken, without which leaving a
fork could bring a rival back; where no process runs there is no memory.
`SlotInv`: while the author of the slot may still author in it, no node has a block of
that slot, and no block is from the future; a process that starts anew waits for the
next slot. From it follow `ChainTypeCorrect`, `HeadsStaySound`, `OneBlockInASlot` and
`NothingIsForgotten`.

`FinalAgree` is proved under two hypotheses, either of which suffices.
`FinalityAgrees`: as long as *one* authority is neither reverted nor purged
(`[][~Command(q)]_cvars`). The presets have one or two authorities, so each
supermajority includes every authority, and all that anyone holds final is below
the vote of that one. `FinalityOfAuthoritiesAgrees`: when every node is an authority, whatever
commands are given, even to all. There the supermajority consists of all nodes, what is final at
each is below its own vote, and a round continues only from votes on one chain. Without
either, the property fails, and rightly: if all authorities are purged and make a
new chain, a full node that kept its database holds the old one final. The `chain`
run is of the second kind.

Only model-checked: `FinalityIsTold` and `LoadingEnds`, since liveness
under fairness is out of the prover's reach.

## 5. What is not modelled

- Root calls through sudo; calls of `pallet_uniques` that administer a collection
  (freezing, team, metadata, attributes): when the pallet account owns the
  collection no signer may make them.
- Weights and block limits, transaction eras, storage hashing; in the page, the names and
  metadata that it shows.
  Mortality would be one more reason for which an extrinsic is discarded.
- In the chain: clocks that differ, equivocation and byzantine nodes, messages on the
  wire, authority set changes (this runtime has no session pallet), GRANDPA's
  justifications every 512 blocks for nodes that do not vote, the rate of slots. The
  number of runs, forks and faults is bounded by `MaxSlot` and `MaxFaults`.
- Of the node: telemetry, metrics, offchain workers (the runtime has no hook for
  them); `import-blocks`, `export-blocks`, `export-state`, `check-block`, `build-spec`,
  `key` and the benchmark commands.
- Of the runtime APIs: fee queries, metadata, session keys, benchmarks, try-runtime,
  which read or are not called here. Weights are generated; the pallet's mock, tests and
  benchmarks are left over from the template and name calls that do not exist.
- The page's route (leaving Home drops the details view), filters and wallet modal; asking the extension for accounts.

## 6. Findings

| Run | What the source says | What it does |
|---|---|---|
| `toggle_owned` | `lib.rs:308`: "allowing the user to list their owned nft for sell" | a redeemed product, whose NFT is burnt, can be put on sale; a buyer's call fails and the buyer is out of the fee |
| `stale_vault` | `App.tsx:95`: "Update locker for the current account" | of two overlapping syncs the slower wins, with the account it started for |
| `error_then_success` | `App.tsx:186`: "Transaction failed. Please try again." | an error in a block that a fork abandons is final for the page, and the extrinsic may succeed elsewhere |

## 7. Plan

Done: the pallet in one step and in its own steps, its abstract register, the
runtime around it with direct sales of NFTs, the page, its submissions, connection and
details view, the node process and the chain that the nodes make; and proofs of
every invariant and action property that the runs check. Next:

1. Chain composed with Storefront, so that a sync reads a best block that is not final.
2. The safety half of `FinalityIsTold`: which states an untold success can be in, so that
   only fairness is left to TLC.
3. An abstract ledger that Chain implements: one growing sequence of final blocks.
