# 1F3EA market: TLA+ models and proofs

The market ("1f3ea") is a TypeScript service: HTTP handlers that run as
separate serverless functions over one PostgreSQL database. Money moves on Base
(USDC) and never through the market: a buyer pays a seller directly, or a fee
to the market, and the market decides when a payment is good enough to unlock
something. These modules model the parts of it where a wrong interleaving, a
lost answer, a dying function or a retry would cost somebody money or access.
Everything is translated from the code; line numbers are those of `src/`.

1. [The system](#1-the-system)
2. [The modules](#2-the-modules)
3. [What the runs show](#3-what-the-runs-show)
4. [What is proved](#4-what-is-proved)
5. [Where the code and its documents disagree](#5-where-the-code-and-its-documents-disagree)
6. [What is not modelled](#6-what-is-not-modelled)
7. [What is left](#7-what-is-left)

## 1. The system

### 1.1 Parts

| part | state it keeps | operations | what makes it correct |
|---|---|---|---|
| **x402 custody** `src/pay.ts`, `src/x402-payment-attempts.ts`, `src/x402-facilitator.ts` | `x402_payment_attempts`: one row per paid operation (proof digest, authorization, terms, status, tx, finality facts) | look for a saved payment, bind a proof, `/verify`, `/settle`, record the transaction, hold for review, record finality | money is asked for once; goods unlock only on a finalized transfer of the bound authorization; every started payment gets decided; a stored row keeps its history |
| **the ledger** `payment_uses` (`db/schema.sql`) | the owner of every transaction hash | claimed by the triggers of each payment channel | one transaction pays for one action, whatever channel |
| **Base verification** `src/chain.ts` | none; reads receipts, logs and the finalized head | classify a transfer, find it in a receipt, recover a signer | conclusive only at or below the finalized head, and consistent between reads |
| **direct purchases** `src/artifact-purchase-routes.ts`, `src/direct-payment-claim.ts`, `src/direct-payment-attempts.ts` | `direct_purchase_intents`: one row per buyer and listing (payer, window, nonce, status, tx) | open an intent, claim a transaction, record, hold for review | nobody takes goods on another's money; a stored payment is never asked for again |
| **artifact purchases** same routes, `recordPurchase` | `purchases`: one row per buyer and listing | buy by x402, deliver | one purchase per order, backed by one payment; nothing sold after the listing has left |
| **listing fees** `src/listing-fee-payment.ts` | `listing_fee_attempts`, `fees` | pay by x402 or by a direct transfer, resume | one fee, one listing; no second fee once one is stored |
| **artifact listings** `src/artifact-listing-routes.ts` | `listings` | create, edit, withdraw | a listing has the fee it was listed with; what was bought is what was listed |
| **world sale** `src/world-*.ts` | `world_drafts`, `world_checkouts`, `world_payment_attempts`, world rows of `purchases` | draft, activate, checkout, synchronize with the city, withdraw | a thing is sold once, to the checkout that was paid, although the city answers late or differently |
| **identity and keys** `src/market-identity-*.ts` | merchants, key hashes, ceremonies, recovery codes | register, reveal, confirm, rotate, recover | a secret is revealed once; a replaced key or used code never works again |
| **agent pairing** `src/market-pairing-*.ts` | pairing codes and their reservations | mint, reserve, redeem | one code, one sign-in, and none across a key change |
| **hosted OAuth** `src/market-oauth*.ts` | clients, authorization requests, codes, token families, tokens | authorize, approve, exchange, refresh, revoke | codes and refresh tokens are used once, reuse revokes the family, nothing works after a revocation |
| **society, trust, moderation** `src/society-routes.ts`, `src/core.ts`, `src/trust-routes.ts`, `src/moderation-routes.ts` | votes, comments, flags, pins, karma, the daily quota | vote, comment, flag, pin, remove | what is counted was cast once and paid from the quota |
| **pagination** `src/public-pagination.ts`, `src/collection-routes.ts`, `src/purchase-history-routes.ts` | none (numeric or positional cursors) | page through a moving collection | a row that keeps its place is neither skipped nor repeated |
| **release migrations** `scripts/release-migration-*.ts` | migration ledger | plan, apply, verify | each migration is one database transaction |
| **MCP server** `src/mcp*.ts` | none | tool calls mapped to routes | its state is the routes' |
| **pages and wording** `src/door*.ts`, `src/window*.ts`, `src/human-pages.ts` | none | render | no state a property is about |

### 1.2 How the parts interact

* Every handler talks to the database in single SQL statements, most of them a
  chain of CTEs. A statement and its triggers are the unit of atomicity, and
  each `await` is a point where other requests run. That is the granularity of
  every action. A confirmation (of a registration, a rotation or a recovery) is
  the exception: two statements in one READ COMMITTED transaction, the first of
  which locks the row it confirms.
* A statement that waits for a row lock sees the rows of its snapshot and
  rechecks only the row it waited for. Where that matters the statement is two
  actions: it starts (and the model remembers what it saw) and it commits.
* The payment channels meet in `payment_uses`: a `BEFORE` trigger of each
  channel's own table inserts the hash and looks whether it won.
* Buying and listing call custody (`settleX402`,
  `resumeX402PaymentForTerms`) and then write their own row against the verdict
  custody stored. A listing's withdrawal or removal runs concurrently with them
  and is compared by timestamps, not by locks.
* A key change ends pairing codes, authorization codes, token families and other
  ceremonies in the statement that replaces the key; each of those meets it in
  statements of its own.
* The facilitator, Base's RPC and the city (1F3D9, the remote world) are
  external: they may answer late, wrongly or never.

### 1.3 The hard behaviours

Two requests of one operation interleaving; a request dying between two
statements; the facilitator moving money and then timing out; a late answer
crossing a retry's verdict; another channel claiming the same transaction; a
chain that reorganizes below what was read; windows whose ends are inclusive on
one side and not on the other; a timestamp taken when a statement starts and
seen when it commits; a refresh token presented twice because its answer was
lost. `PROJECT.json` lists them as hazards, each at the line where it bites,
with the properties that watch it.

## 2. The modules

| module | what it is |
|---|---|
| `PaymentLedger` | abstract specification: actions, transactions, an owner for each transaction, a standing for each action |
| `X402Custody` | custody, step by step; implements `PaymentLedger` |
| `ArtifactPurchase` | intents, claims, x402 purchases and listings that leave; its direct channel implements `PaymentLedger`, and it uses custody as `PaymentLedger` promises it |
| `ListingFee` | the fee of a listing, by x402 or by a stored direct transfer; both listing routes extend it |
| `ArtifactListing` | creating, editing, withdrawing an artifact (extends `ListingFee`) |
| `WorldListing` | drafts of city things and their activation (extends `ArtifactListing`, with which it shares the table `listings`) |
| `MarketListings` | the composition of the three: both routes over one table of transactions, with the properties of the whole; its direct fees implement `PaymentLedger` |
| `WorldSale` | checkouts, synchronization with the city, sale, closing; implements `PaymentLedger` |
| `KeyCeremony` | rotations, recoveries and recovery codes of one merchant |
| `OAuthTokens` | what a hosted sign-in grants: codes, token families, refresh tokens; the abstract side of the next |
| `HostedSignIn` | registration, approval by key or by pairing code, and the sign-in page; implements `OAuthTokens` |
| `Society` | votes, comments, flags, pins and the quota they spend |
| `PublicPages` | readers who page through the views while the society moves (extends `Society`) |
| `X402Custody_proofs`, `ArtifactPurchase_proofs`, `WorldSale_proofs`, `MarketListings_proofs`, `KeyCeremony_proofs`, `OAuthTokens_proofs`, `HostedSignIn_proofs`, `PublicPages_proofs` | theorems and their proofs; that of `PaymentLedger` is in `X402Custody_proofs`, that of `Society` in `PublicPages_proofs` |
| `MCX402Custody`, `MCArtifactPurchase`, `MCMarketListings`, `MCWorldSale`, `MCKeyCeremony`, `MCHostedSignIn`, `MCPublicPages` | constants, symmetry and small instances for TLC |

Two abstract specifications join the detailed ones. Every payment channel
(`X402Custody`, `ArtifactPurchase`, `MarketListings`, `WorldSale`) is shown to
implement `PaymentLedger`, and the modules that use custody replace it by three
or four actions (`CustodyClaims`, `CustodyPays`, `CustodyHolds`,
`CustodyRefuses`) that are the ledger's own: composing them at full detail would
multiply two state spaces without a behaviour that neither module has. And the
sign-in page, `HostedSignIn`, takes every step on a code or a token through the
actions of `OAuthTokens` and is shown to implement it, so that what is proved of
grants alone holds of the whole sign-in.

### 2.1 PaymentLedger

An action is `open`, may be `held` (its settlement is in doubt), becomes
`pending` when it owns a transaction, and ends `paid` or `refused`. It may
become `paid` only when its transaction is final. `Rival` stands for any channel
not modelled in detail. `OneTransaction` says that a transaction counts for at
most one action, and that this action's standing shows it.

### 2.2 X402Custody

`attempt` is the table (one row per `operation_key`), `uses` is
`payment_uses`, `req` the memory of each running request with a program counter
between awaits, `mined`/`now`/`fin` are Base, and `sent` is a history variable
counting `/settle` calls.

| action | code |
|---|---|
| `Start`, `ReadSaved` | the route's entry; `resumeX402PaymentForTerms`, and the 402 challenge when nothing is stored and no header came |
| `ReadCustody` | `settleX402WithCustody`: local checks of the signed terms, then a second read |
| `ReadHead`, `Verify` | the anchor block; the facilitator's `/verify` |
| `BeginRead`, `InsertAttempt`, `RacedRead` | `beginX402Settlement`: read by operation, proof and authorization; `INSERT ... ON CONFLICT DO NOTHING`; read again when it lost |
| `CallSettle`, `SettleAnswers`, `SettleInconclusive` | `/settle`, called once; any transaction may be reported, truthfully or not; a refusal, a timeout or an unreadable answer |
| `HoldForReview`, `HoldReread` | `markX402SettlementNeedsReview` |
| `RecordSettlement` | `recordX402Settlement` with `reserve_x402_payment_attempt_use` and `protect_x402_payment_attempt_history`, one database transaction |
| `ReadChain` | `classifyUsdcTransfer` with the stored authorization |
| `ReadStored`, `RecordFinality`, `FinalityReread` | `recordX402Finality`, `anchorFinality` |
| `Abandon` | the function is killed, or a database or Base call fails |
| `RivalClaims` | any other channel's trigger |
| `Mine`, `Reorg`, `NewBlock`, `FinalizeBlock` | Base |

Abstractions. A proof is a model value carrying an authorization (`AuthOf`);
parsing, EIP-712 hashing and the comparison of terms are the free choice of
`ReadCustody` to answer "invalid". One clock serves the database and Base: it is
the block number, so `operation_started_at` and `start_block` read the same
variable at different steps. Two transactions never spend the same
authorization, which is what EIP-3009 nonces give (`CustodyAssumption`).

### 2.3 ArtifactPurchase

An *order* is a buyer and a listing, the key of both tables. `intent`,
`purchase`, `uses` are the tables, `x402` is custody's verdict for the order,
`shelf` holds `removed_at` and `withdrawn_at` of each listing and `leaving` the
instant stamped by a withdrawing or removing statement that has not committed.

| action | code |
|---|---|
| `AskIntent`, `LookFirst`, `UpsertIntent`, `ReadExisting` | `POST /api/purchase-intent`: reads, `INSERT ... ON CONFLICT DO UPDATE ... WHERE`, re-read |
| `Claim`, `ReadListing`, `ReadIntent`, `SignatureVerifies`, `SignatureRefused`, `ReadTransfer` | `POST /api/claim` and `resolveDirectPaymentClaim` up to its first write |
| `Reserve`, `RereadAttempt` | `reserveDirectPaymentAttempt` with its trigger on `payment_uses` |
| `RecordDirect`, `ReviewDirect` | `recordDirectPurchase`, `markDirectPaymentNeedsReview` |
| `Buy`, `ReadShop`, `ReadPrior`, `ReadSaved`, `SettleX402`, `SettleAnswers`, `RecordX402` | `POST /api/buy` and `recordPurchase` |
| `CustodyClaims`, `CustodyPays`, `CustodyRefuses` | custody, as `PaymentLedger` promises it |
| `Leave`, `Left` | `withdrawn_at = now()` / `removed_at = now()` when the statement starts; what its `WHERE` allows when it commits |

Abstractions. A transaction is what the claim can tell of it: the wallet it
takes USDC from, the listings whose seller and price it meets, and its block.
A signature verifies when the buyer controls the wallet its intent names. The
ten-minute window is `TTL` blocks. The public event and free goods (which never
touch a payment) are left out; that a sale freezes its listing is in
`ArtifactListing`.

### 2.4 KeyCeremony

One merchant. `key` and `generation` are its row, `lock` the transaction that
holds that row, `rot`, `code` and `result` the three tables, `due` the clock
(which ceremonies have expired), `req` the running requests. `past`,
`overtaken` and `told` are history: replaced keys, ceremonies that were open
when the key or the set of codes changed, and the final answers given. The
replacement key of a ceremony is random, so the session names it.

| action | code |
|---|---|
| `StageRotation`, `StageRecovery`, `StageRejected` | `stageMerchantRotation`, `stageMerchantRecovery`, one statement each |
| `Confirm`, `Lock` | the first statement of both confirmations: an open ceremony's merchant row, `FOR UPDATE` |
| `Rotate`, `LimitReached`, `Refuse` | the second statement of `confirmMerchantRotation` |
| `Recover`, `Refuse` | the second statement of `confirmMerchantRecovery` |
| `GenerateStarts`, `Generate`, `GenerateRejected` | `generateMerchantRecoveryCodes`: its snapshot, then, once it has the row, its updates |
| `Cancel` | `cancelMerchantRotation`, `cancelMerchantRecovery` |
| `Resume`, `LookRotation`, `ReportRotation`, `LookRecovery`, `ReportRecovery` | the pages' and the JSON doors' progress lookups |
| `Outcome`, `Recorded` | the trigger `record_merchant_recovery_ceremony_result` |
| `Abandon` | a request dies or a transaction rolls back |
| `Expire`, `NewDay` | the clock |

Abstractions. A waiting statement is two steps because READ COMMITTED rechecks
the rows it waited for and not the rest of its snapshot: `GenerateStarts`
remembers what it saw, `Rechecked` is what is still open of it.
A CTE that meets another one on the same row counts once, whichever it is
(`late` in `Rotate`). The retry after a database deadlock is an `Abandon` and a
new request. The pairing codes, authorization codes, token families and tokens
the same statements end are in `HostedSignIn` and `OAuthTokens`, where a key
change is one waiting statement with its snapshot.

### 2.5 OAuthTokens

`code`, `family` and `token` are the three tables (a grant's code, the family it
bought, its refresh tokens in order of issue), `marked` the tokens with
`revoked_at` set, `key` and `holder` the merchant row and who holds it, `due` the
clock, `call` the running requests with what their statement saw. `spent` and
`replayed` are history. The merchant row is the lock every change of a family
takes first; what a statement saw of codes and tokens before it waited for that
row is in its `call`.

| action | code |
|---|---|
| `Join`, `JoinAndGrant`, `Grant`, `Issue` | the merchant of a registration, with or without its first code; `approveExistingMerchantAndIssueAuthorizationCode` |
| `ReadCode`, `Exchange` with `Unspent`, `Unlocked`, `Buy` | `POST /oauth/token` with an authorization code: `getAuthorizationCode`, then one statement that locks the merchant, consumes the code and makes the family |
| `Present`, `Subject` | `POST /oauth/token` with a refresh token, `resolveRefreshRateLimitSubject` |
| `RotateStarts`, `Rotate`, `RotateFails` | `rotateRefreshToken` |
| `ReuseStarts`, `RevokeStarts`, `Revokes` | `revokeReusedRefreshToken`, `POST /oauth/revoke`, `revokeTokenFamilyByToken` |
| `ChangeLocks`, `ChangeKey`, `UsedUp` | the waiting statement of a rotation or recovery: its snapshot, then the codes, families and tokens it ends |
| `CodeLapses`, `FamilyAges` | the clock: a code's ten minutes, a family's last token and its end |
| `Abandon` | a request dies |

Access tokens are checked against their family at every use
(`resolveOAuthAccessToken`, `Alive`) and are not separate state. PKCE, client and
redirect comparisons look at values stored once and only refuse.

### 2.6 HostedSignIn

`row` is a session's request or pending registration, `by` the session that made
each merchant, `pairing` and `reserved` the two pairing tables, `page` the running
requests of the sign-in; the ten variables of `OAuthTokens` carry the same names.
A *hosted* session is one of the sign-in page and is a grant of `OAuthTokens`; a
*direct* one is of `/join` or `/api/register`. `told` (what a session was
answered) and `redeemed` (the pairing code that approved it) are history.

| action | code |
|---|---|
| `CreateRequest`, `Swept` | `GET /oauth/authorize`, with the sweep of expired rows it starts with |
| `Register`, `StageDirect` | `stageNewMerchantRegistration`, `stageMerchantRegistration`: one statement, refused when the handle is a merchant's |
| `ConfirmStarts`, `ConfirmFindsNone`, `ConfirmWins`, `ConfirmLoses`, `ConfirmCollides` | both confirmations, statement by statement: the loser either finds the merchant (`canceled_conflict`) or meets the unique index `merchants_handle_key` |
| `Lost`, `CloseLoser` | what the caller does with that collision: look again, close the session, answer |
| `Cancel`, `Look` | cancellation and the progress pages |
| `Link`, `Approve` | `POST /oauth/authorize` with a key of an existing merchant |
| `Authenticate`, `Mint` | `POST /api/pair`: the key is checked in one statement, the code stored in the next |
| `Reserve`, `TakeReserved`, `Redeem`, `ReadKey`, `ApprovePaired` | a pairing code entered in the browser: reserved for the session, taken, consumed in one statement, the merchant's key read in the next, the request approved in a third |
| `ChangeKey`, `Ended` | the key change of `OAuthTokens`, which also ends the merchant's pairing codes |
| `Serve` | every other step of `OAuthTokens` |
| `Lapse`, `LapsePairing`, `TokenClock`, `Drop` | clocks and dying requests |

A secret is compared by the generation of the key it was made from; handles
stand for merchants, because the unique index on handles is the one between them.

### 2.7 ListingFee, ArtifactListing, WorldListing and MarketListings

A *body* is a merchant and the exact listing it asks for, the unit both
`fee_request_hash` and the x402 operation are computed from. `attempt` is
`listing_fee_attempts`, `fee` is `fees`, `x402` the body's custody row, `listing`
the table `listings`, `draft` is `world_drafts`, `offer` what the city publishes
of the thing, `call` the running requests. The steps of a fee are shared: a call
enters them at `fee` or `settle` and leaves at the label its route put in `next`.

| action | code |
|---|---|
| `ReadFee`, `ReserveFee`, `RereadFee`, `VerifyFee`, `ReviewFee` | `resolveListingFeePayment`: stored attempt, reservation with its trigger on `payment_uses`, the request that lost it, chain check, review |
| `SettleX402`, `SettleAnswers`, `CustodyClaims`, `CustodyPays`, `CustodyHolds`, `CustodyRefuses` | custody, as `PaymentLedger` promises it |
| `ChargeDirect`, `ChargeX402` | the fee's part of the inserting statement |
| `Offer`, `KeeperReads`, `ReadPreserved`, `MethodRefused`, `ReadSaved`, `LookupPaid`, `ReadTwins`, `ChooseMethod` | `POST /api/listing` up to its fee: free listings of the maintainer, preserved payments, one method only, duplicates |
| `InsertDirect`, `AttemptGone`, `InsertX402`, `InsertSeed` | the statement that stores the listing with its fee |
| `Edit`, `EditTwins`, `SaveEdit` | `PATCH /api/listing/:id` |
| `Withdraw`, `Remove`, `Sell` | what other requests do to a listing |
| `OpenDraft`, `CancelDraft`, `Sweep` | `POST /api/world/draft` and its cancellation |
| `CityLists`, `CityChanges` | the city |
| `Activate`, `ReadDraft`, `WorldSeedOrPay`, `WorldReadSaved`, `WorldReadKept`, `FetchOffer`, `WorldChooseMethod`, `WorldConfirm` | `POST /api/world/listing` up to its insert |
| `WorldInsertDirect`, `WorldInsertX402`, `WorldInsertSeed`, `WithdrawWorld` | the inserting statements, which also activate the draft, and the withdrawal |

What makes two texts near-identical is a set of copies (`CopyOf`). `Lookback` is
`DIRECT_FEE_LOOKBACK_MS`, `DraftLife` a draft's hour, both in blocks.

### 2.8 WorldSale

`listing` is a row of `listings` with its draft, `checkout`, `attempt`,
`purchases` and `uses` the tables, `call` the running requests with the offer
they were shown. The city has no state of its own: each read of its record may
find any well-formed offer of that listing (`Says`), also one it contradicts
later.

| action | code |
|---|---|
| `AskCheckout`, `LookCheckout`, `Sweep`, `Bind` | `POST /api/world/checkout` |
| `CloseStarts`, `CloseCommits` | withdrawal, removal, the city's cancellation and a refused payment that closes the listing: the instant of the statement, then what its snapshot lets it change |
| `Sync`, `ReadPrior`, `ReadListing`, `ReadStored` | `POST /api/world/sync`: an earlier sale, the listing, a preserved attempt |
| `CityIsOpen`, `CityIsOver`, `CityIsClaimed` | what the city published, and the checkout it names |
| `ReadExisting`, `InsertAttempt`, `RereadAttempt`, `InsertConflict` | `reserveWorldPaymentAttempt` |
| `ReadChain`, `Sell`, `ReadRaced`, `Review`, `ReadMissing` | `settleWorldPaymentAttempt` |

### 2.9 Society and PublicPages

| action | code |
|---|---|
| `Ask`, `Auth`, `Look`, `ReadPrior` | a vote, comment, flag or pin arrives, its merchant and its target are read |
| `SpendQuota`, `RefundQuota` | `spendQuota`, `refundQuota`, with the day computed when the request looked at its clock |
| `InsertVote`, `CountVote`, `CountKarma` | the three statements of a vote |
| `ReadBuyer`, `InsertComment`, `LogEvent`, `PinListing` | comment, flag, pin |
| `Abandon` | the request dies between two of them |
| `ReadPage`, `ReadStore`, `StartAgain` | one page, one statement; a store's page looks its anchor up again |

`Views` lists the bounded views: the shelves by either order, a store, one's own
listings, sales, purchases and replies, a listing's comments, the purchase
history, the events and the treasury. `reader` follows one of them to its end and
remembers which rows kept their place at every page (`kept`), which it saw
(`seen`), saw again (`twice`), and whether a store's anchor moved (`slid`).

## 3. What the runs show

| run | instance | distinct states | shows |
|---|---|---|---|
| `x402_safety` | 1 operation, 1 proof, 2 transactions, 2 blocks; or 2 operations, 2 proofs of one authorization, 1 transaction; 2 requests | 713,886 | money asked for once for an operation and for an authorization, one owner, paid means final, history kept, nobody with a stored payment is invited to pay; custody implements the ledger |
| `x402_liveness` | 1 operation, 1 proof, 1 transaction, 2 requests | 11,084 | every started payment is decided |
| `x402_conflict` | 2 operations, 1 transaction | counterexample | finding 1 |
| `purchase` | 1 order bought by x402, withdrawal and removal; or 1 order paid by both channels; or 2 orders that claim, 2 wallets; or 1 order whose intent lapses, 3 blocks, withdrawal; 2 transactions, 2 requests | 840,785 | goods only on a payment of its buyer inside its intent, nothing sold after the listing left, a transfer is reserved once, nobody with a stored payment is handed a new intent; direct claims implement the ledger |
| `purchase_liveness` | 1 order, 1 transaction, 2 requests, 2 blocks | 40,865 | every stored direct payment is delivered or reviewed |
| `purchase_withdrawn` | 1 order, 1 transaction, x402 requests only | counterexample | finding 2 |
| `key_change` | 2 rotations; or 2 recoveries; or 1 of each; 2 codes a set, 2 requests, 1 rotation a day | 266,666 | an overtaken ceremony never activates, each recovery spends one code of the current set and is remembered, answers stay true, nothing spent comes back |
| `sign_in` | 3 sessions and 1 handle; or 2 sessions and 1 pairing code under key changes; or 2 codes of 2 merchants; or 1 session, 3 refresh tokens; 2 requests | 92,680 | what a registration was told stays true, a pairing code approves one sign-in, a key change ends what its old key approved, codes and tokens are spent once, a replay ends its family; the pages implement `OAuthTokens` |
| `sign_in_stale` | 1 session, 1 pairing code, a key change | counterexample | finding 3 |
| `listing` | 1 artifact, 2 requests; or both rails at once; or mistaken hashes; or a listing edited while sold; or 1 draft through its life; or 2 drafts of one seller | 272,130 | a fee buys one listing, no second fee once one is stored, a canceled draft owes nothing, what was bought is what was listed, answers stay true; direct fees implement the ledger |
| `world_sale` | 1 thing and buyer, 2 requests; or 3 blocks and every way to close; or 2 buyers; or 2 things and 1 transfer | 418,202 | a thing is sold once, to the checkout that was paid; a payment goes to review only for a cause; receipts implement the ledger |
| `floor` | 2 votes over a midnight; or one reader of one view whose 2 or 3 rows move | 92,165 | votes are counted once and paid from the quota; no reader who is told there is no more has missed a row that kept its place |

### 3.1 Bounds, and why they are enough

* **Requests = 2.** Every race in this code is between a request that read a row
  and another that writes it; a killed request's slot is free for the next one,
  so the number of requests over a run is unbounded, only their overlap is not.
  The proofs of section 4 remove this bound.
* **Operations, orders, bodies, listings = 2 where they compete**, 1 where the
  question is about one of them: they share nothing but authorizations,
  transactions, copies and the merchant.
* **Several small instances in one run.** Each safety run names a `CONSTRAINT
  SmallInstance`, defined in its MC module: it admits a state when it lies in one
  of a few small instances (fewer things and more blocks, or the other way
  round), and TLC explores their union. The properties are checked on the states
  just outside as well. The instances are described above each definition; each
  was chosen as the smallest in which one group of actions meets, and together
  they fire every action.
* **Transactions = 2** give a right and a wrong one, or one for each channel.
  `x402_safety` gives the facilitator a transaction that settles another
  authorization to report.
* **MaxTime** is the last block, 2 or 3. Two blocks suffice to have a transfer
  older than the operation it is reported for, a read at one head and another at
  a later one, and a reorganization between two reads. Windows (`TTL`,
  `Lookback`, `DraftLife`, `Life`, `Window`) are one block, so that with three
  blocks a window opens after the first and closes before the last: a transfer
  may come before, inside, at the end of or after it. `Lead` is 0, so that a city
  clock ahead of the market's is the refused one; `Says` gives the city
  reservations as agreed and one that is too long.
* **Kinds**, **Exits**, **Closings** and **Sent** choose which requests arrive
  and how a listing may leave.
* **MaxGeneration** and **MaxKeys** count key changes. States of up to
  two generations (three where recoveries compete) are expanded, and their
  successors checked: a ceremony is overtaken, another is staged under the new
  key, and it activates or is overtaken too. **DailyLimit** = 1 makes the second
  rotation of a day the refused one. **Slots** = 2 gives two recoveries a code
  each, or one code in turn. **MaxTokens** = 3 lets the refresh token that a
  rotation bought be rotated and both old ones be replayed.
* **PageLimit** = 2 with three rows gives a full page and a last one; **MaxDay** =
  2 gives one midnight, **Votes** and **Remarks** are as small as lets one request
  exhaust what another needs.
* Requests are symmetric in the safety runs (and so are operations, the proofs of
  one authorization, sessions of a kind and codes of a set); no liveness run uses
  symmetry.

### 3.2 Fairness

Nothing in the code revisits a stored payment on its own: there is no cron job
and no queue. Progress comes from the buyer's next request, which every answer
tells him to send without paying again. `FairSpec` of `X402Custody` and of
`ArtifactPurchase` therefore assumes

* a buyer who keeps retrying (strong fairness of `Retry`: the slots may be
  busy, so it need not be enabled all the time);
* a platform that ends every request, by progress or by killing it (weak
  fairness of "some step or `Abandon`");
* crashes and failed calls that do not hit every retry at the same step for ever
  (strong fairness of that step, over the requests of an operation);
* a Base that keeps finalizing (weak fairness of `FinalizeBlock`).

Nothing is assumed of the facilitator, of the chain including a transaction, of
rivals, or of any one request. The properties are conditional where the code is:
a settled payment whose transaction Base drops is never decided, and the
property asks for a verdict only while the transaction is on the chain.

### 3.3 Deadlock

Deadlock is checked in every run but `sign_in`, `sign_in_stale` and `floor`. In
the others a request may always arrive in an idle slot and any other may be
killed, so no state is without a successor; no state of the key ceremonies has
everybody waiting, since a transaction waits only before it holds the merchant
row. In those three a finite supply (sessions, pairing codes, texts, days) runs
out, and the system may really stop.

## 4. What is proved

The proofs hold for every set of operations, proofs, transactions and requests
and every `MaxTime`, for every set of orders, listings, wallets, buyers and
checkouts and every record the city may publish, for every set of bodies,
drafts and texts that resemble each other, for every set of merchants,
sessions, codes, tokens and requests, and for every finite set of listings,
texts and calls, every quota and every page limit. They assume `CustodyAssumption`
(`X402Custody`), `PurchaseAssumption` (`ArtifactPurchase`), `SaleAssumption` and
`SaysAssumption` (`WorldSale`), `FeeAssumption`, `ArtifactAssumption` and
`WorldAssumption` (`MarketListings`), `CeremonyAssumption` (`KeyCeremony`),
`SignInAssumption` (`HostedSignIn`) and `SocietyAssumption` and
`PagesAssumption` (`PublicPages`): distinct names for distinct things (an owner
in `payment_uses` is a channel and a row, never "none" or the rival), positive
bounds and well-formed terms, which TLC evaluates on every instance, and nothing
else. The theorems of `OAuthTokens` assume `OAuthAssumption` in their
statement, and `HostedSignIn_proofs` derives it from `SignInAssumption`. The
theorem of `PaymentLedger` assumes `LedgerAssumption` in the same way.

| theorem | module | states |
|---|---|---|
| `LedgerKeepsOne` | `X402Custody_proofs` | `Spec => []OneTransaction` of `PaymentLedger`, for any channel |
| `TypeCorrect` | `X402Custody_proofs` | `Spec => []TypeOK` |
| `MoneyAskedOnce` | `X402Custody_proofs` | `Spec => []SettleOnce` |
| `OneReaderOfTheAnswer` | `X402Custody_proofs` | `Spec => []AnswersOwnRow` |
| `OneTransactionOneAction` | `X402Custody_proofs` | `Spec => []OneOwner` |
| `PaidMeansFinal` | `X402Custody_proofs` | `Spec => []PaidIsFinal` |
| `HistoryIsKept` | `X402Custody_proofs` | `Spec => HistoryKept` |
| `NoInvitationTwice` | `X402Custody_proofs` | `Spec => NoSecondInvitation` |
| `CustodyImplementsLedger` | `X402Custody_proofs` | `Spec => LedgerSpec` |
| `TypeCorrect` | `ArtifactPurchase_proofs` | `Spec => []TypeOK` |
| `DeliveredWasPaid` | `ArtifactPurchase_proofs` | `Spec => []PaidFor` |
| `ClaimsKeepTheirs` | `ArtifactPurchase_proofs` | `Spec => []Reserved` |
| `LeavingIsABorder` | `ArtifactPurchase_proofs` | `Spec => NothingSoldAfterLeaving` |
| `NoIntentTwice` | `ArtifactPurchase_proofs` | `Spec => NoSecondIntent` |
| `ClaimsImplementLedger` | `ArtifactPurchase_proofs` | `Spec => LedgerSpec` |
| `TypeCorrect` | `WorldSale_proofs` | `Spec => []TypeOK` |
| `SoldOnceOnly` | `WorldSale_proofs` | `Spec => []SoldOnce` |
| `TheBorderDecides` | `WorldSale_proofs` | `Spec => BorderDecides` |
| `SalesImplementLedger` | `WorldSale_proofs` | `Spec => LedgerSpec` |
| `TypeCorrect` | `MarketListings_proofs` | `Spec => []TypeOK` |
| `OneFeeOneListing` | `MarketListings_proofs` | `Spec => []FeeBuysOneListing` |
| `AnswersStayTrue` | `MarketListings_proofs` | `Spec => []AnswersHold` |
| `NoFeeForACanceledDraft` | `MarketListings_proofs` | `Spec => []CanceledOwesNothing` |
| `NoFeeTwice` | `MarketListings_proofs` | `Spec => NoSecondFee` |
| `SoldStaysAsListed` | `MarketListings_proofs` | `Spec => SoldAsListed` |
| `FeesImplementLedger` | `MarketListings_proofs` | `Spec => LedgerSpec` |
| `TypeCorrect` | `KeyCeremony_proofs` | `Spec => []TypeOK` |
| `OvertakenDead` | `KeyCeremony_proofs` | `Spec => []OvertakenStaysDead` |
| `KeyHistoryKept` | `KeyCeremony_proofs` | `Spec => HistoryKept` |
| `KeyAnswersHold` | `KeyCeremony_proofs` | `Spec => []AnswersHold` |
| `OneCodeForARecovery` | `KeyCeremony_proofs` | `Spec => []OneCodeOneRecovery` |
| `TypeCorrect` | `OAuthTokens_proofs` | `Spec => []TypeOK` |
| `GrantsDieWithKeys` | `OAuthTokens_proofs` | `Spec => []GrantDiesWithKey` |
| `PairsBoughtOnce` | `OAuthTokens_proofs` | `Spec => []SpentOnce` |
| `ReplaysEndFamilies` | `OAuthTokens_proofs` | `Spec => []ReplayEndsFamily` |
| `SignInTypeCorrect` | `HostedSignIn_proofs` | `Spec => []TypeOK` |
| `SignInImplementsTokens` | `HostedSignIn_proofs` | `Spec => ImplementsTokens` |
| `SignInGrantsDie`, `SignInPairsOnce`, `SignInReplaysEnd` | `HostedSignIn_proofs` | the three properties of grants, of the whole sign-in |
| `AnswersStayTrue` | `HostedSignIn_proofs` | `Spec => []AnswersHold` |
| `PairingCodesApproveOnce` | `HostedSignIn_proofs` | `Spec => []PairsOnce` |
| `SocietyTyped` | `PublicPages_proofs` | `PagesSpec => []SocietyTypeOK` |
| `VotesCountedOnce` | `PublicPages_proofs` | `PagesSpec => []VotesCounted` |
| `PagesAreWhole` | `PublicPages_proofs` | `PagesSpec => []PagesWhole` |

None of the properties is inductive by itself; the argument is a chain.

* `Typed` adds to `TypeOK` what a program counter says about the request's
  memory: a working request has an operation, one that was asked to pay has a
  proof, and only an idle request may have no answer.
* `Once` is the strengthening of `SettleOnce`. A request that is about to call
  `/settle`, waits for its answer or records it holds its operation's row alone,
  the row stores its proof and no two rows share an authorization. The insert
  starts this period, and only the unique operation key and authorization make
  it exclusive; nothing has been sent for the operation before it, and no other
  label leads to the call.
* `Owned` says that the transaction of a settled or verified row and
  `payment_uses` name each other, that a row still settling has none, and that a
  row under review has its reason.
* `Answering` joins the two: the request waiting for the answer of `/settle`
  finds its own row still without a transaction. This is why the update of
  `recordX402Settlement` never misses (`AnswersOwnRow`).
* `Sound` adds the evidence of finality, from the read to the write: the facts
  a request holds name a block at or below `fin`, which the transaction is in,
  and finalized blocks do not reorganize. `PaidIsFinal` follows because the
  facts cross `Anchored` before they are stored.
* `HadRow` says that a request which once found a row still has one to find, the
  fact behind `NoSecondInvitation`.

`HistoryKept`, `NoSecondInvitation` and the step simulation of
`CustodyImplementsLedger` follow action by action from these invariants.

For purchases the invariant is `Typed`, `Rows`, `Reserved`, `PaidFor` and
`Knows`. `Rows` says which intents have a transaction and that `payment_uses`
gives custody's to custody. `Knows` is what a claim carries from one await to the
next and may still rely on: from the signature on, the payer of the intent it
read is a wallet the buyer controls; from the transfer on, the transaction it
verified is final, from that wallet and for that listing, at the block time it
will write; and a buyer once found to have a stored payment has one. It survives
other requests because of `Kept`, proved of every step: an intent with a
transaction keeps its payer and its window, a decided one does not change, a
claimed transaction keeps its owner, a purchase stays. The delivering statement
locks the intent and repeats every check on it, but does not ask Base again:
it compares the stored payer and window with what the request brings, so without
`Knows` `PaidFor` is not inductive. `NothingSoldAfterLeaving` needs no more than the comparison
of that statement and the order of `removed_at` and `withdrawn_at`. In the
refinement a reservation is the ledger's claim, a delivery pays, a review
refuses, and custody, which owns transactions in the same table, is a rival.

For the world sale it is `Typed`, `Rows`, `OneStory` and `Knows`. `Rows` says
that a stored attempt fits the checkout it names and owns its transaction while
it is pending or sold; `OneStory`, that a receipt, its attempt, its checkout, its
listing and its draft agree. `Knows` follows a synchronization: the terms it was
told fit the checkout; the row it settles is the attempt of its listing, for an
attempt never changes its terms; a call at the sale holds a final, proven
transfer; and one whose sale found nothing to record, while the attempt is still
pending, knows that the listing had left before the reservation. That last fact
(`UnsoldLeft`) is the heart of `BorderDecides`: of the reasons the locked sale
may have to refuse, a checkout completed by another sale, a transaction or a
buyer that already has a receipt would each make the attempt of this listing
completed, so only the border remains. No comparison of times is needed beyond
`GoneIs`: an instant of leaving, once set, can only move to an earlier one.

For the listings the invariant is the tables (`Rows`), the two properties of the
tables themselves (`FeeBuysOneListing`, `CanceledOwesNothing`) and `Calling`,
what each running call may rely on. `Rows` says that a stored fee owns its
transaction and that a listed thing's draft stays active or withdrawn, with the
hour it was opened for. `Calling` has two halves. `MemoryOK` is about the call
alone: at which labels it holds a fee, of which rail, and where it goes on.
`Knowing` ties that to the tables: a fee held is final, of this body and of the
block it will write, and a call that reviews or verifies a fee has an attempt to
find. It contains `Remembers`, the strengthening of `NoSecondFee`: a call that
began with a fee stored can, at no label from which it could be asked to pay or
list free of charge, have lost sight of it. At each label it says by which of
the reads before (the preserved fee, custody's saved payment, the keeper's look
at either) the call has that knowledge, and why the reads still to come must
find it.

Both routes share the fee steps and most steps write nothing but the call, so the
proof has two kinds of lemma. A step of a call `Moves` it: the call is as good
after it, and no other changes. A step of the tables `Keeps` them: it is one that
never takes back what `Grows` lists (a used transaction, a final block, a stored
attempt, a decided one, a verified x402 fee, a listed body, a sold copy, the hour
of a draft) and changes the direct fees as `Accounts` says. `KnowingStays` shows
once that whatever grows leaves what the other calls know true, and `FeesStay`
and `FeesBuy` that `FeeBuysOneListing` survives a step that lists nothing and one
that lists. The statement that lists does not ask Base again: for a direct fee it
compares the block time with the window of the locked attempt and, on the world
route, with the hour of the locked draft, and what `Knowing` says of the
transaction makes it final. That a transaction is billed once follows from its
owner being one body whose attempt is not completed yet (direct) or from the
unique transaction of `fees` (x402). `NoSecondFee` and `SoldAsListed` are the
parts `Asks` and `Grows` of what a step may do, and `Accounts` is the ledger's
next-state relation in the words of the tables.

For the key ceremonies every step is first shown to be one of a few moves
(`StepMoves`): a rotation row is staged under the current generation or ends; a
code in force may take a session, forget it, be spent or be replaced; a result is
kept once there is one; and the key moves only with the generation, by a
ceremony that is available and ends with it. `MovesKeep` shows that such moves
keep `CInv`: no row or code is ahead of the generation (`Ordered`), an activated
ceremony is over (`Over`), and an overtaken one is over or staged under an
earlier generation (`Stale`) and has not activated. `Available` excludes both,
whatever the overtaking statement saw, so the comparison of generations, not
the sweep, is what `OvertakenStaysDead` rests on.

The second part of `KeyCeremony_proofs` carries that to what a page said. A session may be told
canceled or invalidated only when its ceremony is `Dead`: it has not activated
and is over or stale, and neither is ever undone; told rotated or recovered, it
has activated. `Decided` ties the outcome a row keeps to the key, `Staged` says
that a rotation of the current generation was staged under the current key (so
the status read reports an unavailable one rightly), `Serving` that a code
serves at most one session and that one has no result yet, and `Reporting` and
`Told` follow an answer from its read to the page. `Counted` adds that the spent
codes of a merchant are as many as its completed recoveries: a recovery spends
the one code that serves it, and no other step spends any.

For the grants, the invariant of `OAuthTokens` has a part for each question.
`Coded` says that a code belongs to a merchant that exists and a family to a code
that was used; `Bought` ties the history to the tables: what was handed out for a
code or a token is 1 where it is spent and 0 elsewhere, and a family has at most
one live token. `Holding` is the part that carries `GrantDiesWithKey`: a key change that holds
the merchant row has *seen* every code and family of the merchant, for whoever
would make another takes the same row first; therefore ending what the snapshot
shows ends everything. `Knowing` says what a running request took with it that
still holds when it is used: in particular, one that found its token spent finds
the family in its snapshot. `Marks` says that only revoked families have marked
tokens, and `Ended` that a family one of whose spent tokens was answered is not
alive. `SpentOnce` and `ReplayEndsFamily` follow.

For the sign-in, the refinement needs only `Unapproved`: a session that was not
approved has no code. Every action then maps to an action of `OAuthTokens` or
leaves its ten variables alone, and the theorems about grants carry over
(`Granted`, the instance of the proofs module). `AnswersHold` is inductive
together with `Signs`, `Made` and `Answered`: what a confirmation under way
holds, which session made which merchant, and that a session is told an ending
only when its row has it. `PairsOnce` rests on `Held`, `Spent` and `Current`: a
page that carries a redeemed pairing code is the only one, a code is consumed
once, and an unused code was stored under the generation its merchant has. The
last holds because the insert needs the merchant row, which a key change holds
until it has ended the unused codes. It is the key a code was *stored* under; the
key its minting was authenticated with may be older (finding 3). The step
lemmas (`PagesMove`, `RowsMove`, `GrantsMove`, `PairingsMove`, `ToldsMove`,
`HistoriesMove`) say once, for each variable, how an action may move it; each
conjunct is preserved from these moves and not action by action again.

For votes the invariant is the types, `Busy`, `Dated` and `VotesCounted`
itself, which is stated so that it is inductive: the votes a listing shows and
those still on their way to be counted (requests at `CountVote`) are together no
more than the stored ones, and the same for karma and for the day's quota. Every
step of a request is first shown to be one of six moves (`Goings`): it idles,
spends, casts, refunds, counts or credits. `GoingVotes` follows the numbers: a
vote that was new makes one stored and one on its way, one that was not is on
its way back to the quota, and counting turns one on its way into one shown. The votes
all listings of a merchant show are counted as a set of pairs (`Shown`), because
a sum over a set is beyond the prover. `Busy` carries that only a vote for another
merchant's listing reaches the insert, and `Dated` that no counter is of a later
day, without which a refund could reach a counter that never paid.

For pages the invariant is `Placed` and `RInv`. `Width` and `Places` say how many
numbers a place in a view has; `RowsStand` that two rows of a view never share a
place, since each ends with the id; so `Ahead` is a strict total order on them
(`AheadNotSelf`, `AheadThrough`, `AheadTotal`). A page that leaves rows behind is
not empty and has a last row, a finite set having a first of any strict order
(`First`), and holds exactly the rest up to that row (`PageIs`). Between two pages
(`Between`) the reader has seen, of the rows that kept their places, exactly
those not after his cursor. A next page starts after the cursor, so it repeats
none of them and skips none (`PageKeeps`), as long as it starts where the
last one ended: on the shelves the cursor is that place; in the other views the
row is looked up again, and it is where it was (`Anchored`) because nothing moves
a row of those views once it is there (`RowsStay`), a store's alone excepted.

Every inductive invariant was model-checked on the instance of its run before it
was proved. Model-checked only: `EventuallyDecided` of both modules (liveness
under fairness is beyond the prover). The three runs that expect a violation
refute what a document says, and nothing is proved about them.

## 5. Where the code and its documents disagree

1. **A conflicting late transaction is not preserved** (`x402_conflict`,
   `ConflictPreserved`). `db/schema.sql:2340` says a competing owner is
   preserved as terminal review. When a concurrent retry has already held the
   row, the reservation trigger (`db/schema.sql:2294`) sets another review
   reason, the history trigger refuses it, the statement rolls back, and the
   transaction is stored nowhere. The counterexample: a request calls `/settle`;
   a retry finds the row settling and holds it; a rival claims the transaction;
   the answer arrives.
2. **A payment accepted while the listing was live may never deliver**
   (`purchase_withdrawn`, `LiveCheckHonoured`). `docs/DECISIONS.md:28` says a
   paid attempt past the live check may settle and deliver. `withdrawn_at` is
   the start of the withdrawing statement and seen at its commit
   (`src/artifact-listing-routes.ts:655`): a purchase that starts between the
   two reads the listing live and fails the boundary of `recordPurchase` at
   every retry. The gap is as long as that statement, waiting for locks
   included.
3. **A sign-in may outlive the key its pairing code was minted with**
   (`sign_in_stale`, `CodeDiesWithItsKey`). `db/schema.sql:403-405` says that
   every unused code is invalidated the moment the key changes, "so a code minted
   under a stolen key stops working". `resolveAndConsumePairingCode` uses the code
   up in one statement and reads the merchant's key in the next
   (`src/market-pairing-store.ts:73`), and the approval that follows compares the
   key it read with the key there is. A key change between the two finds no
   unused code to end, and the sign-in is approved under the new key by a code of
   the old one. `POST /api/pair` leaves the same gap: it checks the key in one
   statement and stores the code in another.

Three more observations are hazards without a run of their own, because nothing
is delivered wrongly in them. At the last instant of the inclusive window a new
intent may replace the old one while a claim that verified the old challenge
still reserves (`src/direct-payment-attempts.ts:44`): `PaidFor` holds, and the
payment ends in review. A rotation reported expired may still activate, when its
confirmation began in time and waited (`src/market-identity-progress-store.ts:55`
against `src/market-identity-browser.ts:380`). A listing route answers 400,
"neither fee was processed", before it looks at an x402 payment that is already
saved; the retry without the second method finds it.

## 6. What is not modelled

Within the modelled parts:

* JSON and header parsing, wording, digests and EIP-712 hashing (a proof or a
  body is a value that matches or not), wallet-signature recovery;
* the RPC consistency checks inside `receiptFinality`, which only turn a
  disagreeing node into an inconclusive verdict, and any read may be
  inconclusive;
* the hourly rate limits, which only refuse requests that may anyway not come;
* the sweep of sign-in rows a month after they expired, and the pruning of
  recovery results after a day, with which a very old session is forgotten;
* access tokens apart from their family, PKCE, clients and redirect addresses;
* free goods and the public events of purchases;
* the merchants list (the cursor of the other numeric views over a fixed order)
  and the window's previews (one page each);
* skew between the clocks of the database and of Base, which are one here: it can
  move a window's ends.

Whole parts:

* **release migrations**: an operator runs one at a time, and its prerequisites,
  DDL and postconditions are inside one database transaction, so an interruption
  leaves nothing;
* **the MCP server and tool catalogue**: a stateless translation of tool calls to
  the routes;
* **the door, the window and the human pages**, which only render;
* **trust routes**: they publish facts without state.

## 7. What is left

Every part with a state of its own has a module, and every safety property of a
passing run is a theorem. Liveness stays with TLC. What would add most from here:

| what | why | obstacle |
|---|---|---|
| `Spec => []Ledger!OneTransaction` in each channel | the promise of the ledger in the words of each table, from the refinement theorem and `LedgerKeepsOne` | a theorem about a specification is not instantiated with state functions by the prover; the invariant has to be proved again under the mapping |
| one composition of custody with a channel that uses it | `CustodyClaims` and its companions are the ledger's actions by inspection | the product is out of TLC's reach; a proof would show that custody's steps, seen by the channel, are those four actions |
