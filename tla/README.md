# A TLA+ model of tiny-shop

tiny-shop is a marketplace in one process: an Axum server over SQLite files
(`catalog.db`, `product.db`, `orders.db`, and `identity.db`, which is not wired in
yet), each owned by one context. The contexts share no transaction. What they owe
each other goes through a transactional outbox and an in-process relay. This
directory models the parts of the program in which something can go wrong between
two steps, checks them with TLC, and proves with TLAPS what the relay, the
projection of the catalog, product extras, the cart and checkout, the orders,
the listings, the filters of a category page, the taxonomy, and the accounts and
sessions guarantee.

## 1. Inventory

| component | source | state | operations |
|---|---|---|---|
| outbox, relay | `crates/db/src/{outbox,relay}.rs` | table `outbox` of each file; the locals of `relay_tick` | `enqueue`, `fetch_unpublished`, `record_failure`, `mark_published`, `relay_tick`, `run_relay` |
| inbox | `crates/db/src/inbox.rs` | table `inbox_processed` | `mark_processed`, which no consumer calls |
| product store | `crates/product/src/repository.rs` | `products` | `create_product`, `update_product`, `set_status`, `delete_product` |
| product extras | `crates/product/src/extras.rs` | `product_attribute_values`, `digital_config`, `digital_variant`, `product_media`, `translations` | ten writes, each with an event |
| catalog projection | `crates/catalog/src/projection.rs` | `product_projection`, `product_attr_index`, `product_fts` | one handler per event |
| catalog search | `crates/catalog/src/search.rs` | none (reads) | `search`, `get_card_by_slug`, `get_card_by_id`; `upsert` and `remove`, not called by the binary |
| taxonomy | `crates/catalog/src/repository.rs` | categories, attributes, options, filters, translations | `create_category`, `create_attribute`, `create_filter`; the lookups of both pages |
| cart | `crates/orders/src/cart_repo.rs`, `crates/web/src/routes/cart.rs`, `cart_cookie.rs` | `carts`, `cart_items`, the browser's cookie | `POST /cart/add`, `/cart/update`, `/cart/remove` |
| checkout, orders | `crates/orders/src/repository.rs`, `crates/web/src/routes/checkout.rs` | `orders`, `order_items`, `order_contact`, outbox | `POST /checkout`, the confirmation page; `create_order` and `add_item`, not called by any route |
| category page | `crates/web/src/routes/category.rs` | none (reads) | breadcrumbs, filters, pages of a listing, the filter form |
| sitemap | `crates/web/src/routes/sitemap.rs` | none (reads) | walk of the categories, pages of the products |
| identity | `crates/identity` | `accounts`, `account_roles`, `sellers`, `sessions`, outbox | registration, roles, seller profiles; `find_by_id`, `authenticate`; sessions: create, verify, revoke one or all. Not wired into the binary (`main.rs:4-6`) |
| payments, shared, views | `crates/payments`, `crates/shared`, `crates/web/src/view` | none | traits, types, layout |

How they interact:

```
seller --> product store/extras --(row + event, one transaction)--> product.outbox
product.outbox --> relay (one task, 300 ms) --> catalog projection --> catalog.db
buyer --> web handlers --> catalog.db (cards), orders.db (cart, order + OrderCreated)
crawler, visitor --> sitemap, category page --> catalog.db (tree, filters, count, page)
administrator --> taxonomy --> catalog.db        accounts, sessions --> identity.db
```

Each file has a single writer connection (`crates/db/src/lib.rs:6`), so a
transaction is one atomic step, and outbox ids are in commit order. Everything
else interleaves: the relay's calls with the sellers' writes, each awaited call
of a handler with those of other requests and with the relay, and a stop of the
process or a dropped connection with all of them.

What makes each component correct, and hard:

* relay: at least once, in order, no event blocks the queue for ever, none is
  given up too soon, under a crash or an error of the outbox at any await.
* projection: once the outbox is drained the catalog shows what the store
  holds, and card, facet index and full-text row agree at every moment, even
  when events come twice, are ignored (`INSERT OR IGNORE`) or rejected (the
  unique slug of the catalog).
* extras: no dangling reference, translations go with what they translate.
* cart and checkout: one currency, nothing lost, what is ordered leaves the
  cart, prices are the catalog's; two tabs, a changing catalog and dropped
  handlers notwithstanding.
* orders: an order, its items, its total, its contact and its event are written
  by up to seven statements and are all there or none; what two queries read of it
  fits together.
* listings: paging ends, and misses and repeats no more than changed meanwhile.
* filters: the page lists exactly the products the parameters ask for.
* taxonomy: siblings have different slugs, roots included; the walk of the tree
  ends and lists everything once; the form has what the search applies.
* identity: a registration is whole; an account is answered from one moment
  although read by two queries; a revoked session never comes back.

The full list of hazards, each with its line and its properties, is in
`PROJECT.json`.

## 2. Modules

| module | models | variables and actions against the code |
|---|---|---|
| `OrderedDelivery` | abstract: what the relay promises a consumer | `fate` of each event; `Settle` delivers or drops the oldest pending one |
| `OutboxRelay` | `outbox.rs`, `relay.rs` | `enqueued`, `published`, `attempts` are the table; `pc`, `src`, `todo`, `delivered` the place and the locals of `relay_tick`; one action per awaited call; `TickError` is `?`, `Restart` a stop of the process; `received`, `outages` and `faults` are history |
| `ProductStore` | `repository.rs`, attribute values of `extras.rs` | `products`, `values`, `log` (all rows of the outbox, with payload); one action per operation; `silent` is history: products whose last change of status had no event |
| `ProductExtras` | the other writes of `extras.rs`, `delete_product` in full | adds `config`, `variants`, `media`, `translations` |
| `CatalogProjection` | `projection.rs` | operators: each handler maps a catalog (the three tables) to a catalog; `Rejects` says when a constraint rolls it back |
| `ProjectionPipeline` | the wiring of `main.rs` | `ProductStore` + `OutboxRelay` (by `INSTANCE`, one source, no event is poison by itself) + `CatalogProjection`; a dispatch is accepted, rejected by a constraint, or fails with the catalog database |
| `CartStore` | `cart_repo.rs` | `carts`, `rows`, `lastRow` (AUTOINCREMENT) |
| `Storefront` | `routes/cart.rs`, `routes/checkout.rs`, `OrderRepo::checkout` | `req[t]` is the place and the locals of the handler of tab t; one action per awaited call; `CatalogChanges` is what the relay does meanwhile; `Drop` ends a handler at any await |
| `OrderBook` | abstract: what the orders repository promises | orders that `Appear` whole, with one event, and that `Extend` |
| `OrderRepo` | `crates/orders/src/repository.rs` | `disk` is what is committed, `tx` the plan of statements still to run and the tables they see (`items` keeps the items of each order by rowid, the order `list_items` reads them in); `Execute`, `Commit`, `Rollback`; `reader` is `get_order_with_items`, two queries |
| `AccountDirectory` | abstract: accounts with their roles, asked and answered in one step | `Ask`, `Answer` between a call and its return |
| `Identity` | `crates/identity/src/{account_repo,session_repo}.rs` | the tables of `identity.db`; `call[c]` is the place and the locals of one call, one action per awaited step; `issued`, `revoked` and `before` are history |
| `Taxonomy` | `crates/catalog/src/repository.rs`, `category_paths`, the queries of the category page | `categories`, `attributes`, `filters`; `request` is the walk (its queue) or the page (what it has read so far), one action per query |
| `ListingPages` | `product_paths` of the sitemap and the "next" links of a category over `search` | `listing` changes by `Enter` and `Leave`; `Count` and `Select` are the two queries |
| `CatalogFilters` | `build_filter_conds`, `push_where` | `asked` is what was typed into which field of the form, `QueryString` the parameters a browser makes of it, whose names are put together from parts as the code does it; `MajorToMinor` is `major_to_minor`; `shown` is the page |
| `OutboxRelay_proofs`, `ProjectionPipeline_proofs`, `ProductExtras_proofs`, `Storefront_proofs`, `OrderRepo_proofs`, `SitePages_proofs`, `CatalogFilters_proofs`, `Identity_proofs` | proofs, about `ListingPages` and `Taxonomy` in `SitePages_proofs`, else about the module of that name | section 5 |

The `MC*` modules give the constants their values and add symmetry. Operators
named `X_Something` next to `X` are mutants: what `X` would be with a plausible
bug. Each is used to show that a property notices that bug, and by nothing else.

Abstractions. A payload is what the properties tell apart: a slug, one text for
title, description and price, a status. Ids are never used twice (ULIDs,
AUTOINCREMENT). A cart is named by its number where the code uses a random token
and its hash. A decimal number is an integer count of parts of 1/`One`; times 100 and
rounded it is what `f64` makes of it, except that half way between two whole numbers
the nearest binary fraction decides (0.015 becomes 2, 0.575 becomes 57), so
`HalvesUp` says which of the bounds half way go up. Reads whose answer cannot change (a cart is never deleted) are part
of the step that follows them. Timestamps, logging and layout are left out.

## 3. Runs

| run | question | bounds |
|---|---|---|
| `relay` | all safety of the relay, refinement of `OrderedDelivery`, every event is published in the end | 2 sources, 3 events each, batch 2, limit 2, one poison event, 2 outages, 2 faults |
| `pipeline` | convergence of the catalog with the store | either 2 products of one seller, 2 slugs, 4 events, 1 fault; or 1 product with values of 2 attributes (one unknown at first), a text and a number, 3 events, 1 outage or 1 fault; or 1 product whose status changes, 3 events, 2 outages (as many as the limit) and 1 fault |
| `extras` | references and translations | 2 products, 1 variant, 1 media, 6 events |
| `storefront` | one tab, full set of properties | 2 products, 2 currencies, 2 carts, quantity up to 2, 2 changes of the catalog |
| `storefront_two_tabs` | what is left of ordered rows when two tabs of one browser order at once | 1 cart, 3 row ids, 2 orders |
| `site_pages` | paging; the walk of the tree and the queries of the category page | paging: 5 products, pages of 2, 3 changes; taxonomy: 3 categories (2 for the page), 2 slugs, 1 attribute, 3 kinds of filter. The two share no table, so each is checked with the other at rest |
| `filters` | filters | 1 product, 2 attributes (`size` and `size_min`, so that names can clash), every filter type, 2 fields filled in, bounds in thousandths: one whole minor unit, one half way to the next, one beyond the half |
| `identity` | registrations, roles, sessions, refinement of `AccountDirectory` | 2 accounts, emails and passwords, 2 roles, 1 token, 1 call beside the writes, 2 ticks |
| `orders` | atomic orders, exact totals, refinement of `OrderBook` | 2 orders, 3 items, 2 currencies, checkouts of up to 3 items, ids repeated or taken included, sums above 3 overflow |

Why the bounds are enough. The relay treats sources alike, and an anomaly of
order or loss concerns two events of one source: three events, a batch of two
and a limit of two make every branch of `relay_tick` happen, at the end of a
batch as well as in its middle. Two products and two slugs are what a conflict
of slugs needs. A race of handlers is between two requests. A filter constrains
one product by itself. A call of identity depends on other calls only through the
tables, and every write is enabled at all its awaits, so one call is enough (and
the proofs are for any number); a session has one token, and nothing relates two
of them but their account. Three categories make a chain of a root, its child and
a grandchild, as well as siblings; three items with prices 1, 2 and 2 make a sum
that overflows and one that just does not. Outages and faults are bounded because a process that stops for ever
publishes nothing, and to keep the state space finite.

### Where the code and its documentation disagree

Three runs have `expect: violation`. Each states what a comment or a test of the
repository says, and TLC shows a run of the code that does otherwise.

| run | the text | what happens |
|---|---|---|
| `pipeline_status` | `projection.rs:5`: the projection lags by less than a second | draft to archived, archived to draft and archived to published have no event: the catalog never learns |
| `pipeline_two_sellers` | `product_repo.rs:127`: another seller may use the slug | the catalog's unique slug makes it ignore the second product |
| `storefront_vanish` | `cart_cookie.rs:51`: the cart was ordered and cleared | a row added during the checkout is cleared without being ordered |

The model shows more of the kind, in ways that need no search and have no run of
their own:

* `set_translation` looks nothing up, so it leaves an orphan after
  `delete_product` (`repository.rs:223` wants none): see `SetTranslation`.
* `remove_variant` under the wrong product deletes the translations of a variant
  that stays (`extras.rs:111`): see `RemoveVariant`.
* Two tabs that add to an empty cart at once both pass the check of the currency
  (`cart.rs:61`); `CartInOneCurrency` is therefore asked of one tab only.
* An `enum_and` value that is asked for twice matches nothing
  (`catalog/src/lib.rs:38`); `FiltersMeanWhatTheySay` does not ask of such a page
  that it list everything.
* The minimum of attribute `x` and the values of attribute `x_min` have one name
  (`category.rs:280`), so what is typed into one field is read for both;
  `FiltersMeanWhatTheySay` leaves out pages on which such fields are filled in.
* A bound of a price is rounded to whole minor units (`category.rs:312`):
  `price_min=0.014` lists what costs 0.01. The property holds a price against the
  bound as typed, to the nearest minor unit and not more closely.
* The projection never consults the inbox, so a redelivered event is applied
  again: an old change of a slug can be rejected because another product has
  that slug by now, is given up, and the card keeps an old slug (`relay.rs:5` and
  `inbox.rs:4` call redelivery harmless). `DrainedCatalogIsCurrent` therefore
  speaks of queues from which no event was given up.
* A redelivery puts the catalog back to an older state for a while: "published" is
  applied again, and if the withdrawal that follows it then fails ten times, it is
  given up although it was delivered before, and the product stays on sale
  (`relay.rs:59`). `NothingWithdrawnOnSale` therefore asks that no withdrawal of the
  product reached the limit.
* A session whose `create` passed its check of the clock is written even if all
  sessions of the account were revoked in between (`session_repo.rs:43`).
* `add_item` compares no currency (`orders/src/repository.rs:95`), and the total
  then adds up different ones: `OrderBook!Extend` allows it.
* A filter may name an attribute of another category; the search applies it and
  the form has no field for it. `PageIsWhole` leaves that case out.
* Two categories under different parents may have one slug, and the page of that
  slug shows whichever comes first (`catalog/src/repository.rs:134`).
* A bound of a price filter that is NaN or infinite saturates (`category.rs:312`).
* Pages shift while the sitemap reads them, so a product published all the time
  can be missing (`sitemap.rs:3`); `MissesAreChanges` bounds how many.

The passing runs say how far the damage goes. `DrainedCatalogIsCurrent` holds
unless an event was given up; `NothingWithdrawnOnSale` holds unless the withdrawal
itself was, whatever else was given up, rejected or changed without an event;
`OrdersInOneCurrency` is proved for any number of tabs: carts can be mixed, but
checkout checks again; `OrderedRowsLeave` says that only a checkout that overlaps another, or
was cut short, can order a row twice; `MissesAreChanges` says that the sitemap
misses at most one product for each change while it is read.

## 4. Fairness

`OutboxRelay!FairSpec` assumes `WF` of the
relay's own steps: `run_relay` is an endless loop in a task of its own, its
errors are logged and not fatal, and the executor polls it again. Nothing is
assumed of sellers, outages or restarts except that the last two are bounded. A
panic inside the task would end it (`main.rs:39-43` only logs that) and is not
modelled.

`MCSitePages!SiteSpec` assumes `WF` of the next query of a request (`Read`, and
`RequestStep` of the taxonomy): the task of a request is polled until it has
answered. Sellers and administrators need do nothing, and may always do something.
`ReadingEnds` and `RequestsEnd` then say that paging and the walk of the tree end.
They end for one reason in the model and in the code: there are finitely many
products and categories, and each category is queued at most once.

Identity and orders have no liveness property: their calls have no loop, and any
caller may leave at any await.

## 5. Proofs

`OutboxRelay_proofs` proves, for every number of sources and events, every batch
size, limit, set of poison events and bound on faults, from `RelayAssumption`
alone:

| theorem | property |
|---|---|
| `TypeCorrect` | `TypeOK` |
| `AtLeastOnce` | `NoSilentLoss` |
| `InOrder` | `NoOvertaking` |
| `DuplicatesBounded` | `DuplicatesComeFromFaults` |
| `ShortOutageIsHarmless` | `ShortOutageLosesNothing` |
| `RelayImplementsDelivery` | `DeliversInOrder` (refinement of `OrderedDelivery`) |

None of the properties is inductive alone. What is missing is what the locals of
`relay_tick` say about the table, and `RelayInv` states it: what `delivered`
names was received; what precedes the head of `todo` is settled (received or
given up), so that the next dispatch cannot overtake; at `dead_letter` the
limit has been reached; a healthy event has no more failed attempts than there
were outages; an event received once more than faults allow is published or in
`delivered`. One lemma per action shows that it preserves `RelayInv`.
`FetchIsPrefix` is the fact about `LIMIT`: a fetched batch is closed downwards
among the unpublished rows. For the refinement, `SettlingStep` shows that the
two steps that change a fate (a committed dispatch, a dead letter) are `Settle`
steps, `FatesUnchanged` that all others stutter.

`Identity_proofs` proves, for every number of accounts,
emails, passwords, roles, tokens, overlapping calls and ticks, from
`IdentityAssumption` (the two roles the code grants exist; `None` is no account
and no row):

| theorem | property |
|---|---|
| `IdentityTypeCorrect` | `TypeOK`, with the foreign keys |
| `RegistrationAtomic` | `RegistrationIsWhole` |
| `RevocationIsFinal` | `RevokedForGood` |
| `VerifyCorrect` | `VerifyIsRight` |
| `IdentityImplementsDirectory` | `AnswersAreAtomic` (refinement of `AccountDirectory`) |

The strengthening is `SessionInv`, which says of every call under way what its
locals mean. A call that is about to insert carries a token nobody else carries
and that was never issued, so that what it writes was never revoked. A session
that was issued has its row until it is revoked, and no longer: so a lookup
that finds nothing was preceded by a revocation. A lookup carries revocations of
the past only. The refinement needs `DirectoryInv`: what the first query of
`find_by_id` and `authenticate` read of an account never changes (no operation
updates or deletes an account: `RowsKept`), so the abstract answer can be taken
at the second query, when the roles are read. For a wrong password the abstract
directory must agree that no account answers, which needs that emails are unique.

`SitePages_proofs` proves of `Taxonomy`, for every finite set of categories and every set of
slugs, attributes and filters, from `TaxonomyAssumption` (that finiteness; the
kinds of filter the page renders are among `price`, `options` and `text`; `None`
is no category):

| theorem | property |
|---|---|
| `TaxonomyTypeCorrect` | `TaxonomyTypeOK`, with the foreign keys and the unique indexes |
| `CategoryPageIsWhole` | `PageIsWhole` |
| `SitemapListsTheTree` | `TreeIsListedOnce` |

All three rest on the fact that the tables only grow: a row is inserted and then
neither changed nor deleted, so what an earlier query of a request saw is still
true at a later one (`TablesGrow`). For the page, `PageOK` keeps the attribute of
every own filter in the tables, so the query that reads the attributes after the
filters finds them all. For the walk, `WalkOK` describes it halfway: the queue is
the tail of what was listed; no category is listed twice; a category comes after
its parent; the children that were there at the start, of every category taken
off the queue, are listed. When the queue is empty, what is listed, with the
categories created since, is closed under "child of" and has all roots; `Rooted`
is the least such set, so it is contained in it.

`Storefront_proofs` proves, for every number of tabs, browsers, products, carts,
rows, orders and changes of the catalog, from `CartAssumption` and
`StorefrontAssumption`:

| theorem | property |
|---|---|
| `StorefrontTypeCorrect` | `TypeOK` |
| `OrdersHaveOneCurrency` | `OrdersInOneCurrency` |
| `OrderedRowsAreCleared` | `OrderedRowsLeave` |
| `PricesAreShown` | `PricesWereShown` |
| `CartHasOneCurrency` | `CartInOneCurrency`, one tab to a browser |
| `CartsInReach` | `RowsReachable`, one tab to a browser |
| `NothingIsLost` | `NothingVanishes`, one tab to a browser |

The first difficulty is that a checkout works on a copy of the cart while other
tabs change it. `StoreInv` says what stays true of the copy: a row id belongs to
one cart and is never given to another row (`OfCart`; AUTOINCREMENT), so what a
checkout listed, and what an order holds, are rows of the cart of that checkout,
whether they are still there or not. Clearing that cart therefore removes every
row of its order (`RowsFollow` says the same of a step: rows change in place, go,
or get a new id). The second is that cards are read one at a time while sellers
change them: `ShownOK` keeps the card of each line, and every card that is on sale
now, among those shown since the checkout began. `OnlyACommit` shows that orders
come from nowhere else. That the next row of a cart exists and is unique
(`FirstIsOne`) rests on the least element of a set of numbers.

The last three theorems assume that no two tabs share a browser. The code does not
enforce this; it is what a shopper with one window does, with any number of other
shoppers beside. Without it they are false: two tabs that add to an empty cart at
once mix currencies and hide each other's cart, and run `storefront_vanish` is the
counterexample to the third. `TabInv` is the strengthening: a request works on the
cart its tab's cookie names, or on one it created for a tab that has none, and what
it has read of that cart is still so (`TabOK`); no two tabs name the same cart
(`OwnCarts`). The work is the frame, `OthersKept`: a step of one tab, a change of the
catalog and the end of a request leave what `TabOK` says of the other tabs.

`SitePages_proofs` proves of `ListingPages`, for every number of products, every page size and
every number of changes, from `ListingAssumption`:

| theorem | property |
|---|---|
| `ListingTypeCorrect` | `TypeOK` |
| `RepeatsBounded` | `RepeatsAreEntries` |
| `MissesBounded` | `MissesAreChanges` |

Everything is about `Pos(listing, p)`, the number of listed products before `p`,
which is what LIMIT and OFFSET go by. A change moves the place of another product
by at most one, and the places of a listing have no gap (`PlaceIsTaken`), so a
page holds as many products as it has places. `ReadInv` then counts: a product
that was given has its place, with the number of times it was given, no further
than the offset and the products that entered; of the products that were there all
the time and lie behind the offset without having been given, there are at most as
many as left. When the reading stops, what lies ahead of it is no more than what
entered since the count (`LittleIsLeft`), because the end was computed from that
count.

`ProjectionPipeline_proofs` proves, for every number of products, sellers,
attributes and events, every batch, limit and bound on faults, from
`StoreAssumption` and `PipelineAssumption`:

| theorem | property |
|---|---|
| `FullTextIsInStep` | `FtsMirrorsProjection` |
| `WithdrawnIsOffSale` | `NothingWithdrawnOnSale` |
| `PipelineTypeCorrect` | `TypeOK` |
| `CatalogCatchesUp` | `DrainedCatalogIsCurrent`, while slugs differ |
| `OneSellerCatchesUp` | `DrainedCatalogIsCurrent`, all products of one seller |

For the full-text row, each handler changes the card or the index of one product
and then writes or deletes that row; `ChangeThenUpsert` shows that this restores the
equation for that product, whatever the other two tables say, and `SameMirror` that
the other products keep it. The relay enters only by handing over members of the log
(`PipelineInv`): which, how often and in what order does not matter.

For what is on sale, order does matter, and `SaleInv` joins three invariants. Of the
store (`LogOK`): if a product is not offered, its last offer in the log has a
withdrawal after it, for `set_status` never leaves "published" silently
(`StoreTells`). Of the relay (`QueueOK`): what precedes the next event is published
or delivered, and only an event that was given up is published before an older one,
so a redelivery goes on from the oldest event to all that follow. Of the catalog
(`SaleOK`): if a product is on sale there, some offer in the log has behind it no
withdrawal that was delivered in this batch or published, save those given up.
A redelivered offer satisfies it again by `QueueOK`, a redelivered withdrawal ends
the sale (`SaleComesFromEvents`). In a drained outbox everything is published, so
the three together leave no place for a withdrawal.

For `DrainedCatalogIsCurrent`, `CurrentInv` says field by field which event of the
log wrote what. Of the store (`LogTells`): the last event that sets the core of a
product (slug and text), its status, or one of its values, says what the store
holds (of the status, unless the product is `silent`). Of the queue (`SeenOK`): if no event was given up, the events
received so far are the first ones of the log. Of the catalog (`Shown`): each field
is what some event `w` says, and no later event that writes this field was passed
(published, or delivered in this batch). In a drained outbox every event is
published, so `w` is the last one. The difficulty is a
redelivery: the catalog goes back to an old slug, and must not be rejected because
another product has that slug now. `SlugsWereFree` excludes it: a slug was free when
it was taken, so a product has it only after the event that let its last holder
leave it, and no event overtakes another. This needs that the store never has two
products with one slug (`SlugsDiffer`), which the store's own index guarantees within
one seller and not between sellers. `CatalogCatchesUp` therefore says: as long as
slugs differ (`Spec /\ []SlugsDiffer`), and `OneSellerCatchesUp` that with one seller
they do. That the hypothesis is needed is what run `pipeline_two_sellers` shows.

`ProductExtras_proofs` proves `ExtrasTypeCorrect` (`TypeOK`, which holds the foreign
keys) and `TranslationsGo` (`DeleteTakesTranslations`) for every number of products,
variants and media. The types are almost inductive; `ExtrasInv` adds that
the tables are functions of the variants and of the media, so that the cascade of a
deletion can be computed.

`OrderRepo_proofs` proves, for every number of orders, items and currencies and
every largest total and length of a checkout, from `OrderAssumption` (finitely many
items, with prices that are natural numbers; `None` is no order and no record):

| theorem | property |
|---|---|
| `OrdersTyped` | `TypeOK`, with the foreign keys and the unique rowids |
| `TotalsFit` | `TotalsAddUp` |
| `ReadersAddUp` | `ReadAddsUp` |
| `OrdersAppearWhole` | `ImplementsOrderBook` (refinement of `OrderBook`) |

A transaction is a list of statements, and halfway its tables satisfy nothing: an
order with no items has the total of all of them, an item is in no total. `TxOK`
therefore names the shapes a running transaction has (`Opening`, `Filling`,
`Contacting`, `Announcing`, `Announced`; `Adding`, `Added`, `Totalled`), and says in
each how its tables differ from the committed ones and what the statements still to
run will add, so that the last shape can be committed and any other rolled back. The
reader (`ReaderOK`) keeps a row that fits the items there were when it was read,
and items are only appended, so those are the first of the items it lists. A sum is
a fold. The library's induction is out of reach, but a single fold has an equation
for one element more, and a least counterexample, a set of numbers, takes the
place of the induction (`SumOfItems`). For the refinement, the commit of a
checkout, of `create_order` and of `add_item` are `Appear` and `Extend`, and
everything else stutters.

`CatalogFilters_proofs` proves `FiltersAreMeant` (`FiltersMeanWhatTheySay`) for every
number of products, attributes, texts, numbers and parameters, every precision of
decimals and either rounding of every half, from `FilterAssumption` (ids are
sequences of strings, prices and numbers integers, `One` is not 0; `None` is no
value, and neither it nor a text is a number). The invariant `PageOK` is that the page
is what `search` returns for the query string and the tables. `OwnFields` says that a
filter reads what was typed into its own fields and nothing else, unless names clash.
`RoundingIsNear` says that the bound in minor units is off by at most half a unit, and
`ExcessGrows` that the next price is a whole unit away: together, that no price more
than half a unit beyond the bound is listed, and every price less than that is. There
is one lemma for each type of filter (`OrMeans`, `AndMeans`, `PriceMeans`,
`GenericMeans`). The one for `enum_and` says why its `HAVING COUNT` can be met at all:
the index has one row for a product and an attribute, so no product has two values,
and none is listed once two different ones, or one twice, are asked for.

Only model-checked: the three liveness properties (`EventuallyPublished`,
`ReadingEnds`, `RequestsEnd`), since liveness under fairness is out of this prover's
reach. Every safety property of a passing run is the property of a theorem above,
four of them under the hypotheses stated there.

## 6. Not modelled

* `CatalogSearch::upsert` and `remove`, called by nothing in the binary: the
  projection writes the same tables by its own statements.
* the text of a full-text query, sorting by price, facets (always empty).
* options and translations of the taxonomy, which change only what a page says;
  `list_by_buyer` of orders and `get_seller` of identity, single queries.
* numbers that are not finite, or so large that `f64` or `i64` cannot hold the bound
  of a price to the minor unit.
* the outbox of orders and of identity beyond the rows written: no relay reads
  them (`main.rs:27`).
* the inbox: `mark_processed` is called by nothing but its test.
* connection pools, migrations, HTML, JSON-LD, payments (a trait only).

## 7. Plan

In this order; all but 13 are done.

1. `OutboxRelay`, `OrderedDelivery`, and the proofs.
2. `ProductStore`, `CatalogProjection`, `ProjectionPipeline`.
3. `ProductExtras`.
4. `CartStore`, `Storefront`.
5. `ListingPages`.
6. `CatalogFilters`.
7. All six theorems about the relay.
8. `Identity`: accounts, roles and sessions; `AccountDirectory` and the refinement.
9. `OrderRepo` statement by statement; `OrderBook` and the refinement.
10. `Taxonomy`: tree of categories, unique constraints, the breadth-first walk and
    the queries of the category page.
11. The theorems about `Identity` and `Taxonomy`.
12. The theorems about `Storefront`, `ListingPages`, `ProductExtras` and
    `ProjectionPipeline`.
13. The full-text query; `upsert` and `remove` next to the projection, when
    something calls them.
14. The theorems about `OrderRepo` and `CatalogFilters`, the drained catalog, and the
    storefront with one tab to a browser.
