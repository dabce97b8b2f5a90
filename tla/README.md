# TLA+ models of the InterUSS DSS store

This directory contains TLA+ models of the Discovery and Synchronization Service (DSS) in this repository, together with the TLC configurations that check them. The DSS is a gRPC server (`src/pkg/dss/server.go`) in front of a CockroachDB store (`pkg/dss/cockroach`). It keeps two kinds of entities:

- **Identification Service Areas (ISAs).** A USS declares that it serves remote-ID data for an area.
- **Subscriptions.** A USS asks to be told when ISAs in an area change.

Areas are turned into sets of S2 cells, and the store indexes every entity by its cells. When an ISA is written, the store increments a `notification_index` on each overlapping subscription of another owner, and it returns those subscribers to the caller so the caller can notify them. Every entity carries a version, derived from `updated_at`. Writers must present the current version (optimistic concurrency).

## 1. Inventory

### Components and how they interact

| Component | Source | State | Operations | Modelled in |
|---|---|---|---|---|
| Subscription store (current) | `src/unnamed/part_001` | `subscriptions` rows (owner, notification_index, updated_at), `cells_subscriptions` | Insert, Update, Delete, Search, Get; helper `pushSubscription` (upsert row, upsert cells, sweep leftovers) | `DSSStore`; its transactions statement by statement in `SubscriptionTx` |
| ISA store and notification | not under `src/` (spec.md 4.D); the entity model `Version` is in `identification_service_area_test.go` | `identification_service_areas`, `cells_identification_service_areas`, `notification_index` of subscriptions | InsertISA, UpdateISA, DeleteISA, SearchISAs | `DSSStore` (spec-modelled actions) |
| Legacy store, 2nd revision | `src/unnamed/part_000` lines 497-1306 | the same four tables, with subscription `begins_at`/`expires_at` | insertSubscription, updateSubscription, GetSubscription, DeleteSubscription, SearchSubscriptions, insertIdentificationServiceAreaUnchecked, DeleteIdentificationServiceArea, Bootstrap | `LegacyStore` |
| Legacy store, 1st revision | `part_000` lines 1-496 | none | none | not modelled: it does not compile and the 2nd revision supersedes it |
| gRPC handlers | `src/pkg/dss/server.go` | none of their own | validate the request, take the owner from the auth context, convert areas to cells, call the store | `DSSServer` (composed with `DSSStore`) |
| Version codec | `part_000` lines 592, 683-698 | none | base-32 `FormatUint`/`ParseUint` of UnixNano; `versionOK`, and the version checks of `updateSubscription` and `DeleteSubscription` | `VersionCodec`, checked against spec.md 6's format |
| Geo coverer | `identification_service_area_test.go` lines 470-600 | none | `AreaToCellIDs` (with `splitAtComma`), `Volume4DToCellIDs`/`Volume3DToCellIDs`/`GeoPolygonToCellIDs`, `Covering`, `maxLoopArea` | `GeoCoverer`, checked against spec.md 4.A. `DSSServer` takes its outcomes as inputs: a covering, a dsserr BadRequest (`BadShape`), or a raw ParseFloat error (`BadNumber`). |
| Mains, deploy scripts, Helm | `part_002`, `part_003`, `src/deploy` | none | flag parsing, dialing, templates | not modelled: pure I/O or configuration |

Here is how a request flows. A handler calls exactly one store method. That method opens one transaction, which CockroachDB runs serializably. An ISA write reads the subscription cell index, writes subscription rows (`notification_index`, `updated_at`), and writes its own rows. That is the one place where the two entity kinds interact.

### Behaviours that make this code hard

- **Interleaving of writers.** Subscription writes, ISA writes and their notification increments run in any order. Each one is atomic only because it runs in a single serializable transaction.
- **Version tokens.** A version is `transaction_timestamp()` stored as microsecond TIMESTAMPTZ. Two commits on one row can therefore share a version.
- **The cell index.** It must follow every change of cells. That requires the leftover sweep after the upsert, plus the delete cascade.
- **Notification counter.** It is an INT4, and every increment must also refresh the row's version.
- **Error paths.** Every early return must roll back. Two paths in the current store do not (see hazards).

## 2. Plan

Modules are listed with the most important behaviour first. Each step composes with or refines the one before it.

1. **`DSSStore`** (done). This is the current store: the subscription operations translated from `part_001`, and the ISA operations taken from spec.md 4.D. It is checked by the passing run `store_core` and by three violation runs. It is also shown to implement `DSSAbstract`.
2. **`LegacyStore`** (done). This is the 2nd revision of the store. It is checked against the spec's ownership rule by one violation run (`legacy_owner`). Its other defects are kept as hazards.
3. **`VersionCodec`** (done). The legacy store's base-32 codec and the two version checks that read it, as pure operators checked against spec.md's version format over every bounded string. The store modules keep the timestamp itself as the version; this module checks the strings in between.
4. **`DSSServer`** (done). Every handler of `server.go` over `INSTANCE DSSStore`, with the auth interceptor in front. It shows that `PutSubscription`/`PatchSubscription` never persist and that some errors escape spec.md's kinds.
4a. **`SubscriptionTx`** (done). The subscription transactions at the grain of their SQL statements, with write intents and concurrent callers. It checks that every call returns, and it shows the leaked transaction (no rollback on a `pushSubscription` error).
5. **`DSSAbstract`** (done). The store's contract over whole entities. `DSSStore` is shown to implement it by INSTANCE ... WITH a refinement mapping (the cell index mapped to entity cells), checked as the PROPERTY `ImplementsAbstract` of `store_core`.
6. **`GeoCoverer`** (done). The conversions from an area string or a wire polygon to cells, as pure operators checked against spec.md 4.A's definition over every bounded input. `DSSServer` takes their outcomes as inputs rather than instancing the module, because the handlers see only the outcome and the server run is already the largest.

## 3. Modules

### `DSSStore` / `MCDSSStore`

**State.** The variables mirror the tables:

- `subs` and `isas`: id mapped to a row or `NoRow`.
- `cellsSubs` and `cellsIsas`: sets of `<<cell, id>>` pairs.
- `clock`: the last transaction timestamp.
- `req` and `resp`: the latest request and reply, used only for observation.
- `spent`: a history variable holding the versions that once named a now-gone state of an id.

**Actions.** Each store method is one action, in which every branch of the code's error switch is a disjunct:

- `GetSubscription`, `InsertSubscription`, `UpdateSubscription`, `DeleteSubscription` and `SearchSubscriptions` come from `part_001`.
- `PushSubscription` covers the whole of `pushSubscription`: upsert the row, then `UpsertCells`, then `SweepLeftover`.
- `FetchSubscriptionsByCellsWithoutOwner` is the code's LEFT JOIN. Its WHERE clause tests only the owner, so the model ignores cells exactly as the query does.

**ISA actions.** `PushISA`, `InsertISA`, `UpdateISA`, `DeleteISA` and `SearchISAs` (with `GetISA`, which the server calls) are modelled from spec.md and marked `spec_modelled` in `PROJECT.json`. Their notification uses the same fetch helper. They refresh `updated_at` of every notified subscription. An increment beyond `NotifMax` (the INT4 range) makes the whole transaction fail.
`UpdateISA` pushes `Apply(old, overlay)`, translated from `IdentificationServiceArea.Apply` in the entity model: ID and Owner stay the receiver's, and the overlay's Cells replace the old ones. The URL, time range and altitudes are abstracted.

**Version ties.** `TiesPossible` selects whether a commit may reuse the current timestamp (a microsecond tie) or must take a strictly larger one.

### `LegacyStore` / `MCLegacyStore`

This module models the 2nd revision of the store (`part_000`):

- Subscription rows carry `begins_at`/`expires_at`, where `Null` stands for SQL NULL, together with the table's CHECK constraint.
- `applyProtobuf` overwrites the owner.
- `versionOK` accepts the empty version.
- The ISA delete follows the code's three queries:
  1. The LEFT JOIN of the ISA's cells with subscriptions. A NULL subscription id fails the scan.
  2. The owner-checked DELETE. Its error is dropped, and the next query fails on the finished transaction.
  3. The subscriber query, whose WHERE clause has the AND/OR precedence the SQL gives it.

### `DSSAbstract` and the refinement

`DSSAbstract` states what the store promises, over entities rather than tables. Its state has three parts:

- `ent`: for each id, the entity's owner, cells, version and notification index, or `NoEntity`.
- `now`: the latest version handed out.
- `call`: the owner and the version of the latest call.

It has these actions:

- `Refused`: a read or a refused call, which changes nothing.
- `CreateSubscription`, `ModifySubscription` and `RemoveSubscription`.
- `WriteISA` and `RemoveISA`.

Only the owner changes an entity. A change names the entity's current version, and a removal may instead give the empty version. Every write takes a version later than `now`. An ISA write notifies a set of other owners' subscriptions. That set contains every one whose cells meet the ISA's old or new cells. Each notified subscription grows its index by one, within `NotifMax`, and takes the write's version.

`DSSStore` defines the refinement mapping `Abstract == INSTANCE DSSAbstract WITH ...`:

- an entity is its row plus the cells of its index rows (`AbstractEntity`);
- `now` is the transaction clock;
- `call` is `<<req.owner, req.version>>`.

The property `ImplementsAbstract == Abstract!Spec` is checked in `store_core`. It passes. The contract allows over-notification, so the LEFT JOIN that notifies every foreign subscription refines it. Exact notification is checked by the violation run `store_cell_queries`.

### `DSSServer` / `MCDSSServer`

This module models `server.go`. It declares the variables of `DSSStore` again and takes the store's actions from `Store == INSTANCE DSSStore`, so each handler step is one store step and one reply.

- **Interceptor.** `AuthScopes` is the table of `Server.AuthScopes`. `Authorized` is the interceptor, which is not in the repository. It is modelled from spec.md: a call is admitted when the caller's token holds every listed scope. A method missing from the table (`GetSubscription`) needs no scope. `ScopesOf` gives each caller its token's scopes.
- **Callers.** The callers are the owners plus `NoOwner`, a token without an owner. Each handler that calls `auth.OwnerFromContext` refuses `NoOwner` with PermissionDenied.
- **Requests.** An area or an extents value is a covering (a set of cells) or one of its failure modes. `BadShape` stands for a wrong coordinate count, which gives a dsserr BadRequest. `BadNumber` stands for a coordinate that does not parse, which gives a raw strconv error. `NoParams` stands for missing params. Versions come from `Store!Versions`, or are `NoVersion` for an empty string. Time bounds are absent, valid or invalid.
- **Handlers.** Each handler is one action whose disjuncts are its early returns, in the code's order, and its store call. The reply `rpc` records the method, the caller, the error kind and the version.
- **Handlers without a store call.** `PutSubscription` and `PatchSubscription` validate and answer without calling the store, exactly as the code does.

### `GeoCoverer` / `MCGeoCoverer.cfg`

This module models the geo conversions at the end of `identification_service_area_test.go` as operators. Each of the two conversions is one action of a one-step specification: `ConvertArea` and `ConvertExtents`. `Init` picks the argument and the area its loop spans; the action records the outcome. The system then stops, which is why the cfg says `CHECK_DEADLOCK FALSE`.

- **Area strings.** An area string is a sequence of characters of three kinds: `"d"` (a digit), `"i"` (the word Inf or NaN) and `","`. Spaces are left out, since `strings.TrimSpace` drops them around each field.
- **`AreaToCellIDs`.** This operator keeps the code's order:
  1. `NumCoords` is `strings.Count(area, ",") + 1`. If it is odd, the result is `errOddNumberOfCoordinatesInAreaString`.
  2. If `NumCoords / 2 < 3`, the result is `errNotEnoughPointsInPolygon`.
  3. `Scan` is the `bufio.Scanner` with `splitAtComma` (RECURSIVE). It drops an empty text after the last comma.
  4. `ParseFloat` is applied to every token. A failure returns strconv's own error (`"ParseError"`).
  5. The lat,lng pairs become points, and an unpaired last lat joins none.
  6. `Covering` is applied to the loop.
- **`Volume4DToCellIDs`.** It walks the nil checks of the 4D, 3D and polygon messages, then calls `Covering`.
- **Geometry.** S2 geometry is an input:
  - A loop of three or more finite vertices spans one of `SqMiSamples` square miles.
  - S2 gives a loop of fewer than three vertices area 0.
  - A non-finite vertex gives area NaN, and Go's comparisons with NaN are false.
- **Arithmetic.** `maxLoopArea` and the loop area are exact rationals `[num, den]`, with `math.Pi` approximated as 355/113. Both are scaled by `sqMiEarth`, which cancels in every comparison and keeps the products within TLC's 32-bit integers.

The reference `SpecAccepts` is spec.md 4.A. The fields are the text between the commas. An area is accepted when the number of fields is even, there are three vertices or more, every field is a finite float, and the area is more than 0 and at most 1000 square miles. `ConversionsMatchSpec` says that the conversions return cells exactly when `SpecAccepts` holds.

### `VersionCodec` / `MCVersionCodec.cfg`

This module models the legacy store's version strings (`part_000` 592, 683-698) and the two checks that read them. Like `GeoCoverer` it is a one-step specification: `Init` picks the row's `updated_at` and a call, and `CheckUpdate` or `CheckDelete` records the outcome (`CHECK_DEADLOCK FALSE`).

- **Characters.** A character is a base-32 digit with its value and, for the letters a-v, its case; `Other` is anything else.
- **`FormatUint`** (RECURSIVE, `\div` and `%`) gives the lower-case digits without leading zeros. **`ParseUint`** (a `FoldLeft`) accepts either case and leading zeros, and fails on the empty string or an `Other`.
- **`CheckUpdate`** is the `versionOK` case of `updateSubscription`'s switch: the empty string or the row's own string passes, and anything else is the `fmt.Errorf` mismatch.
- **`CheckDelete`** is `DeleteSubscription`'s switch: the empty string runs the blind DELETE; any other string is parsed (a parse error is returned as is), and the DELETE matches the row only when `updated_at` equals the parsed instant.

`VersionChecksSound` ties the formatting to the two readers. A non-empty version that either check accepts parses to the row's current `updated_at`, so no stale or foreign version passes, whatever its spelling. The row's own version, `FormatUint(updated_at)`, is accepted by both checks. The empty version is left out: spec.md 4.D allows it only as a forced delete, and the legacy update's acceptance of it is the owner takeover `legacy_owner` already shows. The two checks do not accept the same strings: `ParseUint` also takes a leading zero (`"01"`) or upper-case letters (`"V"`) where the string compare refuses them. Such a string still names the current instant, so this is no lost update and is not checked.

### `SubscriptionTx` / `MCSubscriptionTx` and `AtomicSubscriptions`

`SubscriptionTx` models the three write transactions of `part_001` statement by statement:

- `Call` is `c.Begin()`.
- `Fetch` is the fetch and its error switch.
- `PushSubscription`, `ExecDelete`, `Commit` and `Rollback` are as named.

A row is `Absent` or carries a version. Versions are compared only for equality, so a commit takes any version not in use. The database contributes two behaviours:

- **Write intents.** A write leaves an intent on the row. Another transaction's read or write of that row waits until the intent is resolved.
- **Read refresh.** `read[c]` is the row the caller's fetch read, kept until the call returns. A commit whose row no longer equals `read[c]` fails and aborts. This is CockroachDB's serializable read refresh.

`FetchGoesOn` is the switch on the fetched row: an insert goes on when no row is found, an update or delete when the row is found with the caller's version.

With `PushMayFail`, a statement of `pushSubscription` may fail. The code then returns without `tx.Rollback()`. If the row UPSERT had run, the row's intent becomes `Leaked`. `c.Begin()` takes no context, so no request deadline aborts the transaction.

`AtomicSubscriptions` is the view `DSSStore` takes of the same calls. Each call either takes effect in one step (`Apply`, when the id is free for an insert, or when the row has the presented version for an update or delete) or fails and changes nothing. `SubscriptionTx` maps to it with `busy[c]` = the caller's call while it is in a Store method. `CallsAreAtomic == Atomic!Spec` checks that the statement-level interleavings implement atomic calls, which justifies the one-step actions of `DSSStore`.

## 4. Runs

| Run | Expect | Shows |
|---|---|---|
| `store_core` | pass | The store implements `DSSAbstract` (`ImplementsAbstract`) and keeps four properties under every interleaving of the ten operations by two owners: `TypeOK`, `CellIndexExact` (the index equals the last written cells, and no orphans), `VersionNeverReused`, and `NotificationCounterDiscipline` (a counter moves only by +1, only in a foreign ISA write, and only when that write reports it). |
| `store_cell_queries` | violation | `CellQueriesExact` (both queries that join the cell index answer exactly the subscriptions indexed in the given cells: an ISA mutation's notified set, and a search's result): a search of c2 returns the owner's subscription indexed only in c1. The cause is the LEFT JOIN, which `fetchSubscriptionsByCellsWithoutOwner` shares, so an ISA in c2 also notifies a subscription that is only in c1. |
| `store_force_delete` | violation | `DeleteWithEmptyVersionForces`: the empty version is refused as a mismatch, although spec.md 4.D says it forces the delete. |
| `store_version_ties` | violation | `VersionNeverReused` with `TiesPossible = TRUE`: an update committed in the same microsecond as the previous write gives the new state the old version. |
| `legacy_owner` | violation | `OnlyOwnerMutates` (an action property: a changed or deleted subscription row was the caller's, and keeps its owner): owner `o1` inserts `s1`, then `o2` updates it with the empty version and `s1` becomes `o2`'s. `updateSubscription` fetches by id alone and `applyProtobuf` copies the caller's owner. |
| `server_core` | pass | Under any sequence of the ten RPCs, by two owners with write scope, one read-only owner and a caller without owner: `OnlyWritersChangeISAs` (no ISA changes unless the caller's token holds the write scope) and `OwnerIsolation` (an RPC never creates, moves or deletes another owner's entity). A superseded ISA version is covered at the store by `VersionNeverReused`. |
| `server_put_subscription` | violation | `PutSubscriptionPersists`: PutSubscription answers OK, and the subscription does not exist. |
| `server_error_kinds` | violation | `RepliesUseSpecErrors` (every error is the spec.md 7 kind of its cause, and a malformed search area is BadRequest): SearchIdentificationServiceAreas reports a malformed area as Internal. The same property also fails on the error values returned as is: `sql.ErrNoRows` and strconv's error, both of which clients see as Unknown. |
| `version_codec` | pass | `VersionChecksSound`, over all 3,081 strings of up to 2 characters and 4 timestamps: every non-empty version that `updateSubscription` or `DeleteSubscription` accepts names the row's current `updated_at`, and the row's own version passes both. |
| `geo_area_limit` | violation | `ConversionsMatchSpec`, over all 9,840 area strings of up to 8 fields, every Volume4D with up to 3 vertices, and 6 loop sizes: a well-formed triangle of 102 square miles is refused. `maxLoopArea` multiplies by pi/4 where spec.md divides by 4 pi, so the limit is about 101 square miles instead of 1000. With every sample at most 101 square miles, TLC instead finds `d,d,d,d,d,i` accepted: ParseFloat takes Inf, and a NaN area passes both of `Covering`'s tests. With Inf also left out of the alphabet, TLC finds the trailing-comma case: `d,d,d,d,d,d,d,` is covered as a triangle. |
| `tx_liveness` | pass | `CallsReturn`: with no failing statement, every call of two contending callers on two ids returns. `CallsAreAtomic`: the statement-level transactions implement `AtomicSubscriptions`, so two inserts of one id, or two updates with one version, never both take effect. |
| `tx_leak` | violation | `CallsReturn` with `PushMayFail = TRUE`: a failed `pushSubscription` leaves an intent, and a later call on that id waits forever. `CHECK_DEADLOCK FALSE`, since the stuck state is exactly what the run reports. |

`PROJECT.json` lists a mutant for every property of the passing runs. Each mutant is a plausible slip in the code that the property must catch:

| Mutant | Catches | Property that fails |
|---|---|---|
| Unchecked INT4 increment | the counter passes the INT4 range | `TypeOK` |
| Skipped sweep | the index keeps cells the entity left | `CellIndexExact` |
| Commit timestamp from a coarser clock | a version names two states | `VersionNeverReused` |
| Fetch that drops the owner filter | the ISA's owner gets notified | `NotificationCounterDiscipline` |
| Upsert that keeps the row's old `updated_at` | an update keeps its version | `ImplementsAbstract` |
| Commit that keeps its write intent | a waiting caller never returns | `CallsReturn` |
| Fetch switch that ignores the caller's version | an update with a stale version takes effect | `CallsAreAtomic` |
| `PutIdentificationServiceArea` granted to the read scope | a reader writes ISAs | `OnlyWritersChangeISAs` |
| Fetch by id that ignores the owner | one owner overwrites another's ISA | `OwnerIsolation` |
| Version formatted from a truncated instant | a version naming another instant is accepted | `VersionChecksSound` |

### Bounds

`MCDSSStore` uses 2 subscriptions, 1 ISA, 2 owners, 2 cells, `MaxClock = 3` and `NotifMax = 1`. These bounds are enough because:

- Every property concerns at most two entities of different owners and two distinct cell sets, which is what a change of cells needs.
- Three timestamps allow write, then notify, then a stale write.
- `NotifMax = 1` makes the INT4 boundary reachable in one ISA write.

Symmetry over ids, owners and cells is sound, because no property or action names a particular value. `MaxClock = 4` also passes, but takes almost 4 minutes. The legacy run uses the same sets without symmetry.

`MCDSSServer` uses 1 subscription, 1 ISA, 3 owners (`o3` read-only), the owner-less caller, 2 cells, `MaxClock = 3` and `NotifMax = 1`. One ISA is enough: every server property is about one entity and two callers. A third owner gives a caller who owns nothing and cannot write. Symmetry permutes the two writing owners and the cells. The run reaches about 55,000 distinct states in about 90 seconds.

`MCGeoCoverer.cfg` enumerates every area of up to 8 fields. Eight fields is the fewest that reach the trailing-comma case: seven coordinates and an empty last field. It also enumerates every polygon of up to 3 vertices, which is one past the three-vertex minimum. The six sizes (0, 50, 101, 102, 1000, 1001 square miles) straddle 0, the code's limit (1000/pi^2, about 101.3) and the spec's limit. The run reaches about 81,000 states in a second.

`MCVersionCodec.cfg` enumerates every string of up to 2 characters over the 54 base-32 digits (both cases) and one other character, against the timestamps 1, 31, 32 and 330 (`"1"`, `"v"`, `"10"`, `"aa"`). Two characters are the fewest that carry a leading zero and a two-digit version. The samples cover one and two digits, a digit and a letter, and the carry at 32. Strings of 13 digits would be needed to reach ParseUint's int64 boundary, far beyond TLC's 32-bit integers; the values reachable here never meet it. The run reaches about 25,000 states in a second.

`MCSubscriptionTx` uses two callers, two ids and five versions. Two callers are the least that contend. The second id lets a caller keep working while the other waits on a held or leaked intent. Five versions cover the two rows and the two versions callers hold, with one left for a commit. The run reaches about 60,000 states in about 45 seconds. No symmetry is used, because symmetry is unsound for liveness checking. Three callers on one id, with five versions, did not finish within ten minutes: the strong-fairness check over the behaviour graph grows too fast, so the third contender is left to the one-step `DSSStore` runs, where any number of calls interleave.

### Fairness

`DSSStore` and `DSSServer` check only safety properties and assume no fairness.

`SubscriptionTx` assumes the following, per caller:

- **Strong fairness** for `Fetch`, `PushSubscription` and `ExecDelete`. A statement blocked by another transaction's intent sits in CockroachDB's lock wait queue, and it is served once the intent is resolved, even if other transactions take the row in between. Weak fairness would not be enough, because the statement is disabled each time another caller holds the intent.
- **Weak fairness** for `Commit`, which nothing blocks.
- **No fairness** for `Call`, since nothing obliges a client to call.

Under these assumptions `CallsReturn` holds when every statement succeeds. It fails only through the leak.

## 5. Not modelled

- **Left out deliberately:**
  - URLs, altitudes, types filters and the wire formats.
  - The time windows of the current store, which no operation in `src/` filters on.
  - The S2 covering geometry: which cells `RegionCoverer` picks, and the area a loop spans, which `GeoCoverer` takes as an input. Loop orientation is also left out: S2 gives a clockwise loop the complement's area, so it is refused as too large.
- **Abstracted:**
  - The auth interceptor (not in the repository) is modelled from spec.md.
  - Inside `DSSServer`, area conversion is reduced to its outcomes (`GeoCoverer` models the conversion itself).
  - `ToProto` is reduced to the version it reports, and `Apply` to the cells (ID and Owner are never overlaid).
  - Retryable errors (CockroachDB's serialization restarts) appear only as `PushMayFail`.
  - Version strings appear only in `VersionCodec`, bounded to 2 characters. ParseUint's 64-bit range check and the int64 conversion are left out: they need 13 digits, and both checks refuse such strings anyway. CockroachDB's rounding of the nanosecond parameter of the legacy DELETE to the column's microseconds is left out too. The current `models.Version` is not under `src/`, so `DSSStore` and `DSSServer` use the timestamp itself as the version.
  - The legacy store's self-notification and ISA-delete defects, and the old cells `updateSubscription` leaves indexed (TODO at line 864), are modelled in `LegacyStore` and listed as hazards, but only its owner takeover has a run.
- **Not modelled at all:**
  - The 1st legacy revision, which does not compile.
  - The mains and the deployment files.
- **Read-only operations** are actions too (`GetSubscription`, `SearchSubscriptions` in both stores), so their replies can be related to the state; of the legacy store only `Close` and the test teardown `cleanUp` are left out.
