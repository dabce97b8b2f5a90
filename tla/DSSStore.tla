------------------------------ MODULE DSSStore ------------------------------
(***************************************************************************)
(* The CockroachDB-backed store of the DSS (pkg/dss/cockroach): the        *)
(* subscriptions and identification_service_areas tables, the two          *)
(* cell-index tables cells_subscriptions and cells_identification_service_ *)
(* areas, and the store operations that change them.                       *)
(*                                                                         *)
(* Every store operation runs in one SQL transaction.  The backend is      *)
(* serializable, so a committed transaction is one atomic step here; an    *)
(* operation that fails rolls back and changes nothing but its reply.      *)
(*                                                                         *)
(* Subscription operations are translated from src/unnamed/part_001.  The  *)
(* ISA operations (InsertISA, UpdateISA, DeleteISA, SearchISAs) are not in *)
(* src/; they are modelled from spec.md 4.D and reuse the code's own       *)
(* helpers: fetchSubscriptionsByCellsWithoutOwner (part_001) for the       *)
(* affected subscribers and IdentificationServiceArea.Apply/Version        *)
(* (models, in identification_service_area_test.go).                       *)
(*                                                                         *)
(* Abstracted: URLs, altitudes, the time windows of ISAs and subscriptions *)
(* (no operation of the code in src/ filters on them) and the wire format. *)
(* A version is the updated_at timestamp itself: its base-32 rendering of *)
(* UnixNano is injective, so comparing versions compares timestamps.       *)
(***************************************************************************)
EXTENDS Naturals, FiniteSets

CONSTANTS
    SubIds,        \* subscription ids (UUIDs)
    IsaIds,        \* ISA ids (UUIDs)
    Owners,        \* USS identities taken from the auth context
    Cells,         \* S2 cell ids a covering may contain
    MaxClock,      \* bound on transaction timestamps (bounds the model)
    NotifMax,      \* largest value of the INT4 notification_index column
    TiesPossible,  \* can two commits on one row share an updated_at value?
    NoRow,         \* an absent row
    NoVersion      \* the empty version string ""

ASSUME SubIds \cap IsaIds = {}
ASSUME MaxClock \in Nat \ {0} /\ NotifMax \in Nat
ASSUME TiesPossible \in BOOLEAN

VARIABLES
    subs,       \* subscriptions table: id -> row or NoRow
    cellsSubs,  \* cells_subscriptions: set of <<cell_id, subscription_id>>
    isas,       \* identification_service_areas table: id -> row or NoRow
    cellsIsas,  \* cells_identification_service_areas: <<cell_id, isa_id>>
    clock,      \* the latest transaction_timestamp() handed out
    req,        \* the request of the latest operation
    resp,       \* the reply of the latest operation
    spent       \* history: versions that named an earlier state of an id

store == <<subs, cellsSubs, isas, cellsIsas, clock>>
vars  == <<subs, cellsSubs, isas, cellsIsas, clock, req, resp, spent>>

Ids        == SubIds \cup IsaIds
Timestamps == 1..MaxClock
Versions   == Timestamps \cup {NoVersion}
CellUnions == SUBSET Cells \ {{}}   \* a covering of a valid area is nonempty

SubRow == [owner : Owners, notif : 0..NotifMax, updatedAt : Timestamps]
IsaRow == [owner : Owners, updatedAt : Timestamps]

Ops == {"GetSubscription", "InsertSubscription", "UpdateSubscription", "DeleteSubscription",
        "SearchSubscriptions", "InsertISA", "UpdateISA", "DeleteISA",
        "GetISA", "SearchISAs", "None"}
IsaMutations == {"InsertISA", "UpdateISA", "DeleteISA"}
Errs == {"OK", "AlreadyExists", "NotFound", "ErrNoRows", "Errorf", "VersionMismatch",
         "BadRequest", "Internal"}

(***************************************************************************)
(* Helpers over the tables.                                                *)
(***************************************************************************)
\* The cells the index table holds for entity id.
IndexCells(tbl, id) == {c \in Cells : <<c, id>> \in tbl}

\* Entity.Version(): VersionFromTimestamp(UpdatedAt).
Version(row) == row.updatedAt

\* Defect: a version taken from a coarser clock (say, truncated to the
\* second), which a later commit on the row may repeat.
TxTimestampsCoarse == {clock, clock + 1} \cap Timestamps

\* transaction_timestamp() of a new writing transaction.  CockroachDB stores
\* it in a TIMESTAMPTZ column, so two commits on one row within the same
\* microsecond get the same value; TiesPossible admits that outcome.
TxTimestamps ==
    IF TiesPossible THEN {clock, clock + 1} \cap Timestamps
                    ELSE {clock + 1} \cap Timestamps

\* Defect: the row is fetched by id alone, as the earlier store did.
FoundByIDIgnoringOwner(tbl, id, owner) == tbl[id] # NoRow

\* fetchSubscriptionByIDAndOwner / fetchISAByIDAndOwner: a row exists and is
\* owned by owner (a foreign row is indistinguishable from no row).
FoundByIDAndOwner(tbl, id, owner) == tbl[id] # NoRow /\ tbl[id].owner = owner

\* The UPSERT of one index row per cell of the entity.
UpsertCells(tbl, id, cells) == tbl \cup {<<c, id>> : c \in cells}

\* Defect: the leftover sweep is not run (the TODO of the earlier store).
SweepLeftoverSkipped(tbl, id, cells) == tbl

\* deleteLeftOverCells...Query: drop the entity's rows whose cell is not in
\* cells.
SweepLeftover(tbl, id, cells) == {p \in tbl : p[2] = id => p[1] \in cells}

\* ON DELETE CASCADE from the entity table to its cell-index table.
CascadeDelete(tbl, id) == {p \in tbl : p[2] # id}

\* Defect: the owner filter of the affected-subscribers query is lost.
FetchSubscriptionsIgnoringOwner(cells, owner) ==
    {s \in SubIds : subs[s] # NoRow}

\* fetchSubscriptionsByCellsWithoutOwner.  The query LEFT JOINs the
\* subscriptions on the ids found in cells and filters only on the owner,
\* so every subscription not owned by owner is returned, whatever its cells.
FetchSubscriptionsByCellsWithoutOwner(cells, owner) ==
    {s \in SubIds : subs[s] # NoRow /\ subs[s].owner # owner}

Request(op, id, owner, version, cells) ==
    req' = [op |-> op, id |-> id, owner |-> owner, version |-> version,
            cells |-> cells]

Reply(err, subscribers, found) ==
    resp' = [err |-> err, subscribers |-> subscribers, found |-> found]

Fail(err) == Reply(err, {}, {}) /\ UNCHANGED store

\* Defect: the row is upserted with the updated_at it carries (the
\* caller's) instead of transaction_timestamp().
PushSubscriptionKeepingVersion(id, row, cells, ts) ==
    /\ subs' = [subs EXCEPT ![id] = row]
    /\ cellsSubs' = SweepLeftover(UpsertCells(cellsSubs, id, cells), id, cells)
    /\ clock' = ts

(***************************************************************************)
(* pushSubscription: upsert the row with updated_at set to the transaction *)
(* timestamp, upsert one index row per cell, then sweep the leftover index *)
(* rows.  The returned entity carries the cells passed in, not the index.  *)
(***************************************************************************)
PushSubscription(id, row, cells, ts) ==
    /\ subs' = [subs EXCEPT ![id] = [row EXCEPT !.updatedAt = ts]]
    /\ cellsSubs' = SweepLeftover(UpsertCells(cellsSubs, id, cells), id, cells)
    /\ clock' = ts

\* InsertSubscription: AlreadyExists if a row has the id, else push it.
InsertSubscription(id, owner, cells) ==
    /\ Request("InsertSubscription", id, owner, NoVersion, cells)
    /\ \/ /\ subs[id] # NoRow
          /\ Fail("AlreadyExists")
       \/ /\ subs[id] = NoRow
          /\ \E ts \in TxTimestamps :
                PushSubscription(id, [owner |-> owner, notif |-> 0,
                                      updatedAt |-> ts], cells, ts)
          /\ Reply("OK", {}, {})
          /\ UNCHANGED <<isas, cellsIsas>>

\* UpdateSubscription: NotFound unless owned by owner; VersionMismatch unless
\* the caller's version is the row's; else push old.Apply(s), which keeps
\* the old owner and notification_index and takes the new cells.
UpdateSubscription(id, owner, version, cells) ==
    /\ Request("UpdateSubscription", id, owner, version, cells)
    /\ \/ /\ ~FoundByIDAndOwner(subs, id, owner)
          /\ Fail("NotFound")
       \/ /\ FoundByIDAndOwner(subs, id, owner)
          /\ version # Version(subs[id])
          /\ Fail("VersionMismatch")
       \/ /\ FoundByIDAndOwner(subs, id, owner)
          /\ version = Version(subs[id])
          /\ \E ts \in TxTimestamps : PushSubscription(id, subs[id], cells, ts)
          /\ Reply("OK", {}, {})
          /\ UNCHANGED <<isas, cellsIsas>>

\* DeleteSubscription: sql.ErrNoRows unless owned by owner; a plain
\* fmt.Errorf "version mismatch" (no dsserr kind) unless version equals the
\* row's version (the empty version never does);
\* else DELETE, which cascades to cells_subscriptions.
DeleteSubscription(id, owner, version) ==
    /\ Request("DeleteSubscription", id, owner, version, {})
    /\ \/ /\ ~FoundByIDAndOwner(subs, id, owner)
          /\ Fail("ErrNoRows")
       \/ /\ FoundByIDAndOwner(subs, id, owner)
          /\ version # Version(subs[id])
          /\ Fail("Errorf")
       \/ /\ FoundByIDAndOwner(subs, id, owner)
          /\ version = Version(subs[id])
          /\ subs' = [subs EXCEPT ![id] = NoRow]
          /\ cellsSubs' = CascadeDelete(cellsSubs, id)
          /\ Reply("OK", {}, {})
          /\ UNCHANGED <<isas, cellsIsas, clock>>

\* GetSubscription: fetchSubscriptionByID outside a transaction; no row is
\* sql.ErrNoRows.
GetSubscription(id) ==
    /\ Request("GetSubscription", id, NoRow, NoVersion, {})
    /\ \/ /\ subs[id] = NoRow
          /\ Fail("ErrNoRows")
       \/ /\ subs[id] # NoRow
          /\ Reply("OK", {}, {id})
          /\ UNCHANGED store

\* SearchSubscriptions: BadRequest on no cells; else the LEFT JOIN query,
\* which keeps every subscription of owner.
SearchSubscriptions(cells, owner) ==
    /\ Request("SearchSubscriptions", NoRow, owner, NoVersion, cells)
    /\ \/ /\ cells = {}
          /\ Fail("BadRequest")
       \/ /\ cells # {}
          /\ Reply("OK", {}, {s \in SubIds : subs[s] # NoRow
                                            /\ subs[s].owner = owner})
          /\ UNCHANGED store

(***************************************************************************)
(* ISA mutations (spec.md 4.D; the store code is not under src/).  Each    *)
(* computes the affected subscribers over the old and the new cells of the *)
(* ISA with fetchSubscriptionsByCellsWithoutOwner, and in the same         *)
(* transaction increments their notification_index and refreshes their    *)
(* updated_at.  An increment past the INT4 column's range is an error, and *)
(* the whole transaction rolls back.                                       *)
(***************************************************************************)
\* Defect: the increment is not checked against the INT4 range.
CanIncrementUnchecked(affected) == TRUE

CanIncrement(affected) == \A s \in affected : subs[s].notif < NotifMax

NotifyAffected(affected, ts) ==
    [s \in SubIds |-> IF s \in affected
                        THEN [subs[s] EXCEPT !.notif = @ + 1, !.updatedAt = ts]
                        ELSE subs[s]]

\* The returned SubscriberToNotify tuples: <<id, new notification_index>>.
Subscribers(affected) == {<<s, subs[s].notif + 1>> : s \in affected}

\* pushISA: upsert the row, upsert and sweep its index rows, notify.
PushISA(id, owner, cells, ts) ==
    LET affected == FetchSubscriptionsByCellsWithoutOwner(
                        IndexCells(cellsIsas, id) \cup cells, owner)
    IN  \/ /\ ~CanIncrement(affected)
           /\ Fail("Internal")
        \/ /\ CanIncrement(affected)
           /\ isas' = [isas EXCEPT ![id] = [owner |-> owner, updatedAt |-> ts]]
           /\ cellsIsas' = SweepLeftover(UpsertCells(cellsIsas, id, cells),
                                         id, cells)
           /\ subs' = NotifyAffected(affected, ts)
           /\ clock' = ts
           /\ Reply("OK", Subscribers(affected), {})
           /\ UNCHANGED cellsSubs

InsertISA(id, owner, cells) ==
    /\ Request("InsertISA", id, owner, NoVersion, cells)
    /\ \/ /\ isas[id] # NoRow
          /\ Fail("AlreadyExists")
       \/ /\ isas[id] = NoRow
          /\ \E ts \in TxTimestamps : PushISA(id, owner, cells, ts)

\* IdentificationServiceArea.Apply: a copy of the receiver in which every
\* field the overlay sets replaces its own, except ID and Owner.  Of the
\* modelled fields only Cells can be replaced; an overlay always sets it
\* (the handlers refuse a request without extents).  The overlay's
\* UpdatedAt, the caller's version, is UpdateISA's version argument.
Apply(isa, overlay) == [isa EXCEPT !.cells = overlay.cells]

\* UpdateISA pushes old.Apply(isa).
UpdateISA(id, owner, version, cells) ==
    LET new == Apply([owner |-> isas[id].owner, cells |-> IndexCells(cellsIsas, id)],
                     [owner |-> owner, cells |-> cells])
    IN
    /\ Request("UpdateISA", id, owner, version, cells)
    /\ \/ /\ ~FoundByIDAndOwner(isas, id, owner)
          /\ Fail("NotFound")
       \/ /\ FoundByIDAndOwner(isas, id, owner)
          /\ version # Version(isas[id])
          /\ Fail("VersionMismatch")
       \/ /\ FoundByIDAndOwner(isas, id, owner)
          /\ version = Version(isas[id])
          /\ \E ts \in TxTimestamps : PushISA(id, new.owner, new.cells, ts)

\* DeleteISA: the empty version forces the delete (spec.md 4.D).  The
\* affected subscribers are those of the cells the ISA had.
DeleteISA(id, owner, version) ==
    LET affected == FetchSubscriptionsByCellsWithoutOwner(
                        IndexCells(cellsIsas, id), owner)
    IN
    /\ Request("DeleteISA", id, owner, version, {})
    /\ \/ /\ ~FoundByIDAndOwner(isas, id, owner)
          /\ Fail("NotFound")
       \/ /\ FoundByIDAndOwner(isas, id, owner)
          /\ version \notin {NoVersion, Version(isas[id])}
          /\ Fail("VersionMismatch")
       \/ /\ FoundByIDAndOwner(isas, id, owner)
          /\ version \in {NoVersion, Version(isas[id])}
          /\ ~CanIncrement(affected)
          /\ Fail("Internal")
       \/ /\ FoundByIDAndOwner(isas, id, owner)
          /\ version \in {NoVersion, Version(isas[id])}
          /\ CanIncrement(affected)
          /\ \E ts \in TxTimestamps :
                /\ subs' = NotifyAffected(affected, ts)
                /\ clock' = ts
          /\ isas' = [isas EXCEPT ![id] = NoRow]
          /\ cellsIsas' = CascadeDelete(cellsIsas, id)
          /\ Reply("OK", Subscribers(affected), {})
          /\ UNCHANGED cellsSubs

\* GetISA: the row by id, whoever owns it; NotFound if there is none.
GetISA(id) ==
    /\ Request("GetISA", id, NoRow, NoVersion, {})
    /\ \/ /\ isas[id] = NoRow
          /\ Fail("NotFound")
       \/ /\ isas[id] # NoRow
          /\ Reply("OK", {}, {id})
          /\ UNCHANGED store

\* SearchISAs: the ISAs with an index row in one of cells (time window
\* abstracted).
SearchISAs(cells) ==
    /\ Request("SearchISAs", NoRow, NoRow, NoVersion, cells)
    /\ \/ /\ cells = {}
          /\ Fail("BadRequest")
       \/ /\ cells # {}
          /\ Reply("OK", {}, {i \in IsaIds : IndexCells(cellsIsas, i) \cap cells # {}})
          /\ UNCHANGED store

(***************************************************************************)
(* History: when a step changes an entity's row or its index rows, the     *)
(* version the entity had before the step names a state that is gone.      *)
(***************************************************************************)
State(e) ==
    IF e \in SubIds THEN <<subs[e], IndexCells(cellsSubs, e)>>
                    ELSE <<isas[e], IndexCells(cellsIsas, e)>>
Row(e) == IF e \in SubIds THEN subs[e] ELSE isas[e]

RecordSpent ==
    spent' = [e \in Ids |->
                IF Row(e) # NoRow /\ State(e)' # State(e)
                  THEN spent[e] \cup {Version(Row(e))}
                  ELSE spent[e]]

(***************************************************************************)
(* The specification.                                                      *)
(***************************************************************************)
Init ==
    /\ subs = [s \in SubIds |-> NoRow]
    /\ cellsSubs = {}
    /\ isas = [i \in IsaIds |-> NoRow]
    /\ cellsIsas = {}
    /\ clock = 0
    /\ req = [op |-> "None", id |-> NoRow, owner |-> NoRow,
              version |-> NoVersion, cells |-> {}]
    /\ resp = [err |-> "OK", subscribers |-> {}, found |-> {}]
    /\ spent = [e \in Ids |-> {}]

Operation ==
    \/ \E s \in SubIds : GetSubscription(s)
    \/ \E s \in SubIds, o \in Owners, c \in CellUnions :
          InsertSubscription(s, o, c)
    \/ \E s \in SubIds, o \in Owners, v \in Versions, c \in CellUnions :
          UpdateSubscription(s, o, v, c)
    \/ \E s \in SubIds, o \in Owners, v \in Versions :
          DeleteSubscription(s, o, v)
    \/ \E c \in SUBSET Cells, o \in Owners : SearchSubscriptions(c, o)
    \/ \E i \in IsaIds, o \in Owners, c \in CellUnions : InsertISA(i, o, c)
    \/ \E i \in IsaIds, o \in Owners, v \in Versions, c \in CellUnions :
          UpdateISA(i, o, v, c)
    \/ \E i \in IsaIds, o \in Owners, v \in Versions : DeleteISA(i, o, v)
    \/ \E i \in IsaIds : GetISA(i)
    \/ \E c \in SUBSET Cells : SearchISAs(c)

Next == Operation /\ RecordSpent

Spec == Init /\ [][Next]_vars

(***************************************************************************)
(* Properties.                                                             *)
(***************************************************************************)
TypeOK ==
    /\ subs \in [SubIds -> SubRow \cup {NoRow}]
    /\ cellsSubs \subseteq Cells \X SubIds
    /\ isas \in [IsaIds -> IsaRow \cup {NoRow}]
    /\ cellsIsas \subseteq Cells \X IsaIds
    /\ clock \in 0..MaxClock
    /\ req \in [op : Ops, id : Ids \cup {NoRow}, owner : Owners \cup {NoRow},
                version : Versions, cells : SUBSET Cells]
    /\ resp \in [err : Errs, subscribers : SUBSET (SubIds \X (0..NotifMax)),
                 found : SUBSET Ids]
    /\ spent \in [Ids -> SUBSET Timestamps]

\* The cell index is exact (spec.md 3, 8.1-8.2): no index row outlives its
\* entity (delete cascades), and after a successful insert or update the
\* index rows of the entity are exactly the cells the store returned to the
\* caller, which pushSubscription reattaches from its input rather than
\* reading back; only the leftover sweep makes the two agree after a
\* change of cells.
CellIndexExact ==
    /\ \A p \in cellsSubs : subs[p[2]] # NoRow
    /\ \A p \in cellsIsas : isas[p[2]] # NoRow
    /\ resp.err = "OK" =>
         /\ req.op \in {"InsertSubscription", "UpdateSubscription"} =>
               IndexCells(cellsSubs, req.id) = req.cells
         /\ req.op \in {"InsertISA", "UpdateISA"} =>
               IndexCells(cellsIsas, req.id) = req.cells

\* A version token names one state (spec.md 5, 8.8): the current version of
\* an entity is never a version that named an earlier, different state of
\* it, so a client holding a stale token cannot pass the version check of
\* UpdateSubscription, DeleteSubscription, UpdateISA or DeleteISA.  This
\* needs every write of a row, including the notification increments of an
\* ISA mutation, to give it a fresh transaction_timestamp().
VersionNeverReused ==
    \A e \in Ids : Row(e) # NoRow => Version(Row(e)) \notin spent[e]

\* The notification_index of a live subscription changes only in a
\* successful ISA mutation by another owner, by exactly one, and only when
\* the subscription is in the returned subscriber list (spec.md 5, 8.4,
\* 8.11); UpdateSubscription's full-row upsert never sets it back.  Every
\* returned subscriber carries the index its subscription now holds.
NotificationCounterDiscipline ==
    [][/\ \A s \in SubIds :
            subs[s] # NoRow /\ subs'[s] # NoRow =>
              \/ subs'[s].notif = subs[s].notif
              \/ /\ subs'[s].notif = subs[s].notif + 1
                 /\ req'.op \in IsaMutations
                 /\ req'.owner # subs[s].owner
                 /\ <<s, subs'[s].notif>> \in resp'.subscribers
       /\ \A p \in resp'.subscribers : subs'[p[1]].notif = p[2]
      ]_vars

\* The subscriptions that have an index row in one of cells.
Overlapping(cells) == {s \in SubIds : IndexCells(cellsSubs, s) \cap cells # {}}

\* Both queries that join the cell index answer exactly the subscriptions
\* with an index row in the cells they are given: a successful ISA
\* mutation returns, and notifies, the live subscriptions of other owners
\* meeting the ISA's cells before or after it (spec.md 4.D, 8.4, 9), and
\* SearchSubscriptions the caller's own meeting the searched cells
\* (spec.md 4.D).  fetchSubscriptionsByCellsWithoutOwner and
\* SearchSubscriptions both LEFT JOIN cells_subscriptions.
CellQueriesExact ==
    [][resp'.err = "OK" =>
         /\ req'.op \in IsaMutations =>
              {p[1] : p \in resp'.subscribers} =
                {s \in Overlapping(IndexCells(cellsIsas, req'.id)
                                   \cup IndexCells(cellsIsas', req'.id)) :
                   subs[s] # NoRow /\ subs[s].owner # req'.owner}
         /\ req'.op = "SearchSubscriptions" =>
              resp'.found = {s \in Overlapping(req'.cells) :
                               subs[s] # NoRow /\ subs[s].owner = req'.owner}
      ]_vars

\* The owner of a subscription can delete it with the empty version, which
\* forces the delete (spec.md 4.D "accepted as force on delete").
DeleteWithEmptyVersionForces ==
    [][/\ req'.op = "DeleteSubscription"
       /\ req'.version = NoVersion
       /\ FoundByIDAndOwner(subs, req'.id, req'.owner)
       => resp'.err = "OK"]_vars
(***************************************************************************)
(* Refinement.  DSSStore implements the store's contract DSSAbstract under *)
(* this mapping: an entity is its row together with the cells of its index *)
(* rows, its version is the row's updated_at, the contract's clock is the  *)
(* transaction clock, and a call is the owner and version of the request.  *)
(***************************************************************************)
AbstractEntity(e) ==
    IF Row(e) = NoRow THEN NoRow
    ELSE [owner   |-> Row(e).owner,
          cells   |-> IndexCells(IF e \in SubIds THEN cellsSubs ELSE cellsIsas, e),
          version |-> Version(Row(e)),
          notif   |-> IF e \in SubIds THEN subs[e].notif ELSE 0]

Abstract == INSTANCE DSSAbstract
                WITH ent <- [e \in Ids |-> AbstractEntity(e)], now <- clock,
                     call <- <<req.owner, req.version>>,
                     NoEntity <- NoRow, Nobody <- NoRow

\* Every behaviour of the store is one the contract allows: only owners
\* write, each write takes a later version and leaves the index equal to
\* the written cells, and every ISA write or delete notifies at least the
\* overlapping subscriptions of other owners and none of the writer's.
ImplementsAbstract == Abstract!Spec
=============================================================================
