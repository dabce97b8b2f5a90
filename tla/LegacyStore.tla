----------------------------- MODULE LegacyStore -----------------------------
(***************************************************************************)
(* The previous generation of the CockroachDB store, the second revision   *)
(* of pkg/dss/cockroach/store.go kept in src/unnamed/part_000 (lines       *)
(* 497-1306).  It writes protobuf messages straight into rows: a           *)
(* subscription row carries begins_at/expires_at, versions are checked by  *)
(* versionOK (the empty version passes), and the ISA delete computes its   *)
(* subscribers with two queries.  Every operation is one transaction,      *)
(* serializable, hence one step; the reply of the latest one is kept.      *)
(*                                                                         *)
(* Abstracted: URLs, types_filter, last_used_at, the ISA time range (no    *)
(* operation reads it), the notification_index (no operation of this       *)
(* revision changes it) and version strings that do not parse.             *)
(***************************************************************************)
EXTENDS Naturals, FiniteSets

CONSTANTS
    SubIds, IsaIds, Owners, Cells,
    MaxClock,   \* bound on transaction timestamps (bounds the model)
    NoRow,      \* an absent row
    NoVersion,  \* the empty version string ""
    Null        \* SQL NULL of a nullable timestamp column

ASSUME SubIds \cap IsaIds = {}
ASSUME MaxClock \in Nat \ {0}

VARIABLES
    subs,       \* subscriptions: id -> row or NoRow
    cellsSubs,  \* cells_subscriptions: <<cell_id, subscription_id>>
    isas,       \* identification_service_areas: id -> row or NoRow
    cellsIsas,  \* cells_identification_service_areas: <<cell_id, isa_id>>
    clock,      \* the latest transaction_timestamp()
    req,        \* the request of the latest operation
    resp        \* the reply of the latest operation

store == <<subs, cellsSubs, isas, cellsIsas, clock>>
vars  == <<subs, cellsSubs, isas, cellsIsas, clock, req, resp>>

Ids        == SubIds \cup IsaIds
Timestamps == 1..MaxClock
NullTime   == Timestamps \cup {Null}
CellUnions == SUBSET Cells \ {{}}

SubRow == [owner : Owners, beginsAt : NullTime, expiresAt : NullTime,
           updatedAt : Timestamps]
IsaRow == [owner : Owners, updatedAt : Timestamps]

IndexCells(tbl, id) == {c \in Cells : <<c, id>> \in tbl}
TxTimestamps == {clock + 1} \cap Timestamps

\* CHECK (begins_at IS NULL OR expires_at IS NULL OR begins_at < expires_at)
WindowOK(row) ==
    row.beginsAt # Null /\ row.expiresAt # Null => row.beginsAt < row.expiresAt

\* subscriptionsRow.versionOK: the empty version, or the row's own version.
VersionOK(row, version) == version = NoVersion \/ version = row.updatedAt

\* subscriptionsRow.applyProtobuf: every field set in the message replaces
\* the row's, the owner included; an unset timestamp (Null) keeps the row's.
ApplyProtobuf(row, owner, begins, expires) ==
    [row EXCEPT !.owner = owner,
                !.beginsAt = IF begins = Null THEN @ ELSE begins,
                !.expiresAt = IF expires = Null THEN @ ELSE expires]

\* Rows of getSubscriptionDetailsForAffectedCells.  SQL binds AND tighter
\* than OR, so the WHERE clause reads
\*   (id = ANY($1) AND owner != $2 AND begins_at IS NULL)
\*   OR (now >= begins_at AND expires_at IS NULL)
\*   OR (now <= expires_at)
\* and a comparison with NULL is never true.
SubscriptionDetails(ids, owner, now) ==
    {s \in SubIds :
       /\ subs[s] # NoRow
       /\ \/ s \in ids /\ subs[s].owner # owner /\ subs[s].beginsAt = Null
          \/ subs[s].beginsAt # Null /\ now >= subs[s].beginsAt
                                     /\ subs[s].expiresAt = Null
          \/ subs[s].expiresAt # Null /\ now <= subs[s].expiresAt}

Request(op, id, owner, version, cells) ==
    req' = [op |-> op, id |-> id, owner |-> owner, version |-> version,
            cells |-> cells]
Reply(err, subscribers) ==
    resp' = [err |-> err, subscribers |-> subscribers, found |-> {}]
Found(ids) == resp' = [err |-> "OK", subscribers |-> {}, found |-> ids]
Fail(err) == Reply(err, {}) /\ UNCHANGED store

(***************************************************************************)
(* insertSubscription: INSERT the row (a duplicate id violates the primary *)
(* key, a reversed window the CHECK), then INSERT one index row per cell.  *)
(***************************************************************************)
InsertSubscription(id, owner, begins, expires, cells) ==
    LET row == [owner |-> owner, beginsAt |-> begins, expiresAt |-> expires,
                updatedAt |-> clock + 1]
    IN
    /\ Request("InsertSubscription", id, owner, NoVersion, cells)
    /\ \/ /\ subs[id] # NoRow \/ ~WindowOK(row)
          /\ Fail("ConstraintViolation")
       \/ /\ subs[id] = NoRow /\ WindowOK(row)
          /\ clock + 1 \in TxTimestamps
          /\ subs' = [subs EXCEPT ![id] = row]
          /\ cellsSubs' = cellsSubs \cup {<<c, id>> : c \in cells}
          /\ clock' = clock + 1
          /\ Reply("OK", {})
          /\ UNCHANGED <<isas, cellsIsas>>

(***************************************************************************)
(* updateSubscription: read the row by id alone, check versionOK, apply    *)
(* the message, UPSERT the row and UPSERT the new cells.  The leftover     *)
(* cells are not deleted (the TODO at line 864).                           *)
(***************************************************************************)
UpdateSubscription(id, owner, version, begins, expires, cells) ==
    LET new == [ApplyProtobuf(subs[id], owner, begins, expires)
                  EXCEPT !.updatedAt = clock + 1]
    IN
    /\ Request("UpdateSubscription", id, owner, version, cells)
    /\ \/ /\ subs[id] = NoRow
          /\ Fail("ErrNoRows")
       \/ /\ subs[id] # NoRow
          /\ ~VersionOK(subs[id], version)
          /\ Fail("VersionMismatch")
       \/ /\ subs[id] # NoRow
          /\ VersionOK(subs[id], version)
          /\ ~WindowOK(new)
          /\ Fail("ConstraintViolation")
       \/ /\ subs[id] # NoRow
          /\ VersionOK(subs[id], version)
          /\ WindowOK(new)
          /\ clock + 1 \in TxTimestamps
          /\ subs' = [subs EXCEPT ![id] = new]
          /\ cellsSubs' = cellsSubs \cup {<<c, id>> : c \in cells}
          /\ clock' = clock + 1
          /\ Reply("OK", {})
          /\ UNCHANGED <<isas, cellsIsas>>

(***************************************************************************)
(* DeleteSubscription(id, version): the empty version runs the blind       *)
(* DELETE by id, any other the DELETE by id and updated_at; no row is      *)
(* sql.ErrNoRows.  Neither query looks at the owner.  The delete cascades  *)
(* to cells_subscriptions.                                                 *)
(***************************************************************************)
DeleteMatches(id, version) ==
    IF subs[id] = NoRow THEN FALSE
    ELSE version \in {NoVersion, subs[id].updatedAt}

DeleteSubscription(id, owner, version) ==
    /\ Request("DeleteSubscription", id, owner, version, {})
    /\ \/ /\ ~DeleteMatches(id, version)
          /\ Fail("ErrNoRows")
       \/ /\ DeleteMatches(id, version)
          /\ subs' = [subs EXCEPT ![id] = NoRow]
          /\ cellsSubs' = {p \in cellsSubs : p[2] # id}
          /\ Reply("OK", {})
          /\ UNCHANGED <<isas, cellsIsas, clock>>

\* GetSubscription: SELECT by id in a transaction; no row is sql.ErrNoRows.
GetSubscription(id) ==
    /\ Request("GetSubscription", id, NoRow, NoVersion, {})
    /\ \/ /\ subs[id] = NoRow
          /\ Fail("ErrNoRows")
       \/ /\ subs[id] # NoRow
          /\ Found({id})
          /\ UNCHANGED store

\* SearchSubscriptions: no cells is an error; else the LEFT JOIN, whose
\* WHERE clause keeps every subscription of owner whatever its cells.
SearchSubscriptions(cells, owner) ==
    /\ Request("SearchSubscriptions", NoRow, owner, NoVersion, cells)
    /\ \/ /\ cells = {}
          /\ Fail("MissingCells")
       \/ /\ cells # {}
          /\ Found({s \in SubIds : subs[s] # NoRow /\ subs[s].owner = owner})
          /\ UNCHANGED store

(***************************************************************************)
(* insertIdentificationServiceAreaUnchecked: INSERT the row and its index  *)
(* rows.  No subscriber is computed.                                       *)
(***************************************************************************)
InsertISA(id, owner, cells) ==
    /\ Request("InsertISA", id, owner, NoVersion, cells)
    /\ \/ /\ isas[id] # NoRow
          /\ Fail("ConstraintViolation")
       \/ /\ isas[id] = NoRow
          /\ clock + 1 \in TxTimestamps
          /\ isas' = [isas EXCEPT ![id] = [owner |-> owner,
                                          updatedAt |-> clock + 1]]
          /\ cellsIsas' = cellsIsas \cup {<<c, id>> : c \in cells}
          /\ clock' = clock + 1
          /\ Reply("OK", {})
          /\ UNCHANGED <<subs, cellsSubs>>

(***************************************************************************)
(* DeleteIdentificationServiceArea(id, owner), in the code's order:        *)
(*  1. getAffectedCellsAndSubscriptions LEFT JOINs the ISA's cells with    *)
(*     cells_subscriptions; a cell no subscription covers yields a NULL    *)
(*     subscription_id, which rows.Scan cannot put in a string: error.     *)
(*  2. DELETE ... WHERE id AND owner RETURNING *; no row (absent or owned  *)
(*     by another) rolls the transaction back, but the error is dropped    *)
(*     and the next query fails on the finished transaction.              *)
(*  3. getSubscriptionDetailsForAffectedCells, then commit.                *)
(***************************************************************************)
DeleteISA(id, owner) ==
    LET isaCells == IndexCells(cellsIsas, id)
        affected == {s \in SubIds : IndexCells(cellsSubs, s) \cap isaCells # {}}
        now      == clock + 1
    IN
    /\ Request("DeleteISA", id, owner, NoVersion, {})
    /\ now \in TxTimestamps
    /\ \/ /\ \E c \in isaCells : \A s \in SubIds : <<c, s>> \notin cellsSubs
          /\ Fail("ScanNull")
       \/ /\ \A c \in isaCells : \E s \in SubIds : <<c, s>> \in cellsSubs
          /\ ~(isas[id] # NoRow /\ isas[id].owner = owner)
          /\ Fail("TxDone")
       \/ /\ \A c \in isaCells : \E s \in SubIds : <<c, s>> \in cellsSubs
          /\ isas[id] # NoRow /\ isas[id].owner = owner
          /\ isas' = [isas EXCEPT ![id] = NoRow]
          /\ cellsIsas' = {p \in cellsIsas : p[2] # id}
          /\ clock' = now
          /\ Reply("OK", SubscriptionDetails(affected, owner, now))
          /\ UNCHANGED <<subs, cellsSubs>>

(***************************************************************************)
(* Bootstrap creates the four tables empty.                                *)
(***************************************************************************)
Init ==
    /\ subs = [s \in SubIds |-> NoRow]
    /\ cellsSubs = {}
    /\ isas = [i \in IsaIds |-> NoRow]
    /\ cellsIsas = {}
    /\ clock = 0
    /\ req = [op |-> "None", id |-> NoRow, owner |-> NoRow,
              version |-> NoVersion, cells |-> {}]
    /\ resp = [err |-> "OK", subscribers |-> {}, found |-> {}]

Next ==
    \/ \E s \in SubIds, o \in Owners, b, e \in NullTime, c \in CellUnions :
          InsertSubscription(s, o, b, e, c)
    \/ \E s \in SubIds, o \in Owners, v \in Timestamps \cup {NoVersion},
          b, e \in NullTime, c \in CellUnions :
          UpdateSubscription(s, o, v, b, e, c)
    \/ \E s \in SubIds, o \in Owners, v \in Timestamps \cup {NoVersion} :
          DeleteSubscription(s, o, v)
    \/ \E s \in SubIds : GetSubscription(s)
    \/ \E c \in SUBSET Cells, o \in Owners : SearchSubscriptions(c, o)
    \/ \E i \in IsaIds, o \in Owners, c \in CellUnions : InsertISA(i, o, c)
    \/ \E i \in IsaIds, o \in Owners : DeleteISA(i, o)

Spec == Init /\ [][Next]_vars

(***************************************************************************)
(* Properties: what spec.md requires of the store, checked against this    *)
(* revision.                                                               *)
(***************************************************************************)
TypeOK ==
    /\ subs \in [SubIds -> SubRow \cup {NoRow}]
    /\ cellsSubs \subseteq Cells \X SubIds
    /\ isas \in [IsaIds -> IsaRow \cup {NoRow}]
    /\ cellsIsas \subseteq Cells \X IsaIds
    /\ clock \in 0..MaxClock

\* Only a subscription's owner updates or deletes it, and an update keeps
\* the owner (spec.md 3, "Only the entity's owner may mutate or delete
\* it").  updateSubscription reads the row by id alone and applyProtobuf
\* copies the caller's owner into it; DeleteSubscription takes no owner.
OnlyOwnerMutates ==
    [][\A s \in SubIds :
         subs[s] # NoRow /\ subs'[s] # subs[s]
           => /\ req'.owner = subs[s].owner
              /\ subs'[s] # NoRow => subs'[s].owner = subs[s].owner]_vars
=============================================================================
