------------------------------ MODULE DSSServer ------------------------------
(***************************************************************************)
(* The gRPC front end of the DSS (src/pkg/dss/server.go) composed with the *)
(* store it calls (DSSStore, instantiated below).  Every handler takes the *)
(* owner from the auth context, validates its parameters, converts the    *)
(* area or extents to cells, makes at most one store call and converts the *)
(* result to a reply.  The store call is one serializable transaction and  *)
(* the handler keeps no state of its own, so a whole RPC is one step.      *)
(*                                                                         *)
(* The auth interceptor that checks AuthScopes() before a handler runs is  *)
(* not under src/; it is modelled from spec.md 6 (a method absent from the *)
(* table needs no scope).                                                  *)
(*                                                                         *)
(* Abstracted: an area string or a Volume4D is one of the nonempty cell    *)
(* unions it covers, or a malformed one: BadShape (the geo package's     *)
(* BadRequest errors: odd or too few coordinates, no or too large an area) *)
(* or BadNumber (a coordinate strconv.ParseFloat rejects, an error that  *)
(* is not a dsserr).  URLs and the ToProto conversions, which cannot fail  *)
(* on times the store wrote, are left out.                                 *)
(***************************************************************************)
EXTENDS Naturals, FiniteSets

CONSTANTS
    SubIds, IsaIds, Owners, Cells, MaxClock, NotifMax, TiesPossible,
    NoRow, NoVersion,
    NoOwner,   \* a context auth.OwnerFromContext finds no owner in
    ScopesOf,  \* the scopes of the token each caller presents
    BadShape,  \* an area the geo package refuses with a dsserr BadRequest
    BadNumber, \* an area with a coordinate strconv.ParseFloat refuses
    NoParams   \* a request whose params are nil

VARIABLES subs, cellsSubs, isas, cellsIsas, clock, req, resp, spent,
          rpc   \* the latest RPC and the reply the server gave to it

Store == INSTANCE DSSStore

storeVars == <<subs, cellsSubs, isas, cellsIsas, clock, req, resp, spent>>
vars == <<storeVars, rpc>>

Callers == Owners \cup {NoOwner}

WriteISAScope == "dss.write.identification_service_areas"
ReadISAScope  == "dss.read.identification_service_areas"

ASSUME ScopesOf \in [Callers -> SUBSET {WriteISAScope, ReadISAScope}]

Malformed == {BadShape, BadNumber}
Coverings == {u : u \in Store!CellUnions}   \* enumerated, to hold model values
Areas     == Coverings \cup Malformed
Extents   == Coverings \cup {BadShape, NoParams}
\* A converted area or extents that produced a covering.
Covered(x) == x \notin {BadShape, BadNumber, NoParams}
TimeArgs  == {"None", "Valid", "Invalid"}

Rpcs == {"GetISA", "PutISA", "PatchISA", "DeleteISA", "SearchISAs",
         "GetSubscription", "PutSubscription", "PatchSubscription",
         "DeleteSubscription", "SearchSubscriptions"}

\* Defect: PutIdentificationServiceArea is granted to readers.
AuthScopesPutReadable ==
    [m \in {"GetISA", "PutISA", "PatchISA", "DeleteISA", "PutSubscription",
            "PatchSubscription", "DeleteSubscription", "SearchSubscriptions",
            "SearchISAs"} |->
       IF m \in {"PatchISA", "DeleteISA"} THEN {WriteISAScope}
                                          ELSE {ReadISAScope}]

\* Server.AuthScopes: the scopes each method requires.  GetSubscription is
\* not in the table.
AuthScopes ==
    [m \in {"GetISA", "PutISA", "PatchISA", "DeleteISA", "PutSubscription",
            "PatchSubscription", "DeleteSubscription", "SearchSubscriptions",
            "SearchISAs"} |->
       IF m \in {"PutISA", "PatchISA", "DeleteISA"} THEN {WriteISAScope}
                                                   ELSE {ReadISAScope}]

\* The interceptor admits a call when the token holds every required scope.
Authorized(m, c) == m \in DOMAIN AuthScopes => AuthScopes[m] \subseteq ScopesOf[c]

\* The version a reply carries: the entity's row after the call, or the row
\* it deleted.
ReplyVersion(id) ==
    IF Store!Row(id)' # NoRow THEN Store!Version(Store!Row(id)')
    ELSE IF Store!Row(id) # NoRow THEN Store!Version(Store!Row(id))
    ELSE NoVersion

Answer(m, c, id, area, err, version) ==
    rpc' = [name |-> m, caller |-> c, id |-> id, area |-> area, err |-> err,
            version |-> version, subscribers |-> {}, found |-> {}]

\* A reply without a store call.
Refuse(m, c, id, area, err) ==
    Answer(m, c, id, area, err, NoVersion) /\ UNCHANGED storeVars

\* The reply of a handler that returns the store's result or error as is.
FromStore(m, c, id, area) ==
    rpc' = [name |-> m, caller |-> c, id |-> id, area |-> area,
            err |-> resp'.err,
            version |-> IF resp'.err = "OK" /\ id # NoRow
                          THEN ReplyVersion(id) ELSE NoVersion,
            subscribers |-> resp'.subscribers, found |-> resp'.found]

\* The interceptor's refusal, before any handler code runs.
Denied(m, c) ==
    /\ ~Authorized(m, c)
    /\ Refuse(m, c, NoRow, NoRow, "PermissionDenied")

(***************************************************************************)
(* Handlers.  Each is entered only when the interceptor admitted the call. *)
(***************************************************************************)
GetIdentificationServiceArea(c, id) ==
    /\ Store!GetISA(id)
    /\ FromStore("GetISA", c, id, NoRow)

PutIdentificationServiceArea(c, id, ext) ==
    \/ /\ c = NoOwner
       /\ Refuse("PutISA", c, id, ext, "PermissionDenied")
    \/ /\ c # NoOwner /\ ~Covered(ext)
       /\ Refuse("PutISA", c, id, ext, "BadRequest")
    \/ /\ c # NoOwner /\ Covered(ext)
       /\ Store!InsertISA(id, c, ext)
       /\ FromStore("PutISA", c, id, ext)

\* The version string is parsed with Version.ToTimestamp; the empty string
\* does not parse.  The parsed time travels as UpdatedAt into UpdateISA.
PatchIdentificationServiceArea(c, id, v, ext) ==
    \/ /\ c = NoOwner
       /\ Refuse("PatchISA", c, id, ext, "PermissionDenied")
    \/ /\ c # NoOwner /\ (ext = NoParams \/ v = NoVersion)
       /\ Refuse("PatchISA", c, id, ext, "BadRequest")
    \/ /\ c # NoOwner /\ ext # NoParams /\ v # NoVersion
       /\ ext = BadShape
       /\ Refuse("PatchISA", c, id, ext, "BadRequest")
    \/ /\ c # NoOwner /\ v # NoVersion /\ Covered(ext)
       /\ Store!UpdateISA(id, c, v, ext)
       /\ FromStore("PatchISA", c, id, ext)

\* The request's version goes to the store unparsed.
DeleteIdentificationServiceArea(c, id, v) ==
    \/ /\ c = NoOwner
       /\ Refuse("DeleteISA", c, id, NoRow, "PermissionDenied")
    \/ /\ c # NoOwner
       /\ Store!DeleteISA(id, c, v)
       /\ FromStore("DeleteISA", c, id, NoRow)

DeleteSubscription(c, id, v) ==
    \/ /\ c = NoOwner
       /\ Refuse("DeleteSubscription", c, id, NoRow, "PermissionDenied")
    \/ /\ c # NoOwner
       /\ Store!DeleteSubscription(id, c, v)
       /\ FromStore("DeleteSubscription", c, id, NoRow)

\* No owner is required.  Every error of AreaToCellIDs, and of converting
\* the time bounds, is returned as Internal.
SearchIdentificationServiceAreas(c, area, t) ==
    \/ /\ area \in Malformed \/ t = "Invalid"
       /\ Refuse("SearchISAs", c, NoRow, area, "Internal")
    \/ /\ Covered(area) /\ t # "Invalid"
       /\ Store!SearchISAs(area)
       /\ FromStore("SearchISAs", c, NoRow, area)

\* AreaToCellIDs' error is returned as is: a dsserr BadRequest, or the raw
\* strconv error, which gRPC reports as Unknown.
SearchSubscriptions(c, area) ==
    \/ /\ c = NoOwner
       /\ Refuse("SearchSubscriptions", c, NoRow, area, "PermissionDenied")
    \/ /\ c # NoOwner /\ area = BadShape
       /\ Refuse("SearchSubscriptions", c, NoRow, area, "BadRequest")
    \/ /\ c # NoOwner /\ area = BadNumber
       /\ Refuse("SearchSubscriptions", c, NoRow, area, "Unknown")
    \/ /\ c # NoOwner /\ Covered(area)
       /\ Store!SearchSubscriptions(area, c)
       /\ FromStore("SearchSubscriptions", c, NoRow, area)

\* No owner check: any caller reads any subscription.
GetSubscription(c, id) ==
    /\ Store!GetSubscription(id)
    /\ FromStore("GetSubscription", c, id, NoRow)

\* Validates and echoes the patch; the store is never called.
PatchSubscription(c, id, v, ext) ==
    \/ /\ c = NoOwner
       /\ Refuse("PatchSubscription", c, id, ext, "PermissionDenied")
    \/ /\ c # NoOwner /\ (ext = NoParams \/ v = NoVersion)
       /\ Refuse("PatchSubscription", c, id, ext, "BadRequest")
    \/ /\ c # NoOwner /\ ext # NoParams /\ v # NoVersion
       /\ ext = BadShape
       /\ Refuse("PatchSubscription", c, id, ext, "BadRequest")
    \/ /\ c # NoOwner /\ v # NoVersion /\ Covered(ext)
       /\ Answer("PatchSubscription", c, id, ext, "OK", v)
       /\ UNCHANGED storeVars

\* Validates and echoes the subscription, with no version since it was
\* never saved; the store is never called.
PutSubscription(c, id, ext) ==
    \/ /\ c = NoOwner
       /\ Refuse("PutSubscription", c, id, ext, "PermissionDenied")
    \/ /\ c # NoOwner /\ ~Covered(ext)
       /\ Refuse("PutSubscription", c, id, ext, "BadRequest")
    \/ /\ c # NoOwner /\ Covered(ext)
       /\ Answer("PutSubscription", c, id, ext, "OK", NoVersion)
       /\ UNCHANGED storeVars

(***************************************************************************)
(* The server: any caller makes any call; the interceptor runs first.      *)
(***************************************************************************)
Handle(c) ==
    \/ /\ Authorized("GetISA", c)
       /\ \E i \in IsaIds : GetIdentificationServiceArea(c, i)
    \/ /\ Authorized("PutISA", c)
       /\ \E i \in IsaIds, x \in Extents : PutIdentificationServiceArea(c, i, x)
    \/ /\ Authorized("PatchISA", c)
       /\ \E i \in IsaIds, v \in Store!Versions, x \in Extents :
             PatchIdentificationServiceArea(c, i, v, x)
    \/ /\ Authorized("DeleteISA", c)
       /\ \E i \in IsaIds, v \in Store!Versions :
             DeleteIdentificationServiceArea(c, i, v)
    \/ /\ Authorized("SearchISAs", c)
       /\ \E a \in Areas, t \in TimeArgs : SearchIdentificationServiceAreas(c, a, t)
    \/ /\ Authorized("GetSubscription", c)
       /\ \E s \in SubIds : GetSubscription(c, s)
    \/ /\ Authorized("PutSubscription", c)
       /\ \E s \in SubIds, x \in Extents : PutSubscription(c, s, x)
    \/ /\ Authorized("PatchSubscription", c)
       /\ \E s \in SubIds, v \in Store!Versions, x \in Extents :
             PatchSubscription(c, s, v, x)
    \/ /\ Authorized("DeleteSubscription", c)
       /\ \E s \in SubIds, v \in Store!Versions : DeleteSubscription(c, s, v)
    \/ /\ Authorized("SearchSubscriptions", c)
       /\ \E a \in Areas : SearchSubscriptions(c, a)
    \/ \E m \in Rpcs : Denied(m, c)

Init ==
    /\ Store!Init
    /\ rpc = [name |-> "None", caller |-> NoOwner, id |-> NoRow, area |-> NoRow,
              err |-> "OK", version |-> NoVersion, subscribers |-> {},
              found |-> {}]

Next == \E c \in Callers : Handle(c) /\ Store!RecordSpent

Spec == Init /\ [][Next]_vars

(***************************************************************************)
(* Properties.                                                             *)
(***************************************************************************)
\* The owner and the cells of an entity, or its absence.
Shape(e) ==
    IF Store!Row(e) = NoRow THEN NoRow
    ELSE <<Store!Row(e).owner,
           Store!IndexCells(IF e \in SubIds THEN cellsSubs ELSE cellsIsas, e)>>

\* Only a caller whose token holds dss.write.identification_service_areas
\* creates, changes or deletes an ISA (the scopes AuthScopes gives the ISA
\* methods, enforced before PutIdentificationServiceArea and the others).
OnlyWritersChangeISAs ==
    [][<<isas, cellsIsas>>' # <<isas, cellsIsas>> =>
         WriteISAScope \in ScopesOf[rpc'.caller]]_vars

\* An RPC creates, moves or deletes only entities of the owner in its auth
\* context (spec.md 3 ownership, 7 NotFound on owner mismatch): the handlers
\* pass that owner to the store, whose fetch by id and owner guards every
\* write.  Notification increments do not change an entity's shape.
OwnerIsolation ==
    [][\A e \in Store!Ids :
         Shape(e)' # Shape(e) =>
           /\ Store!Row(e) # NoRow => Store!Row(e).owner = rpc'.caller
           /\ Store!Row(e)' # NoRow => Store!Row(e)'.owner = rpc'.caller]_vars

\* A subscription PutSubscription accepted can be read back (spec.md 8.6:
\* InsertX followed by GetX returns the entity).
PutSubscriptionPersists ==
    rpc.name = "PutSubscription" /\ rpc.err = "OK" => subs[rpc.id] # NoRow

\* Every error a client sees is the kind spec.md 7 gives its cause: one of
\* the kinds of the table, and BadInput (BadRequest) for a search whose
\* area is malformed (8.10), never a backend failure.  The handlers return
\* the store's sql.ErrNoRows and AreaToCellIDs' strconv error as they are,
\* and SearchIdentificationServiceAreas wraps every area error in Internal.
SpecErrors == {"OK", "BadRequest", "PermissionDenied", "NotFound",
               "AlreadyExists", "VersionMismatch", "AreaTooLarge",
               "LimitExceeded", "Internal"}
RepliesUseSpecErrors ==
    /\ rpc.err \in SpecErrors
    /\ rpc.name \in {"SearchISAs", "SearchSubscriptions"} /\ rpc.area \in Malformed
         => rpc.err = "BadRequest"
=============================================================================
