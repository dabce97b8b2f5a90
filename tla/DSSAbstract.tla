----------------------------- MODULE DSSAbstract -----------------------------
(***************************************************************************)
(* What the DSS store promises its callers (spec.md 3-5), stated over      *)
(* whole entities rather than tables: an entity has an owner, the cells   *)
(* it covers, a version and, for a subscription, a notification index.     *)
(*                                                                         *)
(*  - only the owner creates, changes or removes an entity, and a change   *)
(*    names the version the caller read (the empty version forces a        *)
(*    delete);                                                             *)
(*  - every write gives the entity a version later than any handed out;   *)
(*  - a write or removal of an ISA notifies at least every subscription of *)
(*    another owner whose cells meet the ISA's old or new cells, and never *)
(*    one of the writer's own: each notified index grows by one, within    *)
(*    its column's range, and the subscription gets the write's version;   *)
(*  - a read or a refused call changes nothing.                            *)
(*                                                                         *)
(* call records who made the latest call and the version it presented.    *)
(***************************************************************************)
EXTENDS Naturals

CONSTANTS SubIds, IsaIds, Owners, Cells, MaxClock, NotifMax,
          NoEntity,   \* no entity has the id
          NoVersion,  \* the empty version string
          Nobody      \* a call that names no owner

VARIABLES ent, now, call

avars == <<ent, now, call>>

Ids     == SubIds \cup IsaIds
Cover   == SUBSET Cells \ {{}}
Entity  == [owner : Owners, cells : Cover, version : 1..MaxClock,
            notif : 0..NotifMax]

Live(e)       == ent[e] # NoEntity
OwnedBy(e, o) == Live(e) /\ ent[e].owner = o

\* A version later than every version handed out so far.
Later == (now + 1)..MaxClock

\* The subscriptions an ISA write by o must notify: live, of another owner,
\* meeting the cells.
MustNotify(o, cells) ==
    {s \in SubIds : Live(s) /\ ent[s].owner # o /\ ent[s].cells \cap cells # {}}

\* The subscriptions an ISA write by o may notify.
MayNotify(o) ==
    {s \in SubIds : Live(s) /\ ent[s].owner # o /\ ent[s].notif < NotifMax}

\* Entity id becomes new; the notified subscriptions take version t.
WriteWithNotice(id, new, notified, t) ==
    ent' = [e \in Ids |->
              IF e = id THEN new
              ELSE IF e \in notified
                THEN [ent[e] EXCEPT !.notif = @ + 1, !.version = t]
                ELSE ent[e]]

\* A read, or a call refused with an error.
Refused ==
    /\ \E o \in Owners \cup {Nobody}, v \in (1..MaxClock) \cup {NoVersion} :
          call' = <<o, v>>
    /\ UNCHANGED <<ent, now>>

CreateSubscription(id, o, cells) ==
    /\ ~Live(id)
    /\ \E t \in Later :
          /\ ent' = [ent EXCEPT ![id] = [owner |-> o, cells |-> cells,
                                         version |-> t, notif |-> 0]]
          /\ now' = t
    /\ call' = <<o, NoVersion>>

ModifySubscription(id, o, cells) ==
    /\ OwnedBy(id, o)
    /\ call' = <<o, ent[id].version>>
    /\ \E t \in Later :
          /\ ent' = [ent EXCEPT ![id].cells = cells, ![id].version = t]
          /\ now' = t

RemoveSubscription(id, o) ==
    /\ OwnedBy(id, o)
    /\ \E v \in {ent[id].version, NoVersion} : call' = <<o, v>>
    /\ ent' = [ent EXCEPT ![id] = NoEntity]
    /\ now' \in now..MaxClock

\* Create or change ISA id with cells, notifying.
WriteISA(id, o, cells) ==
    LET old == IF Live(id) THEN ent[id].cells ELSE {} IN
    /\ \/ ~Live(id) /\ call' = <<o, NoVersion>>
       \/ OwnedBy(id, o) /\ call' = <<o, ent[id].version>>
    /\ \E t \in Later, notified \in SUBSET MayNotify(o) :
          /\ MustNotify(o, old \cup cells) \subseteq notified
          /\ WriteWithNotice(id, [owner |-> o, cells |-> cells, version |-> t,
                                  notif |-> 0], notified, t)
          /\ now' = t

RemoveISA(id, o) ==
    /\ OwnedBy(id, o)
    /\ \E v \in {ent[id].version, NoVersion} : call' = <<o, v>>
    /\ \E t \in Later, notified \in SUBSET MayNotify(o) :
          /\ MustNotify(o, ent[id].cells) \subseteq notified
          /\ WriteWithNotice(id, NoEntity, notified, t)
          /\ now' = t

Init ==
    /\ ent = [e \in Ids |-> NoEntity]
    /\ now = 0
    /\ call = <<Nobody, NoVersion>>

Next ==
    \/ Refused
    \/ \E id \in SubIds, o \in Owners :
          \/ \E cells \in Cover : CreateSubscription(id, o, cells)
          \/ \E cells \in Cover : ModifySubscription(id, o, cells)
          \/ RemoveSubscription(id, o)
    \/ \E id \in IsaIds, o \in Owners :
          \/ \E cells \in Cover : WriteISA(id, o, cells)
          \/ RemoveISA(id, o)

Spec == Init /\ [][Next]_avars
=============================================================================
