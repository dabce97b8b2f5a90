------------------------- MODULE AtomicSubscriptions -------------------------
(***************************************************************************)
(* The subscription writes as DSSStore treats them: each call of          *)
(* InsertSubscription, UpdateSubscription or DeleteSubscription takes     *)
(* effect in one atomic step, or fails and changes nothing.  An insert     *)
(* needs the id to be free, an update or delete needs the row to carry the *)
(* version the caller presents, and a write gives the row a version that   *)
(* is in use nowhere.  A call may fail whatever the state (a backend       *)
(* error), but it never takes effect in part.                              *)
(***************************************************************************)
CONSTANTS Clients, SubIds, Vers, Absent, Stale, NoVersion, Idle

VARIABLES row, busy

InUse == {row[i] : i \in SubIds}
           \cup {busy[c].version : c \in {d \in Clients : busy[d] # Idle}}

\* The condition under which the call takes effect.
Admits(call) ==
    IF call.kind = "Insert" THEN row[call.id] = Absent
    ELSE row[call.id] = call.version

Begin(c, call) ==
    /\ busy[c] = Idle
    /\ busy' = [busy EXCEPT ![c] = call]
    /\ UNCHANGED row

Apply(c) ==
    LET call == busy[c] IN
    /\ call # Idle
    /\ Admits(call)
    /\ \E v \in Vers \ InUse :
          row' = [row EXCEPT ![call.id] = IF call.kind = "Delete" THEN Absent
                                                                  ELSE v]
    /\ busy' = [busy EXCEPT ![c] = Idle]

Fail(c) ==
    /\ busy[c] # Idle
    /\ busy' = [busy EXCEPT ![c] = Idle]
    /\ UNCHANGED row

Init ==
    /\ row = [i \in SubIds |-> Absent]
    /\ busy = [c \in Clients |-> Idle]

Next ==
    \E c \in Clients :
        \/ \E call \in [kind : {"Insert"}, id : SubIds, version : {NoVersion}]
                  \cup [kind : {"Update", "Delete"}, id : SubIds,
                        version : Vers \cup {Stale}] :
              Begin(c, call)
        \/ Apply(c)
        \/ Fail(c)

Spec == Init /\ [][Next]_<<row, busy>>
=============================================================================
