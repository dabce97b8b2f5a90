---------------------------- MODULE SubscriptionTx ----------------------------
(***************************************************************************)
(* The transactions of the subscription store (src/unnamed/part_001) at   *)
(* the grain of their SQL statements, run by concurrent callers.  Each     *)
(* Store method opens a transaction with c.Begin(), fetches the row, and   *)
(* either rolls back on a failed check or writes and commits.              *)
(*                                                                         *)
(* What the database contributes (CockroachDB, SERIALIZABLE):              *)
(*  - a write leaves a write intent on the row; another transaction's read *)
(*    or write of the row waits until the intent is resolved by a commit   *)
(*    or a rollback;                                                       *)
(*  - a commit first refreshes the transaction's reads: if the row it read *)
(*    was changed by a commit since, the commit fails with a retry error   *)
(*    and the transaction is aborted.                                      *)
(*                                                                         *)
(* A row is absent or carries its version; the row's contents and cells   *)
(* are DSSStore's business.  A version is compared only for equality, so   *)
(* a commit takes any version not in use rather than a clock value.       *)
(***************************************************************************)
EXTENDS Naturals

CONSTANTS
    Clients,      \* goroutines calling the store concurrently
    SubIds,       \* subscription ids
    Vers,         \* versions (transaction timestamps)
    PushMayFail,  \* can a statement of pushSubscription return an error?
    Absent,       \* no row has the id
    Stale,        \* a version that is no longer any row's
    NoVersion,    \* the version of an insert request
    Free,         \* no transaction holds the row's write intent
    Leaked,       \* a transaction that was neither committed nor rolled back
    NoCall        \* a caller with no call in progress

VARIABLES
    row,      \* committed state of each row: Absent or its version
    intent,   \* the holder of each row's write intent
    pc,       \* where each caller is in its Store method
    op,       \* the caller's current call: [kind, id, version]
    read      \* the row state the caller's fetch read

vars == <<row, intent, pc, op, read>>

\* The calls a caller can make while the rows are as they are: an update or
\* a delete presents the version it read in an earlier call, which is the
\* row's current one or an outdated one.
CallsNow ==
    [kind : {"Insert"}, id : SubIds, version : {NoVersion}]
      \cup UNION {[kind : {"Update", "Delete"}, id : {i},
                   version : ({row[i]} \ {Absent}) \cup {Stale}] : i \in SubIds}

\* The versions a commit must not reuse: the rows' and those callers hold.
InUse == {row[i] : i \in SubIds}
           \cup {op[c].version : c \in {d \in Clients : pc[d] # "idle"}}

\* The row can be read or written by c's transaction.
Accessible(c, id) == intent[id] \in {Free, c}

\* Return to the caller; the transaction is over, and its reads with it.
Return(c) ==
    /\ pc' = [pc EXCEPT ![c] = "idle"]
    /\ read' = [read EXCEPT ![c] = Absent]

\* tx.Rollback(): the intents of c's transaction are discarded.
Rollback(c) ==
    /\ intent' = [i \in SubIds |-> IF intent[i] = c THEN Free ELSE intent[i]]
    /\ Return(c)

\* A caller calls InsertSubscription, UpdateSubscription or
\* DeleteSubscription; c.Begin() opens the transaction.
Call(c) ==
    /\ pc[c] = "idle"
    /\ \E call \in CallsNow : op' = [op EXCEPT ![c] = call]
    /\ pc' = [pc EXCEPT ![c] = "fetch"]
    /\ UNCHANGED <<row, intent, read>>

\* Defect: Update and Delete go on whatever version the row carries.
FetchGoesOnIgnoringVersion(c, found) ==
    IF op[c].kind = "Insert" THEN found = Absent ELSE found # Absent

\* The check on what the fetch found: Insert goes on when no row is found;
\* Update and Delete when the row is found with the caller's version.
FetchGoesOn(c, found) ==
    IF op[c].kind = "Insert" THEN found = Absent
    ELSE found # Absent /\ found = op[c].version

\* fetchSubscriptionByID (Insert) or fetchSubscriptionByIDAndOwner (Update,
\* Delete) and the switch on its result; every case that does not go on
\* rolls back.  The transaction remembers the row it read.
Fetch(c) ==
    LET id == op[c].id
        goOn == FetchGoesOn(c, row[id])
    IN
    /\ pc[c] = "fetch"
    /\ Accessible(c, id)
    /\ \/ /\ goOn
          /\ read' = [read EXCEPT ![c] = row[id]]
          /\ pc' = [pc EXCEPT ![c] = IF op[c].kind = "Delete" THEN "delete"
                                                               ELSE "push"]
          /\ UNCHANGED intent
       \/ /\ ~goOn
          /\ Rollback(c)
    /\ UNCHANGED <<row, op>>

\* pushSubscription: the row UPSERT, one UPSERT per cell, the leftover
\* sweep.  On an error Insert and Update return it without tx.Rollback():
\* the transaction stays open, with the row's intent if the row UPSERT had
\* run.  c.Begin() takes no context, so no request deadline aborts it.
PushSubscription(c) ==
    LET id == op[c].id IN
    /\ pc[c] = "push"
    /\ Accessible(c, id)
    /\ \/ /\ intent' = [intent EXCEPT ![id] = c]
          /\ pc' = [pc EXCEPT ![c] = "commit"]
          /\ UNCHANGED read
       \/ /\ PushMayFail
          /\ \E upserted \in BOOLEAN :
                intent' = [i \in SubIds |->
                             IF intent[i] = c \/ (upserted /\ i = id)
                               THEN Leaked ELSE intent[i]]
          /\ Return(c)
    /\ UNCHANGED <<row, op>>

\* DeleteSubscription's DELETE; an error rolls back.
ExecDelete(c) ==
    LET id == op[c].id IN
    /\ pc[c] = "delete"
    /\ Accessible(c, id)
    /\ \/ /\ intent' = [intent EXCEPT ![id] = c]
          /\ pc' = [pc EXCEPT ![c] = "commit"]
          /\ UNCHANGED read
       \/ Rollback(c)
    /\ UNCHANGED <<row, op>>

\* The write of c's transaction, as a commit publishes it.
Written(c) ==
    [row EXCEPT ![op[c].id] = IF op[c].kind = "Delete" THEN Absent
                              ELSE CHOOSE v \in Vers \ InUse : TRUE]

\* Defect: the commit publishes the write but keeps the intent.
CommitKeepingIntent(c) ==
    /\ pc[c] = "commit"
    /\ row' = Written(c)
    /\ Return(c)
    /\ UNCHANGED <<intent, op>>

\* tx.Commit(): if the row the fetch read is unchanged, the write becomes
\* visible; otherwise the commit fails and the transaction is aborted.
\* Either way the intent is resolved and the call returns.
Commit(c) ==
    /\ pc[c] = "commit"
    /\ row' = IF row[op[c].id] = read[c] THEN Written(c) ELSE row
    /\ intent' = [i \in SubIds |-> IF intent[i] = c THEN Free ELSE intent[i]]
    /\ Return(c)
    /\ UNCHANGED op

Init ==
    /\ row = [i \in SubIds |-> Absent]
    /\ intent = [i \in SubIds |-> Free]
    /\ pc = [c \in Clients |-> "idle"]
    /\ op = [c \in Clients |-> [kind |-> "Insert", id |-> CHOOSE i \in SubIds : TRUE,
                                version |-> NoVersion]]
    /\ read = [c \in Clients |-> Absent]

Step(c) == Call(c) \/ Fetch(c) \/ PushSubscription(c) \/ ExecDelete(c) \/ Commit(c)

Next == \E c \in Clients : Step(c)

\* The database serves a caller's next statement once nothing stops it; a
\* statement waiting on an intent is queued and served when the intent is
\* resolved, however often other transactions come and go (strong
\* fairness).  Nothing obliges a caller to call.
Fairness ==
    \A c \in Clients :
        /\ SF_vars(Fetch(c))
        /\ SF_vars(PushSubscription(c))
        /\ SF_vars(ExecDelete(c))
        /\ WF_vars(Commit(c))

Spec == Init /\ [][Next]_vars /\ Fairness

(***************************************************************************)
(* Properties.                                                             *)
(***************************************************************************)
\* Every call of InsertSubscription, UpdateSubscription or
\* DeleteSubscription returns (spec.md 5: no operation is intended to
\* suspend indefinitely; every error path rolls back).
CallsReturn == \A c \in Clients : pc[c] # "idle" ~> pc[c] = "idle"

Atomic == INSTANCE AtomicSubscriptions
              WITH busy <- [c \in Clients |-> IF pc[c] = "idle" THEN NoCall
                                              ELSE op[c]],
                   Idle <- NoCall

\* Each call takes effect atomically (spec.md 5: one transaction per
\* operation; 8.8, S3: of two updates with one version at most one wins):
\* the fetch-check-write sequence of each Store method, interleaved with
\* the others at statement level, behaves as if every call ran alone at
\* its commit.  DSSStore's one-step operations rest on this.
CallsAreAtomic == Atomic!Spec
=============================================================================
