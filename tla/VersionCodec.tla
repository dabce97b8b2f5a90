----------------------------- MODULE VersionCodec -----------------------------
(***************************************************************************)
(* The version strings of the legacy subscription store (src/unnamed/     *)
(* part_000, lines 592 and 683-698) and the two checks that read them.     *)
(* A version is strconv.FormatUint(updated_at.UnixNano(), 32).            *)
(* updateSubscription compares the caller's string with the row's         *)
(* (versionOK); DeleteSubscription instead parses the caller's string with *)
(* strconv.ParseUint(s, 32, 64) and deletes the row whose updated_at is    *)
(* the parsed instant.                                                     *)
(*                                                                         *)
(* A character is a base-32 digit with its value and, for the letters     *)
(* a-v (10-31), its case; Other is any character that is not a base-32     *)
(* digit.  A row's updated_at is one of Stamps, in nanoseconds.  Strings   *)
(* have at most MaxDigits characters, few enough that ParseUint's 64-bit   *)
(* range check and the int64 conversion never come into play (13 digits   *)
(* are needed to reach 2^63).                                              *)
(***************************************************************************)
EXTENDS Naturals, Sequences, SequencesExt

CONSTANTS
    MaxDigits,  \* bound on the characters of a version string
    Stamps,     \* updated_at values of the row, in nanoseconds
    Other       \* a character that is not a base-32 digit

ASSUME MaxDigits \in 1..6 /\ Stamps \subseteq Nat

VARIABLES
    updatedAt,  \* the row's updated_at
    call,       \* the call made: [op, version]
    result      \* "None" before the call returns, then its outcome

vars == <<updatedAt, call, result>>

versionBase == 32

Lower(d) == [val |-> d, upper |-> FALSE]
Chars == {Lower(d) : d \in 0..31}
           \cup {[val |-> d, upper |-> TRUE] : d \in 10..31} \cup {Other}

\* strconv.FormatUint(n, 32): the digits of n, most significant first,
\* letters in lower case, no leading zero ("0" for zero).
RECURSIVE FormatUint(_)
FormatUint(n) ==
    IF n < versionBase THEN <<Lower(n)>>
    ELSE FormatUint(n \div versionBase) \o <<Lower(n % versionBase)>>

\* strconv.ParseUint(s, 32, 64), as its value and whether it failed: a
\* syntax error on the empty string or on any character that is no base-32
\* digit; otherwise the value, read most significant digit first, either
\* case, leading zeros allowed.
ParseUint(s) ==
    IF s = <<>> \/ \E k \in DOMAIN s : s[k] = Other
    THEN [err |-> TRUE, val |-> 0]
    ELSE [err |-> FALSE,
          val |-> FoldLeft(LAMBDA acc, ch : acc * versionBase + ch.val, 0, s)]

\* Defect: the version is formatted from a truncated instant.
timestampToVersionStringTruncated(t) == FormatUint(t \div versionBase)

\* timestampToVersionString(t)
timestampToVersionString(t) == FormatUint(t)

\* versionStringToTimestamp(s): time.Unix(0, int64(nanos)), the instant
\* itself for the values reachable here.
versionStringToTimestamp(s) == ParseUint(s)

\* subscriptionsRow.versionOK
versionOK(t, version) ==
    version = <<>> \/ version = timestampToVersionString(t)

VersionStrings == SeqOf(Chars, MaxDigits)

Init ==
    /\ updatedAt \in Stamps
    /\ call \in [op : {"UpdateSubscription", "DeleteSubscription"},
                 version : VersionStrings]
    /\ result = "None"

\* updateSubscription's switch after the row is read: a version that fails
\* versionOK is the fmt.Errorf mismatch, any other goes on to the write.
CheckUpdate ==
    /\ result = "None" /\ call.op = "UpdateSubscription"
    /\ result' = IF versionOK(updatedAt, call.version) THEN "OK" ELSE "Errorf"
    /\ UNCHANGED <<updatedAt, call>>

\* DeleteSubscription: the empty version runs the blind DELETE; any other
\* is parsed (its error returned as is) and the DELETE matches the row
\* only when updated_at equals the parsed instant, else sql.ErrNoRows.
CheckDelete ==
    LET parsed == versionStringToTimestamp(call.version) IN
    /\ result = "None" /\ call.op = "DeleteSubscription"
    /\ result' = CASE call.version = <<>>  -> "OK"
                   [] parsed.err             -> "ParseError"
                   [] parsed.val # updatedAt -> "ErrNoRows"
                   [] OTHER                -> "OK"
    /\ UNCHANGED <<updatedAt, call>>

Next == CheckUpdate \/ CheckDelete

Spec == Init /\ [][Next]_vars

(***************************************************************************)
(* Properties.                                                             *)
(***************************************************************************)
\* Both version checks are sound and complete for the row's own version:
\* a non-empty version that updateSubscription's versionOK or
\* DeleteSubscription's ParseUint match accepts names the row's current
\* updated_at (no stale or foreign version gets through, however it is
\* spelled), and the version the store itself hands out for the row,
\* timestampToVersionString(updated_at), is accepted by both.  It ties
\* the formatting at line 693 to the parsing at 685 and the compare at 697.
VersionChecksSound ==
    result # "None" /\ call.version # <<>> =>
        /\ result = "OK" =>
              LET parsed == ParseUint(call.version)
              IN  ~parsed.err /\ parsed.val = updatedAt
        /\ call.version = FormatUint(updatedAt) => result = "OK"
=============================================================================
