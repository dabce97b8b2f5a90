------------------------------ MODULE GeoCoverer ------------------------------
(***************************************************************************)
(* The geo package's conversions to S2 cells (the functions at the end of *)
(* src/pkg/dss/cockroach/identification_service_area_test.go, lines        *)
(* 470-600): AreaToCellIDs parses a "lat0,lng0,lat1,lng1,..." string,     *)
(* Volume4DToCellIDs walks a wire polygon, and both end in Covering, which *)
(* refuses a loop whose area is not positive or exceeds maxLoopArea().     *)
(*                                                                         *)
(* An area string is a sequence of characters of three kinds: "d", a digit *)
(* of a finite decimal; "i", the word Inf or NaN; and ",".  Spaces are left *)
(* out: strings.TrimSpace drops them around every field.  A polygon vertex *)
(* is "finite" or "nonfinite" (a protobuf double may be either).           *)
(*                                                                         *)
(* The geometry is an input: a loop of three or more finite vertices spans *)
(* some number of square miles, one of SqMiSamples.  S2 gives a loop of    *)
(* fewer than three vertices the area 0, and a loop with a non-finite      *)
(* vertex the area NaN, which every comparison finds false.                *)
(*                                                                         *)
(* Areas are rationals [num, den] in steradians times sqMiEarth: TLC's      *)
(* integers are 32 bits wide, and the factor sqMiEarth is common to both   *)
(* sides of every comparison Covering makes.                               *)
(***************************************************************************)
EXTENDS Integers, Sequences, SequencesExt

CONSTANTS
    MaxFields,    \* bound on the comma-separated fields of an area string
    MaxVertices,  \* bound on the vertices of a wire polygon
    SqMiSamples,  \* the square miles a loop of finite vertices may span
    NaN,          \* the area S2 computes for a loop with a non-finite vertex
    Nil           \* an unset protobuf message

ASSUME MaxFields \in Nat \ {0} /\ SqMiSamples \subseteq Nat

VARIABLES
    call,    \* the conversion asked for and its argument
    sqMi,    \* the square miles the argument's loop spans
    result   \* "None" before the call returns, then its outcome

vars == <<call, sqMi, result>>

Frac(n, d) == [num |-> n, den |-> d]
Times(p, q) == Frac(p.num * q.num, p.den * q.den)
Over(p, q)  == Frac(p.num * q.den, p.den * q.num)
Greater(p, q) == p.num * q.den > q.num * p.den

\* math.Pi, close enough that no sample lies between the bounds it gives.
Pi == Frac(355, 113)

maxAllowedSqMi == 1000

\* maxLoopArea(): maxAllowedSqMi / (sqMiEarth / 4. * math.Pi), times
\* sqMiEarth.
maxLoopArea == Over(Frac(maxAllowedSqMi, 1), Times(Frac(1, 4), Pi))

\* loop.Area() of a loop of finite vertices spanning a square miles: a
\* share a / sqMiEarth of the sphere's 4 pi steradians, times sqMiEarth.
LoopArea(a) == Times(Frac(4 * a, 1), Pi)

\* Covering: not positive is errBadCoordSet, beyond maxLoopArea() is
\* errAreaTooLarge, both dsserr.BadRequest; a NaN area passes both tests.
Covering(area) ==
    CASE area # NaN /\ ~Greater(area, Frac(0, 1)) -> "BadRequest"
      [] area # NaN /\ Greater(area, maxLoopArea)  -> "BadRequest"
      [] OTHER                                     -> "OK"

\* The area S2 gives the loop of these vertices.
LoopOf(vertices, a) ==
    IF Len(vertices) < 3 THEN Frac(0, 1)
    ELSE IF \E k \in DOMAIN vertices : vertices[k] = "nonfinite" THEN NaN
    ELSE LoopArea(a)

IsComma(ch) == ch = ","

\* strings.Count(area, ",") + 1
NumCoords(area) == Len(SelectSeq(area, IsComma)) + 1

\* bufio.Scanner with splitAtComma: a token ends at each comma; the text
\* after the last comma is a token only when it is not empty.
RECURSIVE Scan(_)
Scan(s) ==
    LET i == SelectInSeq(s, IsComma) IN
    IF s = <<>> THEN <<>>
    ELSE IF i = 0 THEN <<s>>
    ELSE <<SubSeq(s, 1, i - 1)>> \o Scan(SubSeq(s, i + 1, Len(s)))

\* strconv.ParseFloat(trimmed, 64): digits are a finite float, Inf and NaN
\* a non-finite one; anything else, the empty string included, an error.
ParseFloat(f) ==
    IF f # <<>> /\ \A k \in DOMAIN f : f[k] = "d" THEN "finite"
    ELSE IF f = <<"i">> THEN "nonfinite"
    ELSE "error"

\* AreaToCellIDs: the count checks, the scan loop (a coordinate that does
\* not parse returns strconv's own error, not a dsserr), and Covering of
\* the points, one per lat,lng pair; an unpaired last lat is parsed but
\* joins no point.
AreaToCellIDs(area, a) ==
    LET toks   == Scan(area)
        coords == [k \in DOMAIN toks |-> ParseFloat(toks[k])]
        points == [p \in 1..(Len(toks) \div 2) |->
                     IF coords[2 * p - 1] = "finite" /\ coords[2 * p] = "finite"
                       THEN "finite" ELSE "nonfinite"]
    IN
    CASE NumCoords(area) % 2 = 1                       -> "BadRequest"
      [] NumCoords(area) \div 2 < 3                    -> "BadRequest"
      [] \E k \in DOMAIN coords : coords[k] = "error"  -> "ParseError"
      [] OTHER                                         -> Covering(LoopOf(points, a))

\* GeoPolygonToCellIDs, reached through Volume4DToCellIDs and
\* Volume3DToCellIDs: an unset message at any level is errBadCoordSet.
Volume4DToCellIDs(v4, a) ==
    CASE v4 = Nil                               -> "BadRequest"
      [] v4.spatialVolume = Nil                 -> "BadRequest"
      [] v4.spatialVolume.footprint = Nil       -> "BadRequest"
      [] OTHER -> Covering(LoopOf(v4.spatialVolume.footprint.vertices, a))

(***************************************************************************)
(* The inputs: every area string of at most MaxFields fields, each empty, *)
(* a digit or Inf, and every Volume4D whose polygon has at most            *)
(* MaxVertices vertices.                                                   *)
(***************************************************************************)
RECURSIVE Join(_)
Join(fields) ==
    IF Len(fields) = 1 THEN fields[1]
    ELSE fields[1] \o <<",">> \o Join(Tail(fields))

Areas == {Join(fs) : fs \in SeqOf({<<>>, <<"d">>, <<"i">>}, MaxFields) \ {<<>>}}

Polygons == [vertices : SeqOf({"finite", "nonfinite"}, MaxVertices)]
Volume4Ds == {Nil} \cup [spatialVolume : {Nil}]
               \cup [spatialVolume : [footprint : {Nil} \cup Polygons]]

Init ==
    /\ call \in {<<"AreaToCellIDs", s>> : s \in Areas}
                  \cup {<<"Volume4DToCellIDs", v>> : v \in Volume4Ds}
    /\ sqMi \in SqMiSamples
    /\ result = "None"

ConvertArea ==
    /\ result = "None" /\ call[1] = "AreaToCellIDs"
    /\ result' = AreaToCellIDs(call[2], sqMi)
    /\ UNCHANGED <<call, sqMi>>

ConvertExtents ==
    /\ result = "None" /\ call[1] = "Volume4DToCellIDs"
    /\ result' = Volume4DToCellIDs(call[2], sqMi)
    /\ UNCHANGED <<call, sqMi>>

Next == ConvertArea \/ ConvertExtents

Spec == Init /\ [][Next]_vars

(***************************************************************************)
(* Properties.                                                             *)
(***************************************************************************)
\* spec.md 4.A: the fields of an area are the text between its commas.
RECURSIVE Fields(_)
Fields(s) ==
    LET i == SelectInSeq(s, IsComma) IN
    IF i = 0 THEN <<s>>
    ELSE <<SubSeq(s, 1, i - 1)>> \o Fields(SubSeq(s, i + 1, Len(s)))

IsFiniteFloat(f) == f # <<>> /\ \A k \in DOMAIN f : f[k] = "d"

\* spec.md 4.A: a loop is covered when it has three vertices or more, all
\* finite, and spans more than 0 and at most 1000 square miles.
SpecCovers(vertices, a) ==
    /\ Len(vertices) >= 3
    /\ \A k \in DOMAIN vertices : vertices[k] = "finite"
    /\ 0 < a /\ a <= maxAllowedSqMi

SpecAccepts(c, a) ==
    IF c[1] = "AreaToCellIDs"
    THEN LET fs == Fields(c[2]) IN
         /\ Len(fs) % 2 = 0
         /\ \A k \in DOMAIN fs : IsFiniteFloat(fs[k])
         /\ SpecCovers([p \in 1..(Len(fs) \div 2) |-> "finite"], a)
    ELSE /\ c[2] # Nil /\ c[2].spatialVolume # Nil
         /\ c[2].spatialVolume.footprint # Nil
         /\ SpecCovers(c[2].spatialVolume.footprint.vertices, a)

\* The conversions return cells for exactly the inputs spec.md 4.A
\* accepts: an even number (six or more) of finite coordinates, or a
\* polygon of three or more finite vertices, spanning at most 1000 square
\* miles (AreaToCellIDs, Covering, maxLoopArea).
ConversionsMatchSpec ==
    result # "None" => ((result = "OK") = SpecAccepts(call, sqMi))
=============================================================================
