----------------------------- MODULE ValueTypes ------------------------------
(***************************************************************************)
(* The value objects the SDK calculates with: Version, Duration and        *)
(* Timestamp, each taken through a series of their operations and through  *)
(* the texts they are written to and read from.                            *)
(*                                                                         *)
(* Durations and instants are in units of half a second.                   *)
(***************************************************************************)
EXTENDS Integers, Sequences

CONSTANTS
  Spans,       \* durations somebody adds or takes away
  Offsets,     \* time zones, as seconds ahead of UTC
  MaxBumps,    \* bounds
  MaxSteps

ASSUME ValueTypesAssumption ==
  Spans \subseteq Nat /\ Offsets \subseteq Int /\ {MaxBumps, MaxSteps} \subseteq Nat

VARIABLES
  version,
  origin,      \* history: the version it was bumped from
  bumps,
  broke,       \* history: a major version was bumped
  stamp,       \* Timestamp: wall clock and offset
  first,       \* history: the timestamp it was first
  elapsed,     \* Duration
  steps

versionVars == <<version, origin, bumps, broke>>
timeVars == <<stamp, first, elapsed, steps>>
valueTypeVars == <<versionVars, timeVars>>

VersionOf(major, minor, patch) == [major |-> major, minor |-> minor, patch |-> patch]
Stamp(wall, offset) == [wall |-> wall, offset |-> offset]

TypesOK ==
  /\ {version, origin} \subseteq [major : Nat, minor : Nat, patch : Nat]
  /\ bumps \in 0 .. MaxBumps /\ broke \in BOOLEAN
  /\ {stamp, first} \subseteq [wall : Int, offset : Int]
  /\ elapsed \in Nat /\ steps \in 0 .. MaxSteps

TypesInit ==
  /\ version \in {VersionOf(0, 0, 0), VersionOf(1, 2, 0), VersionOf(1, 0, 3)}
  /\ origin = version /\ bumps = 0 /\ broke = FALSE
  /\ stamp \in {Stamp(7200, o) : o \in Offsets} /\ first = stamp
  /\ elapsed = 0 /\ steps = 0

-----------------------------------------------------------------------------
Less(a, b) ==
  \/ a.major < b.major
  \/ a.major = b.major /\ a.minor < b.minor
  \/ a.major = b.major /\ a.minor = b.minor /\ a.patch < b.patch
Same(a, b) == <<a.major, a.minor, a.patch>> = <<b.major, b.minor, b.patch>>
AtMost(a, b) == Less(a, b) \/ Same(a, b)
Compatible(a, b) == a.major = b.major

Bumped(how) ==
  CASE how = "major" -> VersionOf(version.major + 1, 0, 0)
    [] how = "minor" -> VersionOf(version.major, version.minor + 1, 0)
    [] how = "patch" -> VersionOf(version.major, version.minor, version.patch + 1)
Bump ==
  /\ bumps < MaxBumps /\ bumps' = bumps + 1
  /\ \E how \in {"major", "minor", "patch"} :
       version' = Bumped(how) /\ broke' = (broke \/ how = "major")
  /\ UNCHANGED <<origin, timeVars>>

(* str gives three numbers; from_string reads one to three, a missing one  *)
(* as zero.                                                                *)
Written(v) == <<v.major, v.minor, v.patch>>
ShortForms(v) ==
  {Written(v)} \cup (IF v.patch = 0 THEN {<<v.major, v.minor>>} ELSE {})
               \cup (IF v.patch = 0 /\ v.minor = 0 THEN {<<v.major>>} ELSE {})
FromString(s) ==
  VersionOf(s[1], IF Len(s) > 1 THEN s[2] ELSE 0, IF Len(s) > 2 THEN s[3] ELSE 0)
ReadVersion ==
  /\ \E s \in ShortForms(version) : version' = FromString(s)
  /\ UNCHANGED <<origin, bumps, broke, timeVars>>

-----------------------------------------------------------------------------
(* A timestamp and a duration that says how far it has been moved.         *)
Move(d) == stamp' = [stamp EXCEPT !.wall = @ + d]
AddSpan ==
  /\ steps < MaxSteps /\ steps' = steps + 1
  /\ \E d \in Spans : Move(d) /\ elapsed' = elapsed + d
  /\ UNCHANGED <<versionVars, first>>
(* A duration does not go below zero: the subtraction raises.              *)
SubtractSpan ==
  /\ steps < MaxSteps /\ steps' = steps + 1
  /\ \E d \in Spans : d <= elapsed /\ Move(-d) /\ elapsed' = elapsed - d
  /\ UNCHANGED <<versionVars, first>>

(* Mutant of ToUtc: the offset is set, the clock not.                      *)
ToUtcByName(t) == Stamp(t.wall, 0)
ToUtc(t) == Stamp(t.wall - t.offset, 0)
(* An offset of zero may be written as Z, which is read as an offset of    *)
(* zero; a text without offset is refused.                                 *)
IsoText(t, z) == <<t.wall, IF z /\ t.offset = 0 THEN "Z" ELSE "offset", t.offset>>
FromIso(s) == Stamp(s[1], IF s[2] = "Z" THEN 0 ELSE s[3])
ToUnix(t) == t.wall - t.offset
FromUnix(u) == Stamp(u, 0)
Convert ==
  /\ \/ stamp' = ToUtc(stamp)
     \/ \E z \in BOOLEAN : stamp' = FromIso(IsoText(stamp, z))
     \/ stamp' = FromUnix(ToUnix(stamp))
  /\ UNCHANGED <<versionVars, first, elapsed, steps>>

(* Milliseconds and timedelta keep every half second, and so does the      *)
(* product with a whole number; minutes and hours do not (62 s comes back  *)
(* as a little more), and are left out.                                    *)
ToMilliseconds(d) == d * 500
FromMilliseconds(m) == m \div 500
ToTimedelta(d) ==
  [days |-> d \div 172800, seconds |-> (d % 172800) \div 2, microseconds |-> (d % 2) * 500000]
FromTimedelta(td) == td.days * 172800 + td.seconds * 2 + td.microseconds \div 500000
Product(d, n) == d * n
Quotient(d, n) == d \div n
ConvertSpan ==
  /\ \/ elapsed' = FromMilliseconds(ToMilliseconds(elapsed))
     \/ elapsed' = FromTimedelta(ToTimedelta(elapsed))
     \/ \E n \in {1, 2, 4} : elapsed' = Quotient(Product(elapsed, n), n)
  /\ UNCHANGED <<versionVars, stamp, first, steps>>

(* Timestamps of any zones are compared by the instant they mean.          *)
IsBefore(a, b) == ToUnix(a) < ToUnix(b)
NotAfter(a, b) == ToUnix(a) <= ToUnix(b)
SameInstant(a, b) == ToUnix(a) = ToUnix(b)
Diff(a, b) == IF IsBefore(a, b) THEN ToUnix(b) - ToUnix(a) ELSE ToUnix(a) - ToUnix(b)
IsZero(d) == d = 0

VersionNext == Bump \/ ReadVersion
TimeNext == AddSpan \/ SubtractSpan \/ Convert \/ ConvertSpan
TypesSpec == TypesInit /\ [][VersionNext \/ TimeNext]_valueTypeVars
-----------------------------------------------------------------------------
(* Duration.__str__, as amounts of half seconds.                           *)
HalfSeconds == 2
Minute == 60 * HalfSeconds
Hour == 60 * Minute
Day == 24 * Hour
Whole(d) == d % HalfSeconds = 0
Amount(n) == IF n > 0 THEN <<n>> ELSE << >>
Large(d) ==
  Amount((d \div Day) * Day) \o Amount(((d % Day) \div Hour) * Hour)
    \o Amount(((d % Hour) \div Minute) * Minute)
Seconds(d) == (d % Minute) - (d % HalfSeconds)
(* Where there is a fraction the last part is all of the duration, and     *)
(* with no seconds left it is not written at all.                          *)
TextOf(d) ==
  IF d < HalfSeconds THEN <<d>>
  ELSE IF Seconds(d) = 0 /\ Large(d) # << >> THEN Large(d)
  ELSE Large(d) \o <<IF Whole(d) THEN Seconds(d) ELSE d>>
Sum(s) ==
  LET upTo[n \in 0 .. Len(s)] == IF n = 0 THEN 0 ELSE upTo[n - 1] + s[n]
  IN upTo[Len(s)]

(* Bumps only lead upwards, and no way of writing a version changes it     *)
(* when it is read again.                                                  *)
VersionsAscend == [][version' # version => Less(version, version') /\ bumps' > bumps]_valueTypeVars

(* A version is compatible with the one it came from until the first major *)
(* bump, and never after.                                                  *)
CompatibleUntilMajor == Compatible(version, origin) <=> ~broke

(* However versions were bumped, written and read, the comparisons put     *)
(* them after the one they came from, and the same only if none was        *)
(* bumped.                                                                 *)
BumpsAreOrdered ==
  /\ Less(origin, version) <=> bumps > 0
  /\ Same(origin, version) <=> bumps = 0
  /\ AtMost(origin, version) /\ ~Less(version, origin)

(* Whatever a timestamp goes through, zones, texts and Unix time, it means *)
(* the first instant moved by the duration that was added up beside it,    *)
(* and that is what comparison and difference say across zones.            *)
InstantKept ==
  /\ ToUnix(stamp) = ToUnix(first) + elapsed /\ Diff(stamp, first) = elapsed
  /\ NotAfter(first, stamp)
  /\ SameInstant(first, stamp) <=> IsZero(elapsed)
  /\ IsBefore(first, stamp) <=> ~IsZero(elapsed)

(* The parts a duration is written with add up to it: if it is a number of *)
(* seconds, or less than a minute.  1m 61.5s is the text of the others.    *)
TextAddsUp == Whole(elapsed) \/ elapsed < Minute => Sum(TextOf(elapsed)) = elapsed

(* The types, and that no series of operations and texts changes what a    *)
(* value means.                                                            *)
ValuesSound ==
  /\ [](TypesOK /\ CompatibleUntilMajor /\ BumpsAreOrdered /\ InstantKept /\ TextAddsUp)
  /\ VersionsAscend
=============================================================================
