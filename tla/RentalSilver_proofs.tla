-------------------------- MODULE RentalSilver_proofs --------------------------
(***************************************************************************)
(* What Silver promises behind its watermark, its markers and its          *)
(* documents, for every horizon, cap and chunk size.                        *)
(***************************************************************************)
EXTENDS RentalSilver, FiniteSetTheorems, WellFoundedInduction, TLAPS

(* The pool of the production deployment has one slot                       *)
(* (docker-compose.prod.yml); with two a chunk and the daily run replace    *)
(* the same dates at once.                                                  *)
ASSUME OneSlot == Slots = 1

(* Dates are counted from the first one the patterns select.                *)
ASSUME FilesFromTheFirstDate == LoadFroms \subseteq {1}

WholeOn(table, r) == \A d \in Dates : InRange(d, r) => table[d] = "whole"
Settled(last) == \A d \in Dates : d <= last => silver[d] = "whole" /\ quarantine[d] = "whole"

(* Whole days of Bronze are over, and every date up to its watermark is one.*)
Clock ==
    /\ LoadedTo < today /\ wm < today
    /\ \A d \in Dates : bronze[d] = "whole" => d < today
    /\ \A d \in Dates : d <= wm => bronze[d] = "whole"
    /\ \A d \in promotions : bronze[d] # "none"
    /\ ~ boot => silverWm = 0

(* A day that is whole anywhere was read from a whole day of Bronze.        *)
Copies ==
    \A d \in Dates :
        \/ bronze[d] = "whole"
        \/ /\ silver[d] # "whole" /\ quarantine[d] # "whole"
           /\ daily.read[d] # "whole" /\ load.read[d] # "whole"

OneAtATime == daily.pc \notin {"idle", "queued"} => load.pc \notin {"audit", "main", "mark"}

(* The confirmed range of a daily run is whole in Bronze, so what is read   *)
(* of it is whole; what was read of the running day, if it is not, is read  *)
(* before any other run could have brought the whole day.                   *)
ConfirmedPart ==
    /\ daily.pc \in {"scan", "audit", "main"} =>
           /\ daily.range = daily.confirmed /\ ~ IsEmpty(daily.confirmed)
           /\ WholeOn(bronze, daily.range) /\ Settled(daily.range.lo - 1)
    /\ daily.pc \in {"audit", "main"} => WholeOn(daily.read, daily.range)
    /\ daily.pc = "main" => WholeOn(quarantine, daily.range)
    /\ daily.pc \in {"idle", "queued"} => IsEmpty(daily.confirmed)
    /\ IsEmpty(daily.confirmed) \/ daily.confirmed.hi = daily.through
    /\ daily.pc \in {"t0", "scan_t0", "audit_t0", "main_t0", "write", "doc"} =>
           Settled(daily.through)

CurrentDayPart ==
    /\ daily.pc \in {"scan_t0", "audit_t0", "main_t0"} =>
           daily.day \in promotions /\ daily.range = DayOf(daily.day)
    /\ daily.pc \in {"audit_t0", "main_t0"} =>
           /\ daily.read[daily.day] # "none"
           /\ daily.read[daily.day] # "whole" => silver[daily.day] # "whole"
    /\ daily.pc = "audit_t0" =>
           (daily.read[daily.day] # "whole" => quarantine[daily.day] # "whole")
    /\ (daily.pc = "write" /\ daily.day # 0) \/ daily.pc = "doc" =>
           daily.day \in Dates /\ silver[daily.day] # "none"

(* The plan of a load: every date up to its end is settled or in one of the *)
(* ranges, which follow each other.                                         *)
Planned(plan, upto) ==
    /\ \A d \in Dates : d <= upto =>
           \/ silver[d] = "whole" /\ quarantine[d] = "whole"
           \/ \E r \in plan : InRange(d, r)
    /\ \A r, q \in plan : r.lo < q.lo => r.hi < q.lo
    /\ \A r \in plan : r.hi <= upto /\ WholeOn(bronze, r)

LoadPart ==
    /\ load.from = 1
    /\ load.pc = "watermarks" =>
           /\ \A d \in Dates : d <= LoadedTo => bronze[d] = "whole"
           /\ "set" \notin load.left => LoadedTo <= wm
           /\ "bootstrap" \notin load.left => boot
    /\ load.pc \in {"chunks", "audit", "main", "mark"} =>
           load.todo \subseteq load.plan /\ Planned(load.plan, load.upto)
    /\ load.pc \in {"chunks", "audit", "main", "mark", "write", "done"} =>
           boot /\ LoadedTo <= load.upto
    /\ load.pc = "write" => Settled(load.next)
    /\ load.pc = "done" => Settled(load.upto)

ChunkPart ==
    /\ load.pc \in {"audit", "main", "mark"} =>
           load.chunk \in load.plan /\ WholeOn(load.read, load.chunk)
    /\ load.pc \in {"main", "mark"} => WholeOn(quarantine, load.chunk)
    /\ load.pc = "mark" => WholeOn(silver, load.chunk)

MarkersHold == \A r \in markers : WholeOn(silver, r) /\ WholeOn(quarantine, r)

DocsHold ==
    \A r \in Dates : docs[r] # NoDoc =>
        /\ silver[r] # "none"
        /\ \A d \in Dates : d <= docs[r] => silver[d] = "whole"

SilverInv ==
    /\ TypeOK /\ Clock /\ Copies /\ OneAtATime
    /\ ConfirmedPart /\ CurrentDayPart /\ LoadPart /\ ChunkPart
    /\ MarkersHold /\ DocsHold /\ Settled(silverWm)
-----------------------------------------------------------------------------
(* Numbers *)

(* The largest element of a set of numbers that has a bound.                *)
LEMMA MaxOfBounded ==
    ASSUME NEW n \in Nat, NEW S \in SUBSET (0 .. n), S # {}
    PROVE  Max(S) \in S /\ \A x \in S : x <= Max(S)
<1>1. \A x \in S : n - x \in Nat
  OBVIOUS
<1> DEFINE T == {n - x : x \in S}
<1>2. T \subseteq Nat /\ T # {}
  BY <1>1
<1>3. PICK t \in T : \A u \in T : ~ (<<u, t>> \in OpToRel(<, Nat))
  <2> HIDE DEF T
  <2> QED
    BY <1>2, NatLessThanWellFounded, WFMin
<1>4. \A u \in T : ~ (u < t)
  <2> HIDE DEF T
  <2> QED
    BY <1>2, <1>3 DEF OpToRel
<1>5. PICK m \in S : t = n - m
  BY <1>3
<1>6. ASSUME NEW y \in S PROVE m >= y
  <2>1. ~ (n - y < n - m)
    BY <1>4, <1>5
  <2> QED
    BY <2>1
<1>7. Max(S) \in S /\ \A y \in S : Max(S) >= y
  BY <1>6 DEF Max
<1> HIDE DEF T
<1> QED
  BY <1>7

LEMMA MinOfTwo ==
    ASSUME NEW a \in Int, NEW b \in Int
    PROVE  /\ Min({a, b}) \in {a, b}
           /\ Min({a, b}) <= a /\ Min({a, b}) <= b
<1>1. \E x \in {a, b} : \A y \in {a, b} : x <= y
  OBVIOUS
<1>2. Min({a, b}) \in {a, b} /\ \A y \in {a, b} : Min({a, b}) <= y
  BY <1>1 DEF Min
<1> QED
  BY <1>2

LEMMA Division ==
    ASSUME NEW s \in Nat \ {0}, NEW k \in Nat
    PROVE  /\ k = (s * (k \div s)) + (k % s)
           /\ k \div s \in Nat /\ k % s \in 0 .. s - 1
OBVIOUS

LEMMA Multiple ==
    ASSUME NEW s \in Nat \ {0}, NEW q \in Nat
    PROVE  (s * q) % s = 0 /\ s * q \in Nat
OBVIOUS

LEMMA MultipleBelow ==
    ASSUME NEW s \in Nat \ {0}, NEW k \in Nat
    PROVE  /\ k - (k % s) \in Nat /\ (k - (k % s)) % s = 0
           /\ k < k - (k % s) + s
<1>1. /\ k = (s * (k \div s)) + (k % s)
      /\ k \div s \in Nat /\ k % s \in 0 .. s - 1
  BY Division
<1>2. k - (k % s) = s * (k \div s)
  BY <1>1
<1>3. (s * (k \div s)) % s = 0 /\ s * (k \div s) \in Nat
  BY <1>1, Multiple
<1>4. k < k - (k % s) + s
  BY <1>1
<1> QED
  BY <1>2, <1>3, <1>4

LEMMA MultiplesApart ==
    ASSUME NEW s \in Nat \ {0}, NEW a \in Nat, NEW b \in Nat,
           a % s = 0, b % s = 0, a < b
    PROVE  a + s <= b
<1>1. /\ a = s * (a \div s) /\ a \div s \in Nat
      /\ b = s * (b \div s) /\ b \div s \in Nat
  BY Division
<1>2. a \div s < b \div s
  BY <1>1
<1> QED
  BY <1>1, <1>2

-----------------------------------------------------------------------------
(* The operators of the job and of the planner *)

LEMMA ConfirmedRangeFacts ==
    ASSUME TypeOK, Clock
    PROVE  /\ ConfirmedRange \in SomeRange
           /\ ConfirmedRange.lo = silverWm + 1
           /\ WholeOn(bronze, ConfirmedRange)
<1>1. silverWm \in 0 .. LastDay /\ wm \in 0 .. LastDay /\ LastDay \in Nat
      /\ MaxDays \in Nat \ {0}
  BY SilverConstants DEF TypeOK
<1>2. /\ Min({wm, silverWm + MaxDays}) \in {wm, silverWm + MaxDays}
      /\ Min({wm, silverWm + MaxDays}) <= wm
  BY <1>1, MinOfTwo
<1>3. Min({wm, silverWm + MaxDays}) \in 0 .. LastDay
  BY <1>1, <1>2
<1>4. ConfirmedRange = [lo |-> silverWm + 1, hi |-> Min({wm, silverWm + MaxDays})]
  BY DEF ConfirmedRange
<1>5. ConfirmedRange \in SomeRange /\ ConfirmedRange.hi <= wm
  BY <1>1, <1>2, <1>3, <1>4 DEF SomeRange
<1> QED
  BY <1>1, <1>4, <1>5 DEF WholeOn, InRange, Clock, Dates, SomeRange

(* build_ranges leaves no date between its ends out and no two ranges       *)
(* overlap.                                                                 *)
LEMMA RangesCover ==
    ASSUME NEW after \in 0 .. LastDay, NEW upto \in 0 .. LastDay,
           NEW size \in Nat \ {0}, NEW d \in Dates, after < d, d <= upto
    PROVE  \E r \in BuildRanges(after, upto, size) : InRange(d, r)
<1> DEFINE k == d - after - 1
           lo == after + 1 + (k - (k % size))
           hi == Min({lo + size - 1, upto})
           r == [lo |-> lo, hi |-> hi]
<1>1. k \in Nat /\ LastDay \in Nat
  BY SilverConstants DEF Dates
<1>2. /\ k - (k % size) \in Nat /\ (k - (k % size)) % size = 0
      /\ k < k - (k % size) + size
  <2> HIDE DEF k
  <2> QED
    BY <1>1, MultipleBelow
<1>3. k - (k % size) <= k
  <2> HIDE DEF k
  <2> QED
    BY <1>1, Division
<1>4. lo \in Nat /\ after < lo /\ lo <= d /\ d <= lo + size - 1
  <2> DEFINE m == k - (k % size)
  <2>1. m \in Nat /\ m <= k /\ k < m + size /\ lo = after + 1 + m
    BY <1>2, <1>3
  <2> HIDE DEF m, lo
  <2> QED
    BY <2>1 DEF Dates
<1>5. (lo - after - 1) % size = 0
  <2> DEFINE m == k - (k % size)
  <2>1. m \in Nat /\ m % size = 0 /\ lo = after + 1 + m
    BY <1>2
  <2> HIDE DEF m, lo
  <2>2. lo - after - 1 = m
    BY <2>1
  <2> QED
    BY <2>1, <2>2
<1> HIDE DEF lo
<1>6. hi \in {lo + size - 1, upto} /\ hi <= lo + size - 1 /\ hi <= upto
  BY <1>4, MinOfTwo
<1> HIDE DEF hi
<1>7. hi \in Dates /\ lo \in Dates /\ d <= hi /\ lo <= upto
  BY <1>1, <1>4, <1>6 DEF Dates
<1>8. r \in Ranges /\ r.lo = lo /\ r.hi = hi
  BY <1>7 DEF Ranges
<1>9. r \in BuildRanges(after, upto, size)
  BY <1>4, <1>5, <1>7, <1>8 DEF BuildRanges, hi
<1> QED
  BY <1>4, <1>7, <1>8, <1>9 DEF InRange

LEMMA RangesInOrder ==
    ASSUME NEW after \in 0 .. LastDay, NEW upto \in 0 .. LastDay,
           NEW size \in Nat \ {0}
    PROVE  /\ \A r \in BuildRanges(after, upto, size) :
                  r \in Ranges /\ after < r.lo /\ r.hi <= upto
           /\ \A r, q \in BuildRanges(after, upto, size) : r.lo < q.lo => r.hi < q.lo
<1>1. ASSUME NEW r \in BuildRanges(after, upto, size)
      PROVE  /\ r \in Ranges /\ after < r.lo /\ r.lo - after - 1 \in Nat
             /\ (r.lo - after - 1) % size = 0
             /\ r.hi <= upto /\ r.hi <= r.lo + size - 1
  <2>1. /\ r \in Ranges /\ after < r.lo /\ (r.lo - after - 1) % size = 0
        /\ r.hi = Min({r.lo + size - 1, upto})
    BY DEF BuildRanges
  <2>2. /\ r.lo \in Int /\ r.lo - after - 1 \in Nat /\ upto \in Int
        /\ r.lo + size - 1 \in Int
    BY <2>1 DEF Ranges, Dates
  <2>3. r.hi <= r.lo + size - 1 /\ r.hi <= upto
    <3>1. /\ Min({r.lo + size - 1, upto}) <= r.lo + size - 1
          /\ Min({r.lo + size - 1, upto}) <= upto
      BY <2>2, MinOfTwo
    <3> QED
      BY <2>1, <3>1
  <2> QED
    BY <2>1, <2>2, <2>3
<1>2. ASSUME NEW r \in BuildRanges(after, upto, size),
             NEW q \in BuildRanges(after, upto, size), r.lo < q.lo
      PROVE  r.hi < q.lo
  <2>1. r.lo \in Int /\ q.lo \in Int /\ r.hi \in Int /\ r.hi <= r.lo + size - 1
    BY <1>1 DEF Ranges, Dates
  <2>2. r.lo - after - 1 < q.lo - after - 1
    BY <1>2, <2>1
  <2>3. (r.lo - after - 1) + size <= q.lo - after - 1
    BY <1>1, <2>2, MultiplesApart
  <2> QED
    BY <2>1, <2>3
<1> QED
  BY <1>1, <1>2

(* The pool lets one run in.                                                *)
LEMMA OneSlotIsExclusive ==
    ASSUME SlotFree
    PROVE  daily.pc \in {"idle", "queued"} /\ load.pc \notin {"audit", "main", "mark"}
<1>1. Holders \subseteq {"daily", "chunk"}
  BY DEF Holders
<1>2. IsFiniteSet({"daily", "chunk"})
  <2>1. IsFiniteSet({"daily"})
    BY FS_Singleton
  <2>2. IsFiniteSet({"daily"} \cup {"chunk"})
    BY <2>1, FS_AddElement
  <2>3. {"daily"} \cup {"chunk"} = {"daily", "chunk"}
    OBVIOUS
  <2> QED
    BY <2>2, <2>3
<1>3. IsFiniteSet(Holders)
  BY <1>1, <1>2, FS_Subset
<1>4. Cardinality(Holders) \in Nat /\ Cardinality(Holders) < 1
  BY <1>3, FS_CardinalityType, OneSlot DEF SlotFree
<1>5. Holders = {}
  BY <1>3, <1>4, FS_EmptySet
<1>6. "daily" \notin Holders /\ "chunk" \notin Holders
  BY <1>5
<1> QED
  BY <1>6 DEF Holders

-----------------------------------------------------------------------------
(* Types *)

LEMMA ConstantFacts ==
    /\ LastDay \in Nat /\ LoadedTo \in Dates /\ LoadedTo + 1 \in Dates
    /\ 1 \in Dates
    /\ Dates \subseteq Nat /\ \A d \in Dates : 1 <= d /\ d <= LastDay
    /\ \A from \in LoadFroms : from = 1
BY SilverConstants, FilesFromTheFirstDate DEF Dates

LEMMA RangeFacts ==
    ASSUME NEW r \in Ranges
    PROVE  /\ r.lo \in Dates /\ r.hi \in Dates /\ r.lo \in Nat /\ r.hi \in Nat
           /\ r.lo \in 1 .. LastDay + 1 /\ r.hi \in 0 .. LastDay /\ r \in SomeRange
<1>1. /\ r.lo \in Dates /\ r.hi \in Dates /\ r = [lo |-> r.lo, hi |-> r.hi]
  BY DEF Ranges
<1>2. /\ r.lo \in Nat /\ r.hi \in Nat /\ LastDay \in Nat
      /\ 1 <= r.lo /\ r.lo <= LastDay /\ 1 <= r.hi /\ r.hi <= LastDay
  BY <1>1, ConstantFacts
<1>3. r.lo \in 1 .. LastDay + 1 /\ r.hi \in 0 .. LastDay
  BY <1>2
<1>4. r \in SomeRange
  BY <1>1, <1>3 DEF SomeRange
<1> QED
  BY <1>1, <1>2, <1>3, <1>4

LEMMA EmptyValues ==
    /\ NoRange \in SomeRange /\ Nothing \in Contents3
    /\ IdleDaily \in DailyRuns /\ IdleLoad \in LoadRuns
<1>1. NoRange \in SomeRange /\ Nothing \in Contents3
  BY ConstantFacts DEF NoRange, SomeRange, Nothing, Contents3, Contents
<1> QED
  BY <1>1, ConstantFacts DEF IdleDaily, DailyRuns, IdleLoad, LoadRuns

LEMMA ScanIsContents ==
    ASSUME bronze \in Contents3, NEW r
    PROVE  Scan(r) \in Contents3
BY DEF Scan, Contents3, Contents

LEMMA ReplacedIsContents ==
    ASSUME NEW table \in Contents3, NEW rows \in Contents3, NEW r
    PROVE  ReplaceRange(table, r, rows) \in Contents3
BY DEF ReplaceRange, Contents3

LEMMA BronzeType ==
    ASSUME TypeOK, Midnight \/ BronzeNext
    PROVE  TypeOK'
<1>1. CASE Midnight
  BY <1>1, ConstantFacts DEF TypeOK, Midnight, bronzeVars, tables, Dates
<1>2. ASSUME NEW t0 \in T0Flags, BronzePromote(t0)
      PROVE  TypeOK'
  <2>1. bronze' \in Contents3
    BY <1>2 DEF TypeOK, BronzePromote, Contents3, Contents
  <2>2. promotions' \subseteq Dates
    BY <1>2 DEF TypeOK, BronzePromote
  <2> QED
    BY <1>2, <2>1, <2>2 DEF TypeOK, BronzePromote, tables
<1>3. ASSUME NEW meta \in 0 .. LastDay, BronzeConfirm(meta)
      PROVE  TypeOK'
  <2>1. PICK next \in wm .. today - 1 : wm' = next
    BY <1>3 DEF BronzeConfirm
  <2>2. wm' \in 0 .. LastDay
    BY <2>1, ConstantFacts DEF TypeOK, Dates
  <2>3. event' \in -1 .. LastDay
    BY <1>3, ConstantFacts DEF BronzeConfirm
  <2> QED
    BY <1>3, <2>2, <2>3 DEF TypeOK, BronzeConfirm, tables
<1> QED
  BY <1>1, <1>2, <1>3 DEF BronzeNext

LEMMA DailyFieldsType ==
    ASSUME TypeOK, Clock, DailyNext
    PROVE  daily' \in DailyRuns
<1>0. daily \in DailyRuns /\ IdleDaily \in DailyRuns /\ Nothing \in Contents3
      /\ NoRange \in SomeRange
  BY EmptyValues DEF TypeOK
<1>1. CASE DailyTrigger
  <2>1. event \in 0 .. LastDay
    BY <1>1, ConstantFacts DEF TypeOK, DailyTrigger, NoEvent
  <2> QED
    BY <1>0, <1>1, <2>1 DEF DailyTrigger, DailyRuns
<1>2. ASSUME NEW t0 \in T0Flags, DailyBegin(t0)
      PROVE  daily' \in DailyRuns
  <2> DEFINE day == IF t0 THEN daily.meta ELSE 0
  <2>1. day \in 0 .. LastDay /\ silverWm \in 0 .. LastDay
    BY <1>0, ConstantFacts DEF DailyRuns, TypeOK
  <2>2. ConfirmedRange \in SomeRange /\ ConfirmedRange.hi \in 0 .. LastDay
    BY ConfirmedRangeFacts DEF SomeRange
  <2>3. \/ daily' = IdleDaily
        \/ daily' = [daily EXCEPT !.pc = "t0", !.day = day, !.through = silverWm]
        \/ daily' = [daily EXCEPT !.pc = "scan", !.day = day,
                                  !.confirmed = ConfirmedRange,
                                  !.through = ConfirmedRange.hi,
                                  !.range = ConfirmedRange]
    BY <1>2 DEF DailyBegin
  <2> HIDE DEF day
  <2> QED
    BY <1>0, <2>1, <2>2, <2>3 DEF DailyRuns
<1>3. CASE DailyScan
  <2>1. Scan(daily.range) \in Contents3
    BY ScanIsContents DEF TypeOK
  <2> QED
    BY <1>0, <1>3, <2>1 DEF DailyScan, DailyRuns
<1>4. CASE DailyQuarantine
  BY <1>0, <1>4 DEF DailyQuarantine, DailyRuns
<1>5. CASE DailyReplace
  BY <1>0, <1>5 DEF DailyReplace, DailyRuns
<1>6. CASE DailyCurrentDay
  <2>1. ASSUME daily.day \in promotions
        PROVE  DayOf(daily.day) \in SomeRange
    <3>1. daily.day \in Nat /\ 1 <= daily.day /\ daily.day <= LastDay
      BY <2>1, ConstantFacts DEF TypeOK
    <3> QED
      BY <3>1, ConstantFacts DEF DayOf, SomeRange
  <2>2. CASE daily.day \in promotions
    <3>1. daily' = [daily EXCEPT !.pc = "scan_t0", !.range = DayOf(daily.day)]
      BY <1>6, <2>2 DEF DailyCurrentDay
    <3> QED
      BY <1>0, <2>1, <2>2, <3>1 DEF DailyRuns
  <2>3. CASE daily.day \notin promotions
    <3>1. daily' = [daily EXCEPT !.pc = "write", !.day = 0] /\ 0 \in 0 .. LastDay
      BY <1>6, <2>3, ConstantFacts DEF DailyCurrentDay
    <3> QED
      BY <1>0, <3>1 DEF DailyRuns
  <2> QED
    BY <2>2, <2>3
<1>7. CASE DailyWriteWatermark
  BY <1>0, <1>7 DEF DailyWriteWatermark, DailyRuns
<1>8. CASE DailyDoc \/ DailyFail
  BY <1>0, <1>8 DEF DailyDoc, DailyFail, DailyRuns
<1> QED
  BY <1>1, <1>2, <1>3, <1>4, <1>5, <1>6, <1>7, <1>8 DEF DailyNext

LEMMA DailyType ==
    ASSUME TypeOK, Clock, CurrentDayPart, DailyNext
    PROVE  TypeOK'
<1>0. daily \in DailyRuns /\ daily' \in DailyRuns
  BY DailyFieldsType DEF TypeOK
<1>1. CASE DailyTrigger
  BY <1>0, <1>1, ConstantFacts DEF DailyTrigger, DailyUnchanged, TypeOK, NoEvent, tables
<1>2. CASE DailyQuarantine
  <2>1. quarantine' \in Contents3
    BY <1>0, <1>2, ReplacedIsContents DEF DailyQuarantine, DailyRuns, TypeOK
  <2> QED
    BY <1>0, <1>2, <2>1 DEF DailyQuarantine, DailyUnchanged, TypeOK
<1>3. CASE DailyReplace
  <2>1. silver' \in Contents3
    BY <1>0, <1>3, ReplacedIsContents DEF DailyReplace, DailyRuns, TypeOK
  <2> QED
    BY <1>0, <1>3, <2>1 DEF DailyReplace, DailyUnchanged, TypeOK
<1>4. CASE DailyWriteWatermark
  <2>1. silverWm' \in 0 .. LastDay
    BY <1>0, <1>4 DEF DailyWriteWatermark, WrittenWatermark, DailyRuns, SomeRange, TypeOK
  <2> QED
    BY <1>0, <1>4, <2>1 DEF DailyWriteWatermark, TypeOK, bronzeVars, tables
<1>5. CASE DailyDoc
  <2>1. docs' \in [Dates -> -1 .. LastDay]
    BY <1>0, <1>5, ConstantFacts DEF DailyDoc, DailyRuns, TypeOK, CurrentDayPart
  <2> QED
    BY <1>0, <1>5, <2>1 DEF DailyDoc, DailyUnchanged, TypeOK, tables
<1>6. CASE (\E t0 \in T0Flags : DailyBegin(t0)) \/ DailyScan \/ DailyCurrentDay \/ DailyFail
  BY <1>0, <1>6 DEF DailyBegin, DailyScan, DailyCurrentDay, DailyFail,
                    DailyUnchanged, TypeOK, tables
<1> QED
  BY <1>1, <1>2, <1>3, <1>4, <1>5, <1>6 DEF DailyNext

(* The finalizer stops at the Silver watermark or at the end of a range.    *)
NextWatermark == Max({silverWm} \cup {r.hi : r \in ConfirmedRanges(silverWm)})

LEMMA NextWatermarkFacts ==
    ASSUME TypeOK
    PROVE  /\ NextWatermark \in 0 .. LastDay
           /\ NextWatermark = silverWm
              \/ \E r \in ConfirmedRanges(silverWm) : NextWatermark = r.hi
<1> DEFINE S == {silverWm} \cup {r.hi : r \in ConfirmedRanges(silverWm)}
<1>1. ConfirmedRanges(silverWm) \subseteq Ranges
  BY DEF ConfirmedRanges, TypeOK, LoadRuns
<1>2. S \in SUBSET (0 .. LastDay) /\ S # {}
  <2>1. \A r \in ConfirmedRanges(silverWm) : r.hi \in 0 .. LastDay
    BY <1>1, RangeFacts
  <2> QED
    BY <2>1 DEF TypeOK
<1>3. Max(S) \in S
  <2> HIDE DEF S
  <2> QED
    BY <1>2, ConstantFacts, MaxOfBounded
<1>4. NextWatermark = Max(S)
  BY DEF NextWatermark
<1>5. NextWatermark \in 0 .. LastDay
  <2> HIDE DEF S
  <2> QED
    BY <1>2, <1>3, <1>4
<1>6. NextWatermark \in S
  BY <1>3, <1>4
<1> QED
  BY <1>5, <1>6

(* The load of all files starts with the first date.                        *)
LEMMA FirstWatermarkIsZero ==
    ASSUME TypeOK, bronze[1] = "whole"
    PROVE  FirstWatermark = 0
<1> DEFINE S == {d \in Dates : bronze[d] # "none"}
<1>1. 1 \in S /\ \A d \in S : d \in Nat /\ 1 <= d
  BY ConstantFacts
<1>2. Min(S) \in S /\ \A d \in S : Min(S) <= d
  <2> HIDE DEF S
  <2> QED
    BY <1>1 DEF Min
<1>3. Min(S) = 1
  <2> HIDE DEF S
  <2> QED
    BY <1>1, <1>2
<1> QED
  BY <1>3 DEF FirstWatermark

LEMMA LoadFieldsType ==
    ASSUME TypeOK, LoadNext
    PROVE  load' \in LoadRuns
<1>0. load \in LoadRuns /\ IdleLoad \in LoadRuns /\ Nothing \in Contents3
      /\ NoRange \in SomeRange
  BY EmptyValues DEF TypeOK
<1>1. ASSUME NEW from \in LoadFroms, LoadTrigger(from)
      PROVE  load' \in LoadRuns
  <2>1. from \in Dates /\ load.runs + 1 \in Nat
    BY <1>0, ConstantFacts DEF LoadRuns
  <2>2. load' = [IdleLoad EXCEPT !.pc = "files", !.runs = load.runs + 1, !.from = from]
    BY <1>1 DEF LoadTrigger
  <2> QED
    BY <1>0, <2>1, <2>2 DEF LoadRuns
<1>2. CASE (\E d \in Dates : LoadFile(d)) \/ LoadFilesDone \/ LoadFail
  BY <1>0, <1>2 DEF LoadFile, LoadFilesDone, LoadFail, LoadRuns
<1>3. ASSUME NEW size \in ChunkSizes, LoadPlan(size)
      PROVE  load' \in LoadRuns
  <2> DEFINE plan == BuildRanges(silverWm, wm, size)
             todo == {r \in plan : ~IsRangeComplete(r)}
  <2>1. plan \in SUBSET Ranges /\ todo \in SUBSET Ranges
    BY DEF BuildRanges
  <2>2. load' = [load EXCEPT !.pc = "chunks", !.upto = wm, !.plan = plan, !.todo = todo]
    BY <1>3 DEF LoadPlan
  <2> HIDE DEF plan, todo
  <2> QED
    BY <1>0, <2>1, <2>2 DEF LoadRuns, TypeOK
<1>4. ASSUME NEW r \in Ranges, ChunkBegin(r)
      PROVE  load' \in LoadRuns
  <2>1. r \in SomeRange
    BY RangeFacts
  <2>2. Scan(r) \in Contents3
    BY ScanIsContents DEF TypeOK
  <2> QED
    BY <1>0, <1>4, <2>1, <2>2 DEF ChunkBegin, LoadRuns
<1>5. CASE ChunkQuarantine \/ ChunkReplace
  BY <1>0, <1>5 DEF ChunkQuarantine, ChunkReplace, LoadRuns
<1>6. CASE ChunkMark \/ ChunkFail
  <2>1. ChunkLeft \in LoadRuns
    BY <1>0 DEF ChunkLeft, LoadRuns
  <2>2. [load EXCEPT !.pc = "chunks", !.chunk = NoRange, !.read = Nothing] \in LoadRuns
    BY <1>0 DEF LoadRuns
  <2> QED
    BY <1>6, <2>1, <2>2 DEF ChunkMark, ChunkFail
<1>7. CASE FinalizerRead
  <2>1. load' = [load EXCEPT !.next = NextWatermark,
                    !.pc = IF NextWatermark > silverWm THEN "write"
                           ELSE Outcome(NextWatermark)]
    BY <1>7 DEF FinalizerRead, NextWatermark
  <2>2. NextWatermark \in 0 .. LastDay
    BY NextWatermarkFacts
  <2> QED
    BY <1>0, <2>1, <2>2 DEF LoadRuns, Outcome
<1>8. CASE FinalizerWrite
  BY <1>0, <1>8 DEF FinalizerWrite, Outcome, LoadRuns
<1>9. CASE LoadSetWatermark
  BY <1>0, <1>9 DEF LoadSetWatermark, LoadRuns
<1>10. CASE LoadBootstrap
  BY <1>0, <1>10 DEF LoadBootstrap, LoadRuns
<1> QED
  BY <1>1, <1>2, <1>3, <1>4, <1>5, <1>6, <1>7, <1>8, <1>9, <1>10
     DEF LoadNext

LEMMA LoadType ==
    ASSUME TypeOK, LoadPart, ChunkPart, LoadNext
    PROVE  TypeOK'
<1>0. load \in LoadRuns /\ load' \in LoadRuns
  BY LoadFieldsType DEF TypeOK
<1>1. ASSUME NEW d \in Dates, LoadFile(d)
      PROVE  TypeOK'
  <2>1. bronze' \in Contents3
    BY <1>1 DEF LoadFile, TypeOK, Contents3, Contents
  <2> QED
    BY <1>0, <1>1, <2>1 DEF LoadFile, LoadUnchanged, TypeOK, tables
<1>2. CASE LoadSetWatermark
  BY <1>0, <1>2, ConstantFacts DEF LoadSetWatermark, LoadUnchanged, TypeOK, tables
<1>3. CASE LoadBootstrap
  <2>1. bronze[1] = "whole"
    BY <1>3, ConstantFacts DEF LoadBootstrap, LoadPart
  <2>2. silverWm' \in 0 .. LastDay
    BY <1>3, <2>1, FirstWatermarkIsZero, ConstantFacts DEF LoadBootstrap, TypeOK
  <2> QED
    BY <1>0, <1>3, <2>2 DEF LoadBootstrap, LoadUnchanged, TypeOK, tables
<1>4. CASE ChunkQuarantine
  <2>1. quarantine' \in Contents3
    BY <1>0, <1>4, ReplacedIsContents DEF ChunkQuarantine, LoadRuns, TypeOK
  <2> QED
    BY <1>0, <1>4, <2>1 DEF ChunkQuarantine, LoadUnchanged, TypeOK
<1>5. CASE ChunkReplace
  <2>1. silver' \in Contents3
    BY <1>0, <1>5, ReplacedIsContents DEF ChunkReplace, LoadRuns, TypeOK
  <2> QED
    BY <1>0, <1>5, <2>1 DEF ChunkReplace, LoadUnchanged, TypeOK
<1>6. CASE FinalizerWrite
  BY <1>0, <1>6 DEF FinalizerWrite, LoadUnchanged, TypeOK, tables, LoadRuns
<1>7. CASE (\E from \in LoadFroms : LoadTrigger(from)) \/ LoadFilesDone
           \/ (\E size \in ChunkSizes : LoadPlan(size)) \/ (\E r \in Ranges : ChunkBegin(r))
           \/ ChunkFail \/ FinalizerRead \/ LoadFail
  BY <1>0, <1>7 DEF LoadTrigger, LoadFilesDone, LoadPlan, ChunkBegin, ChunkFail,
                    FinalizerRead, LoadFail, LoadUnchanged, TypeOK, tables
<1>8. CASE ChunkMark
  <2>1. load.chunk \in Ranges
    BY <1>0, <1>8 DEF ChunkMark, ChunkPart, LoadRuns
  <2> QED
    BY <1>0, <1>8, <2>1 DEF ChunkMark, LoadUnchanged, TypeOK, tables
<1> QED
  BY <1>0, <1>1, <1>2, <1>3, <1>4, <1>5, <1>6, <1>7, <1>8 DEF LoadNext

-----------------------------------------------------------------------------
(* What a step may not do: a day that is whole stays whole, and one that is *)
(* there stays there.                                                       *)
Stable ==
    \A d \in Dates :
        /\ bronze[d] = "whole" => bronze'[d] = "whole"
        /\ bronze[d] # "none" => bronze'[d] # "none"
        /\ silver[d] = "whole" => silver'[d] = "whole"
        /\ silver[d] # "none" => silver'[d] # "none"
        /\ quarantine[d] = "whole" => quarantine'[d] = "whole"

LEMMA BronzeStays ==
    ASSUME SilverInv, BronzeNext
    PROVE  Stable
<1>0. UNCHANGED tables /\ Clock /\ bronze \in Contents3
  BY DEF BronzeNext, BronzePromote, BronzeConfirm, SilverInv, TypeOK
<1>1. ASSUME NEW t0 \in T0Flags, BronzePromote(t0), NEW d \in Dates
      PROVE  /\ bronze[d] = "whole" => bronze'[d] = "whole"
             /\ bronze[d] # "none" => bronze'[d] # "none"
  <2>1. bronze'[d] = IF wm < d /\ d < today THEN "whole"
                     ELSE IF t0 /\ d = today THEN "partial" ELSE bronze[d]
    BY <1>1 DEF BronzePromote
  <2>2. bronze[d] = "whole" => d # today
    BY <1>0, ConstantFacts DEF Clock
  <2> QED
    BY <2>1, <2>2
<1>2. ASSUME NEW meta \in 0 .. LastDay, BronzeConfirm(meta)
      PROVE  UNCHANGED bronze
  BY <1>2 DEF BronzeConfirm
<1> QED
  BY <1>0, <1>1, <1>2 DEF BronzeNext, Stable, tables

(* What the daily run is going to put in the place of a range.              *)
LEMMA DailyRows ==
    ASSUME SilverInv, daily.pc \in {"audit", "audit_t0", "main", "main_t0"},
           NEW d \in Dates, InRange(d, daily.range)
    PROVE  /\ daily.read[d] # "none"
           /\ daily.read[d] # "whole" => silver[d] # "whole"
           /\ daily.pc \in {"audit", "audit_t0"} =>
                  (daily.read[d] # "whole" => quarantine[d] # "whole")
<1>1. CASE daily.pc \in {"audit", "main"}
  BY <1>1 DEF SilverInv, ConfirmedPart, WholeOn
<1>2. CASE daily.pc \in {"audit_t0", "main_t0"}
  <2>1. daily.range = DayOf(daily.day) /\ daily.day \in Dates
    BY <1>2 DEF SilverInv, TypeOK, CurrentDayPart
  <2>2. d = daily.day
    <3>1. daily.day <= d /\ d <= daily.day
      BY <2>1 DEF InRange, DayOf
    <3>2. d \in Nat /\ daily.day \in Nat
      BY <2>1, ConstantFacts
    <3> QED
      BY <3>1, <3>2
  <2> QED
    BY <1>2, <2>2 DEF SilverInv, CurrentDayPart
<1> QED
  BY <1>1, <1>2

LEMMA DailyStays ==
    ASSUME SilverInv, DailyNext
    PROVE  Stable
<1>1. CASE DailyQuarantine
  <2>1. ASSUME NEW d \in Dates PROVE quarantine[d] = "whole" => quarantine'[d] = "whole"
    BY <1>1, DailyRows DEF DailyQuarantine, ReplaceRange
  <2> QED
    BY <1>1, <2>1 DEF DailyQuarantine, DailyUnchanged, Stable
<1>2. CASE DailyReplace
  <2>1. ASSUME NEW d \in Dates
        PROVE  /\ silver[d] = "whole" => silver'[d] = "whole"
               /\ silver[d] # "none" => silver'[d] # "none"
    BY <1>2, DailyRows DEF DailyReplace, ReplaceRange
  <2> QED
    BY <1>2, <2>1 DEF DailyReplace, DailyUnchanged, Stable
<1>3. CASE ~ DailyQuarantine /\ ~ DailyReplace
  BY <1>3 DEF DailyNext, DailyTrigger, DailyBegin, DailyScan, DailyCurrentDay,
              DailyWriteWatermark, DailyDoc, DailyFail, DailyUnchanged,
              bronzeVars, tables, Stable
<1> QED
  BY <1>1, <1>2, <1>3

LEMMA LoadStays ==
    ASSUME SilverInv, LoadNext
    PROVE  Stable
<1>1. ASSUME NEW d \in Dates, LoadFile(d)
      PROVE  Stable
  BY <1>1 DEF SilverInv, TypeOK, Contents3, LoadFile, tables, Stable
<1>2. CASE ChunkQuarantine
  <2>1. ASSUME NEW d \in Dates PROVE quarantine[d] = "whole" => quarantine'[d] = "whole"
    BY <1>2 DEF ChunkQuarantine, ReplaceRange, SilverInv, ChunkPart, WholeOn
  <2> QED
    BY <1>2, <2>1 DEF ChunkQuarantine, Stable
<1>3. CASE ChunkReplace
  <2>1. ASSUME NEW d \in Dates
        PROVE  /\ silver[d] = "whole" => silver'[d] = "whole"
               /\ silver[d] # "none" => silver'[d] # "none"
    BY <1>3 DEF ChunkReplace, ReplaceRange, SilverInv, ChunkPart, WholeOn
  <2> QED
    BY <1>3, <2>1 DEF ChunkReplace, Stable
<1>4. CASE \/ \E from \in LoadFroms : LoadTrigger(from)
           \/ LoadFilesDone \/ LoadSetWatermark \/ LoadBootstrap
           \/ \E size \in ChunkSizes : LoadPlan(size)
           \/ \E r \in Ranges : ChunkBegin(r)
           \/ ChunkMark \/ ChunkFail
           \/ FinalizerRead \/ FinalizerWrite \/ LoadFail
  BY <1>4 DEF LoadTrigger, LoadFilesDone, LoadSetWatermark, LoadBootstrap, LoadPlan,
              ChunkBegin, ChunkMark, ChunkFail, FinalizerRead, FinalizerWrite,
              LoadFail, tables, Stable
<1> QED
  BY <1>1, <1>2, <1>3, <1>4 DEF LoadNext

(* The tables only improve, whoever is at work.                             *)
LEMMA StableStep == SilverInv /\ [Next]_vars => Stable
<1> SUFFICES ASSUME SilverInv, [Next]_vars PROVE Stable
  OBVIOUS
<1>1. CASE Midnight \/ UNCHANGED vars
  BY <1>1 DEF Midnight, vars, bronzeVars, tables, Stable
<1> QED
  BY <1>1, BronzeStays, DailyStays, LoadStays DEF Next

-----------------------------------------------------------------------------
(* What a step of another process leaves of each part *)

LEMMA DailyFrame ==
    ASSUME SilverInv, Stable, UNCHANGED daily, promotions \subseteq promotions',
           daily.pc \in {"audit_t0", "main_t0"} => UNCHANGED tables
    PROVE  ConfirmedPart' /\ CurrentDayPart'
<1>1. ConfirmedPart'
  BY DEF SilverInv, ConfirmedPart, Stable, WholeOn, Settled
<1>2. daily.pc \in {"scan_t0", "audit_t0", "main_t0"} => daily.day \in Dates
  BY DEF SilverInv, CurrentDayPart, TypeOK
<1>3. CurrentDayPart'
  BY <1>2 DEF SilverInv, CurrentDayPart, Stable, tables
<1> QED
  BY <1>1, <1>3

LEMMA LoadFrame ==
    ASSUME SilverInv, Stable, UNCHANGED load, boot => boot',
           wm' >= wm, wm' \in 0 .. LastDay
    PROVE  LoadPart' /\ ChunkPart'
<1>1. ChunkPart'
  BY DEF SilverInv, ChunkPart, Stable, WholeOn
<1>2. Planned(load.plan, load.upto) => Planned(load.plan, load.upto)'
  BY DEF Planned, Stable, WholeOn
<1>3. LoadedTo <= wm => LoadedTo <= wm'
  BY ConstantFacts DEF SilverInv, TypeOK
<1>4. /\ Settled(load.next) => Settled(load.next)'
      /\ Settled(load.upto) => Settled(load.upto)'
  BY DEF Settled, Stable
<1>5. LoadPart'
  BY <1>2, <1>3, <1>4 DEF SilverInv, LoadPart, Stable
<1> QED
  BY <1>1, <1>5

LEMMA PublishedFrame ==
    ASSUME SilverInv, Stable
    PROVE  /\ UNCHANGED markers => MarkersHold'
           /\ UNCHANGED docs => DocsHold'
           /\ UNCHANGED silverWm => Settled(silverWm)'
BY DEF SilverInv, MarkersHold, DocsHold, Settled, Stable, WholeOn

-----------------------------------------------------------------------------
(* Bronze and the clock *)

LEMMA BronzeKeeps ==
    ASSUME SilverInv, Midnight \/ BronzeNext
    PROVE  SilverInv'
<1>1. Stable
  BY StableStep DEF Next
<1>2. /\ UNCHANGED <<daily, load, tables, markers, docs, silverWm, boot>>
      /\ promotions \subseteq promotions'
  BY DEF Midnight, BronzeNext, BronzePromote, BronzeConfirm, bronzeVars
<1>3. TypeOK'
  BY BronzeType DEF SilverInv
<1>4. /\ today \in Nat /\ today' \in Nat /\ wm \in Nat /\ LoadedTo \in Nat
      /\ Clock /\ TypeOK
  BY <1>3, ConstantFacts DEF SilverInv, TypeOK
<1>5. wm' >= wm /\ Clock'
  <2>1. CASE Midnight
    BY <1>4, <2>1, ConstantFacts DEF Midnight, bronzeVars, Clock
  <2>2. ASSUME NEW t0 \in T0Flags, BronzePromote(t0)
        PROVE  wm' >= wm /\ Clock'
    <3>1. /\ UNCHANGED <<today, wm, silverWm, boot>>
          /\ \A d \in Dates : bronze'[d] = IF wm < d /\ d < today THEN "whole"
                                           ELSE IF t0 /\ d = today THEN "partial"
                                           ELSE bronze[d]
          /\ promotions' = IF t0 THEN promotions \cup {today} ELSE promotions
      BY <2>2 DEF BronzePromote
    <3>2. \A d \in Dates : bronze'[d] = "whole" => d < today
      BY <1>4, <3>1 DEF Clock
    <3>3. \A d \in Dates : d <= wm => bronze'[d] = "whole"
      BY <1>1, <1>4 DEF Clock, Stable
    <3>4. \A d \in promotions' : bronze'[d] # "none"
      <4>1. \A d \in promotions : bronze'[d] # "none"
        BY <1>1, <1>4 DEF Clock, Stable, TypeOK
      <4>2. t0 => bronze'[today] # "none"
        BY <1>4, <3>1 DEF TypeOK
      <4> QED
        BY <3>1, <4>1, <4>2
    <3> QED
      BY <1>4, <3>1, <3>2, <3>3, <3>4 DEF Clock
  <2>3. ASSUME NEW meta \in 0 .. LastDay, BronzeConfirm(meta)
        PROVE  wm' >= wm /\ Clock'
    <3>1. PICK next \in wm .. today - 1 :
              (\A d \in wm + 1 .. next : bronze[d] = "whole") /\ wm' = next
      BY <2>3 DEF BronzeConfirm
    <3>2. /\ UNCHANGED <<today, bronze, promotions, silverWm, boot>>
          /\ wm' >= wm /\ wm' < today
      BY <1>4, <2>3, <3>1 DEF BronzeConfirm
    <3>3. \A d \in Dates : d <= wm' => bronze[d] = "whole"
      BY <1>4, <3>1, ConstantFacts DEF Clock
    <3> QED
      BY <1>4, <3>2, <3>3 DEF Clock
  <2> QED
    BY <2>1, <2>2, <2>3 DEF BronzeNext
<1>6. Copies' /\ OneAtATime'
  BY <1>1, <1>2 DEF SilverInv, Copies, OneAtATime, Stable, tables
<1>7. ConfirmedPart' /\ CurrentDayPart'
  BY <1>1, <1>2, DailyFrame
<1>8. LoadPart' /\ ChunkPart'
  BY <1>1, <1>2, <1>3, <1>5, LoadFrame DEF TypeOK
<1>9. MarkersHold' /\ DocsHold' /\ Settled(silverWm)'
  BY <1>1, <1>2, PublishedFrame
<1> QED
  BY <1>3, <1>5, <1>6, <1>7, <1>8, <1>9 DEF SilverInv

-----------------------------------------------------------------------------
(* The daily run *)

(* What no step of the daily run touches.                                   *)
LEMMA DailyFrames ==
    ASSUME SilverInv, DailyNext
    PROVE  /\ UNCHANGED <<today, bronze, wm, promotions, markers, load>>
           /\ Stable /\ TypeOK' /\ LoadPart' /\ ChunkPart' /\ MarkersHold'
<1>1. UNCHANGED <<today, bronze, wm, promotions, markers, load>>
  BY DEF DailyNext, DailyTrigger, DailyBegin, DailyScan, DailyQuarantine,
         DailyReplace, DailyCurrentDay, DailyWriteWatermark, DailyDoc, DailyFail,
         DailyUnchanged, bronzeVars
<1>2. Stable
  BY DailyStays
<1>3. TypeOK'
  BY DailyType DEF SilverInv
<1>4. wm' >= wm /\ wm' \in 0 .. LastDay
  BY <1>1 DEF SilverInv, TypeOK
<1>5. boot => boot'
  BY DEF DailyNext, DailyTrigger, DailyBegin, DailyScan, DailyQuarantine,
         DailyReplace, DailyCurrentDay, DailyWriteWatermark, DailyDoc, DailyFail,
         DailyUnchanged
<1> QED
  BY <1>1, <1>2, <1>3, <1>4, <1>5, LoadFrame, PublishedFrame

LEMMA DailyClock ==
    ASSUME SilverInv, DailyNext
    PROVE  Clock'
<1>1. UNCHANGED <<today, bronze, wm, promotions>>
  BY DailyFrames
<1>2. CASE DailyWriteWatermark
  <2>1. ~ boot' => silverWm' = 0
    BY <1>2 DEF DailyWriteWatermark, WrittenWatermark, SilverInv, Clock
  <2> QED
    BY <1>1, <2>1 DEF SilverInv, Clock
<1>3. CASE ~ DailyWriteWatermark
  <2>1. UNCHANGED <<silverWm, boot>>
    BY <1>3 DEF DailyNext, DailyTrigger, DailyBegin, DailyScan, DailyQuarantine,
         DailyReplace, DailyCurrentDay, DailyDoc, DailyFail, DailyUnchanged
  <2> QED
    BY <1>1, <2>1 DEF SilverInv, Clock
<1> QED
  BY <1>2, <1>3

LEMMA DailyCopies ==
    ASSUME SilverInv, DailyNext
    PROVE  Copies'
<1> SUFFICES ASSUME NEW d \in Dates, bronze[d] # "whole"
             PROVE  /\ silver'[d] # "whole" /\ quarantine'[d] # "whole"
                    /\ daily'.read[d] # "whole"
  BY DailyFrames DEF Copies, SilverInv
<1>1. /\ silver[d] # "whole" /\ quarantine[d] # "whole" /\ daily.read[d] # "whole"
      /\ daily \in DailyRuns
  BY DEF SilverInv, Copies, TypeOK
<1>2. Nothing[d] # "whole" /\ IdleDaily.read = Nothing
  BY DEF Nothing, IdleDaily
<1>3. CASE DailyScan
  <2>1. Scan(daily.range)[d] # "whole"
    BY DEF Scan
  <2> QED
    BY <1>1, <1>3, <2>1 DEF DailyScan, DailyUnchanged, tables, DailyRuns
<1>4. CASE DailyQuarantine
  BY <1>1, <1>4 DEF DailyQuarantine, ReplaceRange, DailyRuns
<1>5. CASE DailyReplace
  BY <1>1, <1>2, <1>5 DEF DailyReplace, ReplaceRange, DailyRuns
<1>6. CASE ~ DailyScan /\ ~ DailyQuarantine /\ ~ DailyReplace
  <2>1. UNCHANGED tables
    BY <1>6 DEF DailyNext, DailyTrigger, DailyBegin, DailyCurrentDay,
                DailyWriteWatermark, DailyDoc, DailyFail
  <2>2. daily'.read = daily.read \/ daily'.read = Nothing
    BY <1>1, <1>2, <1>6 DEF DailyNext, DailyTrigger, DailyBegin, DailyCurrentDay,
                DailyWriteWatermark, DailyDoc, DailyFail, DailyRuns, IdleDaily
  <2> QED
    BY <1>1, <1>2, <2>1, <2>2 DEF tables
<1> QED
  BY <1>3, <1>4, <1>5, <1>6

LEMMA DailyAlone ==
    ASSUME SilverInv, DailyNext
    PROVE  OneAtATime'
<1>0. UNCHANGED load /\ daily \in DailyRuns /\ IdleDaily.pc = "idle"
  BY DailyFrames DEF SilverInv, TypeOK, IdleDaily
<1>1. CASE \E t0 \in T0Flags : DailyBegin(t0)
  BY <1>0, <1>1, OneSlotIsExclusive DEF DailyBegin, OneAtATime
<1>2. CASE DailyTrigger
  <2>1. daily'.pc = "queued"
    BY <1>2 DEF DailyTrigger, IdleDaily
  <2> QED
    BY <2>1 DEF OneAtATime
<1>3. CASE ~ DailyTrigger /\ ~ \E t0 \in T0Flags : DailyBegin(t0)
  <2>1. daily.pc \notin {"idle", "queued"}
    BY <1>3 DEF DailyNext, DailyScan, DailyQuarantine, DailyReplace,
                DailyCurrentDay, DailyWriteWatermark, DailyDoc, DailyFail
  <2> QED
    BY <1>0, <2>1 DEF SilverInv, OneAtATime
<1> QED
  BY <1>1, <1>2, <1>3

LEMMA IdleDailyHolds ==
    ASSUME \/ daily' = IdleDaily
           \/ daily' = [IdleDaily EXCEPT !.pc = "queued", !.meta = event]
           \/ daily' = [IdleDaily EXCEPT !.pc = "queued", !.meta = daily.meta]
    PROVE  ConfirmedPart' /\ CurrentDayPart'
<1>1. daily'.pc \in {"idle", "queued"} /\ daily'.confirmed = NoRange
  <2>1. IdleDaily \in DailyRuns /\ IdleDaily.pc = "idle" /\ IdleDaily.confirmed = NoRange
    BY EmptyValues DEF IdleDaily
  <2> QED
    BY <2>1 DEF DailyRuns
<1>2. IsEmpty(NoRange)
  BY DEF IsEmpty, NoRange
<1> QED
  BY <1>1, <1>2 DEF ConfirmedPart, CurrentDayPart

LEMMA CurrentDayInRange ==
    ASSUME SilverInv, daily.pc \in {"scan_t0", "audit_t0", "main_t0"}
    PROVE  daily.day \in Dates /\ InRange(daily.day, daily.range)
<1>1. daily.day \in Dates /\ daily.range = DayOf(daily.day)
  BY DEF SilverInv, CurrentDayPart, TypeOK
<1>2. daily.day \in Nat
  BY <1>1, ConstantFacts
<1> QED
  BY <1>1, <1>2 DEF InRange, DayOf

LEMMA DailyParts ==
    ASSUME SilverInv, DailyNext
    PROVE  ConfirmedPart' /\ CurrentDayPart'
<1>0. /\ daily \in DailyRuns /\ daily' \in DailyRuns /\ Stable
      /\ UNCHANGED <<today, bronze, wm, promotions>>
      /\ ConfirmedPart /\ CurrentDayPart /\ TypeOK /\ Clock
  BY DailyFrames DEF SilverInv, TypeOK
<1>1. CASE DailyTrigger
  BY <1>1, IdleDailyHolds DEF DailyTrigger
<1>2. ASSUME NEW t0 \in T0Flags, DailyBegin(t0)
      PROVE  ConfirmedPart' /\ CurrentDayPart'
  <2> DEFINE day == IF t0 THEN daily.meta ELSE 0
  <2>1. CASE IsEmpty(ConfirmedRange) /\ day = 0
    BY <1>2, <2>1, IdleDailyHolds DEF DailyBegin
  <2>2. CASE IsEmpty(ConfirmedRange) /\ day # 0
    <3>1. daily' = [daily EXCEPT !.pc = "t0", !.day = day, !.through = silverWm]
      BY <1>2, <2>2 DEF DailyBegin
    <3>2. daily'.pc = "t0" /\ daily'.through = silverWm /\ daily'.confirmed = daily.confirmed
      BY <1>0, <3>1 DEF DailyRuns
    <3>3. IsEmpty(daily.confirmed)
      BY <1>0, <1>2 DEF DailyBegin, ConfirmedPart
    <3>4. Settled(daily.through)'
      BY <1>2, <3>2 DEF DailyBegin, SilverInv, Settled, tables
    <3>5. IsEmpty(daily'.confirmed)
      BY <3>2, <3>3
    <3> QED
      BY <3>2, <3>4, <3>5 DEF ConfirmedPart, CurrentDayPart
  <2>3. CASE ~ IsEmpty(ConfirmedRange)
    <3>1. daily' = [daily EXCEPT !.pc = "scan", !.day = day,
                                 !.confirmed = ConfirmedRange,
                                 !.through = ConfirmedRange.hi,
                                 !.range = ConfirmedRange]
      BY <1>2, <2>3 DEF DailyBegin
    <3> DEFINE r == ConfirmedRange
    <3>2. /\ daily'.pc = "scan" /\ daily'.range = r /\ daily'.confirmed = r
          /\ daily'.through = r.hi
      BY <1>0, <3>1 DEF DailyRuns
    <3>3. WholeOn(bronze, r) /\ r.lo - 1 = silverWm
      BY <1>0, ConfirmedRangeFacts DEF TypeOK
    <3>4. WholeOn(bronze', r) /\ Settled(silverWm) /\ UNCHANGED tables
      BY <1>0, <1>2, <3>3 DEF DailyBegin, SilverInv
    <3> HIDE DEF r
    <3> QED
      BY <2>3, <3>2, <3>3, <3>4 DEF ConfirmedPart, CurrentDayPart, Settled, tables, r
  <2> QED
    BY <2>1, <2>2, <2>3
<1>3. CASE DailyScan
  <2>1. /\ UNCHANGED <<silver, quarantine>>
        /\ daily'.range = daily.range /\ daily'.confirmed = daily.confirmed
        /\ daily'.through = daily.through /\ daily'.day = daily.day
        /\ daily'.read = Scan(daily.range)
        /\ \/ daily.pc = "scan" /\ daily'.pc = "audit"
           \/ daily.pc = "scan_t0" /\ daily'.pc = "audit_t0"
    BY <1>0, <1>3 DEF DailyScan, DailyUnchanged, tables, DailyRuns
  <2>2. CASE daily.pc = "scan"
    <3>1. WholeOn(Scan(daily.range), daily.range)
      BY <1>0, <2>2 DEF ConfirmedPart, WholeOn, Scan
    <3> QED
      BY <1>0, <2>1, <2>2, <3>1 DEF ConfirmedPart, CurrentDayPart, Settled
  <2>3. CASE daily.pc = "scan_t0"
    <3>1. daily.day \in Dates /\ InRange(daily.day, daily.range)
      BY <2>3, CurrentDayInRange
    <3>2. Scan(daily.range)[daily.day] = bronze[daily.day]
      BY <3>1 DEF Scan
    <3>3. bronze[daily.day] # "none"
      BY <1>0, <2>3 DEF CurrentDayPart, Clock
    <3>4. bronze[daily.day] # "whole" => silver[daily.day] # "whole"
                                         /\ quarantine[daily.day] # "whole"
      BY <3>1 DEF SilverInv, Copies
    <3> QED
      BY <1>0, <2>1, <2>3, <3>1, <3>2, <3>3, <3>4
         DEF ConfirmedPart, CurrentDayPart, Settled
  <2> QED
    BY <2>1, <2>2, <2>3
<1>4. CASE DailyQuarantine
  <2>1. /\ UNCHANGED silver
        /\ daily'.range = daily.range /\ daily'.confirmed = daily.confirmed
        /\ daily'.through = daily.through /\ daily'.day = daily.day
        /\ daily'.read = daily.read
        /\ \/ daily.pc = "audit" /\ daily'.pc = "main"
           \/ daily.pc = "audit_t0" /\ daily'.pc = "main_t0"
        /\ quarantine' = ReplaceRange(quarantine, daily.range, daily.read)
    BY <1>0, <1>4 DEF DailyQuarantine, DailyUnchanged, DailyRuns
  <2>2. CASE daily.pc = "audit"
    <3>1. WholeOn(quarantine', daily.range)
      BY <1>0, <2>1, <2>2 DEF ConfirmedPart, WholeOn, ReplaceRange
    <3> QED
      BY <1>0, <2>1, <2>2, <3>1 DEF ConfirmedPart, CurrentDayPart, Settled, Stable
  <2>3. CASE daily.pc = "audit_t0"
    BY <1>0, <2>1, <2>3 DEF ConfirmedPart, CurrentDayPart, Settled, Stable
  <2> QED
    BY <2>1, <2>2, <2>3
<1>5. CASE DailyReplace
  <2>1. /\ UNCHANGED quarantine
        /\ daily'.confirmed = daily.confirmed
        /\ daily'.through = daily.through /\ daily'.day = daily.day
        /\ \/ daily.pc = "main" /\ daily'.pc = "t0"
           \/ daily.pc = "main_t0" /\ daily'.pc = "write"
        /\ silver' = ReplaceRange(silver, daily.range, daily.read)
    BY <1>0, <1>5 DEF DailyReplace, DailyUnchanged, DailyRuns
  <2>2. CASE daily.pc = "main"
    <3> DEFINE r == daily.range
    <3>1. /\ r \in SomeRange /\ r.hi = daily.through /\ WholeOn(daily.read, r)
          /\ WholeOn(quarantine, r) /\ Settled(r.lo - 1)
      BY <1>0, <2>2 DEF ConfirmedPart, DailyRuns
    <3>2. ASSUME NEW d \in Dates, d <= daily.through
          PROVE  silver'[d] = "whole" /\ quarantine[d] = "whole"
      <4>1. CASE InRange(d, r)
        BY <2>1, <3>1, <4>1 DEF WholeOn, ReplaceRange
      <4>2. CASE ~ InRange(d, r)
        <5>1. d <= r.lo - 1
          BY <3>1, <3>2, <4>2, ConstantFacts DEF InRange, SomeRange
        <5> QED
          BY <1>0, <3>1, <5>1 DEF Settled, Stable
      <4> QED
        BY <4>1, <4>2
    <3>3. Settled(daily.through)'
      BY <2>1, <3>2 DEF Settled
    <3> QED
      BY <1>0, <2>1, <2>2, <3>3 DEF ConfirmedPart, CurrentDayPart
  <2>3. CASE daily.pc = "main_t0"
    <3>1. daily.day \in Dates /\ InRange(daily.day, daily.range)
      BY <2>3, CurrentDayInRange
    <3>2. silver'[daily.day] # "none"
      BY <1>0, <2>1, <2>3, <3>1 DEF CurrentDayPart, ReplaceRange
    <3>3. Settled(daily.through)'
      BY <1>0, <2>1, <2>3 DEF ConfirmedPart, Settled, Stable
    <3> QED
      BY <1>0, <2>1, <2>3, <3>1, <3>2, <3>3 DEF ConfirmedPart, CurrentDayPart
  <2> QED
    BY <2>1, <2>2, <2>3
<1>6. CASE DailyCurrentDay
  <2>1. /\ UNCHANGED <<silver, quarantine>> /\ daily.pc = "t0"
        /\ daily'.confirmed = daily.confirmed /\ daily'.through = daily.through
        /\ \/ /\ daily.day \in promotions /\ daily'.day = daily.day
              /\ daily'.pc = "scan_t0" /\ daily'.range = DayOf(daily.day)
           \/ daily'.pc = "write" /\ daily'.day = 0
    BY <1>0, <1>6 DEF DailyCurrentDay, DailyUnchanged, tables, DailyRuns
  <2> QED
    BY <1>0, <2>1 DEF ConfirmedPart, CurrentDayPart, Settled
<1>7. CASE DailyWriteWatermark
  <2>1. CASE daily.day = 0
    BY <1>7, <2>1, IdleDailyHolds DEF DailyWriteWatermark
  <2>2. CASE daily.day # 0
    <3>1. /\ UNCHANGED <<silver, quarantine>> /\ daily.pc = "write" /\ daily'.pc = "doc"
          /\ daily'.confirmed = daily.confirmed /\ daily'.through = daily.through
          /\ daily'.day = daily.day
      BY <1>0, <1>7, <2>2 DEF DailyWriteWatermark, tables, DailyRuns
    <3> QED
      BY <1>0, <2>2, <3>1 DEF ConfirmedPart, CurrentDayPart, Settled
  <2> QED
    BY <2>1, <2>2
<1>8. CASE DailyDoc \/ DailyFail
  BY <1>8, IdleDailyHolds DEF DailyDoc, DailyFail
<1> QED
  BY <1>1, <1>2, <1>3, <1>4, <1>5, <1>6, <1>7, <1>8 DEF DailyNext

LEMMA DailyPublishes ==
    ASSUME SilverInv, DailyNext
    PROVE  DocsHold' /\ Settled(silverWm)'
<1>0. Stable /\ daily \in DailyRuns /\ TypeOK
  BY DailyFrames DEF SilverInv, TypeOK
<1>1. CASE DailyWriteWatermark
  <2>1. UNCHANGED <<docs, tables>>
    BY <1>1 DEF DailyWriteWatermark
  <2>2. silverWm' = silverWm \/ silverWm' = daily.through
    BY <1>1 DEF DailyWriteWatermark, WrittenWatermark, SilverInv, ConfirmedPart
  <2>3. Settled(silverWm) /\ Settled(daily.through)
    BY <1>1 DEF DailyWriteWatermark, SilverInv, ConfirmedPart
  <2>4. Settled(silverWm)'
    BY <2>1, <2>2, <2>3 DEF Settled, tables
  <2> QED
    BY <1>0, <2>1, <2>4, PublishedFrame
<1>2. CASE DailyDoc
  <2>1. /\ UNCHANGED <<silver, quarantine, silverWm>> /\ daily.day \in Dates
        /\ docs' = [docs EXCEPT ![daily.day] = daily.through]
        /\ silver[daily.day] # "none" /\ Settled(daily.through) /\ DocsHold
    BY <1>2 DEF DailyDoc, tables, SilverInv, ConfirmedPart, CurrentDayPart
  <2>2. ASSUME NEW r \in Dates, docs'[r] # NoDoc
        PROVE  silver'[r] # "none" /\ \A d \in Dates : d <= docs'[r] => silver'[d] = "whole"
    <3>1. CASE r = daily.day
      BY <1>0, <2>1, <3>1 DEF TypeOK, Settled
    <3>2. CASE r # daily.day
      BY <1>0, <2>1, <2>2, <3>2 DEF TypeOK, DocsHold
    <3> QED
      BY <3>1, <3>2
  <2> QED
    BY <1>0, <2>1, <2>2, PublishedFrame DEF DocsHold
<1>3. CASE ~ DailyWriteWatermark /\ ~ DailyDoc
  <2>1. UNCHANGED <<docs, silverWm>>
    BY <1>3 DEF DailyNext, DailyTrigger, DailyBegin, DailyScan, DailyQuarantine,
                DailyReplace, DailyCurrentDay, DailyFail
  <2> QED
    BY <1>0, <2>1, PublishedFrame
<1> QED
  BY <1>1, <1>2, <1>3

LEMMA DailyKeeps ==
    ASSUME SilverInv, DailyNext
    PROVE  SilverInv'
BY DailyFrames, DailyClock, DailyCopies, DailyAlone, DailyParts, DailyPublishes
   DEF SilverInv

-----------------------------------------------------------------------------
(* The initial load *)

LEMMA LoadFrames ==
    ASSUME SilverInv, LoadNext
    PROVE  /\ UNCHANGED <<today, promotions, docs, daily>>
           /\ Stable /\ TypeOK' /\ ConfirmedPart' /\ CurrentDayPart' /\ DocsHold'
<1>1. UNCHANGED <<today, promotions, docs, daily>>
  BY DEF LoadNext, LoadTrigger, LoadFile, LoadFilesDone, LoadSetWatermark,
         LoadBootstrap, LoadPlan, ChunkBegin, ChunkQuarantine, ChunkReplace,
         ChunkMark, ChunkFail, FinalizerRead, FinalizerWrite, LoadFail, LoadUnchanged
<1>2. Stable /\ TypeOK'
  BY LoadStays, LoadType DEF SilverInv
<1>3. daily.pc \in {"audit_t0", "main_t0"} => UNCHANGED tables
  <2>1. ChunkQuarantine \/ ChunkReplace => load.pc \in {"audit", "main"}
    BY DEF ChunkQuarantine, ChunkReplace
  <2>2. ~ ChunkQuarantine /\ ~ ChunkReplace => UNCHANGED tables
    BY DEF LoadNext, LoadTrigger, LoadFile, LoadFilesDone, LoadSetWatermark,
         LoadBootstrap, LoadPlan, ChunkBegin, ChunkMark, ChunkFail, FinalizerRead,
         FinalizerWrite, LoadFail
  <2> QED
    BY <2>1, <2>2 DEF SilverInv, OneAtATime
<1> QED
  BY <1>1, <1>2, <1>3, DailyFrame, PublishedFrame

(* The files a load has brought.                                            *)
LEMMA FilesAreThere ==
    ASSUME SilverInv, load.pc = "watermarks"
    PROVE  /\ \A d \in Dates : d <= LoadedTo => bronze[d] = "whole"
           /\ bronze[1] = "whole"
<1>1. \A d \in Dates : d <= LoadedTo => bronze[d] = "whole"
  BY DEF SilverInv, LoadPart
<1>2. 1 \in Dates /\ 1 <= LoadedTo
  BY ConstantFacts
<1> QED
  BY <1>1, <1>2

LEMMA LoadClock ==
    ASSUME SilverInv, LoadNext
    PROVE  Clock'
<1>0. /\ Clock /\ TypeOK /\ UNCHANGED <<today, promotions>> /\ Stable
      /\ today \in Nat /\ LoadedTo \in Nat
  BY LoadFrames, ConstantFacts DEF SilverInv, TypeOK
<1>1. \A d \in promotions' : bronze'[d] # "none"
  BY <1>0 DEF Clock, Stable, TypeOK
<1>2. ASSUME NEW f \in Dates, LoadFile(f)
      PROVE  Clock'
  <2>1. /\ UNCHANGED <<wm, silverWm, boot>> /\ f <= LoadedTo
        /\ \A d \in Dates : bronze'[d] = IF d = f THEN "whole" ELSE bronze[d]
    BY <1>0, <1>2 DEF LoadFile, TypeOK, Contents3
  <2>2. \A d \in Dates : bronze'[d] = "whole" => d < today
    BY <1>0, <2>1, ConstantFacts DEF Clock
  <2>3. \A d \in Dates : d <= wm => bronze'[d] = "whole"
    BY <1>0 DEF Clock, Stable
  <2> QED
    BY <1>0, <1>1, <2>1, <2>2, <2>3 DEF Clock
<1>3. CASE LoadSetWatermark
  <2>1. UNCHANGED <<bronze, silverWm, boot>> /\ wm' = LoadedTo
    BY <1>3 DEF LoadSetWatermark
  <2>2. \A d \in Dates : d <= LoadedTo => bronze[d] = "whole"
    BY <1>3, FilesAreThere DEF LoadSetWatermark
  <2> QED
    BY <1>0, <1>1, <2>1, <2>2 DEF Clock
<1>4. CASE LoadBootstrap
  BY <1>0, <1>4 DEF LoadBootstrap, Clock
<1>5. CASE FinalizerWrite
  <2>1. UNCHANGED <<bronze, wm, boot>> /\ boot
    BY <1>5 DEF FinalizerWrite, SilverInv, LoadPart
  <2> QED
    BY <1>0, <2>1 DEF Clock
<1>6. CASE \/ \E from \in LoadFroms : LoadTrigger(from)
           \/ LoadFilesDone \/ \E size \in ChunkSizes : LoadPlan(size)
           \/ \E r \in Ranges : ChunkBegin(r)
           \/ ChunkQuarantine \/ ChunkReplace \/ ChunkMark \/ ChunkFail
           \/ FinalizerRead \/ LoadFail
  <2>1. UNCHANGED <<bronze, wm, silverWm, boot>>
    BY <1>6 DEF LoadTrigger, LoadFilesDone, LoadPlan, ChunkBegin, ChunkQuarantine,
                ChunkReplace, ChunkMark, ChunkFail, FinalizerRead, LoadFail
  <2> QED
    BY <1>0, <2>1 DEF Clock
<1> QED
  BY <1>2, <1>3, <1>4, <1>5, <1>6 DEF LoadNext

LEMMA LoadCopies ==
    ASSUME SilverInv, LoadNext
    PROVE  Copies'
<1> SUFFICES ASSUME NEW d \in Dates, bronze'[d] # "whole"
             PROVE  /\ silver'[d] # "whole" /\ quarantine'[d] # "whole"
                    /\ load'.read[d] # "whole" /\ daily.read[d] # "whole"
  BY LoadFrames DEF Copies
<1>1. /\ bronze[d] # "whole" /\ load \in LoadRuns
      /\ silver[d] # "whole" /\ quarantine[d] # "whole"
      /\ daily.read[d] # "whole" /\ load.read[d] # "whole"
  BY LoadFrames DEF SilverInv, TypeOK, Copies, Stable
<1>2. Nothing[d] # "whole" /\ IdleLoad.read = Nothing /\ IdleLoad \in LoadRuns
  BY EmptyValues DEF Nothing, IdleLoad
<1>3. ASSUME NEW r \in Ranges, ChunkBegin(r)
      PROVE  UNCHANGED tables /\ load'.read[d] # "whole"
  <2>1. Scan(r)[d] # "whole"
    BY <1>1 DEF Scan
  <2> QED
    BY <1>1, <1>3, <2>1 DEF ChunkBegin, LoadRuns
<1>4. CASE ChunkQuarantine
  BY <1>1, <1>4 DEF ChunkQuarantine, ReplaceRange, LoadRuns
<1>5. CASE ChunkReplace
  BY <1>1, <1>5 DEF ChunkReplace, ReplaceRange, LoadRuns
<1>6. CASE ChunkMark \/ ChunkFail
  <2>1. ChunkLeft.read = Nothing
    BY <1>1 DEF ChunkLeft, LoadRuns
  <2>2. UNCHANGED tables /\ load'.read = Nothing
    BY <1>1, <1>6, <2>1 DEF ChunkMark, ChunkFail, LoadRuns
  <2> QED
    BY <1>1, <1>2, <2>2 DEF tables
<1>7. ASSUME NEW from \in LoadFroms, LoadTrigger(from)
      PROVE  UNCHANGED tables /\ load'.read = Nothing
  BY <1>2, <1>7 DEF LoadTrigger, LoadRuns
<1>8. CASE \/ \E f \in Dates : LoadFile(f)
           \/ LoadFilesDone \/ LoadSetWatermark \/ LoadBootstrap
           \/ \E size \in ChunkSizes : LoadPlan(size)
           \/ FinalizerRead \/ FinalizerWrite \/ LoadFail
  <2>1. UNCHANGED tables /\ load'.read = load.read
    BY <1>1, <1>8 DEF LoadFile, LoadFilesDone, LoadSetWatermark, LoadBootstrap,
                      LoadPlan, FinalizerRead, FinalizerWrite, LoadFail, LoadRuns
  <2> QED
    BY <1>1, <2>1 DEF tables
<1> QED
  BY <1>1, <1>2, <1>3, <1>4, <1>5, <1>6, <1>7, <1>8 DEF LoadNext, tables

LEMMA LoadAlone ==
    ASSUME SilverInv, LoadNext
    PROVE  OneAtATime'
<1>0. UNCHANGED daily /\ load \in LoadRuns /\ IdleLoad \in LoadRuns
  BY LoadFrames, EmptyValues DEF SilverInv, TypeOK
<1>1. ASSUME NEW r \in Ranges, ChunkBegin(r)
      PROVE  OneAtATime'
  BY <1>0, <1>1, OneSlotIsExclusive DEF ChunkBegin, OneAtATime
<1>2. CASE ChunkQuarantine \/ ChunkReplace
  BY <1>0, <1>2 DEF ChunkQuarantine, ChunkReplace, SilverInv, OneAtATime
<1>3. CASE \/ \E from \in LoadFroms : LoadTrigger(from)
           \/ \E f \in Dates : LoadFile(f)
           \/ LoadFilesDone \/ LoadSetWatermark \/ LoadBootstrap
           \/ \E size \in ChunkSizes : LoadPlan(size)
           \/ ChunkMark \/ ChunkFail
           \/ FinalizerRead \/ FinalizerWrite \/ LoadFail
  <2>1. load'.pc \notin {"audit", "main", "mark"}
    BY <1>0, <1>3 DEF LoadTrigger, LoadFile, LoadFilesDone, LoadSetWatermark,
         LoadBootstrap, LoadPlan, ChunkMark, ChunkFail, ChunkLeft, FinalizerRead,
         FinalizerWrite, LoadFail, LoadRuns, Outcome
  <2> QED
    BY <2>1 DEF OneAtATime
<1> QED
  BY <1>1, <1>2, <1>3 DEF LoadNext

(* A new plan starts at the watermark, behind which everything is settled.  *)
LEMMA PlanIsPlanned ==
    ASSUME SilverInv, NEW size \in ChunkSizes
    PROVE  Planned(BuildRanges(silverWm, wm, size), wm)
<1> DEFINE plan == BuildRanges(silverWm, wm, size)
<1>0. /\ silverWm \in 0 .. LastDay /\ wm \in 0 .. LastDay /\ size \in Nat \ {0}
      /\ Clock /\ Settled(silverWm)
  BY SilverConstants DEF SilverInv, TypeOK
<1>1. ASSUME NEW d \in Dates, d <= wm
      PROVE  \/ silver[d] = "whole" /\ quarantine[d] = "whole"
             \/ \E r \in plan : InRange(d, r)
  <2>1. CASE d <= silverWm
    BY <1>0, <2>1 DEF Settled
  <2>2. CASE ~ (d <= silverWm)
    <3>1. silverWm < d
      BY <1>0, <2>2, ConstantFacts
    <3> QED
      BY <1>0, <1>1, <3>1, RangesCover
  <2> QED
    BY <2>1, <2>2
<1>2. ASSUME NEW r \in plan
      PROVE  r.hi <= wm /\ WholeOn(bronze, r)
  <2>1. r \in Ranges /\ r.hi <= wm
    BY <1>0, RangesInOrder
  <2>2. ASSUME NEW d \in Dates, InRange(d, r)
        PROVE  bronze[d] = "whole"
    <3>1. d <= wm
      BY <1>0, <2>1, <2>2, RangeFacts, ConstantFacts DEF InRange
    <3> QED
      BY <1>0, <3>1 DEF Clock
  <2> QED
    BY <2>1, <2>2 DEF WholeOn
<1>3. \A r, q \in plan : r.lo < q.lo => r.hi < q.lo
  BY <1>0, RangesInOrder
<1> QED
  BY <1>1, <1>2, <1>3 DEF Planned

(* The finalizer passes only what is settled: the ranges up to the one at   *)
(* whose end it stops are complete, and between them the plan has no gap.   *)
LEMMA NextIsSettled ==
    ASSUME SilverInv, load.pc = "chunks"
    PROVE  Settled(NextWatermark)
<1>0. /\ TypeOK /\ load \in LoadRuns /\ Planned(load.plan, load.upto) /\ Settled(silverWm)
      /\ silverWm \in 0 .. LastDay /\ MarkersHold /\ load.plan \subseteq Ranges
  BY DEF SilverInv, TypeOK, LoadPart, LoadRuns
<1>1. CASE NextWatermark = silverWm
  BY <1>0, <1>1
<1>2. ASSUME NEW r \in ConfirmedRanges(silverWm), NextWatermark = r.hi
      PROVE  Settled(NextWatermark)
  <2>1. /\ r \in load.plan /\ silverWm < r.hi
        /\ \A q \in load.plan : silverWm < q.hi /\ q.lo <= r.lo => q \in markers
    BY DEF ConfirmedRanges, IsRangeComplete
  <2>2. r.lo \in Nat /\ r.hi \in Nat /\ r.hi <= load.upto
    BY <1>0, <2>1, RangeFacts DEF Planned
  <2>3. ASSUME NEW d \in Dates, d <= r.hi
        PROVE  silver[d] = "whole" /\ quarantine[d] = "whole"
    <3>0. d \in Nat /\ load.upto \in Nat
      BY <1>0, ConstantFacts DEF LoadRuns
    <3>1. CASE d <= silverWm
      BY <1>0, <3>1 DEF Settled
    <3>2. CASE ~ (d <= silverWm)
      <4>1. d <= load.upto
        BY <2>2, <2>3, <3>0
      <4>2. CASE \E q \in load.plan : InRange(d, q)
        <5>1. PICK q \in load.plan : InRange(d, q)
          BY <4>2
        <5>2. q.lo \in Nat /\ q.hi \in Nat /\ q.lo <= d /\ d <= q.hi
          BY <1>0, <5>1, RangeFacts DEF InRange
        <5>3. q.lo <= r.lo
          <6>1. r.lo < q.lo => r.hi < q.lo
            BY <1>0, <2>1 DEF Planned
          <6> QED
            BY <2>2, <2>3, <3>0, <5>2, <6>1
        <5>4. silverWm < q.hi
          BY <1>0, <3>0, <3>2, <5>2
        <5>5. q \in markers
          BY <2>1, <5>3, <5>4
        <5> QED
          BY <1>0, <5>1, <5>5 DEF MarkersHold, WholeOn
      <4> QED
        BY <1>0, <4>1, <4>2 DEF Planned
    <3> QED
      BY <3>1, <3>2
  <2> QED
    BY <1>2, <2>3 DEF Settled
<1> QED
  BY <1>0, <1>1, <1>2, NextWatermarkFacts

(* Which part of the load every step leaves.                                *)
LEMMA IdleLoadHolds ==
    ASSUME load'.pc \in {"idle", "files", "failed"}, load'.from = 1
    PROVE  LoadPart' /\ ChunkPart'
BY DEF LoadPart, ChunkPart

LEMMA LoadBeginsHolds ==
    ASSUME SilverInv,
           \/ \E from \in LoadFroms : LoadTrigger(from)
           \/ \E f \in Dates : LoadFile(f)
           \/ LoadFilesDone \/ LoadSetWatermark \/ LoadBootstrap \/ LoadFail
    PROVE  LoadPart' /\ ChunkPart'
<1>0. load \in LoadRuns /\ IdleLoad \in LoadRuns /\ load.from = 1
      /\ LoadedTo \in Nat
  BY EmptyValues, ConstantFacts DEF SilverInv, TypeOK, LoadPart
<1>1. ASSUME NEW from \in LoadFroms, LoadTrigger(from)
      PROVE  LoadPart' /\ ChunkPart'
  <2>1. load'.pc = "files" /\ load'.from = 1
    BY <1>0, <1>1, ConstantFacts DEF LoadTrigger, LoadRuns
  <2> QED
    BY <2>1, IdleLoadHolds
<1>2. CASE (\E f \in Dates : LoadFile(f)) \/ LoadFail
  <2>1. load'.pc \in {"files", "failed"} /\ load'.from = 1
    BY <1>0, <1>2 DEF LoadFile, LoadFail, LoadRuns
  <2> QED
    BY <2>1, IdleLoadHolds
<1>3. CASE LoadFilesDone
  <2>1. /\ load'.pc = "watermarks" /\ load'.from = 1 /\ UNCHANGED bronze
        /\ load'.left = {"set", "bootstrap"}
        /\ \A d \in 1 .. LoadedTo : bronze[d] = "whole"
    BY <1>0, <1>3 DEF LoadFilesDone, LoadRuns
  <2>2. \A d \in Dates : d <= LoadedTo => bronze[d] = "whole"
    BY <1>0, <2>1, ConstantFacts
  <2> QED
    BY <2>1, <2>2 DEF LoadPart, ChunkPart
<1>4. CASE LoadSetWatermark
  <2>1. /\ load'.pc = "watermarks" /\ load'.from = 1 /\ UNCHANGED <<bronze, boot>>
        /\ wm' = LoadedTo /\ load.pc = "watermarks"
        /\ load'.left = load.left \ {"set"}
    BY <1>0, <1>4 DEF LoadSetWatermark, LoadRuns
  <2> QED
    BY <1>0, <2>1 DEF SilverInv, LoadPart, ChunkPart
<1>5. CASE LoadBootstrap
  <2>1. /\ load'.pc = "watermarks" /\ load'.from = 1 /\ UNCHANGED <<bronze, wm>>
        /\ boot' /\ load.pc = "watermarks"
        /\ load'.left = load.left \ {"bootstrap"}
    BY <1>0, <1>5 DEF LoadBootstrap, LoadRuns
  <2> QED
    BY <1>0, <2>1 DEF SilverInv, LoadPart, ChunkPart
<1> QED
  BY <1>1, <1>2, <1>3, <1>4, <1>5

LEMMA LoadPlanHolds ==
    ASSUME SilverInv, NEW size \in ChunkSizes, LoadPlan(size)
    PROVE  LoadPart' /\ ChunkPart'
<1> DEFINE plan == BuildRanges(silverWm, wm, size)
           todo == {r \in plan : ~IsRangeComplete(r)}
<1>1. load' = [load EXCEPT !.pc = "chunks", !.upto = wm, !.plan = plan, !.todo = todo]
      /\ UNCHANGED <<bronze, wm, tables, boot>> /\ load.pc = "watermarks"
      /\ load.left = {}
  BY DEF LoadPlan
<1>2. Planned(plan, wm) /\ todo \subseteq plan
  BY PlanIsPlanned
<1>3. load.from = 1 /\ boot /\ LoadedTo <= wm
  BY <1>1 DEF SilverInv, LoadPart
<1> HIDE DEF plan, todo
<1>4. /\ load'.pc = "chunks" /\ load'.from = 1 /\ load'.plan = plan
      /\ load'.todo = todo /\ load'.upto = wm
  BY <1>1, <1>3 DEF SilverInv, TypeOK, LoadRuns
<1>5. Planned(load.plan, load.upto)'
  BY <1>1, <1>2, <1>4 DEF Planned, WholeOn, tables
<1> QED
  BY <1>1, <1>2, <1>3, <1>4, <1>5 DEF LoadPart, ChunkPart

LEMMA ChunkHolds ==
    ASSUME SilverInv,
           \/ \E r \in Ranges : ChunkBegin(r)
           \/ ChunkQuarantine \/ ChunkReplace \/ ChunkMark \/ ChunkFail
    PROVE  LoadPart' /\ ChunkPart'
<1>0. /\ load \in LoadRuns /\ Stable /\ LoadPart /\ ChunkPart
      /\ UNCHANGED <<bronze, wm, boot>>
      /\ load.pc \in {"chunks", "audit", "main", "mark"}
      /\ load.todo \subseteq load.plan /\ Planned(load.plan, load.upto)
      /\ boot /\ LoadedTo <= load.upto /\ load.from = 1
  BY StableStep DEF SilverInv, TypeOK, Next, LoadNext, LoadPart, ChunkBegin,
     ChunkQuarantine, ChunkReplace, ChunkMark, ChunkFail
<1> DEFINE Same == /\ load'.from = load.from /\ load'.plan = load.plan
                   /\ load'.upto = load.upto /\ load'.todo \subseteq load.todo
                   /\ load'.pc \in {"chunks", "audit", "main", "mark"}
<1>1. Same
  <2>1. ASSUME NEW r \in Ranges, ChunkBegin(r)
        PROVE  Same
    BY <1>0, <2>1 DEF ChunkBegin, LoadRuns
  <2>2. CASE ChunkQuarantine \/ ChunkReplace
    BY <1>0, <2>2 DEF ChunkQuarantine, ChunkReplace, LoadRuns
  <2>3. CASE ChunkMark \/ ChunkFail
    <3>1. load' = ChunkLeft => Same
      BY <1>0 DEF ChunkLeft, LoadRuns
    <3>2. load' = [load EXCEPT !.pc = "chunks", !.chunk = NoRange, !.read = Nothing]
             => Same
      BY <1>0 DEF LoadRuns
    <3> QED
      BY <2>3, <3>1, <3>2 DEF ChunkMark, ChunkFail
  <2> QED
    BY <2>1, <2>2, <2>3
<1>2. Planned(load.plan, load.upto)'
  BY <1>0, <1>1 DEF Planned, Stable, WholeOn
<1>3. LoadPart'
  BY <1>0, <1>1, <1>2 DEF LoadPart
<1>4. ASSUME NEW r \in Ranges, ChunkBegin(r)
      PROVE  LoadPart' /\ ChunkPart'
  <2>1. /\ load'.pc = "audit" /\ load'.chunk = r /\ load'.read = Scan(r)
        /\ load'.plan = load.plan /\ r \in load.plan
    BY <1>0, <1>4 DEF ChunkBegin, LoadRuns
  <2>2. WholeOn(Scan(r), r)
    BY <1>0, <2>1 DEF Planned, WholeOn, Scan
  <2> QED
    BY <1>3, <2>1, <2>2 DEF ChunkPart
<1>5. CASE ChunkQuarantine
  <2>1. /\ load.pc = "audit" /\ load'.pc = "main" /\ load'.chunk = load.chunk
        /\ load'.read = load.read
        /\ load'.plan = load.plan
        /\ quarantine' = ReplaceRange(quarantine, load.chunk, load.read)
    BY <1>0, <1>5 DEF ChunkQuarantine, LoadRuns
  <2>2. WholeOn(quarantine', load.chunk)
    BY <1>0, <2>1 DEF ChunkPart, WholeOn, ReplaceRange
  <2> QED
    BY <1>0, <1>3, <2>1, <2>2 DEF ChunkPart
<1>6. CASE ChunkReplace
  <2>1. /\ load.pc = "main" /\ load'.pc = "mark" /\ load'.chunk = load.chunk
        /\ load'.read = load.read
        /\ load'.plan = load.plan /\ UNCHANGED quarantine
        /\ silver' = ReplaceRange(silver, load.chunk, load.read)
    BY <1>0, <1>6 DEF ChunkReplace, LoadRuns
  <2>2. WholeOn(silver', load.chunk)
    BY <1>0, <2>1 DEF ChunkPart, WholeOn, ReplaceRange
  <2> QED
    BY <1>0, <1>3, <2>1, <2>2 DEF ChunkPart
<1>7. CASE ChunkMark \/ ChunkFail
  <2>1. load'.pc = "chunks"
    BY <1>0, <1>7 DEF ChunkMark, ChunkFail, ChunkLeft, LoadRuns
  <2> QED
    BY <1>3, <2>1 DEF ChunkPart
<1> QED
  BY <1>4, <1>5, <1>6, <1>7

LEMMA FinalizerHolds ==
    ASSUME SilverInv, FinalizerRead \/ FinalizerWrite
    PROVE  LoadPart' /\ ChunkPart'
<1>0. /\ load \in LoadRuns /\ load.from = 1 /\ UNCHANGED <<bronze, wm, tables>>
      /\ boot /\ boot' /\ LoadedTo <= load.upto
      /\ silverWm \in 0 .. LastDay /\ Settled(silverWm)
  BY DEF SilverInv, TypeOK, LoadPart, FinalizerRead, FinalizerWrite
<1>1. CASE FinalizerRead
  <2>1. load' = [load EXCEPT !.next = NextWatermark,
                    !.pc = IF NextWatermark > silverWm THEN "write"
                           ELSE Outcome(NextWatermark)]
    BY <1>1 DEF FinalizerRead, NextWatermark
  <2>2. NextWatermark \in 0 .. LastDay /\ Settled(NextWatermark)
    BY <1>1, NextWatermarkFacts, NextIsSettled DEF FinalizerRead, SilverInv
  <2>3. /\ load'.from = 1 /\ load'.upto = load.upto /\ load'.next = NextWatermark
        /\ load'.pc \in {"write", "done", "failed"}
        /\ load'.pc = "done" => NextWatermark >= load.upto
    BY <1>0, <2>1 DEF LoadRuns, Outcome
  <2>4. load'.pc = "done" => Settled(load.upto)
    BY <1>0, <2>2, <2>3, ConstantFacts DEF Settled, LoadRuns
  <2> QED
    BY <1>0, <2>2, <2>3, <2>4 DEF LoadPart, ChunkPart, Settled, tables
<1>2. CASE FinalizerWrite
  <2>1. /\ load'.from = 1 /\ load'.upto = load.upto
        /\ load'.pc \in {"done", "failed"}
        /\ load'.pc = "done" => load.next >= load.upto
    BY <1>0, <1>2 DEF FinalizerWrite, LoadRuns, Outcome
  <2>2. Settled(load.next)
    BY <1>2 DEF FinalizerWrite, SilverInv, LoadPart
  <2>3. load'.pc = "done" => Settled(load.upto)
    BY <1>0, <2>1, <2>2, ConstantFacts DEF Settled, LoadRuns
  <2> QED
    BY <1>0, <2>1, <2>3 DEF LoadPart, ChunkPart, Settled, tables
<1> QED
  BY <1>1, <1>2

LEMMA LoadPublishes ==
    ASSUME SilverInv, LoadNext
    PROVE  MarkersHold' /\ Settled(silverWm)'
<1>0. Stable /\ load \in LoadRuns
  BY LoadFrames DEF SilverInv, TypeOK
<1>1. CASE ChunkMark
  <2>1. /\ UNCHANGED <<silver, quarantine, silverWm>>
        /\ markers' = markers \cup {load.chunk}
        /\ WholeOn(silver, load.chunk) /\ WholeOn(quarantine, load.chunk)
    BY <1>1 DEF ChunkMark, tables, SilverInv, ChunkPart
  <2> QED
    BY <1>0, <2>1, PublishedFrame DEF SilverInv, MarkersHold
<1>2. CASE LoadBootstrap
  <2>1. UNCHANGED markers /\ (silverWm' = silverWm \/ silverWm' = 0)
    BY <1>2, FilesAreThere, FirstWatermarkIsZero DEF LoadBootstrap, SilverInv
  <2>2. \A d \in Dates : ~ (d <= 0)
    BY ConstantFacts
  <2>3. Settled(silverWm)'
    BY <1>0, <2>1, <2>2 DEF SilverInv, Settled, Stable
  <2> QED
    BY <1>0, <2>1, <2>3, PublishedFrame
<1>3. CASE FinalizerWrite
  <2>1. UNCHANGED <<markers, tables>> /\ silverWm' = load.next /\ Settled(load.next)
    BY <1>3 DEF FinalizerWrite, SilverInv, LoadPart
  <2> QED
    BY <1>0, <2>1, PublishedFrame DEF Settled, tables
<1>4. CASE ~ ChunkMark /\ ~ LoadBootstrap /\ ~ FinalizerWrite
  <2>1. UNCHANGED <<markers, silverWm>>
    BY <1>4 DEF LoadNext, LoadTrigger, LoadFile, LoadFilesDone, LoadSetWatermark,
         LoadPlan, ChunkBegin, ChunkQuarantine, ChunkReplace, ChunkFail,
         FinalizerRead, LoadFail
  <2> QED
    BY <1>0, <2>1, PublishedFrame
<1> QED
  BY <1>1, <1>2, <1>3, <1>4

LEMMA LoadKeeps ==
    ASSUME SilverInv, LoadNext
    PROVE  SilverInv'
<1>1. LoadPart' /\ ChunkPart'
  BY LoadBeginsHolds, LoadPlanHolds, ChunkHolds, FinalizerHolds DEF LoadNext
<1> QED
  BY <1>1, LoadFrames, LoadClock, LoadCopies, LoadAlone, LoadPublishes DEF SilverInv

-----------------------------------------------------------------------------
(* The invariant and what follows from it. *)

LEMMA InvariantInit == Init => SilverInv
<1> SUFFICES ASSUME Init PROVE SilverInv
  OBVIOUS
<1>1. /\ IdleDaily \in DailyRuns /\ IdleLoad \in LoadRuns /\ Nothing \in Contents3
      /\ IdleDaily.pc = "idle" /\ IdleDaily.read = Nothing
      /\ IdleDaily.confirmed = NoRange /\ IsEmpty(NoRange)
      /\ IdleLoad.pc = "idle" /\ IdleLoad.from = 1 /\ IdleLoad.read = Nothing
  BY EmptyValues DEF IdleDaily, IdleLoad, IsEmpty, NoRange
<1>2. /\ \A d \in Dates : Nothing[d] = "none" /\ ~ (d <= 0)
      /\ 0 < LoadedTo + 1 /\ LoadedTo < LoadedTo + 1
  BY ConstantFacts DEF Nothing
<1>3. TypeOK
  <2>1. 0 \in 0 .. LastDay /\ -1 \in -1 .. LastDay
    BY ConstantFacts
  <2>2. [d \in Dates |-> NoDoc] \in [Dates -> -1 .. LastDay]
    BY <2>1 DEF NoDoc
  <2> QED
    BY <1>1, <2>1, <2>2, ConstantFacts DEF Init, TypeOK, NoEvent
<1>4. Clock /\ Copies /\ Settled(silverWm)
  BY <1>1, <1>2 DEF Init, Clock, Copies, Settled
<1>5. ConfirmedPart /\ CurrentDayPart /\ LoadPart /\ ChunkPart /\ OneAtATime
  BY <1>1 DEF Init, ConfirmedPart, CurrentDayPart, LoadPart, ChunkPart, OneAtATime
<1>6. MarkersHold /\ DocsHold
  BY DEF Init, MarkersHold, DocsHold
<1> QED
  BY <1>3, <1>4, <1>5, <1>6 DEF SilverInv

LEMMA InvariantStep == SilverInv /\ [Next]_vars => SilverInv'
<1> SUFFICES ASSUME SilverInv, [Next]_vars PROVE SilverInv'
  OBVIOUS
<1>1. CASE UNCHANGED vars
  <2>1. UNCHANGED <<today, bronze, wm, promotions, event, silver, quarantine,
                    silverWm, boot, markers, docs, daily, load>>
    BY <1>1 DEF vars, bronzeVars, tables
  <2>2. TypeOK' /\ Clock' /\ Copies' /\ OneAtATime'
    BY <2>1 DEF SilverInv, TypeOK, Clock, Copies, OneAtATime
  <2>3. ConfirmedPart' /\ CurrentDayPart' /\ MarkersHold' /\ DocsHold' /\ Settled(silverWm)'
    BY <2>1 DEF SilverInv, ConfirmedPart, CurrentDayPart, MarkersHold, DocsHold,
                WholeOn, Settled
  <2>4. LoadPart' /\ ChunkPart'
    BY <2>1 DEF SilverInv, LoadPart, ChunkPart, Planned, WholeOn, Settled
  <2> QED
    BY <2>2, <2>3, <2>4 DEF SilverInv
<1> QED
  BY <1>1, BronzeKeeps, DailyKeeps, LoadKeeps DEF Next

(* The inductive invariant holds in every state: what a run of the job has   *)
(* read of a range is still the best there is when it replaces the range.    *)
THEOREM Invariant == Spec => []SilverInv
BY InvariantInit, InvariantStep, PTL DEF Spec

(* Every variable stays in its domain, whatever the watermark is put to.     *)
THEOREM TypeCorrect == Spec => []TypeOK
BY Invariant, PTL DEF SilverInv

LEMMA SettledIsWhole ==
    ASSUME SilverInv
    PROVE  ConfirmedSilverIsWhole
<1>1. \A d \in 1 .. silverWm : d \in Dates /\ d <= silverWm
  BY SilverConstants DEF SilverInv, TypeOK, Dates
<1> QED
  BY <1>1 DEF SilverInv, Settled, ConfirmedSilverIsWhole

(* Behind the Silver watermark both tables hold whole days, whichever of the *)
(* daily run and the finalizer moved it and wherever the others were.        *)
THEOREM ConfirmedSilverStaysWhole == Spec => []ConfirmedSilverIsWhole
BY Invariant, SettledIsWhole, PTL

LEMMA MarkedIsWhole ==
    ASSUME SilverInv
    PROVE  MarkersMeanReplaced
<1> SUFFICES ASSUME NEW r \in markers, NEW d \in r.lo .. r.hi
             PROVE  silver[d] = "whole" /\ quarantine[d] = "whole"
  BY DEF MarkersMeanReplaced
<1>1. r \in Ranges
  BY DEF SilverInv, TypeOK
<1>2. d \in Dates /\ InRange(d, r)
  BY <1>1, SilverConstants DEF Ranges, Dates, InRange
<1> QED
  BY <1>2 DEF SilverInv, MarkersHold, WholeOn

(* A chunk that has its completion marker is replaced in both tables, in     *)
(* this and in every later load, so that the planner may leave it out.       *)
THEOREM MarkersAreTrue == Spec => []MarkersMeanReplaced
BY Invariant, MarkedIsWhole, PTL

LEMMA DocumentsAreLast ==
    ASSUME SilverInv
    PROVE  PromotionDocumentsLast
<1>1. \A r \in Dates : \A d \in 1 .. docs[r] : d \in Dates /\ d <= docs[r]
  BY SilverConstants DEF SilverInv, TypeOK, Dates
<1> QED
  BY <1>1 DEF SilverInv, DocsHold, PromotionDocumentsLast

(* The promotion document of a run date is there only when the day itself    *)
(* and all that confirmed_through names are in Silver.                       *)
THEOREM DocumentsComeLast == Spec => []PromotionDocumentsLast
BY Invariant, DocumentsAreLast, PTL

LEMMA LoadedIsSettled ==
    ASSUME SilverInv
    PROVE  FinishedLoadReachesSilver
<1> SUFFICES ASSUME load.pc = "done", NEW d \in load.from .. Max({LoadedTo, load.upto})
             PROVE  silver[d] = "whole"
  BY DEF FinishedLoadReachesSilver
<1>1. /\ load.from = 1 /\ LoadedTo <= load.upto /\ Settled(load.upto)
      /\ load.upto \in 0 .. LastDay /\ LoadedTo \in 0 .. LastDay
  BY ConstantFacts DEF SilverInv, LoadPart, TypeOK, LoadRuns
<1>2. Max({LoadedTo, load.upto}) = load.upto
  <2>1. /\ Max({LoadedTo, load.upto}) \in {LoadedTo, load.upto}
        /\ \A x \in {LoadedTo, load.upto} : x <= Max({LoadedTo, load.upto})
    BY <1>1, ConstantFacts, MaxOfBounded
  <2> QED
    BY <1>1, <2>1
<1>3. d \in Dates /\ d <= load.upto
  BY <1>1, <1>2, SilverConstants DEF Dates
<1> QED
  BY <1>1, <1>3 DEF Settled

(* A load that ended without an error left every date of its files and of    *)
(* its plan in Silver, whatever chunks earlier loads had completed.          *)
THEOREM LoadsThatEndReachSilver == Spec => []FinishedLoadReachesSilver
BY Invariant, LoadedIsSettled, PTL

-----------------------------------------------------------------------------
(* The refinement of ConfirmedPrefix. *)

WholeSilver == {d \in Dates : silver[d] = "whole"}
SilverMark == [l \in {"silver"} |-> silverWm]

(* A step that does not write the watermark keeps the whole days.            *)
LEMMA CommitSimulation ==
    ASSUME SilverInv, [Next]_vars, silverWm' = silverWm
    PROVE  Prefix!Commit
<1>1. WholeSilver' \in SUBSET (1 .. LastDay)
  BY DEF WholeSilver, Dates
<1>2. WholeSilver \subseteq WholeSilver'
  <2>1. CASE Next
    BY <2>1, StableStep DEF Stable, WholeSilver
  <2>2. CASE UNCHANGED vars
    BY <2>2 DEF vars, tables, WholeSilver
  <2> QED
    BY <2>1, <2>2
<1>3. SilverMark' = SilverMark
  BY DEF SilverMark
<1> QED
  BY <1>1, <1>2, <1>3 DEF Prefix!Commit, WholeSilver, SilverMark

(* A write of the watermark leaves silver alone and stops where all is whole.*)
LEMMA ConfirmSimulation ==
    ASSUME SilverInv, SilverInv', UNCHANGED silver
    PROVE  Prefix!Next
<1>1. silverWm' \in 0 .. LastDay /\ Settled(silverWm)'
  BY DEF SilverInv, TypeOK
<1>2. 1 .. silverWm' \subseteq WholeSilver
  BY <1>1, ConstantFacts DEF Settled, WholeSilver, Dates
<1>3. WholeSilver' = WholeSilver /\ SilverMark' = [SilverMark EXCEPT !["silver"] = silverWm']
  BY DEF WholeSilver, SilverMark
<1>4. Prefix!Confirm("silver", silverWm')
  BY <1>2, <1>3 DEF Prefix!Confirm, WholeSilver, SilverMark
<1> QED
  BY <1>1, <1>4 DEF Prefix!Next

LEMMA StepSimulation ==
    ASSUME SilverInv, [Next]_vars
    PROVE  Prefix!Next
<1>1. CASE silverWm' = silverWm
  BY <1>1, CommitSimulation DEF Prefix!Next
<1>2. CASE DailyWriteWatermark \/ FinalizerWrite \/ LoadBootstrap
  <2>1. UNCHANGED silver
    BY <1>2 DEF DailyWriteWatermark, FinalizerWrite, LoadBootstrap, tables
  <2> QED
    BY <2>1, InvariantStep, ConfirmSimulation
<1>3. DailyNext => silverWm' = silverWm \/ DailyWriteWatermark
  BY DEF DailyNext, DailyTrigger, DailyBegin, DailyScan, DailyQuarantine,
         DailyReplace, DailyCurrentDay, DailyDoc, DailyFail
<1>4. LoadNext => silverWm' = silverWm \/ FinalizerWrite \/ LoadBootstrap
  BY DEF LoadNext, LoadTrigger, LoadFile, LoadFilesDone, LoadSetWatermark,
         LoadPlan, ChunkBegin, ChunkQuarantine, ChunkReplace, ChunkMark,
         ChunkFail, FinalizerRead, LoadFail
<1>5. Midnight \/ BronzeNext \/ UNCHANGED vars => silverWm' = silverWm
  BY DEF Midnight, BronzeNext, BronzePromote, BronzeConfirm, vars
<1> QED
  BY <1>1, <1>2, <1>3, <1>4, <1>5 DEF Next

LEMMA InitSimulation == Init => Prefix!Init
BY DEF Init, Prefix!Init, Nothing

(* Silver implements the abstract prefix: seen through silver and its        *)
(* watermark, no step of the daily run, of a chunk or of the finalizer does  *)
(* more than replace days or put the mark at the end of whole days.          *)
THEOREM RefinesConfirmedPrefix == Spec => SilverImplementsPrefix
<1>1. SilverInv /\ [Next]_vars => [Prefix!Next]_<<WholeSilver, SilverMark>>
  BY StepSimulation
<1> QED
  BY <1>1, InitSimulation, Invariant, PTL
  DEF Spec, SilverImplementsPrefix, Prefix!Spec, WholeSilver, SilverMark
=============================================================================
