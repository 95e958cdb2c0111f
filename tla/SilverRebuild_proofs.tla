-------------------------- MODULE SilverRebuild_proofs --------------------------
(***************************************************************************)
(* No reader of silver.bikeman_action meets a table that lacks a day its    *)
(* watermark has passed, for every number of days and whatever call of the  *)
(* rebuild fails or is the last one of its process.                         *)
(***************************************************************************)
EXTENDS SilverRebuild, TLAPS

Pcs == {"idle", "ensure", "drop", "create", "fill", "swap", "undo", "days", "mark"}

Tables == [identity : BOOLEAN, days : SUBSET Int]

RebuildTypeOK ==
    /\ named \in [TableNames -> Tables]
    /\ passed \in 0 .. LastEventDay
    /\ rebuild \in [pc : Pcs, end : Nat, at : Nat \ {0}]

Has(name, last) == 1 .. last \subseteq named[name].days

(* While the old table has no other name a second table may be anything;    *)
(* once nothing is called silver the table that replaces it is full.        *)
ReplacementIsFull == ~ Exists("silver") /\ Exists("rebuild") => Has("rebuild", passed)

(* The end of the rebuild was the watermark when the run began, and no      *)
(* watermark moves before the run comes to its own days.                    *)
RunPosition ==
    /\ rebuild.pc \in {"ensure", "drop", "create", "fill"} => rebuild.end = passed
    /\ rebuild.pc \in {"ensure", "drop", "create"} => rebuild.at = 1
    /\ rebuild.pc \in {"drop", "create", "fill", "days", "mark"} => Exists("silver")

RunHolds ==
    /\ rebuild.pc = "fill" => Exists("rebuild") /\ Has("rebuild", rebuild.at - 1)
    /\ rebuild.pc = "swap" => ~ Exists("silver") /\ Exists("backup") /\ Exists("rebuild")
    /\ rebuild.pc = "undo" => Exists("silver") \/ Exists("backup")
    /\ rebuild.pc = "mark" => passed + 1 \in named["silver"].days /\ passed < LastEventDay

RebuildInv ==
    /\ RebuildTypeOK
    /\ SilverIsNeverPartial
    /\ ReplacementIsFull
    /\ RunPosition
    /\ RunHolds

-----------------------------------------------------------------------------
(* Tables. *)

LEMMA TablesAreTables == Absent \in Tables /\ NewTable \in Tables /\ NewTable # Absent
BY DEF Absent, NewTable, Tables

(* A table that gets a day exists, and keeps the days it had.               *)
LEMMA DayIsAdded ==
    ASSUME RebuildTypeOK, NEW name \in TableNames, NEW day \in Nat
    PROVE  /\ WithDay(name, day) \in [TableNames -> Tables]
           /\ WithDay(name, day)[name].days = named[name].days \cup {day}
           /\ WithDay(name, day)[name] # Absent
           /\ \A n \in TableNames \ {name} : WithDay(name, day)[n] = named[n]
<1>1. WithDay(name, day) = [named EXCEPT ![name] =
                              [named[name] EXCEPT !.days = @ \cup {day}]]
  BY DEF WithDay
<1>2. named[name] \in Tables
  BY DEF RebuildTypeOK
<1> DEFINE table == [named[name] EXCEPT !.days = @ \cup {day}]
<1>3. /\ table \in Tables
      /\ table.days = named[name].days \cup {day}
  BY <1>2 DEF Tables
<1>4. table # Absent
  <2>1. day \in table.days /\ day # -1
    BY <1>3
  <2>2. day \notin Absent.days
    BY <2>1 DEF Absent
  <2> QED
    BY <2>1, <2>2
<1> QED
  BY <1>1, <1>3, <1>4 DEF RebuildTypeOK

LEMMA NameIsChanged ==
    ASSUME RebuildTypeOK, NEW from \in TableNames, NEW to \in TableNames, from # to
    PROVE  /\ Rename(from, to) \in [TableNames -> Tables]
           /\ Rename(from, to)[to] = named[from]
           /\ Rename(from, to)[from] = Absent
           /\ \A n \in TableNames \ {from, to} : Rename(from, to)[n] = named[n]
BY TablesAreTables DEF Rename, RebuildTypeOK

LEMMA GotoKeepsType ==
    ASSUME RebuildTypeOK, NEW pc \in Pcs, Goto(pc)
    PROVE  /\ rebuild' \in [pc : Pcs, end : Nat, at : Nat \ {0}]
           /\ rebuild'.pc = pc /\ rebuild'.end = rebuild.end /\ rebuild'.at = rebuild.at
BY DEF Goto, RebuildTypeOK

-----------------------------------------------------------------------------
LEMMA RebuildInvInit == RebuildInit => RebuildInv
<1> SUFFICES ASSUME RebuildInit PROVE RebuildInv
  OBVIOUS
<1> USE RebuildConstants
<1>1. rebuild = NoRun /\ passed \in 0 .. LastEventDay
  BY DEF RebuildInit
<1>2. PICK table \in {[identity |-> FALSE, days |-> 1 .. passed]}
                     \cup (IF passed = 0 THEN {Absent} ELSE {}) :
         named = [n \in TableNames |-> IF n = "silver" THEN table ELSE Absent]
  BY DEF RebuildInit
<1>3. table \in Tables
  <2>1. 1 .. passed \in SUBSET Int
    BY <1>1
  <2>2. [identity |-> FALSE, days |-> 1 .. passed] \in Tables
    BY <2>1 DEF Tables
  <2>3. table = [identity |-> FALSE, days |-> 1 .. passed] \/ table = Absent
    BY <1>2
  <2> QED
    BY <2>2, <2>3, TablesAreTables
<1>4. RebuildTypeOK
  BY <1>1, <1>2, <1>3, TablesAreTables DEF RebuildTypeOK, NoRun, Pcs
<1>5. named["silver"] = table /\ ~ Exists("rebuild")
  BY <1>2 DEF TableNames, Exists
<1>6. SilverIsNeverPartial
  <2>1. CASE table = [identity |-> FALSE, days |-> 1 .. passed]
    <3>1. 1 .. passed \subseteq named["silver"].days
      BY <1>5, <2>1
    <3>2. Exists("silver")
      <4>1. -1 \notin table.days
        BY <2>1, <1>1
      <4>2. -1 \in Absent.days
        BY DEF Absent
      <4> QED
        BY <1>5, <4>1, <4>2 DEF Exists
    <3> QED
      BY <3>1, <3>2 DEF SilverIsNeverPartial
  <2>2. CASE passed = 0 /\ table = Absent
    BY <2>2, <1>5 DEF SilverIsNeverPartial, Exists
  <2> QED
    BY <1>2, <2>1, <2>2
<1> QED
  BY <1>1, <1>4, <1>5, <1>6
     DEF RebuildInv, ReplacementIsFull, RunPosition, RunHolds, NoRun
-----------------------------------------------------------------------------
(* Looking for the table, and what is done when there is none. *)

(* A step that names no table and moves no watermark.                       *)
LEMMA TablesUntouched ==
    ASSUME RebuildInv, UNCHANGED <<named, passed>>,
           rebuild' \in [pc : Pcs, end : Nat, at : Nat \ {0}]
    PROVE  RebuildTypeOK' /\ SilverIsNeverPartial' /\ ReplacementIsFull'
BY DEF RebuildInv, RebuildTypeOK, SilverIsNeverPartial, ReplacementIsFull, Exists, Has

LEMMA RunBeginsKeeps == RebuildInv /\ RunBegins => RebuildInv'
<1> SUFFICES ASSUME RebuildInv, RunBegins PROVE RebuildInv'
  OBVIOUS
<1>1. rebuild' \in [pc : Pcs, end : Nat, at : Nat \ {0}]
  BY RebuildConstants DEF RebuildInv, RebuildTypeOK, RunBegins, Pcs
<1> QED
  BY <1>1, TablesUntouched
     DEF RebuildInv, RunBegins, RunPosition, RunHolds, Exists, Has

LEMMA FindsTableKeeps == RebuildInv /\ FindsTable => RebuildInv'
<1> SUFFICES ASSUME RebuildInv, FindsTable PROVE RebuildInv'
  OBVIOUS
<1>1. PICK pc \in {"days", "idle", "drop"} : Goto(pc)
  BY DEF FindsTable
<1>2. /\ rebuild' \in [pc : Pcs, end : Nat, at : Nat \ {0}]
      /\ rebuild'.pc = pc /\ rebuild'.end = rebuild.end /\ rebuild'.at = rebuild.at
  BY <1>1, GotoKeepsType DEF RebuildInv, Pcs
<1>3. RunPosition' /\ RunHolds'
  BY <1>1, <1>2 DEF RebuildInv, FindsTable, RunPosition, RunHolds, Exists, Has
<1> QED
  BY <1>2, <1>3, TablesUntouched DEF RebuildInv, FindsTable

(* A table that takes the name silver is full, and exists.                  *)
LEMMA TakingTheName ==
    ASSUME RebuildInv, named' \in [TableNames -> Tables], UNCHANGED passed,
           named'["silver"] # Absent, 1 .. passed \subseteq named'["silver"].days,
           NEW pc \in {"ensure", "days", "undo", "idle"}, Goto(pc),
           pc = "ensure" => rebuild.end = passed /\ rebuild.at = 1
    PROVE  RebuildInv'
<1>1. /\ rebuild' \in [pc : Pcs, end : Nat, at : Nat \ {0}]
      /\ rebuild'.pc = pc /\ rebuild'.end = rebuild.end /\ rebuild'.at = rebuild.at
  BY GotoKeepsType DEF RebuildInv, Pcs
<1>2. RebuildTypeOK'
  BY <1>1 DEF RebuildInv, RebuildTypeOK
<1>3. SilverIsNeverPartial' /\ ReplacementIsFull'
  BY DEF SilverIsNeverPartial, ReplacementIsFull, Exists
<1>4. RunPosition' /\ RunHolds'
  BY <1>1 DEF RunPosition, RunHolds, Exists
<1> QED
  BY <1>2, <1>3, <1>4 DEF RebuildInv

LEMMA FindsNoTableKeeps == RebuildInv /\ FindsNoTable => RebuildInv'
<1> SUFFICES ASSUME RebuildInv, FindsNoTable PROVE RebuildInv'
  OBVIOUS
<1>1. /\ RebuildTypeOK /\ UNCHANGED passed /\ ~ Exists("silver")
      /\ rebuild.end = passed /\ rebuild.at = 1
  BY DEF RebuildInv, FindsNoTable, RunPosition
<1>2. CASE /\ Exists("backup") /\ Exists("rebuild")
           /\ named' = Rename("rebuild", "silver") /\ Goto("days")
  <2>1. named' \in [TableNames -> Tables] /\ named'["silver"] = named["rebuild"]
    BY <1>1, <1>2, NameIsChanged DEF TableNames
  <2>2. 1 .. passed \subseteq named["rebuild"].days
    BY <1>1, <1>2 DEF RebuildInv, ReplacementIsFull, Has
  <2> QED
    BY <1>1, <1>2, <2>1, <2>2, TakingTheName DEF Exists
<1>3. CASE /\ Exists("backup") /\ ~ Exists("rebuild")
           /\ named' = Rename("backup", "silver") /\ Goto("ensure")
  <2>1. named' \in [TableNames -> Tables] /\ named'["silver"] = named["backup"]
    BY <1>1, <1>3, NameIsChanged DEF TableNames
  <2>2. 1 .. passed \subseteq named["backup"].days
    BY <1>1 DEF RebuildInv, RebuildTypeOK, SilverIsNeverPartial
  <2> QED
    BY <1>1, <1>3, <2>1, <2>2, TakingTheName DEF Exists
<1>4. CASE /\ ~ Exists("backup")
           /\ named' = [named EXCEPT !["silver"] = NewTable] /\ Goto("days")
  <2>1. named' \in [TableNames -> Tables] /\ named'["silver"] = NewTable
    BY <1>1, <1>4, TablesAreTables DEF RebuildTypeOK, TableNames
  <2>2. 1 .. passed = {}
    BY <1>1, <1>4 DEF RebuildInv, RebuildTypeOK, SilverIsNeverPartial
  <2> QED
    BY <1>1, <1>4, <2>1, <2>2, TablesAreTables, TakingTheName
<1> QED
  BY <1>2, <1>3, <1>4 DEF FindsNoTable
-----------------------------------------------------------------------------
(* The rebuild, while silver is the old table. *)

(* A step that changes no table but the one called rebuild, with silver in  *)
(* its place.                                                               *)
LEMMA BesideSilver ==
    ASSUME RebuildInv, Exists("silver"), UNCHANGED passed,
           named' \in [TableNames -> Tables], named'["silver"] = named["silver"]
    PROVE  Exists("silver")' /\ SilverIsNeverPartial' /\ ReplacementIsFull'
BY DEF RebuildInv, SilverIsNeverPartial, ReplacementIsFull, Exists

LEMMA DropLeftoverKeeps == RebuildInv /\ DropLeftover => RebuildInv'
<1> SUFFICES ASSUME RebuildInv, DropLeftover PROVE RebuildInv'
  OBVIOUS
<1>1. /\ RebuildTypeOK /\ Exists("silver") /\ UNCHANGED passed
      /\ rebuild.end = passed /\ rebuild.at = 1 /\ Goto("create")
  BY DEF RebuildInv, DropLeftover, RunPosition
<1>2. named' \in [TableNames -> Tables] /\ named'["silver"] = named["silver"]
  BY <1>1, TablesAreTables DEF DropLeftover, RebuildTypeOK, TableNames
<1>3. /\ rebuild' \in [pc : Pcs, end : Nat, at : Nat \ {0}]
      /\ rebuild'.pc = "create" /\ rebuild'.end = passed /\ rebuild'.at = 1
  BY <1>1, GotoKeepsType DEF Pcs
<1> QED
  BY <1>1, <1>2, <1>3, BesideSilver
     DEF RebuildInv, RebuildTypeOK, RunPosition, RunHolds

LEMMA CreateRebuildKeeps == RebuildInv /\ CreateRebuild => RebuildInv'
<1> SUFFICES ASSUME RebuildInv, CreateRebuild PROVE RebuildInv'
  OBVIOUS
<1>1. /\ RebuildTypeOK /\ Exists("silver") /\ UNCHANGED passed
      /\ rebuild.end = passed /\ rebuild.at = 1 /\ Goto("fill")
  BY DEF RebuildInv, CreateRebuild, RunPosition
<1>2. /\ named' \in [TableNames -> Tables] /\ named'["silver"] = named["silver"]
      /\ named'["rebuild"] = NewTable
  BY <1>1, TablesAreTables DEF CreateRebuild, RebuildTypeOK, TableNames
<1>3. /\ rebuild' \in [pc : Pcs, end : Nat, at : Nat \ {0}]
      /\ rebuild'.pc = "fill" /\ rebuild'.end = passed /\ rebuild'.at = 1
  BY <1>1, GotoKeepsType DEF Pcs
<1>4. RunHolds'
  <2>1. 1 .. rebuild'.at - 1 = {}
    BY <1>3
  <2> QED
    BY <1>2, <1>3, <2>1, TablesAreTables DEF RunHolds, Exists, Has
<1> QED
  BY <1>1, <1>2, <1>3, <1>4, BesideSilver DEF RebuildInv, RebuildTypeOK, RunPosition

LEMMA FillDayKeeps == RebuildInv /\ FillDay => RebuildInv'
<1> SUFFICES ASSUME RebuildInv, FillDay PROVE RebuildInv'
  OBVIOUS
<1>1. /\ RebuildTypeOK /\ Exists("silver") /\ UNCHANGED passed
      /\ rebuild.end = passed /\ rebuild.pc = "fill" /\ rebuild.at \in Nat \ {0}
  BY DEF RebuildInv, FillDay, RunPosition, RebuildTypeOK
<1>2. /\ named' \in [TableNames -> Tables] /\ named'["silver"] = named["silver"]
      /\ named'["rebuild"].days = named["rebuild"].days \cup {rebuild.at}
      /\ named'["rebuild"] # Absent
  BY <1>1, DayIsAdded DEF FillDay, TableNames
<1>3. /\ rebuild' \in [pc : Pcs, end : Nat, at : Nat \ {0}]
      /\ rebuild'.pc = "fill" /\ rebuild'.end = passed
      /\ rebuild'.at = rebuild.at + 1
  BY <1>1 DEF FillDay, RebuildTypeOK
<1>4. RunHolds'
  <2>1. 1 .. rebuild.at - 1 \subseteq named["rebuild"].days
    BY <1>1 DEF RebuildInv, RunHolds, Has
  <2>2. 1 .. rebuild'.at - 1 \subseteq named'["rebuild"].days
    BY <1>1, <1>2, <1>3, <2>1
  <2> QED
    BY <1>2, <1>3, <2>2 DEF RunHolds, Exists, Has
<1> QED
  BY <1>1, <1>2, <1>3, <1>4, BesideSilver DEF RebuildInv, RebuildTypeOK, RunPosition

-----------------------------------------------------------------------------
(* The two renames. *)

(* The rebuilt table has every day when the old one gives its name up.      *)
LEMMA SetAsideKeeps == RebuildInv /\ SetAside => RebuildInv'
<1> SUFFICES ASSUME RebuildInv, SetAside PROVE RebuildInv'
  OBVIOUS
<1>1. /\ RebuildTypeOK /\ Exists("silver") /\ UNCHANGED passed
      /\ rebuild.end = passed /\ rebuild.at > passed /\ rebuild.at \in Nat
      /\ passed \in Nat
      /\ Exists("rebuild") /\ Has("rebuild", rebuild.at - 1)
      /\ 1 .. passed \subseteq named["silver"].days
  BY RebuildConstants
     DEF RebuildInv, SetAside, RunPosition, RunHolds, RebuildTypeOK, SilverIsNeverPartial
<1>2. /\ named' \in [TableNames -> Tables] /\ named'["backup"] = named["silver"]
      /\ named'["silver"] = Absent /\ named'["rebuild"] = named["rebuild"]
  BY <1>1, NameIsChanged DEF SetAside, TableNames
<1>3. /\ rebuild' \in [pc : Pcs, end : Nat, at : Nat \ {0}] /\ rebuild'.pc = "swap"
  BY <1>1, GotoKeepsType DEF SetAside, Pcs
<1>4. 1 .. passed \subseteq named["rebuild"].days
  BY <1>1 DEF Has
<1>5. SilverIsNeverPartial' /\ ReplacementIsFull'
  BY <1>1, <1>2, <1>4 DEF SilverIsNeverPartial, ReplacementIsFull, Exists, Has
<1>6. RunPosition' /\ RunHolds'
  BY <1>1, <1>2, <1>3 DEF RunPosition, RunHolds, Exists
<1> QED
  BY <1>1, <1>2, <1>3, <1>5, <1>6 DEF RebuildInv, RebuildTypeOK

(* What both outcomes of the second rename start from.                      *)
LEMMA RenamedIsFull ==
    ASSUME RebuildInv, rebuild.pc = "swap", named' = Rename("rebuild", "silver")
    PROVE  /\ named' \in [TableNames -> Tables] /\ named'["silver"] # Absent
           /\ 1 .. passed \subseteq named'["silver"].days
<1>1. RebuildTypeOK /\ ~ Exists("silver") /\ Exists("rebuild")
  BY DEF RebuildInv, RunHolds
<1>2. 1 .. passed \subseteq named["rebuild"].days
  BY <1>1 DEF RebuildInv, ReplacementIsFull, Has
<1> QED
  BY <1>1, <1>2, NameIsChanged DEF TableNames, Exists

LEMMA SwapKeeps == RebuildInv /\ Swap => RebuildInv'
BY RenamedIsFull, TakingTheName DEF Swap

LEMMA SwapFailsKeeps == RebuildInv /\ SwapFails => RebuildInv'
<1> SUFFICES ASSUME RebuildInv, SwapFails PROVE RebuildInv'
  OBVIOUS
<1>1. CASE named' = Rename("rebuild", "silver")
  BY <1>1, RenamedIsFull, TakingTheName DEF SwapFails
<1>2. CASE UNCHANGED named
  <2>1. /\ rebuild' \in [pc : Pcs, end : Nat, at : Nat \ {0}] /\ rebuild'.pc = "undo"
    BY GotoKeepsType DEF SwapFails, RebuildInv, Pcs
  <2>2. RunPosition' /\ RunHolds'
    BY <1>2, <2>1 DEF SwapFails, RebuildInv, RunPosition, RunHolds, Exists
  <2> QED
    BY <1>2, <2>1, <2>2, TablesUntouched DEF SwapFails, RebuildInv
<1> QED
  BY <1>1, <1>2 DEF SwapFails

LEMMA TakeBackKeeps == RebuildInv /\ TakeBack => RebuildInv'
<1> SUFFICES ASSUME RebuildInv, TakeBack PROVE RebuildInv'
  OBVIOUS
<1>1. CASE Exists("silver")
  BY <1>1, TakingTheName
     DEF TakeBack, RebuildInv, RebuildTypeOK, SilverIsNeverPartial, Exists
<1>2. CASE ~ Exists("silver")
  <2>1. /\ named' \in [TableNames -> Tables] /\ named'["silver"] = named["backup"]
    BY <1>2, NameIsChanged DEF TakeBack, RebuildInv, TableNames
  <2>2. Exists("backup") /\ 1 .. passed \subseteq named["backup"].days
    BY <1>2 DEF TakeBack, RebuildInv, RebuildTypeOK, RunHolds, SilverIsNeverPartial
  <2> QED
    BY <1>2, <2>1, <2>2, TakingTheName DEF TakeBack, Exists
<1> QED
  BY <1>1, <1>2

-----------------------------------------------------------------------------
(* The days of the run, its end, and the operator. *)

LEMMA NextDayKeeps == RebuildInv /\ NextDay => RebuildInv'
<1> SUFFICES ASSUME RebuildInv, NextDay PROVE RebuildInv'
  OBVIOUS
<1>1. RebuildTypeOK /\ Exists("silver") /\ UNCHANGED passed /\ passed + 1 \in Nat
  BY RebuildConstants DEF RebuildInv, NextDay, RunPosition, RebuildTypeOK
<1>2. /\ named' \in [TableNames -> Tables] /\ named'["silver"] # Absent
      /\ named'["silver"].days = named["silver"].days \cup {passed + 1}
  BY <1>1, DayIsAdded DEF NextDay, TableNames
<1>3. /\ rebuild' \in [pc : Pcs, end : Nat, at : Nat \ {0}] /\ rebuild'.pc = "mark"
  BY <1>1, GotoKeepsType DEF NextDay, Pcs
<1>4. SilverIsNeverPartial' /\ ReplacementIsFull'
  BY <1>1, <1>2 DEF RebuildInv, SilverIsNeverPartial, ReplacementIsFull, Exists
<1>5. RunPosition' /\ RunHolds'
  BY <1>1, <1>2, <1>3 DEF NextDay, RunPosition, RunHolds, Exists
<1> QED
  BY <1>1, <1>2, <1>3, <1>4, <1>5 DEF RebuildInv, RebuildTypeOK

LEMMA PassDayKeeps == RebuildInv /\ PassDay => RebuildInv'
<1> SUFFICES ASSUME RebuildInv, PassDay PROVE RebuildInv'
  OBVIOUS
<1>1. /\ RebuildTypeOK /\ Exists("silver") /\ UNCHANGED named
      /\ passed' = passed + 1 /\ passed \in Nat /\ LastEventDay \in Nat
      /\ passed + 1 \in named["silver"].days /\ passed < LastEventDay
  BY RebuildConstants DEF RebuildInv, PassDay, RunPosition, RunHolds, RebuildTypeOK
<1>2. 1 .. passed \subseteq named["silver"].days
  BY <1>1 DEF RebuildInv, SilverIsNeverPartial
<1>3. 1 .. passed' \subseteq named["silver"].days
  BY <1>1, <1>2
<1>4. /\ rebuild' \in [pc : Pcs, end : Nat, at : Nat \ {0}] /\ rebuild'.pc = "days"
  BY <1>1, GotoKeepsType DEF PassDay, Pcs
<1>5. RebuildTypeOK'
  BY <1>1, <1>4 DEF RebuildTypeOK
<1> QED
  BY <1>1, <1>3, <1>4, <1>5
     DEF RebuildInv, SilverIsNeverPartial, ReplacementIsFull, RunPosition, RunHolds, Exists

LEMMA EndKeeps == RebuildInv /\ (RebuildRunEnds \/ RebuildRunDies) => RebuildInv'
<1> SUFFICES ASSUME RebuildInv, RebuildRunEnds \/ RebuildRunDies PROVE RebuildInv'
  OBVIOUS
<1>1. UNCHANGED <<named, passed>> /\ rebuild' = NoRun
  BY DEF RebuildRunEnds, RebuildRunDies
<1>2. /\ rebuild' \in [pc : Pcs, end : Nat, at : Nat \ {0}] /\ rebuild'.pc = "idle"
  BY <1>1 DEF NoRun, Pcs
<1> QED
  BY <1>1, <1>2, TablesUntouched DEF RebuildInv, RunPosition, RunHolds

LEMMA DroppedNameKeeps == RebuildInv /\ NameIsDropped => RebuildInv'
<1> SUFFICES ASSUME RebuildInv, NameIsDropped PROVE RebuildInv'
  OBVIOUS
<1>1. RebuildTypeOK /\ UNCHANGED <<passed, rebuild>> /\ rebuild.pc = "idle"
  BY DEF RebuildInv, NameIsDropped
<1>2. CASE Exists("silver") /\ named' = [named EXCEPT !["backup"] = Absent]
  <2>1. named' \in [TableNames -> Tables] /\ named'["silver"] = named["silver"]
    BY <1>1, <1>2, TablesAreTables DEF RebuildTypeOK, TableNames
  <2> QED
    BY <1>1, <1>2, <2>1, BesideSilver DEF RebuildInv, RebuildTypeOK, RunPosition, RunHolds
<1>3. CASE named' = [named EXCEPT !["rebuild"] = Absent]
  <2>1. /\ named' \in [TableNames -> Tables] /\ named'["silver"] = named["silver"]
        /\ named'["backup"] = named["backup"] /\ named'["rebuild"] = Absent
    BY <1>1, <1>3, TablesAreTables DEF RebuildTypeOK, TableNames
  <2>2. SilverIsNeverPartial' /\ ReplacementIsFull'
    BY <1>1, <2>1 DEF RebuildInv, SilverIsNeverPartial, ReplacementIsFull, Exists
  <2> QED
    BY <1>1, <2>1, <2>2 DEF RebuildInv, RebuildTypeOK, RunPosition, RunHolds
<1> QED
  BY <1>2, <1>3 DEF NameIsDropped

-----------------------------------------------------------------------------
LEMMA RebuildInvStep == RebuildInv /\ [RebuildNext]_rebuildVars => RebuildInv'
<1> SUFFICES ASSUME RebuildInv, [RebuildNext]_rebuildVars PROVE RebuildInv'
  OBVIOUS
<1>1. CASE UNCHANGED rebuildVars
  BY <1>1, TablesUntouched
     DEF rebuildVars, RebuildInv, RebuildTypeOK, RunPosition, RunHolds, Exists, Has
<1>2. CASE Ensuring
  BY <1>2, RunBeginsKeeps, FindsTableKeeps, FindsNoTableKeeps DEF Ensuring
<1>3. CASE Rebuilding
  BY <1>3, DropLeftoverKeeps, CreateRebuildKeeps, FillDayKeeps, SetAsideKeeps,
     SwapKeeps, SwapFailsKeeps, TakeBackKeeps DEF Rebuilding
<1>4. CASE Running
  BY <1>4, NextDayKeeps, PassDayKeeps, EndKeeps DEF Running
<1> QED
  BY <1>1, <1>2, <1>3, <1>4, DroppedNameKeeps DEF RebuildNext

(* For every number of days and wherever the rebuild stops: a reader of     *)
(* silver.bikeman_action finds every day behind the watermark, or no table  *)
(* and a backup that has these days.                                        *)
THEOREM RebuildIsNeverSeen == RebuildSpec => []SilverIsNeverPartial
<1>1. RebuildInv => SilverIsNeverPartial
  BY DEF RebuildInv
<1> QED
  BY <1>1, RebuildInvInit, RebuildInvStep, PTL DEF RebuildSpec
=============================================================================
