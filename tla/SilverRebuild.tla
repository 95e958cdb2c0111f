----------------------------- MODULE SilverRebuild -----------------------------
(***************************************************************************)
(* How silver_bikeman_action gets rid of a table with the old, hidden       *)
(* partitioning: it fills a table under another name from the first day on  *)
(* and then changes the names in two calls to the catalog.  The process may *)
(* die between any two calls, a call may fail, and the table is read by     *)
(* others all the time.  One run is at work at a time.                      *)
(***************************************************************************)
EXTENDS Integers, FiniteSets

CONSTANT LastEventDay   \* bound: the days Bronze has rows of

ASSUME RebuildConstants == LastEventDay \in Nat \ {0}

VARIABLES
    named,      \* the tables by name
    passed,     \* the watermark of Silver
    rebuild     \* the run: where it is, the end of the rebuild, the day it is at

rebuildVars == <<named, passed, rebuild>>

TableNames == {"silver", "backup", "rebuild"}
Absent == [identity |-> FALSE, days |-> {-1}]
NewTable == [identity |-> TRUE, days |-> {}]
NoRun == [pc |-> "idle", end |-> 0, at |-> 1]

Exists(name) == named[name] # Absent
Rename(from, to) == [named EXCEPT ![to] = named[from], ![from] = Absent]
WithDay(name, day) == [named EXCEPT ![name].days = @ \cup {day}]
Goto(pc) == rebuild' = [rebuild EXCEPT !.pc = pc]

\* A table of the old kind, or the first deployment.
RebuildInit ==
    /\ passed \in 0 .. LastEventDay
    /\ named \in {[n \in TableNames |-> IF n = "silver" THEN table ELSE Absent] :
                     table \in {[identity |-> FALSE, days |-> 1 .. passed]}
                               \cup (IF passed = 0 THEN {Absent} ELSE {})}
    /\ rebuild = NoRun

-----------------------------------------------------------------------------
(* _ensure_silver_table *)

RunBegins ==
    /\ rebuild.pc = "idle"
    /\ rebuild' = [pc |-> "ensure", end |-> passed, at |-> 1]
    /\ UNCHANGED <<named, passed>>

FindsTable ==
    /\ rebuild.pc = "ensure" /\ Exists("silver")
    /\ Goto(IF named["silver"].identity THEN "days"
            ELSE IF Exists("backup") THEN "idle" ELSE "drop")
    /\ UNCHANGED <<named, passed>>

\* Mutant: a table that is missing is a first deployment.
CreateMissing ==
    /\ rebuild.pc = "ensure" /\ ~ Exists("silver")
    /\ named' = [named EXCEPT !["silver"] = NewTable] /\ Goto("days")
    /\ UNCHANGED passed

\* The second rename is still due, or the first has to be taken back.
FindsNoTable ==
    /\ rebuild.pc = "ensure" /\ ~ Exists("silver")
    /\ \/ /\ Exists("backup") /\ Exists("rebuild")
          /\ named' = Rename("rebuild", "silver") /\ Goto("days")
       \/ /\ Exists("backup") /\ ~ Exists("rebuild")
          /\ named' = Rename("backup", "silver") /\ Goto("ensure")
       \/ /\ ~ Exists("backup")
          /\ named' = [named EXCEPT !["silver"] = NewTable] /\ Goto("days")
    /\ UNCHANGED passed

-----------------------------------------------------------------------------
(* _rebuild_identity_table *)

DropLeftover ==
    /\ rebuild.pc = "drop"
    /\ named' = [named EXCEPT !["rebuild"] = Absent] /\ Goto("create")
    /\ UNCHANGED passed

CreateRebuild ==
    /\ rebuild.pc = "create"
    /\ named' = [named EXCEPT !["rebuild"] = NewTable] /\ Goto("fill")
    /\ UNCHANGED passed

FillDay ==
    /\ rebuild.pc = "fill" /\ rebuild.at <= rebuild.end
    /\ named' = WithDay("rebuild", rebuild.at)
    /\ rebuild' = [rebuild EXCEPT !.at = @ + 1]
    /\ UNCHANGED passed

SetAside ==
    /\ rebuild.pc = "fill" /\ rebuild.at > rebuild.end
    /\ named' = Rename("silver", "backup") /\ Goto("swap")
    /\ UNCHANGED passed

Swap ==
    /\ rebuild.pc = "swap"
    /\ named' = Rename("rebuild", "silver") /\ Goto("days")
    /\ UNCHANGED passed

\* The call fails, or its answer is lost: then the name is taken already.
SwapFails ==
    /\ rebuild.pc = "swap"
    /\ named' \in {named, Rename("rebuild", "silver")} /\ Goto("undo")
    /\ UNCHANGED passed

TakeBack ==
    /\ rebuild.pc = "undo"
    /\ named' = IF Exists("silver") THEN named ELSE Rename("backup", "silver")
    /\ Goto("idle")
    /\ UNCHANGED passed

-----------------------------------------------------------------------------
(* The days of the run itself; the detail is in BikemanPipeline.            *)

NextDay ==
    /\ rebuild.pc = "days" /\ passed < LastEventDay
    /\ named' = WithDay("silver", passed + 1) /\ Goto("mark")
    /\ UNCHANGED passed

PassDay ==
    /\ rebuild.pc = "mark"
    /\ passed' = passed + 1 /\ Goto("days")
    /\ UNCHANGED named

RebuildRunEnds ==
    /\ rebuild.pc = "days"
    /\ rebuild' = NoRun
    /\ UNCHANGED <<named, passed>>

\* A killed process, a day that fails its checks, a catalog out of reach.
RebuildRunDies ==
    /\ rebuild.pc # "idle"
    /\ rebuild' = NoRun
    /\ UNCHANGED <<named, passed>>

\* An operator removes the backup of a table that is there again, or the
\* table that was to replace it gets lost.
NameIsDropped ==
    /\ rebuild.pc = "idle"
    /\ \/ Exists("silver") /\ named' = [named EXCEPT !["backup"] = Absent]
       \/ named' = [named EXCEPT !["rebuild"] = Absent]
    /\ UNCHANGED <<passed, rebuild>>

-----------------------------------------------------------------------------
Ensuring == RunBegins \/ FindsTable \/ FindsNoTable
Rebuilding == DropLeftover \/ CreateRebuild \/ FillDay \/ SetAside \/ Swap
              \/ SwapFails \/ TakeBack
Running == NextDay \/ PassDay \/ RebuildRunEnds \/ RebuildRunDies

RebuildNext == Ensuring \/ Rebuilding \/ Running \/ NameIsDropped

RebuildSpec == RebuildInit /\ [][RebuildNext]_rebuildVars

-----------------------------------------------------------------------------
(* Properties *)

(* Whoever reads silver.bikeman_action finds every day its watermark has     *)
(* passed, or no table at all, and then the backup has these days: a table   *)
(* that is being filled is never seen, and no crash, failed rename or rerun  *)
(* leaves an empty table behind a watermark (silver_bikeman_action.py:301).  *)
SilverIsNeverPartial ==
    IF Exists("silver") THEN 1 .. passed \subseteq named["silver"].days
    ELSE passed > 0 => Exists("backup") /\ 1 .. passed \subseteq named["backup"].days
=============================================================================
