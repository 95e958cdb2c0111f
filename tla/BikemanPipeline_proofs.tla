------------------------ MODULE BikemanPipeline_proofs ------------------------
(***************************************************************************)
(* What the lookback of the two bikeman jobs guarantees, for every         *)
(* horizon, set of events, cap and lookback.                               *)
(***************************************************************************)
EXTENDS BikemanPipeline, WellFoundedInduction, TLAPS

USE DEF NoRun, NewRun

(* The types the arguments below need.                                     *)
BronzeTypes ==
    /\ today \in Nat
    /\ received \in [Events -> Nat]
    /\ bronze \subseteq Events
    /\ bronzeWm \in Nat
    /\ bronzeRun \in BronzeRuns

(* The device clock: an event is received on or after its date, at most    *)
(* MaxDelay days later, and never in the future.                           *)
ReceivedInTime ==
    \A e \in Events : received[e] # 0 =>
        e.day <= received[e] /\ received[e] <= e.day + MaxDelay /\ received[e] <= today

(* The watermark is behind today, the Bronze run within its window.        *)
BronzePosition ==
    /\ bronzeWm < today
    /\ bronzeRun.run <= today
    /\ bronzeRun.pc \in {"fetch", "commit"} => bronzeRun.next <= bronzeRun.last
    /\ bronzeRun.pc = "mark" => bronzeRun.next = bronzeRun.last + 1
    /\ bronzeRun.pc \in {"fetch", "commit", "mark"} => bronzeRun.last < bronzeRun.run

(* What the run has passed it has committed: all that was received before  *)
(* the date of the run.                                                    *)
BronzePassed ==
    bronzeRun.pc \in {"fetch", "commit", "mark"} =>
        \A e \in Events :
            /\ received[e] # 0 /\ received[e] < bronzeRun.run
            /\ BronzeWindowStart(bronzeWm) <= e.day /\ e.day < bronzeRun.next
            => e \in bronze

(* The rows at hand lose nothing of the partition they replace.            *)
BronzeRows ==
    bronzeRun.pc = "commit" =>
        \A e \in Events : e.day = bronzeRun.next =>
            /\ received[e] # 0 /\ received[e] < bronzeRun.run => e \in bronzeRun.rows
            /\ e \in bronze => e \in bronzeRun.rows

BronzeIsReceived == \A e \in bronze : received[e] # 0

RowsAreReceived ==
    bronzeRun.pc = "commit" =>
        \A e \in bronzeRun.rows : e.day = bronzeRun.next /\ received[e] # 0

LateIfInTime == MaxDelay <= Lookback => LateEventsReachBronze

BronzeInv ==
    /\ BronzeTypes /\ ReceivedInTime /\ BronzePosition /\ BronzePassed
    /\ BronzeRows /\ BronzeIsReceived /\ RowsAreReceived
    /\ LateIfInTime

LEMMA EventDay == \A e \in Events : e.day \in EventDays /\ e.day \in Nat /\ 1 <= e.day
<1>1. \A e \in Events : e.day \in EventDays
  BY DEF Events
<1>2. \A d \in EventDays : d \in Nat /\ 1 <= d
  BY EventAssumption, HorizonAssumption DEF Dates
<1> QED
  BY <1>1, <1>2

LEMMA WindowStart ==
    ASSUME NEW w \in Nat
    PROVE  /\ BronzeWindowStart(w) \in Nat /\ SilverWindowStart(w) \in Nat
           /\ 1 <= BronzeWindowStart(w)
           /\ \A d \in Nat : 1 <= d /\ w < d + Lookback => BronzeWindowStart(w) <= d
           /\ BronzeWindowStart(w) = SilverWindowStart(w)
BY WindowAssumption DEF BronzeWindowStart, SilverWindowStart, Later

LEMMA BronzeInit == Init => BronzeInv
<1> SUFFICES ASSUME Init
             PROVE  BronzeInv
  OBVIOUS
<1>1. today \in Nat /\ FirstDay = today /\ 1 <= today
  BY HorizonAssumption DEF Init, Dates
<1>2. received \in [Events -> Nat]
  <2>1. {0} \cup EventDays \subseteq Nat
    BY EventAssumption, HorizonAssumption DEF Dates
  <2> QED
    BY <2>1 DEF Init
<1>3. BronzeTypes
  BY <1>1, <1>2 DEF Init, BronzeTypes, BronzeRuns
<1>4. ReceivedInTime
  <2> SUFFICES ASSUME NEW e \in Events, received[e] # 0
               PROVE  e.day <= received[e] /\ received[e] <= e.day + MaxDelay /\ received[e] <= today
    BY DEF ReceivedInTime
  <2>1. received[e] = e.day /\ e.day < FirstDay
    BY DEF Init
  <2> QED
    BY <1>1, <2>1, EventDay, EventAssumption
<1>5. BronzePosition /\ BronzePassed /\ BronzeRows /\ BronzeIsReceived /\ RowsAreReceived
  BY <1>1 DEF Init, BronzePosition, BronzePassed, BronzeRows, BronzeIsReceived, RowsAreReceived
<1>6. LateIfInTime
  BY <1>2 DEF Init, LateIfInTime, LateEventsReachBronze
<1> QED
  BY <1>3, <1>4, <1>5, <1>6 DEF BronzeInv

(* Steps of the other layers leave the Bronze state alone.                 *)
LEMMA BronzeFrame ==
    ASSUME BronzeInv, UNCHANGED <<today, received, bronzeVars>>
    PROVE  BronzeInv'
BY DEF bronzeVars, BronzeInv, BronzeTypes, ReceivedInTime, BronzePosition, BronzePassed,
    BronzeRows, BronzeIsReceived, RowsAreReceived, LateIfInTime, LateEventsReachBronze

(* A run that is not inside its window owes nothing.                       *)
LEMMA IdleKeeps ==
    ASSUME BronzeInv, UNCHANGED <<today, received, bronze, bronzeWm>>,
           NEW r \in Nat, r <= today,
           \/ bronzeRun' = NewRun(r)
           \/ bronzeRun' = NoRun
    PROVE  BronzeInv'
<1>1. bronzeRun'.pc \in {"idle", "read"} /\ bronzeRun'.run \in Nat /\ bronzeRun'.run <= today
  BY DEF BronzeInv, BronzeTypes
<1>2. bronzeRun' \in BronzeRuns
  BY DEF BronzeRuns
<1> QED
  BY <1>1, <1>2 DEF BronzeInv, BronzeTypes, ReceivedInTime, BronzePosition,
     BronzePassed, BronzeRows, BronzeIsReceived, RowsAreReceived, LateIfInTime, LateEventsReachBronze

LEMMA BronzeStep ==
    ASSUME BronzeInv, [Next]_vars
    PROVE  BronzeInv'
<1> USE EventDay, WindowAssumption
<1>1. CASE Midnight
  <2>1. today' = today + 1 /\ UNCHANGED <<received, bronze, bronzeWm, bronzeRun>>
    BY <1>1 DEF Midnight, bronzeVars
  <2>2. BronzeTypes' /\ BronzePosition'
    BY <2>1 DEF BronzeInv, BronzeTypes, BronzePosition, BronzeRuns
  <2>3. ReceivedInTime'
    BY <2>1 DEF BronzeInv, BronzeTypes, ReceivedInTime
  <2>4. BronzePassed' /\ BronzeRows' /\ BronzeIsReceived' /\ RowsAreReceived' /\ LateIfInTime'
    BY <2>1 DEF BronzeInv, BronzePassed, BronzeRows, BronzeIsReceived, RowsAreReceived,
       LateIfInTime, LateEventsReachBronze
  <2> QED
    BY <2>2, <2>3, <2>4 DEF BronzeInv
<1>2. CASE \E e \in Events : Receive(e)
  <2> PICK e \in Events : Receive(e)
    BY <1>2
  <2>1. /\ received' = [received EXCEPT ![e] = today]
        /\ received[e] = 0 /\ e.day <= today /\ today <= e.day + MaxDelay
        /\ UNCHANGED <<today, bronze, bronzeWm, bronzeRun>>
    BY DEF Receive, bronzeVars
  <2>2. \A f \in Events : received'[f] = IF f = e THEN today ELSE received[f]
    BY <2>1 DEF BronzeInv, BronzeTypes
  <2>3. BronzeTypes' /\ ReceivedInTime' /\ BronzePosition'
    BY <2>1, <2>2, EventAssumption DEF BronzeInv, BronzeTypes, ReceivedInTime, BronzePosition
  <2>4. BronzePassed' /\ BronzeRows'
    BY <2>1, <2>2 DEF BronzeInv, BronzeTypes, BronzePosition, BronzePassed, BronzeRows,
       BronzeRuns
  <2>5. BronzeIsReceived' /\ RowsAreReceived'
    BY <2>1, <2>2 DEF BronzeInv, BronzeTypes, BronzeIsReceived, RowsAreReceived, BronzeRuns
  <2>6. LateIfInTime'
    BY <2>1, <2>2 DEF BronzeInv, BronzeTypes, BronzePosition, LateIfInTime, LateEventsReachBronze
  <2> QED
    BY <2>3, <2>4, <2>5, <2>6 DEF BronzeInv
<1>3. CASE BronzeStart
  <2>1. /\ bronzeRun' = NewRun(today)
        /\ UNCHANGED <<today, received, bronze, bronzeWm>>
    BY <1>3 DEF BronzeStart
  <2>2. today \in Nat /\ today <= today
    BY DEF BronzeInv, BronzeTypes
  <2> QED
    BY <2>1, <2>2, IdleKeeps
<1>4. CASE BronzeRead
  <2>1. BronzeWindowStart(bronzeWm) \in Nat /\ 1 <= BronzeWindowStart(bronzeWm)
    BY WindowStart DEF BronzeInv, BronzeTypes
  <2>2. /\ BronzeWindowEnd(bronzeWm, bronzeRun.run) \in Int
        /\ BronzeWindowEnd(bronzeWm, bronzeRun.run) < bronzeRun.run
    BY <2>1 DEF BronzeWindowEnd, Earlier, BronzeInv, BronzeTypes, BronzeRuns
  <2>3. UNCHANGED <<today, received, bronze, bronzeWm>> /\ bronzeRun \in BronzeRuns
    BY <1>4 DEF BronzeRead, BronzeInv, BronzeTypes
  <2>4. \/ /\ bronzeRun'.pc = "publish"
           /\ bronzeRun' \in BronzeRuns /\ bronzeRun'.run = bronzeRun.run
        \/ /\ bronzeRun' \in BronzeRuns /\ bronzeRun'.run = bronzeRun.run
           /\ bronzeRun'.pc = "fetch"
           /\ bronzeRun'.next = BronzeWindowStart(bronzeWm)
           /\ bronzeRun'.next <= bronzeRun'.last /\ bronzeRun'.last < bronzeRun.run
    <3> DEFINE first == BronzeWindowStart(bronzeWm)
               last == BronzeWindowEnd(bronzeWm, bronzeRun.run)
    <3>1. bronzeRun' = IF first > last THEN [bronzeRun EXCEPT !.pc = "publish"]
                       ELSE [bronzeRun EXCEPT !.pc = "fetch", !.next = first, !.last = last]
      BY <1>4 DEF BronzeRead
    <3>2. first \in Nat /\ 1 <= first /\ last \in Int /\ last < bronzeRun.run
      BY <2>1, <2>2
    <3> HIDE DEF first, last
    <3>3. CASE first > last
      BY <2>3, <3>1, <3>3 DEF BronzeRuns
    <3>4. CASE ~(first > last)
      <4>1. last \in Nat /\ first <= last
        BY <3>2, <3>4
      <4>2. bronzeRun' = [bronzeRun EXCEPT !.pc = "fetch", !.next = first, !.last = last]
        BY <3>1, <3>4
      <4>3. /\ bronzeRun' \in BronzeRuns /\ bronzeRun'.run = bronzeRun.run
            /\ bronzeRun'.pc = "fetch" /\ bronzeRun'.next = first /\ bronzeRun'.last = last
        BY <2>3, <3>2, <4>1, <4>2 DEF BronzeRuns
      <4> QED
        BY <3>2, <4>1, <4>3 DEF first, last
    <3> QED
      BY <3>3, <3>4
  <2>5. BronzeTypes' /\ ReceivedInTime' /\ BronzePosition'
    BY <2>3, <2>4 DEF BronzeInv, BronzeTypes, ReceivedInTime, BronzePosition
  <2>6. BronzePassed'
    BY <2>1, <2>3, <2>4 DEF BronzePassed
  <2>7. BronzeRows' /\ BronzeIsReceived' /\ RowsAreReceived' /\ LateIfInTime'
    BY <2>3, <2>4 DEF BronzeInv, BronzeRows, BronzeIsReceived, RowsAreReceived,
       LateIfInTime, LateEventsReachBronze
  <2> QED
    BY <2>5, <2>6, <2>7 DEF BronzeInv
<1>5. CASE BronzeFetch
  <2>1. /\ bronzeRun.pc = "fetch"
        /\ bronzeRun' = [bronzeRun EXCEPT !.pc = "commit",
              !.rows = {e \in Events : e.day = bronzeRun.next /\ received[e] # 0}]
        /\ UNCHANGED <<today, received, bronze, bronzeWm>>
    BY <1>5 DEF BronzeFetch
  <2>2. BronzeTypes' /\ ReceivedInTime' /\ BronzePosition' /\ BronzePassed'
    BY <2>1 DEF BronzeInv, BronzeTypes, ReceivedInTime, BronzePosition, BronzePassed, BronzeRuns
  <2>3. BronzeRows' /\ BronzeIsReceived' /\ RowsAreReceived' /\ LateIfInTime'
    BY <2>1 DEF BronzeInv, BronzeTypes, BronzeRows, BronzeIsReceived, RowsAreReceived,
       LateIfInTime, LateEventsReachBronze, BronzeRuns
  <2> QED
    BY <2>2, <2>3 DEF BronzeInv
<1>6. CASE BronzeCommit
  <2>1. /\ bronzeRun.pc = "commit"
        /\ bronze' = Overwritten(bronze, bronzeRun.next, bronzeRun.rows)
        /\ bronzeRun' = [bronzeRun EXCEPT
              !.pc = IF bronzeRun.next < bronzeRun.last THEN "fetch" ELSE "mark",
              !.next = @ + 1, !.rows = {}]
        /\ UNCHANGED <<today, received, bronzeWm>>
    BY <1>6 DEF BronzeCommit
  <2>2. bronze \subseteq bronze' /\ bronzeRun.rows \subseteq bronze'
    BY <2>1 DEF Overwritten, BronzeInv, BronzeTypes, BronzeRows
  <2>3. \A e \in bronze' : e \in bronze \/ e \in bronzeRun.rows
    BY <2>1 DEF Overwritten
  <2>4. BronzeTypes' /\ ReceivedInTime'
    <3>1. bronze' \subseteq Events
      BY <2>3 DEF BronzeInv, BronzeTypes, BronzeRuns
    <3> DEFINE pc == IF bronzeRun.next < bronzeRun.last THEN "fetch" ELSE "mark"
    <3>8. bronzeRun \in BronzeRuns /\ pc \in {"fetch", "mark"}
      BY DEF BronzeInv, BronzeTypes
    <3>9. bronzeRun' = [bronzeRun EXCEPT !.pc = pc, !.next = @ + 1, !.rows = {}]
      BY <2>1
    <3>2. bronzeRun' \in BronzeRuns
      <4> HIDE DEF pc
      <4>1. bronzeRun' = [pc |-> pc, run |-> bronzeRun.run, next |-> bronzeRun.next + 1,
                          last |-> bronzeRun.last, rows |-> {}]
        BY <3>8, <3>9 DEF BronzeRuns
      <4>2. /\ bronzeRun.run \in Nat /\ bronzeRun.next + 1 \in Nat
            /\ bronzeRun.last \in Nat /\ {} \in SUBSET Events
        BY <3>8 DEF BronzeRuns
      <4> QED
        BY <3>8, <4>1, <4>2 DEF BronzeRuns
    <3> QED
      BY <2>1, <3>1, <3>2 DEF BronzeInv, BronzeTypes, ReceivedInTime
  <2>5. BronzePosition'
    BY <2>1 DEF BronzeInv, BronzeTypes, BronzePosition, BronzeRuns
  <2>6. BronzePassed'
    BY <2>1, <2>2 DEF BronzeInv, BronzeTypes, BronzePassed, BronzeRows, BronzeRuns
  <2>7. BronzeRows' /\ RowsAreReceived'
    BY <2>1 DEF BronzeRows, RowsAreReceived, BronzeInv, BronzeTypes, BronzeRuns
  <2>8. BronzeIsReceived'
    BY <2>1, <2>3 DEF BronzeIsReceived, RowsAreReceived, BronzeInv
  <2>9. LateIfInTime'
    BY <2>1, <2>2 DEF LateIfInTime, LateEventsReachBronze, BronzeInv
  <2> QED
    BY <2>4, <2>5, <2>6, <2>7, <2>8, <2>9 DEF BronzeInv
<1>7. CASE BronzeMark
  <2>1. /\ bronzeRun.pc = "mark"
        /\ bronzeWm' = bronzeRun.last
        /\ bronzeRun' = [bronzeRun EXCEPT !.pc = "publish"]
        /\ UNCHANGED <<today, received, bronze>>
    BY <1>7 DEF BronzeMark
  <2>2. BronzeTypes' /\ ReceivedInTime' /\ BronzePosition'
    BY <2>1 DEF BronzeInv, BronzeTypes, ReceivedInTime, BronzePosition, BronzeRuns
  <2>3. BronzePassed' /\ BronzeRows' /\ BronzeIsReceived' /\ RowsAreReceived'
    BY <2>1 DEF BronzeInv, BronzeTypes, BronzePassed, BronzeRows, BronzeIsReceived, RowsAreReceived,
       BronzeRuns
  <2>4. LateIfInTime'
    <3> SUFFICES ASSUME MaxDelay <= Lookback, NEW e \in Events, received[e] # 0,
                        received[e] <= bronzeRun.last
                 PROVE  e \in bronze
      BY <2>1 DEF LateIfInTime, LateEventsReachBronze
    <3>1. CASE received[e] <= bronzeWm
      BY <3>1 DEF BronzeInv, LateIfInTime, LateEventsReachBronze
    <3>2. CASE bronzeWm < received[e]
      <4>1. /\ received[e] \in Nat /\ bronzeWm \in Nat /\ bronzeRun.last \in Nat
            /\ bronzeRun.run \in Nat /\ bronzeRun.next \in Nat
        BY DEF BronzeInv, BronzeTypes, BronzeRuns
      <4>2. e.day <= received[e] /\ received[e] <= e.day + MaxDelay
        BY DEF BronzeInv, ReceivedInTime
      <4>3. BronzeWindowStart(bronzeWm) <= e.day
        BY <3>2, <4>1, <4>2, WindowStart, EventAssumption
      <4>4. received[e] < bronzeRun.run /\ e.day < bronzeRun.next
        BY <2>1, <4>1, <4>2 DEF BronzeInv, BronzePosition
      <4> QED
        BY <2>1, <4>3, <4>4 DEF BronzeInv, BronzePassed
    <3> QED
      BY <3>1, <3>2 DEF BronzeInv, BronzeTypes
  <2> QED
    BY <2>2, <2>3, <2>4 DEF BronzeInv
<1>8. CASE BronzePublish
  <2>1. bronzeRun' = NoRun /\ UNCHANGED <<today, received, bronze, bronzeWm>>
    BY <1>8 DEF BronzePublish
  <2>2. 0 <= today
    BY DEF BronzeInv, BronzeTypes
  <2> QED
    BY <2>1, <2>2, IdleKeeps
<1>9. CASE BronzeDies
  <2>1. /\ \/ bronzeRun' = NewRun(bronzeRun.run)
           \/ bronzeRun' = NoRun
        /\ UNCHANGED <<today, received, bronze, bronzeWm>>
    BY <1>9 DEF BronzeDies
  <2>2. bronzeRun.run \in Nat /\ bronzeRun.run <= today /\ 0 <= today
    BY DEF BronzeInv, BronzeTypes, BronzeRuns, BronzePosition
  <2> QED
    BY <2>1, <2>2, IdleKeeps
<1>10. CASE SilverNext
  BY <1>10, BronzeFrame DEF SilverNext, SilverStart, SilverRead, SilverScan, SilverCommit,
     SilverMark, SilverDies, bronzeVars
<1>11. CASE BuildLastAction
  BY <1>11, BronzeFrame DEF BuildLastAction
<1>12. CASE UNCHANGED vars
  BY <1>12, BronzeFrame DEF vars
<1> QED
  BY <1>1, <1>2, <1>3, <1>4, <1>5, <1>6, <1>7, <1>8, <1>9, <1>10, <1>11, <1>12
  DEF Next, BronzeNext

(* A late event is not lost as long as workers submit within the lookback: *)
(* once the Bronze watermark has reached the date on which the event was   *)
(* received, Bronze holds it (daily_batch_bikeman_event.py:8-14).          *)
THEOREM LateEventsAreNotLost ==
    ASSUME MaxDelay <= Lookback
    PROVE  Spec => []LateEventsReachBronze
<1>1. Init => BronzeInv
  BY BronzeInit
<1>2. BronzeInv /\ [Next]_vars => BronzeInv'
  BY BronzeStep
<1>3. BronzeInv => LateEventsReachBronze
  BY DEF BronzeInv, LateIfInTime
<1> QED
  BY <1>1, <1>2, <1>3, PTL DEF Spec

-----------------------------------------------------------------------------
(* Silver behind Bronze.  Without a cap, and with runs and asset updates   *)
(* that do not live through midnight, the Silver watermark and the window  *)
(* of a Silver run stay behind the Bronze watermark.                       *)

BronzeWindow ==
    bronzeRun.pc \in {"fetch", "commit", "mark"} =>
        BronzeWindowStart(bronzeWm) <= bronzeRun.next

Prompted ==
    /\ bronzeRun.pc # "idle" => bronzeRun.run = today
    /\ bronzeRun.pc \in {"fetch", "commit", "mark"} => bronzeRun.last = bronzeRun.run - 1
    /\ bronzeRun.pc = "publish" => today - 1 <= bronzeWm
    /\ asset # 0 => asset = today /\ today - 1 <= bronzeWm

SilverTypes ==
    /\ asset \in Nat
    /\ silverWm \in Nat
    /\ silverRun \in SilverRuns

SilverTrails ==
    /\ silverWm <= bronzeWm
    /\ silverRun.pc # "idle" => silverRun.run - 1 <= bronzeWm
    /\ silverRun.pc \in {"scan", "commit", "mark"} =>
          /\ silverRun.last = silverRun.run - 1
          /\ silverRun.next <= silverRun.last
          /\ silverWm <= silverRun.last

(* An event that Bronze has and Silver lacks although the Silver run has   *)
(* passed its date was committed to Bronze after the run read the date.    *)
PassedBySilver(e) ==
    \/ silverRun.pc \in {"scan", "commit"} /\ e.day < silverRun.next
    \/ silverRun.pc = "mark" /\ e.day <= silverRun.next

SilverPassed ==
    \A e \in bronze \ silver :
        PassedBySilver(e) => SilverWindowStart(silverRun.last) <= e.day

SilverRows ==
    silverRun.pc = "commit" =>
        /\ \A e \in silverRun.rows : e.day = silverRun.next
        /\ \A e \in bronze : e.day = silverRun.next /\ e \notin silverRun.rows =>
              SilverWindowStart(silverRun.last) <= e.day

SilverInv ==
    /\ BronzeInv /\ BronzeWindow /\ Prompted /\ SilverTypes /\ SilverTrails
    /\ CorrectionsWithinReach /\ SilverPassed /\ SilverRows

LEMMA StartIsMonotone ==
    ASSUME NEW v \in Nat, NEW w \in Nat, v <= w
    PROVE  SilverWindowStart(v) <= SilverWindowStart(w)
BY WindowAssumption DEF SilverWindowStart, Later

LEMMA SilverInit == Init => SilverInv
<1> SUFFICES ASSUME Init
             PROVE  SilverInv
  OBVIOUS
<1>1. BronzeInv
  BY BronzeInit
<1>2. BronzeWindow /\ Prompted /\ SilverTrails
  BY DEF Init, BronzeWindow, Prompted, SilverTrails
<1>3. SilverTypes
  BY DEF Init, SilverTypes, SilverRuns
<1>4. CorrectionsWithinReach /\ SilverPassed /\ SilverRows
  BY DEF Init, CorrectionsWithinReach, SilverPassed, SilverRows
<1> QED
  BY <1>1, <1>2, <1>3, <1>4 DEF SilverInv

(* Steps that move neither table nor a run or a watermark.                 *)
LEMMA SilverFrame ==
    ASSUME SilverInv, BronzeInv', UNCHANGED <<bronzeVars, asset, silverVars>>,
           today' = today \/ (bronzeRun.pc = "idle" /\ asset = 0)
    PROVE  SilverInv'
<1>1. UNCHANGED <<bronze, bronzeWm, bronzeRun, asset, silver, silverWm, silverRun>>
  BY DEF bronzeVars, silverVars
<1>2. Prompted'
  BY <1>1 DEF Prompted, SilverInv
<1>3. BronzeWindow' /\ SilverTypes' /\ SilverTrails'
  BY <1>1 DEF BronzeWindow, SilverTypes, SilverTrails, SilverInv
<1>4. CorrectionsWithinReach' /\ SilverPassed' /\ SilverRows'
  BY <1>1 DEF CorrectionsWithinReach, SilverPassed, SilverRows, PassedBySilver, SilverInv
<1> QED
  BY <1>2, <1>3, <1>4 DEF SilverInv

(* Steps of the Bronze run outside of its commit.                          *)
LEMMA BronzeRunFrame ==
    ASSUME SilverInv, BronzeInv', BronzeWindow', Prompted', asset' \in Nat,
           bronzeWm <= bronzeWm', UNCHANGED <<bronze, silverVars>>
    PROVE  SilverInv'
<1>1. UNCHANGED <<bronze, silver, silverWm, silverRun>>
  BY DEF silverVars
<1>2. bronzeWm \in Nat /\ bronzeWm' \in Nat
  BY DEF SilverInv, BronzeInv, BronzeTypes
<1>3. SilverTypes' /\ SilverTrails'
  BY <1>1, <1>2 DEF SilverTypes, SilverTrails, SilverRuns, SilverInv
<1>4. CorrectionsWithinReach' /\ SilverPassed' /\ SilverRows'
  BY <1>1 DEF CorrectionsWithinReach, SilverPassed, SilverRows, PassedBySilver, SilverInv
<1> QED
  BY <1>3, <1>4 DEF SilverInv

LEMMA BronzeCommitKeeps ==
    ASSUME SilverInv, BronzeInv', BronzeCommit
    PROVE  SilverInv'
<1>1. /\ bronzeRun.pc = "commit"
      /\ bronze' = Overwritten(bronze, bronzeRun.next, bronzeRun.rows)
      /\ bronzeRun' = [bronzeRun EXCEPT
            !.pc = IF bronzeRun.next < bronzeRun.last THEN "fetch" ELSE "mark",
            !.next = @ + 1, !.rows = {}]
      /\ UNCHANGED <<today, bronzeWm, asset, silver, silverWm, silverRun>>
  BY DEF BronzeCommit, silverVars
<1>2. bronzeRun \in BronzeRuns /\ bronzeWm \in Nat /\ silverWm \in Nat /\ silverRun \in SilverRuns
  BY DEF SilverInv, BronzeInv, BronzeTypes, SilverTypes
<1>3. /\ bronzeRun'.pc \in {"fetch", "mark"} /\ bronzeRun'.run = bronzeRun.run
      /\ bronzeRun'.last = bronzeRun.last /\ bronzeRun'.next = bronzeRun.next + 1
  BY <1>1, <1>2 DEF BronzeRuns
<1>4. BronzeWindow' /\ Prompted'
  <2>1. BronzeWindowStart(bronzeWm) <= bronzeRun.next /\ BronzeWindowStart(bronzeWm) \in Nat
    BY <1>1, <1>2, WindowStart DEF SilverInv, BronzeWindow
  <2>2. BronzeWindow'
    BY <1>1, <1>2, <1>3, <2>1 DEF BronzeWindow, BronzeRuns
  <2>3. Prompted'
    BY <1>1, <1>3 DEF SilverInv, Prompted
  <2> QED
    BY <2>2, <2>3
<1>5. SilverTypes' /\ SilverTrails'
  BY <1>1 DEF SilverInv, SilverTypes, SilverTrails
<1>6. \A e \in bronze' : e \in bronze \/ (e \in bronzeRun.rows /\ e.day = bronzeRun.next)
  BY <1>1 DEF Overwritten, SilverInv, BronzeInv, RowsAreReceived
<1>7. \A v \in Nat : v <= bronzeWm => SilverWindowStart(v) <= bronzeRun.next
  <2> SUFFICES ASSUME NEW v \in Nat, v <= bronzeWm
               PROVE  SilverWindowStart(v) <= bronzeRun.next
    OBVIOUS
  <2>1. SilverWindowStart(v) <= SilverWindowStart(bronzeWm)
    BY <1>2, StartIsMonotone
  <2>2. SilverWindowStart(bronzeWm) <= bronzeRun.next
    BY <1>1, <1>2, WindowStart DEF SilverInv, BronzeWindow
  <2>3. SilverWindowStart(v) \in Nat /\ SilverWindowStart(bronzeWm) \in Nat /\ bronzeRun.next \in Nat
    BY <1>2, WindowStart DEF BronzeRuns
  <2> QED
    BY <2>1, <2>2, <2>3
<1>8. silverRun.pc \in {"scan", "commit", "mark"} =>
          silverRun.last \in Nat /\ silverRun.last <= bronzeWm
  BY <1>2 DEF SilverInv, SilverTrails, SilverRuns
<1>9. CorrectionsWithinReach'
  BY <1>1, <1>2, <1>6, <1>7 DEF CorrectionsWithinReach, SilverInv, SilverTrails
<1>10. SilverPassed'
  BY <1>1, <1>6, <1>7, <1>8 DEF SilverPassed, PassedBySilver, SilverInv
<1>11. SilverRows'
  BY <1>1, <1>6, <1>7, <1>8 DEF SilverRows, SilverInv
<1> QED
  BY <1>4, <1>5, <1>9, <1>10, <1>11 DEF SilverInv

LEMMA SilverReadKeeps ==
    ASSUME SilverInv, BronzeInv', SilverRead
    PROVE  SilverInv'
<1> DEFINE first == SilverWindowStart(silverWm)
           last == silverRun.run - 1
<1>1. /\ silverRun.pc = "read"
      /\ silverRun' = IF silverWm > last \/ first > last THEN NoRun
                      ELSE [silverRun EXCEPT !.pc = "scan", !.next = first, !.last = last]
      /\ UNCHANGED <<today, bronze, bronzeWm, bronzeRun, asset, silver, silverWm>>
  BY DEF SilverRead, bronzeVars
<1>2. silverWm \in Nat /\ silverRun \in SilverRuns /\ bronzeWm \in Nat
  BY DEF SilverInv, SilverTypes, BronzeInv, BronzeTypes
<1>3. first \in Nat /\ last <= bronzeWm
  BY <1>1, <1>2, WindowStart DEF SilverInv, SilverTrails
<1>4. BronzeWindow' /\ Prompted' /\ CorrectionsWithinReach'
  BY <1>1 DEF SilverInv, BronzeWindow, Prompted, CorrectionsWithinReach
<1> HIDE DEF first, last
<1>5. CASE silverRun' = NoRun
  <2>1. SilverTypes' /\ SilverTrails'
    <3>1. NoRun \in SilverRuns /\ NoRun.pc = "idle"
      BY DEF NoRun, SilverRuns
    <3>2. SilverTypes'
      BY <1>1, <1>5, <3>1 DEF SilverInv, SilverTypes
    <3> QED
      BY <1>1, <1>5, <3>1, <3>2 DEF SilverInv, SilverTrails
  <2>2. SilverPassed' /\ SilverRows'
    BY <1>5 DEF SilverPassed, PassedBySilver, SilverRows
  <2> QED
    BY <1>4, <2>1, <2>2 DEF SilverInv
<1>6. CASE /\ silverRun' = [silverRun EXCEPT !.pc = "scan", !.next = first, !.last = last]
           /\ first <= last /\ silverWm <= last
  <2>1. last \in Nat /\ last = silverRun.run - 1
    BY <1>2, <1>3, <1>6 DEF last, SilverRuns
  <2>2. /\ silverRun' \in SilverRuns /\ silverRun'.pc = "scan" /\ silverRun'.next = first
        /\ silverRun'.last = last /\ silverRun'.run = silverRun.run
    BY <1>2, <1>3, <1>6, <2>1 DEF SilverRuns
  <2>3. SilverTypes' /\ SilverTrails'
    <3>1. SilverTypes'
      BY <1>1, <2>2 DEF SilverInv, SilverTypes
    <3>2. silverWm' <= bronzeWm'
      BY <1>1 DEF SilverInv, SilverTrails
    <3>3. silverRun'.run - 1 <= bronzeWm' /\ silverRun'.last = silverRun'.run - 1
      BY <1>1, <1>3, <2>1, <2>2
    <3>4. silverRun'.next <= silverRun'.last /\ silverWm' <= silverRun'.last
      BY <1>1, <1>6, <2>2
    <3> QED
      BY <3>1, <3>2, <3>3, <3>4 DEF SilverTrails
  <2>4. SilverPassed'
    <3>1. \A e \in bronze \ silver : first <= e.day /\ e.day \in Nat
      BY EventDay DEF first, SilverInv, CorrectionsWithinReach, BronzeInv, BronzeTypes
    <3> QED
      BY <1>1, <1>3, <2>2, <3>1 DEF SilverPassed, PassedBySilver
  <2>5. SilverRows'
    BY <2>2 DEF SilverRows
  <2> QED
    BY <1>4, <2>3, <2>4, <2>5 DEF SilverInv
<1> QED
  <2>1. last \in Int
    BY <1>2 DEF last, SilverRuns
  <2> QED
    BY <1>1, <1>2, <1>3, <1>5, <1>6, <2>1

LEMMA SilverScanKeeps ==
    ASSUME SilverInv, BronzeInv', SilverScan
    PROVE  SilverInv'
<1>1. /\ silverRun.pc = "scan"
      /\ silverRun' = [silverRun EXCEPT !.pc = "commit", !.rows = OfDay(bronze, silverRun.next)]
      /\ UNCHANGED <<today, bronze, bronzeWm, bronzeRun, asset, silver, silverWm>>
  BY DEF SilverScan, bronzeVars
<1>2. silverRun \in SilverRuns /\ OfDay(bronze, silverRun.next) \in SUBSET Events
  BY DEF SilverInv, SilverTypes, BronzeInv, BronzeTypes, OfDay
<1>3. /\ silverRun' \in SilverRuns /\ silverRun'.pc = "commit" /\ silverRun'.next = silverRun.next
      /\ silverRun'.last = silverRun.last /\ silverRun'.run = silverRun.run
      /\ silverRun'.rows = OfDay(bronze, silverRun.next)
  BY <1>1, <1>2 DEF SilverRuns
<1>4. BronzeWindow' /\ Prompted' /\ CorrectionsWithinReach'
  BY <1>1 DEF SilverInv, BronzeWindow, Prompted, CorrectionsWithinReach
<1>5. SilverTypes' /\ SilverTrails'
  BY <1>1, <1>3 DEF SilverInv, SilverTypes, SilverTrails
<1>6. SilverPassed'
  BY <1>1, <1>3 DEF SilverInv, SilverPassed, PassedBySilver
<1>7. SilverRows'
  BY <1>1, <1>3 DEF SilverRows, OfDay
<1> QED
  BY <1>4, <1>5, <1>6, <1>7 DEF SilverInv

LEMMA SilverCommitKeeps ==
    ASSUME SilverInv, BronzeInv', SilverCommit
    PROVE  SilverInv'
<1>1. /\ silverRun.pc = "commit"
      /\ silver' = Overwritten(silver, silverRun.next, silverRun.rows)
      /\ silverRun' = [silverRun EXCEPT !.pc = "mark", !.rows = {}]
      /\ UNCHANGED <<today, bronze, bronzeWm, bronzeRun, asset, silverWm>>
  BY DEF SilverCommit, bronzeVars
<1>2. silverRun \in SilverRuns /\ silverWm \in Nat /\ bronzeWm \in Nat
  BY DEF SilverInv, SilverTypes, BronzeInv, BronzeTypes
<1>3. /\ silverRun' \in SilverRuns /\ silverRun'.pc = "mark" /\ silverRun'.next = silverRun.next
      /\ silverRun'.last = silverRun.last /\ silverRun'.run = silverRun.run
  BY <1>1, <1>2 DEF SilverRuns
<1>4. BronzeWindow' /\ Prompted'
  BY <1>1 DEF SilverInv, BronzeWindow, Prompted
<1>5. SilverTypes' /\ SilverTrails'
  BY <1>1, <1>3 DEF SilverInv, SilverTypes, SilverTrails
<1>6. \A e \in bronze : e \notin silver' =>
          \/ e \notin silver /\ e.day # silverRun.next
          \/ e.day = silverRun.next /\ e \notin silverRun.rows
  BY <1>1 DEF Overwritten
<1>7. SilverPassed'
  <2> SUFFICES ASSUME NEW e \in bronze, e \notin silver', e.day <= silverRun.next
               PROVE  SilverWindowStart(silverRun.last) <= e.day
    BY <1>1, <1>3 DEF SilverPassed, PassedBySilver
  <2>1. e.day \in Nat /\ silverRun.next \in Nat
    BY <1>2, EventDay DEF SilverInv, BronzeInv, BronzeTypes, SilverRuns
  <2>2. CASE e.day = silverRun.next
    BY <1>1, <1>6, <2>2 DEF SilverInv, SilverRows
  <2>3. CASE e.day < silverRun.next
    BY <1>1, <1>6, <2>1, <2>3 DEF SilverInv, SilverPassed, PassedBySilver
  <2> QED
    BY <2>1, <2>2, <2>3
<1>8. CorrectionsWithinReach'
  <2> SUFFICES ASSUME NEW e \in bronze, e \notin silver'
               PROVE  SilverWindowStart(silverWm) <= e.day
    BY <1>1 DEF CorrectionsWithinReach
  <2>1. CASE e \notin silver
    BY <2>1 DEF SilverInv, CorrectionsWithinReach
  <2>2. CASE e.day = silverRun.next /\ e \notin silverRun.rows
    <3>1. SilverWindowStart(silverRun.last) <= e.day
      BY <1>1, <2>2 DEF SilverInv, SilverRows
    <3>2. silverWm <= silverRun.last /\ silverRun.last \in Nat
      BY <1>1, <1>2 DEF SilverInv, SilverTrails, SilverRuns
    <3>3. /\ SilverWindowStart(silverWm) <= SilverWindowStart(silverRun.last)
          /\ SilverWindowStart(silverWm) \in Nat /\ SilverWindowStart(silverRun.last) \in Nat
          /\ e.day \in Nat
      BY <1>2, <3>2, StartIsMonotone, WindowStart, EventDay DEF SilverInv, BronzeInv, BronzeTypes
    <3> QED
      BY <3>1, <3>3
  <2> QED
    BY <1>6, <2>1, <2>2
<1>9. SilverRows'
  BY <1>3 DEF SilverRows
<1> QED
  BY <1>4, <1>5, <1>7, <1>8, <1>9 DEF SilverInv

LEMMA SilverMarkKeeps ==
    ASSUME SilverInv, BronzeInv', SilverMark
    PROVE  SilverInv'
<1>1. /\ silverRun.pc = "mark"
      /\ silverWm' = Later(silverWm, silverRun.next)
      /\ silverRun' = IF silverRun.next < silverRun.last
                      THEN [silverRun EXCEPT !.pc = "scan", !.next = @ + 1] ELSE NoRun
      /\ UNCHANGED <<today, bronze, bronzeWm, bronzeRun, asset, silver>>
  BY DEF SilverMark, bronzeVars
<1>2. /\ silverRun \in SilverRuns /\ silverWm \in Nat /\ bronzeWm \in Nat
      /\ silverRun.next \in Nat /\ silverRun.last \in Nat /\ silverRun.run \in Nat
  BY DEF SilverInv, SilverTypes, SilverRuns, BronzeInv, BronzeTypes
<1>3. /\ silverRun.last = silverRun.run - 1 /\ silverRun.next <= silverRun.last
      /\ silverRun.last <= bronzeWm /\ silverWm <= bronzeWm
  BY <1>1, <1>2 DEF SilverInv, SilverTrails
<1>4. silverWm' \in Nat /\ (silverWm' = silverWm \/ silverWm' = silverRun.next)
  BY <1>1, <1>2 DEF Later
<1>5. BronzeWindow' /\ Prompted'
  BY <1>1 DEF SilverInv, BronzeWindow, Prompted
<1>6. CorrectionsWithinReach'
  <2> SUFFICES ASSUME NEW e \in bronze, e \notin silver, silverWm' = silverRun.next
               PROVE  SilverWindowStart(silverRun.next) <= e.day
    BY <1>1, <1>4 DEF CorrectionsWithinReach, SilverInv
  <2>1. /\ e.day \in Nat /\ 1 <= e.day
        /\ SilverWindowStart(silverRun.next) \in Nat /\ SilverWindowStart(silverRun.last) \in Nat
    BY <1>2, EventDay, WindowStart DEF SilverInv, BronzeInv, BronzeTypes
  <2>2. CASE e.day <= silverRun.next
    <3>1. SilverWindowStart(silverRun.last) <= e.day
      BY <1>1, <2>2 DEF SilverInv, SilverPassed, PassedBySilver
    <3>2. SilverWindowStart(silverRun.next) <= SilverWindowStart(silverRun.last)
      BY <1>2, <1>3, StartIsMonotone
    <3> QED
      BY <2>1, <3>1, <3>2
  <2>3. CASE silverRun.next < e.day
    BY <1>2, <2>1, <2>3, WindowAssumption DEF SilverWindowStart, Later
  <2> QED
    BY <1>2, <2>1, <2>2, <2>3
<1>7. CASE silverRun.next < silverRun.last
  <2>1. /\ silverRun' \in SilverRuns /\ silverRun'.pc = "scan"
        /\ silverRun'.next = silverRun.next + 1
        /\ silverRun'.last = silverRun.last /\ silverRun'.run = silverRun.run
    <3>1. silverRun' = [silverRun EXCEPT !.pc = "scan", !.next = @ + 1]
      BY <1>1, <1>7
    <3>2. /\ silverRun = [pc |-> silverRun.pc, run |-> silverRun.run, next |-> silverRun.next,
                          last |-> silverRun.last, rows |-> silverRun.rows]
          /\ silverRun.rows \in SUBSET Events
      BY <1>2 DEF SilverRuns
    <3>3. silverRun' = [pc |-> "scan", run |-> silverRun.run, next |-> silverRun.next + 1,
                        last |-> silverRun.last, rows |-> silverRun.rows]
      BY <3>1, <3>2
    <3>4. silverRun.next + 1 \in Nat
      BY <1>2
    <3> QED
      BY <1>2, <3>2, <3>3, <3>4 DEF SilverRuns
  <2>2. SilverTypes' /\ SilverTrails'
    BY <1>1, <1>2, <1>3, <1>4, <1>7, <2>1 DEF SilverInv, SilverTypes, SilverTrails
  <2>3. SilverPassed'
    <3>1. \A e \in bronze : e.day \in Nat
      BY EventDay DEF SilverInv, BronzeInv, BronzeTypes
    <3> QED
      BY <1>1, <1>2, <2>1, <3>1 DEF SilverInv, SilverPassed, PassedBySilver
  <2>4. SilverRows'
    BY <2>1 DEF SilverRows
  <2> QED
    BY <1>5, <1>6, <2>2, <2>3, <2>4 DEF SilverInv
<1>8. CASE ~(silverRun.next < silverRun.last)
  <2>1. silverRun' = NoRun
    BY <1>1, <1>8
  <2>2. SilverTypes' /\ SilverTrails'
    <3>1. NoRun \in SilverRuns /\ NoRun.pc = "idle"
      BY DEF NoRun, SilverRuns
    <3>2. silverWm' <= bronzeWm'
      BY <1>1, <1>2, <1>3, <1>4
    <3>3. SilverTypes'
      BY <1>1, <1>4, <2>1, <3>1 DEF SilverInv, SilverTypes
    <3> QED
      BY <2>1, <3>1, <3>2, <3>3 DEF SilverTrails
  <2>3. SilverPassed' /\ SilverRows'
    BY <2>1 DEF SilverPassed, PassedBySilver, SilverRows
  <2> QED
    BY <1>5, <1>6, <2>2, <2>3 DEF SilverInv
<1> QED
  BY <1>7, <1>8

LEMMA SilverStep ==
    ASSUME MaxDays = 0, RunLag = 0, SilverInv, [Next]_vars
    PROVE  SilverInv'
<1>1. BronzeInv'
  BY BronzeStep DEF SilverInv
<1>2. /\ today \in Nat /\ bronzeWm \in Nat /\ bronzeRun \in BronzeRuns /\ bronzeWm < today
      /\ bronzeRun.run <= today /\ silverRun \in SilverRuns /\ asset \in Nat
  BY DEF SilverInv, BronzeInv, BronzeTypes, BronzePosition, SilverTypes
<1>3. CASE Midnight
  <2>1. UNCHANGED <<bronzeVars, asset, silverVars>>
    BY <1>3 DEF Midnight
  <2>2. asset = 0
    BY <1>2, <1>3 DEF Midnight, Prompt, SilverInv, Prompted
  <2>3. bronzeRun.pc = "idle"
    BY <1>2, <1>3 DEF Midnight, Prompt, SilverInv, Prompted, BronzeRuns
  <2> QED
    BY <1>1, <2>1, <2>2, <2>3, SilverFrame
<1>4. CASE (\E e \in Events : Receive(e)) \/ BuildLastAction \/ UNCHANGED vars
  <2>1. UNCHANGED <<today, bronzeVars, asset, silverVars>>
    BY <1>4 DEF Receive, BuildLastAction, vars
  <2> QED
    BY <1>1, <2>1, SilverFrame
<1>5. CASE BronzeStart \/ BronzeDies
  <2>1. /\ UNCHANGED <<today, bronze, bronzeWm, asset, silverVars>>
        /\ \/ bronzeRun' = NewRun(today)
           \/ bronzeRun' = NewRun(bronzeRun.run) /\ bronzeRun.pc # "idle"
           \/ bronzeRun' = NoRun
    BY <1>5 DEF BronzeStart, BronzeDies
  <2>2. BronzeWindow' /\ Prompted'
    BY <2>1 DEF BronzeWindow, Prompted, SilverInv
  <2> QED
    BY <1>1, <1>2, <2>1, <2>2, BronzeRunFrame
<1>6. CASE BronzeRead
  <2> DEFINE first == BronzeWindowStart(bronzeWm)
             last == BronzeWindowEnd(bronzeWm, bronzeRun.run)
  <2>1. /\ bronzeRun.pc = "read"
        /\ bronzeRun' = IF first > last THEN [bronzeRun EXCEPT !.pc = "publish"]
                        ELSE [bronzeRun EXCEPT !.pc = "fetch", !.next = first, !.last = last]
        /\ UNCHANGED <<today, bronze, bronzeWm, asset, silverVars>>
    BY <1>6 DEF BronzeRead
  <2>2. /\ bronzeRun.run = today /\ last = today - 1
        /\ first \in Nat /\ (first <= bronzeWm \/ first = 1)
    <3>1. bronzeRun.run = today
      BY <2>1 DEF SilverInv, Prompted
    <3>2. last = today - 1
      BY <3>1 DEF BronzeWindowEnd
    <3>3. first \in Nat /\ (first <= bronzeWm \/ first = 1)
      BY <1>2, WindowAssumption DEF BronzeWindowStart, Later
    <3> QED
      BY <3>1, <3>2, <3>3
  <2> HIDE DEF first
  <2>3. CASE first > last
    <3>1. bronzeRun'.pc = "publish" /\ bronzeRun'.run = bronzeRun.run
      BY <1>2, <2>1, <2>3 DEF BronzeRuns
    <3>2. today - 1 <= bronzeWm
      BY <1>2, <2>2, <2>3
    <3>3. BronzeWindow' /\ Prompted'
      BY <2>1, <2>2, <3>1, <3>2 DEF BronzeWindow, Prompted, SilverInv
    <3> QED
      BY <1>1, <1>2, <2>1, <3>3, BronzeRunFrame
  <2>4. CASE ~(first > last)
    <3> HIDE DEF last
    <3>1. /\ bronzeRun'.pc = "fetch" /\ bronzeRun'.run = bronzeRun.run
          /\ bronzeRun'.next = first /\ bronzeRun'.last = last
      BY <1>2, <2>1, <2>4 DEF BronzeRuns
    <3>2. BronzeWindow'
      BY <2>1, <2>2, <3>1 DEF BronzeWindow, first
    <3>3. Prompted'
      BY <2>1, <2>2, <3>1 DEF Prompted, SilverInv
    <3> QED
      BY <1>1, <1>2, <2>1, <3>2, <3>3, BronzeRunFrame
  <2> QED
    BY <2>3, <2>4
<1>7. CASE BronzeFetch
  <2>1. /\ bronzeRun.pc = "fetch" /\ bronzeRun'.pc = "commit"
        /\ bronzeRun'.run = bronzeRun.run /\ bronzeRun'.next = bronzeRun.next
        /\ bronzeRun'.last = bronzeRun.last
        /\ UNCHANGED <<today, bronze, bronzeWm, asset, silverVars>>
    BY <1>2, <1>7 DEF BronzeFetch, BronzeRuns
  <2>2. BronzeWindow' /\ Prompted'
    BY <2>1 DEF BronzeWindow, Prompted, SilverInv
  <2> QED
    BY <1>1, <1>2, <2>1, <2>2, BronzeRunFrame
<1>8. CASE BronzeCommit
  BY <1>1, <1>8, BronzeCommitKeeps
<1>9. CASE BronzeMark
  <2>1. /\ bronzeRun.pc = "mark" /\ bronzeWm' = bronzeRun.last
        /\ bronzeRun'.pc = "publish" /\ bronzeRun'.run = bronzeRun.run
        /\ UNCHANGED <<today, bronze, asset, silverVars>>
    BY <1>2, <1>9 DEF BronzeMark, BronzeRuns
  <2>2. bronzeRun.run = today /\ bronzeRun.last = today - 1
    BY <2>1 DEF SilverInv, Prompted
  <2>3. bronzeWm <= bronzeWm'
    BY <1>2, <2>1, <2>2
  <2>4. BronzeWindow' /\ Prompted'
    BY <1>2, <2>1, <2>2 DEF BronzeWindow, Prompted, SilverInv
  <2> QED
    BY <1>1, <1>2, <2>1, <2>3, <2>4, BronzeRunFrame
<1>10. CASE BronzePublish
  <2>1. /\ bronzeRun.pc = "publish" /\ bronzeRun' = NoRun /\ asset' = today
        /\ UNCHANGED <<today, bronze, bronzeWm, silverVars>>
    BY <1>10 DEF BronzePublish
  <2>2. BronzeWindow' /\ Prompted'
    BY <2>1 DEF BronzeWindow, Prompted, SilverInv
  <2> QED
    BY <1>1, <1>2, <2>1, <2>2, BronzeRunFrame
<1>11. CASE SilverStart \/ SilverDies
  <2>1. /\ UNCHANGED <<today, bronze, bronzeWm, bronzeRun, silver, silverWm>>
        /\ \/ silverRun' = NewRun(today) /\ asset # 0 /\ asset' = 0
           \/ /\ silverRun.pc # "idle" /\ asset' = asset
              /\ silverRun' = NewRun(silverRun.run) \/ silverRun' = NoRun
    BY <1>11 DEF SilverStart, SilverDies, bronzeVars
  <2>2. silverRun'.pc \in {"idle", "read"} /\ asset' \in {0, asset}
    BY <2>1
  <2>3. BronzeWindow' /\ Prompted'
    BY <2>1, <2>2 DEF BronzeWindow, Prompted, SilverInv
  <2>4. silverRun' \in SilverRuns
    BY <1>2, <2>1 DEF SilverRuns
  <2>5. silverRun'.pc # "idle" => silverRun'.run - 1 <= bronzeWm
    BY <2>1 DEF SilverInv, SilverTrails, Prompted
  <2>6. SilverTypes' /\ SilverTrails'
    BY <1>2, <2>1, <2>2, <2>4, <2>5 DEF SilverTypes, SilverTrails, SilverInv
  <2>7. CorrectionsWithinReach' /\ SilverPassed' /\ SilverRows'
    BY <2>1, <2>2 DEF CorrectionsWithinReach, SilverPassed, PassedBySilver, SilverRows, SilverInv
  <2> QED
    BY <1>1, <2>3, <2>6, <2>7 DEF SilverInv
<1>12. CASE SilverRead
  BY <1>1, <1>12, SilverReadKeeps
<1>13. CASE SilverScan
  BY <1>1, <1>13, SilverScanKeeps
<1>14. CASE SilverCommit
  BY <1>1, <1>14, SilverCommitKeeps
<1>15. CASE SilverMark
  BY <1>1, <1>15, SilverMarkKeeps
<1> QED
  BY <1>3, <1>4, <1>5, <1>6, <1>7, <1>8, <1>9, <1>10, <1>11, <1>12, <1>13, <1>14, <1>15
  DEF Next, BronzeNext, SilverNext

(* Without a cap, and with runs that end on their day, what Bronze has and *)
(* Silver lacks is within the window of the next Silver run, however late  *)
(* events arrive and whichever runs die                                    *)
(* (silver_bikeman_action.py:366-372).                                     *)
THEOREM CorrectionsStayWithinReach ==
    ASSUME MaxDays = 0, RunLag = 0
    PROVE  Spec => []CorrectionsWithinReach
<1>1. Init => SilverInv
  BY SilverInit
<1>2. SilverInv /\ [Next]_vars => SilverInv'
  BY SilverStep
<1>3. SilverInv => CorrectionsWithinReach
  BY DEF SilverInv
<1> QED
  BY <1>1, <1>2, <1>3, PTL DEF Spec

-----------------------------------------------------------------------------
(* Types *)

(* The largest element of a set of numbers that has a bound.                *)
LEMMA MaxOfBounded ==
    ASSUME NEW n \in Nat, NEW S \in SUBSET (0 .. n), S # {}
    PROVE  Max(S) \in S /\ \A x \in S : x <= Max(S)
<1>1. \A x \in S : n - x \in Nat
  OBVIOUS
<1> DEFINE T == {n - x : x \in S}
<1>2. T \subseteq Nat /\ T # {}
  BY <1>1
<1>3. PICK t \in T : \A u \in T : ~ (<<u, t>> \in OpToRel(<, Nat))
  <2> HIDE DEF T
  <2> QED
    BY <1>2, NatLessThanWellFounded, WFMin
<1>4. \A u \in T : ~ (u < t)
  <2> HIDE DEF T
  <2> QED
    BY <1>2, <1>3 DEF OpToRel
<1>5. PICK m \in S : t = n - m
  BY <1>3
<1>6. ASSUME NEW y \in S PROVE m >= y
  <2>1. ~ (n - y < n - m)
    BY <1>4, <1>5
  <2> QED
    BY <2>1
<1>7. Max(S) \in S /\ \A y \in S : Max(S) >= y
  BY <1>6 DEF Max
<1> HIDE DEF T
<1> QED
  BY <1>7

(* The newest event of a bike among some rows, if there is one.             *)
LEMMA NewestFacts ==
    ASSUME NEW rows \in SUBSET Events, NEW b \in Bikes
    PROVE  /\ Newest(rows, b) \in [bike : Bikes, day : Nat]
           /\ \A e \in rows : e.bike = b => e.day <= Newest(rows, b).day
<1> DEFINE days == {e.day : e \in {r \in rows : r.bike = b}}
<1>1. days \in SUBSET (0 .. LastDay)
  <2>1. \A d \in EventDays : d \in 0 .. LastDay
    BY EventAssumption, HorizonAssumption DEF Dates
  <2>2. \A e \in rows : e.day \in EventDays
    BY DEF Events
  <2> QED
    BY <2>1, <2>2
<1>2. CASE days = {}
  <2>1. \A e \in rows : e.bike # b
    BY <1>2
  <2> QED
    BY <1>2, <2>1 DEF Newest, NoEvent
<1>3. CASE days # {}
  <2>1. Max(days) \in days /\ \A d \in days : d <= Max(days)
    <3> HIDE DEF days
    <3> QED
      BY <1>1, <1>3, MaxOfBounded, HorizonAssumption
  <2>2. Newest(rows, b) = [bike |-> b, day |-> Max(days)]
    BY <1>3 DEF Newest
  <2>3. Max(days) \in Nat
    BY <1>1, <2>1, HorizonAssumption
  <2>4. \A e \in rows : e.bike = b => e.day \in days
    OBVIOUS
  <2> HIDE DEF days
  <2> QED
    BY <2>1, <2>2, <2>3, <2>4
<1> QED
  BY <1>2, <1>3

GoldTypes ==
    /\ silver \subseteq Events
    /\ lastAction \in [Bikes -> [bike : Bikes, day : Nat]]
    /\ snapshot \in Nat

LEMMA SilverTypeStep ==
    ASSUME BronzeInv, SilverTypes, GoldTypes, SilverNext
    PROVE  SilverTypes' /\ silver' \subseteq Events
<1>0. /\ silverRun \in SilverRuns /\ today \in Nat /\ silverWm \in Nat /\ asset \in Nat
      /\ bronze \subseteq Events /\ silver \subseteq Events
      /\ silverRun.run \in Nat /\ silverRun.next \in Nat /\ silverRun.rows \in SUBSET Events
  BY DEF BronzeInv, BronzeTypes, SilverTypes, SilverRuns, GoldTypes
<1>1. CASE SilverStart \/ SilverDies
  BY <1>0, <1>1 DEF SilverStart, SilverDies, SilverTypes, SilverRuns
<1>2. CASE SilverRead
  <2> DEFINE first == SilverWindowStart(silverWm)
             last == silverRun.run - 1
  <2>1. first \in Nat /\ last \in Int
    BY <1>0, WindowStart
  <2>2. \/ silverRun' = NoRun
        \/ /\ first <= last
           /\ silverRun' = [silverRun EXCEPT !.pc = "scan", !.next = first, !.last = last]
    BY <1>0, <1>2, <2>1 DEF SilverRead
  <2> HIDE DEF first, last
  <2>3. NoRun \in SilverRuns
    BY DEF SilverRuns
  <2>4. ASSUME first <= last
        PROVE  [silverRun EXCEPT !.pc = "scan", !.next = first, !.last = last] \in SilverRuns
    <3>1. last \in Nat
      BY <2>1, <2>4
    <3> QED
      BY <1>0, <2>1, <3>1 DEF SilverRuns
  <2>5. silverRun' \in SilverRuns
    BY <2>2, <2>3, <2>4
  <2> QED
    BY <1>0, <1>2, <2>5 DEF SilverRead, SilverTypes
<1>3. CASE SilverScan
  <2>1. OfDay(bronze, silverRun.next) \in SUBSET Events
    BY <1>0 DEF OfDay
  <2> QED
    BY <1>0, <1>3, <2>1 DEF SilverScan, SilverTypes, SilverRuns
<1>4. CASE SilverCommit
  BY <1>0, <1>4 DEF SilverCommit, Overwritten, SilverTypes, SilverRuns
<1>5. CASE SilverMark
  <2>1. silverRun.next + 1 \in Nat /\ silverWm' \in Nat
    BY <1>0, <1>5 DEF SilverMark, Later
  <2>2. silverRun' \in SilverRuns
    BY <1>0, <1>5, <2>1 DEF SilverMark, SilverRuns
  <2> QED
    BY <1>0, <1>5, <2>1, <2>2 DEF SilverMark, SilverTypes
<1> QED
  BY <1>1, <1>2, <1>3, <1>4, <1>5 DEF SilverNext

LEMMA GoldTypeStep ==
    ASSUME GoldTypes, BuildLastAction
    PROVE  lastAction' \in [Bikes -> [bike : Bikes, day : Nat]] /\ snapshot' \in Nat
<1>1. PICK s \in Dates :
        /\ snapshot' = s
        /\ lastAction' = [b \in Bikes |->
              LET delta == Newest(Delta(s), b)
              IN  IF delta.day > lastAction[b].day THEN delta ELSE lastAction[b]]
  BY DEF BuildLastAction
<1>2. Delta(s) \in SUBSET Events
  BY DEF Delta, GoldTypes
<1>3. \A b \in Bikes : Newest(Delta(s), b) \in [bike : Bikes, day : Nat]
  BY <1>2, NewestFacts
<1> QED
  BY <1>1, <1>3, HorizonAssumption DEF GoldTypes, Dates

LEMMA TypeStep ==
    ASSUME BronzeInv, SilverTypes, GoldTypes, [Next]_vars
    PROVE  SilverTypes' /\ GoldTypes'
<1>0. BronzeInv' /\ today \in Nat
  BY BronzeStep DEF BronzeInv, BronzeTypes
<1>1. CASE SilverNext
  <2>1. UNCHANGED <<lastAction, snapshot>>
    BY <1>1 DEF SilverNext, SilverStart, SilverRead, SilverScan, SilverCommit,
       SilverMark, SilverDies, goldVars
  <2> QED
    BY <1>1, <2>1, SilverTypeStep DEF GoldTypes
<1>2. CASE BuildLastAction
  BY <1>2, GoldTypeStep DEF BuildLastAction, silverVars, SilverTypes, GoldTypes
<1>3. CASE BronzeNext
  <2>1. asset' = asset \/ asset' = today
    BY <1>3 DEF BronzeNext, BronzeStart, BronzeRead, BronzeFetch, BronzeCommit,
       BronzeMark, BronzePublish, BronzeDies
  <2>2. UNCHANGED <<silver, silverWm, silverRun, lastAction, snapshot>>
    BY <1>3 DEF BronzeNext, BronzeStart, BronzeRead, BronzeFetch, BronzeCommit,
       BronzeMark, BronzePublish, BronzeDies, silverVars, goldVars
  <2> QED
    BY <1>0, <2>1, <2>2 DEF SilverTypes, GoldTypes
<1>4. CASE Midnight \/ (\E e \in Events : Receive(e)) \/ UNCHANGED vars
  BY <1>4 DEF Midnight, Receive, vars, silverVars, goldVars, SilverTypes, GoldTypes
<1> QED
  BY <1>1, <1>2, <1>3, <1>4 DEF Next

(* Every variable stays in its domain, for every lookback, cap and delay:   *)
(* no window starts before the service or ends before it starts.            *)
THEOREM TypeCorrect == Spec => []TypeOK
<1> DEFINE Types == BronzeInv /\ SilverTypes /\ GoldTypes
<1>1. Init => Types
  <2> SUFFICES ASSUME Init PROVE Types
    OBVIOUS
  <2>1. SilverTypes
    BY DEF Init, SilverTypes, SilverRuns
  <2>2. GoldTypes
    BY DEF Init, GoldTypes, NoEvent
  <2> QED
    BY <2>1, <2>2, BronzeInit
<1>2. Types /\ [Next]_vars => Types'
  BY BronzeStep, TypeStep
<1>3. Types => TypeOK
  BY DEF BronzeInv, BronzeTypes, SilverTypes, GoldTypes, TypeOK
<1> QED
  BY <1>1, <1>2, <1>3, PTL DEF Spec

-----------------------------------------------------------------------------
(* From punctual workers to the baseline.  A punctual event is in every    *)
(* layer whose watermark has passed its day, so the delta of a Gold run    *)
(* cannot miss it, whichever snapshots were skipped or repeated.           *)

Punctual(e) == received[e] = e.day

PunctualInBronze == \A e \in Events : Punctual(e) /\ e.day <= bronzeWm => e \in bronze

PunctualInSilver == \A e \in Events : Punctual(e) /\ e.day <= silverWm => e \in silver

(* The Silver run skips no date, and has the punctual events of the one it *)
(* works on.                                                               *)
SilverRunHolds ==
    /\ silverRun.pc \in {"scan", "commit", "mark"} => silverRun.next <= silverWm + 1
    /\ silverRun.pc = "commit" =>
          \A e \in Events : Punctual(e) /\ e.day = silverRun.next => e \in silverRun.rows
    /\ silverRun.pc = "mark" =>
          \A e \in Events : Punctual(e) /\ e.day = silverRun.next => e \in silver

SnapshotPosition == snapshot <= today /\ snapshot <= silverWm + 1

PunctualInv ==
    /\ PunctualInBronze /\ PunctualInSilver /\ SilverRunHolds
    /\ SnapshotPosition /\ PunctualEventsReachBaseline

LEMMA PunctualInit == Init => PunctualInv
<1> SUFFICES ASSUME Init PROVE PunctualInv
  OBVIOUS
<1>1. \A e \in Events : ~ (e.day <= 0)
  BY EventDay
<1>2. today \in Nat
  BY HorizonAssumption DEF Init, Dates
<1> QED
  BY <1>1, <1>2 DEF Init, PunctualInv, PunctualInBronze, PunctualInSilver, SilverRunHolds,
     SnapshotPosition, PunctualEventsReachBaseline

(* The facts about numbers and types that every step needs.                *)
LEMMA PunctualFacts ==
    ASSUME SilverInv, GoldTypes
    PROVE  /\ today \in Nat /\ bronzeWm \in Nat /\ silverWm \in Nat /\ snapshot \in Nat
           /\ silverWm <= bronzeWm /\ bronzeWm < today
           /\ received \in [Events -> Nat] /\ bronze \subseteq Events /\ silver \subseteq Events
           /\ bronzeRun \in BronzeRuns /\ silverRun \in SilverRuns
           /\ silverRun.next \in Nat /\ silverRun.last \in Nat
           /\ silverRun.pc \in {"scan", "commit", "mark"} =>
                 silverRun.next <= silverRun.last /\ silverRun.last <= bronzeWm
<1>1. /\ today \in Nat /\ bronzeWm \in Nat /\ silverWm \in Nat /\ snapshot \in Nat
      /\ silverWm <= bronzeWm /\ bronzeWm < today
      /\ received \in [Events -> Nat] /\ bronze \subseteq Events /\ silver \subseteq Events
      /\ bronzeRun \in BronzeRuns /\ silverRun \in SilverRuns
  BY DEF SilverInv, BronzeInv, BronzeTypes, BronzePosition, SilverTypes, SilverTrails, GoldTypes
<1>2. silverRun.next \in Nat /\ silverRun.last \in Nat /\ silverRun.run \in Nat
  BY <1>1 DEF SilverRuns
<1>3. silverRun.pc \in {"scan", "commit", "mark"} =>
         silverRun.next <= silverRun.last /\ silverRun.last <= bronzeWm
  BY <1>1, <1>2 DEF SilverInv, SilverTrails
<1> QED
  BY <1>1, <1>2, <1>3

LEMMA PunctualReceive ==
    ASSUME SilverInv, GoldTypes, PunctualInv, NEW e \in Events, Receive(e)
    PROVE  PunctualInv'
<1>1. /\ received' = [received EXCEPT ![e] = today]
      /\ UNCHANGED <<today, bronze, bronzeWm, silver, silverWm, silverRun, lastAction, snapshot>>
  BY DEF Receive, bronzeVars, silverVars, goldVars
<1>2. \A f \in Events : Punctual(f)' => Punctual(f) \/ f.day = today
  BY <1>1, PunctualFacts DEF Punctual
<1>3. \A f \in Events : f.day \in Nat
  BY EventDay
<1>4. PunctualInBronze' /\ PunctualInSilver'
  BY <1>1, <1>2, <1>3, PunctualFacts DEF PunctualInv, PunctualInBronze, PunctualInSilver
<1>5. SilverRunHolds' /\ SnapshotPosition'
  BY <1>1, <1>2, <1>3, PunctualFacts DEF PunctualInv, SilverRunHolds, SnapshotPosition
<1>6. PunctualEventsReachBaseline'
  <2> SUFFICES ASSUME NEW f \in silver, f.day < snapshot, Punctual(f)'
               PROVE  f.day <= lastAction[f.bike].day
    BY <1>1 DEF PunctualEventsReachBaseline, Punctual
  <2>1. f \in Events /\ snapshot <= today
    BY PunctualFacts DEF PunctualInv, SnapshotPosition
  <2>2. Punctual(f)
    BY <1>2, <1>3, <2>1, PunctualFacts
  <2> QED
    BY <2>2 DEF PunctualInv, PunctualEventsReachBaseline, Punctual
<1> QED
  BY <1>4, <1>5, <1>6 DEF PunctualInv

LEMMA PunctualBronze ==
    ASSUME SilverInv, GoldTypes, PunctualInv, BronzeNext
    PROVE  PunctualInv'
<1>1. UNCHANGED <<today, received, silver, silverWm, silverRun, lastAction, snapshot>>
  BY DEF BronzeNext, BronzeStart, BronzeRead, BronzeFetch, BronzeCommit, BronzeMark,
     BronzePublish, BronzeDies, silverVars, goldVars
<1>2. PunctualInSilver' /\ SilverRunHolds' /\ SnapshotPosition' /\ PunctualEventsReachBaseline'
  BY <1>1 DEF PunctualInv, PunctualInSilver, SilverRunHolds, SnapshotPosition,
     PunctualEventsReachBaseline, Punctual
<1>3. CASE BronzeCommit
  <2>1. bronze \subseteq bronze' /\ bronzeWm' = bronzeWm
    BY <1>3 DEF BronzeCommit, Overwritten, SilverInv, BronzeInv, BronzeTypes, BronzeRows
  <2> QED
    BY <1>1, <1>2, <2>1 DEF PunctualInv, PunctualInBronze, Punctual
<1>4. CASE BronzeMark
  <2>1. bronzeRun.pc = "mark" /\ bronzeWm' = bronzeRun.last /\ bronze' = bronze
    BY <1>4 DEF BronzeMark
  <2>2. /\ bronzeRun.next = bronzeRun.last + 1 /\ bronzeRun.last < bronzeRun.run
        /\ bronzeRun.last \in Nat /\ bronzeRun.next \in Nat /\ bronzeRun.run \in Nat
    BY <2>1, PunctualFacts DEF SilverInv, BronzeInv, BronzePosition, BronzeRuns
  <2>3. ASSUME NEW e \in Events, Punctual(e), e.day <= bronzeRun.last
        PROVE  e \in bronze
    <3>1. e.day \in Nat /\ 1 <= e.day /\ received[e] # 0 /\ received[e] < bronzeRun.run
      BY <2>2, <2>3, EventDay DEF Punctual
    <3>2. CASE e.day <= bronzeWm
      BY <2>3, <3>2 DEF PunctualInv, PunctualInBronze
    <3>3. CASE bronzeWm < e.day
      <4>1. BronzeWindowStart(bronzeWm) <= e.day
        BY <3>1, <3>3, PunctualFacts, WindowStart, WindowAssumption
      <4>2. e.day < bronzeRun.next
        BY <2>2, <2>3, <3>1
      <4> QED
        BY <2>1, <3>1, <4>1, <4>2 DEF SilverInv, BronzeInv, BronzePassed
    <3> QED
      BY <3>1, <3>2, <3>3, PunctualFacts
  <2> QED
    BY <1>1, <1>2, <2>1, <2>3 DEF PunctualInv, PunctualInBronze, Punctual
<1>5. CASE ~BronzeCommit /\ ~BronzeMark
  <2>1. UNCHANGED <<bronze, bronzeWm>>
    BY <1>5 DEF BronzeNext, BronzeStart, BronzeRead, BronzeFetch, BronzePublish, BronzeDies
  <2> QED
    BY <1>1, <1>2, <2>1 DEF PunctualInv, PunctualInBronze, Punctual
<1> QED
  BY <1>3, <1>4, <1>5

LEMMA PunctualSilver ==
    ASSUME SilverInv, GoldTypes, PunctualInv, SilverNext
    PROVE  PunctualInv'
<1> USE PunctualFacts
<1>1. UNCHANGED <<today, received, bronze, bronzeWm, lastAction, snapshot>>
  BY DEF SilverNext, SilverStart, SilverRead, SilverScan, SilverCommit, SilverMark,
     SilverDies, bronzeVars, goldVars
<1>2. PunctualInBronze'
  BY <1>1 DEF PunctualInv, PunctualInBronze, Punctual
<1>3. ASSUME UNCHANGED <<silver, silverWm>>
      PROVE  PunctualInSilver' /\ SnapshotPosition' /\ PunctualEventsReachBaseline'
  BY <1>1, <1>3 DEF PunctualInv, PunctualInSilver, SnapshotPosition,
     PunctualEventsReachBaseline, Punctual
<1>4. CASE SilverStart \/ SilverDies
  <2>1. UNCHANGED <<silver, silverWm>> /\ silverRun'.pc \in {"idle", "read"}
    BY <1>4 DEF SilverStart, SilverDies
  <2>2. SilverRunHolds'
    BY <2>1 DEF SilverRunHolds
  <2> QED
    BY <1>2, <1>3, <2>1, <2>2 DEF PunctualInv
<1>5. CASE SilverRead
  <2>1. UNCHANGED <<silver, silverWm>>
    BY <1>5 DEF SilverRead
  <2>2. SilverWindowStart(silverWm) <= silverWm + 1
    BY WindowAssumption DEF SilverWindowStart, Later
  <2>3. \/ silverRun'.pc = "idle"
        \/ silverRun'.pc = "scan" /\ silverRun'.next = SilverWindowStart(silverWm)
    <3> DEFINE first == SilverWindowStart(silverWm)
               last == silverRun.run - 1
    <3>1. \/ silverRun' = NoRun
          \/ silverRun' = [silverRun EXCEPT !.pc = "scan", !.next = first, !.last = last]
      BY <1>5 DEF SilverRead
    <3> HIDE DEF first, last
    <3>2. silverRun = [pc |-> silverRun.pc, run |-> silverRun.run, next |-> silverRun.next,
                       last |-> silverRun.last, rows |-> silverRun.rows]
      BY DEF SilverRuns
    <3>3. \/ silverRun' = NoRun
          \/ silverRun' = [pc |-> "scan", run |-> silverRun.run, next |-> first,
                           last |-> last, rows |-> silverRun.rows]
      BY <3>1, <3>2
    <3> QED
      BY <3>3 DEF first
  <2>4. SilverRunHolds'
    BY <2>1, <2>2, <2>3 DEF SilverRunHolds
  <2> QED
    BY <1>2, <1>3, <2>1, <2>4 DEF PunctualInv
<1>6. CASE SilverScan
  <2>1. /\ UNCHANGED <<silver, silverWm>> /\ silverRun.pc = "scan" /\ silverRun'.pc = "commit"
        /\ silverRun'.next = silverRun.next /\ silverRun'.rows = OfDay(bronze, silverRun.next)
    BY <1>6 DEF SilverScan, SilverRuns
  <2>2. ASSUME NEW e \in Events, Punctual(e), e.day = silverRun.next
        PROVE  e \in OfDay(bronze, silverRun.next)
    <3>1. e.day <= bronzeWm
      BY <2>1, <2>2
    <3> QED
      BY <2>2, <3>1 DEF PunctualInv, PunctualInBronze, OfDay
  <2>3. SilverRunHolds'
    BY <1>1, <2>1, <2>2 DEF PunctualInv, SilverRunHolds, Punctual
  <2> QED
    BY <1>2, <1>3, <2>1, <2>3 DEF PunctualInv
<1>7. CASE SilverCommit
  <2>1. /\ silverRun.pc = "commit" /\ silverWm' = silverWm
        /\ silver' = Overwritten(silver, silverRun.next, silverRun.rows)
        /\ silverRun'.pc = "mark" /\ silverRun'.next = silverRun.next
    BY <1>7 DEF SilverCommit, SilverRuns
  <2>2. ASSUME NEW e \in Events, Punctual(e), e.day = silverRun.next
        PROVE  e \in silver'
    <3>1. e \in silverRun.rows
      BY <2>1, <2>2 DEF PunctualInv, SilverRunHolds
    <3> QED
      BY <2>1, <3>1 DEF Overwritten
  <2>3. PunctualInSilver'
    <3> SUFFICES ASSUME NEW e \in Events, Punctual(e), e.day <= silverWm
                 PROVE  e \in silver'
      BY <1>1, <2>1 DEF PunctualInSilver, Punctual
    <3>1. e \in silver
      BY DEF PunctualInv, PunctualInSilver
    <3> QED
      BY <2>1, <2>2, <3>1 DEF Overwritten
  <2>4. SilverRunHolds'
    BY <1>1, <2>1, <2>2 DEF PunctualInv, SilverRunHolds, Punctual
  <2>5. SnapshotPosition'
    BY <1>1, <2>1 DEF PunctualInv, SnapshotPosition
  <2>6. PunctualEventsReachBaseline'
    <3> SUFFICES ASSUME NEW e \in silver', e.day < snapshot, Punctual(e)
                 PROVE  e.day <= lastAction[e.bike].day
      BY <1>1 DEF PunctualEventsReachBaseline, Punctual
    <3>1. e \in Events
      BY <2>1 DEF Overwritten, SilverRuns
    <3>2. e.day <= silverWm
      BY <3>1, EventDay DEF PunctualInv, SnapshotPosition
    <3>3. e \in silver
      BY <3>1, <3>2 DEF PunctualInv, PunctualInSilver
    <3> QED
      BY <3>3 DEF PunctualInv, PunctualEventsReachBaseline, Punctual
  <2> QED
    BY <1>2, <2>3, <2>4, <2>5, <2>6 DEF PunctualInv
<1>8. CASE SilverMark
  <2>1. /\ silverRun.pc = "mark" /\ silver' = silver
        /\ silverWm' = Later(silverWm, silverRun.next)
        /\ silverRun' = IF silverRun.next < silverRun.last
                        THEN [silverRun EXCEPT !.pc = "scan", !.next = @ + 1] ELSE NoRun
    BY <1>8 DEF SilverMark
  <2>2. /\ silverWm' \in Nat /\ silverWm <= silverWm' /\ silverRun.next <= silverWm'
        /\ \/ silverWm' = silverWm
           \/ silverWm' = silverWm + 1 /\ silverWm' = silverRun.next
    BY <2>1 DEF PunctualInv, SilverRunHolds, Later
  <2>3. PunctualInSilver'
    <3> SUFFICES ASSUME NEW e \in Events, Punctual(e), e.day <= silverWm'
                 PROVE  e \in silver
      BY <1>1, <2>1 DEF PunctualInSilver, Punctual
    <3>1. e.day <= silverWm \/ e.day = silverRun.next
      BY <2>2, EventDay
    <3> QED
      BY <2>1, <3>1 DEF PunctualInv, PunctualInSilver, SilverRunHolds
  <2>4. \/ silverRun'.pc = "idle"
        \/ silverRun'.pc = "scan" /\ silverRun'.next = silverRun.next + 1
    BY <2>1 DEF SilverRuns
  <2>5. SilverRunHolds' /\ SnapshotPosition'
    BY <1>1, <2>2, <2>4 DEF PunctualInv, SilverRunHolds, SnapshotPosition
  <2>6. PunctualEventsReachBaseline'
    BY <1>1, <2>1 DEF PunctualInv, PunctualEventsReachBaseline
  <2> QED
    BY <1>2, <2>3, <2>5, <2>6 DEF PunctualInv
<1> QED
  BY <1>4, <1>5, <1>6, <1>7, <1>8 DEF SilverNext

LEMMA PunctualGold ==
    ASSUME SilverInv, GoldTypes, PunctualInv, BuildLastAction
    PROVE  PunctualInv'
<1>1. UNCHANGED <<today, received, bronze, bronzeWm, silver, silverWm, silverRun>>
  BY DEF BuildLastAction, bronzeVars, silverVars
<1>2. PICK s \in Dates :
        /\ s = today - SnapshotLag /\ silverWm >= s - 1 /\ snapshot' = s
        /\ lastAction' = [b \in Bikes |->
              LET delta == Newest(Delta(s), b)
              IN  IF delta.day > lastAction[b].day THEN delta ELSE lastAction[b]]
  BY DEF BuildLastAction
<1>3. s \in Nat /\ s <= today /\ s <= silverWm + 1
  BY <1>2, PunctualFacts, WindowAssumption, HorizonAssumption DEF Dates
<1>4. PunctualInBronze' /\ PunctualInSilver' /\ SilverRunHolds' /\ SnapshotPosition'
  BY <1>1, <1>2, <1>3 DEF PunctualInv, PunctualInBronze, PunctualInSilver, SilverRunHolds,
     SnapshotPosition, Punctual
<1>5. Delta(s) \in SUBSET Events
  BY DEF Delta, GoldTypes
<1>6. PunctualEventsReachBaseline'
  <2> SUFFICES ASSUME NEW e \in silver, e.day < s, Punctual(e)
               PROVE  e.day <= (lastAction')[e.bike].day
    BY <1>1, <1>2 DEF PunctualEventsReachBaseline, Punctual
  <2> DEFINE b == e.bike
             delta == Newest(Delta(s), b)
  <2>1. b \in Bikes /\ e.day \in Nat
    BY EventDay, PunctualFacts DEF Events
  <2>2. /\ delta \in [bike : Bikes, day : Nat]
        /\ \A f \in Delta(s) : f.bike = b => f.day <= delta.day
    BY <1>5, <2>1, NewestFacts
  <2>3. (lastAction')[b] = IF delta.day > lastAction[b].day THEN delta ELSE lastAction[b]
    BY <1>2, <2>1
  <2>4. lastAction[b].day \in Nat /\ delta.day \in Nat
    BY <2>1, <2>2 DEF GoldTypes
  <2>5. CASE snapshot <= e.day
    <3>1. e \in Delta(s)
      BY <1>3, <2>1, <2>5 DEF Delta
    <3>2. e.day <= delta.day
      BY <2>2, <3>1
    <3> HIDE DEF delta, b
    <3>3. e.day <= (lastAction')[b].day
      BY <2>1, <2>3, <2>4, <3>2
    <3> QED
      BY <3>3 DEF b
  <2>6. CASE e.day < snapshot
    <3>1. e.day <= lastAction[b].day
      BY <2>6 DEF PunctualInv, PunctualEventsReachBaseline, Punctual
    <3> HIDE DEF delta, b
    <3>2. e.day <= (lastAction')[b].day
      BY <2>1, <2>3, <2>4, <3>1
    <3> QED
      BY <3>2 DEF b
  <2> QED
    BY <2>1, <2>5, <2>6, PunctualFacts
<1> QED
  BY <1>4, <1>6 DEF PunctualInv

LEMMA PunctualStep ==
    ASSUME SilverInv, GoldTypes, PunctualInv, [Next]_vars
    PROVE  PunctualInv'
<1>1. CASE Midnight
  <2>1. /\ today' = today + 1
        /\ UNCHANGED <<received, bronze, bronzeWm, silver, silverWm, silverRun, lastAction, snapshot>>
    BY <1>1 DEF Midnight, bronzeVars, silverVars, goldVars
  <2> QED
    BY <2>1, PunctualFacts DEF PunctualInv, PunctualInBronze, PunctualInSilver, SilverRunHolds,
       SnapshotPosition, PunctualEventsReachBaseline, Punctual
<1>2. CASE UNCHANGED vars
  BY <1>2 DEF vars, bronzeVars, silverVars, goldVars, PunctualInv, PunctualInBronze,
     PunctualInSilver, SilverRunHolds, SnapshotPosition, PunctualEventsReachBaseline, Punctual
<1> QED
  BY <1>1, <1>2, PunctualReceive, PunctualBronze, PunctualSilver, PunctualGold DEF Next

(* Without a cap, and with runs that end on their day, an event received   *)
(* on its day is in the baseline once the snapshot is past it, whichever   *)
(* Gold runs were skipped or repeated (build_fact_station_inventory.py:    *)
(* 37-43).  What arrives late may miss the delta for good.                 *)
THEOREM PunctualEventsAreCounted ==
    ASSUME MaxDays = 0, RunLag = 0
    PROVE  Spec => []PunctualEventsReachBaseline
<1> DEFINE Inv == SilverInv /\ GoldTypes /\ PunctualInv
<1>1. Init => Inv
  <2>1. Init => GoldTypes
    BY DEF Init, GoldTypes, NoEvent
  <2> QED
    BY <2>1, SilverInit, PunctualInit
<1>2. Inv /\ [Next]_vars => Inv'
  <2> SUFFICES ASSUME Inv, [Next]_vars PROVE Inv'
    OBVIOUS
  <2>1. SilverInv'
    BY SilverStep
  <2>2. GoldTypes'
    BY TypeStep DEF SilverInv
  <2>3. PunctualInv'
    BY PunctualStep
  <2> QED
    BY <2>1, <2>2, <2>3
<1>3. Inv => PunctualEventsReachBaseline
  BY DEF PunctualInv
<1> QED
  BY <1>1, <1>2, <1>3, PTL DEF Spec
=============================================================================
