---------------------------- MODULE Workflows_proofs ----------------------------
(***************************************************************************)
(* Four of the workflows that stand by themselves: the confirmations of    *)
(* the console (ConfirmCollection), the training of the risk model         *)
(* (RiskTraining), the tables of Gold (GoldState) and the stations they    *)
(* take (Stations), for any number of operators, requests, days, bikes,    *)
(* tables and runs.                                                        *)
(***************************************************************************)
EXTENDS ConfirmCollection, RiskTraining, GoldState, Stations, FiniteSetTheorems,
        WellFoundedInduction, TLAPS

(* The largest time among some rows, if there are any.                     *)
LEMMA LatestRow ==
    ASSUME NEW n \in Nat, NEW S, S # {}, \A r \in S : r.at \in 0 .. n
    PROVE  \E r \in S : \A q \in S : q.at <= r.at
<1>1. \A r \in S : n - r.at \in Nat
  OBVIOUS
<1> DEFINE T == {n - r.at : r \in S}
<1>2. T \subseteq Nat /\ T # {}
  BY <1>1
<1>3. PICK t \in T : \A u \in T : ~ (<<u, t>> \in OpToRel(<, Nat))
  <2> HIDE DEF T
  <2> QED
    BY <1>2, NatLessThanWellFounded, WFMin
<1>4. \A u \in T : ~ (u < t)
  <2> HIDE DEF T
  <2> QED
    BY <1>2, <1>3 DEF OpToRel
<1>5. PICK r \in S : t = n - r.at
  BY <1>3
<1>6. ASSUME NEW q \in S
      PROVE  q.at <= r.at
  <2>1. ~ (n - q.at < n - r.at)
    BY <1>4, <1>5
  <2> QED
    BY <2>1
<1> QED
  BY <1>6

-----------------------------------------------------------------------------
(* The confirmations.  The time of a transaction names its batch: whatever *)
(* was committed at that time is the whole of one request.                 *)

Rows == [date : Snapshots, bike : Candidates, at : 1 .. MaxConfirms]
RequestRecords ==
    [pc : {"idle", "insert", "commit"}, date : 0 .. LastSnapshot,
     bikes : SUBSET Candidates, at : 0 .. MaxConfirms]
Pages == [pc : {"idle", "count", "join", "shown"}, date : 0 .. LastSnapshot,
          bikes : SUBSET Candidates, against : SUBSET Candidates]

ConfirmTypes ==
    /\ stationDate \in 0 .. LastSnapshot
    /\ pool \in [Snapshots -> SUBSET Candidates]
    /\ actionLog \subseteq Rows
    /\ requests \in [Operators -> RequestRecords]
    /\ now \in 0 .. MaxConfirms
    /\ page \in Pages

(* A request in the making has a date, and the page as well.               *)
DatesAreKnown ==
    /\ \A o \in Operators : requests[o].pc # "idle" => requests[o].date # 0
    /\ page.pc # "idle" => page.date # 0

(* No two batches share a time.                                            *)
TimesAreDistinct ==
    /\ \A r \in actionLog : r.at <= now
    /\ \A q, r \in actionLog : q.at = r.at => q.date = r.date
    /\ \A o \in Operators : requests[o].pc = "commit" =>
          /\ requests[o].at \in 1 .. now
          /\ \A r \in actionLog : r.at # requests[o].at
    /\ \A o, p \in Operators :
          requests[o].pc = "commit" /\ requests[p].pc = "commit"
          /\ requests[o].at = requests[p].at => o = p

(* What was counted is still there when it is read.                        *)
CountedIsThere == page.pc = "join" => RowsOf(page.date) # {}

ConfirmInv ==
    /\ ConfirmTypes /\ DatesAreKnown /\ TimesAreDistinct
    /\ CountedIsThere /\ PageShowsOneBatch

LEMMA ConfirmBounds == LastSnapshot \in Nat /\ MaxConfirms \in Nat
BY ConfirmConstants

LEMMA ConfirmInitially == ConfirmInit => ConfirmInv
<1> SUFFICES ASSUME ConfirmInit PROVE ConfirmInv
  OBVIOUS
<1>1. ConfirmTypes
  BY ConfirmBounds DEF ConfirmInit, ConfirmTypes, RequestRecords, Pages, NoRequest, Blank
<1>2. DatesAreKnown /\ TimesAreDistinct /\ CountedIsThere /\ PageShowsOneBatch
  BY DEF ConfirmInit, DatesAreKnown, TimesAreDistinct, CountedIsThere, PageShowsOneBatch,
     NoRequest, Blank
<1> QED
  BY <1>1, <1>2 DEF ConfirmInv

(* Steps of gold_to_serving_sync.                                          *)
LEMMA ServingKeeps ==
    ASSUME ConfirmInv, Serving
    PROVE  ConfirmInv'
<1>1. UNCHANGED <<actionLog, requests, now, page>>
  BY DEF Serving, WriteStations, WritePool
<1>2. ConfirmTypes'
  <2>1. CASE WriteStations
    BY <1>1, <2>1, ConfirmBounds DEF WriteStations, ConfirmInv, ConfirmTypes
  <2>2. CASE WritePool
    BY <1>1, <2>2 DEF WritePool, ConfirmInv, ConfirmTypes
  <2> QED
    BY <2>1, <2>2 DEF Serving
<1> QED
  BY <1>1, <1>2 DEF ConfirmInv, DatesAreKnown, TimesAreDistinct, CountedIsThere,
     PageShowsOneBatch, RowsOf

(* Steps of a request that commit nothing.                                 *)
LEMMA RequestKeeps ==
    ASSUME ConfirmInv, NEW o \in Operators,
           UNCHANGED <<stationDate, pool, actionLog, page>>,
           NEW q \in RequestRecords, requests' = [requests EXCEPT ![o] = q],
           q.pc # "idle" => q.date # 0,
           now' \in 0 .. MaxConfirms, now <= now',
           q.pc = "commit" => q.at = now' /\ now' = now + 1
    PROVE  ConfirmInv'
<1>1. \A p \in Operators : requests'[p] = IF p = o THEN q ELSE requests[p]
  BY DEF ConfirmInv, ConfirmTypes
<1>2. now \in Nat /\ now' \in Nat
  BY ConfirmBounds DEF ConfirmInv, ConfirmTypes
<1>3. \A r \in actionLog : r.at \in Nat
  BY ConfirmBounds DEF ConfirmInv, ConfirmTypes, Rows
<1>4. ConfirmTypes'
  BY DEF ConfirmInv, ConfirmTypes
<1>5. DatesAreKnown'
  BY <1>1 DEF ConfirmInv, DatesAreKnown
<1>6. TimesAreDistinct'
  <2>1. \A r \in actionLog' : r.at <= now'
    BY <1>2, <1>3 DEF ConfirmInv, TimesAreDistinct
  <2>2. \A r, s \in actionLog' : r.at = s.at => r.date = s.date
    BY DEF ConfirmInv, TimesAreDistinct
  <2>3. ASSUME NEW p \in Operators, requests'[p].pc = "commit"
        PROVE  requests'[p].at \in 1 .. now' /\ \A r \in actionLog : r.at # requests'[p].at
    <3>1. CASE p = o
      BY <1>1, <1>2, <1>3, <2>3, <3>1 DEF ConfirmInv, TimesAreDistinct
    <3>2. CASE p # o
      BY <1>1, <1>2, <2>3, <3>2 DEF ConfirmInv, TimesAreDistinct
    <3> QED
      BY <3>1, <3>2
  <2>4. ASSUME NEW p \in Operators, p # o, requests'[p].pc = "commit", q.pc = "commit"
        PROVE  requests'[p].at # q.at
    BY <1>1, <1>2, <2>4 DEF ConfirmInv, TimesAreDistinct
  <2>5. \A p, r \in Operators :
           requests'[p].pc = "commit" /\ requests'[r].pc = "commit"
           /\ requests'[p].at = requests'[r].at => p = r
    BY <1>1, <2>4 DEF ConfirmInv, TimesAreDistinct
  <2> QED
    BY <2>1, <2>2, <2>3, <2>5 DEF TimesAreDistinct
<1>7. CountedIsThere' /\ PageShowsOneBatch'
  BY DEF ConfirmInv, CountedIsThere, PageShowsOneBatch, RowsOf
<1> QED
  BY <1>4, <1>5, <1>6, <1>7 DEF ConfirmInv

LEMMA ConfirmingKeeps ==
    ASSUME ConfirmInv, NEW o \in Operators, Confirm(o) \/ Insert(o) \/ ConfirmFails(o)
    PROVE  ConfirmInv'
<1>1. /\ requests[o] \in RequestRecords /\ requests \in [Operators -> RequestRecords]
      /\ now \in 0 .. MaxConfirms /\ stationDate \in 0 .. LastSnapshot
  BY DEF ConfirmInv, ConfirmTypes
<1>2. now \in Nat /\ now <= now
  BY <1>1, ConfirmBounds
<1>3. CASE Confirm(o)
  <2>1. PICK chosen \in SUBSET Candidates \ {{}} :
           requests' = [requests EXCEPT ![o] =
              [pc |-> "insert", date |-> stationDate, bikes |-> chosen, at |-> 0]]
    BY <1>3 DEF Confirm
  <2> DEFINE q == [pc |-> "insert", date |-> stationDate, bikes |-> chosen, at |-> 0]
  <2>2. q \in RequestRecords /\ q.pc = "insert" /\ q.date = stationDate
    BY <1>1, ConfirmBounds DEF RequestRecords
  <2>3. stationDate # 0 /\ UNCHANGED <<stationDate, pool, actionLog, page, now>>
    BY <1>3 DEF Confirm
  <2>4. requests' = [requests EXCEPT ![o] = q]
    BY <2>1
  <2> HIDE DEF q
  <2> QED
    BY <1>1, <1>2, <2>2, <2>3, <2>4, RequestKeeps
<1>4. CASE Insert(o)
  <2> DEFINE bikes == requests[o].bikes \cap pool[requests[o].date]
             q == [pc |-> "commit", date |-> requests[o].date, bikes |-> bikes, at |-> now + 1]
  <2>1. /\ requests[o].pc = "insert" /\ now < MaxConfirms /\ now' = now + 1
        /\ UNCHANGED <<stationDate, pool, actionLog, page>>
        /\ requests' = [requests EXCEPT ![o].pc = "commit", ![o].at = now + 1,
                        ![o].bikes = @ \cap pool[requests[o].date]]
    BY <1>4 DEF Insert
  <2>2. requests[o] = [pc |-> requests[o].pc, date |-> requests[o].date,
                       bikes |-> requests[o].bikes, at |-> requests[o].at]
        /\ bikes \in SUBSET Candidates /\ requests[o].date \in 0 .. LastSnapshot
    BY <1>1 DEF RequestRecords
  <2>3. requests' = [requests EXCEPT ![o] = q]
    <3> DEFINE r1 == [requests EXCEPT ![o].pc = "commit"]
               r2 == [r1 EXCEPT ![o].at = now + 1]
    <3>1. requests' = [r2 EXCEPT ![o].bikes = bikes]
      <4>1. r2[o].bikes = requests[o].bikes
        BY <1>1, <2>2
      <4> QED
        BY <2>1, <4>1
    <3>2. r1 = [p \in Operators |-> IF p = o THEN [requests[o] EXCEPT !.pc = "commit"]
                                   ELSE requests[p]]
      BY <1>1
    <3>3. r2 = [p \in Operators |-> IF p = o THEN [r1[o] EXCEPT !.at = now + 1] ELSE r1[p]]
      <4> HIDE DEF r1
      <4> QED
        BY <3>2
    <3>4. [r1[o] EXCEPT !.at = now + 1] = [pc |-> "commit", date |-> requests[o].date,
                       bikes |-> requests[o].bikes, at |-> now + 1]
      <4>1. r1[o] = [pc |-> "commit", date |-> requests[o].date,
                     bikes |-> requests[o].bikes, at |-> requests[o].at]
        <5>1. r1[o] = [requests[o] EXCEPT !.pc = "commit"]
          BY <3>2
        <5> QED
          BY <1>1, <5>1 DEF RequestRecords
      <4> HIDE DEF r1
      <4> QED
        BY <4>1
    <3>5. r2[o] = [pc |-> "commit", date |-> requests[o].date,
                   bikes |-> requests[o].bikes, at |-> now + 1]
      <4> HIDE DEF r1, r2
      <4> QED
        BY <3>3, <3>4
    <3>6. [r2[o] EXCEPT !.bikes = bikes] = q
      <4> HIDE DEF r1, r2, bikes
      <4> QED
        BY <3>5
    <3> HIDE DEF r1, r2, bikes, q
    <3>7. requests' = [p \in Operators |-> IF p = o THEN q ELSE requests[p]]
      BY <3>1, <3>2, <3>3, <3>6
    <3> QED
      BY <1>1, <3>7
  <2>4. now + 1 \in 0 .. MaxConfirms /\ now <= now + 1
    BY <1>1, <2>1, ConfirmBounds
  <2>5. q \in RequestRecords /\ q.date # 0 /\ q.at = now + 1
    BY <2>1, <2>2, <2>4 DEF RequestRecords, ConfirmInv, DatesAreKnown
  <2> HIDE DEF q
  <2> QED
    BY <2>1, <2>3, <2>4, <2>5, RequestKeeps
<1>5. CASE ConfirmFails(o)
  <2>1. requests' = [requests EXCEPT ![o] = NoRequest]
        /\ UNCHANGED <<stationDate, pool, actionLog, page, now>>
    BY <1>5 DEF ConfirmFails
  <2>2. NoRequest \in RequestRecords /\ NoRequest.pc = "idle"
    BY ConfirmBounds DEF NoRequest, RequestRecords
  <2> QED
    BY <1>1, <1>2, <2>1, <2>2, RequestKeeps
<1> QED
  BY <1>3, <1>4, <1>5

LEMMA CommitKeeps ==
    ASSUME ConfirmInv, NEW o \in Operators, Commit(o)
    PROVE  ConfirmInv'
<1> DEFINE t == requests[o].at
           d == requests[o].date
           new == {[date |-> d, bike |-> b, at |-> t] : b \in requests[o].bikes}
<1>1. /\ requests[o].pc = "commit" /\ actionLog' = actionLog \cup new
      /\ requests' = [requests EXCEPT ![o] = NoRequest]
      /\ UNCHANGED <<stationDate, pool, now, page>>
  BY DEF Commit
<1>2. /\ now \in Nat /\ now <= MaxConfirms /\ t \in 1 .. now /\ d \in Snapshots
      /\ requests[o].bikes \subseteq Candidates
      /\ \A r \in actionLog : r.at # t
      /\ \A p \in Operators : p # o /\ requests[p].pc = "commit" => requests[p].at # t
  BY <1>1, ConfirmBounds DEF ConfirmInv, ConfirmTypes, TimesAreDistinct, DatesAreKnown,
     RequestRecords, Snapshots
<1>3. /\ new \subseteq Rows
      /\ \A r \in new : r.at = t /\ r.date = d
  <2>1. t \in 1 .. MaxConfirms
    BY <1>2, ConfirmBounds
  <2> QED
    BY <1>2, <2>1 DEF Rows
<1>4. \A p \in Operators : requests'[p] = IF p = o THEN NoRequest ELSE requests[p]
  BY <1>1 DEF ConfirmInv, ConfirmTypes
<1> HIDE DEF new, t, d
<1>5. ConfirmTypes'
  <2>1. NoRequest \in RequestRecords
    BY ConfirmBounds DEF NoRequest, RequestRecords
  <2>2. actionLog' \subseteq Rows
    BY <1>1, <1>3 DEF ConfirmInv, ConfirmTypes
  <2>3. requests' \in [Operators -> RequestRecords]
    BY <1>1, <2>1 DEF ConfirmInv, ConfirmTypes
  <2> QED
    BY <1>1, <2>2, <2>3 DEF ConfirmInv, ConfirmTypes
<1>6. DatesAreKnown'
  BY <1>1, <1>4 DEF ConfirmInv, DatesAreKnown, NoRequest
<1>7. TimesAreDistinct'
  <2>1. \A r \in actionLog' : r.at <= now'
    BY <1>1, <1>2, <1>3 DEF ConfirmInv, TimesAreDistinct
  <2>2. \A r, s \in actionLog' : r.at = s.at => r.date = s.date
    BY <1>1, <1>2, <1>3 DEF ConfirmInv, TimesAreDistinct
  <2>3. \A p \in Operators : requests'[p].pc = "commit" =>
           p # o /\ requests[p].pc = "commit" /\ requests'[p].at = requests[p].at
    BY <1>4 DEF NoRequest
  <2>4. \A p \in Operators : requests'[p].pc = "commit" =>
           requests'[p].at \in 1 .. now' /\ \A r \in actionLog' : r.at # requests'[p].at
    BY <1>1, <1>2, <1>3, <2>3 DEF ConfirmInv, TimesAreDistinct
  <2>5. \A p, r \in Operators :
           requests'[p].pc = "commit" /\ requests'[r].pc = "commit"
           /\ requests'[p].at = requests'[r].at => p = r
    BY <2>3 DEF ConfirmInv, TimesAreDistinct
  <2> QED
    BY <2>1, <2>2, <2>4, <2>5 DEF TimesAreDistinct
<1>8. CountedIsThere'
  BY <1>1 DEF ConfirmInv, CountedIsThere, RowsOf
<1>9. PageShowsOneBatch'
  <2> SUFFICES ASSUME page.pc = "shown"
               PROVE  \E batch \in {row.at : row \in {r \in actionLog' : r.date = page.date}} :
                         page.bikes = {row.bike : row \in {r \in actionLog' : r.at = batch}}
                                      \cap page.against
    BY <1>1 DEF PageShowsOneBatch, RowsOf
  <2>1. PICK s \in RowsOf(page.date) :
           page.bikes = {row.bike : row \in {r \in actionLog : r.at = s.at}} \cap page.against
    BY DEF ConfirmInv, PageShowsOneBatch
  <2>2. s \in actionLog /\ s.date = page.date /\ s.at # t
    BY <1>2, <2>1 DEF RowsOf
  <2>3. {r \in actionLog' : r.at = s.at} = {r \in actionLog : r.at = s.at}
    BY <1>1, <1>3, <2>2
  <2>4. s.at \in {row.at : row \in {r \in actionLog' : r.date = page.date}}
    BY <1>1, <2>2
  <2> QED
    BY <2>1, <2>3, <2>4
<1> QED
  BY <1>5, <1>6, <1>7, <1>8, <1>9 DEF ConfirmInv

LEMMA ShowingKeeps ==
    ASSUME ConfirmInv, Showing
    PROVE  ConfirmInv'
<1>1. UNCHANGED <<stationDate, pool, actionLog, requests, now>>
  BY DEF Showing, OpenPage, CountBatch, ReadBikes, ClosePage
<1>2. /\ page \in Pages /\ stationDate \in 0 .. LastSnapshot /\ Blank \in Pages
      /\ pool \in [Snapshots -> SUBSET Candidates] /\ actionLog \subseteq Rows
  BY ConfirmBounds DEF ConfirmInv, ConfirmTypes, Blank, Pages
<1>3. TimesAreDistinct' /\ \A o \in Operators : requests[o].pc # "idle" => requests[o].date # 0
  BY <1>1 DEF ConfirmInv, TimesAreDistinct, DatesAreKnown
<1>4. CASE OpenPage
  <2>1. page' = [Blank EXCEPT !.pc = "count", !.date = stationDate] /\ stationDate # 0
    BY <1>4 DEF OpenPage
  <2>2. page' \in Pages /\ page'.pc = "count" /\ page'.date # 0
    BY <1>2, <2>1, ConfirmBounds DEF Pages, Blank
  <2> QED
    BY <1>1, <1>3, <2>2 DEF ConfirmInv, ConfirmTypes, DatesAreKnown, CountedIsThere,
       PageShowsOneBatch
<1>5. CASE CountBatch
  <2>1. \/ page' = Blank
        \/ page' = [page EXCEPT !.pc = "join"] /\ LatestBatch(page.date) # {}
    BY <1>5 DEF CountBatch
  <2>2. page.pc = "count"
    BY <1>5 DEF CountBatch
  <2>3. CASE page' = Blank
    BY <1>1, <1>2, <1>3, <2>3 DEF ConfirmInv, ConfirmTypes, DatesAreKnown, CountedIsThere,
       PageShowsOneBatch, Blank
  <2>4. CASE page' = [page EXCEPT !.pc = "join"] /\ LatestBatch(page.date) # {}
    <3>1. page' \in Pages /\ page'.pc = "join" /\ page'.date = page.date
      BY <1>2, <2>4 DEF Pages
    <3>2. RowsOf(page.date) # {}
      BY <2>4 DEF LatestBatch
    <3>3. CountedIsThere'
      BY <1>1, <3>1, <3>2 DEF CountedIsThere, RowsOf
    <3> QED
      BY <1>1, <1>3, <2>2, <3>1, <3>3 DEF ConfirmInv, ConfirmTypes, DatesAreKnown,
         PageShowsOneBatch
  <2> QED
    BY <2>1, <2>3, <2>4
<1>6. CASE ReadBikes
  <2> DEFINE batch == LatestBatch(page.date)
             bikes == {row.bike : row \in batch} \cap pool[page.date]
  <2>1. /\ page.pc = "join"
        /\ page' = [page EXCEPT !.pc = "shown", !.against = pool[page.date], !.bikes = bikes]
    BY <1>6 DEF ReadBikes
  <2>2. page.date \in Snapshots /\ pool[page.date] \in SUBSET Candidates
    BY <1>2, <2>1, ConfirmBounds DEF ConfirmInv, DatesAreKnown, Pages, Snapshots
  <2>3. bikes \in SUBSET Candidates
    BY <2>2
  <2> HIDE DEF bikes
  <2>4. page = [pc |-> page.pc, date |-> page.date, bikes |-> page.bikes, against |-> page.against]
    BY <1>2 DEF Pages
  <2>5. page' = [pc |-> "shown", date |-> page.date, bikes |-> bikes, against |-> pool[page.date]]
    BY <2>1, <2>4
  <2>6. page' \in Pages
    BY <1>2, <2>2, <2>3, <2>5 DEF Pages
  <2>7. PICK r \in RowsOf(page.date) : \A q \in RowsOf(page.date) : q.at <= r.at
    <3>1. \A q \in RowsOf(page.date) : q.at \in 0 .. MaxConfirms
      BY <1>2, ConfirmBounds DEF RowsOf, Rows
    <3>2. RowsOf(page.date) # {}
      BY <2>1 DEF ConfirmInv, CountedIsThere
    <3> QED
      BY <3>1, <3>2, LatestRow, ConfirmBounds
  <2>8. batch = {q \in actionLog : q.at = r.at}
    <3>1. \A q \in actionLog : q.at \in Nat
      BY <1>2, ConfirmBounds DEF Rows
    <3>2. r \in actionLog /\ r.date = page.date
      BY <2>7 DEF RowsOf
    <3>3. ASSUME NEW q \in batch
          PROVE  q \in actionLog /\ q.at = r.at
      BY <2>7, <3>1, <3>2 DEF LatestBatch, RowsOf
    <3>4. ASSUME NEW q \in actionLog, q.at = r.at
          PROVE  q \in batch
      <4>1. q.date = page.date
        BY <3>2, <3>4 DEF ConfirmInv, TimesAreDistinct
      <4> QED
        BY <2>7, <3>4, <4>1 DEF LatestBatch, RowsOf
    <3> HIDE DEF batch
    <3> QED
      BY <3>3, <3>4
  <2>9. PageShowsOneBatch'
    <3>1. r.at \in {row.at : row \in RowsOf(page.date)}
      BY <2>7
    <3>2. bikes = {row.bike : row \in {q \in actionLog : q.at = r.at}} \cap pool[page.date]
      BY <2>8 DEF bikes
    <3>3. page'.date = page.date /\ page'.bikes = bikes /\ page'.against = pool[page.date]
      BY <2>5
    <3>4. RowsOf(page.date)' = RowsOf(page.date)
      BY <1>1, <3>3 DEF RowsOf
    <3> QED
      BY <1>1, <3>1, <3>2, <3>3, <3>4 DEF PageShowsOneBatch
  <2> QED
    BY <1>1, <1>3, <2>2, <2>5, <2>6, <2>9, ConfirmBounds DEF ConfirmInv, ConfirmTypes,
       DatesAreKnown, CountedIsThere, Snapshots
<1>7. CASE ClosePage
  BY <1>1, <1>2, <1>3, <1>7 DEF ClosePage, ConfirmInv, ConfirmTypes, DatesAreKnown,
     CountedIsThere, PageShowsOneBatch, Blank
<1> QED
  BY <1>4, <1>5, <1>6, <1>7 DEF Showing

LEMMA ConfirmStep ==
    ASSUME ConfirmInv, [ConfirmNext]_confirmVars
    PROVE  ConfirmInv'
<1>1. CASE UNCHANGED confirmVars
  BY <1>1 DEF confirmVars, ConfirmInv, ConfirmTypes, DatesAreKnown, TimesAreDistinct,
     CountedIsThere, PageShowsOneBatch, RowsOf
<1>2. CASE Confirming
  BY <1>2, ConfirmingKeeps, CommitKeeps DEF Confirming
<1> QED
  BY <1>1, <1>2, ServingKeeps, ShowingKeeps DEF ConfirmNext

(* A page shows the whole of one confirmation, of those of its bikes that  *)
(* were ranked when it was read, in whatever order the batches of several  *)
(* operators were committed meanwhile (state.py:267-272).                  *)
THEOREM PagesShowOneBatch == ConfirmSpec => []PageShowsOneBatch
<1>1. ConfirmInit => ConfirmInv
  BY ConfirmInitially
<1>2. ConfirmInv /\ [ConfirmNext]_confirmVars => ConfirmInv'
  BY ConfirmStep
<1>3. ConfirmInv => PageShowsOneBatch
  BY DEF ConfirmInv
<1> QED
  BY <1>1, <1>2, <1>3, PTL DEF ConfirmSpec

-----------------------------------------------------------------------------
(* The training.  The plan of a run lies behind what Silver held when it   *)
(* was made, so that the samples any run has ever written carry labels     *)
(* that were fully observed, and a later run may write them again.         *)

TaskNames == {"none", "reported", "failed", "anchors", "samples", "polling", "assert",
              "train", "evaluate", "save", "promote"}

TrainTypes ==
    /\ silverDays \in [fault : Nat, rent : Nat]
    /\ FirstEnd <= silverDays.rent /\ FirstEnd + Horizon <= silverDays.fault
    /\ training \in [task : TaskNames, end : {0} \cup FirstEnd .. LastEnd, rolling : Nat,
                     skip : BOOLEAN, dry : BOOLEAN, number : Nat]
    /\ DOMAIN samples = {"train", "holdout", "pos_new"}
    /\ \A job \in sparkRuns :
          /\ job = [number |-> job.number, plan |-> job.plan, part |-> job.part]
          /\ job.number \in Nat /\ job.number <= training.number
          /\ job.part \in Nat /\ 1 <= job.part

(* Every anchor of the plan is a day with rentals and with all reports of  *)
(* its label; no label of a training anchor reaches into the holdout.      *)
PlanFits(p) ==
    /\ p.train \subseteq Int /\ p.holdout \subseteq Int
    /\ \A a \in p.train \cup p.holdout :
          a <= silverDays.rent /\ a + Horizon <= silverDays.fault
    /\ \A a \in p.holdout : 2 <= a
    /\ \A a \in p.train, h \in p.holdout : a + Horizon <= h

(* An anchor before the second day has no rentals to look back at.         *)
Sampled(anchors) == {a \in anchors : 2 <= a}

FullLabels(rows) == \A a \in DOMAIN rows : rows[a] = LabelDays(a)

SamplesAreTrue ==
    \A part \in DOMAIN samples :
        /\ samples[part] = [a \in DOMAIN samples[part] |-> samples[part][a]]
        /\ \A a \in DOMAIN samples[part] : a \in Int /\ 2 <= a
        /\ FullLabels(samples[part])

(* The parts before the n-th of a plan are there.                          *)
Written(p, n) ==
    \A i \in 1 .. 3 : i < n =>
        Sampled(AnchorsOf(p, Parts[i])) \subseteq DOMAIN samples[Parts[i]]

JobsFit ==
    \A job \in sparkRuns :
        /\ PlanFits(job.plan) /\ Written(job.plan, job.part)
        /\ job.number = training.number =>
              training.task \notin {"anchors", "samples"} /\ job.plan = plan

RunFits ==
    /\ training.task \in {"samples", "polling", "assert", "train", "evaluate", "save", "promote"}
          => PlanFits(plan)
    /\ training.task \in {"assert", "train", "evaluate", "save", "promote"} => Written(plan, 4)

TrainedWell(m) ==
    /\ PlanFits(m.plan)
    /\ DOMAIN m.trained = Sampled(m.plan.train)
    /\ FullLabels(m.trained)

TestedWell(m) == DOMAIN m.tested = m.plan.holdout /\ FullLabels(m.tested)

StoredWell ==
    \A key \in DOMAIN artifacts : artifacts[key] # NoModel =>
        TrainedWell(artifacts[key]) /\ TestedWell(artifacts[key])

ModelsAreWell ==
    /\ training.task = "evaluate" => TrainedWell(candidate) /\ candidate.plan = plan
    /\ training.task \in {"save", "promote"} => TrainedWell(candidate) /\ TestedWell(candidate)
    /\ StoredWell

TrainInv == TrainTypes /\ SamplesAreTrue /\ JobsFit /\ RunFits /\ ModelsAreWell

LEMMA TrainingBounds ==
    /\ Window \in Nat /\ 1 <= Window /\ Horizon \in Nat /\ 1 <= Horizon
    /\ HoldoutDays \in Nat /\ 1 <= HoldoutDays /\ FirstEnd \in Nat /\ 1 <= FirstEnd
    /\ LastEnd \in Nat /\ Rollings \subseteq Nat
BY TrainingConstants

LEMMA PartFacts ==
    /\ Len(Parts) = 3 /\ Parts[1] = "train" /\ Parts[2] = "holdout" /\ Parts[3] = "pos_new"
    /\ \A i \in 1 .. 3 : Parts[i] \in {"train", "holdout", "pos_new"}
BY DEF Parts

(* A planned anchor has rows unless it is the first day or before it.      *)
LEMMA RowsOfAnchor ==
    ASSUME TrainTypes, NEW a \in Int, a <= silverDays.rent
    PROVE  HasRows(a) <=> 2 <= a
<1>1. silverDays.rent \in Nat
  BY DEF TrainTypes
<1>2. ASSUME 2 <= a
      PROVE  HasRows(a)
  <2>1. a - 1 \in a - Window .. a - 1 /\ a - 1 \in 1 .. silverDays.rent
    BY <1>1, <1>2, TrainingBounds
  <2> QED
    BY <2>1 DEF HasRows, UsageDays
<1>3. ASSUME HasRows(a)
      PROVE  2 <= a
  <2>1. PICK d : d \in a - Window .. a - 1 /\ d \in 1 .. silverDays.rent
    BY <1>3 DEF HasRows, UsageDays
  <2> QED
    BY <1>1, <2>1, TrainingBounds
<1> QED
  BY <1>2, <1>3

LEMMA LabelOfAnchor ==
    ASSUME TrainTypes, NEW a \in Int, a + Horizon <= silverDays.fault
    PROVE  Label(a) = LabelDays(a)
<1>1. silverDays.fault \in Nat
  BY DEF TrainTypes
<1>2. \A d \in LabelDays(a) : d < silverDays.fault
  BY <1>1, TrainingBounds DEF LabelDays
<1> QED
  BY <1>2 DEF Label

(* Days that Silver takes in leave a plan as good as it was.               *)
LEMMA MoreDays ==
    ASSUME TrainTypes, silverDays' \in [fault : Nat, rent : Nat],
           silverDays.rent <= silverDays'.rent, silverDays.fault <= silverDays'.fault
    PROVE  /\ \A p : PlanFits(p) => PlanFits(p)'
           /\ \A m : TrainedWell(m) => TrainedWell(m)'
<1>1. /\ silverDays.rent \in Nat /\ silverDays.fault \in Nat
      /\ silverDays'.rent \in Nat /\ silverDays'.fault \in Nat /\ Horizon \in Nat
  BY TrainingBounds DEF TrainTypes
<1>2. \A p : PlanFits(p) => PlanFits(p)'
  <2> SUFFICES ASSUME NEW p, PlanFits(p) PROVE PlanFits(p)'
    OBVIOUS
  <2>1. ASSUME NEW a \in p.train \cup p.holdout
        PROVE  a <= silverDays'.rent /\ a + Horizon <= silverDays'.fault
    <3>1. a \in Int /\ a <= silverDays.rent /\ a + Horizon <= silverDays.fault
      BY DEF PlanFits
    <3> QED
      BY <1>1, <3>1
  <2> QED
    BY <2>1 DEF PlanFits
<1> QED
  BY <1>2 DEF TrainedWell, FullLabels, LabelDays

LEMMA TrainInitially == TrainInit => TrainInv
<1> SUFFICES ASSUME TrainInit PROVE TrainInv
  OBVIOUS
<1>1. TrainTypes
  BY TrainingBounds DEF TrainInit, TrainTypes, TaskNames
<1>2. SamplesAreTrue
  <2>1. \A part \in DOMAIN samples : samples[part] = <<>>
    BY DEF TrainInit
  <2>2. DOMAIN <<>> = {} /\ <<>> = [a \in {} |-> a]
    OBVIOUS
  <2> QED
    BY <2>1, <2>2 DEF SamplesAreTrue, FullLabels
<1>3. JobsFit /\ RunFits /\ ModelsAreWell
  BY DEF TrainInit, JobsFit, RunFits, ModelsAreWell, StoredWell
<1> QED
  BY <1>1, <1>2, <1>3 DEF TrainInv

(* A plan that ends on a day with all labels fits what Silver holds.       *)
LEMMA PlanIsFit ==
    ASSUME HoldoutDays < FirstEnd, TrainTypes, NEW end \in Int, NEW rolling \in Nat,
           FirstEnd <= end, end <= LabelReadyMax
    PROVE  PlanFits(Plan(end, rolling))
<1> DEFINE start == end - (HoldoutDays - 1)
           last == start - Horizon
           p == Plan(end, rolling)
<1>1. /\ start \in Int /\ last \in Int /\ 2 <= start
      /\ last + Horizon = start /\ start <= end
  BY TrainingBounds
<1>2. silverDays.rent \in Nat /\ silverDays.fault \in Nat
  BY DEF TrainTypes
<1>3. end <= silverDays.rent /\ end + Horizon <= silverDays.fault
  BY <1>2, TrainingBounds DEF LabelReadyMax
<1>4. p.holdout = start .. end
  BY DEF Plan
<1>5. p.train \subseteq last - rolling .. last
  BY DEF Plan
<1> HIDE DEF start, last, p
<1>6. \A a \in p.train : a \in Int /\ a <= last
  BY <1>1, <1>5
<1>7. \A h \in p.holdout : h \in Int /\ start <= h /\ h <= end
  BY <1>1, <1>4
<1>8. PlanFits(p)
  <2>1. ASSUME NEW a \in p.train
        PROVE  /\ a \in Int /\ a <= silverDays.rent /\ a + Horizon <= silverDays.fault
               /\ a + Horizon <= start
    BY <1>1, <1>2, <1>3, <1>6, TrainingBounds
  <2>2. ASSUME NEW h \in p.holdout
        PROVE  /\ h \in Int /\ h <= silverDays.rent /\ h + Horizon <= silverDays.fault
               /\ start <= h /\ 2 <= h
    BY <1>1, <1>2, <1>3, <1>7, TrainingBounds
  <2>3. ASSUME NEW a \in p.train, NEW h \in p.holdout
        PROVE  a + Horizon <= h
    BY <1>1, <2>1, <2>2, TrainingBounds
  <2> QED
    BY <2>1, <2>2, <2>3 DEF PlanFits
<1> QED
  BY <1>8 DEF p

(* A task of the run ends: what it leaves behind is named by the caller.   *)
LEMMA TaskEnds ==
    ASSUME TrainInv, NEW t \in TaskNames, Goes(t)
    PROVE  /\ training'.task = t /\ training'.number = training.number
           /\ training'.end = training.end /\ training'.rolling = training.rolling
           /\ training' \in [task : TaskNames, end : {0} \cup FirstEnd .. LastEnd,
                             rolling : Nat, skip : BOOLEAN, dry : BOOLEAN, number : Nat]
BY DEF TrainInv, TrainTypes, Goes

(* Steps that touch neither Silver nor Spark nor the stored models.        *)
LEMMA OnlyTheRun ==
    ASSUME TrainInv, UNCHANGED <<silverDays, sparkRuns, samples, artifacts, plan>>,
           NEW t \in TaskNames, Goes(t), training.task \notin {"anchors", "samples"},
           t \notin {"anchors", "samples"}
    PROVE  /\ TrainTypes' /\ SamplesAreTrue' /\ JobsFit'
           /\ \A m : TrainedWell(m)' <=> TrainedWell(m)
           /\ \A p : PlanFits(p)' <=> PlanFits(p)
           /\ \A n : Written(plan, n)' <=> Written(plan, n)
           /\ StoredWell'
<1>1. training'.task = t /\ training'.number = training.number /\ TrainTypes'
  BY TaskEnds DEF TrainInv, TrainTypes
<1>2. SamplesAreTrue'
  BY DEF TrainInv, SamplesAreTrue, FullLabels, LabelDays
<1>3. /\ \A m : TrainedWell(m)' <=> TrainedWell(m)
      /\ \A p : PlanFits(p)' <=> PlanFits(p)
  BY DEF TrainedWell, PlanFits, FullLabels, LabelDays, Sampled
<1>4. \A p, n : Written(p, n)' <=> Written(p, n)
  BY DEF Written
<1>5. JobsFit'
  BY <1>1, <1>3, <1>4 DEF TrainInv, JobsFit
<1>6. StoredWell'
  BY <1>3 DEF TrainInv, ModelsAreWell, StoredWell, TestedWell, FullLabels, LabelDays
<1> QED
  BY <1>1, <1>2, <1>3, <1>4, <1>5, <1>6

LEMMA SilverGrowsKeeps ==
    ASSUME TrainInv, SilverGrows
    PROVE  TrainInv'
<1>1. UNCHANGED <<training, plan, sparkRuns, samples, candidate, artifacts>>
  BY DEF SilverGrows
<1>2. /\ silverDays' \in [fault : Nat, rent : Nat]
      /\ silverDays.rent <= silverDays'.rent /\ silverDays.fault <= silverDays'.fault
  <2>1. silverDays.rent \in Nat /\ silverDays.fault \in Nat /\ silverDays \in [fault : Nat, rent : Nat]
    BY DEF TrainInv, TrainTypes
  <2>2. \/ silverDays' = [silverDays EXCEPT !.fault = silverDays.fault + 1]
        \/ silverDays' = [silverDays EXCEPT !.rent = silverDays.rent + 1]
    BY DEF SilverGrows
  <2>3. silverDays.fault + 1 \in Nat /\ silverDays.rent + 1 \in Nat
    BY <2>1
  <2>4. CASE silverDays' = [silverDays EXCEPT !.fault = silverDays.fault + 1]
    BY <2>1, <2>3, <2>4
  <2>5. CASE silverDays' = [silverDays EXCEPT !.rent = silverDays.rent + 1]
    BY <2>1, <2>3, <2>5
  <2> QED
    BY <2>2, <2>4, <2>5
<1>3. /\ \A p : PlanFits(p) => PlanFits(p)'
      /\ \A m : TrainedWell(m) => TrainedWell(m)'
  BY <1>2, MoreDays DEF TrainInv
<1>4. TrainTypes'
  <2>1. /\ silverDays.rent \in Nat /\ silverDays.fault \in Nat
        /\ silverDays'.rent \in Nat /\ silverDays'.fault \in Nat
    BY <1>2 DEF TrainInv, TrainTypes
  <2>2. FirstEnd <= silverDays'.rent /\ FirstEnd + Horizon <= silverDays'.fault
    BY <1>2, <2>1, TrainingBounds DEF TrainInv, TrainTypes
  <2> QED
    BY <1>1, <1>2, <2>2 DEF TrainInv, TrainTypes
<1>5. SamplesAreTrue' /\ RunFits'
  BY <1>1, <1>3 DEF TrainInv, SamplesAreTrue, FullLabels, LabelDays, RunFits, Written
<1>6. JobsFit'
  BY <1>1, <1>3 DEF TrainInv, JobsFit, Written
<1>7. ModelsAreWell'
  BY <1>1, <1>3 DEF TrainInv, ModelsAreWell, StoredWell, TestedWell, FullLabels, LabelDays
<1> QED
  BY <1>4, <1>5, <1>6, <1>7 DEF TrainInv

LEMMA PrepareKeeps ==
    ASSUME HoldoutDays < FirstEnd, TrainInv, Prepare
    PROVE  TrainInv'
<1>0. /\ training \in [task : TaskNames, end : {0} \cup FirstEnd .. LastEnd, rolling : Nat,
                       skip : BOOLEAN, dry : BOOLEAN, number : Nat]
      /\ training.number \in Nat
  BY DEF TrainInv, TrainTypes
<1>a. UNCHANGED <<silverDays, samples, artifacts>>
  BY DEF Prepare, Trigger, ResolveAnchors, SubmitSamples, TrainingFails
<1>b. /\ \A p : PlanFits(p)' <=> PlanFits(p)
      /\ \A m : TrainedWell(m)' <=> TrainedWell(m)
      /\ SamplesAreTrue'
  BY <1>a DEF TrainInv, TrainedWell, PlanFits, FullLabels, LabelDays, Sampled, SamplesAreTrue
<1>c. \A p, n : Written(p, n)' <=> Written(p, n)
  BY <1>a DEF Written
<1>d. StoredWell'
  BY <1>a, <1>b DEF TrainInv, ModelsAreWell, StoredWell, TestedWell, FullLabels, LabelDays
<1>1. CASE Trigger
  <2>1. PICK e \in {0} \cup FirstEnd .. LastEnd, r \in Rollings, s \in BOOLEAN, d \in BOOLEAN :
           training' = [task |-> "anchors", end |-> e, rolling |-> r, skip |-> s,
                        dry |-> d, number |-> training.number + 1]
    BY <1>1 DEF Trigger
  <2>2. sparkRuns' = sparkRuns
    BY <1>1 DEF Trigger
  <2>3. training.number + 1 \in Nat /\ r \in Nat /\ "anchors" \in TaskNames
    BY <1>0, TrainingBounds DEF TaskNames
  <2>4. TrainTypes'
    <3>1. training' \in [task : TaskNames, end : {0} \cup FirstEnd .. LastEnd, rolling : Nat,
                         skip : BOOLEAN, dry : BOOLEAN, number : Nat]
      BY <2>1, <2>3
    <3>2. \A job \in sparkRuns : job.number \in Nat /\ job.number <= training'.number
      BY <1>0, <2>1 DEF TrainInv, TrainTypes
    <3> QED
      BY <1>a, <2>2, <3>1, <3>2 DEF TrainInv, TrainTypes
  <2>5. JobsFit'
    <3>1. \A job \in sparkRuns : job.number # training'.number
      BY <1>0, <2>1 DEF TrainInv, TrainTypes
    <3> QED
      BY <1>b, <1>c, <2>2, <3>1 DEF TrainInv, JobsFit
  <2>6. RunFits' /\ ModelsAreWell'
    BY <1>d, <2>1 DEF RunFits, ModelsAreWell
  <2> QED
    BY <1>b, <2>4, <2>5, <2>6 DEF TrainInv
<1>2. CASE ResolveAnchors
  <2> DEFINE end == IF training.end = 0 THEN LabelReadyMax ELSE training.end
  <2>1. /\ training.task = "anchors" /\ end <= LabelReadyMax
        /\ plan' = Plan(end, training.rolling)
        /\ Goes("samples") /\ UNCHANGED <<sparkRuns, candidate>>
    BY <1>2 DEF ResolveAnchors
  <2>2. LabelReadyMax \in Int /\ FirstEnd <= LabelReadyMax
    <3>1. silverDays.rent \in Nat /\ silverDays.fault \in Nat
      BY DEF TrainInv, TrainTypes
    <3> QED
      BY <3>1, TrainingBounds DEF LabelReadyMax, TrainInv, TrainTypes
  <2>3. end \in Int /\ FirstEnd <= end
    <3>1. training.end = 0 \/ training.end \in FirstEnd .. LastEnd
      BY <1>0
    <3> QED
      BY <2>2, <3>1, TrainingBounds
  <2>4. training.rolling \in Nat /\ "samples" \in TaskNames
    BY <1>0 DEF TaskNames
  <2> HIDE DEF end
  <2>5. PlanFits(plan')
    BY <2>1, <2>3, <2>4, PlanIsFit DEF TrainInv
  <2>6. training'.task = "samples" /\ training'.number = training.number /\ TrainTypes'
    BY <1>a, <2>1, <2>4, TaskEnds DEF TrainInv, TrainTypes
  <2>7. JobsFit'
    <3>1. \A job \in sparkRuns : job.number # training.number
      BY <2>1 DEF TrainInv, JobsFit
    <3> QED
      BY <1>b, <1>c, <2>1, <2>6, <3>1 DEF TrainInv, JobsFit
  <2>8. RunFits'
    <3>1. PlanFits(plan)'
      BY <1>a, <2>5 DEF PlanFits
    <3> QED
      BY <2>6, <3>1 DEF RunFits
  <2>9. ModelsAreWell'
    BY <1>d, <2>6 DEF ModelsAreWell
  <2> QED
    BY <1>b, <2>6, <2>7, <2>8, <2>9 DEF TrainInv
<1>3. CASE SubmitSamples
  <2> DEFINE new == [number |-> training.number, plan |-> plan, part |-> 1]
  <2>1. /\ training.task = "samples" /\ sparkRuns' = sparkRuns \cup {new}
        /\ Goes("polling") /\ UNCHANGED <<plan, candidate>>
    BY <1>3 DEF SubmitSamples
  <2>2. training'.task = "polling" /\ training'.number = training.number
    BY <2>1, TaskEnds DEF TaskNames
  <2>3. TrainTypes'
    <3>1. training' \in [task : TaskNames, end : {0} \cup FirstEnd .. LastEnd,
                         rolling : Nat, skip : BOOLEAN, dry : BOOLEAN, number : Nat]
      BY <2>1, TaskEnds DEF TaskNames
    <3>2. /\ new = [number |-> new.number, plan |-> new.plan, part |-> new.part]
          /\ new.number \in Nat /\ new.number <= training.number
          /\ new.part \in Nat /\ 1 <= new.part
      BY <1>0
    <3> HIDE DEF new
    <3> QED
      BY <1>a, <2>1, <2>2, <3>1, <3>2 DEF TrainInv, TrainTypes
  <2>4. PlanFits(plan) /\ Written(plan, 1)
    BY <2>1 DEF TrainInv, RunFits, Written
  <2>5. JobsFit'
    <3>1. new.plan = plan /\ new.part = 1
      OBVIOUS
    <3> HIDE DEF new
    <3> QED
      BY <1>b, <1>c, <2>1, <2>2, <2>4, <3>1 DEF TrainInv, JobsFit
  <2>6. RunFits' /\ ModelsAreWell'
    BY <1>b, <1>d, <2>1, <2>2, <2>4 DEF RunFits, ModelsAreWell
  <2> QED
    BY <1>b, <2>3, <2>5, <2>6 DEF TrainInv
<1>4. CASE TrainingFails
  <2>1. training'.task = "failed" /\ training'.number = training.number
        /\ UNCHANGED <<sparkRuns, plan, candidate>>
    BY <1>4, TaskEnds DEF TrainingFails, TaskNames
  <2>2. TrainTypes'
    BY <1>4, <1>a, <2>1, TaskEnds DEF TrainInv, TrainTypes, TrainingFails, TaskNames
  <2>3. JobsFit'
    BY <1>b, <1>c, <2>1 DEF TrainInv, JobsFit
  <2>4. RunFits' /\ ModelsAreWell'
    BY <1>d, <2>1 DEF RunFits, ModelsAreWell
  <2> QED
    BY <1>b, <2>2, <2>3, <2>4 DEF TrainInv
<1> QED
  BY <1>1, <1>2, <1>3, <1>4 DEF Prepare

(* Spark: whichever run a job belongs to, it writes full labels.           *)
LEMMA WritePartKeeps ==
    ASSUME TrainInv, NEW job \in sparkRuns, WritePart(job)
    PROVE  TrainInv'
<1> DEFINE part == Parts[job.part]
           anchors == AnchorsOf(job.plan, part)
           next == [job EXCEPT !.part = job.part + 1]
<1>1. /\ job.part \in 1 .. 3 /\ part \in {"train", "holdout", "pos_new"}
      /\ samples' = [samples EXCEPT ![part] = Overwritten(samples[part], anchors)]
      /\ sparkRuns' = (sparkRuns \ {job}) \cup {next}
      /\ UNCHANGED <<silverDays, training, plan, candidate, artifacts>>
  BY PartFacts DEF WritePart, TrainInv, TrainTypes
<1>2. /\ job = [number |-> job.number, plan |-> job.plan, part |-> job.part]
      /\ job.number \in Nat /\ job.number <= training.number
      /\ PlanFits(job.plan) /\ Written(job.plan, job.part)
  BY DEF TrainInv, TrainTypes, JobsFit
<1>3. next = [number |-> job.number, plan |-> job.plan, part |-> job.part + 1]
  BY <1>2
<1> HIDE DEF next
<1>4. ASSUME NEW a \in anchors
      PROVE  /\ a \in Int /\ (HasRows(a) <=> 2 <= a) /\ Label(a) = LabelDays(a)
  <2>1. a \in job.plan.train \cup job.plan.holdout
    BY DEF AnchorsOf
  <2>2. a \in Int /\ a <= silverDays.rent /\ a + Horizon <= silverDays.fault
    BY <1>2, <2>1 DEF PlanFits
  <2> QED
    BY <2>2, RowsOfAnchor, LabelOfAnchor DEF TrainInv
<1> HIDE DEF anchors, part
<1>5. {a \in anchors : HasRows(a)} = Sampled(anchors)
  BY <1>4 DEF Sampled
<1>6. Overwritten(samples[part], anchors) =
         [a \in DOMAIN samples[part] \cup Sampled(anchors) |->
             IF a \in Sampled(anchors) THEN Label(a) ELSE samples[part][a]]
  BY <1>5 DEF Overwritten
<1>7. \A p \in {"train", "holdout", "pos_new"} :
         samples'[p] = IF p = part THEN Overwritten(samples[part], anchors) ELSE samples[p]
  BY <1>1 DEF TrainInv, TrainTypes
<1>8. DOMAIN samples' = {"train", "holdout", "pos_new"}
  BY <1>1 DEF TrainInv, TrainTypes
<1>9. \A p \in {"train", "holdout", "pos_new"} :
         DOMAIN samples[p] \subseteq DOMAIN samples'[p]
  BY <1>6, <1>7
<1>10. Sampled(anchors) \subseteq DOMAIN samples'[part]
  BY <1>1, <1>6, <1>7
<1>11. SamplesAreTrue'
  <2>1. ASSUME NEW p \in {"train", "holdout", "pos_new"}
        PROVE  /\ samples'[p] = [a \in DOMAIN samples'[p] |-> samples'[p][a]]
               /\ \A a \in DOMAIN samples'[p] :
                     a \in Int /\ 2 <= a /\ samples'[p][a] = LabelDays(a)
    <3>1. /\ samples[p] = [a \in DOMAIN samples[p] |-> samples[p][a]]
          /\ \A a \in DOMAIN samples[p] :
                a \in Int /\ 2 <= a /\ samples[p][a] = LabelDays(a)
      BY DEF TrainInv, TrainTypes, SamplesAreTrue, FullLabels
    <3>2. CASE p = part
      <4>1. samples'[p] = [a \in DOMAIN samples[p] \cup Sampled(anchors) |->
                             IF a \in Sampled(anchors) THEN Label(a) ELSE samples[p][a]]
        BY <1>6, <1>7, <3>2
      <4>2. \A a \in Sampled(anchors) : a \in Int /\ 2 <= a /\ Label(a) = LabelDays(a)
        BY <1>4 DEF Sampled
      <4> QED
        BY <3>1, <4>1, <4>2
    <3>3. CASE p # part
      BY <1>7, <3>1, <3>3
    <3> QED
      BY <3>2, <3>3
  <2>2. \A a : LabelDays(a)' = LabelDays(a)
    BY DEF LabelDays
  <2> QED
    BY <1>8, <2>1, <2>2 DEF SamplesAreTrue, FullLabels
<1>12. /\ \A p : PlanFits(p)' <=> PlanFits(p)
       /\ \A m : TrainedWell(m)' <=> TrainedWell(m)
  BY <1>1 DEF TrainedWell, PlanFits, FullLabels, LabelDays, Sampled
<1>13. \A p, n : Written(p, n) => Written(p, n)'
  BY <1>9, PartFacts DEF Written, Sampled, AnchorsOf
<1>14. Written(job.plan, job.part + 1)'
  <2> SUFFICES ASSUME NEW i \in 1 .. 3, i < job.part + 1
               PROVE  Sampled(AnchorsOf(job.plan, Parts[i])) \subseteq DOMAIN samples'[Parts[i]]
    BY DEF Written, Sampled, AnchorsOf
  <2>1. CASE i = job.part
    BY <1>10, <2>1 DEF anchors, part
  <2>2. CASE i < job.part
    <3>1. Sampled(AnchorsOf(job.plan, Parts[i])) \subseteq DOMAIN samples[Parts[i]]
      BY <1>2, <2>2 DEF Written
    <3> QED
      BY <1>9, <3>1, PartFacts
  <2> QED
    BY <1>1, <2>1, <2>2
<1>15. TrainTypes'
  <2>1. /\ next.number = job.number /\ next.part \in Nat /\ 1 <= next.part
        /\ next = [number |-> next.number, plan |-> next.plan, part |-> next.part]
    BY <1>1, <1>3
  <2> QED
    BY <1>1, <1>2, <1>8, <2>1 DEF TrainInv, TrainTypes
<1>16. JobsFit'
  <2>1. next.number = job.number /\ next.plan = job.plan /\ next.part = job.part + 1
    BY <1>3
  <2> QED
    BY <1>1, <1>2, <1>12, <1>13, <1>14, <2>1 DEF TrainInv, JobsFit
<1>17. RunFits'
  BY <1>1, <1>12, <1>13 DEF TrainInv, RunFits
<1>18. ModelsAreWell'
  BY <1>1, <1>12 DEF TrainInv, ModelsAreWell, StoredWell, TestedWell, FullLabels, LabelDays
<1> QED
  BY <1>11, <1>15, <1>16, <1>17, <1>18 DEF TrainInv

LEMMA SparkKeeps ==
    ASSUME TrainInv, Spark
    PROVE  TrainInv'
<1> PICK job \in sparkRuns : WritePart(job) \/ SparkDies(job) \/ SamplesDone(job)
  BY DEF Spark
<1>1. CASE SparkDies(job) \/ SamplesDone(job)
  <2>1. /\ sparkRuns' = sparkRuns \ {job}
        /\ UNCHANGED <<silverDays, plan, samples, candidate, artifacts>>
        /\ \/ training' = training
           \/ /\ training.task = "polling" /\ Goes("assert")
              /\ job.number = training.number /\ job.part > 3
    BY <1>1, PartFacts DEF SparkDies, SamplesDone
  <2>2. /\ \A p : PlanFits(p)' <=> PlanFits(p)
        /\ \A m : TrainedWell(m)' <=> TrainedWell(m)
        /\ \A p, n : Written(p, n)' <=> Written(p, n)
        /\ SamplesAreTrue' /\ StoredWell'
    BY <2>1 DEF TrainedWell, PlanFits, FullLabels, LabelDays, Sampled, Written, TrainInv,
       SamplesAreTrue, ModelsAreWell, StoredWell, TestedWell
  <2>3. CASE training' = training
    <3>1. TrainTypes' /\ JobsFit' /\ RunFits'
      BY <2>1, <2>2, <2>3 DEF TrainInv, TrainTypes, JobsFit, RunFits
    <3>2. ModelsAreWell'
      BY <2>1, <2>2, <2>3 DEF TrainInv, ModelsAreWell, TestedWell, FullLabels, LabelDays
    <3> QED
      BY <2>2, <3>1, <3>2 DEF TrainInv
  <2>4. CASE /\ training.task = "polling" /\ Goes("assert")
             /\ job.number = training.number /\ job.part > 3
    <3>1. /\ training'.task = "assert" /\ training'.number = training.number
          /\ training' \in [task : TaskNames, end : {0} \cup FirstEnd .. LastEnd,
                            rolling : Nat, skip : BOOLEAN, dry : BOOLEAN, number : Nat]
      BY <2>4, TaskEnds DEF TaskNames
    <3>2. TrainTypes'
      BY <2>1, <3>1 DEF TrainInv, TrainTypes
    <3>3. JobsFit'
      BY <2>1, <2>2, <3>1 DEF TrainInv, JobsFit
    <3>4. PlanFits(plan) /\ Written(plan, 4)
      <4>1. job.part \in Nat
        BY DEF TrainInv, TrainTypes
      <4> QED
        BY <2>4, <4>1 DEF TrainInv, JobsFit, Written
    <3>5. RunFits'
      BY <2>1, <2>2, <3>1, <3>4 DEF RunFits
    <3>6. ModelsAreWell'
      BY <2>2, <3>1 DEF ModelsAreWell
    <3> QED
      BY <2>2, <3>2, <3>3, <3>5, <3>6 DEF TrainInv
  <2> QED
    BY <2>1, <2>3, <2>4
<1> QED
  BY <1>1, WritePartKeeps

(* What the tasks read of the plan, once Spark has written all of it.      *)
LEMMA LoadedSamples ==
    ASSUME TrainInv, Written(plan, 4), PlanFits(plan)
    PROVE  /\ DOMAIN LoadSamples("train", plan.train) = Sampled(plan.train)
           /\ FullLabels(LoadSamples("train", plan.train))
           /\ DOMAIN Judged = plan.holdout
           /\ FullLabels(Judged)
<1>1. /\ Sampled(plan.train) \subseteq DOMAIN samples["train"]
      /\ Sampled(plan.holdout) \subseteq DOMAIN samples["holdout"]
      /\ Sampled(plan.holdout) \subseteq DOMAIN samples["pos_new"]
  <2>1. \A i \in 1 .. 3 : Sampled(AnchorsOf(plan, Parts[i])) \subseteq DOMAIN samples[Parts[i]]
    BY DEF Written
  <2>2. /\ Sampled(AnchorsOf(plan, Parts[1])) \subseteq DOMAIN samples[Parts[1]]
        /\ Sampled(AnchorsOf(plan, Parts[2])) \subseteq DOMAIN samples[Parts[2]]
        /\ Sampled(AnchorsOf(plan, Parts[3])) \subseteq DOMAIN samples[Parts[3]]
    BY <2>1
  <2> QED
    BY <2>2, PartFacts DEF AnchorsOf
<1>2. /\ \A a \in DOMAIN samples["train"] : a \in Int /\ 2 <= a /\ samples["train"][a] = LabelDays(a)
      /\ \A a \in DOMAIN samples["holdout"] : samples["holdout"][a] = LabelDays(a)
  BY DEF TrainInv, TrainTypes, SamplesAreTrue, FullLabels
<1>3. Sampled(plan.holdout) = plan.holdout
  BY DEF Sampled, PlanFits
<1>4. plan.train \cap DOMAIN samples["train"] = Sampled(plan.train)
  BY <1>1, <1>2 DEF Sampled
<1>5. LoadSamples("train", plan.train) = [a \in Sampled(plan.train) |-> samples["train"][a]]
  BY <1>4 DEF LoadSamples, Restrict
<1>6. /\ plan.holdout \cap DOMAIN samples["holdout"] = plan.holdout
      /\ plan.holdout \cap DOMAIN samples["holdout"] \cap DOMAIN samples["pos_new"] = plan.holdout
  BY <1>1, <1>3
<1>7. LoadSamples("holdout", plan.holdout) = [a \in plan.holdout |-> samples["holdout"][a]]
  BY <1>6 DEF LoadSamples, Restrict
<1>8. Judged = [a \in plan.holdout |-> samples["holdout"][a]]
  BY <1>6, <1>7 DEF Judged, Restrict
<1>9. FullLabels(LoadSamples("train", plan.train)) /\ FullLabels(Judged)
  BY <1>1, <1>2, <1>3, <1>5, <1>8 DEF FullLabels
<1> QED
  BY <1>5, <1>8, <1>9

LEMMA TrainAndEvaluateKeeps ==
    ASSUME TrainInv, TrainAndEvaluate
    PROVE  TrainInv'
<1>0. {"train", "evaluate", "reported", "save", "promote"} \subseteq TaskNames
  BY DEF TaskNames
<1>1. training.task \in {"assert", "train", "evaluate", "save", "promote"}
  BY DEF TrainAndEvaluate, AssertTrainTable, Train, Evaluate, SaveRun, Promote, TrainAgain
<1>2. PlanFits(plan) /\ Written(plan, 4)
  BY <1>1 DEF TrainInv, RunFits
<1>3. UNCHANGED <<silverDays, plan, sparkRuns, samples>>
  BY DEF TrainAndEvaluate, AssertTrainTable, Train, Evaluate, SaveRun, Promote, TrainAgain
<1>4. CASE AssertTrainTable \/ Train \/ Evaluate \/ Promote \/ TrainAgain
  <2>1. PICK t \in {"train", "evaluate", "reported", "save"} :
          /\ Goes(t)
          /\ t = "evaluate" => Train
          /\ t = "save" => Evaluate
    <3>1. CASE AssertTrainTable \/ TrainAgain
      BY <3>1 DEF AssertTrainTable, TrainAgain
    <3>2. CASE Train
      BY <3>2 DEF Train
    <3>3. CASE Evaluate
      BY <3>3 DEF Evaluate
    <3>4. CASE Promote
      BY <3>4 DEF Promote
    <3> QED
      BY <1>4, <3>1, <3>2, <3>3, <3>4
  <2>2. UNCHANGED artifacts
    BY <1>4 DEF AssertTrainTable, Train, Evaluate, Promote, TrainAgain
  <2>3. /\ TrainTypes' /\ SamplesAreTrue' /\ JobsFit' /\ StoredWell'
        /\ \A m : TrainedWell(m)' <=> TrainedWell(m)
        /\ \A p : PlanFits(p)' <=> PlanFits(p)
        /\ \A n : Written(plan, n)' <=> Written(plan, n)
    BY <1>0, <1>1, <1>3, <2>1, <2>2, OnlyTheRun
  <2>4. training'.task = t
    BY <1>0, <2>1, TaskEnds
  <2>5. RunFits'
    BY <1>2, <1>3, <2>3, <2>4 DEF RunFits
  <2>6. ASSUME t = "evaluate"
        PROVE  TrainedWell(candidate') /\ candidate'.plan = plan
    <3>1. candidate' = [key |-> plan.key, plan |-> plan,
                        trained |-> LoadSamples("train", plan.train)]
      BY <2>1, <2>6 DEF Train
    <3> QED
      BY <1>2, <3>1, LoadedSamples DEF TrainedWell
  <2>7. ASSUME t = "save"
        PROVE  TrainedWell(candidate') /\ TestedWell(candidate')
    <3>1. /\ training.task = "evaluate"
          /\ \E score \in Scores :
                candidate' = [key |-> candidate.key, plan |-> candidate.plan,
                              trained |-> candidate.trained, tested |-> Judged,
                              score |-> score, passed |-> Passed(score) \/ training.skip]
      BY <2>1, <2>7 DEF Evaluate
    <3>2. /\ candidate'.plan = candidate.plan /\ candidate'.trained = candidate.trained
          /\ candidate'.tested = Judged
      BY <3>1
    <3>3. TrainedWell(candidate) /\ candidate.plan = plan
      BY <3>1 DEF TrainInv, ModelsAreWell
    <3> QED
      BY <1>2, <3>2, <3>3, LoadedSamples DEF TrainedWell, TestedWell
  <2>8. ModelsAreWell'
    <3>1. t = "evaluate" => TrainedWell(candidate)' /\ candidate'.plan = plan
      BY <1>3, <2>6 DEF TrainedWell, PlanFits, FullLabels, LabelDays, Sampled
    <3>2. t = "save" => TrainedWell(candidate)' /\ TestedWell(candidate)'
      BY <1>3, <2>7 DEF TrainedWell, PlanFits, FullLabels, LabelDays, Sampled, TestedWell
    <3> QED
      BY <1>3, <2>1, <2>3, <2>4, <3>1, <3>2 DEF ModelsAreWell
  <2> QED
    BY <2>3, <2>5, <2>8 DEF TrainInv
<1>5. CASE SaveRun
  <2>1. /\ training.task = "save" /\ Goes("promote") /\ candidate' = candidate
        /\ artifacts' = [artifacts EXCEPT ![candidate.key] = candidate]
    BY <1>5 DEF SaveRun
  <2>2. TrainedWell(candidate) /\ TestedWell(candidate)
    BY <2>1 DEF TrainInv, ModelsAreWell
  <2>3. training'.task = "promote" /\ training'.number = training.number /\ TrainTypes'
    BY <1>0, <1>3, <2>1, TaskEnds DEF TrainInv, TrainTypes
  <2>4. /\ \A m : TrainedWell(m)' <=> TrainedWell(m)
        /\ \A p : PlanFits(p)' <=> PlanFits(p)
        /\ \A p, n : Written(p, n)' <=> Written(p, n)
        /\ SamplesAreTrue'
    BY <1>3 DEF TrainedWell, PlanFits, FullLabels, LabelDays, Sampled, Written, TrainInv,
       SamplesAreTrue
  <2>5. JobsFit' /\ RunFits'
    BY <1>2, <1>3, <2>1, <2>3, <2>4 DEF TrainInv, JobsFit, RunFits
  <2>6. StoredWell'
    <3>1. /\ DOMAIN artifacts' = DOMAIN artifacts
          /\ \A key \in DOMAIN artifacts :
                artifacts'[key] = candidate \/ artifacts'[key] = artifacts[key]
      BY <2>1
    <3>2. \A key \in DOMAIN artifacts : artifacts'[key] # NoModel =>
             TrainedWell(artifacts'[key]) /\ TestedWell(artifacts'[key])
      BY <2>2, <3>1 DEF TrainInv, ModelsAreWell, StoredWell
    <3> QED
      BY <2>4, <3>1, <3>2 DEF StoredWell, TestedWell, FullLabels, LabelDays
  <2>7. ModelsAreWell'
    BY <2>1, <2>2, <2>3, <2>4, <2>6 DEF ModelsAreWell, TestedWell, FullLabels, LabelDays
  <2> QED
    BY <2>3, <2>4, <2>5, <2>7 DEF TrainInv
<1> QED
  BY <1>4, <1>5 DEF TrainAndEvaluate

LEMMA TrainStep ==
    ASSUME HoldoutDays < FirstEnd, TrainInv, [TrainNext]_trainVars
    PROVE  TrainInv'
<1>1. CASE UNCHANGED trainVars
  <2>1. UNCHANGED <<silverDays, training, plan, sparkRuns, samples, candidate, artifacts>>
    BY <1>1 DEF trainVars
  <2>2. TrainTypes' /\ SamplesAreTrue'
    BY <2>1 DEF TrainInv, TrainTypes, SamplesAreTrue, FullLabels, LabelDays
  <2>3. JobsFit' /\ RunFits'
    BY <2>1 DEF TrainInv, JobsFit, RunFits, Written, PlanFits
  <2>4. ModelsAreWell'
    BY <2>1 DEF TrainInv, ModelsAreWell, StoredWell, TrainedWell, TestedWell, FullLabels,
       LabelDays, PlanFits
  <2> QED
    BY <2>2, <2>3, <2>4 DEF TrainInv
<1> QED
  BY <1>1, SilverGrowsKeeps, PrepareKeeps, SparkKeeps, TrainAndEvaluateKeeps DEF TrainNext

(* A stored model was trained and judged on all of its plan, on labels     *)
(* that were fully observed and end before the holdout begins, whichever   *)
(* JobRuns of earlier plans were still writing (samples.py).  The dates    *)
(* Silver holds are assumed to begin before the first holdout day.         *)
THEOREM ModelsAreHonest ==
    ASSUME HoldoutDays < FirstEnd
    PROVE  TrainSpec => []EvaluatedHonestly
<1>1. TrainInit => TrainInv
  BY TrainInitially
<1>2. TrainInv /\ [TrainNext]_trainVars => TrainInv'
  BY TrainStep
<1>3. TrainInv => EvaluatedHonestly
  <2> SUFFICES ASSUME TrainInv, NEW key \in DOMAIN artifacts, artifacts[key] # NoModel
               PROVE  LET model == artifacts[key] IN
                      /\ DOMAIN model.trained = {a \in model.plan.train : HasRows(a)}
                      /\ DOMAIN model.tested = model.plan.holdout
                      /\ \A a \in DOMAIN model.trained : model.trained[a] = LabelDays(a)
                      /\ \A a \in DOMAIN model.tested : model.tested[a] = LabelDays(a)
                      /\ \A a \in DOMAIN model.trained, day \in DOMAIN model.tested :
                            \A d \in model.trained[a] : d < day
    BY DEF EvaluatedHonestly
  <2> DEFINE model == artifacts[key]
  <2>1. TrainedWell(model) /\ TestedWell(model)
    BY DEF TrainInv, ModelsAreWell, StoredWell
  <2> HIDE DEF model
  <2>2. DOMAIN model.trained = {a \in model.plan.train : HasRows(a)}
    <3>1. \A a \in model.plan.train : HasRows(a) <=> 2 <= a
      BY <2>1, RowsOfAnchor DEF TrainInv, TrainedWell, PlanFits
    <3> QED
      BY <2>1, <3>1 DEF TrainedWell, Sampled
  <2>3. /\ DOMAIN model.tested = model.plan.holdout
        /\ \A a \in DOMAIN model.trained : model.trained[a] = LabelDays(a)
        /\ \A a \in DOMAIN model.tested : model.tested[a] = LabelDays(a)
    BY <2>1 DEF TrainedWell, TestedWell, FullLabels
  <2>4. ASSUME NEW a \in DOMAIN model.trained, NEW day \in DOMAIN model.tested,
               NEW d \in model.trained[a]
        PROVE  d < day
    <3>1. a \in model.plan.train /\ day \in model.plan.holdout
      BY <2>2, <2>3
    <3>2. a \in Int /\ day \in Int /\ a + Horizon <= day
      BY <2>1, <3>1 DEF TrainedWell, PlanFits
    <3>3. d \in a .. a + Horizon - 1
      BY <2>3 DEF LabelDays
    <3> QED
      BY <3>2, <3>3, TrainingBounds
  <2> QED
    BY <2>2, <2>3, <2>4 DEF model
<1> QED
  BY <1>1, <1>2, <1>3, PTL DEF TrainSpec

-----------------------------------------------------------------------------
(* Gold.  The rides and actions are what they are from the beginning; what *)
(* the tables hold of them is compared with all of them.                   *)

GoldEvents == Rides \cup Actions
DimRows == [bike : Fleet, day : Nat]
Baselines(events) == [last : [Fleet -> events \cup {Nothing}], snapshot : Nat]

GoldTypes ==
    /\ date \in Nat
    /\ rides \subseteq Rides /\ actions \subseteq Actions
    /\ rentals \in [rows : SUBSET Rides, to : Nat]
    /\ actionsTo \in Nat
    /\ run \in [ds : Nat, left : SUBSET All, acted : BOOLEAN, whole : BOOLEAN]
    /\ dim \subseteq DimRows
    /\ dimTo \in Nat
    /\ dimJob \in [end : Nat, rest : SUBSET DimRows]
    /\ location \in Baselines(Rides)
    /\ lastAction \in Baselines(Actions)
    /\ inventory \in [Fleet -> GoldEvents \cup {Nothing}]

(* Up to its watermark Silver has every ride.                              *)
SilverHasAll ==
    /\ rentals.rows \subseteq rides
    /\ \A r \in rides : DayOf(r.at) <= rentals.to => r \in rentals.rows

(* A row of gold.dim_bike that says the truth.                             *)
IsFirst(row) ==
    /\ \E r \in rides : r.bike = row.bike /\ DayOf(r.at) = row.day
    /\ \A r \in rides : r.bike = row.bike => row.day <= DayOf(r.at)

Knows(rows, bike) == \E row \in rows : row.bike = bike

(* What a dead run has committed is a prefix: whoever was first seen on or *)
(* before the day of a row is there as well.                               *)
DimFits ==
    /\ dimTo <= rentals.to
    /\ \A row \in dim : IsFirst(row)
    /\ \A r \in rides : DayOf(r.at) <= dimTo => Knows(dim, r.bike)
    /\ \A row \in dim, r \in rides : DayOf(r.at) <= row.day => Knows(dim, r.bike)

DimJobFits ==
    dimJob # NoJob =>
        /\ dimTo <= dimJob.end /\ dimJob.end <= rentals.to
        /\ \A n \in dimJob.rest :
              IsFirst(n) /\ n.day <= dimJob.end /\ ~ Knows(dim, n.bike)
        /\ \A r \in rides :
              DayOf(r.at) <= dimJob.end => Knows(dim \cup dimJob.rest, r.bike)

(* The baseline of a day: no earlier ride is later than what it remembers. *)
Remembers(ds) ==
    \A r \in rides : DayOf(r.at) < ds /\ location.last[r.bike] # Nothing
                     => r.at <= location.last[r.bike].at

(* Whoever came back since origin's cold start is in the baseline.         *)
CoversFrom(origin, ds) ==
    \A r \in rides : DayOf(r.at) \in origin - ColdStart + 1 .. ds - 1
                     => location.last[r.bike] # Nothing

LocationFits ==
    /\ location.snapshot = 0 => \A b \in Fleet : location.last[b] = Nothing
    /\ Remembers(location.snapshot)
    /\ \E origin \in 0 .. date : CoversFrom(origin, location.snapshot)

ActsUntil(ds) ==
    \A a \in actions : DayOf(a.at) < ds => a.at <= lastAction.last[a.bike].at

(* What the tasks of the current run have left behind them.                *)
GoldRunFits ==
    /\ run.ds <= date
    /\ run.left # {} => run.ds # 0
    /\ run.whole /\ "location" \notin run.left =>
          Remembers(run.ds) /\ (run.ds = date => CoversFrom(run.ds, run.ds))
    /\ run.acted => "location" \notin run.left /\ ActsUntil(run.ds)
    /\ run.whole /\ "inventory" \notin run.left =>
          \A b \in Fleet :
            /\ inventory[b] # Nothing =>
                  \A e \in rides \cup actions :
                      e.bike = b /\ DayOf(e.at) < run.ds => e.at <= inventory[b].at
            /\ run.ds = date =>
                  \A r \in rides :
                      r.bike = b /\ DayOf(r.at) \in run.ds - ColdStart + 1 .. run.ds - 1
                      => inventory[b] # Nothing

GoldInv ==
    /\ GoldTypes /\ SilverHasAll /\ DimFits /\ DimJobFits
    /\ LocationFits /\ ActsUntil(lastAction.snapshot) /\ GoldRunFits

LEMMA GoldBounds ==
    /\ ColdStart \in Nat \ {0} /\ StartDay \in Nat \ {0} /\ EndDay \in Nat \ {0}
    /\ DimCaps \subseteq Nat
    /\ \A e \in GoldEvents : e.bike \in Fleet /\ e.at \in 1 .. 2 * EndDay
BY GoldConstants DEF GoldEvents

LEMMA SmallestDay ==
    ASSUME NEW S \in SUBSET Nat, S # {}
    PROVE  Min(S) \in S /\ \A y \in S : Min(S) <= y
<1>1. PICK x \in S : \A u \in S : ~ (<<u, x>> \in OpToRel(<, Nat))
  BY NatLessThanWellFounded, WFMin
<1>2. \A u \in S : ~ (u < x)
  BY <1>1 DEF OpToRel
<1>3. \A u \in S : x <= u
  BY <1>2
<1> QED
  BY <1>3 DEF Min

LEMMA TwoDays ==
    ASSUME NEW i \in Nat, NEW j \in Nat
    PROVE  /\ Min({i, j}) \in {i, j} /\ Min({i, j}) <= i /\ Min({i, j}) <= j
           /\ Max({i, j}) \in {i, j} /\ i <= Max({i, j}) /\ j <= Max({i, j})
<1>1. Min({i, j}) \in {i, j} /\ Min({i, j}) <= i /\ Min({i, j}) <= j
  <2>1. {i, j} \in SUBSET Nat /\ {i, j} # {}
    OBVIOUS
  <2> QED
    BY <2>1, SmallestDay
<1>2. \E x \in {i, j} : \A y \in {i, j} : x >= y
  OBVIOUS
<1>3. Max({i, j}) \in {i, j} /\ \A y \in {i, j} : Max({i, j}) >= y
  BY <1>2 DEF Max
<1> QED
  BY <1>1, <1>3

(* Days and times.                                                         *)
LEMMA EventFacts ==
    ASSUME NEW e \in GoldEvents
    PROVE  /\ e.bike \in Fleet /\ e.at \in Nat /\ 1 <= e.at /\ e.at <= 2 * EndDay
           /\ DayOf(e.at) \in Nat /\ 1 <= DayOf(e.at) /\ e # Nothing
<1>1. /\ e.bike \in Fleet /\ e.at \in Nat /\ 1 <= e.at /\ e.at <= 2 * EndDay
  BY GoldBounds
<1>2. DayOf(e.at) \in Nat /\ 1 <= DayOf(e.at)
  BY <1>1 DEF DayOf
<1>3. e # Nothing
  BY <1>1 DEF Nothing
<1> QED
  BY <1>1, <1>2, <1>3

LEMMA LaterDayIsLater ==
    ASSUME NEW e \in GoldEvents, NEW f \in GoldEvents
    PROVE  DayOf(e.at) < DayOf(f.at) => e.at <= f.at
BY EventFacts DEF DayOf

LEMMA SameFirst ==
    ASSUME NEW p \in DimRows, NEW q \in DimRows, rides \subseteq Rides,
           IsFirst(p), IsFirst(q), p.bike = q.bike
    PROVE  p = q
<1>1. p.day <= q.day /\ q.day <= p.day
  BY DEF IsFirst
<1>2. p.day \in Nat /\ q.day \in Nat
  BY DEF DimRows
<1>3. p.day = q.day
  BY <1>1, <1>2
<1> QED
  BY <1>3 DEF DimRows

(* The day a bike is first seen on, in a set of rides.                     *)
LEMMA FirstSeenFacts ==
    ASSUME NEW rows \in SUBSET Rides, NEW q \in rows
    PROVE  /\ FirstSeen(rows, q.bike) \in DimRows
           /\ FirstSeen(rows, q.bike).bike = q.bike
           /\ \E r \in rows : r.bike = q.bike /\ DayOf(r.at) = FirstSeen(rows, q.bike).day
           /\ \A r \in rows : r.bike = q.bike => FirstSeen(rows, q.bike).day <= DayOf(r.at)
<1> DEFINE mine == {r \in rows : r.bike = q.bike}
           days == {DayOf(r.at) : r \in mine}
<1>1. \A r \in rows : r \in GoldEvents
  BY DEF GoldEvents
<1>2. days \in SUBSET Nat /\ days # {}
  BY <1>1, EventFacts
<1>3. Min(days) \in days /\ \A y \in days : Min(days) <= y
  <2> HIDE DEF days
  <2> QED
    BY <1>2, SmallestDay
<1>4. FirstSeen(rows, q.bike) = [bike |-> q.bike, day |-> Min(days)]
  BY DEF FirstSeen
<1>5. q.bike \in Fleet
  BY <1>1, EventFacts
<1> HIDE DEF days
<1>6. \A r \in mine : DayOf(r.at) \in days
  BY DEF days
<1>7. \E r \in mine : DayOf(r.at) = Min(days)
  BY <1>3 DEF days
<1>8. FirstSeen(rows, q.bike) \in DimRows
  <2>1. Min(days) \in Nat
    BY <1>2, <1>3
  <2> QED
    BY <1>4, <1>5, <2>1 DEF DimRows
<1> QED
  BY <1>3, <1>4, <1>6, <1>7, <1>8

LEMMA NewestFacts ==
    ASSUME NEW events \in SUBSET GoldEvents, NEW b
    PROVE  \/ /\ \A e \in events : e.bike # b
              /\ Newest(events, b) = Nothing
           \/ /\ Newest(events, b) \in events /\ Newest(events, b).bike = b
              /\ \A e \in events : e.bike = b => e.at <= Newest(events, b).at
<1> DEFINE mine == {e \in events : e.bike = b}
<1>1. CASE mine = {}
  BY <1>1 DEF Newest
<1>2. CASE mine # {}
  <2>1. \A r \in mine : r.at \in 0 .. 2 * EndDay
    BY EventFacts
  <2>2. 2 * EndDay \in Nat
    BY GoldBounds
  <2>3. \E r \in mine : \A q \in mine : q.at <= r.at
    <3> HIDE DEF mine
    <3> QED
      BY <1>2, <2>1, <2>2, LatestRow
  <2>4. Newest(events, b) = CHOOSE e \in mine : \A f \in mine : f.at <= e.at
    BY <1>2 DEF Newest
  <2>5. Newest(events, b) \in mine /\ \A f \in mine : f.at <= Newest(events, b).at
    <3> HIDE DEF mine
    <3> QED
      BY <2>3, <2>4
  <2> QED
    BY <2>5
<1> QED
  BY <1>1, <1>2

(* Baseline and delta, bike by bike.                                       *)
Updates(m, table, delta, ds) ==
    /\ m.snapshot \in {0, ds}
    /\ m.snapshot = 0 /\ ds # 0 => \A b \in Fleet : m.last[b] = Nothing
    /\ \A b \in Fleet :
          /\ \/ m.last[b] = table.last[b]
             \/ m.last[b] \in delta /\ m.last[b].bike = b
          /\ table.last[b].at <= m.last[b].at
          /\ table.last[b] # Nothing => m.last[b] # Nothing
    /\ \A e \in delta : /\ e.at <= m.last[e.bike].at
                        /\ m.last[e.bike] # Nothing

LEMMA MergedFacts ==
    ASSUME NEW S \in SUBSET GoldEvents, NEW delta \in SUBSET S, NEW ds \in Nat,
           NEW table \in Baselines(S), NEW m, m = Merged(table, delta, ds)
    PROVE  m \in Baselines(S) /\ Updates(m, table, delta, ds)
<1> DEFINE Last(b) == IF Newest(delta, b).at > table.last[b].at
                      THEN Newest(delta, b) ELSE table.last[b]
           last == [b \in Fleet |-> Last(b)]
<1>1. m = [last |-> last,
           snapshot |-> IF \A b \in Fleet : last[b] = Nothing THEN 0 ELSE ds]
  BY DEF Merged
<1>2. delta \in SUBSET GoldEvents
  OBVIOUS
<1>3. ASSUME NEW b \in Fleet
      PROVE  /\ Last(b) \in S \cup {Nothing}
             /\ Last(b) = table.last[b] \/ (Last(b) \in delta /\ Last(b).bike = b)
             /\ table.last[b].at <= Last(b).at
             /\ table.last[b] # Nothing => Last(b) # Nothing
             /\ \A e \in delta : e.bike = b => e.at <= Last(b).at /\ Last(b) # Nothing
  <2> DEFINE d == Newest(delta, b)
             t == table.last[b]
  <2>1. t \in S \cup {Nothing}
    BY DEF Baselines
  <2>2. t.at \in Nat
    BY <2>1, EventFacts DEF Nothing
  <2>3. CASE d = Nothing /\ \A e \in delta : e.bike # b
    <3>1. ~ (d.at > t.at)
      BY <2>2, <2>3 DEF Nothing
    <3>2. Last(b) = t
      BY <3>1
    <3> HIDE DEF Last, d
    <3> QED
      BY <2>1, <2>2, <2>3, <3>2
  <2>4. CASE /\ d \in delta /\ d.bike = b
             /\ \A e \in delta : e.bike = b => e.at <= d.at
    <3>1. d.at \in Nat /\ 1 <= d.at /\ d # Nothing /\ d \in S
      BY <1>2, <2>4, EventFacts
    <3>2. \A e \in delta : e.at \in Nat /\ 1 <= e.at
      BY <1>2, EventFacts
    <3>3. CASE d.at > t.at
      <4>1. Last(b) = d
        BY <3>3
      <4> HIDE DEF Last, d
      <4> QED
        BY <2>2, <2>4, <3>1, <3>3, <4>1
    <3>4. CASE ~ (d.at > t.at)
      <4>1. Last(b) = t
        BY <3>4
      <4>2. t # Nothing
        BY <3>1, <3>4 DEF Nothing
      <4> HIDE DEF Last, d
      <4> QED
        BY <2>1, <2>2, <2>4, <3>1, <3>2, <3>4, <4>1, <4>2
    <3> QED
      BY <3>3, <3>4
  <2> QED
    BY <1>2, <2>3, <2>4, NewestFacts
<1> HIDE DEF Last
<1>4. \A b \in Fleet : last[b] = Last(b)
  OBVIOUS
<1>5. \A e \in delta : e.bike \in Fleet
  BY <1>2, EventFacts
<1>6. m \in Baselines(S)
  BY <1>1, <1>3 DEF Baselines
<1>7. m.last = last /\ m.snapshot \in {0, ds}
  BY <1>1
<1>8. m.snapshot = 0 /\ ds # 0 => \A b \in Fleet : m.last[b] = Nothing
  BY <1>1
<1> HIDE DEF last
<1>9. \A e \in delta : /\ e.at <= m.last[e.bike].at
                       /\ m.last[e.bike] # Nothing
  BY <1>3, <1>4, <1>5, <1>7
<1>10. \A b \in Fleet :
          /\ m.last[b] = table.last[b] \/ (m.last[b] \in delta /\ m.last[b].bike = b)
          /\ table.last[b].at <= m.last[b].at
          /\ table.last[b] # Nothing => m.last[b] # Nothing
  BY <1>3, <1>4, <1>7
<1> QED
  BY <1>6, <1>7, <1>8, <1>9, <1>10 DEF Updates

-----------------------------------------------------------------------------
(* The steps of gold_dim_fact and of what goes on around it.               *)

LEMMA GoldInitially == GoldInit => GoldInv
<1> SUFFICES ASSUME GoldInit PROVE GoldInv
  OBVIOUS
<1>1. GoldTypes
  BY GoldBounds DEF GoldInit, GoldTypes, Baselines, Empty, NoJob, Nothing, All
<1>2. \A r \in rides : 1 <= DayOf(r.at) /\ DayOf(r.at) \in Nat
  BY EventFacts DEF GoldInit, GoldEvents
<1>3. SilverHasAll /\ DimFits /\ DimJobFits
  BY <1>2 DEF GoldInit, SilverHasAll, DimFits, DimJobFits
<1>4. \A a \in actions : 1 <= DayOf(a.at) /\ DayOf(a.at) \in Nat
  BY EventFacts DEF GoldInit, GoldEvents
<1>5. LocationFits
  <2>1. Remembers(0)
    BY <1>2 DEF GoldInit, Remembers, Empty
  <2>2. CoversFrom(0, 0)
    BY <1>2 DEF GoldInit, CoversFrom
  <2>3. 0 \in 0 .. date
    BY <1>1 DEF GoldTypes
  <2> QED
    BY <2>1, <2>2, <2>3 DEF GoldInit, LocationFits, Empty
<1>6. ActsUntil(lastAction.snapshot)
  BY <1>4 DEF GoldInit, ActsUntil, Empty
<1>7. GoldRunFits
  BY GoldBounds DEF GoldInit, GoldRunFits
<1> QED
  BY <1>1, <1>3, <1>5, <1>6, <1>7 DEF GoldInv

(* Silver moves on under the feet of a task.                               *)
LEMMA SilverStepsKeep ==
    ASSUME GoldInv, SilverSteps
    PROVE  GoldInv'
<1>0. OnlySilver
  BY DEF SilverSteps, SilverDay, SilverSameDay, SilverActions
<1>1. GoldTypes /\ SilverHasAll
  BY DEF GoldInv
<1>2. \A r \in rides : r \in Rides /\ DayOf(r.at) \in Nat
  BY <1>1, EventFacts DEF GoldTypes, GoldEvents
<1>3. /\ rentals' \in [rows : SUBSET Rides, to : Nat]
      /\ actionsTo' \in Nat
      /\ rentals.to <= rentals'.to
      /\ SilverHasAll'
  <2>1. CASE SilverDay
    <3>1. /\ rentals'.rows = rentals.rows \cup {r \in rides : DayOf(r.at) = rentals.to + 1}
          /\ rentals'.to = rentals.to + 1 /\ DOMAIN rentals' = {"rows", "to"}
          /\ actionsTo' = actionsTo /\ rides' = rides
          /\ rentals' = [rows |-> rentals'.rows, to |-> rentals'.to]
      BY <2>1, <1>0 DEF SilverDay, OnlySilver
    <3>2. rentals.to \in Nat /\ rentals.rows \in SUBSET Rides /\ actionsTo \in Nat
      BY <1>1 DEF GoldTypes
    <3>3. rentals' \in [rows : SUBSET Rides, to : Nat]
      BY <1>2, <3>1, <3>2
    <3>4. SilverHasAll'
      BY <1>1, <1>2, <3>1, <3>2 DEF SilverHasAll
    <3> QED
      BY <3>1, <3>2, <3>3, <3>4
  <2>2. CASE SilverSameDay
    <3>1. /\ rentals'.rows = rentals.rows \cup {r \in rides : r.at = 2 * date - 1}
          /\ rentals'.to = rentals.to /\ actionsTo' = actionsTo /\ rides' = rides
          /\ rentals' \in [rows : SUBSET Rides, to : Nat]
      BY <2>2, <1>0, <1>1, <1>2 DEF SilverSameDay, OnlySilver, GoldTypes
    <3>2. rentals.to \in Nat /\ actionsTo \in Nat
      BY <1>1 DEF GoldTypes
    <3> QED
      BY <1>1, <3>1, <3>2 DEF SilverHasAll
  <2>3. CASE SilverActions
    BY <2>3, <1>0, <1>1 DEF SilverActions, OnlySilver, GoldTypes, SilverHasAll
  <2> QED
    BY <2>1, <2>2, <2>3 DEF SilverSteps
<1>4. GoldTypes'
  BY <1>0, <1>1, <1>3 DEF GoldTypes, OnlySilver
<1>5. DimFits' /\ DimJobFits'
  <2>1. /\ rentals.to \in Nat /\ rentals'.to \in Nat /\ dimTo \in Nat
        /\ dimJob.end \in Nat
    BY <1>1, <1>3 DEF GoldTypes
  <2>2. DimFits'
    BY <1>0, <1>3, <2>1 DEF GoldInv, DimFits, OnlySilver, IsFirst, Knows
  <2>3. DimJobFits'
    BY <1>0, <1>3, <2>1 DEF GoldInv, DimJobFits, OnlySilver, IsFirst, Knows
  <2> QED
    BY <2>2, <2>3
<1>6. LocationFits' /\ ActsUntil(lastAction.snapshot)' /\ GoldRunFits'
  BY <1>0 DEF GoldInv, LocationFits, ActsUntil, GoldRunFits, OnlySilver, Remembers, CoversFrom
<1> QED
  BY <1>3, <1>4, <1>5, <1>6 DEF GoldInv

(* Midnight.  Nothing is said any more of the day of an earlier run.       *)
LEMMA TomorrowKeeps ==
    ASSUME GoldInv, Tomorrow
    PROVE  GoldInv'
<1>1. /\ date' = date + 1 /\ date \in Nat /\ run.ds \in Nat
      /\ UNCHANGED <<rides, actions, rentals, actionsTo, run, dim, dimTo, dimJob,
                     location, lastAction, inventory>>
  BY DEF GoldInv, GoldTypes, Tomorrow
<1>2. GoldTypes'
  BY <1>1 DEF GoldInv, GoldTypes
<1>3. SilverHasAll' /\ DimFits' /\ DimJobFits' /\ ActsUntil(lastAction.snapshot)'
  BY <1>1 DEF GoldInv, SilverHasAll, DimFits, DimJobFits, ActsUntil, IsFirst, Knows
<1>4. LocationFits'
  <2>1. PICK origin \in 0 .. date : CoversFrom(origin, location.snapshot)
    BY DEF GoldInv, LocationFits
  <2>2. origin \in (0 .. date)' /\ CoversFrom(origin, location.snapshot)'
    BY <1>1, <2>1 DEF CoversFrom
  <2>3. Remembers(location.snapshot)'
    BY <1>1 DEF GoldInv, LocationFits, Remembers
  <2> QED
    BY <1>1, <2>2, <2>3 DEF GoldInv, LocationFits
<1>5. GoldRunFits'
  <2>1. run.ds <= date /\ run'.ds < date'
    BY <1>1 DEF GoldInv, GoldRunFits
  <2>2. run'.ds <= date' /\ run'.ds # date'
    BY <1>1, <2>1
  <2> QED
    BY <1>1, <2>2 DEF GoldInv, GoldRunFits, Remembers, ActsUntil
<1> QED
  BY <1>2, <1>3, <1>4, <1>5 DEF GoldInv

(* A DagRun begins with nothing done, or is given up.                      *)
LEMMA RunStepsKeep ==
    ASSUME GoldInv, StartRun \/ RunGivesUp
    PROVE  GoldInv'
<1>1. /\ UNCHANGED <<date, rides, actions, rentals, actionsTo, dim, dimTo,
                     location, lastAction, inventory>>
      /\ dimJob' = dimJob \/ dimJob' = NoJob
  BY DEF StartRun, RunGivesUp, OnlyRun
<1>2. GoldTypes
  BY DEF GoldInv
<1>3. dimJob' \in [end : Nat, rest : SUBSET DimRows]
  BY <1>1, <1>2 DEF GoldTypes, NoJob
<1>4. SilverHasAll' /\ DimFits' /\ DimJobFits' /\ ActsUntil(lastAction.snapshot)'
  BY <1>1 DEF GoldInv, SilverHasAll, DimFits, DimJobFits, ActsUntil, IsFirst, Knows
<1>5. LocationFits'
  BY <1>1 DEF GoldInv, LocationFits, Remembers, CoversFrom
<1>6. run' \in [ds : Nat, left : SUBSET All, acted : BOOLEAN, whole : BOOLEAN] /\ GoldRunFits'
  <2>1. CASE StartRun
    <3>1. PICK ds \in StartDay .. date, cleared \in SUBSET All \ {{}} :
             run' = [ds |-> ds, left |-> cleared, acted |-> FALSE,
                     whole |-> {"location", "inventory"} \subseteq cleared]
      BY <2>1 DEF StartRun
    <3>2. ds \in Nat /\ ds <= date /\ ds # 0
      BY <1>2, GoldBounds DEF GoldTypes
    <3>3. run' \in [ds : Nat, left : SUBSET All, acted : BOOLEAN, whole : BOOLEAN]
      BY <3>1, <3>2
    <3>4. /\ run'.ds = ds /\ ~ run'.acted /\ run'.left = cleared
          /\ run'.whole => "location" \in run'.left /\ "inventory" \in run'.left
      BY <3>1
    <3>5. GoldRunFits'
      BY <1>1, <3>2, <3>4 DEF GoldRunFits
    <3> QED
      BY <3>3, <3>5
  <2>2. CASE RunGivesUp
    <3>1. run' \in [ds : Nat, left : SUBSET All, acted : BOOLEAN, whole : BOOLEAN]
      BY <1>2, <2>2 DEF RunGivesUp, GoldTypes, All
    <3>2. /\ run'.ds = run.ds /\ run'.left = {} /\ ~ run'.whole /\ run'.acted = run.acted
      BY <1>2, <2>2 DEF RunGivesUp, GoldTypes
    <3>3. GoldRunFits'
      BY <1>1, <3>2 DEF GoldInv, GoldRunFits, ActsUntil
    <3> QED
      BY <3>1, <3>3
  <2> QED
    BY <2>1, <2>2
<1>7. GoldTypes'
  BY <1>1, <1>2, <1>3, <1>6 DEF GoldTypes
<1> QED
  BY <1>4, <1>5, <1>6, <1>7 DEF GoldInv

(* A step of build_dim_bike leaves the rest alone, and strikes at most      *)
(* itself off what is left to do.                                          *)
LEMMA DimStepKeeps ==
    ASSUME GoldInv, OnlyDim, run' = run \/ run' = Done("dim"),
           dimTo' \in Nat, dimJob' \in [end : Nat, rest : SUBSET DimRows],
           dim' \subseteq DimRows, DimFits', DimJobFits'
    PROVE  GoldInv'
<1>1. UNCHANGED <<date, rides, actions, rentals, actionsTo, location, lastAction, inventory>>
  BY DEF OnlyDim
<1>2. /\ run' \in [ds : Nat, left : SUBSET All, acted : BOOLEAN, whole : BOOLEAN]
      /\ run'.ds = run.ds /\ run'.acted = run.acted /\ run'.whole = run.whole
      /\ run'.left \subseteq run.left
      /\ "location" \in run.left => "location" \in run'.left
      /\ "inventory" \in run.left => "inventory" \in run'.left
  BY DEF GoldInv, GoldTypes, Done
<1>3. GoldTypes'
  BY <1>1, <1>2 DEF GoldInv, GoldTypes
<1>4. SilverHasAll' /\ LocationFits' /\ ActsUntil(lastAction.snapshot)'
  BY <1>1 DEF GoldInv, SilverHasAll, LocationFits, Remembers, CoversFrom, ActsUntil
<1>5. GoldRunFits'
  BY <1>1, <1>2 DEF GoldInv, GoldRunFits, Remembers, CoversFrom, ActsUntil
<1> QED
  BY <1>3, <1>4, <1>5 DEF GoldInv

(* What a run takes for new is new, and first seen on the day it says.     *)
LEMMA NewBikesFacts ==
    ASSUME GoldInv, NEW end \in Nat, dimTo <= end, end <= rentals.to,
           NEW range, range = {r \in rentals.rows : DayOf(r.at) \in dimTo + 1 .. end}
    PROVE  /\ NewBikes(range) \subseteq DimRows
           /\ \A n \in NewBikes(range) :
                 IsFirst(n) /\ n.day <= end /\ ~ Knows(dim, n.bike)
           /\ \A r \in rides :
                 DayOf(r.at) <= end => Knows(dim \cup NewBikes(range), r.bike)
<1>1. /\ rentals.rows \subseteq rides /\ rides \subseteq Rides
      /\ dimTo \in Nat /\ rentals.to \in Nat
      /\ \A r \in rides : DayOf(r.at) <= rentals.to => r \in rentals.rows
      /\ \A r \in rides : DayOf(r.at) <= dimTo => Knows(dim, r.bike)
  BY DEF GoldInv, GoldTypes, SilverHasAll, DimFits
<1>2. range \in SUBSET Rides
  BY <1>1
<1>3. \A r \in rides : DayOf(r.at) \in Nat
  BY <1>1, EventFacts DEF GoldEvents
<1>4. \A r \in rides : r \in range <=> dimTo + 1 <= DayOf(r.at) /\ DayOf(r.at) <= end
  BY <1>1, <1>3
<1>5. ASSUME NEW n \in NewBikes(range)
      PROVE  n \in DimRows /\ IsFirst(n) /\ n.day <= end /\ ~ Knows(dim, n.bike)
  <2>1. PICK q \in range : n = FirstSeen(range, q.bike) /\ ~ Knows(dim, q.bike)
    BY DEF NewBikes, Knows
  <2>2. /\ n \in DimRows /\ n.bike = q.bike
        /\ \E r \in range : r.bike = q.bike /\ DayOf(r.at) = n.day
        /\ \A r \in range : r.bike = q.bike => n.day <= DayOf(r.at)
    BY <1>2, <2>1, FirstSeenFacts
  <2>3. n.day \in Nat /\ n.day <= end
    BY <1>1, <1>4, <2>2 DEF DimRows
  <2>4. ASSUME NEW r \in rides, r.bike = n.bike
        PROVE  n.day <= DayOf(r.at)
    <3>1. ~ (DayOf(r.at) <= dimTo)
      BY <1>1, <2>1, <2>2, <2>4
    <3>2. CASE DayOf(r.at) <= end
      BY <1>1, <1>3, <1>4, <2>2, <2>4, <3>1, <3>2
    <3>3. CASE end < DayOf(r.at)
      BY <1>3, <2>3, <3>3
    <3> QED
      BY <1>3, <3>2, <3>3
  <2>5. \E r \in rides : r.bike = n.bike /\ DayOf(r.at) = n.day
    BY <1>1, <2>2
  <2> QED
    BY <2>1, <2>2, <2>3, <2>4, <2>5 DEF IsFirst
<1>6. ASSUME NEW r \in rides, DayOf(r.at) <= end
      PROVE  Knows(dim \cup NewBikes(range), r.bike)
  <2>1. CASE Knows(dim, r.bike)
    BY <2>1 DEF Knows
  <2>2. CASE ~ Knows(dim, r.bike)
    <3>1. r \in range
      BY <1>1, <1>3, <1>4, <1>6, <2>2
    <3>2. FirstSeen(range, r.bike) \in NewBikes(range)
      BY <2>2, <3>1 DEF NewBikes, Knows
    <3>3. FirstSeen(range, r.bike).bike = r.bike
      BY <1>2, <3>1, FirstSeenFacts
    <3> QED
      BY <3>2, <3>3 DEF Knows
  <2> QED
    BY <2>1, <2>2
<1> QED
  BY <1>5, <1>6

LEMMA DimReadKeeps ==
    ASSUME GoldInv, DimRead
    PROVE  GoldInv'
<1>1. /\ dimJob = NoJob /\ dim' = dim /\ OnlyDim
  BY DEF DimRead
<1>2. PICK cap \in DimCaps :
         LET end == RangeEnd(cap)
             new == NewBikes({r \in rentals.rows : DayOf(r.at) \in dimTo + 1 .. end})
         IN IF new = {}
            THEN /\ dimTo' = Max({dimTo, end})
                 /\ run' = Done("dim")
                 /\ UNCHANGED dimJob
            ELSE /\ dimJob' = [end |-> end, rest |-> new]
                 /\ UNCHANGED <<dimTo, run>>
  BY DEF DimRead
<1> DEFINE end == RangeEnd(cap)
           range == {r \in rentals.rows : DayOf(r.at) \in dimTo + 1 .. end}
           new == NewBikes(range)
<1>3. /\ rentals.to \in Nat /\ dimTo \in Nat /\ dimTo <= rentals.to /\ cap \in Nat
      /\ dimJob \in [end : Nat, rest : SUBSET DimRows] /\ dim \subseteq DimRows
  BY GoldBounds DEF GoldInv, GoldTypes, DimFits
<1>4. end \in Nat /\ dimTo <= end /\ end <= rentals.to
  <2>1. CASE cap = 0
    BY <1>3, <2>1 DEF RangeEnd
  <2>2. CASE cap # 0
    <3>1. dimTo + cap \in Nat /\ end = Min({rentals.to, dimTo + cap})
      BY <1>3, <2>2 DEF RangeEnd
    <3>2. end \in {rentals.to, dimTo + cap} /\ end <= rentals.to
      BY <1>3, <3>1, TwoDays
    <3> QED
      BY <1>3, <3>2
  <2> QED
    BY <2>1, <2>2
<1>5. /\ new = {} => dimTo' = Max({dimTo, end}) /\ run' = Done("dim") /\ dimJob' = dimJob
      /\ new # {} => dimJob' = [end |-> end, rest |-> new] /\ dimTo' = dimTo /\ run' = run
  BY <1>2
<1> HIDE DEF end
<1>6. /\ new \subseteq DimRows
      /\ \A n \in new : IsFirst(n) /\ n.day <= end /\ ~ Knows(dim, n.bike)
      /\ \A r \in rides : DayOf(r.at) <= end => Knows(dim \cup new, r.bike)
  BY <1>4, NewBikesFacts
<1> HIDE DEF new
<1>7. rides' = rides /\ rentals' = rentals
  BY <1>1 DEF OnlyDim
<1>8. CASE new = {}
  <2>1. dimTo' = end
    BY <1>3, <1>4, <1>5, <1>8, TwoDays
  <2>2. DimFits'
    BY <1>1, <1>4, <1>6, <1>7, <1>8, <2>1 DEF GoldInv, DimFits, IsFirst, Knows
  <2>3. DimJobFits'
    BY <1>1, <1>5, <1>8 DEF DimJobFits
  <2> QED
    BY <1>1, <1>3, <1>4, <1>5, <1>8, <2>1, <2>2, <2>3, DimStepKeeps
<1>9. CASE new # {}
  <2>1. DimFits'
    BY <1>1, <1>5, <1>7, <1>9 DEF GoldInv, DimFits, IsFirst, Knows
  <2>2. dimJob'.end = end /\ dimJob'.rest = new
    BY <1>5, <1>9
  <2>3. DimJobFits'
    BY <1>1, <1>4, <1>5, <1>6, <1>7, <1>9, <2>2 DEF DimJobFits, IsFirst, Knows
  <2>4. dimJob' \in [end : Nat, rest : SUBSET DimRows]
    BY <1>4, <1>5, <1>6, <1>9
  <2> QED
    BY <1>1, <1>3, <1>5, <1>9, <2>1, <2>3, <2>4, DimStepKeeps
<1> QED
  BY <1>8, <1>9

(* The partition that is written over holds nothing: whoever was seen on   *)
(* the day of a committed row was committed with it.                       *)
LEMMA DimCommitKeeps ==
    ASSUME GoldInv, DimCommit
    PROVE  GoldInv'
<1> DEFINE day == Min({n.day : n \in dimJob.rest})
           chunk == {n \in dimJob.rest : n.day = day}
<1>1. /\ dimJob.rest # {} /\ OnlyDim /\ run' = run /\ dimTo' = dimTo
      /\ dim' = {known \in dim : known.day # day} \cup chunk
      /\ dimJob' = [dimJob EXCEPT !.rest = @ \ chunk]
  BY DEF DimCommit
<1>2. /\ dimJob \in [end : Nat, rest : SUBSET DimRows] /\ dim \subseteq DimRows
      /\ dimTo \in Nat /\ rides \subseteq Rides
  BY DEF GoldInv, GoldTypes
<1>3. \A n \in dimJob.rest : n \in DimRows /\ n.day \in Nat
  BY <1>2 DEF DimRows
<1>4. day \in Nat /\ (\E n \in dimJob.rest : n.day = day) /\ \A n \in dimJob.rest : day <= n.day
  <2> DEFINE days == {n.day : n \in dimJob.rest}
  <2>1. days \in SUBSET Nat /\ days # {}
    BY <1>1, <1>3
  <2>2. Min(days) \in days /\ \A y \in days : Min(days) <= y
    <3> HIDE DEF days
    <3> QED
      BY <2>1, SmallestDay
  <2> QED
    BY <1>3, <2>2
<1>5. /\ dimJob'.end = dimJob.end /\ dimJob'.rest = dimJob.rest \ chunk
      /\ dimJob' \in [end : Nat, rest : SUBSET DimRows]
  BY <1>1, <1>2
<1> HIDE DEF day
<1>6. /\ dimTo <= dimJob.end /\ dimJob.end <= rentals.to
      /\ \A n \in dimJob.rest :
            IsFirst(n) /\ n.day <= dimJob.end /\ ~ Knows(dim, n.bike)
      /\ \A r \in rides :
            DayOf(r.at) <= dimJob.end => Knows(dim \cup dimJob.rest, r.bike)
  <2>1. dimJob # NoJob
    BY <1>1 DEF NoJob
  <2> QED
    BY <2>1 DEF GoldInv, DimJobFits
<1>7. /\ dimTo <= rentals.to
      /\ \A row \in dim : IsFirst(row) /\ row.day \in Nat
      /\ \A r \in rides : DayOf(r.at) <= dimTo => Knows(dim, r.bike)
      /\ \A row \in dim, r \in rides : DayOf(r.at) <= row.day => Knows(dim, r.bike)
  BY <1>2 DEF GoldInv, DimFits, DimRows
<1>8. \A known \in dim : known.day # day
  <2> SUFFICES ASSUME NEW known \in dim, known.day = day PROVE FALSE
    OBVIOUS
  <2>1. PICK n \in dimJob.rest : n.day = day
    BY <1>4
  <2>2. PICK r \in rides : r.bike = n.bike /\ DayOf(r.at) = n.day
    BY <1>6 DEF IsFirst
  <2>3. Knows(dim, r.bike)
    BY <1>4, <1>7, <2>1, <2>2
  <2> QED
    BY <1>6, <2>2, <2>3
<1>9. dim' = dim \cup chunk
  BY <1>1, <1>8
<1>10. /\ rides' = rides /\ rentals' = rentals
       /\ \A r \in rides : DayOf(r.at) \in Nat
  BY <1>1, <1>2, EventFacts DEF OnlyDim, GoldEvents
<1>11. ASSUME NEW n \in chunk, NEW r \in rides, DayOf(r.at) <= n.day
       PROVE  Knows(dim', r.bike)
  <2>1. n.day = day /\ n \in dimJob.rest /\ n.day \in Nat /\ n.day <= dimJob.end
    BY <1>3, <1>6
  <2>2. DayOf(r.at) <= dimJob.end
    BY <1>2, <1>10, <1>11, <2>1
  <2>3. PICK row \in dim \cup dimJob.rest : row.bike = r.bike
    BY <1>6, <2>2 DEF Knows
  <2>4. CASE row \in dim
    BY <1>9, <2>3, <2>4 DEF Knows
  <2>5. CASE row \in dimJob.rest
    <3>1. row.day <= DayOf(r.at) /\ row.day \in Nat
      BY <1>3, <1>6, <2>3, <2>5 DEF IsFirst
    <3>2. day <= row.day
      BY <1>4, <2>5
    <3>3. row.day = day
      BY <1>4, <1>10, <1>11, <2>1, <3>1, <3>2
    <3> QED
      BY <1>9, <2>3, <2>5, <3>3 DEF Knows
  <2> QED
    BY <2>3, <2>4, <2>5
<1>12. DimFits'
  <2>1. \A row \in dim' : IsFirst(row)'
    BY <1>6, <1>7, <1>9, <1>10 DEF IsFirst
  <2>2. \A r \in rides' : DayOf(r.at) <= dimTo' => Knows(dim', r.bike)
    BY <1>1, <1>7, <1>9, <1>10 DEF Knows
  <2>3. \A row \in dim', r \in rides' : DayOf(r.at) <= row.day => Knows(dim', r.bike)
    <3>1. \A row \in dim, r \in rides : DayOf(r.at) <= row.day => Knows(dim', r.bike)
      BY <1>7, <1>9 DEF Knows
    <3> QED
      BY <1>9, <1>10, <1>11, <3>1
  <2> QED
    BY <1>1, <1>7, <1>10, <2>1, <2>2, <2>3 DEF DimFits
<1>13. DimJobFits'
  <2>1. ASSUME NEW n \in dimJob'.rest
        PROVE  IsFirst(n)' /\ n.day <= dimJob'.end /\ ~ Knows(dim', n.bike)
    <3>1. n \in dimJob.rest /\ n.day # day /\ n \in DimRows
      BY <1>3, <1>5
    <3>2. \A c \in chunk : c.bike # n.bike
      <4> SUFFICES ASSUME NEW c \in chunk, c.bike = n.bike PROVE FALSE
        OBVIOUS
      <4>1. c \in DimRows /\ IsFirst(c) /\ IsFirst(n) /\ c.day = day
        BY <1>3, <1>6, <3>1
      <4>2. c = n
        BY <1>2, <3>1, <4>1, SameFirst
      <4> QED
        BY <3>1, <4>1, <4>2
    <3>3. ~ Knows(dim, n.bike) /\ IsFirst(n) /\ n.day <= dimJob.end
      BY <1>6, <3>1
    <3> QED
      BY <1>5, <1>9, <1>10, <3>2, <3>3 DEF Knows, IsFirst
  <2>2. dim' \cup dimJob'.rest = dim \cup dimJob.rest
    BY <1>5, <1>9
  <2> QED
    BY <1>1, <1>5, <1>6, <1>10, <2>1, <2>2 DEF DimJobFits
<1>14. dim' \subseteq DimRows
  BY <1>2, <1>3, <1>9
<1> QED
  BY <1>1, <1>2, <1>5, <1>12, <1>13, <1>14, DimStepKeeps

LEMMA DimStepsKeep ==
    ASSUME GoldInv, DimSteps
    PROVE  GoldInv'
<1>1. /\ dimJob \in [end : Nat, rest : SUBSET DimRows] /\ dim \subseteq DimRows
      /\ dimTo \in Nat
  BY DEF GoldInv, GoldTypes
<1>2. CASE DimEnds
  <2>1. /\ OnlyDim /\ run' = Done("dim") /\ dim' = dim /\ dimTo' = dimJob.end
        /\ dimJob' = NoJob /\ dimJob # NoJob /\ dimJob.rest = {}
        /\ rides' = rides /\ rentals' = rentals
    BY <1>2 DEF DimEnds, OnlyDim
  <2>2. /\ dimJob.end <= rentals.to
        /\ \A r \in rides : DayOf(r.at) <= dimJob.end => Knows(dim, r.bike)
    BY <2>1 DEF GoldInv, DimJobFits, Knows
  <2>3. DimFits' /\ DimJobFits'
    BY <2>1, <2>2 DEF GoldInv, DimFits, DimJobFits, IsFirst, Knows
  <2>4. dimJob' \in [end : Nat, rest : SUBSET DimRows] /\ dimTo' \in Nat
    BY <1>1, <2>1 DEF NoJob
  <2> QED
    BY <1>1, <2>1, <2>3, <2>4, DimStepKeeps
<1>3. CASE DimDies
  <2>1. /\ OnlyDim /\ run' = run /\ dim' = dim /\ dimTo' = dimTo
        /\ dimJob' = NoJob /\ rides' = rides /\ rentals' = rentals
    BY <1>3 DEF DimDies, OnlyDim
  <2>2. DimFits' /\ DimJobFits'
    BY <2>1 DEF GoldInv, DimFits, DimJobFits, IsFirst, Knows
  <2>3. dimJob' \in [end : Nat, rest : SUBSET DimRows]
    BY <1>1, <2>1 DEF NoJob
  <2> QED
    BY <1>1, <2>1, <2>2, <2>3, DimStepKeeps
<1> QED
  BY <1>2, <1>3, DimReadKeeps, DimCommitKeeps DEF DimSteps

-----------------------------------------------------------------------------
(* The three tables of the inventory.                                      *)

LEMMA OneTaskLess ==
    ASSUME GoldInv, NEW task \in All, task \in run.left
    PROVE  LET r == Done(task)
           IN /\ r \in [ds : Nat, left : SUBSET All, acted : BOOLEAN, whole : BOOLEAN]
              /\ r.ds = run.ds /\ r.acted = run.acted /\ r.whole = run.whole
              /\ r.left = run.left \ {task}
BY DEF GoldInv, GoldTypes, Done

(* A new return is later than what was remembered, and what it is compared *)
(* with begins where the last baseline ended.                              *)
LEMMA BuildLocationKeeps ==
    ASSUME GoldInv, BuildLocation
    PROVE  GoldInv'
<1>1. /\ "location" \in run.left /\ rentals.to >= run.ds - 1
      /\ run' = run \/ run' = Done("location")
      /\ UNCHANGED <<date, rides, actions, rentals, actionsTo, dim, dimTo, dimJob,
                     lastAction, inventory>>
  BY DEF BuildLocation, RentalsReady, OnlyTables
<1>2. PICK t0 \in BOOLEAN :
         LET end == IF t0 THEN run.ds ELSE run.ds - 1
             delta == {r \in rentals.rows : DayOf(r.at) \in DeltaStart(end) .. end}
         IN location' = Merged(location, delta, run.ds)
  BY DEF BuildLocation
<1> DEFINE end == IF t0 THEN run.ds ELSE run.ds - 1
           start == DeltaStart(end)
           delta == {r \in rentals.rows : DayOf(r.at) \in start .. end}
           ds == run.ds
<1>3. /\ run \in [ds : Nat, left : SUBSET All, acted : BOOLEAN, whole : BOOLEAN]
      /\ location \in Baselines(Rides)
      /\ rentals.to \in Nat /\ date \in Nat /\ rides \subseteq Rides
      /\ Rides \in SUBSET GoldEvents
  BY DEF GoldInv, GoldTypes, GoldEvents
<1>4. ds \in Nat /\ ds # 0 /\ ds <= date /\ location.snapshot \in Nat
  BY <1>1, <1>3 DEF Baselines, GoldInv, GoldRunFits
<1>5. end \in Nat /\ ds - 1 <= end /\ end <= ds
  BY <1>4
<1> HIDE DEF end
<1>6. /\ location.snapshot = 0 => start = end - (ColdStart - 1)
      /\ location.snapshot # 0 => start = location.snapshot
      /\ start \in Int
  BY <1>4, <1>5, GoldBounds DEF DeltaStart
<1> HIDE DEF start
<1>7. \A r \in rides : r \in GoldEvents /\ r.bike \in Fleet
  BY <1>3, EventFacts
<1>8. /\ rentals.rows \subseteq rides
      /\ \A r \in rides : DayOf(r.at) <= rentals.to => r \in rentals.rows
  BY DEF GoldInv, SilverHasAll
<1>9. \A r \in rides : DayOf(r.at) < ds /\ start <= DayOf(r.at) => r \in delta
  BY <1>1, <1>3, <1>4, <1>5, <1>6, <1>7, <1>8, EventFacts
<1>10. delta \in SUBSET Rides /\ \A e \in delta : e \in rides /\ start <= DayOf(e.at)
  BY <1>3, <1>5, <1>6, <1>7, <1>8, EventFacts
<1>11. location' = Merged(location, delta, ds)
  BY <1>2 DEF end, start
<1> HIDE DEF delta, ds
<1>12. /\ location' \in Baselines(Rides)
       /\ location'.snapshot \in {0, ds}
       /\ location'.snapshot = 0 => \A b \in Fleet : location'.last[b] = Nothing
       /\ \A b \in Fleet :
             /\ \/ location'.last[b] = location.last[b]
                \/ location'.last[b] \in delta /\ location'.last[b].bike = b
             /\ location.last[b].at <= location'.last[b].at
             /\ location.last[b] # Nothing => location'.last[b] # Nothing
       /\ \A e \in delta : /\ e.at <= location'.last[e.bike].at
                           /\ location'.last[e.bike] # Nothing
  <2>1. /\ Rides \in SUBSET GoldEvents /\ delta \in SUBSET Rides /\ ds \in Nat
        /\ location \in Baselines(Rides)
    BY <1>3, <1>4, <1>10
  <2>2. location' \in Baselines(Rides) /\ Updates(location', location, delta, ds)
    BY <1>11, <2>1, MergedFacts
  <2> QED
    BY <1>4, <2>2 DEF Updates
<1>13. \A b \in Fleet : location.last[b].at \in Nat /\ location'.last[b].at \in Nat
  BY <1>3, <1>12, EventFacts DEF Baselines, Nothing
<1>14. ASSUME NEW r \in rides, DayOf(r.at) < ds, location'.last[r.bike] # Nothing
       PROVE  r.at <= location'.last[r.bike].at
  <2>1. CASE start <= DayOf(r.at)
    BY <1>9, <1>12, <1>14, <2>1
  <2>2. CASE ~ (start <= DayOf(r.at))
    <3>1. DayOf(r.at) \in Nat /\ r.at \in Nat /\ DayOf(r.at) < start
      BY <1>6, <1>7, <2>2, EventFacts
    <3>2. CASE location'.last[r.bike] \in delta
      <4>1. DayOf(r.at) < DayOf(location'.last[r.bike].at)
        <5>1. start <= DayOf(location'.last[r.bike].at) /\ location'.last[r.bike] \in GoldEvents
          BY <1>3, <1>10, <3>2
        <5>2. DayOf(location'.last[r.bike].at) \in Nat
          BY <5>1, EventFacts
        <5> QED
          BY <1>6, <3>1, <5>1, <5>2
      <4>2. location'.last[r.bike] \in GoldEvents
        BY <1>3, <1>10, <3>2
      <4> QED
        BY <1>7, <4>1, <4>2, LaterDayIsLater
    <3>3. CASE location'.last[r.bike] = location.last[r.bike]
      <4>1. location.snapshot # 0
        BY <1>7, <1>14, <3>3 DEF GoldInv, LocationFits
      <4>2. DayOf(r.at) < location.snapshot
        BY <1>6, <3>1, <4>1
      <4> QED
        BY <1>7, <1>14, <3>3, <4>2 DEF GoldInv, LocationFits, Remembers
    <3> QED
      BY <1>7, <1>12, <3>2, <3>3
  <2> QED
    BY <2>1, <2>2
<1>15. rides' = rides /\ date' = date
  BY <1>1
<1>16. /\ run'.ds = ds /\ run'.acted = run.acted /\ run'.whole = run.whole
       /\ run'.left \subseteq run.left
       /\ "inventory" \in run.left => "inventory" \in run'.left
       /\ run' \in [ds : Nat, left : SUBSET All, acted : BOOLEAN, whole : BOOLEAN]
  BY <1>1, <1>3, OneTaskLess DEF All, ds
<1>17. Remembers(run.ds)'
  BY <1>14, <1>15, <1>16 DEF Remembers
<1>18. Remembers(location.snapshot)'
  <2>1. CASE location'.snapshot = 0
    BY <1>7, <1>12, <1>15, <2>1 DEF Remembers
  <2>2. CASE location'.snapshot = ds
    BY <1>14, <1>15, <2>2 DEF Remembers
  <2> QED
    BY <1>12, <2>1, <2>2
<1>19. \A r \in rides : DayOf(r.at) \in Nat
  BY <1>7, EventFacts
<1>20. PICK origin \in 0 .. date :
          \A r \in rides : DayOf(r.at) \in origin - ColdStart + 1 .. ds - 1
                           => location'.last[r.bike] # Nothing
  <2>1. CASE location.snapshot = 0
    <3>1. ds \in 0 .. date
      BY <1>3, <1>4
    <3>2. ASSUME NEW r \in rides, DayOf(r.at) \in ds - ColdStart + 1 .. ds - 1
          PROVE  location'.last[r.bike] # Nothing
      <4>1. DayOf(r.at) < ds /\ start <= DayOf(r.at)
        BY <1>4, <1>5, <1>6, <1>19, <2>1, <3>2, GoldBounds
      <4> QED
        BY <1>9, <1>12, <4>1
    <3> QED
      BY <3>1, <3>2
  <2>2. CASE location.snapshot # 0
    <3>1. PICK origin \in 0 .. date : CoversFrom(origin, location.snapshot)
      BY DEF GoldInv, LocationFits
    <3>2. ASSUME NEW r \in rides, DayOf(r.at) \in origin - ColdStart + 1 .. ds - 1
          PROVE  location'.last[r.bike] # Nothing
      <4>0. DayOf(r.at) < ds /\ origin - ColdStart + 1 <= DayOf(r.at)
        BY <1>4, <1>19, <3>1, <3>2, GoldBounds
      <4>1. CASE start <= DayOf(r.at)
        BY <1>9, <1>12, <4>0, <4>1
      <4>2. CASE ~ (start <= DayOf(r.at))
        <5>1. DayOf(r.at) \in origin - ColdStart + 1 .. location.snapshot - 1
          BY <1>4, <1>6, <1>19, <2>2, <4>0, <4>2, <3>1, GoldBounds
        <5>2. location.last[r.bike] # Nothing
          BY <3>1, <5>1 DEF CoversFrom
        <5> QED
          BY <1>7, <1>12, <5>2
      <4> QED
        BY <4>1, <4>2
    <3> QED
      BY <3>2
  <2> QED
    BY <2>1, <2>2
<1>21. LocationFits'
  <2>1. origin \in (0 .. date)'
    BY <1>15
  <2>2. CoversFrom(origin, location.snapshot)'
    <3>1. CASE location'.snapshot = 0
      <4>1. ASSUME NEW r \in rides'
            PROVE  ~ (DayOf(r.at) \in origin - ColdStart + 1 .. location'.snapshot - 1)
        BY <1>15, <1>19, <3>1
      <4> QED
        BY <4>1 DEF CoversFrom
    <3>2. CASE location'.snapshot = ds
      BY <1>15, <1>20, <3>2 DEF CoversFrom
    <3> QED
      BY <1>12, <3>1, <3>2
  <2> QED
    BY <1>12, <1>18, <2>1, <2>2 DEF LocationFits
<1>22. ASSUME run'.ds = date'
       PROVE  CoversFrom(run.ds, run.ds)'
  <2>1. origin <= ds
    BY <1>3, <1>15, <1>16, <1>20, <1>22
  <2>2. ASSUME NEW r \in rides, DayOf(r.at) \in ds - ColdStart + 1 .. ds - 1
        PROVE  location'.last[r.bike] # Nothing
    <3>1. DayOf(r.at) \in origin - ColdStart + 1 .. ds - 1
      BY <1>4, <1>19, <1>20, <2>1, <2>2, GoldBounds
    <3> QED
      BY <1>20, <3>1
  <2> QED
    BY <1>15, <1>16, <2>2 DEF CoversFrom
<1>23. GoldRunFits'
  <2>1. /\ run'.ds <= date' /\ (run'.left # {} => run'.ds # 0)
        /\ run'.acted => "location" \notin run'.left
    BY <1>1, <1>4, <1>15, <1>16 DEF GoldInv, GoldRunFits
  <2>2. run'.acted => ActsUntil(run.ds)'
    BY <1>1, <1>16 DEF GoldInv, GoldRunFits, ActsUntil, ds
  <2>3. run'.whole /\ "inventory" \notin run'.left => run.whole /\ "inventory" \notin run.left
    BY <1>16
  <2> QED
    BY <1>1, <1>16, <1>17, <1>22, <2>1, <2>2, <2>3 DEF GoldInv, GoldRunFits, ds
<1>24. GoldTypes'
  BY <1>1, <1>12, <1>16 DEF GoldInv, GoldTypes
<1>25. SilverHasAll' /\ DimFits' /\ DimJobFits' /\ ActsUntil(lastAction.snapshot)'
  BY <1>1 DEF GoldInv, SilverHasAll, DimFits, DimJobFits, ActsUntil, IsFirst, Knows
<1> QED
  BY <1>21, <1>23, <1>24, <1>25 DEF GoldInv

(* No cold start here: the first run reads every action there is.          *)
LEMMA BuildLastActionsKeeps ==
    ASSUME GoldInv, BuildLastActions
    PROVE  GoldInv'
<1> DEFINE known == {a \in actions : DayOf(a.at) <= actionsTo}
           delta == {a \in known : DayOf(a.at) \in lastAction.snapshot .. run.ds - 1}
           ds == run.ds
<1>1. /\ "inventory" \in run.left /\ "location" \notin run.left
      /\ actionsTo >= ds - 1
      /\ lastAction' = Merged(lastAction, delta, ds)
      /\ run' = [run EXCEPT !.acted = TRUE]
      /\ UNCHANGED <<date, rides, actions, rentals, actionsTo, dim, dimTo, dimJob,
                     location, inventory>>
  BY DEF BuildLastActions, ActionsReady, OnlyTables
<1>2. /\ run \in [ds : Nat, left : SUBSET All, acted : BOOLEAN, whole : BOOLEAN]
      /\ lastAction \in Baselines(Actions)
      /\ actionsTo \in Nat /\ actions \subseteq Actions
      /\ Actions \in SUBSET GoldEvents
  BY DEF GoldInv, GoldTypes, GoldEvents
<1>3. ds \in Nat /\ ds # 0 /\ lastAction.snapshot \in Nat
  BY <1>1, <1>2 DEF GoldInv, GoldRunFits, Baselines
<1>4. \A a \in actions : a \in GoldEvents /\ a.bike \in Fleet /\ a.at \in Nat /\ DayOf(a.at) \in Nat
  BY <1>2, EventFacts
<1>5. \A a \in actions : DayOf(a.at) < ds /\ lastAction.snapshot <= DayOf(a.at) => a \in delta
  BY <1>1, <1>2, <1>3, <1>4
<1>6. delta \in SUBSET Actions
  BY <1>2
<1>7. /\ run'.ds = ds /\ run'.acted /\ run'.whole = run.whole /\ run'.left = run.left
      /\ run' \in [ds : Nat, left : SUBSET All, acted : BOOLEAN, whole : BOOLEAN]
  BY <1>1, <1>2
<1> HIDE DEF delta, ds
<1>8. lastAction' \in Baselines(Actions) /\ Updates(lastAction', lastAction, delta, ds)
  BY <1>1, <1>2, <1>3, <1>6, MergedFacts
<1>9. \A b \in Fleet : lastAction.last[b].at \in Nat /\ lastAction'.last[b].at \in Nat
  BY <1>2, <1>8, EventFacts DEF Baselines, Nothing
<1>10. ASSUME NEW a \in actions, DayOf(a.at) < ds
       PROVE  a.at <= lastAction'.last[a.bike].at
  <2>1. CASE lastAction.snapshot <= DayOf(a.at)
    BY <1>5, <1>8, <1>10, <2>1 DEF Updates
  <2>2. CASE DayOf(a.at) < lastAction.snapshot
    <3>1. a.at <= lastAction.last[a.bike].at
      BY <2>2 DEF GoldInv, ActsUntil
    <3>2. lastAction.last[a.bike].at <= lastAction'.last[a.bike].at
      BY <1>4, <1>8 DEF Updates
    <3> QED
      BY <1>4, <1>9, <3>1, <3>2
  <2> QED
    BY <1>3, <1>4, <2>1, <2>2
<1>11. actions' = actions
  BY <1>1
<1>12. ActsUntil(run.ds)'
  BY <1>7, <1>10, <1>11 DEF ActsUntil
<1>13. ActsUntil(lastAction.snapshot)'
  <2>1. CASE lastAction'.snapshot = 0
    BY <1>4, <1>11, <2>1 DEF ActsUntil
  <2>2. CASE lastAction'.snapshot = ds
    BY <1>10, <1>11, <2>2 DEF ActsUntil
  <2> QED
    BY <1>8, <2>1, <2>2 DEF Updates
<1>14. GoldRunFits'
  BY <1>1, <1>7, <1>12 DEF GoldInv, GoldRunFits, Remembers, CoversFrom, ds
<1>15. GoldTypes'
  BY <1>1, <1>7, <1>8 DEF GoldInv, GoldTypes
<1>16. SilverHasAll' /\ DimFits' /\ DimJobFits' /\ LocationFits'
  BY <1>1 DEF GoldInv, SilverHasAll, DimFits, DimJobFits, LocationFits, IsFirst, Knows,
     Remembers, CoversFrom
<1> QED
  BY <1>13, <1>14, <1>15, <1>16 DEF GoldInv

(* The later of the two, where the bike ever came back.                    *)
LEMMA BuildInventoryKeeps ==
    ASSUME GoldInv, BuildInventory
    PROVE  GoldInv'
<1>1. /\ "inventory" \in run.left /\ run.acted
      /\ inventory' = [b \in Fleet |-> Resolved(b)]
      /\ run' = Done("inventory")
      /\ UNCHANGED <<date, rides, actions, rentals, actionsTo, dim, dimTo, dimJob,
                     location, lastAction>>
  BY DEF BuildInventory, OnlyTables
<1>2. /\ run \in [ds : Nat, left : SUBSET All, acted : BOOLEAN, whole : BOOLEAN]
      /\ location \in Baselines(Rides) /\ lastAction \in Baselines(Actions)
      /\ rides \subseteq Rides /\ actions \subseteq Actions
      /\ Rides \subseteq GoldEvents /\ Actions \subseteq GoldEvents
  BY DEF GoldInv, GoldTypes, GoldEvents
<1>3. /\ run' \in [ds : Nat, left : SUBSET All, acted : BOOLEAN, whole : BOOLEAN]
      /\ run'.ds = run.ds /\ run'.acted = run.acted /\ run'.whole = run.whole
      /\ run'.left = run.left \ {"inventory"}
  BY <1>1, OneTaskLess DEF All
<1>4. /\ run.ds <= date /\ run.ds # 0
      /\ "location" \notin run.left /\ ActsUntil(run.ds)
      /\ run.whole => Remembers(run.ds) /\ (run.ds = date => CoversFrom(run.ds, run.ds))
  BY <1>1 DEF GoldInv, GoldRunFits
<1>5. ASSUME NEW b \in Fleet
      PROVE  /\ Resolved(b) \in GoldEvents \cup {Nothing}
             /\ location.last[b] = Nothing <=> Resolved(b) = Nothing
             /\ Resolved(b) # Nothing =>
                   /\ Resolved(b).at \in Nat
                   /\ location.last[b].at <= Resolved(b).at
                   /\ lastAction.last[b].at <= Resolved(b).at
                   /\ location.last[b].at \in Nat /\ lastAction.last[b].at \in Nat
  <2> DEFINE return == location.last[b]
             action == lastAction.last[b]
  <2>1. return \in Rides \cup {Nothing} /\ action \in Actions \cup {Nothing}
    BY <1>2 DEF Baselines
  <2>2. return.at \in Nat /\ action.at \in Nat /\ return \in GoldEvents \cup {Nothing}
        /\ action \in GoldEvents \cup {Nothing}
    BY <1>2, <2>1, EventFacts DEF Nothing
  <2>3. Resolved(b) = IF return # Nothing /\ action.at > return.at THEN action ELSE return
    BY DEF Resolved
  <2>4. action.at > return.at => action # Nothing
    BY <2>2 DEF Nothing
  <2> HIDE DEF return, action
  <2>5. /\ Resolved(b) \in GoldEvents \cup {Nothing}
        /\ return = Nothing <=> Resolved(b) = Nothing
        /\ Resolved(b) # Nothing =>
              /\ Resolved(b).at \in Nat
              /\ return.at <= Resolved(b).at
              /\ action.at <= Resolved(b).at
    BY <2>2, <2>3, <2>4
  <2> QED
    BY <2>2, <2>5 DEF return, action
<1>6. \A b \in Fleet : inventory'[b] = Resolved(b)
  BY <1>1
<1>7. ASSUME run.whole, NEW b \in Fleet, inventory'[b] # Nothing,
             NEW e \in rides \cup actions, e.bike = b, DayOf(e.at) < run.ds
      PROVE  e.at <= inventory'[b].at
  <2>1. e.at \in Nat
    BY <1>2, EventFacts
  <2>2. CASE e \in rides
    <3>1. e.at <= location.last[b].at
      BY <1>4, <1>5, <1>6, <1>7, <2>2 DEF Remembers
    <3> QED
      BY <1>5, <1>6, <1>7, <2>1, <3>1
  <2>3. CASE e \in actions
    <3>1. e.at <= lastAction.last[b].at
      BY <1>4, <1>7, <2>3 DEF ActsUntil
    <3> QED
      BY <1>5, <1>6, <1>7, <2>1, <3>1
  <2> QED
    BY <2>2, <2>3
<1>8. ASSUME run.whole, run.ds = date, NEW b \in Fleet, NEW r \in rides,
             r.bike = b, DayOf(r.at) \in run.ds - ColdStart + 1 .. run.ds - 1
      PROVE  inventory'[b] # Nothing
  BY <1>4, <1>5, <1>6, <1>8 DEF CoversFrom
<1>9. GoldRunFits'
  <2>1. /\ run'.ds <= date' /\ (run'.left # {} => run'.ds # 0)
        /\ run'.whole /\ "location" \notin run'.left =>
              Remembers(run.ds)' /\ (run'.ds = date' => CoversFrom(run.ds, run.ds)')
        /\ run'.acted => "location" \notin run'.left /\ ActsUntil(run.ds)'
    BY <1>1, <1>3, <1>4 DEF Remembers, CoversFrom, ActsUntil
  <2>2. run'.whole /\ "inventory" \notin run'.left =>
          \A b \in Fleet :
            /\ inventory'[b] # Nothing =>
                  \A e \in rides' \cup actions' :
                      e.bike = b /\ DayOf(e.at) < run'.ds => e.at <= inventory'[b].at
            /\ run'.ds = date' =>
                  \A r \in rides' :
                      r.bike = b /\ DayOf(r.at) \in run'.ds - ColdStart + 1 .. run'.ds - 1
                      => inventory'[b] # Nothing
    BY <1>1, <1>3, <1>7, <1>8
  <2> QED
    BY <2>1, <2>2 DEF GoldRunFits
<1>10. GoldTypes'
  <2>1. inventory' \in [Fleet -> GoldEvents \cup {Nothing}]
    BY <1>1, <1>5
  <2> QED
    BY <1>1, <1>3, <2>1 DEF GoldInv, GoldTypes
<1>11. /\ SilverHasAll' /\ DimFits' /\ DimJobFits' /\ LocationFits'
       /\ ActsUntil(lastAction.snapshot)'
  BY <1>1 DEF GoldInv, SilverHasAll, DimFits, DimJobFits, LocationFits, IsFirst, Knows,
     Remembers, CoversFrom, ActsUntil
<1> QED
  BY <1>9, <1>10, <1>11 DEF GoldInv

LEMMA GoldStep == GoldInv /\ [GoldNext]_goldVars => GoldInv'
<1> SUFFICES ASSUME GoldInv, [GoldNext]_goldVars PROVE GoldInv'
  OBVIOUS
<1>1. CASE UNCHANGED goldVars
  BY <1>1 DEF goldVars, GoldInv, GoldTypes, SilverHasAll, DimFits, DimJobFits, LocationFits,
     IsFirst, Knows, Remembers, CoversFrom, ActsUntil, GoldRunFits
<1> QED
  BY <1>1, SilverStepsKeep, TomorrowKeeps, RunStepsKeep, DimStepsKeep,
     BuildLocationKeeps, BuildLastActionsKeeps, BuildInventoryKeeps DEF GoldNext

(* gold.dim_bike holds no bike twice, and each with the day it was first   *)
(* rented on, wherever a run died between the commits of its partitions    *)
(* (build_dim_bike.py).                                                    *)
THEOREM DimensionIsExact == GoldSpec => []EachBikeOnce
<1>1. GoldInit => GoldInv
  BY GoldInitially
<1>2. GoldInv /\ [GoldNext]_goldVars => GoldInv'
  BY GoldStep
<1>3. GoldInv => EachBikeOnce
  <2> SUFFICES ASSUME GoldInv, NEW b \in Fleet
               PROVE  LET known == {row \in dim : row.bike = b}
                          rented == {r \in rides : r.bike = b /\ DayOf(r.at) <= dimTo}
                      IN /\ Cardinality(known) <= 1
                         /\ rented # {} => known = {FirstSeen(rented, b)}
    BY DEF EachBikeOnce
  <2> DEFINE known == {row \in dim : row.bike = b}
             rented == {r \in rides : r.bike = b /\ DayOf(r.at) <= dimTo}
  <2>1. /\ dim \subseteq DimRows /\ rides \subseteq Rides /\ dimTo \in Nat
        /\ \A row \in dim : IsFirst(row)
        /\ \A r \in rides : DayOf(r.at) <= dimTo => Knows(dim, r.bike)
    BY DEF GoldInv, GoldTypes, DimFits
  <2>2. \A p \in known, q \in known : p = q
    BY <2>1, SameFirst
  <2>3. Cardinality(known) <= 1
    <3>1. CASE known = {}
      BY <3>1, FS_EmptySet
    <3>2. CASE known # {}
      <4>1. PICK p \in known : TRUE
        BY <3>2
      <4>2. known = {p}
        BY <2>2, <4>1
      <4>3. Cardinality({p}) = 1
        BY FS_Singleton
      <4>4. 1 <= 1
        OBVIOUS
      <4> QED
        BY <4>2, <4>3, <4>4
    <3> QED
      BY <3>1, <3>2
  <2>4. ASSUME rented # {}
        PROVE  known = {FirstSeen(rented, b)}
    <3>1. PICK q \in rented : q.bike = b /\ q \in rides /\ DayOf(q.at) <= dimTo
      BY <2>4
    <3>2. PICK row \in known : TRUE
      BY <2>1, <3>1 DEF Knows
    <3> DEFINE f == FirstSeen(rented, b)
    <3>3. rented \in SUBSET Rides
      BY <2>1
    <3>4. /\ f \in DimRows /\ f.bike = b
          /\ \E r \in rented : r.bike = b /\ DayOf(r.at) = f.day
          /\ \A r \in rented : r.bike = b => f.day <= DayOf(r.at)
      <4> HIDE DEF rented
      <4> QED
        BY <3>1, <3>3, FirstSeenFacts
    <3>5. \A r \in rides : DayOf(r.at) \in Nat
      BY <2>1, EventFacts DEF GoldEvents
    <3>6. f.day \in Nat /\ f.day <= dimTo
      BY <3>4 DEF DimRows
    <3>7. IsFirst(f)
      <4>1. ASSUME NEW r \in rides, r.bike = b
            PROVE  f.day <= DayOf(r.at)
        <5>1. CASE DayOf(r.at) <= dimTo
          BY <3>4, <4>1, <5>1
        <5>2. CASE dimTo < DayOf(r.at)
          BY <2>1, <3>5, <3>6, <5>2
        <5> QED
          BY <2>1, <3>5, <5>1, <5>2
      <4> QED
        BY <3>4, <4>1 DEF IsFirst
    <3>8. row = f
      <4> HIDE DEF f
      <4> QED
        BY <2>1, <3>2, <3>4, <3>7, SameFirst
    <3> QED
      BY <2>2, <3>2, <3>8
  <2> QED
    BY <2>3, <2>4
<1> QED
  BY <1>1, <1>2, <1>3, PTL DEF GoldSpec

(* A run that has been through counts every bike after its latest return   *)
(* or action before the snapshot date, and the run of the day every bike   *)
(* that came back within the look-back of a first run, whatever runs were  *)
(* missed, given up or cleared before (build_bike_location.py,             *)
(* build_fact_station_inventory.py).                                       *)
THEOREM InventoryIsLatest == GoldSpec => []InventoryShowsLatest
<1>1. GoldInit => GoldInv
  BY GoldInitially
<1>2. GoldInv /\ [GoldNext]_goldVars => GoldInv'
  BY GoldStep
<1>3. GoldInv => InventoryShowsLatest
  BY DEF GoldInv, GoldRunFits, InventoryShowsLatest
<1> QED
  BY <1>1, <1>2, <1>3, PTL DEF GoldSpec

-----------------------------------------------------------------------------
(* The stations: Gold takes those of a day from snapshots of that day or   *)
(* later.                                                                  *)

Versions == [day : Nat, sound : BOOLEAN]
Runs == [pc : {"idle", "read", "written"}, day : Nat, sound : BOOLEAN]
Builds == [pc : {"idle", "wait", "built"}, ds : Nat, seen : SUBSET StationTables,
           misled : SUBSET StationTables, from : [StationTables -> Nat]]

StationsTypeOK ==
    /\ stationDay \in Nat
    /\ stored \in [StationTables -> Versions]
    /\ published \in [StationTables -> BOOLEAN]
    /\ cleaning \in [StationTables -> Runs]
    /\ listed \in [StationTables -> Nat]
    /\ committed \in [StationTables -> Nat]
    /\ building \in Builds

(* What a sensor saw is committed, unless it looked in the gap.             *)
SeenIsCommitted ==
    building.pc = "wait" =>
        \A t \in building.seen \ building.misled : committed[t] >= building.ds

StationsInv == StationsTypeOK /\ SeenIsCommitted /\ StationsAreOfTheDay

-----------------------------------------------------------------------------
LEMMA StationsInvInit == StationsInit => StationsInv
BY DEF StationsInit, StationsInv, StationsTypeOK, SeenIsCommitted,
       StationsAreOfTheDay, Never, NoBuild, Unread, Versions, Runs, Builds

(* A step of another actor leaves the build alone and takes no date back.   *)
LEMMA OthersKeep ==
    ASSUME StationsInv, StationsTypeOK', UNCHANGED building,
           \A t \in StationTables : committed'[t] >= committed[t]
    PROVE  StationsInv'
BY DEF StationsInv, StationsTypeOK, SeenIsCommitted, StationsAreOfTheDay, Builds

LEMMA SnapshotKeeps ==
    ASSUME StationsInv, NEW t \in StationTables, NEW ds \in 1 .. LastStationDay,
           TakeSnapshot(t, ds)
    PROVE  StationsInv'
<1>1. StationsTypeOK'
  <2>1. stored' \in [StationTables -> Versions]
    <3>1. CASE UNCHANGED stored
      BY <3>1 DEF StationsInv, StationsTypeOK
    <3>2. ASSUME NEW answer \in Answers(ds),
                 stored' = [stored EXCEPT ![t] = answer]
          PROVE  stored' \in [StationTables -> Versions]
      <4>1. answer \in Versions
        BY StationConstants DEF Answers, Versions
      <4> QED
        BY <3>2, <4>1 DEF StationsInv, StationsTypeOK
    <3> QED
      BY <3>1, <3>2 DEF TakeSnapshot
  <2>2. published' \in [StationTables -> BOOLEAN]
    BY DEF TakeSnapshot, StationsInv, StationsTypeOK
  <2> QED
    BY <2>1, <2>2 DEF TakeSnapshot, StationsInv, StationsTypeOK
<1> QED
  BY <1>1, OthersKeep DEF TakeSnapshot, StationsInv, StationsTypeOK

LEMMA CleaningKeeps ==
    ASSUME StationsInv, NEW t \in StationTables,
           ReadSnapshot(t) \/ WriteFiles(t) \/ CommitSnapshot(t) \/ CleaningDies(t)
    PROVE  StationsInv'
<1> USE DEF StationsInv, StationsTypeOK
<1>1. Unread \in Runs /\ Reads(t) \in Runs
  BY DEF Unread, Reads, Runs, Versions
<1>2. CASE ReadSnapshot(t)
  <2>1. StationsTypeOK'
    BY <1>1, <1>2 DEF ReadSnapshot, OnlyCleaning
  <2> QED
    BY <1>2, <2>1, OthersKeep DEF ReadSnapshot, OnlyCleaning
<1>3. CASE WriteFiles(t)
  <2>1. cleaning' \in [StationTables -> Runs]
    BY <1>3 DEF WriteFiles, Runs
  <2>2. listed' \in [StationTables -> Nat]
    BY <1>3 DEF WriteFiles, Runs, LaterDay
  <2>3. StationsTypeOK'
    BY <1>3, <2>1, <2>2 DEF WriteFiles, OnlyCleaning
  <2> QED
    BY <1>3, <2>3, OthersKeep DEF WriteFiles, OnlyCleaning
<1>4. CASE CommitSnapshot(t)
  <2>1. /\ committed' \in [StationTables -> Nat]
        /\ \A u \in StationTables : committed'[u] >= committed[u]
    BY <1>4 DEF CommitSnapshot, Runs, LaterDay
  <2>2. StationsTypeOK'
    BY <1>1, <1>4, <2>1 DEF CommitSnapshot, OnlyCleaning
  <2> QED
    BY <1>4, <2>1, <2>2, OthersKeep DEF CommitSnapshot, OnlyCleaning
<1>5. CASE CleaningDies(t)
  <2>1. PICK again \in BOOLEAN : published' = [published EXCEPT ![t] = @ \/ again]
    BY <1>5 DEF CleaningDies
  <2>2. published' \in [StationTables -> BOOLEAN]
    BY <2>1
  <2>3. StationsTypeOK'
    BY <1>1, <1>5, <2>2 DEF CleaningDies, OnlyCleaning
  <2> QED
    BY <1>5, <2>3, OthersKeep DEF CleaningDies, OnlyCleaning
<1> QED
  BY <1>2, <1>3, <1>4, <1>5

(* A sensor passes on a date that is committed, or is misled.               *)
LEMMA SensorKeeps ==
    ASSUME StationsInv, NEW t \in StationTables, SensorPasses(t)
    PROVE  StationsInv'
<1> DEFINE gap == {u \in {t} : building.ds \in committed[u] + 1 .. listed[u]}
<1>1. building' = [building EXCEPT !.seen = @ \cup {t}, !.misled = @ \cup gap]
  BY DEF SensorPasses
<1>2. /\ building'.pc = building.pc /\ building'.ds = building.ds
      /\ building'.seen = building.seen \cup {t}
      /\ building'.misled = building.misled \cup gap
      /\ building' \in Builds
  <2> HIDE DEF gap
  <2>1. gap \subseteq StationTables
    BY DEF gap
  <2> QED
    BY <1>1, <2>1 DEF StationsInv, StationsTypeOK, Builds
<1>3. UNCHANGED <<stationDay, stored, published, cleaning, listed, committed>>
  BY DEF SensorPasses, OnlyBuilding
<1>4. StationsTypeOK'
  BY <1>2, <1>3 DEF StationsInv, StationsTypeOK
<1>5. ASSUME NEW u \in building'.seen \ building'.misled
      PROVE  committed[u] >= building.ds
  <2>1. CASE u \in building.seen
    BY <1>2, <1>5, <2>1 DEF SensorPasses, StationsInv, SeenIsCommitted
  <2>2. CASE u = t
    <3>1. building.ds \notin committed[t] + 1 .. listed[t]
      BY <1>2, <1>5, <2>2
    <3>2. listed[t] >= building.ds
      BY DEF SensorPasses, Arrived
    <3>3. building.ds \in Nat /\ committed[t] \in Nat /\ listed[t] \in Nat
      BY DEF StationsInv, StationsTypeOK, Builds
    <3> QED
      BY <2>2, <3>1, <3>2, <3>3
  <2> QED
    BY <1>2, <1>5, <2>1, <2>2
<1>6. SeenIsCommitted'
  BY <1>2, <1>3, <1>5 DEF SeenIsCommitted
<1>7. StationsAreOfTheDay'
  BY <1>2 DEF SensorPasses, StationsAreOfTheDay
<1> QED
  BY <1>4, <1>6, <1>7 DEF StationsInv

LEMMA BuildKeeps ==
    ASSUME StationsInv, BuildBegins \/ BuildStationActive \/ BuildGivesUp
    PROVE  StationsInv'
<1> USE DEF StationsInv, StationsTypeOK, SeenIsCommitted, StationsAreOfTheDay
<1>1. Never \in [StationTables -> Nat] /\ NoBuild \in Builds
  BY DEF Never, NoBuild, Builds
<1>2. CASE BuildBegins
  <2>1. PICK ds \in 1 .. stationDay : building' = [NoBuild EXCEPT !.pc = "wait", !.ds = ds]
    BY <1>2 DEF BuildBegins
  <2>2. building' = [pc |-> "wait", ds |-> ds, seen |-> {}, misled |-> {}, from |-> Never]
    BY <2>1 DEF NoBuild
  <2>3. ds \in Nat
    OBVIOUS
  <2>4. building' \in Builds /\ building'.pc = "wait" /\ building'.seen = {}
    BY <1>1, <2>2, <2>3 DEF Builds
  <2> QED
    BY <1>2, <2>4 DEF BuildBegins, OnlyBuilding
<1>3. CASE BuildStationActive
  <2>1. /\ building' \in Builds /\ building'.pc = "built"
        /\ building'.from = committed
        /\ building'.ds = building.ds /\ building'.misled = building.misled
    BY <1>3 DEF BuildStationActive, Builds
  <2>2. \A t \in StationTables \ building.misled : committed[t] >= building.ds
    BY <1>3 DEF BuildStationActive
  <2> QED
    BY <1>3, <2>1, <2>2 DEF BuildStationActive, OnlyBuilding
<1>4. CASE BuildGivesUp
  BY <1>1, <1>4 DEF BuildGivesUp, OnlyBuilding, NoBuild
<1> QED
  BY <1>2, <1>3, <1>4

LEMMA StationsInvStep == StationsInv /\ [StationsNext]_stationVars => StationsInv'
<1> SUFFICES ASSUME StationsInv, [StationsNext]_stationVars PROVE StationsInv'
  OBVIOUS
<1>1. CASE StationMidnight \/ UNCHANGED stationVars
  <2>1. StationsTypeOK' /\ UNCHANGED <<building, committed>>
    BY <1>1 DEF StationMidnight, stationVars, StationsInv, StationsTypeOK
  <2> QED
    BY <2>1, OthersKeep DEF StationsInv, StationsTypeOK
<1> QED
  BY <1>1, SnapshotKeeps, CleaningKeeps, SensorKeeps, BuildKeeps
     DEF StationsNext, Cleaning, Building

(* Whatever is cleared, retried or killed, and however many days go by, the *)
(* stations Gold has built for a day are of that day or later, unless a     *)
(* sensor looked between the files of a write and its commit.               *)
THEOREM GoldStationsAreOfTheDay == StationsSpec => []StationsAreOfTheDay
<1>1. StationsInv => StationsAreOfTheDay
  BY DEF StationsInv
<1> QED
  BY <1>1, StationsInvInit, StationsInvStep, PTL DEF StationsSpec
================================================================================
