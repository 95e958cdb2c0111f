--------------------------- MODULE ConfirmCollection --------------------------
(***************************************************************************)
(* The console: operators confirm a list of bikes to collect, each request *)
(* a batch of rows in app.action_log, which nothing ever removes; pages     *)
(* show the latest batch of the latest snapshot.  Meanwhile the pipeline    *)
(* writes station_daily and replaces bike_risk_daily, in either order.      *)
(***************************************************************************)
EXTENDS Integers, FiniteSets

CONSTANTS
    Candidates,     \* the bikes the pipeline may rank
    Operators,
    LastSnapshot,   \* bound: snapshot dates
    MaxConfirms     \* bound: requests

ASSUME ConfirmConstants == {LastSnapshot, MaxConfirms} \subseteq Nat \ {0}

VARIABLES
    stationDate,    \* MAX(snapshot_date) of serving.station_daily
    pool,           \* serving.bike_risk_daily: date -> bikes
    actionLog,      \* rows [date, bike, at] of app.action_log
    requests,       \* by operator: the confirmation that is being served
    now,            \* the time of the latest transaction
    page            \* a page of confirmed bikes that is being read

confirmVars == <<stationDate, pool, actionLog, requests, now, page>>

Snapshots == 1 .. LastSnapshot
NoRequest == [pc |-> "idle", date |-> 0, bikes |-> {}, at |-> 0]
Blank == [pc |-> "idle", date |-> 0, bikes |-> {}, against |-> {}]

ConfirmInit ==
    /\ stationDate = 0
    /\ pool = [d \in Snapshots |-> {}]
    /\ actionLog = {}
    /\ requests = [o \in Operators |-> NoRequest]
    /\ now = 0
    /\ page = Blank

-----------------------------------------------------------------------------
(* gold_to_serving_sync: its branches do not wait for one another.          *)

WriteStations ==
    /\ stationDate < LastSnapshot
    /\ stationDate' = stationDate + 1
    /\ UNCHANGED <<pool, actionLog, requests, now, page>>

\* The ranking of a date may be computed again.
WritePool ==
    /\ \E date \in Snapshots, ranked \in SUBSET Candidates \ {{}} :
          /\ date \in stationDate .. stationDate + 1
          /\ pool' = [pool EXCEPT ![date] = ranked]
    /\ UNCHANGED <<stationDate, actionLog, requests, now, page>>

-----------------------------------------------------------------------------
(* confirm_collection *)

\* _latest_snapshot_date reads the date on a connection of its own.
Confirm(o) ==
    /\ requests[o].pc = "idle"
    /\ stationDate # 0
    /\ \E chosen \in SUBSET Candidates \ {{}} :
          requests' = [requests EXCEPT ![o] =
              [pc |-> "insert", date |-> stationDate, bikes |-> chosen, at |-> 0]]
    /\ UNCHANGED <<stationDate, pool, actionLog, now, page>>

(* now() is the time the transaction starts; the bikes of the request that   *)
(* the snapshot does not hold are passed over.                              *)
Insert(o) ==
    /\ requests[o].pc = "insert"
    /\ now < MaxConfirms
    /\ now' = now + 1
    /\ requests' = [requests EXCEPT ![o].pc = "commit", ![o].at = now + 1,
                        ![o].bikes = @ \cap pool[requests[o].date]]
    /\ UNCHANGED <<stationDate, pool, actionLog, page>>

Commit(o) ==
    /\ requests[o].pc = "commit"
    /\ actionLog' = actionLog \cup
          {[date |-> requests[o].date, bike |-> b, at |-> requests[o].at] :
              b \in requests[o].bikes}
    /\ requests' = [requests EXCEPT ![o] = NoRequest]
    /\ UNCHANGED <<stationDate, pool, now, page>>

\* The transaction is rolled back.
ConfirmFails(o) ==
    /\ requests[o].pc # "idle"
    /\ requests' = [requests EXCEPT ![o] = NoRequest]
    /\ UNCHANGED <<stationDate, pool, actionLog, now, page>>

-----------------------------------------------------------------------------
(* get_latest_confirmation and get_confirmed_bikes *)

RowsOf(date) == {row \in actionLog : row.date = date}

\* Mutant: the latest row of each bike (DISTINCT ON).
LatestPerBike(date) ==
    {row \in RowsOf(date) : \A other \in RowsOf(date) :
        other.bike = row.bike => other.at <= row.at}
LatestBatch(date) ==
    {row \in RowsOf(date) : \A other \in RowsOf(date) : other.at <= row.at}

\* The date, the count and the rows are read one after the other.
OpenPage ==
    /\ page.pc = "idle"
    /\ stationDate # 0
    /\ page' = [Blank EXCEPT !.pc = "count", !.date = stationDate]
    /\ UNCHANGED <<stationDate, pool, actionLog, requests, now>>

CountBatch ==
    /\ page.pc = "count"
    /\ page' = IF LatestBatch(page.date) = {} THEN Blank ELSE [page EXCEPT !.pc = "join"]
    /\ UNCHANGED <<stationDate, pool, actionLog, requests, now>>

\* The rows are joined to the ranking that is served by then.
ReadBikes ==
    /\ page.pc = "join"
    /\ page' = [page EXCEPT !.pc = "shown", !.against = pool[page.date],
                    !.bikes = {row.bike : row \in LatestBatch(page.date)} \cap pool[page.date]]
    /\ UNCHANGED <<stationDate, pool, actionLog, requests, now>>

ClosePage ==
    /\ page.pc = "shown"
    /\ page' = Blank
    /\ UNCHANGED <<stationDate, pool, actionLog, requests, now>>

-----------------------------------------------------------------------------
Serving == WriteStations \/ WritePool
Confirming == \E o \in Operators : Confirm(o) \/ Insert(o) \/ Commit(o) \/ ConfirmFails(o)
Showing == OpenPage \/ CountBatch \/ ReadBikes \/ ClosePage

ConfirmNext == Serving \/ Confirming \/ Showing

ConfirmSpec == ConfirmInit /\ [][ConfirmNext]_confirmVars

-----------------------------------------------------------------------------
(* Properties *)

(* A page shows the bikes of one confirmation, all of them that are still    *)
(* ranked and no bike that only an earlier one of the same snapshot named,   *)
(* although batches of several operators commit in any order while the page *)
(* is read and the ranking is replaced (state.py:267-272).                  *)
PageShowsOneBatch ==
    page.pc = "shown" =>
        \E batch \in {row.at : row \in RowsOf(page.date)} :
            page.bikes = {row.bike : row \in {r \in actionLog : r.at = batch}} \cap page.against
=============================================================================
