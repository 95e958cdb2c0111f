--------------------------- MODULE ConfirmedPrefix ---------------------------
(***************************************************************************)
(* What the date watermarks of this project promise to their readers       *)
(* (ingestion/common/watermark.py, "the last date committed with success"):*)
(* a set of dates whose data can be relied on, and for each layer a mark   *)
(* that may be put anywhere as long as every date up to it is in the set.  *)
(* A date behind a mark never leaves the set.  Marks are plain puts, so a  *)
(* mark may move back; it may never move ahead of the data.                *)
(***************************************************************************)
EXTENDS Integers

CONSTANTS Last, Layers

VARIABLES backed, mark

Init == backed = {} /\ mark = [l \in Layers |-> 0]

Unmarked == {d \in 1 .. Last : \A l \in Layers : mark[l] < d}

(* One commit may add dates and replace unmarked ones by partial data. *)
Commit ==
    /\ backed' \in SUBSET (1 .. Last)
    /\ backed \ Unmarked \subseteq backed'
    /\ UNCHANGED mark

Confirm(l, m) ==
    /\ 1 .. m \subseteq backed
    /\ mark' = [mark EXCEPT ![l] = m]
    /\ UNCHANGED backed

Next == Commit \/ \E l \in Layers, m \in 0 .. Last : Confirm(l, m)

Spec == Init /\ [][Next]_<<backed, mark>>
=============================================================================
