--------------------------- MODULE InitialLoad_proofs ---------------------------
(***************************************************************************)
(* The watermark of the initial load is earned, for every list of files,   *)
(* every way to cut it and any number of tries.                            *)
(***************************************************************************)
EXTENDS InitialLoad, SequenceTheorems, FiniteSetTheorems, WellFoundedInduction, TLAPS

(* A file is either missing or whole wherever it is.                       *)
WholeOf(f) == [file |-> f, whole |-> TRUE]
IsStaged(name) == \E f \in Files : name = SafeName[f] /\ staged[name] = WholeOf(f)

StagingRecords == [state : {"todo", "running", "done", "failed"}, at : Nat, tries : Nat]
TaskRecords == [state : {"todo", "polling", "done", "failed"}, runs : Nat]
JobRecords == [state : {"RUNNING", "SUCCESS", "FAILED"}, at : Nat \ {0}, failed : BOOLEAN]

LoadTypes ==
    /\ kind \in [Files -> {"data", "other", "bad"}]
    /\ legacy \subseteq Files
    /\ pc \in {"list", "stage", "load", "watermark"}
    /\ local \in [Files -> {WholeOf(f) : f \in Files} \cup {None}]
    /\ staged \in [Names -> {WholeOf(f) : f \in Files} \cup {None}]
    /\ bronze \in [Dates -> {WholeOf(f) : f \in Files} \cup {None}]
    /\ staging \in Seq(StagingRecords)
    /\ batches \in Seq(Seq(Names))
    /\ tasks \in Seq(TaskRecords)
    /\ jobs \in Seq(Seq(JobRecords))

FilesAreWhole ==
    \A f \in Files :
        /\ local[f] = WholeOf(f) \/ (local[f] = None /\ pc = "list")
        /\ staged[SafeName[f]] \in {None, WholeOf(f)}
        /\ pc \in {"load", "watermark"} => staged[SafeName[f]] = WholeOf(f)

(* A staging batch that is through has staged all of its files.            *)
StagingFits ==
    pc = "stage" =>
        /\ Len(staging) = Len(ChunkList(FileList, StagingSize))
        /\ \A b \in DOMAIN staging :
              /\ staging[b].state = "running" =>
                    /\ staging[b].at \in 1 .. Len(StagingBatch(b))
                    /\ \A k \in 1 .. staging[b].at - 1 :
                          IsStaged(SafeName[StagingBatch(b)[k]])
              /\ staging[b].state = "done" =>
                    \A k \in 1 .. Len(StagingBatch(b)) :
                        IsStaged(SafeName[StagingBatch(b)[k]])

(* Every file is in some batch.                                            *)
BatchesFit ==
    /\ pc \in {"list", "stage"} => batches = <<>>
    /\ Len(tasks) = Len(batches) /\ Len(jobs) = Len(batches)
    /\ pc \in {"load", "watermark"} =>
          \A f \in Files : \E b \in DOMAIN batches : \E k \in DOMAIN batches[b] :
              batches[b][k] = SafeName[f]

(* What a JobRun has done with a file that it did not fail.                *)
Handled(name) ==
    \E f \in Files :
        /\ name = SafeName[f] /\ kind[f] # "bad"
        /\ kind[f] = "data" => \A d \in DatesOf[f] : bronze[d] = WholeOf(f)

LoadJobsFit ==
    \A b \in DOMAIN jobs : \A t \in DOMAIN jobs[b] :
        /\ jobs[b][t].state = "RUNNING" /\ ~ jobs[b][t].failed =>
              \A k \in 1 .. Len(batches[b]) : k < jobs[b][t].at => Handled(batches[b][k])
        /\ jobs[b][t].state = "SUCCESS" =>
              \A k \in 1 .. Len(batches[b]) : Handled(batches[b][k])

TasksFit ==
    /\ \A b \in DOMAIN tasks :
          /\ tasks[b].state = "polling" => jobs[b] # <<>>
          /\ tasks[b].state = "done" => \E t \in DOMAIN jobs[b] : jobs[b][t].state = "SUCCESS"
    /\ pc = "watermark" => \A b \in DOMAIN tasks : tasks[b].state = "done"

LoadInv ==
    LoadTypes /\ FilesAreWhole /\ StagingFits /\ BatchesFit /\ LoadJobsFit /\ TasksFit

LEMMA LoadBounds ==
    /\ FileList \in Seq(Files)
    /\ \A f, g \in Files : SafeName[f] = SafeName[g] => f = g
    /\ \A f, g \in Files : \A d : d \in DatesOf[f] /\ d \in DatesOf[g] => f = g
    /\ StagingSize \in Nat \ {0} /\ BatchFiles \in Nat \ {0} /\ Tries \in Nat \ {0}
BY LoadConstants

LEMMA FirstOfTwo ==
    ASSUME NEW i \in Int, NEW j \in Int
    PROVE  Min({i, j}) = IF i <= j THEN i ELSE j
<1>1. \E x \in {i, j} : \A y \in {i, j} : x <= y
  OBVIOUS
<1>2. Min({i, j}) \in {i, j} /\ \A y \in {i, j} : Min({i, j}) <= y
  BY <1>1 DEF Min
<1> QED
  BY <1>2

LEMMA Quotient ==
    ASSUME NEW m \in Nat, NEW n \in Nat \ {0}
    PROVE  m \div n \in Nat /\ n * (m \div n) <= m /\ m < n * (m \div n) + n
OBVIOUS

LEMMA Cancels ==
    ASSUME NEW n \in Nat \ {0}, NEW a \in Int, NEW b \in Int
    PROVE  /\ n * a < n * b + n => a <= b
           /\ a <= b => n * a <= n * b
OBVIOUS

HasAll(pieces, items) ==
    \A i \in 1 .. Len(items) : \E b \in 1 .. Len(pieces) :
        \E k \in 1 .. Len(pieces[b]) : pieces[b][k] = items[i]

(* chunk_list passes no item over, and cuts no empty piece.                *)
LEMMA PiecesHoldAll ==
    ASSUME NEW T, NEW items \in Seq(T), NEW n \in Nat \ {0},
           NEW pieces, pieces = ChunkList(items, n)
    PROVE  /\ pieces \in Seq(Seq(T))
           /\ \A b \in 1 .. Len(pieces) : 1 <= Len(pieces[b])
           /\ HasAll(pieces, items)
<1> DEFINE L == Len(items)
           K == (L + n - 1) \div n
           From(b) == (b - 1) * n + 1
           To(b) == Min({b * n, L})
<1>1. L \in Nat /\ L + n - 1 \in Nat
  BY LenProperties
<1> HIDE DEF L
<1>2. K \in Nat /\ n * K <= L + n - 1 /\ L + n - 1 < n * K + n
  BY <1>1, Quotient
<1>3. pieces = [b \in 1 .. K |-> SubSeq(items, From(b), To(b))]
  BY DEF ChunkList, L
<1> HIDE DEF K
<1>4. ASSUME NEW b \in 1 .. K
      PROVE  /\ From(b) \in Nat /\ 1 <= From(b) /\ From(b) <= L
             /\ To(b) \in Nat /\ From(b) <= To(b) /\ To(b) <= L
             /\ (b - 1) * n \in Nat /\ b * n = (b - 1) * n + n
             /\ To(b) = IF b * n <= L THEN b * n ELSE L
  <2>1. b \in Nat /\ 1 <= b /\ b <= K
    BY <1>2
  <2>2. n * b <= n * K
    BY <1>2, <2>1, Cancels
  <2>3. b * n = (b - 1) * n + n /\ b * n = n * b /\ b * n \in Int /\ (b - 1) * n \in Int
    BY <2>1
  <2>4. 0 <= (b - 1) * n
    BY <2>1
  <2>5. To(b) = IF b * n <= L THEN b * n ELSE L
    BY <1>1, <2>3, FirstOfTwo
  <2> QED
    BY <1>1, <1>2, <2>2, <2>3, <2>4, <2>5
<1> HIDE DEF From, To
<1>5. \A b \in 1 .. K : /\ pieces[b] \in Seq(T)
                        /\ Len(pieces[b]) = To(b) - From(b) + 1
                        /\ \A k \in 1 .. Len(pieces[b]) : pieces[b][k] = items[From(b) + k - 1]
  <2> SUFFICES ASSUME NEW b \in 1 .. K
               PROVE  /\ pieces[b] \in Seq(T)
                      /\ Len(pieces[b]) = To(b) - From(b) + 1
                      /\ \A k \in 1 .. Len(pieces[b]) :
                            pieces[b][k] = items[From(b) + k - 1]
    OBVIOUS
  <2>1. pieces[b] = SubSeq(items, From(b), To(b))
    BY <1>3
  <2>2. From(b) \in 1 .. Len(items) + 1 /\ To(b) \in From(b) - 1 .. Len(items)
    BY <1>1, <1>4 DEF L
  <2>3. /\ SubSeq(items, From(b), To(b)) \in Seq(T)
        /\ Len(SubSeq(items, From(b), To(b))) =
              IF From(b) <= To(b) THEN To(b) - From(b) + 1 ELSE 0
        /\ \A k \in 1 .. To(b) - From(b) + 1 :
              SubSeq(items, From(b), To(b))[k] = items[From(b) + k - 1]
    BY <2>2, SubSeqProperties
  <2> QED
    BY <1>4, <2>1, <2>3
<1>6. pieces \in Seq(Seq(T)) /\ Len(pieces) = K
  <2>1. pieces \in [1 .. K -> Seq(T)]
    BY <1>3, <1>5
  <2> QED
    BY <1>2, <2>1
<1>7. \A b \in 1 .. Len(pieces) : 1 <= Len(pieces[b])
  BY <1>4, <1>5, <1>6
<1>8. ASSUME NEW i \in 1 .. Len(items)
      PROVE  \E b \in 1 .. Len(pieces) : \E k \in 1 .. Len(pieces[b]) : pieces[b][k] = items[i]
  <2> DEFINE q == (i - 1) \div n
             b == q + 1
             k == i - q * n
  <2>1. i \in Nat /\ 1 <= i /\ i <= L /\ i - 1 \in Nat
    BY <1>1, <1>8 DEF L
  <2>2. q \in Nat /\ n * q <= i - 1 /\ i - 1 < n * q + n
    BY <2>1, Quotient
  <2> HIDE DEF q
  <2>3. n * b = n * q + n /\ q * n = n * q /\ b * n = n * b /\ n * q \in Int
    BY <2>2
  <2>4. n * b < n * K + n
    BY <1>1, <1>2, <2>1, <2>2, <2>3
  <2>5. b \in 1 .. K
    BY <1>2, <2>2, <2>4, Cancels
  <2>6. From(b) = q * n + 1
    BY <2>2 DEF From
  <2>7. k \in Nat /\ 1 <= k /\ From(b) + k - 1 = i
    BY <2>1, <2>2, <2>3, <2>6
  <2>8. i <= To(b)
    BY <1>1, <1>4, <2>1, <2>2, <2>3, <2>5
  <2> HIDE DEF k, b
  <2>9. k \in 1 .. Len(pieces[b])
    <3>1. From(b) \in Nat /\ To(b) \in Nat /\ Len(pieces[b]) = To(b) - From(b) + 1
      BY <1>4, <1>5, <2>5
    <3>2. i = From(b) + k - 1 /\ i <= To(b) /\ k \in Nat /\ 1 <= k
      BY <2>7, <2>8
    <3> QED
      BY <3>1, <3>2
  <2> QED
    BY <1>5, <1>6, <2>5, <2>7, <2>9
<1> QED
  BY <1>6, <1>7, <1>8 DEF HasAll

-----------------------------------------------------------------------------
(* chunk_files_by_size.  The loop is a fold: the k-th result comes from the *)
(* one before it and the k-th item, so what holds of no item and is kept by *)
(* each holds in the end.                                                  *)

Folded(f, uris, D) ==
    [s \in SUBSET D |-> IF s = {} THEN << <<>> >> ELSE Packed(f[s \ {Max(s)}], uris[Max(s)])]

LEMMA LastNumber ==
    ASSUME NEW n \in Nat, NEW s \in SUBSET (1 .. n + 1), ~ (s \subseteq 1 .. n)
    PROVE  Max(s) = n + 1
<1>1. n + 1 \in s /\ \A y \in s : y \in Int /\ n + 1 >= y
  OBVIOUS
<1>2. \A x \in s : (\A y \in s : x >= y) => x = n + 1
  BY <1>1
<1> QED
  BY <1>1, <1>2 DEF Max

(* A recursive function on the sets of the first n numbers exists.         *)
LEMMA FoldExists ==
    ASSUME NEW uris, NEW n \in Nat
    PROVE  \E f : f = Folded(f, uris, 1 .. n)
<1> DEFINE Missing == {m \in Nat : ~ \E f : f = Folded(f, uris, 1 .. m)}
<1> SUFFICES ASSUME Missing # {} PROVE FALSE
  OBVIOUS
<1>1. PICK m \in Missing : \A k \in Missing : ~ (<<k, m>> \in OpToRel(<, Nat))
  <2>1. Missing \subseteq Nat
    OBVIOUS
  <2> HIDE DEF Missing
  <2> QED
    BY <2>1, NatLessThanWellFounded, WFMin
<1>2. m \in Nat /\ \A k \in Missing : ~ (k < m)
  BY <1>1 DEF OpToRel
<1>3. CASE m = 0
  <2> DEFINE f == [s \in SUBSET (1 .. m) |-> << <<>> >>]
  <2>1. \A s \in SUBSET (1 .. m) : s = {}
    BY <1>3
  <2>2. f = Folded(f, uris, 1 .. m)
    <3> HIDE DEF Missing
    <3> QED
      BY <2>1 DEF Folded
  <2> QED
    BY <2>2
<1>4. CASE m # 0
  <2> DEFINE n0 == m - 1
  <2>1. n0 \in Nat /\ n0 < m /\ m = n0 + 1
    BY <1>2, <1>4
  <2> HIDE DEF n0
  <2>2. n0 \notin Missing
    BY <1>2, <2>1
  <2>3. PICK g : g = Folded(g, uris, 1 .. n0)
    BY <2>1, <2>2
  <2> DEFINE f == [s \in SUBSET (1 .. m) |->
                      IF s \subseteq 1 .. n0 THEN g[s]
                      ELSE Packed(g[s \ {m}], uris[m])]
  <2>4. ASSUME NEW s \in SUBSET (1 .. m)
        PROVE  f[s] = IF s = {} THEN << <<>> >>
                      ELSE Packed(f[s \ {Max(s)}], uris[Max(s)])
    <3>1. CASE s \subseteq 1 .. n0
      <4>1. s \in SUBSET (1 .. n0) /\ s \ {Max(s)} \in SUBSET (1 .. n0)
            /\ s \ {Max(s)} \in SUBSET (1 .. m)
        BY <3>1
      <4>2. f[s] = g[s] /\ f[s \ {Max(s)}] = g[s \ {Max(s)}]
        BY <4>1
      <4>3. g[s] = IF s = {} THEN << <<>> >>
                   ELSE Packed(g[s \ {Max(s)}], uris[Max(s)])
        BY <2>3, <4>1 DEF Folded
      <4> QED
        BY <4>2, <4>3
    <3>2. CASE ~ (s \subseteq 1 .. n0)
      <4>1. Max(s) = m /\ s # {}
        BY <2>1, <3>2, LastNumber
      <4>2. s \ {m} \in SUBSET (1 .. n0) /\ s \ {m} \in SUBSET (1 .. m)
        BY <2>1
      <4>3. f[s] = Packed(g[s \ {m}], uris[m]) /\ f[s \ {m}] = g[s \ {m}]
        BY <3>2, <4>2
      <4> QED
        BY <4>1, <4>3
    <3> QED
      BY <3>1, <3>2
  <2>5. f = [s \in SUBSET (1 .. m) |-> f[s]]
    OBVIOUS
  <2>6. f = Folded(f, uris, 1 .. m)
    <3> HIDE DEF f
    <3> QED
      BY <2>4, <2>5 DEF Folded
  <2> HIDE DEF f
  <2>7. m \notin Missing
    BY <2>6
  <2> QED
    BY <2>7
<1> QED
  BY <1>3, <1>4

(* The results of the fold, one for each number of items.                  *)
LEMMA FoldSteps ==
    ASSUME NEW T, NEW uris \in Seq(T)
    PROVE  \E r : /\ r[0] = << <<>> >>
                  /\ \A k \in 1 .. Len(uris) : r[k] = Packed(r[k - 1], uris[k])
                  /\ ChunkFilesBySize(uris) = r[Len(uris)]
<1> DEFINE D == DOMAIN uris
           f == CHOOSE f : f = Folded(f, uris, D)
<1>1. D = 1 .. Len(uris) /\ Len(uris) \in Nat
  BY LenProperties
<1>2. f = Folded(f, uris, D)
  <2> HIDE DEF D
  <2>1. \E g : g = Folded(g, uris, D)
    BY <1>1, FoldExists
  <2> QED
    BY <2>1
<1>3. ChunkFilesBySize(uris) = f[D]
  BY DEF ChunkFilesBySize, FoldLeft, MapThenFoldSet, Folded
<1> HIDE DEF D, f
<1>4. \A s \in SUBSET D : f[s] = IF s = {} THEN << <<>> >>
                                 ELSE Packed(f[s \ {Max(s)}], uris[Max(s)])
  BY <1>2 DEF Folded
<1> DEFINE r == [k \in 0 .. Len(uris) |-> f[1 .. k]]
<1>5. r[0] = << <<>> >>
  <2>1. 1 .. 0 = {} /\ 0 \in 0 .. Len(uris)
    BY <1>1
  <2> QED
    BY <1>4, <2>1
<1>6. ASSUME NEW k \in 1 .. Len(uris)
      PROVE  r[k] = Packed(r[k - 1], uris[k])
  <2>1. k \in Nat /\ k - 1 \in Nat /\ k \in 0 .. Len(uris) /\ k - 1 \in 0 .. Len(uris)
    BY <1>1
  <2>2. 1 .. k \in SUBSET D /\ 1 .. k # {}
    <3>1. 1 <= k /\ k <= Len(uris) /\ k \in 1 .. k
      BY <1>1, <2>1
    <3>2. \A j \in 1 .. k : j \in 1 .. Len(uris)
      BY <1>1, <2>1, <3>1
    <3>3. 1 .. k # {}
      BY <3>1
    <3> QED
      BY <1>1, <3>2, <3>3
  <2>3. Max(1 .. k) = k
    <3>1. 1 .. k \in SUBSET (1 .. (k - 1) + 1) /\ ~ (1 .. k \subseteq 1 .. k - 1)
      BY <2>1
    <3>2. Max(1 .. k) = (k - 1) + 1
      BY <2>1, <3>1, LastNumber
    <3> QED
      BY <2>1, <3>2
  <2>4. (1 .. k) \ {k} = 1 .. k - 1
    BY <2>1
  <2>5. f[1 .. k] = Packed(f[1 .. k - 1], uris[k])
    BY <1>4, <2>2, <2>3, <2>4
  <2> QED
    BY <2>1, <2>5
<1>7. ChunkFilesBySize(uris) = r[Len(uris)]
  BY <1>1, <1>3
<1> HIDE DEF r
<1> QED
  BY <1>5, <1>6, <1>7

HoldsFirst(bs, uris, n) ==
    /\ bs \in Seq(Seq(Names)) /\ 1 <= Len(bs)
    /\ \A i \in 1 .. n : \E b \in 1 .. Len(bs) : \E k \in 1 .. Len(bs[b]) : bs[b][k] = uris[i]

LEMMA PackedKeeps ==
    ASSUME NEW uris \in Seq(Names), NEW n \in Nat, n + 1 <= Len(uris),
           NEW bs, HoldsFirst(bs, uris, n)
    PROVE  HoldsFirst(Packed(bs, uris[n + 1]), uris, n + 1)
<1> DEFINE u == uris[n + 1]
           new == Packed(bs, u)
           L == Len(bs)
<1>0. u \in Names
  <2>1. n + 1 \in 1 .. Len(uris)
    BY LenProperties
  <2> QED
    BY <2>1, ElementOfSeq
<1> HIDE DEF u
<1>1. bs \in Seq(Seq(Names)) /\ L \in Nat /\ 1 <= L
  BY LenProperties DEF HoldsFirst
<1>2. \A b \in 1 .. L : bs[b] \in Seq(Names) /\ Len(bs[b]) \in Nat
  BY <1>1, ElementOfSeq, LenProperties
<1>3. new \in Seq(Seq(Names)) /\ L <= Len(new) /\ Len(new) \in Nat
      /\ (\A b \in 1 .. L : Len(bs[b]) <= Len(new[b]) /\ Len(new[b]) \in Nat
             /\ \A k \in 1 .. Len(bs[b]) : new[b][k] = bs[b][k])
      /\ (\E b \in 1 .. Len(new) : \E k \in 1 .. Len(new[b]) : new[b][k] = u)
  <2>1. CASE IsFull(Last(bs), u)
    <3>1. new = Append(bs, <<u>>)
      BY <2>1 DEF Packed
    <3>2. <<u>> \in Seq(Names) /\ Len(<<u>>) = 1 /\ <<u>>[1] = u
      BY <1>0
    <3> HIDE DEF new
    <3>3. /\ new \in Seq(Seq(Names)) /\ Len(new) = L + 1
          /\ \A b \in 1 .. L : new[b] = bs[b]
          /\ new[L + 1] = <<u>>
      BY <1>1, <3>1, <3>2, AppendProperties
    <3>4. L + 1 \in 1 .. Len(new) /\ 1 \in 1 .. Len(new[L + 1]) /\ new[L + 1][1] = u
      BY <1>1, <3>2, <3>3
    <3>5. \E b \in 1 .. Len(new) : \E k \in 1 .. Len(new[b]) : new[b][k] = u
      BY <3>4
    <3>6. ASSUME NEW b \in 1 .. L
          PROVE  Len(bs[b]) <= Len(new[b]) /\ Len(new[b]) \in Nat
                 /\ \A k \in 1 .. Len(bs[b]) : new[b][k] = bs[b][k]
      <4>1. new[b] = bs[b] /\ Len(bs[b]) \in Nat
        BY <1>2, <3>3
      <4> QED
        BY <4>1
    <3>7. L <= Len(new) /\ Len(new) \in Nat
      BY <1>1, <3>3
    <3> QED
      BY <3>3, <3>5, <3>6, <3>7
  <2>2. CASE ~ IsFull(Last(bs), u)
    <3> DEFINE long == Append(bs[L], u)
    <3>1. new = [bs EXCEPT ![L] = long]
      BY <2>2 DEF Packed
    <3>2. L \in 1 .. L /\ bs[L] \in Seq(Names)
      BY <1>1, <1>2
    <3>3. /\ long \in Seq(Names) /\ Len(long) = Len(bs[L]) + 1
          /\ \A k \in 1 .. Len(bs[L]) : long[k] = bs[L][k]
          /\ long[Len(bs[L]) + 1] = u
      BY <1>0, <3>2, AppendProperties
    <3> HIDE DEF new, long
    <3>4. /\ new \in Seq(Seq(Names)) /\ Len(new) = L
          /\ \A b \in 1 .. L : new[b] = IF b = L THEN long ELSE bs[b]
      BY <1>1, <3>1, <3>2, <3>3, ExceptSeq
    <3>5. new[L] = long /\ Len(bs[L]) + 1 \in 1 .. Len(new[L])
      BY <1>2, <3>2, <3>3, <3>4
    <3>6. \E b \in 1 .. Len(new) : \E k \in 1 .. Len(new[b]) : new[b][k] = u
      BY <3>2, <3>3, <3>4, <3>5
    <3>7. ASSUME NEW b \in 1 .. L
          PROVE  Len(bs[b]) <= Len(new[b]) /\ Len(new[b]) \in Nat
                 /\ \A k \in 1 .. Len(bs[b]) : new[b][k] = bs[b][k]
      <4>1. CASE b = L
        BY <1>2, <3>2, <3>3, <3>4, <4>1
      <4>2. CASE b # L
        BY <1>2, <3>4, <4>2
      <4> QED
        BY <4>1, <4>2
    <3> QED
      BY <1>1, <3>4, <3>6, <3>7
  <2> QED
    BY <2>1, <2>2
<1> HIDE DEF new, L
<1>4. ASSUME NEW i \in 1 .. n + 1
      PROVE  \E b \in 1 .. Len(new) : \E k \in 1 .. Len(new[b]) : new[b][k] = uris[i]
  <2>1. CASE i = n + 1
    BY <1>3, <2>1 DEF u
  <2>2. CASE i # n + 1
    <3>1. i \in 1 .. n
      BY <2>2
    <3>2. PICK b \in 1 .. L : \E k \in 1 .. Len(bs[b]) : bs[b][k] = uris[i]
      BY <3>1 DEF HoldsFirst, L
    <3>3. PICK k \in 1 .. Len(bs[b]) : bs[b][k] = uris[i]
      BY <3>2
    <3>4. b \in 1 .. Len(new) /\ k \in 1 .. Len(new[b]) /\ new[b][k] = uris[i]
      <4>1. Len(bs[b]) <= Len(new[b]) /\ Len(new[b]) \in Nat /\ Len(bs[b]) \in Nat
        BY <1>2, <1>3
      <4>2. new[b][k] = uris[i]
        BY <1>3, <3>3
      <4>3. b \in 1 .. Len(new)
        BY <1>1, <1>3
      <4>4. k \in 1 .. Len(new[b])
        BY <4>1
      <4> QED
        BY <4>2, <4>3, <4>4
    <3> QED
      BY <3>4
  <2> QED
    BY <2>1, <2>2
<1> QED
  BY <1>1, <1>3, <1>4 DEF HoldsFirst, new, u

(* chunk_files_by_size passes no file over either.                         *)
LEMMA PackingHoldsAll ==
    ASSUME NEW uris \in Seq(Names)
    PROVE  HoldsFirst(ChunkFilesBySize(uris), uris, Len(uris))
<1>0. Len(uris) \in Nat
  BY LenProperties
<1>1. PICK r : /\ r[0] = << <<>> >>
               /\ \A k \in 1 .. Len(uris) : r[k] = Packed(r[k - 1], uris[k])
               /\ ChunkFilesBySize(uris) = r[Len(uris)]
  BY FoldSteps
<1> DEFINE Wrong == {k \in 0 .. Len(uris) : ~ HoldsFirst(r[k], uris, k)}
<1>2. Wrong = {}
  <2> SUFFICES ASSUME Wrong # {} PROVE FALSE
    OBVIOUS
  <2>1. PICK m \in Wrong : \A k \in Wrong : ~ (<<k, m>> \in OpToRel(<, Nat))
    <3>1. Wrong \subseteq Nat
      BY <1>0
    <3> HIDE DEF Wrong
    <3> QED
      BY <3>1, NatLessThanWellFounded, WFMin
  <2>2. m \in Nat /\ m <= Len(uris) /\ ~ HoldsFirst(r[m], uris, m)
    BY <1>0
  <2>3. \A k \in Wrong : ~ (k < m)
    <3>1. Wrong \subseteq Nat
      BY <1>0
    <3> HIDE DEF Wrong
    <3> QED
      BY <2>1, <2>2, <3>1 DEF OpToRel
  <2>4. CASE m = 0
    <3>1. << <<>> >> \in Seq(Seq(Names)) /\ Len(<< <<>> >>) = 1
      <4>1. <<>> \in Seq(Names)
        BY EmptySeq
      <4> QED
        BY <4>1
    <3>2. HoldsFirst(<< <<>> >>, uris, 0)
      BY <3>1 DEF HoldsFirst
    <3> QED
      BY <1>1, <2>2, <2>4, <3>2
  <2>5. CASE m # 0
    <3>1. m - 1 \in Nat /\ m - 1 < m /\ m - 1 \in 0 .. Len(uris) /\ m \in 1 .. Len(uris)
      BY <1>0, <2>2, <2>5
    <3>2. HoldsFirst(r[m - 1], uris, m - 1)
      BY <2>3, <3>1
    <3>3. (m - 1) + 1 = m /\ (m - 1) + 1 <= Len(uris)
      BY <2>2, <3>1
    <3>4. HoldsFirst(Packed(r[m - 1], uris[(m - 1) + 1]), uris, (m - 1) + 1)
      BY <3>1, <3>2, <3>3, PackedKeeps
    <3> QED
      BY <1>1, <2>2, <3>1, <3>3, <3>4
  <2> QED
    BY <2>4, <2>5
<1> QED
  BY <1>0, <1>1, <1>2

(* Whatever the source, every file is in a batch.                          *)
LEMMA BatchesHoldAll ==
    /\ Batches \in Seq(Seq(Names))
    /\ \A f \in Files : \E b \in 1 .. Len(Batches) : \E k \in 1 .. Len(Batches[b]) :
          Batches[b][k] = SafeName[f]
<1>1. DOMAIN FileList = 1 .. Len(FileList) /\ Len(FileList) \in Nat
      /\ \A i \in 1 .. Len(FileList) : FileList[i] \in Files
  BY LoadBounds, LenProperties, ElementOfSeq
<1>2. Uris \in Seq(Names) /\ Len(Uris) = Len(FileList)
  <2>1. Uris \in [1 .. Len(FileList) -> Names]
    BY <1>1 DEF Uris, Names
  <2> QED
    BY <1>1, <2>1
<1>3. /\ Batches \in Seq(Seq(Names))
      /\ \A i \in 1 .. Len(Uris) : \E b \in 1 .. Len(Batches) :
            \E k \in 1 .. Len(Batches[b]) : Batches[b][k] = Uris[i]
  <2>1. CASE source = "rental_history"
    BY <1>2, <2>1, PackingHoldsAll DEF Batches, HoldsFirst
  <2>2. CASE source # "rental_history"
    <3>1. Batches \in Seq(Seq(Names)) /\ HasAll(Batches, Uris)
      BY <1>2, <2>2, LoadBounds, PiecesHoldAll DEF Batches
    <3> QED
      BY <3>1 DEF HasAll
  <2> QED
    BY <2>1, <2>2
<1>4. \A f \in Files : \E i \in 1 .. Len(Uris) : Uris[i] = SafeName[f]
  BY <1>1, <1>2 DEF Files, Range, Uris
<1> QED
  BY <1>3, <1>4

-----------------------------------------------------------------------------
(* The steps of the DAG.                                                   *)

LEMMA Replaced ==
    ASSUME NEW R, NEW s \in Seq(R), NEW b \in DOMAIN s, NEW e \in R,
           NEW t, t = [s EXCEPT ![b] = e]
    PROVE  /\ t \in Seq(R) /\ Len(t) = Len(s) /\ DOMAIN t = DOMAIN s
           /\ t[b] = e /\ \A c \in DOMAIN s : c # b => t[c] = s[c]
<1>1. DOMAIN s = 1 .. Len(s) /\ b \in 1 .. Len(s)
  BY LenProperties
<1>2. /\ t \in Seq(R) /\ Len(t) = Len(s)
      /\ \A j \in 1 .. Len(s) : t[j] = IF j = b THEN e ELSE s[j]
  BY <1>1, ExceptSeq
<1>3. DOMAIN t = 1 .. Len(t)
  BY <1>2, LenProperties
<1> QED
  BY <1>1, <1>2, <1>3

LEMMA WholeFacts ==
    /\ \A f, g \in Files : WholeOf(f) = WholeOf(g) => f = g
    /\ \A f \in Files : WholeOf(f) # None /\ WholeOf(f).file = f
<1>1. \A f \in Files : WholeOf(f).file = f
  BY DEF WholeOf
<1>2. ASSUME NEW f \in Files
      PROVE  WholeOf(f) # None
  <2>1. DOMAIN WholeOf(f) = {"file", "whole"} /\ DOMAIN None = {"file"}
    BY DEF WholeOf, None
  <2> QED
    BY <2>1
<1> QED
  BY <1>1, <1>2

LEMMA LoadInitially == Init => LoadInv
<1> SUFFICES ASSUME Init PROVE LoadInv
  OBVIOUS
<1>1. /\ source \in Sources /\ kind \in Kinds /\ legacy \in Legacies
      /\ local = [f \in Files |-> None] /\ staged = [n \in Names |-> None]
      /\ bronze = [d \in Dates |-> None] /\ pc = "list"
      /\ staging = <<>> /\ batches = <<>> /\ tasks = <<>> /\ jobs = <<>>
  BY DEF Init
<1>2. LoadTypes
  <2>1. kind \in [Files -> {"data", "other", "bad"}] /\ legacy \subseteq Files
    BY <1>1, LoadConstants
  <2>2. /\ staging \in Seq(StagingRecords) /\ batches \in Seq(Seq(Names))
        /\ tasks \in Seq(TaskRecords) /\ jobs \in Seq(Seq(JobRecords))
    BY <1>1, EmptySeq
  <2> QED
    BY <1>1, <2>1, <2>2 DEF LoadTypes
<1>3. FilesAreWhole
  BY <1>1 DEF FilesAreWhole, Names
<1>4. StagingFits /\ BatchesFit /\ TasksFit
  BY <1>1 DEF StagingFits, BatchesFit, TasksFit
<1>5. LoadJobsFit
  BY <1>1 DEF LoadJobsFit
<1> QED
  BY <1>2, <1>3, <1>4, <1>5 DEF LoadInv

LEMMA DownloadKeeps ==
    ASSUME LoadInv, NEW f \in Files, Download(f) \/ DownloadBreaks(f)
    PROVE  LoadInv'
<1>1. /\ pc = "list"
      /\ UNCHANGED <<source, kind, staged, legacy, pc, staging, batches, tasks, jobs, bronze>>
      /\ \E c \in {WholeOf(f), None} : local' = [local EXCEPT ![f] = c]
  BY DEF Download, DownloadBreaks, OnlyLocal, Leaves, WholeOf
<1>2. local \in [Files -> {WholeOf(g) : g \in Files} \cup {None}]
  BY DEF LoadInv, LoadTypes
<1>3. LoadTypes'
  BY <1>1, <1>2 DEF LoadInv, LoadTypes, WholeOf
<1>4. FilesAreWhole'
  <2>1. \A g \in Files : local'[g] = local[g] \/ local'[g] \in {WholeOf(g), None}
    BY <1>1, <1>2
  <2> QED
    BY <1>1, <2>1 DEF LoadInv, FilesAreWhole, WholeOf
<1>5. StagingFits' /\ BatchesFit' /\ LoadJobsFit' /\ TasksFit'
  BY <1>1 DEF LoadInv, StagingFits, BatchesFit, LoadJobsFit, TasksFit, Handled
<1> QED
  BY <1>3, <1>4, <1>5 DEF LoadInv

LEMMA ListedKeeps ==
    ASSUME LoadInv, Listed
    PROVE  LoadInv'
<1> DEFINE pieces == ChunkList(FileList, StagingSize)
           begin == [state |-> "todo", at |-> 1, tries |-> 0]
<1>1. /\ pc = "list" /\ pc' = "stage" /\ \A f \in Files : local[f] # None
      /\ staging' = [b \in DOMAIN pieces |-> begin]
      /\ UNCHANGED <<source, kind, local, staged, legacy, batches, tasks, jobs, bronze>>
  BY DEF Listed
<1>2. pieces \in Seq(Seq(Files))
  BY LoadBounds, PiecesHoldAll
<1> HIDE DEF pieces
<1>3. DOMAIN pieces = 1 .. Len(pieces) /\ Len(pieces) \in Nat
  BY <1>2, LenProperties
<1>4. begin \in StagingRecords
  BY DEF StagingRecords
<1>5. staging' \in Seq(StagingRecords) /\ Len(staging') = Len(pieces)
      /\ \A b \in DOMAIN staging' : staging'[b].state = "todo"
  <2>1. staging' \in [1 .. Len(pieces) -> StagingRecords]
    BY <1>1, <1>3, <1>4
  <2> QED
    BY <1>1, <1>3, <2>1
<1>6. LoadTypes'
  BY <1>1, <1>5 DEF LoadInv, LoadTypes, WholeOf
<1>7. FilesAreWhole'
  BY <1>1 DEF LoadInv, FilesAreWhole, WholeOf
<1>8. StagingFits'
  BY <1>1, <1>5 DEF StagingFits, pieces
<1>9. BatchesFit' /\ LoadJobsFit' /\ TasksFit'
  BY <1>1 DEF LoadInv, BatchesFit, LoadJobsFit, TasksFit, Handled
<1> QED
  BY <1>6, <1>7, <1>8, <1>9 DEF LoadInv

LEMMA StagingKeeps ==
    ASSUME LoadInv, pc = "stage", NEW b \in DOMAIN staging, NEW e \in StagingRecords,
           UNCHANGED <<source, kind, local, legacy, pc, batches, tasks, jobs, bronze>>,
           staging' = [staging EXCEPT ![b] = e],
           staged' \in [Names -> {WholeOf(f) : f \in Files} \cup {None}],
           \A f \in Files : staged'[SafeName[f]] \in {None, WholeOf(f)},
           \A n : IsStaged(n) => IsStaged(n)',
           e.state = "running" =>
              /\ e.at \in 1 .. Len(StagingBatch(b))
              /\ \A k \in 1 .. e.at - 1 : IsStaged(SafeName[StagingBatch(b)[k]])',
           e.state = "done" =>
              \A k \in 1 .. Len(StagingBatch(b)) : IsStaged(SafeName[StagingBatch(b)[k]])'
    PROVE  LoadInv'
<1>1. staging \in Seq(StagingRecords)
  BY DEF LoadInv, LoadTypes
<1>2. /\ staging' \in Seq(StagingRecords) /\ Len(staging') = Len(staging)
      /\ DOMAIN staging' = DOMAIN staging /\ staging'[b] = e
      /\ \A c \in DOMAIN staging : c # b => staging'[c] = staging[c]
  BY <1>1, Replaced
<1>3. LoadTypes'
  BY <1>2 DEF LoadInv, LoadTypes, WholeOf
<1>4. FilesAreWhole'
  BY DEF LoadInv, FilesAreWhole, WholeOf
<1>5. StagingFits'
  <2>1. Len(staging) = Len(ChunkList(FileList, StagingSize))
    BY DEF LoadInv, StagingFits
  <2>2. ASSUME NEW c \in DOMAIN staging
        PROVE  /\ staging'[c].state = "running" =>
                    /\ staging'[c].at \in 1 .. Len(StagingBatch(c))
                    /\ \A k \in 1 .. staging'[c].at - 1 :
                          IsStaged(SafeName[StagingBatch(c)[k]])'
               /\ staging'[c].state = "done" =>
                    \A k \in 1 .. Len(StagingBatch(c)) :
                        IsStaged(SafeName[StagingBatch(c)[k]])'
    <3>1. CASE c = b
      BY <1>2, <3>1
    <3>2. CASE c # b
      BY <1>2, <3>2 DEF LoadInv, StagingFits
    <3> QED
      BY <3>1, <3>2
  <2> QED
    BY <1>2, <2>1, <2>2 DEF StagingFits
<1>6. BatchesFit' /\ LoadJobsFit' /\ TasksFit'
  BY DEF LoadInv, BatchesFit, LoadJobsFit, TasksFit, Handled, WholeOf
<1> QED
  BY <1>3, <1>4, <1>5, <1>6 DEF LoadInv

LEMMA StageStepsKeep ==
    ASSUME LoadInv, NEW b \in DOMAIN staging, StageBegin(b) \/ StageFile(b) \/ StageFails(b)
    PROVE  LoadInv'
<1>1. /\ pc = "stage"
      /\ UNCHANGED <<source, kind, local, legacy, pc, batches, tasks, jobs, bronze>>
  BY DEF StageBegin, StageFile, StageFails, OnlyStaging
<1>2. /\ staging \in Seq(StagingRecords) /\ staging[b] \in StagingRecords
      /\ DOMAIN staging = 1 .. Len(staging)
      /\ Len(staging) = Len(ChunkList(FileList, StagingSize))
      /\ staged \in [Names -> {WholeOf(f) : f \in Files} \cup {None}]
      /\ \A f \in Files : /\ staged[SafeName[f]] \in {None, WholeOf(f)}
                          /\ local[f] = WholeOf(f)
  BY <1>1, ElementOfSeq, LenProperties DEF LoadInv, LoadTypes, StagingFits, FilesAreWhole
<1> DEFINE batch == StagingBatch(b)
           old == staging[b]
<1>3. batch \in Seq(Files) /\ 1 <= Len(batch) /\ Len(batch) \in Nat
      /\ \A k \in 1 .. Len(batch) : batch[k] \in Files
  <2>1. ChunkList(FileList, StagingSize) \in Seq(Seq(Files))
        /\ \A c \in 1 .. Len(ChunkList(FileList, StagingSize)) :
              1 <= Len(ChunkList(FileList, StagingSize)[c])
    BY LoadBounds, PiecesHoldAll
  <2>2. b \in 1 .. Len(ChunkList(FileList, StagingSize))
    BY <1>2
  <2>3. batch \in Seq(Files) /\ 1 <= Len(batch)
    BY <2>1, <2>2, ElementOfSeq DEF StagingBatch
  <2> QED
    BY <2>3, LenProperties, ElementOfSeq
<1>4. /\ old.state \in {"todo", "running", "done", "failed"} /\ old.at \in Nat
      /\ old.tries \in Nat /\ old.tries + 1 \in Nat /\ old.at + 1 \in Nat
      /\ old = [state |-> old.state, at |-> old.at, tries |-> old.tries]
  BY <1>2 DEF StagingRecords
<1>5. CASE StageBegin(b)
  <2> DEFINE e == [state |-> "running", at |-> 1, tries |-> old.tries + 1]
  <2>1. staging' = [staging EXCEPT ![b] = e] /\ staged' = staged
    BY <1>2, <1>4, <1>5 DEF StageBegin
  <2>2. e \in StagingRecords /\ e.state = "running" /\ e.at = 1
    BY <1>4 DEF StagingRecords
  <2>3. e.at \in 1 .. Len(batch) /\ \A k : ~ (k \in 1 .. e.at - 1)
    BY <1>3, <2>2
  <2>4. \A n : IsStaged(n) => IsStaged(n)'
    BY <2>1 DEF IsStaged
  <2> HIDE DEF e
  <2> QED
    BY <1>1, <1>2, <2>1, <2>2, <2>3, <2>4, StagingKeeps
<1>6. CASE StageFails(b)
  <2> DEFINE s == IF staging[b].tries < Tries THEN "todo" ELSE "failed"
             e == [state |-> s, at |-> old.at, tries |-> old.tries]
  <2>0. staging' = [staging EXCEPT ![b].state = s] /\ staged' = staged
        /\ s \in {"todo", "failed"}
    BY <1>6 DEF StageFails
  <2> HIDE DEF s
  <2>1. staging' = [staging EXCEPT ![b] = e]
    <3>1. [old EXCEPT !.state = s] = e
      BY <1>4
    <3>2. staging' = [staging EXCEPT ![b] = [old EXCEPT !.state = s]]
      BY <2>0
    <3> HIDE DEF e
    <3> QED
      BY <3>1, <3>2
  <2>2. e \in StagingRecords /\ e.state \in {"todo", "failed"}
    BY <1>4, <2>0 DEF StagingRecords
  <2>3. \A n : IsStaged(n) => IsStaged(n)'
    BY <2>0 DEF IsStaged
  <2> HIDE DEF e
  <2> QED
    BY <1>1, <1>2, <2>0, <2>1, <2>2, <2>3, StagingKeeps
<1>7. CASE StageFile(b)
  <2>1. old.state = "running"
    BY <1>7 DEF StageFile
  <2>2. old.at \in 1 .. Len(batch) /\ \A k \in 1 .. old.at - 1 : IsStaged(SafeName[batch[k]])
    BY <1>1, <2>1 DEF LoadInv, StagingFits, batch
  <2> PICK f \in Files : f = batch[old.at]
    BY <1>3, <2>2
  <2> DEFINE s == IF old.at = Len(batch) THEN "done" ELSE "running"
             e == [state |-> s, at |-> old.at + 1, tries |-> old.tries]
  <2>3. /\ staged' = [staged EXCEPT ![SafeName[f]] = Uploaded(f)]
        /\ staging' = [staging EXCEPT ![b].at = @ + 1, ![b].state = s]
        /\ s \in {"running", "done"}
        /\ s = "done" <=> old.at = Len(batch)
    BY <1>7 DEF StageFile, batch
  <2> HIDE DEF s
  <2>0. staging' = [staging EXCEPT ![b] = e]
    <3> DEFINE next == [state |-> old.state, at |-> old.at + 1, tries |-> old.tries]
    <3>0. [old EXCEPT !.at = @ + 1] = next /\ [next EXCEPT !.state = s] = e
      BY <1>4
    <3>1. [old EXCEPT !.at = @ + 1, !.state = s] = e
      <4> HIDE DEF old, next, e
      <4> QED
        BY <3>0
    <3>2. staging' = [staging EXCEPT ![b] = [old EXCEPT !.at = @ + 1, !.state = s]]
      BY <1>2, <2>3
    <3> HIDE DEF e
    <3> QED
      BY <3>1, <3>2
  <2>4. Uploaded(f) = WholeOf(f)
    BY <1>2, <2>3 DEF Uploaded, WholeOf
  <2>5. SafeName[f] \in Names /\ \A g \in Files : SafeName[g] \in Names
    BY DEF Names
  <2>6. staged' \in [Names -> {WholeOf(g) : g \in Files} \cup {None}]
    BY <1>2, <2>3, <2>4
  <2>7. /\ staged'[SafeName[f]] = WholeOf(f)
        /\ \A g \in Files : g # f => staged'[SafeName[g]] = staged[SafeName[g]]
    <3>1. \A n \in Names : staged'[n] = IF n = SafeName[f] THEN WholeOf(f) ELSE staged[n]
      BY <1>2, <2>3, <2>4
    <3>2. \A g \in Files : g # f => SafeName[g] # SafeName[f]
      BY LoadBounds
    <3> QED
      BY <2>5, <3>1, <3>2
  <2>8. \A g \in Files : staged'[SafeName[g]] \in {None, WholeOf(g)}
    BY <1>2, <2>7
  <2>9. \A n : IsStaged(n) => IsStaged(n)'
    BY <2>7 DEF IsStaged, WholeOf
  <2>10. IsStaged(SafeName[f])'
    BY <2>7 DEF IsStaged, WholeOf
  <2>11. \A k \in 1 .. old.at : IsStaged(SafeName[batch[k]])'
    <3> SUFFICES ASSUME NEW k \in 1 .. old.at PROVE IsStaged(SafeName[batch[k]])'
      OBVIOUS
    <3>1. CASE k = old.at
      BY <2>10, <3>1
    <3>2. CASE k # old.at
      <4>1. k \in 1 .. old.at - 1
        BY <1>4, <3>2
      <4> QED
        BY <2>2, <2>9, <4>1
    <3> QED
      BY <3>1, <3>2
  <2>12. e \in StagingRecords /\ e.state = s /\ e.at = old.at + 1
    BY <1>4, <2>3 DEF StagingRecords
  <2>13. e.state = "running" =>
            /\ e.at \in 1 .. Len(batch)
            /\ \A k \in 1 .. e.at - 1 : IsStaged(SafeName[batch[k]])'
    <3>1. e.at - 1 = old.at
      BY <1>4, <2>12
    <3>2. e.state = "running" => e.at \in 1 .. Len(batch)
      BY <1>3, <1>4, <2>2, <2>3, <2>12
    <3> QED
      BY <2>11, <3>1, <3>2
  <2>14. e.state = "done" => \A k \in 1 .. Len(batch) : IsStaged(SafeName[batch[k]])'
    BY <2>3, <2>11, <2>12
  <2> HIDE DEF e
  <2> QED
    BY <1>1, <2>0, <2>6, <2>8, <2>9, <2>12, <2>13, <2>14, StagingKeeps
<1> QED
  BY <1>5, <1>6, <1>7

LEMMA FilesInPieces ==
    ASSUME NEW f \in Files
    PROVE  \E b \in 1 .. Len(ChunkList(FileList, StagingSize)) :
              \E k \in 1 .. Len(ChunkList(FileList, StagingSize)[b]) :
                 ChunkList(FileList, StagingSize)[b][k] = f
<1> DEFINE pieces == ChunkList(FileList, StagingSize)
<1>1. DOMAIN FileList = 1 .. Len(FileList)
  BY LoadBounds, LenProperties
<1>2. PICK i \in 1 .. Len(FileList) : FileList[i] = f
  BY <1>1 DEF Files, Range
<1>3. FileList \in Seq(Files) /\ StagingSize \in Nat \ {0} /\ pieces = ChunkList(FileList, StagingSize)
  BY LoadBounds
<1> HIDE DEF pieces
<1>4. \A j \in 1 .. Len(FileList) : \E c \in 1 .. Len(pieces) :
         \E k \in 1 .. Len(pieces[c]) : pieces[c][k] = FileList[j]
  <2>1. HasAll(pieces, FileList)
    BY <1>3, PiecesHoldAll
  <2> QED
    BY <2>1 DEF HasAll
<1>5. \E b \in 1 .. Len(pieces) : \E k \in 1 .. Len(pieces[b]) : pieces[b][k] = f
  BY <1>2, <1>4
<1> QED
  BY <1>5 DEF pieces

(* All staging batches are through: every file is in S3, and in a batch.   *)
LEMMA StagedKeeps ==
    ASSUME LoadInv, Staged
    PROVE  LoadInv'
<1> DEFINE todo == [state |-> "todo", runs |-> 0]
           pieces == ChunkList(FileList, StagingSize)
<1>1. /\ pc = "stage" /\ pc' = "load" /\ batches' = Batches
      /\ tasks' = [b \in DOMAIN Batches |-> todo]
      /\ jobs' = [b \in DOMAIN Batches |-> <<>>]
      /\ staging' = <<>>
      /\ \A b \in DOMAIN staging : staging[b].state = "done"
      /\ UNCHANGED <<source, kind, local, staged, legacy, bronze>>
  BY DEF Staged
<1>2. /\ batches' \in Seq(Seq(Names))
      /\ \A f \in Files : \E b \in 1 .. Len(batches') : \E k \in 1 .. Len(batches'[b]) :
            batches'[b][k] = SafeName[f]
  BY <1>1, BatchesHoldAll
<1>3. /\ DOMAIN batches' = 1 .. Len(batches') /\ Len(batches') \in Nat
      /\ \A b \in 1 .. Len(batches') : DOMAIN batches'[b] = 1 .. Len(batches'[b])
  BY <1>2, LenProperties, ElementOfSeq
<1>4. /\ tasks' \in Seq(TaskRecords) /\ Len(tasks') = Len(batches')
      /\ \A b \in DOMAIN tasks' : tasks'[b].state = "todo"
  <2>1. todo \in TaskRecords /\ todo.state = "todo"
    BY DEF TaskRecords
  <2> HIDE DEF todo
  <2>2. tasks' \in [1 .. Len(batches') -> TaskRecords]
    BY <1>1, <1>3, <2>1
  <2> QED
    BY <1>1, <1>3, <2>1, <2>2
<1>5. /\ jobs' \in Seq(Seq(JobRecords)) /\ Len(jobs') = Len(batches')
      /\ \A b \in DOMAIN jobs' : jobs'[b] = <<>>
  <2>1. <<>> \in Seq(JobRecords)
    BY EmptySeq
  <2>2. jobs' \in [1 .. Len(batches') -> Seq(JobRecords)]
    BY <1>1, <1>3, <2>1
  <2> QED
    BY <1>1, <1>3, <2>2
<1>6. staging' \in Seq(StagingRecords)
  BY <1>1, EmptySeq
<1>7. LoadTypes'
  BY <1>1, <1>2, <1>4, <1>5, <1>6 DEF LoadInv, LoadTypes, WholeOf
<1>8. \A f \in Files : staged[SafeName[f]] = WholeOf(f)
  <2> SUFFICES ASSUME NEW f \in Files PROVE staged[SafeName[f]] = WholeOf(f)
    OBVIOUS
  <2>3. PICK b \in 1 .. Len(pieces) : \E k \in 1 .. Len(pieces[b]) : pieces[b][k] = f
    BY FilesInPieces
  <2>4. PICK k \in 1 .. Len(pieces[b]) : pieces[b][k] = f
    BY <2>3
  <2>5. b \in DOMAIN staging
    <3>1. staging \in Seq(StagingRecords) /\ Len(staging) = Len(pieces)
      BY <1>1 DEF LoadInv, LoadTypes, StagingFits
    <3> HIDE DEF pieces
    <3> QED
      BY <2>3, <3>1, LenProperties
  <2>6. IsStaged(SafeName[f])
    BY <1>1, <2>4, <2>5 DEF LoadInv, StagingFits, StagingBatch
  <2> QED
    BY <2>6, LoadBounds DEF IsStaged
<1>9. FilesAreWhole'
  BY <1>1, <1>8 DEF LoadInv, FilesAreWhole, WholeOf
<1>10. BatchesFit'
  BY <1>1, <1>2, <1>3, <1>4, <1>5 DEF BatchesFit
<1>11. LoadJobsFit' /\ TasksFit'
  <2>1. \A b \in DOMAIN jobs' : DOMAIN jobs'[b] = {}
    BY <1>5
  <2> QED
    BY <1>1, <1>4, <2>1 DEF LoadJobsFit, TasksFit
<1>12. StagingFits'
  BY <1>1 DEF StagingFits
<1> QED
  BY <1>7, <1>9, <1>10, <1>11, <1>12 DEF LoadInv

LEMMA TaskKeeps ==
    ASSUME LoadInv, pc = "load", OnlyTasks, jobs' = jobs, NEW b \in DOMAIN tasks,
           NEW e \in TaskRecords, tasks' = [tasks EXCEPT ![b] = e],
           e.state # "polling",
           e.state = "done" => \E t \in DOMAIN jobs[b] : jobs[b][t].state = "SUCCESS"
    PROVE  LoadInv'
<1>1. UNCHANGED <<source, kind, local, staged, legacy, pc, staging, batches, bronze>>
  BY DEF OnlyTasks
<1>2. /\ tasks' \in Seq(TaskRecords) /\ Len(tasks') = Len(tasks)
      /\ DOMAIN tasks' = DOMAIN tasks /\ tasks'[b] = e
      /\ \A c \in DOMAIN tasks : c # b => tasks'[c] = tasks[c]
  <2>1. tasks \in Seq(TaskRecords)
    BY DEF LoadInv, LoadTypes
  <2> QED
    BY <2>1, Replaced
<1>3. LoadTypes'
  BY <1>1, <1>2 DEF LoadInv, LoadTypes, WholeOf
<1>4. FilesAreWhole' /\ StagingFits' /\ BatchesFit' /\ LoadJobsFit'
  BY <1>1, <1>2 DEF LoadInv, FilesAreWhole, StagingFits, IsStaged, WholeOf, BatchesFit,
     LoadJobsFit, Handled
<1>5. TasksFit'
  <2>1. ASSUME NEW c \in DOMAIN tasks'
        PROVE  /\ tasks'[c].state = "polling" => jobs'[c] # <<>>
               /\ tasks'[c].state = "done" =>
                     \E t \in DOMAIN jobs'[c] : jobs'[c][t].state = "SUCCESS"
    <3>1. CASE c = b
      BY <1>2, <3>1
    <3>2. CASE c # b
      BY <1>2, <2>1, <3>2 DEF LoadInv, TasksFit
    <3> QED
      BY <3>1, <3>2
  <2> QED
    BY <1>1, <2>1 DEF TasksFit
<1> QED
  BY <1>3, <1>4, <1>5 DEF LoadInv

LEMMA PollStepsKeep ==
    ASSUME LoadInv, NEW b \in DOMAIN tasks, Poll(b) \/ PollGivesUp(b)
    PROVE  LoadInv'
<1>1. /\ pc = "load" /\ tasks[b].state = "polling" /\ jobs' = jobs /\ OnlyTasks
  BY DEF Poll, PollGivesUp
<1>2. tasks \in Seq(TaskRecords) /\ jobs \in Seq(Seq(JobRecords)) /\ Len(jobs) = Len(tasks)
  BY DEF LoadInv, LoadTypes, BatchesFit
<1>3. tasks[b] \in TaskRecords /\ b \in 1 .. Len(jobs)
  BY <1>2, LenProperties, ElementOfSeq
<1>4. jobs[b] \in Seq(JobRecords) /\ jobs[b] # <<>>
  BY <1>1, <1>2, <1>3, ElementOfSeq DEF LoadInv, TasksFit
<1> DEFINE last == Last(jobs[b])
<1>5. last \in JobRecords /\ \E t \in DOMAIN jobs[b] : jobs[b][t] = last
  <2>1. Len(jobs[b]) \in Nat \ {0} /\ DOMAIN jobs[b] = 1 .. Len(jobs[b])
    BY <1>4, EmptySeq, LenProperties
  <2>2. Len(jobs[b]) \in 1 .. Len(jobs[b])
    BY <2>1
  <2> QED
    BY <1>4, <2>1, <2>2, ElementOfSeq DEF Last
<1>6. RetryOrFail(b) \in {"todo", "failed"}
  BY DEF RetryOrFail
<1> HIDE DEF last
<1>7. \E s \in {"todo", "failed", "done"} :
         /\ tasks' = [tasks EXCEPT ![b].state = s]
         /\ s = "done" => \E t \in DOMAIN jobs[b] : jobs[b][t].state = "SUCCESS"
  <2>1. CASE PollGivesUp(b)
    BY <1>6, <2>1 DEF PollGivesUp
  <2>2. CASE Poll(b)
    <3>1. tasks' = [tasks EXCEPT ![b].state = Polled(b, last.state)] /\ last.state # "RUNNING"
      BY <2>2 DEF Poll, last
    <3>2. last.state \in {"SUCCESS", "FAILED"}
      BY <1>5, <3>1 DEF JobRecords
    <3>3. CASE last.state = "SUCCESS"
      <4>1. Polled(b, last.state) = "done"
        BY <3>3 DEF Polled
      <4> QED
        BY <1>5, <3>1, <3>3, <4>1
    <3>4. CASE last.state = "FAILED"
      <4>1. Polled(b, last.state) = RetryOrFail(b)
        BY <3>4 DEF Polled
      <4> QED
        BY <1>6, <3>1, <4>1
    <3> QED
      BY <3>2, <3>3, <3>4
  <2> QED
    BY <2>1, <2>2
<1>8. PICK s \in {"todo", "failed", "done"} :
         /\ tasks' = [tasks EXCEPT ![b].state = s]
         /\ s = "done" => \E t \in DOMAIN jobs[b] : jobs[b][t].state = "SUCCESS"
  BY <1>7
<1> DEFINE e == [tasks[b] EXCEPT !.state = s]
<1>9. e \in TaskRecords /\ e.state = s
  BY <1>3 DEF TaskRecords
<1>10. tasks' = [tasks EXCEPT ![b] = e]
  BY <1>8
<1> HIDE DEF e
<1> QED
  BY <1>1, <1>8, <1>9, <1>10, TaskKeeps

(* Another JobRun over the same files.                                     *)
LEMMA SubmitKeeps ==
    ASSUME LoadInv, NEW b \in DOMAIN tasks, Submit(b)
    PROVE  LoadInv'
<1> DEFINE new == [state |-> "RUNNING", at |-> 1, failed |-> FALSE]
           e == [state |-> "polling", runs |-> tasks[b].runs + 1]
           more == Append(jobs[b], new)
<1>1. /\ pc = "load"
      /\ UNCHANGED <<source, kind, local, staged, legacy, pc, staging, batches, bronze>>
      /\ tasks' = [tasks EXCEPT ![b].state = "polling", ![b].runs = @ + 1]
      /\ jobs' = [jobs EXCEPT ![b] = more]
  BY DEF Submit, OnlyTasks
<1>2. tasks \in Seq(TaskRecords) /\ jobs \in Seq(Seq(JobRecords)) /\ Len(jobs) = Len(tasks)
  BY DEF LoadInv, LoadTypes, BatchesFit
<1>3. /\ tasks[b] \in TaskRecords /\ b \in DOMAIN jobs /\ jobs[b] \in Seq(JobRecords)
      /\ b \in DOMAIN batches
  <2>1. Len(batches) = Len(tasks) /\ batches \in Seq(Seq(Names))
    BY DEF LoadInv, LoadTypes, BatchesFit
  <2> QED
    BY <1>2, <2>1, LenProperties, ElementOfSeq
<1>4. tasks' = [tasks EXCEPT ![b] = e] /\ e \in TaskRecords /\ e.state = "polling"
  <2>1. tasks[b].state \in {"todo", "polling", "done", "failed"} /\ tasks[b].runs \in Nat
        /\ tasks[b] = [state |-> tasks[b].state, runs |-> tasks[b].runs]
    BY <1>3 DEF TaskRecords
  <2>2. e \in TaskRecords /\ e.state = "polling"
    BY <2>1 DEF TaskRecords
  <2> DEFINE old == tasks[b]
             next == [state |-> "polling", runs |-> old.runs]
  <2>3. [old EXCEPT !.state = "polling"] = next /\ [next EXCEPT !.runs = @ + 1] = e
    BY <2>1
  <2>4. [old EXCEPT !.state = "polling", !.runs = @ + 1] = e
    <3> HIDE DEF old, next, e
    <3> QED
      BY <2>3
  <2>5. tasks' = [tasks EXCEPT ![b] = [old EXCEPT !.state = "polling", !.runs = @ + 1]]
    BY <1>1, <1>2, <2>1
  <2> HIDE DEF e
  <2> QED
    BY <2>2, <2>4, <2>5
<1>5. new \in JobRecords
  BY DEF JobRecords
<1>6. /\ more \in Seq(JobRecords) /\ more # <<>> /\ Len(more) = Len(jobs[b]) + 1
      /\ DOMAIN more = 1 .. Len(jobs[b]) + 1 /\ DOMAIN jobs[b] = 1 .. Len(jobs[b])
      /\ \A t \in DOMAIN jobs[b] : more[t] = jobs[b][t]
      /\ more[Len(jobs[b]) + 1] = new /\ Len(jobs[b]) \in Nat
  BY <1>3, <1>5, AppendProperties, LenProperties
<1>7. new.state = "RUNNING" /\ new.at = 1
  OBVIOUS
<1> HIDE DEF new, e, more
<1>8. /\ tasks' \in Seq(TaskRecords) /\ Len(tasks') = Len(tasks)
      /\ DOMAIN tasks' = DOMAIN tasks /\ tasks'[b] = e
      /\ \A c \in DOMAIN tasks : c # b => tasks'[c] = tasks[c]
  BY <1>2, <1>4, Replaced
<1>9. /\ jobs' \in Seq(Seq(JobRecords)) /\ Len(jobs') = Len(jobs)
      /\ DOMAIN jobs' = DOMAIN jobs /\ jobs'[b] = more
      /\ \A c \in DOMAIN jobs : c # b => jobs'[c] = jobs[c]
  BY <1>1, <1>2, <1>3, <1>6, Replaced
<1>10. LoadTypes'
  BY <1>1, <1>8, <1>9 DEF LoadInv, LoadTypes, WholeOf
<1>11. FilesAreWhole' /\ StagingFits' /\ BatchesFit'
  BY <1>1, <1>8, <1>9 DEF LoadInv, FilesAreWhole, StagingFits, IsStaged, WholeOf, BatchesFit
<1>12. LoadJobsFit'
  <2> SUFFICES ASSUME NEW c \in DOMAIN jobs', NEW t \in DOMAIN jobs'[c]
               PROVE  /\ jobs'[c][t].state = "RUNNING" /\ ~ jobs'[c][t].failed =>
                            \A k \in 1 .. Len(batches'[c]) :
                                k < jobs'[c][t].at => Handled(batches[c][k])'
                      /\ jobs'[c][t].state = "SUCCESS" =>
                            \A k \in 1 .. Len(batches'[c]) : Handled(batches[c][k])'
    BY DEF LoadJobsFit
  <2>1. CASE c = b /\ t = Len(jobs[b]) + 1
    <3>1. jobs'[c][t].state = "RUNNING" /\ jobs'[c][t].at = 1
      BY <1>6, <1>7, <1>9, <2>1
    <3>2. \A k \in 1 .. Len(batches'[c]) : ~ (k < 1)
      OBVIOUS
    <3> QED
      BY <3>1, <3>2
  <2>2. CASE ~ (c = b /\ t = Len(jobs[b]) + 1)
    <3>1. c \in DOMAIN jobs /\ t \in DOMAIN jobs[c] /\ jobs'[c][t] = jobs[c][t]
      <4>1. CASE c = b
        BY <1>3, <1>6, <1>9, <2>2, <4>1
      <4>2. CASE c # b
        BY <1>9, <4>2
      <4> QED
        BY <4>1, <4>2
    <3> QED
      BY <1>1, <3>1 DEF LoadInv, LoadJobsFit, Handled, WholeOf
  <2> QED
    BY <2>1, <2>2
<1>13. TasksFit'
  <2>1. ASSUME NEW c \in DOMAIN tasks'
        PROVE  /\ tasks'[c].state = "polling" => jobs'[c] # <<>>
               /\ tasks'[c].state = "done" =>
                     \E t \in DOMAIN jobs'[c] : jobs'[c][t].state = "SUCCESS"
    <3>1. CASE c = b
      BY <1>4, <1>6, <1>8, <1>9, <3>1
    <3>2. CASE c # b
      <4>1. c \in DOMAIN jobs
        BY <1>2, <1>8, LenProperties
      <4>2. c \in DOMAIN tasks /\ tasks'[c] = tasks[c] /\ jobs'[c] = jobs[c]
        BY <1>8, <1>9, <2>1, <3>2, <4>1
      <4> QED
        BY <4>2 DEF LoadInv, TasksFit
    <3> QED
      BY <3>1, <3>2
  <2> QED
    BY <1>1, <2>1 DEF TasksFit
<1> QED
  BY <1>10, <1>11, <1>12, <1>13 DEF LoadInv

LEMMA JobKeeps ==
    ASSUME LoadInv, OnlyJobs, NEW b \in DOMAIN jobs, NEW t \in DOMAIN jobs[b],
           NEW e \in JobRecords, jobs' = [jobs EXCEPT ![b] = [jobs[b] EXCEPT ![t] = e]],
           jobs[b][t].state = "RUNNING",
           bronze' \in [Dates -> {WholeOf(f) : f \in Files} \cup {None}],
           \A n : Handled(n) => Handled(n)',
           e.state = "RUNNING" /\ ~ e.failed =>
              \A k \in 1 .. Len(batches[b]) : k < e.at => Handled(batches[b][k])',
           e.state = "SUCCESS" => \A k \in 1 .. Len(batches[b]) : Handled(batches[b][k])'
    PROVE  LoadInv'
<1> DEFINE more == [jobs[b] EXCEPT ![t] = e]
<1>1. UNCHANGED <<source, kind, local, staged, legacy, pc, staging, batches, tasks>>
  BY DEF OnlyJobs
<1>2. jobs \in Seq(Seq(JobRecords)) /\ jobs[b] \in Seq(JobRecords)
  <2>1. jobs \in Seq(Seq(JobRecords))
    BY DEF LoadInv, LoadTypes
  <2> QED
    BY <2>1, LenProperties, ElementOfSeq
<1>3. /\ more \in Seq(JobRecords) /\ Len(more) = Len(jobs[b])
      /\ DOMAIN more = DOMAIN jobs[b] /\ more[t] = e
      /\ \A u \in DOMAIN jobs[b] : u # t => more[u] = jobs[b][u]
  BY <1>2, Replaced
<1> HIDE DEF more
<1>4. /\ jobs' \in Seq(Seq(JobRecords)) /\ Len(jobs') = Len(jobs)
      /\ DOMAIN jobs' = DOMAIN jobs /\ jobs'[b] = more
      /\ \A c \in DOMAIN jobs : c # b => jobs'[c] = jobs[c]
  <2>1. jobs' = [jobs EXCEPT ![b] = more]
    BY DEF more
  <2> QED
    BY <1>2, <1>3, <2>1, Replaced
<1>5. LoadTypes'
  BY <1>1, <1>4 DEF LoadInv, LoadTypes, WholeOf
<1>6. FilesAreWhole' /\ StagingFits' /\ BatchesFit'
  BY <1>1, <1>4 DEF LoadInv, FilesAreWhole, StagingFits, IsStaged, WholeOf, BatchesFit
<1>7. LoadJobsFit'
  <2> SUFFICES ASSUME NEW c \in DOMAIN jobs', NEW u \in DOMAIN jobs'[c]
               PROVE  /\ jobs'[c][u].state = "RUNNING" /\ ~ jobs'[c][u].failed =>
                            \A k \in 1 .. Len(batches'[c]) :
                                k < jobs'[c][u].at => Handled(batches[c][k])'
                      /\ jobs'[c][u].state = "SUCCESS" =>
                            \A k \in 1 .. Len(batches'[c]) : Handled(batches[c][k])'
    BY DEF LoadJobsFit
  <2>1. CASE c = b /\ u = t
    BY <1>1, <1>3, <1>4, <2>1
  <2>2. CASE ~ (c = b /\ u = t)
    <3>1. c \in DOMAIN jobs /\ u \in DOMAIN jobs[c] /\ jobs'[c][u] = jobs[c][u]
      <4>1. CASE c = b
        BY <1>3, <1>4, <2>2, <4>1
      <4>2. CASE c # b
        BY <1>4, <4>2
      <4> QED
        BY <4>1, <4>2
    <3>2. \A k : Handled(batches[c][k]) => Handled(batches[c][k])'
      <4> SUFFICES ASSUME NEW k, Handled(batches[c][k]) PROVE Handled(batches[c][k])'
        OBVIOUS
      <4>1. PICK n : n = batches[c][k]
        OBVIOUS
      <4>2. Handled(n)'
        BY <4>1
      <4>3. n = batches'[c][k]
        BY <1>1, <4>1
      <4> QED
        BY <4>2, <4>3
    <3> QED
      BY <1>1, <3>1, <3>2 DEF LoadInv, LoadJobsFit
  <2> QED
    BY <2>1, <2>2
<1>8. TasksFit'
  <2>1. ASSUME NEW c \in DOMAIN tasks'
        PROVE  /\ tasks'[c].state = "polling" => jobs'[c] # <<>>
               /\ tasks'[c].state = "done" =>
                     \E u \in DOMAIN jobs'[c] : jobs'[c][u].state = "SUCCESS"
    <3>0. c \in DOMAIN jobs /\ c \in DOMAIN tasks
      <4>1. Len(jobs) = Len(tasks) /\ tasks \in Seq(TaskRecords)
        BY DEF LoadInv, LoadTypes, BatchesFit
      <4> QED
        BY <1>1, <1>2, <4>1, LenProperties
    <3>1. CASE c = b
      <4>1. DOMAIN more # {}
        BY <1>3
      <4>2. more # <<>>
        BY <4>1
      <4>3. ASSUME tasks[b].state = "done"
            PROVE  \E u \in DOMAIN more : more[u].state = "SUCCESS"
        <5>1. PICK u \in DOMAIN jobs[b] : jobs[b][u].state = "SUCCESS"
          BY <3>0, <3>1, <4>3 DEF LoadInv, TasksFit
        <5>2. u # t
          BY <5>1
        <5> QED
          BY <1>3, <5>1, <5>2
      <4> QED
        BY <1>1, <1>4, <3>1, <4>2, <4>3
    <3>2. CASE c # b
      <4>1. jobs'[c] = jobs[c] /\ tasks'[c] = tasks[c]
        BY <1>1, <1>4, <3>0, <3>2
      <4> QED
        BY <3>0, <4>1 DEF LoadInv, TasksFit
    <3> QED
      BY <3>1, <3>2
  <2> QED
    BY <1>1, <2>1 DEF LoadInv, TasksFit
<1> QED
  BY <1>5, <1>6, <1>7, <1>8 DEF LoadInv

(* Two JobRuns that write the same date write the same rows.               *)
LEMMA JobStepsKeep ==
    ASSUME LoadInv, NEW b \in DOMAIN jobs, NEW t \in DOMAIN jobs[b],
           JobFile(b, t) \/ JobEnds(b, t) \/ JobDies(b, t)
    PROVE  LoadInv'
<1> DEFINE old == jobs[b][t]
<1>1. old.state = "RUNNING" /\ OnlyJobs
      /\ UNCHANGED <<source, kind, local, staged, legacy, pc, staging, batches, tasks>>
  BY DEF JobFile, JobEnds, JobDies, OnlyJobs
<1>2. /\ jobs \in Seq(Seq(JobRecords)) /\ jobs[b] \in Seq(JobRecords) /\ old \in JobRecords
      /\ b \in 1 .. Len(batches) /\ batches \in Seq(Seq(Names)) /\ batches[b] \in Seq(Names)
      /\ Len(batches[b]) \in Nat /\ \A k \in 1 .. Len(batches[b]) : batches[b][k] \in Names
      /\ bronze \in [Dates -> {WholeOf(f) : f \in Files} \cup {None}]
  <2>1. /\ jobs \in Seq(Seq(JobRecords)) /\ batches \in Seq(Seq(Names))
        /\ Len(jobs) = Len(batches)
        /\ bronze \in [Dates -> {WholeOf(f) : f \in Files} \cup {None}]
    BY DEF LoadInv, LoadTypes, BatchesFit
  <2>2. jobs[b] \in Seq(JobRecords) /\ b \in 1 .. Len(batches)
    BY <2>1, LenProperties, ElementOfSeq
  <2>3. batches[b] \in Seq(Names) /\ old \in JobRecords
    BY <2>1, <2>2, LenProperties, ElementOfSeq
  <2> QED
    BY <2>1, <2>2, <2>3, LenProperties, ElementOfSeq
<1>3. /\ old.at \in Nat /\ 1 <= old.at /\ old.failed \in BOOLEAN
      /\ old = [state |-> old.state, at |-> old.at, failed |-> old.failed]
  BY <1>2 DEF JobRecords
<1>4. ~ old.failed => \A k \in 1 .. Len(batches[b]) : k < old.at => Handled(batches[b][k])
  BY <1>1 DEF LoadInv, LoadJobsFit
<1> HIDE DEF old
<1>5. ASSUME bronze' = bronze, NEW s \in {"SUCCESS", "FAILED"},
             jobs' = [jobs EXCEPT ![b][t] = Ended(s)],
             s = "SUCCESS" => ~ old.failed /\ old.at > Len(batches[b])
      PROVE  LoadInv'
  <2> DEFINE e == Ended(s)
  <2>1. e \in JobRecords /\ e.state = s
    BY DEF Ended, JobRecords
  <2>2. \A n : Handled(n) <=> Handled(n)'
    BY <1>1, <1>5 DEF Handled, WholeOf
  <2>3. e.state = "SUCCESS" => \A k \in 1 .. Len(batches[b]) : Handled(batches[b][k])'
    <3> SUFFICES ASSUME s = "SUCCESS", NEW k \in 1 .. Len(batches[b])
                 PROVE  Handled(batches[b][k])'
      BY <2>1
    <3>1. PICK n : n = batches[b][k]
      OBVIOUS
    <3>2. k < old.at
      BY <1>2, <1>3, <1>5
    <3>3. Handled(n)
      BY <1>4, <1>5, <3>1, <3>2
    <3>4. Handled(n)' /\ n = batches'[b][k]
      BY <1>1, <2>2, <3>1, <3>3
    <3> QED
      BY <3>4
  <2>4. jobs' = [jobs EXCEPT ![b] = [jobs[b] EXCEPT ![t] = e]]
    BY <1>5
  <2> HIDE DEF e
  <2> QED
    BY <1>1, <1>2, <1>5, <2>1, <2>2, <2>3, <2>4, JobKeeps DEF old
<1>6. CASE JobDies(b, t)
  BY <1>5, <1>6 DEF JobDies
<1>7. CASE JobEnds(b, t)
  BY <1>5, <1>7 DEF JobEnds, old
<1>8. CASE JobFile(b, t)
  <2>1. old.at \in 1 .. Len(batches[b])
    BY <1>2, <1>3, <1>8 DEF JobFile, old
  <2>2. PICK name \in Names : name = batches[b][old.at]
    BY <1>2, <2>1
  <2>3. PICK f \in Files : name = SafeName[f]
    BY DEF Names
  <2>4. staged[name] = WholeOf(f) /\ WholeOf(f).file = f
    <3>1. batches # <<>>
      BY <1>2
    <3>2. pc \in {"load", "watermark"}
      BY <3>1 DEF LoadInv, LoadTypes, BatchesFit
    <3> QED
      BY <2>3, <3>2, WholeFacts DEF LoadInv, FilesAreWhole
  <2> DEFINE ill == old.failed \/ kind[f] = "bad"
             e == [state |-> "RUNNING", at |-> old.at + 1, failed |-> ill]
  <2>5. /\ bronze' = IF kind[f] = "data" THEN Loaded(WholeOf(f)) ELSE bronze
        /\ jobs' = [jobs EXCEPT ![b][t].at = @ + 1,
                                ![b][t].failed = @ \/ kind[f] = "bad"]
    <3>1. staged[batches[b][jobs[b][t].at]] = WholeOf(f)
      BY <2>2, <2>4 DEF old
    <3> QED
      BY <1>8, <2>4, <3>1 DEF JobFile
  <2>6. e \in JobRecords /\ e.state = "RUNNING" /\ e.at = old.at + 1
        /\ (e.failed <=> ill)
    <3>1. old.at + 1 \in Nat \ {0}
      BY <1>3
    <3>2. ill \in BOOLEAN
      BY <1>3
    <3> HIDE DEF ill
    <3>3. e.state = "RUNNING" /\ e.at = old.at + 1 /\ e.failed = ill
      OBVIOUS
    <3>4. e \in JobRecords
      BY <3>1, <3>2 DEF JobRecords
    <3> QED
      BY <3>3, <3>4
  <2>7. jobs' = [jobs EXCEPT ![b] = [jobs[b] EXCEPT ![t] = e]]
    <3> DEFINE next == [state |-> "RUNNING", at |-> old.at + 1, failed |-> old.failed]
    <3>1. [old EXCEPT !.at = @ + 1] = next
      BY <1>1, <1>3
    <3>2. [next EXCEPT !.failed = @ \/ kind[f] = "bad"] = e
      OBVIOUS
    <3>3. [old EXCEPT !.at = @ + 1, !.failed = @ \/ kind[f] = "bad"] = e
      <4> HIDE DEF next, e
      <4> QED
        BY <3>1, <3>2
    <3>4. jobs' = [jobs EXCEPT ![b] =
                     [jobs[b] EXCEPT ![t] =
                        [old EXCEPT !.at = @ + 1, !.failed = @ \/ kind[f] = "bad"]]]
      BY <1>2, <2>5 DEF old
    <3> HIDE DEF e
    <3> QED
      BY <3>3, <3>4
  <2>8. /\ bronze' \in [Dates -> {WholeOf(g) : g \in Files} \cup {None}]
        /\ kind[f] = "data" =>
              \A d \in Dates : bronze'[d] = IF d \in DatesOf[f] THEN WholeOf(f) ELSE bronze[d]
        /\ kind[f] # "data" => bronze' = bronze
    BY <1>2, <2>4, <2>5 DEF Loaded
  <2>9. \A g \in Files : DatesOf[g] \subseteq Dates
    BY DEF Dates
  <2>10. ASSUME NEW n, Handled(n)
         PROVE  Handled(n)'
    <3>1. PICK g \in Files :
             /\ n = SafeName[g] /\ kind[g] # "bad"
             /\ kind[g] = "data" => \A d \in DatesOf[g] : bronze[d] = WholeOf(g)
      BY <2>10 DEF Handled
    <3>2. kind[g] = "data" => \A d \in DatesOf[g] : bronze'[d] = WholeOf(g)
      BY <2>8, <2>9, <3>1, LoadBounds
    <3> QED
      BY <1>1, <3>1, <3>2 DEF Handled, WholeOf
  <2>11. kind[f] # "bad" => Handled(name)'
    <3>1. kind[f] = "data" => \A d \in DatesOf[f] : bronze'[d] = WholeOf(f)
      BY <2>8, <2>9
    <3> QED
      BY <1>1, <2>3, <3>1 DEF Handled, WholeOf
  <2>12. e.state = "RUNNING" /\ ~ e.failed =>
           \A k \in 1 .. Len(batches[b]) : k < e.at => Handled(batches[b][k])'
    <3> SUFFICES ASSUME ~ ill, NEW k \in 1 .. Len(batches[b]), k < old.at + 1
                 PROVE  Handled(batches[b][k])'
      BY <2>6
    <3>1. PICK n : n = batches[b][k] /\ n = batches'[b][k]
      BY <1>1
    <3>2. CASE k = old.at
      BY <2>2, <2>11, <3>1, <3>2
    <3>3. CASE k # old.at
      <4>1. k < old.at
        BY <1>3, <3>3
      <4> QED
        BY <1>4, <2>10, <3>1, <4>1
    <3> QED
      BY <3>2, <3>3
  <2> HIDE DEF e
  <2> QED
    BY <1>1, <2>6, <2>7, <2>8, <2>10, <2>12, JobKeeps DEF old
<1> QED
  BY <1>6, <1>7, <1>8

LEMMA JobsLeftAlone ==
    ASSUME LoadJobsFit, UNCHANGED <<kind, batches, jobs, bronze>>
    PROVE  LoadJobsFit'
<1>1. \A n : Handled(n) => Handled(n)'
  BY DEF Handled, WholeOf
<1> SUFFICES ASSUME NEW b \in DOMAIN jobs', NEW t \in DOMAIN jobs'[b]
             PROVE  /\ jobs'[b][t].state = "RUNNING" /\ ~ jobs'[b][t].failed =>
                          \A k \in 1 .. Len(batches'[b]) :
                              k < jobs'[b][t].at => Handled(batches[b][k])'
                    /\ jobs'[b][t].state = "SUCCESS" =>
                          \A k \in 1 .. Len(batches'[b]) : Handled(batches[b][k])'
  BY DEF LoadJobsFit
<1>2. b \in DOMAIN jobs /\ t \in DOMAIN jobs[b] /\ jobs'[b][t] = jobs[b][t]
      /\ batches'[b] = batches[b]
  OBVIOUS
<1>3. \A k : Handled(batches[b][k]) => Handled(batches[b][k])'
  <2> SUFFICES ASSUME NEW k, Handled(batches[b][k]) PROVE Handled(batches[b][k])'
    OBVIOUS
  <2>1. PICK n : n = batches[b][k] /\ n = batches'[b][k]
    OBVIOUS
  <2> QED
    BY <1>1, <2>1
<1> QED
  BY <1>2, <1>3 DEF LoadJobsFit

LEMMA SetWatermarkKeeps ==
    ASSUME LoadInv, SetWatermark
    PROVE  LoadInv'
<1>1. /\ pc = "load" /\ pc' = "watermark" /\ \A b \in DOMAIN tasks : tasks[b].state = "done"
      /\ UNCHANGED <<source, kind, local, staged, legacy, staging, batches, tasks, jobs, bronze>>
  BY DEF SetWatermark
<1>2. LoadTypes'
  BY <1>1 DEF LoadInv, LoadTypes, WholeOf
<1>3. FilesAreWhole'
  BY <1>1 DEF LoadInv, FilesAreWhole, WholeOf
<1>4. StagingFits'
  BY <1>1 DEF StagingFits
<1>5. BatchesFit'
  BY <1>1 DEF LoadInv, BatchesFit
<1>6. LoadJobsFit'
  BY <1>1, JobsLeftAlone DEF LoadInv
<1>7. TasksFit'
  BY <1>1 DEF LoadInv, TasksFit
<1> QED
  BY <1>2, <1>3, <1>4, <1>5, <1>6, <1>7 DEF LoadInv

LEMMA LoadStep == LoadInv /\ [Next]_vars => LoadInv'
<1> SUFFICES ASSUME LoadInv, [Next]_vars PROVE LoadInv'
  OBVIOUS
<1>1. CASE UNCHANGED vars
  <2>1. UNCHANGED <<source, kind, local, staged, legacy, pc, staging, batches, tasks, jobs, bronze>>
    BY <1>1 DEF vars
  <2>2. LoadTypes'
    BY <2>1 DEF LoadInv, LoadTypes, WholeOf
  <2>3. FilesAreWhole'
    BY <2>1 DEF LoadInv, FilesAreWhole, WholeOf
  <2>4. StagingFits'
    BY <2>1 DEF LoadInv, StagingFits, StagingBatch, IsStaged, WholeOf
  <2>5. BatchesFit'
    BY <2>1 DEF LoadInv, BatchesFit
  <2>6. LoadJobsFit'
    BY <2>1, JobsLeftAlone DEF LoadInv
  <2>7. TasksFit'
    BY <2>1 DEF LoadInv, TasksFit
  <2> QED
    BY <2>2, <2>3, <2>4, <2>5, <2>6, <2>7 DEF LoadInv
<1>2. CASE Listing
  BY <1>2, DownloadKeeps, ListedKeeps DEF Listing
<1>3. CASE Staging
  BY <1>3, StageStepsKeep, StagedKeeps DEF Staging
<1>4. CASE Loading
  BY <1>4, SubmitKeeps, PollStepsKeep, JobStepsKeep, SetWatermarkKeeps DEF Loading
<1> QED
  BY <1>1, <1>2, <1>3, <1>4 DEF Next, RentalHistory, FailureReport

(* When the watermark of a source is written, every date of every file of  *)
(* its data set is in Bronze with all its rows, however many files there   *)
(* are, however they are cut, whatever broke on the way and whichever      *)
(* JobRuns were left behind (initial_load_dag.py).                         *)
THEOREM WatermarkIsEarned == Spec => []WatermarkMeansLoaded
<1>1. Init => LoadInv
  BY LoadInitially
<1>2. LoadInv /\ [Next]_vars => LoadInv'
  BY LoadStep
<1>3. LoadInv => WatermarkMeansLoaded
  <2> SUFFICES ASSUME LoadInv, pc = "watermark", NEW f \in Files, NEW d \in DatesOf[f],
                      kind[f] = "data"
               PROVE  bronze[d] = [file |-> f, whole |-> TRUE]
    BY DEF WatermarkMeansLoaded
  <2>1. PICK b \in DOMAIN batches : \E k \in DOMAIN batches[b] : batches[b][k] = SafeName[f]
    BY DEF LoadInv, BatchesFit
  <2>2. PICK k \in DOMAIN batches[b] : batches[b][k] = SafeName[f]
    BY <2>1
  <2>3. /\ batches \in Seq(Seq(Names)) /\ tasks \in Seq(TaskRecords)
        /\ jobs \in Seq(Seq(JobRecords))
        /\ Len(tasks) = Len(batches) /\ Len(jobs) = Len(batches)
    BY DEF LoadInv, LoadTypes, BatchesFit
  <2>4. b \in DOMAIN tasks /\ b \in DOMAIN jobs /\ batches[b] \in Seq(Names)
    BY <2>3, LenProperties, ElementOfSeq
  <2>5. k \in 1 .. Len(batches[b])
    BY <2>4, LenProperties
  <2>6. PICK t \in DOMAIN jobs[b] : jobs[b][t].state = "SUCCESS"
    BY <2>4 DEF LoadInv, TasksFit
  <2>7. Handled(SafeName[f])
    BY <2>2, <2>4, <2>5, <2>6 DEF LoadInv, LoadJobsFit
  <2> QED
    BY <2>7, LoadBounds DEF Handled, WholeOf
<1> QED
  BY <1>1, <1>2, <1>3, PTL DEF Spec
================================================================================
