-------------------------- MODULE StreamBusProofs --------------------------
(***************************************************************************)
(* Proofs about StreamBus, for any tasks, sizes, retries, crashes and      *)
(* Redis errors.                                                           *)
(***************************************************************************)
EXTENDS StreamBus, FiniteSetTheorems, SequenceTheorems, TLAPS

(***************************************************************************)
(* Oldest(S, n) lists elements of S in order, from the smallest on: the    *)
(* ranks of the elements of S are exactly the numbers 1..Cardinality(S).   *)
(***************************************************************************)
UpTo(S, x) == {y \in S : y <= x}
Rank(S, x) == Cardinality(UpTo(S, x))

\* The larger of two elements has the higher rank.
LEMMA RankGrows ==
  ASSUME NEW S \in SUBSET Nat, IsFiniteSet(S), NEW x \in S, NEW y \in S, x < y
  PROVE  Rank(S, x) < Rank(S, y)
<1>0. x \in Nat /\ y \in Nat /\ \A z \in S : z \in Nat OBVIOUS
<1>1. UpTo(S, x) \subseteq UpTo(S, y) /\ y \in UpTo(S, y) /\ y \notin UpTo(S, x)
  <2>1. ASSUME NEW z \in S, z <= x PROVE z <= y
    <3>1. z \in Nat OBVIOUS
    <3> QED BY <1>0, <2>1, <3>1
  <2>2. UpTo(S, x) \subseteq UpTo(S, y) BY <2>1, Zenon DEF UpTo
  <2> QED BY <1>0, <2>2 DEF UpTo
<1>2. IsFiniteSet(UpTo(S, x)) /\ IsFiniteSet(UpTo(S, y)) BY FS_Subset DEF UpTo
<1>3. UpTo(S, x) \in SUBSET UpTo(S, y) /\ UpTo(S, x) # UpTo(S, y) BY <1>1
<1>4. /\ Cardinality(UpTo(S, x)) <= Cardinality(UpTo(S, y))
      /\ Cardinality(UpTo(S, x)) # Cardinality(UpTo(S, y))
  BY <1>2, <1>3, FS_Subset
<1> QED BY <1>2, <1>4, FS_CardinalityType DEF Rank

\* Every number up to the size of S is the rank of an element of S.
LEMMA EveryRankIsTaken ==
  ASSUME NEW S \in SUBSET Nat, IsFiniteSet(S), NEW i \in 1..Cardinality(S)
  PROVE  \E x \in S : Rank(S, x) = i
<1> DEFINE f == [x \in S |-> Rank(S, x)]
           Ranks == 1..Cardinality(S)
<1>1. ASSUME NEW x \in S PROVE Rank(S, x) \in Ranks
  <2>1. UpTo(S, x) \in SUBSET S /\ x \in UpTo(S, x) BY DEF UpTo
  <2>2. IsFiniteSet(UpTo(S, x)) /\ Cardinality(UpTo(S, x)) <= Cardinality(S) BY <2>1, FS_Subset
  <2>3. Cardinality(UpTo(S, x)) # 0 BY <2>1, <2>2, FS_EmptySet
  <2> QED BY <2>2, <2>3, FS_CardinalityType DEF Rank
<1>2. f \in Injection(S, Ranks)
  <2>1. f \in [S -> Ranks] BY <1>1
  <2>2. ASSUME NEW x \in S, NEW y \in S, f[x] = f[y] PROVE x = y
    <3>1. ~(x < y) /\ ~(y < x) BY <1>1, <2>2, RankGrows
    <3> QED BY <3>1
  <2> QED BY <2>1, <2>2 DEF Injection, IsInjective
<1>3. IsFiniteSet(Ranks) /\ Cardinality(Ranks) = Cardinality(S)
  <2>1. Cardinality(S) \in Nat BY FS_CardinalityType
  <2> QED BY <2>1, FS_Interval
<1>4. f \in Surjection(S, Ranks) BY <1>2, <1>3, FS_Injection
<1> QED BY <1>4 DEF Surjection

Ascending(o) == \A i, j \in 1..Len(o) : i < j => o[i] < o[j]
NoneSkipped(o, S) == \A i \in 1..Len(o) : \A x \in S : x <= o[i] => \E j \in 1..i : o[j] = x

\* XREADGROUP hands over the smallest elements, in order, and skips none below the last.
LEMMA OldestInOrder ==
  ASSUME NEW S \in SUBSET Nat, IsFiniteSet(S), NEW n \in Nat, NEW o, o = Oldest(S, n)
  PROVE  /\ o \in Seq(S)
         /\ Len(o) = IF Cardinality(S) < n THEN Cardinality(S) ELSE n
         /\ Ascending(o) /\ NoneSkipped(o, S)
<1> DEFINE k == IF Cardinality(S) < n THEN Cardinality(S) ELSE n
<1>0. Cardinality(S) \in Nat /\ \A x \in S : x \in Nat BY FS_CardinalityType
<1>1. k \in Nat /\ k <= Cardinality(S) BY <1>0
<1>2. o = [i \in 1..k |-> CHOOSE x \in S : Rank(S, x) = i]
  BY DEF Oldest, Rank, UpTo
<1> HIDE DEF k
<1>3. ASSUME NEW i \in 1..k PROVE o[i] \in S /\ Rank(S, o[i]) = i
  <2>1. \E x \in S : Rank(S, x) = i BY <1>0, <1>1, EveryRankIsTaken
  <2> QED BY <1>2, <2>1
<1>4. o \in [1..k -> S] BY <1>2, <1>3
<1>5. o \in Seq(S) /\ Len(o) = k BY <1>1, <1>4, SeqDef
<1>6. ASSUME NEW i \in 1..k, NEW j \in 1..k, i < j PROVE o[i] < o[j]
  <2>1. o[i] \in S /\ Rank(S, o[i]) = i /\ o[j] \in S /\ Rank(S, o[j]) = j BY <1>3
  <2>2. o[i] \in Nat /\ o[j] \in Nat BY <1>0, <2>1, Zenon
  <2>3. ~(o[j] < o[i]) BY <1>6, <2>1, <2>2, RankGrows
  <2>4. o[i] # o[j] BY <1>6, <2>1, <2>2
  <2> QED BY <2>2, <2>3, <2>4
<1>7. ASSUME NEW i \in 1..k, NEW x \in S, x <= o[i] PROVE \E j \in 1..i : o[j] = x
  <2>1. o[i] \in S /\ Rank(S, o[i]) = i /\ o[i] \in Nat /\ x \in Nat BY <1>0, <1>3, Zenon
  <2>2. Rank(S, x) \in Nat /\ Rank(S, x) # 0
    <3>1. UpTo(S, x) \in SUBSET S /\ x \in UpTo(S, x) BY <2>1 DEF UpTo
    <3>2. IsFiniteSet(UpTo(S, x)) BY <3>1, FS_Subset
    <3> QED BY <3>1, <3>2, FS_CardinalityType, FS_EmptySet DEF Rank
  <2>3. Rank(S, x) <= i
    <3>1. CASE x = o[i] BY <2>1, <3>1
    <3>2. CASE x < o[i] BY <2>1, <2>2, <3>2, RankGrows
    <3> QED BY <1>7, <2>1, <3>1, <3>2
  <2>4. Rank(S, x) \in 1..i BY <2>1, <2>2, <2>3
  <2>5. o[Rank(S, x)] = x
    <3>1. Rank(S, x) \in 1..k BY <1>1, <2>4
    <3>2. PICK y \in S : y = o[Rank(S, x)] /\ Rank(S, y) = Rank(S, x) BY <1>3, <3>1
    <3>3. ~(y < x) /\ ~(x < y) BY <2>2, <3>2, RankGrows
    <3>4. y \in Nat BY <1>0
    <3> QED BY <2>1, <3>2, <3>3, <3>4
  <2> QED BY <2>4, <2>5
<1> QED BY <1>5, <1>6, <1>7 DEF k, Ascending, NoneSkipped

-----------------------------------------------------------------------------
(* Types, and what the consumer holds in memory.                           *)

Item == [id : Nat, data : Entry \cup {NoData}]

Typed ==
    /\ log \in Seq(Entry)
    /\ trimmed \in Nat /\ trimmed <= Len(log) /\ read \in Nat /\ read <= Len(log)
    /\ pel \in SUBSET (1..read)
    /\ phase \in {"down", "boot", "recover", "poll", "next", "settle", "ack", "dead"}
    /\ batch \in Seq(Item)
    /\ dlq \in SUBSET Tasks /\ dropped \in SUBSET Tasks /\ published \in SUBSET Tasks
    /\ runs \in [Tasks -> Nat] /\ failures \in [Tasks -> Nat]

\* The batch is a part of the pending list, in order, and says what the stream says.
FromTheStream(b) == IF b.data = NoData THEN b.id <= trimmed ELSE b.data = log[b.id]
Batched ==
    /\ \A i \in 1..Len(batch) : batch[i].id \in pel /\ FromTheStream(batch[i])
    /\ \A i, j \in 1..Len(batch) : i < j => batch[i].id < batch[j].id
    /\ phase \in {"settle", "ack"} => batch # <<>> /\ Current.data # NoData

\* The stream only grows at its end, and is only trimmed from its start.
Grown ==
    /\ log' \in Seq(Entry) /\ Len(log) <= Len(log')
    /\ \A i \in 1..Len(log) : log'[i] = log[i]
    /\ trimmed' \in Nat /\ trimmed <= trimmed' /\ trimmed' <= Len(log')

\* XADD adds copies of one entry at the end and trims at the start only.
LEMMA XAddGrows ==
  ASSUME Typed, NEW e \in Entry, NEW n \in Nat, XAdd(e, n)
  PROVE  /\ Grown /\ Len(log') = Len(log) + n
         /\ \A i \in (Len(log) + 1)..Len(log') : log'[i] = e
<1> DEFINE new == [i \in 1..n |-> e]
<1>1. new \in Seq(Entry) /\ Len(new) = n /\ \A i \in 1..n : new[i] = e BY SeqDef
<1>2. log \in Seq(Entry) /\ Len(log) \in Nat BY LenProperties DEF Typed
<1>3. log' = log \o new BY DEF XAdd
<1> HIDE DEF new
<1>4. /\ log' \in Seq(Entry) /\ Len(log') = Len(log) + n
      /\ \A i \in 1..Len(log) + n : log'[i] = IF i <= Len(log) THEN log[i] ELSE new[i - Len(log)]
  BY <1>1, <1>2, <1>3, ConcatProperties
<1>5. ASSUME NEW i \in (Len(log) + 1)..Len(log') PROVE log'[i] = e
  <2>1. i \in 1..Len(log) + n /\ ~(i <= Len(log)) /\ i - Len(log) \in 1..n BY <1>2, <1>4
  <2>2. log'[i] = new[i - Len(log)] BY <1>4, <2>1
  <2> QED BY <1>1, <2>1, <2>2
<1>6. trimmed' \in Nat /\ trimmed <= trimmed' /\ trimmed' <= Len(log')
  <2>1. Maxlen \in Nat BY SizeAssumption
  <2>2. trimmed' = trimmed \/ (trimmed' = Len(log') - Maxlen /\ Len(log') - Maxlen > trimmed)
    BY DEF XAdd
  <2> QED BY <1>2, <1>4, <2>1, <2>2 DEF Typed
<1> QED BY <1>2, <1>4, <1>5, <1>6 DEF Grown

\* A failed entry comes back at the end of the stream, or goes to the DLQ.
Requeued(e, n) ==
    /\ Grown /\ Len(log') = Len(log) + n /\ dlq' = dlq
    /\ \A i \in (Len(log) + 1)..Len(log') : log'[i].task = e.task /\ log'[i].retry = e.retry + 1
Buried(e, n) ==
    /\ UNCHANGED <<log, trimmed>> /\ e.retry >= MaxRetries
    /\ dlq' = IF n > 0 THEN dlq \cup {e.task} ELSE dlq

\* A failed entry is requeued with one more retry, or buried in the DLQ.
LEMMA WriteIs ==
  ASSUME Typed, NEW e \in Entry, NEW n \in Nat, Write(e, n)
  PROVE  Requeued(e, n) \/ Buried(e, n)
<1>1. CASE e.retry >= MaxRetries BY <1>1 DEF Write, Buried
<1>2. CASE ~(e.retry >= MaxRetries)
  <2> DEFINE f == [e EXCEPT !.retry = @ + 1]
  <2>1. MaxRetries \in Nat /\ e.retry \in 0..MaxRetries BY SizeAssumption DEF Entry
  <2>2. f \in Entry /\ f.task = e.task /\ f.retry = e.retry + 1 BY <1>2, <2>1 DEF Entry
  <2>3. XAdd(f, n) /\ dlq' = dlq BY <1>2 DEF Write
  <2> QED BY <2>2, <2>3, XAddGrows DEF Requeued
<1> QED BY <1>1, <1>2

\* What XREADGROUP hands over has the ids it was asked for and says what the stream says.
LEMMA DeliveredIs ==
  ASSUME Typed, NEW ids \in Seq(1..Len(log))
  PROVE  /\ Delivered(ids) \in Seq(Item) /\ Len(Delivered(ids)) = Len(ids)
         /\ \A i \in 1..Len(ids) : /\ Delivered(ids)[i].id = ids[i]
                                   /\ FromTheStream(Delivered(ids)[i])
<1>1. Len(ids) \in Nat /\ \A i \in 1..Len(ids) : ids[i] \in 1..Len(log)
  BY LenProperties, ElementOfSeq
<1>2. Len(log) \in Nat /\ \A i \in 1..Len(log) : log[i] \in Entry
  BY LenProperties, ElementOfSeq DEF Typed
<1>3. ASSUME NEW i \in 1..Len(ids)
      PROVE  /\ Delivered(ids)[i] \in Item /\ Delivered(ids)[i].id = ids[i]
             /\ FromTheStream(Delivered(ids)[i])
  <2>1. ids[i] \in Nat /\ ids[i] \in 1..Len(log) BY <1>1, <1>2
  <2>2. log[ids[i]] \in Entry /\ log[ids[i]] # NoData
    BY <1>2, <2>1, NoDataAssumption DEF Entry
  <2> QED BY <2>1, <2>2 DEF Delivered, FromTheStream, Item
<1>4. Delivered(ids) \in [1..Len(ids) -> Item] BY <1>3 DEF Delivered
<1> QED BY <1>1, <1>3, <1>4, SeqDef

\* What XREADGROUP ">" delivers follows what was delivered before, and leaves out
\* nothing but what was trimmed.
LEMMA FreshIs ==
  ASSUME Typed
  PROVE  /\ Fresh \in Seq(1..Len(log))
         /\ \A i \in 1..Len(Fresh) : Fresh[i] > read
         /\ Ascending(Fresh)
         /\ \A i \in 1..Len(Fresh), x \in 1..Len(log) :
              read < x /\ x <= Fresh[i] => x <= trimmed \/ \E j \in 1..i : Fresh[j] = x
<1> DEFINE S == {i \in 1..Len(log) : i > read /\ i > trimmed}
<1>1. Len(log) \in Nat BY LenProperties DEF Typed
<1>2. IsFiniteSet(1..Len(log)) BY <1>1, FS_Interval
<1>3. S \in SUBSET Nat /\ S \in SUBSET (1..Len(log)) /\ IsFiniteSet(S)
  BY <1>1, <1>2, FS_Subset
<1>4. BatchSize \in Nat BY SizeAssumption
<1>5. Fresh = Oldest(S, BatchSize) BY DEF Fresh
<1>6. \A x \in S : x > read OBVIOUS
<1>7. \A x \in 1..Len(log) : read < x => x <= trimmed \/ x \in S BY <1>1 DEF Typed
<1> HIDE DEF S
<1>8. Fresh \in Seq(S) /\ Ascending(Fresh) /\ NoneSkipped(Fresh, S)
  BY <1>3, <1>4, <1>5, OldestInOrder
<1>9. Fresh \in Seq(1..Len(log)) BY <1>3, <1>8, SeqMonotonic
<1>10. \A i \in 1..Len(Fresh) : Fresh[i] > read BY <1>6, <1>8, ElementOfSeq
<1> QED BY <1>7, <1>8, <1>9, <1>10 DEF NoneSkipped

\* What ">" delivers becomes pending; what it skips was trimmed.
LEMMA FreshIsPending ==
  ASSUME Typed, Fresh # <<>>, DeliverFresh
  PROVE  /\ read' \in Nat /\ read <= read' /\ read' <= Len(log)
         /\ pel' \in SUBSET (1..read') /\ pel \subseteq pel'
         /\ \A i \in 1..Len(Fresh) : Fresh[i] \in pel'
         /\ \A x \in 1..Len(log) : x \in pel' => x \in pel \/ x > read
         /\ \A x \in 1..Len(log) : x > read => x <= trimmed \/ x > read' \/ x \in pel'
<1> DEFINE n == Len(Fresh)
<1>1. n \in Nat /\ n # 0 /\ n \in 1..n BY FreshIs, EmptySeq, LenProperties
<1>2. Len(log) \in Nat BY LenProperties DEF Typed
<1>3. \A i \in 1..n : Fresh[i] \in 1..Len(log) /\ Fresh[i] \in Nat
  BY <1>2, FreshIs, ElementOfSeq
<1>4. read' = Fresh[n] /\ pel' = pel \cup {Fresh[i] : i \in 1..n} BY DEF DeliverFresh
<1>5. \A i \in 1..n : Fresh[i] <= Fresh[n]
  <2> SUFFICES ASSUME NEW i \in 1..n PROVE Fresh[i] <= Fresh[n] OBVIOUS
  <2>1. CASE i = n BY <1>1, <1>3, <2>1
  <2>2. CASE i < n BY <1>1, <1>3, <2>2, FreshIs DEF Ascending
  <2> QED BY <1>1, <2>1, <2>2
<1>6. \A i \in 1..n : Fresh[i] > read BY FreshIs
<1>7. \A x \in 1..Len(log) : read < x /\ x <= Fresh[n] =>
        x <= trimmed \/ \E j \in 1..n : Fresh[j] = x
  BY <1>1, FreshIs
<1> HIDE DEF n
<1>8. read' \in Nat /\ read <= read' /\ read' <= Len(log)
  BY <1>1, <1>2, <1>3, <1>4, <1>6 DEF Typed
<1>9. pel' \in SUBSET (1..read')
  <2>1. ASSUME NEW x \in pel PROVE x \in 1..read' BY <1>8, <2>1 DEF Typed
  <2>2. ASSUME NEW j \in 1..n PROVE Fresh[j] \in 1..read' BY <1>3, <1>4, <1>5, <1>8
  <2> QED BY <1>4, <2>1, <2>2
<1>10. \A x \in 1..Len(log) : x > read => x <= trimmed \/ x > read' \/ x \in pel'
  BY <1>2, <1>4, <1>7, <1>8
<1> QED BY <1>4, <1>6, <1>8, <1>9, <1>10 DEF n

-----------------------------------------------------------------------------
(* Where the batch is after a step.                                        *)

\* An entry read before the stream grew is still a true copy after.
LEMMA StreamSaysTheSame ==
  ASSUME Typed, Grown, NEW b, b.id \in 1..Len(log), FromTheStream(b)
  PROVE  FromTheStream(b)'
<1>1. b.id \in Nat /\ trimmed \in Nat /\ trimmed' \in Nat /\ trimmed <= trimmed'
  BY LenProperties DEF Typed, Grown
<1> QED BY <1>1 DEF Grown, FromTheStream

\* Every item of the batch is an entry of the stream.
LEMMA BatchIds ==
  ASSUME Typed, Batched
  PROVE  /\ Len(batch) \in Nat
         /\ \A i \in 1..Len(batch) : batch[i] \in Item /\ batch[i].id \in 1..Len(log)
<1>1. \A i \in 1..Len(batch) : batch[i] \in Item BY ElementOfSeq DEF Typed
<1>2. Len(log) \in Nat /\ Len(batch) \in Nat BY LenProperties DEF Typed
<1>3. pel \subseteq 1..Len(log) BY <1>2 DEF Typed
<1> QED BY <1>1, <1>2, <1>3 DEF Batched

\* A batch left alone stays good while nothing it holds is acknowledged.
LEMMA BatchStays ==
  ASSUME Typed, Batched, Grown, batch' = batch, pel \subseteq pel',
         phase' \in {"settle", "ack"} => batch # <<>> /\ Current.data # NoData
  PROVE  Batched'
<1>1. \A i \in 1..Len(batch) : FromTheStream(batch[i])'
  BY BatchIds, StreamSaysTheSame DEF Batched
<1> QED BY <1>1 DEF Batched, Current

\* An empty batch is good where no entry is being settled or acknowledged.
LEMMA BatchIsDropped ==
  ASSUME batch' = <<>>, phase' \notin {"settle", "ack"} PROVE Batched'
BY DEF Batched

\* A batch whose first entry is done, acknowledged or not, leaves a good one.
LEMMA BatchGoesOn ==
  ASSUME Typed, Batched, Grown, batch # <<>>, batch' = Tail(batch),
         pel \ {Current.id} \subseteq pel', phase' = "next"
  PROVE  Batched' /\ batch' \in Seq(Item)
<1>1. batch \in Seq(Item) /\ Len(batch) \in Nat /\ Current = batch[1]
  BY LenProperties DEF Typed, Current
<1>2. /\ batch' \in Seq(Item) /\ Len(batch') = Len(batch) - 1
      /\ \A i \in 1..Len(batch') : batch'[i] = batch[i + 1]
  BY <1>1, HeadTailProperties
<1>3. ASSUME NEW i \in 1..Len(batch')
      PROVE  batch'[i].id \in pel' /\ FromTheStream(batch[i])'
  <2>1. i + 1 \in 1..Len(batch) /\ 1 \in 1..Len(batch) /\ 1 < i + 1 BY <1>1, <1>2
  <2>2. batch[1].id < batch[i + 1].id BY <2>1 DEF Batched
  <2>3. batch[1].id \in Nat /\ batch[i + 1].id \in Nat BY <2>1, BatchIds DEF Item
  <2>4. batch[i + 1].id \in pel /\ batch[i + 1].id # Current.id
    BY <1>1, <2>1, <2>2, <2>3 DEF Batched
  <2>5. PICK b : b = batch[i + 1] OBVIOUS
  <2>6. b.id \in 1..Len(log) /\ FromTheStream(b) BY <2>1, <2>5, BatchIds DEF Batched
  <2>7. FromTheStream(b)' BY <2>6, StreamSaysTheSame
  <2>8. batch'[i] = b BY <1>2, <2>5
  <2> QED BY <2>4, <2>5, <2>7, <2>8 DEF FromTheStream
<1>4. ASSUME NEW i \in 1..Len(batch'), NEW j \in 1..Len(batch'), i < j
      PROVE  batch'[i].id < batch'[j].id
  <2>1. i + 1 \in 1..Len(batch) /\ j + 1 \in 1..Len(batch) /\ i + 1 < j + 1 BY <1>1, <1>2, <1>4
  <2> QED BY <1>2, <2>1 DEF Batched
<1> QED BY <1>2, <1>3, <1>4, Zenon DEF Batched

\* The entry in hand is pending and is a true copy.
LEMMA CurrentIs ==
  ASSUME Typed, Batched, batch # <<>>
  PROVE  /\ Current \in Item /\ Current.id \in pel /\ Current.id \in 1..read
         /\ Current.id \in 1..Len(log) /\ FromTheStream(Current)
         /\ Current.data # NoData => Current.data \in Entry /\ Current.data = log[Current.id]
<1>1. 1 \in 1..Len(batch) /\ Current = batch[1]
  BY LenProperties, EmptySeq DEF Typed, Current
<1>2. Current \in Item /\ Current.id \in 1..Len(log) BY <1>1, BatchIds
<1>3. Current.id \in pel /\ FromTheStream(Current) BY <1>1 DEF Batched
<1> QED BY <1>2, <1>3 DEF Typed, Item, FromTheStream

\* The outcomes of Settle: n entries written, with or without an error.
Outcome(n) ==
    /\ dropped' \in {dropped, dropped \cup {Current.data.task}}
    /\ \/ /\ phase' = "ack" /\ batch' = batch /\ recovering' = recovering
          /\ n = 0 => Current.data.task \in dropped'
          /\ \/ faults' = faults /\ n = 1
             \/ faults' = faults + 1 /\ faults < MaxFaults /\ n \in 0..2
       \/ /\ phase' \in {"poll", "dead"} /\ batch' = <<>> /\ recovering' = FALSE
          /\ faults' = faults + 1 /\ faults < MaxFaults /\ n \in 0..1

\* Every way through _safe_xadd in one form: what was written, how often, at which price.
LEMMA SettleIs ==
  ASSUME Typed, Batched, Settle
  PROVE  /\ phase = "settle" /\ batch # <<>> /\ Current.data \in Entry
         /\ Current.data = log[Current.id]
         /\ \E n \in 0..2 : /\ Requeued(Current.data, n) \/ Buried(Current.data, n)
                            /\ Outcome(n)
         /\ UNCHANGED <<read, pel, published, runs, failures, crashes>>
<1>1. /\ phase = "settle" /\ batch # <<>> /\ Current.data # NoData
      /\ UNCHANGED <<read, pel, published, runs, failures>>
  BY DEF Settle, Batched
<1>2. Current.data \in Entry /\ Current.data = log[Current.id] BY <1>1, CurrentIs
<1>3. crashes' = crashes BY DEF Settle, NoFault, Fault
<1>4. \E n \in 0..2 : Write(Current.data, n) /\ Outcome(n)
  <2> DEFINE e == Current.data
  <2>1. CASE /\ Write(e, 1) /\ NoFault
             /\ GoTo("ack", recovering, batch) /\ UNCHANGED dropped
    <3>1. Outcome(1) BY <2>1 DEF GoTo, NoFault, Outcome
    <3> QED BY <2>1, <3>1
  <2>2. CASE /\ \E n \in 1..2 : Write(e, n)
             /\ Fault("os")
             /\ GoTo("ack", recovering, batch) /\ UNCHANGED dropped
    <3>1. PICK n \in 1..2 : Write(e, n) BY <2>2
    <3>2. Outcome(n) BY <2>2 DEF GoTo, Fault, Outcome
    <3> QED BY <3>1, <3>2
  <2>3. CASE /\ Write(e, 0) /\ Fault("os")
             /\ dropped' = dropped \cup {e.task}
             /\ GoTo("ack", recovering, batch)
    <3>1. Outcome(0) BY <2>3 DEF GoTo, Fault, Outcome
    <3> QED BY <2>3, <3>1
  <2>4. CASE /\ \E n \in 0..1 : Write(e, n)
             /\ Fault("redis") /\ Escape /\ UNCHANGED dropped
    <3>1. PICK n \in 0..1 : Write(e, n) BY <2>4
    <3>2. phase' \in {"poll", "dead"} /\ batch' = <<>> /\ recovering' = FALSE
      BY <2>4 DEF Escape, GoTo
    <3>3. Outcome(n) BY <2>4, <3>2 DEF Fault, Outcome
    <3> QED BY <3>1, <3>3
  <2> QED BY <2>1, <2>2, <2>3, <2>4 DEF Settle
<1>5. \E n \in 0..2 : (Requeued(Current.data, n) \/ Buried(Current.data, n)) /\ Outcome(n)
  BY <1>2, <1>4, WriteIs
<1> QED BY <1>1, <1>2, <1>3, <1>5

\* A step that leaves the stream alone lets it grow by nothing.
LEMMA NothingGrown == ASSUME Typed, UNCHANGED <<log, trimmed>> PROVE Grown
BY LenProperties DEF Typed, Grown

-----------------------------------------------------------------------------
(* Every step keeps the types and the batch, and only adds to the stream.  *)

\* Every step keeps the types and the batch.
LEMMA TypesStay == ASSUME Typed, Batched, [Next]_vars PROVE Grown /\ Typed' /\ Batched'
<1> USE DEF redisVars, consumerVars, history, NoFault, GoTo, Fault
<1> DEFINE Goal == Grown /\ Typed' /\ Batched'
<1>0. RecoverSize \in Nat BY SizeAssumption
<1>1. ASSUME NEW t \in Tasks, Publish(t) PROVE Goal
  <2>1. [task |-> t, retry |-> 0] \in Entry BY SizeAssumption DEF Entry
  <2>2. Grown BY <1>1, <2>1, XAddGrows DEF Publish
  <2>3. Typed' BY <1>1, <2>2, LenProperties DEF Publish, Typed, Grown
  <2>4. Batched' BY <1>1, <2>2, BatchStays DEF Publish, Batched
  <2> QED BY <2>2, <2>3, <2>4
<1>2. CASE Restart \/ EnsureGroup
  <2>1. Grown BY <1>2, NothingGrown DEF Restart, EnsureGroup
  <2>2. Typed' BY <1>0, <1>2, EmptySeq DEF Restart, EnsureGroup, Typed
  <2>3. Batched' BY <1>2, BatchIsDropped DEF Restart, EnsureGroup
  <2> QED BY <2>1, <2>2, <2>3
<1>3. CASE ReadPending
  <2>1. Grown BY <1>3, NothingGrown DEF ReadPending
  <2>2. CASE phase' = "next" /\ batch' = Delivered(Oldest(pel, RecoverSize))
    <3>1. PICK ids : ids = Oldest(pel, RecoverSize) OBVIOUS
    <3>2. read \in Nat /\ IsFiniteSet(1..read) BY FS_Interval DEF Typed
    <3>3. pel \in SUBSET Nat /\ pel \in SUBSET (1..read) BY <3>2 DEF Typed
    <3>4. ids \in Seq(pel) /\ Ascending(ids)
      BY <1>0, <3>1, <3>2, <3>3, FS_Subset, OldestInOrder
    <3>5. pel \subseteq 1..Len(log) BY LenProperties DEF Typed
    <3>6. ids \in Seq(1..Len(log)) BY <3>4, <3>5, SeqMonotonic
    <3>7. batch' = Delivered(ids) /\ phase' = "next" BY <2>2, <3>1
    <3>8. UNCHANGED <<log, trimmed, pel>> BY <1>3 DEF ReadPending
    <3>9. \A i \in 1..Len(ids) : ids[i] \in pel BY <3>4, ElementOfSeq
    <3>10. Batched'
      BY <3>4, <3>6, <3>7, <3>8, <3>9, DeliveredIs DEF Batched, FromTheStream, Ascending
    <3>11. Typed' BY <1>3, <2>2, <3>6, <3>7, DeliveredIs DEF ReadPending, Typed
    <3> QED BY <2>1, <3>10, <3>11
  <2>3. CASE phase' \in {"poll", "dead"} /\ batch' = <<>>
    <3>1. UNCHANGED redisVars /\ UNCHANGED history BY <1>3 DEF ReadPending
    <3>2. Typed' BY <2>3, <3>1, EmptySeq DEF Typed, redisVars, history
    <3>3. Batched' BY <2>3, BatchIsDropped
    <3> QED BY <2>1, <3>2, <3>3
  <2> QED BY <1>3, <2>2, <2>3 DEF ReadPending
<1>4. CASE Poll
  <2>1. Grown BY <1>4, NothingGrown DEF Poll
  <2>2. Fresh # <<>> /\ DeliverFresh /\ batch' = Delivered(Fresh) /\ phase' = "next"
    BY <1>4 DEF Poll
  <2>3. UNCHANGED <<log, trimmed>> BY <1>4 DEF Poll
  <2>4. Fresh \in Seq(1..Len(log)) /\ Ascending(Fresh) BY FreshIs
  <2>5. Batched'
    <3> DEFINE ids == Fresh
    <3>1. /\ Delivered(ids) \in Seq(Item) /\ Len(Delivered(ids)) = Len(ids)
          /\ \A i \in 1..Len(ids) : /\ Delivered(ids)[i].id = ids[i]
                                    /\ FromTheStream(Delivered(ids)[i])
      BY <2>4, DeliveredIs
    <3>2. \A i \in 1..Len(ids) : ids[i] \in pel' BY <2>2, FreshIsPending
    <3>3. Ascending(ids) /\ batch' = Delivered(ids) /\ phase' = "next" BY <2>2, <2>4
    <3> HIDE DEF ids
    <3> QED BY <2>3, <3>1, <3>2, <3>3 DEF Batched, FromTheStream, Ascending
  <2>6. Typed' BY <1>4, <2>2, <2>4, FreshIsPending, DeliveredIs DEF Poll, Typed
  <2> QED BY <2>1, <2>5, <2>6
<1>5. CASE PollFails
  <2>1. Grown BY <1>5, NothingGrown DEF PollFails
  <2>2. pel \subseteq pel' BY <1>5, FreshIsPending DEF PollFails
  <2>3. Typed' BY <1>0, <1>5, FreshIsPending DEF PollFails, Typed
  <2>4. Batched' BY <1>5, <2>1, <2>2, BatchStays DEF PollFails
  <2> QED BY <2>1, <2>3, <2>4
<1>6. CASE EndOfBatch \/ Crash
  <2>1. Grown BY <1>6, NothingGrown DEF EndOfBatch, Crash
  <2>2. Typed' BY <1>0, <1>6, EmptySeq DEF EndOfBatch, Crash, Typed
  <2>3. Batched' BY <1>6, BatchIsDropped DEF EndOfBatch, Crash
  <2> QED BY <2>1, <2>2, <2>3
<1>7. CASE AckEmpty
  <2>1. Grown BY <1>7, NothingGrown DEF AckEmpty
  <2>2. CASE GoTo("next", TRUE, Tail(batch)) /\ pel' = pel \ {Current.id} /\ NoFault
    <3>1. batch # <<>> BY <1>7 DEF AckEmpty
    <3>2. Batched' /\ batch' \in Seq(Item) BY <2>1, <2>2, <3>1, BatchGoesOn
    <3>3. Typed' BY <1>7, <2>2, <3>2 DEF AckEmpty, Typed
    <3> QED BY <2>1, <3>2, <3>3
  <2>3. CASE /\ phase' \in {"poll", "dead"} /\ recovering' = FALSE /\ batch' = <<>>
             /\ UNCHANGED pel /\ \E k \in Faults : Fault(k)
    <3>1. Typed' BY <1>0, <1>7, <2>3, EmptySeq DEF AckEmpty, Typed
    <3>2. Batched' BY <2>3, BatchIsDropped
    <3> QED BY <2>1, <3>1, <3>2
  <2> QED BY <1>7, <2>2, <2>3 DEF AckEmpty
<1>8. CASE HandlerReturns \/ HandlerRaises
  <2>1. Grown BY <1>8, NothingGrown DEF HandlerReturns, HandlerRaises
  <2>2. batch # <<>> /\ Current.data # NoData BY <1>8 DEF HandlerReturns, HandlerRaises
  <2>3. Current.data.task \in Tasks BY <2>2, CurrentIs DEF Entry
  <2>4. Typed'
    <3>1. CASE HandlerReturns BY <2>3, <3>1 DEF HandlerReturns, Typed
    <3>2. CASE HandlerRaises BY <2>3, <3>2 DEF HandlerRaises, Typed
    <3> QED BY <1>8, <3>1, <3>2
  <2>5. Batched' BY <1>8, <2>1, <2>2, BatchStays DEF HandlerReturns, HandlerRaises
  <2> QED BY <2>1, <2>4, <2>5
<1>9. CASE Settle
  <2> DEFINE e == Current.data
  <2>1. /\ e \in Entry /\ e.task \in Tasks /\ phase = "settle"
        /\ UNCHANGED <<read, pel, published, runs, failures, crashes>>
    BY <1>9, SettleIs DEF Entry
  <2>2. PICK n \in 0..2 : (Requeued(e, n) \/ Buried(e, n)) /\ Outcome(n) BY <1>9, SettleIs
  <2> HIDE DEF e
  <2>3. Grown BY <2>2, NothingGrown DEF Requeued, Buried
  <2>4. dlq' \in SUBSET Tasks BY <2>1, <2>2 DEF Requeued, Buried, Typed
  <2>5. /\ dropped' \in SUBSET Tasks /\ batch' \in Seq(Item)
        /\ phase' \in {"ack", "poll", "dead"}
    BY <2>1, <2>2, EmptySeq DEF Outcome, Typed, e
  <2>6. Typed' BY <2>1, <2>3, <2>4, <2>5, LenProperties DEF Typed, Grown
  <2>7. Batched'
    <3>1. CASE batch' = <<>> /\ phase' \in {"poll", "dead"} BY <3>1, BatchIsDropped
    <3>2. CASE batch' = batch BY <2>1, <2>3, <3>2, BatchStays DEF Batched
    <3> QED BY <2>2, <3>1, <3>2 DEF Outcome
  <2> QED BY <2>3, <2>6, <2>7
<1>10. CASE Ack
  <2>1. Grown BY <1>10, NothingGrown DEF Ack
  <2>2. phase = "ack" /\ batch # <<>> /\ pel' \in {pel, pel \ {Current.id}}
    BY <1>10 DEF Ack, Batched
  <2>3. CASE GoTo("next", recovering, Tail(batch)) /\ (NoFault \/ Fault("os"))
    <3>1. Batched' /\ batch' \in Seq(Item) BY <2>1, <2>2, <2>3, BatchGoesOn
    <3>2. Typed' BY <1>0, <1>10, <2>2, <2>3, <3>1 DEF Ack, Typed
    <3> QED BY <2>1, <3>1, <3>2
  <2>4. CASE Escape /\ Fault("redis")
    <3>1. Typed' BY <1>0, <1>10, <2>2, <2>4, EmptySeq DEF Ack, Typed, Escape
    <3>2. Batched' BY <2>4, BatchIsDropped DEF Escape
    <3> QED BY <2>1, <3>1, <3>2
  <2> QED BY <1>10, <2>3, <2>4 DEF Ack
<1>11. CASE UNCHANGED vars
  <2>1. Grown BY <1>11, NothingGrown DEF vars
  <2>2. Typed' BY <1>11 DEF vars, Typed
  <2>3. Batched' BY <1>11, <2>1, BatchStays DEF vars, Batched
  <2> QED BY <2>1, <2>2, <2>3
<1> QED
  BY <1>1, <1>2, <1>3, <1>4, <1>5, <1>6, <1>7, <1>8, <1>9, <1>10, <1>11 DEF Next, Consume

Budgets == faults \in 0..MaxFaults /\ crashes \in 0..MaxCrashes

\* Crashes and Redis errors only add up.
LEMMA BudgetsStay ==
  ASSUME Typed, Batched, Budgets, [Next]_vars
  PROVE  Budgets' /\ faults <= faults' /\ crashes <= crashes'
<1>1. {MaxFaults, MaxCrashes} \subseteq Nat BY SizeAssumption
<1>2. ASSUME NEW k, NoFault \/ Fault(k)
      PROVE  Budgets' /\ faults <= faults' /\ crashes <= crashes'
  BY <1>1, <1>2 DEF NoFault, Fault, Budgets
<1>3. CASE \E t \in Tasks : Publish(t) BY <1>2, <1>3 DEF Publish
<1>4. CASE Restart \/ EnsureGroup \/ ReadPending \/ Poll \/ PollFails \/ EndOfBatch
  BY <1>2, <1>4, Zenon DEF Restart, EnsureGroup, ReadPending, Poll, PollFails, EndOfBatch
<1>5. CASE AckEmpty \/ HandlerReturns \/ HandlerRaises \/ Ack
  BY <1>2, <1>5, Zenon DEF AckEmpty, HandlerReturns, HandlerRaises, Ack
<1>6. CASE Settle BY <1>2, <1>6, Zenon DEF Settle
<1>7. CASE Crash BY <1>1, <1>7 DEF Crash, Budgets
<1>8. CASE UNCHANGED vars BY <1>1, <1>8 DEF vars, Budgets
<1> QED BY <1>3, <1>4, <1>5, <1>6, <1>7, <1>8 DEF Next, Consume

-----------------------------------------------------------------------------
(* Retries.                                                                *)

\* Every copy of a task has at least its number of retries behind it.
Retried ==
    /\ \A i \in 1..Len(log) : log[i].retry <= failures[log[i].task]
    /\ phase = "settle" => Current.data.retry < failures[Current.data.task]
    /\ RetriedBeforeDLQ

\* Every step keeps an entry's retries covered by its task's failures.
LEMMA RetriedHolds == ASSUME Typed, Batched, Retried, [Next]_vars PROVE Retried'
<1> USE DEF redisVars, consumerVars, history, GoTo
<1>1. /\ Len(log) \in Nat /\ MaxRetries \in Nat
      /\ \A i \in 1..Len(log) : log[i] \in Entry
  BY LenProperties, ElementOfSeq, SizeAssumption DEF Typed
<1>2. ASSUME NEW t \in Tasks, Publish(t) PROVE Retried'
  <2> DEFINE e == [task |-> t, retry |-> 0]
  <2>1. e \in Entry /\ e.task = t /\ e.retry = 0 BY SizeAssumption DEF Entry
  <2>2. XAdd(e, 1) /\ UNCHANGED <<dlq, phase, batch, failures>> BY <1>2 DEF Publish
  <2> HIDE DEF e
  <2>3. /\ Grown /\ Len(log') = Len(log) + 1
        /\ \A i \in (Len(log) + 1)..Len(log') : log'[i] = e
    BY <2>1, <2>2, XAddGrows
  <2>4. ASSUME NEW i \in 1..Len(log') PROVE log'[i].retry <= failures[log'[i].task]
    <3>1. CASE i \in 1..Len(log) BY <2>3, <3>1 DEF Retried, Grown
    <3>2. CASE i \in (Len(log) + 1)..Len(log') BY <2>1, <2>3, <3>2 DEF Typed
    <3> QED BY <1>1, <2>3, <3>1, <3>2
  <2> QED BY <2>2, <2>4 DEF Retried, RetriedBeforeDLQ, Current
<1>3. CASE UNCHANGED <<log, dlq, failures>> /\ phase' # "settle"
  BY <1>3 DEF Retried, RetriedBeforeDLQ
<1>4. CASE Restart \/ EnsureGroup \/ ReadPending \/ Poll \/ PollFails \/ EndOfBatch \/ AckEmpty
           \/ HandlerReturns \/ Ack \/ Crash
  BY <1>3, <1>4 DEF Restart, EnsureGroup, ReadPending, Poll, PollFails, EndOfBatch, AckEmpty,
                    HandlerReturns, Ack, Escape, Crash
<1>5. CASE HandlerRaises
  <2> DEFINE e == Current.data
  <2>1. batch # <<>> /\ e # NoData BY <1>5 DEF HandlerRaises
  <2>2. e \in Entry /\ e = log[Current.id] /\ Current.id \in 1..Len(log) BY <2>1, CurrentIs
  <2>3. UNCHANGED <<log, dlq, batch>> /\ failures' = [failures EXCEPT ![e.task] = @ + 1]
    BY <1>5 DEF HandlerRaises
  <2>4. e.retry <= failures[e.task] /\ e.task \in Tasks /\ e.retry \in Nat
    BY <2>2 DEF Retried, Entry
  <2>5. \A t \in Tasks : failures[t] \in Nat /\ failures[t] <= failures'[t] BY <2>3 DEF Typed
  <2>6. \A i \in 1..Len(log) : log[i].task \in Tasks /\ log[i].retry \in Nat BY <1>1 DEF Entry
  <2>7. e.retry < failures'[e.task] BY <2>3, <2>4, <2>5 DEF Typed
  <2>8. \A i \in 1..Len(log') : log'[i].retry <= failures'[log'[i].task]
    BY <2>3, <2>5, <2>6, <2>3 DEF Retried, Typed
  <2>9. RetriedBeforeDLQ' BY <1>1, <2>3, <2>5 DEF Retried, RetriedBeforeDLQ, Typed
  <2>10. Current' = Current BY <2>3 DEF Current
  <2> QED BY <2>7, <2>8, <2>9, <2>10 DEF Retried
<1>6. CASE Settle
  <2> DEFINE e == Current.data
  <2>1. phase = "settle" /\ e \in Entry /\ failures' = failures BY <1>6, SettleIs
  <2>2. PICK n \in 0..2 : (Requeued(e, n) \/ Buried(e, n)) /\ Outcome(n) BY <1>6, SettleIs
  <2>3. e.retry < failures[e.task] /\ e.task \in Tasks /\ e.retry \in Nat
        /\ failures[e.task] \in Nat
    BY <2>1 DEF Retried, Entry, Typed
  <2>4. phase' # "settle" BY <2>2 DEF Outcome
  <2> HIDE DEF e
  <2>5. CASE Requeued(e, n)
    <3>1. ASSUME NEW i \in 1..Len(log') PROVE log'[i].retry <= failures[log'[i].task]
      <4>1. CASE i \in 1..Len(log) BY <2>5, <4>1 DEF Retried, Requeued, Grown
      <4>2. CASE i \in (Len(log) + 1)..Len(log') BY <2>3, <2>5, <4>2 DEF Requeued
      <4> QED BY <1>1, <2>5, <4>1, <4>2 DEF Requeued
    <3> QED BY <2>1, <2>4, <2>5, <3>1 DEF Retried, RetriedBeforeDLQ, Requeued
  <2>6. CASE Buried(e, n)
    <3>1. e.retry >= MaxRetries /\ UNCHANGED log BY <2>6 DEF Buried
    <3>2. failures[e.task] > MaxRetries BY <1>1, <2>3, <3>1
    <3>3. dlq' \subseteq dlq \cup {e.task} BY <2>6 DEF Buried
    <3> QED BY <2>1, <2>4, <3>1, <3>2, <3>3 DEF Retried, RetriedBeforeDLQ
  <2> QED BY <2>2, <2>5, <2>6
<1>7. CASE UNCHANGED vars BY <1>7 DEF vars, Retried, RetriedBeforeDLQ, Current
<1> QED BY <1>2, <1>4, <1>5, <1>6, <1>7 DEF Next, Consume

-----------------------------------------------------------------------------
(* Delivery.                                                               *)

\* The stream keeps an entry of t, other than j, that is trimmed, unread or pending.
Live(i) == i <= trimmed \/ i > read \/ i \in pel
LiveBeside(t, j) == \E i \in 1..Len(log) : i # j /\ log[i].task = t /\ Live(i)
Safe(t, j) == Settled(t) \/ LiveBeside(t, j)

\* Before an entry is acknowledged its task is settled, or goes on as another entry.
Kept ==
    /\ \A t \in published : Safe(t, 0)
    /\ phase = "ack" => Safe(Current.data.task, Current.id)

\* A task stays safe in a step that takes no entry of it out of sight.
LEMMA SafeStays ==
  ASSUME Typed, Grown, NEW t \in Tasks, NEW j, Safe(t, j),
         runs[t] <= runs'[t], runs'[t] \in Nat, dlq \subseteq dlq', dropped \subseteq dropped',
         \A i \in 1..Len(log) : i # j /\ Live(i) => Live(i)'
  PROVE  Safe(t, j)'
<1>1. CASE Settled(t) BY <1>1 DEF Typed, Settled, Safe
<1>2. CASE LiveBeside(t, j)
  <2>1. PICK i \in 1..Len(log) : i # j /\ log[i].task = t /\ Live(i) BY <1>2 DEF LiveBeside
  <2>2. i \in 1..Len(log') /\ log'[i] = log[i] BY <2>1, LenProperties DEF Typed, Grown
  <2> QED BY <2>1, <2>2 DEF LiveBeside, Safe
<1> QED BY <1>1, <1>2 DEF Safe

\* Every step keeps every published task settled or on its way.
LEMMA KeptHolds == ASSUME Typed, Batched, Kept, [Next]_vars PROVE Kept'
<1> USE DEF redisVars, consumerVars, history, GoTo
<1>0. Grown /\ trimmed <= trimmed' /\ trimmed \in Nat /\ trimmed' \in Nat
  BY TypesStay DEF Typed, Grown
<1>1. Len(log) \in Nat /\ read \in Nat /\ read <= Len(log) /\ \A t \in published : t \in Tasks
  BY LenProperties DEF Typed
<1>2. \A t \in Tasks : runs[t] \in Nat BY DEF Typed
\* Steps after which nothing waits for its acknowledgement.
<1>3. ASSUME phase' # "ack", UNCHANGED <<published, runs>>, dlq \subseteq dlq',
             dropped \subseteq dropped',
             \A i \in 1..Len(log) : Live(i) => Live(i)'
      PROVE  Kept'
  <2>1. ASSUME NEW t \in published PROVE Safe(t, 0)'
    <3>1. t \in Tasks /\ runs'[t] = runs[t] /\ runs[t] \in Nat BY <1>1, <1>2, <1>3
    <3> QED BY <1>0, <1>3, <3>1, SafeStays DEF Kept
  <2> QED BY <1>3, <2>1 DEF Kept
<1>4. ASSUME NEW t \in Tasks, Publish(t) PROVE Kept'
  <2>1. /\ XAdd([task |-> t, retry |-> 0], 1) /\ published' = published \cup {t}
        /\ UNCHANGED <<read, pel, dlq, phase, batch, runs, dropped>>
    BY <1>4 DEF Publish
  <2>2. \A i \in 1..Len(log) : Live(i) => Live(i)' BY <1>0, <2>1 DEF Live
  <2>3. ASSUME NEW u \in Tasks, NEW j, Safe(u, j) PROVE Safe(u, j)'
    BY <1>0, <1>2, <2>1, <2>2, <2>3, SafeStays
  <2>4. Safe(t, 0)'
    <3>1. [task |-> t, retry |-> 0] \in Entry BY SizeAssumption DEF Entry
    <3>2. Len(log') = Len(log) + 1 /\ log'[Len(log) + 1].task = t
      BY <1>1, <2>1, <3>1, XAddGrows
    <3>3. Len(log) + 1 \in 1..Len(log') /\ Len(log) + 1 # 0 /\ Len(log) + 1 > read'
      BY <1>1, <2>1, <3>2
    <3> QED BY <3>2, <3>3 DEF Safe, LiveBeside, Live
  <2>5. phase = "ack" => Current.data.task \in Tasks BY CurrentIs DEF Batched, Entry
  <2>6. Current' = Current BY <2>1 DEF Current
  <2> QED BY <1>1, <2>1, <2>3, <2>4, <2>5, <2>6 DEF Kept
<1>5. CASE Restart \/ EnsureGroup \/ ReadPending \/ EndOfBatch \/ HandlerRaises \/ Crash
  <2>1. /\ UNCHANGED <<log, trimmed, read, pel, published, runs, dlq, dropped>>
        /\ phase' # "ack"
    BY <1>5 DEF Restart, EnsureGroup, ReadPending, EndOfBatch, HandlerRaises, Crash
  <2> QED BY <1>3, <2>1 DEF Live
<1>6. CASE Poll \/ PollFails
  <2>1. /\ UNCHANGED <<log, trimmed, published, runs, dlq, dropped>> /\ phase' # "ack"
        /\ (Fresh # <<>> /\ DeliverFresh) \/ UNCHANGED <<read, pel>>
    BY <1>6 DEF Poll, PollFails
  <2>2. CASE Fresh # <<>> /\ DeliverFresh
    <3>1. /\ pel \subseteq pel'
          /\ \A x \in 1..Len(log) : x > read => x <= trimmed \/ x > read' \/ x \in pel'
      BY <2>2, FreshIsPending
    <3>2. \A i \in 1..Len(log) : Live(i) => Live(i)' BY <2>1, <3>1 DEF Live
    <3> QED BY <1>3, <2>1, <3>2
  <2>3. CASE UNCHANGED <<read, pel>> BY <1>3, <2>1, <2>3 DEF Live
  <2> QED BY <2>1, <2>2, <2>3
<1>7. CASE AckEmpty
  <2>1. /\ UNCHANGED <<log, trimmed, read, published, runs, dlq, dropped>> /\ phase' # "ack"
        /\ batch # <<>> /\ Current.data = NoData /\ pel' \in {pel, pel \ {Current.id}}
    BY <1>7 DEF AckEmpty
  <2>2. Current.id <= trimmed BY <2>1, CurrentIs DEF FromTheStream
  <2>3. \A i \in 1..Len(log) : Live(i) => Live(i)' BY <2>1, <2>2 DEF Live
  <2> QED BY <1>3, <2>1, <2>3
<1>8. CASE HandlerReturns
  <2>0. PICK T : T = Current.data.task OBVIOUS
  <2>1. /\ UNCHANGED <<log, trimmed, read, pel, published, dlq, dropped, batch>>
        /\ batch # <<>> /\ Current.data # NoData /\ runs' = [runs EXCEPT ![T] = @ + 1]
    BY <1>8, <2>0 DEF HandlerReturns
  <2>2. T \in Tasks BY <2>0, <2>1, CurrentIs DEF Entry
  <2>3. Current' = Current BY <2>1 DEF Current
  <2>4. \A t \in Tasks : runs[t] <= runs'[t] /\ runs'[t] \in Nat BY <2>1 DEF Typed
  <2>5. runs'[T] > 0 BY <2>1, <2>2 DEF Typed
  <2>6. ASSUME NEW t \in published PROVE Safe(t, 0)'
    <3>1. \A i \in 1..Len(log) : Live(i) => Live(i)' BY <2>1 DEF Live
    <3> QED BY <1>0, <1>1, <2>1, <2>4, <3>1, SafeStays DEF Kept
  <2>7. \A j : Safe(T, j)' BY <2>5 DEF Safe, Settled
  <2> QED BY <2>0, <2>1, <2>3, <2>6, <2>7 DEF Kept
<1>9. CASE Settle
  <2> DEFINE e == Current.data
  <2>1. /\ phase = "settle" /\ batch # <<>> /\ e \in Entry
        /\ UNCHANGED <<read, pel, published, runs, failures, crashes>>
    BY <1>9, SettleIs
  <2>2. PICK n \in 0..2 : (Requeued(e, n) \/ Buried(e, n)) /\ Outcome(n) BY <1>9, SettleIs
  <2>3. Current.id \in 1..read /\ e.task \in Tasks BY <2>1, CurrentIs DEF Entry
  <2>4. dlq \subseteq dlq' /\ dropped \subseteq dropped'
    BY <2>2 DEF Requeued, Buried, Outcome
  <2>5. \A i \in 1..Len(log) : Live(i) => Live(i)' BY <1>0, <2>1 DEF Live
  <2>6. CASE phase' # "ack" BY <1>3, <2>1, <2>4, <2>5, <2>6
  <2>7. CASE phase' = "ack"
    <3>1. batch' = batch /\ Current' = Current /\ (n = 0 => e.task \in dropped')
      BY <2>2, <2>7 DEF Outcome, Current
    <3>2. ASSUME NEW t \in published PROVE Safe(t, 0)'
      <4>1. t \in Tasks /\ runs'[t] = runs[t] /\ runs[t] \in Nat BY <1>1, <1>2, <2>1
      <4> QED BY <1>0, <2>4, <2>5, <4>1, SafeStays DEF Kept
    <3>3. Safe(e.task, Current.id)'
      <4>1. CASE n = 0 BY <3>1, <4>1 DEF Safe, Settled
      <4>2. CASE n # 0 /\ Buried(e, n) BY <3>1, <4>2 DEF Safe, Settled, Buried
      <4>3. CASE n # 0 /\ Requeued(e, n)
        <5> DEFINE i == Len(log) + 1
        <5>1. i \in 1..Len(log') /\ i \in (Len(log) + 1)..Len(log') BY <1>1, <4>3 DEF Requeued
        <5>2. log'[i].task = e.task BY <4>3, <5>1 DEF Requeued
        <5>3. i > read' /\ i # Current.id BY <1>1, <2>1, <2>3
        <5>4. LiveBeside(e.task, Current.id)' BY <3>1, <5>1, <5>2, <5>3 DEF LiveBeside, Live
        <5> QED BY <5>4 DEF Safe
      <4> QED BY <2>2, <4>1, <4>2, <4>3
    <3> QED BY <2>1, <3>1, <3>2, <3>3 DEF Kept
  <2> QED BY <2>6, <2>7
<1>10. CASE Ack
  <2> DEFINE e == Current.data
  <2>1. /\ UNCHANGED <<log, trimmed, read, published, runs, dlq, dropped>>
        /\ phase = "ack" /\ batch # <<>> /\ e # NoData /\ pel' \in {pel, pel \ {Current.id}}
    BY <1>10 DEF Ack, Batched
  <2>2. phase' # "ack" BY <1>10 DEF Ack, Escape
  <2>3. e \in Entry /\ e = log[Current.id] BY <2>1, CurrentIs
  <2>4. \A i \in 1..Len(log) : i # Current.id /\ Live(i) => Live(i)' BY <2>1 DEF Live
  <2>5. ASSUME NEW t \in published PROVE Safe(t, 0)'
    <3>1. t \in Tasks /\ runs'[t] = runs[t] /\ runs[t] \in Nat BY <1>1, <1>2, <2>1
    <3>2. Safe(t, Current.id)
      <4>1. CASE t = e.task BY <2>1, <4>1 DEF Kept
      <4>2. CASE t # e.task
        <5>1. Safe(t, 0) BY DEF Kept
        <5> QED BY <2>3, <4>2, <5>1 DEF Safe, LiveBeside
      <4> QED BY <4>1, <4>2
    <3>3. PICK j : j = Current.id OBVIOUS
    <3>4. Safe(t, j)' BY <1>0, <2>1, <2>4, <3>1, <3>2, <3>3, SafeStays
    <3> QED BY <3>4 DEF Safe, LiveBeside
  <2> QED BY <2>1, <2>2, <2>5 DEF Kept
<1>11. CASE UNCHANGED vars
  BY <1>11 DEF vars, Kept, Safe, Settled, LiveBeside, Live, Current
<1> QED BY <1>4, <1>5, <1>6, <1>7, <1>8, <1>9, <1>10, <1>11 DEF Next, Consume

-----------------------------------------------------------------------------
(* Duplicates.                                                             *)

\* The entries of t that can still make a handler run.
Copies(t) == {i \in 1..Len(log) : log[i].task = t /\ (i > read \/ i \in pel)} \ Done

Allowance(t) == (IF t \in published THEN 1 ELSE 0) + crashes + faults
Counted == \A t \in Tasks : runs[t] + Cardinality(Copies(t)) <= Allowance(t)

\* The entries of a task that can still run can be counted.
LEMMA CopiesAreFinite ==
  ASSUME Typed, NEW t PROVE IsFiniteSet(Copies(t)) /\ Cardinality(Copies(t)) \in Nat
<1>1. Len(log) \in Nat BY LenProperties DEF Typed
<1>2. IsFiniteSet(1..Len(log)) BY <1>1, FS_Interval
<1>3. Copies(t) \in SUBSET (1..Len(log)) BY DEF Copies
<1> QED BY <1>2, <1>3, FS_Subset, FS_CardinalityType

\* What a task is allowed is a number, before and after a step.
LEMMA AllowanceIsNatural ==
  ASSUME Budgets, Budgets', NEW t
  PROVE  /\ Allowance(t) \in Nat /\ Allowance(t)' \in Nat
         /\ faults \in Nat /\ crashes \in Nat
<1>1. MaxFaults \in Nat /\ MaxCrashes \in Nat BY SizeAssumption
<1>2. faults \in Nat /\ crashes \in Nat BY <1>1 DEF Budgets
<1>3. PICK f \in Nat, c \in Nat : faults' = f /\ crashes' = c BY <1>1 DEF Budgets
<1> QED BY <1>2, <1>3 DEF Allowance

\* A publication, a crash or an error each allow one run more.
LEMMA AllowanceGrows ==
  ASSUME Budgets, Budgets', NEW t, published \subseteq published',
         faults <= faults', crashes <= crashes'
  PROVE  /\ Allowance(t)' >= Allowance(t)
         /\ faults < faults' \/ crashes < crashes' => Allowance(t)' >= Allowance(t) + 1
         /\ t \in published' \ published => Allowance(t)' >= Allowance(t) + 1
<1>1. MaxFaults \in Nat /\ MaxCrashes \in Nat BY SizeAssumption
<1>2. faults \in Nat /\ crashes \in Nat BY <1>1 DEF Budgets
<1>3. PICK f \in Nat, c \in Nat : faults' = f /\ crashes' = c BY <1>1 DEF Budgets
<1> QED BY <1>2, <1>3 DEF Allowance

\* An entry more takes a crash, an error or the publication.
LEMMA CountedWithOneMore ==
  ASSUME Typed, Typed', Budgets, Budgets', Counted, NEW t \in Tasks, NEW x,
         Copies(t)' \subseteq Copies(t) \cup {x}, runs'[t] = runs[t],
         Allowance(t)' >= Allowance(t) + 1
  PROVE  runs'[t] + Cardinality(Copies(t)') <= Allowance(t)'
<1>1. /\ IsFiniteSet(Copies(t) \cup {x}) /\ Cardinality(Copies(t) \cup {x}) \in Nat
      /\ Cardinality(Copies(t) \cup {x}) <= Cardinality(Copies(t)) + 1
  <2>1. IsFiniteSet(Copies(t)) /\ Cardinality(Copies(t)) \in Nat BY CopiesAreFinite
  <2>2. IsFiniteSet(Copies(t) \cup {x}) BY <2>1, FS_AddElement
  <2>3. Cardinality(Copies(t) \cup {x}) \in {Cardinality(Copies(t)), Cardinality(Copies(t)) + 1}
    BY <2>1, FS_AddElement
  <2> QED BY <2>1, <2>2, <2>3
<1>2. Cardinality(Copies(t)') <= Cardinality(Copies(t) \cup {x}) /\ Cardinality(Copies(t)') \in Nat
  BY <1>1, FS_Subset, FS_CardinalityType
<1>3. Cardinality(Copies(t)) \in Nat BY CopiesAreFinite
<1>4. Allowance(t) \in Nat /\ Allowance(t)' \in Nat BY AllowanceIsNatural
<1>5. runs[t] \in Nat BY DEF Typed
<1> QED BY <1>1, <1>2, <1>3, <1>4, <1>5 DEF Counted

\* No copy more needs nothing more.
LEMMA CountedWithoutMore ==
  ASSUME Typed, Typed', Budgets, Budgets', Counted, NEW t \in Tasks,
         Copies(t)' \subseteq Copies(t), runs'[t] = runs[t], Allowance(t)' >= Allowance(t)
  PROVE  runs'[t] + Cardinality(Copies(t)') <= Allowance(t)'
<1>1. Cardinality(Copies(t)) \in Nat /\ IsFiniteSet(Copies(t)) BY CopiesAreFinite
<1>2. Cardinality(Copies(t)') <= Cardinality(Copies(t)) /\ Cardinality(Copies(t)') \in Nat
  BY <1>1, FS_Subset, FS_CardinalityType
<1>3. Allowance(t) \in Nat /\ Allowance(t)' \in Nat BY AllowanceIsNatural
<1>4. runs[t] \in Nat BY DEF Typed
<1> QED BY <1>1, <1>2, <1>3, <1>4 DEF Counted

\* Every step keeps runs and copies within the allowance.
LEMMA CountedHolds ==
  ASSUME Typed, Batched, Budgets, Counted, [Next]_vars PROVE Counted'
<1> USE DEF redisVars, consumerVars, history, GoTo
<1>0. Typed' /\ Grown BY TypesStay
<1>1. Budgets' /\ faults <= faults' /\ crashes <= crashes' BY BudgetsStay
<1>2. Len(log) \in Nat /\ read \in Nat /\ read <= Len(log) BY LenProperties DEF Typed
<1>3. faults \in Nat /\ crashes \in Nat BY <1>1, AllowanceIsNatural
<1> SUFFICES ASSUME NEW t \in Tasks
             PROVE  runs'[t] + Cardinality(Copies(t)') <= Allowance(t)'
  BY DEF Counted
<1>4. ASSUME Copies(t)' \subseteq Copies(t), runs'[t] = runs[t], published \subseteq published'
      PROVE  runs'[t] + Cardinality(Copies(t)') <= Allowance(t)'
  BY <1>0, <1>1, <1>4, AllowanceGrows, CountedWithoutMore
<1>5. ASSUME NEW x, Copies(t)' \subseteq Copies(t) \cup {x}, runs'[t] = runs[t],
             published \subseteq published',
             t \in published' \ published \/ faults < faults' \/ crashes < crashes'
      PROVE  runs'[t] + Cardinality(Copies(t)') <= Allowance(t)'
  BY <1>0, <1>1, <1>5, AllowanceGrows, CountedWithOneMore
<1>6. ASSUME NEW u \in Tasks, Publish(u) PROVE runs'[t] + Cardinality(Copies(t)') <= Allowance(t)'
  <2>1. /\ XAdd([task |-> u, retry |-> 0], 1) /\ published' = published \cup {u}
        /\ u \notin published
        /\ UNCHANGED <<read, pel, phase, batch, runs>>
    BY <1>6 DEF Publish
  <2>2. [task |-> u, retry |-> 0] \in Entry BY SizeAssumption DEF Entry
  <2>3. Len(log') = Len(log) + 1 /\ log'[Len(log) + 1].task = u BY <1>2, <2>1, <2>2, XAddGrows
  <2>4. Done' = Done BY <2>1 DEF Done, Current
  <2>5. \A i \in 1..Len(log') : (i \in 1..Len(log) /\ log'[i] = log[i]) \/ i = Len(log) + 1
    BY <1>0, <1>2, <2>3 DEF Grown
  <2>6. Copies(t)' \subseteq Copies(t) \cup {Len(log) + 1} BY <2>1, <2>4, <2>5 DEF Copies
  <2>7. CASE t = u BY <1>5, <2>1, <2>6, <2>7
  <2>8. CASE t # u
    <3>1. Copies(t)' \subseteq Copies(t) BY <2>1, <2>3, <2>4, <2>5, <2>8 DEF Copies
    <3> QED BY <1>4, <2>1, <3>1
  <2> QED BY <2>7, <2>8
<1>7. CASE Restart \/ EnsureGroup \/ ReadPending \/ EndOfBatch \/ HandlerRaises
  <2>1. UNCHANGED <<log, read, pel, published, runs>> /\ phase # "ack" /\ phase' # "ack"
    BY <1>7 DEF Restart, EnsureGroup, ReadPending, EndOfBatch, HandlerRaises
  <2>2. Copies(t)' \subseteq Copies(t) BY <2>1 DEF Copies, Done
  <2> QED BY <1>4, <2>1, <2>2
<1>8. CASE Poll \/ PollFails
  <2>1. /\ UNCHANGED <<log, published, runs>> /\ phase # "ack" /\ phase' # "ack"
        /\ (Fresh # <<>> /\ DeliverFresh) \/ UNCHANGED <<read, pel>>
    BY <1>8 DEF Poll, PollFails
  <2>2. \A x \in 1..Len(log) : x > read' \/ x \in pel' => x \in pel \/ x > read
    BY <1>2, <2>1, FreshIsPending
  <2>3. Copies(t)' \subseteq Copies(t) BY <2>1, <2>2 DEF Copies, Done
  <2> QED BY <1>4, <2>1, <2>3
<1>9. CASE AckEmpty
  <2>1. /\ UNCHANGED <<log, read, published, runs>> /\ phase # "ack" /\ phase' # "ack"
        /\ pel' \subseteq pel
    BY <1>9 DEF AckEmpty
  <2>2. Copies(t)' \subseteq Copies(t) BY <2>1 DEF Copies, Done
  <2> QED BY <1>4, <2>1, <2>2
<1>10. CASE HandlerReturns
  <2>1. /\ UNCHANGED <<log, read, pel, published, batch>> /\ phase = "next" /\ phase' = "ack"
        /\ batch # <<>> /\ Current.data # NoData
        /\ runs' = [runs EXCEPT ![Current.data.task] = @ + 1]
    BY <1>10 DEF HandlerReturns
  <2>2. /\ Current.data \in Entry /\ Current.data = log[Current.id]
        /\ Current.id \in 1..Len(log) /\ Current.id \in pel
    BY <2>1, CurrentIs
  <2>3. Copies(t)' = Copies(t) \ {Current.id} BY <2>1 DEF Copies, Done, Current
  <2>4. CASE t # Current.data.task
    <3>1. runs'[t] = runs[t] BY <2>1, <2>4 DEF Typed
    <3> QED BY <1>4, <2>1, <2>3, <3>1
  <2>5. CASE t = Current.data.task
    <3>1. Current.id \in Copies(t) BY <2>1, <2>2, <2>5 DEF Copies, Done
    <3>2. IsFiniteSet(Copies(t)) /\ Cardinality(Copies(t)) \in Nat BY CopiesAreFinite
    <3>3. Cardinality(Copies(t)') = Cardinality(Copies(t)) - 1
      BY <2>3, <3>1, <3>2, FS_RemoveElement
    <3>4. runs'[t] = runs[t] + 1 /\ runs[t] \in Nat BY <2>1, <2>5 DEF Typed
    <3>5. Allowance(t)' >= Allowance(t) /\ Allowance(t) \in Nat
      BY <1>1, <2>1, AllowanceGrows, AllowanceIsNatural
    <3>6. Allowance(t)' \in Nat BY <1>1, AllowanceIsNatural
    <3> QED BY <3>2, <3>3, <3>4, <3>5, <3>6 DEF Counted
  <2> QED BY <2>4, <2>5
<1>11. CASE Settle
  <2>0. PICK e, id : e = Current.data /\ id = Current.id OBVIOUS
  <2>1. /\ phase = "settle" /\ batch # <<>> /\ e \in Entry /\ e = log[id]
        /\ UNCHANGED <<read, pel, published, runs, crashes>>
    BY <1>11, <2>0, SettleIs
  <2>2. PICK n \in 0..2 : (Requeued(e, n) \/ Buried(e, n)) /\ Outcome(n)
    BY <1>11, <2>0, SettleIs
  <2>3. id \in 1..Len(log) /\ id \in pel BY <2>0, <2>1, CurrentIs
  <2>4. Done = {} BY <2>1 DEF Done
  <2>5. \A i \in 1..Len(log') :
          \/ i \in 1..Len(log) /\ log'[i] = log[i]
          \/ n > 0 /\ i = Len(log) + 1 /\ log'[i].task = e.task
          \/ n > 1 /\ i = Len(log) + 2 /\ log'[i].task = e.task
    BY <1>0, <1>2, <2>2 DEF Requeued, Buried, Grown
  <2>6. CASE t # e.task
    <3>1. Copies(t)' \subseteq Copies(t) BY <2>1, <2>4, <2>5, <2>6 DEF Copies
    <3> QED BY <1>4, <2>1, <3>1
  <2>7. CASE t = e.task /\ phase' = "ack"
    <3>1. Done' = {id} BY <2>0, <2>2, <2>7 DEF Outcome, Done, Current
    <3>2. id \in Copies(t) BY <2>1, <2>3, <2>4, <2>7 DEF Copies
    <3> DEFINE more == (Copies(t) \ {id}) \cup {Len(log) + 1}
    <3>3. /\ IsFiniteSet(more) /\ Cardinality(more) \in Nat /\ Cardinality(Copies(t)) \in Nat
          /\ Cardinality(more) <= Cardinality(Copies(t))
      <4>1. IsFiniteSet(Copies(t)) /\ Cardinality(Copies(t)) \in Nat BY CopiesAreFinite
      <4>2. /\ IsFiniteSet(Copies(t) \ {id})
            /\ Cardinality(Copies(t) \ {id}) = Cardinality(Copies(t)) - 1
        BY <3>2, <4>1, FS_RemoveElement
      <4>3. PICK less : less = Copies(t) \ {id} OBVIOUS
      <4>4. /\ IsFiniteSet(less \cup {Len(log) + 1})
            /\ Cardinality(less \cup {Len(log) + 1}) \in {Cardinality(less), Cardinality(less) + 1}
        BY <4>2, <4>3, FS_AddElement
      <4>5. IsFiniteSet(more) /\ Cardinality(more) \in Nat BY <4>3, <4>4, FS_CardinalityType
      <4> QED BY <4>1, <4>2, <4>3, <4>4, <4>5
    <3>4. runs[t] \in Nat /\ runs'[t] = runs[t] BY <2>1 DEF Typed
    <3>5. CASE n \in 0..1
      <4>1. Copies(t)' \subseteq more BY <2>1, <2>4, <2>5, <3>1, <3>5 DEF Copies
      <4>2. Cardinality(Copies(t)') <= Cardinality(more) /\ Cardinality(Copies(t)') \in Nat
        BY <3>3, <4>1, FS_Subset, FS_CardinalityType
      <4>3. Allowance(t)' >= Allowance(t) /\ Allowance(t) \in Nat /\ Allowance(t)' \in Nat
        BY <1>1, <2>1, AllowanceGrows, AllowanceIsNatural
      <4> QED BY <3>3, <3>4, <4>2, <4>3 DEF Counted
    <3>6. CASE n = 2
      <4>1. Copies(t)' \subseteq more \cup {Len(log) + 2} BY <2>1, <2>4, <2>5, <3>1 DEF Copies
      <4>2. /\ IsFiniteSet(more \cup {Len(log) + 2})
            /\ Cardinality(more \cup {Len(log) + 2}) \in {Cardinality(more), Cardinality(more) + 1}
        BY <3>3, FS_AddElement
      <4>3. /\ Cardinality(Copies(t)') <= Cardinality(more \cup {Len(log) + 2})
            /\ Cardinality(Copies(t)') \in Nat
        BY <4>1, <4>2, FS_Subset, FS_CardinalityType
      <4>4. faults' = faults + 1 BY <2>2, <2>7, <3>6 DEF Outcome
      <4>5. Allowance(t)' = Allowance(t) + 1 /\ Allowance(t) \in Nat
        BY <1>1, <1>3, <2>1, <4>4, AllowanceIsNatural DEF Allowance
      <4> QED BY <3>3, <3>4, <4>2, <4>3, <4>5 DEF Counted
    <3> QED BY <3>5, <3>6
  <2>8. CASE t = e.task /\ phase' # "ack"
    <3>1. n \in 0..1 /\ faults' = faults + 1 BY <2>2, <2>8 DEF Outcome
    <3>2. Copies(t)' \subseteq Copies(t) \cup {Len(log) + 1} BY <2>1, <2>4, <2>5, <3>1 DEF Copies
    <3> QED BY <1>3, <1>5, <2>1, <3>1, <3>2
  <2> QED BY <2>6, <2>7, <2>8
<1>12. CASE Ack
  <2>1. /\ UNCHANGED <<log, read, published, runs, crashes>> /\ phase = "ack" /\ phase' # "ack"
        /\ \/ pel' = pel \ {Current.id} /\ faults' = faults
           \/ pel' \in {pel, pel \ {Current.id}} /\ faults' = faults + 1
    BY <1>12 DEF Ack, Escape, NoFault, Fault
  <2>2. Current.id <= read /\ Current.id \in Nat /\ Done = {Current.id}
    BY <1>2, <2>1, CurrentIs DEF Batched, Done
  <2>3. Copies(t)' \subseteq Copies(t) \cup {Current.id} BY <2>1, <2>2 DEF Copies, Done
  <2>4. CASE faults' = faults + 1 BY <1>3, <1>5, <2>1, <2>3, <2>4
  <2>5. CASE pel' = pel \ {Current.id}
    <3>1. Current.id \notin Copies(t)' BY <1>2, <2>1, <2>2, <2>5 DEF Copies
    <3> QED BY <1>4, <2>1, <2>3, <3>1
  <2> QED BY <2>1, <2>4, <2>5
<1>13. CASE Crash
  <2>1. UNCHANGED <<log, read, pel, published, runs>> /\ phase' # "ack" /\ crashes' = crashes + 1
    BY <1>13 DEF Crash
  <2>2. Copies(t)' \subseteq Copies(t) \cup {Current.id} BY <2>1 DEF Copies, Done
  <2> QED BY <1>3, <1>5, <2>1, <2>2
<1>14. CASE UNCHANGED vars
  <2>1. UNCHANGED <<log, read, pel, published, runs, phase, batch>> BY <1>14 DEF vars
  <2>2. Copies(t)' \subseteq Copies(t) BY <2>1 DEF Copies, Done, Current
  <2> QED BY <1>4, <2>1, <2>2
<1> QED
  BY <1>6, <1>7, <1>8, <1>9, <1>10, <1>11, <1>12, <1>13, <1>14 DEF Next, Consume

-----------------------------------------------------------------------------
(* The inductive invariant, and what follows from it.                      *)

BusInv ==
    /\ Typed /\ Batched /\ recovering \in BOOLEAN
    /\ Budgets /\ Retried /\ Kept /\ Counted

\* Every step leaves "recovering" a truth value.
LEMMA RecoveringStays == ASSUME recovering \in BOOLEAN, [Next]_vars PROVE recovering' \in BOOLEAN
<1>1. CASE \E t \in Tasks : Publish(t) BY <1>1, Zenon DEF Publish, consumerVars
<1>2. CASE Restart \/ EnsureGroup \/ ReadPending \/ Poll \/ PollFails \/ EndOfBatch
  BY <1>2, Zenon
  DEF Restart, EnsureGroup, ReadPending, Poll, PollFails, EndOfBatch, GoTo, consumerVars
<1>3. CASE AckEmpty \/ HandlerReturns \/ HandlerRaises
  BY <1>3, Zenon DEF AckEmpty, HandlerReturns, HandlerRaises, GoTo
<1>4. CASE Settle \/ Ack \/ Crash
  BY <1>4, Zenon DEF Settle, Ack, Crash, GoTo, Escape
<1>5. CASE UNCHANGED vars BY <1>5, Zenon DEF vars, consumerVars
<1> QED BY <1>1, <1>2, <1>3, <1>4, <1>5, Zenon DEF Next, Consume

\* Before the first restart there is nothing in Redis and nothing in memory.
LEMMA BusStarts == Init => BusInv
<1> SUFFICES ASSUME Init PROVE BusInv OBVIOUS
<1> USE DEF Init
<1>1. MaxRetries \in Nat /\ MaxFaults \in Nat /\ MaxCrashes \in Nat BY SizeAssumption
<1>2. log \in Seq(Entry) /\ Len(log) = 0 /\ batch \in Seq(Item) /\ Len(batch) = 0
  BY EmptySeq
<1>3. Typed BY <1>2 DEF Typed
<1>4. Batched BY <1>2 DEF Batched
<1>5. recovering \in BOOLEAN BY Zenon
<1>6. Budgets BY <1>1 DEF Budgets
<1>7. Retried BY <1>2 DEF Retried, RetriedBeforeDLQ
<1>8. Kept BY DEF Kept
<1>9. Counted
  <2> SUFFICES ASSUME NEW t \in Tasks PROVE runs[t] + Cardinality(Copies(t)) <= Allowance(t)
    BY DEF Counted
  <2>1. Copies(t) = {} BY <1>2 DEF Copies
  <2>2. Allowance(t) = 0 BY DEF Allowance
  <2> QED BY <2>1, <2>2, FS_EmptySet
<1> QED BY <1>3, <1>4, <1>5, <1>6, <1>7, <1>8, <1>9, Zenon DEF BusInv

\* BusInv is inductive.
LEMMA BusInductive == Spec => []BusInv
<1>1. BusInv /\ [Next]_vars => BusInv'
  <2> SUFFICES ASSUME BusInv, [Next]_vars PROVE BusInv' OBVIOUS
  <2>1. /\ Typed /\ Batched /\ Budgets /\ Retried /\ Kept /\ Counted
        /\ recovering \in BOOLEAN
    BY Zenon DEF BusInv
  <2>2. Typed' /\ Batched' BY <2>1, TypesStay, Zenon
  <2>3. recovering' \in BOOLEAN BY <2>1, RecoveringStays, Zenon
  <2>4. Budgets' BY <2>1, BudgetsStay, Zenon
  <2>5. Retried' BY <2>1, RetriedHolds, Zenon
  <2>6. Kept' BY <2>1, KeptHolds, Zenon
  <2>7. Counted' BY <2>1, CountedHolds, Zenon
  <2> QED BY <2>2, <2>3, <2>4, <2>5, <2>6, <2>7, Zenon DEF BusInv
<1> QED BY <1>1, BusStarts, PTL DEF Spec

(***************************************************************************)
(* What Redis keeps of the stream, the group's position and its pending    *)
(* list fit together, and the batch the consumer holds was delivered.      *)
(***************************************************************************)
THEOREM TypeCorrect == Spec => []TypeOK
<1>1. BusInv => TypeOK
  <2> SUFFICES ASSUME BusInv PROVE TypeOK OBVIOUS
  <2>1. Typed /\ Batched /\ Budgets /\ recovering \in BOOLEAN BY Zenon DEF BusInv
  <2> DEFINE Handed == [id : 1..read, data : Entry \cup {NoData}]
  <2>2. batch \in Seq(Handed)
    <3>1. Len(batch) \in Nat /\ batch \in [1..Len(batch) -> Item]
      BY <2>1, LenProperties DEF Typed
    <3>2. ASSUME NEW i \in 1..Len(batch) PROVE batch[i] \in Handed
      <4>1. batch[i] \in Item /\ batch[i].id \in pel BY <2>1, <3>1 DEF Batched
      <4>2. batch[i].id \in 1..read BY <2>1, <4>1 DEF Typed
      <4> QED BY <4>1, <4>2 DEF Item
    <3>3. batch \in [1..Len(batch) -> Handed] BY <3>1, <3>2
    <3> HIDE DEF Handed
    <3> QED BY <3>1, <3>3, SeqDef
  <2>3. trimmed \in 0..Len(log) /\ read \in 0..Len(log) BY <2>1, LenProperties DEF Typed
  <2>4. faults \in 0..MaxFaults /\ crashes \in 0..MaxCrashes BY <2>1 DEF Budgets
  <2> QED BY <2>1, <2>2, <2>3, <2>4, Zenon DEF Typed, TypeOK
<1> QED BY <1>1, BusInductive, PTL

(***************************************************************************)
(* README.md, line 542: at-least-once delivery.  However crashes and Redis *)
(* errors fall between _process_entry, _safe_xadd, _safe_xack and          *)
(* _recover_pending, a published task is settled, or has an entry that is  *)
(* unread or pending, or was trimmed: an entry is acknowledged only after  *)
(* its task is settled or written again.                                   *)
(***************************************************************************)
THEOREM DeliveredAtLeastOnce == Spec => []NothingLost
<1>1. BusInv => NothingLost
  <2> SUFFICES ASSUME BusInv, NEW t \in published, ~Settled(t)
               PROVE  Outstanding(t) \/ Trimmed(t)
    BY DEF NothingLost
  <2>1. Typed /\ Safe(t, 0) BY DEF BusInv, Kept
  <2>2. PICK i \in 1..Len(log) : log[i].task = t /\ Live(i) BY <2>1 DEF Safe, LiveBeside
  <2>3. Len(log) \in Nat /\ trimmed \in Nat BY <2>1, LenProperties DEF Typed
  <2>4. CASE i <= trimmed BY <2>2, <2>3, <2>4 DEF Trimmed
  <2>5. CASE ~(i <= trimmed)
    <3>1. i \in (trimmed + 1)..Len(log) BY <2>2, <2>3, <2>5
    <3> QED BY <2>2, <2>5, <3>1 DEF Live, Outstanding
  <2> QED BY <2>4, <2>5
<1> QED BY <1>1, BusInductive, PTL

(***************************************************************************)
(* README.md, line 544: 3 retries per message, then moved to DLQ.  A task  *)
(* in the DLQ failed more often than max_retries, whichever of its copies  *)
(* got there.                                                              *)
(***************************************************************************)
THEOREM NoRetryIsSkipped == Spec => []RetriedBeforeDLQ
<1>1. BusInv => RetriedBeforeDLQ BY DEF BusInv, Retried
<1> QED BY <1>1, BusInductive, PTL

(***************************************************************************)
(* The runs of a task and the entries that can still run it together       *)
(* exceed one by no more than the crashes and Redis errors there were.     *)
(***************************************************************************)
THEOREM DuplicatesAreAccountedFor == Spec => []DuplicatesNeedAFault
<1>1. BusInv => DuplicatesNeedAFault
  <2> SUFFICES ASSUME BusInv, NEW t \in Tasks PROVE runs[t] <= 1 + crashes + faults
    BY DEF DuplicatesNeedAFault
  <2>1. Typed /\ Budgets /\ Counted BY DEF BusInv
  <2>2. runs[t] \in Nat /\ Cardinality(Copies(t)) \in Nat
    BY <2>1, CopiesAreFinite DEF Typed
  <2>3. MaxFaults \in Nat /\ MaxCrashes \in Nat BY SizeAssumption
  <2>4. faults \in Nat /\ crashes \in Nat BY <2>1, <2>3 DEF Budgets
  <2>5. runs[t] + Cardinality(Copies(t)) <= Allowance(t) BY <2>1 DEF Counted
  <2>6. Allowance(t) <= 1 + crashes + faults BY <2>4 DEF Allowance
  <2>7. Allowance(t) \in Nat BY <2>4 DEF Allowance
  <2> QED BY <2>2, <2>4, <2>5, <2>6, <2>7
<1> QED BY <1>1, BusInductive, PTL

-----------------------------------------------------------------------------
(* The queue of tickets the bus implements.                                *)

QueueStep == [Queue!Next]_(Queue!vars)

\* What the steps of the queue rest on.
LEMMA QueueFacts ==
  ASSUME BusInv
  PROVE  /\ Typed /\ Batched /\ Len(log) \in Nat /\ read \in Nat /\ read <= Len(log)
         /\ trimmed \in Nat /\ Maxlen \in Nat /\ MaxRetries \in Nat
         /\ faults \in Nat /\ crashes \in Nat
<1>1. Typed /\ Batched /\ Budgets BY Zenon DEF BusInv
<1>2. {MaxFaults, MaxCrashes, MaxRetries} \subseteq Nat /\ Maxlen \in Nat BY SizeAssumption
<1>3. log \in Seq(Entry) /\ trimmed \in Nat /\ read \in Nat /\ read <= Len(log)
  BY <1>1 DEF Typed
<1>4. Len(log) \in Nat BY <1>3, LenProperties
<1>5. faults \in Nat /\ crashes \in Nat BY <1>1, <1>2 DEF Budgets
<1> QED BY <1>1, <1>2, <1>3, <1>4, <1>5

\* A step that shows the queue nothing.
LEMMA QueueStutters ==
  ASSUME UNCHANGED <<log, trimmed, history, dlq, faults, crashes>>, Good' = Good, Failing' = Failing
  PROVE  QueueStep
BY DEF QueueStep, Queue!vars, Queue!queue, Queue!fate, history

\* One mishap more, seen as a crash or a Redis error.
OneMishap == \/ faults' = faults + 1 /\ crashes' = crashes
             \/ crashes' = crashes + 1 /\ faults' = faults

\* A mishap in which tickets are forgotten or come back.
LEMMA QueueForgets ==
  ASSUME BusInv, OneMishap, UNCHANGED <<log, trimmed, history, dlq>>, Failing' \subseteq Failing,
         Good' = Good \/ \E k \in 1..Len(log) : Good' = Good \cup {k}
  PROVE  QueueStep
<1>1. (faults + crashes)' = faults + crashes + 1 BY QueueFacts DEF OneMishap
<1>2. Queue!Forget BY DEF Queue!Forget, Queue!fate, history
<1> QED BY <1>1, <1>2 DEF QueueStep, Queue!Next, Queue!Mishap

\* Tickets expire where entries that were trimmed are skipped.
LEMMA QueueExpires ==
  ASSUME BusInv, NoFault \/ OneMishap, UNCHANGED <<log, trimmed, history, dlq>>,
         Failing' = Failing, Good' \subseteq Good, \A i \in Good \ Good' : i <= trimmed
  PROVE  QueueStep
<1>1. Queue!Expire
  <2>1. Good \ Good' \subseteq 1..trimmed
    <3>1. \A i \in Good : i \in Nat /\ 1 <= i BY QueueFacts DEF Good
    <3> QED BY <3>1, QueueFacts
  <2> QED BY <2>1 DEF Queue!Expire, Queue!fate, history
<1>2. CASE NoFault BY <1>1, <1>2 DEF NoFault, QueueStep, Queue!Next, Queue!NoMishap
<1>3. CASE OneMishap
  <2>1. (faults + crashes)' = faults + crashes + 1 BY <1>3, QueueFacts DEF OneMishap
  <2> QED BY <1>1, <2>1 DEF QueueStep, Queue!Next, Queue!Mishap
<1> QED BY <1>2, <1>3

\* The unread and pending entries, the one that is done with among them.
Pool == {i \in 1..Len(log) : i > read \/ i \in pel}

\* XADD issues tickets: what it adds is good, and what it trims are the oldest.
LEMMA XAddIssues ==
  ASSUME BusInv, NEW e \in Entry, NEW n \in Nat, XAdd(e, n), UNCHANGED <<read, pel>>,
         Done' \subseteq 1..Len(log)
  PROVE  Queue!Issue(e, n, Pool \ Done')
<1>1. /\ Typed /\ Len(log) \in Nat /\ read \in Nat /\ read <= Len(log)
      /\ trimmed \in Nat /\ Maxlen \in Nat
  BY QueueFacts
<1>2. Grown /\ Len(log') = Len(log) + n BY <1>1, XAddGrows
<1>3. log' = log \o [i \in 1..n |-> e] BY DEF XAdd
<1>4. trimmed' # trimmed => trimmed < trimmed' /\ trimmed' + Maxlen <= Len(log')
  <2>1. trimmed' = trimmed \/ (trimmed' = Len(log') - Maxlen /\ Len(log') - Maxlen > trimmed)
    BY DEF XAdd
  <2>2. Len(log') \in Nat BY <1>1, <1>2
  <2> QED BY <1>1, <2>1, <2>2
<1>5. Pool' = Pool \cup (Len(log) + 1)..Len(log')
  <2>1. ASSUME NEW i \in Pool' PROVE i \in Pool \cup (Len(log) + 1)..Len(log')
    BY <1>1, <1>2, <2>1 DEF Pool
  <2>2. ASSUME NEW i \in Pool PROVE i \in Pool' BY <1>1, <1>2, <2>2 DEF Pool
  <2>3. ASSUME NEW i \in (Len(log) + 1)..Len(log') PROVE i \in Pool'
    BY <1>1, <1>2, <2>3 DEF Pool
  <2> QED BY <2>1, <2>2, <2>3
<1>6. Done' \cap (Len(log) + 1)..Len(log') = {} BY <1>1, <1>2
<1>7. Good' = (Pool \ Done') \cup (Len(log) + 1)..Len(log')
  <2>1. Good' = Pool' \ Done' BY DEF Good, Pool
  <2> QED BY <1>5, <1>6, <2>1
<1> QED BY <1>3, <1>4, <1>7 DEF Queue!Issue

\* What the consumer holds, in terms of the queue.
LEMMA InHandIs ==
  ASSUME BusInv, batch # <<>>
  PROVE  /\ Current.id \in 1..Len(log) /\ Current.id \in Pool /\ Current.id <= read
         /\ Current.id \in Nat
         /\ Current.data # NoData => Current.data \in Entry /\ Current.data = log[Current.id]
         /\ Current.data = NoData => Current.id <= trimmed
<1>1. Typed /\ Batched BY QueueFacts
<1>2. /\ Current.id \in pel /\ Current.id \in 1..read /\ Current.id \in 1..Len(log)
      /\ FromTheStream(Current)
      /\ Current.data # NoData => Current.data \in Entry /\ Current.data = log[Current.id]
  BY <1>1, CurrentIs
<1> QED BY <1>2, QueueFacts DEF Pool, FromTheStream

-----------------------------------------------------------------------------
\* A producer publishes: a ticket more.
LEMMA PublishIsPublish ==
  ASSUME BusInv, NEW t \in Tasks, Publish(t)
  PROVE  QueueStep
<1> DEFINE e == [task |-> t, retry |-> 0]
<1>1. e \in Entry BY SizeAssumption DEF Entry
<1>2. /\ XAdd(e, 1) /\ UNCHANGED <<read, pel, phase, batch, dlq, runs, failures, dropped>>
      /\ t \notin published /\ published' = published \cup {t} /\ NoFault
  BY DEF Publish, consumerVars
<1>3. Done' = Done /\ Failing' = Failing BY <1>2 DEF Done, Failing, Current
<1>4. Done \subseteq 1..Len(log)
  <2>1. CASE phase = "ack"
    <3>1. batch # <<>> BY <2>1, QueueFacts DEF Batched
    <3> QED BY <3>1, InHandIs DEF Done
  <2>2. CASE phase # "ack" BY <2>2 DEF Done
  <2> QED BY <2>1, <2>2
<1>5. Queue!Issue(e, 1, Pool \ Done')
  <2> HIDE DEF e
  <2> QED BY <1>1, <1>2, <1>3, <1>4, XAddIssues
<1>6. Pool \ Done' = Good BY <1>3 DEF Good, Pool
<1>7. Queue!Publish(t)
  BY <1>2, <1>3, <1>5, <1>6 DEF Queue!Publish, Queue!NoMishap, NoFault
<1> QED BY <1>7 DEF QueueStep, Queue!Next

\* A handler that returns has run its ticket; one that raises has failed it.
LEMMA HandlersRunTickets ==
  ASSUME BusInv, HandlerReturns \/ HandlerRaises
  PROVE  QueueStep
<1> DEFINE id == Current.id
<1>1. /\ phase = "next" /\ batch # <<>> /\ Current.data # NoData
      /\ UNCHANGED <<log, trimmed, read, pel, batch, dlq, published, dropped>> /\ NoFault
  BY DEF HandlerReturns, HandlerRaises, GoTo, redisVars
<1>2. id \in Pool /\ Current.data = log[id] /\ Current' = Current
  BY <1>1, InHandIs DEF Current
<1>3. Good = Pool /\ Failing = {} /\ Pool' = Pool
  BY <1>1 DEF Good, Done, Failing, Pool
<1>4. CASE HandlerReturns
  <2>1. /\ phase' = "ack" /\ runs' = [runs EXCEPT ![log[id].task] = @ + 1]
        /\ UNCHANGED failures
    BY <1>2, <1>4 DEF HandlerReturns, GoTo
  <2>2. Good' = Good \ {id} /\ Failing' = {}
    BY <1>2, <1>3, <2>1 DEF Good, Pool, Done, Failing
  <2>3. Queue!Run(id)
    BY <1>1, <1>2, <1>3, <2>1, <2>2 DEF Queue!Run, Queue!NoMishap, NoFault
  <2> QED BY <1>2, <1>3, <2>3 DEF QueueStep, Queue!Next
<1>5. CASE HandlerRaises
  <2>1. /\ phase' = "settle" /\ failures' = [failures EXCEPT ![log[id].task] = @ + 1]
        /\ UNCHANGED runs
    BY <1>2, <1>5 DEF HandlerRaises, GoTo
  <2>2. Good' = Good /\ Failing' = {id}
    BY <1>2, <1>3, <2>1 DEF Good, Pool, Done, Failing
  <2>3. Queue!Fail(id)
    BY <1>1, <1>2, <1>3, <2>1, <2>2 DEF Queue!Fail, Queue!NoMishap, NoFault
  <2> QED BY <1>2, <1>3, <2>3 DEF QueueStep, Queue!Next
<1> QED BY <1>4, <1>5

\* A failed entry written n times, and acknowledged next or not, settles its ticket.
LEMMA WriteSettles ==
  ASSUME BusInv, phase = "settle", batch # <<>>, Current.data # NoData, NEW n \in Nat,
         Write(Current.data, n), UNCHANGED <<read, pel, published, runs, failures>>,
         phase' # "settle", Done' \in {{}, {Current.id}}
  PROVE  Queue!Settle(Current.id, n, Good \ Done')
<1>0. PICK e, id : e = Current.data /\ id = Current.id OBVIOUS
<1>1. e \in Entry /\ e = log[id] /\ id \in 1..Len(log) BY <1>0, InHandIs
<1>2. Failing = {id} /\ Failing' = {} /\ Good = Pool
  BY <1>0 DEF Failing, Good, Done, Pool
<1>3. e.retry \in Nat /\ MaxRetries \in Nat /\ e.retry <= MaxRetries
  BY <1>1, QueueFacts DEF Entry
<1>4. Done' \subseteq 1..Len(log) BY <1>0, <1>1
<1>5. CASE e.retry < MaxRetries
  <2> DEFINE f == [e EXCEPT !.retry = @ + 1]
  <2>1. f \in Entry BY <1>1, <1>3, <1>5 DEF Entry
  <2>2. XAdd(f, n) /\ UNCHANGED dlq BY <1>0, <1>3, <1>5 DEF Write
  <2>3. Queue!Issue(f, n, Pool \ Done')
    <3> HIDE DEF f
    <3> QED BY <1>4, <2>1, <2>2, XAddIssues
  <2> QED BY <1>0, <1>1, <1>2, <1>5, <2>2, <2>3 DEF Queue!Settle
<1>6. CASE ~(e.retry < MaxRetries)
  <2>1. /\ dlq' = IF n > 0 THEN dlq \cup {e.task} ELSE dlq
        /\ UNCHANGED <<log, trimmed>>
    BY <1>0, <1>3, <1>6 DEF Write
  <2>2. Good' = Good \ Done' BY <1>2, <2>1 DEF Good, Pool
  <2> QED BY <1>0, <1>1, <1>2, <1>6, <2>1, <2>2 DEF Queue!Settle
<1> QED BY <1>5, <1>6

\* _safe_xadd exchanges the ticket, or is a mishap to it.
LEMMA SettleSettles ==
  ASSUME BusInv, Settle
  PROVE  QueueStep
<1> DEFINE id == Current.id
           e == Current.data
<1>1. /\ phase = "settle" /\ batch # <<>> /\ e # NoData
      /\ UNCHANGED <<read, pel, published, runs, failures>>
  BY QueueFacts DEF Settle, Batched
<1>2. id \in Pool /\ e = log[id] BY <1>1, InHandIs
<1>3. Good = Pool BY <1>1 DEF Good, Done, Pool
<1>4. id \in Good BY <1>2, <1>3
<1>5. GoTo("ack", recovering, batch) => phase' # "settle" /\ Done' = {id}
  BY DEF GoTo, Done, Current
<1>6. Escape => phase' # "settle" /\ Done' = {} BY DEF Escape, GoTo, Done
<1>7. ASSUME NEW k, Fault(k) PROVE (faults + crashes)' = faults + crashes + 1
  BY <1>7, QueueFacts DEF Fault
<1>8. ASSUME NEW n \in Nat, Write(e, n), GoTo("ack", recovering, batch)
      PROVE  Queue!Settle(id, n, Good \ {id})
  BY <1>1, <1>5, <1>8, WriteSettles
<1>9. ASSUME NEW n \in Nat, Write(e, n), Escape
      PROVE  Queue!Settle(id, n, Good)
  <2>1. Good \ {} = Good OBVIOUS
  <2> QED BY <1>1, <1>6, <1>9, <2>1, WriteSettles
<1>10. Queue!SettleBadly(id) /\ (faults + crashes)' = faults + crashes + 1 => QueueStep
  BY <1>4 DEF QueueStep, Queue!Next, Queue!Mishap
<1> HIDE DEF id, e
<1>11. CASE Write(e, 1) /\ NoFault /\ GoTo("ack", recovering, batch) /\ UNCHANGED dropped
  <2>1. Queue!Retry(id) BY <1>8, <1>11 DEF Queue!Retry, Queue!NoMishap, NoFault
  <2> QED BY <1>4, <2>1 DEF QueueStep, Queue!Next
<1>12. CASE /\ \E n \in 1..2 : Write(e, n)
            /\ Fault("os")
            /\ GoTo("ack", recovering, batch) /\ UNCHANGED dropped
  <2>1. Queue!SettleBadly(id) BY <1>8, <1>12 DEF Queue!SettleBadly
  <2> QED BY <1>7, <1>10, <1>12, <2>1
<1>13. CASE /\ Write(e, 0) /\ Fault("os")
            /\ dropped' = dropped \cup {e.task}
            /\ GoTo("ack", recovering, batch)
  <2>1. Queue!SettleBadly(id) BY <1>2, <1>8, <1>13 DEF Queue!SettleBadly
  <2> QED BY <1>7, <1>10, <1>13, <2>1
<1>14. CASE /\ \E n \in 0..1 : Write(e, n)
            /\ Fault("redis") /\ Escape /\ UNCHANGED dropped
  <2>1. Queue!SettleBadly(id) BY <1>9, <1>14 DEF Queue!SettleBadly
  <2> QED BY <1>7, <1>10, <1>14, <2>1
<1> QED BY <1>11, <1>12, <1>13, <1>14 DEF Settle, e

\* _safe_xack: the ticket is gone already, and comes back if the XACK is not made.
LEMMA AckShowsNothing ==
  ASSUME BusInv, Ack
  PROVE  QueueStep
<1> DEFINE id == Current.id
<1>1. /\ phase = "ack" /\ phase' \in {"next", "poll", "dead"}
      /\ batch # <<>> /\ UNCHANGED <<log, trimmed, read, dlq, history>>
      /\ \/ pel' = pel \ {id} /\ NoFault
         \/ pel' \in {pel, pel \ {id}} /\ \E k : Fault(k)
  BY QueueFacts DEF Ack, Batched, Escape, GoTo
<1>2. id \in 1..Len(log) /\ id \in Pool /\ id <= read /\ id \in Nat BY <1>1, InHandIs
<1>3. Good = Pool \ {id} /\ Failing = {} /\ Failing' = {} /\ Good' = Pool'
  BY <1>1 DEF Good, Done, Failing, Pool
<1> HIDE DEF id
<1>4. CASE pel' = pel \ {id}
  <2>1. Pool' = Pool \ {id} BY <1>1, <1>2, <1>4, QueueFacts DEF Pool
  <2>2. Good' = Good BY <1>3, <2>1
  <2>3. CASE NoFault BY <1>1, <1>3, <2>2, <2>3, QueueStutters DEF NoFault
  <2>4. CASE \E k : Fault(k)
    <3>1. OneMishap BY <2>4 DEF Fault, OneMishap
    <3> QED BY <1>1, <1>3, <2>2, <3>1, QueueForgets
  <2> QED BY <1>1, <2>3, <2>4
<1>5. CASE pel' = pel /\ \E k : Fault(k)
  <2>1. OneMishap BY <1>5 DEF Fault, OneMishap
  <2>2. Good' = Good \cup {id} BY <1>1, <1>2, <1>3, <1>5 DEF Pool
  <2> QED BY <1>1, <1>2, <1>3, <2>1, <2>2, QueueForgets
<1> QED BY <1>1, <1>4, <1>5

\* What the process forgets when it dies: that a handler failed, or was done.
LEMMA CrashForgets ==
  ASSUME BusInv, Crash
  PROVE  QueueStep
<1>1. /\ phase' = "down" /\ UNCHANGED <<log, trimmed, read, pel, dlq, history>> /\ OneMishap
  BY DEF Crash, GoTo, redisVars, OneMishap
<1>2. Good' = Pool /\ Failing' = {} BY <1>1 DEF Good, Pool, Done, Failing
<1>3. CASE phase = "ack"
  <2>1. Current.id \in 1..Len(log) /\ Current.id \in Pool
    BY <1>3, QueueFacts, InHandIs DEF Batched
  <2>2. Good' = Good \cup {Current.id} BY <1>2, <1>3, <2>1 DEF Good, Pool, Done
  <2> QED BY <1>1, <1>2, <2>1, <2>2, QueueForgets
<1>4. CASE phase # "ack"
  <2>1. Good' = Good BY <1>2, <1>4 DEF Good, Pool, Done
  <2> QED BY <1>1, <1>2, <2>1, QueueForgets
<1> QED BY <1>3, <1>4

\* Reading is not seen, except where it skips what was trimmed.
LEMMA ReadingExpires ==
  ASSUME BusInv, Poll \/ PollFails \/ AckEmpty
  PROVE  QueueStep
<1>1. /\ phase \notin {"ack", "settle"} /\ phase' \notin {"ack", "settle"}
      /\ UNCHANGED <<log, trimmed, dlq, history>>
      /\ NoFault \/ \E k : Fault(k)
  BY DEF Poll, PollFails, AckEmpty, GoTo, consumerVars
<1>2. NoFault \/ OneMishap BY <1>1 DEF Fault, OneMishap
<1>3. Good = Pool /\ Good' = Pool' /\ Failing' = Failing
  BY <1>1 DEF Good, Done, Failing, Pool
<1>4. Typed /\ Len(log) \in Nat BY QueueFacts
<1>5. Pool' \subseteq Pool /\ \A i \in Pool \ Pool' : i <= trimmed
  <2>1. CASE Fresh # <<>> /\ DeliverFresh
    <3>1. /\ \A x \in 1..Len(log) : x \in pel' => x \in pel \/ x > read
          /\ \A x \in 1..Len(log) : x > read => x <= trimmed \/ x > read' \/ x \in pel'
          /\ pel \subseteq pel' /\ read' \in Nat /\ read <= read'
      BY <1>4, <2>1, FreshIsPending
    <3>2. read \in Nat BY QueueFacts
    <3> QED BY <1>1, <1>4, <3>1, <3>2 DEF Pool
  <2>2. CASE UNCHANGED <<read, pel>> BY <1>1, <2>2 DEF Pool
  <2>3. CASE AckEmpty /\ pel' = pel \ {Current.id}
    <3>1. batch # <<>> /\ Current.data = NoData /\ read' = read BY <2>3 DEF AckEmpty
    <3>2. Current.id <= trimmed BY <3>1, InHandIs
    <3> QED BY <1>1, <2>3, <3>1, <3>2 DEF Pool
  <2> QED BY <2>1, <2>2, <2>3 DEF Poll, PollFails, AckEmpty
<1> QED BY <1>1, <1>2, <1>3, <1>5, QueueExpires

\* Starting, recovering and the end of a batch are not seen.
LEMMA TheRestIsNotSeen ==
  ASSUME BusInv, Restart \/ EnsureGroup \/ ReadPending \/ EndOfBatch
  PROVE  QueueStep
<1>1. /\ phase \notin {"ack", "settle"} /\ phase' \notin {"ack", "settle"}
      /\ UNCHANGED <<redisVars, history>>
      /\ NoFault \/ \E k : Fault(k)
  BY DEF Restart, EnsureGroup, ReadPending, EndOfBatch, GoTo
<1>2. Good' = Good /\ Failing' = Failing BY <1>1 DEF Good, Done, Failing, redisVars
<1>3. CASE NoFault BY <1>1, <1>2, <1>3, QueueStutters DEF NoFault, redisVars
<1>4. CASE \E k : Fault(k)
  <2>1. OneMishap BY <1>4 DEF Fault, OneMishap
  <2> QED BY <1>1, <1>2, <2>1, QueueForgets DEF redisVars
<1> QED BY <1>1, <1>3, <1>4

(***************************************************************************)
(* ImplementsQueue: whatever the consumer, the group and the pending list  *)
(* go through, producers and handlers see a queue of tickets that go by a  *)
(* run, by a retry or a burial after a failure of their own, or by age;    *)
(* and no crash and no Redis error repeats more than one.                  *)
(***************************************************************************)
THEOREM BusIsAQueue == Spec => ImplementsQueue
<1>1. Init => Queue!Init
  <2> SUFFICES ASSUME Init PROVE Queue!Init OBVIOUS
  <2>1. Len(log) = 0 /\ 1..0 = {} BY EmptySeq DEF Init
  <2>2. Good = {} /\ Failing = {} BY <2>1 DEF Init, Good, Failing
  <2> QED BY <2>2 DEF Init, Queue!Init
<1>2. BusInv /\ [Next]_vars => [Queue!Next]_(Queue!vars)
  <2> SUFFICES ASSUME BusInv, [Next]_vars PROVE QueueStep BY DEF QueueStep
  <2>1. CASE \E t \in Tasks : Publish(t) BY <2>1, PublishIsPublish
  <2>2. CASE HandlerReturns \/ HandlerRaises BY <2>2, HandlersRunTickets
  <2>3. CASE Settle BY <2>3, SettleSettles
  <2>4. CASE Ack BY <2>4, AckShowsNothing
  <2>5. CASE Crash BY <2>5, CrashForgets
  <2>6. CASE Poll \/ PollFails \/ AckEmpty BY <2>6, ReadingExpires
  <2>7. CASE Restart \/ EnsureGroup \/ ReadPending \/ EndOfBatch BY <2>7, TheRestIsNotSeen
  <2>8. CASE UNCHANGED vars
    <3>1. Good' = Good /\ Failing' = Failing
      BY <2>8 DEF vars, redisVars, consumerVars, Good, Done, Failing, Current
    <3> QED BY <2>8, <3>1, QueueStutters DEF vars, redisVars
  <2> QED BY <2>1, <2>2, <2>3, <2>4, <2>5, <2>6, <2>7, <2>8 DEF Next, Consume
<1> QED BY <1>1, <1>2, BusInductive, PTL DEF Spec, ImplementsQueue, Queue!Spec
=============================================================================
