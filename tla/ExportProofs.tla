----------------------------- MODULE ExportProofs -----------------------------
(***************************************************************************)
(* Proofs about a transcript on its way from the audio to a subtitle, for  *)
(* audio of every length, every size of chunk and any number of segments:  *)
(* the time stamps, the scratch files, the plan of chunks, the segments on *)
(* the time line, and the progress reported.                               *)
(***************************************************************************)
EXTENDS Export, FiniteSetTheorems, TLAPS

(* A number of seconds, or of minutes, cut at sixty. *)
LEMMA Sixties ==
    ASSUME NEW n \in Nat
    PROVE  n \div 60 \in Nat /\ n % 60 \in 0..59 /\ n = 60 * (n \div 60) + (n % 60)
    OBVIOUS

(* The same for thousands. *)
LEMMA Thousands ==
    ASSUME NEW n \in Nat
    PROVE  n \div 1000 \in Nat /\ n % 1000 \in 0..999 /\ n = 1000 * (n \div 1000) + (n % 1000)
    OBVIOUS

(* The fields of a clock, put together again, are the seconds they were    *)
(* taken from.                                                             *)
LEMMA ClockFields ==
    ASSUME NEW n \in Nat
    PROVE  /\ n \div 3600 \in Nat /\ (n \div 60) % 60 \in 0..59 /\ n % 60 \in 0..59
           /\ ((n \div 3600) * 60 + ((n \div 60) % 60)) * 60 + (n % 60) = n
<1> DEFINE q == n \div 60
           h == q \div 60
           m == q % 60
           sec == n % 60
<1>1. q \in Nat /\ sec \in 0..59 /\ n = 60 * q + sec
    BY Sixties
<1> HIDE DEF q, sec
<1>2. h \in Nat /\ m \in 0..59 /\ q = 60 * h + m
    BY <1>1, Sixties
<1> HIDE DEF h, m
<1>3. n \div 3600 = h
    <2> DEFINE r == 60 * m + sec
    <2>1. r \in 0..3599 /\ n = 3600 * h + r
        BY <1>1, <1>2
    <2> HIDE DEF r
    <2> QED
        BY <1>2, <2>1
<1>4. (h * 60 + m) * 60 + sec = n
    BY <1>1, <1>2
<1>5. (n \div 60) % 60 = m /\ n % 60 = sec
    BY Zenon DEF q, m, sec
<1> QED
    BY <1>1, <1>2, <1>3, <1>4, <1>5

(* The whole hundredths of a second neither round nor carry. *)
LEMMA WholeHundredths ==
    ASSUME NEW t \in Nat, t % 100 = 0
    PROVE  ((t + 5) \div 10) \div 1000 = t \div 10000
<1> DEFINE q == t \div 100
           s == t \div 10000
           r == q % 100
<1>1. q \in Nat /\ t = 100 * q
    OBVIOUS
<1>2. s \in Nat /\ r \in 0..99 /\ q = 100 * s + r
    BY <1>1
<1> HIDE DEF q, s, r
<1>3. (t + 5) \div 10 = 10 * q
    BY <1>1
<1>4. (10 * q) \div 1000 = s
    BY <1>1, <1>2
<1> QED
    BY <1>3, <1>4 DEF s

(***************************************************************************)
(* A time stamp is legal and exact to half a millisecond, and the page and *)
(* the file agree on the second: for every time there is.                  *)
(***************************************************************************)
LEMMA EveryTimestampExact == ASSUME NEW t \in Nat PROVE TimestampExact(t)
<1> DEFINE totalMs == (t + 5) \div 10
           totalSeconds == totalMs \div 1000
           f == [h |-> totalSeconds \div 3600, m |-> (totalSeconds \div 60) % 60,
                 s |-> totalSeconds % 60, ms |-> totalMs % 1000]
<1>1. FormatTimestamp(t) = f
    BY DEF FormatTimestamp, PerMs
<1>2. totalMs \in Nat /\ 10 * totalMs - t \in -4..5
    OBVIOUS
<1>3. /\ totalSeconds \in Nat /\ totalMs % 1000 \in 0..999
      /\ totalMs = 1000 * totalSeconds + (totalMs % 1000)
    BY <1>2, Thousands
<1> HIDE DEF totalMs, totalSeconds
<1>4. f \in Fields /\ Millis(f) = totalMs
    BY <1>3, ClockFields DEF Fields, Millis
<1>5. 2 * 10 * Millis(f) - 2 * t \in -9..10
    BY <1>2, <1>4
<1>6. t % 100 = 0 => totalSeconds = t \div 10000
    BY WholeHundredths DEF totalSeconds, totalMs
<1> QED
    BY <1>1, <1>4, <1>5, <1>6
    DEF TimestampExact, FormatClock, PerMs, PerSecond

(***************************************************************************)
(* In particular those that are tried next to the carries, in any state.   *)
(***************************************************************************)
THEOREM TimestampsAreExact == Spec => []TimestampsExact
<1>1. TimestampsExact
    BY EveryTimestampExact, ExportAssumption DEF TimestampsExact
<1> QED
    BY <1>1, PTL DEF Spec

-----------------------------------------------------------------------------
(* What may be in the temporary directory at each call. *)
ScratchInv ==
    /\ stage \in {"probe", "normalize", "returned", "raised"} => files = {}
    /\ stage \in {"measure", "slice"} => files \subseteq {WholeFile}
    /\ stage \in {"infer", "unlink"} => files \subseteq {WholeFile, index}
    /\ stage \in Stage

(* Every call keeps to that. *)
LEMMA ScratchStep == ScratchInv /\ [Next]_pipelineVars => ScratchInv'
<1> SUFFICES ASSUME ScratchInv, [Next]_pipelineVars PROVE ScratchInv'
    OBVIOUS
<1> USE DEF ScratchInv, Stage
<1>1. CASE Raise
    BY <1>1 DEF Raise
<1>2. CASE Probe \/ Normalize
    BY <1>2 DEF Probe, Normalize
<1>3. CASE Measure
    BY <1>3 DEF Measure
<1>4. CASE SliceWav
    BY <1>4 DEF SliceWav
<1>5. CASE YieldSegment
    BY <1>5 DEF YieldSegment
<1>6. CASE MergeChunk
    BY <1>6 DEF MergeChunk
<1>7. CASE UnlinkChunk
    BY <1>7 DEF UnlinkChunk
<1>8. CASE Return
    BY <1>8 DEF Return
<1>9. CASE UNCHANGED pipelineVars
    BY <1>9 DEF pipelineVars
<1> QED
    BY <1>1, <1>2, <1>3, <1>4, <1>5, <1>6, <1>7, <1>8, <1>9 DEF Next

(***************************************************************************)
(* However long the audio and however many its chunks, there are at most   *)
(* the normalized file and one slice, and nothing when the thread is done. *)
(***************************************************************************)
THEOREM ScratchIsBounded == Spec => []ScratchBounded
<1>1. Init => ScratchInv
    BY DEF Init, ScratchInv, Stage
<1>2. ScratchInv => ScratchBounded
    <2> SUFFICES ASSUME ScratchInv PROVE ScratchBounded
        OBVIOUS
    <2>1. files \subseteq {WholeFile, index}
        BY DEF ScratchInv, Stage
    <2>2. IsFiniteSet({WholeFile}) /\ Cardinality({WholeFile}) = 1
        BY FS_Singleton
    <2>3. /\ IsFiniteSet({WholeFile} \cup {index})
          /\ Cardinality({WholeFile} \cup {index}) \in {1, 2}
        BY <2>2, FS_AddElement
    <2>4. IsFiniteSet(files) /\ Cardinality(files) <= 2
        <3>1. files \in SUBSET ({WholeFile} \cup {index})
            BY <2>1
        <3>2. /\ IsFiniteSet(files)
              /\ Cardinality(files) <= Cardinality({WholeFile} \cup {index})
            BY <2>3, <3>1, FS_Subset
        <3>3. Cardinality(files) \in Nat
            BY <3>2, FS_CardinalityType
        <3> QED
            BY <2>3, <3>2, <3>3
    <2> QED
        BY <2>4 DEF ScratchInv, ScratchBounded
<1> QED
    BY <1>1, <1>2, ScratchStep, PTL DEF Spec

-----------------------------------------------------------------------------
(* Numbers *)

(* Division, by a number that is not known. *)
LEMMA DivDef ==
    ASSUME NEW a \in Nat, NEW m \in Nat \ {0}
    PROVE  /\ a \div m \in Nat
           /\ m * (a \div m) <= a /\ a < m * (a \div m) + m
    OBVIOUS

(***************************************************************************)
(* A set of numbers that is not empty has a least one.  Induction in terms *)
(* of sets: the intervals from 0 to each of its numbers are finite sets,   *)
(* and finite sets are well founded under inclusion.                       *)
(***************************************************************************)
LEMMA LeastNumber ==
    ASSUME NEW S \in SUBSET Nat, S # {}
    PROVE  \E n \in S : \A m \in S : n <= m
<1> DEFINE T == {0..n : n \in S}
<1>1. T \subseteq FiniteSubsetsOf(Nat)
    <2>1. \A n \in S : IsFiniteSet(0..n)
        BY FS_Interval
    <2> QED
        BY <2>1 DEF FiniteSubsetsOf
<1>2. T # {}
    OBVIOUS
<1>3. PICK x \in T : \A y \in T : <<y, x>> \notin StrictSubsetOrdering(Nat)
    <2> HIDE DEF T
    <2> QED
        BY <1>1, <1>2, FS_StrictSubsetOrderingWellFounded, WFMin
<1>4. PICK n \in S : x = 0..n
    OBVIOUS
<1>5. ASSUME NEW m \in S, m < n PROVE FALSE
    <2>1. 0..m \subseteq 0..n /\ 0..m # 0..n
        <3>1. n \in 0..n /\ n \notin 0..m
            BY <1>5
        <3> QED
            BY <3>1, <1>5
    <2>2. <<0..m, 0..n>> \in StrictSubsetOrdering(Nat)
        BY <2>1 DEF StrictSubsetOrdering
    <2> QED
        BY <1>3, <1>4, <2>2
<1> QED
    BY <1>5

-----------------------------------------------------------------------------
(* The plan of chunks *)

(* The i-th chunk of a plan that starts at s, the chunks that begin within *)
(* the audio, and the plans they make from every start.                    *)
ChunkAt(s, d, i) ==
    [start |-> s + (i - 1) * ChunkSec, length |-> Lesser(ChunkSec, d - (s + (i - 1) * ChunkSec))]
Begun(s, d) == {i \in Nat \ {0} : s + (i - 1) * ChunkSec < d}
ClosedPlan(d) == [s \in Nat |-> [i \in Begun(s, d) |-> ChunkAt(s, d, i)]]

(* One unfolding of the recursion of PlanChunks. *)
Unfolded(f, d) ==
    [start \in Nat |->
        IF start < d
        THEN <<[start |-> start, length |-> Lesser(ChunkSec, d - start)]>>
                \o f[start + ChunkSec]
        ELSE <<>>]

(* Sets with the same elements are the same, *)
LEMMA SameSet ==
    ASSUME NEW D, NEW A, NEW B, A \subseteq D, B \subseteq D,
           \A x \in D : x \in A <=> x \in B
    PROVE  A = B
    OBVIOUS

(* and so are functions with the same values. *)
LEMMA SameFunction ==
    ASSUME NEW D, NEW f, NEW g,
           f = [x \in D |-> f[x]], g = [x \in D |-> g[x]],
           \A x \in D : f[x] = g[x]
    PROVE  f = g
    OBVIOUS

(* The multiples of the size of a chunk grow. *)
LEMMA Multiples ==
    ASSUME NEW n \in Nat
    PROVE  /\ n * ChunkSec \in Nat /\ n * ChunkSec >= n
           /\ (n + 1) * ChunkSec = n * ChunkSec + ChunkSec
           /\ \A m \in Nat : m <= n => m * ChunkSec <= n * ChunkSec
<1>0. ChunkSec \in Nat /\ ChunkSec >= 1
    BY PipelineAssumption
<1> QED
    BY <1>0

(* Only finitely many chunks are begun, the first ones. *)
LEMMA HowMany ==
    ASSUME NEW d \in Nat, NEW s \in Nat
    PROVE  \E n \in Nat : /\ Begun(s, d) = 1..n
                          /\ s + n * ChunkSec >= d
                          /\ s >= d <=> n = 0
<1> DEFINE Enough == {n \in Nat : s + n * ChunkSec >= d}
<1>1. d \in Enough
    BY Multiples
<1>2. PICK n \in Enough : \A m \in Enough : n <= m
    <2> HIDE DEF Enough
    <2>1. Enough # {}
        BY <1>1
    <2>2. Enough \subseteq Nat
        BY DEF Enough
    <2> QED
        BY <2>1, <2>2, LeastNumber
<1>3. n \in Nat /\ s + n * ChunkSec >= d
    OBVIOUS
<1>4. ASSUME NEW i \in Nat \ {0} PROVE i \in Begun(s, d) <=> i <= n
    <2>0. i - 1 \in Nat
        OBVIOUS
    <2>1. i - 1 \in Nat /\ (i - 1) * ChunkSec \in Nat
        BY <2>0, Multiples
    <2>2. CASE i <= n
        <3>1. i - 1 \notin Enough
            BY <1>2, <1>3, <2>1, <2>2
        <3> QED
            BY <2>1, <2>2, <3>1 DEF Begun
    <2>3. CASE i > n
        <3>1. n <= i - 1 /\ n * ChunkSec \in Nat
            BY <1>3, <2>3, Multiples
        <3>2. n * ChunkSec <= (i - 1) * ChunkSec
            BY <1>3, <2>1, <3>1, Multiples
        <3>3. s + (i - 1) * ChunkSec >= d
            <4> HIDE DEF Enough
            <4> QED
                BY <1>3, <2>1, <3>1, <3>2
        <3> QED
            BY <2>1, <2>3, <3>3 DEF Begun
    <2> QED
        BY <1>3, <2>2, <2>3
<1>5. Begun(s, d) = 1..n
    <2>1. Begun(s, d) \subseteq Nat \ {0}
        BY DEF Begun
    <2>2. 1..n \subseteq Nat \ {0} /\ \A i \in Nat \ {0} : i \in 1..n <=> i <= n
        BY <1>3
    <2> QED
        BY <1>4, <2>1, <2>2, SameSet
<1>6. s >= d <=> n = 0
    <2>1. 0 * ChunkSec = 0
        BY PipelineAssumption
    <2>2. s >= d => 0 \in Enough
        BY <2>1
    <2> QED
        BY <1>2, <1>3, <2>1, <2>2
<1> QED
    BY <1>3, <1>5, <1>6

(* The closed form does what the code does at every step. *)
LEMMA ClosedPlanUnfolds ==
    ASSUME NEW d \in Nat
    PROVE  ClosedPlan(d) = Unfolded(ClosedPlan(d), d)
<1> DEFINE g == ClosedPlan(d)
<1> SUFFICES ASSUME NEW s \in Nat
             PROVE  g[s] = Unfolded(g, d)[s]
    <2>1. g = [x \in Nat |-> g[x]]
        BY DEF ClosedPlan
    <2>2. Unfolded(g, d) = [x \in Nat |-> Unfolded(g, d)[x]]
        BY DEF Unfolded
    <2> QED
        BY <2>1, <2>2, SameFunction
<1>0. ChunkSec \in Nat /\ ChunkSec >= 1 /\ s + ChunkSec \in Nat
    BY PipelineAssumption
<1>1. CASE s >= d
    <2>1. Begun(s, d) = {}
        <3>1. PICK n \in Nat : Begun(s, d) = 1..n /\ (s >= d <=> n = 0)
            BY HowMany
        <3> QED
            BY <1>1, <3>1
    <2>2. g[s] = <<>>
        BY <2>1 DEF ClosedPlan
    <2> QED
        BY <1>1, <2>2 DEF Unfolded
<1>2. CASE s < d
    <2> DEFINE first == [start |-> s, length |-> Lesser(ChunkSec, d - s)]
    <2>1. PICK n \in Nat : Begun(s + ChunkSec, d) = 1..n
        BY <1>0, HowMany
    <2>2. Begun(s, d) = 1..(n + 1)
        <3>1. ASSUME NEW i \in Nat \ {0}
              PROVE  i \in Begun(s, d) <=> i = 1 \/ i - 1 \in Begun(s + ChunkSec, d)
            <4>1. CASE i = 1
                BY <1>0, <1>2, <4>1 DEF Begun
            <4>2. CASE i # 1
                <5>1. i - 1 \in Nat \ {0} /\ i - 2 \in Nat
                    BY <4>2
                <5>2. (i - 1) * ChunkSec = (i - 2) * ChunkSec + ChunkSec
                    BY <5>1, <1>0
                <5>3. (i - 2) * ChunkSec \in Nat
                    BY <5>1, <1>0
                <5>4. s + (i - 1) * ChunkSec = s + ChunkSec + (i - 2) * ChunkSec
                    BY <5>2, <5>3, <1>0
                <5>5. (i - 1) - 1 = i - 2
                    OBVIOUS
                <5> QED
                    BY <4>2, <5>1, <5>4, <5>5 DEF Begun
            <4> QED
                BY <4>1, <4>2
        <3>2. Begun(s, d) \subseteq Nat \ {0}
            BY DEF Begun
        <3>3. \A i \in Nat \ {0} : i \in Begun(s, d) <=> i \in 1..(n + 1)
            BY <2>1, <3>1
        <3>4. 1..(n + 1) \subseteq Nat \ {0}
            OBVIOUS
        <3> QED
            BY <3>2, <3>3, <3>4, SameSet
    <2>3. g[s + ChunkSec] = [i \in 1..n |-> ChunkAt(s + ChunkSec, d, i)]
        BY <1>0, <2>1 DEF ClosedPlan
    <2>4. g[s] = [i \in 1..(n + 1) |-> ChunkAt(s, d, i)]
        BY <2>2 DEF ClosedPlan
    <2>5. <<first>> \o g[s + ChunkSec] =
          [i \in 1..(n + 1) |-> IF i = 1 THEN first ELSE ChunkAt(s + ChunkSec, d, i - 1)]
        <3> DEFINE tail == [i \in 1..n |-> ChunkAt(s + ChunkSec, d, i)]
        <3> HIDE DEF first
        <3>1. tail \in Seq({ChunkAt(s + ChunkSec, d, i) : i \in 1..n}) /\ Len(tail) = n
            OBVIOUS
        <3>2. \A i \in 1..n : tail[i] = ChunkAt(s + ChunkSec, d, i)
            OBVIOUS
        <3> HIDE DEF tail
        <3>3. <<first>> \o tail = [i \in 1..(n + 1) |-> IF i = 1 THEN first ELSE tail[i - 1]]
            BY <3>1
        <3> QED
            BY <2>3, <3>2, <3>3 DEF tail
    <2>6. ChunkAt(s, d, 1) = first
        <3>1. s + (1 - 1) * ChunkSec = s
            BY <1>0
        <3> QED
            BY <3>1 DEF ChunkAt
    <2>7. ASSUME NEW i \in 2..(n + 1)
          PROVE  ChunkAt(s + ChunkSec, d, i - 1) = ChunkAt(s, d, i)
        <3>1. i - 2 \in Nat /\ (i - 1) - 1 = i - 2
            OBVIOUS
        <3>2. (i - 1) * ChunkSec = (i - 2) * ChunkSec + ChunkSec /\ (i - 2) * ChunkSec \in Nat
            BY <3>1, <1>0
        <3>3. s + ChunkSec + ((i - 1) - 1) * ChunkSec = s + (i - 1) * ChunkSec
            BY <3>1, <3>2, <1>0
        <3> QED
            BY <3>3 DEF ChunkAt
    <2>8. Unfolded(g, d)[s] = <<first>> \o g[s + ChunkSec]
        BY <1>2 DEF Unfolded
    <2>9. [i \in 1..(n + 1) |-> ChunkAt(s, d, i)] =
          [i \in 1..(n + 1) |-> IF i = 1 THEN first ELSE ChunkAt(s + ChunkSec, d, i - 1)]
        <3> HIDE DEF first
        <3>1. \A i \in 1..(n + 1) : i = 1 \/ i \in 2..(n + 1)
            OBVIOUS
        <3> QED
            BY <2>6, <2>7, <3>1
    <2> QED
        BY <2>4, <2>5, <2>8, <2>9, Zenon
<1> QED
    BY <1>1, <1>2

(* Only one function plans as the code does. *)
LEMMA OnePlan ==
    ASSUME NEW d \in Nat, NEW f, f = Unfolded(f, d), NEW g, g = Unfolded(g, d)
    PROVE  f[0] = g[0]
<1> DEFINE Bad == {k \in Nat : \E s \in Nat : d - s <= k /\ f[s] # g[s]}
<1>1. Bad = {}
    <2> SUFFICES ASSUME Bad # {} PROVE FALSE
        OBVIOUS
    <2>1. PICK k \in Bad : \A m \in Bad : k <= m
        <3>1. Bad \subseteq Nat
            OBVIOUS
        <3> HIDE DEF Bad
        <3> QED
            BY <3>1, LeastNumber
    <2>2. PICK s \in Nat : d - s <= k /\ f[s] # g[s]
        OBVIOUS
    <2>3. /\ f[s] = Unfolded(f, d)[s]
          /\ g[s] = Unfolded(g, d)[s]
        OBVIOUS
    <2>4. s < d
        <3>1. ~(s < d) => Unfolded(f, d)[s] = <<>> /\ Unfolded(g, d)[s] = <<>>
            BY DEF Unfolded
        <3> HIDE DEF Bad
        <3> QED
            BY <2>2, <2>3, <3>1
    <2>5. s + ChunkSec \in Nat /\ ChunkSec \in Nat \ {0}
        BY PipelineAssumption
    <2>6. f[s + ChunkSec] # g[s + ChunkSec]
        BY <2>2, <2>3, <2>4 DEF Unfolded
    <2>7. k - 1 \in Nat /\ d - (s + ChunkSec) <= k - 1
        BY <2>2, <2>4, <2>5
    <2>8. k - 1 \in Bad
        BY <2>5, <2>6, <2>7
    <2> QED
        <3>1. k \in Nat
            OBVIOUS
        <3> HIDE DEF Bad
        <3> QED
            BY <2>1, <2>8, <3>1
<1>2. d \notin Bad
    BY <1>1
<1> QED
    BY <1>2

(* What plan_chunks returns: every chunk is a full one but the last. *)
LEMMA ThePlan ==
    ASSUME NEW d \in Nat
    PROVE  \E n \in Nat : /\ PlanChunks(d) = [i \in 1..n |-> ChunkAt(0, d, i)]
                          /\ n * ChunkSec >= d
                          /\ \A i \in 1..n : (i - 1) * ChunkSec < d
                          /\ d = 0 <=> n = 0
<1> DEFINE f == CHOOSE plan : plan = Unfolded(plan, d)
<1>1. PlanChunks(d) = f[0]
    BY DEF PlanChunks, Unfolded
<1>2. f = Unfolded(f, d)
    BY ClosedPlanUnfolds
<1>3. PlanChunks(d) = ClosedPlan(d)[0]
    <2> HIDE DEF f
    <2> QED
        BY <1>1, <1>2, ClosedPlanUnfolds, OnePlan
<1>4. PICK n \in Nat : /\ Begun(0, d) = 1..n
                       /\ 0 + n * ChunkSec >= d
                       /\ 0 >= d <=> n = 0
    BY HowMany
<1>5. PlanChunks(d) = [i \in 1..n |-> ChunkAt(0, d, i)]
    BY <1>3, <1>4 DEF ClosedPlan
<1>6. n * ChunkSec >= d /\ (d = 0 <=> n = 0)
    <2>1. n * ChunkSec \in Nat
        BY Multiples
    <2> QED
        BY <1>4, <2>1
<1>7. \A i \in 1..n : (i - 1) * ChunkSec < d
    <2> TAKE i \in 1..n
    <2>1. i \in Begun(0, d)
        BY <1>4
    <2>2. (i - 1) * ChunkSec \in Nat
        BY Multiples
    <2> QED
        BY <2>1, <2>2 DEF Begun
<1> QED
    BY <1>5, <1>6, <1>7

Chunk == [start : Nat, length : Nat]

(* A plan that covers audio of length d, as ChunksTile has it. *)
Tiling(plan, d) ==
    /\ plan \in Seq(Chunk) /\ Len(plan) >= 1
    /\ plan[1].start = 0
    /\ \A i \in 1..(Len(plan) - 1) : plan[i].start + plan[i].length = plan[i + 1].start
    /\ plan[Len(plan)].start + plan[Len(plan)].length = d
    /\ \A i \in 1..Len(plan) : plan[i].start + plan[i].length <= d
    /\ Len(plan) > 1 => \A i \in 1..Len(plan) : plan[i].length \in 1..ChunkSec

(* So a plan leaves nothing out and nothing over. *)
LEMMA PlanTiles ==
    ASSUME NEW d \in Nat, d > 0
    PROVE  Tiling(PlanChunks(d), d)
<1> DEFINE plan == PlanChunks(d)
<1>1. PICK n \in Nat : /\ plan = [i \in 1..n |-> ChunkAt(0, d, i)]
                       /\ n * ChunkSec >= d
                       /\ \A i \in 1..n : (i - 1) * ChunkSec < d
                       /\ d = 0 <=> n = 0
    BY ThePlan
<1> HIDE DEF plan
<1>2. n \in Nat \ {0} /\ ChunkSec \in Nat \ {0}
    BY <1>1, PipelineAssumption
<1>3. ASSUME NEW i \in 1..n
      PROVE  /\ (i - 1) * ChunkSec \in Nat /\ (i - 1) * ChunkSec < d
             /\ plan[i].start = (i - 1) * ChunkSec
             /\ plan[i].length = Lesser(ChunkSec, d - (i - 1) * ChunkSec)
             /\ plan[i].length \in 1..ChunkSec
             /\ plan[i] \in Chunk
    <2>0. i - 1 \in Nat
        BY <1>2
    <2>1. (i - 1) * ChunkSec \in Nat /\ (i - 1) * ChunkSec < d
        BY <1>1, <2>0, Multiples
    <2>2. 0 + (i - 1) * ChunkSec = (i - 1) * ChunkSec
        BY <2>1
    <2>3. plan[i] = [start |-> (i - 1) * ChunkSec,
                     length |-> Lesser(ChunkSec, d - (i - 1) * ChunkSec)]
        BY <1>1, <2>2, Zenon DEF ChunkAt
    <2>4. Lesser(ChunkSec, d - (i - 1) * ChunkSec) \in 1..ChunkSec
        BY <1>2, <2>1 DEF Lesser
    <2> QED
        BY <1>2, <2>1, <2>3, <2>4 DEF Chunk
<1>4. Len(plan) = n /\ plan \in Seq(Chunk)
    <2>1. DOMAIN plan = 1..n /\ plan = [i \in 1..n |-> plan[i]]
        BY <1>1
    <2>2. plan \in [1..n -> Chunk]
        BY <1>3, <2>1
    <2> QED
        BY <1>2, <2>2
<1>5. plan[1].start = 0
    <2>1. 1 \in 1..n /\ (1 - 1) * ChunkSec = 0
        BY <1>2
    <2> QED
        BY <1>3, <2>1
<1>6. ASSUME NEW i \in 1..(n - 1)
      PROVE  plan[i].start + plan[i].length = plan[i + 1].start
    <2>1. i \in 1..n /\ i + 1 \in 1..n /\ (i + 1) - 1 = i /\ i - 1 \in Nat /\ (i - 1) + 1 = i
        BY <1>2
    <2>2. i * ChunkSec = (i - 1) * ChunkSec + ChunkSec
        BY <2>1, Multiples
    <2>3. (i - 1) * ChunkSec \in Nat /\ i * ChunkSec < d /\ plan[i + 1].start = i * ChunkSec
        BY <2>1, <1>3
    <2>4. Lesser(ChunkSec, d - (i - 1) * ChunkSec) = ChunkSec
        BY <1>2, <2>2, <2>3 DEF Lesser
    <2> QED
        BY <1>3, <2>1, <2>2, <2>3, <2>4
<1>7. plan[n].start + plan[n].length = d
    <2>1. n \in 1..n /\ n - 1 \in Nat /\ (n - 1) + 1 = n
        BY <1>2
    <2>2. n * ChunkSec = (n - 1) * ChunkSec + ChunkSec
        BY <2>1, Multiples
    <2>3. (n - 1) * ChunkSec \in Nat /\ (n - 1) * ChunkSec < d
        BY <2>1, <1>3
    <2>4. Lesser(ChunkSec, d - (n - 1) * ChunkSec) = d - (n - 1) * ChunkSec
        BY <1>1, <1>2, <2>2, <2>3 DEF Lesser
    <2> QED
        BY <1>3, <2>1, <2>3, <2>4
<1>8. ASSUME NEW i \in 1..n PROVE plan[i].start + plan[i].length <= d
    <2>1. Lesser(ChunkSec, d - (i - 1) * ChunkSec) <= d - (i - 1) * ChunkSec
        BY <1>2, <1>3 DEF Lesser
    <2> QED
        BY <1>3, <2>1
<1>9. Tiling(plan, d)
    <2>1. \A i \in 1..n : plan[i].length \in 1..ChunkSec
        BY <1>3
    <2> QED
        BY <1>2, <1>4, <1>5, <1>6, <1>7, <1>8, <2>1 DEF Tiling
<1> QED
    BY <1>9 DEF plan

(* Audio that is not cut. *)
LEMMA OneChunkTiles ==
    ASSUME NEW d \in Nat
    PROVE  Tiling(<<[start |-> 0, length |-> d]>>, d)
<1> DEFINE plan == <<[start |-> 0, length |-> d]>>
<1>1. plan \in Seq(Chunk) /\ Len(plan) = 1 /\ plan[1].start = 0 /\ plan[1].length = d
    BY DEF Chunk
<1> HIDE DEF plan
<1>2. Tiling(plan, d)
    <2>1. \A i \in 1..Len(plan) : i = 1
        BY <1>1
    <2>2. \A i \in 1..(Len(plan) - 1) : FALSE
        BY <1>1
    <2> QED
        BY <1>1, <2>1, <2>2 DEF Tiling
<1> QED
    BY <1>2 DEF plan

(* The plan that Measure makes, either way. *)
LEMMA MeasuredPlanTiles ==
    ASSUME NEW d \in Nat
    PROVE  Tiling(IF d > ChunkThreshold THEN PlanChunks(d) ELSE <<[start |-> 0, length |-> d]>>, d)
<1>1. d > ChunkThreshold => d > 0
    BY PipelineAssumption
<1> QED
    BY <1>1, PlanTiles, OneChunkTiles

-----------------------------------------------------------------------------
(* The functions on segments *)

(* The times of a segment are numbers. *)
LEMMA SegmentTimes ==
    ASSUME NEW raw \in Seq(RawSegment), NEW i \in 1..Len(raw)
    PROVE  raw[i].start \in Nat /\ raw[i].end \in Nat
<1>1. raw[i] \in RawSegment
    OBVIOUS
<1> QED
    BY <1>1 DEF RawSegment

(* Shifted segments are as many, and each is shifted. *)
LEMMA Offset ==
    ASSUME NEW raw \in Seq(RawSegment), NEW offset \in Nat
    PROVE  /\ OffsetSegments(raw, offset) \in Seq(RawSegment)
           /\ Len(OffsetSegments(raw, offset)) = Len(raw)
           /\ \A i \in 1..Len(raw) :
                 /\ OffsetSegments(raw, offset)[i].start = raw[i].start + offset
                 /\ OffsetSegments(raw, offset)[i].end = raw[i].end + offset
<1> DEFINE s == OffsetSegments(raw, offset)
<1>1. DOMAIN raw = 1..Len(raw) /\ Len(raw) \in Nat /\ \A i \in 1..Len(raw) : raw[i] \in RawSegment
    OBVIOUS
<1>2. s = [i \in 1..Len(raw) |-> [start |-> raw[i].start + offset,
                                   end |-> raw[i].end + offset]]
    BY <1>1 DEF OffsetSegments
<1>3. ASSUME NEW i \in 1..Len(raw)
      PROVE  [start |-> raw[i].start + offset, end |-> raw[i].end + offset] \in RawSegment
    <2>1. raw[i].start \in Nat /\ raw[i].end \in Nat
        BY SegmentTimes
    <2>2. \A a \in Nat : a + offset \in Nat
        OBVIOUS
    <2>3. raw[i].start + offset \in Nat /\ raw[i].end + offset \in Nat
        BY <2>1, <2>2, Zenon
    <2> QED
        BY <2>3 DEF RawSegment
<1> HIDE DEF s
<1>4. s \in [1..Len(raw) -> RawSegment]
    BY <1>2, <1>3
<1>5. s \in Seq(RawSegment) /\ Len(s) = Len(raw)
    BY <1>1, <1>4
<1> QED
    BY <1>2, <1>5 DEF s

(* A time rounded to a hundredth is right to half of one. *)
LEMMA RoundedExact ==
    ASSUME NEW t \in Nat
    PROVE  /\ Rounded(t) \in Nat
           /\ 2 * (Tick * Rounded(t) - t) \in -Tick..Tick
<1> DEFINE r == (2 * t + Tick) \div (2 * Tick)
<1>1. Tick \in Nat \ {0} /\ 2 * Tick \in Nat \ {0} /\ 2 * t + Tick \in Nat
    BY PipelineAssumption
<1>2. r \in Nat /\ (2 * Tick) * r <= 2 * t + Tick /\ 2 * t + Tick < (2 * Tick) * r + 2 * Tick
    BY <1>1, DivDef
<1> HIDE DEF r
<1>3. Tick * r \in Nat /\ (2 * Tick) * r = 2 * (Tick * r)
    BY <1>1, <1>2
<1>4. 2 * (Tick * r - t) \in -Tick..Tick
    <2> DEFINE p == Tick * r
    <2>1. p \in Nat /\ 2 * p <= 2 * t + Tick /\ 2 * t + Tick < 2 * p + 2 * Tick
        BY <1>2, <1>3
    <2> HIDE DEF p
    <2>2. 2 * (p - t) \in -Tick..Tick
        BY <1>1, <2>1
    <2> QED
        BY <2>2 DEF p
<1> QED
    BY <1>2, <1>4 DEF r, Rounded

(* The first half of it alone. *)
LEMMA RoundedType == \A t \in Nat : Rounded(t) \in Nat
    BY RoundedExact

(* What comes first is not rounded past what comes later. *)
LEMMA RoundedMonotone ==
    ASSUME NEW t \in Nat, NEW u \in Nat, t <= u
    PROVE  Rounded(t) <= Rounded(u)
<1> DEFINE m == 2 * Tick
           a == 2 * t + Tick
           b == 2 * u + Tick
<1>1. m \in Nat \ {0} /\ a \in Nat /\ b \in Nat /\ a <= b
    BY PipelineAssumption
<1> HIDE DEF m, a, b
<1>2. /\ a \div m \in Nat /\ m * (a \div m) <= a
      /\ b \div m \in Nat /\ b < m * (b \div m) + m
    BY <1>1, DivDef
<1> DEFINE q == a \div m
           r == b \div m
<1> HIDE DEF q, r
<1>3. q \in Nat /\ r \in Nat /\ m * q < m * r + m
    <2>1. q \in Nat /\ r \in Nat
        BY <1>2 DEF q, r
    <2>2. m * q \in Nat /\ m * r \in Nat
        BY <1>1, <2>1
    <2> QED
        BY <1>1, <1>2, <2>1, <2>2 DEF q, r
<1>4. q <= r
    <2> SUFFICES ASSUME q >= r + 1 PROVE FALSE
        BY <1>3
    <2>1. m * (r + 1) <= m * q
        BY <1>1, <1>3
    <2>2. m * (r + 1) = m * r + m
        BY <1>1, <1>3
    <2> QED
        BY <1>1, <1>3, <2>1, <2>2
<1> QED
    BY <1>4 DEF q, r, a, b, m, Rounded

(* What the transcript keeps of a segment. *)
TranscriptSegment == [id : Nat, start : Nat, end : Nat]

(* The transcript has every segment, numbered and rounded. *)
LEMMA Shape ==
    ASSUME NEW raw \in Seq(RawSegment)
    PROVE  /\ ShapeSegments(raw) \in Seq(TranscriptSegment)
           /\ Len(ShapeSegments(raw)) = Len(raw)
           /\ \A i \in 1..Len(raw) :
                 ShapeSegments(raw)[i] = [id |-> i - 1, start |-> Rounded(raw[i].start),
                                          end |-> Rounded(raw[i].end)]
<1> DEFINE s == ShapeSegments(raw)
           seg(i) == [id |-> i - 1, start |-> Rounded(raw[i].start), end |-> Rounded(raw[i].end)]
<1>1. DOMAIN raw = 1..Len(raw) /\ Len(raw) \in Nat
    OBVIOUS
<1>2. s = [i \in 1..Len(raw) |-> seg(i)]
    BY <1>1 DEF ShapeSegments
<1>3. ASSUME NEW i \in 1..Len(raw) PROVE seg(i) \in TranscriptSegment
    <2>1. raw[i].start \in Nat /\ raw[i].end \in Nat
        <3>1. raw[i] \in RawSegment
            OBVIOUS
        <3> QED
            BY <3>1 DEF RawSegment
    <2>2. Rounded(raw[i].start) \in Nat /\ Rounded(raw[i].end) \in Nat
        BY <2>1, RoundedType, Zenon
    <2>4. i - 1 \in Nat
        BY <1>1
    <2>3. \A a, b, c \in Nat : [id |-> a, start |-> b, end |-> c] \in TranscriptSegment
        BY DEF TranscriptSegment
    <2> QED
        BY <2>2, <2>3, <2>4, Zenon
<1> HIDE DEF s, seg
<1>4. s \in [1..Len(raw) -> TranscriptSegment]
    BY <1>2, <1>3
<1>5. s \in Seq(TranscriptSegment) /\ Len(s) = Len(raw)
    BY <1>1, <1>4
<1> QED
    BY <1>2, <1>5 DEF s, seg

(* One sequence behind another. *)
LEMMA Joined ==
    ASSUME NEW S, NEW s \in Seq(S), NEW t \in Seq(S)
    PROVE  /\ s \o t \in Seq(S) /\ Len(s \o t) = Len(s) + Len(t)
           /\ \A i \in 1..(Len(s) + Len(t)) :
                 \/ i \in 1..Len(s) /\ (s \o t)[i] = s[i]
                 \/ i - Len(s) \in 1..Len(t) /\ (s \o t)[i] = t[i - Len(s)]
    OBVIOUS

-----------------------------------------------------------------------------
(* The inductive invariant *)

Early == stage \in {"probe", "normalize", "measure"}
Planned == stage \in {"slice", "infer", "unlink", "returned"}

(* Nothing is there before the plan, *)
EarlyInv ==
    Early => /\ index = 1 /\ chunks = <<>> /\ found = <<>> /\ merged = <<>> /\ reports = <<>>
             /\ lastReported = [num |-> 0, den |-> 1]

(* and after it the plan covers the audio. *)
PlanInv == Planned => Tiling(chunks, duration) /\ index \in 1..Len(chunks)

(* Segments in order, and in audio of some length. *)
Ascending(segments) ==
    \A i, k \in 1..Len(segments) : i <= k => segments[i].start <= segments[k].start

Within(segments, length) ==
    \A i \in 1..Len(segments) :
        /\ segments[i].start <= length
        /\ segments[i].start <= segments[i].end
        /\ segments[i].end <= length + Overshoot

(* What was found lies in the chunk under way, *)
FoundInv == Planned => Ascending(found) /\ Within(found, chunks[index].length)

(* and what was merged in the audio, up to where the time line is filled. *)
Reached ==
    IF stage \in {"slice", "infer"}
    THEN chunks[index].start ELSE chunks[index].start + chunks[index].length

MergedInv == Planned => /\ Ascending(merged) /\ Within(merged, duration)
                        /\ \A i \in 1..Len(merged) : merged[i].start <= Reached

(* There is a transcript at the end only, of all that was merged. *)
ShapedInv == IF stage = "returned" THEN transcript = ShapeSegments(merged) ELSE transcript = <<>>

(* The last report rounds what is remembered, which has paid for all that  *)
(* were made.                                                              *)
ProgressInv ==
    /\ ProgressHonest
    /\ reports # <<>> => reports[Len(reports)] \in Percents(lastReported)
    /\ lastReported.num <= lastReported.den
    /\ Len(reports) * lastReported.den <= lastReported.num * ReportSteps

(* The inductive invariant. *)
PipelineInv ==
    /\ PipelineTypeOK /\ ScratchInv
    /\ EarlyInv /\ PlanInv /\ FoundInv /\ MergedInv /\ ShapedInv /\ ProgressInv

-----------------------------------------------------------------------------
(* The types that the steps need. *)
LEMMA Types ==
    ASSUME PipelineTypeOK
    PROVE  /\ chunks \in Seq(Chunk) /\ found \in Seq(RawSegment) /\ merged \in Seq(RawSegment)
           /\ reports \in Seq(0..100) /\ lastReported \in Fraction
           /\ duration \in Nat /\ stage \in Stage
    BY PipelineAssumption DEF PipelineTypeOK, Chunk

(* What a chunk of a plan is like. *)
LEMMA PlannedChunk ==
    ASSUME PipelineTypeOK, PlanInv, Planned
    PROVE  /\ index \in Nat \ {0} /\ Len(chunks) \in Nat \ {0} /\ index <= Len(chunks)
           /\ chunks[index] \in Chunk
           /\ chunks[index].start \in Nat /\ chunks[index].length \in Nat
           /\ chunks[index].start + chunks[index].length <= duration
           /\ DOMAIN chunks = 1..Len(chunks)
<1>1. Tiling(chunks, duration) /\ index \in 1..Len(chunks)
    BY DEF PlanInv
<1>2. chunks \in Seq(Chunk)
    BY <1>1 DEF Tiling
<1>3. chunks[index] \in Chunk /\ Len(chunks) \in Nat /\ DOMAIN chunks = 1..Len(chunks)
    BY <1>1, <1>2
<1>4. chunks[index].start \in Nat /\ chunks[index].length \in Nat
    BY <1>3 DEF Chunk
<1>5. chunks[index].start + chunks[index].length <= duration
    BY <1>1 DEF Tiling
<1> QED
    BY <1>1, <1>3, <1>4, <1>5

(* Before the plan, and the plan *)
LEMMA EarlyStep == EarlyInv /\ [Next]_pipelineVars => EarlyInv'
<1> SUFFICES ASSUME EarlyInv, [Next]_pipelineVars PROVE EarlyInv'
    OBVIOUS
<1>1. CASE Early'
    <2>1. Early /\ UNCHANGED <<index, chunks, found, merged, reports, lastReported>>
        BY <1>1 DEF Early, Next, Raise, Probe, Normalize, Measure, SliceWav, YieldSegment,
           MergeChunk, UnlinkChunk, Return, pipelineVars
    <2> QED
        BY <2>1 DEF EarlyInv
<1> QED
    BY <1>1 DEF EarlyInv

(* The plan is made by Measure and never changes. *)
LEMMA PlanStep == PipelineTypeOK /\ PlanInv /\ EarlyInv /\ [Next]_pipelineVars => PlanInv'
<1> SUFFICES ASSUME PipelineTypeOK, PlanInv, EarlyInv, [Next]_pipelineVars, Planned'
             PROVE  PlanInv'
    BY DEF PlanInv
<1>1. CASE Measure
    <2>1. duration' \in Nat
        BY <1>1, PipelineAssumption DEF Measure
    <2>2. Tiling(chunks', duration')
        BY <1>1, <2>1, MeasuredPlanTiles, Zenon DEF Measure
    <2>3. index' = 1
        BY <1>1 DEF Measure, EarlyInv, Early
    <2>4. 1 \in 1..Len(chunks')
        BY <2>2 DEF Tiling
    <2> QED
        BY <2>2, <2>3, <2>4 DEF PlanInv, Tiling
<1>2. CASE UnlinkChunk
    <2>1. Planned
        BY <1>2 DEF UnlinkChunk, Planned
    <2>2. index' \in 1..Len(chunks) /\ UNCHANGED <<chunks, duration>>
        BY <1>2, <2>1, PlannedChunk DEF UnlinkChunk
    <2> QED
        BY <2>1, <2>2 DEF PlanInv, Tiling
<1>3. CASE Planned /\ UNCHANGED <<chunks, duration, index>>
    BY <1>3 DEF PlanInv, Tiling
<1> QED
    BY <1>1, <1>2, <1>3
    DEF Planned, Next, Raise, Probe, Normalize, SliceWav, YieldSegment, MergeChunk, Return,
        pipelineVars

(* The segments of the chunk under way *)
LEMMA FoundStep ==
    PipelineTypeOK /\ EarlyInv /\ PlanInv /\ FoundInv /\ [Next]_pipelineVars => FoundInv'
<1> SUFFICES ASSUME PipelineTypeOK, EarlyInv, PlanInv, FoundInv, [Next]_pipelineVars, Planned'
             PROVE  FoundInv'
    BY DEF FoundInv
<1>1. CASE Measure \/ UnlinkChunk
    <2>1. found' = <<>>
        BY <1>1 DEF Measure, UnlinkChunk, EarlyInv, Early
    <2>2. \A i \in 1..Len(<<>>) : FALSE
        OBVIOUS
    <2> QED
        BY <2>1, <2>2, Zenon DEF FoundInv, Ascending, Within
<1>2. CASE YieldSegment
    <2>1. Planned
        BY <1>2 DEF YieldSegment, Planned
    <2> DEFINE length == chunks[index].length
               first == IF found = <<>> THEN 0 ELSE found[Len(found)].start
               n == Len(found)
    <2>2. length \in Nat /\ found \in Seq(RawSegment) /\ Overshoot \in Nat
        BY <2>1, PlannedChunk, Types, PipelineAssumption
    <2>3. Ascending(found) /\ Within(found, length)
        BY <2>1 DEF FoundInv
    <2>20. PICK start \in first..length : \E end \in start..(length + Overshoot) :
             found' = Append(found, [start |-> start, end |-> end])
        BY <1>2, Zenon DEF YieldSegment
    <2>4. PICK end \in start..(length + Overshoot) :
             found' = Append(found, [start |-> start, end |-> end])
        BY <2>20
    <2>5. UNCHANGED <<chunks, index>>
        BY <1>2 DEF YieldSegment
    <2>6. n \in Nat /\ Len(found') = n + 1
        BY <2>2, <2>4
    <2>7. /\ \A i \in 1..n : found'[i] = found[i] /\ found[i] \in RawSegment
          /\ found'[n + 1] = [start |-> start, end |-> end]
        BY <2>2, <2>4
    <2>8. \A i \in 1..n : found[i].start \in Nat /\ found[i].start <= first
        <3> SUFFICES ASSUME NEW i \in 1..n
                     PROVE  found[i].start \in Nat /\ found[i].start <= first
            OBVIOUS
        <3>1. n \in 1..n /\ i <= n /\ found # <<>>
            BY <2>2, <2>6
        <3> QED
            BY <2>3, <2>7, <3>1 DEF Ascending, RawSegment
    <2>9. first \in Nat
        <3>1. CASE found = <<>>
            BY <3>1
        <3>2. CASE found # <<>>
            <4>1. n \in 1..n
                BY <2>2, <3>2
            <4> QED
                BY <2>8, <3>2, <4>1
        <3> QED
            BY <3>1, <3>2
    <2> HIDE DEF first, length, n
    <2>10. start \in Nat /\ end \in Nat /\ first <= start /\ start <= length
           /\ start <= end /\ end <= length + Overshoot
        BY <2>2, <2>9
    <2>11. Ascending(found')
        <3> SUFFICES ASSUME NEW i \in 1..(n + 1), NEW k \in 1..(n + 1), i <= k
                     PROVE  found'[i].start <= found'[k].start
            BY <2>6 DEF Ascending
        <3>1. CASE k \in 1..n
            <4>1. i \in 1..n
                BY <2>6, <3>1
            <4> QED
                BY <2>3, <2>7, <3>1, <4>1 DEF Ascending, n
        <3>2. CASE k = n + 1 /\ i \in 1..n
            <4>1. found'[k].start = start /\ found'[i].start = found[i].start
                BY <2>7, <3>2
            <4> QED
                BY <2>8, <2>9, <2>10, <3>2, <4>1
        <3>3. CASE k = n + 1 /\ i = n + 1
            BY <2>7, <2>10, <3>3
        <3> QED
            BY <2>6, <3>1, <3>2, <3>3
    <2>12. Within(found', length)
        <3> SUFFICES ASSUME NEW i \in 1..(n + 1)
                     PROVE  /\ found'[i].start <= length
                            /\ found'[i].start <= found'[i].end
                            /\ found'[i].end <= length + Overshoot
            BY <2>6 DEF Within
        <3>1. CASE i \in 1..n
            BY <2>3, <2>7, <3>1 DEF Within, n
        <3>2. CASE i = n + 1
            BY <2>7, <2>10, <3>2
        <3> QED
            BY <2>6, <3>1, <3>2
    <2> QED
        BY <2>5, <2>11, <2>12 DEF FoundInv, length
<1>3. CASE Planned /\ UNCHANGED <<found, chunks, index>>
    BY <1>3 DEF FoundInv, Ascending, Within
<1> QED
    BY <1>1, <1>2, <1>3
    DEF Planned, Next, Raise, Probe, Normalize, SliceWav, MergeChunk, Return, pipelineVars

(* The time line *)
LEMMA MergedStep ==
    /\ PipelineTypeOK /\ EarlyInv /\ PlanInv /\ FoundInv /\ MergedInv
    /\ [Next]_pipelineVars
    => MergedInv'
<1> SUFFICES ASSUME PipelineTypeOK, EarlyInv, PlanInv, FoundInv, MergedInv,
                    [Next]_pipelineVars, Planned'
             PROVE  MergedInv'
    BY DEF MergedInv
<1>1. CASE Measure
    <2>1. merged' = <<>>
        BY <1>1 DEF Measure, EarlyInv, Early
    <2>2. \A i \in 1..Len(<<>>) : FALSE
        OBVIOUS
    <2> QED
        BY <2>1, <2>2, Zenon DEF MergedInv, Ascending, Within
<1>2. CASE MergeChunk
    <2>1. Planned /\ Reached = chunks[index].start
        BY <1>2 DEF MergeChunk, Planned, Reached
    <2> DEFINE o == chunks[index].start
               length == chunks[index].length
               t == OffsetSegments(found, o)
               m == Len(merged)
               n == Len(found)
    <2>2. /\ o \in Nat /\ length \in Nat /\ o + length <= duration /\ duration \in Nat
          /\ Overshoot \in Nat
        BY <2>1, PlannedChunk, Types, PipelineAssumption
    <2>3. merged \in Seq(RawSegment) /\ found \in Seq(RawSegment) /\ m \in Nat /\ n \in Nat
        BY Types
    <2>4. /\ t \in Seq(RawSegment) /\ Len(t) = n
          /\ \A i \in 1..n : t[i].start = found[i].start + o /\ t[i].end = found[i].end + o
        BY <2>2, <2>3, Offset
    <2>5. merged' = merged \o t
        BY <1>2 DEF MergeChunk
    <2>6. Reached' = o + length /\ duration' = duration
        BY <1>2 DEF MergeChunk, Reached
    <2> HIDE DEF t
    <2>7. /\ Len(merged') = m + n
          /\ \A i \in 1..(m + n) : \/ i \in 1..m /\ merged'[i] = merged[i]
                                   \/ i - m \in 1..n /\ merged'[i] = t[i - m]
        <3>1. /\ Len(merged \o t) = Len(merged) + Len(t)
              /\ \A i \in 1..(Len(merged) + Len(t)) :
                    \/ i \in 1..Len(merged) /\ (merged \o t)[i] = merged[i]
                    \/ i - Len(merged) \in 1..Len(t) /\ (merged \o t)[i] = t[i - Len(merged)]
            <4> HIDE DEF m, n
            <4> QED
                BY <2>3, <2>4, Joined
        <3> QED
            BY <2>4, <2>5, <3>1, Zenon
    <2>8. \A i \in 1..m : merged[i].start \in Nat /\ merged[i].end \in Nat
        BY <2>3, SegmentTimes
    <2>9. \A i \in 1..n : found[i].start \in Nat /\ found[i].end \in Nat
        BY <2>3, SegmentTimes
    <2>10. /\ Ascending(merged) /\ Within(merged, duration)
           /\ \A i \in 1..m : merged[i].start <= o
        BY <2>1 DEF MergedInv
    <2>11. Ascending(found) /\ Within(found, length)
        BY <2>1 DEF FoundInv
    <2> HIDE DEF o, length, m, n
    <2>12. ASSUME NEW i \in 1..(m + n)
           PROVE  /\ merged'[i].start <= o + length
                  /\ merged'[i].start <= duration
                  /\ merged'[i].start <= merged'[i].end
                  /\ merged'[i].end <= duration + Overshoot
        <3>1. CASE i \in 1..m /\ merged'[i] = merged[i]
            BY <2>2, <2>8, <2>10, <3>1 DEF Within, m
        <3>2. CASE i - m \in 1..n /\ merged'[i] = t[i - m]
            <4> DEFINE j == i - m
            <4>1. j \in 1..n /\ merged'[i].start = found[j].start + o
                  /\ merged'[i].end = found[j].end + o
                BY <2>4, <3>2
            <4>2. /\ found[j].start \in Nat /\ found[j].end \in Nat
                  /\ found[j].start <= length /\ found[j].start <= found[j].end
                  /\ found[j].end <= length + Overshoot
                BY <2>9, <2>11, <4>1 DEF Within, n
            <4> HIDE DEF j
            <4> QED
                BY <2>2, <4>1, <4>2
        <3> QED
            BY <2>7, <3>1, <3>2
    <2>13. ASSUME NEW i \in 1..(m + n), NEW k \in 1..(m + n), i <= k
           PROVE  merged'[i].start <= merged'[k].start
        <3>1. CASE i \in 1..m /\ merged'[i] = merged[i] /\ k \in 1..m /\ merged'[k] = merged[k]
            BY <2>10, <2>13, <3>1 DEF Ascending, m
        <3>2. CASE i \in 1..m /\ merged'[i] = merged[i] /\ k - m \in 1..n /\ merged'[k] = t[k - m]
            <4> DEFINE j == k - m
            <4>1. merged'[k].start = found[j].start + o /\ found[j].start \in Nat
                BY <2>4, <2>9, <3>2
            <4>2. merged[i].start \in Nat /\ merged[i].start <= o
                BY <2>8, <2>10, <3>2
            <4> HIDE DEF j
            <4> QED
                BY <2>2, <3>2, <4>1, <4>2
        <3>3. CASE i - m \in 1..n /\ merged'[i] = t[i - m] /\ k - m \in 1..n /\ merged'[k] = t[k - m]
            <4> DEFINE j == i - m
                       l == k - m
            <4>1. /\ merged'[i].start = found[j].start + o /\ found[j].start \in Nat
                  /\ merged'[k].start = found[l].start + o /\ found[l].start \in Nat
                BY <2>4, <2>9, <3>3
            <4>2. j \in 1..n /\ l \in 1..n /\ j <= l
                BY <2>3, <2>13, <3>3 DEF m
            <4>3. found[j].start <= found[l].start
                BY <2>11, <4>2 DEF Ascending, n
            <4> HIDE DEF j, l
            <4> QED
                BY <2>2, <4>1, <4>3
        <3>4. ~(i - m \in 1..n /\ k \in 1..m)
            BY <2>3, <2>13 DEF m, n
        <3> QED
            BY <2>7, <3>1, <3>2, <3>3, <3>4
    <2>14. Ascending(merged') /\ Within(merged', duration')
        BY <2>6, <2>7, <2>12, <2>13 DEF Ascending, Within
    <2> QED
        BY <2>6, <2>7, <2>12, <2>14 DEF MergedInv
<1>3. CASE UnlinkChunk
    <2>1. Planned /\ Reached = chunks[index].start + chunks[index].length /\ Tiling(chunks, duration)
        BY <1>3 DEF UnlinkChunk, Planned, Reached, PlanInv
    <2>2. index \in 1..(Len(chunks) - 1)
        BY <1>3, <2>1, PlannedChunk DEF UnlinkChunk
    <2>3. Reached' = chunks[index + 1].start
        BY <1>3 DEF UnlinkChunk, Reached
    <2>4. Reached' = Reached
        BY <2>1, <2>2, <2>3 DEF Tiling
    <2>5. UNCHANGED <<merged, duration>>
        BY <1>3 DEF UnlinkChunk
    <2> QED
        BY <2>1, <2>4, <2>5 DEF MergedInv, Ascending, Within
<1>4. CASE Planned /\ UNCHANGED <<merged, duration, Reached>>
    BY <1>4 DEF MergedInv, Ascending, Within
<1>5. CASE SliceWav \/ YieldSegment \/ Return \/ UNCHANGED pipelineVars
    <2>1. Planned /\ UNCHANGED <<merged, duration, Reached>>
        BY <1>5 DEF Planned, Reached, SliceWav, YieldSegment, Return, pipelineVars
    <2> QED
        BY <1>4, <2>1
<1> QED
    BY <1>1, <1>2, <1>3, <1>5 DEF Planned, Next, Raise, Probe, Normalize

(* The transcript *)
LEMMA ShapedStep == ShapedInv /\ [Next]_pipelineVars => ShapedInv'
<1> SUFFICES ASSUME ShapedInv, [Next]_pipelineVars PROVE ShapedInv'
    OBVIOUS
<1>1. CASE Return
    BY <1>1 DEF Return, ShapedInv
<1>2. CASE stage' # "returned" /\ stage # "returned" /\ UNCHANGED transcript
    BY <1>2 DEF ShapedInv
<1>3. CASE UNCHANGED <<stage, merged, transcript>>
    BY <1>3, Zenon DEF ShapedInv, ShapeSegments
<1> QED
    BY <1>1, <1>2, <1>3
    DEF Next, Raise, Probe, Normalize, Measure, SliceWav, YieldSegment, MergeChunk, UnlinkChunk,
        pipelineVars

(* Numbers have a number for a product. *)
LEMMA Product == \A a, b \in Nat : a * b \in Nat
    OBVIOUS

(* Products keep the order, *)
LEMMA ProductMonotone == ASSUME NEW a \in Nat, NEW b \in Nat, NEW c \in Nat, a <= b
                         PROVE  a * c <= b * c
    OBVIOUS

(* and lose no order to a common factor. *)
LEMMA FactorCancels == ASSUME NEW a \in Nat, NEW b \in Nat, NEW c \in Nat \ {0}, a * c <= b * c
                       PROVE  a <= b
<1> SUFFICES ASSUME b + 1 <= a PROVE FALSE
    OBVIOUS
<1>1. (b + 1) * c <= a * c
    BY ProductMonotone
<1>2. (b + 1) * c = b * c + c
    OBVIOUS
<1> QED
    BY <1>1, <1>2

(* A product of three in any order. *)
LEMMA Reordered == ASSUME NEW a \in Nat, NEW b \in Nat, NEW c \in Nat
                   PROVE  (a * b) * c = (a * c) * b /\ (a * b) * c = a * (b * c)
    OBVIOUS

(* A fraction to report lies between nothing and the chunks begun. *)
LEMMA ScaledFraction ==
    ASSUME NEW end \in Nat, NEW length \in Nat \ {0}, NEW total \in Nat \ {0},
           NEW i \in 1..total
    PROVE  LET f == ScaledProgress(end, length, i, total)
           IN  /\ f \in Fraction /\ f.num <= f.den
               /\ f.num * total <= i * f.den
<1> DEFINE num == (i - 1) * length + Lesser(end, length)
           den == total * length
<1>1. Lesser(end, length) \in Nat /\ Lesser(end, length) <= length
    BY DEF Lesser
<1>2. (i - 1) * length \in Nat /\ i * length = (i - 1) * length + length
    <2>1. i - 1 \in Nat
        OBVIOUS
    <2> QED
        BY <2>1
<1>3. num \in Nat /\ num <= i * length
    BY <1>1, <1>2
<1>4. i \in Nat /\ i * length \in Nat /\ i * length <= total * length
    BY ProductMonotone, Product
<1>5. den \in Nat \ {0}
    OBVIOUS
<1>6. ScaledProgress(end, length, i, total) = [num |-> num, den |-> den]
    BY DEF ScaledProgress
<1> HIDE DEF num
<1>7. num * total <= i * den
    <2>1. num * total <= (i * length) * total
        BY <1>3, <1>4, ProductMonotone
    <2>2. (i * length) * total = i * (total * length)
        BY <1>4
    <2> QED
        BY <2>1, <2>2
<1>8. num <= den
    BY <1>3, <1>4, <1>5
<1> HIDE DEF den
<1> QED
    BY <1>3, <1>5, <1>6, <1>7, <1>8 DEF Fraction

(* A fraction that is due is ahead of the last, and enough ahead to pay    *)
(* for one report more.                                                    *)
LEMMA DueArithmetic ==
    ASSUME NEW fn \in Nat, NEW fd \in Nat \ {0}, NEW ln \in Nat, NEW ld \in Nat \ {0},
           NEW R \in Nat \ {0}, NEW k \in Nat,
           (fn * ld - ln * fd) * R >= fd * ld, k * ld <= ln * R
    PROVE  ln * fd < fn * ld /\ (k + 1) * fd <= fn * R
<1> DEFINE a == fn * ld
           b == ln * fd
           p == fd * ld
<1>1. a \in Nat /\ b \in Nat /\ p \in Nat \ {0} /\ (a - b) * R >= p
    OBVIOUS
<1>2. /\ a * R = (fn * R) * ld
      /\ b * R = (ln * R) * fd
      /\ (k * ld) * fd = (k * fd) * ld
    <2>1. R \in Nat /\ ld \in Nat /\ fd \in Nat
        OBVIOUS
    <2> QED
        BY <2>1, Reordered
<1>3. (k * ld) * fd <= (ln * R) * fd
    <2>1. k * ld \in Nat /\ ln * R \in Nat /\ fd \in Nat
        OBVIOUS
    <2> QED
        BY <2>1, ProductMonotone
<1>4. (k + 1) * fd = k * fd + fd
    OBVIOUS
<1>5. ((k + 1) * fd) * ld = (k * fd) * ld + p
    <2> DEFINE q == k * fd
    <2>1. q \in Nat
        OBVIOUS
    <2> HIDE DEF q
    <2>2. (q + fd) * ld = q * ld + p
        BY <2>1
    <2> QED
        BY <1>4, <2>2 DEF q
<1> HIDE DEF a, b, p
<1>6. b < a
    <2> SUFFICES ASSUME a <= b PROVE FALSE
        BY <1>1
    <2>1. (a - b) * R <= 0
        <3> DEFINE c == b - a
        <3>1. c \in Nat /\ a - b = -c
            BY <1>1
        <3> HIDE DEF c
        <3>2. c * R \in Nat /\ (-c) * R = -(c * R)
            BY <3>1
        <3> QED
            BY <3>1, <3>2
    <2> QED
        BY <1>1, <2>1
<1>7. a * R = (a - b) * R + b * R
    <2> DEFINE c == a - b
    <2>1. c \in Nat /\ a = c + b
        BY <1>1, <1>6
    <2> HIDE DEF c
    <2>2. (c + b) * R = c * R + b * R
        BY <1>1, <2>1
    <2> QED
        BY <2>1, <2>2 DEF c
<1>8. ((k + 1) * fd) * ld <= (fn * R) * ld
    <2>1. /\ a * R \in Nat /\ b * R \in Nat /\ (k * fd) * ld \in Nat
          /\ (a - b) * R \in Int
        BY <1>1
    <2> DEFINE x == (a - b) * R
               y == b * R
               z == (k * fd) * ld
               w == (fn * R) * ld
               v == ((k + 1) * fd) * ld
    <2>2. /\ x \in Int /\ y \in Nat /\ z \in Nat /\ p \in Nat /\ w = x + y /\ x >= p /\ z <= y
          /\ v = z + p
        BY <1>1, <1>2, <1>3, <1>5, <1>7, <2>1
    <2> HIDE DEF x, y, z, w, v
    <2>3. v <= w
        BY <2>2
    <2> QED
        BY <2>3 DEF v, w
<1>9. (k + 1) * fd <= fn * R
    <2> DEFINE x == (k + 1) * fd
               y == fn * R
    <2>1. x \in Nat /\ y \in Nat /\ x * ld <= y * ld
        BY <1>8
    <2> HIDE DEF x, y
    <2>2. x <= y
        BY <2>1, FactorCancels
    <2> QED
        BY <2>2 DEF x, y
<1> QED
    BY <1>6, <1>9 DEF a, b

(* So there is one at every step at most, *)
LEMMA ReportsCounted ==
    ASSUME NEW fn \in Nat, NEW fd \in Nat \ {0}, NEW R \in Nat, NEW k \in Nat,
           fn <= fd, k * fd <= fn * R
    PROVE  k <= R
<1>1. fn * R <= fd * R
    BY ProductMonotone
<1>2. fd * R = R * fd /\ fn * R \in Nat /\ fd * R \in Nat /\ k * fd \in Nat
    OBVIOUS
<1>3. k * fd <= R * fd
    BY <1>1, <1>2
<1> QED
    BY <1>3, FactorCancels

(* and rounding takes a report ahead of the chunks begun by half of a      *)
(* hundredth at most.                                                      *)
LEMMA PercentAhead ==
    ASSUME NEW p \in Nat, NEW num \in Nat, NEW den \in Nat \ {0}, NEW i \in Nat,
           NEW total \in Nat \ {0},
           2 * (p * den) <= 200 * num + den, num * total <= i * den
    PROVE  2 * (p * total - 100 * i) <= total
<1> DEFINE q == p * den
           a == p * total
           x == num * total
           y == i * den
           z == den * total
<1>1. q \in Nat /\ a \in Nat /\ x \in Nat /\ y \in Nat /\ z \in Nat
    BY Product
<1>2. 2 * q <= 200 * num + den /\ x <= y
    OBVIOUS
<1>3. q * total = a * den
    BY Reordered
<1>4. (2 * q) * total <= (200 * num + den) * total
    <2> HIDE DEF q
    <2>1. 2 * q \in Nat /\ 200 * num + den \in Nat
        BY <1>1
    <2> QED
        BY <1>2, <2>1, ProductMonotone
<1>5. (200 * num + den) * total = 200 * x + z
    OBVIOUS
<1>6. (2 * q) * total = 2 * (a * den)
    <2> HIDE DEF q, a
    <2>1. (2 * q) * total = 2 * (q * total)
        BY <1>1
    <2> QED
        BY <1>3, <2>1
<1>7. (200 * i + total) * den = 200 * y + z
    OBVIOUS
<1>8. (2 * a) * den = 2 * (a * den) /\ a * den \in Nat
    BY <1>1
<1> HIDE DEF q, a, x, y, z
<1>9. (2 * a) * den <= (200 * i + total) * den
    <2> DEFINE u == (2 * q) * total
               v == (200 * i + total) * den
               w == (2 * a) * den
    <2>1. u = w /\ u <= 200 * x + z /\ v = 200 * y + z
        BY <1>4, <1>5, <1>6, <1>7, <1>8
    <2> HIDE DEF u, v, w
    <2> QED
        BY <1>1, <1>2, <2>1 DEF v, w
<1>10. 2 * a <= 200 * i + total
    BY <1>1, <1>9, FactorCancels
<1> QED
    BY <1>1, <1>10 DEF a

(* Two reports in a row are a step apart, again up to rounding: q is what  *)
(* ln / ld is rounded to, and p what fn / fd is.                           *)
LEMMA PercentGrows ==
    ASSUME NEW fn \in Nat, NEW fd \in Nat \ {0}, NEW ln \in Nat, NEW ld \in Nat \ {0},
           NEW R \in Nat \ {0}, NEW p \in Nat, NEW q \in Nat,
           (fn * ld - ln * fd) * R >= fd * ld, ln * fd < fn * ld,
           200 * fn <= 2 * (p * fd) + fd, 2 * (q * ld) <= 200 * ln + ld
    PROVE  (p - q + 1) * R >= 100
<1> DEFINE A == fn * ld
           B == ln * fd
           P == fd * ld
           pp == p * P
           qq == q * P
           e == p - q + 1
<1>1. A \in Nat /\ B \in Nat /\ P \in Nat \ {0} /\ pp \in Nat /\ qq \in Nat /\ B < A
    OBVIOUS
<1>2. 200 * A <= 2 * pp + P
    <2> DEFINE x == p * fd
    <2>1. x \in Nat /\ 200 * fn <= 2 * x + fd
        BY Product
    <2>2. x * ld = pp
        BY Reordered
    <2> HIDE DEF x, pp
    <2>3. (200 * fn) * ld <= (2 * x + fd) * ld
        BY <2>1, ProductMonotone
    <2>4. (200 * fn) * ld = 200 * A /\ (2 * x + fd) * ld = 2 * (x * ld) + P
        BY <2>1
    <2> QED
        BY <2>2, <2>3, <2>4
<1>3. 2 * qq <= 200 * B + P
    <2> DEFINE x == q * ld
    <2>1. x \in Nat /\ 2 * x <= 200 * ln + ld
        BY Product
    <2>2. x * fd = qq
        BY Reordered
    <2> HIDE DEF x, qq
    <2>3. (2 * x) * fd <= (200 * ln + ld) * fd
        BY <2>1, ProductMonotone
    <2>4. (2 * x) * fd = 2 * (x * fd) /\ (200 * ln + ld) * fd = 200 * B + P
        BY <2>1
    <2> QED
        BY <2>2, <2>3, <2>4
<1>4. e * P = pp - qq + P
    <2> HIDE DEF P
    <2> QED
        BY <1>1
<1>5. (A - B) * R >= P
    OBVIOUS
<1> HIDE DEF A, B, P, pp, qq, e
<1>6. e \in Int /\ e * P >= 100 * (A - B)
    BY <1>1, <1>2, <1>3, <1>4 DEF e
<1>7. e \in Nat
    <2> SUFFICES ASSUME e < 0 PROVE FALSE
        BY <1>6
    <2> DEFINE g == -e
    <2>1. g \in Nat \ {0} /\ e = -g
        BY <1>6
    <2> HIDE DEF g
    <2>2. (-g) * P = -(g * P) /\ g * P \in Nat
        BY <1>1, <2>1
    <2>3. e * P <= 0
        BY <2>1, <2>2
    <2> QED
        BY <1>1, <1>6, <2>3
<1>8. 100 * P <= (e * R) * P
    <2> DEFINE c == A - B
               h == e * P
    <2>1. c \in Nat /\ h \in Nat /\ 100 * c <= h /\ c * R >= P
        BY <1>1, <1>5, <1>6, <1>7
    <2>2. h * R = (e * R) * P
        BY <1>1, <1>7, Reordered
    <2> HIDE DEF c, h
    <2>3. (100 * c) * R <= h * R
        BY <2>1, ProductMonotone
    <2>4. (100 * c) * R = 100 * (c * R)
        BY <2>1
    <2> QED
        BY <1>1, <2>1, <2>2, <2>3, <2>4
<1>9. e * R \in Nat
    BY <1>7
<1>10. 100 <= e * R
    <2> DEFINE k == e * R
    <2>1. k \in Nat /\ 100 * P <= k * P
        BY <1>8, <1>9
    <2> HIDE DEF k
    <2> QED
        BY <1>1, <2>1, FactorCancels DEF k
<1> QED
    BY <1>10 DEF e

(* What Percents says of each percent. *)
LEMMA PercentOf ==
    ASSUME NEW f \in Fraction, NEW p \in Percents(f)
    PROVE  /\ p \in 0..100 /\ p \in Nat
           /\ 2 * (p * f.den) <= 200 * f.num + f.den
           /\ 200 * f.num <= 2 * (p * f.den) + f.den
<1>1. f.num \in Nat /\ f.den \in Nat \ {0} /\ p \in 0..100
      /\ 2 * (100 * f.num - p * f.den) \in (-f.den)..f.den
    BY DEF Percents, Fraction
<1> DEFINE q == p * f.den
<1>2. q \in Nat
    BY <1>1
<1> HIDE DEF q
<1>3. 2 * (100 * f.num - q) \in (-f.den)..f.den
    BY <1>1 DEF q
<1>4. 2 * q <= 200 * f.num + f.den /\ 200 * f.num <= 2 * q + f.den
    BY <1>1, <1>2, <1>3
<1> QED
    BY <1>1, <1>4 DEF q

(* What YieldSegment does, with the types of what it chooses. *)
LEMMA Yielded ==
    ASSUME PipelineTypeOK, PlanInv, YieldSegment
    PROVE  \E start, end \in Nat :
              LET f == ScaledProgress(end, chunks[index].length, index, Len(chunks))
              IN  /\ found' = Append(found, [start |-> start, end |-> end])
                  /\ IF chunks[index].length > 0 /\ IsDue(f, lastReported)
                     THEN lastReported' = f /\ \E p \in Percents(f) : reports' = Append(reports, p)
                     ELSE UNCHANGED <<lastReported, reports>>
<1> DEFINE length == chunks[index].length
           first == IF found = <<>> THEN 0 ELSE found[Len(found)].start
<1>1. Planned
    BY DEF YieldSegment, Planned
<1>2. length \in Nat /\ Overshoot \in Nat /\ found \in Seq(RawSegment)
    BY <1>1, PlannedChunk, Types, PipelineAssumption
<1>3. first \in Nat
    <2>1. CASE found = <<>>
        BY <2>1
    <2>2. CASE found # <<>>
        <3>1. Len(found) \in 1..Len(found)
            BY <1>2, <2>2
        <3> QED
            BY <1>2, <2>2, <3>1, SegmentTimes
    <2> QED
        BY <2>1, <2>2
<1>4. \A start \in first..length : \A end \in start..(length + Overshoot) :
         start \in Nat /\ end \in Nat
    <2> HIDE DEF first, length
    <2> QED
        BY <1>2, <1>3
<1> QED
    BY <1>4, Zenon DEF YieldSegment

(* A sequence has its elements from its set, *)
LEMMA Element == \A S : \A s \in Seq(S) : \A i \in DOMAIN s : s[i] \in S
    OBVIOUS

(* so a report is a number. *)
LEMMA ReportType == \A s \in Seq(0..100) : \A i \in DOMAIN s : s[i] \in Nat
<1>1. \A x \in 0..100 : x \in Nat
    OBVIOUS
<1> QED
    BY <1>1, Element, Zenon

(* Reports *)
LEMMA ProgressStep ==
    PipelineTypeOK /\ EarlyInv /\ PlanInv /\ ProgressInv /\ [Next]_pipelineVars => ProgressInv'
<1> SUFFICES ASSUME PipelineTypeOK, EarlyInv, PlanInv, ProgressInv, [Next]_pipelineVars
             PROVE  ProgressInv'
    OBVIOUS
<1>0. /\ reports \in Seq(0..100) /\ lastReported \in Fraction /\ ReportSteps \in Nat \ {0}
      /\ Len(reports) \in Nat
      /\ lastReported.num \in Nat /\ lastReported.den \in Nat \ {0}
    BY Types, PipelineAssumption DEF Fraction
<1>1. CASE Measure
    <2>1. reports' = <<>> /\ lastReported' = [num |-> 0, den |-> 1]
        BY <1>1 DEF Measure, EarlyInv, Early
    <2> QED
        BY <1>0, <2>1 DEF ProgressInv, ProgressHonest
<1>2. CASE UnlinkChunk
    <2>1. Planned /\ UNCHANGED <<chunks, reports, lastReported>> /\ index' = index + 1
        BY <1>2 DEF UnlinkChunk, Planned
    <2>2. ASSUME NEW i \in DOMAIN reports
          PROVE  2 * (reports[i] * Len(chunks) - 100 * (index + 1)) <= Len(chunks)
        <3> DEFINE a == reports[i] * Len(chunks)
        <3>1. reports[i] \in Nat /\ index \in Nat /\ Len(chunks) \in Nat
            <4>1. reports[i] \in Nat
                BY <1>0, ReportType, Zenon
            <4>2. index \in Nat \ {0} /\ Len(chunks) \in Nat \ {0}
                BY <2>1, PlannedChunk
            <4> QED
                BY <4>1, <4>2
        <3>2. a \in Nat /\ 2 * (a - 100 * index) <= Len(chunks)
            BY <3>1 DEF ProgressInv, ProgressHonest
        <3> HIDE DEF a
        <3>3. 2 * (a - 100 * (index + 1)) <= Len(chunks)
            BY <3>1, <3>2
        <3> QED
            BY <3>3 DEF a
    <2> QED
        BY <2>1, <2>2 DEF ProgressInv, ProgressHonest
<1>3. CASE YieldSegment
    <2>1. Planned /\ UNCHANGED <<chunks, index>>
        BY <1>3 DEF YieldSegment, Planned
    <2>2. PICK start, end \in Nat :
              LET f == ScaledProgress(end, chunks[index].length, index, Len(chunks))
              IN  /\ found' = Append(found, [start |-> start, end |-> end])
                  /\ IF chunks[index].length > 0 /\ IsDue(f, lastReported)
                     THEN lastReported' = f /\ \E p \in Percents(f) : reports' = Append(reports, p)
                     ELSE UNCHANGED <<lastReported, reports>>
        BY <1>3, Yielded
    <2> DEFINE f == ScaledProgress(end, chunks[index].length, index, Len(chunks))
               n == Len(reports)
    <2>3. CASE UNCHANGED <<lastReported, reports>>
        BY <2>1, <2>3 DEF ProgressInv, ProgressHonest
    <2>4. CASE /\ chunks[index].length > 0 /\ IsDue(f, lastReported)
               /\ lastReported' = f /\ \E p \in Percents(f) : reports' = Append(reports, p)
        <3>0. PICK p \in Percents(f) : reports' = Append(reports, p)
            BY <2>4
        <3>1. /\ chunks[index].length \in Nat \ {0} /\ Len(chunks) \in Nat \ {0}
              /\ index \in 1..Len(chunks)
            BY <2>1, <2>4, PlannedChunk
        <3>2. f \in Fraction /\ f.num <= f.den /\ f.num * Len(chunks) <= index * f.den
            BY <3>1, ScaledFraction
        <3> HIDE DEF f
        <3>3. f.num \in Nat /\ f.den \in Nat \ {0}
            BY <3>2 DEF Fraction
        <3>13. /\ p \in 0..100 /\ p \in Nat
               /\ 2 * (p * f.den) <= 200 * f.num + f.den
               /\ 200 * f.num <= 2 * (p * f.den) + f.den
            BY <3>2, PercentOf
        <3>4. /\ lastReported.num * f.den < f.num * lastReported.den
              /\ (n + 1) * f.den <= f.num * ReportSteps
            BY <1>0, <2>4, <3>3, DueArithmetic DEF IsDue, ProgressInv
        <3>5. /\ Len(reports') = n + 1 /\ reports'[n + 1] = p
              /\ \A i \in 1..n : reports'[i] = reports[i]
              /\ reports' \in Seq(0..100)
            BY <1>0, <3>0, <3>13
        <3>6. DOMAIN reports' = 1..(n + 1) /\ DOMAIN reports = 1..n
            BY <1>0, <3>5
        <3>7. \A i \in DOMAIN reports' :
                 2 * (reports'[i] * Len(chunks') - 100 * index') <= Len(chunks')
            <4>1. 2 * (p * Len(chunks) - 100 * index) <= Len(chunks)
                <5>1. index \in Nat
                    BY <3>1
                <5> QED
                    BY <3>1, <3>2, <3>3, <3>13, <5>1, PercentAhead
            <4>2. \A i \in 1..n : 2 * (reports[i] * Len(chunks) - 100 * index) <= Len(chunks)
                BY <3>6 DEF ProgressInv, ProgressHonest
            <4> HIDE DEF n
            <4>3. \A i \in 1..(n + 1) : i \in 1..n \/ i = n + 1
                BY <1>0 DEF n
            <4> QED
                BY <2>1, <3>5, <3>6, <4>1, <4>2, <4>3, Zenon
        <3>8. \A i \in 1..(Len(reports') - 1) :
                 (reports'[i + 1] - reports'[i] + 1) * ReportSteps >= 100
            <4> SUFFICES ASSUME NEW i \in 1..n
                         PROVE  (reports'[i + 1] - reports'[i] + 1) * ReportSteps >= 100
                BY <1>0, <3>5
            <4>1. CASE i = n
                <5> DEFINE q == reports[n]
                <5>1. reports'[i + 1] = p /\ reports'[i] = q /\ reports # <<>>
                    BY <1>0, <3>5, <4>1
                <5>2. q \in Percents(lastReported)
                    BY <5>1 DEF ProgressInv
                <5> HIDE DEF q
                <5>3. q \in Nat /\ 2 * (q * lastReported.den) <= 200 * lastReported.num + lastReported.den
                    BY <1>0, <5>2, PercentOf
                <5>4. (f.num * lastReported.den - lastReported.num * f.den) * ReportSteps
                         >= f.den * lastReported.den
                    BY <2>4 DEF IsDue
                <5>5. (p - q + 1) * ReportSteps >= 100
                    BY <1>0, <3>3, <3>4, <3>13, <5>3, <5>4, PercentGrows
                <5> QED
                    BY <5>1, <5>5
            <4>2. CASE i # n
                <5>1. i \in 1..(Len(reports) - 1) /\ i + 1 \in 1..n
                    BY <1>0, <4>2
                <5> QED
                    BY <3>5, <5>1 DEF ProgressInv, ProgressHonest
            <4> QED
                BY <4>1, <4>2
        <3>9. Len(reports') <= ReportSteps
            <4>1. n + 1 \in Nat /\ ReportSteps \in Nat
                BY <1>0
            <4>2. n + 1 <= ReportSteps
                BY <3>2, <3>3, <3>4, <4>1, ReportsCounted
            <4> QED
                BY <3>5, <4>2
        <3>10. reports'[Len(reports')] \in Percents(lastReported')
            BY <2>4, <3>0, <3>5
        <3>11. Len(reports') * lastReported'.den <= lastReported'.num * ReportSteps
            BY <2>4, <3>4, <3>5
        <3>12. lastReported'.num <= lastReported'.den
            BY <2>4, <3>2
        <3> QED
            BY <3>7, <3>8, <3>9, <3>10, <3>11, <3>12 DEF ProgressInv, ProgressHonest
    <2> QED
        BY <2>2, <2>3, <2>4
<1>4. CASE UNCHANGED <<chunks, index, reports, lastReported>>
    BY <1>4 DEF ProgressInv, ProgressHonest
<1> QED
    BY <1>1, <1>2, <1>3, <1>4
    DEF Next, Raise, Probe, Normalize, SliceWav, MergeChunk, Return, pipelineVars

-----------------------------------------------------------------------------
(* The invariant *)
LEMMA PipelineInit == Init => PipelineInv
<1> SUFFICES ASSUME Init PROVE PipelineInv
    OBVIOUS
<1>1. PipelineTypeOK
    BY PipelineAssumption DEF Init, PipelineTypeOK, Stage, RawSegment, Fraction
<1>2. ScratchInv
    BY DEF Init, ScratchInv, Stage
<1>3. EarlyInv /\ PlanInv /\ FoundInv /\ MergedInv
    BY DEF Init, EarlyInv, PlanInv, FoundInv, MergedInv, Planned
<1>4. ShapedInv
    BY DEF Init, ShapedInv
<1>5. ProgressInv
    BY PipelineAssumption DEF Init, ProgressInv, ProgressHonest
<1> QED
    BY <1>1, <1>2, <1>3, <1>4, <1>5 DEF PipelineInv

(* The types *)
LEMMA PipelineTypeStep == PipelineInv /\ [Next]_pipelineVars => PipelineTypeOK'
<1> SUFFICES ASSUME PipelineInv, [Next]_pipelineVars PROVE PipelineTypeOK'
    OBVIOUS
<1>0. /\ PipelineTypeOK /\ ScratchInv /\ ScratchInv'
      /\ EarlyInv /\ PlanInv /\ PlanInv' /\ FoundInv /\ MergedInv /\ ShapedInv
    BY ScratchStep, PlanStep DEF PipelineInv
<1>1. stage' \in Stage
    BY <1>0 DEF ScratchInv
<1>2. duration' \in 0..MaxDuration
    BY <1>0 DEF PipelineTypeOK, Next, Raise, Probe, Normalize, Measure, SliceWav, YieldSegment,
       MergeChunk, UnlinkChunk, Return, pipelineVars
<1>3. chunks' \in Seq([start : Nat, length : Nat])
    <2>1. CASE Measure
        <3>1. duration' \in Nat
            BY <2>1, PipelineAssumption DEF Measure
        <3>2. Tiling(chunks', duration')
            BY <2>1, <3>1, MeasuredPlanTiles, Zenon DEF Measure
        <3> QED
            BY <3>2 DEF Tiling, Chunk
    <2>2. CASE UNCHANGED chunks
        BY <1>0, <2>2 DEF PipelineTypeOK
    <2> QED
        BY <2>1, <2>2
        DEF Next, Raise, Probe, Normalize, SliceWav, YieldSegment, MergeChunk, UnlinkChunk,
            Return, pipelineVars
<1>4. index' = 1 \/ index' \in DOMAIN chunks'
    <2>1. CASE Measure
        BY <1>0, <2>1 DEF Measure, EarlyInv, Early
    <2>2. CASE UnlinkChunk
        <3>1. Planned /\ chunks' = chunks /\ index < Len(chunks) /\ index' = index + 1
            BY <2>2 DEF UnlinkChunk, Planned
        <3>2. index + 1 \in 1..Len(chunks) /\ DOMAIN chunks = 1..Len(chunks)
            BY <1>0, <3>1, PlannedChunk
        <3> QED
            BY <3>1, <3>2
    <2>3. CASE UNCHANGED <<index, chunks>>
        BY <1>0, <2>3 DEF PipelineTypeOK
    <2> QED
        BY <2>1, <2>2, <2>3
        DEF Next, Raise, Probe, Normalize, SliceWav, YieldSegment, MergeChunk, Return,
            pipelineVars
<1>5. /\ found' \in Seq(RawSegment) /\ reports' \in Seq(0..100) /\ lastReported' \in Fraction
    <2>0. /\ found \in Seq(RawSegment) /\ reports \in Seq(0..100) /\ lastReported \in Fraction
        BY <1>0, Types
    <2>1. CASE YieldSegment
        <3>1. PICK start, end \in Nat :
              LET f == ScaledProgress(end, chunks[index].length, index, Len(chunks))
              IN  /\ found' = Append(found, [start |-> start, end |-> end])
                  /\ IF chunks[index].length > 0 /\ IsDue(f, lastReported)
                     THEN lastReported' = f /\ \E p \in Percents(f) : reports' = Append(reports, p)
                     ELSE UNCHANGED <<lastReported, reports>>
            BY <1>0, <2>1, Yielded
        <3>2. [start |-> start, end |-> end] \in RawSegment
            BY DEF RawSegment
        <3>3. found' \in Seq(RawSegment)
            BY <2>0, <3>1, <3>2
        <3> DEFINE f == ScaledProgress(end, chunks[index].length, index, Len(chunks))
        <3>4. CASE /\ chunks[index].length > 0 /\ lastReported' = f
                   /\ \E p \in Percents(f) : reports' = Append(reports, p)
            <4>1. Planned
                BY <2>1 DEF YieldSegment, Planned
            <4>2. /\ chunks[index].length \in Nat \ {0} /\ Len(chunks) \in Nat \ {0}
                  /\ index \in 1..Len(chunks)
                BY <1>0, <3>4, <4>1, PlannedChunk
            <4>3. f \in Fraction
                BY <4>2, ScaledFraction
            <4> HIDE DEF f
            <4>4. PICK p \in 0..100 : reports' = Append(reports, p)
                BY <3>4 DEF Percents
            <4> QED
                BY <2>0, <3>3, <3>4, <4>3, <4>4
        <3>5. CASE UNCHANGED <<lastReported, reports>>
            BY <2>0, <3>3, <3>5
        <3> QED
            BY <3>1, <3>4, <3>5
    <2>2. CASE UnlinkChunk
        BY <2>0, <2>2 DEF UnlinkChunk
    <2>3. CASE UNCHANGED <<found, reports, lastReported>>
        BY <2>0, <2>3
    <2> QED
        BY <2>1, <2>2, <2>3
        DEF Next, Raise, Probe, Normalize, Measure, SliceWav, MergeChunk, Return, pipelineVars
<1>6. merged' \in Seq(RawSegment)
    <2>0. merged \in Seq(RawSegment) /\ found \in Seq(RawSegment)
        BY <1>0, Types
    <2>1. CASE MergeChunk
        <3>1. Planned
            BY <2>1 DEF MergeChunk, Planned
        <3>2. OffsetSegments(found, chunks[index].start) \in Seq(RawSegment)
            BY <1>0, <2>0, <3>1, PlannedChunk, Offset
        <3> QED
            BY <2>0, <2>1, <3>2 DEF MergeChunk
    <2>2. CASE UNCHANGED merged
        BY <2>0, <2>2
    <2> QED
        BY <2>1, <2>2
        DEF Next, Raise, Probe, Normalize, Measure, SliceWav, YieldSegment, UnlinkChunk, Return,
            pipelineVars
<1>7. files' \subseteq {WholeFile} \cup DOMAIN chunks'
    <2>1. CASE stage' \in {"infer", "unlink"}
        <3>1. index' \in DOMAIN chunks'
            <4>1. Tiling(chunks', duration') /\ index' \in 1..Len(chunks')
                BY <1>0, <2>1 DEF PlanInv, Planned, Tiling
            <4> QED
                BY <4>1 DEF Tiling
        <3> QED
            BY <1>0, <2>1, <3>1 DEF ScratchInv
    <2>2. CASE stage' \notin {"infer", "unlink"}
        BY <1>0, <2>2 DEF ScratchInv, Stage
    <2> QED
        BY <2>1, <2>2
<1>8. transcript' \in Seq([id : Nat, start : Nat, end : Nat])
    <2>1. CASE Return
        BY <1>0, <2>1, Types, Shape DEF Return, TranscriptSegment
    <2>2. CASE UNCHANGED transcript
        BY <1>0, <2>2 DEF PipelineTypeOK
    <2> QED
        BY <2>1, <2>2
        DEF Next, Raise, Probe, Normalize, Measure, SliceWav, YieldSegment, MergeChunk,
            UnlinkChunk, pipelineVars
<1> QED
    BY <1>1, <1>2, <1>3, <1>4, <1>5, <1>6, <1>7, <1>8 DEF PipelineTypeOK

(* Every step keeps all of it. *)
LEMMA PipelineStep == PipelineInv /\ [Next]_pipelineVars => PipelineInv'
    BY PipelineTypeStep, ScratchStep, EarlyStep, PlanStep, FoundStep, MergedStep, ShapedStep,
       ProgressStep DEF PipelineInv

(***************************************************************************)
(* All of it together is inductive: the plan tiles the audio, so the chunks*)
(* fill the time line from left to right, so what is merged stays in order.*)
(***************************************************************************)
THEOREM PipelineInvariant == Spec => []PipelineInv
    BY PipelineInit, PipelineStep, PTL DEF Spec

(***************************************************************************)
(* Whatever the length of the audio, wherever a step raises: the state of  *)
(* run_pipeline and of transcribe (worker/main.py, worker/transcriber.py)  *)
(* stays of its type.                                                      *)
(***************************************************************************)
THEOREM PipelineTypeCorrect == Spec => []PipelineTypeOK
<1>1. PipelineInv => PipelineTypeOK
    BY DEF PipelineInv
<1> QED
    BY PipelineInvariant, <1>1, PTL

(***************************************************************************)
(* plan_chunks covers audio of every length without gap or overlap, for    *)
(* every size of chunk: nothing is left untranscribed.                     *)
(***************************************************************************)
THEOREM PlansTile == Spec => []ChunksTile
<1>1. PipelineInv => ChunksTile
    <2> SUFFICES ASSUME PipelineInv, Planned PROVE Tiling(chunks, duration) => ChunksTile
        BY DEF PipelineInv, PlanInv, ChunksTile, Planned
    <2>1. chunks \in Seq(Chunk) => DOMAIN chunks = 1..Len(chunks)
        OBVIOUS
    <2> QED
        BY <2>1, Zenon DEF Tiling, ChunksTile
<1> QED
    BY PipelineInvariant, <1>1, PTL

(***************************************************************************)
(* What an attempt reports is ahead of the chunks begun by no more than    *)
(* its rounding to hundredths (main.py:89), grows by a step up to rounding,*)
(* and is at most ReportSteps numbers, however many segments there are.    *)
(***************************************************************************)
THEOREM ProgressIsHonest == Spec => []ProgressHonest
<1>1. PipelineInv => ProgressHonest
    BY DEF PipelineInv, ProgressInv
<1> QED
    BY PipelineInvariant, <1>1, PTL

(* What there is at the end. *)
LEMMA ReturnedSegments ==
    ASSUME PipelineInv, stage = "returned"
    PROVE  /\ Len(transcript) = Len(merged) /\ DOMAIN transcript = 1..Len(merged)
           /\ merged \in Seq(RawSegment)
           /\ Ascending(merged) /\ Within(merged, duration)
           /\ \A i \in 1..Len(merged) :
                 transcript[i] = [id |-> i - 1, start |-> Rounded(merged[i].start),
                                  end |-> Rounded(merged[i].end)]
<1>1. merged \in Seq(RawSegment)
    BY Types DEF PipelineInv
<1>2. transcript = ShapeSegments(merged)
    BY DEF PipelineInv, ShapedInv
<1>3. Ascending(merged) /\ Within(merged, duration)
    BY DEF PipelineInv, MergedInv, Planned
<1>4. Len(transcript) = Len(merged) /\ transcript \in Seq(TranscriptSegment)
    BY <1>1, <1>2, Shape
<1>5. DOMAIN transcript = 1..Len(merged)
    BY <1>4
<1>6. \A i \in 1..Len(merged) :
         transcript[i] = [id |-> i - 1, start |-> Rounded(merged[i].start),
                          end |-> Rounded(merged[i].end)]
    BY <1>1, <1>2, Shape
<1> QED
    BY <1>1, <1>3, <1>4, <1>5, <1>6, Zenon

(***************************************************************************)
(* The segments of the transcript are numbered and ordered over the bounds *)
(* of chunks and through the rounding, and lie within the audio.           *)
(***************************************************************************)
THEOREM TimelineIsOrdered == Spec => []TimelineOrdered
<1>1. PipelineInv => TimelineOrdered
    <2> SUFFICES ASSUME PipelineInv, stage = "returned" PROVE TimelineOrdered
        BY DEF TimelineOrdered
    <2>1. DOMAIN transcript = 1..Len(merged)
        BY ReturnedSegments
    <2>2. ASSUME NEW i \in 1..Len(merged)
          PROVE  /\ transcript[i].id = i - 1
                 /\ transcript[i].start = Rounded(merged[i].start)
                 /\ transcript[i].end = Rounded(merged[i].end)
        <3>1. transcript[i] = [id |-> i - 1, start |-> Rounded(merged[i].start),
                               end |-> Rounded(merged[i].end)]
            BY ReturnedSegments
        <3> QED
            BY <3>1
    <2>3. ASSUME NEW i \in 1..Len(merged)
          PROVE  merged[i].start \in Nat /\ merged[i].end \in Nat
        <3>1. merged \in Seq(RawSegment)
            BY ReturnedSegments
        <3> QED
            BY <3>1, SegmentTimes
    <2>4. ASSUME NEW i \in 1..Len(merged), NEW k \in 1..Len(merged), i <= k
          PROVE  transcript[i].start <= transcript[k].start
        <3>1. merged[i].start <= merged[k].start
            BY <2>4, ReturnedSegments DEF Ascending
        <3>2. Rounded(merged[i].start) <= Rounded(merged[k].start)
            BY <2>3, <3>1, RoundedMonotone
        <3> QED
            BY <2>2, <3>2
    <2>5. ASSUME NEW i \in 1..Len(merged)
          PROVE  /\ transcript[i].start <= transcript[i].end
                 /\ transcript[i].end <= Rounded(duration + Overshoot)
        <3>1. merged[i].start <= merged[i].end /\ merged[i].end <= duration + Overshoot
            BY ReturnedSegments DEF Within
        <3>2. duration + Overshoot \in Nat
            BY Types, PipelineAssumption DEF PipelineInv
        <3>3. /\ Rounded(merged[i].start) <= Rounded(merged[i].end)
              /\ Rounded(merged[i].end) <= Rounded(duration + Overshoot)
            BY <2>3, <3>1, <3>2, RoundedMonotone
        <3> QED
            BY <2>2, <3>3
    <2> QED
        BY <2>1, <2>2, <2>4, <2>5 DEF TimelineOrdered
<1> QED
    BY PipelineInvariant, <1>1, PTL

(* A time stamp stands for a number. *)
LEMMA MillisType == ASSUME NEW f \in Fields PROVE Millis(f) \in Nat
<1>1. f.h \in Nat /\ f.m \in Nat /\ f.s \in Nat /\ f.ms \in Nat
    BY DEF Fields
<1> QED
    BY <1>1 DEF Millis

(* A whole hundredth is exported as it is. *)
LEMMA HundredthExported ==
    ASSUME NEW c \in Nat
    PROVE  Millis(FormatTimestamp(c * 10 * PerMs)) = 10 * c
<1> DEFINE t == c * 10 * PerMs
           f == FormatTimestamp(t)
<1>1. t \in Nat /\ t = 100 * c /\ PerMs = 10
    BY DEF PerMs
<1>2. TimestampExact(t)
    BY <1>1, EveryTimestampExact
<1>3. f \in Fields /\ 2 * PerMs * Millis(f) - 2 * t \in (1 - PerMs)..PerMs
    BY <1>2 DEF TimestampExact
<1> HIDE DEF f
<1>4. Millis(f) \in Nat
    BY <1>3, MillisType
<1> QED
    <2>1. 2 * 10 * Millis(f) - 200 * c \in (1 - 10)..10
        BY <1>1, <1>3
    <2>2. Millis(f) = 10 * c
        BY <1>4, <2>1
    <2> QED
        BY <2>2 DEF f

-----------------------------------------------------------------------------
(* What was heard *)

(* Everything heard is kept: what was merged, and behind it what was found *)
(* in the chunk under way, at its place in the file.                       *)
Kept ==
    IF stage = "infer" THEN merged \o OffsetSegments(found, Origin) ELSE merged

HearInv ==
    /\ stage # "raised" => heard = Kept
    /\ stage = "slice" => found = <<>>

(* Nothing found is nothing to shift. *)
LEMMA NothingShifted ==
    ASSUME NEW o, NEW m \in Seq(RawSegment)
    PROVE  m \o OffsetSegments(<<>>, o) = m
<1>1. OffsetSegments(<<>>, o) = <<>>
    BY DEF OffsetSegments
<1> QED
    BY <1>1

(* To shift is to shift one segment after the other. *)
LEMMA OneMoreShifted ==
    ASSUME NEW found0 \in Seq(RawSegment), NEW seg \in RawSegment, NEW o \in Nat
    PROVE  OffsetSegments(Append(found0, seg), o)
              = Append(OffsetSegments(found0, o), [start |-> o + seg.start, end |-> o + seg.end])
<1> DEFINE s == Append(found0, seg)
           n == Len(found0)
           last == [start |-> o + seg.start, end |-> o + seg.end]
           t == OffsetSegments(found0, o)
<1>1. n \in Nat /\ s \in Seq(RawSegment) /\ Len(s) = n + 1
    OBVIOUS
<1>2. s[n + 1] = seg /\ \A i \in 1..n : s[i] = found0[i]
    OBVIOUS
<1>3. /\ t \in Seq(RawSegment) /\ Len(t) = n
      /\ t = [i \in 1..n |-> [start |-> found0[i].start + o, end |-> found0[i].end + o]]
    BY Offset DEF OffsetSegments
<1>4. OffsetSegments(s, o) = [i \in 1..(n + 1) |-> [start |-> s[i].start + o, end |-> s[i].end + o]]
    BY <1>1 DEF OffsetSegments
<1>5. seg.start \in Nat /\ seg.end \in Nat
    BY DEF RawSegment
<1>6. [start |-> seg.start + o, end |-> seg.end + o] = last
    BY <1>5
<1> HIDE DEF s, n, last, t
<1>7. Append(t, last) = [i \in 1..(n + 1) |-> IF i = n + 1 THEN last ELSE t[i]]
    BY <1>1, <1>3
<1>8. ASSUME NEW i \in 1..(n + 1)
      PROVE  [start |-> s[i].start + o, end |-> s[i].end + o]
                = IF i = n + 1 THEN last ELSE t[i]
    <2>1. CASE i = n + 1
        BY <1>2, <1>6, <2>1
    <2>2. CASE i # n + 1
        <3>1. i \in 1..n
            BY <1>1, <2>2
        <3> QED
            BY <1>2, <1>3, <2>2, <3>1
    <2> QED
        BY <2>1, <2>2
<1> QED
    BY <1>4, <1>7, <1>8 DEF s, n, last, t

(* The chunk under way was cut out where the pipeline shifts it to. *)
LEMMA OriginIsStart ==
    ASSUME PipelineInv, Planned
    PROVE  Origin = chunks[index].start /\ Origin \in Nat
<1>1. /\ index \in 1..Len(chunks) /\ Tiling(chunks, duration) /\ chunks[index].start \in Nat
    BY PlannedChunk DEF PipelineInv, PlanInv
<1>2. Len(chunks) = 1 => index = 1 /\ chunks[1].start = 0
    BY <1>1 DEF Tiling
<1> QED
    BY <1>1, <1>2 DEF Origin

(* Every step keeps what was heard. *)
LEMMA HearStep ==
    PipelineInv /\ PipelineInv' /\ HearInv /\ [HearingNext]_exportVars => HearInv'
<1> SUFFICES ASSUME PipelineInv, PipelineInv', HearInv, [HearingNext]_exportVars
             PROVE  HearInv'
    OBVIOUS
<1>0. found \in Seq(RawSegment) /\ merged \in Seq(RawSegment) /\ Len(found) \in Nat
    BY Types DEF PipelineInv
<1>1. CASE Hear /\ Raise
    BY <1>1 DEF Raise, HearInv
<1>2. CASE Hear /\ (Probe \/ Normalize \/ Return)
    <2>1. UNCHANGED <<found, merged>> /\ stage \notin {"infer", "raised"}
          /\ stage' \notin {"infer", "slice"}
        BY <1>2 DEF Probe, Normalize, Return
    <2>2. heard' = heard
        BY <1>0, <1>2, <2>1 DEF Hear
    <2> QED
        BY <2>1, <2>2 DEF HearInv, Kept
<1>3. CASE Hear /\ (Measure \/ SliceWav)
    <2>1. UNCHANGED <<found, merged>> /\ stage \in {"measure", "slice"}
          /\ stage' \in {"infer", "slice"}
        BY <1>3 DEF Measure, SliceWav
    <2>2. found = <<>>
        BY <2>1 DEF HearInv, PipelineInv, EarlyInv, Early
    <2>3. heard' = heard /\ heard = merged
        BY <1>0, <1>3, <2>1 DEF Hear, HearInv, Kept
    <2>4. Kept' = merged
        BY <1>0, <2>1, <2>2, NothingShifted DEF Kept
    <2> QED
        BY <2>1, <2>2, <2>3, <2>4 DEF HearInv
<1>4. CASE Hear /\ YieldSegment
    <2>1. /\ stage = "infer" /\ stage' = "infer"
          /\ UNCHANGED <<chunks, index, merged>> /\ Planned
        BY <1>4 DEF YieldSegment, Planned
    <2>2. PICK start, end \in Nat : found' = Append(found, [start |-> start, end |-> end])
        BY <1>4, Yielded DEF PipelineInv
    <2> DEFINE seg == [start |-> start, end |-> end]
               placed == [start |-> Origin + seg.start, end |-> Origin + seg.end]
               t == OffsetSegments(found, Origin)
    <2>3. seg \in RawSegment
        BY DEF RawSegment
    <2>4. Origin \in Nat /\ Origin' = Origin
        BY <2>1, OriginIsStart DEF Origin
    <2>5. Len(found') = Len(found) + 1 /\ found'[Len(found')] = seg
        BY <1>0, <2>2
    <2>6. heard' = Append(heard, placed)
        BY <1>0, <1>4, <2>5 DEF Hear
    <2>7. heard = merged \o t
        BY <2>1 DEF HearInv, Kept
    <2>8. Kept' = merged \o Append(t, placed)
        BY <1>0, <2>1, <2>2, <2>3, <2>4, OneMoreShifted DEF Kept
    <2>9. t \in Seq(RawSegment)
        BY <1>0, <2>4, Offset
    <2>10. placed \in RawSegment
        BY <2>3, <2>4 DEF RawSegment
    <2> HIDE DEF seg, placed, t
    <2>11. Append(merged \o t, placed) = merged \o Append(t, placed)
        <3>1. merged \in Seq(RawSegment)
            BY <1>0
        <3> QED
            BY <2>9, <2>10, <3>1
    <2> QED
        BY <2>1, <2>6, <2>7, <2>8, <2>11 DEF HearInv
<1>5. CASE Hear /\ MergeChunk
    <2>1. /\ stage = "infer" /\ stage' = "unlink" /\ found' = found
          /\ merged' = merged \o OffsetSegments(found, chunks[index].start)
          /\ Planned
        BY <1>5 DEF MergeChunk, Planned
    <2>2. heard' = heard
        BY <1>0, <1>5, <2>1 DEF Hear
    <2> QED
        BY <2>1, <2>2, OriginIsStart DEF HearInv, Kept
<1>6. CASE Hear /\ UnlinkChunk
    <2>1. stage = "unlink" /\ stage' = "slice" /\ found' = <<>> /\ merged' = merged
        BY <1>6 DEF UnlinkChunk
    <2>2. heard' = heard
        BY <1>0, <1>6, <2>1 DEF Hear
    <2> QED
        BY <2>1, <2>2 DEF HearInv, Kept
<1>7. CASE UNCHANGED exportVars
    BY <1>7 DEF exportVars, pipelineVars, HearInv, Kept, Origin, OffsetSegments
<1> QED
    BY <1>1, <1>2, <1>3, <1>4, <1>5, <1>6, <1>7 DEF HearingNext, Next

(* Half a tick of the rounding is half a hundredth of a second in a stamp. *)
LEMMA StampIsNear ==
    ASSUME NEW time \in Nat, NEW stamp, Millis(stamp) = 10 * Rounded(time)
    PROVE  Near(stamp, time)
<1> DEFINE r == Rounded(time)
           p == Tick * r
<1>1. r \in Nat /\ Tick \in Nat /\ 2 * (p - time) \in -Tick..Tick
    BY RoundedExact, PipelineAssumption
<1> HIDE DEF r
<1>2. p \in Nat /\ Tick * (10 * r) = 10 * p
    BY <1>1
<1> HIDE DEF p
<1>3. 2 * (10 * p - 10 * time) \in (-10 * Tick)..(10 * Tick)
    BY <1>1, <1>2
<1> QED
    BY <1>2, <1>3 DEF Near, r

(***************************************************************************)
(* From the model to the file: the cues of either format are as many as the*)
(* segments the model yielded, numbered from one, in order, and each starts*)
(* and ends within half a hundredth of a second of where the audio it was  *)
(* heard in lies in the whole file.  heard is told from the chunk that was *)
(* cut out (slice_wav), the cues come from what transcribe shifts, merges  *)
(* and shapes: the invariant is that the two agree at every step.          *)
(***************************************************************************)
THEOREM SubtitlesAreTrue == ExportSpec => []SubtitlesTrue
<1>1. PipelineInv /\ HearInv => SubtitlesTrue
    <2> SUFFICES ASSUME PipelineInv, HearInv, stage = "returned", NEW format \in Formats
                 PROVE  LET cues == SubtitleFile(format, Exported(transcript)).cues
                        IN  /\ Len(cues) = Len(heard)
                            /\ \A i \in DOMAIN cues :
                                  /\ cues[i].number = i
                                  /\ Near(cues[i].from, heard[i].start)
                                  /\ Near(cues[i].to, heard[i].end)
                                  /\ Millis(cues[i].from) <= Millis(cues[i].to)
                            /\ \A i \in 1..(Len(cues) - 1) :
                                  Millis(cues[i].from) <= Millis(cues[i + 1].from)
        BY Zenon DEF SubtitlesTrue
    <2> DEFINE cues == SubtitleFile(format, Exported(transcript)).cues
               n == Len(merged)
    <2>0. heard = merged
        BY DEF HearInv, Kept
    <2>1. n \in Nat /\ DOMAIN transcript = 1..n
        <3>1. merged \in Seq(RawSegment)
            BY ReturnedSegments
        <3> QED
            BY <3>1, ReturnedSegments
    <2>2. cues = [i \in 1..n |-> [number |-> i,
                                  from |-> FormatTimestamp(transcript[i].start * 10 * PerMs),
                                  to |-> FormatTimestamp(transcript[i].end * 10 * PerMs)]]
        BY <2>1 DEF SubtitleFile, Cues, Exported
    <2>3. DOMAIN cues = 1..n /\ Len(cues) = n
        BY <2>1, <2>2
    <2>4. ASSUME NEW i \in 1..n
          PROVE  /\ merged[i].start \in Nat /\ merged[i].end \in Nat
                 /\ cues[i].number = i
                 /\ Millis(cues[i].from) = 10 * Rounded(merged[i].start)
                 /\ Millis(cues[i].to) = 10 * Rounded(merged[i].end)
                 /\ merged[i].start <= merged[i].end
        <3>1. merged \in Seq(RawSegment) /\ merged[i].start <= merged[i].end
            BY ReturnedSegments DEF Within
        <3>2. merged[i].start \in Nat /\ merged[i].end \in Nat
            BY <3>1, SegmentTimes
        <3>3. transcript[i] = [id |-> i - 1, start |-> Rounded(merged[i].start),
                               end |-> Rounded(merged[i].end)]
            BY ReturnedSegments
        <3>4. /\ transcript[i].start = Rounded(merged[i].start)
              /\ transcript[i].end = Rounded(merged[i].end)
            BY <3>3
        <3>5. Rounded(merged[i].start) \in Nat /\ Rounded(merged[i].end) \in Nat
            BY <3>2, RoundedType
        <3>6. /\ cues[i].number = i
              /\ cues[i].from = FormatTimestamp(transcript[i].start * 10 * PerMs)
              /\ cues[i].to = FormatTimestamp(transcript[i].end * 10 * PerMs)
            BY <2>2
        <3> QED
            BY <3>1, <3>2, <3>4, <3>5, <3>6, HundredthExported, Zenon
    <2> HIDE DEF cues, n
    <2>5. ASSUME NEW i \in 1..n
          PROVE  /\ Near(cues[i].from, heard[i].start)
                 /\ Near(cues[i].to, heard[i].end)
                 /\ Millis(cues[i].from) <= Millis(cues[i].to)
        <3>1. /\ Near(cues[i].from, merged[i].start)
              /\ Near(cues[i].to, merged[i].end)
            BY <2>4, StampIsNear, Zenon
        <3>2. /\ Rounded(merged[i].start) <= Rounded(merged[i].end)
              /\ Rounded(merged[i].start) \in Nat /\ Rounded(merged[i].end) \in Nat
            BY <2>4, RoundedMonotone, RoundedType
        <3>3. Millis(cues[i].from) <= Millis(cues[i].to)
            BY <2>4, <3>2
        <3> QED
            BY <2>0, <3>1, <3>3
    <2>6. ASSUME NEW i \in 1..(n - 1) PROVE Millis(cues[i].from) <= Millis(cues[i + 1].from)
        <3>1. i \in 1..n /\ i + 1 \in 1..n /\ i <= i + 1
            BY <2>1
        <3>2. merged[i].start <= merged[i + 1].start
            BY <3>1, ReturnedSegments DEF Ascending, n
        <3>3. /\ Rounded(merged[i].start) <= Rounded(merged[i + 1].start)
              /\ Rounded(merged[i].start) \in Nat /\ Rounded(merged[i + 1].start) \in Nat
            BY <2>4, <3>1, <3>2, RoundedMonotone, RoundedType
        <3> QED
            BY <2>4, <3>1, <3>3
    <2>7. \A i \in 1..n : cues[i].number = i
        BY <2>4
    <2>8. Len(heard) = n
        BY <2>0 DEF n
    <2> QED
        BY <2>3, <2>5, <2>6, <2>7, <2>8 DEF cues, n
<1>2. ExportInit => HearInv
    BY DEF ExportInit, Init, HearInv, Kept
<1>3. ExportInit => PipelineInv
    BY PipelineInit DEF ExportInit
<1>4. PipelineInv /\ [HearingNext]_exportVars => PipelineInv'
    <2>1. [HearingNext]_exportVars => [Next]_pipelineVars
        BY DEF HearingNext, exportVars
    <2> QED
        BY <2>1, PipelineStep
<1> QED
    BY <1>1, <1>2, <1>3, <1>4, HearStep, PTL DEF ExportSpec
=============================================================================
