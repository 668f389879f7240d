---------------------------- MODULE AssignerProofs ----------------------------
(***************************************************************************)
(* Theorems about Assigner, for any requests, any number of workers and    *)
(* any block size.  The invariant has one layer for each loop of the code: *)
(* how the transfers cover the ranges (Coalesced), how the slices cover    *)
(* the transfers (Assigned) and how the tasks fill both (Built).  All of   *)
(* them count bytes from the first range of the request on.                *)
(***************************************************************************)
EXTENDS Assigner, SequenceTheorems, FiniteSetTheorems, WellFoundedInduction,
        TLAPS

-----------------------------------------------------------------------------
(* The inductive invariant *)

ReadRange == [file : Nat, offset : Nat, size : Nat, dst : Nat]
Transfer == [file : Nat, offset : Nat, size : Nat, dst : Nat, first : Nat,
             sizes : Seq(Nat)]
Slice == [workload : Nat, offset : Nat, size : Nat, dst : Nat]
Task == [file : Nat, index : Nat, batch : Nat \X Nat, workload : Nat,
         offset : Nat, size : Nat, dst : Nat]

PlanTypeOK ==
  /\ request \in Requests
  /\ phase \in {"coalesce", "assign", "build", "done", "rejected"}
  /\ next \in Nat \ {0}
  /\ total \in Nat
  /\ transfers \in Seq(Transfer)
  /\ tr \in Nat \ {0}

WorkTypeOK ==
  /\ slices \in Seq(Seq(Slice))
  /\ {workload, consumed, assigned} \subseteq Nat
  /\ {cur, left, rest, placed} \subseteq Nat
  /\ tasks \in Seq(Task)

TypeOK == PlanTypeOK /\ WorkTypeOK

(* The ranges that are in a transfer. *)
Covered ==
  IF phase \in {"coalesce", "rejected"} THEN next - 1 ELSE Len(request)

(* The bytes of the request before each of its ranges. *)
Total == SumTo(request)

(* The range a transfer begins with; that of the next one ends it. *)
Start(i) == CHOOSE a \in DOMAIN request :
              /\ request[a].file = transfers[i].file
              /\ IndexInFile(a) = transfers[i].first
From(i) == IF i \in DOMAIN transfers THEN Start(i) ELSE Covered + 1

(* Transfer i has n ranges of one file from a on, and their bytes follow   *)
(* each other in the file and in memory.                                   *)
Covers(i, a, n) ==
  /\ n >= 1
  /\ a \in 1 .. Covered
  /\ a + n - 1 <= Covered
  /\ \A k \in 1 .. n :
       /\ request[a + k - 1].file = transfers[i].file
       /\ request[a + k - 1].size = transfers[i].sizes[k]
       /\ IndexInFile(a + k - 1) = transfers[i].first + k - 1
       /\ request[a + k - 1].offset + Total[a - 1]
            = transfers[i].offset + Total[a + k - 2]
       /\ request[a + k - 1].dst + Total[a - 1]
            = transfers[i].dst + Total[a + k - 2]
  /\ transfers[i].size + Total[a - 1] = Total[a + n - 1]

Coalesced ==
  /\ Covered \in 0 .. Len(request)
  /\ total = Total[Covered]
  /\ total <= MaxBytes
  /\ From(1) = 1
  /\ \A i \in DOMAIN transfers :
       /\ Covers(i, Start(i), Len(transfers[i].sizes))
       /\ From(i + 1) = From(i) + Len(transfers[i].sizes)
  /\ phase = "rejected" =>
       next <= Len(request) /\ total + request[next].size > MaxBytes

(* The bytes before a transfer, and before a workload's share. *)
Before(i) == Total[From(i) - 1]
Share(w) == IF w = 0 THEN 0 ELSE Target(0) + (w - 1) * BaseBytes

(* How much of a transfer is in slices. *)
Sliced(i) ==
  IF phase = "assign" /\ i >= tr THEN IF i = tr THEN consumed ELSE 0
  ELSE transfers[i].size

SlicesCover(i) ==
  /\ \A j \in DOMAIN slices[i] :
       /\ slices[i][j].workload < NumWorkloads
       /\ slices[i][j].offset = transfers[i].offset + SumTo(slices[i])[j - 1]
       /\ slices[i][j].dst = transfers[i].dst + SumTo(slices[i])[j - 1]
       /\ transfers[i].size > 0 => slices[i][j].size > 0
  /\ SumSizes(slices[i]) = Sliced(i)
  /\ transfers[i].size = 0 => Len(slices[i]) <= 1
  /\ IF phase = "assign" /\ i >= tr
     THEN Sliced(i) = 0 => slices[i] = <<>>
     ELSE slices[i] # <<>>

Assigned ==
  /\ phase \in {"coalesce", "rejected"} =>
       /\ slices = <<>>
       /\ tr = 1 /\ workload = 0 /\ consumed = 0 /\ assigned = 0
  /\ phase \in {"assign", "build", "done"} =>
       /\ DOMAIN slices = DOMAIN transfers
       /\ \A i \in DOMAIN transfers : SlicesCover(i)
  /\ phase = "assign" =>
       /\ tr <= Len(transfers) + 1
       /\ tr = Len(transfers) + 1 => consumed = 0
       /\ tr <= Len(transfers) => consumed = 0 \/ consumed < transfers[tr].size
       /\ workload < NumWorkloads
       /\ assigned <= Target(workload)
       /\ Share(workload) + assigned = Before(tr) + consumed

(* The range the build is at, and how much of each range and slice has     *)
(* tasks.                                                                  *)
At == Start(tr) + next - 1

InTasks(a) ==
  IF phase = "done" \/ a < At THEN request[a].size
  ELSE IF a = At THEN request[a].size - rest
  ELSE 0

InBatch(i, j) ==
  IF phase = "done" \/ i < tr \/ (i = tr /\ j < cur) THEN slices[i][j].size
  ELSE IF i = tr /\ j = cur THEN slices[i][j].size - left
  ELSE 0

RangeTiled(a) ==
  /\ \A k \in TasksOfRange(a) :
       tasks[k].dst + request[a].offset = request[a].dst + tasks[k].offset
  /\ Tile(TasksOfRange(a), request[a].offset, InTasks(a))
  /\ phase = "done" \/ a < At => TasksOfRange(a) # {}
  /\ phase = "build" /\ a > At => TasksOfRange(a) = {}

SliceFilled(i, j) ==
  /\ \A k \in TasksOfBatch(i, j) :
       tasks[k].dst + slices[i][j].offset = slices[i][j].dst + tasks[k].offset
  /\ Tile(TasksOfBatch(i, j), slices[i][j].offset, InBatch(i, j))
  /\ phase = "build" /\ (i > tr \/ (i = tr /\ j > cur)) =>
       TasksOfBatch(i, j) = {}

Built ==
  /\ phase \notin {"build", "done"} => tasks = <<>>
  /\ phase = "build" =>
       /\ tr \in DOMAIN transfers
       /\ next \in DOMAIN transfers[tr].sizes
       /\ cur \in DOMAIN slices[tr]
       /\ left <= slices[tr][cur].size
       /\ rest <= request[At].size
       /\ placed + rest + Before(tr) = Total[At]
       /\ placed + left = SumTo(slices[tr])[cur]
  /\ phase \in {"build", "done"} =>
       /\ \A a \in DOMAIN request : RangeTiled(a)
       /\ \A i \in DOMAIN slices : \A j \in DOMAIN slices[i] :
            SliceFilled(i, j)

IInv == TypeOK /\ Coalesced /\ Assigned /\ Built

-----------------------------------------------------------------------------
(* Induction, and running totals *)

(* A set that has zero and with a number the next one has every number. *)
LEMMA Induction ==
  ASSUME NEW S, 0 \in S, \A n \in Nat : n \in S => n + 1 \in S
  PROVE  Nat \subseteq S
<1> SUFFICES ASSUME Nat \ S # {}
             PROVE  FALSE
  OBVIOUS
<1>1. PICK x \in Nat \ S : \A y \in Nat \ S : ~(<<y, x>> \in OpToRel(<, Nat))
  <2>1. \E x \in Nat \ S : \A y \in Nat \ S : ~(<<y, x>> \in OpToRel(<, Nat))
    BY NatLessThanWellFounded, WFMin, Zenon
  <2> QED
    BY <2>1
<1>2. x # 0 /\ x - 1 \in Nat /\ x - 1 \notin S
  <2>1. x \in Nat /\ x \notin S /\ x # 0
    BY <1>1
  <2>2. x - 1 \in Nat /\ (x - 1) + 1 = x
    BY <2>1
  <2> QED
    BY <2>1, <2>2
<1>3. <<x - 1, x>> \in OpToRel(<, Nat)
  BY <1>2 DEF OpToRel
<1> QED
  BY <1>1, <1>2, <1>3

Sized(seq) ==
  /\ Len(seq) \in Nat
  /\ \A n \in 1 .. Len(seq) : seq[n].size \in Nat

(* The recursion of SumTo defines a function. *)
LEMMA SumIsDefined ==
  ASSUME NEW seq, Sized(seq)
  PROVE  SumTo(seq) = [n \in 0 .. Len(seq) |->
           IF n = 0 THEN 0 ELSE SumTo(seq)[n - 1] + seq[n].size]
<1> USE DEF Sized
<1> DEFINE Rec(g, m) ==
      g = [n \in 0 .. m |-> IF n = 0 THEN 0 ELSE g[n - 1] + seq[n].size]
    S == {m \in Nat : m <= Len(seq) => \E g : Rec(g, m)}
<1>1. 0 \in S
  <2>1. Rec([n \in 0 .. 0 |-> 0], 0)
    OBVIOUS
  <2> QED
    BY <2>1
<1>2. ASSUME NEW m \in Nat, m \in S
      PROVE  m + 1 \in S
  <2> SUFFICES ASSUME m + 1 <= Len(seq)
               PROVE  \E g : Rec(g, m + 1)
    OBVIOUS
  <2>1. PICK g : Rec(g, m)
    BY <1>2
  <2> DEFINE h == [n \in 0 .. m + 1 |->
                     IF n = 0 THEN 0 ELSE g[n - 1] + seq[n].size]
  <2>2. ASSUME NEW n \in 0 .. m
        PROVE  h[n] = g[n]
    BY <2>1
  <2>3. \A n \in 0 .. m + 1 : n # 0 => h[n - 1] = g[n - 1]
    <3> SUFFICES ASSUME NEW n \in 0 .. m + 1, n # 0
                 PROVE  h[n - 1] = g[n - 1]
      OBVIOUS
    <3>1. n - 1 \in 0 .. m
      OBVIOUS
    <3> QED
      BY <2>2, <3>1
  <2>4. h = [n \in 0 .. m + 1 |->
               IF n = 0 THEN 0 ELSE h[n - 1] + seq[n].size]
    BY <2>3
  <2> QED
    BY <2>4
<1>3. Nat \subseteq S
  BY <1>1, <1>2, Induction
<1>4. \E g : Rec(g, Len(seq))
  BY <1>3
<1> QED
  BY <1>4 DEF SumTo

(* A running total starts at zero and grows by the size of each item. *)
LEMMA SumSteps ==
  ASSUME NEW seq, Sized(seq)
  PROVE  /\ SumTo(seq)[0] = 0
         /\ \A n \in 1 .. Len(seq) :
              SumTo(seq)[n] = SumTo(seq)[n - 1] + seq[n].size
         /\ \A n \in 0 .. Len(seq) : SumTo(seq)[n] \in Nat
<1> USE DEF Sized
<1> DEFINE f == SumTo(seq)
<1>1. f = [n \in 0 .. Len(seq) |->
             IF n = 0 THEN 0 ELSE f[n - 1] + seq[n].size]
  BY SumIsDefined
<1> HIDE DEF f
<1>2. f[0] = 0 /\ \A n \in 1 .. Len(seq) : f[n] = f[n - 1] + seq[n].size
  BY <1>1
<1> DEFINE S == {n \in Nat : n <= Len(seq) => f[n] \in Nat}
<1>3. 0 \in S
  BY <1>2
<1>4. ASSUME NEW n \in Nat, n \in S
      PROVE  n + 1 \in S
  <2> SUFFICES ASSUME n + 1 <= Len(seq)
               PROVE  f[n + 1] \in Nat
    OBVIOUS
  <2>1. f[n] \in Nat
    BY <1>4
  <2>2. n + 1 \in 1 .. Len(seq) /\ (n + 1) - 1 = n
    OBVIOUS
  <2>3. f[n + 1] = f[n] + seq[n + 1].size
    BY <1>2, <2>2
  <2> QED
    BY <2>1, <2>2, <2>3
<1>5. Nat \subseteq S
  BY <1>3, <1>4, Induction
<1>6. \A n \in 0 .. Len(seq) : f[n] \in Nat
  BY <1>5
<1> QED
  BY <1>2, <1>6 DEF f

(* A running total never shrinks. *)
LEMMA SumGrows ==
  ASSUME NEW seq, Sized(seq),
         NEW m \in 0 .. Len(seq), NEW n \in 0 .. Len(seq), m <= n
  PROVE  SumTo(seq)[m] <= SumTo(seq)[n]
<1> USE DEF Sized
<1> DEFINE f == SumTo(seq)
<1>1. /\ \A k \in 1 .. Len(seq) : f[k] = f[k - 1] + seq[k].size
      /\ \A k \in 0 .. Len(seq) : f[k] \in Nat
  BY SumSteps
<1> HIDE DEF f
<1> DEFINE S == {k \in Nat : m + k <= Len(seq) => f[m] <= f[m + k]}
<1>2. 0 \in S
  BY <1>1
<1>3. ASSUME NEW k \in Nat, k \in S
      PROVE  k + 1 \in S
  <2> SUFFICES ASSUME m + (k + 1) <= Len(seq)
               PROVE  f[m] <= f[m + (k + 1)]
    OBVIOUS
  <2>1. f[m] <= f[m + k]
    BY <1>3
  <2>2. /\ m + (k + 1) \in 1 .. Len(seq)
        /\ (m + (k + 1)) - 1 = m + k
        /\ m + k \in 0 .. Len(seq)
    OBVIOUS
  <2>3. f[m + (k + 1)] = f[m + k] + seq[m + (k + 1)].size
    BY <1>1, <2>2
  <2> QED
    BY <1>1, <2>1, <2>2, <2>3
<1>4. Nat \subseteq S
  BY <1>2, <1>3, Induction
<1>5. n - m \in Nat /\ m + (n - m) = n
  OBVIOUS
<1>6. n - m \in S
  BY <1>4, <1>5
<1>7. f[m] <= f[n]
  BY <1>5, <1>6
<1> QED
  BY <1>7 DEF f

(* An item added at the end leaves the totals before it. *)
LEMMA SumAppends ==
  ASSUME NEW T, NEW seq \in Seq(T), NEW e \in T, Sized(seq), e.size \in Nat
  PROVE  /\ Sized(Append(seq, e))
         /\ \A n \in 0 .. Len(seq) :
              SumTo(Append(seq, e))[n] = SumTo(seq)[n]
         /\ SumSizes(Append(seq, e)) = SumSizes(seq) + e.size
<1> DEFINE ext == Append(seq, e)
<1>1. /\ Len(ext) = Len(seq) + 1
      /\ ext[Len(seq) + 1] = e
      /\ \A n \in 1 .. Len(seq) : ext[n] = seq[n]
  OBVIOUS
<1> HIDE DEF ext
<1>2. Sized(ext)
  BY <1>1 DEF Sized
<1> DEFINE f == SumTo(seq)
           g == SumTo(ext)
<1>3. f[0] = 0 /\ \A n \in 1 .. Len(seq) : f[n] = f[n - 1] + seq[n].size
  BY SumSteps
<1>4. g[0] = 0 /\ \A n \in 1 .. Len(ext) : g[n] = g[n - 1] + ext[n].size
  BY <1>2, SumSteps
<1> HIDE DEF f, g
<1> DEFINE S == {n \in Nat : n <= Len(seq) => g[n] = f[n]}
<1>5. 0 \in S
  BY <1>3, <1>4
<1>6. ASSUME NEW n \in Nat, n \in S
      PROVE  n + 1 \in S
  <2> SUFFICES ASSUME n + 1 <= Len(seq)
               PROVE  g[n + 1] = f[n + 1]
    OBVIOUS
  <2>1. g[n] = f[n]
    BY <1>6 DEF Sized
  <2>2. n + 1 \in 1 .. Len(seq) /\ (n + 1) - 1 = n /\ n + 1 \in 1 .. Len(ext)
    BY <1>1 DEF Sized
  <2>3. f[n + 1] = f[n] + seq[n + 1].size /\ g[n + 1] = g[n] + ext[n + 1].size
    BY <1>3, <1>4, <2>2
  <2> QED
    BY <1>1, <2>1, <2>2, <2>3
<1>7. Nat \subseteq S
  BY <1>5, <1>6, Induction
<1>8. \A n \in 0 .. Len(seq) : g[n] = f[n]
  BY <1>7 DEF Sized
<1>9. g[Len(ext)] = f[Len(seq)] + e.size
  BY <1>1, <1>4, <1>8 DEF Sized
<1> QED
  BY <1>2, <1>8, <1>9 DEF f, g, ext, SumSizes

-----------------------------------------------------------------------------
(* The request *)

(* What the assumption says of a request. *)
LEMMA RequestFacts ==
  ASSUME request \in Requests
  PROVE  /\ request \in Seq(ReadRange)
         /\ Len(request) \in Nat \ {0}
         /\ DOMAIN request = 1 .. Len(request)
         /\ \A a \in DOMAIN request :
              request[a] \in ReadRange /\ request[a].size <= MaxBytes
         /\ Sized(request)
         /\ MaxBytes \in Nat
<1> DEFINE R == [file : Nat, offset : Nat, size : 0 .. MaxBytes, dst : Nat]
<1>1. request \in Seq(R) /\ request # <<>> /\ MaxBytes \in Nat
  BY AssignerAssumption
<1>2. \A r \in R : r \in ReadRange /\ r.size <= MaxBytes /\ r.size \in Nat
  BY <1>1 DEF ReadRange
<1> HIDE DEF R
<1>3. /\ Len(request) \in Nat \ {0}
      /\ DOMAIN request = 1 .. Len(request)
      /\ \A a \in DOMAIN request : request[a] \in R
  BY <1>1, EmptySeq, LenProperties, ElementOfSeq
<1>4. request \in Seq(ReadRange)
  BY <1>1, <1>2, SeqMonotonic
<1> QED
  BY <1>1, <1>2, <1>3, <1>4 DEF Sized

(* The totals of the request. *)
LEMMA TotalFacts ==
  ASSUME request \in Requests
  PROVE  /\ Total[0] = 0
         /\ \A a \in DOMAIN request : Total[a] = Total[a - 1] + request[a].size
         /\ \A a \in 0 .. Len(request) : Total[a] \in Nat
         /\ \A a, b \in 0 .. Len(request) : a <= b => Total[a] <= Total[b]
<1>1. Sized(request) /\ DOMAIN request = 1 .. Len(request)
  BY RequestFacts
<1>2. /\ Total[0] = 0
      /\ \A a \in DOMAIN request : Total[a] = Total[a - 1] + request[a].size
      /\ \A a \in 0 .. Len(request) : Total[a] \in Nat
  BY <1>1, SumSteps DEF Total
<1>3. \A a, b \in 0 .. Len(request) : a <= b => Total[a] <= Total[b]
  BY <1>1, SumGrows DEF Total
<1> QED
  BY <1>2, <1>3

Fellows(a) == {j \in 1 .. a - 1 : request[j].file = request[a].file}

(* Indices within a file are numbers that grow along the request. *)
LEMMA IndexGrows ==
  ASSUME request \in Requests
  PROVE  /\ \A a \in DOMAIN request : IndexInFile(a) \in Nat
         /\ \A a, b \in DOMAIN request :
              a < b /\ request[a].file = request[b].file
                => IndexInFile(a) < IndexInFile(b)
<1>1. DOMAIN request = 1 .. Len(request) /\ Len(request) \in Nat
  BY RequestFacts
<1>2. ASSUME NEW a \in DOMAIN request
      PROVE  /\ IsFiniteSet(Fellows(a))
             /\ Cardinality(Fellows(a)) \in Nat
             /\ IndexInFile(a) = Cardinality(Fellows(a))
  <2>1. IsFiniteSet(1 .. a - 1)
    BY <1>1, FS_Interval
  <2>2. Fellows(a) \subseteq 1 .. a - 1
    BY DEF Fellows
  <2>3. IsFiniteSet(Fellows(a))
    BY <2>1, <2>2, FS_Subset
  <2> QED
    BY <2>3, FS_CardinalityType DEF Fellows, IndexInFile
<1>3. ASSUME NEW a \in DOMAIN request, NEW b \in DOMAIN request,
             a < b, request[a].file = request[b].file
      PROVE  IndexInFile(a) < IndexInFile(b)
  <2>1. Fellows(a) \subseteq Fellows(b)
    BY <1>1, <1>3 DEF Fellows
  <2>2. a \in Fellows(b) /\ a \notin Fellows(a)
    BY <1>1, <1>3 DEF Fellows
  <2>3. Fellows(a) # Fellows(b)
    BY <2>2
  <2>4. Cardinality(Fellows(a)) < Cardinality(Fellows(b))
    BY <1>2, <2>1, <2>3, FS_Subset
  <2> QED
    BY <1>2, <2>4
<1> QED
  BY <1>2, <1>3

(* A range has an index and a file that no other one has. *)
LEMMA IndexIsUnique ==
  ASSUME request \in Requests,
         NEW a \in DOMAIN request, NEW b \in DOMAIN request,
         request[a].file = request[b].file, IndexInFile(a) = IndexInFile(b)
  PROVE  a = b
<1>1. a \in Nat /\ b \in Nat
  BY RequestFacts
<1>2. IndexInFile(a) \in Nat
  BY IndexGrows
<1>3. ~(a < b) /\ ~(b < a)
  BY <1>2, IndexGrows
<1> QED
  BY <1>1, <1>3

(* The next range of the same file has the next index. *)
LEMMA IndexSteps ==
  ASSUME request \in Requests,
         NEW a \in DOMAIN request, a + 1 \in DOMAIN request,
         request[a].file = request[a + 1].file
  PROVE  IndexInFile(a + 1) = IndexInFile(a) + 1
<1>1. a \in Nat
  BY RequestFacts
<1>2. Fellows(a + 1) = Fellows(a) \cup {a} /\ a \notin Fellows(a)
  <2>1. (a + 1) - 1 = a /\ 1 .. a = 1 .. (a - 1) \cup {a} /\ a \notin 1 .. (a - 1)
    <3>1. a # 0
      BY RequestFacts
    <3> QED
      BY <1>1, <3>1
  <2> QED
    BY <2>1, Zenon DEF Fellows
<1>3. IsFiniteSet(Fellows(a))
  <2>1. IsFiniteSet(1 .. a - 1) /\ Fellows(a) \subseteq 1 .. a - 1
    BY <1>1, FS_Interval DEF Fellows
  <2> QED
    BY <2>1, FS_Subset
<1>4. Cardinality(Fellows(a) \cup {a}) = Cardinality(Fellows(a)) + 1
  BY <1>2, <1>3, FS_AddElement
<1> QED
  BY <1>2, <1>4 DEF Fellows, IndexInFile

-----------------------------------------------------------------------------
(* Assigner::bytes_per_worker *)

(* A product of two numbers is one, and not less than a factor. *)
LEMMA ProductFacts ==
  ASSUME NEW m \in Nat, NEW n \in Nat
  PROVE  /\ m * n \in Nat
         /\ (m + 1) * n = m * n + n
         /\ n # 0 => (m \div n) \in Nat /\ n * (m \div n) <= m
  OBVIOUS

(* The shares of the workloads are the bytes of the request. *)
LEMMA ShareFacts ==
  ASSUME total \in Nat
  PROVE  /\ NumWorkloads \in 1 .. NumWorkers
         /\ \A w \in Nat : Target(w) \in Nat /\ Share(w) \in Nat
         /\ \A w \in Nat : Share(w + 1) = Share(w) + Target(w)
         /\ Share(NumWorkloads) = total
<1>1. NumWorkers \in Nat \ {0} /\ BlockSize \in Nat \ {0}
  BY AssignerAssumption
<1>2. NumBlocks \in Nat /\ NumBlocks * BlockSize <= total
  BY <1>1 DEF NumBlocks
<1>3. NumWorkloads \in 1 .. NumWorkers
  BY <1>1, <1>2 DEF NumWorkloads, MinOf, MaxOf
<1> DEFINE each == NumBlocks \div NumWorkloads
<1>4. each \in Nat /\ NumWorkloads * each <= NumBlocks
  BY <1>2, <1>3
<1> HIDE DEF each
<1>5. BaseBytes \in Nat /\ BaseBytes = each * BlockSize
  BY <1>1, <1>4 DEF BaseBytes, each
<1>6. NumWorkloads * BaseBytes <= NumBlocks * BlockSize
  <2>1. NumWorkloads * BaseBytes = (NumWorkloads * each) * BlockSize
    BY <1>1, <1>3, <1>4, <1>5
  <2>2. \A x, y, z \in Nat : x <= y => x * z <= y * z
    OBVIOUS
  <2>3. NumWorkloads * each \in Nat
    BY <1>3, <1>4
  <2> QED
    BY <1>1, <1>2, <1>4, <2>1, <2>2, <2>3
<1>7. NumWorkloads * BaseBytes \in Nat
  BY <1>3, <1>5
<1>8. Remainder \in Nat /\ NumWorkloads * BaseBytes + Remainder = total
  <2> DEFINE p == NumWorkloads * BaseBytes
             q == NumBlocks * BlockSize
  <2>1. p \in Nat /\ q \in Nat /\ p <= q /\ q <= total
    BY <1>1, <1>2, <1>6, <1>7
  <2>2. Remainder = total - p
    BY DEF Remainder
  <2> HIDE DEF p, q
  <2>3. Remainder \in Nat /\ p + Remainder = total
    BY <2>1, <2>2
  <2> QED
    BY <2>3 DEF p
<1>9. \A w \in Nat : Target(w) \in Nat
  BY <1>5, <1>8 DEF Target
<1>10. ASSUME NEW w \in Nat
       PROVE  Share(w) \in Nat /\ Share(w + 1) = Share(w) + Target(w)
  <2>1. CASE w = 0
    BY <1>5, <1>8, <2>1 DEF Share, Target
  <2>2. CASE w # 0
    <3>1. w - 1 \in Nat /\ (w + 1) - 1 = (w - 1) + 1
      BY <2>2
    <3>2. (w - 1) * BaseBytes \in Nat
      BY <1>5, <3>1, ProductFacts
    <3>3. ((w - 1) + 1) * BaseBytes = (w - 1) * BaseBytes + BaseBytes
      BY <1>5, <3>1, ProductFacts
    <3>4. /\ Share(w) = Target(0) + (w - 1) * BaseBytes
          /\ Share(w + 1) = Target(0) + ((w + 1) - 1) * BaseBytes
          /\ Target(w) = BaseBytes
      BY <2>2 DEF Share, Target
    <3> HIDE DEF Target
    <3> QED
      BY <1>5, <1>9, <3>1, <3>2, <3>3, <3>4
  <2> QED
    BY <2>1, <2>2
<1>11. Share(NumWorkloads) = total
  <2>1. NumWorkloads - 1 \in Nat /\ (NumWorkloads - 1) + 1 = NumWorkloads
    BY <1>3
  <2>2. NumWorkloads * BaseBytes = (NumWorkloads - 1) * BaseBytes + BaseBytes
    BY <1>5, <2>1, ProductFacts
  <2>3. (NumWorkloads - 1) * BaseBytes \in Nat
    BY <1>5, <2>1, ProductFacts
  <2>4. Share(NumWorkloads)
          = BaseBytes + Remainder + (NumWorkloads - 1) * BaseBytes
    BY <1>3 DEF Share, Target
  <2> QED
    BY <1>5, <1>8, <2>2, <2>3, <2>4
<1> QED
  BY <1>3, <1>9, <1>10, <1>11

-----------------------------------------------------------------------------
(* Assigner::coalesce *)

(* What is said of the request stays as long as the request does. *)
LEMMA SameRequest ==
  ASSUME request' = request
  PROVE  /\ Total' = Total
         /\ \A a : IndexInFile(a)' = IndexInFile(a)
  BY DEF Total, IndexInFile

(* A transfer that keeps its file and its index keeps its start. *)
LEMMA SameStart ==
  ASSUME request' = request, NEW i,
         transfers'[i].file = transfers[i].file,
         transfers'[i].first = transfers[i].first
  PROVE  Start(i)' = Start(i)
  BY SameRequest DEF Start

(* What a transfer covers it still covers when there are more. *)
LEMMA SameCovers ==
  ASSUME request' = request, NEW i, transfers'[i] = transfers[i],
         Covered \in Nat, Covered' \in Nat, Covered <= Covered',
         NEW a \in Nat, NEW n \in Nat, Covers(i, a, n)
  PROVE  Covers(i, a, n)'
  BY SameRequest DEF Covers

(* At first nothing is covered. *)
LEMMA InitInv == Init => IInv
<1> SUFFICES ASSUME Init
             PROVE  IInv
  OBVIOUS
<1>1. TypeOK
  BY DEF Init, TypeOK, PlanTypeOK, WorkTypeOK
<1>2. Coalesced
  <2>1. Covered = 0 /\ Len(request) \in Nat /\ Total[0] = 0 /\ MaxBytes \in Nat
    BY RequestFacts, TotalFacts DEF Init, Covered
  <2>2. DOMAIN transfers = {} /\ phase # "rejected" /\ total = 0
    BY DEF Init
  <2> QED
    BY <2>1, <2>2 DEF Coalesced, From
<1>3. Assigned /\ Built
  BY DEF Init, Assigned, Built
<1> QED
  BY <1>1, <1>2, <1>3 DEF IInv

(* The facts of an iteration of the loop in coalesce. *)
LEMMA CoalesceFacts ==
  ASSUME IInv, CoalesceRange
  PROVE  /\ request' = request /\ request \in Requests
         /\ next \in DOMAIN request
         /\ request[next] \in ReadRange
         /\ Covered = next - 1 /\ Covered' = next
         /\ Total' = Total
         /\ Total[next] = Total[next - 1] + request[next].size
         /\ total' = total + request[next].size
         /\ total' <= MaxBytes
         /\ total' = Total[next]
<1>1. /\ request' = request /\ phase' = phase /\ phase = "coalesce"
      /\ next' = next + 1 /\ next <= Len(request)
      /\ total' = total + request[next].size
      /\ Fits(request[next])
  BY DEF CoalesceRange
<1>2. request \in Requests /\ next \in Nat \ {0} /\ total \in Nat
  BY DEF IInv, TypeOK, PlanTypeOK
<1>3. /\ next \in DOMAIN request
      /\ request[next] \in ReadRange
      /\ MaxBytes \in Nat
  BY <1>1, <1>2, RequestFacts
<1>4. Covered = next - 1 /\ Covered' = next
  BY <1>1, <1>2 DEF Covered
<1>5. Total[next] = Total[next - 1] + request[next].size
  BY <1>2, <1>3, TotalFacts
<1>6. total' <= MaxBytes
  BY <1>1, <1>2, <1>3 DEF Fits, ReadRange
<1>7. total = Total[next - 1]
  BY <1>4 DEF IInv, Coalesced
<1> QED
  BY <1>1, <1>2, <1>3, <1>4, <1>5, <1>6, <1>7, SameRequest

(* A range that extends the open transfer. *)
LEMMA ExtendTransfers ==
  ASSUME IInv, CoalesceRange, Extends(request[next])
  PROVE  /\ transfers # <<>>
         /\ transfers' \in Seq(Transfer)
         /\ Len(transfers') = Len(transfers)
         /\ \A i \in 1 .. Len(transfers) - 1 : transfers'[i] = transfers[i]
         /\ LET t == transfers[Len(transfers)]
            IN transfers'[Len(transfers)]
                 = [t EXCEPT !.size = @ + request[next].size,
                             !.sizes = Append(@, request[next].size)]
<1> DEFINE L == Len(transfers)
           t == transfers[L]
           new == [t EXCEPT !.size = @ + request[next].size,
                            !.sizes = Append(@, request[next].size)]
           front == SubSeq(transfers, 1, L - 1)
<1>1. transfers \in Seq(Transfer) /\ transfers # <<>>
  BY DEF IInv, TypeOK, PlanTypeOK, Extends
<1>2. L \in Nat \ {0} /\ t \in Transfer
  BY <1>1, EmptySeq, ElementOfSeq
<1>3. transfers' = Append(front, new)
  BY <1>1 DEF CoalesceRange, Last, Front
<1>4. new \in Transfer
  <2>1. t.size + request[next].size \in Nat /\ request[next].size \in Nat
    BY <1>2, CoalesceFacts DEF Transfer, ReadRange
  <2>2. Append(t.sizes, request[next].size) \in Seq(Nat)
    BY <1>2, <2>1, AppendProperties DEF Transfer
  <2> QED
    BY <1>2, <2>1, <2>2 DEF Transfer
<1>5. /\ front \in Seq(Transfer)
      /\ Len(front) = L - 1
      /\ \A i \in 1 .. L - 1 : front[i] = transfers[i]
  <2>1. \A i \in 1 .. L - 1 : transfers[i] \in Transfer
    BY <1>1, <1>2, ElementOfSeq
  <2> HIDE DEF L
  <2>2. 1 \in Int /\ L - 1 \in Int /\ (L - 1) - 1 + 1 = L - 1
    BY <1>2
  <2>3. IF 1 <= L - 1 THEN (L - 1) - 1 + 1 = L - 1 ELSE 0 = L - 1
    BY <1>2
  <2>4. \A i \in 1 .. L - 1 : 1 + i - 1 = i
    OBVIOUS
  <2> QED
    BY <2>1, <2>2, <2>3, <2>4, SubSeqProperties
<1> HIDE DEF new, front
<1>6. /\ Append(front, new) \in Seq(Transfer)
      /\ Len(Append(front, new)) = Len(front) + 1
      /\ \A i \in 1 .. Len(front) : Append(front, new)[i] = front[i]
      /\ Append(front, new)[Len(front) + 1] = new
  BY <1>4, <1>5, AppendProperties
<1>7. Len(front) + 1 = L
  BY <1>2, <1>5
<1> QED
  BY <1>1, <1>3, <1>5, <1>6, <1>7 DEF new

(* A range that opens a transfer. *)
LEMMA OpenTransfer ==
  ASSUME IInv, CoalesceRange, ~Extends(request[next])
  PROVE  /\ transfers' \in Seq(Transfer)
         /\ Len(transfers') = Len(transfers) + 1
         /\ \A i \in 1 .. Len(transfers) : transfers'[i] = transfers[i]
         /\ transfers'[Len(transfers) + 1]
              = [file |-> request[next].file, offset |-> request[next].offset,
                 size |-> request[next].size, dst |-> request[next].dst,
                 first |-> IndexInFile(next), sizes |-> <<request[next].size>>]
<1> DEFINE new ==
      [file |-> request[next].file, offset |-> request[next].offset,
       size |-> request[next].size, dst |-> request[next].dst,
       first |-> IndexInFile(next), sizes |-> <<request[next].size>>]
<1>1. transfers \in Seq(Transfer)
  BY DEF IInv, TypeOK, PlanTypeOK
<1>2. new \in Transfer
  <2>1. request[next] \in ReadRange /\ IndexInFile(next) \in Nat
    BY CoalesceFacts, IndexGrows
  <2>2. <<request[next].size>> \in Seq(Nat)
    BY <2>1 DEF ReadRange
  <2> QED
    BY <2>1, <2>2 DEF Transfer, ReadRange
<1>3. transfers' = Append(transfers, new)
  BY DEF CoalesceRange
<1> HIDE DEF new
<1>4. /\ Append(transfers, new) \in Seq(Transfer)
      /\ Len(Append(transfers, new)) = Len(transfers) + 1
      /\ \A i \in 1 .. Len(transfers) : Append(transfers, new)[i] = transfers[i]
      /\ Append(transfers, new)[Len(transfers) + 1] = new
  BY <1>1, <1>2, AppendProperties
<1> QED
  BY <1>3, <1>4 DEF new

(* A transfer that was opened by the next range starts with it. *)
LEMMA OpenedStart ==
  ASSUME request' = request, request \in Requests, NEW i,
         next \in DOMAIN request,
         transfers'[i].file = request[next].file,
         transfers'[i].first = IndexInFile(next)
  PROVE  Start(i)' = next
<1>1. Start(i)' = CHOOSE a \in DOMAIN request :
                    /\ request[a].file = request[next].file
                    /\ IndexInFile(a) = IndexInFile(next)
  BY SameRequest DEF Start
<1> QED
  BY <1>1, IndexIsUnique

(* The open transfer, its first range and how many it has. *)
OpenIs(L, a, n) ==
  L = Len(transfers) /\ a = Start(L) /\ n = Len(transfers[L].sizes)

(* The last of n numbers from a on, and the one after it. *)
LEMMA LastOf ==
  ASSUME NEW a \in Nat \ {0}, NEW n \in Nat \ {0}, NEW m, m = a + n
  PROVE  /\ a + n - 1 = m - 1 /\ m \in Nat /\ m - 1 \in Nat \ {0}
         /\ a + (n + 1) - 1 = m /\ a + (n + 1) - 2 = m - 1
         /\ n \in 1 .. n
  OBVIOUS

(* The bytes of the open transfer and of the range that extends it. *)
LEMMA ExtendCovers ==
  ASSUME IInv, CoalesceRange, Extends(request[next]),
         NEW L, NEW a, NEW n, OpenIs(L, a, n)
  PROVE  /\ Start(L)' = a
         /\ Covers(L, a, n + 1)'
         /\ Len(transfers'[L].sizes) = n + 1
<1> DEFINE t == transfers[L]
           r == request[next]
<1>1. /\ transfers # <<>>
      /\ transfers'[L] = [t EXCEPT !.size = @ + r.size,
                                   !.sizes = Append(@, r.size)]
  BY ExtendTransfers DEF OpenIs
<1>2. L \in DOMAIN transfers /\ L \in Nat \ {0} /\ t \in Transfer
  <2>1. transfers \in Seq(Transfer)
    BY DEF IInv, TypeOK, PlanTypeOK
  <2>2. L \in Nat \ {0} /\ DOMAIN transfers = 1 .. L
    BY <1>1, <2>1, EmptySeq, LenProperties DEF OpenIs
  <2> QED
    BY <2>1, <2>2, ElementOfSeq
<1>3. /\ t.sizes \in Seq(Nat) /\ n \in Nat /\ r.size \in Nat
      /\ {t.size, t.offset, t.dst, t.first, r.offset, r.dst} \subseteq Nat
  BY <1>2, CoalesceFacts, LenProperties DEF Transfer, ReadRange, OpenIs
<1>4. /\ transfers'[L].file = t.file
      /\ transfers'[L].first = t.first
      /\ transfers'[L].offset = t.offset
      /\ transfers'[L].dst = t.dst
      /\ transfers'[L].size = t.size + r.size
      /\ transfers'[L].sizes = Append(t.sizes, r.size)
  BY <1>1, <1>2 DEF Transfer
<1>5. /\ Len(transfers'[L].sizes) = n + 1
      /\ \A k \in 1 .. n : transfers'[L].sizes[k] = t.sizes[k]
      /\ transfers'[L].sizes[n + 1] = r.size
  BY <1>3, <1>4, AppendProperties DEF OpenIs
<1>6. Start(L)' = a
  BY <1>4, CoalesceFacts, SameStart DEF OpenIs
<1>7. /\ Covers(L, a, n)
      /\ From(L + 1) = From(L) + n
      /\ From(L) = a /\ From(L + 1) = next
  <2>1. Covers(L, a, n) /\ From(L + 1) = From(L) + n
    BY <1>2 DEF IInv, Coalesced, OpenIs
  <2>2. L + 1 \notin DOMAIN transfers
    <3>1. DOMAIN transfers = 1 .. L
      BY LenProperties DEF IInv, TypeOK, PlanTypeOK, OpenIs
    <3> QED
      BY <1>2, <3>1
  <2>3. next \in Nat /\ Covered = next - 1
    BY CoalesceFacts, RequestFacts
  <2> QED
    BY <1>2, <2>1, <2>2, <2>3 DEF From, OpenIs
<1>8. next = a + n /\ n >= 1 /\ n \in Nat \ {0} /\ a \in Nat \ {0} /\ next \in Nat
  <2>1. n >= 1 /\ a \in 1 .. Covered
    BY <1>7 DEF Covers
  <2>2. next \in 1 .. Len(request) /\ Len(request) \in Nat /\ Covered = next - 1
    BY CoalesceFacts, RequestFacts
  <2> QED
    BY <1>3, <1>7, <2>1, <2>2
<1>9. /\ r.file = t.file
      /\ t.offset + t.size = r.offset
      /\ t.dst + t.size = r.dst
  <2>1. Last(transfers) = t
    BY DEF Last, OpenIs
  <2> QED
    BY <2>1 DEF Extends
<1>10. IndexInFile(next) = t.first + n
  <2>1. a + n - 1 = next - 1 /\ next - 1 \in DOMAIN request
    <3>1. DOMAIN request = 1 .. Len(request) /\ Len(request) \in Nat
      BY CoalesceFacts, RequestFacts
    <3>2. next \in DOMAIN request
      BY CoalesceFacts
    <3>3. a + n - 1 = next - 1 /\ next - 1 \in Nat \ {0}
      BY <1>8, LastOf
    <3> QED
      BY <1>8, <3>1, <3>2, <3>3
  <2>2. /\ request[next - 1].file = t.file
        /\ IndexInFile(next - 1) = t.first + n - 1
    <3>1. n \in 1 .. n
      BY <1>8, LastOf
    <3> QED
      BY <1>7, <2>1, <3>1 DEF Covers
  <2>3. next - 1 + 1 = next
    BY <1>8
  <2>4. IndexInFile(next) = IndexInFile(next - 1) + 1
    BY <1>9, <2>1, <2>2, <2>3, CoalesceFacts, IndexSteps
  <2>5. t.first \in Nat
    BY <1>3
  <2> QED
    BY <1>8, <2>2, <2>4, <2>5
<1>11. /\ Total[a - 1] \in Nat /\ Total[next - 1] \in Nat /\ Total[next] \in Nat
       /\ t.size + Total[a - 1] = Total[next - 1]
       /\ Total[next] = Total[next - 1] + r.size
  <2>1. a - 1 \in 0 .. Len(request) /\ next - 1 \in 0 .. Len(request)
          /\ next \in 0 .. Len(request)
    <3>1. DOMAIN request = 1 .. Len(request) /\ Len(request) \in Nat
      BY CoalesceFacts, RequestFacts
    <3>2. next \in DOMAIN request
      BY CoalesceFacts
    <3> QED
      BY <1>8, <3>1, <3>2
  <2>2. a + n - 1 = next - 1
    BY <1>8
  <2> QED
    BY <1>7, <2>1, <2>2, CoalesceFacts, TotalFacts DEF Covers
<1>0. /\ t.first \in Nat /\ t.size \in Nat /\ t.offset \in Nat /\ t.dst \in Nat
      /\ r.size \in Nat
  BY <1>3
<1> HIDE DEF t, r
<1>12. Covers(L, a, n + 1)'
  <2>1. ASSUME NEW k \in 1 .. n + 1
        PROVE  /\ request[a + k - 1].file = t.file
               /\ request[a + k - 1].size = transfers'[L].sizes[k]
               /\ IndexInFile(a + k - 1) = t.first + k - 1
               /\ request[a + k - 1].offset + Total[a - 1]
                    = t.offset + Total[a + k - 2]
               /\ request[a + k - 1].dst + Total[a - 1]
                    = t.dst + Total[a + k - 2]
    <3>1. CASE k \in 1 .. n
      BY <1>5, <1>7, <3>1 DEF Covers, t
    <3>2. CASE k = n + 1
      <4>1. a + k - 1 = next /\ a + k - 2 = next - 1
        BY <1>8, <3>2, LastOf
      <4>2. t.first + k - 1 = t.first + n
        BY <1>0, <1>8, <3>2
      <4> QED
        <5>1. request[next] = r
          BY DEF r
        <5>2. /\ r.offset + Total[a - 1] = t.offset + Total[next - 1]
              /\ r.dst + Total[a - 1] = t.dst + Total[next - 1]
          <6> DEFINE p == Total[a - 1]
                     q == Total[next - 1]
          <6>1. p \in Nat /\ q \in Nat /\ t.size + p = q
            BY <1>11
          <6> HIDE DEF p, q
          <6>2. r.offset + p = t.offset + q /\ r.dst + p = t.dst + q
            BY <1>0, <1>9, <6>1
          <6> QED
            BY <6>2 DEF p, q
        <5> QED
          BY <1>5, <1>9, <1>10, <3>2, <4>1, <4>2, <5>1, <5>2
    <3> QED
      BY <1>8, <3>1, <3>2
  <2>2. t.size + r.size + Total[a - 1] = Total[a + (n + 1) - 1]
    <3>1. a + (n + 1) - 1 = next
      BY <1>8
    <3> QED
      BY <1>0, <1>11, <3>1
  <2>3. /\ n + 1 >= 1 /\ a \in 1 .. Covered' /\ a + (n + 1) - 1 <= Covered'
    <3>1. Covered' = next
      BY CoalesceFacts
    <3> QED
      BY <1>8, <3>1
  <2> QED
    BY <1>4, <1>6, <2>1, <2>2, <2>3, CoalesceFacts, SameRequest DEF Covers, t
<1> QED
  BY <1>5, <1>6, <1>12

(* The range that opens a transfer is all that it covers. *)
LEMMA OpenCovers ==
  ASSUME IInv, CoalesceRange, ~Extends(request[next]),
         NEW K, K = Len(transfers) + 1,
         NEW a, a = next
  PROVE  /\ Start(K)' = a
         /\ Covers(K, a, 1)'
         /\ Len(transfers'[K].sizes) = 1
<1> DEFINE r == request[next]
<1>1. transfers'[K] = [file |-> r.file, offset |-> r.offset, size |-> r.size,
                       dst |-> r.dst, first |-> IndexInFile(next),
                       sizes |-> <<r.size>>]
  BY OpenTransfer
<1>2. Start(K)' = a
  BY <1>1, CoalesceFacts, OpenedStart
<1>3. /\ r \in ReadRange /\ IndexInFile(next) \in Nat
      /\ next \in Nat \ {0} /\ Total[next - 1] \in Nat
      /\ Total[next] = Total[next - 1] + r.size
  <2>1. next \in 1 .. Len(request) /\ Len(request) \in Nat
    BY CoalesceFacts, RequestFacts
  <2>2. next - 1 \in 0 .. Len(request)
    BY <2>1
  <2> QED
    BY <2>1, <2>2, CoalesceFacts, IndexGrows, TotalFacts
<1>4. /\ next + 1 - 1 = next /\ next + 1 - 2 = next - 1
      /\ IndexInFile(next) + 1 - 1 = IndexInFile(next)
  BY <1>3
<1> HIDE DEF r
<1>5. Covers(K, a, 1)'
  <2>1. /\ 1 >= 1 /\ a \in 1 .. Covered' /\ a + 1 - 1 <= Covered'
    BY <1>3, CoalesceFacts
  <2>2. \A k \in 1 .. 1 : k = 1
    OBVIOUS
  <2>3. r.size + Total[next - 1] = Total[next + 1 - 1]
    BY <1>3, <1>4 DEF ReadRange
  <2> QED
    BY <1>1, <1>4, <2>1, <2>2, <2>3, CoalesceFacts, SameRequest DEF Covers, r
<1> QED
  BY <1>1, <1>2, <1>5

(* The transfers that are not touched cover what they did. *)
LEMMA OtherTransfers ==
  ASSUME IInv, CoalesceRange,
         NEW i \in DOMAIN transfers, transfers'[i] = transfers[i]
  PROVE  /\ Start(i)' = Start(i)
         /\ Covers(i, Start(i), Len(transfers[i].sizes))'
         /\ From(i) = Start(i)
<1>1. /\ Covers(i, Start(i), Len(transfers[i].sizes))
      /\ transfers[i] \in Transfer
  BY ElementOfSeq, LenProperties
     DEF IInv, TypeOK, PlanTypeOK, Coalesced
<1>2. Start(i)' = Start(i)
  BY CoalesceFacts, SameStart
<1>3. /\ Covered \in Nat /\ Covered' \in Nat /\ Covered <= Covered'
  <2>1. next \in Nat \ {0}
    BY DEF IInv, TypeOK, PlanTypeOK
  <2> QED
    BY <2>1, CoalesceFacts
<1> DEFINE a == Start(i)
           n == Len(transfers[i].sizes)
<1>4. a \in Nat /\ n \in Nat
  <2>1. n \in Nat
    BY <1>1, LenProperties DEF Transfer
  <2>2. a \in 1 .. Covered
    BY <1>1 DEF Covers
  <2> QED
    BY <1>3, <2>1, <2>2
<1>5. Covers(i, a, n)
  BY <1>1
<1>6. a' = a /\ n' = n
  BY <1>2
<1> HIDE DEF a, n
<1>7. \A x, y \in Nat : Covers(i, x, y) => Covers(i, x, y)'
  BY <1>3, CoalesceFacts, SameCovers
<1>8. Covers(i, a, n)'
  BY <1>4, <1>5, <1>6, <1>7 DEF Covers
<1> QED
  BY <1>2, <1>8 DEF a, n, From

(* What an iteration of coalesce says of one transfer and the next. *)
CoveredAt(i) ==
  /\ Covers(i, Start(i), Len(transfers[i].sizes))
  /\ From(i + 1) = From(i) + Len(transfers[i].sizes)

(* The transfers and their starts after the range extends the open one. *)
LEMMA ExtendCovered ==
  ASSUME IInv, CoalesceRange, Extends(request[next])
  PROVE  /\ From(1)' = 1
         /\ \A i \in DOMAIN transfers' : CoveredAt(i)'
<1>1. /\ transfers # <<>> /\ transfers' \in Seq(Transfer)
      /\ Len(transfers') = Len(transfers)
      /\ \A i \in 1 .. Len(transfers) - 1 : transfers'[i] = transfers[i]
  BY ExtendTransfers
<1>2. PICK l, a, n : OpenIs(l, a, n)
  BY DEF OpenIs
<1>3. /\ l \in Nat \ {0}
      /\ DOMAIN transfers = 1 .. l /\ DOMAIN transfers' = 1 .. l
      /\ \A i \in 1 .. l - 1 : transfers'[i] = transfers[i]
  <2>1. transfers \in Seq(Transfer)
    BY DEF IInv, TypeOK, PlanTypeOK
  <2> QED
    BY <1>1, <1>2, <2>1, EmptySeq, LenProperties DEF OpenIs
<1>4. /\ Start(l)' = a /\ a = Start(l) /\ n = Len(transfers[l].sizes)
      /\ Covers(l, a, n + 1)'
      /\ Len(transfers'[l].sizes) = n + 1
  BY <1>2, ExtendCovers DEF OpenIs
<1>5. /\ From(1) = 1
      /\ \A i \in 1 .. l : From(i + 1) = From(i) + Len(transfers[i].sizes)
      /\ From(l + 1) = next /\ next \in Nat /\ n \in Nat
  <2>1. l + 1 \notin 1 .. l
    BY <1>3
  <2>2. From(l + 1) = next /\ next \in Nat
    BY <1>3, <2>1, CoalesceFacts, RequestFacts DEF From
  <2>3. transfers[l] \in Transfer
    BY <1>3, ElementOfSeq, LenProperties DEF IInv, TypeOK, PlanTypeOK
  <2>4. n \in Nat
    BY <1>4, <2>3, LenProperties DEF Transfer
  <2> QED
    BY <1>3, <2>2, <2>4 DEF IInv, Coalesced
<1>6. \A i \in 1 .. l - 1 :
         /\ Start(i)' = Start(i)
         /\ Covers(i, Start(i), Len(transfers[i].sizes))'
  BY <1>3, OtherTransfers
<1>7. ASSUME NEW i \in 1 .. l
      PROVE  From(i)' = From(i)
  <2>1. From(i)' = Start(i)' /\ From(i) = Start(i)
    BY <1>3 DEF From
  <2>2. CASE i = l
    BY <1>4, <2>1, <2>2
  <2>3. CASE i \in 1 .. l - 1
    BY <1>6, <2>1, <2>3
  <2> QED
    BY <1>3, <2>2, <2>3
<1>8. From(l + 1)' = next + 1
  <2>1. l + 1 \notin 1 .. l
    BY <1>3
  <2> QED
    BY <1>3, <2>1, CoalesceFacts DEF From
<1>9. From(1)' = 1
  BY <1>3, <1>5, <1>7
<1>10. ASSUME NEW i \in 1 .. l
       PROVE  CoveredAt(i)'
  <2>1. CASE i = l
    <3>1. Covers(i, Start(i), Len(transfers[i].sizes))'
      BY <1>4, <2>1 DEF Covers
    <3>2. From(i)' = From(i) /\ From(i + 1)' = next + 1
      BY <1>7, <1>8, <2>1
    <3>3. next = From(i) + n
      BY <1>4, <1>5, <2>1
    <3>4. From(i) \in Nat
      <4>1. From(i) = Start(i) /\ Start(i) \in 1 .. Covered
        BY <1>3 DEF From, IInv, Coalesced, Covers
      <4> QED
        BY <1>5, <4>1, CoalesceFacts
    <3>5. next + 1 = From(i) + (n + 1)
      BY <1>5, <3>3, <3>4
    <3> QED
      BY <1>4, <2>1, <3>1, <3>2, <3>5 DEF CoveredAt
  <2>2. CASE i \in 1 .. l - 1
    <3>1. i + 1 \in 1 .. l
      BY <1>3, <2>2
    <3>2. /\ From(i)' = From(i) /\ From(i + 1)' = From(i + 1)
          /\ transfers'[i] = transfers[i]
      BY <1>3, <1>7, <2>2, <3>1
    <3> QED
      BY <1>5, <1>6, <2>2, <3>2 DEF CoveredAt
  <2> QED
    BY <1>3, <2>1, <2>2
<1> QED
  BY <1>3, <1>9, <1>10

(* The transfers and their starts after the range opens one. *)
LEMMA OpenCovered ==
  ASSUME IInv, CoalesceRange, ~Extends(request[next])
  PROVE  /\ From(1)' = 1
         /\ \A i \in DOMAIN transfers' : CoveredAt(i)'
<1>1. PICK l, a : l = Len(transfers) /\ a = next
  OBVIOUS
<1>2. /\ l \in Nat
      /\ DOMAIN transfers = 1 .. l /\ DOMAIN transfers' = 1 .. l + 1
      /\ \A i \in 1 .. l : transfers'[i] = transfers[i]
  <2>1. transfers \in Seq(Transfer)
    BY DEF IInv, TypeOK, PlanTypeOK
  <2>2. /\ transfers' \in Seq(Transfer)
        /\ Len(transfers') = Len(transfers) + 1
        /\ \A i \in 1 .. Len(transfers) : transfers'[i] = transfers[i]
    BY OpenTransfer
  <2> QED
    BY <1>1, <2>1, <2>2, LenProperties
<1>3. /\ Start(l + 1)' = a
      /\ Covers(l + 1, a, 1)'
      /\ Len(transfers'[l + 1].sizes) = 1
  BY <1>1, OpenCovers
<1>4. /\ From(1) = 1
      /\ \A i \in 1 .. l : From(i + 1) = From(i) + Len(transfers[i].sizes)
      /\ From(l + 1) = a /\ a \in Nat
  <2>1. l + 1 \notin 1 .. l
    BY <1>2
  <2>2. From(l + 1) = next /\ next \in Nat
    BY <1>2, <2>1, CoalesceFacts, RequestFacts DEF From
  <2> QED
    BY <1>1, <1>2, <2>2 DEF IInv, Coalesced
<1>5. \A i \in 1 .. l :
         /\ Start(i)' = Start(i)
         /\ Covers(i, Start(i), Len(transfers[i].sizes))'
  BY <1>2, OtherTransfers
<1>6. ASSUME NEW i \in 1 .. l + 1
      PROVE  From(i)' = From(i)
  <2>1. From(i)' = Start(i)'
    BY <1>2 DEF From
  <2>2. CASE i = l + 1
    BY <1>3, <1>4, <2>1, <2>2
  <2>3. CASE i \in 1 .. l
    BY <1>2, <1>5, <2>1, <2>3 DEF From
  <2> QED
    BY <1>2, <2>2, <2>3
<1>7. From(l + 1 + 1)' = a + 1
  <2>1. l + 1 + 1 \notin 1 .. l + 1
    BY <1>2
  <2> QED
    BY <1>1, <1>2, <2>1, CoalesceFacts DEF From
<1>8. From(1)' = 1
  BY <1>2, <1>4, <1>6
<1>9. ASSUME NEW i \in 1 .. l + 1
       PROVE  CoveredAt(i)'
  <2>1. CASE i = l + 1
    <3>1. Covers(i, Start(i), Len(transfers[i].sizes))'
      BY <1>3, <2>1 DEF Covers
    <3>2. From(i)' = a /\ From(i + 1)' = a + 1
      BY <1>4, <1>6, <1>7, <2>1
    <3> QED
      BY <1>3, <2>1, <3>1, <3>2 DEF CoveredAt
  <2>2. CASE i \in 1 .. l
    <3>1. i + 1 \in 1 .. l + 1
      BY <1>2, <2>2
    <3>2. /\ From(i)' = From(i) /\ From(i + 1)' = From(i + 1)
          /\ transfers'[i] = transfers[i]
      BY <1>2, <1>6, <2>2, <3>1
    <3> QED
      BY <1>4, <1>5, <2>2, <3>2 DEF CoveredAt
  <2> QED
    BY <1>2, <2>1, <2>2
<1> QED
  BY <1>2, <1>8, <1>9

(* An iteration of coalesce keeps the invariant. *)
LEMMA CoalesceInv ==
  ASSUME IInv, CoalesceRange
  PROVE  IInv'
<1>1. /\ From(1)' = 1
      /\ \A i \in DOMAIN transfers' : CoveredAt(i)'
  BY ExtendCovered, OpenCovered
<1>2. Coalesced'
  <2>1. phase' = phase /\ phase = "coalesce"
    BY DEF CoalesceRange
  <2>2. Covered' \in 0 .. Len(request')
    BY CoalesceFacts, RequestFacts
  <2>3. (total = Total[Covered])' /\ (total <= MaxBytes)'
    BY CoalesceFacts
  <2> QED
    BY <1>1, <2>1, <2>2, <2>3 DEF Coalesced, CoveredAt
<1>3. TypeOK'
  <2>1. transfers' \in Seq(Transfer)
    BY ExtendTransfers, OpenTransfer
  <2>2. total' \in Nat
    BY CoalesceFacts DEF ReadRange, IInv, TypeOK, PlanTypeOK
  <2> QED
    BY <2>1, <2>2 DEF CoalesceRange, IInv, TypeOK, PlanTypeOK, WorkTypeOK,
                      assignVars, buildVars
<1>4. Assigned' /\ Built'
  BY DEF CoalesceRange, IInv, Assigned, Built, assignVars, buildVars
<1> QED
  BY <1>2, <1>3, <1>4 DEF IInv

(* A request that is refused covers the ranges before the one that does    *)
(* not fit.                                                                *)
LEMMA OverflowInv ==
  ASSUME IInv, CoalesceOverflows
  PROVE  IInv'
<1>1. /\ phase = "coalesce" /\ phase' = "rejected"
      /\ next <= Len(request) /\ ~Fits(request[next])
      /\ UNCHANGED <<request, next, tr, total, transfers>>
      /\ UNCHANGED <<assignVars, buildVars>>
  BY DEF CoalesceOverflows, coalesceVars
<1>2. total + request[next].size > MaxBytes
  <2>1. request \in Requests /\ total \in Nat /\ next \in Nat \ {0}
    BY DEF IInv, TypeOK, PlanTypeOK
  <2>2. next \in DOMAIN request
    BY <1>1, <2>1, RequestFacts
  <2>3. request[next].size \in Nat /\ MaxBytes \in Nat
    BY <2>1, <2>2, RequestFacts DEF ReadRange
  <2> QED
    BY <1>1, <2>1, <2>3 DEF Fits
<1>3. /\ Covered' = Covered /\ Total' = Total
      /\ \A i : From(i)' = From(i) /\ Start(i)' = Start(i)
      /\ \A a : IndexInFile(a)' = IndexInFile(a)
  <2>1. \A a : IndexInFile(a)' = IndexInFile(a)
    BY <1>1, SameRequest
  <2>2. Covered' = Covered
    BY <1>1 DEF Covered
  <2>3. \A i : Start(i)' = Start(i)
    BY <1>1, SameStart
  <2> QED
    BY <1>1, <2>1, <2>2, <2>3, SameRequest DEF From
<1>4. Coalesced'
  BY <1>1, <1>2, <1>3 DEF IInv, Coalesced, Covers
<1>5. TypeOK' /\ Assigned' /\ Built'
  BY <1>1 DEF IInv, TypeOK, PlanTypeOK, WorkTypeOK, Assigned, Built,
              assignVars, buildVars
<1> QED
  BY <1>4, <1>5 DEF IInv

-----------------------------------------------------------------------------
(* Assigner::assign *)

(* The bytes before each transfer. *)
LEMMA BeforeFacts ==
  ASSUME IInv
  PROVE  /\ total \in Nat
         /\ Before(1) = 0
         /\ Before(Len(transfers) + 1) = total
         /\ \A i \in DOMAIN transfers :
              /\ transfers[i] \in Transfer
              /\ Before(i) \in Nat
              /\ Before(i + 1) = Before(i) + transfers[i].size
              /\ Before(i) + transfers[i].size <= total
<1>1. /\ request \in Requests /\ total \in Nat
      /\ transfers \in Seq(Transfer)
      /\ DOMAIN transfers = 1 .. Len(transfers) /\ Len(transfers) \in Nat
  BY LenProperties DEF IInv, TypeOK, PlanTypeOK
<1>2. Covered \in 0 .. Len(request) /\ Len(request) \in Nat
        /\ total = Total[Covered]
  BY <1>1, RequestFacts DEF IInv, Coalesced
<1>3. Before(1) = 0
  BY <1>1, TotalFacts DEF IInv, Coalesced, Before
<1>4. Before(Len(transfers) + 1) = total
  <2>1. Len(transfers) + 1 \notin DOMAIN transfers
    BY <1>1
  <2>2. From(Len(transfers) + 1) = Covered + 1 /\ Covered + 1 - 1 = Covered
    BY <1>2, <2>1 DEF From
  <2> QED
    BY <1>2, <2>2 DEF Before
<1>5. ASSUME NEW i \in DOMAIN transfers
      PROVE  /\ transfers[i] \in Transfer
             /\ Before(i) \in Nat
             /\ Before(i + 1) = Before(i) + transfers[i].size
             /\ Before(i) + transfers[i].size <= total
  <2>1. transfers[i] \in Transfer
    BY <1>1, ElementOfSeq
  <2>2. /\ transfers[i].size \in Nat
        /\ transfers[i].sizes \in Seq(Nat)
    BY <2>1 DEF Transfer
  <2> DEFINE a == From(i)
             n == Len(transfers[i].sizes)
             p == transfers[i].size
  <2>3. /\ From(i + 1) = a + n
        /\ Covers(i, a, n)
    BY DEF IInv, Coalesced, From
  <2>4. n \in Nat /\ p \in Nat
    BY <2>2, LenProperties
  <2>5. /\ n >= 1 /\ a \in 1 .. Covered /\ a + n - 1 <= Covered
        /\ p + Total[a - 1] = Total[a + n - 1]
    BY <2>3 DEF Covers
  <2>6. Before(i) = Total[a - 1] /\ Before(i + 1) = Total[(a + n) - 1]
    BY <2>3 DEF Before
  <2> HIDE DEF a, n, p
  <2>7. /\ a - 1 \in 0 .. Len(request) /\ a + n - 1 \in 0 .. Len(request)
        /\ Covered \in 0 .. Len(request) /\ a + n - 1 <= Covered
    BY <1>2, <2>4, <2>5
  <2>8. /\ Total[a - 1] \in Nat /\ Total[a + n - 1] \in Nat
        /\ Total[a + n - 1] <= Total[Covered]
    BY <1>1, <2>7, TotalFacts
  <2>9. /\ Before(i) \in Nat /\ Before(i + 1) = Before(i) + p
        /\ Before(i) + p <= total
    BY <1>1, <1>2, <2>4, <2>5, <2>6, <2>8
  <2> QED
    BY <2>1, <2>9 DEF p
<1> QED
  BY <1>1, <1>3, <1>4, <1>5

(* Steps after coalesce leave the transfers, and what is said of them. *)
LEMMA SamePlan ==
  ASSUME IInv, UNCHANGED <<request, total, transfers>>,
         Covered' = Covered, phase' # "rejected"
  PROVE  /\ Coalesced'
         /\ Total' = Total
         /\ \A a : IndexInFile(a)' = IndexInFile(a)
         /\ \A i : /\ Start(i)' = Start(i) /\ From(i)' = From(i)
                   /\ Before(i)' = Before(i)
<1>1. Total' = Total /\ \A a : IndexInFile(a)' = IndexInFile(a)
  BY SameRequest
<1>2. \A i : Start(i)' = Start(i)
  BY SameStart
<1>3. \A i : From(i)' = From(i)
  BY <1>2 DEF From
<1>4. \A i : Before(i)' = Before(i)
  BY <1>1, <1>3 DEF Before
<1>5. \A i, a, n : Covers(i, a, n)' = Covers(i, a, n)
  BY <1>1 DEF Covers
<1>6. Coalesced'
  BY <1>1, <1>2, <1>3, <1>5 DEF IInv, Coalesced
<1> QED
  BY <1>1, <1>2, <1>3, <1>4, <1>6

(* The shares follow from the byte total. *)
LEMMA SameShares ==
  ASSUME total' = total
  PROVE  /\ NumWorkloads' = NumWorkloads
         /\ \A w : Target(w)' = Target(w) /\ Share(w)' = Share(w)
<1>1. NumWorkloads' = NumWorkloads /\ BaseBytes' = BaseBytes
        /\ Remainder' = Remainder
  BY DEF NumWorkloads, NumBlocks, BaseBytes, Remainder
<1>2. \A w : Target(w)' = Target(w)
  BY <1>1 DEF Target
<1> QED
  BY <1>1, <1>2 DEF Share

(* An empty sequence has no bytes. *)
LEMMA EmptySum == Sized(<<>>) /\ SumSizes(<<>>) = 0 /\ SumTo(<<>>)[0] = 0
<1>1. Len(<<>>) = 0 /\ Sized(<<>>)
  BY EmptySeq DEF Sized
<1> QED
  BY <1>1, SumSteps DEF SumSizes

(* The first transfer is at hand, and nothing is assigned. *)
LEMMA StartAssignInv ==
  ASSUME IInv, StartAssign
  PROVE  IInv'
<1>1. /\ phase = "coalesce" /\ phase' = "assign"
      /\ next > Len(request)
      /\ slices' = [i \in DOMAIN transfers |-> <<>>]
      /\ UNCHANGED <<request, next, tr, total, transfers>>
      /\ UNCHANGED <<workload, consumed, assigned, cur, left, rest, placed>>
      /\ UNCHANGED tasks
  BY DEF StartAssign, coalesceVars, buildVars
<1>2. Covered' = Covered
  <2>1. next \in Nat /\ Len(request) \in Nat /\ next - 1 \in 0 .. Len(request)
    BY <1>1, RequestFacts DEF IInv, TypeOK, PlanTypeOK, Coalesced, Covered
  <2> QED
    BY <1>1, <2>1 DEF Covered
<1>3. tr = 1 /\ workload = 0 /\ consumed = 0 /\ assigned = 0
  BY <1>1 DEF IInv, Assigned
<1>4. Coalesced'
  BY <1>1, <1>2, SamePlan
<1>5. /\ transfers \in Seq(Transfer) /\ Len(transfers) \in Nat
      /\ DOMAIN transfers = 1 .. Len(transfers)
  BY LenProperties DEF IInv, TypeOK, PlanTypeOK
<1>6. TypeOK'
  <2>1. slices' \in Seq(Seq(Slice))
    <3>1. <<>> \in Seq(Slice)
      BY EmptySeq
    <3>2. slices' = [i \in 1 .. Len(transfers) |-> <<>>]
      BY <1>1, <1>5
    <3> QED
      BY <1>5, <3>1, <3>2, IsASeq
  <2> QED
    BY <1>1, <2>1 DEF IInv, TypeOK, PlanTypeOK, WorkTypeOK
<1>7. ASSUME NEW i \in DOMAIN transfers
      PROVE  SlicesCover(i)'
  <2>1. slices'[i] = <<>> /\ DOMAIN <<>> = {} /\ Len(<<>>) = 0
    BY <1>1
  <2>2. Sliced(i)' = 0
    BY <1>1, <1>3, <1>5 DEF Sliced
  <2>3. i >= tr'
    BY <1>1, <1>3, <1>5
  <2> QED
    BY <1>1, <2>1, <2>2, <2>3, EmptySum DEF SlicesCover
<1>8. /\ workload' < NumWorkloads'
      /\ assigned' <= Target(workload)'
      /\ Share(workload)' + assigned' = Before(tr)' + consumed'
  <2>1. /\ 0 < NumWorkloads /\ Target(0) \in Nat
        /\ Share(0) = 0 /\ Before(1) = 0
    <3>1. total \in Nat /\ NumWorkers \in Nat
      BY AssignerAssumption DEF IInv, TypeOK, PlanTypeOK
    <3> QED
      BY <3>1, BeforeFacts, ShareFacts DEF Share
  <2>2. /\ NumWorkloads' = NumWorkloads
        /\ \A w : Target(w)' = Target(w) /\ Share(w)' = Share(w)
        /\ \A i : Before(i)' = Before(i)
    BY <1>1, <1>2, SamePlan, SameShares
  <2>3. workload' = 0 /\ assigned' = 0 /\ tr' = 1 /\ consumed' = 0
    BY <1>1, <1>3
  <2>4. \A w : w = workload' =>
          Target(workload)' = Target(w)' /\ Share(workload)' = Share(w)'
    BY DEF Target, Share
  <2>5. \A i : i = tr' => Before(tr)' = Before(i)'
    BY DEF Before, From, Start
  <2> QED
    BY <2>1, <2>2, <2>3, <2>4, <2>5
<1>9. Assigned'
  BY <1>1, <1>3, <1>5, <1>7, <1>8 DEF Assigned
<1>10. Built'
  BY <1>1 DEF IInv, Built
<1> QED
  BY <1>4, <1>6, <1>9, <1>10 DEF IInv

(* The state in which assign cuts a slice or turns to the next workload.   *)
LEMMA AssignFacts ==
  ASSUME IInv, Assigning
  PROVE  /\ phase = "assign"
         /\ total \in Nat /\ workload \in Nat /\ consumed \in Nat
         /\ assigned \in Nat /\ tr \in Nat \ {0}
         /\ Len(transfers) \in Nat /\ DOMAIN transfers = 1 .. Len(transfers)
         /\ tr \in DOMAIN transfers
         /\ transfers[tr] \in Transfer
         /\ consumed = 0 \/ consumed < transfers[tr].size
         /\ NumWorkloads \in 1 .. NumWorkers
         /\ workload < NumWorkloads /\ Target(workload) \in Nat
         /\ assigned <= Target(workload)
         /\ Share(workload) \in Nat /\ Before(tr) \in Nat
         /\ Share(workload) + assigned = Before(tr) + consumed
         /\ Share(workload + 1) = Share(workload) + Target(workload)
         /\ Before(tr + 1) = Before(tr) + transfers[tr].size
         /\ Before(tr) + transfers[tr].size <= total
<1>1. /\ phase = "assign" /\ tr <= Len(transfers)
      /\ total \in Nat /\ workload \in Nat /\ consumed \in Nat
      /\ assigned \in Nat /\ tr \in Nat \ {0}
  BY DEF Assigning, IInv, TypeOK, PlanTypeOK, WorkTypeOK
<1>2. Len(transfers) \in Nat /\ DOMAIN transfers = 1 .. Len(transfers)
  BY LenProperties DEF IInv, TypeOK, PlanTypeOK
<1>3. tr \in DOMAIN transfers
  BY <1>1, <1>2
<1>4. /\ consumed = 0 \/ consumed < transfers[tr].size
      /\ workload < NumWorkloads /\ assigned <= Target(workload)
      /\ Share(workload) + assigned = Before(tr) + consumed
  BY <1>1 DEF IInv, Assigned
<1>5. /\ NumWorkloads \in 1 .. NumWorkers
      /\ Target(workload) \in Nat /\ Share(workload) \in Nat
      /\ Share(workload + 1) = Share(workload) + Target(workload)
  BY <1>1, ShareFacts
<1>6. /\ transfers[tr] \in Transfer /\ Before(tr) \in Nat
      /\ Before(tr + 1) = Before(tr) + transfers[tr].size
      /\ Before(tr) + transfers[tr].size <= total
  BY <1>3, BeforeFacts
<1> QED
  BY <1>1, <1>2, <1>3, <1>4, <1>5, <1>6

(* There is a workload left for the bytes that are not assigned.           *)
LEMMA NextWorkloadInv ==
  ASSUME IInv, NextWorkload
  PROVE  IInv'
<1>1. /\ Assigning /\ WorkloadFull
      /\ workload' = workload + 1 /\ assigned' = 0
      /\ UNCHANGED <<request, phase, next, tr, total, transfers>>
      /\ UNCHANGED <<slices, consumed, cur, left, rest, placed, tasks>>
  BY DEF NextWorkload, coalesceVars, buildVars
<1>2. phase = "assign" /\ phase' = "assign" /\ Covered' = Covered
  BY <1>1, AssignFacts DEF Covered
<1>3. /\ NumWorkloads' = NumWorkloads
      /\ \A w : Target(w)' = Target(w) /\ Share(w)' = Share(w)
      /\ Coalesced'
      /\ \A i : Before(i)' = Before(i)
  BY <1>1, <1>2, SamePlan, SameShares
<1>4. /\ assigned = Target(workload)
      /\ Share(workload + 1) = Before(tr) + consumed
      /\ transfers[tr].size \in Nat /\ consumed < transfers[tr].size
  <2>1. /\ transfers[tr] \in Transfer /\ assigned \in Nat
        /\ Target(workload) \in Nat /\ assigned <= Target(workload)
        /\ consumed = 0 \/ consumed < transfers[tr].size
        /\ Share(workload) + assigned = Before(tr) + consumed
        /\ Share(workload + 1) = Share(workload) + Target(workload)
    BY <1>1, AssignFacts
  <2>2. transfers[tr].size > 0 /\ assigned >= Target(workload)
    BY <1>1 DEF WorkloadFull
  <2>3. transfers[tr].size \in Nat
    BY <2>1 DEF Transfer
  <2>4. assigned = Target(workload)
    BY <2>1, <2>2
  <2> QED
    BY <2>1, <2>2, <2>3, <2>4
<1>5. workload + 1 < NumWorkloads
  <2>1. Share(NumWorkloads) = total
    BY AssignFacts, <1>1, ShareFacts
  <2> SUFFICES ASSUME workload + 1 = NumWorkloads
               PROVE  FALSE
    BY <1>1, AssignFacts
  <2>2. Share(workload + 1) = total
    BY <2>1
  <2>3. /\ Before(tr) \in Nat /\ consumed \in Nat /\ total \in Nat
        /\ Before(tr) + transfers[tr].size <= total
    BY <1>1, AssignFacts
  <2> QED
    BY <1>4, <2>2, <2>3
<1>6. /\ workload' < NumWorkloads'
      /\ assigned' <= Target(workload)'
      /\ Share(workload)' + assigned' = Before(tr)' + consumed'
  <2> DEFINE w == workload + 1
  <2>1. /\ Target(w) \in Nat /\ Share(w) \in Nat /\ w \in Nat
        /\ Before(tr) \in Nat /\ consumed \in Nat
    <3>1. workload \in Nat /\ total \in Nat /\ Before(tr) \in Nat
            /\ consumed \in Nat
      BY <1>1, AssignFacts
    <3>2. w \in Nat
      BY <3>1
    <3> HIDE DEF w
    <3> QED
      BY <3>1, <3>2, ShareFacts
  <2>2. PICK v, i : v = w /\ i = tr
    OBVIOUS
  <2>3. Target(workload)' = Target(v)' /\ Share(workload)' = Share(v)'
    BY <1>1, <2>2 DEF Target, Share
  <2>4. Before(tr)' = Before(i)'
    BY <1>1, <2>2
  <2>5. Target(workload)' = Target(w) /\ Share(workload)' = Share(w)
          /\ Before(tr)' = Before(tr)
    BY <1>3, <2>2, <2>3, <2>4
  <2> QED
    BY <1>1, <1>3, <1>4, <1>5, <2>1, <2>5
<1>7. TypeOK'
  <2>1. workload \in Nat
    BY <1>1, AssignFacts
  <2> QED
    BY <1>1, <2>1 DEF IInv, TypeOK, PlanTypeOK, WorkTypeOK
<1>8. \A i \in DOMAIN transfers' : SlicesCover(i)'
  BY <1>1, <1>2, <1>3 DEF IInv, Assigned, SlicesCover, Sliced
<1>9. Assigned'
  BY <1>1, <1>2, <1>6, <1>8 DEF IInv, Assigned
<1>10. Built'
  BY <1>1, <1>2 DEF IInv, Built
<1> QED
  BY <1>3, <1>7, <1>9, <1>10 DEF IInv

(* What assign cuts from a transfer. *)
Cut == MinOf(transfers[tr].size - consumed, Target(workload) - assigned)

(* A cut fits in the workload and in the transfer, and is empty only for an *)
(* empty transfer.                                                         *)
LEMMA CutFacts ==
  ASSUME IInv, Assigning, ~WorkloadFull
  PROVE  /\ transfers[tr].size \in Nat /\ consumed \in Nat /\ Cut \in Nat
         /\ SliceAt(transfers[tr], Cut) \in Slice
         /\ assigned + Cut <= Target(workload)
         /\ consumed + Cut <= transfers[tr].size
         /\ transfers[tr].size > 0 => Cut > 0
         /\ transfers[tr].size = 0 => consumed = 0 /\ Cut = 0
<1> DEFINE p == transfers[tr].size
           goal == Target(workload)
<1>1. /\ p \in Nat /\ consumed \in Nat /\ assigned \in Nat /\ goal \in Nat
      /\ consumed = 0 \/ consumed < p
      /\ assigned <= goal
      /\ p = 0 \/ assigned < goal
  <2>1. /\ transfers[tr] \in Transfer /\ consumed \in Nat /\ assigned \in Nat
        /\ goal \in Nat /\ assigned <= goal
        /\ consumed = 0 \/ consumed < p
    BY AssignFacts
  <2>2. p \in Nat
    BY <2>1 DEF Transfer
  <2> HIDE DEF goal
  <2>3. ~(p > 0 /\ assigned >= goal)
    BY DEF WorkloadFull, goal
  <2> QED
    BY <2>1, <2>2, <2>3
<1>2. Cut = MinOf(p - consumed, goal - assigned)
  BY DEF Cut
<1>3. /\ transfers[tr].offset \in Nat /\ transfers[tr].dst \in Nat
      /\ workload \in Nat
  BY AssignFacts DEF Transfer
<1> HIDE DEF p, goal
<1>4. /\ Cut \in Nat /\ assigned + Cut <= goal /\ consumed + Cut <= p
      /\ p > 0 => Cut > 0
      /\ p = 0 => consumed = 0 /\ Cut = 0
  BY <1>1, <1>2 DEF MinOf
<1>5. SliceAt(transfers[tr], Cut) \in Slice
  BY <1>1, <1>3, <1>4 DEF SliceAt, Slice
<1> QED
  BY <1>1, <1>4, <1>5 DEF p, goal

(* The slices of the transfer that is being cut. *)
LEMMA CutSlices ==
  ASSUME IInv, AssignSlice
  PROVE  /\ slices' \in Seq(Seq(Slice))
         /\ DOMAIN slices' = DOMAIN slices /\ DOMAIN slices = DOMAIN transfers
         /\ \A i \in DOMAIN slices : i # tr => slices'[i] = slices[i]
         /\ Len(slices'[tr]) \in Nat
         /\ DOMAIN slices'[tr] = 1 .. Len(slices'[tr])
         /\ slices'[tr] # <<>>
         /\ SumSizes(slices'[tr]) = consumed + Cut
         /\ transfers[tr].size = 0 => Len(slices'[tr]) = 1
         /\ \A j \in DOMAIN slices'[tr] :
              /\ slices'[tr][j].workload < NumWorkloads
              /\ slices'[tr][j].offset
                   = transfers[tr].offset + SumTo(slices'[tr])[j - 1]
              /\ slices'[tr][j].dst
                   = transfers[tr].dst + SumTo(slices'[tr])[j - 1]
              /\ transfers[tr].size > 0 => slices'[tr][j].size > 0
<1> DEFINE s == SliceAt(transfers[tr], Cut)
<1>1. /\ Assigning /\ ~WorkloadFull
      /\ slices' = [slices EXCEPT ![tr] = Append(@, s)]
  BY DEF AssignSlice, Cut
<1>2. PICK old : old = slices[tr]
  OBVIOUS
<1>3. PICK new : new = Append(old, s)
  OBVIOUS
<1>4. /\ slices \in Seq(Seq(Slice)) /\ DOMAIN slices = DOMAIN transfers
      /\ tr \in DOMAIN slices
      /\ old \in Seq(Slice) /\ s \in Slice
  <2>1. slices \in Seq(Seq(Slice)) /\ DOMAIN slices = DOMAIN transfers
    BY <1>1, AssignFacts DEF IInv, TypeOK, WorkTypeOK, Assigned
  <2>2. tr \in DOMAIN slices
    BY <1>1, <2>1, AssignFacts
  <2>3. old \in Seq(Slice)
    BY <1>2, <2>1, <2>2, ElementOfSeq
  <2> QED
    BY <1>1, <2>1, <2>2, <2>3, CutFacts
<1>5. /\ new \in Seq(Slice) /\ Len(new) = Len(old) + 1 /\ Len(old) \in Nat
      /\ DOMAIN new = 1 .. Len(new) /\ DOMAIN old = 1 .. Len(old)
      /\ new[Len(old) + 1] = s
      /\ \A j \in 1 .. Len(old) : new[j] = old[j]
  <2> HIDE DEF s
  <2> QED
    BY <1>3, <1>4, AppendProperties, LenProperties
<1>6. slices' = [slices EXCEPT ![tr] = new] /\ slices'[tr] = new
  BY <1>1, <1>2, <1>3, <1>4
<1>7. /\ slices' \in Seq(Seq(Slice)) /\ DOMAIN slices' = DOMAIN slices
      /\ \A i \in DOMAIN slices : i # tr => slices'[i] = slices[i]
  <2>1. DOMAIN slices' = DOMAIN slices
        /\ \A i \in DOMAIN slices : i # tr => slices'[i] = slices[i]
    BY <1>6
  <2>2. slices' \in Seq(Seq(Slice))
    BY <1>4, <1>5, <1>6, ExceptSeq
  <2> QED
    BY <2>1, <2>2
<1>8. /\ \A j \in DOMAIN old :
           /\ old[j].workload < NumWorkloads
           /\ old[j].offset = transfers[tr].offset + SumTo(old)[j - 1]
           /\ old[j].dst = transfers[tr].dst + SumTo(old)[j - 1]
           /\ transfers[tr].size > 0 => old[j].size > 0
      /\ SumSizes(old) = consumed
      /\ consumed = 0 => old = <<>>
  <2>1. phase = "assign" /\ tr >= tr /\ Sliced(tr) = consumed
    BY <1>1, AssignFacts DEF Sliced
  <2>2. SlicesCover(tr)
    BY <1>1, <2>1, AssignFacts DEF IInv, Assigned
  <2> QED
    BY <1>2, <2>1, <2>2 DEF SlicesCover
<1>9. Sized(old) /\ s.size \in Nat /\ s.size = Cut
  <2>1. \A n \in 1 .. Len(old) : old[n].size \in Nat
    <3>1. \A n \in 1 .. Len(old) : old[n] \in Slice
      BY <1>4, <1>5, ElementOfSeq
    <3> QED
      BY <3>1 DEF Slice
  <2>2. s.size = Cut /\ Cut \in Nat
    BY <1>1, CutFacts DEF SliceAt
  <2> QED
    BY <1>5, <2>1, <2>2 DEF Sized
<1>10. /\ \A n \in 0 .. Len(old) : SumTo(new)[n] = SumTo(old)[n]
       /\ SumSizes(new) = consumed + Cut
       /\ SumTo(new)[Len(old)] = consumed
  <2>1. /\ \A n \in 0 .. Len(old) : SumTo(new)[n] = SumTo(old)[n]
        /\ SumSizes(new) = SumSizes(old) + s.size
    <3> HIDE DEF s
    <3> QED
      BY <1>3, <1>4, <1>9, SumAppends
  <2>2. SumTo(new)[Len(old)] = SumSizes(old)
    BY <1>5, <2>1 DEF SumSizes
  <2> QED
    BY <1>8, <1>9, <2>1, <2>2
<1>11. ASSUME NEW j \in DOMAIN new
       PROVE  /\ new[j].workload < NumWorkloads
              /\ new[j].offset = transfers[tr].offset + SumTo(new)[j - 1]
              /\ new[j].dst = transfers[tr].dst + SumTo(new)[j - 1]
              /\ transfers[tr].size > 0 => new[j].size > 0
  <2>1. CASE j = Len(old) + 1
    <3>1. j - 1 = Len(old) /\ new[j] = s
      BY <1>5, <2>1
    <3>2. workload < NumWorkloads
      BY <1>1, AssignFacts
    <3>3. transfers[tr].size > 0 => Cut > 0
      BY <1>1, CutFacts
    <3> QED
      BY <1>10, <3>1, <3>2, <3>3 DEF SliceAt
  <2>2. CASE j \in 1 .. Len(old)
    <3>1. j - 1 \in 0 .. Len(old) /\ j \in DOMAIN old
      BY <1>5, <2>2
    <3> QED
      BY <1>5, <1>8, <1>10, <2>2, <3>1
  <2> QED
    BY <1>5, <2>1, <2>2
<1>12. new # <<>> /\ Len(new) \in Nat
         /\ (transfers[tr].size = 0 => Len(new) = 1)
  <2>1. transfers[tr].size = 0 => Len(new) = 1
    <3>1. transfers[tr].size = 0 => consumed = 0
      BY <1>1, CutFacts
    <3>2. Len(<<>>) = 0
      OBVIOUS
    <3> QED
      BY <1>5, <1>8, <3>1, <3>2
  <2> QED
    BY <1>5, <2>1, EmptySeq
<1> QED
  BY <1>4, <1>5, <1>6, <1>7, <1>10, <1>11, <1>12

(* A slice more keeps the invariant. *)
LEMMA AssignSliceInv ==
  ASSUME IInv, AssignSlice
  PROVE  IInv'
<1> DEFINE p == transfers[tr].size
           fin == consumed + Cut = p
<1>1. /\ Assigning /\ ~WorkloadFull
      /\ assigned' = assigned + Cut
      /\ IF fin THEN tr' = tr + 1 /\ consumed' = 0
         ELSE consumed' = consumed + Cut /\ tr' = tr
      /\ UNCHANGED <<request, phase, next, total, transfers, workload>>
      /\ UNCHANGED <<cur, left, rest, placed, tasks>>
  BY DEF AssignSlice, Cut, coalesceVars, buildVars
<1>2. phase = "assign" /\ phase' = "assign" /\ Covered' = Covered
  BY <1>1, AssignFacts DEF Covered
<1>3. /\ NumWorkloads' = NumWorkloads
      /\ \A w : Target(w)' = Target(w) /\ Share(w)' = Share(w)
      /\ Coalesced'
      /\ \A i : Before(i)' = Before(i)
  BY <1>1, <1>2, SamePlan, SameShares
<1>4. /\ tr \in 1 .. Len(transfers) /\ Len(transfers) \in Nat
      /\ DOMAIN transfers = 1 .. Len(transfers)
      /\ p \in Nat /\ consumed \in Nat /\ Cut \in Nat /\ assigned \in Nat
      /\ consumed + Cut <= p
      /\ p > 0 => Cut > 0
      /\ assigned + Cut <= Target(workload)
  BY <1>1, AssignFacts, CutFacts
<1>5. TypeOK'
  <2>1. /\ tr' \in Nat \ {0} /\ consumed' \in Nat /\ assigned' \in Nat
    BY <1>1, <1>4
  <2> QED
    BY <1>1, <2>1, CutSlices DEF IInv, TypeOK, PlanTypeOK, WorkTypeOK
<1>6. ASSUME NEW i \in DOMAIN transfers
      PROVE  SlicesCover(i)'
  <2>1. CASE i = tr
    <3> DEFINE seq == slices'[tr]
    <3>1. /\ \A j \in DOMAIN seq :
               /\ seq[j].workload < NumWorkloads
               /\ seq[j].offset = transfers[tr].offset + SumTo(seq)[j - 1]
               /\ seq[j].dst = transfers[tr].dst + SumTo(seq)[j - 1]
               /\ p > 0 => seq[j].size > 0
          /\ SumSizes(seq) = consumed + Cut
          /\ p = 0 => Len(seq) = 1
          /\ seq # <<>>
      BY CutSlices
    <3>2. Sliced(i)' = consumed + Cut
      <4>1. CASE fin
        <5>1. ~(i >= tr') /\ transfers'[i].size = consumed + Cut
          BY <1>1, <1>4, <2>1, <4>1
        <5> HIDE DEF fin
        <5> QED
          BY <5>1 DEF Sliced
      <4>2. CASE ~fin
        <5>1. i = tr' /\ i >= tr' /\ consumed' = consumed + Cut
          BY <1>1, <1>4, <2>1, <4>2
        <5> HIDE DEF fin
        <5> QED
          BY <1>2, <5>1 DEF Sliced
      <4> QED
        BY <4>1, <4>2
    <3>3. Sliced(i)' = 0 => ~(i >= tr')
      <4> SUFFICES ASSUME consumed + Cut = 0
                   PROVE  ~(i >= tr')
        BY <3>2
      <4>1. fin
        BY <1>4
      <4> QED
        BY <1>1, <1>4, <2>1, <4>1
    <3>4. slices'[i] = seq /\ transfers'[i].size = p
            /\ transfers'[i] = transfers[tr]
      BY <1>1, <2>1
    <3>5. p = 0 => Len(seq) <= 1
      <4>1. p = 0 => Len(seq) = 1
        BY <3>1
      <4> DEFINE len == Len(seq)
      <4>2. p = 0 => len = 1
        BY <4>1
      <4> HIDE DEF len
      <4>3. p = 0 => len <= 1
        BY <4>2
      <4> QED
        BY <4>3 DEF len
    <3>6. (Sliced(i) = 0 => slices[i] = <<>>)' \/ ~(i >= tr')
      BY <3>3
    <3> HIDE DEF seq, p, fin
    <3>7. \A j \in DOMAIN slices'[i] :
               /\ slices'[i][j].workload < NumWorkloads'
               /\ slices'[i][j].offset
                    = transfers'[i].offset + SumTo(slices'[i])[j - 1]
               /\ slices'[i][j].dst
                    = transfers'[i].dst + SumTo(slices'[i])[j - 1]
               /\ transfers'[i].size > 0 => slices'[i][j].size > 0
      BY <1>3, <3>1, <3>4
    <3>8. /\ SumSizes(slices'[i]) = Sliced(i)'
          /\ transfers'[i].size = 0 => Len(slices'[i]) <= 1
          /\ slices'[i] # <<>>
      BY <3>1, <3>2, <3>4, <3>5
    <3> QED
      BY <3>3, <3>7, <3>8, Zenon DEF SlicesCover
  <2>2. CASE i # tr
    <3>1. /\ slices'[i] = slices[i] /\ transfers'[i] = transfers[i]
          /\ SlicesCover(i)
      BY <1>1, <1>2, <2>2, CutSlices DEF IInv, Assigned
    <3>2. CASE i < tr
      <4>1. /\ ~(i = tr) /\ ~(i > tr) /\ ~(i = tr') /\ ~(i > tr')
            /\ ~(i >= tr) /\ ~(i >= tr')
        BY <1>1, <1>4, <3>2
      <4>2. Sliced(i)' = Sliced(i)
        BY <1>1, <4>1 DEF Sliced
      <4> QED
        BY <1>1, <1>3, <3>1, <4>1, <4>2 DEF SlicesCover
    <3>3. CASE i > tr
      <4>1. Sliced(i) = 0 /\ i >= tr /\ i >= tr'
        BY <1>1, <1>2, <1>4, <3>3 DEF Sliced
      <4>2. Sliced(i)' = 0
        BY <1>1, <1>2, <1>4, <3>3 DEF Sliced
      <4> QED
        BY <1>2, <1>3, <3>1, <4>1, <4>2 DEF SlicesCover
    <3> QED
      BY <1>4, <2>2, <3>2, <3>3
  <2> QED
    BY <2>1, <2>2
<1>7. Before(tr)' + consumed' = Before(tr) + consumed + Cut
  <2>1. PICK i, j : i = tr /\ j = tr + 1
    OBVIOUS
  <2>2. Before(i) = Before(tr) /\ Before(j) = Before(tr + 1)
    BY <2>1
  <2>3. Before(tr) \in Nat /\ Before(tr + 1) = Before(tr) + p
    BY <1>1, AssignFacts
  <2>4. CASE fin
    <3>1. Before(tr)' = Before(j)'
      BY <1>1, <2>1, <2>4
    <3> QED
      BY <1>1, <1>3, <1>4, <2>2, <2>3, <2>4, <3>1
  <2>5. CASE ~fin
    <3>1. Before(tr)' = Before(i)'
      BY <1>1, <2>1, <2>5
    <3> QED
      BY <1>1, <1>3, <1>4, <2>2, <2>3, <2>5, <3>1
  <2> QED
    BY <2>4, <2>5
<1>8. /\ workload' < NumWorkloads'
      /\ assigned' <= Target(workload)'
      /\ Share(workload)' + assigned' = Before(tr)' + consumed'
  <2>1. Target(workload)' = Target(workload) /\ Share(workload)' = Share(workload)
    <3>1. PICK w : w = workload
      OBVIOUS
    <3>2. Target(workload)' = Target(w)' /\ Share(workload)' = Share(w)'
      BY <1>1, <3>1 DEF Target, Share
    <3> QED
      BY <1>3, <3>1, <3>2
  <2>2. /\ Share(workload) \in Nat /\ workload < NumWorkloads
        /\ Share(workload) + assigned = Before(tr) + consumed
        /\ Before(tr) \in Nat
    BY <1>1, AssignFacts
  <2> QED
    BY <1>1, <1>3, <1>4, <1>7, <2>1, <2>2
<1>9. /\ tr' <= Len(transfers') + 1
      /\ tr' = Len(transfers') + 1 => consumed' = 0
      /\ tr' <= Len(transfers') =>
           consumed' = 0 \/ consumed' < transfers'[tr'].size
  BY <1>1, <1>4
<1>10. Assigned'
  BY <1>1, <1>2, <1>6, <1>8, <1>9, CutSlices DEF Assigned
<1>11. Built'
  BY <1>1, <1>2 DEF IInv, Built
<1> QED
  BY <1>3, <1>5, <1>10, <1>11 DEF IInv

-----------------------------------------------------------------------------
(* Batches: the state it builds from *)

(* What a transfer and its first range have to do with each other. *)
LEMMA TransferFacts ==
  ASSUME IInv, NEW i \in DOMAIN transfers
  PROVE  /\ transfers[i] \in Transfer
         /\ transfers[i].sizes \in Seq(Nat)
         /\ Len(transfers[i].sizes) \in Nat \ {0}
         /\ DOMAIN transfers[i].sizes = 1 .. Len(transfers[i].sizes)
         /\ Start(i) \in DOMAIN request /\ Start(i) \in Nat \ {0}
         /\ From(i) = Start(i)
         /\ From(i + 1) = Start(i) + Len(transfers[i].sizes)
         /\ Covers(i, Start(i), Len(transfers[i].sizes))
         /\ Covered <= Len(request) /\ Covered \in Nat
<1>1. /\ request \in Requests /\ transfers \in Seq(Transfer)
  BY DEF IInv, TypeOK, PlanTypeOK
<1>2. /\ Covers(i, Start(i), Len(transfers[i].sizes))
      /\ From(i + 1) = From(i) + Len(transfers[i].sizes)
      /\ From(i) = Start(i)
      /\ Covered \in 0 .. Len(request)
  BY DEF IInv, Coalesced, From
<1>3. transfers[i] \in Transfer /\ transfers[i].sizes \in Seq(Nat)
  <2>1. transfers[i] \in Transfer
    BY <1>1, ElementOfSeq
  <2> QED
    BY <2>1 DEF Transfer
<1>4. /\ Len(transfers[i].sizes) \in Nat
      /\ DOMAIN transfers[i].sizes = 1 .. Len(transfers[i].sizes)
  BY <1>3, LenProperties
<1>5. /\ Len(request) \in Nat /\ DOMAIN request = 1 .. Len(request)
  BY <1>1, RequestFacts
<1>6. /\ Len(transfers[i].sizes) >= 1
      /\ Start(i) \in 1 .. Covered
  BY <1>2 DEF Covers
<1> QED
  BY <1>2, <1>3, <1>4, <1>5, <1>6

(* The slices of a transfer are as long as it is, once all is assigned. *)
LEMMA SliceFacts ==
  ASSUME IInv, NEW i \in DOMAIN transfers,
         phase = "build" \/ (phase = "assign" /\ i < tr)
  PROVE  /\ slices[i] \in Seq(Slice)
         /\ Len(slices[i]) \in Nat \ {0}
         /\ DOMAIN slices[i] = 1 .. Len(slices[i])
         /\ Sized(slices[i])
         /\ SumTo(slices[i])[Len(slices[i])] = transfers[i].size
         /\ transfers[i].size = 0 => Len(slices[i]) = 1
         /\ \A j \in DOMAIN slices[i] :
              /\ slices[i][j] \in Slice
              /\ slices[i][j].offset
                   = transfers[i].offset + SumTo(slices[i])[j - 1]
              /\ slices[i][j].dst = transfers[i].dst + SumTo(slices[i])[j - 1]
              /\ transfers[i].size > 0 => slices[i][j].size > 0
              /\ SumTo(slices[i])[j]
                   = SumTo(slices[i])[j - 1] + slices[i][j].size
              /\ SumTo(slices[i])[j] \in Nat /\ SumTo(slices[i])[j - 1] \in Nat
<1>1. slices \in Seq(Seq(Slice)) /\ i \in DOMAIN slices
        /\ SlicesCover(i)
  BY DEF IInv, TypeOK, WorkTypeOK, Assigned
<1>2. slices[i] \in Seq(Slice)
  BY <1>1, ElementOfSeq
<1>3. Sliced(i) = transfers[i].size
  <2>1. i \in Nat /\ tr \in Nat
    BY LenProperties DEF IInv, TypeOK, PlanTypeOK
  <2> QED
    BY <2>1 DEF Sliced
<1>4. slices[i] # <<>>
  <2>1. ~(phase = "assign" /\ i >= tr)
    BY LenProperties DEF IInv, TypeOK, PlanTypeOK
  <2> QED
    BY <1>1, <2>1 DEF SlicesCover
<1>5. /\ Len(slices[i]) \in Nat \ {0}
      /\ DOMAIN slices[i] = 1 .. Len(slices[i])
  BY <1>2, <1>4, LenProperties, EmptySeq
<1>6. \A j \in DOMAIN slices[i] : slices[i][j] \in Slice
  BY <1>2, ElementOfSeq
<1>7. Sized(slices[i])
  BY <1>5, <1>6 DEF Sized, Slice
<1>8. /\ \A j \in DOMAIN slices[i] :
           /\ SumTo(slices[i])[j] = SumTo(slices[i])[j - 1] + slices[i][j].size
           /\ SumTo(slices[i])[j] \in Nat /\ SumTo(slices[i])[j - 1] \in Nat
  <2> SUFFICES ASSUME NEW j \in DOMAIN slices[i]
               PROVE  /\ SumTo(slices[i])[j]
                           = SumTo(slices[i])[j - 1] + slices[i][j].size
                      /\ SumTo(slices[i])[j] \in Nat
                      /\ SumTo(slices[i])[j - 1] \in Nat
    OBVIOUS
  <2>1. j \in 1 .. Len(slices[i]) /\ j \in 0 .. Len(slices[i])
          /\ j - 1 \in 0 .. Len(slices[i])
    BY <1>5
  <2> QED
    BY <1>7, <2>1, SumSteps
<1>9. transfers[i].size = 0 => Len(slices[i]) = 1
  BY <1>1, <1>5 DEF SlicesCover
<1> QED
  BY <1>1, <1>2, <1>3, <1>5, <1>6, <1>7, <1>8, <1>9 DEF SlicesCover, SumSizes

(* When assign stops, every transfer is cut, and there is one. *)
LEMMA AssignEnds ==
  ASSUME IInv, phase = "assign", ~Assigning
  PROVE  /\ tr = Len(transfers) + 1
         /\ Len(transfers) \in Nat \ {0}
         /\ DOMAIN transfers = 1 .. Len(transfers)
<1>1. /\ Len(transfers) \in Nat /\ DOMAIN transfers = 1 .. Len(transfers)
      /\ tr \in Nat /\ total \in Nat /\ workload \in Nat
      /\ request \in Requests
  BY LenProperties DEF IInv, TypeOK, PlanTypeOK, WorkTypeOK
<1>2. tr = Len(transfers) + 1
  <2>1. workload < NumWorkloads /\ tr <= Len(transfers) + 1
    BY DEF IInv, Assigned
  <2>2. NumWorkloads \in 1 .. NumWorkers /\ NumWorkers \in Nat
    BY <1>1, ShareFacts, AssignerAssumption
  <2>3. workload < NumWorkers
    BY <1>1, <2>1, <2>2
  <2> QED
    BY <1>1, <2>1, <2>3 DEF Assigning
<1>3. 1 \in DOMAIN transfers
  <2> SUFFICES ASSUME 1 \notin DOMAIN transfers
               PROVE  FALSE
    OBVIOUS
  <2>1. From(1) = Len(request) + 1 /\ From(1) = 1
    BY DEF IInv, Coalesced, From, Covered
  <2> QED
    BY <1>1, <2>1, RequestFacts
<1> QED
  BY <1>1, <1>2, <1>3

(* Before the first task nothing is placed. *)
LEMMA StartBuildInv ==
  ASSUME IInv, StartBuild
  PROVE  IInv'
<1>1. /\ phase = "assign" /\ phase' = "build" /\ ~Assigning
      /\ tr' = 1 /\ next' = 1 /\ cur' = 1
      /\ left' = slices[1][1].size
      /\ rest' = transfers[1].sizes[1]
      /\ placed' = 0
      /\ UNCHANGED <<request, total, transfers, slices, workload, consumed>>
      /\ UNCHANGED <<assigned, tasks>>
  BY DEF StartBuild, coalesceVars, assignVars
<1>2. tr = Len(transfers) + 1 /\ Len(transfers) \in Nat \ {0}
        /\ DOMAIN transfers = 1 .. Len(transfers)
  BY <1>1, AssignEnds
<1>3. Covered' = Covered
  BY <1>1 DEF Covered
<1>4. /\ Coalesced'
      /\ Total' = Total
      /\ \A a : IndexInFile(a)' = IndexInFile(a)
      /\ \A i : Start(i)' = Start(i) /\ Before(i)' = Before(i)
  BY <1>1, <1>3, SamePlan
<1>5. /\ 1 \in DOMAIN transfers
      /\ \A i \in DOMAIN transfers : i < tr
  BY <1>2
<1>6. /\ transfers[1].sizes \in Seq(Nat)
      /\ 1 \in DOMAIN transfers[1].sizes
      /\ Start(1) = 1 /\ 1 \in DOMAIN request
      /\ Covers(1, 1, Len(transfers[1].sizes))
      /\ Len(transfers[1].sizes) \in Nat \ {0}
  <2>1. From(1) = 1
    BY DEF IInv, Coalesced
  <2> QED
    BY <1>5, <2>1, TransferFacts
<1>7. /\ 1 \in DOMAIN slices[1] /\ slices[1][1].size \in Nat
      /\ SumTo(slices[1])[1] = SumTo(slices[1])[0] + slices[1][1].size
      /\ SumTo(slices[1])[0] = 0
  <2>1. phase = "assign" /\ 1 < tr
    BY <1>1, <1>5
  <2>2. /\ 1 \in DOMAIN slices[1] /\ Sized(slices[1])
        /\ slices[1][1] \in Slice
        /\ SumTo(slices[1])[1] = SumTo(slices[1])[1 - 1] + slices[1][1].size
    BY <1>5, <2>1, SliceFacts
  <2>3. SumTo(slices[1])[0] = 0
    BY <2>2, SumSteps
  <2> QED
    BY <2>2, <2>3 DEF Slice
<1>8. transfers[1].sizes[1] \in Nat /\ transfers[1].sizes[1] = request[1].size
  <2>1. transfers[1].sizes[1] \in Nat
    BY <1>6, ElementOfSeq
  <2>2. request[1 + 1 - 1].size = transfers[1].sizes[1]
    BY <1>6 DEF Covers
  <2> QED
    BY <2>1, <2>2
<1>9. TypeOK'
  BY <1>1, <1>7, <1>8 DEF IInv, TypeOK, PlanTypeOK, WorkTypeOK
<1>10. Assigned'
  <2>1. ASSUME NEW i \in DOMAIN transfers
        PROVE  SlicesCover(i)'
    <3>1. /\ SlicesCover(i) /\ i < tr /\ ~(i >= tr) /\ ~(i = tr) /\ ~(i > tr)
      BY <1>1, <1>2, <1>5 DEF IInv, Assigned
    <3>2. Sliced(i)' = Sliced(i)
      BY <1>1, <3>1 DEF Sliced
    <3> QED
      BY <1>1, <3>1, <3>2, SameShares DEF SlicesCover
  <2> QED
    BY <1>1, <2>1 DEF IInv, Assigned
<1>11. At' = 1
  <2>1. Start(tr)' = Start(1)'
    BY <1>1 DEF Start
  <2> QED
    BY <1>1, <1>4, <1>6, <2>1 DEF At
<1>12. tasks' = <<>> /\ DOMAIN tasks' = {}
  BY <1>1 DEF IInv, Built
<1>13. /\ tr' \in DOMAIN transfers'
       /\ next' \in DOMAIN transfers'[tr'].sizes
       /\ cur' \in DOMAIN slices'[tr']
       /\ left' <= slices'[tr'][cur'].size
       /\ rest' <= request'[At'].size
       /\ placed' + rest' + Before(tr)' = Total'[At']
       /\ placed' + left' = SumTo(slices'[tr'])[cur']
  <2>1. Before(tr)' = 0
    <3>1. Before(tr)' = Before(1)'
      BY <1>1 DEF Before, From, Start
    <3> QED
      BY <1>4, <3>1, BeforeFacts
  <2>2. Total[1] = request[1].size
    <3>1. Total[1] = Total[1 - 1] + request[1].size /\ Total[0] = 0
      BY <1>6, TotalFacts DEF IInv, TypeOK, PlanTypeOK
    <3> QED
      BY <1>8, <3>1
  <2>3. Total'[At'] = Total[1] /\ request'[At'] = request[1]
    BY <1>1, <1>4, <1>11
  <2>4. SumTo(slices'[tr'])[cur'] = SumTo(slices[1])[1]
    BY <1>1
  <2> QED
    BY <1>1, <1>5, <1>6, <1>7, <1>8, <2>1, <2>2, <2>3, <2>4
<1>14. ASSUME NEW a \in DOMAIN request
       PROVE  RangeTiled(a)'
  <2>1. TasksOfRange(a)' = {}
    BY <1>12 DEF TasksOfRange
  <2>2. a \in Nat \ {0} /\ request[a].size \in Nat /\ request[a].offset \in Nat
    BY RequestFacts DEF IInv, TypeOK, PlanTypeOK, ReadRange
  <2>3. InTasks(a)' = 0 /\ ~(a < At')
    BY <1>1, <1>8, <1>11, <2>2 DEF InTasks
  <2>4. Tile(TasksOfRange(a), request[a].offset, InTasks(a))'
    <3>1. Bytes(request[a].offset, 0) = {}
      BY <2>2 DEF Bytes
    <3> QED
      BY <1>1, <2>1, <2>3, <3>1 DEF Tile, Bytes
  <2> QED
    BY <1>1, <2>1, <2>3, <2>4 DEF RangeTiled
<1>15. ASSUME NEW i \in DOMAIN slices, NEW j \in DOMAIN slices[i]
       PROVE  SliceFilled(i, j)'
  <2>1. TasksOfBatch(i, j)' = {}
    BY <1>12 DEF TasksOfBatch
  <2>2. i \in Nat \ {0} /\ j \in Nat \ {0} /\ slices[i][j] \in Slice
    <3>1. i \in DOMAIN transfers /\ i < tr
      BY <1>1, <1>5 DEF IInv, Assigned
    <3> QED
      BY <1>1, <1>2, <3>1, SliceFacts
  <2>3. slices[i][j].size \in Nat /\ slices[i][j].offset \in Nat
    BY <2>2 DEF Slice
  <2>4. InBatch(i, j)' = 0
    BY <1>1, <2>2, <2>3 DEF InBatch
  <2>5. Tile(TasksOfBatch(i, j), slices[i][j].offset, InBatch(i, j))'
    <3>1. Bytes(slices[i][j].offset, 0) = {}
      BY <2>3 DEF Bytes
    <3> QED
      BY <1>1, <2>1, <2>4, <3>1 DEF Tile, Bytes
  <2> QED
    BY <1>1, <2>1, <2>5 DEF SliceFilled
<1>16. Built'
  BY <1>1, <1>13, <1>14, <1>15 DEF Built
<1> QED
  BY <1>4, <1>9, <1>10, <1>16 DEF IInv

-----------------------------------------------------------------------------
(* Batches::build_tasks *)

TiledBy(seq, ks, lo, n) ==
  /\ UNION {Bytes(seq[k].offset, seq[k].size) : k \in ks} = Bytes(lo, n)
  /\ \A k \in ks :
       UNION {Bytes(seq[m].offset, seq[m].size) : m \in {m \in ks : m < k}}
         = lo .. seq[k].offset - 1

(* Tile, of the tasks before and after a step. *)
LEMMA TileIs ==
  ASSUME NEW ks, NEW lo, NEW n
  PROVE  /\ Tile(ks, lo, n) <=> TiledBy(tasks, ks, lo, n)
         /\ Tile(ks, lo, n)' <=> TiledBy(tasks', ks, lo, n)
  BY DEF Tile, TiledBy, TaskBytes

(* A task more leaves what the others tile. *)
LEMMA TileKeeps ==
  ASSUME NEW seq \in Seq(Task), NEW e \in Task, NEW ks,
         ks \subseteq 1 .. Len(seq), NEW lo, NEW n, TiledBy(seq, ks, lo, n)
  PROVE  TiledBy(Append(seq, e), ks, lo, n)
<1> DEFINE new == Append(seq, e)
<1>1. \A k \in 1 .. Len(seq) : new[k] = seq[k]
  BY AppendProperties
<1> HIDE DEF new
<1>2. \A k \in ks : new[k] = seq[k]
  BY <1>1
<1>3. \A ms : ms \subseteq ks =>
        UNION {Bytes(new[k].offset, new[k].size) : k \in ms}
          = UNION {Bytes(seq[k].offset, seq[k].size) : k \in ms}
  BY <1>2
<1>4. TiledBy(new, ks, lo, n)
  BY <1>2, <1>3 DEF TiledBy
<1> QED
  BY <1>4 DEF new

(* A task that begins where the others end tiles what they tile and its    *)
(* own bytes.                                                              *)
LEMMA TileAppends ==
  ASSUME NEW seq \in Seq(Task), NEW e \in Task, NEW ks,
         ks \subseteq 1 .. Len(seq), NEW lo \in Nat, NEW n \in Nat,
         TiledBy(seq, ks, lo, n), e.offset = lo + n
  PROVE  TiledBy(Append(seq, e), ks \cup {Len(seq) + 1}, lo, n + e.size)
<1> DEFINE new == Append(seq, e)
           last == Len(seq) + 1
           Union(s, ms) == UNION {Bytes(s[k].offset, s[k].size) : k \in ms}
<1>1. /\ Len(seq) \in Nat /\ last \in Nat
      /\ new[last] = e
      /\ TiledBy(new, ks, lo, n)
  <2>1. TiledBy(new, ks, lo, n)
    BY TileKeeps
  <2>2. Len(seq) \in Nat /\ new[last] = e
    BY AppendProperties, LenProperties
  <2> QED
    BY <2>1, <2>2
<1>2. \A k \in ks : k < last /\ k \in Nat
  BY <1>1
<1>3. e.size \in Nat /\ e.offset \in Nat
  BY DEF Task
<1> HIDE DEF new, last
<1>4. Union(new, ks) = Bytes(lo, n)
  BY <1>1 DEF TiledBy
<1>5. Union(new, ks \cup {last}) = Union(new, ks) \cup Bytes(e.offset, e.size)
  BY <1>1
<1>6. Bytes(lo, n) \cup Bytes(e.offset, e.size) = Bytes(lo, n + e.size)
  <2>1. ASSUME NEW x
        PROVE  x \in Bytes(lo, n) \cup Bytes(e.offset, e.size)
                 <=> x \in Bytes(lo, n + e.size)
    <3>1. PICK m : m = e.size
      OBVIOUS
    <3>2. PICK end \in Nat : end = lo + n
      OBVIOUS
    <3>3. m \in Nat
      BY <1>3, <3>1
    <3>4. x \in lo .. end - 1 \cup end .. end + m - 1
            <=> x \in lo .. lo + (n + m) - 1
      BY <3>2, <3>3
    <3>5. e.offset = end
      BY <3>2
    <3> QED
      BY <3>1, <3>2, <3>4, <3>5 DEF Bytes
  <2> QED
    BY <2>1
<1>7. ASSUME NEW k \in ks \cup {last}
      PROVE  Union(new, {m \in ks \cup {last} : m < k})
               = lo .. new[k].offset - 1
  <2>1. CASE k \in ks
    <3>1. {m \in ks \cup {last} : m < k} = {m \in ks : m < k}
      BY <1>1, <1>2, <2>1
    <3>2. Union(new, {m \in ks : m < k}) = lo .. new[k].offset - 1
      BY <1>1, <2>1 DEF TiledBy
    <3> QED
      BY <3>1, <3>2
  <2>2. CASE k = last
    <3>1. {m \in ks \cup {last} : m < k} = ks
      BY <1>1, <1>2, <2>2
    <3>2. Bytes(lo, n) = lo .. e.offset - 1
      BY DEF Bytes
    <3>3. new[k] = e
      BY <1>1, <2>2
    <3> QED
      BY <1>4, <3>1, <3>2, <3>3
  <2> QED
    BY <2>1, <2>2
<1>8. TiledBy(new, ks \cup {last}, lo, n + e.size)
  BY <1>4, <1>5, <1>6, <1>7 DEF TiledBy
<1> QED
  BY <1>8 DEF new, last

(* Where the build is: in a range, in a transfer. *)
LEMMA BuildFacts ==
  ASSUME IInv, phase = "build"
  PROVE  /\ At \in DOMAIN request /\ At \in Nat \ {0}
         /\ tr \in DOMAIN transfers /\ tr \in Nat \ {0}
         /\ next \in Nat \ {0} /\ next <= Len(transfers[tr].sizes)
         /\ left \in Nat /\ rest \in Nat /\ placed \in Nat
         /\ rest <= request[At].size
         /\ request[At] \in ReadRange /\ transfers[tr] \in Transfer
         /\ request[At].file = transfers[tr].file
         /\ IndexInFile(At) = transfers[tr].first + next - 1
         /\ request[At].offset + Before(tr)
              = transfers[tr].offset + Total[At - 1]
         /\ request[At].dst + Before(tr) = transfers[tr].dst + Total[At - 1]
         /\ Total[At] = Total[At - 1] + request[At].size
         /\ Total[At - 1] \in Nat /\ Total[At] \in Nat /\ Before(tr) \in Nat
         /\ placed + rest + Before(tr) = Total[At]
         /\ Total[At] <= Before(tr) + transfers[tr].size
         /\ next = Len(transfers[tr].sizes) =>
              Total[At] = Before(tr) + transfers[tr].size
<1> DEFINE a == Start(tr)
           n == Len(transfers[tr].sizes)
           t == transfers[tr]
<1>1. /\ tr \in DOMAIN transfers /\ tr \in Nat \ {0}
      /\ next \in DOMAIN transfers[tr].sizes /\ next \in Nat \ {0}
      /\ left \in Nat /\ rest \in Nat /\ placed \in Nat
      /\ rest <= request[At].size
      /\ placed + rest + Before(tr) = Total[At]
      /\ request \in Requests
  BY DEF IInv, TypeOK, PlanTypeOK, WorkTypeOK, Built
<1>2. /\ t \in Transfer /\ n \in Nat \ {0}
      /\ next \in 1 .. n
      /\ a \in Nat \ {0} /\ From(tr) = a /\ From(tr + 1) = a + n
      /\ Covers(tr, a, n)
      /\ Covered <= Len(request) /\ Covered \in Nat
  BY <1>1, TransferFacts
<1>3. Len(request) \in Nat /\ DOMAIN request = 1 .. Len(request)
  BY <1>1, RequestFacts
<1>4. At = a + next - 1
  BY DEF At
<1>5. Before(tr) = Total[a - 1]
  BY <1>2 DEF Before
<1> HIDE DEF a, n, t
<1>6. /\ a + n - 1 <= Covered
      /\ request[a + next - 1].file = transfers[tr].file
      /\ IndexInFile(a + next - 1) = transfers[tr].first + next - 1
      /\ request[a + next - 1].offset + Total[a - 1]
           = transfers[tr].offset + Total[a + next - 2]
      /\ request[a + next - 1].dst + Total[a - 1]
           = transfers[tr].dst + Total[a + next - 2]
      /\ transfers[tr].size + Total[a - 1] = Total[a + n - 1]
  BY <1>2 DEF Covers
<1>7. /\ At \in DOMAIN request /\ At \in Nat \ {0}
      /\ At - 1 = a + next - 2
      /\ At \in 0 .. Len(request) /\ At - 1 \in 0 .. Len(request)
      /\ a + n - 1 \in 0 .. Len(request) /\ At <= a + n - 1
      /\ next = n => At = a + n - 1
      /\ a - 1 \in 0 .. Len(request)
  <2>1. /\ a \in Nat \ {0} /\ n \in Nat \ {0} /\ next \in 1 .. n
        /\ a + n - 1 <= Covered /\ Covered <= Len(request)
        /\ Covered \in Nat /\ Len(request) \in Nat
    BY <1>2, <1>3, <1>6
  <2>2. PICK at : at = a + next - 1
    OBVIOUS
  <2>3. /\ at \in 1 .. Len(request) /\ at - 1 = a + next - 2
        /\ at <= a + n - 1 /\ a + n - 1 \in 0 .. Len(request)
        /\ next = n => at = a + n - 1
        /\ a - 1 \in 0 .. Len(request)
        /\ at \in Nat \ {0}
        /\ at \in 0 .. Len(request) /\ at - 1 \in 0 .. Len(request)
    BY <2>1, <2>2
  <2>4. At = at
    BY <1>4, <2>2
  <2> QED
    BY <1>3, <2>3, <2>4
<1>8. /\ Total[At] = Total[At - 1] + request[At].size
      /\ Total[At - 1] \in Nat /\ Total[At] \in Nat /\ Total[a - 1] \in Nat
      /\ Total[At] <= Total[a + n - 1]
      /\ request[At] \in ReadRange
  BY <1>1, <1>7, TotalFacts, RequestFacts
<1>9. transfers[tr].size \in Nat /\ transfers[tr] \in Transfer
  BY <1>2 DEF Transfer, t
<1>10. /\ Total[At] <= Before(tr) + transfers[tr].size
       /\ next = n => Total[At] = Before(tr) + transfers[tr].size
  <2>1. Total[a + n - 1] = Before(tr) + transfers[tr].size
    BY <1>5, <1>6, <1>8, <1>9
  <2> QED
    BY <1>7, <1>8, <2>1
<1>11. /\ request[At].file = transfers[tr].file
       /\ IndexInFile(At) = transfers[tr].first + next - 1
       /\ request[At].offset + Before(tr)
            = transfers[tr].offset + Total[At - 1]
       /\ request[At].dst + Before(tr) = transfers[tr].dst + Total[At - 1]
  BY <1>4, <1>5, <1>6, <1>7
<1>12. next <= Len(transfers[tr].sizes)
  BY <1>2 DEF n
<1> QED
  BY <1>1, <1>5, <1>7, <1>8, <1>9, <1>10, <1>11, <1>12 DEF n

(* What consume uses: its task, what is left of it, and the bytes it takes. *)
NextCur == IF Advances THEN cur + 1 ELSE cur
NextLeft == IF Advances THEN slices[tr][NextCur].size ELSE left
Take == MinOf(NextLeft, rest)

(* When there are bytes to place the iterator does not run past its last   *)
(* task, and it takes nothing only for a range of no bytes.                *)
LEMMA AdvanceFacts ==
  ASSUME IInv, phase = "build"
  PROVE  /\ Advances => cur < Len(slices[tr])
         /\ NextCur \in DOMAIN slices[tr] /\ NextCur \in Nat \ {0}
         /\ cur <= NextCur
         /\ NextLeft \in Nat /\ NextLeft <= slices[tr][NextCur].size
         /\ slices[tr][NextCur].size \in Nat
         /\ placed + NextLeft = SumTo(slices[tr])[NextCur]
         /\ Take \in Nat /\ Take <= NextLeft /\ Take <= rest
         /\ Take = NextLeft \/ Take = rest
         /\ \A j \in DOMAIN slices[tr] :
              InBatch(tr, j) = IF j < NextCur THEN slices[tr][j].size
                               ELSE IF j = NextCur
                               THEN slices[tr][j].size - NextLeft
                               ELSE 0
<1> DEFINE seq == slices[tr]
           p == transfers[tr].size
<1>1. /\ left \in Nat /\ rest \in Nat /\ placed \in Nat
      /\ placed + rest + Before(tr) = Total[At]
      /\ Total[At] <= Before(tr) + p
      /\ Before(tr) \in Nat
      /\ tr \in DOMAIN transfers /\ transfers[tr] \in Transfer
      /\ tr \in Nat \ {0}
  BY BuildFacts
<1>2. cur \in DOMAIN seq /\ left <= seq[cur].size
        /\ placed + left = SumTo(seq)[cur] /\ cur \in Nat
  BY DEF IInv, Built, TypeOK, WorkTypeOK
<1>3. /\ Len(seq) \in Nat \ {0} /\ DOMAIN seq = 1 .. Len(seq)
      /\ SumTo(seq)[Len(seq)] = p
      /\ \A j \in DOMAIN seq :
           /\ seq[j] \in Slice
           /\ p > 0 => seq[j].size > 0
           /\ SumTo(seq)[j] = SumTo(seq)[j - 1] + seq[j].size
           /\ SumTo(seq)[j] \in Nat /\ SumTo(seq)[j - 1] \in Nat
  BY <1>1, SliceFacts
<1>4. p \in Nat /\ \A j \in DOMAIN seq : seq[j].size \in Nat
  BY <1>1, <1>3 DEF Transfer, Slice
<1>5. /\ NextCur = IF left = 0 /\ rest > 0 THEN cur + 1 ELSE cur
      /\ NextLeft = IF left = 0 /\ rest > 0 THEN seq[NextCur].size ELSE left
      /\ Advances <=> left = 0 /\ rest > 0
  BY DEF NextCur, NextLeft, Advances
<1>6. \A j \in DOMAIN seq :
        InBatch(tr, j) = IF j < cur THEN seq[j].size
                         ELSE IF j = cur THEN seq[j].size - left ELSE 0
  BY <1>1, <1>2, <1>3 DEF InBatch
<1> HIDE DEF seq, p
<1>7. Advances => cur < Len(seq)
  <2> SUFFICES ASSUME Advances, ~(cur < Len(seq))
               PROVE  FALSE
    OBVIOUS
  <2>1. cur = Len(seq)
    BY <1>2, <1>3
  <2>2. placed = p
    BY <1>1, <1>2, <1>3, <1>4, <1>5, <2>1
  <2>3. rest > 0
    BY <1>5
  <2> QED
    BY <1>1, <1>4, <2>2, <2>3
<1>8. /\ NextCur \in DOMAIN seq /\ NextCur \in Nat \ {0} /\ cur <= NextCur
      /\ NextLeft \in Nat /\ NextLeft <= seq[NextCur].size
      /\ placed + NextLeft = SumTo(seq)[NextCur]
  <2>1. CASE Advances
    <3>1. NextCur = cur + 1 /\ cur + 1 \in DOMAIN seq /\ left = 0
            /\ NextLeft = seq[cur + 1].size
      BY <1>2, <1>3, <1>5, <1>7, <2>1
    <3>2. /\ SumTo(seq)[cur + 1] = SumTo(seq)[(cur + 1) - 1] + seq[cur + 1].size
          /\ (cur + 1) - 1 = cur /\ seq[cur + 1].size \in Nat
      BY <1>2, <1>3, <1>4, <3>1
    <3> QED
      BY <1>1, <1>2, <3>1, <3>2
  <2>2. CASE ~Advances
    <3>1. NextCur = cur /\ NextLeft = left
      BY <1>5, <2>2
    <3> QED
      BY <1>1, <1>2, <1>3, <3>1
  <2> QED
    BY <2>1, <2>2
<1>9. /\ Take \in Nat /\ Take <= NextLeft /\ Take <= rest
      /\ Take = NextLeft \/ Take = rest
  BY <1>1, <1>8 DEF Take, MinOf
<1>10. ASSUME NEW j \in DOMAIN seq
       PROVE  InBatch(tr, j) = IF j < NextCur THEN seq[j].size
                               ELSE IF j = NextCur THEN seq[j].size - NextLeft
                               ELSE 0
  <2>1. CASE Advances
    <3>1. NextCur = cur + 1 /\ left = 0 /\ NextLeft = seq[NextCur].size
      BY <1>5, <2>1
    <3>2. j \in Nat /\ cur \in Nat /\ seq[j].size \in Nat
      BY <1>2, <1>3, <1>4
    <3> QED
      BY <1>6, <3>1, <3>2
  <2>2. CASE ~Advances
    <3>1. NextCur = cur /\ NextLeft = left
      BY <1>5, <2>2
    <3> QED
      BY <1>6, <3>1
  <2> QED
    BY <2>1, <2>2
<1> QED
  BY <1>4, <1>7, <1>8, <1>9, <1>10 DEF seq

(* The task that consume makes. *)
Placing ==
  [file |-> transfers[tr].file, index |-> transfers[tr].first + next - 1,
   batch |-> <<tr, NextCur>>, workload |-> slices[tr][NextCur].workload,
   offset |-> slices[tr][1].offset + placed, size |-> Take,
   dst |-> slices[tr][1].dst + placed]

(* The arithmetic of two byte counts that end at the same place. *)
LEMMA Meet ==
  /\ \A x, y, b, p, q, z, m, n \in Nat :
       x + b = y + p /\ q = p + z /\ m + n + b = q => y + m = x + (z - n)
  /\ \A x, y, p, q, z, m, n \in Nat :
       x = y + p /\ q = p + z /\ m + n = q => y + m = x + (z - n)
  OBVIOUS

(* It begins where the tasks of its range end, and where those of its      *)
(* slice end: the two cursors are one.                                     *)
LEMMA PlacingFacts ==
  ASSUME IInv, phase = "build"
  PROVE  /\ Placing \in Task
         /\ Placing.size = Take
         /\ Placing.file = request[At].file
         /\ Placing.index = IndexInFile(At)
         /\ Placing.batch = <<tr, NextCur>>
         /\ Placing.offset = request[At].offset + (request[At].size - rest)
         /\ Placing.dst = request[At].dst + (request[At].size - rest)
         /\ Placing.offset
              = slices[tr][NextCur].offset
                  + (slices[tr][NextCur].size - NextLeft)
         /\ Placing.dst
              = slices[tr][NextCur].dst + (slices[tr][NextCur].size - NextLeft)
<1> DEFINE t == transfers[tr]
           r == request[At]
           s == slices[tr][NextCur]
           sum(n) == SumTo(slices[tr])[n]
<1>1. /\ t \in Transfer /\ r \in ReadRange
      /\ tr \in DOMAIN transfers /\ tr \in Nat
      /\ next \in Nat \ {0} /\ rest \in Nat /\ placed \in Nat
      /\ r.file = t.file /\ IndexInFile(At) = t.first + next - 1
      /\ r.offset + Before(tr) = t.offset + Total[At - 1]
      /\ r.dst + Before(tr) = t.dst + Total[At - 1]
      /\ Total[At] = Total[At - 1] + r.size
      /\ Total[At - 1] \in Nat /\ Total[At] \in Nat /\ Before(tr) \in Nat
      /\ placed + rest + Before(tr) = Total[At]
  BY BuildFacts
<1>2. /\ NextCur \in DOMAIN slices[tr] /\ NextCur \in Nat
      /\ NextLeft \in Nat /\ s.size \in Nat /\ Take \in Nat
      /\ placed + NextLeft = sum(NextCur)
  BY AdvanceFacts
<1>3. /\ s \in Slice
      /\ 1 \in DOMAIN slices[tr]
      /\ Sized(slices[tr])
      /\ s.offset = t.offset + sum(NextCur - 1)
      /\ s.dst = t.dst + sum(NextCur - 1)
      /\ sum(NextCur) = sum(NextCur - 1) + s.size
      /\ sum(NextCur) \in Nat /\ sum(NextCur - 1) \in Nat
      /\ slices[tr][1].offset = t.offset + SumTo(slices[tr])[1 - 1]
      /\ slices[tr][1].dst = t.dst + SumTo(slices[tr])[1 - 1]
  <2> DEFINE is(j) == /\ slices[tr][j] \in Slice
                      /\ slices[tr][j].offset = t.offset + sum(j - 1)
                      /\ slices[tr][j].dst = t.dst + sum(j - 1)
                      /\ sum(j) = sum(j - 1) + slices[tr][j].size
                      /\ sum(j) \in Nat /\ sum(j - 1) \in Nat
  <2>1. /\ \A j \in DOMAIN slices[tr] : is(j)
        /\ Len(slices[tr]) \in Nat \ {0}
        /\ DOMAIN slices[tr] = 1 .. Len(slices[tr])
        /\ Sized(slices[tr])
    BY <1>1, SliceFacts
  <2>2. 1 \in DOMAIN slices[tr]
    BY <2>1
  <2> HIDE DEF is
  <2>3. is(1) /\ is(NextCur)
    BY <1>2, <2>1, <2>2
  <2> QED
    BY <2>1, <2>2, <2>3 DEF is
<1>4. SumTo(slices[tr])[1 - 1] = 0
  BY <1>3, SumSteps
<1>5. /\ t.file \in Nat /\ t.first \in Nat /\ t.offset \in Nat /\ t.dst \in Nat
      /\ r.offset \in Nat /\ r.dst \in Nat /\ r.size \in Nat
      /\ s.workload \in Nat /\ s.offset \in Nat /\ s.dst \in Nat
  BY <1>1, <1>3 DEF Transfer, ReadRange, Slice
<1>6. /\ slices[tr][1].offset = t.offset /\ slices[tr][1].dst = t.dst
  BY <1>3, <1>4, <1>5
<1> HIDE DEF t, r, s, sum
<1>7. Placing = [file |-> t.file, index |-> t.first + next - 1,
                 batch |-> <<tr, NextCur>>, workload |-> s.workload,
                 offset |-> t.offset + placed, size |-> Take,
                 dst |-> t.dst + placed]
  BY <1>6 DEF Placing, t, s
<1>8. Placing \in Task
  <2>1. /\ t.first + next - 1 \in Nat
        /\ t.offset + placed \in Nat /\ t.dst + placed \in Nat
    BY <1>1, <1>5
  <2> QED
    BY <1>1, <1>2, <1>5, <1>7, <2>1 DEF Task
<1>9. /\ t.offset + placed = r.offset + (r.size - rest)
      /\ t.dst + placed = r.dst + (r.size - rest)
  BY <1>1, <1>5, Meet
<1>10. /\ t.offset + placed = s.offset + (s.size - NextLeft)
       /\ t.dst + placed = s.dst + (s.size - NextLeft)
  BY <1>1, <1>2, <1>3, <1>5, Meet
<1> QED
  BY <1>1, <1>7, <1>8, <1>9, <1>10 DEF r, s

(* The tasks of a range, with one more. *)
LEMMA RangeGrows ==
  ASSUME IInv, phase = "build", tasks' = Append(tasks, Placing),
         request' = request, NEW a \in DOMAIN request
  PROVE  /\ \A k \in TasksOfRange(a)' :
              tasks'[k].dst + request[a].offset
                = request[a].dst + tasks'[k].offset
         /\ TiledBy(tasks', TasksOfRange(a)', request[a].offset,
                    IF a < At THEN request[a].size
                    ELSE IF a = At THEN request[a].size - rest + Take
                    ELSE 0)
         /\ a <= At => TasksOfRange(a)' # {}
         /\ a > At => TasksOfRange(a)' = {}
<1> DEFINE N == Len(tasks) + 1
           r == request[a]
           now == IF a < At THEN r.size ELSE IF a = At THEN r.size - rest ELSE 0
<1>1. /\ tasks \in Seq(Task) /\ Placing \in Task
      /\ Len(tasks) \in Nat
      /\ DOMAIN tasks = 1 .. Len(tasks)
  BY PlacingFacts, LenProperties DEF IInv, TypeOK, WorkTypeOK
<1>2. /\ DOMAIN tasks' = DOMAIN tasks \cup {N}
      /\ N \notin DOMAIN tasks
      /\ tasks'[N] = Placing
      /\ \A k \in DOMAIN tasks : tasks'[k] = tasks[k]
  <2>1. /\ Len(tasks') = Len(tasks) + 1 /\ tasks' \in Seq(Task)
        /\ tasks'[Len(tasks) + 1] = Placing
        /\ \A k \in 1 .. Len(tasks) : tasks'[k] = tasks[k]
    BY <1>1, AppendProperties
  <2>2. DOMAIN tasks' = 1 .. Len(tasks')
    BY <2>1, LenProperties
  <2> QED
    BY <1>1, <2>1, <2>2
<1>3. /\ RangeTiled(a) /\ InTasks(a) = now
      /\ a \in Nat /\ At \in Nat /\ At \in DOMAIN request
      /\ request \in Requests
      /\ r.offset \in Nat /\ r.size \in Nat /\ rest \in Nat
      /\ r \in ReadRange
  <2>1. RangeTiled(a) /\ request \in Requests
    BY DEF IInv, Built, TypeOK, PlanTypeOK
  <2>2. a \in Nat /\ r \in ReadRange
    BY <2>1, RequestFacts
  <2>3. InTasks(a) = now
    BY DEF InTasks
  <2> QED
    BY <2>1, <2>2, <2>3, BuildFacts DEF ReadRange
<1>4. /\ TiledBy(tasks, TasksOfRange(a), r.offset, now)
      /\ TasksOfRange(a) \subseteq 1 .. Len(tasks)
      /\ a < At => TasksOfRange(a) # {}
      /\ a > At => TasksOfRange(a) = {}
      /\ \A k \in TasksOfRange(a) : tasks[k].dst + r.offset = r.dst + tasks[k].offset
  <2>1. Tile(TasksOfRange(a), r.offset, now)
    BY <1>3 DEF RangeTiled
  <2>2. TasksOfRange(a) \subseteq 1 .. Len(tasks)
    BY <1>1 DEF TasksOfRange
  <2>3. TiledBy(tasks, TasksOfRange(a), r.offset, now)
    BY <2>1, TileIs
  <2> QED
    BY <1>3, <2>2, <2>3 DEF RangeTiled
<1>5. N \in TasksOfRange(a)' <=> a = At
  <2>1. IndexInFile(a)' = IndexInFile(a)
    BY SameRequest
  <2>2. N \in TasksOfRange(a)' <=>
          Placing.file = r.file /\ Placing.index = IndexInFile(a)
    BY <1>2, <2>1 DEF TasksOfRange
  <2>3. Placing.file = request[At].file /\ Placing.index = IndexInFile(At)
    BY PlacingFacts
  <2> QED
    BY <1>3, <2>2, <2>3, IndexIsUnique
<1>6. \A k \in DOMAIN tasks : k \in TasksOfRange(a)' <=> k \in TasksOfRange(a)
  <2>1. IndexInFile(a)' = IndexInFile(a)
    BY SameRequest
  <2> QED
    BY <1>2, <2>1 DEF TasksOfRange
<1>7. TasksOfRange(a)' \subseteq DOMAIN tasks \cup {N}
  BY <1>2 DEF TasksOfRange
<1> HIDE DEF N
<1>8. CASE a = At
  <2>1. TasksOfRange(a)' = TasksOfRange(a) \cup {N}
    BY <1>1, <1>4, <1>5, <1>6, <1>7, <1>8
  <2>2. now = r.size - rest /\ now \in Nat /\ rest <= r.size
    <3>1. rest <= request[At].size
      BY BuildFacts
    <3>2. rest <= r.size /\ ~(a < At)
      BY <1>3, <1>8, <3>1
    <3>3. now = r.size - rest
      BY <1>8, <3>2
    <3> QED
      BY <1>3, <3>2, <3>3
  <2>3. /\ Placing.offset = r.offset + now /\ Placing.dst = r.dst + now
        /\ Placing.size = Take
    BY <1>8, <2>2, PlacingFacts
  <2> HIDE DEF r, now
  <2>4. TiledBy(tasks', TasksOfRange(a)', r.offset, now + Take)
    <3>1. TiledBy(Append(tasks, Placing), TasksOfRange(a) \cup {Len(tasks) + 1},
                  r.offset, now + Placing.size)
      BY <1>1, <1>3, <1>4, <2>2, <2>3, TileAppends DEF r
    <3> QED
      BY <2>1, <2>3, <3>1 DEF N
  <2>5. Placing.dst + r.offset = r.dst + Placing.offset
    <3>1. r.dst \in Nat /\ r.offset \in Nat
      BY <1>3 DEF ReadRange
    <3> QED
      BY <2>2, <2>3, <3>1
  <2>6. \A k \in TasksOfRange(a)' :
          tasks'[k].dst + r.offset = r.dst + tasks'[k].offset
    BY <1>1, <1>2, <1>4, <2>1, <2>5
  <2>7. ~(a < At) /\ ~(a > At)
    BY <1>3, <1>8
  <2> QED
    BY <1>8, <2>1, <2>2, <2>4, <2>6, <2>7 DEF r
<1>9. CASE a # At
  <2>1. TasksOfRange(a)' = TasksOfRange(a)
    BY <1>1, <1>4, <1>5, <1>6, <1>7, <1>9
  <2>2. TiledBy(tasks', TasksOfRange(a)', r.offset, now)
    BY <1>1, <1>4, <2>1, TileKeeps
  <2>3. \A k \in TasksOfRange(a)' :
          tasks'[k].dst + r.offset = r.dst + tasks'[k].offset
    BY <1>1, <1>2, <1>4, <2>1
  <2>4. a <= At => a < At
    BY <1>3, <1>9
  <2> QED
    BY <1>4, <1>9, <2>1, <2>2, <2>3, <2>4
<1> QED
  BY <1>8, <1>9

(* The tasks of a slice, with one more. *)
LEMMA SliceGrows ==
  ASSUME IInv, phase = "build", tasks' = Append(tasks, Placing),
         slices' = slices, NEW i \in DOMAIN slices, NEW j \in DOMAIN slices[i]
  PROVE  /\ \A k \in TasksOfBatch(i, j)' :
              tasks'[k].dst + slices[i][j].offset
                = slices[i][j].dst + tasks'[k].offset
         /\ TiledBy(tasks', TasksOfBatch(i, j)', slices[i][j].offset,
                    IF i < tr \/ (i = tr /\ j < NextCur) THEN slices[i][j].size
                    ELSE IF i = tr /\ j = NextCur
                    THEN slices[i][j].size - NextLeft + Take
                    ELSE 0)
         /\ i > tr \/ (i = tr /\ j > NextCur) => TasksOfBatch(i, j)' = {}
<1> DEFINE N == Len(tasks) + 1
           s == slices[i][j]
           now == IF i < tr \/ (i = tr /\ j < NextCur) THEN s.size
                  ELSE IF i = tr /\ j = NextCur THEN s.size - NextLeft
                  ELSE 0
           here == i = tr /\ j = NextCur
<1>1. /\ tasks \in Seq(Task) /\ Placing \in Task
      /\ Len(tasks) \in Nat
      /\ DOMAIN tasks = 1 .. Len(tasks)
  BY PlacingFacts, LenProperties DEF IInv, TypeOK, WorkTypeOK
<1>2. /\ DOMAIN tasks' = DOMAIN tasks \cup {N}
      /\ N \notin DOMAIN tasks
      /\ tasks'[N] = Placing
      /\ \A k \in DOMAIN tasks : tasks'[k] = tasks[k]
  <2>1. /\ Len(tasks') = Len(tasks) + 1 /\ tasks' \in Seq(Task)
        /\ tasks'[Len(tasks) + 1] = Placing
        /\ \A k \in 1 .. Len(tasks) : tasks'[k] = tasks[k]
    BY <1>1, AppendProperties
  <2>2. DOMAIN tasks' = 1 .. Len(tasks')
    BY <2>1, LenProperties
  <2> QED
    BY <1>1, <2>1, <2>2
<1>3. /\ i \in Nat /\ tr \in Nat /\ j \in Nat /\ s \in Slice
      /\ NextCur \in Nat /\ cur \in Nat /\ cur <= NextCur
  <2>1. i \in DOMAIN transfers /\ DOMAIN transfers = 1 .. Len(transfers)
    BY LenProperties DEF IInv, Assigned, TypeOK, PlanTypeOK
  <2>2. /\ DOMAIN slices[i] = 1 .. Len(slices[i])
        /\ s \in Slice
    BY <2>1, SliceFacts
  <2>3. NextCur \in Nat /\ cur <= NextCur /\ tr \in Nat
    BY AdvanceFacts, BuildFacts
  <2>4. cur \in Nat
    BY DEF IInv, TypeOK, WorkTypeOK
  <2> QED
    BY <2>1, <2>2, <2>3, <2>4
<1>4. SliceFilled(i, j) /\ InBatch(i, j) = now
  <2>1. SliceFilled(i, j)
    BY DEF IInv, Built
  <2>2. CASE i = tr
    <3>1. InBatch(tr, j) = IF j < NextCur THEN slices[tr][j].size
                           ELSE IF j = NextCur
                           THEN slices[tr][j].size - NextLeft
                           ELSE 0
      BY <2>2, AdvanceFacts
    <3>2. ~(i < tr)
      BY <1>3, <2>2
    <3>3. now = IF j < NextCur THEN slices[tr][j].size
                ELSE IF j = NextCur THEN slices[tr][j].size - NextLeft
                ELSE 0
      BY <2>2, <3>2
    <3> QED
      BY <2>1, <2>2, <3>1, <3>3
  <2>3. CASE i # tr
    <3>1. now = IF i < tr THEN s.size ELSE 0
      BY <2>3
    <3>2. InBatch(i, j) = IF i < tr THEN s.size ELSE 0
      BY <2>3 DEF InBatch
    <3> QED
      BY <2>1, <3>1, <3>2
  <2> QED
    BY <2>2, <2>3
<1>5. /\ TiledBy(tasks, TasksOfBatch(i, j), s.offset, now)
      /\ TasksOfBatch(i, j) \subseteq 1 .. Len(tasks)
      /\ i > tr \/ (i = tr /\ j > NextCur) => TasksOfBatch(i, j) = {}
      /\ \A k \in TasksOfBatch(i, j) :
           tasks[k].dst + s.offset = s.dst + tasks[k].offset
  <2>1. Tile(TasksOfBatch(i, j), s.offset, now)
    BY <1>4 DEF SliceFilled
  <2>2. TasksOfBatch(i, j) \subseteq 1 .. Len(tasks)
    BY <1>1 DEF TasksOfBatch
  <2>3. TiledBy(tasks, TasksOfBatch(i, j), s.offset, now)
    BY <2>1, TileIs
  <2>4. i > tr \/ (i = tr /\ j > NextCur) => i > tr \/ (i = tr /\ j > cur)
    BY <1>3
  <2>5. i > tr \/ (i = tr /\ j > cur) => TasksOfBatch(i, j) = {}
    BY <1>4 DEF SliceFilled
  <2>6. \A k \in TasksOfBatch(i, j) :
           tasks[k].dst + s.offset = s.dst + tasks[k].offset
    BY <1>4 DEF SliceFilled
  <2> QED
    BY <2>2, <2>3, <2>4, <2>5, <2>6
<1>6. N \in TasksOfBatch(i, j)' <=> here
  <2>1. N \in TasksOfBatch(i, j)' <=> Placing.batch = <<i, j>>
    BY <1>2 DEF TasksOfBatch
  <2>2. Placing.batch = <<tr, NextCur>>
    BY PlacingFacts
  <2> QED
    BY <2>1, <2>2
<1>7. \A k \in DOMAIN tasks :
        k \in TasksOfBatch(i, j)' <=> k \in TasksOfBatch(i, j)
  BY <1>2 DEF TasksOfBatch
<1>8. TasksOfBatch(i, j)' \subseteq DOMAIN tasks \cup {N}
  BY <1>2 DEF TasksOfBatch
<1> HIDE DEF N
<1>9. CASE here
  <2>1. TasksOfBatch(i, j)' = TasksOfBatch(i, j) \cup {N}
    BY <1>1, <1>5, <1>6, <1>7, <1>8, <1>9
  <2>2. now = s.size - NextLeft /\ now \in Nat
    <3>1. /\ NextLeft \in Nat /\ NextLeft <= s.size /\ s.size \in Nat
      BY <1>9, AdvanceFacts
    <3>2. now = s.size - NextLeft
      BY <1>3, <1>9
    <3> QED
      BY <3>1, <3>2
  <2>3. /\ Placing.offset = s.offset + now /\ Placing.dst = s.dst + now
        /\ Placing.size = Take
    BY <1>9, <2>2, PlacingFacts
  <2>4. s.offset \in Nat /\ s.dst \in Nat
    BY <1>3 DEF Slice
  <2> HIDE DEF s, now
  <2>5. TiledBy(Append(tasks, Placing), TasksOfBatch(i, j) \cup {Len(tasks) + 1},
                s.offset, now + Placing.size)
    BY <1>1, <1>5, <2>2, <2>3, <2>4, TileAppends
  <2>6. TiledBy(tasks', TasksOfBatch(i, j)', s.offset, now + Take)
    BY <2>1, <2>3, <2>5 DEF N
  <2>7. Placing.dst + s.offset = s.dst + Placing.offset
    BY <2>2, <2>3, <2>4
  <2>8. \A k \in TasksOfBatch(i, j)' :
          tasks'[k].dst + s.offset = s.dst + tasks'[k].offset
    BY <1>1, <1>2, <1>5, <2>1, <2>7
  <2>9. /\ ~(i < tr \/ (i = tr /\ j < NextCur))
        /\ ~(i > tr \/ (i = tr /\ j > NextCur))
    BY <1>3, <1>9
  <2> QED
    BY <1>9, <2>2, <2>6, <2>8, <2>9 DEF s
<1>10. CASE ~here
  <2>1. TasksOfBatch(i, j)' = TasksOfBatch(i, j)
    BY <1>1, <1>5, <1>6, <1>7, <1>8, <1>10
  <2>2. TiledBy(tasks', TasksOfBatch(i, j)', s.offset, now)
    BY <1>1, <1>5, <2>1, TileKeeps
  <2>3. \A k \in TasksOfBatch(i, j)' :
          tasks'[k].dst + s.offset = s.dst + tasks'[k].offset
    BY <1>1, <1>2, <1>5, <2>1
  <2>4. now = IF i < tr \/ (i = tr /\ j < NextCur) THEN s.size ELSE 0
    BY <1>10
  <2> HIDE DEF now
  <2> QED
    BY <1>5, <1>10, <2>1, <2>2, <2>3, <2>4
<1> QED
  BY <1>9, <1>10

(* When all ranges of a transfer have tasks its slices are used up. *)
LEMMA TransferEnds ==
  ASSUME IInv, phase = "build", Take = rest,
         next = Len(transfers[tr].sizes)
  PROVE  Take = NextLeft /\ NextCur = Len(slices[tr])
<1> DEFINE seq == slices[tr]
           p == transfers[tr].size
<1>1. /\ tr \in DOMAIN transfers /\ transfers[tr] \in Transfer
      /\ placed \in Nat /\ rest \in Nat /\ Before(tr) \in Nat
      /\ placed + rest + Before(tr) = Total[At]
      /\ Total[At] = Before(tr) + p
  BY BuildFacts
<1>2. /\ NextCur \in DOMAIN seq
      /\ NextLeft \in Nat /\ Take \in Nat /\ Take <= NextLeft
      /\ placed + NextLeft = SumTo(seq)[NextCur]
  BY AdvanceFacts
<1>3. /\ Len(seq) \in Nat \ {0} /\ DOMAIN seq = 1 .. Len(seq)
      /\ Sized(seq)
      /\ SumTo(seq)[Len(seq)] = p
      /\ p = 0 => Len(seq) = 1
      /\ \A j \in DOMAIN seq :
           /\ p > 0 => seq[j].size > 0
           /\ SumTo(seq)[j] = SumTo(seq)[j - 1] + seq[j].size
           /\ SumTo(seq)[j] \in Nat
           /\ seq[j] \in Slice
  BY <1>1, SliceFacts
<1>4. p \in Nat /\ \A j \in DOMAIN seq : seq[j].size \in Nat
  BY <1>1, <1>3 DEF Transfer, Slice
<1> HIDE DEF seq, p
<1>5. placed + Take = p
  BY <1>1, <1>4
<1>6. SumTo(seq)[NextCur] <= p
  <2>1. NextCur \in 0 .. Len(seq) /\ Len(seq) \in 0 .. Len(seq)
          /\ NextCur <= Len(seq)
    BY <1>2, <1>3
  <2> QED
    BY <1>3, <2>1, SumGrows
<1>7. Take = NextLeft /\ SumTo(seq)[NextCur] = p
  BY <1>1, <1>2, <1>4, <1>5, <1>6
<1>8. NextCur = Len(seq)
  <2> SUFFICES ASSUME NextCur # Len(seq)
               PROVE  FALSE
    OBVIOUS
  <2> DEFINE c == NextCur + 1
  <2>1. /\ c \in DOMAIN seq /\ c - 1 = NextCur
        /\ c \in 0 .. Len(seq) /\ Len(seq) \in 0 .. Len(seq) /\ c <= Len(seq)
        /\ Len(seq) # 1
    BY <1>2, <1>3
  <2> HIDE DEF c
  <2>2. SumTo(seq)[c] <= p
    BY <1>3, <2>1, SumGrows
  <2>3. SumTo(seq)[c] = SumTo(seq)[NextCur] + seq[c].size /\ seq[c].size \in Nat
    BY <1>3, <1>4, <2>1
  <2>4. p > 0
    BY <1>3, <1>4, <2>1
  <2>5. seq[c].size > 0
    BY <1>3, <2>1, <2>4
  <2> QED
    BY <1>4, <1>7, <2>2, <2>3, <2>5
<1> QED
  BY <1>7, <1>8 DEF seq

(* What a step of the build does to its cursors. *)
LEMMA ConsumeFacts ==
  ASSUME IInv, Consume
  PROVE  /\ phase = "build"
         /\ tasks' = Append(tasks, Placing)
         /\ UNCHANGED <<request, total, transfers, slices, workload, consumed>>
         /\ UNCHANGED assigned
         /\ \/ /\ Take < rest
               /\ phase' = "build" /\ tr' = tr /\ next' = next
               /\ rest' = rest - Take
               /\ cur' = NextCur /\ left' = NextLeft - Take
               /\ placed' = placed + Take
            \/ /\ Take = rest /\ next < Len(transfers[tr].sizes)
               /\ phase' = "build" /\ tr' = tr /\ next' = next + 1
               /\ rest' = transfers[tr].sizes[next + 1]
               /\ cur' = NextCur /\ left' = NextLeft - Take
               /\ placed' = placed + Take
            \/ /\ Take = rest /\ next = Len(transfers[tr].sizes)
               /\ tr < Len(transfers)
               /\ phase' = "build" /\ tr' = tr + 1 /\ next' = 1
               /\ rest' = transfers[tr + 1].sizes[1]
               /\ cur' = 1 /\ left' = slices[tr + 1][1].size
               /\ placed' = 0
            \/ /\ Take = rest /\ next = Len(transfers[tr].sizes)
               /\ tr = Len(transfers)
               /\ phase' = "done" /\ tr' = tr /\ next' = 1
               /\ rest' = 0
               /\ cur' = NextCur /\ left' = NextLeft - Take
               /\ placed' = placed + Take
<1> DEFINE sameRange == rest > Take
           sameTransfer == next < Len(transfers[tr].sizes)
           more == tr < Len(transfers)
<1>1. /\ phase = "build"
      /\ tasks' = Append(tasks, Placing)
      /\ IF sameRange \/ sameTransfer \/ ~more
         THEN /\ cur' = NextCur /\ left' = NextLeft - Take
              /\ placed' = placed + Take
              /\ UNCHANGED tr
         ELSE /\ cur' = 1 /\ left' = slices[tr + 1][1].size /\ placed' = 0
              /\ tr' = tr + 1
      /\ next' = IF sameRange THEN next
                 ELSE IF sameTransfer THEN next + 1
                 ELSE 1
      /\ rest' = IF sameRange THEN rest - Take
                 ELSE IF sameTransfer THEN transfers[tr].sizes[next + 1]
                 ELSE IF more THEN transfers[tr + 1].sizes[1]
                 ELSE 0
      /\ phase' = IF sameRange \/ sameTransfer \/ more THEN phase ELSE "done"
      /\ UNCHANGED <<request, coalesceVars, assignVars>>
  BY DEF Consume, Placing, Take, NextCur, NextLeft
<1>2. /\ Take \in Nat /\ rest \in Nat /\ Take <= rest
      /\ next \in Nat /\ tr \in Nat /\ tr \in DOMAIN transfers
      /\ next <= Len(transfers[tr].sizes)
  BY <1>1, AdvanceFacts, BuildFacts
<1>3. /\ Len(transfers) \in Nat /\ tr <= Len(transfers)
      /\ Len(transfers[tr].sizes) \in Nat
  <2>1. Len(transfers) \in Nat /\ DOMAIN transfers = 1 .. Len(transfers)
    BY LenProperties DEF IInv, TypeOK, PlanTypeOK
  <2>2. Len(transfers[tr].sizes) \in Nat
    BY <1>2, TransferFacts
  <2> QED
    BY <1>2, <2>1, <2>2
<1>4. /\ ~sameRange <=> Take = rest
      /\ sameRange <=> Take < rest
      /\ ~sameTransfer <=> next = Len(transfers[tr].sizes)
      /\ ~more <=> tr = Len(transfers)
  BY <1>2, <1>3
<1>5. UNCHANGED <<total, transfers, slices, workload, consumed, assigned>>
  BY <1>1 DEF coalesceVars, assignVars
<1> HIDE DEF sameRange, sameTransfer, more
<1>6. CASE sameRange
  BY <1>1, <1>4, <1>5, <1>6
<1>7. CASE ~sameRange /\ sameTransfer
  BY <1>1, <1>4, <1>5, <1>7 DEF sameTransfer
<1>8. CASE ~sameRange /\ ~sameTransfer /\ more
  BY <1>1, <1>4, <1>5, <1>8 DEF more
<1>9. CASE ~sameRange /\ ~sameTransfer /\ ~more
  BY <1>1, <1>4, <1>5, <1>9
<1> QED
  BY <1>6, <1>7, <1>8, <1>9

(* What the ranges and the slices have once the task is placed. *)
RangeNow(a) == IF a < At THEN request[a].size
               ELSE IF a = At THEN request[a].size - rest + Take
               ELSE 0

SliceNow(i, j) ==
  IF i < tr \/ (i = tr /\ j < NextCur) THEN slices[i][j].size
  ELSE IF i = tr /\ j = NextCur THEN slices[i][j].size - NextLeft + Take
  ELSE 0

(* The new cursors say as much of the ranges as the tasks do. *)
RangesAgree ==
  \A a \in DOMAIN request :
    /\ InTasks(a)' = RangeNow(a)
    /\ phase' = "done" \/ a < At' => a <= At
    /\ phase' = "build" /\ a > At' => a > At

SlicesAgree ==
  \A i \in DOMAIN slices : \A j \in DOMAIN slices[i] :
    /\ InBatch(i, j)' = SliceNow(i, j)
    /\ phase' = "build" /\ (i > tr' \/ (i = tr' /\ j > cur')) =>
         i > tr \/ (i = tr /\ j > NextCur)

(* Then what is tiled stays tiled. *)
LEMMA StillTiled ==
  ASSUME IInv, Consume, RangesAgree, SlicesAgree
  PROVE  /\ \A a \in DOMAIN request' : RangeTiled(a)'
         /\ \A i \in DOMAIN slices' : \A j \in DOMAIN slices'[i] :
              SliceFilled(i, j)'
<1>1. /\ phase = "build" /\ tasks' = Append(tasks, Placing)
      /\ request' = request /\ slices' = slices
  BY ConsumeFacts
<1>2. ASSUME NEW a \in DOMAIN request
      PROVE  RangeTiled(a)'
  <2>1. /\ \A k \in TasksOfRange(a)' :
             tasks'[k].dst + request[a].offset
               = request[a].dst + tasks'[k].offset
        /\ TiledBy(tasks', TasksOfRange(a)', request[a].offset, RangeNow(a))
        /\ a <= At => TasksOfRange(a)' # {}
        /\ a > At => TasksOfRange(a)' = {}
    BY <1>1, RangeGrows DEF RangeNow
  <2>2. /\ InTasks(a)' = RangeNow(a)
        /\ phase' = "done" \/ a < At' => a <= At
        /\ phase' = "build" /\ a > At' => a > At
    BY DEF RangesAgree
  <2>3. Tile(TasksOfRange(a), request[a].offset, InTasks(a))'
    <3>1. PICK ks, lo, n : /\ ks = TasksOfRange(a)' /\ lo = request[a].offset
                           /\ n = RangeNow(a)
      OBVIOUS
    <3>2. Tile(ks, lo, n)'
      BY <2>1, <3>1, TileIs
    <3> QED
      BY <1>1, <2>2, <3>1, <3>2 DEF Tile, TaskBytes
  <2> QED
    BY <1>1, <2>1, <2>2, <2>3 DEF RangeTiled
<1>3. ASSUME NEW i \in DOMAIN slices, NEW j \in DOMAIN slices[i]
      PROVE  SliceFilled(i, j)'
  <2>1. /\ \A k \in TasksOfBatch(i, j)' :
             tasks'[k].dst + slices[i][j].offset
               = slices[i][j].dst + tasks'[k].offset
        /\ TiledBy(tasks', TasksOfBatch(i, j)', slices[i][j].offset,
                   SliceNow(i, j))
        /\ i > tr \/ (i = tr /\ j > NextCur) => TasksOfBatch(i, j)' = {}
    BY <1>1, SliceGrows DEF SliceNow
  <2>2. /\ InBatch(i, j)' = SliceNow(i, j)
        /\ phase' = "build" /\ (i > tr' \/ (i = tr' /\ j > cur')) =>
             i > tr \/ (i = tr /\ j > NextCur)
    BY DEF SlicesAgree
  <2>3. Tile(TasksOfBatch(i, j), slices[i][j].offset, InBatch(i, j))'
    <3>1. PICK ks, lo, n : /\ ks = TasksOfBatch(i, j)'
                           /\ lo = slices[i][j].offset /\ n = SliceNow(i, j)
      OBVIOUS
    <3>2. Tile(ks, lo, n)'
      BY <2>1, <3>1, TileIs
    <3> QED
      BY <1>1, <2>2, <3>1, <3>2 DEF Tile, TaskBytes
  <2> QED
    BY <1>1, <2>1, <2>2, <2>3 DEF SliceFilled
<1> QED
  BY <1>1, <1>2, <1>3

(* Indices and sizes of slices, for the cases below. *)
LEMMA SliceTypes ==
  ASSUME IInv, phase = "build", NEW i \in DOMAIN slices,
         NEW j \in DOMAIN slices[i]
  PROVE  /\ i \in Nat \ {0} /\ i <= Len(transfers) /\ i \in DOMAIN transfers
         /\ j \in Nat \ {0} /\ j <= Len(slices[i])
         /\ slices[i][j].size \in Nat
         /\ Len(transfers) \in Nat /\ Len(slices[i]) \in Nat
<1>1. /\ i \in DOMAIN transfers /\ DOMAIN transfers = 1 .. Len(transfers)
      /\ Len(transfers) \in Nat
  BY LenProperties DEF IInv, Assigned, TypeOK, PlanTypeOK
<1>2. /\ Len(slices[i]) \in Nat /\ DOMAIN slices[i] = 1 .. Len(slices[i])
      /\ slices[i][j] \in Slice
  BY <1>1, SliceFacts
<1> QED
  BY <1>1, <1>2 DEF Slice

(* Within a transfer the iterator stays where the task was taken from.     *)
LEMMA SameTransferSlices ==
  ASSUME IInv, Consume, phase' = "build", tr' = tr, cur' = NextCur,
         left' = NextLeft - Take
  PROVE  SlicesAgree
<1>1. phase = "build" /\ slices' = slices
  BY ConsumeFacts
<1>2. Take \in Nat /\ NextLeft \in Nat
  BY <1>1, AdvanceFacts
<1>3. ASSUME NEW i \in DOMAIN slices, NEW j \in DOMAIN slices[i]
      PROVE  InBatch(i, j)' = SliceNow(i, j)
  <2>1. slices[i][j].size \in Nat
    BY <1>1, SliceTypes
  <2>2. slices[i][j].size - (NextLeft - Take) = slices[i][j].size - NextLeft + Take
    BY <1>2, <2>1
  <2> QED
    BY <1>1, <2>2 DEF InBatch, SliceNow
<1> QED
  BY <1>3 DEF SlicesAgree

(* After a transfer the iterator stands at the first slice of the next.    *)
LEMMA NextTransferSlices ==
  ASSUME IInv, Consume, phase' = "build", tr' = tr + 1, cur' = 1,
         left' = slices[tr + 1][1].size,
         Take = rest, next = Len(transfers[tr].sizes)
  PROVE  SlicesAgree
<1>1. phase = "build" /\ slices' = slices
  BY ConsumeFacts
<1>2. /\ Take \in Nat /\ NextLeft \in Nat /\ tr \in Nat /\ NextCur \in Nat
      /\ Take = NextLeft /\ NextCur = Len(slices[tr])
  BY <1>1, AdvanceFacts, BuildFacts, TransferEnds
<1>3. ASSUME NEW i \in DOMAIN slices, NEW j \in DOMAIN slices[i]
      PROVE  /\ InBatch(i, j)' = SliceNow(i, j)
             /\ (i > tr' \/ (i = tr' /\ j > cur')) => i > tr
  <2>1. /\ slices[i][j].size \in Nat /\ i \in Nat /\ j \in Nat \ {0}
        /\ j <= Len(slices[i]) /\ Len(slices[i]) \in Nat
    BY <1>1, SliceTypes
  <2> DEFINE z == slices[i][j].size
  <2>2. SliceNow(i, j) = IF i <= tr THEN z ELSE 0
    <3>1. CASE i < tr
      BY <1>2, <2>1, <3>1 DEF SliceNow
    <3>2. CASE i = tr
      <4>1. j <= NextCur
        BY <1>2, <2>1, <3>2
      <4>2. z - NextLeft + Take = z
        BY <1>2, <2>1
      <4> QED
        BY <1>2, <2>1, <3>2, <4>1, <4>2 DEF SliceNow
    <3>3. CASE i > tr
      BY <1>2, <2>1, <3>3 DEF SliceNow
    <3> QED
      BY <1>2, <2>1, <3>1, <3>2, <3>3
  <2>3. InBatch(i, j)' = IF i <= tr THEN z ELSE 0
    <3>1. CASE i <= tr
      <4>1. i < tr'
        BY <1>2, <2>1, <3>1
      <4> QED
        BY <1>1, <3>1, <4>1 DEF InBatch
    <3>2. CASE i = tr + 1 /\ j = 1
      <4>1. ~(i < tr') /\ ~(j < cur') /\ i = tr' /\ j = cur' /\ ~(i <= tr)
        BY <1>2, <2>1, <3>2
      <4>2. slices'[i][j].size - left' = 0
        BY <1>1, <2>1, <3>2
      <4> QED
        BY <4>1, <4>2 DEF InBatch
    <3>3. CASE i > tr /\ ~(i = tr + 1 /\ j = 1)
      <4>1. ~(i < tr') /\ ~(i = tr' /\ j < cur') /\ ~(i = tr' /\ j = cur')
              /\ ~(i <= tr)
        BY <1>2, <2>1, <3>3
      <4> QED
        BY <4>1 DEF InBatch
    <3> QED
      BY <1>2, <2>1, <3>1, <3>2, <3>3
  <2>4. (i > tr' \/ (i = tr' /\ j > cur')) => i > tr
    BY <1>2, <2>1
  <2> QED
    BY <2>2, <2>3, <2>4
<1> QED
  BY <1>3 DEF SlicesAgree

(* At the end all slices are full. *)
LEMMA LastTransferSlices ==
  ASSUME IInv, Consume, phase' = "done", tr = Len(transfers),
         Take = rest, next = Len(transfers[tr].sizes)
  PROVE  SlicesAgree
<1>1. phase = "build" /\ slices' = slices
  BY ConsumeFacts
<1>2. /\ Take \in Nat /\ NextLeft \in Nat /\ tr \in Nat /\ NextCur \in Nat
      /\ Take = NextLeft /\ NextCur = Len(slices[tr])
  BY <1>1, AdvanceFacts, BuildFacts, TransferEnds
<1>3. ASSUME NEW i \in DOMAIN slices, NEW j \in DOMAIN slices[i]
      PROVE  InBatch(i, j)' = SliceNow(i, j)
  <2>1. /\ slices[i][j].size \in Nat /\ i \in Nat /\ j \in Nat
        /\ j <= Len(slices[i]) /\ i <= tr
    BY <1>1, SliceTypes
  <2> DEFINE z == slices[i][j].size
  <2>2. InBatch(i, j)' = z
    BY <1>1 DEF InBatch
  <2>3. SliceNow(i, j) = z
    <3>1. CASE i < tr
      BY <3>1 DEF SliceNow
    <3>2. CASE i = tr
      <4>1. j <= NextCur /\ ~(i < tr)
        BY <1>2, <2>1, <3>2
      <4>2. z - NextLeft + Take = z
        BY <1>2, <2>1
      <4> QED
        BY <1>2, <2>1, <3>2, <4>1, <4>2 DEF SliceNow
    <3> QED
      BY <1>2, <2>1, <3>1, <3>2
  <2> QED
    BY <2>2, <2>3
<1> QED
  BY <1>3 DEF SlicesAgree

(* The range after the one that is done, if it has one in its transfer or  *)
(* there is a next transfer.                                               *)
LEMMA NextRange ==
  ASSUME IInv, phase = "build"
  PROVE  /\ next < Len(transfers[tr].sizes) =>
              /\ At + 1 \in DOMAIN request
              /\ transfers[tr].sizes[next + 1] = request[At + 1].size
         /\ next = Len(transfers[tr].sizes) /\ tr < Len(transfers) =>
              /\ tr + 1 \in DOMAIN transfers
              /\ At + 1 \in DOMAIN request
              /\ Start(tr + 1) = At + 1
              /\ transfers[tr + 1].sizes[1] = request[At + 1].size
              /\ Before(tr + 1) = Total[At]
         /\ next = Len(transfers[tr].sizes) /\ tr = Len(transfers) =>
              At = Len(request)
<1> DEFINE a == Start(tr)
           n == Len(transfers[tr].sizes)
<1>1. /\ tr \in DOMAIN transfers /\ tr \in Nat \ {0}
      /\ next \in Nat \ {0} /\ next <= n
      /\ At \in Nat \ {0}
  BY BuildFacts
<1>2. /\ n \in Nat \ {0} /\ a \in Nat \ {0}
      /\ From(tr + 1) = a + n
      /\ Covers(tr, a, n)
  BY <1>1, TransferFacts
<1>3. /\ Len(request) \in Nat /\ DOMAIN request = 1 .. Len(request)
      /\ Covered = Len(request)
      /\ Len(transfers) \in Nat /\ DOMAIN transfers = 1 .. Len(transfers)
  BY RequestFacts, LenProperties DEF IInv, TypeOK, PlanTypeOK, Covered
<1>4. At = a + next - 1
  BY DEF At
<1>5. a + n - 1 <= Len(request)
  BY <1>2, <1>3 DEF Covers
<1>6. ASSUME next < n
      PROVE  /\ At + 1 \in DOMAIN request
             /\ transfers[tr].sizes[next + 1] = request[At + 1].size
  <2> HIDE DEF a, n
  <2>1. next + 1 \in 1 .. n /\ a + (next + 1) - 1 = At + 1
          /\ At + 1 \in DOMAIN request
    BY <1>1, <1>2, <1>3, <1>4, <1>5, <1>6
  <2>2. request[a + (next + 1) - 1].size = transfers[tr].sizes[next + 1]
    BY <1>2, <2>1 DEF Covers
  <2> QED
    BY <2>1, <2>2
<1>7. ASSUME next = n, tr < Len(transfers)
      PROVE  /\ tr + 1 \in DOMAIN transfers
             /\ At + 1 \in DOMAIN request
             /\ Start(tr + 1) = At + 1
             /\ transfers[tr + 1].sizes[1] = request[At + 1].size
             /\ Before(tr + 1) = Total[At]
  <2> DEFINE m == Len(transfers[tr + 1].sizes)
             b == Start(tr + 1)
  <2>1. tr + 1 \in DOMAIN transfers
    BY <1>1, <1>3, <1>7
  <2>2. /\ b \in DOMAIN request /\ b \in Nat /\ From(tr + 1) = b
        /\ Covers(tr + 1, b, m) /\ m \in Nat \ {0}
    BY <2>1, TransferFacts
  <2> HIDE DEF a, b, n, m
  <2>3. b = At + 1 /\ b - 1 = At
    BY <1>1, <1>2, <1>4, <1>7, <2>2
  <2>4. request[b].size = transfers[tr + 1].sizes[1]
    <3>1. 1 \in 1 .. m /\ b + 1 - 1 = b
      BY <2>2
    <3>2. request[b + 1 - 1].size = transfers[tr + 1].sizes[1]
      BY <2>2, <3>1 DEF Covers
    <3> QED
      BY <3>1, <3>2
  <2>5. Before(tr + 1) = Total[At]
    BY <2>2, <2>3 DEF Before
  <2> QED
    BY <2>1, <2>2, <2>3, <2>4, <2>5 DEF b
<1>8. ASSUME next = n, tr = Len(transfers)
      PROVE  At = Len(request)
  <2>1. tr + 1 \notin DOMAIN transfers
    BY <1>1, <1>3, <1>8
  <2>2. From(tr + 1) = Len(request) + 1
    BY <1>3, <2>1 DEF From
  <2> HIDE DEF a, n
  <2> QED
    BY <1>1, <1>2, <1>3, <1>4, <1>8, <2>2
<1> QED
  BY <1>6, <1>7, <1>8

(* Where the build is after a step. *)
LEMMA NextAt ==
  ASSUME IInv, Consume, phase' = "build"
  PROVE  /\ tr' = tr /\ next' = next => At' = At
         /\ tr' = tr /\ next' = next + 1 => At' = At + 1
         /\ tr' = tr + 1 /\ next' = 1 => At' = Start(tr + 1)
<1>1. /\ phase = "build" /\ request' = request /\ transfers' = transfers
  BY ConsumeFacts
<1>2. \A i : Start(i)' = Start(i)
  BY <1>1, SameStart
<1>3. At \in Nat /\ At = Start(tr) + next - 1
        /\ tr \in DOMAIN transfers /\ next \in Nat
  BY <1>1, BuildFacts DEF At
<1>4. Start(tr) \in Nat
  BY <1>3, TransferFacts
<1>5. ASSUME NEW i, tr' = i
      PROVE  At' = Start(i) + next' - 1
  <2>1. Start(tr)' = Start(i)'
    BY <1>5
  <2> QED
    BY <1>2, <2>1 DEF At
<1>6. ASSUME tr' = tr, next' = next
      PROVE  At' = At
  BY <1>3, <1>5, <1>6
<1>7. ASSUME tr' = tr, next' = next + 1
      PROVE  At' = At + 1
  <2>1. At' = Start(tr) + (next + 1) - 1
    BY <1>5, <1>7
  <2> QED
    BY <1>3, <1>4, <2>1
<1>8. ASSUME tr' = tr + 1, next' = 1
      PROVE  At' = Start(tr + 1)
  <2>1. At' = Start(tr + 1) + 1 - 1
    BY <1>5, <1>8
  <2>2. phase' = "build" /\ tr + 1 \in DOMAIN transfers
    <3>1. /\ tr \in Nat /\ Len(transfers) \in Nat
          /\ DOMAIN transfers = 1 .. Len(transfers)
      BY <1>1, LenProperties DEF IInv, TypeOK, PlanTypeOK
    <3>2. tr < Len(transfers)
      BY <1>8, <3>1, ConsumeFacts
    <3> QED
      BY <3>1, <3>2
  <2>3. Start(tr + 1) \in Nat
    BY <2>2, TransferFacts
  <2> QED
    BY <2>1, <2>3
<1> QED
  BY <1>6, <1>7, <1>8

(* The three ways the place of the build in the ranges may change.         *)
LEMMA SameRangeAgrees ==
  ASSUME IInv, Consume, phase' = "build", At' = At, rest' = rest - Take
  PROVE  RangesAgree
<1>1. /\ phase = "build" /\ request' = request /\ rest \in Nat
      /\ request \in Requests /\ At \in Nat
  BY ConsumeFacts, BuildFacts DEF IInv, TypeOK, PlanTypeOK
<1>2. Take \in Nat
  BY <1>1, AdvanceFacts
<1>3. ASSUME NEW a \in DOMAIN request
      PROVE  InTasks(a)' = RangeNow(a) /\ a \in Nat
  <2>1. request[a].size \in Nat /\ a \in Nat
    BY <1>1, RequestFacts DEF ReadRange
  <2>2. request[a].size - (rest - Take) = request[a].size - rest + Take
    BY <1>1, <1>2, <2>1
  <2> QED
    BY <1>1, <2>1, <2>2 DEF InTasks, RangeNow
<1>4. \A a \in DOMAIN request : a < At => a <= At
  BY <1>1, <1>3
<1> QED
  BY <1>3, <1>4 DEF RangesAgree

(* The same when the range is full and the next one is begun. *)
LEMMA NextRangeAgrees ==
  ASSUME IInv, Consume, phase' = "build", At' = At + 1, Take = rest,
         rest' = request[At + 1].size
  PROVE  RangesAgree
<1>1. /\ phase = "build" /\ request' = request /\ rest \in Nat
      /\ request \in Requests /\ At \in Nat
  BY ConsumeFacts, BuildFacts DEF IInv, TypeOK, PlanTypeOK
<1>2. ASSUME NEW a \in DOMAIN request
      PROVE  /\ InTasks(a)' = RangeNow(a)
             /\ a < At' => a <= At
             /\ a > At' => a > At
  <2> DEFINE z == request[a].size
  <2>1. z \in Nat /\ a \in Nat
    BY <1>1, RequestFacts DEF ReadRange
  <2>2. RangeNow(a) = IF a <= At THEN z ELSE 0
    <3>1. z - rest + Take = z
      BY <1>1, <2>1
    <3>2. a = At => ~(a < At)
      BY <1>1
    <3>3. a <= At <=> a < At \/ a = At
      BY <1>1, <2>1
    <3> QED
      BY <3>1, <3>2, <3>3 DEF RangeNow
  <2>3. InTasks(a)' = IF a <= At THEN z ELSE 0
    <3>1. a < At' <=> a <= At
      BY <1>1, <2>1
    <3>2. a = At' => z - rest' = 0
      BY <2>1
    <3> QED
      BY <1>1, <3>1, <3>2 DEF InTasks
  <2>4. (a < At' => a <= At) /\ (a > At' => a > At)
    BY <1>1, <2>1
  <2> QED
    BY <2>2, <2>3, <2>4
<1> QED
  BY <1>2 DEF RangesAgree

(* The same when the last range is full. *)
LEMMA LastRangeAgrees ==
  ASSUME IInv, Consume, phase' = "done", At = Len(request), Take = rest
  PROVE  RangesAgree
<1>1. /\ phase = "build" /\ request' = request /\ rest \in Nat
      /\ request \in Requests /\ At \in Nat
  BY ConsumeFacts, BuildFacts DEF IInv, TypeOK, PlanTypeOK
<1>2. ASSUME NEW a \in DOMAIN request
      PROVE  InTasks(a)' = RangeNow(a) /\ a <= At
  <2> DEFINE z == request[a].size
  <2>1. z \in Nat /\ a \in Nat /\ a <= At
    BY <1>1, RequestFacts DEF ReadRange
  <2>2. z - rest + Take = z
    BY <1>1, <2>1
  <2>3. a < At \/ a = At
    BY <1>1, <2>1
  <2>4. RangeNow(a) = z
    BY <2>2, <2>3 DEF RangeNow
  <2>5. InTasks(a)' = z
    BY <1>1 DEF InTasks
  <2> QED
    BY <2>1, <2>4, <2>5
<1> QED
  BY <1>2 DEF RangesAgree

(* The arithmetic of a step: t bytes are placed. *)
LEMMA Placed ==
  /\ \A p, t, r, b, q \in Nat :
       p + r + b = q => (p + t) + (r - t) + b = q
  /\ \A p, t, b, q, n \in Nat : p + t + b = q => (p + t) + n + b = q + n
  OBVIOUS

(* What Built says of the cursors. *)
CursorsOK ==
  /\ tr \in DOMAIN transfers
  /\ next \in DOMAIN transfers[tr].sizes
  /\ cur \in DOMAIN slices[tr]
  /\ left <= slices[tr][cur].size
  /\ rest <= request[At].size
  /\ placed + rest + Before(tr) = Total[At]
  /\ placed + left = SumTo(slices[tr])[cur]

(* What is left of the slice, and the place in the transfer. *)
LeftOK ==
  /\ NextLeft - Take \in Nat
  /\ NextLeft - Take <= slices[tr][NextCur].size
  /\ (placed + Take) + (NextLeft - Take) = placed + NextLeft
  /\ placed + Take \in Nat

(* A step of the build keeps the invariant. *)
LEMMA ConsumeAgrees ==
  ASSUME IInv, Consume
  PROVE  /\ RangesAgree /\ SlicesAgree
         /\ phase' = "build" => CursorsOK'
         /\ {cur', left', rest', placed'} \subseteq Nat
         /\ tr' \in Nat \ {0} /\ next' \in Nat \ {0}
<1>1. /\ phase = "build"
      /\ UNCHANGED <<request, total, transfers, slices>>
  BY ConsumeFacts
<1>2. /\ Total' = Total
      /\ \A i : Before(i)' = Before(i) /\ From(i)' = From(i)
  <2>1. Covered' = Covered /\ phase' # "rejected"
    BY <1>1, ConsumeFacts DEF Covered
  <2> QED
    BY <1>1, <2>1, SamePlan
<1>3. /\ NextCur \in DOMAIN slices[tr] /\ NextCur \in Nat
      /\ NextLeft \in Nat /\ NextLeft <= slices[tr][NextCur].size
      /\ slices[tr][NextCur].size \in Nat
      /\ placed + NextLeft = SumTo(slices[tr])[NextCur]
      /\ Take \in Nat /\ Take <= NextLeft /\ Take <= rest
  BY <1>1, AdvanceFacts
<1>4. /\ At \in DOMAIN request /\ At \in Nat \ {0}
      /\ tr \in DOMAIN transfers /\ tr \in Nat \ {0}
      /\ next \in Nat \ {0} /\ next <= Len(transfers[tr].sizes)
      /\ placed \in Nat /\ rest \in Nat /\ rest <= request[At].size
      /\ request[At].size \in Nat
      /\ Total[At] \in Nat /\ Before(tr) \in Nat
      /\ placed + rest + Before(tr) = Total[At]
      /\ Len(transfers[tr].sizes) \in Nat
      /\ DOMAIN transfers[tr].sizes = 1 .. Len(transfers[tr].sizes)
  BY <1>1, BuildFacts, TransferFacts DEF ReadRange
<1>5. At + 1 \in DOMAIN request =>
        /\ request[At + 1].size \in Nat
        /\ Total[At + 1] = Total[At] + request[At + 1].size
  <2> SUFFICES ASSUME At + 1 \in DOMAIN request
               PROVE  /\ request[At + 1].size \in Nat
                      /\ Total[At + 1] = Total[At] + request[At + 1].size
    OBVIOUS
  <2>1. /\ request[At + 1] \in ReadRange
        /\ Total[At + 1] = Total[(At + 1) - 1] + request[At + 1].size
    BY RequestFacts, TotalFacts DEF IInv, TypeOK, PlanTypeOK
  <2> QED
    BY <1>4, <2>1 DEF ReadRange
<1>6. LeftOK
  <2> DEFINE z == slices[tr][NextCur].size
  <2>1. /\ placed \in Nat /\ NextLeft \in Nat /\ Take \in Nat /\ z \in Nat
        /\ Take <= NextLeft /\ NextLeft <= z
    BY <1>3, <1>4
  <2> HIDE DEF z
  <2>2. NextLeft - Take \in Nat /\ NextLeft - Take <= z
    BY <2>1
  <2>3. (placed + Take) + (NextLeft - Take) = placed + NextLeft
          /\ placed + Take \in Nat
    BY <2>1
  <2> QED
    BY <2>2, <2>3 DEF LeftOK, z
<1>7. CASE /\ Take < rest
           /\ phase' = "build" /\ tr' = tr /\ next' = next
           /\ rest' = rest - Take
           /\ cur' = NextCur /\ left' = NextLeft - Take
           /\ placed' = placed + Take
  <2>1. At' = At
    BY <1>7, NextAt
  <2>2. RangesAgree /\ SlicesAgree
    BY <1>7, <2>1, SameRangeAgrees, SameTransferSlices
  <2>3. /\ left' \in Nat /\ left' <= slices[tr][NextCur].size
        /\ placed' + left' = placed + NextLeft
        /\ placed' \in Nat /\ rest' \in Nat /\ rest' <= request[At].size
        /\ placed' + rest' + Before(tr) = Total[At]
    <3>1. /\ NextLeft - Take \in Nat
          /\ NextLeft - Take <= slices[tr][NextCur].size
          /\ (placed + Take) + (NextLeft - Take) = placed + NextLeft
          /\ placed + Take \in Nat /\ rest - Take \in Nat
          /\ rest - Take <= request[At].size
          /\ (placed + Take) + (rest - Take) + Before(tr) = Total[At]
      <4>1. LeftOK
        BY <1>6
      <4>2. rest - Take \in Nat /\ rest - Take <= request[At].size
        <5> DEFINE w == request[At].size
        <5>1. rest \in Nat /\ Take \in Nat /\ w \in Nat
              /\ Take <= rest /\ rest <= w
          BY <1>3, <1>4
        <5> HIDE DEF w
        <5>2. rest - Take \in Nat /\ rest - Take <= w
          BY <5>1
        <5> QED
          BY <5>2 DEF w
      <4>3. (placed + Take) + (rest - Take) + Before(tr) = Total[At]
        BY <1>3, <1>4, Placed
      <4> QED
        BY <4>1, <4>2, <4>3 DEF LeftOK
    <3> QED
      BY <1>7, <3>1
  <2>4. Before(tr)' = Before(tr)
    BY <1>2, <1>7 DEF Before, From, Start
  <2>5. CursorsOK'
    <3>1. /\ Total'[At'] = Total[At] /\ request'[At'] = request[At]
          /\ slices'[tr'] = slices[tr] /\ cur' = NextCur
          /\ transfers' = transfers /\ tr' = tr /\ next' = next
      BY <1>1, <1>2, <1>7, <2>1
    <3>2. /\ next \in DOMAIN transfers[tr].sizes
          /\ placed' + left' = SumTo(slices[tr])[NextCur]
      <4>1. next \in DOMAIN transfers[tr].sizes
        BY <1>4
      <4>2. placed' + left' = SumTo(slices[tr])[NextCur]
        BY <1>3, <2>3, Zenon
      <4> QED
        BY <4>1, <4>2
    <3> QED
      BY <1>3, <1>4, <2>3, <2>4, <3>1, <3>2, Zenon DEF CursorsOK
  <2> QED
    BY <1>3, <1>4, <1>7, <2>2, <2>3, <2>5
<1>8. CASE /\ Take = rest /\ next < Len(transfers[tr].sizes)
           /\ phase' = "build" /\ tr' = tr /\ next' = next + 1
           /\ rest' = transfers[tr].sizes[next + 1]
           /\ cur' = NextCur /\ left' = NextLeft - Take
           /\ placed' = placed + Take
  <2>1. At' = At + 1
    BY <1>8, NextAt
  <2>2. At + 1 \in DOMAIN request /\ rest' = request[At + 1].size
    BY <1>1, <1>8, NextRange
  <2>3. RangesAgree /\ SlicesAgree
    BY <1>8, <2>1, <2>2, NextRangeAgrees, SameTransferSlices
  <2>4. /\ left' \in Nat /\ left' <= slices[tr][NextCur].size
        /\ placed' + left' = placed + NextLeft
        /\ placed' \in Nat /\ rest' \in Nat
        /\ rest' <= request[At + 1].size
        /\ placed' + rest' + Before(tr) = Total[At + 1]
    <3>1. /\ left' \in Nat /\ left' <= slices[tr][NextCur].size
          /\ placed' + left' = placed + NextLeft
          /\ placed' \in Nat
      <4> QED
        BY <1>8, <1>6 DEF LeftOK
    <3>2. rest' \in Nat /\ rest' <= request[At + 1].size
            /\ Total[At + 1] = Total[At] + rest'
      BY <1>5, <2>2
    <3>3. placed' + rest' + Before(tr) = Total[At + 1]
      <4>1. placed + Take + Before(tr) = Total[At]
        BY <1>4, <1>8
      <4>2. (placed + Take) + rest' + Before(tr) = Total[At] + rest'
        BY <1>3, <1>4, <3>2, <4>1, Placed
      <4> QED
        BY <1>8, <3>2, <4>2
    <3> QED
      BY <3>1, <3>2, <3>3
  <2>5. Before(tr)' = Before(tr)
    BY <1>2, <1>8 DEF Before, From, Start
  <2>6. next + 1 \in 1 .. Len(transfers[tr].sizes)
    BY <1>4, <1>8
  <2>7. CursorsOK'
    <3>1. /\ Total'[At'] = Total[At + 1] /\ request'[At'] = request[At + 1]
          /\ slices'[tr'] = slices[tr] /\ cur' = NextCur
          /\ transfers' = transfers /\ tr' = tr /\ next' = next + 1
      BY <1>1, <1>2, <1>8, <2>1
    <3>2. /\ next + 1 \in DOMAIN transfers[tr].sizes
          /\ placed' + left' = SumTo(slices[tr])[NextCur]
      BY <1>3, <1>4, <2>4, <2>6
    <3> QED
      BY <1>3, <1>4, <2>4, <2>5, <3>1, <3>2, Zenon DEF CursorsOK
  <2> QED
    BY <1>3, <1>4, <1>8, <2>3, <2>4, <2>7
<1>9. CASE /\ Take = rest /\ next = Len(transfers[tr].sizes)
           /\ tr < Len(transfers)
           /\ phase' = "build" /\ tr' = tr + 1 /\ next' = 1
           /\ rest' = transfers[tr + 1].sizes[1]
           /\ cur' = 1 /\ left' = slices[tr + 1][1].size
           /\ placed' = 0
  <2>1. /\ tr + 1 \in DOMAIN transfers
        /\ At + 1 \in DOMAIN request
        /\ Start(tr + 1) = At + 1
        /\ rest' = request[At + 1].size
        /\ Before(tr + 1) = Total[At]
    BY <1>1, <1>9, NextRange
  <2>2. At' = At + 1
    BY <1>9, <2>1, NextAt
  <2>3. RangesAgree /\ SlicesAgree
    BY <1>9, <2>1, <2>2, NextRangeAgrees, NextTransferSlices
  <2> DEFINE b == tr + 1
  <2>4. /\ 1 \in DOMAIN slices[b] /\ left' \in Nat
        /\ SumTo(slices[b])[1] = left'
        /\ 1 \in DOMAIN transfers[b].sizes
    <3>1. b \in DOMAIN transfers /\ left' = slices[b][1].size
      BY <1>9, <2>1
    <3> HIDE DEF b
    <3>2. 1 \in DOMAIN slices[b] /\ Sized(slices[b])
      BY <1>1, <3>1, SliceFacts
    <3>3. /\ slices[b][1] \in Slice
          /\ SumTo(slices[b])[1] = SumTo(slices[b])[1 - 1] + slices[b][1].size
      BY <1>1, <3>1, <3>2, SliceFacts
    <3>4. SumTo(slices[b])[0] = 0
      BY <3>2, SumSteps
    <3>5. slices[b][1].size \in Nat
      BY <3>3 DEF Slice
    <3>6. 1 \in DOMAIN transfers[b].sizes
      BY <3>1, TransferFacts
    <3> QED
      BY <3>1, <3>2, <3>3, <3>4, <3>5, <3>6
  <2>5. Before(tr)' = Total[At]
    <3>2. PICK i : i = b
      OBVIOUS
    <3>3. Before(tr)' = Before(i)'
      BY <1>9, <3>2 DEF Before, From, Start
    <3>4. Before(i) = Total[At]
      BY <2>1, <3>2
    <3> QED
      BY <1>2, <3>3, <3>4
  <2>6. /\ rest' \in Nat /\ rest' <= request[At + 1].size
        /\ placed' + rest' + Before(tr)' = Total[At + 1]
        /\ placed' + left' = SumTo(slices[b])[1]
        /\ left' <= slices[b][1].size
    <3>1. rest' \in Nat /\ rest' <= request[At + 1].size
            /\ Total[At + 1] = Total[At] + rest'
      BY <1>5, <2>1
    <3>2. placed' = 0 /\ left' = slices[b][1].size
      BY <1>9
    <3>3. /\ 0 + rest' + Total[At] = Total[At] + rest'
          /\ 0 + left' = left' /\ left' <= left'
      <4>1. \A x, y \in Nat : 0 + x + y = y + x /\ 0 + x = x /\ x <= x
        OBVIOUS
      <4>2. rest' \in Nat /\ left' \in Nat /\ Total[At] \in Nat
        BY <1>4, <2>4, <3>1
      <4> QED
        BY <4>1, <4>2, Zenon
    <3> QED
      BY <2>4, <2>5, <3>1, <3>2, <3>3
  <2>7. CursorsOK'
    <3>1. tr' = b /\ cur' = 1 /\ next' = 1 /\ b \in DOMAIN transfers
      BY <1>9, <2>1
    <3> HIDE DEF b
    <3> QED
      BY <1>1, <1>2, <2>2, <2>4, <2>6, <3>1 DEF CursorsOK
  <2>8. /\ {cur', left', rest', placed'} \subseteq Nat
        /\ tr' \in Nat \ {0} /\ next' \in Nat \ {0}
    <3>1. left' \in Nat /\ rest' \in Nat
      BY <2>4, <2>6
    <3>2. cur' \in Nat /\ placed' \in Nat
      BY <1>9
    <3>3. tr' \in Nat \ {0} /\ next' \in Nat \ {0}
      <4>1. tr \in Nat
        BY <1>4
      <4>2. tr + 1 \in Nat \ {0}
        BY <4>1
      <4> QED
        BY <1>9, <4>2
    <3> QED
      BY <3>1, <3>2, <3>3
  <2> QED
    BY <2>3, <2>7, <2>8
<1>10. CASE /\ Take = rest /\ next = Len(transfers[tr].sizes)
           /\ tr = Len(transfers)
           /\ phase' = "done" /\ tr' = tr /\ next' = 1
           /\ rest' = 0
           /\ cur' = NextCur /\ left' = NextLeft - Take
           /\ placed' = placed + Take
  <2>1. At = Len(request)
    BY <1>1, <1>10, NextRange
  <2>2. RangesAgree /\ SlicesAgree
    BY <1>10, <2>1, LastRangeAgrees, LastTransferSlices
  <2>3. left' \in Nat /\ placed' \in Nat
    BY <1>3, <1>4, <1>10
  <2> QED
    BY <1>3, <1>4, <1>10, <2>2, <2>3
<1> QED
  BY <1>7, <1>8, <1>9, <1>10, ConsumeFacts

(* A task keeps the invariant, wherever the loops go next. *)
LEMMA ConsumeInv ==
  ASSUME IInv, Consume
  PROVE  IInv'
<1>1. /\ phase = "build" /\ phase' \in {"build", "done"}
      /\ tasks' = Append(tasks, Placing)
      /\ UNCHANGED <<request, total, transfers, slices, workload, consumed>>
      /\ UNCHANGED assigned
  BY ConsumeFacts
<1>2. Covered' = Covered
  BY <1>1 DEF Covered
<1>3. Coalesced'
  BY <1>1, <1>2, SamePlan
<1>4. TypeOK'
  <2>1. tasks' \in Seq(Task)
    <3>1. tasks \in Seq(Task) /\ Placing \in Task
      BY <1>1, PlacingFacts DEF IInv, TypeOK, WorkTypeOK
    <3> QED
      BY <1>1, <3>1, AppendProperties
  <2> QED
    BY <1>1, <2>1, ConsumeAgrees DEF IInv, TypeOK, PlanTypeOK, WorkTypeOK
<1>5. Assigned'
  <2>1. ASSUME NEW i \in DOMAIN transfers
        PROVE  SlicesCover(i)'
    <3>1. SlicesCover(i)
      BY <1>1 DEF IInv, Assigned
    <3>2. Sliced(i)' = Sliced(i) /\ phase' # "assign" /\ phase # "assign"
      BY <1>1 DEF Sliced
    <3> QED
      BY <1>1, <3>1, <3>2, SameShares DEF SlicesCover
  <2> QED
    BY <1>1, <2>1 DEF IInv, Assigned
<1>6. Built'
  <2>1. /\ \A a \in DOMAIN request' : RangeTiled(a)'
        /\ \A i \in DOMAIN slices' : \A j \in DOMAIN slices'[i] :
             SliceFilled(i, j)'
    BY ConsumeAgrees, StillTiled
  <2>2. phase' = "build" => CursorsOK'
    BY ConsumeAgrees
  <2> QED
    BY <1>1, <2>1, <2>2 DEF Built, CursorsOK
<1> QED
  BY <1>3, <1>4, <1>5, <1>6 DEF IInv

-----------------------------------------------------------------------------
(* The theorems *)

(* A step that changes nothing. *)
LEMMA StutterInv ==
  ASSUME IInv, UNCHANGED vars
  PROVE  IInv'
<1>1. /\ UNCHANGED <<request, phase, next, tr, total, transfers, slices>>
      /\ UNCHANGED <<workload, consumed, assigned, cur, left, rest, placed>>
      /\ UNCHANGED tasks
  BY DEF vars, coalesceVars, assignVars, buildVars
<1>2. /\ Covered' = Covered /\ Total' = Total
      /\ NumWorkloads' = NumWorkloads
      /\ \A i : /\ Start(i)' = Start(i) /\ From(i)' = From(i)
                /\ Before(i)' = Before(i) /\ Sliced(i)' = Sliced(i)
      /\ \A w : Target(w)' = Target(w) /\ Share(w)' = Share(w)
      /\ \A a : IndexInFile(a)' = IndexInFile(a)
  <2>1. Covered' = Covered
    BY <1>1 DEF Covered
  <2>2. \A i : Start(i)' = Start(i)
    BY <1>1, SameStart
  <2>3. \A i : From(i)' = From(i)
    BY <1>1, <2>1, <2>2 DEF From
  <2>4. Total' = Total /\ \A a : IndexInFile(a)' = IndexInFile(a)
    BY <1>1, SameRequest
  <2>5. \A i : Before(i)' = Before(i)
    BY <2>3, <2>4 DEF Before
  <2>6. \A i : Sliced(i)' = Sliced(i)
    BY <1>1 DEF Sliced
  <2> QED
    BY <1>1, <2>1, <2>2, <2>3, <2>4, <2>5, <2>6, SameShares
<1>3. TypeOK' /\ Coalesced'
  <2>1. TypeOK'
    BY <1>1 DEF IInv, TypeOK, PlanTypeOK, WorkTypeOK
  <2>2. \A i, a, n : Covers(i, a, n)' = Covers(i, a, n)
    BY <1>1, <1>2 DEF Covers
  <2>3. Coalesced'
    BY <1>1, <1>2, <2>2 DEF IInv, Coalesced
  <2> QED
    BY <2>1, <2>3
<1>4. Assigned'
  <2>1. \A i : SlicesCover(i)' = SlicesCover(i)
    BY <1>1, <1>2 DEF SlicesCover
  <2>2. /\ Target(workload)' = Target(workload)
        /\ Share(workload)' = Share(workload)
        /\ Before(tr)' = Before(tr)
    BY <1>1, <1>2 DEF Target, Share, Before, From, Start
  <2> QED
    BY <1>1, <1>2, <2>1, <2>2 DEF IInv, Assigned
<1>5. Built'
  <2>1. At' = At /\ Before(tr)' = Before(tr)
    <3>1. Start(tr)' = Start(tr) /\ Before(tr)' = Before(tr)
      BY <1>1, <1>2 DEF Start, Before, From
    <3> QED
      BY <1>1, <3>1 DEF At
  <2>2. \A a : RangeTiled(a)' = RangeTiled(a)
    BY <1>1, <1>2, <2>1 DEF RangeTiled, InTasks, TasksOfRange, Tile, TaskBytes
  <2>3. \A i, j : SliceFilled(i, j)' = SliceFilled(i, j)
    BY <1>1 DEF SliceFilled, InBatch, TasksOfBatch, Tile, TaskBytes
  <2> QED
    BY <1>1, <1>2, <2>1, <2>2, <2>3 DEF IInv, Built
<1> QED
  BY <1>3, <1>4, <1>5 DEF IInv

(* The invariant holds in every state. *)
THEOREM Invariant == Spec => []IInv
<1>1. ASSUME IInv, [Next]_vars
      PROVE  IInv'
  <2>1. CASE CoalesceRange
    BY <1>1, <2>1, CoalesceInv
  <2>2. CASE CoalesceOverflows
    BY <1>1, <2>2, OverflowInv
  <2>3. CASE StartAssign
    BY <1>1, <2>3, StartAssignInv
  <2>4. CASE AssignSlice
    BY <1>1, <2>4, AssignSliceInv
  <2>5. CASE NextWorkload
    BY <1>1, <2>5, NextWorkloadInv
  <2>6. CASE StartBuild
    BY <1>1, <2>6, StartBuildInv
  <2>7. CASE Consume
    BY <1>1, <2>7, ConsumeInv
  <2>8. CASE Finished \/ UNCHANGED vars
    BY <1>1, <2>8, StutterInv DEF Finished
  <2> QED
    BY <1>1, <2>1, <2>2, <2>3, <2>4, <2>5, <2>6, <2>7, <2>8 DEF Next, Step
<1> QED
  BY InitInv, <1>1, PTL DEF Spec

(* The checks of the code hold, and what it refuses cannot be counted: the *)
(* tasks are of workloads that async_request makes, the iterator of a      *)
(* batch does not run past its last task, every transfer is covered, and   *)
(* a request is rejected only if its bytes are more than a size_t counts.  *)
THEOREM ChecksCorrect == Spec => []ChecksAreRight
<1> SUFFICES IInv => ChecksAreRight
  BY Invariant, PTL
<1> SUFFICES ASSUME IInv
             PROVE  ChecksAreRight
  OBVIOUS
<1>1. ASSUME NEW i \in DOMAIN slices, NEW j \in DOMAIN slices[i]
      PROVE  slices[i][j].workload < NumWorkloads
  <2>1. phase \notin {"coalesce", "rejected"}
    <3>1. phase \in {"coalesce", "rejected"} => slices = <<>>
      BY DEF IInv, Assigned
    <3>2. DOMAIN <<>> = {}
      OBVIOUS
    <3> QED
      BY <3>1, <3>2
  <2>2. phase \in {"assign", "build", "done"}
    BY <2>1 DEF IInv, TypeOK, PlanTypeOK
  <2>3. SlicesCover(i)
    BY <2>2 DEF IInv, Assigned
  <2> QED
    BY <2>3 DEF SlicesCover
<1>2. phase = "build" /\ Advances => cur < Len(slices[tr])
  BY AdvanceFacts
<1>3. ASSUME phase \in {"build", "done"}, NEW i \in DOMAIN transfers
      PROVE  slices[i] # <<>> /\ SumSizes(slices[i]) = transfers[i].size
  <2>1. SlicesCover(i) /\ phase # "assign"
    BY <1>3 DEF IInv, Assigned
  <2> QED
    BY <2>1 DEF SlicesCover, Sliced
<1>4. total <= MaxBytes
  BY DEF IInv, Coalesced
<1>5. ASSUME phase = "rejected"
      PROVE  SumSizes(request) > MaxBytes
  <2>1. /\ request \in Requests /\ next \in Nat \ {0}
        /\ total = Total[next - 1]
        /\ next <= Len(request) /\ total + request[next].size > MaxBytes
    BY <1>5 DEF IInv, TypeOK, PlanTypeOK, Coalesced, Covered
  <2>2. /\ Len(request) \in Nat /\ DOMAIN request = 1 .. Len(request)
        /\ MaxBytes \in Nat
    BY <2>1, RequestFacts
  <2>3. /\ next \in DOMAIN request
        /\ next \in 0 .. Len(request) /\ Len(request) \in 0 .. Len(request)
    BY <2>1, <2>2
  <2>4. /\ Total[next] = Total[next - 1] + request[next].size
        /\ Total[next] <= Total[Len(request)]
        /\ Total[next] \in Nat /\ Total[Len(request)] \in Nat
    BY <2>1, <2>3, TotalFacts
  <2>5. SumSizes(request) = Total[Len(request)]
    BY DEF SumSizes, Total
  <2>6. Total[next] > MaxBytes
    BY <2>1, <2>4
  <2> QED
    BY <2>2, <2>4, <2>5, <2>6
<1> QED
  BY <1>1, <1>2, <1>3, <1>4, <1>5 DEF ChecksAreRight

(* The plan is exact: the tasks of each range tile it, those of each batch *)
(* tile the piece it reads, and both put each byte where it belongs.       *)
THEOREM PlanCorrect == Spec => []PlanIsExact
<1> SUFFICES IInv => PlanIsExact
  BY Invariant, PTL
<1> SUFFICES ASSUME IInv, phase = "done"
             PROVE  PlanIsExact
  BY DEF PlanIsExact, RangesAreTiled, SlicesAreFilled
<1>1. ASSUME NEW a \in DOMAIN request
      PROVE  /\ TasksOfRange(a) # {}
             /\ \A k \in TasksOfRange(a) :
                  tasks[k].dst + request[a].offset
                    = request[a].dst + tasks[k].offset
             /\ Tile(TasksOfRange(a), request[a].offset, request[a].size)
  <2>1. RangeTiled(a) /\ InTasks(a) = request[a].size
    BY DEF IInv, Built, InTasks
  <2> QED
    BY <2>1 DEF RangeTiled
<1>2. ASSUME NEW i \in DOMAIN slices, NEW j \in DOMAIN slices[i]
      PROVE  /\ \A k \in TasksOfBatch(i, j) :
                  tasks[k].dst + slices[i][j].offset
                    = slices[i][j].dst + tasks[k].offset
             /\ Tile(TasksOfBatch(i, j), slices[i][j].offset,
                     slices[i][j].size)
  <2>1. SliceFilled(i, j) /\ InBatch(i, j) = slices[i][j].size
    BY DEF IInv, Built, InBatch
  <2> QED
    BY <2>1 DEF SliceFilled
<1>3. RangesAreTiled
  BY <1>1 DEF RangesAreTiled
<1>4. SlicesAreFilled
  BY <1>2 DEF SlicesAreFilled
<1> QED
  BY <1>3, <1>4 DEF PlanIsExact

=============================================================================
